CONSTANTS
  ModelCount = 2
  Interval = 3
  MaxLate = 1
  NodeTimeout = 10
  IdleGrace = 11
  SlowestCall = 2
  MaxFaults = 1
SPECIFICATION Spec
INVARIANTS
  FailedGoneSoon
  IdleGoneSoon
PROPERTIES
  HealthyStays
