CONSTANTS
  A = A
  B = B
  Models = {A, B}
  Launchers = {l1, l2}
  Nodes = {n1, n2}
  Requests = {r1}
  PipelineIds = {p1, p2, p3, p4}
  Manager = Manager
  NoProc = NoProc
  NoModel = NoModel
  NoLauncher = NoLauncher
  NoId = NoId
  NoEntry = NoEntry
  Serves <- ServesAll
  CatalogIndex <- CatalogOrder
  RequiredNodeCount <- TwoNodes
  MaxPipelines <- OnePipeline
  MaxOrphans = 0
  Faults = {}
SPECIFICATION Spec
INVARIANTS
  NeverKilledForAnother
SYMMETRY Symmetry
