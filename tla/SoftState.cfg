CONSTANTS
  e1 = e1
  e1s = e1s
  e2 = e2
  e2s = e2s
  Endpoints <- TwoEndpoints
  Slashed <- WithSlash
  Timeout = 2
  Window = 3
  MinSamples = 2
  MaxIds = 3
  MaxVotes = 3
  MaxRequests = 3
SPECIFICATION Spec
INVARIANTS
  TypeOK
  OneEntryPerEndpoint
  TrustSurvives
  DemandIsWindowed
PROPERTIES
  EagerSpec
