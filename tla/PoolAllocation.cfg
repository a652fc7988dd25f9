CONSTANTS
  A = A
  B = B
  C = C
  l1 = l1
  l2 = l2
  Catalog <- ThreeModels
  Listed <- TwoLaunchers
  MaxPipelines <- TwoOneNone
  RequiredNodeCount <- AllSharded
  RequestsPerPipeline = 2
  MaxDemand = 3
SPECIFICATION Spec
INVARIANTS
  NoPreemption
  NoDoubleClaim
  Planned
  BusiestFirst
CHECK_DEADLOCK FALSE
