CONSTANTS
  Requests = {r1, r2}
  word = word
  Done = Done
  Pieces <- AllPieces
  Cases <- AllCases
  NoRequest = NoRequest
SPECIFICATION FairSpec
INVARIANTS
  OneEnding
  CompleteIsWhole
  OnlySafeForwarded
  BadGatewayMarks
PROPERTIES
  EveryRequestEnds
CHECK_DEADLOCK FALSE
