CONSTANTS
  a = a
  b = b
  e = e
  Tokens <- AllTokens
  Eog <- EndTokens
  Prompts <- ShortAndLong
  Targets <- TableModels
  NPredict = 4
  BatchSize = 5
  Lookaheads <- AnyLookahead
  SizeValues = 65536
SPECIFICATION FairSpec
INVARIANTS
  NeverAborts
  GreedyTokens
  RoundsPay
PROPERTIES
  GreedySpec
  Ends
CHECK_DEADLOCK FALSE
