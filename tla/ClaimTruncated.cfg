CONSTANTS
  A = A
  B = B
  Models = {A, B}
  NoModel = NoModel
  Catalogs <- TwoCatalogs
  MinActiveNodes <- MinNodes
  RuleFiles <- Files
  Tokens <- SomeTokens
  Prompts <- Texts
  ChatHistoryWindow = 2
  Panels = {"chat"}
  MaxNodes = 1
  MaxPeerNodes = 1
  MaxPolls <- PollsPerPanel
  MaxChanges <- ChangesPerPanel
  MaxPieces = 2
  MaxEntries = 3
  MaxChecks = 2
SPECIFICATION Spec
INVARIANTS
  NoCutPassesForWhole
