CONSTANTS
  A = A
  B = B
  Models = {A, B}
  NoModel = NoModel
  Catalogs <- TwoCatalogs
  MinActiveNodes <- MinNodes
  RuleFiles <- Files
  Tokens <- SomeTokens
  Prompts <- Texts
  ChatHistoryWindow = 2
  Panels = {"status", "chat", "check"}
  MaxNodes = 1
  MaxPeerNodes = 1
  MaxPolls <- PollsPerPanel
  MaxChanges <- ChangesPerPanel
  MaxPieces = 2
  MaxEntries = 3
  MaxChecks = 2
SPECIFICATION FairSpec
INVARIANTS
  ScreenShowsHistory
  EveryTurnAnswered
  CutIsFlagged
  OneModelPerConversation
  VerdictIsExact
PROPERTIES
  AnswersCome
  StatusConverges
