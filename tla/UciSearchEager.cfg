SPECIFICATION Safety
CONSTANTS
  Helpers = {1, 2}
  MaxDepth = 2
  DepthLimit = 1
  MaxGo = 2
  MaxPending = 1
  Kinds = {"timed", "depth", "nodes", "infinite"}
  OwnBook = TRUE
  Eager = TRUE
  Abandons = TRUE
CHECK_DEADLOCK FALSE
INVARIANTS SharedStateQuiet AnswersInOrder NothingLeaks CleanExit
PROPERTIES ImplementsProtocolSafety
