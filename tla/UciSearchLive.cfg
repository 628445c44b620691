SPECIFICATION Spec
CONSTANTS
  Helpers = {1}
  MaxDepth = 2
  DepthLimit = 1
  MaxGo = 2
  MaxPending = 2
  Kinds = {"timed", "depth", "nodes", "infinite"}
  OwnBook = TRUE
  Eager = FALSE
  Abandons = FALSE
INVARIANTS CommandsHeard
PROPERTIES ImplementsProtocol Ends ReadyIsAnswered
