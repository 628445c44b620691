SPECIFICATION Spec
CONSTANTS
  Helpers = {1}
  MaxDepth = 2
  DepthLimit = 1
  MaxGo = 1
  MaxPending = 1
  Kinds = {"infinite"}
  OwnBook = FALSE
  Eager = TRUE
  Abandons = FALSE
CHECK_DEADLOCK FALSE
PROPERTIES QuitExits
