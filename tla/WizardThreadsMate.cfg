SPECIFICATION Spec
CONSTANTS
  Sizes = {1}
  MaxCommands = 2
  MaxPly = 2
  Kinds = {{"ponder", "mate"}}
PROPERTY HoldsForRelease
CHECK_DEADLOCK FALSE
