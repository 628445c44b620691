SPECIFICATION Spec
CONSTANTS
  Sizes = {1, 2}
  MaxCommands = 3
  MaxPly = 3
  Kinds = {{"time", "depth"}, {"infinite"}, {"ponder", "time"}, {"ponder", "mate"}, {"infinite", "nodes"}}
INVARIANT WizardSearchesOwnGo
PROPERTIES WizardHolds WizardGoesOn
CHECK_DEADLOCK FALSE
