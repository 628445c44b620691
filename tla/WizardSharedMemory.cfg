SPECIFICATION Spec
CONSTANTS
  Process = {"p1", "p2", "p3"}
  MaxStarts = 3
  MaxFull = 1
  MaxKills = 1
INVARIANTS SharesInitialised LeavesNothing
PROPERTY OpensAndCloses
CHECK_DEADLOCK FALSE
