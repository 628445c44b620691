SPECIFICATION PartsSpec
CONSTANTS
  Squares = {0, 1, 7, 9, 12, 27, 50}
  Unlimited = 100000
  Starts = {5, 60, 150}
  Incs = {0, 1, 3, 6, 40}
  Overheads = {0, 1, 3}
  Movestogo = {0, 1, 2, 60}
  MaxClock = 150
  Keys = {0, 1, 2}
  Depths = {1, 9}
  ClusterSize = 2
  UnsignedRange = 65536
  MaxSearches = 3
  MaxNested = 2
  Places = {1, 2, 3}
  StartClocks = {0, 97}
  MaxEra = 1
  MaxGame = 6
  MaxPly = 6
  RootStates = 6
INVARIANTS BudgetInClock NeverFlags IncrementCarries
INVARIANTS EmptiesLast OwnPosition
INVARIANTS RepetitionExact DrawnExactly RootIsTheGame
INVARIANTS MovesPicked TablebasesTrue NodesSound  NetworksLoaded
PROPERTIES FindsWhatItSaved
CHECK_DEADLOCK FALSE
