SPECIFICATION HistorySpec
CONSTANTS
  Places = {1, 2, 3}
  StartClocks = {0}
  MaxEra = 1
  MaxGame = 6
  MaxPly = 1
  RootStates = 5
INVARIANTS RootIsTheGame
