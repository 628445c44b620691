SPECIFICATION Spec
CONSTANTS
  StartPositions <- BackRankKing
  MaxLine = 1
INVARIANTS CheckersExact
