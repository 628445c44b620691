SPECIFICATION Spec
CONSTANTS
  StartPositions <- Roots
  MaxLine = 2
INVARIANTS CachesExact LegalMovesExact SeeExact EvaluationsExact BookExact
PROPERTIES PlaysByTheRules
