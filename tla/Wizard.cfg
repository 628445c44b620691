SPECIFICATION Spec
CONSTANTS
  StartPositions <- Roots
  ShufflePlies = 7
  Evaluations = 2
INVARIANTS WizardCachesExact WizardMovesExact WizardReportsExact WizardSeeExact AccumulatorsExact
