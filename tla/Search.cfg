SPECIFICATION SearchSpec
CONSTANTS
  MaxVar = 3
  Inputs <- TwoFormulas
  Options <- ThreeOptions
  Forceable <- NotTwo
  MaxConflicts = 3
  MaxRephases = 2
INVARIANTS TargetReplays RestartsScheduled
PROPERTIES BestDecided
CHECK_DEADLOCK FALSE
