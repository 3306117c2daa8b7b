SPECIFICATION Spec
CONSTANTS
  Var <- Var5
  Inputs <- Files
INVARIANTS
  TypeOK
  Sound
  TrailReasons
  ResolventFalsified
  UnsatCorrect
  KeepsFormula
PROPERTIES
  NewClauseNotSubsumed
  ConflictHandled
CHECK_DEADLOCK FALSE
