SPECIFICATION Spec
CONSTANTS
  MaxVar = 4
  MaxFlips = 1
  Inputs <- MCInputs
INVARIANTS AnswersRight CoreFails SearchHolds
CHECK_DEADLOCK FALSE
