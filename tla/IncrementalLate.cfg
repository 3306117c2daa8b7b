SPECIFICATION Spec
CONSTANTS
  MaxVar = 3
  MaxFlips = 0
  Inputs <- LateInputs
INVARIANT AnswersRight
CHECK_DEADLOCK FALSE
