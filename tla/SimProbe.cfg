SPECIFICATION FairSpec
CONSTANTS
  MaxVar = 5
  EagerSubsumeLim = 1
  Inputs <- ProbeInputs
INVARIANTS ProbedUndefined
CHECK_DEADLOCK FALSE
