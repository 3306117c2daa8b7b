SPECIFICATION Spec
CONSTANTS
  MaxVar = 3
  Reverses = {TRUE, FALSE}
  MaxBumped = 7
INVARIANTS QueueKept
PROPERTIES DecidesLatest RestartsReuseBest
CHECK_DEADLOCK FALSE

