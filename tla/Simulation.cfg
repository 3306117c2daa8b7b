SPECIFICATION FairSpec
CONSTANTS
  MaxVar = 8
  EagerSubsumeLim = 1
  Inputs <- AllInputs
INVARIANTS ReplayExact RefutationReached WatchesExact LemmasAbsorbed ReasonsHold AssertionsHold CopiesAgree LearnedEntailed PropagationComplete
PROPERTIES UnwrittenKeepsCopyOne LemmaFinished
CHECK_DEADLOCK FALSE
