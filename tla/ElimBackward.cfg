SPECIFICATION InprocessingSpec
CONSTANTS
  MaxVar = 10
  IdWord = 64
  RestoreAll = 0
  Restoreflush = FALSE
  GateKinds <- AllGates
  ElimXorLim = 5
  ElimBound = 0
  ElimClsLim = 6
  ElimOccLim = 10
  BlockMinClsLim = 2
  BlockMaxClsLim = 3
  BlockOccLim = 3
  CoverMinClsLim = 2
  CoverMaxClsLim = 4
  CoverProof = FALSE
  SubsumeClsLim = 4
  TernaryOccLim = 4
  Inputs <- BackwardInputs
INVARIANT ModelsExtend
