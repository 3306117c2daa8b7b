SPECIFICATION ProofSpec
CONSTANTS
  MaxVar = 4
  Formula <- LinesFormula
  Parts = {"lines", "falsified", "conflict", "drup", "lrat"}
  MaxId = 20
INVARIANTS ClausesInProof WatchesJustified ChainsAccepted
PROPERTY CheckerPromises
CHECK_DEADLOCK FALSE
