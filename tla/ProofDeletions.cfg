SPECIFICATION ProofSpec
CONSTANTS
  MaxVar = 4
  Formula <- LinesFormula
  Parts = {"lines"}
  MaxId = 18
INVARIANT DeletionsKnown
CHECK_DEADLOCK FALSE
