SPECIFICATION Spec
CONSTANTS
  MaxVar = 3
  Formula <- MCFormula
  MaxAddr = 10
  MaxClauses = 5
  MaxCollections = 2
  Tier1 = 1
  Tier2 = 1
  Target = 50
INVARIANTS PointersHold PropagationHolds ClausesHold
CHECK_DEADLOCK FALSE
