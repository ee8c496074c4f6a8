SPECIFICATION FairSpec
CONSTANTS
  State <- MCState
  Problems <- MCProblems
  MaxCost = 20
  MaxDepth = 10
INVARIANTS AutomatonSound ResultExact
PROPERTY SearchEnds
CHECK_DEADLOCK FALSE
