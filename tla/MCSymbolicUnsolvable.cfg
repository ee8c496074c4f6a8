SPECIFICATION Spec
CONSTANTS
  State <- MCState
  Problems <- LeftRecursive
  MaxCost = 20
  MaxDepth = 10
INVARIANTS UnsolvableIsTrue
CHECK_DEADLOCK FALSE
