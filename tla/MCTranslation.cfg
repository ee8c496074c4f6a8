SPECIFICATION Spec
CONSTANTS
  Problems <- MCProblems
  OptionsFor <- MCOptionsFor
  maxpgb = 4
  MaxPlan = 10
INVARIANTS NothingLost NeverStuck PrintedIsDecomposition BoundIsNeeded
PROPERTY ImplementsDecomposition
CHECK_DEADLOCK FALSE
