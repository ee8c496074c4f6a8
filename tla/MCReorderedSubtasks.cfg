SPECIFICATION Spec
CONSTANTS
  Problems <- ReorderedProblems
  OptionsFor <- OnlyChosen
  maxpgb = 4
  MaxPlan = 9
INVARIANT PlansAreValid
CHECK_DEADLOCK FALSE
