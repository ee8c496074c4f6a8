SPECIFICATION FairSpec
CONSTANTS
  Problems <- MCProblems
  OptionsFor <- MCOptionsFor
  MaxPlan = 7
INVARIANTS AnalysisExact ImpliedAreBounds DeadEndsAreDead Admissible RelaxedPlanWorks CutIsLandmark
PROPERTY PassesEnd
CHECK_DEADLOCK FALSE
