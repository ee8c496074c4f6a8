SPECIFICATION Spec
CONSTANTS
  Problems <- MCProblems
  Networks <- MCNetworks
PROPERTIES PrunesOnlySeen PrunesAllSeenUntied
CHECK_DEADLOCK FALSE
