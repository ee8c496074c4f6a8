SPECIFICATION Spec
CONSTANTS
  Problems <- SharedProblem
  Networks <- SharedNetworks
PROPERTIES PrunesOnlySeen
CHECK_DEADLOCK FALSE
