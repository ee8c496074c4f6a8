CONSTANTS
  N = 5
  NoStep = NoStep
  Step <- MCStep
  Networks <- MCNetworks
SPECIFICATION FairSpec
INVARIANTS
  UnconstrainedAreSources
PROPERTIES
  AllProgressed
  ImplementsLinearization
