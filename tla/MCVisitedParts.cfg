SPECIFICATION PartsSpec
CONSTANTS
  Methods <- MCMethods
  initialTask = "top"
  MaxMethods = 2
  MaxSteps = 5
  v1 = v1 v2 = v2 v3 = v3 v4 = v4
  Key <- MCKey
  Val <- MCVal
  IntMin <- MCIntMin
  InitialSize = 1
  MaxEntries = 4
  Junk <- MCJunk
  W = 3
  Lengths = {1, 5, 7}
  Keys <- MCKeys
  Payload = {1, 2}
  MaxKeys = 3
INVARIANTS ClosureCorrect ReductionCorrect FlagsHold StaysReduced HeapOrder WellFormed
PROPERTIES ImplementsMinBag CallsReturn ImplementsMap
