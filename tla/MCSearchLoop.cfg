SPECIFICATION Spec
CONSTANTS
  a = a b = b c = c z = z d = d
  Network <- MCNetwork
  Initial = a
  Abstract <- MCAbstract
  Dead = d
  Spaces <- MCSpaces
  Garbage <- AnyGarbage
INVARIANTS PointersAreAlive NothingLeaks WayStaysOpen ResultCorrect ExpandedOnce
PROPERTIES Terminates
CHECK_DEADLOCK FALSE
