\* The array holds three blocks of one unit, the last of which may be one of
\* three: where a realloc of the first moves it.  Units of four bytes.
CONSTANTS
  HeapSize = 20
  GuardSize = 4
  EndSize = 1
  Alignment = 2
  Sizes = {0, 1, 3}
  CommandLines <- MCCommandLines
  Number <- MCNumber
  Program <- MCProgram
  UNITY_MAX_POINTERS = 2
  Pointers = {p}
  Values = {0, 1}
  MaxCalls = 5
SPECIFICATION Spec
CHECK_DEADLOCK FALSE
INVARIANT BlocksDisjoint
INVARIANT CountExact
INVARIANT PassesOnlyClean
INVARIANT PointersRestored
INVARIANT ExitCodeExact
PROPERTY VerdictOwn
