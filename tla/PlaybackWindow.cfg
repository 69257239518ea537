SPECIFICATION Spec
CONSTANT MaxTime = 125
CHECK_DEADLOCK FALSE
INVARIANTS
  SearchedIsPlayed
  WindowKept
