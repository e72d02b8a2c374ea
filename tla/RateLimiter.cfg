CONSTANTS
  Keys = {k1}
  WindowMs = 3
  MaxHits = 2
  MaxTime = 7
  MaxBurst = 3
SPECIFICATION Spec
INVARIANTS
  ForgetsOnlyTheOld
  WindowBound
PROPERTY RefusedWhenFull
CHECK_DEADLOCK FALSE
