SPECIFICATION Spec
CONSTANTS
  Keys = {k1, k2}
  MaxSync = 1
  MaxValue = 2
  MaxTime = 2
  MaxRestarts = 1
INVARIANTS
  EvictedIsStored
CHECK_DEADLOCK FALSE
