SPECIFICATION Spec
CONSTANTS
  None = None
  Slaves = {s1, s2}
  Roads = {"sync", "bgsave"}
  MayFail = {}
  MaxWrites = 1
  MaxPid = 3
INVARIANTS
  EveryChildIsKnown
CHECK_DEADLOCK FALSE
