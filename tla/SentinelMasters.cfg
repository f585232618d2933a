SPECIFICATION Spec
CONSTANTS
  Nodes = {n1, n2}
  MaxSessions = 3
  MaxFaults = 1
INVARIANTS
  AtMostOneMaster
CHECK_DEADLOCK FALSE
