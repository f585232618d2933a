SPECIFICATION Spec
CONSTANTS
  c1 = c1
  c2 = c2
  a = a
  None = None
  Clients = {c1, c2}
  Keys = {a}
  Commands <- PushAndPop
  MaxPush = 1
  MaxQueue = 2
INVARIANTS
  NoAssertionFails
CHECK_DEADLOCK FALSE
