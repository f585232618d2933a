SPECIFICATION Spec
CONSTANTS
  None = None
  Masters = {ma, mb}
  Conns = {i1, i2, i3}
  UsesAuth = TRUE
  MaxSlaveofs = 2
  MaxFails = 1
  MaxSends = 1
INVARIANTS
  NoAssertionFails
CHECK_DEADLOCK FALSE
