SPECIFICATION Fair
CONSTANTS
  t1 = t1
  t2 = t2
  s1 = s1
  s2 = s2
  None = None
  Slaves <- TwoSlaves
  Roads = {"sync", "rewrite"}
  MayFail = {"fork"}
  MaxWrites = 2
  MaxPid = 4
INVARIANTS
  MissesOnlyDuringSaves
  WaiterHasSaver
  BufferOnlyWhileSaving
  AllTypeOK
  LogsAreWhole
PROPERTIES
  WaiterComesOnline
  TimersAreOnTime
  BuffersAreFifos
  ThreadsGoOn
CHECK_DEADLOCK FALSE
