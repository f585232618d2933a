SPECIFICATION Master
CONSTANTS
  c1 = c1
  c2 = c2
  k1 = k1
  k2 = k2
  r1 = r1
  r2 = r2
  None = None
  Clients <- TwoClients
  Keys <- TwoKeys
  Dbs = {0, 1}
  Commands <- AllCommands
  MaxQueue = 2
  Slaves <- TwoSlaves
  Roads = {"sync", "bgsave", "cron", "rewrite"}
  MayFail = {"fork", "child"}
  MaxWrites = 3
  MaxPid = 3
SYMMETRY Symmetry
INVARIANTS
  TouchedIsDirty
  WatcherIsListed
  SlavesInOrder
PROPERTIES
  ExecIsSafe
CHECK_DEADLOCK FALSE
