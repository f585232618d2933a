SPECIFICATION Fair
CONSTANTS
  ma = ma
  mb = mb
  n1 = n1
  n2 = n2
  s1 = s1
  s2 = s2
  h1 = h1
  None = None
  Masters <- TwoMasters
  Conns <- ThreeConns
  UsesAuth = TRUE
  MaxSlaveofs = 2
  MaxFails = 1
  MaxSends = 1
  Room = 3
  MaxPackets = 3
  MaxGot = 2
  Nodes <- TwoNodes
  SentinelSessions = 3
  SentinelFaults = 2
  Clients = {1, 2}
  MaxRequests = 2
  Calls = {1, 2}
  Options <- TwoOptions
  MaxConns = 2
  MaxLeaves = 1
  ChainLast = 4
  ChainInner = {1}
  ChainSched = {2, 3}
  Members = {1, 2, 3}
  Needs = 2
  NetRoom = 1
  KernelSpace = 1
  NetRequests = 3
INVARIANTS
  AllTypeOK
  OnlineHoldsItsMaster
  WaitsForAnAskedMaster
  FormerMasterIsCut
  AnswersAreOwn
  SendsInOrder
  MasterIsLowest
  EndsOnce
PROPERTIES
  LinkComesUp
  PeersGoOn
CHECK_DEADLOCK FALSE
