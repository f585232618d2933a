SPECIFICATION Fair
CONSTANTS
  c1 = c1
  c2 = c2
  a = a
  b = b
  dst = dst
  None = None
  Clients <- TwoClients
  Keys <- ThreeKeys
  Commands <- AllCommands
  MaxPush = 2
  MaxQueue = 2
INVARIANTS
  AllTypeOK
  NobodyIsForgotten
  ElementsAreKept
  ReplayGivesTheLists
  TextsAreUnderstood
PROPERTIES
  TimedWaitEnds
  LoadsWhatWasSaved
  SubscribersAreServed
CHECK_DEADLOCK FALSE
