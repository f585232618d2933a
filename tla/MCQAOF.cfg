SPECIFICATION FairSpec
CONSTANTS
  Capacity = 2
  Bytes <- ByteSet
  Dbs = {0, 1}
  Sizes = {2}
  MaxWrites = 3
  MaxRewrites = 1
  MaxCrashes = 1
INVARIANTS
  InOrder
  FileIsAPrefix
PROPERTIES
  KeepsALog
  FileCatchesUp
CHECK_DEADLOCK FALSE
