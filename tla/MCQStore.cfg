SPECIFICATION Keyspace
CONSTANTS
  key1 = key1
  key2 = key2
  field1 = field1
  Whole = Whole
  Keys <- TwoKeys
  Members <- TwoMembers
  Fields <- OneField
  MaxInt = 1
  Inputs <- OneText
  MaxCheck = 1
  MaxSync = 1
  MaxValue = 2
  MaxTime = 2
  MaxRestarts = 1
INVARIANTS
  AllTypeOK
  DataIsKept
  ChangedIsTold
  DeadlinesAreOwned
SYMMETRY Symmetry
CHECK_DEADLOCK FALSE
