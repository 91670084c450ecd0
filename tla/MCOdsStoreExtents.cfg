SPECIFICATION Spec
CONSTANTS
  Session = {s1}
  NoSession = none
  PlainSession = {}
  Reader = {}
  Absent = absent
  Unset = unset
  StaleIds = FALSE
  Value = {1}
  Size = {1, 2}
  PageSize = 2
  MaxEntries = 3
  MaxData <- MCMaxData
  MaxTransData = 4
  MaxOps = 3
  MaxLevel = 2
  MaxTran = 3
INVARIANTS FreeListLinks FreeListReachesAll ExtentsDisjoint StoredWhereLogged EntryNamesLastOp
