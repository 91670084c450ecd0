SPECIFICATION Spec
CONSTANTS
  Session = {s1, s2}
  NoSession = none
  PlainSession = {s1}
  Reader = {s2}
  Absent = absent
  Unset = unset
  StaleIds = FALSE
  Value = {v1}
  Size = {1, 2}
  PageSize = 1
  MaxEntries = 2
  MaxData <- MCMaxData
  MaxTransData = 2
  MaxOps = 2
  MaxLevel = 2
  MaxTran = 3
INVARIANTS TypeOK LockedByWriter ReadsView
PROPERTIES ImplementsObjects MutexIsReleased
