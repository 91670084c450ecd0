SPECIFICATION Spec
CONSTANTS
  Value = {1}
  Size = {1}
  PageEntries = 2
  PageCells = 3
  MaxEntries = 2
  MaxData = 3
  MaxOps = 2
  MaxLevel = 2
  MaxLog = 3
  MaxCrashes = 1
  MaxAgain = 1
  Plain = TRUE
  CrashIn = {"flush"}
  FreshLog = FALSE
  Objects0 <- OneObject
INVARIANTS FreeListReachesAll
