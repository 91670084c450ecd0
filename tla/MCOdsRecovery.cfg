SPECIFICATION Spec
CONSTANTS
  Value = {1, 2}
  Size = {1}
  PageEntries = 2
  PageCells = 3
  MaxEntries = 2
  MaxData = 3
  MaxOps = 2
  MaxLevel = 2
  MaxLog = 3
  MaxCrashes = 2
  MaxAgain = 1
  Plain = TRUE
  CrashIn = {}
  FreshLog = FALSE
  Objects0 <- OneObject
INVARIANTS TypeOK RecoversCommitted FreeListReachesAll ExtentsDisjoint
PROPERTIES RestoreAdvances
