SPECIFICATION Spec
CONSTANTS
  Session = {s1, s2}
  Object = {1, 2}
  Instance = {1, 2}
  Kinds = {5}
  KeyedTypes = {2, 3}
  Cascades = FALSE
  ScanAcross = FALSE
  ForcedInTx = FALSE
  MaxAttempts = 2
  MaxHandles = 2
  MaxTran = 3
  MaxLevel = 2

INVARIANTS LocksCoexist NoDirtyOverwrite
PROPERTY WaitingEnds
