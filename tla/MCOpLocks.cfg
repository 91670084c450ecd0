SPECIFICATION Spec
CONSTANTS
  Session = {s1, s2}
  Object = {1}
  Instance = {1, 2}
  Kinds = {3, 5, 6, 7}
  KeyedTypes = {}
  Cascades = TRUE
  ScanAcross = FALSE
  ForcedInTx = FALSE
  MaxAttempts = 2
  MaxHandles = 3
  MaxTran = 4
  MaxLevel = 1
SYMMETRY Sessions
INVARIANTS TypeOK StoresOverFetched WrittenStayLocked
