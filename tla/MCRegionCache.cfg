SPECIFICATION Spec
CONSTANTS
  Page <- Pages3
  Value = {v0, v1}
  Dropped = Dropped
  MaxItems = 2
  PerRegion = 2
  SlotCounts = {1, 2}
  MaxCost = 2
SYMMETRY Values
INVARIANTS TypeOK NothingLost CountsAgree
PROPERTIES ImplementsPages
CHECK_DEADLOCK FALSE
