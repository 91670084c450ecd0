SPECIFICATION Spec
CONSTANTS
  Page <- Pages4
  Value = {v0}
  Dropped = Dropped
  MaxItems = 3
  PerRegion = 4
  SlotCounts = {1}
  MaxCost = 1
INVARIANTS NeverHalts
CHECK_DEADLOCK FALSE
