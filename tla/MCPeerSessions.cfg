SPECIFICATION Spec
CONSTANTS
  r = r
  l = l
  MaxSessions = 3
  Lists = {r, l}
  Blobs = {b1, b2}
  NoHash = none
  Root = r
  Items <- TreeItems
  NumForSupport = 2
  MaxEvents = 3
INVARIANTS TypeOK HeldAtFront NoneForgotten ZenithFindsAll
PROPERTIES Settles
