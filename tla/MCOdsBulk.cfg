SPECIFICATION Spec
CONSTANTS
  t1 = t1
  t2 = t2
  t3 = t3
  i1 = i1
  i2 = i2
  NoThread = NoThread
  Thread <- MCThread
  Instance = {i1, i2}
  InstanceOf <- MCInstanceOf
  MaxLevel = 3
  MaxFailedOpens = 2
SYMMETRY ThreadSymmetry
INVARIANT TypeOK
INVARIANT OneBulkThread
INVARIANT HeaderHeldInBulk
INVARIANT FlushedBeforeRelease
PROPERTY ImplementsBulkLock
