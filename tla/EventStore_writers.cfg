SPECIFICATION Spec
CONSTANTS
  c1 = c1  c2 = c2  c3 = c3  u1 = u1  u2 = u2  e1 = e1  e2 = e2
  NoOne = NoOne
  Callers <- ThreeCallers
  Uuids <- TwoUuids
  Batches <- TwoBatches
  MaxRetries = 2
  OtherWriters = TRUE
SYMMETRY Symmetry
INVARIANTS IInv AckedDurable FailedLeavesNothing LockNeverLeaks
PROPERTIES BoundLockExcludes
CHECK_DEADLOCK FALSE
