SPECIFICATION Spec
CONSTANTS
  c1 = c1  c2 = c2  c3 = c3  u1 = u1  u2 = u2  e1 = e1  e2 = e2
  NoOne = NoOne
  Callers <- TwoCallers
  Uuids <- OneUuid
  Batches <- OneBatch
  MaxRetries = 2
  OtherWriters = FALSE

INVARIANT BatchAtomic
CHECK_DEADLOCK FALSE
