SPECIFICATION Spec
CONSTANTS
  w1 = w1  w2 = w2  closer1 = closer1  closer2 = closer2  k1 = k1  k2 = k2
  NoConn = NoConn
  Writers <- TwoWriters
  Closers <- NoClosers
  Conns <- TwoConns
  MaxRetries = 2

INVARIANT AckedDurable
CHECK_DEADLOCK FALSE
