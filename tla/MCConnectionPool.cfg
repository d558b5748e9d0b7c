SPECIFICATION PoolSpec
CONSTANTS
  t1 = t1
  t2 = t2
  t3 = t3
  Threads <- MCThreads
  PoolSize = 2
  NoConn = NoConn
INVARIANTS
  PoolSafe
PROPERTIES
  PopReturns
