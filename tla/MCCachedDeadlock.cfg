SPECIFICATION Spec
CONSTANTS
  t1 = t1
  t2 = t2
  Threads <- MCThreads
  NoThread = NoThread
  MaxVersion = 3
  PoolSize = 1
  NoConn = NoConn
PROPERTIES
  GetReturns
