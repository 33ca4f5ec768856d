SPECIFICATION FairSpec
CONSTANTS
  t1 = t1
  t2 = t2
  t3 = t3
  Threads = {t1}
  NoThread = NoThread
  PoolSize = 2
  MaxOutages = 1
  MaxOps = 2
  Guarded = {t1}
PROPERTIES
  ConnectReturns
CHECK_DEADLOCK FALSE
