SPECIFICATION FairSpec
CONSTANTS
  t1 = t1
  t2 = t2
  t3 = t3
  Threads = {t1, t2, t3}
  NoThread = NoThread
  PoolSize = 2
  MaxOutages = 0
  MaxOps = 6
  Guarded = {t1, t2, t3}
INVARIANTS
  NoFault
PROPERTIES
  OperationsReturn
CHECK_DEADLOCK FALSE
