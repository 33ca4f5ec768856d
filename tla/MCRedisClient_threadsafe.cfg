SPECIFICATION Spec
CONSTANTS
  t1 = t1
  t2 = t2
  t3 = t3
  Threads = {t1, t2}
  NoThread = NoThread
  PoolSize = 2
  MaxOutages = 1
  MaxOps = 4
  Guarded = {t1, t2}
INVARIANTS
  NoFault
CHECK_DEADLOCK FALSE
