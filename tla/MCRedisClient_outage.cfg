SPECIFICATION Spec
CONSTANTS
  t1 = t1
  t2 = t2
  t3 = t3
  Threads = {t1, t2, t3}
  NoThread = NoThread
  PoolSize = 2
  MaxOutages = 2
  MaxOps = 4
  Guarded = {t1, t2}
SYMMETRY ThreadSymmetry
INVARIANTS
  TypeOK
  SlotOwnership
  SubscriberRunsWhileConnected
  FaultNeedsRivalAndOutage
PROPERTIES
  PublishedPoolComplete
  LeasesSlots
CHECK_DEADLOCK FALSE
