SPECIFICATION FairSpec
CONSTANTS
  c1 = c1
  c2 = c2
  c3 = c3
  w1 = w1
  w2 = w2
  ann = ann
  bob = bob
  Ids = {c1, c2, c3}
  Users = {ann, bob}
  NoUser = NoUser
  MAX_CONNECTIONS = 2
  Workers = {w1, w2}
  WorkerOf <- Pinned
  RelockOutcomes = {"wait", "pass"}
  MaxMessages = 2
  Budgets <- AllBudgets
INVARIANTS
  TypeOK
  NothingUnsent
  StrangersNeverReachRedis
  LossesAccounted
  QueueInOrder
  QueuesExpire
  OnlineHasConnection
  PresenceKept

  
  
  
CHECK_DEADLOCK FALSE
