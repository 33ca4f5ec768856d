SPECIFICATION Spec
CONSTANTS
  c1 = c1
  c2 = c2
  c3 = c3
  ann = ann
  bob = bob
  Ids = {c1, c2, c3}
  Users = {ann, bob}
  NoUser = NoUser
  MAX_CONNECTIONS = 2
SYMMETRY PoolSymmetry
INVARIANTS
  TypeOK
  CapacityRespected
  DeliveredToOwner
  NoNullEntry
  FoundUntilOneCloses
CHECK_DEADLOCK FALSE
