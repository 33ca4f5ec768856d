SPECIFICATION Spec
CONSTANTS
  w1 = w1
  w2 = w2
  Workers = {w1, w2}
  Users = {"ann"}
  SessionTTL = 1
  TokenLife = 2
  MaxTime = 3
  MaxDrops = 2
  MaxLost = 1
SYMMETRY WorkerSymmetry
INVARIANTS
  TypeOK
  AcceptedWereSigned
  SessionRequiredWhileConnected
  FreshTokenHonoured
CHECK_DEADLOCK FALSE
