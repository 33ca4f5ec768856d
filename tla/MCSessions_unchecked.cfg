SPECIFICATION Spec
CONSTANTS
  w1 = w1
  w2 = w2
  Workers = {w1, w2}
  Users = {"ann"}
  SessionTTL = 1
  TokenLife = 3
  MaxTime = 2
  MaxDrops = 1
  MaxLost = 0
SYMMETRY WorkerSymmetry
INVARIANTS
  AcceptedHadSession
CHECK_DEADLOCK FALSE
