SPECIFICATION Spec
CONSTANTS
  w1 = w1
  w2 = w2
  w3 = w3
  Workers = {w1, w2}
  Emails = {"ann"}
  Codes = {"c1", "c2"}
  MaxIssues = 2
  MaxErrors = 0
INVARIANTS
  AcceptedOnce
CHECK_DEADLOCK FALSE
