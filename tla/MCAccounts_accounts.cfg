SPECIFICATION Spec
CONSTANTS
  Users = {u1}
  Tokens = {t1, t2, t3, t4}
  Passwords = {p1, p2}
  FirstPassword = p1
  Workers = {w1, w2}
  MAX_FAILED_ATTEMPTS = 3
  LOCKOUT_DURATION = 1
  LastTime = 4
  MaxRequests = 8
  Absent = Absent
  Nothing = Nothing
SYMMETRY Symmetry
INVARIANTS SessionsStayEnded
PROPERTIES FullBudget
CHECK_DEADLOCK FALSE
