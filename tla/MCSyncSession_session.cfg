CONSTANTS
  Pairs = {1, 2, 3, 4, 5, 6}
  NoPair = 0
  None = None
  Cycles = {c1, c2}
  MaxRev = 1
  MaxEvents = 1
SPECIFICATION Spec
INVARIANTS NoForgottenSync SomeoneCanRefresh
PROPERTIES ChangesReachDesktop
CHECK_DEADLOCK FALSE
