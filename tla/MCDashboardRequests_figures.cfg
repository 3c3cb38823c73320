CONSTANTS
  Workers = {w1, w2}
  Periods = {month, today}
  Month = month
  MaxRev = 1
  MaxCuts = 1
  MaxClicks = 1
  None = None
SPECIFICATION Spec
PROPERTIES FiguresKept ServerFiguresNotDowngraded SettlesOnServer
CHECK_DEADLOCK FALSE
