CONSTANTS
  Vehicles = {v1}
  Reservations = {}
  Old = {}
  Conns = {c1}
  MaxRetry = 2
  Limit = 2
  MaxEdits = 2
  MaxWeb = 1
  Faults = TRUE
  NoRow = NoRow
  Gone = Gone
  NoConn = NoConn
SPECIFICATION FairSpec
PROPERTIES Delivered Converges
