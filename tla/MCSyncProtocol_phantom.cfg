CONSTANTS
  Vehicles = {v1}
  Reservations = {}
  Old = {v1}
  Conns = {c1}
  MaxRetry = 2
  Limit = 2
  MaxEdits = 2
  MaxWeb = 1
  Faults = FALSE
  NoRow = NoRow
  Gone = Gone
  NoConn = NoConn
SPECIFICATION Spec
INVARIANT SyncedWasApplied
