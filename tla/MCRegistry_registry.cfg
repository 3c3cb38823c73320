SPECIFICATION Spec
CONSTANTS
  Clients = {c1}
  Vehicles = {v1}
  Rentals = {r1}
  Tickets = {t1}
  Alerts = {1, 2, 3, 4, 5, 6, 7, 8}
  Workers = {w1, w2}
  WarningDays = 0
  LastDay = 1
  FirstExpiry = 0
  MaxEdits = 2
  Absent = Absent
  Gone = Gone
  Nothing = Nothing
INVARIANTS AlertedOnce ReadIsSeen
PROPERTIES HistoryKept ExpiryAnnounced
CHECK_DEADLOCK FALSE
