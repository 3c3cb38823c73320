CONSTANTS
  Vehicles = {v1}
  Rentals = {r1, r2}
  Tickets = {m1}
  Workers = {w1}
  Horizon = 2
  Day = 1
  NoRow = NoRow
  NoWorker = NoWorker
  Null = Null
  Requests <- EveryRequest
SPECIFICATION Spec
PROPERTY MaintenanceWins
