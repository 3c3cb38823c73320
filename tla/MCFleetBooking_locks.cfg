CONSTANTS
  Vehicles = {v1}
  Rentals = {r1}
  Tickets = {m1}
  Workers = {w1, w2}
  Horizon = 1
  Day = 1
  NoRow = NoRow
  NoWorker = NoWorker
  Null = Null
  Requests <- LockRequests
SPECIFICATION FairSpec
PROPERTY RequestsEnd
