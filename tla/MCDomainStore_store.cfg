CONSTANTS
  v1 = v1
  v2 = v2
  r1 = r1
  r2 = r2
  m1 = m1
  Null = Null
  Gone = Gone
  FarFuture = 99
  DayLen = 2
  WeekLen = 2
  MonthLen = 4
  YearLen = 8
  TOP_VEHICLES_LIMIT = 2
  IdOrder <- Ids
  Horizon = 3
  MaxWrites = 2
  UtcLag = 1
  Clients <- Files
  NameContains <- Containing
  StartTables <- Starts
  Changes <- RowChanges
SPECIFICATION Spec
INVARIANTS TypeOK DerivationsAgree OfflineFiguresAgree EndpointsAgree RevenueSplits SnapshotReconciles StatusesCurrent
PROPERTIES InterruptedRevenueFrozen CatchesUp
CHECK_DEADLOCK FALSE
