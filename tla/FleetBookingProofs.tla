------------------------- MODULE FleetBookingProofs -------------------------
(***************************************************************************)
(* Proofs about FleetBooking, for every set of vehicles, rentals, tickets, *)
(* workers and requests.                                                   *)
(***************************************************************************)
EXTENDS FleetBookingProps, TLAPS

IInv == TypeOK /\ BookingInv

(***************************************************************************)
(* The fields of a request are given by its handler.                       *)
(***************************************************************************)
LEMMA RentalFields ==
  ASSUME NEW q \in Requests, q.op \in RentalOps
  PROVE  /\ q.key \in Rentals
         /\ q.op \in {"create_rental", "_process_reservation_create"} =>
              q.veh \in Vehicles /\ q.start \in Slots /\ q.end \in Slots
         /\ q.op = "update_rental" => q.start \in Slots /\ q.end \in Slots
         /\ q.op \in {"_process_reservation_create", "_process_reservation_update"} =>
              q.status \in RentalStatus
<1>1. q \in Request BY RequestAssumption
<1>2. q \in RentalRequest
  BY <1>1 DEF Request, TicketRequest, VehicleRequest, RentalOps, RentalChanges
<1> QED BY <1>2 DEF RentalRequest

LEMMA TicketFields ==
  ASSUME NEW q \in Requests, q.op \in TicketOps
  PROVE  /\ q.key \in Tickets
         /\ q.op \in {"create_maintenance", "_process_maintenance_create"} =>
              q.veh \in Vehicles /\ q.start \in Slots /\ q.exp \in Slots \cup {Null}
         /\ q.op \in {"create_maintenance", "_process_maintenance_update"} =>
              q.act \in Slots \cup {Null}
         /\ q.op = "update_maintenance" =>
              q.start \in Slots /\ q.exp \in Slots \cup {Null} /\ q.act \in Slots \cup {Null}
         /\ q.op \in Maintenance => q.status \in TicketStatus
<1>1. q \in Request BY RequestAssumption
<1>2. q \in TicketRequest
  BY <1>1 DEF Request, RentalRequest, VehicleRequest, TicketOps
<1> QED BY <1>2 DEF TicketRequest, Maintenance

LEMMA VehicleFields ==
  ASSUME NEW q \in Requests, q.op \in VehicleOps
  PROVE  q.key \in Vehicles /\ q.status \in VehicleStatus
<1>1. q \in Request BY RequestAssumption
<1> QED BY <1>1 DEF Request, RentalRequest, TicketRequest, VehicleRequest, VehicleOps

(***************************************************************************)
(* The rows the statements write have the type of their table.             *)
(***************************************************************************)
LEMMA ColumnType ==
  ASSUME NEW S, NEW a, NEW b \in S, NEW c \in S
  PROVE  Column(a, b, c) \in S
BY DEF Column

LEMMA NewRentalType ==
  ASSUME IInv, NEW w \in Workers, pc[w] = "writeRental", ~RentalRefused(w)
  PROVE  /\ req[w].key \in Rentals
         /\ NewRental(w) \in RentalRow
<1> DEFINE q == req[w]
<1>1. q \in Requests /\ q.op \in RentalOps
  BY DEF IInv, BookingInv, SessionInv, SessionOK, LoadedOK
<1>2. q.key \in Rentals BY <1>1, RentalFields
<1>3. q.op \in RentalChanges => cur[q.key] \in RentalRow /\ seen[w] \in RentalRow
  <2>1. cur[q.key] \in RentalRow \cup {NoRow} BY <1>2 DEF IInv, TypeOK, TableOK
  <2>2. q.op \in RentalChanges => com[q.key] # NoRow /\ seen[w] \in RentalRow
    BY DEF IInv, BookingInv, SessionInv, LoadedOK
  <2> QED BY <1>2, <2>1, <2>2 DEF IInv, BookingInv, LocksOK
<1>4. CASE q.op \in {"create_rental", "_process_reservation_create"}
  <2>1. /\ q.veh \in Vehicles /\ q.start \in Slots /\ q.end \in Slots
        /\ q.op = "_process_reservation_create" => q.status \in RentalStatus
    BY <1>1, <1>4, RentalFields
  <2> QED BY <1>2, <1>4, <2>1 DEF NewRental, RentalRow, RentalStatus
<1>5. CASE q.op = "update_rental"
  <2>1. q.start \in Slots /\ q.end \in Slots BY <1>1, <1>5, RentalFields
  <2>2. cur[q.key] \in RentalRow BY <1>3, <1>5 DEF RentalChanges
  <2> QED BY <1>2, <1>5, <2>1, <2>2 DEF NewRental, RentalRow, Column
<1>6. CASE q.op \in RentalChanges \ {"update_rental"}
  <2>1. q.op = "_process_reservation_update" => q.status \in RentalStatus
    BY <1>1, RentalFields
  <2>2. cur[q.key] \in RentalRow BY <1>3, <1>6
  <2> QED BY <1>2, <1>6, <2>1, <2>2
          DEF NewRental, RentalRow, RentalStatus, Column, RentalChanges
<1> QED BY <1>1, <1>4, <1>5, <1>6 DEF RentalOps

LEMMA NewTicketType ==
  ASSUME IInv, NEW w \in Workers, pc[w] = "writeTicket", ~TicketRefused(w)
  PROVE  /\ req[w] \in Requests /\ req[w].op \in TicketOps
         /\ req[w].key \in Tickets
         /\ NewTicket(w) \in TicketRow \cup {NoRow}
         /\ req[w].op \in Maintenance => NewTicket(w) \in TicketRow
<1> DEFINE q == req[w]
<1>1. q \in Requests /\ q.op \in TicketOps
  BY DEF IInv, BookingInv, SessionInv, SessionOK, LoadedOK
<1>2. q.key \in Tickets BY <1>1, TicketFields
<1>3. cur[q.key] \in TicketRow \cup {NoRow} BY <1>2 DEF IInv, TypeOK, TableOK
<1>4. now \in Slots BY DEF IInv, TypeOK
<1>5. IsUpdate(w) => cur[q.key] \in TicketRow
  BY <1>3 DEF TicketRefused
<1>6. CASE q.op = "create_maintenance"
  <2>1. /\ q.veh \in Vehicles /\ q.start \in Slots /\ q.exp \in Slots \cup {Null}
        /\ q.act \in Slots \cup {Null} /\ q.status \in TicketStatus
    BY <1>1, <1>6, TicketFields DEF Maintenance
  <2>2. InitStatus(q) \in TicketStatus BY DEF InitStatus, TicketStatus, Terminal
  <2> QED BY <1>1, <1>2, <1>6, <2>1, <2>2 DEF NewTicket, TicketRow
<1>7. CASE q.op = "_process_maintenance_create"
  <2>1. /\ q.veh \in Vehicles /\ q.start \in Slots /\ q.exp \in Slots \cup {Null}
        /\ q.status \in TicketStatus
    BY <1>1, <1>7, TicketFields DEF Maintenance
  <2> QED BY <1>1, <1>2, <1>7, <2>1 DEF NewTicket, TicketRow
<1>8. CASE q.op = "complete_maintenance"
  BY <1>1, <1>2, <1>4, <1>5, <1>8 DEF NewTicket, TicketRow, TicketStatus, Column, IsUpdate
<1>9. CASE q.op = "update_maintenance"
  <2>1. /\ q.start \in Slots /\ q.exp \in Slots \cup {Null} /\ q.act \in Slots \cup {Null}
        /\ q.status \in TicketStatus
    BY <1>1, <1>9, TicketFields DEF Maintenance
  <2> QED BY <1>1, <1>2, <1>5, <1>9, <2>1 DEF NewTicket, TicketRow, Column, IsUpdate
<1>10. CASE q.op = "_process_maintenance_update"
  <2>1. q.act \in Slots \cup {Null} /\ q.status \in TicketStatus
    BY <1>1, <1>10, TicketFields DEF Maintenance
  <2> QED BY <1>1, <1>2, <1>5, <1>10, <2>1 DEF NewTicket, TicketRow, Column, IsUpdate
<1>11. CASE q.op \in {"delete_maintenance", "_process_maintenance_delete"}
  BY <1>1, <1>2, <1>11 DEF NewTicket, Maintenance
<1> QED BY <1>1, <1>6, <1>7, <1>8, <1>9, <1>10, <1>11 DEF TicketOps

LEMMA VehicleOfType ==
  ASSUME IInv, NEW w \in Workers,
         pc[w] \in {"freeVehicle", "writeFree", "readHold", "writeHold"}
  PROVE  VehicleOf(w) \in Vehicles
<1> DEFINE q == req[w]
<1>1. q \in Requests BY DEF IInv, BookingInv, SessionInv, SessionOK
<1>2. CASE q.op \in RentalChanges /\ seen[w] \in RentalRow
  <2>1. q.key \in Rentals BY <1>1, <1>2, RentalFields DEF RentalOps
  <2>2. q.key \notin Tickets BY <2>1, KeyAssumption
  <2> QED BY <1>2, <2>2 DEF VehicleOf, RentalRow
<1>3. CASE q.op \in TicketOps /\ (seen[w] \in TicketRow \/ cur[q.key] # NoRow)
  <2>1. q.key \in Tickets BY <1>1, <1>3, TicketFields
  <2>2. cur[q.key] \in TicketRow \cup {NoRow} BY <2>1 DEF IInv, TypeOK, TableOK
  <2> QED BY <1>3, <2>1, <2>2 DEF VehicleOf, TicketRow
<1>4. pc[w] \in {"freeVehicle", "writeFree"} =>
        \/ q.op \in RentalChanges /\ seen[w] \in RentalRow
        \/ q.op \in TicketOps /\ seen[w] \in TicketRow
  BY DEF IInv, BookingInv, SessionInv, LoadedOK
<1>5. pc[w] \in {"readHold", "writeHold"} => q.op \in TicketOps /\ cur[q.key] # NoRow
  BY DEF IInv, BookingInv, SessionInv, TicketHeld, Cancelling, Maintenance, TicketOps
<1> QED BY <1>2, <1>3, <1>4, <1>5

(***************************************************************************)
(* Frames.  A step of one request leaves the sessions of the others alone, *)
(* and writes at most one row, which it locks.                             *)
(***************************************************************************)
OthersKept(w) ==
  \A x \in Workers \ {w} : pc'[x] = pc[x] /\ req'[x] = req[x] /\ seen'[x] = seen[x]

\* What a row written by w must satisfy for the versions to stay compatible.
Admissible(w, k, row) ==
  k \in Rentals =>
    /\ row \in RentalRow
    /\ \A j \in Rentals \ {k} :
         /\ Free(w, j) => ~Clash(row, cur[j])
         /\ ~Free(w, j) => ~Clash(row, cur[j]) /\ ~Clash(row, com[j])

RightTable(k, row) ==
  /\ k \in Rentals  => row \in RentalRow \cup {NoRow}
  /\ k \in Tickets  => row \in TicketRow \cup {NoRow}
  /\ k \in Vehicles => row \in VehicleRow

LEMMA ClashSymmetric ==
  ASSUME NEW r, NEW s
  PROVE  Clash(r, s) <=> Clash(s, r)
BY DEF Clash, Overlap

LEMMA PutTables ==
  ASSUME IInv, NEW w \in Workers, NEW k \in Keys, NEW row, Put(w, k, row),
         RightTable(k, row)
  PROVE  TableOK(com)' /\ TableOK(cur)' /\ owner' \in [Keys -> Workers \cup {NoWorker}]
<1>1. row \in Row \cup {NoRow} BY DEF RightTable, Keys, Row
<1>2. /\ com' = com
      /\ cur' = [cur EXCEPT ![k] = row]
      /\ owner' = [owner EXCEPT ![k] = w]
  BY DEF Put
<1>3. /\ TableOK(com) /\ TableOK(cur)
      /\ owner \in [Keys -> Workers \cup {NoWorker}]
  BY DEF IInv, TypeOK
<1>4. TableOK(cur)'
  <2>1. cur' \in [Keys -> Row \cup {NoRow}] BY <1>1, <1>2, <1>3 DEF TableOK
  <2>2. \A j \in Keys : cur'[j] = IF j = k THEN row ELSE cur[j] BY <1>2, <1>3 DEF TableOK
  <2> QED BY <2>1, <2>2, <1>3 DEF TableOK, RightTable, Keys
<1> QED BY <1>2, <1>3, <1>4

LEMMA PutVersions ==
  ASSUME IInv, NEW w \in Workers, NEW k \in Keys, NEW row, Put(w, k, row),
         Admissible(w, k, row)
  PROVE  LocksOK' /\ VersionsOK'
<1>1. /\ com' = com /\ Free(w, k)
      /\ \A j \in Keys : cur'[j] = IF j = k THEN row ELSE cur[j]
      /\ \A j \in Keys : owner'[j] = IF j = k THEN w ELSE owner[j]
  BY DEF Put, IInv, TypeOK, TableOK
<1>2. \A j \in Keys : owner[j] = NoWorker => cur[j] = com[j]
  BY DEF IInv, BookingInv, LocksOK
<1>3. k \in Rentals => row # NoRow BY NullAssumption DEF Admissible, Row
<1>4. LocksOK'
  BY <1>1, <1>2, <1>3, KeyAssumption DEF LocksOK, IInv, BookingInv, Keys
<1>5. ASSUME NEW i \in Rentals, NEW j \in Rentals, i # j
      PROVE  /\ ~Clash(com[i], com[j])
             /\ ~Clash(cur'[i], cur'[j])
             /\ owner'[i] # owner'[j] => ~Clash(com[i], cur'[j])
  <2>1. /\ ~Clash(com[i], com[j])
        /\ ~Clash(cur[i], cur[j])
        /\ owner[i] # owner[j] => ~Clash(com[i], cur[j])
    BY <1>5 DEF IInv, BookingInv, VersionsOK
  <2>2. i \in Keys /\ j \in Keys BY DEF Keys
  <2>3. CASE i # k /\ j # k BY <1>1, <2>1, <2>2, <2>3
  <2>4. CASE i = k
    <3>1. ~Clash(row, cur[j]) BY <1>5, <2>4 DEF Admissible
    <3>2. owner[j] # w => ~Clash(com[i], cur[j])
      BY <1>1, <1>2, <2>1, <2>2, <2>4 DEF Free
    <3> QED BY <1>1, <1>5, <2>1, <2>2, <2>4, <3>1, <3>2
  <2>5. CASE j = k
    <3>1. ~Clash(row, cur[i]) BY <1>5, <2>5 DEF Admissible
    <3>2. owner[i] # w => ~Clash(row, com[i])
      BY <1>2, <1>5, <2>2, <2>5 DEF Admissible, Free
    <3> QED BY <1>1, <1>5, <2>1, <2>2, <2>5, <3>1, <3>2, ClashSymmetric
  <2> QED BY <2>3, <2>4, <2>5
<1>6. VersionsOK' BY <1>1, <1>5 DEF VersionsOK
<1> QED BY <1>4, <1>6

LEMMA PutOthers ==
  ASSUME IInv, NEW w \in Workers, NEW k \in Keys, NEW row, Put(w, k, row),
         OthersKept(w), NEW x \in Workers \ {w}
  PROVE  LoadedOK(x)' /\ TicketHeld(x)' /\ SessionOK(x)'
<1>1. /\ com' = com /\ Free(w, k)
      /\ \A j \in Keys : cur'[j] = IF j = k THEN row ELSE cur[j]
      /\ \A j \in Keys : owner'[j] = IF j = k THEN w ELSE owner[j]
  BY DEF Put, IInv, TypeOK, TableOK
<1>2. pc'[x] = pc[x] /\ req'[x] = req[x] /\ seen'[x] = seen[x] BY DEF OthersKept
<1>3. LoadedOK(x) /\ TicketHeld(x) /\ SessionOK(x) BY DEF IInv, BookingInv, SessionInv
<1>4. \A j \in Keys : owner[j] = x => j # k BY <1>1, KeyAssumption DEF Free
<1>5. LoadedOK(x)' BY <1>1, <1>2, <1>3 DEF LoadedOK, IsInsert
<1>6. SessionOK(x)' BY <1>1, <1>2, <1>3 DEF SessionOK, Keys
<1>7. TicketHeld(x)'
  <2>1. pc[x] \in Cancelling => req[x].key \in Keys
    <3>1. pc[x] \in Cancelling => req[x] \in Requests /\ req[x].op \in TicketOps
      BY <1>3 DEF TicketHeld, SessionOK, Cancelling, Maintenance, TicketOps
    <3> QED BY <3>1, TicketFields DEF Keys
  <2> QED BY <1>1, <1>2, <1>3, <1>4, <2>1 DEF TicketHeld
<1> QED BY <1>5, <1>6, <1>7

(***************************************************************************)
(* A statement of request w that goes on to label l: with the row it       *)
(* writes, or without writing.                                             *)
(***************************************************************************)
Continues(w, l) ==
  /\ pc' = [pc EXCEPT ![w] = l] /\ l \in Labels \ {"idle"}
  /\ req' \in [Workers -> Requests \cup {NoRow}]
  /\ seen' \in [Workers -> Loaded]
  /\ cand' \in [Workers -> SUBSET Rentals]
  /\ now' \in Slots
  /\ OthersKept(w)
  /\ req'[w] \in Requests
  /\ LoadedOK(w)' /\ TicketHeld(w)'

LEMMA StepWrites ==
  ASSUME IInv, NEW w \in Workers, NEW k \in Keys, NEW row, Put(w, k, row),
         RightTable(k, row), Admissible(w, k, row),
         NEW l, Continues(w, l), req'[w] = req[w], pc[w] # "idle",
         k \in Rentals /\ req[w].op \in Maintenance => Blocking(com[k])
  PROVE  IInv'
<1>1. TypeOK' BY PutTables DEF TypeOK, Continues, IInv
<1>2. LocksOK' /\ VersionsOK' BY PutVersions
<1>3. \A x \in Workers \ {w} : LoadedOK(x)' /\ TicketHeld(x)' /\ SessionOK(x)'
  BY PutOthers DEF Continues
<1>4. SessionOK(w)'
  <2>1. /\ com' = com
        /\ \A j \in Keys : owner'[j] = IF j = k THEN w ELSE owner[j]
    BY DEF Put, IInv, TypeOK
  <2>2. pc'[w] = l /\ l # "idle" BY DEF Continues, IInv, TypeOK
  <2>3. req[w] \in Requests /\ req[w].op \in Maintenance =>
          \A j \in Rentals : owner[j] = w => Blocking(com[j])
    BY DEF IInv, BookingInv, SessionInv, SessionOK
  <2> QED BY <2>1, <2>2, <2>3 DEF SessionOK, Continues, Keys
<1> QED BY <1>1, <1>2, <1>3, <1>4 DEF IInv, BookingInv, SessionInv, Continues

LEMMA StepReads ==
  ASSUME IInv, NEW w \in Workers, UNCHANGED db, NEW l, Continues(w, l),
         pc[w] = "idle" \/ req'[w] = req[w]
  PROVE  IInv'
<1>1. com' = com /\ cur' = cur /\ owner' = owner BY DEF db
<1>2. TypeOK' BY <1>1 DEF TypeOK, Continues, IInv, TableOK
<1>3. LocksOK' /\ VersionsOK'
  BY <1>1 DEF IInv, BookingInv, LocksOK, VersionsOK
<1>4. ASSUME NEW x \in Workers \ {w}
      PROVE  LoadedOK(x)' /\ TicketHeld(x)' /\ SessionOK(x)'
  <2>1. pc'[x] = pc[x] /\ req'[x] = req[x] /\ seen'[x] = seen[x]
    BY <1>4 DEF Continues, OthersKept
  <2>2. LoadedOK(x) /\ TicketHeld(x) /\ SessionOK(x)
    BY <1>4 DEF IInv, BookingInv, SessionInv
  <2> QED BY <1>1, <2>1, <2>2 DEF LoadedOK, TicketHeld, SessionOK, IsInsert
<1>5. SessionOK(w)'
  <2>1. pc'[w] = l /\ l # "idle" BY DEF Continues, IInv, TypeOK
  <2>2. SessionOK(w) BY DEF IInv, BookingInv, SessionInv
  <2>3. pc[w] = "idle" => \A k \in Rentals : owner[k] # w BY <2>2 DEF SessionOK, Keys
  <2> QED BY <1>1, <2>1, <2>2, <2>3 DEF SessionOK, Continues
<1> QED BY <1>2, <1>3, <1>4, <1>5 DEF IInv, BookingInv, SessionInv, Continues

(***************************************************************************)
(* The end of a request, by commit or by rollback.                         *)
(***************************************************************************)
LEMMA LeaveKeeps ==
  ASSUME IInv, NEW w \in Workers, Leave(w)
  PROVE  /\ OthersKept(w) /\ pc'[w] = "idle"
         /\ \A k \in Keys : owner'[k] = IF owner[k] = w THEN NoWorker ELSE owner[k]
         /\ owner' \in [Keys -> Workers \cup {NoWorker}] /\ now' \in Slots
         /\ pc' \in [Workers -> Labels] /\ req' \in [Workers -> Requests \cup {NoRow}]
         /\ seen' \in [Workers -> Loaded] /\ cand' \in [Workers -> SUBSET Rentals]
BY DEF Leave, OthersKept, IInv, TypeOK, Labels, Loaded

LEMMA SessionsAfterEnd ==
  ASSUME IInv, NEW w \in Workers, Leave(w),
         \A k \in Keys : owner[k] # w => com'[k] = com[k] /\ cur'[k] = cur[k],
         \A k \in Rentals : com[k] # NoRow => com'[k] # NoRow
  PROVE  SessionInv'
<1>1. /\ OthersKept(w) /\ pc'[w] = "idle"
      /\ \A k \in Keys : owner'[k] = IF owner[k] = w THEN NoWorker ELSE owner[k]
  BY LeaveKeeps
<1>2. LoadedOK(w)' /\ TicketHeld(w)' /\ SessionOK(w)'
  <2>1. \A k \in Keys : owner'[k] # w BY <1>1, KeyAssumption
  <2> QED BY <1>1, <2>1 DEF LoadedOK, TicketHeld, SessionOK, Checking, Cancelling, Keys
<1>3. ASSUME NEW x \in Workers \ {w}
      PROVE  LoadedOK(x)' /\ TicketHeld(x)' /\ SessionOK(x)'
  <2>1. pc'[x] = pc[x] /\ req'[x] = req[x] /\ seen'[x] = seen[x]
    BY <1>1, <1>3 DEF OthersKept
  <2>2. LoadedOK(x) /\ TicketHeld(x) /\ SessionOK(x)
    BY <1>3 DEF IInv, BookingInv, SessionInv
  <2>3. SessionOK(x)' BY <1>1, <2>1, <2>2, KeyAssumption DEF SessionOK, Keys
  <2>4. LoadedOK(x)'
    <3>1. pc[x] \in Checking \cup {"writeRental"} => req[x].key \in Rentals
      <4>1. pc[x] \in Checking \cup {"writeRental"} =>
              req[x] \in Requests /\ req[x].op \in RentalOps
        BY <2>2 DEF SessionOK, LoadedOK, Checking
      <4> QED BY <4>1, RentalFields
    <3> QED BY <2>1, <2>2, <3>1 DEF LoadedOK, IsInsert
  <2>5. TicketHeld(x)'
    <3>1. pc[x] \in Cancelling => req[x].key \in Keys
      <4>1. pc[x] \in Cancelling => req[x] \in Requests /\ req[x].op \in TicketOps
        BY <2>2 DEF TicketHeld, SessionOK, Cancelling, Maintenance, TicketOps
      <4> QED BY <4>1, TicketFields DEF Keys
    <3> QED BY <1>1, <1>3, <2>1, <2>2, <3>1 DEF TicketHeld
  <2> QED BY <2>3, <2>4, <2>5
<1> QED BY <1>2, <1>3 DEF SessionInv

LEMMA CommitStep ==
  ASSUME IInv, NEW w \in Workers, Commit(w)
  PROVE  IInv'
<1>1. /\ Leave(w) /\ cur' = cur
      /\ com' = [k \in Keys |-> IF owner[k] = w THEN cur[k] ELSE com[k]]
  BY DEF Commit
<1>2. \A k \in Keys : com'[k] = IF owner[k] = w THEN cur[k] ELSE com[k] BY <1>1
<1>3. \A k \in Keys : owner'[k] = IF owner[k] = w THEN NoWorker ELSE owner[k]
  BY <1>1, LeaveKeeps
<1>4. LocksOK BY DEF IInv, BookingInv
<1>5. TypeOK'
  <2>1. TableOK(com)'
    <3>1. com' \in [Keys -> Row \cup {NoRow}] BY <1>1 DEF IInv, TypeOK, TableOK
    <3> QED BY <1>2, <3>1 DEF IInv, TypeOK, TableOK, Keys
  <2>2. TableOK(cur)' BY <1>1 DEF IInv, TypeOK, TableOK
  <2> QED BY <1>1, <2>1, <2>2, LeaveKeeps DEF TypeOK
<1>6. LocksOK' BY <1>1, <1>2, <1>3, <1>4 DEF LocksOK, Keys
<1>7. VersionsOK'
  <2>1. VersionsOK BY DEF IInv, BookingInv
  <2> QED BY <1>1, <1>2, <1>3, <2>1, ClashSymmetric DEF VersionsOK, Keys
<1>8. SessionInv'
  <2>1. \A k \in Rentals : com[k] # NoRow => com'[k] # NoRow
    BY <1>2, <1>4 DEF LocksOK, Keys
  <2> QED BY <1>1, <1>2, <2>1, SessionsAfterEnd
<1> QED BY <1>5, <1>6, <1>7, <1>8 DEF IInv, BookingInv

LEMMA RollbackStep ==
  ASSUME IInv, NEW w \in Workers, Rollback(w)
  PROVE  IInv'
<1>1. /\ Leave(w) /\ com' = com
      /\ cur' = [k \in Keys |-> IF owner[k] = w THEN com[k] ELSE cur[k]]
  BY DEF Rollback
<1>2. \A k \in Keys : cur'[k] = IF owner[k] = w THEN com[k] ELSE cur[k] BY <1>1
<1>3. \A k \in Keys : owner'[k] = IF owner[k] = w THEN NoWorker ELSE owner[k]
  BY <1>1, LeaveKeeps
<1>4. LocksOK BY DEF IInv, BookingInv
<1>5. TypeOK'
  <2>1. TableOK(cur)'
    <3>1. cur' \in [Keys -> Row \cup {NoRow}] BY <1>1 DEF IInv, TypeOK, TableOK
    <3> QED BY <1>2, <3>1 DEF IInv, TypeOK, TableOK, Keys
  <2>2. TableOK(com)' BY <1>1 DEF IInv, TypeOK, TableOK
  <2> QED BY <1>1, <2>1, <2>2, LeaveKeeps DEF TypeOK
<1>6. LocksOK' BY <1>1, <1>2, <1>3, <1>4 DEF LocksOK, Keys
<1>7. VersionsOK'
  <2>1. VersionsOK BY DEF IInv, BookingInv
  <2> QED BY <1>1, <1>2, <1>3, <2>1, ClashSymmetric DEF VersionsOK, Keys
<1>8. SessionInv' BY <1>1, <1>2, SessionsAfterEnd
<1> QED BY <1>5, <1>6, <1>7, <1>8 DEF IInv, BookingInv

(***************************************************************************)
(* The first statement of each handler.                                    *)
(***************************************************************************)
LEMMA StartStep ==
  ASSUME IInv, NEW w \in Workers, NEW q \in Requests, NEW row \in Loaded,
         NEW l \in {"checkVehicle", "writeRental", "writeTicket", "writeVehicle",
                    "freeVehicle"},
         Start(w, q, row, l),
         l = "checkVehicle" => q.op \in {"create_rental", "update_rental"},
         l \in {"checkVehicle", "writeRental"} =>
           /\ q.op \in RentalOps
           /\ q.op \in RentalChanges => row \in RentalRow /\ com[q.key] # NoRow,
         l = "writeTicket" =>
           /\ q.op \in TicketOps
           /\ q.op = "create_maintenance" => row \in VehicleRow
           /\ q.op \notin {"create_maintenance", "_process_maintenance_create"} =>
                row \in IF q.op = "update_maintenance" THEN LoadedTicket ELSE TicketRow,
         l = "writeVehicle" => q.op \in VehicleOps /\ row \in VehicleRow,
         l = "freeVehicle" => q.op = "_process_maintenance_delete" /\ row \in TicketRow
  PROVE  IInv'
<1>1. /\ pc[w] = "idle"
      /\ req' = [req EXCEPT ![w] = q] /\ seen' = [seen EXCEPT ![w] = row]
      /\ pc' = [pc EXCEPT ![w] = l]
      /\ com' = com /\ cur' = cur /\ owner' = owner /\ now' = now /\ cand' = cand
  BY DEF Start, Goto, db
<1>2. pc'[w] = l /\ req'[w] = q /\ seen'[w] = row BY <1>1 DEF IInv, TypeOK
<1>3. q.op \in RentalOps => ~(q.op \in TicketOps) /\ q.op \notin VehicleOps
  BY DEF RentalOps, RentalChanges, TicketOps, VehicleOps
<1>4. LoadedOK(w)'
  BY <1>1, <1>2, <1>3 DEF LoadedOK, IsInsert, Checking, TicketOps, RentalOps
<1>5. TicketHeld(w)' BY <1>2 DEF TicketHeld, Cancelling
<1>6. Continues(w, l)
  BY <1>1, <1>2, <1>4, <1>5 DEF Continues, OthersKept, IInv, TypeOK, Labels
<1>7. UNCHANGED db BY <1>1 DEF db
<1> QED BY <1>1, <1>6, <1>7, StepReads

LEMMA HandleStep ==
  ASSUME IInv, NEW w \in Workers, Handle(w)
  PROVE  IInv'
<1> USE DEF RentalOps, RentalChanges
<1>1. /\ \A k \in Rentals : com[k] \in RentalRow \cup {NoRow}
      /\ \A k \in Tickets : com[k] \in TicketRow \cup {NoRow}
      /\ \A k \in Vehicles : com[k] \in VehicleRow
  BY DEF IInv, TypeOK, TableOK
<1>2. NoRow \in Loaded /\ RentalRow \subseteq Loaded /\ TicketRow \subseteq Loaded
      /\ VehicleRow \subseteq Loaded
  BY DEF Row, Loaded
<1>3. ASSUME NEW q \in Requests, q.op \in RentalOps
      PROVE  /\ q.key \in Rentals
             /\ com[q.key] # NoRow => com[q.key] \in RentalRow
  BY <1>1, <1>3, RentalFields
<1>4. ASSUME NEW q \in Requests, q.op \in TicketOps
      PROVE  /\ q.key \in Tickets
             /\ com[q.key] # NoRow => com[q.key] \in TicketRow
  BY <1>1, <1>4, TicketFields
<1>5. CASE CreateRental(w)
  BY <1>2, <1>5, StartStep DEF CreateRental
<1>6. CASE UpdateRental(w)
  BY <1>2, <1>3, <1>6, StartStep DEF UpdateRental, Blocking
<1>7. CASE CancelRental(w)
  BY <1>2, <1>3, <1>7, StartStep DEF CancelRental, Blocking
<1>8. CASE CompleteRental(w)
  BY <1>2, <1>3, <1>8, StartStep DEF CompleteRental, Blocking
<1>9. CASE ActivateRental(w)
  BY <1>2, <1>3, <1>9, StartStep DEF ActivateRental
<1>10. CASE PushReservationCreate(w)
  BY <1>2, <1>10, StartStep DEF PushReservationCreate
<1>11. CASE PushReservationUpdate(w)
  BY <1>2, <1>3, <1>11, StartStep DEF PushReservationUpdate
<1>12. CASE CreateMaintenance(w)
  <2>1. PICK q \in Requests : q.op = "create_maintenance" /\ NewKey(q.key)
                               /\ Start(w, q, com[q.veh], "writeTicket")
    BY <1>12 DEF CreateMaintenance
  <2>2. com[q.veh] \in VehicleRow
    BY <1>1, <2>1, TicketFields DEF TicketOps
  <2> QED BY <1>2, <2>1, <2>2, StartStep DEF TicketOps
<1>13. CASE CompleteMaintenance(w)
  BY <1>2, <1>4, <1>13, StartStep DEF CompleteMaintenance, TicketOps
<1>14. CASE DeleteMaintenance(w)
  BY <1>2, <1>4, <1>14, StartStep DEF DeleteMaintenance, TicketOps
<1>15. CASE UpdateMaintenance(w)
  <2> DEFINE row(t) == [veh |-> t.veh, start |-> t.start, exp |-> t.exp, act |-> t.act,
                        status |-> t.status, raw |-> com[t.veh].status]
  <2>1. PICK q \in Requests : /\ q.op = "update_maintenance" /\ com[q.key] # NoRow
                               /\ Start(w, q, row(com[q.key]), "writeTicket")
    BY <1>15 DEF UpdateMaintenance
  <2>2. com[q.key] \in TicketRow BY <1>4, <2>1 DEF TicketOps
  <2>3. com[com[q.key].veh] \in VehicleRow BY <1>1, <2>2 DEF TicketRow
  <2>4. row(com[q.key]) \in LoadedTicket
    BY <2>2, <2>3 DEF LoadedTicket, TicketRow, VehicleRow
  <2> HIDE DEF row
  <2> QED BY <2>1, <2>4, StartStep DEF TicketOps, Loaded
<1>16. CASE PushMaintenanceCreate(w)
  BY <1>2, <1>16, StartStep DEF PushMaintenanceCreate, TicketOps
<1>17. CASE PushMaintenanceUpdate(w)
  BY <1>2, <1>4, <1>17, StartStep DEF PushMaintenanceUpdate, TicketOps
<1>18. CASE PushMaintenanceDelete(w)
  <2>1. PICK q \in Requests :
          /\ q.op = "_process_maintenance_delete" /\ com[q.key] # NoRow
          /\ Start(w, q, com[q.key],
                   IF com[q.key].status = "ACTIVE" THEN "freeVehicle" ELSE "writeTicket")
    BY <1>18 DEF PushMaintenanceDelete
  <2>2. com[q.key] \in TicketRow BY <1>4, <2>1 DEF TicketOps
  <2>3. CASE com[q.key].status = "ACTIVE"
    BY <1>2, <2>1, <2>2, <2>3, StartStep DEF TicketOps
  <2>4. CASE com[q.key].status # "ACTIVE"
    BY <1>2, <2>1, <2>2, <2>4, StartStep DEF TicketOps
  <2> QED BY <2>3, <2>4
<1>19. CASE UpdateVehicle(w)
  BY <1>1, <1>2, <1>19, VehicleFields, StartStep DEF UpdateVehicle, VehicleOps
<1>20. CASE PushVehicleUpdate(w)
  BY <1>1, <1>2, <1>20, VehicleFields, StartStep DEF PushVehicleUpdate, VehicleOps
<1> QED BY <1>5, <1>6, <1>7, <1>8, <1>9, <1>10, <1>11, <1>12, <1>13, <1>14, <1>15,
           <1>16, <1>17, <1>18, <1>19, <1>20 DEF Handle

(***************************************************************************)
(* The later statements that only read.                                    *)
(***************************************************************************)
LEMMA CheckStep ==
  ASSUME IInv, NEW w \in Workers, CheckVehicle(w) \/ CheckRentals(w) \/ CheckTickets(w)
  PROVE  IInv'
<1>1. CASE Rollback(w) BY <1>1, RollbackStep
<1>2. CASE ~Rollback(w)
  <2>1. PICK l \in {"checkRentals", "checkTickets", "writeRental"} :
          /\ Goto(w, l) /\ UNCHANGED <<db, now, req, seen, cand>>
          /\ pc[w] \in Checking
    BY <1>2 DEF CheckVehicle, CheckRentals, CheckTickets, Checking
  <2>2. pc'[w] = l /\ req'[w] = req[w] /\ seen'[w] = seen[w] /\ com' = com
    BY <2>1 DEF Goto, IInv, TypeOK, db
  <2>3. LoadedOK(w) /\ SessionOK(w) BY DEF IInv, BookingInv, SessionInv
  <2>4. LoadedOK(w)' /\ TicketHeld(w)'
    BY <2>1, <2>2, <2>3 DEF LoadedOK, TicketHeld, Checking, Cancelling
  <2>5. Continues(w, l)
    BY <2>1, <2>2, <2>3, <2>4
       DEF Continues, OthersKept, Goto, IInv, TypeOK, Labels, Checking, SessionOK
  <2> QED BY <2>1, <2>2, <2>5, StepReads
<1> QED BY <1>1, <1>2

LEMMA FreeVehicleStep ==
  ASSUME IInv, NEW w \in Workers, FreeVehicle(w)
  PROVE  IInv'
<1> DEFINE l == IF Reads(w, VehicleOf(w)).status \in HeldStatus(w)
                  THEN "writeFree" ELSE AfterFree(w)
<1>1. /\ pc[w] = "freeVehicle" /\ Goto(w, l)
      /\ UNCHANGED <<db, now, req, seen, cand>>
  BY DEF FreeVehicle
<1>2. l \in {"writeFree", "writeTicket", "commit"} BY DEF AfterFree
<1>3. l = "writeTicket" => req[w].op = "_process_maintenance_delete" BY DEF AfterFree
<1> HIDE DEF l
<1>4. pc'[w] = l /\ req'[w] = req[w] /\ seen'[w] = seen[w] /\ com' = com
  BY <1>1 DEF Goto, IInv, TypeOK, db
<1>5. LoadedOK(w) /\ SessionOK(w) BY DEF IInv, BookingInv, SessionInv
<1>6. LoadedOK(w)' /\ TicketHeld(w)'
  BY <1>1, <1>2, <1>3, <1>4, <1>5
     DEF LoadedOK, TicketHeld, Checking, Cancelling, RentalChanges, IsInsert
<1>7. Continues(w, l)
  BY <1>1, <1>2, <1>4, <1>5, <1>6
     DEF Continues, OthersKept, Goto, IInv, TypeOK, Labels, SessionOK
<1> QED BY <1>1, <1>4, <1>7, StepReads

LEMMA CancellingReads ==
  ASSUME IInv, NEW w \in Workers, pc[w] \in Cancelling \ {"writeHold"},
         NEW l \in Cancelling \cup {"commit"}, Goto(w, l), UNCHANGED <<db, now, req>>,
         seen' \in [Workers -> Loaded],
         \A x \in Workers \ {w} : seen'[x] = seen[x],
         cand' \in [Workers -> SUBSET Rentals],
         IF l = "writeHold" THEN seen'[w] \in VehicleRow ELSE seen'[w] = seen[w]
  PROVE  IInv'
<1>1. pc'[w] = l /\ req' = req /\ com' = com /\ cur' = cur /\ owner' = owner
  BY DEF Goto, IInv, TypeOK, db
<1>2. TicketHeld(w) /\ SessionOK(w) BY DEF IInv, BookingInv, SessionInv
<1>3. LoadedOK(w)' /\ TicketHeld(w)'
  BY <1>1, <1>2 DEF LoadedOK, TicketHeld, Checking, Cancelling
<1>4. Continues(w, l)
  BY <1>1, <1>2, <1>3
     DEF Continues, OthersKept, Goto, IInv, TypeOK, Labels, SessionOK, Cancelling
<1> QED BY <1>1, <1>4, StepReads

LEMMA ReadHoldStep ==
  ASSUME IInv, NEW w \in Workers, ReadHold(w)
  PROVE  IInv'
<1> DEFINE v == IF req[w].op = "update_maintenance" THEN [status |-> seen[w].raw]
                ELSE Reads(w, VehicleOf(w))
<1>1. pc[w] = "readHold" /\ UNCHANGED <<db, now, req, cand>> BY DEF ReadHold
<1>2. v \in VehicleRow
  <2>1. VehicleOf(w) \in Vehicles BY <1>1, VehicleOfType
  <2>2. Reads(w, VehicleOf(w)) \in VehicleRow BY <2>1 DEF Reads, IInv, TypeOK, TableOK
  <2>3. req[w].op = "update_maintenance" => seen[w] \in LoadedTicket
    BY <1>1 DEF IInv, BookingInv, SessionInv, TicketHeld, Cancelling
  <2> QED BY <2>2, <2>3 DEF LoadedTicket, VehicleRow
<1> HIDE DEF v
<1>3. AfterHold(w) \in {"guard", "scan", "commit"} BY DEF AfterHold
<1>4. CASE seen' = [seen EXCEPT ![w] = v] /\ Goto(w, "writeHold")
  <2>1. seen' \in [Workers -> Loaded] /\ seen'[w] = v
    BY <1>2, <1>4 DEF IInv, TypeOK, Row, Loaded
  <2>2. \A x \in Workers \ {w} : seen'[x] = seen[x] BY <1>4 DEF IInv, TypeOK
  <2>3. cand' \in [Workers -> SUBSET Rentals] BY <1>1 DEF IInv, TypeOK
  <2> QED BY <1>1, <1>2, <1>4, <2>1, <2>2, <2>3, CancellingReads DEF Cancelling
<1>5. CASE UNCHANGED seen /\ Goto(w, AfterHold(w))
  <2>1. seen' \in [Workers -> Loaded] /\ cand' \in [Workers -> SUBSET Rentals]
    BY <1>1, <1>5 DEF IInv, TypeOK
  <2> QED BY <1>1, <1>3, <1>5, <2>1, CancellingReads DEF Cancelling
<1> QED BY <1>4, <1>5 DEF ReadHold, v

LEMMA ScanStep ==
  ASSUME IInv, NEW w \in Workers, Guard(w) \/ Scan(w) \/ CancelDone(w)
  PROVE  IInv'
<1>1. CASE Rollback(w) BY <1>1, RollbackStep
<1>2. CASE ~Rollback(w)
  <2>1. seen \in [Workers -> Loaded] /\ cand \in [Workers -> SUBSET Rentals]
    BY DEF IInv, TypeOK
  <2>2. PICK l \in {"scan", "cancel", "readHold", "commit"} :
          /\ Goto(w, l) /\ UNCHANGED <<db, now, req, seen>>
          /\ pc[w] \in Cancelling \ {"writeHold"}
          /\ cand' \in [Workers -> SUBSET Rentals]
    BY <1>2, <2>1 DEF Guard, Scan, CancelDone, Cancelling
  <2> QED BY <2>1, <2>2, CancellingReads DEF Cancelling
<1> QED BY <1>1, <1>2

(***************************************************************************)
(* The later statements that write.                                        *)
(***************************************************************************)
LEMMA NewRentalAdmissible ==
  ASSUME IInv, NEW w \in Workers, pc[w] = "writeRental",
         Free(w, req[w].key), ~RentalRefused(w), RentalWaitsFor(w) = {}
  PROVE  Admissible(w, req[w].key, NewRental(w))
<1> DEFINE k == req[w].key
           row == NewRental(w)
<1>1. row \in RentalRow BY NewRentalType
<1>2. \A j \in Rentals \ {k} : Free(w, j) => ~Clash(row, cur[j])
  BY DEF RentalRefused
<1>3. ASSUME NEW j \in Rentals, ~Free(w, j)
      PROVE  ~Clash(row, cur[j]) /\ ~Clash(row, com[j])
  <2>1. {owner[i] : i \in {i \in Rentals : /\ ~Free(w, i)
                                           /\ \/ Clash(row, cur[i])
                                              \/ Clash(row, com[i])}} = {}
    BY DEF RentalWaitsFor
  <2> QED BY <1>3, <2>1
<1> QED BY <1>1, <1>2, <1>3 DEF Admissible

LEMMA WriteRentalStep ==
  ASSUME IInv, NEW w \in Workers, WriteRental(w)
  PROVE  IInv'
<1> DEFINE k == req[w].key
           row == NewRental(w)
           l == AfterRental(w)
<1>1. CASE Rollback(w) BY <1>1, RollbackStep
<1>2. CASE ~Rollback(w)
  <2>1. /\ pc[w] = "writeRental" /\ Free(w, k) /\ ~RentalRefused(w)
        /\ RentalWaitsFor(w) = {} /\ Put(w, k, row) /\ Goto(w, l)
        /\ UNCHANGED <<now, req, seen, cand>>
    BY <1>2 DEF WriteRental
  <2>2. k \in Rentals /\ row \in RentalRow BY <2>1, NewRentalType
  <2>3. Admissible(w, k, row) BY <2>1, NewRentalAdmissible
  <2>4. k \in Keys /\ RightTable(k, row) BY <2>2, KeyAssumption DEF RightTable, Keys
  <2>5. LoadedOK(w) /\ SessionOK(w) BY DEF IInv, BookingInv, SessionInv
  <2>6. req[w].op \in RentalOps /\ req[w] \in Requests
    BY <2>1, <2>5 DEF LoadedOK, SessionOK
  <2>7. /\ l \in {"freeVehicle", "commit"}
        /\ l = "freeVehicle" => req[w].op \in RentalChanges
    BY DEF AfterRental, RentalChanges
  <2> HIDE DEF row, l
  <2>8. pc'[w] = l /\ req'[w] = req[w] /\ seen'[w] = seen[w]
    BY <2>1 DEF Goto, IInv, TypeOK
  <2>9. LoadedOK(w)' /\ TicketHeld(w)'
    BY <2>1, <2>5, <2>7, <2>8 DEF LoadedOK, TicketHeld, Checking, Cancelling
  <2>10. Continues(w, l)
    BY <2>1, <2>6, <2>7, <2>8, <2>9
       DEF Continues, OthersKept, Goto, IInv, TypeOK, Labels
  <2>11. req[w].op \notin Maintenance BY <2>6 DEF RentalOps, RentalChanges, Maintenance
  <2> QED BY <2>1, <2>3, <2>4, <2>8, <2>10, <2>11, StepWrites
<1> QED BY <1>1, <1>2

LEMMA WriteTicketStep ==
  ASSUME IInv, NEW w \in Workers, WriteTicket(w)
  PROVE  IInv'
<1> DEFINE k == req[w].key
           row == NewTicket(w)
           l == AfterTicket(w)
<1>1. CASE TicketRefused(w) BY <1>1, RollbackStep DEF WriteTicket
<1>2. CASE ~TicketRefused(w)
  <2>1. /\ pc[w] = "writeTicket" /\ Put(w, k, row) /\ Goto(w, l)
        /\ UNCHANGED <<now, req, seen, cand>>
    BY <1>2 DEF WriteTicket
  <2>2. /\ req[w] \in Requests /\ req[w].op \in TicketOps /\ k \in Tickets
        /\ row \in TicketRow \cup {NoRow}
        /\ req[w].op \in Maintenance => row \in TicketRow
    BY <1>2, <2>1, NewTicketType
  <2>3. k \notin Rentals /\ k \notin Vehicles BY <2>2, KeyAssumption
  <2>4. k \in Keys /\ RightTable(k, row) /\ Admissible(w, k, row)
    BY <2>2, <2>3 DEF RightTable, Admissible, Keys
  <2>5. LoadedOK(w) BY DEF IInv, BookingInv, SessionInv
  <2>6. /\ l \in {"commit", "writeHold", "guard", "readHold", "freeVehicle"}
        /\ l = "writeHold" => req[w].op = "create_maintenance"
        /\ l \in Cancelling => req[w].op \in Maintenance
        /\ l = "freeVehicle" =>
             req[w].op \in {"complete_maintenance", "_process_maintenance_update"}
    BY <2>2 DEF AfterTicket, TicketOps, Maintenance, Cancelling
  <2> HIDE DEF row, l
  <2>7. pc'[w] = l /\ req'[w] = req[w] /\ seen'[w] = seen[w]
    BY <2>1 DEF Goto, IInv, TypeOK
  <2>8. cur'[k] = row /\ owner'[k] = w
    BY <2>1, <2>4 DEF Put, IInv, TypeOK, TableOK
  <2>9. req[w].op \in Maintenance => row # NoRow BY <2>2, NullAssumption DEF Row
  <2>10. LoadedOK(w)'
    BY <2>1, <2>2, <2>5, <2>6, <2>7 DEF LoadedOK, Checking, IsInsert, TicketOps, Cancelling
  <2>11. TicketHeld(w)'
    BY <2>1, <2>5, <2>6, <2>7, <2>8, <2>9 DEF TicketHeld, LoadedOK, IsInsert
  <2>12. Continues(w, l)
    BY <2>1, <2>2, <2>6, <2>7, <2>10, <2>11
       DEF Continues, OthersKept, Goto, IInv, TypeOK, Labels
  <2> QED BY <2>1, <2>3, <2>4, <2>7, <2>12, StepWrites
<1> QED BY <1>1, <1>2

LEMMA VehicleWrite ==
  ASSUME IInv, NEW w \in Workers, NEW v \in Vehicles, NEW row \in VehicleRow,
         NEW l, Put(w, v, row), Continues(w, l), req'[w] = req[w], pc[w] # "idle"
  PROVE  IInv'
<1>1. v \in Keys /\ v \notin Rentals /\ v \notin Tickets
  BY KeyAssumption DEF Keys
<1>2. RightTable(v, row) /\ Admissible(w, v, row) BY <1>1 DEF RightTable, Admissible
<1> QED BY <1>1, <1>2, StepWrites

LEMMA WriteFreeStep ==
  ASSUME IInv, NEW w \in Workers, WriteFree(w)
  PROVE  IInv'
<1> DEFINE v == VehicleOf(w)
           l == AfterFree(w)
<1>1. /\ pc[w] = "writeFree" /\ Put(w, v, [status |-> "AVAILABLE"]) /\ Goto(w, l)
      /\ UNCHANGED <<now, req, seen, cand>>
  BY DEF WriteFree
<1>2. v \in Vehicles BY <1>1, VehicleOfType
<1>3. [status |-> "AVAILABLE"] \in VehicleRow BY DEF VehicleRow, VehicleStatus
<1>4. /\ l \in {"writeTicket", "commit"}
      /\ l = "writeTicket" => req[w].op = "_process_maintenance_delete"
  BY DEF AfterFree
<1> HIDE DEF v, l
<1>5. pc'[w] = l /\ req'[w] = req[w] /\ seen'[w] = seen[w]
  BY <1>1 DEF Goto, IInv, TypeOK
<1>6. LoadedOK(w) /\ SessionOK(w) BY DEF IInv, BookingInv, SessionInv
<1>7. LoadedOK(w)' /\ TicketHeld(w)'
  BY <1>1, <1>4, <1>5, <1>6
     DEF LoadedOK, TicketHeld, Checking, Cancelling, RentalChanges, IsInsert
<1>8. Continues(w, l)
  BY <1>1, <1>4, <1>5, <1>6, <1>7
     DEF Continues, OthersKept, Goto, IInv, TypeOK, Labels, SessionOK
<1> QED BY <1>1, <1>2, <1>3, <1>5, <1>8, VehicleWrite

LEMMA WriteHoldStep ==
  ASSUME IInv, NEW w \in Workers, WriteHold(w)
  PROVE  IInv'
<1> DEFINE v == VehicleOf(w)
           row == [status |-> Column(seen[w].status, cur[v].status, "MAINTENANCE")]
           l == AfterHold(w)
<1>1. /\ pc[w] = "writeHold" /\ Put(w, v, row) /\ Goto(w, l)
      /\ UNCHANGED <<now, req, seen, cand>>
  BY DEF WriteHold
<1>2. v \in Vehicles BY <1>1, VehicleOfType
<1>3. row \in VehicleRow
  <2>1. cur[v] \in VehicleRow BY <1>2 DEF IInv, TypeOK, TableOK
  <2> QED BY <2>1 DEF VehicleRow, VehicleStatus, Column
<1>4. /\ l \in {"guard", "scan", "commit"}
      /\ req[w].op = "update_maintenance" => l = "commit"
  BY DEF AfterHold
<1> HIDE DEF row, l
<1>5. pc'[w] = l /\ req'[w] = req[w] /\ seen'[w] = seen[w]
  BY <1>1 DEF Goto, IInv, TypeOK
<1>6. TicketHeld(w) /\ SessionOK(w) BY DEF IInv, BookingInv, SessionInv
<1>7. req[w].key \in Tickets
  BY <1>1, <1>6, TicketFields
     DEF TicketHeld, SessionOK, Cancelling, Maintenance, TicketOps
<1>8. req[w].key # v BY <1>2, <1>7, KeyAssumption
<1>9. cur'[req[w].key] = cur[req[w].key] /\ owner'[req[w].key] = owner[req[w].key]
  BY <1>1, <1>7, <1>8 DEF Put, IInv, TypeOK, TableOK, Keys
<1>10. LoadedOK(w)' /\ TicketHeld(w)'
  BY <1>1, <1>4, <1>5, <1>6, <1>9 DEF LoadedOK, TicketHeld, Checking, Cancelling
<1>11. Continues(w, l)
  BY <1>1, <1>4, <1>5, <1>6, <1>10
     DEF Continues, OthersKept, Goto, IInv, TypeOK, Labels, SessionOK
<1> QED BY <1>1, <1>2, <1>3, <1>5, <1>11, VehicleWrite

LEMMA WriteVehicleStep ==
  ASSUME IInv, NEW w \in Workers, WriteVehicle(w)
  PROVE  IInv'
<1> DEFINE v == req[w].key
           row == [status |-> Column(seen[w].status, cur[v].status, req[w].status)]
<1>1. /\ pc[w] = "writeVehicle" /\ Put(w, v, row) /\ Goto(w, "commit")
      /\ UNCHANGED <<now, req, seen, cand>>
  BY DEF WriteVehicle
<1>2. LoadedOK(w) /\ SessionOK(w) BY DEF IInv, BookingInv, SessionInv
<1>3. req[w] \in Requests /\ req[w].op \in VehicleOps
  BY <1>1, <1>2 DEF LoadedOK, SessionOK
<1>4. v \in Vehicles /\ req[w].status \in VehicleStatus BY <1>3, VehicleFields
<1>5. row \in VehicleRow
  <2>1. cur[v] \in VehicleRow BY <1>4 DEF IInv, TypeOK, TableOK
  <2> QED BY <1>4, <2>1 DEF VehicleRow, Column
<1> HIDE DEF row
<1>6. pc'[w] = "commit" /\ req'[w] = req[w] BY <1>1 DEF Goto, IInv, TypeOK
<1>7. LoadedOK(w)' /\ TicketHeld(w)'
  BY <1>6 DEF LoadedOK, TicketHeld, Checking, Cancelling
<1>8. Continues(w, "commit")
  BY <1>1, <1>3, <1>6, <1>7 DEF Continues, OthersKept, Goto, IInv, TypeOK, Labels
<1> QED BY <1>1, <1>4, <1>5, <1>6, <1>8, VehicleWrite

LEMMA CancelOneStep ==
  ASSUME IInv, NEW w \in Workers, CancelOne(w)
  PROVE  IInv'
<1>1. /\ pc[w] = "cancel" /\ UNCHANGED <<now, pc, req, seen>>
  BY DEF CancelOne
<1>2. PICK k \in cand[w] :
        /\ Free(w, k)
        /\ IF Interrupted(w, cur[k])
             THEN Put(w, k, [cur[k] EXCEPT !.status = "CANCELLED"])
             ELSE UNCHANGED db
        /\ cand' = [cand EXCEPT ![w] = @ \ {k}]
  BY DEF CancelOne
<1>3. cand \in [Workers -> SUBSET Rentals] BY DEF IInv, TypeOK
<1>4. k \in Rentals /\ cand' \in [Workers -> SUBSET Rentals] BY <1>2, <1>3
<1>5. Goto(w, "cancel") BY <1>1 DEF Goto, IInv, TypeOK
<1>6. TicketHeld(w) /\ SessionOK(w) BY DEF IInv, BookingInv, SessionInv
<1>7. CASE ~Interrupted(w, cur[k])
  <2>1. UNCHANGED db BY <1>2, <1>7
  <2>2. seen' \in [Workers -> Loaded] BY <1>1 DEF IInv, TypeOK
  <2> QED BY <1>1, <1>4, <1>5, <2>1, <2>2, CancellingReads DEF Cancelling
<1>8. CASE Interrupted(w, cur[k])
  <2> DEFINE row == [cur[k] EXCEPT !.status = "CANCELLED"]
  <2>1. Put(w, k, row) BY <1>2, <1>8
  <2>2. Blocking(cur[k]) BY <1>8 DEF Interrupted
  <2>3. cur[k] \in RentalRow
    BY <1>4, <2>2 DEF Blocking, IInv, TypeOK, TableOK
  <2>4. row \in RentalRow /\ row.status = "CANCELLED"
    BY <2>3 DEF RentalRow, RentalStatus
  <2> HIDE DEF row
  <2>5. \A s : ~Clash(row, s) BY <2>4 DEF Clash, Blocking, Terminal
  <2>6. k \in Keys /\ k \notin Tickets /\ k \notin Vehicles BY <1>4, KeyAssumption DEF Keys
  <2>7. RightTable(k, row) /\ Admissible(w, k, row)
    BY <2>4, <2>5, <2>6 DEF RightTable, Admissible
  <2>8. req[w].op \in Maintenance /\ req[w] \in Requests
    BY <1>1, <1>6 DEF TicketHeld, SessionOK, Cancelling
  <2>9. req[w].key \in Tickets
    BY <2>8, TicketFields DEF Maintenance, TicketOps
  <2>10. Blocking(com[k])
    <3>1. CASE owner[k] = w BY <1>4, <1>6, <2>8, <3>1 DEF SessionOK
    <3>2. CASE owner[k] = NoWorker
      BY <2>2, <2>6, <3>2 DEF IInv, BookingInv, LocksOK
    <3> QED BY <1>2, <3>1, <3>2 DEF Free
  <2>11. cur'[req[w].key] = cur[req[w].key] /\ owner'[req[w].key] = owner[req[w].key]
    BY <2>1, <2>6, <2>9 DEF Put, IInv, TypeOK, TableOK, Keys
  <2>12. LoadedOK(w)' /\ TicketHeld(w)'
    BY <1>1, <1>6, <2>11 DEF LoadedOK, TicketHeld, Checking, Cancelling
  <2>13. Continues(w, "cancel")
    BY <1>1, <1>4, <1>5, <2>8, <2>12
       DEF Continues, OthersKept, Goto, IInv, TypeOK, Labels
  <2> QED BY <1>1, <2>1, <2>6, <2>7, <2>10, <2>13, StepWrites
<1> QED BY <1>7, <1>8

(***************************************************************************)
(* The invariant holds initially and is preserved by every step.           *)
(***************************************************************************)
LEMMA InitInv == Init => IInv
<1> SUFFICES ASSUME Init PROVE IInv OBVIOUS
<1>1. /\ com = [k \in Keys |-> IF k \in Vehicles THEN [status |-> "AVAILABLE"] ELSE NoRow]
      /\ cur = com /\ owner = [k \in Keys |-> NoWorker] /\ now = 0
      /\ pc = [w \in Workers |-> "idle"] /\ req = [w \in Workers |-> NoRow]
      /\ seen = [w \in Workers |-> NoRow] /\ cand = [w \in Workers |-> {}]
  BY DEF Init
<1>2. \A k \in Rentals : com[k] = NoRow BY <1>1, KeyAssumption DEF Keys
<1>3. TableOK(com)
  <2>1. [status |-> "AVAILABLE"] \in VehicleRow BY DEF VehicleRow, VehicleStatus
  <2>2. \A k \in Tickets : com[k] = NoRow BY <1>1, KeyAssumption DEF Keys
  <2>3. \A k \in Vehicles : com[k] \in VehicleRow BY <1>1, <2>1 DEF Keys
  <2>4. com \in [Keys -> Row \cup {NoRow}] BY <1>1, <2>1 DEF Row
  <2> QED BY <1>2, <2>2, <2>3, <2>4 DEF TableOK
<1>4. TypeOK
  <2>1. 0 \in Slots BY TimeAssumption DEF Slots
  <2> QED BY <1>1, <1>3, <2>1 DEF TypeOK, Labels, Loaded
<1>5. SessionInv
  BY <1>1, KeyAssumption
     DEF SessionInv, LoadedOK, TicketHeld, SessionOK, Checking, Cancelling, Keys
<1>6. LocksOK BY <1>1 DEF LocksOK
<1>7. VersionsOK BY <1>1, <1>2 DEF VersionsOK, Clash, Blocking
<1> QED BY <1>4, <1>5, <1>6, <1>7 DEF IInv, BookingInv

LEMMA NextInv == IInv /\ [Next]_vars => IInv'
<1> SUFFICES ASSUME IInv, [Next]_vars PROVE IInv' OBVIOUS
<1>1. CASE UNCHANGED vars
  BY <1>1 DEF vars, db, local, IInv, TypeOK, TableOK, BookingInv, SessionInv, LoadedOK,
              TicketHeld, SessionOK, IsInsert, LocksOK, VersionsOK
<1>2. CASE Tick
  <2>1. now' \in Slots BY <1>2, TimeAssumption DEF Tick, IInv, TypeOK, Slots
  <2> QED BY <1>2, <2>1 DEF Tick, db, local, IInv, TypeOK, TableOK, BookingInv,
             SessionInv, LoadedOK, TicketHeld, SessionOK, IsInsert, LocksOK, VersionsOK
<1>3. ASSUME NEW w \in Workers, Handle(w) \/ Statement(w) \/ Fail(w)
      PROVE  IInv'
  <2>1. CASE Handle(w) BY <2>1, HandleStep
  <2>2. CASE Fail(w) BY <2>2, RollbackStep DEF Fail
  <2>3. CASE Statement(w)
    BY <2>3, CheckStep, WriteRentalStep, WriteTicketStep, WriteVehicleStep,
       FreeVehicleStep, WriteFreeStep, ReadHoldStep, WriteHoldStep, ScanStep,
       CancelOneStep, CommitStep, RollbackStep
       DEF Statement, DeadlockVictim
  <2> QED BY <1>3, <2>1, <2>2, <2>3
<1> QED BY <1>1, <1>2, <1>3 DEF Next

LEMMA Invariance == Spec => []IInv
BY InitInv, NextInv, PTL DEF Spec

(***************************************************************************)
(* Every table holds rows of its own type and every session the request it *)
(* serves, whatever the handlers write through the ORM.                    *)
(***************************************************************************)
THEOREM TypeCorrect == Spec => []TypeOK
<1>1. IInv => TypeOK BY DEF IInv
<1> QED BY <1>1, Invariance, PTL

(***************************************************************************)
(* A vehicle is never booked twice for one instant: the unlocked check of  *)
(* check_availability may be stale and sync pushes skip it, but the        *)
(* exclusion constraint, tested against uncommitted versions too, decides. *)
(***************************************************************************)
THEOREM NeverDoubleBooked == Spec => []NoDoubleBooking
<1>1. IInv => NoDoubleBooking
  BY DEF IInv, BookingInv, VersionsOK, NoDoubleBooking
<1> QED BY <1>1, Invariance, PTL

(***************************************************************************)
(* The inductive invariant, as the run checks it.                          *)
(***************************************************************************)
THEOREM BookingInvariant == Spec => []BookingInv
<1>1. IInv => BookingInv BY DEF IInv
<1> QED BY <1>1, Invariance, PTL

(***************************************************************************)
(* A maintenance that commits cancels only rentals that are still open:    *)
(* cancel_overlapping_reservations never touches a COMPLETED or CANCELLED  *)
(* rental, even one closed while its SELECT ... FOR UPDATE waited.         *)
(***************************************************************************)
THEOREM MaintenanceSparesClosed == Spec => ClosedRentalsSpared
<1> DEFINE Spared == \A w \in Workers, k \in Rentals :
             /\ Commit(w) /\ req[w].op \in Maintenance
             /\ com'[k] # com[k]
             => com[k] # NoRow /\ com[k].status \notin Terminal
<1>1. IInv /\ [Next]_vars => Spared
  <2> SUFFICES ASSUME IInv, NEW w \in Workers, NEW k \in Rentals, Commit(w),
                      req[w].op \in Maintenance, com'[k] # com[k]
               PROVE  com[k] # NoRow /\ com[k].status \notin Terminal
    OBVIOUS
  <2>1. owner[k] = w BY DEF Commit, Keys
  <2>2. SessionOK(w) BY DEF IInv, BookingInv, SessionInv
  <2>3. req[w] \in Requests BY <2>2 DEF Commit, SessionOK
  <2> QED BY <2>1, <2>2, <2>3 DEF SessionOK, Blocking
<1> QED BY <1>1, Invariance, PTL DEF Spec, ClosedRentalsSpared

(***************************************************************************)
(* FleetBooking implements BookingCalendar: each commit is a booking, a    *)
(* move or a release of windows, and no other step is seen at all.         *)
(***************************************************************************)
CInv == IInv /\ WrittenOK

(***************************************************************************)
(* WrittenOK is kept by steps that write nothing, by steps that write one  *)
(* row, and by the end of a request.                                       *)
(***************************************************************************)
LEMMA WrittenAfterRead ==
  ASSUME CInv, UNCHANGED db,
         \A x \in Workers : pc[x] = "idle" \/ req'[x] = req[x]
  PROVE  WrittenOK'
<1>1. com' = com /\ cur' = cur /\ owner' = owner BY DEF db
<1>2. ASSUME NEW x \in Workers, NEW k \in Rentals, owner[k] = x
      PROVE  req'[x] = req[x]
  <2>1. SessionOK(x) BY DEF CInv, IInv, BookingInv, SessionInv
  <2>2. pc[x] # "idle" BY <1>2, <2>1 DEF SessionOK, Keys
  <2> QED BY <2>2
<1> QED BY <1>1, <1>2 DEF CInv, WrittenOK

LEMMA WrittenAfterPut ==
  ASSUME CInv, NEW w \in Workers, NEW k \in Keys, NEW row, Put(w, k, row), req' = req,
         k \in Rentals =>
           IF req[w].op \in Maintenance THEN row.status = "CANCELLED"
           ELSE k = req[w].key /\ (com[k] # NoRow => row.veh = com[k].veh)
  PROVE  WrittenOK'
<1>1. /\ com' = com
      /\ \A j \in Keys : cur'[j] = IF j = k THEN row ELSE cur[j]
      /\ \A j \in Keys : owner'[j] = IF j = k THEN w ELSE owner[j]
  BY DEF Put, CInv, IInv, TypeOK, TableOK
<1> QED BY <1>1 DEF CInv, WrittenOK, Keys

LEMMA WrittenAfterEnd ==
  ASSUME CInv, NEW w \in Workers, Leave(w),
         \A k \in Keys : owner[k] # w => com'[k] = com[k] /\ cur'[k] = cur[k]
  PROVE  WrittenOK'
<1>1. /\ OthersKept(w)
      /\ \A k \in Keys : owner'[k] = IF owner[k] = w THEN NoWorker ELSE owner[k]
  BY LeaveKeeps DEF CInv
<1>2. ASSUME NEW x \in Workers, NEW k \in Rentals, owner'[k] = x
      PROVE  /\ owner[k] = x /\ req'[x] = req[x]
             /\ com'[k] = com[k] /\ cur'[k] = cur[k]
  <2>1. k \in Keys BY DEF Keys
  <2>2. owner[k] = x /\ x # w BY <1>1, <1>2, <2>1, KeyAssumption
  <2> QED BY <1>1, <2>1, <2>2 DEF OthersKept
<1> QED BY <1>2 DEF CInv, WrittenOK

LEMMA WrittenAfterRollback ==
  ASSUME CInv, NEW w \in Workers, Rollback(w)
  PROVE  WrittenOK'
<1>1. /\ Leave(w) /\ com' = com
      /\ \A k \in Keys : cur'[k] = IF owner[k] = w THEN com[k] ELSE cur[k]
  BY DEF Rollback
<1> QED BY <1>1, WrittenAfterEnd

LEMMA WrittenAfterCommit ==
  ASSUME CInv, NEW w \in Workers, Commit(w)
  PROVE  WrittenOK'
<1>1. /\ Leave(w) /\ cur' = cur
      /\ \A k \in Keys : com'[k] = IF owner[k] = w THEN cur[k] ELSE com[k]
  BY DEF Commit
<1> QED BY <1>1, WrittenAfterEnd

(***************************************************************************)
(* The statements that write.  A rental stays on its vehicle.              *)
(***************************************************************************)
LEMMA RentalKeepsVehicle ==
  ASSUME CInv, NEW w \in Workers, pc[w] = "writeRental", Free(w, req[w].key),
         ~RentalRefused(w), com[req[w].key] # NoRow
  PROVE  NewRental(w).veh = com[req[w].key].veh
<1> DEFINE q == req[w]  k == q.key
<1>1. q \in Requests /\ q.op \in RentalOps
  BY DEF CInv, IInv, BookingInv, SessionInv, SessionOK, LoadedOK
<1>2. k \in Rentals /\ k \in Keys BY <1>1, RentalFields DEF Keys
<1>3. q.op \notin Maintenance BY <1>1 DEF RentalOps, RentalChanges, Maintenance
<1>4. cur[k] # NoRow /\ (owner[k] = NoWorker => cur[k] = com[k])
  BY <1>2 DEF CInv, IInv, BookingInv, LocksOK
<1>5. cur[k] \in RentalRow BY <1>2, <1>4 DEF CInv, IInv, TypeOK, TableOK
<1>6. cur[k].veh = com[k].veh
  <2>1. CASE owner[k] = w BY <1>2, <1>3, <2>1 DEF CInv, WrittenOK
  <2>2. CASE owner[k] = NoWorker BY <1>4, <2>2
  <2> QED BY <2>1, <2>2 DEF Free
<1>7. ~IsInsert(w) BY <1>4 DEF RentalRefused
<1>8. q.op \in RentalChanges BY <1>1, <1>7 DEF RentalOps, IsInsert
<1>9. NewRental(w).veh = cur[k].veh
  BY <1>5, <1>8 DEF NewRental, RentalChanges, RentalRow
<1> QED BY <1>6, <1>9

LEMMA WrittenAfterWriteRental ==
  ASSUME CInv, NEW w \in Workers, WriteRental(w)
  PROVE  WrittenOK'
<1> DEFINE k == req[w].key  row == NewRental(w)
<1>1. CASE Rollback(w) BY <1>1, WrittenAfterRollback
<1>2. CASE ~Rollback(w)
  <2>1. /\ pc[w] = "writeRental" /\ Free(w, k) /\ ~RentalRefused(w)
        /\ Put(w, k, row) /\ req' = req
    BY <1>2 DEF WriteRental
  <2>2. k \in Keys BY <2>1, NewRentalType DEF Keys, CInv
  <2>3. req[w].op \in RentalOps
    BY <2>1 DEF CInv, IInv, BookingInv, SessionInv, LoadedOK
  <2>4. req[w].op \notin Maintenance BY <2>3 DEF RentalOps, RentalChanges, Maintenance
  <2>5. com[k] # NoRow => row.veh = com[k].veh BY <2>1, RentalKeepsVehicle
  <2> HIDE DEF row
  <2> QED BY <2>1, <2>2, <2>4, <2>5, WrittenAfterPut
<1> QED BY <1>1, <1>2

LEMMA WrittenAfterOtherWrites ==
  ASSUME CInv, NEW w \in Workers, WriteTicket(w) \/ WriteFree(w) \/ WriteHold(w) \/ WriteVehicle(w)
  PROVE  WrittenOK'
<1>1. CASE Rollback(w) BY <1>1, WrittenAfterRollback
<1>2. CASE WriteTicket(w) /\ ~Rollback(w)
  <2>1. /\ pc[w] = "writeTicket" /\ ~TicketRefused(w)
        /\ Put(w, req[w].key, NewTicket(w)) /\ req' = req
    BY <1>2 DEF WriteTicket
  <2>2. req[w].key \in Tickets BY <2>1, NewTicketType DEF CInv
  <2>3. req[w].key \in Keys /\ req[w].key \notin Rentals BY <2>2, KeyAssumption DEF Keys
  <2> QED BY <2>1, <2>3, WrittenAfterPut
<1>3. ASSUME NEW v \in Vehicles, NEW row, Put(w, v, row), req' = req
      PROVE  WrittenOK'
  <2>1. v \in Keys /\ v \notin Rentals BY KeyAssumption DEF Keys
  <2> QED BY <1>3, <2>1, WrittenAfterPut
<1>4. CASE WriteFree(w)
  <2>1. VehicleOf(w) \in Vehicles BY <1>4, VehicleOfType DEF WriteFree, CInv
  <2> QED BY <1>3, <1>4, <2>1 DEF WriteFree
<1>5. CASE WriteHold(w)
  <2>1. VehicleOf(w) \in Vehicles BY <1>5, VehicleOfType DEF WriteHold, CInv
  <2> QED BY <1>3, <1>5, <2>1 DEF WriteHold
<1>6. CASE WriteVehicle(w)
  <2>1. LoadedOK(w) /\ SessionOK(w) BY DEF CInv, IInv, BookingInv, SessionInv
  <2>2. req[w] \in Requests /\ req[w].op \in VehicleOps
    BY <1>6, <2>1 DEF LoadedOK, SessionOK, WriteVehicle
  <2>3. req[w].key \in Vehicles BY <2>2, VehicleFields
  <2> QED BY <1>3, <1>6, <2>3 DEF WriteVehicle
<1> QED BY <1>1, <1>2, <1>4, <1>5, <1>6

LEMMA WrittenAfterCancelOne ==
  ASSUME CInv, NEW w \in Workers, CancelOne(w)
  PROVE  WrittenOK'
<1>1. pc[w] = "cancel" /\ req' = req BY DEF CancelOne
<1>2. PICK k \in cand[w] :
        IF Interrupted(w, cur[k]) THEN Put(w, k, [cur[k] EXCEPT !.status = "CANCELLED"])
        ELSE UNCHANGED db
  BY DEF CancelOne
<1>3. k \in Rentals /\ k \in Keys BY <1>2 DEF CInv, IInv, TypeOK, Keys
<1>4. CASE ~Interrupted(w, cur[k]) BY <1>1, <1>2, <1>4, WrittenAfterRead
<1>5. CASE Interrupted(w, cur[k])
  <2> DEFINE row == [cur[k] EXCEPT !.status = "CANCELLED"]
  <2>1. cur[k] \in RentalRow
    BY <1>3, <1>5 DEF Interrupted, Blocking, CInv, IInv, TypeOK, TableOK
  <2>2. row.status = "CANCELLED" BY <2>1 DEF RentalRow
  <2>3. req[w].op \in Maintenance
    BY <1>1 DEF CInv, IInv, BookingInv, SessionInv, TicketHeld, Cancelling
  <2>4. Put(w, k, row) BY <1>2, <1>5
  <2> HIDE DEF row
  <2> QED BY <1>1, <1>3, <2>2, <2>3, <2>4, WrittenAfterPut
<1> QED BY <1>4, <1>5

(***************************************************************************)
(* The steps that only read or start a request.                            *)
(***************************************************************************)
LEMMA WrittenAfterStart ==
  ASSUME CInv, NEW w \in Workers, Handle(w)
  PROVE  WrittenOK'
<1>1. \E q, row, l : Start(w, q, row, l)
  <2>1. CASE CreateRental(w) \/ UpdateRental(w) \/ CancelRental(w) \/ CompleteRental(w)
    BY <2>1 DEF CreateRental, UpdateRental, CancelRental, CompleteRental
  <2>2. CASE ActivateRental(w) \/ PushReservationCreate(w) \/ PushReservationUpdate(w)
    BY <2>2 DEF ActivateRental, PushReservationCreate, PushReservationUpdate
  <2>3. CASE CreateMaintenance(w) \/ CompleteMaintenance(w) \/ DeleteMaintenance(w)
    BY <2>3 DEF CreateMaintenance, CompleteMaintenance, DeleteMaintenance
  <2>4. CASE UpdateMaintenance(w) \/ PushMaintenanceCreate(w) \/ PushMaintenanceUpdate(w)
    BY <2>4 DEF UpdateMaintenance, PushMaintenanceCreate, PushMaintenanceUpdate
  <2>5. CASE PushMaintenanceDelete(w) \/ UpdateVehicle(w) \/ PushVehicleUpdate(w)
    BY <2>5 DEF PushMaintenanceDelete, UpdateVehicle, PushVehicleUpdate
  <2> QED BY <2>1, <2>2, <2>3, <2>4, <2>5 DEF Handle
<1>2. UNCHANGED db /\ \A x \in Workers : pc[x] = "idle" \/ req'[x] = req[x]
  BY <1>1 DEF Start, CInv, IInv, TypeOK
<1> QED BY <1>2, WrittenAfterRead

LEMMA WrittenAfterStatement ==
  ASSUME CInv, NEW w \in Workers, Statement(w)
  PROVE  WrittenOK'
<1>1. ASSUME UNCHANGED <<db, req>> PROVE WrittenOK'
  BY <1>1, WrittenAfterRead
<1>2. CASE CheckVehicle(w) \/ CheckRentals(w) \/ CheckTickets(w)
  BY <1>1, <1>2, WrittenAfterRollback DEF CheckVehicle, CheckRentals, CheckTickets
<1>3. CASE FreeVehicle(w) \/ ReadHold(w) \/ Scan(w) \/ CancelDone(w)
  BY <1>1, <1>3 DEF FreeVehicle, ReadHold, Scan, CancelDone
<1>4. CASE Guard(w) \/ DeadlockVictim(w)
  BY <1>1, <1>4, WrittenAfterRollback DEF Guard, DeadlockVictim
<1>5. CASE WriteRental(w) BY <1>5, WrittenAfterWriteRental
<1>6. CASE WriteTicket(w) \/ WriteFree(w) \/ WriteHold(w) \/ WriteVehicle(w)
  BY <1>6, WrittenAfterOtherWrites
<1>7. CASE CancelOne(w) BY <1>7, WrittenAfterCancelOne
<1>8. CASE Commit(w) BY <1>8, WrittenAfterCommit
<1> QED BY <1>2, <1>3, <1>4, <1>5, <1>6, <1>7, <1>8 DEF Statement

LEMMA CalendarInvariant == Spec => []CInv
<1>1. Init => CInv
  <2> SUFFICES ASSUME Init PROVE WrittenOK BY InitInv DEF CInv
  <2> QED BY KeyAssumption DEF Init, WrittenOK, Keys
<1>2. CInv /\ [Next]_vars => CInv'
  <2> SUFFICES ASSUME CInv, [Next]_vars PROVE WrittenOK' BY NextInv DEF CInv
  <2>1. CASE UNCHANGED vars BY <2>1, WrittenAfterRead DEF vars, local
  <2>2. CASE Tick BY <2>2, WrittenAfterRead DEF Tick, local
  <2>3. ASSUME NEW w \in Workers, Handle(w) \/ Statement(w) \/ Fail(w)
        PROVE  WrittenOK'
    BY <2>3, WrittenAfterStart, WrittenAfterStatement, WrittenAfterRollback DEF Fail
  <2> QED BY <2>1, <2>2, <2>3 DEF Next
<1> QED BY <1>1, <1>2, PTL DEF Spec

(***************************************************************************)
(* The windows.                                                            *)
(***************************************************************************)
Windows == [veh : Vehicles, start : Slots, end : Slots]

LEMMA HeldIsWindow ==
  ASSUME NEW row \in RentalRow \cup {NoRow}
  PROVE  /\ Held(row) # NoRow <=> Blocking(row)
         /\ Blocking(row) => /\ row \in RentalRow
                             /\ Held(row) \in Windows
                             /\ Held(row) = [veh |-> row.veh, start |-> row.start, end |-> row.end]
BY WindowAssumption DEF Held, Blocking, RentalRow, Windows

LEMMA HeldDisjoint ==
  ASSUME NEW r \in RentalRow \cup {NoRow}, NEW s \in RentalRow \cup {NoRow},
         Blocking(r), Blocking(s), ~Clash(r, s)
  PROVE  Calendar!Disjoint(Held(r), Held(s))
<1>1. /\ Held(r) = [veh |-> r.veh, start |-> r.start, end |-> r.end]
      /\ Held(s) = [veh |-> s.veh, start |-> s.start, end |-> s.end]
      /\ r \in RentalRow /\ s \in RentalRow
  BY HeldIsWindow
<1>2. r.start \in Int /\ r.end \in Int /\ s.start \in Int /\ s.end \in Int
  BY <1>1, TimeAssumption DEF RentalRow, Slots
<1>3. r.veh # s.veh \/ r.end <= s.start \/ s.end <= r.start
  BY <1>2 DEF Clash, Overlap
<1> QED BY <1>1, <1>3 DEF Calendar!Disjoint

Book == [k \in Rentals |-> Held(com[k])]

(***************************************************************************)
(* Only a commit changes what is committed.                                *)
(***************************************************************************)
LEMMA OnlyCommits ==
  ASSUME [Next]_vars, \A w \in Workers : ~Commit(w)
  PROVE  com' = com
<1> USE DEF Start, Rollback, Put, db
<1>1. CASE UNCHANGED vars BY <1>1 DEF vars
<1>2. CASE Tick BY <1>2 DEF Tick
<1>3. ASSUME NEW w \in Workers, Handle(w) PROVE com' = com
  <2>1. CASE CreateRental(w) \/ UpdateRental(w) \/ CancelRental(w) \/ CompleteRental(w)
    BY <2>1 DEF CreateRental, UpdateRental, CancelRental, CompleteRental
  <2>2. CASE ActivateRental(w) \/ PushReservationCreate(w) \/ PushReservationUpdate(w)
    BY <2>2 DEF ActivateRental, PushReservationCreate, PushReservationUpdate
  <2>3. CASE CreateMaintenance(w) \/ CompleteMaintenance(w) \/ DeleteMaintenance(w)
    BY <2>3 DEF CreateMaintenance, CompleteMaintenance, DeleteMaintenance
  <2>4. CASE UpdateMaintenance(w) \/ PushMaintenanceCreate(w) \/ PushMaintenanceUpdate(w)
    BY <2>4 DEF UpdateMaintenance, PushMaintenanceCreate, PushMaintenanceUpdate
  <2>5. CASE PushMaintenanceDelete(w) \/ UpdateVehicle(w) \/ PushVehicleUpdate(w)
    BY <2>5 DEF PushMaintenanceDelete, UpdateVehicle, PushVehicleUpdate
  <2> QED BY <1>3, <2>1, <2>2, <2>3, <2>4, <2>5 DEF Handle
<1>4. ASSUME NEW w \in Workers, Statement(w) PROVE com' = com
  <2>1. CASE CheckVehicle(w) \/ CheckRentals(w) \/ CheckTickets(w) \/ Guard(w)
    BY <2>1 DEF CheckVehicle, CheckRentals, CheckTickets, Guard
  <2>2. CASE WriteRental(w) \/ WriteTicket(w) \/ WriteVehicle(w) \/ WriteFree(w) \/ WriteHold(w)
    BY <2>2 DEF WriteRental, WriteTicket, WriteVehicle, WriteFree, WriteHold
  <2>3. CASE FreeVehicle(w) \/ ReadHold(w) \/ Scan(w) \/ CancelOne(w) \/ CancelDone(w)
    BY <2>3 DEF FreeVehicle, ReadHold, Scan, CancelOne, CancelDone
  <2>4. CASE DeadlockVictim(w) BY <2>4 DEF DeadlockVictim
  <2> QED BY <1>4, <2>1, <2>2, <2>3, <2>4 DEF Statement
<1>5. ASSUME NEW w \in Workers, Fail(w) PROVE com' = com BY <1>5 DEF Fail
<1> QED BY <1>1, <1>2, <1>3, <1>4, <1>5 DEF Next

(***************************************************************************)
(* The commit of a maintenance releases windows.                           *)
(***************************************************************************)
LEMMA MaintenanceReleases ==
  ASSUME CInv, NEW w \in Workers, Commit(w), req[w].op \in Maintenance
  PROVE  Calendar!Release({k \in Rentals : owner[k] = w})
<1>1. \A k \in Rentals : com'[k] = IF owner[k] = w THEN cur[k] ELSE com[k]
  BY DEF Commit, Keys
<1>2. ASSUME NEW k \in Rentals
      PROVE  Held(com'[k]) = IF owner[k] = w THEN NoRow ELSE Held(com[k])
  <2>1. owner[k] = w => cur[k].status = "CANCELLED" BY DEF CInv, WrittenOK
  <2> QED BY <1>1, <2>1 DEF Held, Blocking, Terminal
<1> QED BY <1>2 DEF Calendar!Release

(***************************************************************************)
(* The commit of any other request concerns the window of one rental.      *)
(***************************************************************************)
LEMMA OthersBook ==
  ASSUME CInv, NEW w \in Workers, Commit(w), req[w].op \notin Maintenance
  PROVE  Calendar!Next \/ Book' = Book
<1> DEFINE k == req[w].key
<1>1. \A j \in Rentals : com'[j] = IF owner[j] = w THEN cur[j] ELSE com[j]
  BY DEF Commit, Keys
<1>2. \A j \in Rentals : owner[j] = w => j = k BY DEF CInv, WrittenOK
<1>3. CASE k \notin Rentals \/ owner[k] # w
  <2>1. \A j \in Rentals : com'[j] = com[j] BY <1>1, <1>2, <1>3
  <2> QED BY <2>1 DEF Book
<1>4. CASE k \in Rentals /\ owner[k] = w
  <2> DEFINE old == com[k]  new == cur[k]
  <2>1. old \in RentalRow \cup {NoRow} /\ new \in RentalRow \cup {NoRow}
    BY <1>4 DEF CInv, IInv, TypeOK, TableOK
  <2>2. Book' = [Book EXCEPT ![k] = Held(new)]
    BY <1>1, <1>2, <1>4 DEF Book
  <2>3. Blocking(new) => Calendar!Fits(k, Held(new))
    <3> SUFFICES ASSUME Blocking(new), NEW j \in Rentals \ {k}, Held(com[j]) # NoRow
                 PROVE  Calendar!Disjoint(Held(com[j]), Held(new))
      BY DEF Calendar!Fits
    <3>1. com[j] \in RentalRow \cup {NoRow} BY DEF CInv, IInv, TypeOK, TableOK
    <3>2. Blocking(com[j]) BY <3>1, HeldIsWindow
    <3>3. owner[j] # owner[k] BY <1>2, <1>4
    <3>4. ~Clash(com[j], new) BY <1>4, <3>3 DEF CInv, IInv, BookingInv, VersionsOK
    <3> QED BY <2>1, <3>1, <3>2, <3>4, HeldDisjoint
  <2>4. CASE ~Blocking(new)
    <3>1. Held(new) = NoRow BY <2>1, <2>4, HeldIsWindow
    <3>2. Book' = [j \in Rentals |-> IF j \in {k} THEN NoRow ELSE Book[j]]
      BY <1>4, <2>2, <3>1 DEF Book
    <3>3. Calendar!Release({k}) BY <3>2 DEF Calendar!Release, Book
    <3> QED BY <1>4, <3>3 DEF Calendar!Next
  <2>5. CASE Blocking(new)
    <3>1. Held(new) \in Windows /\ Held(new).veh = new.veh BY <2>1, <2>5, HeldIsWindow
    <3>2. CASE ~Blocking(old)
      <4>1. Held(old) = NoRow BY <2>1, <3>2, HeldIsWindow
      <4>2. Calendar!Book(k, Held(new))
        BY <1>4, <2>2, <2>3, <2>5, <4>1 DEF Calendar!Book, Book
      <4> QED BY <1>4, <3>1, <4>2 DEF Calendar!Next, Calendar!Windows, Windows, Slots
    <3>3. CASE Blocking(old)
      <4>1. Held(old) # NoRow /\ Held(old).veh = old.veh BY <2>1, <3>3, HeldIsWindow
      <4>2. new.veh = old.veh
        BY <1>4, <3>3 DEF CInv, WrittenOK, Blocking
      <4>3. Calendar!Move(k, Held(new))
        BY <1>4, <2>2, <2>3, <2>5, <3>1, <4>1, <4>2 DEF Calendar!Move, Book
      <4> QED BY <1>4, <3>1, <4>3 DEF Calendar!Next, Calendar!Windows, Windows, Slots
    <3> QED BY <3>2, <3>3
  <2> QED BY <2>4, <2>5
<1> QED BY <1>3, <1>4

(***************************************************************************)
(* The requests are atomic bookings, moves and releases of disjoint        *)
(* windows to those who read the tables, although each of them is a        *)
(* sequence of statements over what others may change in between.          *)
(***************************************************************************)
THEOREM ImplementsCalendar == Spec => BooksCalendar
<1>1. Init => Calendar!Init
  <2> SUFFICES ASSUME Init PROVE Calendar!Init OBVIOUS
  <2>1. \A k \in Rentals : Held(com[k]) = NoRow
    BY KeyAssumption DEF Init, Keys, Held, Blocking
  <2> QED BY <2>1 DEF Calendar!Init
<1>2. CInv /\ [Next]_vars => [Calendar!Next]_([k \in Rentals |-> Held(com[k])])
  <2> SUFFICES ASSUME CInv, [Next]_vars
               PROVE  Calendar!Next \/ Book' = Book
    BY DEF Book
  <2>1. CASE \A w \in Workers : ~Commit(w)
    <3>1. com' = com BY <2>1, OnlyCommits
    <3> QED BY <3>1 DEF Book
  <2>2. ASSUME NEW w \in Workers, Commit(w) PROVE Calendar!Next \/ Book' = Book
    <3>1. CASE req[w].op \in Maintenance
      <4>1. Calendar!Release({k \in Rentals : owner[k] = w})
        BY <2>2, <3>1, MaintenanceReleases
      <4> QED BY <4>1 DEF Calendar!Next
    <3>2. CASE req[w].op \notin Maintenance BY <2>2, <3>2, OthersBook
    <3> QED BY <3>1, <3>2
  <2> QED BY <2>1, <2>2
<1> QED BY <1>1, <1>2, CalendarInvariant, PTL DEF Spec, BooksCalendar, Calendar!Spec

(***************************************************************************)
(* Maintenance wins over reservations, when requests follow each other.    *)
(***************************************************************************)
SInv == IInv /\ SerialInv

LEMMA OnlyOne ==
  ASSUME IInv, OneAtATime, NEW w \in Workers, NEW k \in Keys
  PROVE  Free(w, k) /\ Reads(w, k) = cur[k] /\ (owner[k] # w => cur[k] = com[k])
<1>1. owner[k] \in {w, NoWorker} BY DEF OneAtATime, IInv, TypeOK
<1>2. owner[k] = NoWorker => cur[k] = com[k] BY DEF IInv, BookingInv, LocksOK
<1> QED BY <1>1, <1>2 DEF Free, Reads

LEMMA HeldTicket ==
  ASSUME IInv, NEW w \in Workers, pc[w] \in Cancelling
  PROVE  req[w].key \in Tickets
<1>1. req[w] \in Requests /\ req[w].op \in TicketOps
  BY DEF IInv, BookingInv, SessionInv, TicketHeld, SessionOK, Cancelling, Maintenance, TicketOps
<1> QED BY <1>1, TicketFields

\* A step that changes no rental and no ticket, and cancels what there is to cancel.
LEMMA SerialKept ==
  ASSUME SInv, OneAtATime, NEW w \in Workers, com' = com,
         \A k \in Rentals \cup Tickets : cur'[k] = cur[k],
         \A k \in Rentals, m \in Tickets :
           Conflict(cur[k], cur[m]) /\ EndsAgree(cur[m]) /\ ToCancel(w, k, m)
           => ToCancel(w, k, m)',
         pc'[w] = "writeTicket" /\ IsUpdate(w)' =>
           /\ \A k \in Keys : owner'[k] # w
           /\ SameTicket(seen'[w], com[req'[w].key]),
         pc'[w] \in Cancelling => pc[w] \in Cancelling /\ req'[w] = req[w]
  PROVE  SerialInv'
<1>1. \A x \in Workers : x = w BY DEF OneAtATime
<1>2. ASSUME NEW k \in Rentals, NEW m \in Tickets, Conflict(cur'[k], cur'[m]),
             Committable(m)', ~Conflict(com'[k], com'[m])
      PROVE  ToCancel(w, k, m)'
  <2>1. Conflict(cur[k], cur[m]) /\ ~Conflict(com[k], com[m]) BY <1>2
  <2>2. Committable(m) BY <1>2 DEF Committable
  <2> QED BY <2>1, <2>2 DEF SInv, SerialInv, Committable
<1>3. ASSUME pc'[w] \in Cancelling
      PROVE  OwnTicket(w)' = cur'[req'[w].key]
  <2>1. req'[w] = req[w] /\ req[w].key \in Tickets /\ OwnTicket(w) = cur[req[w].key]
    BY <1>3, HeldTicket DEF SInv, SerialInv
  <2>2. cur'[req'[w].key] = cur[req[w].key] BY <2>1
  <2> QED BY <2>1, <2>2 DEF OwnTicket
<1> QED BY <1>1, <1>2, <1>3 DEF SerialInv

\* What a request that is not cancelling does to vehicles, and what it reads.
LEMMA SerialElsewhere ==
  ASSUME SInv, OneAtATime, NEW w \in Workers, com' = com,
         \A k \in Rentals \cup Tickets : cur'[k] = cur[k],
         pc[w] \notin Cancelling, pc'[w] \notin Cancelling,
         pc'[w] = "writeTicket" /\ IsUpdate(w)' =>
           /\ \A k \in Keys : owner'[k] # w
           /\ SameTicket(seen'[w], com[req'[w].key])
  PROVE  SerialInv'
<1>1. \A k \in Rentals, m \in Tickets : ~ToCancel(w, k, m)
  BY DEF ToCancel, Cancelling
<1> QED BY <1>1, SerialKept

\* A request that has ended leaves one version of each row.
LEMMA SerialEnd ==
  ASSUME SInv, OneAtATime, NEW w \in Workers, Leave(w),
         \A k \in Keys : cur'[k] = com'[k]
  PROVE  SerialInv'
<1>1. \A x \in Workers : x = w /\ pc'[x] = "idle" BY LeaveKeeps DEF SInv, OneAtATime
<1>2. \A k \in Rentals \cup Tickets : cur'[k] = com'[k] BY DEF Keys
<1> QED BY <1>1, <1>2 DEF SerialInv, Cancelling

LEMMA SerialRollback ==
  ASSUME SInv, OneAtATime, NEW w \in Workers, Rollback(w)
  PROVE  SerialInv'
<1>1. /\ Leave(w) /\ com' = com
      /\ cur' = [k \in Keys |-> IF owner[k] = w THEN com[k] ELSE cur[k]]
  BY DEF Rollback
<1>2. \A k \in Keys : cur'[k] = com'[k] BY <1>1, OnlyOne DEF SInv
<1> QED BY <1>1, <1>2, SerialEnd

LEMMA SerialCommit ==
  ASSUME SInv, OneAtATime, NEW w \in Workers, Commit(w)
  PROVE  /\ SerialInv'
         /\ pc[w] = "commit" /\ \A k \in Keys : com'[k] = cur[k]
<1>1. /\ Leave(w) /\ cur' = cur /\ pc[w] = "commit"
      /\ com' = [k \in Keys |-> IF owner[k] = w THEN cur[k] ELSE com[k]]
  BY DEF Commit
<1>2. \A k \in Keys : com'[k] = cur[k] BY <1>1, OnlyOne DEF SInv
<1> QED BY <1>1, <1>2, SerialEnd

LEMMA SerialStart ==
  ASSUME SInv, OneAtATime, NEW w \in Workers, NEW q, NEW row, NEW l,
         Start(w, q, row, l), l \notin Cancelling,
         q.op \in {"complete_maintenance", "update_maintenance",
                   "_process_maintenance_update"} => SameTicket(row, com[q.key])
  PROVE  SerialInv'
<1>1. /\ pc[w] = "idle" /\ com' = com /\ cur' = cur /\ owner' = owner
      /\ pc'[w] = l /\ req'[w] = q /\ seen'[w] = row
  BY DEF Start, Goto, db, SInv, IInv, TypeOK
<1>2. \A k \in Keys : owner'[k] # w
  BY <1>1 DEF SInv, IInv, BookingInv, SessionInv, SessionOK
<1>3. IsUpdate(w)' => SameTicket(row, com[q.key]) BY <1>1 DEF IsUpdate
<1> QED BY <1>1, <1>2, <1>3, SerialElsewhere DEF Cancelling

LEMMA SerialHandle ==
  ASSUME SInv, OneAtATime, NEW w \in Workers, Handle(w)
  PROVE  SerialInv'
<1> USE DEF Cancelling
<1>1. \A t : SameTicket(t, t) BY DEF SameTicket
<1>2. CASE CreateRental(w) BY <1>2, SerialStart DEF CreateRental
<1>3. CASE UpdateRental(w) BY <1>3, SerialStart DEF UpdateRental
<1>4. CASE CancelRental(w) BY <1>4, SerialStart DEF CancelRental
<1>5. CASE CompleteRental(w) BY <1>5, SerialStart DEF CompleteRental
<1>6. CASE ActivateRental(w) BY <1>6, SerialStart DEF ActivateRental
<1>7. CASE PushReservationCreate(w) BY <1>7, SerialStart DEF PushReservationCreate
<1>8. CASE PushReservationUpdate(w) BY <1>8, SerialStart DEF PushReservationUpdate
<1>9. CASE CreateMaintenance(w) BY <1>9, SerialStart DEF CreateMaintenance
<1>10. CASE CompleteMaintenance(w) BY <1>1, <1>10, SerialStart DEF CompleteMaintenance
<1>11. CASE DeleteMaintenance(w) BY <1>11, SerialStart DEF DeleteMaintenance
<1>12. CASE UpdateMaintenance(w)
  <2> DEFINE row(t) == [veh |-> t.veh, start |-> t.start, exp |-> t.exp, act |-> t.act,
                        status |-> t.status, raw |-> com[t.veh].status]
  <2>1. PICK q \in Requests : /\ q.op = "update_maintenance"
                               /\ Start(w, q, row(com[q.key]), "writeTicket")
    BY <1>12 DEF UpdateMaintenance
  <2>2. SameTicket(row(com[q.key]), com[q.key]) BY DEF SameTicket
  <2> HIDE DEF row
  <2> QED BY <2>1, <2>2, SerialStart
<1>13. CASE PushMaintenanceCreate(w) BY <1>13, SerialStart DEF PushMaintenanceCreate
<1>14. CASE PushMaintenanceUpdate(w) BY <1>1, <1>14, SerialStart DEF PushMaintenanceUpdate
<1>15. CASE PushMaintenanceDelete(w) BY <1>15, SerialStart DEF PushMaintenanceDelete
<1>16. CASE UpdateVehicle(w) BY <1>16, SerialStart DEF UpdateVehicle
<1>17. CASE PushVehicleUpdate(w) BY <1>17, SerialStart DEF PushVehicleUpdate
<1> QED BY <1>2, <1>3, <1>4, <1>5, <1>6, <1>7, <1>8, <1>9, <1>10, <1>11, <1>12, <1>13,
           <1>14, <1>15, <1>16, <1>17 DEF Handle

\* The trigger refuses the rental that a ticket is in the way of.
LEMMA SerialWriteRental ==
  ASSUME SInv, OneAtATime, NEW w \in Workers, WriteRental(w)
  PROVE  SerialInv'
<1> DEFINE row == NewRental(w)
<1>1. CASE Rollback(w) BY <1>1, SerialRollback
<1>2. CASE ~Rollback(w)
  <2>1. /\ pc[w] = "writeRental" /\ ~RentalRefused(w)
        /\ Put(w, req[w].key, row) /\ Goto(w, AfterRental(w))
    BY <1>2 DEF WriteRental
  <2>2. req[w].key \in Rentals /\ row \in RentalRow BY <2>1, NewRentalType DEF SInv
  <2>3. /\ com' = com
        /\ \A k \in Keys : cur'[k] = IF k = req[w].key THEN row ELSE cur[k]
    BY <2>1 DEF Put, SInv, IInv, TypeOK, TableOK
  <2>4. pc'[w] \in {"freeVehicle", "commit"}
    BY <2>1 DEF Goto, AfterRental, SInv, IInv, TypeOK
  <2>5. ~TriggerRaises(w, row) BY <2>1 DEF RentalRefused
  <2> HIDE DEF row
  <2>6. \A x \in Workers : x = w BY DEF OneAtATime
  <2>7. \A k \in Rentals, m \in Tickets : ~ToCancel(w, k, m) BY <2>1 DEF ToCancel
  <2>8. ASSUME NEW k \in Rentals, NEW m \in Tickets, Conflict(cur'[k], cur'[m]),
               Committable(m)', ~Conflict(com'[k], com'[m])
        PROVE  FALSE
    <3>1. m \in Keys /\ k \in Keys /\ m # req[w].key
      BY <2>2, KeyAssumption DEF Keys
    <3>2. cur'[m] = cur[m] BY <2>3, <3>1
    <3>3. Committable(m) BY <2>3, <2>8, <3>2 DEF Committable
    <3>4. CASE k # req[w].key
      <4>1. Conflict(cur[k], cur[m]) BY <2>3, <2>8, <3>1, <3>2, <3>4
      <4> QED BY <2>3, <2>7, <2>8, <3>3, <4>1 DEF SInv, SerialInv
    <3>5. CASE k = req[w].key
      <4>1. Conflict(row, cur[m]) BY <2>3, <2>8, <3>1, <3>2, <3>5
      <4>2. Reads(w, m) = cur[m] BY <3>1, OnlyOne DEF SInv
      <4>3. cur[m] \in TicketRow /\ row \in RentalRow
        BY <2>2, <4>1 DEF Conflict, Blocking, SInv, IInv, TypeOK, TableOK
      <4>4. CancelEnd(cur[m]) \in Int /\ TriggerEnd(cur[m]) \in Int
        BY <4>3, TimeAssumption
           DEF CancelEnd, TriggerEnd, Coalesce, TicketRow, Slots, Far
      <4>5. CancelEnd(cur[m]) <= TriggerEnd(cur[m]) BY <3>3 DEF Committable, EndsAgree
      <4>6. cur[m].start < row.end /\ row.start < CancelEnd(cur[m])
            /\ Blocking(row) /\ Blocking(cur[m]) /\ row.veh = cur[m].veh
        BY <4>1 DEF Conflict, Overlap
      <4>7. row.start < TriggerEnd(cur[m])
        BY <4>3, <4>4, <4>5, <4>6 DEF RentalRow, Slots
      <4> QED BY <2>5, <4>2, <4>6, <4>7 DEF TriggerRaises, Overlap
    <3> QED BY <3>4, <3>5
  <2> QED BY <2>4, <2>6, <2>8 DEF SerialInv, Cancelling
<1> QED BY <1>1, <1>2

\* A ticket that comes to block its period goes on to cancel what is in its way.
LEMMA TicketCancels ==
  ASSUME SInv, OneAtATime, NEW w \in Workers, pc[w] = "writeTicket", ~TicketRefused(w),
         Blocking(NewTicket(w)), NEW k \in Rentals, Conflict(cur[k], NewTicket(w)),
         ~Conflict(com[k], com[req[w].key]), ~Widened(com[req[w].key], NewTicket(w))
  PROVE  \/ AfterTicket(w) = "guard"
         \/ AfterTicket(w) \in {"readHold", "writeHold"} /\ req[w].op # "update_maintenance"
<1> DEFINE q == req[w]
           m == q.key
           t == cur[m]
           new == NewTicket(w)
<1>1. /\ q \in Requests /\ q.op \in TicketOps /\ m \in Tickets
      /\ new \in TicketRow \cup {NoRow}
  BY NewTicketType DEF SInv
<1>2. m \in Keys /\ k \in Keys BY <1>1 DEF Keys
<1>3. IsUpdate(w) => SameTicket(seen[w], t) /\ com[m] = t /\ com[k] = cur[k]
  BY <1>2, OnlyOne DEF SInv, SerialInv
<1>4. IsUpdate(w) => t \in TicketRow
  BY <1>1 DEF TicketRefused, SInv, IInv, TypeOK, TableOK
<1>5. CASE q.op = "create_maintenance"
  BY <1>5 DEF AfterTicket, Blocking
<1>6. CASE q.op = "_process_maintenance_create"
  BY <1>6 DEF AfterTicket, Blocking, NewTicket
<1>7. CASE q.op = "complete_maintenance"
  <2>1. new.status = "COMPLETED"
    BY <1>3, <1>4, <1>7 DEF NewTicket, Column, IsUpdate, TicketRow, SameTicket
  <2> QED BY <2>1 DEF Blocking, Terminal
<1>8. CASE q.op \in {"update_maintenance", "_process_maintenance_update"}
  <2>1. new.status = q.status /\ new.veh = t.veh
    BY <1>3, <1>4, <1>8 DEF NewTicket, Column, IsUpdate, TicketRow, SameTicket
  <2>2. q.status \notin Terminal BY <2>1 DEF Blocking
  <2>3. ~Blocking(t) => Reactivates(w)
    <3>1. t # NoRow /\ seen[w].status = t.status
      BY <1>3, <1>8 DEF IsUpdate, TicketRefused, SameTicket
    <3> QED BY <2>2, <3>1 DEF Blocking, Reactivates
  <2>4. ASSUME Blocking(t) PROVE FALSE
    <3>1. t \in TicketRow /\ new \in TicketRow /\ cur[k] \in RentalRow
      BY <1>1, <1>4, <1>8 DEF IsUpdate, Conflict, Blocking, SInv, IInv, TypeOK, TableOK
    <3>2. CancelEnd(t) \in Int /\ CancelEnd(new) \in Int
      BY <3>1, TimeAssumption DEF CancelEnd, Coalesce, TicketRow, Slots, Far
    <3>3. com[m] = t /\ com[k] = cur[k] BY <1>3, <1>8 DEF IsUpdate
    <3>4. ~(new.start < t.start) /\ ~(CancelEnd(t) < CancelEnd(new))
      BY <2>4, <3>3 DEF Widened
    <3>5. /\ Blocking(cur[k]) /\ cur[k].veh = t.veh /\ new.start < cur[k].end
          /\ cur[k].start < CancelEnd(new)
      BY <2>1 DEF Conflict, Overlap
    <3> HIDE DEF t, new
    <3>6. t.start < cur[k].end /\ cur[k].start < CancelEnd(t)
      BY <3>1, <3>2, <3>4, <3>5 DEF RentalRow, TicketRow, Slots
    <3>7. Conflict(cur[k], t) BY <2>4, <3>5, <3>6 DEF Conflict, Overlap
    <3> QED BY <3>3, <3>7
  <2> QED BY <1>8, <2>2, <2>3, <2>4 DEF AfterTicket
<1>9. CASE q.op \in {"delete_maintenance", "_process_maintenance_delete"}
  BY <1>9 DEF NewTicket, Blocking
<1> QED BY <1>1, <1>5, <1>6, <1>7, <1>8, <1>9 DEF TicketOps

\* The session of a PATCH that runs alone has the ticket as it was written.
LEMMA OwnTicketWritten ==
  ASSUME SInv, OneAtATime, NEW w \in Workers, pc[w] = "writeTicket", ~TicketRefused(w),
         req[w].op = "update_maintenance"
  PROVE  NewTicket(w) = [veh |-> NewTicket(w).veh, start |-> req[w].start,
                         exp |-> req[w].exp, act |-> req[w].act, status |-> req[w].status]
<1> DEFINE t == cur[req[w].key]
<1>1. req[w].key \in Tickets BY NewTicketType DEF SInv
<1>2. req[w].key \in Keys BY <1>1 DEF Keys
<1>3. SameTicket(seen[w], t) BY <1>2, OnlyOne DEF SInv, SerialInv, IsUpdate
<1>4. t \in TicketRow BY <1>1 DEF TicketRefused, IsUpdate, SInv, IInv, TypeOK, TableOK
<1> QED BY <1>3, <1>4 DEF NewTicket, Column, TicketRow, SameTicket

LEMMA SerialWriteTicket ==
  ASSUME SInv, OneAtATime, NEW w \in Workers, WriteTicket(w)
  PROVE  SerialInv'
<1> DEFINE row == NewTicket(w)
           l == AfterTicket(w)
<1>1. CASE TicketRefused(w) BY <1>1, SerialRollback DEF WriteTicket
<1>2. CASE ~TicketRefused(w)
  <2>1. /\ pc[w] = "writeTicket" /\ Put(w, req[w].key, row) /\ Goto(w, l)
        /\ UNCHANGED <<now, req, seen, cand>>
    BY <1>2 DEF WriteTicket
  <2>2. /\ req[w] \in Requests /\ req[w].op \in TicketOps /\ req[w].key \in Tickets
    BY <1>2, <2>1, NewTicketType DEF SInv
  <2>3. l # "writeTicket"
    BY <2>2 DEF AfterTicket, TicketOps
  <2>4. \A k \in Rentals :
          /\ Conflict(cur[k], row) /\ ~Conflict(com[k], com[req[w].key])
          /\ ~Widened(com[req[w].key], row)
          => \/ l = "guard"
             \/ l \in {"readHold", "writeHold"} /\ req[w].op # "update_maintenance"
    BY <1>2, <2>1, TicketCancels DEF Conflict
  <2>5. req[w].op = "update_maintenance" =>
          row = [veh |-> row.veh, start |-> req[w].start, exp |-> req[w].exp,
                 act |-> req[w].act, status |-> req[w].status]
    BY <1>2, <2>1, OwnTicketWritten
  <2> HIDE DEF row, l
  <2>6. /\ com' = com
        /\ \A k \in Keys : cur'[k] = IF k = req[w].key THEN row ELSE cur[k]
    BY <2>1 DEF Put, SInv, IInv, TypeOK, TableOK
  <2>7. pc'[w] = l /\ req' = req BY <2>1 DEF Goto, SInv, IInv, TypeOK
  <2>8. \A x \in Workers : x = w BY DEF OneAtATime
  <2>9. \A k \in Rentals, m \in Tickets : ~ToCancel(w, k, m) BY <2>1 DEF ToCancel
  <2>10. ASSUME NEW k \in Rentals, NEW m \in Tickets, Conflict(cur'[k], cur'[m]),
                Committable(m)', ~Conflict(com'[k], com'[m])
         PROVE  ToCancel(w, k, m)'
    <3>1. m \in Keys /\ k \in Keys /\ k # req[w].key BY <2>2, KeyAssumption DEF Keys
    <3>2. cur'[k] = cur[k] BY <2>6, <3>1
    <3>3. CASE m # req[w].key
      <4>1. cur'[m] = cur[m] BY <2>6, <3>1, <3>3
      <4>2. Conflict(cur[k], cur[m]) BY <2>10, <3>2, <4>1
      <4>3. Committable(m) BY <2>6, <2>10, <4>1 DEF Committable
      <4> QED BY <2>6, <2>9, <2>10, <4>2, <4>3 DEF SInv, SerialInv
    <3>4. CASE m = req[w].key
      <4>1. cur'[m] = row BY <2>6, <3>1, <3>4
      <4>2. Conflict(cur[k], row) BY <2>10, <3>2, <4>1
      <4>3. ~Widened(com[m], row) BY <2>6, <2>10, <4>1 DEF Committable
      <4> QED BY <2>4, <2>6, <2>7, <2>10, <3>4, <4>2, <4>3 DEF ToCancel
    <3> QED BY <3>3, <3>4
  <2>11. OwnTicket(w)' = cur'[req'[w].key]
    <3>1. cur'[req[w].key] = row BY <2>2, <2>6 DEF Keys
    <3> QED BY <2>5, <2>7, <3>1 DEF OwnTicket
  <2> QED BY <2>3, <2>7, <2>8, <2>10, <2>11 DEF SerialInv
<1> QED BY <1>1, <1>2

LEMMA SerialVehicle ==
  ASSUME SInv, OneAtATime, NEW w \in Workers,
         WriteVehicle(w) \/ WriteFree(w) \/ FreeVehicle(w)
  PROVE  SerialInv'
<1>1. pc[w] \in {"writeVehicle", "writeFree", "freeVehicle"} /\ UNCHANGED <<req, seen>>
  BY DEF WriteVehicle, WriteFree, FreeVehicle
<1>2. LoadedOK(w) /\ SessionOK(w) BY DEF SInv, IInv, BookingInv, SessionInv
<1>3. com' = com /\ \A k \in Rentals \cup Tickets : cur'[k] = cur[k]
  <2>1. CASE WriteVehicle(w)
    <3>1. req[w].key \in Vehicles
      BY <1>2, <2>1, VehicleFields DEF WriteVehicle, LoadedOK, SessionOK
    <3>2. com' = com /\ \A k \in Keys \ {req[w].key} : cur'[k] = cur[k]
      BY <2>1 DEF WriteVehicle, Put, SInv, IInv, TypeOK, TableOK
    <3> QED BY <3>1, <3>2, KeyAssumption DEF Keys
  <2>2. CASE WriteFree(w)
    <3>1. VehicleOf(w) \in Vehicles BY <2>2, VehicleOfType DEF WriteFree, SInv
    <3>2. com' = com /\ \A k \in Keys \ {VehicleOf(w)} : cur'[k] = cur[k]
      BY <2>2 DEF WriteFree, Put, SInv, IInv, TypeOK, TableOK
    <3> QED BY <3>1, <3>2, KeyAssumption DEF Keys
  <2>3. CASE FreeVehicle(w) BY <2>3 DEF FreeVehicle, db
  <2> QED BY <2>1, <2>2, <2>3
<1>4. /\ pc'[w] \in {"writeFree", "writeTicket", "commit"}
      /\ pc'[w] = "writeTicket" => req[w].op = "_process_maintenance_delete"
  BY DEF WriteVehicle, WriteFree, FreeVehicle, Goto, AfterFree, SInv, IInv, TypeOK
<1>5. ~(pc'[w] = "writeTicket" /\ IsUpdate(w)') BY <1>1, <1>4 DEF IsUpdate
<1>6. pc[w] \notin Cancelling /\ pc'[w] \notin Cancelling BY <1>1, <1>4 DEF Cancelling
<1> QED BY <1>3, <1>5, <1>6, SerialElsewhere

LEMMA SerialCheck ==
  ASSUME SInv, OneAtATime, NEW w \in Workers,
         CheckVehicle(w) \/ CheckRentals(w) \/ CheckTickets(w)
  PROVE  SerialInv'
<1>1. CASE Rollback(w) BY <1>1, SerialRollback
<1>2. CASE ~Rollback(w)
  <2>1. /\ pc[w] \in Checking /\ com' = com /\ cur' = cur
        /\ pc'[w] \in {"checkRentals", "checkTickets", "writeRental"}
    BY <1>2 DEF CheckVehicle, CheckRentals, CheckTickets, Checking, Goto, db, SInv, IInv, TypeOK
  <2> QED BY <2>1, SerialElsewhere DEF Checking, Cancelling
<1> QED BY <1>1, <1>2

\* Holding the vehicle, guarding and scanning leave nothing in the way uncancelled.
LEMMA SerialHold ==
  ASSUME SInv, OneAtATime, NEW w \in Workers,
         ReadHold(w) \/ WriteHold(w) \/ Guard(w) \/ CancelDone(w)
  PROVE  SerialInv'
<1>1. CASE Rollback(w) BY <1>1, SerialRollback
<1>2. CASE ~Rollback(w)
  <2>1. UNCHANGED <<req, cand>> /\ pc[w] \in Cancelling
    BY <1>2 DEF ReadHold, WriteHold, Guard, CancelDone, Cancelling
  <2>2. com' = com /\ \A k \in Rentals \cup Tickets : cur'[k] = cur[k]
    <3>1. CASE WriteHold(w)
      <4>1. VehicleOf(w) \in Vehicles BY <3>1, VehicleOfType DEF WriteHold, SInv
      <4>2. com' = com /\ \A k \in Keys \ {VehicleOf(w)} : cur'[k] = cur[k]
        BY <3>1 DEF WriteHold, Put, SInv, IInv, TypeOK, TableOK
      <4> QED BY <4>1, <4>2, KeyAssumption DEF Keys
    <3>2. CASE ~WriteHold(w)
      BY <1>2, <3>2 DEF ReadHold, Guard, CancelDone, db
    <3> QED BY <3>1, <3>2
  <2>3. \A k \in Rentals, m \in Tickets : ToCancel(w, k, m) => ToCancel(w, k, m)'
    <3>1. CASE ReadHold(w)
      BY <2>1, <3>1 DEF ReadHold, ToCancel, AfterHold, Goto, SInv, IInv, TypeOK
    <3>2. CASE WriteHold(w)
      BY <2>1, <3>2 DEF WriteHold, ToCancel, AfterHold, Goto, SInv, IInv, TypeOK
    <3>3. CASE Guard(w)
      BY <1>2, <2>1, <3>3 DEF Guard, ToCancel, Goto, SInv, IInv, TypeOK
    <3>4. CASE CancelDone(w) BY <3>4 DEF CancelDone, ToCancel
    <3> QED BY <3>1, <3>2, <3>3, <3>4
  <2>4. pc'[w] # "writeTicket"
    BY <1>2 DEF ReadHold, WriteHold, Guard, CancelDone, AfterHold, Goto, SInv, IInv, TypeOK
  <2> QED BY <2>1, <2>2, <2>3, <2>4, SerialKept
<1> QED BY <1>1, <1>2

\* The cancelling query finds every rental in the ticket's way.
LEMMA ConflictInterrupts ==
  ASSUME NEW w, NEW r, Conflict(r, OwnTicket(w)), EndsAgree(OwnTicket(w))
  PROVE  Interrupted(w, r)
BY DEF Conflict, Interrupted, Overlap, EndsAgree

LEMMA SerialScan ==
  ASSUME SInv, OneAtATime, NEW w \in Workers, Scan(w)
  PROVE  SerialInv'
<1>1. /\ pc[w] = "scan" /\ pc'[w] = "cancel" /\ com' = com /\ cur' = cur /\ req' = req
      /\ cand'[w] = {k \in Rentals : Interrupted(w, Reads(w, k))}
  BY DEF Scan, Goto, db, SInv, IInv, TypeOK
<1>2. OwnTicket(w) = cur[req[w].key] BY <1>1 DEF SInv, SerialInv, Cancelling
<1>3. ASSUME NEW k \in Rentals, NEW m \in Tickets, Conflict(cur[k], cur[m]),
             EndsAgree(cur[m]), ToCancel(w, k, m)
      PROVE  ToCancel(w, k, m)'
  <2>1. m = req[w].key BY <1>3 DEF ToCancel
  <2>2. Reads(w, k) = cur[k] BY OnlyOne DEF SInv, Keys
  <2>3. Interrupted(w, Reads(w, k)) BY <1>2, <1>3, <2>1, <2>2, ConflictInterrupts
  <2> QED BY <1>1, <2>1, <2>3 DEF ToCancel
<1> QED BY <1>1, <1>3, SerialKept DEF Cancelling

LEMMA SerialCancelOne ==
  ASSUME SInv, OneAtATime, NEW w \in Workers, CancelOne(w)
  PROVE  SerialInv'
<1>1. pc[w] = "cancel" /\ pc' = pc /\ req' = req BY DEF CancelOne
<1>2. PICK j \in cand[w] :
        /\ IF Interrupted(w, cur[j])
             THEN Put(w, j, [cur[j] EXCEPT !.status = "CANCELLED"])
             ELSE UNCHANGED db
        /\ cand' = [cand EXCEPT ![w] = @ \ {j}]
  BY DEF CancelOne
<1>3. j \in Rentals /\ cand'[w] = cand[w] \ {j} BY <1>2 DEF SInv, IInv, TypeOK
<1>4. /\ com' = com /\ \A k \in Keys \ {j} : cur'[k] = cur[k]
      /\ cur'[j] = IF Interrupted(w, cur[j]) THEN [cur[j] EXCEPT !.status = "CANCELLED"]
                   ELSE cur[j]
  BY <1>2, <1>3 DEF Put, db, Keys, SInv, IInv, TypeOK, TableOK
<1>5. \A x \in Workers : x = w BY DEF OneAtATime
<1>6. /\ req[w].key \in Tickets /\ req[w].key \in Keys \ {j}
      /\ OwnTicket(w) = cur[req[w].key]
  BY <1>1, <1>3, HeldTicket, KeyAssumption DEF SInv, SerialInv, Cancelling, Keys
<1>7. ASSUME NEW k \in Rentals, NEW m \in Tickets, Conflict(cur'[k], cur'[m]),
             Committable(m)', ~Conflict(com'[k], com'[m])
      PROVE  ToCancel(w, k, m)'
  <2>1. m \in Keys /\ k \in Keys /\ m # j BY <1>3, KeyAssumption DEF Keys
  <2>2. cur'[m] = cur[m] BY <1>4, <2>1
  <2>3. Committable(m) /\ ~Conflict(com[k], com[m]) BY <1>4, <1>7, <2>2 DEF Committable
  <2>4. CASE k # j
    <3>1. Conflict(cur[k], cur[m]) BY <1>4, <1>7, <2>1, <2>2, <2>4
    <3>2. ToCancel(w, k, m) BY <2>3, <3>1 DEF SInv, SerialInv
    <3> QED BY <1>1, <1>3, <2>4, <3>2 DEF ToCancel
  <2>5. CASE k = j /\ Interrupted(w, cur[j])
    <3>1. cur[j] \in RentalRow
      BY <1>3, <2>5 DEF Interrupted, Blocking, SInv, IInv, TypeOK, TableOK
    <3>2. cur'[j].status = "CANCELLED" BY <1>4, <2>5, <3>1 DEF RentalRow
    <3> QED BY <1>7, <2>5, <3>2 DEF Conflict, Blocking, Terminal
  <2>6. CASE k = j /\ ~Interrupted(w, cur[j])
    <3>1. Conflict(cur[j], cur[m]) BY <1>4, <1>7, <2>2, <2>6
    <3>2. m = req[w].key BY <2>3, <2>6, <3>1 DEF SInv, SerialInv, ToCancel
    <3> QED BY <1>6, <2>3, <2>6, <3>1, <3>2, ConflictInterrupts DEF Committable
  <2> QED BY <2>4, <2>5, <2>6
<1>8. OwnTicket(w)' = cur'[req'[w].key]
  <2>1. cur'[req[w].key] = cur[req[w].key] BY <1>4, <1>6
  <2> QED BY <1>1, <1>6, <2>1 DEF OwnTicket
<1> QED BY <1>1, <1>5, <1>7, <1>8 DEF SerialInv

LEMMA SerialNext ==
  ASSUME OneAtATime, SInv, [Next]_vars
  PROVE  SerialInv'
<1>1. CASE UNCHANGED <<com, cur, owner, local>>
  BY <1>1 DEF local, SInv, SerialInv, Committable, ToCancel, IsUpdate, OwnTicket
<1>2. CASE UNCHANGED vars \/ Tick BY <1>1, <1>2 DEF vars, db, Tick
<1>3. ASSUME NEW w \in Workers, Handle(w) \/ Statement(w) \/ Fail(w)
      PROVE  SerialInv'
  <2>1. CASE Handle(w) BY <2>1, SerialHandle
  <2>2. CASE Fail(w) BY <2>2, SerialRollback DEF Fail
  <2>3. CASE Statement(w)
    BY <2>3, SerialCheck, SerialWriteRental, SerialWriteTicket, SerialVehicle,
       SerialHold, SerialScan, SerialCancelOne, SerialCommit, SerialRollback
       DEF Statement, DeadlockVictim
  <2> QED BY <1>3, <2>1, <2>2, <2>3
<1> QED BY <1>2, <1>3 DEF Next

(***************************************************************************)
(* Maintenance wins over reservations when requests follow each other:     *)
(* what the trigger and cancel_overlapping_reservations leave undone is    *)
(* only what runs beside them, a ticket without an end, and an open ticket *)
(* that is moved to a longer period.                                       *)
(***************************************************************************)
THEOREM MaintenanceWinsInSeries ==
  ASSUME OneAtATime
  PROVE  Spec => MaintenanceWins
<1> DEFINE Wins ==
      \A k \in Rentals, m \in Tickets :
        Conflict(com[k], com[m])' /\ EndsAgree(com'[m]) /\ ~Widened(com[m], com'[m])
        => Conflict(com[k], com[m])
<1>1. Init => SerialInv
  <2> SUFFICES ASSUME Init PROVE SerialInv OBVIOUS
  <2>1. \A k \in Rentals : com[k] = NoRow /\ cur[k] = NoRow
    BY KeyAssumption DEF Init, Keys
  <2>2. \A w \in Workers : pc[w] = "idle" BY DEF Init
  <2> QED BY <2>1, <2>2 DEF SerialInv, Conflict, Blocking, Cancelling
<1>2. IInv /\ SerialInv /\ [Next]_vars => SerialInv'
  BY SerialNext DEF SInv
<1>3. IInv /\ SerialInv /\ [Next]_vars => Wins
  <2> SUFFICES ASSUME IInv, SerialInv, [Next]_vars PROVE Wins OBVIOUS
  <2>1. CASE com' = com BY <2>1
  <2>2. ASSUME NEW w \in Workers, Commit(w) PROVE Wins
    <3>1. pc[w] = "commit" /\ \A k \in Keys : com'[k] = cur[k]
      BY <2>2, SerialCommit DEF SInv
    <3>2. \A k \in Rentals, m \in Tickets : com'[k] = cur[k] /\ com'[m] = cur[m]
      BY <3>1 DEF Keys
    <3>3. \A k \in Rentals, m \in Tickets : ~ToCancel(w, k, m) BY <3>1 DEF ToCancel
    <3> QED BY <3>2, <3>3 DEF SerialInv, Committable
  <2> QED BY <2>1, <2>2, OnlyCommits
<1>4. IInv /\ SerialInv /\ [Next]_vars => [Wins]_vars BY <1>3
<1> QED BY <1>1, <1>2, <1>4, Invariance, PTL DEF Spec, MaintenanceWins
=============================================================================
