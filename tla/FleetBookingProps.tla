-------------------------- MODULE FleetBookingProps --------------------------
(***************************************************************************)
(* What the fleet calendar must satisfy, whatever requests run together.   *)
(***************************************************************************)
EXTENDS FleetBooking

Labels ==
  {"idle", "checkVehicle", "checkRentals", "checkTickets", "writeRental", "writeTicket",
   "writeVehicle", "freeVehicle", "writeFree", "readHold", "writeHold", "guard", "scan",
   "cancel", "commit"}

TableOK(t) ==
  /\ t \in [Keys -> Row \cup {NoRow}]
  /\ \A k \in Rentals  : t[k] \in RentalRow \cup {NoRow}
  /\ \A k \in Tickets  : t[k] \in TicketRow \cup {NoRow}
  /\ \A k \in Vehicles : t[k] \in VehicleRow

\* What a handler's first SELECT may have returned.
Loaded == Row \cup LoadedTicket \cup {NoRow}

\* Every table holds rows of its own type; sessions hold requests and rows.
TypeOK ==
  /\ TableOK(com) /\ TableOK(cur)
  /\ owner \in [Keys -> Workers \cup {NoWorker}]
  /\ now \in Slots
  /\ pc \in [Workers -> Labels]
  /\ req \in [Workers -> Requests \cup {NoRow}]
  /\ seen \in [Workers -> Loaded]
  /\ cand \in [Workers -> SUBSET Rentals]

\* No two committed RESERVED or ACTIVE rentals of one vehicle overlap in time,
\* although availability is checked without locks and sync pushes insert
\* rentals unchecked.
NoDoubleBooking ==
  \A j, k \in Rentals : j # k => ~Clash(com[j], com[k])

\* The rental holds its vehicle in the period for which the ticket cancels.
Conflict(r, t) ==
  /\ Blocking(r) /\ Blocking(t) /\ r.veh = t.veh
  /\ Overlap(r.start, r.end, t.start, CancelEnd(t))

\* An open ticket stays open over a longer period than before.
Widened(t, u) ==
  /\ Blocking(t) /\ Blocking(u)
  /\ u.start < t.start \/ CancelEnd(t) < CancelEnd(u)

\* The trigger and the cancelling query look at the same, real period.
EndsAgree(t) == t.start < CancelEnd(t) /\ CancelEnd(t) <= TriggerEnd(t)

\* Maintenance wins over reservations: no step makes an open rental and an open
\* ticket overlap that did not before, whether it books, moves or reopens the
\* rental or writes the ticket.  The exceptions are a ticket without an end, for
\* which the trigger assumes one day, and the step that widens an open ticket.
MaintenanceWins ==
  [][\A k \in Rentals, m \in Tickets :
       Conflict(com[k], com[m])' /\ EndsAgree(com'[m]) /\ ~Widened(com[m], com'[m])
       => Conflict(com[k], com[m])]_vars

\* The window a rental holds: none once it is completed or cancelled.
Held(row) ==
  IF Blocking(row) THEN [veh |-> row.veh, start |-> row.start, end |-> row.end] ELSE NoRow

ASSUME WindowAssumption == NoRow \notin [veh : Vehicles, start : Slots, end : Slots]

Calendar == INSTANCE BookingCalendar WITH NoWindow <- NoRow, book <- [k \in Rentals |-> Held(com[k])]

\* To those who read the tables the requests are atomic bookings, moves and
\* releases of disjoint windows: each commit is one of them, or changes no window,
\* whatever other requests wrote since this one checked.
BooksCalendar == Calendar!Spec

Maintenance ==
  {"create_maintenance", "update_maintenance",
   "_process_maintenance_create", "_process_maintenance_update"}

\* A maintenance cancels only rentals that are still RESERVED or ACTIVE when it
\* commits: one that another request completed or cancelled in the meantime
\* (even while the cancelling SELECT was waiting) keeps its outcome.
ClosedRentalsSpared ==
  [][\A w \in Workers, k \in Rentals :
       /\ Commit(w) /\ req[w].op \in Maintenance
       /\ com'[k] # com[k]
       => com[k] # NoRow /\ com[k].status \notin Terminal]_vars

\* Every request ends, in a commit or a rollback, whatever locks the others
\* take and in whatever order.
RequestsEnd == \A w \in Workers : pc[w] # "idle" ~> pc[w] = "idle"

(***************************************************************************)
(* The inductive invariant.  First what a request in progress knows of its *)
(* own session at each statement ...                                       *)
(***************************************************************************)
RentalChanges ==
  {"update_rental", "cancel_rental", "complete_rental", "activate_rental",
   "_process_reservation_update"}
RentalOps  == {"create_rental", "_process_reservation_create"} \cup RentalChanges
TicketOps  ==
  {"create_maintenance", "_process_maintenance_create", "complete_maintenance",
   "delete_maintenance", "update_maintenance", "_process_maintenance_update",
   "_process_maintenance_delete"}
VehicleOps == {"update_vehicle", "_process_vehicle_update"}

Checking   == {"checkVehicle", "checkRentals", "checkTickets"}
Cancelling == {"readHold", "writeHold", "guard", "scan", "cancel"}

\* The row a handler loaded is of the kind its later statements expect.
LoadedOK(w) ==
  /\ pc[w] \in Checking => req[w].op \in {"create_rental", "update_rental"}
  /\ pc[w] \in Checking \cup {"writeRental"} =>
       /\ req[w].op \in RentalOps
       /\ req[w].op \in RentalChanges => seen[w] \in RentalRow /\ com[req[w].key] # NoRow
  /\ pc[w] = "writeTicket" =>
       /\ req[w].op \in TicketOps
       /\ req[w].op = "create_maintenance" => seen[w] \in VehicleRow
       /\ ~IsInsert(w) =>
            seen[w] \in IF req[w].op = "update_maintenance" THEN LoadedTicket ELSE TicketRow
  /\ pc[w] = "writeVehicle" => req[w].op \in VehicleOps /\ seen[w] \in VehicleRow
  /\ pc[w] \in {"freeVehicle", "writeFree"} =>
       \/ req[w].op \in RentalChanges /\ seen[w] \in RentalRow
       \/ req[w].op \in TicketOps \ {"create_maintenance", "update_maintenance"}
          /\ seen[w] \in TicketRow

\* A request that holds vehicles or cancels rentals works for a ticket it wrote.
TicketHeld(w) ==
  /\ pc[w] \in Cancelling =>
       /\ req[w].op \in Maintenance
       /\ owner[req[w].key] = w /\ cur[req[w].key] # NoRow
       /\ req[w].op = "update_maintenance" /\ pc[w] # "writeHold" => seen[w] \in LoadedTicket
  /\ pc[w] = "writeHold" => seen[w] \in VehicleRow

\* An idle worker holds no lock; a maintenance locks only rentals that are open.
SessionOK(w) ==
  /\ pc[w] = "idle" => \A k \in Keys : owner[k] # w
  /\ pc[w] # "idle" => req[w] \in Requests
  /\ req[w] \in Requests /\ req[w].op \in Maintenance =>
       \A k \in Rentals : owner[k] = w => Blocking(com[k])

SessionInv == \A w \in Workers : LoadedOK(w) /\ TicketHeld(w) /\ SessionOK(w)

(***************************************************************************)
(* ... then what holds of the row versions: an unlocked row has one, a     *)
(* rental never disappears, and no two versions that may come to be        *)
(* committed together clash, whichever of the transactions in progress     *)
(* commit and whichever roll back.                                         *)
(***************************************************************************)
LocksOK ==
  /\ \A k \in Keys : owner[k] = NoWorker => cur[k] = com[k]
  /\ \A k \in Rentals : com[k] # NoRow => cur[k] # NoRow

VersionsOK ==
  \A j, k \in Rentals : j # k =>
    /\ ~Clash(com[j], com[k])
    /\ ~Clash(cur[j], cur[k])
    /\ owner[j] # owner[k] => ~Clash(com[j], cur[k])

BookingInv == SessionInv /\ LocksOK /\ VersionsOK

(***************************************************************************)
(* What a request has written to the rentals and not committed: the rental *)
(* it is about, on the same vehicle; or, if it is a maintenance, nothing   *)
(* but cancellations.  The refinement rests on it.                         *)
(***************************************************************************)
WrittenOK ==
  \A w \in Workers, k \in Rentals : owner[k] = w =>
    IF req[w].op \in Maintenance THEN cur[k].status = "CANCELLED"
    ELSE k = req[w].key /\ (com[k] # NoRow => cur[k].veh = com[k].veh)

(***************************************************************************)
(* Why a maintenance wins when requests follow each other: every rental    *)
(* that has come into the way of a ticket is about to be cancelled, and an *)
(* update starts from the tables as they are.                              *)
(***************************************************************************)
OneAtATime == \A w, x \in Workers : w = x

\* A ticket as the request may commit it.
Committable(m) == EndsAgree(cur[m]) /\ ~Widened(com[m], cur[m])

\* The request has still to cancel this rental for the ticket it wrote.
ToCancel(w, k, m) ==
  /\ m = req[w].key
  /\ \/ pc[w] \in {"guard", "scan"}
     \/ pc[w] \in {"readHold", "writeHold"} /\ req[w].op # "update_maintenance"
     \/ pc[w] = "cancel" /\ k \in cand[w]

\* The row and the session agree on what the ticket says.
SameTicket(t, u) ==
  t.veh = u.veh /\ t.start = u.start /\ t.exp = u.exp /\ t.act = u.act /\ t.status = u.status

SerialInv ==
  /\ \A w \in Workers, k \in Rentals, m \in Tickets :
       Conflict(cur[k], cur[m]) /\ Committable(m) /\ ~Conflict(com[k], com[m])
       => ToCancel(w, k, m)
  /\ \A w \in Workers :
       /\ pc[w] = "writeTicket" /\ IsUpdate(w) =>
            /\ \A k \in Keys : owner[k] # w
            /\ SameTicket(seen[w], com[req[w].key])
       /\ pc[w] \in Cancelling => OwnTicket(w) = cur[req[w].key]
=============================================================================
