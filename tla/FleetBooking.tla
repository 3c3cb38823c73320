---------------------------- MODULE FleetBooking ----------------------------
(***************************************************************************)
(* The backend's fleet calendar: rentals, maintenance tickets and the raw  *)
(* vehicle status, written by concurrent HTTP requests (REST handlers and  *)
(* sync-push handlers) that share one PostgreSQL database.                 *)
(*                                                                         *)
(* A request runs in one READ COMMITTED transaction and is a sequence of   *)
(* steps, one per SQL statement, so requests interleave between any two    *)
(* statements.  Every row has a committed version com[k] and a latest      *)
(* version cur[k]; they differ only while owner[k], the request holding    *)
(* the row lock, has an uncommitted write.  A request reads the latest     *)
(* version of the rows it owns and the committed version of all others.    *)
(*                                                                         *)
(* Time is a line of slots 0..Horizon; intervals are half-open.            *)
(***************************************************************************)
EXTENDS Integers, FiniteSets

CONSTANTS
  Vehicles, Rentals, Tickets,   \* primary keys of the three tables
  Workers,                      \* requests in progress at the same time
  Horizon,                      \* the last time slot
  Day,                          \* the '1 day' of the overlap trigger, in slots
  Requests,                     \* the requests clients may send
  NoRow, NoWorker, Null         \* an absent row, no lock owner, SQL NULL

Slots == 0 .. Horizon
Far   == Horizon + Day + 1                          \* fleet_status.FAR_FUTURE
Keys  == Vehicles \cup Rentals \cup Tickets

RentalStatus  == {"RESERVED", "ACTIVE", "COMPLETED", "CANCELLED"}
TicketStatus  == {"ACTIVE", "IN_PROGRESS", "SCHEDULED", "COMPLETED", "CANCELLED"}
VehicleStatus == {"AVAILABLE", "RESERVED", "RENTED", "MAINTENANCE", "SOLD", "INACTIVE"}
Terminal      == {"COMPLETED", "CANCELLED"}
Structural    == {"SOLD", "INACTIVE"}

RentalRow  == [veh : Vehicles, start : Slots, end : Slots, status : RentalStatus]
TicketRow  == [veh : Vehicles, start : Slots, exp : Slots \cup {Null},
               act : Slots \cup {Null}, status : TicketStatus]
VehicleRow == [status : VehicleStatus]
Row        == RentalRow \cup TicketRow \cup VehicleRow

\* update_maintenance loads the ticket and its vehicle with one SELECT.
LoadedTicket ==
  [veh : Vehicles, start : Slots, exp : Slots \cup {Null}, act : Slots \cup {Null},
   status : TicketStatus, raw : VehicleStatus]

(***************************************************************************)
(* One request of each handler, named after the method that serves it.     *)
(* A window with end <= start never reaches the tables (create_rental and  *)
(* update_rental refuse it, ck_reservations_end_after_start rejects the    *)
(* rest), so it is not a request here.  A PATCH names every field: one it  *)
(* does not set is one it sets to the value loaded.                        *)
(***************************************************************************)
RentalRequest ==
  [op : {"create_rental"}, key : Rentals, veh : Vehicles, start : Slots, end : Slots]
  \cup [op : {"update_rental"}, key : Rentals, start : Slots, end : Slots]
  \cup [op : {"cancel_rental", "complete_rental", "activate_rental"}, key : Rentals]
  \cup [op : {"_process_reservation_create"}, key : Rentals, veh : Vehicles,
        start : Slots, end : Slots, status : RentalStatus]
  \cup [op : {"_process_reservation_update"}, key : Rentals, status : RentalStatus]
TicketRequest ==
  [op : {"create_maintenance"}, key : Tickets, veh : Vehicles, start : Slots,
   exp : Slots \cup {Null}, act : Slots \cup {Null}, status : TicketStatus,
   confirm : BOOLEAN]
  \cup [op : {"complete_maintenance", "delete_maintenance"}, key : Tickets]
  \cup [op : {"update_maintenance"}, key : Tickets, start : Slots,
        exp : Slots \cup {Null}, act : Slots \cup {Null}, status : TicketStatus,
        confirm : BOOLEAN]
  \cup [op : {"_process_maintenance_create"}, key : Tickets, veh : Vehicles,
        start : Slots, exp : Slots \cup {Null}, status : TicketStatus]
  \cup [op : {"_process_maintenance_update"}, key : Tickets, status : TicketStatus,
        act : Slots \cup {Null}]
  \cup [op : {"_process_maintenance_delete"}, key : Tickets]
VehicleRequest ==
  [op : {"update_vehicle", "_process_vehicle_update"}, key : Vehicles,
   status : VehicleStatus]
Request == RentalRequest \cup TicketRequest \cup VehicleRequest

ASSUME TimeAssumption == Horizon \in Nat /\ Day \in Nat
ASSUME KeyAssumption ==
  /\ Vehicles \cap Rentals = {} /\ Vehicles \cap Tickets = {} /\ Rentals \cap Tickets = {}
  /\ NoWorker \notin Workers
ASSUME NullAssumption == NoRow \notin Row /\ Null \notin Int
ASSUME RequestAssumption == Requests \subseteq Request

VARIABLES
  com, cur, owner,   \* the database: committed and latest row versions, row locks
  now,               \* the clock
  pc, req,           \* per worker: next statement, the request being served
  seen,              \* per worker: the row as loaded into the ORM session
  cand               \* per worker: rentals the cancelling SELECT ... FOR UPDATE found

db    == <<com, cur, owner>>
local == <<pc, req, seen, cand>>
vars  == <<db, now, local>>

(***************************************************************************)
(* PostgreSQL: visibility, locks, commit and rollback                      *)
(***************************************************************************)
Reads(w, k)  == IF owner[k] = w THEN cur[k] ELSE com[k]
Free(w, k)   == owner[k] \in {w, NoWorker}

Put(w, k, row) ==
  /\ Free(w, k)
  /\ cur'   = [cur EXCEPT ![k] = row]
  /\ owner' = [owner EXCEPT ![k] = w]
  /\ UNCHANGED com

Goto(w, l) == pc' = [pc EXCEPT ![w] = l]

\* Mutant: the locks outlive the request.
LeaveLocked(w) ==
  /\ pc'    = [pc EXCEPT ![w] = "idle"]
  /\ req'   = [req EXCEPT ![w] = NoRow]
  /\ seen'  = [seen EXCEPT ![w] = NoRow]
  /\ cand'  = [cand EXCEPT ![w] = {}]
  /\ UNCHANGED <<now, owner>>

\* The request is over and its session returned to the pool.
Leave(w) ==
  /\ owner' = [k \in Keys |-> IF owner[k] = w THEN NoWorker ELSE owner[k]]
  /\ pc'    = [pc EXCEPT ![w] = "idle"]
  /\ req'   = [req EXCEPT ![w] = NoRow]
  /\ seen'  = [seen EXCEPT ![w] = NoRow]
  /\ cand'  = [cand EXCEPT ![w] = {}]
  /\ UNCHANGED now

Commit(w) ==
  /\ pc[w] = "commit"
  /\ com' = [k \in Keys |-> IF owner[k] = w THEN cur[k] ELSE com[k]]
  /\ UNCHANGED cur
  /\ Leave(w)

Rollback(w) ==
  /\ cur' = [k \in Keys |-> IF owner[k] = w THEN com[k] ELSE cur[k]]
  /\ UNCHANGED com
  /\ Leave(w)

(***************************************************************************)
(* Intervals.  The code has three notions of when a ticket ends: the       *)
(* availability check (actual, else expected, else never), the cancelling  *)
(* query (expected first) and the trigger (expected first, else one day).  *)
(***************************************************************************)
Coalesce(a, b)  == IF a # Null THEN a ELSE b
EffectiveEnd(t) == Coalesce(Coalesce(t.act, t.exp), Far)
CancelEnd(t)    == Coalesce(Coalesce(t.exp, t.act), Far)
TriggerEnd(t)   == Coalesce(Coalesce(t.exp, t.act), t.start + Day)

Overlap(s1, e1, s2, e2) == s1 < e2 /\ s2 < e1
Blocking(row) == row # NoRow /\ row.status \notin Terminal

\* excl_reservations_no_overlap: two blocking rentals of one vehicle overlap.
Clash(r, s) ==
  /\ Blocking(r) /\ Blocking(s)
  /\ r.veh = s.veh
  /\ Overlap(r.start, r.end, s.start, s.end)

\* trg_check_overlap_res, which reads the tickets visible to the statement.
TriggerRaises(w, row) ==
  /\ Blocking(row)
  /\ \E k \in Tickets :
       LET t == Reads(w, k) IN
       /\ Blocking(t) /\ t.veh = row.veh
       /\ Overlap(t.start, TriggerEnd(t), row.start, row.end)

\* A maintenance that occupies its vehicle at this instant.
ActiveNow(t) ==
  /\ t.status \notin Terminal
  /\ t.start <= now /\ now < EffectiveEnd(t)

\* The session writes only the columns whose value differs from the loaded one.
Column(loaded, latest, new) == IF new = loaded THEN latest ELSE new

(***************************************************************************)
(* Handlers: the first statement of each, up to its early returns.  A      *)
(* request refused there changes nothing and is not a step.                *)
(***************************************************************************)
Start(w, q, row, l) ==
  /\ pc[w] = "idle"
  /\ req'  = [req EXCEPT ![w] = q]
  /\ seen' = [seen EXCEPT ![w] = row]
  /\ Goto(w, l)
  /\ UNCHANGED <<db, now, cand>>

\* The key of a REST insert is a new UUID: no other row or request has it.
NewKey(k) ==
  /\ com[k] = NoRow /\ owner[k] = NoWorker
  /\ \A x \in Workers : pc[x] # "idle" => req[x].key # k

CreateRental(w) ==
  \E q \in Requests : q.op = "create_rental" /\ NewKey(q.key)
                        /\ Start(w, q, NoRow, "checkVehicle")

UpdateRental(w) ==
  \E q \in Requests : q.op = "update_rental" /\ Blocking(com[q.key])
                        /\ Start(w, q, com[q.key], "checkVehicle")

CancelRental(w) ==
  \E q \in Requests : q.op = "cancel_rental" /\ Blocking(com[q.key])
                        /\ Start(w, q, com[q.key], "writeRental")

CompleteRental(w) ==
  \E q \in Requests : q.op = "complete_rental" /\ Blocking(com[q.key])
                        /\ Start(w, q, com[q.key], "writeRental")

ActivateRental(w) ==
  \E q \in Requests :
    /\ q.op = "activate_rental"
    /\ com[q.key] # NoRow /\ com[q.key].status = "RESERVED"
    /\ Start(w, q, com[q.key], "writeRental")

\* A sync push inserts the desktop's rental without any availability check.
PushReservationCreate(w) ==
  \E q \in Requests : q.op = "_process_reservation_create" /\ com[q.key] = NoRow
                        /\ Start(w, q, NoRow, "writeRental")

\* A sync push sets any status; SyncProtocol models the version check.
PushReservationUpdate(w) ==
  \E q \in Requests : q.op = "_process_reservation_update" /\ com[q.key] # NoRow
                        /\ Start(w, q, com[q.key], "writeRental")

CreateMaintenance(w) ==
  \E q \in Requests : q.op = "create_maintenance" /\ NewKey(q.key)
                        /\ Start(w, q, com[q.veh], "writeTicket")

CompleteMaintenance(w) ==
  \E q \in Requests : q.op = "complete_maintenance" /\ com[q.key] # NoRow
                        /\ Start(w, q, com[q.key], "writeTicket")

DeleteMaintenance(w) ==
  \E q \in Requests :
    /\ q.op = "delete_maintenance"
    /\ com[q.key] # NoRow /\ com[q.key].status # "ACTIVE"
    /\ Start(w, q, com[q.key], "writeTicket")

UpdateMaintenance(w) ==
  \E q \in Requests :
    /\ q.op = "update_maintenance" /\ com[q.key] # NoRow
    /\ LET t == com[q.key] IN
       Start(w, q, [veh |-> t.veh, start |-> t.start, exp |-> t.exp, act |-> t.act,
                    status |-> t.status, raw |-> com[t.veh].status], "writeTicket")

PushMaintenanceCreate(w) ==
  \E q \in Requests : q.op = "_process_maintenance_create" /\ com[q.key] = NoRow
                        /\ Start(w, q, NoRow, "writeTicket")

PushMaintenanceUpdate(w) ==
  \E q \in Requests : q.op = "_process_maintenance_update" /\ com[q.key] # NoRow
                        /\ Start(w, q, com[q.key], "writeTicket")

\* An ACTIVE ticket frees its vehicle before it is deleted.
PushMaintenanceDelete(w) ==
  \E q \in Requests :
    /\ q.op = "_process_maintenance_delete" /\ com[q.key] # NoRow
    /\ Start(w, q, com[q.key],
             IF com[q.key].status = "ACTIVE" THEN "freeVehicle" ELSE "writeTicket")

\* shared.enums.VALID_VEHICLE_TRANSITIONS
ValidTransition ==
  {"AVAILABLE"} \X {"RESERVED", "RENTED", "MAINTENANCE", "SOLD", "INACTIVE"}
  \cup {"RESERVED"} \X {"RENTED", "AVAILABLE"}
  \cup {"RENTED", "MAINTENANCE", "INACTIVE"} \X {"AVAILABLE"}

UpdateVehicle(w) ==
  \E q \in Requests : q.op = "update_vehicle"
                        /\ <<com[q.key].status, q.status>> \in ValidTransition
                        /\ Start(w, q, com[q.key], "writeVehicle")

PushVehicleUpdate(w) ==
  \E q \in Requests : q.op = "_process_vehicle_update"
                        /\ Start(w, q, com[q.key], "writeVehicle")

(***************************************************************************)
(* RentalRepository.check_availability: three statements, none of which    *)
(* takes a lock.                                                           *)
(***************************************************************************)
Asked(w) == LET q == req[w] IN
  [veh |-> IF q.op = "create_rental" THEN q.veh ELSE seen[w].veh,
   start |-> q.start, end |-> q.end, status |-> "ACTIVE"]

CheckVehicle(w) ==
  /\ pc[w] = "checkVehicle"
  /\ IF Reads(w, Asked(w).veh).status \in Structural
       THEN Rollback(w)
       ELSE Goto(w, "checkRentals") /\ UNCHANGED <<db, now, req, seen, cand>>

CheckRentals(w) ==
  /\ pc[w] = "checkRentals"
  /\ IF \E k \in Rentals \ {req[w].key} : Clash(Asked(w), Reads(w, k))
       THEN Rollback(w)
       ELSE Goto(w, "checkTickets") /\ UNCHANGED <<db, now, req, seen, cand>>

CheckTickets(w) ==
  /\ pc[w] = "checkTickets"
  /\ IF \E k \in Tickets :
          LET t == Reads(w, k) IN
          /\ Blocking(t) /\ t.veh = Asked(w).veh
          /\ Overlap(t.start, EffectiveEnd(t), Asked(w).start, Asked(w).end)
       THEN Rollback(w)
       ELSE Goto(w, "writeRental") /\ UNCHANGED <<db, now, req, seen, cand>>

(***************************************************************************)
(* Writing the rental row.  PostgreSQL makes the statement wait for the    *)
(* owner of the row, and for the owner of any row version that would       *)
(* violate the exclusion constraint; it raises when the conflicting        *)
(* version is committed or the request's own.                              *)
(***************************************************************************)
NewRental(w) ==
  LET q == req[w]  k == q.key  r == cur[k]  old == seen[w]
      To(status) == [r EXCEPT !.status = Column(old.status, r.status, status)]
  IN CASE q.op = "create_rental" ->
            [veh |-> q.veh, start |-> q.start, end |-> q.end, status |-> "ACTIVE"]
       [] q.op = "_process_reservation_create" ->
            [veh |-> q.veh, start |-> q.start, end |-> q.end, status |-> q.status]
       [] q.op = "update_rental" ->
            [r EXCEPT !.start = Column(old.start, r.start, q.start),
                      !.end   = Column(old.end, r.end, q.end)]
       [] q.op = "cancel_rental"   -> To("CANCELLED")
       [] q.op = "complete_rental" -> To("COMPLETED")
       [] q.op = "activate_rental" -> To("ACTIVE")
       [] q.op = "_process_reservation_update" -> To(q.status)

IsInsert(w) ==
  req[w].op \in {"create_rental", "_process_reservation_create",
                 "create_maintenance", "_process_maintenance_create"}

IsUpdate(w) ==
  req[w].op \in {"complete_maintenance", "update_maintenance",
                 "_process_maintenance_update"}

\* Mutant: the constraint does not see uncommitted rows.
RentalWaitsForRow(w) == IF ~Free(w, req[w].key) THEN {owner[req[w].key]} ELSE {}

RentalWaitsFor(w) ==
  IF ~Free(w, req[w].key)
    THEN {owner[req[w].key]}
    ELSE {owner[j] : j \in {j \in Rentals : /\ ~Free(w, j)
                                            /\ \/ Clash(NewRental(w), cur[j])
                                               \/ Clash(NewRental(w), com[j])}}

\* Mutant: no exclusion constraint, only the checks in the handler.
RentalRefusedUnconstrained(w) ==
  LET k == req[w].key  row == NewRental(w) IN
  \/ IsInsert(w) /\ cur[k] # NoRow
  \/ row.end <= row.start
  \/ TriggerRaises(w, row)

RentalRefused(w) ==
  LET k == req[w].key  row == NewRental(w) IN
  \/ IsInsert(w) /\ cur[k] # NoRow
  \/ row.end <= row.start
  \/ TriggerRaises(w, row)
  \/ \E j \in Rentals \ {k} : Free(w, j) /\ Clash(row, cur[j])

AfterRental(w) ==
  IF req[w].op \in {"cancel_rental", "complete_rental"} THEN "freeVehicle" ELSE "commit"

WriteRental(w) ==
  /\ pc[w] = "writeRental"
  /\ Free(w, req[w].key)
  /\ \/ RentalRefused(w) /\ Rollback(w)
     \/ /\ ~RentalRefused(w) /\ RentalWaitsFor(w) = {}
        /\ Put(w, req[w].key, NewRental(w))
        /\ Goto(w, AfterRental(w))
        /\ UNCHANGED <<now, req, seen, cand>>

(***************************************************************************)
(* Writing the ticket row                                                  *)
(***************************************************************************)
\* create_maintenance closes a ticket whose end is already past.
InitStatus(q) ==
  IF q.status \in Terminal THEN q.status
  ELSE IF Coalesce(q.act, q.exp) # Null /\ Coalesce(q.act, q.exp) <= now
         THEN "COMPLETED" ELSE "ACTIVE"

NewTicket(w) ==
  LET q == req[w]  t == cur[q.key]  old == seen[w] IN
  CASE q.op = "create_maintenance" ->
         [veh |-> q.veh, start |-> q.start, exp |-> q.exp, act |-> q.act,
          status |-> InitStatus(q)]
    [] q.op = "_process_maintenance_create" ->
         [veh |-> q.veh, start |-> q.start, exp |-> q.exp, act |-> Null,
          status |-> q.status]
    [] q.op = "complete_maintenance" ->
         [t EXCEPT !.status = Column(old.status, t.status, "COMPLETED"),
                   !.act    = Column(old.act, t.act, now)]
    [] q.op = "update_maintenance" ->
         [t EXCEPT !.status = Column(old.status, t.status, q.status),
                   !.start  = Column(old.start, t.start, q.start),
                   !.exp    = Column(old.exp, t.exp, q.exp),
                   !.act    = Column(old.act, t.act, q.act)]
    [] q.op = "_process_maintenance_update" ->
         [t EXCEPT !.status = Column(old.status, t.status, q.status),
                   !.act    = Column(old.act, t.act, q.act)]
    [] q.op \in {"delete_maintenance", "_process_maintenance_delete"} -> NoRow

\* Mutant: a ticket that was only scheduled cancels nothing when it starts.
ReactivatesClosed(w) ==
  /\ seen[w].status \in {"CANCELLED"}
  /\ req[w].status \notin Terminal

\* The ticket becomes blocking again: 'maintenance wins' applies anew.
Reactivates(w) ==
  /\ seen[w].status \in Terminal \cup {"SCHEDULED"}
  /\ req[w].status \notin Terminal

AfterTicket(w) == LET q == req[w] IN
  CASE q.op = "create_maintenance" ->
         IF NewTicket(w).status \in Terminal THEN "commit"
         ELSE IF ActiveNow(NewTicket(w)) /\ seen[w].status \notin Structural
                THEN "writeHold" ELSE "guard"
    [] q.op = "_process_maintenance_create" ->
         IF q.status \in Terminal THEN "commit" ELSE "readHold"
    [] q.op = "complete_maintenance" -> "freeVehicle"
    [] q.op = "update_maintenance" -> IF Reactivates(w) THEN "guard" ELSE "commit"
    [] q.op = "_process_maintenance_update" ->
         IF q.status \in Terminal THEN "freeVehicle"
         ELSE IF Reactivates(w) THEN "readHold" ELSE "commit"
    [] q.op \in {"delete_maintenance", "_process_maintenance_delete"} -> "commit"

\* An insert finds its key taken, an update its row gone.
TicketRefused(w) ==
  \/ IsInsert(w) /\ cur[req[w].key] # NoRow
  \/ IsUpdate(w) /\ cur[req[w].key] = NoRow

WriteTicket(w) ==
  /\ pc[w] = "writeTicket"
  /\ Free(w, req[w].key)
  /\ IF TicketRefused(w)
       THEN Rollback(w)
       ELSE /\ Put(w, req[w].key, NewTicket(w))
            /\ Goto(w, AfterTicket(w))
            /\ UNCHANGED <<now, req, seen, cand>>

(***************************************************************************)
(* The raw vehicle status: held for an open maintenance, freed afterwards. *)
(***************************************************************************)
VehicleOf(w) ==
  IF req[w].key \in Tickets /\ cur[req[w].key] # NoRow
    THEN cur[req[w].key].veh ELSE seen[w].veh

HeldStatus(w) ==
  IF req[w].key \in Rentals THEN {"RESERVED", "RENTED"} ELSE {"MAINTENANCE"}

AfterFree(w) ==
  IF req[w].op = "_process_maintenance_delete" THEN "writeTicket" ELSE "commit"

FreeVehicle(w) ==
  /\ pc[w] = "freeVehicle"
  /\ Goto(w, IF Reads(w, VehicleOf(w)).status \in HeldStatus(w)
               THEN "writeFree" ELSE AfterFree(w))
  /\ UNCHANGED <<db, now, req, seen, cand>>

\* Mutant: the status of the finished request is copied to the vehicle.
WriteFreeStatus(w) ==
  /\ pc[w] = "writeFree"
  /\ Put(w, VehicleOf(w), [status |-> "COMPLETED"])
  /\ Goto(w, AfterFree(w))
  /\ UNCHANGED <<now, req, seen, cand>>

WriteFree(w) ==
  /\ pc[w] = "writeFree"
  /\ Put(w, VehicleOf(w), [status |-> "AVAILABLE"])
  /\ Goto(w, AfterFree(w))
  /\ UNCHANGED <<now, req, seen, cand>>

AfterHold(w) ==
  CASE req[w].op = "create_maintenance" -> "guard"
    [] req[w].op = "update_maintenance" -> "commit"
    [] OTHER -> "scan"

\* The ticket of a maintenance as its session holds it, which a PATCH beside it
\* may have made differ from the row written.
OwnTicket(w) == LET q == req[w] IN
  IF q.op = "update_maintenance"
    THEN [veh |-> cur[q.key].veh, start |-> q.start, exp |-> q.exp, act |-> q.act,
          status |-> q.status]
    ELSE cur[q.key]

\* The SELECT returns a vehicle the session already holds as it was loaded.
ReadHold(w) ==
  /\ pc[w] = "readHold"
  /\ LET v == IF req[w].op = "update_maintenance" THEN [status |-> seen[w].raw]
              ELSE Reads(w, VehicleOf(w)) IN
     IF v.status \notin Structural /\ ActiveNow(OwnTicket(w))
       THEN seen' = [seen EXCEPT ![w] = v] /\ Goto(w, "writeHold")
       ELSE UNCHANGED seen /\ Goto(w, AfterHold(w))
  /\ UNCHANGED <<db, now, req, cand>>

\* The status was tested on the row as loaded, not on the row now locked.
WriteHold(w) ==
  /\ pc[w] = "writeHold"
  /\ LET v == VehicleOf(w) IN
     Put(w, v, [status |-> Column(seen[w].status, cur[v].status, "MAINTENANCE")])
  /\ Goto(w, AfterHold(w))
  /\ UNCHANGED <<now, req, seen, cand>>

WriteVehicle(w) ==
  /\ pc[w] = "writeVehicle"
  /\ LET v == req[w].key IN
     Put(w, v, [status |-> Column(seen[w].status, cur[v].status, req[w].status)])
  /\ Goto(w, "commit")
  /\ UNCHANGED <<now, req, seen, cand>>

(***************************************************************************)
(* RentalRepository.cancel_overlapping_reservations: SELECT ... FOR UPDATE *)
(* finds the rentals in its snapshot, then locks them one by one; a row    *)
(* changed while the statement waited for it is tested again.              *)
(***************************************************************************)
Interrupted(w, row) == LET t == OwnTicket(w) IN
  /\ Blocking(row) /\ row.veh = t.veh
  /\ t.start < CancelEnd(t)
  /\ Overlap(t.start, CancelEnd(t), row.start, row.end)

\* An unconfirmed ticket may not interrupt a rental that is in progress.
Guard(w) ==
  /\ pc[w] = "guard"
  /\ IF ~req[w].confirm /\ \E k \in Rentals :
          LET r == Reads(w, k) IN Interrupted(w, r) /\ r.start <= now /\ now < r.end
       THEN Rollback(w)
       ELSE Goto(w, "scan") /\ UNCHANGED <<db, now, req, seen, cand>>

Scan(w) ==
  /\ pc[w] = "scan"
  /\ cand' = [cand EXCEPT ![w] = {k \in Rentals : Interrupted(w, Reads(w, k))}]
  /\ Goto(w, "cancel")
  /\ UNCHANGED <<db, now, req, seen>>

\* Mutant: a rental changed while the statement waited is not tested again.
CancelFound(w) ==
  /\ pc[w] = "cancel"
  /\ \E k \in cand[w] :
       /\ Free(w, k)
       /\ Put(w, k, [cur[k] EXCEPT !.status = "CANCELLED"])
       /\ cand' = [cand EXCEPT ![w] = @ \ {k}]
  /\ UNCHANGED <<now, pc, req, seen>>

CancelOne(w) ==
  /\ pc[w] = "cancel"
  /\ \E k \in cand[w] :
       /\ Free(w, k)
       /\ IF Interrupted(w, cur[k])
            THEN Put(w, k, [cur[k] EXCEPT !.status = "CANCELLED"])
            ELSE UNCHANGED db
       /\ cand' = [cand EXCEPT ![w] = @ \ {k}]
  /\ UNCHANGED <<now, pc, req, seen>>

CancelDone(w) ==
  /\ pc[w] = "cancel" /\ cand[w] = {}
  /\ Goto(w, IF /\ req[w].op = "update_maintenance"
                /\ \E k \in Rentals : owner[k] = w
               THEN "readHold" ELSE "commit")
  /\ UNCHANGED <<db, now, req, seen, cand>>

(***************************************************************************)
(* Deadlocks, failures and the clock                                       *)
(***************************************************************************)
LocksNeeded(w) ==
  CASE pc[w] = "writeTicket"              -> {req[w].key}
    [] pc[w] = "writeVehicle"             -> {req[w].key}
    [] pc[w] \in {"writeFree", "writeHold"} -> {VehicleOf(w)}
    [] pc[w] = "cancel"                   -> cand[w]
    [] OTHER                              -> {}

WaitsFor(w) ==
  IF pc[w] = "writeRental"
    THEN IF Free(w, req[w].key) /\ RentalRefused(w) THEN {} ELSE RentalWaitsFor(w)
    ELSE IF \E k \in LocksNeeded(w) : Free(w, k) THEN {}
    ELSE {owner[k] : k \in LocksNeeded(w)}

Deadlocked(w) ==
  \E S \in SUBSET Workers : w \in S /\ \A x \in S : WaitsFor(x) \cap S # {}

\* PostgreSQL aborts one transaction of a cycle of waits.
DeadlockVictim(w) == Deadlocked(w) /\ Rollback(w)

\* The connection, the process or the handler fails before the commit.
Fail(w) == pc[w] # "idle" /\ Rollback(w)

Tick == now < Horizon /\ now' = now + 1 /\ UNCHANGED <<db, local>>

Handle(w) ==
  \/ CreateRental(w) \/ UpdateRental(w) \/ CancelRental(w) \/ CompleteRental(w)
  \/ ActivateRental(w) \/ PushReservationCreate(w) \/ PushReservationUpdate(w)
  \/ CreateMaintenance(w) \/ CompleteMaintenance(w) \/ DeleteMaintenance(w)
  \/ UpdateMaintenance(w) \/ PushMaintenanceCreate(w) \/ PushMaintenanceUpdate(w)
  \/ PushMaintenanceDelete(w) \/ UpdateVehicle(w) \/ PushVehicleUpdate(w)

Statement(w) ==
  \/ CheckVehicle(w) \/ CheckRentals(w) \/ CheckTickets(w)
  \/ WriteRental(w) \/ WriteTicket(w) \/ WriteVehicle(w)
  \/ FreeVehicle(w) \/ WriteFree(w) \/ ReadHold(w) \/ WriteHold(w)
  \/ Guard(w) \/ Scan(w) \/ CancelOne(w) \/ CancelDone(w)
  \/ Commit(w) \/ DeadlockVictim(w)

Next == Tick \/ \E w \in Workers : Handle(w) \/ Statement(w) \/ Fail(w)

Init ==
  /\ com = [k \in Keys |-> IF k \in Vehicles THEN [status |-> "AVAILABLE"] ELSE NoRow]
  /\ cur = com
  /\ owner = [k \in Keys |-> NoWorker]
  /\ now = 0
  /\ pc = [w \in Workers |-> "idle"]
  /\ req = [w \in Workers |-> NoRow]
  /\ seen = [w \in Workers |-> NoRow]
  /\ cand = [w \in Workers |-> {}]

Spec == Init /\ [][Next]_vars

\* PostgreSQL grants a lock to its waiters in arrival order, so a request whose
\* statement is again and again possible does not starve.
FairSpec == Spec /\ \A w \in Workers : SF_vars(Statement(w))
=============================================================================
