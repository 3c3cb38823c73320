------------------------------ MODULE Registry -------------------------------
(***************************************************************************)
(* The server's registry: clients and vehicles, what refers to them, and   *)
(* the alerts about them.                                                  *)
(*                                                                         *)
(* Deleting a client or a vehicle must not take business history with it:  *)
(* a row that rentals or tickets refer to is deactivated instead.  The     *)
(* decision is taken on what one statement read, the deletion is another   *)
(* statement, and the foreign keys do the rest (SET NULL for the client of *)
(* a rental, RESTRICT for its vehicle, CASCADE for alerts).  Alerts are    *)
(* written by a scan that every poll of every client runs, and by each     *)
(* request about a rental, a ticket or the status of a vehicle; both look  *)
(* for an alert that exists before they insert one.                        *)
(*                                                                         *)
(* A request reads in one step, decides and commits in a later one; other  *)
(* requests commit in between.  (What it writes is locked until it         *)
(* commits, so the writes of one request are one step.)  The calendar of   *)
(* the rentals and the versions of the rows are FleetBooking's and         *)
(* SyncProtocol's.                                                         *)
(***************************************************************************)
EXTENDS Integers

CONSTANTS
  Clients, Vehicles, Rentals, Tickets, Alerts,   \* primary keys
  Workers,        \* requests that may be under way
  WarningDays,    \* the days before an expiry in which it is announced
  LastDay,        \* bound on the days, and on expiry dates
  FirstExpiry,    \* when the documents expire at first
  MaxEdits,       \* bound on requests that change a row, but for those that can come once only
  Absent, Gone,   \* a key not used yet, a row deleted
  Nothing

ASSUME DaysAreNumbers == {WarningDays, LastDay, FirstExpiry} \subseteq Nat

VARIABLES
  client,    \* committed rows: status of a client,
  vehicle,   \*   status and expiry of the document of a vehicle,
  rental,    \*   vehicle, client and status of a rental,
  ticket,    \*   vehicle, status and first day of a maintenance,
  alert,     \*   vehicle, type, due day, severity of an alert, and whether it was read
  today,
  edits,     \* how many edits there were
  req,       \* the request of each worker and what it has read
  raced,     \* alerts written or read while another request was at the same  (not in the program)
  unseen     \* alerts whose text is newer than their last reading            (not in the program)

tables == <<client, vehicle, rental, ticket>>
vars == <<client, vehicle, rental, ticket, alert, today, edits, req, raced, unseen>>

Rows(t) == {k \in DOMAIN t : t[k] \notin {Absent, Gone}}
Edit == edits < MaxEdits /\ edits' = edits + 1

Open == {"RESERVED", "ACTIVE"}
ScanTypes == {"DOC_EXPIRY", "MAINTENANCE_STEP"}

NoRequest == [op |-> "none", key |-> Nothing, found |-> {}, existed |-> {}, change |-> Nothing]
Request(op, key) == [NoRequest EXCEPT !.op = op, !.key = key]
Serves(w, op)    == req[w].op = op
\* Workers are alike: one of the idle ones takes the next request.  (A bound: once
\* alerts have been written by requests that overlap, no others overlap.)
Idle(w) ==
  /\ Serves(w, "none") /\ w = CHOOSE x \in Workers : Serves(x, "none")
  /\ raced => \A x \in Workers : Serves(x, "none")
Becomes(w, r)    == req' = [req EXCEPT ![w] = r]
Ends(w)          == Becomes(w, NoRequest)

NewVehicle == [status |-> "AVAILABLE", expiry |-> FirstExpiry]

\* An empty database, or one in use for a while.
Init ==
  /\ \/ /\ client = [c \in Clients |-> Absent] /\ vehicle = [v \in Vehicles |-> Absent]
        /\ rental = [r \in Rentals |-> Absent]
     \/ /\ client = [c \in Clients |-> "ACTIVE"] /\ vehicle = [v \in Vehicles |-> NewVehicle]
        /\ rental \in [Rentals -> [veh : Vehicles, client : Clients, status : {"RESERVED"}]]
  /\ ticket = [t \in Tickets |-> Absent] /\ alert = [a \in Alerts |-> Absent]
  /\ today = 0 /\ edits = 0
  /\ req = [w \in Workers |-> NoRequest] /\ raced = FALSE /\ unseen = {}

\* (A bound: no request lasts over midnight.)
NextDay ==
  /\ \A w \in Workers : Serves(w, "none")
  /\ today < LastDay /\ today' = today + 1
  /\ UNCHANGED <<tables, alert, edits, req, raced, unseen>>

(***************************************************************************)
(* Clients                                                                 *)
(***************************************************************************)
create_client ==
  /\ \E c \in Clients : client[c] = Absent /\ client' = [client EXCEPT ![c] = "ACTIVE"]
  /\ UNCHANGED <<vehicle, rental, ticket, alert, today, edits, req, raced, unseen>>

\* The status is one of the fields an update may set.
update_client ==
  /\ Edit
  /\ \E c \in Rows(client), s \in {"ACTIVE", "INACTIVE"} :
       client[c] # s /\ client' = [client EXCEPT ![c] = s]
  /\ UNCHANGED <<vehicle, rental, ticket, alert, today, req, raced, unseen>>

\* Mutant: only the rentals still open are counted.
CountOpen(c) == {r \in Rows(rental) : rental[r].client = c /\ rental[r].status \in Open}
count_reservations(c) == {r \in Rows(rental) : rental[r].client = c}

\* By REST, or by an item of a push: the same rule.
delete_client(w) ==
  /\ Idle(w) /\ Edit
  /\ \E c \in Rows(client) :
       Becomes(w, [Request("delete_client", c) EXCEPT !.found = count_reservations(c),
                                                       !.existed = Rows(rental)])
  /\ UNCHANGED <<tables, alert, today, raced, unseen>>

\* SET NULL: whatever rental refers to the client by now.
ClientDeleted(c) ==
  /\ client' = [client EXCEPT ![c] = Gone]
  /\ rental' = [r \in Rentals |-> IF r \in Rows(rental) /\ rental[r].client = c
                                  THEN [rental[r] EXCEPT !.client = Nothing] ELSE rental[r]]

\* The row is gone: an UPDATE of it fails, a DELETE of it does nothing.
CommitClientDelete(w) ==
  /\ Serves(w, "delete_client") /\ Ends(w)
  /\ LET c == req[w].key IN
     IF req[w].found # {}
     THEN /\ client' = IF c \in Rows(client) THEN [client EXCEPT ![c] = "INACTIVE"] ELSE client
          /\ UNCHANGED rental
     ELSE ClientDeleted(c)
  /\ UNCHANGED <<vehicle, ticket, alert, today, edits, raced, unseen>>

(***************************************************************************)
(* Vehicles                                                                *)
(***************************************************************************)
RentalsOf(v)  == {r \in Rows(rental) : rental[r].veh = v}
TicketsOf(v)  == {t \in Rows(ticket) : ticket[t].veh = v}
References(v) == RentalsOf(v) \cup TicketsOf(v)

create_vehicle ==
  /\ \E v \in Vehicles : vehicle[v] = Absent /\ vehicle' = [vehicle EXCEPT ![v] = NewVehicle]
  /\ UNCHANGED <<client, rental, ticket, alert, today, edits, req, raced, unseen>>

\* A new expiry date is what a renewed document brings.
update_vehicle ==
  /\ Edit
  /\ \E v \in Rows(vehicle), d \in 0 .. LastDay :
       d > vehicle[v].expiry /\ vehicle' = [vehicle EXCEPT ![v].expiry = d]
  /\ UNCHANGED <<client, rental, ticket, alert, today, req, raced, unseen>>

delete_vehicle(w) ==
  /\ Idle(w) /\ Edit
  /\ \E v \in Rows(vehicle) :
       Becomes(w, [Request("delete_vehicle", v) EXCEPT !.found = References(v)])
  /\ UNCHANGED <<tables, alert, today, raced, unseen>>

\* CASCADE.
AlertsDropped(v) ==
  /\ alert' = [a \in Alerts |->
                 IF a \in Rows(alert) /\ alert[a].veh = v THEN Absent ELSE alert[a]]
  /\ unseen' = unseen \cap {a \in Rows(alert) : alert[a].veh # v}

\* RESTRICT.
VehicleDeleted(v) ==
  /\ References(v) = {}
  /\ vehicle' = [vehicle EXCEPT ![v] = Gone]
  /\ AlertsDropped(v)

CommitVehicleDelete(w) ==
  LET v == req[w].key IN
  /\ Serves(w, "delete_vehicle") /\ Ends(w) /\ v \in Rows(vehicle)
  /\ IF req[w].found # {}
     THEN vehicle' = [vehicle EXCEPT ![v].status = "INACTIVE"] /\ UNCHANGED <<alert, unseen>>
     ELSE VehicleDeleted(v)
  /\ UNCHANGED <<client, rental, ticket, today, edits, raced>>

\* An item of a push takes the rentals and tickets with the vehicle.
PushVehicleDelete ==
  /\ Edit
  /\ \E v \in Rows(vehicle) :
       /\ vehicle' = [vehicle EXCEPT ![v] = Gone]
       /\ rental' = [r \in Rentals |-> IF r \in RentalsOf(v) THEN Gone ELSE rental[r]]
       /\ ticket' = [t \in Tickets |-> IF t \in TicketsOf(v) THEN Gone ELSE ticket[t]]
       /\ AlertsDropped(v)
  /\ UNCHANGED <<client, today, req, raced>>

(***************************************************************************)
(* Alerts                                                                  *)
(***************************************************************************)
DocAlert(v, severity) ==
  [veh |-> v, type |-> "DOC_EXPIRY", due |-> vehicle[v].expiry, severity |-> severity, read |-> FALSE]
TicketAlert(t) ==
  [veh |-> ticket[t].veh, type |-> "MAINTENANCE_STEP", due |-> ticket[t].start,
   severity |-> "maintenance_required", read |-> FALSE]

\* What calls for an alert now.
Calls ==
  {DocAlert(v, "expired") : v \in {x \in Rows(vehicle) : vehicle[x].expiry < today}}
  \cup {DocAlert(v, "warning") : v \in {x \in Rows(vehicle) :
          today <= vehicle[x].expiry /\ vehicle[x].expiry <= today + WarningDays}}
  \cup {TicketAlert(t) : t \in {x \in Rows(ticket) : ticket[x].status = "ACTIVE"}}

\* Mutant: one alert of a type is enough for a vehicle.
SameType(a, b) == a.veh = b.veh /\ a.type = b.type
\* Read or not, an alert for the same thing is not written again.
SameCall(a, b) == a.veh = b.veh /\ a.type = b.type /\ a.due = b.due /\ a.severity = b.severity

\* Mutant: an alert that was read is no alert any more.
MissingUnread == {n \in Calls : \A a \in Rows(alert) : alert[a].read \/ ~SameCall(alert[a], n)}
Missing == {n \in Calls : \A a \in Rows(alert) : ~SameCall(alert[a], n)}
Writing(op) == \E w \in Workers : req[w].op = op

\* Fresh keys, one for each new row.  (A bound: there are enough of them.)
OneEach(g, rows) == \A m, n \in rows : g[m] = g[n] => m = n
KeysFor(rows) == \E g \in [rows -> Alerts \ Rows(alert)] : OneEach(g, rows)
Inserted(rows) ==
  LET f == CHOOSE g \in [rows -> Alerts \ Rows(alert)] : OneEach(g, rows)
  IN [a \in Alerts |-> IF \E n \in rows : f[n] = a THEN CHOOSE n \in rows : f[n] = a ELSE alert[a]]

\* The list, the unread counter and the explicit scan all begin with it.
scan_and_generate_notifications(w) ==
  /\ Idle(w) /\ Missing # {}
  /\ Becomes(w, [Request("scan", Nothing) EXCEPT !.found = Missing])
  /\ raced' = (raced \/ Writing("scan"))
  /\ UNCHANGED <<tables, alert, today, edits, unseen>>

\* One row for each: rows of a vehicle that is gone fail the foreign key.
CommitScan(w) ==
  /\ Serves(w, "scan") /\ Ends(w)
  /\ \A n \in req[w].found : n.veh \in Rows(vehicle)
  /\ KeysFor(req[w].found) /\ alert' = Inserted(req[w].found)
  /\ unseen' = unseen \cup {a \in Alerts : alert'[a] # alert[a]}
  /\ UNCHANGED <<tables, today, edits, raced>>

\* Mutant: the last alert of the type is written again, read or not.
UnreadOrRead(v, type) == {a \in Rows(alert) : alert[a].veh = v /\ alert[a].type = type}
Unread(v, type) == {a \in Rows(alert) : alert[a].veh = v /\ alert[a].type = type /\ ~alert[a].read}

\* A request about vehicle v has looked for an alert of its type: it will write the
\* alert together with the change it makes to a rental, if it makes one.
Raises(w, v, type, change) ==
  /\ Becomes(w, [Request("raise", [veh |-> v, type |-> type]) EXCEPT
                    !.found = Unread(v, type), !.change = change])
  /\ raced' = (raced \/ Writing("raise"))

\* The alert found is written again, with the text and the day of the new event.
create_notification(w) ==
  LET k == req[w].key IN
  /\ k.veh \in Rows(vehicle)
  /\ \/ \E a \in req[w].found :
          /\ a \in Rows(alert)
          /\ alert' = [alert EXCEPT ![a].due = today]
          /\ unseen' = unseen \cup {a}
     \/ LET new == {[veh |-> k.veh, type |-> k.type, due |-> today, severity |-> "info", read |-> FALSE]} IN
        /\ req[w].found = {} /\ KeysFor(new) /\ alert' = Inserted(new)
        /\ unseen' = unseen \cup {a \in Alerts : alert'[a] # alert[a]}

\* A row is inserted, or the status of one is set, whatever it is by now.
RentalWritten(c) ==
  IF c = Nothing THEN UNCHANGED rental
  ELSE /\ IF c.from = Absent THEN c.row.client \in Rows(client) ELSE c.key \in Rows(rental)
       /\ rental' = [rental EXCEPT ![c.key] =
                       IF c.from = Absent THEN c.row ELSE [@ EXCEPT !.status = c.row.status]]

CommitRaise(w) ==
  /\ Serves(w, "raise") /\ Ends(w)
  /\ create_notification(w) /\ RentalWritten(req[w].change)
  /\ UNCHANGED <<client, vehicle, ticket, today, edits, raced>>

\* Readers mark what they see: one alert, or all of them.
MarkRead(as) ==
  /\ alert' = [a \in Alerts |-> IF a \in as THEN [alert[a] EXCEPT !.read = TRUE] ELSE alert[a]]
  /\ unseen' = unseen \ as
  /\ raced' = (raced \/ Writing("raise"))
  /\ UNCHANGED <<tables, today, edits, req>>
IsUnread(a)   == a \in Rows(alert) /\ ~alert[a].read
mark_as_read  == \E a \in Alerts : IsUnread(a) /\ MarkRead({a})
mark_all_read == (\E a \in Alerts : IsUnread(a)) /\ MarkRead(Rows(alert))

(***************************************************************************)
(* Rentals and tickets, as far as they refer to others.                    *)
(***************************************************************************)
Change(r, row) == [key |-> r, from |-> rental[r], row |-> row]
Fresh(r) == rental[r] = Absent /\ \A w \in Workers :
              req[w].change # Nothing => req[w].change.key # r

create_rental(w) ==
  \E r \in Rentals, v \in Rows(vehicle), c \in Rows(client) :
    /\ Fresh(r)
    /\ Raises(w, v, "RESERVATION_CREATED",
              Change(r, [veh |-> v, client |-> c, status |-> "ACTIVE"]))

\* The status is tested on what was read.
Moves(w, from, to, type) ==
  \E r \in Rows(rental) :
    /\ rental[r].status \in from
    /\ Raises(w, rental[r].veh, type, Change(r, [rental[r] EXCEPT !.status = to]))
activate_rental(w) == Moves(w, {"RESERVED"}, "ACTIVE", "VEHICLE_RENTED")
cancel_rental(w)   == Moves(w, Open, "CANCELLED", "RESERVATION_CANCELLED")
complete_rental(w) == Moves(w, Open, "COMPLETED", "VEHICLE_RETURNED")

\* The status of a vehicle is set: one of four types of alert.
update_vehicle_status(w) == \E v \in Rows(vehicle) : Raises(w, v, "VEHICLE_RENTED", Nothing)

\* The ticket is committed first; the alert is another transaction.
create_maintenance(w) ==
  \E t \in Tickets, v \in Rows(vehicle) :
    /\ ticket[t] = Absent
    /\ ticket' = [ticket EXCEPT ![t] = [veh |-> v, status |-> "ACTIVE", start |-> today]]
    /\ Raises(w, v, "MAINTENANCE_CREATED", Nothing)
complete_maintenance(w) ==
  \E t \in {x \in Rows(ticket) : ticket[x].status = "ACTIVE"} :
    /\ ticket' = [ticket EXCEPT ![t].status = "COMPLETED"]
    /\ Raises(w, ticket[t].veh, "MAINTENANCE_COMPLETED", Nothing)

\* Only a ticket that is closed can be deleted.
delete_maintenance ==
  /\ \E t \in {x \in Rows(ticket) : ticket[x].status # "ACTIVE"} : ticket' = [ticket EXCEPT ![t] = Gone]
  /\ UNCHANGED <<client, vehicle, rental, alert, today, edits, req, raced, unseen>>

EditRental(w) ==
  /\ Idle(w) /\ Edit
  /\ create_rental(w) \/ activate_rental(w) \/ cancel_rental(w) \/ complete_rental(w)
     \/ update_vehicle_status(w)
  /\ UNCHANGED <<tables, alert, today, unseen>>
EditTicket(w) ==
  /\ Idle(w) /\ Edit
  /\ create_maintenance(w) \/ complete_maintenance(w)
  /\ UNCHANGED <<client, vehicle, rental, alert, today, unseen>>

Commits(w) ==
  CommitClientDelete(w) \/ CommitVehicleDelete(w) \/ CommitScan(w) \/ CommitRaise(w)

CanCommit(w) == ENABLED Commits(w)

\* A constraint forbids the commit: the transaction is rolled back.  (A connection
\* that is lost does the same, and leaves what there would be without the request.)
Fails(w) ==
  /\ ~Serves(w, "none") /\ ~CanCommit(w) /\ Ends(w)
  /\ UNCHANGED <<tables, alert, today, edits, raced, unseen>>

Next ==
  \/ NextDay \/ create_client \/ create_vehicle \/ update_client \/ update_vehicle \/ PushVehicleDelete
  \/ delete_maintenance \/ mark_as_read \/ mark_all_read
  \/ \E w \in Workers :
       \/ Fails(w) \/ Commits(w)
       \/ delete_client(w) \/ delete_vehicle(w)
       \/ scan_and_generate_notifications(w) \/ EditRental(w) \/ EditTicket(w)

\* Clients poll again and again, a request comes to an end, and not every one fails.
Fairness ==
  /\ \A w \in Workers : WF_vars(Commits(w) \/ Fails(w))
  /\ SF_vars(\E w \in Workers : scan_and_generate_notifications(w))
  /\ SF_vars(\E w \in Workers : CommitScan(w))

Spec == Init /\ [][Next]_vars /\ Fairness
=============================================================================
