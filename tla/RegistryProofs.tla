---------------------------- MODULE RegistryProofs ----------------------------
(***************************************************************************)
(* Proofs about Registry, for every set of clients, vehicles, rentals,     *)
(* tickets, alerts and workers.                                            *)
(***************************************************************************)
EXTENDS RegistryProps, TLAPS

\* The tables keep their types.
Typed ==
  /\ DOMAIN client = Clients /\ DOMAIN vehicle = Vehicles
  /\ rental \in [Rentals -> RentalRow \cup {Absent, Gone}]

(***************************************************************************)
(* What a step may do to the rentals: rows are inserted, at keys of K that *)
(* were never used; a row changes its status, loses its client, or goes.   *)
(***************************************************************************)
Harmless(K) ==
  \A r \in Rentals :
    /\ rental[r] # Absent => rental'[r] # Absent
    /\ rental[r] \in RentalRow /\ rental'[r] \in RentalRow =>
         rental'[r].client \in {rental[r].client, Nothing}
    /\ rental[r] \notin RentalRow => rental'[r] = rental[r] \/ (rental[r] = Absent /\ r \in K)

\* What the deletion of a client has counted.
Counted(w) ==
  /\ req[w].key \in Clients
  /\ \A r \in req[w].existed \cap Rows(rental) :
       rental[r].client = req[w].key => r \in req[w].found

\* The invariant, in these words.
LEMMA Parts ==
  HistoryInv <=>
    /\ Typed /\ req = [w \in Workers |-> req[w]]
    /\ \A w \in Workers :
         /\ Writes(w) =>
              req[w].op = "raise" /\ req[w].change.key \in Rentals /\ req[w].change.row \in RentalRow
         /\ Inserts(w) => rental[req[w].change.key] = Absent
         /\ \A x \in Workers \ {w} :
              Inserts(w) /\ Inserts(x) => req[w].change.key # req[x].change.key
         /\ req[w].existed \subseteq {r \in Rentals : rental[r] # Absent}
         /\ Serves(w, "delete_client") => Counted(w)
BY DEF HistoryInv, Typed, Counted

\* A step of w in which the request of w becomes q.
LEMMA OnlyOne ==
  ASSUME HistoryInv, NEW w \in Workers, NEW q, Becomes(w, q)
  PROVE  /\ req' = [x \in Workers |-> req'[x]]
         /\ req'[w] = q
         /\ \A x \in Workers \ {w} : req'[x] = req[x]
<1>1. req = [x \in Workers |-> req[x]] BY DEF HistoryInv
<1>2. req' = [req EXCEPT ![w] = q] BY DEF Becomes
<1> QED BY <1>1, <1>2

\* A step that is harmless to the rentals leaves what was counted complete.
LEMMA StillCounted ==
  ASSUME HistoryInv, Typed', NEW K, Harmless(K), NEW w \in Workers, Counted(w), req'[w] = req[w]
  PROVE  Counted(w)'
<1>1. ASSUME NEW r \in req[w].existed, r \in Rows(rental'), rental'[r].client = req[w].key
      PROVE  r \in Rows(rental) /\ rental[r].client = req[w].key
  <2>1. r \in Rentals /\ rental[r] # Absent BY DEF HistoryInv
  <2>2. rental'[r] \in RentalRow BY <1>1, <2>1 DEF Rows, Typed
  <2>3. rental[r] \in RentalRow BY <2>1, <2>2, MarksAreNoRows DEF Harmless
  <2>4. rental'[r].client # Nothing BY <1>1, MarksAreNoRows DEF Counted
  <2>5. rental[r].client = req[w].key BY <1>1, <2>1, <2>2, <2>3, <2>4 DEF Harmless
  <2>6. r \in Rows(rental) BY <2>1, <2>3, MarksAreNoRows DEF Rows, HistoryInv
  <2> QED BY <2>5, <2>6
<1> QED BY <1>1 DEF Counted, Rows

\* A step that leaves all requests alone ...
LEMMA KeptBySteps ==
  ASSUME HistoryInv, Typed', Harmless({}), UNCHANGED req
  PROVE  HistoryInv'
<1>1. ASSUME NEW w \in Workers
      PROVE  /\ (Writes(w) => req[w].op = "raise" /\ req[w].change.key \in Rentals /\ req[w].change.row \in RentalRow)'
             /\ (Inserts(w) => rental[req[w].change.key] = Absent)'
             /\ (\A x \in Workers \ {w} : Inserts(w) /\ Inserts(x) => req[w].change.key # req[x].change.key)'
  BY MarksAreNoRows DEF HistoryInv, Harmless, Writes, Inserts
<1>2. ASSUME NEW w \in Workers
      PROVE  (req[w].existed \subseteq {r \in Rentals : rental[r] # Absent})'
  BY DEF HistoryInv, Harmless
<1>3. ASSUME NEW w \in Workers, Serves(w, "delete_client")'
      PROVE  Counted(w)'
  <2>1. Counted(w) BY <1>3, Parts DEF Serves
  <2> QED BY <2>1, StillCounted
<1>4. (req = [w \in Workers |-> req[w]])' BY DEF HistoryInv
<1> QED BY <1>1, <1>2, <1>3, <1>4 DEF HistoryInv, Typed, Counted

\* ... or ends one of them, which may insert the row it was going to insert ...
LEMMA KeptByEnds ==
  ASSUME HistoryInv, Typed', NEW w \in Workers, Ends(w), NEW K, Harmless(K),
         \A k \in K : Inserts(w) /\ k = req[w].change.key
  PROVE  HistoryInv'
<1>1. /\ req' = [x \in Workers |-> req'[x]] /\ req'[w] = NoRequest
      /\ \A x \in Workers \ {w} : req'[x] = req[x]
  BY OnlyOne DEF Ends
<1>2. NoRequest.change = Nothing /\ NoRequest.existed = {} /\ NoRequest.op = "none"
  BY DEF NoRequest
<1>3. ASSUME NEW x \in Workers
      PROVE  /\ (Writes(x) => req[x].op = "raise" /\ req[x].change.key \in Rentals /\ req[x].change.row \in RentalRow)'
             /\ (\A y \in Workers \ {x} : Inserts(x) /\ Inserts(y) => req[x].change.key # req[y].change.key)'
  BY <1>1, <1>2 DEF HistoryInv, Writes, Inserts
<1>4. ASSUME NEW x \in Workers, Inserts(x)'
      PROVE  (rental[req[x].change.key] = Absent)'
  <2>1. x # w /\ req'[x] = req[x] BY <1>1, <1>2, <1>4 DEF Inserts, Writes
  <2>2. Inserts(x) BY <1>4, <2>1 DEF Inserts, Writes
  <2>3. req[x].change.key \in Rentals /\ rental[req[x].change.key] = Absent
    BY <2>2 DEF HistoryInv, Inserts
  <2>4. req[x].change.key \notin K BY <2>1, <2>2 DEF HistoryInv
  <2>5. rental'[req[x].change.key] = Absent BY <2>3, <2>4, MarksAreNoRows DEF Harmless
  <2> QED BY <2>1, <2>5
<1>5. ASSUME NEW x \in Workers
      PROVE  (req[x].existed \subseteq {r \in Rentals : rental[r] # Absent})'
  BY <1>1, <1>2 DEF HistoryInv, Harmless
<1>6. ASSUME NEW x \in Workers, Serves(x, "delete_client")'
      PROVE  Counted(x)'
  <2>1. req'[x] = req[x] BY <1>1, <1>2, <1>6 DEF Serves
  <2>2. Counted(x) BY <1>6, <2>1, Parts DEF Serves
  <2> QED BY <2>1, <2>2, StillCounted
<1> QED BY <1>1, <1>3, <1>4, <1>5, <1>6 DEF HistoryInv, Typed, Counted

\* ... or begins one: what it has counted is complete, and the row it is going to
\* insert has a key that is not in use.
LEMMA KeptByStarts ==
  ASSUME HistoryInv, Typed', UNCHANGED rental, NEW w \in Workers, NEW q, Becomes(w, q),
         q.change # Nothing =>
           /\ q.op = "raise" /\ q.change.key \in Rentals /\ q.change.row \in RentalRow
           /\ q.change.from = Absent =>
                /\ rental[q.change.key] = Absent
                /\ \A x \in Workers : req[x].change # Nothing => req[x].change.key # q.change.key,
         q.existed \subseteq {r \in Rentals : rental[r] # Absent},
         q.op = "delete_client" =>
           /\ q.key \in Clients
           /\ \A r \in q.existed \cap Rows(rental) : rental[r].client = q.key => r \in q.found
  PROVE  HistoryInv'
<1>1. /\ req' = [x \in Workers |-> req'[x]] /\ req'[w] = q
      /\ \A x \in Workers \ {w} : req'[x] = req[x]
  BY OnlyOne
<1>2. ASSUME NEW x \in Workers
      PROVE  /\ (Writes(x) => req[x].op = "raise" /\ req[x].change.key \in Rentals /\ req[x].change.row \in RentalRow)'
             /\ (Inserts(x) => rental[req[x].change.key] = Absent)'
  BY <1>1 DEF HistoryInv, Writes, Inserts
<1>3. ASSUME NEW x \in Workers, NEW y \in Workers \ {x}, Inserts(x)', Inserts(y)'
      PROVE  (req[x].change.key # req[y].change.key)'
  <2>1. CASE x = w
    <3>1. req'[x] = q /\ req'[y] = req[y] BY <1>1, <2>1
    <3> QED BY <1>3, <3>1 DEF Inserts, Writes
  <2>2. CASE y = w
    <3>1. req'[y] = q /\ req'[x] = req[x] BY <1>1, <2>2
    <3> QED BY <1>3, <3>1 DEF Inserts, Writes
  <2>3. CASE x # w /\ y # w
    <3>1. req'[x] = req[x] /\ req'[y] = req[y] BY <1>1, <2>3
    <3> QED BY <1>3, <3>1 DEF Inserts, Writes, HistoryInv
  <2> QED BY <2>1, <2>2, <2>3
<1>4. ASSUME NEW x \in Workers
      PROVE  /\ (req[x].existed \subseteq {r \in Rentals : rental[r] # Absent})'
             /\ (Serves(x, "delete_client") => Counted(x))'
  <2>1. CASE x = w BY <1>1, <2>1 DEF Serves, Counted, Rows
  <2>2. CASE x # w
    <3>1. req'[x] = req[x] BY <1>1, <2>2
    <3> QED BY <3>1, Parts DEF Serves, Counted, Rows
  <2> QED BY <2>1, <2>2
<1> QED BY <1>1, <1>2, <1>3, <1>4 DEF HistoryInv, Typed, Counted

\* A request that raises an alert, and perhaps writes a rental.
LEMMA RaisesStarts ==
  ASSUME HistoryInv, NEW w \in Workers, NEW v, NEW type, NEW change, Raises(w, v, type, change),
         Typed', UNCHANGED rental,
         change # Nothing =>
           /\ change.key \in Rentals /\ change.row \in RentalRow
           /\ change.from = Absent =>
                /\ rental[change.key] = Absent
                /\ \A x \in Workers : req[x].change # Nothing => req[x].change.key # change.key
  PROVE  HistoryInv'
<1> DEFINE q == [Request("raise", [veh |-> v, type |-> type]) EXCEPT
                    !.found = Unread(v, type), !.change = change]
<1>1. Becomes(w, q) BY DEF Raises
<1>2. q.op = "raise" /\ q.change = change /\ q.existed = {} BY DEF Request, NoRequest
<1> HIDE DEF q
<1> QED BY <1>1, <1>2, KeptByStarts

LEMMA ByStart ==
  ASSUME HistoryInv, NEW w \in Workers,
         delete_client(w) \/ delete_vehicle(w) \/ scan_and_generate_notifications(w)
  PROVE  HistoryInv'
<1>0. Typed /\ Typed' /\ UNCHANGED rental
  BY Parts DEF delete_client, delete_vehicle, scan_and_generate_notifications, tables, Typed
<1>1. CASE delete_client(w)
  <2>1. PICK c \in Rows(client) :
          Becomes(w, [Request("delete_client", c) EXCEPT !.found = count_reservations(c),
                                                         !.existed = Rows(rental)])
    BY <1>1 DEF delete_client
  <2> DEFINE q == [Request("delete_client", c) EXCEPT !.found = count_reservations(c),
                                                      !.existed = Rows(rental)]
  <2>2. /\ q.op = "delete_client" /\ q.key = c /\ q.change = Nothing
        /\ q.found = count_reservations(c) /\ q.existed = Rows(rental)
    BY DEF Request, NoRequest
  <2>3. Becomes(w, q) BY <2>1
  <2> HIDE DEF q
  <2>4. c \in Clients BY <1>0 DEF Rows, Typed
  <2>5. q.existed \subseteq {r \in Rentals : rental[r] # Absent} BY <1>0, <2>2 DEF Rows, Typed
  <2>6. \A r \in q.existed \cap Rows(rental) : rental[r].client = q.key => r \in q.found
    BY <2>2 DEF count_reservations
  <2> QED BY <1>0, <2>2, <2>3, <2>4, <2>5, <2>6, KeptByStarts
<1>2. CASE delete_vehicle(w)
  <2>1. PICK v \in Rows(vehicle) :
          Becomes(w, [Request("delete_vehicle", v) EXCEPT !.found = References(v)])
    BY <1>2 DEF delete_vehicle
  <2> DEFINE q == [Request("delete_vehicle", v) EXCEPT !.found = References(v)]
  <2>2. q.op = "delete_vehicle" /\ q.change = Nothing /\ q.existed = {}
    BY DEF Request, NoRequest
  <2>3. Becomes(w, q) BY <2>1
  <2> HIDE DEF q
  <2> QED BY <1>0, <2>2, <2>3, KeptByStarts
<1>3. CASE scan_and_generate_notifications(w)
  <2> DEFINE q == [Request("scan", Nothing) EXCEPT !.found = Missing]
  <2>1. Becomes(w, q) BY <1>3 DEF scan_and_generate_notifications
  <2>2. q.op = "scan" /\ q.change = Nothing /\ q.existed = {}
    BY DEF Request, NoRequest
  <2> HIDE DEF q
  <2> QED BY <1>0, <2>1, <2>2, KeptByStarts
<1> QED BY <1>1, <1>2, <1>3

LEMMA ByMoves ==
  ASSUME HistoryInv, NEW w \in Workers, NEW from, NEW type,
         NEW to \in {"ACTIVE", "CANCELLED", "COMPLETED"}, Moves(w, from, to, type),
         Typed', UNCHANGED rental
  PROVE  HistoryInv'
<1>1. PICK r \in Rows(rental) :
        Raises(w, rental[r].veh, type, Change(r, [rental[r] EXCEPT !.status = to]))
  BY DEF Moves
<1>2. r \in Rentals /\ rental[r] \in RentalRow /\ rental[r] # Absent BY DEF HistoryInv, Rows
<1>3. [rental[r] EXCEPT !.status = to] \in RentalRow BY <1>2 DEF RentalRow
<1> DEFINE row == [rental[r] EXCEPT !.status = to]
           change == Change(r, row)
<1>4. change.key = r /\ change.from = rental[r] /\ change.row = row BY DEF Change
<1>5. Raises(w, rental[r].veh, type, change) BY <1>1
<1> HIDE DEF change
<1> QED BY <1>2, <1>3, <1>4, <1>5, RaisesStarts

LEMMA ByEditRental ==
  ASSUME HistoryInv, NEW w \in Workers, EditRental(w)
  PROVE  HistoryInv'
<1>0. Typed /\ Typed' /\ UNCHANGED rental BY Parts DEF EditRental, tables, Typed
<1>1. CASE create_rental(w)
  <2>1. PICK r \in Rentals, v \in Rows(vehicle), c \in Rows(client) :
          /\ Fresh(r)
          /\ Raises(w, v, "RESERVATION_CREATED", Change(r, [veh |-> v, client |-> c, status |-> "ACTIVE"]))
    BY <1>1 DEF create_rental
  <2> DEFINE row == [veh |-> v, client |-> c, status |-> "ACTIVE"]
             change == Change(r, row)
  <2>2. change.key = r /\ change.row = row BY DEF Change
  <2>3. row \in RentalRow BY <1>0 DEF Rows, Typed, RentalRow
  <2>4. rental[r] = Absent /\ \A x \in Workers : req[x].change # Nothing => req[x].change.key # r
    BY <2>1 DEF Fresh
  <2>5. Raises(w, v, "RESERVATION_CREATED", change) BY <2>1
  <2> HIDE DEF change, row
  <2> QED BY <1>0, <2>2, <2>3, <2>4, <2>5, RaisesStarts
<1>2. CASE activate_rental(w) BY <1>0, <1>2, ByMoves DEF activate_rental
<1>3. CASE cancel_rental(w) BY <1>0, <1>3, ByMoves DEF cancel_rental
<1>4. CASE complete_rental(w) BY <1>0, <1>4, ByMoves DEF complete_rental
<1>5. CASE update_vehicle_status(w) BY <1>0, <1>5, RaisesStarts DEF update_vehicle_status
<1> QED BY <1>1, <1>2, <1>3, <1>4, <1>5 DEF EditRental

LEMMA ByEditTicket ==
  ASSUME HistoryInv, NEW w \in Workers, EditTicket(w)
  PROVE  HistoryInv'
<1>1. Typed /\ Typed' /\ UNCHANGED rental BY Parts DEF EditTicket, Typed
<1>2. PICK v, type : Raises(w, v, type, Nothing)
  BY DEF EditTicket, create_maintenance, complete_maintenance
<1> QED BY <1>1, <1>2, RaisesStarts

\* A step that leaves the rentals alone is harmless to them.
LEMMA HarmlessIfSame ==
  ASSUME UNCHANGED rental
  PROVE  Harmless({})
BY MarksAreNoRows DEF Harmless

\* SET NULL.
LEMMA SetNull ==
  ASSUME HistoryInv, NEW c, ClientDeleted(c)
  PROVE  /\ rental' \in [Rentals -> RentalRow \cup {Absent, Gone}]
         /\ Harmless({})
         /\ Rows(rental') = Rows(rental)
         /\ \A r \in Rows(rental) : rental[r].client # c => rental'[r] = rental[r]
<1>1. ASSUME NEW r \in Rentals
      PROVE  \/ /\ rental[r] \in RentalRow /\ rental[r].client = c
                /\ rental'[r] = [rental[r] EXCEPT !.client = Nothing]
             \/ /\ rental'[r] = rental[r]
  BY DEF ClientDeleted, HistoryInv, Rows
<1>2. \A r \in Rentals : rental[r] \in RentalRow =>
        /\ [rental[r] EXCEPT !.client = Nothing] \in RentalRow
        /\ [rental[r] EXCEPT !.client = Nothing].client = Nothing
  BY DEF RentalRow
<1>3. DOMAIN rental = Rentals /\ DOMAIN rental' = Rentals /\ rental' = [r \in Rentals |-> rental'[r]]
  BY DEF ClientDeleted, HistoryInv
<1>4. \A r \in Rentals : rental[r] \in RentalRow \cup {Absent, Gone}
  BY DEF HistoryInv
<1>5. \A r \in Rentals : rental'[r] \in RentalRow \cup {Absent, Gone}
  BY <1>1, <1>2, <1>4
<1>6. Harmless({})
  <2> SUFFICES ASSUME NEW r \in Rentals
               PROVE  /\ rental[r] # Absent => rental'[r] # Absent
                      /\ rental[r] \in RentalRow /\ rental'[r] \in RentalRow =>
                           rental'[r].client \in {rental[r].client, Nothing}
                      /\ rental[r] \notin RentalRow => rental'[r] = rental[r]
    BY DEF Harmless
  <2>1. CASE rental'[r] = rental[r] BY <2>1
  <2>2. CASE rental[r] \in RentalRow /\ rental'[r] = [rental[r] EXCEPT !.client = Nothing]
    <3>1. rental'[r] \in RentalRow /\ rental'[r].client = Nothing BY <1>2, <2>2
    <3> QED BY <2>2, <3>1, MarksAreNoRows
  <2> QED BY <1>1, <2>1, <2>2
<1>7. Rows(rental') = Rows(rental) BY <1>1, <1>2, <1>3, MarksAreNoRows DEF Rows
<1>8. \A r \in Rows(rental) : rental[r].client # c => rental'[r] = rental[r]
  BY <1>1, <1>3 DEF Rows
<1> QED BY <1>3, <1>5, <1>6, <1>7, <1>8

LEMMA ByCommitClientDelete ==
  ASSUME HistoryInv, NEW w \in Workers, CommitClientDelete(w)
  PROVE  HistoryInv'
<1>1. Typed /\ Ends(w) /\ UNCHANGED vehicle BY Parts DEF CommitClientDelete
<1>2. \/ UNCHANGED client \/ \E s : client' = [client EXCEPT ![req[w].key] = s]
  BY DEF CommitClientDelete, ClientDeleted
<1>3. DOMAIN client' = Clients BY <1>1, <1>2 DEF Typed
<1>4. CASE UNCHANGED rental BY <1>1, <1>3, <1>4, HarmlessIfSame, KeptByEnds DEF Typed
<1>5. CASE ClientDeleted(req[w].key) BY <1>1, <1>3, <1>5, SetNull, KeptByEnds DEF Typed
<1> QED BY <1>4, <1>5 DEF CommitClientDelete

LEMMA ByOtherEnds ==
  ASSUME HistoryInv, NEW w \in Workers, CommitVehicleDelete(w) \/ CommitScan(w) \/ Fails(w)
  PROVE  HistoryInv'
<1>1. Ends(w) /\ UNCHANGED <<client, rental>> BY DEF CommitVehicleDelete, CommitScan, Fails, tables
<1>2. DOMAIN vehicle' = Vehicles
  BY DEF CommitVehicleDelete, VehicleDeleted, CommitScan, Fails, tables, HistoryInv
<1>3. Typed' BY <1>1, <1>2, Parts DEF Typed
<1> QED BY <1>1, <1>3, HarmlessIfSame, KeptByEnds

LEMMA ByCommitRaise ==
  ASSUME HistoryInv, NEW w \in Workers, CommitRaise(w)
  PROVE  HistoryInv'
<1>1. Typed /\ Ends(w) /\ UNCHANGED <<client, vehicle>> /\ RentalWritten(req[w].change)
  BY Parts DEF CommitRaise
<1>2. CASE ~Writes(w)
  <2>1. UNCHANGED rental BY <1>1, <1>2 DEF RentalWritten, Writes
  <2> QED BY <1>1, <2>1, HarmlessIfSame, KeptByEnds DEF Typed
<1> DEFINE c == req[w].change
<1>3. CASE Inserts(w)
  <2>1. c.key \in Rentals /\ c.row \in RentalRow /\ rental[c.key] = Absent
    BY <1>3 DEF HistoryInv, Inserts
  <2>2. rental' = [rental EXCEPT ![c.key] = c.row]
    BY <1>1, <1>3 DEF RentalWritten, Inserts, Writes
  <2> HIDE DEF c
  <2>3. Typed' BY <1>1, <2>1, <2>2 DEF Typed
  <2>4. Harmless({c.key})
    <3>1. rental'[c.key] = c.row /\ rental'[c.key] # Absent /\ rental[c.key] \notin RentalRow
      BY <1>1, <2>1, <2>2, MarksAreNoRows DEF Typed
    <3>2. \A r \in Rentals \ {c.key} : rental'[r] = rental[r] BY <1>1, <2>2 DEF Typed
    <3> QED BY <2>1, <3>1, <3>2 DEF Harmless
  <2>5. \A k \in {c.key} : Inserts(w) /\ k = req[w].change.key BY <1>3 DEF c
  <2> QED BY <1>1, <2>3, <2>4, <2>5, KeptByEnds
<1>4. CASE Writes(w) /\ ~Inserts(w)
  <2>1. c.key \in Rentals /\ c.row \in RentalRow BY <1>4 DEF HistoryInv
  <2>2. /\ c.key \in Rows(rental)
        /\ rental' = [rental EXCEPT ![c.key] = [@ EXCEPT !.status = c.row.status]]
    BY <1>1, <1>4 DEF RentalWritten, Inserts, Writes
  <2> HIDE DEF c
  <2>3. rental[c.key] \in RentalRow BY <1>1, <2>1, <2>2 DEF Typed, Rows
  <2> DEFINE row == [rental[c.key] EXCEPT !.status = c.row.status]
  <2>4. row \in RentalRow /\ row.client = rental[c.key].client BY <2>1, <2>3 DEF RentalRow
  <2>5. rental' = [rental EXCEPT ![c.key] = row] BY <2>2
  <2> HIDE DEF row
  <2>6. Typed' BY <1>1, <2>1, <2>4, <2>5 DEF Typed
  <2>7. Harmless({})
    <3>1. rental'[c.key] = row /\ row # Absent BY <1>1, <2>1, <2>4, <2>5, MarksAreNoRows DEF Typed
    <3>2. \A r \in Rentals \ {c.key} : rental'[r] = rental[r] BY <1>1, <2>5 DEF Typed
    <3> QED BY <2>3, <2>4, <3>1, <3>2 DEF Harmless
  <2> QED BY <1>1, <2>6, <2>7, KeptByEnds
<1> QED BY <1>2, <1>3, <1>4 DEF Inserts

\* The steps that concern no request.
LEMMA ByOtherSteps ==
  ASSUME HistoryInv,
         \/ NextDay \/ create_client \/ create_vehicle \/ update_client \/ update_vehicle
         \/ delete_maintenance \/ mark_as_read \/ mark_all_read \/ UNCHANGED vars
  PROVE  HistoryInv'
<1>1. UNCHANGED <<rental, req>>
  BY DEF NextDay, create_client, create_vehicle, update_client, update_vehicle,
         delete_maintenance, mark_as_read, mark_all_read, MarkRead, vars, tables
<1>2. DOMAIN client' = Clients /\ DOMAIN vehicle' = Vehicles
  BY DEF NextDay, create_client, create_vehicle, update_client, update_vehicle,
         delete_maintenance, mark_as_read, mark_all_read, MarkRead, vars, tables, HistoryInv
<1>3. Typed' BY <1>1, <1>2, Parts DEF Typed
<1> QED BY <1>1, <1>3, HarmlessIfSame, KeptBySteps

LEMMA ByPushVehicleDelete ==
  ASSUME HistoryInv, PushVehicleDelete
  PROVE  HistoryInv'
<1>1. UNCHANGED <<client, req>> /\ Typed BY Parts DEF PushVehicleDelete
<1>2. PICK v \in Rows(vehicle) :
        /\ vehicle' = [vehicle EXCEPT ![v] = Gone]
        /\ rental' = [r \in Rentals |-> IF r \in RentalsOf(v) THEN Gone ELSE rental[r]]
  BY DEF PushVehicleDelete
<1>3. Typed' BY <1>1, <1>2 DEF Typed
<1>4. Harmless({})
  <2> SUFFICES ASSUME NEW r \in Rentals
               PROVE  /\ rental[r] # Absent => rental'[r] # Absent
                      /\ rental[r] \in RentalRow /\ rental'[r] \in RentalRow =>
                           rental'[r].client \in {rental[r].client, Nothing}
                      /\ rental[r] \notin RentalRow => rental'[r] = rental[r]
    BY DEF Harmless
  <2>1. CASE rental'[r] = rental[r] BY <2>1
  <2>2. CASE rental'[r] = Gone /\ r \in RentalsOf(v)
    <3>1. rental[r] \in RentalRow BY <1>1, <2>2 DEF RentalsOf, Rows, Typed
    <3>2. rental'[r] \notin RentalRow /\ rental'[r] # Absent BY <2>2, MarksAreNoRows
    <3> QED BY <3>1, <3>2
  <2> QED BY <1>2, <2>1, <2>2
<1> QED BY <1>1, <1>3, <1>4, KeptBySteps

LEMMA InitHistory == Init => HistoryInv
<1> SUFFICES ASSUME Init PROVE HistoryInv OBVIOUS
<1>1. DOMAIN client = Clients /\ DOMAIN vehicle = Vehicles BY DEF Init
<1>2. rental \in [Rentals -> RentalRow \cup {Absent, Gone}] BY DEF Init, RentalRow
<1>3. \A w \in Workers : req[w].change = Nothing /\ req[w].existed = {} /\ req[w].op = "none"
  BY DEF Init, NoRequest
<1>4. req = [w \in Workers |-> req[w]] BY DEF Init
<1> QED BY <1>1, <1>2, <1>3, <1>4 DEF HistoryInv, Writes, Inserts, Serves

LEMMA StepHistory ==
  ASSUME HistoryInv, [Next]_vars
  PROVE  HistoryInv'
<1>1. CASE PushVehicleDelete BY <1>1, ByPushVehicleDelete
<1>2. CASE \/ NextDay \/ create_client \/ create_vehicle \/ update_client \/ update_vehicle
           \/ delete_maintenance \/ mark_as_read \/ mark_all_read \/ UNCHANGED vars
  BY <1>2, ByOtherSteps
<1>3. ASSUME NEW w \in Workers, Fails(w) \/ Commits(w)
      PROVE  HistoryInv'
  BY <1>3, ByCommitClientDelete, ByOtherEnds, ByCommitRaise DEF Commits
<1>4. ASSUME NEW w \in Workers,
             \/ delete_client(w) \/ delete_vehicle(w) \/ scan_and_generate_notifications(w)
             \/ EditRental(w) \/ EditTicket(w)
      PROVE  HistoryInv'
  BY <1>4, ByStart, ByEditRental, ByEditTicket
<1> QED BY <1>1, <1>2, <1>3, <1>4 DEF Next

\* What the deletion of a client has counted stays complete while other requests
\* insert, change and delete rentals.
THEOREM HistoryInvariant == Spec => []HistoryInv
<1>1. Init => HistoryInv BY InitHistory
<1>2. HistoryInv /\ [Next]_vars => HistoryInv' BY StepHistory
<1> QED BY <1>1, <1>2, PTL DEF Spec

Deletes(w) == req[w].op \in {"delete_client", "delete_vehicle"}

\* What HistoryKept says of one step.
Kept(w) ==
  /\ Rows(rental') = Rows(rental) /\ Rows(ticket') = Rows(ticket)
  /\ \A r \in req[w].existed \cap Rows(rental) : rental'[r].client = rental[r].client

LEMMA StepKeeps ==
  ASSUME HistoryInv, [Next]_vars, NEW w \in Workers, Deletes(w), req'[w] # req[w]
  PROVE  Kept(w)
<1>1. CASE UNCHANGED req BY <1>1
<1>2. ASSUME NEW x \in Workers, Idle(x), NEW q, Becomes(x, q)
      PROVE  FALSE
  BY <1>2, OnlyOne DEF Idle, Serves, Deletes
<1>3. ASSUME NEW x \in Workers, Ends(x)
      PROVE  x = w
  BY <1>3, OnlyOne DEF Ends
<1>4. CASE \/ NextDay \/ create_client \/ create_vehicle \/ update_client \/ update_vehicle
           \/ delete_maintenance \/ mark_as_read \/ mark_all_read \/ PushVehicleDelete
           \/ UNCHANGED vars
  <2>1. UNCHANGED req
    BY <1>4 DEF NextDay, create_client, create_vehicle, update_client, update_vehicle,
         delete_maintenance, mark_as_read, mark_all_read, MarkRead, PushVehicleDelete, vars
  <2> QED BY <1>1, <2>1
<1>5. ASSUME NEW x \in Workers,
             \/ delete_client(x) \/ delete_vehicle(x) \/ scan_and_generate_notifications(x)
             \/ EditRental(x) \/ EditTicket(x)
      PROVE  FALSE
  <2>1. Idle(x)
    BY <1>5 DEF delete_client, delete_vehicle, scan_and_generate_notifications, EditRental, EditTicket
  <2>2. PICK q : Becomes(x, q)
    BY <1>5 DEF delete_client, delete_vehicle, scan_and_generate_notifications, EditRental, EditTicket,
         create_rental, activate_rental, cancel_rental, complete_rental, update_vehicle_status,
         create_maintenance, complete_maintenance, Moves, Raises
  <2> QED BY <1>2, <2>1, <2>2
<1>6. ASSUME NEW x \in Workers, Fails(x)
      PROVE  Kept(w)
  BY <1>6 DEF Fails, tables, Kept
<1>7. ASSUME NEW x \in Workers, CommitScan(x) \/ CommitRaise(x)
      PROVE  FALSE
  <2>1. Ends(x) /\ ~Deletes(x) BY <1>7 DEF CommitScan, CommitRaise, Serves, Deletes
  <2> QED BY <1>3, <2>1
<1>8. ASSUME NEW x \in Workers, CommitVehicleDelete(x)
      PROVE  Kept(w)
  BY <1>8 DEF CommitVehicleDelete, Kept
<1>9. ASSUME NEW x \in Workers, CommitClientDelete(x)
      PROVE  Kept(w)
  <2>1. x = w BY <1>3, <1>9 DEF CommitClientDelete
  <2>2. UNCHANGED ticket BY <1>9 DEF CommitClientDelete
  <2>3. CASE UNCHANGED rental BY <2>2, <2>3 DEF Kept
  <2>4. CASE ClientDeleted(req[w].key) /\ req[w].found = {}
    <3>1. \A r \in req[w].existed \cap Rows(rental) : rental[r].client # req[w].key
      BY <1>9, <2>1, <2>4 DEF HistoryInv, CommitClientDelete
    <3>2. /\ Rows(rental') = Rows(rental)
          /\ \A r \in Rows(rental) : rental[r].client # req[w].key => rental'[r] = rental[r]
      BY <2>4, SetNull
    <3> QED BY <2>2, <3>1, <3>2 DEF Kept
  <2> QED BY <1>9, <2>1, <2>3, <2>4 DEF CommitClientDelete
<1> QED BY <1>4, <1>5, <1>6, <1>7, <1>8, <1>9 DEF Next, Commits

\* Deleting a client or a vehicle through the API destroys no rental and no ticket,
\* and takes the client from no rental that was there when the decision was taken.
THEOREM HistoryIsKept == Spec => HistoryKept
<1>1. HistoryInv /\ [Next]_vars =>
        [\A w \in Workers :
           req[w].op \in {"delete_client", "delete_vehicle"} /\ req'[w] # req[w] =>
             /\ Rows(rental)' = Rows(rental) /\ Rows(ticket)' = Rows(ticket)
             /\ \A r \in req[w].existed \cap Rows(rental) : rental'[r].client = rental[r].client]_vars
  <2> SUFFICES ASSUME HistoryInv, [Next]_vars, NEW w \in Workers, Deletes(w), req'[w] # req[w]
               PROVE  /\ Rows(rental)' = Rows(rental) /\ Rows(ticket)' = Rows(ticket)
                      /\ \A r \in req[w].existed \cap Rows(rental) :
                           rental'[r].client = rental[r].client
    BY DEF Deletes
  <2>1. Kept(w) BY StepKeeps
  <2> QED BY <2>1 DEF Kept, Rows
<1> QED BY <1>1, HistoryInvariant, PTL DEF Spec, HistoryKept

(***************************************************************************)
(* Alerts.  Until the requests that write alerts overlap, there is at most *)
(* one scan and one request that raises an alert, and what each of them    *)
(* has looked up is still so when it writes.                               *)
(***************************************************************************)
IsAlert(x) ==
  /\ x = [veh |-> x.veh, type |-> x.type, due |-> x.due, severity |-> x.severity, read |-> x.read]
  /\ x.read \in BOOLEAN
IsTicket(x) == x = [veh |-> x.veh, status |-> x.status, start |-> x.start] /\ x.veh \in Vehicles

Shapes ==
  /\ alert = [a \in Alerts |-> alert[a]] /\ \A a \in Rows(alert) : IsAlert(alert[a])
  /\ ticket = [t \in Tickets |-> ticket[t]] /\ \A t \in Rows(ticket) : IsTicket(ticket[t])

WriterOps == {"scan", "raise"}
OneWriter ==
  ~raced => \A w, x \in Workers : \A op \in WriterOps : Serves(w, op) /\ Serves(x, op) => w = x

\* What the scan found is still missing.
New(n) ==
  /\ IsAlert(n) /\ n.type \in ScanTypes /\ ~n.read
  /\ \A a \in Rows(alert) : ~SameCall(alert[a], n)
ScanFresh ==
  ~raced => \A w \in Workers : Serves(w, "scan") => \A n \in req[w].found : New(n)

\* The unread alert a request found is still the one, as long as its vehicle is there.
Knows(r) ==
  /\ r.key.type \notin ScanTypes /\ r.key.veh \in Vehicles
  /\ vehicle[r.key.veh] # Gone => r.found = Unread(r.key.veh, r.key.type)
RaiseKnows == ~raced => \A w \in Workers : Serves(w, "raise") => Knows(req[w])

AlertInv == Shapes /\ OneWriter /\ ScanFresh /\ RaiseKnows /\ AlertedOnce /\ ReadIsSeen

\* A vehicle that is gone does not come back.
GoneStaysGone == \A v \in Vehicles : vehicle[v] = Gone => vehicle'[v] = Gone
\* No request begins that writes alerts.
NoNewWriter == \A w \in Workers : req'[w] = req[w] \/ req'[w].op \notin WriterOps

\* A step that writes no alert, but may drop those of vehicles that go.
LEMMA AlertsFewer ==
  ASSUME AlertInv, Shapes', GoneStaysGone, NoNewWriter, raced' = raced, unseen' \subseteq unseen,
         Rows(alert') \subseteq Rows(alert),
         \A a \in Rows(alert') : alert'[a] = alert[a],
         \A a \in Rows(alert) \ Rows(alert') : \A v \in Vehicles : alert[a].veh = v => vehicle'[v] = Gone
  PROVE  AlertInv'
<1> USE DEF AlertInv
<1>1. \A w \in Workers : \A op \in WriterOps : Serves(w, op)' => Serves(w, op) /\ req'[w] = req[w]
  BY DEF NoNewWriter, Serves, WriterOps
<1>2. OneWriter' BY <1>1 DEF OneWriter
<1>3. ScanFresh' BY <1>1 DEF ScanFresh, New, SameCall, WriterOps, Rows
<1>4. RaiseKnows'
  <2> SUFFICES ASSUME ~raced, NEW w \in Workers, Serves(w, "raise")' PROVE Knows(req[w])'
    BY DEF RaiseKnows
  <2>1. req'[w] = req[w] /\ Knows(req[w]) BY <1>1 DEF RaiseKnows, WriterOps
  <2>2. ASSUME vehicle'[req[w].key.veh] # Gone
        PROVE  Unread(req[w].key.veh, req[w].key.type)' = Unread(req[w].key.veh, req[w].key.type)
    <3>1. \A a \in Rows(alert) : alert[a].veh = req[w].key.veh => a \in Rows(alert')
      BY <2>1, <2>2 DEF Knows
    <3> DEFINE k == req[w].key
    <3>2. {a \in Rows(alert') : alert'[a].veh = k.veh /\ alert'[a].type = k.type /\ ~alert'[a].read}
            = {a \in Rows(alert) : alert[a].veh = k.veh /\ alert[a].type = k.type /\ ~alert[a].read}
      BY <3>1
    <3> QED BY <2>1, <3>2 DEF Unread, Rows
  <2>3. vehicle'[req[w].key.veh] # Gone => vehicle[req[w].key.veh] # Gone
    BY <2>1 DEF Knows, GoneStaysGone
  <2> QED BY <2>1, <2>2, <2>3 DEF Knows
<1>5. AlertedOnce' BY DEF AlertedOnce, SameType, SameCall, Rows
<1>6. ReadIsSeen' BY DEF ReadIsSeen, Rows
<1> QED BY <1>2, <1>3, <1>4, <1>5, <1>6

\* What AlertsDropped does.
LEMMA DroppedFacts ==
  ASSUME Shapes, NEW v, AlertsDropped(v)
  PROVE  /\ alert' = [a \in Alerts |-> alert'[a]]
         /\ Rows(alert') \subseteq Rows(alert) /\ unseen' \subseteq unseen
         /\ \A a \in Rows(alert') : alert'[a] = alert[a]
         /\ \A a \in Rows(alert) \ Rows(alert') : alert[a].veh = v
<1>1. alert' = [a \in Alerts |->
                  IF a \in Rows(alert) /\ alert[a].veh = v THEN Absent ELSE alert[a]]
  BY DEF AlertsDropped
<1>2. DOMAIN alert = Alerts /\ DOMAIN alert' = Alerts BY <1>1 DEF Shapes
<1>3. \A a \in Rows(alert') : a \in Rows(alert) /\ alert'[a] = alert[a] BY <1>1, <1>2 DEF Rows
<1>4. \A a \in Rows(alert) \ Rows(alert') : alert[a].veh = v BY <1>1, <1>2 DEF Rows
<1> QED BY <1>1, <1>3, <1>4 DEF AlertsDropped

TicketShape == ticket = [t \in Tickets |-> ticket[t]] /\ \A t \in Rows(ticket) : IsTicket(ticket[t])

LEMMA OneTicket ==
  ASSUME TicketShape, NEW t \in Tickets, NEW row, row \in {Gone} \/ IsTicket(row),
         ticket' = [ticket EXCEPT ![t] = row]
  PROVE  TicketShape'
<1>1. DOMAIN ticket = Tickets /\ DOMAIN ticket' = Tickets /\ ticket' = [x \in Tickets |-> ticket'[x]]
  BY DEF TicketShape
<1>2. ticket'[t] = row /\ \A x \in Tickets \ {t} : ticket'[x] = ticket[x] BY <1>1
<1>3. \A x \in Rows(ticket') : IsTicket(ticket'[x])
  <2> SUFFICES ASSUME NEW x \in Rows(ticket') PROVE IsTicket(ticket'[x]) OBVIOUS
  <2>1. x \in Tickets /\ ticket'[x] \notin {Absent, Gone} BY <1>1 DEF Rows
  <2>2. CASE x = t BY <1>2, <2>1, <2>2
  <2>3. CASE x # t
    <3>1. x \in Rows(ticket) /\ ticket'[x] = ticket[x] BY <1>1, <1>2, <2>1, <2>3 DEF Rows
    <3> QED BY <3>1 DEF TicketShape
  <2> QED BY <2>2, <2>3
<1> QED BY <1>1, <1>3 DEF TicketShape, Rows

LEMMA AlertsSame ==
  ASSUME AlertInv, TicketShape', GoneStaysGone, NoNewWriter, UNCHANGED <<alert, raced, unseen>>
  PROVE  AlertInv'
<1>1. Shapes' BY DEF AlertInv, Shapes, TicketShape, Rows
<1> QED BY <1>1, AlertsFewer

\* Setting a vehicle's row does not bring one back that is gone.
LEMMA OneVehicle ==
  ASSUME HistoryInv, NEW v, vehicle[v] # Gone, NEW row, vehicle' = [vehicle EXCEPT ![v] = row]
  PROVE  GoneStaysGone
BY DEF GoneStaysGone, HistoryInv

LEMMA AlertsByOtherSteps ==
  ASSUME HistoryInv, AlertInv,
         \/ NextDay \/ create_client \/ create_vehicle \/ update_client \/ update_vehicle
         \/ delete_maintenance \/ UNCHANGED vars
  PROVE  AlertInv'
<1>1. UNCHANGED <<alert, raced, unseen, req>>
  BY DEF NextDay, create_client, create_vehicle, update_client, update_vehicle,
         delete_maintenance, vars
<1>2. NoNewWriter BY <1>1 DEF NoNewWriter
<1>3. TicketShape BY DEF AlertInv, Shapes, TicketShape
<1>4. TicketShape'
  <2>1. CASE delete_maintenance
    <3>1. PICK t \in Rows(ticket) : ticket' = [ticket EXCEPT ![t] = Gone] BY <2>1 DEF delete_maintenance
    <3>2. t \in Tickets BY <1>3 DEF TicketShape, Rows
    <3> QED BY <1>3, <3>1, <3>2, OneTicket
  <2>2. CASE UNCHANGED ticket BY <1>3, <2>2 DEF TicketShape, Rows
  <2> QED BY <2>1, <2>2 DEF NextDay, create_client, create_vehicle, update_client, update_vehicle,
                            delete_maintenance, vars, tables
<1>5. GoneStaysGone
  <2>1. CASE UNCHANGED vehicle BY <2>1 DEF GoneStaysGone
  <2>2. CASE create_vehicle
    BY <2>2, MarksAreNoRows, OneVehicle DEF create_vehicle
  <2>3. CASE update_vehicle
    <3>1. PICK v \in Rows(vehicle), d \in 0 .. LastDay : vehicle' = [vehicle EXCEPT ![v].expiry = d]
      BY <2>3 DEF update_vehicle
    <3> DEFINE row == [vehicle[v] EXCEPT !.expiry = d]
    <3>2. vehicle' = [vehicle EXCEPT ![v] = row] BY <3>1
    <3> HIDE DEF row
    <3> QED BY <3>2, OneVehicle DEF Rows
  <2> QED BY <2>1, <2>2, <2>3 DEF NextDay, create_client, update_client, delete_maintenance, vars, tables
<1> QED BY <1>1, <1>2, <1>4, <1>5, AlertsSame

LEMMA AlertsByPushDelete == ASSUME HistoryInv, AlertInv, PushVehicleDelete PROVE AlertInv'
<1>1. PICK v \in Rows(vehicle) :
        /\ vehicle' = [vehicle EXCEPT ![v] = Gone]
        /\ ticket' = [t \in Tickets |-> IF t \in TicketsOf(v) THEN Gone ELSE ticket[t]]
        /\ AlertsDropped(v)
  BY DEF PushVehicleDelete
<1>2. UNCHANGED <<raced, req>> BY DEF PushVehicleDelete
<1>3. Shapes /\ DOMAIN vehicle = Vehicles BY DEF AlertInv, HistoryInv
<1>4. vehicle'[v] = Gone /\ GoneStaysGone BY <1>1, <1>3 DEF Rows, GoneStaysGone
<1>5. Shapes'
  <2>1. \A t \in Rows(ticket') : t \in Rows(ticket) /\ ticket'[t] = ticket[t]
    BY <1>1, <1>3 DEF Rows, Shapes
  <2>2. \A t \in Rows(ticket') : IsTicket(ticket'[t]) BY <1>3, <2>1 DEF Shapes
  <2>3. ticket' = [t \in Tickets |-> ticket'[t]] BY <1>1
  <2>4. /\ alert' = [a \in Alerts |-> alert'[a]]
        /\ \A a \in Rows(alert') : a \in Rows(alert) /\ alert'[a] = alert[a]
    BY <1>1, <1>3, DroppedFacts
  <2>5. \A a \in Rows(alert') : IsAlert(alert'[a]) BY <1>3, <2>4 DEF Shapes
  <2> QED BY <2>2, <2>3, <2>4, <2>5 DEF Shapes, Rows
<1>6. NoNewWriter BY <1>2 DEF NoNewWriter
<1>7. /\ Rows(alert') \subseteq Rows(alert) /\ unseen' \subseteq unseen
      /\ \A a \in Rows(alert') : alert'[a] = alert[a]
      /\ \A a \in Rows(alert) \ Rows(alert') : alert[a].veh = v
  BY <1>1, <1>3, DroppedFacts
<1>8. \A a \in Rows(alert) \ Rows(alert') : \A x \in Vehicles : alert[a].veh = x => vehicle'[x] = Gone
  BY <1>4, <1>7
<1> QED BY <1>2, <1>4, <1>5, <1>6, <1>7, <1>8, AlertsFewer

LEMMA AlertsByDeletes ==
  ASSUME HistoryInv, AlertInv, NEW w \in Workers,
         \/ delete_client(w) \/ delete_vehicle(w) \/ Fails(w)
         \/ CommitClientDelete(w) \/ CommitVehicleDelete(w)
  PROVE  AlertInv'
<1>1. UNCHANGED <<raced, ticket>>
  BY DEF delete_client, delete_vehicle, Fails, CommitClientDelete, CommitVehicleDelete, tables
<1>2. NoNewWriter
  <2>1. CASE delete_client(w)
    <3>1. PICK c : Becomes(w, [Request("delete_client", c) EXCEPT !.found = count_reservations(c),
                                                                  !.existed = Rows(rental)])
      BY <2>1 DEF delete_client
    <3> DEFINE q == [Request("delete_client", c) EXCEPT !.found = count_reservations(c),
                                                        !.existed = Rows(rental)]
    <3>2. q.op = "delete_client" BY DEF Request, NoRequest
    <3>3. Becomes(w, q) BY <3>1
    <3> HIDE DEF q
    <3> QED BY <3>2, <3>3, OnlyOne DEF NoNewWriter, WriterOps
  <2>2. CASE delete_vehicle(w)
    <3>1. PICK v : Becomes(w, [Request("delete_vehicle", v) EXCEPT !.found = References(v)])
      BY <2>2 DEF delete_vehicle
    <3> DEFINE q == [Request("delete_vehicle", v) EXCEPT !.found = References(v)]
    <3>2. q.op = "delete_vehicle" BY DEF Request, NoRequest
    <3>3. Becomes(w, q) BY <3>1
    <3> HIDE DEF q
    <3> QED BY <3>2, <3>3, OnlyOne DEF NoNewWriter, WriterOps
  <2>3. CASE Ends(w)
    <3>1. NoRequest.op = "none" BY DEF NoRequest
    <3>2. Becomes(w, NoRequest) BY <2>3 DEF Ends
    <3> QED BY <3>1, <3>2, OnlyOne DEF NoNewWriter, WriterOps
  <2> QED BY <2>1, <2>2, <2>3 DEF Fails, CommitClientDelete, CommitVehicleDelete
<1>3. TicketShape' BY <1>1 DEF AlertInv, Shapes, TicketShape, Rows
<1>4. CASE UNCHANGED <<alert, unseen, vehicle>>
  <2>1. GoneStaysGone BY <1>4 DEF GoneStaysGone
  <2> QED BY <1>1, <1>2, <1>3, <1>4, <2>1, AlertsSame
<1>5. CASE CommitVehicleDelete(w)
  <2> DEFINE v == req[w].key
  <2>1. v \in Rows(vehicle) /\ v \in Vehicles /\ DOMAIN vehicle = Vehicles
    BY <1>5 DEF CommitVehicleDelete, Rows, HistoryInv
  <2>2. CASE vehicle' = [vehicle EXCEPT ![v].status = "INACTIVE"] /\ UNCHANGED <<alert, unseen>>
    <3> DEFINE row == [vehicle[v] EXCEPT !.status = "INACTIVE"]
    <3>1. vehicle' = [vehicle EXCEPT ![v] = row] BY <2>2
    <3> HIDE DEF row
    <3>2. GoneStaysGone BY <2>1, <3>1, OneVehicle DEF Rows
    <3> QED BY <1>1, <1>2, <1>3, <2>2, <3>2, AlertsSame
  <2>3. CASE VehicleDeleted(v)
    <3>1. vehicle' = [vehicle EXCEPT ![v] = Gone] /\ AlertsDropped(v) /\ Shapes
      BY <2>3 DEF VehicleDeleted, AlertInv
    <3>2. vehicle'[v] = Gone /\ GoneStaysGone BY <2>1, <3>1 DEF GoneStaysGone
    <3>3. /\ alert' = [a \in Alerts |-> alert'[a]]
          /\ Rows(alert') \subseteq Rows(alert) /\ unseen' \subseteq unseen
          /\ \A a \in Rows(alert') : alert'[a] = alert[a]
          /\ \A a \in Rows(alert) \ Rows(alert') : alert[a].veh = v
      BY <3>1, DroppedFacts
    <3>4. \A a \in Rows(alert') : IsAlert(alert'[a]) BY <3>1, <3>3 DEF Shapes
    <3>5. Shapes' BY <1>3, <3>3, <3>4 DEF Shapes, TicketShape, Rows
    <3>6. \A a \in Rows(alert) \ Rows(alert') : \A x \in Vehicles : alert[a].veh = x => vehicle'[x] = Gone
      BY <3>2, <3>3
    <3> QED BY <1>1, <1>2, <3>2, <3>3, <3>5, <3>6, AlertsFewer
  <2> QED BY <1>5, <2>2, <2>3 DEF CommitVehicleDelete
<1> QED BY <1>4, <1>5 DEF delete_client, delete_vehicle, Fails, CommitClientDelete, tables

\* Readers: what is marked is seen.
LEMMA AlertsByReading ==
  ASSUME HistoryInv, AlertInv, NEW as, as \subseteq Rows(alert), MarkRead(as)
  PROVE  AlertInv'
<1> USE DEF AlertInv
<1>1. /\ alert' = [a \in Alerts |-> IF a \in as THEN [alert[a] EXCEPT !.read = TRUE] ELSE alert[a]]
      /\ unseen' = unseen \ as /\ raced' = (raced \/ Writing("raise"))
      /\ UNCHANGED <<tables, req>>
  BY DEF MarkRead
<1>2. Shapes /\ DOMAIN alert = Alerts /\ DOMAIN alert' = Alerts BY <1>1 DEF Shapes
<1>3. ASSUME NEW a \in Rows(alert')
      PROVE  /\ a \in Rows(alert) /\ IsAlert(alert'[a])
             /\ alert'[a].veh = alert[a].veh /\ alert'[a].type = alert[a].type
             /\ alert'[a].due = alert[a].due /\ alert'[a].severity = alert[a].severity
             /\ alert'[a].read <=> a \in as \/ alert[a].read
  <2>1. a \in Alerts /\ a \in Rows(alert) BY <1>1, <1>2 DEF Rows
  <2>2. IsAlert(alert[a]) BY <1>2, <2>1 DEF Shapes
  <2>3. CASE a \in as
    <3>1. alert'[a] = [alert[a] EXCEPT !.read = TRUE] BY <1>1, <2>1, <2>3
    <3> QED BY <2>1, <2>2, <2>3, <3>1 DEF IsAlert
  <2>4. CASE a \notin as
    <3>1. alert'[a] = alert[a] BY <1>1, <2>1, <2>4
    <3> QED BY <2>1, <2>2, <2>4, <3>1
  <2> QED BY <2>3, <2>4
<1>4. Shapes'
  <2>1. alert' = [a \in Alerts |-> alert'[a]] BY <1>1
  <2>2. \A a \in Rows(alert') : IsAlert(alert'[a]) BY <1>3
  <2>3. ticket' = ticket BY <1>1 DEF tables
  <2>4. Rows(alert)' = Rows(alert') /\ Rows(ticket)' = Rows(ticket) BY <2>3 DEF Rows
  <2> QED BY <1>2, <2>1, <2>2, <2>3, <2>4 DEF Shapes
<1>5. OneWriter' BY <1>1 DEF OneWriter, Serves
<1>6. ScanFresh'
  <2> SUFFICES ASSUME ~raced', NEW w \in Workers, Serves(w, "scan")', NEW n \in req'[w].found
               PROVE  New(n)'
    BY DEF ScanFresh
  <2>1. New(n) BY <1>1 DEF ScanFresh, Serves
  <2>2. \A a \in Rows(alert') : ~SameCall(alert'[a], n) BY <1>3, <2>1 DEF New, SameCall
  <2>3. Rows(alert)' = Rows(alert') BY DEF Rows
  <2> QED BY <2>1, <2>2, <2>3 DEF New
<1>7. RaiseKnows' BY <1>1 DEF RaiseKnows, Writing, Serves
<1>8. AlertedOnce'
  <2> SUFFICES ASSUME ~raced', NEW a \in Rows(alert'), NEW b \in Rows(alert'), a # b
               PROVE  IF alert'[a].type \notin ScanTypes
                      THEN ~SameType(alert'[a], alert'[b]) \/ alert'[a].read \/ alert'[b].read
                      ELSE ~SameCall(alert'[a], alert'[b])
    BY DEF AlertedOnce, Rows
  <2>1. IF alert[a].type \notin ScanTypes
        THEN ~SameType(alert[a], alert[b]) \/ alert[a].read \/ alert[b].read
        ELSE ~SameCall(alert[a], alert[b])
    BY <1>1, <1>3 DEF AlertedOnce
  <2> QED BY <1>3, <2>1 DEF SameType, SameCall
<1>9. ReadIsSeen' BY <1>1, <1>3 DEF ReadIsSeen, Rows
<1> QED BY <1>4, <1>5, <1>6, <1>7, <1>8, <1>9

\* New rows have keys of their own; the others stay.
LEMMA InsertedFacts ==
  ASSUME Shapes, NEW rows, KeysFor(rows), alert' = Inserted(rows)
  PROVE  /\ alert' = [a \in Alerts |-> alert'[a]]
         /\ \A a \in Rows(alert) : a \in Rows(alert') /\ alert'[a] = alert[a]
         /\ \A a \in Rows(alert') : a \in Alerts
         /\ \A a \in Alerts \ Rows(alert) : alert'[a] \in rows \/ a \notin Rows(alert')
         /\ \A a, b \in Rows(alert') \ Rows(alert) : alert'[a] = alert'[b] => a = b
         /\ \A a \in Alerts : alert'[a] # alert[a] => a \notin Rows(alert) /\ alert'[a] \in rows
<1> DEFINE f == CHOOSE g \in [rows -> Alerts \ Rows(alert)] : OneEach(g, rows)
<1>1. f \in [rows -> Alerts \ Rows(alert)] /\ OneEach(f, rows) BY DEF KeysFor
<1>2. alert' = [a \in Alerts |-> IF \E n \in rows : f[n] = a
                                 THEN CHOOSE n \in rows : f[n] = a ELSE alert[a]]
  BY DEF Inserted
<1> HIDE DEF f
<1>3. ASSUME NEW a \in Alerts
      PROVE  \/ alert'[a] \in rows /\ f[alert'[a]] = a /\ a \notin Rows(alert)
             \/ alert'[a] = alert[a]
  BY <1>1, <1>2
<1>4. DOMAIN alert = Alerts /\ DOMAIN alert' = Alerts BY <1>2 DEF Shapes
<1>5. \A a \in Rows(alert) : a \in Alerts /\ alert'[a] = alert[a]
  <2>1. \A n \in rows : f[n] \notin Rows(alert) BY <1>1
  <2> QED BY <1>2, <1>4, <2>1 DEF Rows
<1>6. \A a \in Rows(alert) : a \in Rows(alert') BY <1>4, <1>5 DEF Rows
<1>7. \A a \in Rows(alert') : a \in Alerts BY <1>4 DEF Rows
<1>8. \A a \in Alerts \ Rows(alert) : alert'[a] \in rows \/ a \notin Rows(alert')
  BY <1>3, <1>4 DEF Rows
<1>9. \A a, b \in Rows(alert') \ Rows(alert) : alert'[a] = alert'[b] => a = b
  BY <1>3, <1>4 DEF Rows
<1>10. alert' = [a \in Alerts |-> alert'[a]] BY <1>2
<1> QED BY <1>3, <1>5, <1>6, <1>7, <1>8, <1>9, <1>10

\* What a scan found is new, and each of it is something else.
LEMMA AlertsByCommitScan ==
  ASSUME ~raced, HistoryInv, AlertInv, NEW w \in Workers, CommitScan(w) PROVE AlertInv'
<1> USE DEF AlertInv
<1> DEFINE rows == req[w].found
<1>1. /\ Serves(w, "scan") /\ Ends(w) /\ KeysFor(rows) /\ alert' = Inserted(rows)
      /\ unseen' = unseen \cup {a \in Alerts : alert'[a] # alert[a]}
      /\ UNCHANGED <<vehicle, ticket, raced>>
  BY DEF CommitScan, tables
<1> HIDE DEF rows
<1>2. /\ alert' = [a \in Alerts |-> alert'[a]]
      /\ \A a \in Rows(alert) : a \in Rows(alert') /\ alert'[a] = alert[a]
      /\ \A a \in Rows(alert') : a \in Alerts
      /\ \A a \in Alerts \ Rows(alert) : alert'[a] \in rows \/ a \notin Rows(alert')
      /\ \A a, b \in Rows(alert') \ Rows(alert) : alert'[a] = alert'[b] => a = b
      /\ \A a \in Alerts : alert'[a] # alert[a] => a \notin Rows(alert) /\ alert'[a] \in rows
  BY <1>1, InsertedFacts
<1>3. /\ \A x \in Workers \ {w} : req'[x] = req[x] /\ (Serves(x, "scan")' <=> Serves(x, "scan"))
      /\ \A op \in WriterOps : ~Serves(w, op)'
  <2>1. NoRequest.op = "none" BY DEF NoRequest
  <2>2. Becomes(w, NoRequest) BY <1>1 DEF Ends
  <2> QED BY <2>1, <2>2, OnlyOne DEF Serves, WriterOps
<1>4. OneWriter' BY <1>1, <1>3 DEF OneWriter, Serves
<1>5. ScanFresh' BY <1>1, <1>3 DEF ScanFresh, OneWriter, WriterOps
<1>6. ~raced => \A n \in rows : New(n) BY <1>1 DEF ScanFresh, rows
<1>7. Rows(alert)' = Rows(alert') /\ Rows(ticket)' = Rows(ticket) BY <1>1 DEF Rows
<1>8. \A a \in Rows(alert') : IsAlert(alert'[a]) BY <1>2, <1>6 DEF Shapes, New
<1>9. Shapes' BY <1>1, <1>2, <1>7, <1>8 DEF Shapes
<1>10. RaiseKnows'
  <2> SUFFICES ASSUME NEW x \in Workers, Serves(x, "raise")' PROVE Knows(req[x])'
    BY DEF RaiseKnows
  <2>1. x # w /\ req'[x] = req[x] /\ Knows(req[x]) BY <1>3 DEF RaiseKnows, Serves, WriterOps
  <2> DEFINE k == req[x].key
  <2>2. \A a \in Rows(alert') \ Rows(alert) : alert'[a].type # k.type
    BY <1>2, <1>6, <2>1 DEF New, Knows
  <2>3. {a \in Rows(alert') : alert'[a].veh = k.veh /\ alert'[a].type = k.type /\ ~alert'[a].read}
          = {a \in Rows(alert) : alert[a].veh = k.veh /\ alert[a].type = k.type /\ ~alert[a].read}
    BY <1>2, <2>2
  <2> QED BY <1>1, <1>7, <2>1, <2>3 DEF Knows, Unread
<1>11. AlertedOnce'
  <2> SUFFICES ASSUME NEW a \in Rows(alert'), NEW b \in Rows(alert'), a # b
               PROVE  IF alert'[a].type \notin ScanTypes
                      THEN ~SameType(alert'[a], alert'[b]) \/ alert'[a].read \/ alert'[b].read
                      ELSE ~SameCall(alert'[a], alert'[b])
    BY <1>7 DEF AlertedOnce
  <2>1. CASE a \in Rows(alert) /\ b \in Rows(alert) BY <1>2, <2>1 DEF AlertedOnce
  <2>2. CASE a \in Rows(alert) /\ b \notin Rows(alert)
    <3>1. New(alert'[b]) /\ alert'[a] = alert[a] BY <1>2, <1>6, <2>2
    <3> QED BY <2>2, <3>1 DEF New, SameType, SameCall
  <2>3. CASE a \notin Rows(alert) /\ b \in Rows(alert)
    <3>1. New(alert'[a]) /\ alert'[b] = alert[b] BY <1>2, <1>6, <2>3
    <3> QED BY <2>3, <3>1 DEF New, SameType, SameCall
  <2>4. CASE a \notin Rows(alert) /\ b \notin Rows(alert)
    <3>1. New(alert'[a]) /\ New(alert'[b]) /\ alert'[a] # alert'[b] BY <1>2, <1>6, <2>4
    <3> QED BY <3>1 DEF New, IsAlert, SameCall
  <2> QED BY <2>1, <2>2, <2>3, <2>4
<1>12. ReadIsSeen' BY <1>1, <1>2, <1>6, <1>7 DEF ReadIsSeen, New
<1> QED BY <1>4, <1>5, <1>9, <1>10, <1>11, <1>12

\* What a request raised was looked up by it alone: it writes that alert again, or the
\* only unread one of its type.
LEMMA AlertsByCommitRaise ==
  ASSUME ~raced, HistoryInv, AlertInv, NEW w \in Workers, CommitRaise(w) PROVE AlertInv'
<1> USE DEF AlertInv
<1> DEFINE k == req[w].key
<1>1. /\ Serves(w, "raise") /\ Ends(w) /\ create_notification(w) /\ k.veh \in Rows(vehicle)
      /\ UNCHANGED <<vehicle, ticket, raced>>
  BY DEF CommitRaise, create_notification
<1>2. k.type \notin ScanTypes /\ req[w].found = Unread(k.veh, k.type)
  BY <1>1 DEF RaiseKnows, Knows, Rows
<1>3. /\ \A x \in Workers \ {w} : req'[x] = req[x]
      /\ \A op \in WriterOps : ~Serves(w, op)'
      /\ \A x \in Workers : ~Serves(x, "raise")'
  <2>1. NoRequest.op = "none" BY DEF NoRequest
  <2>2. Becomes(w, NoRequest) BY <1>1 DEF Ends
  <2>3. req'[w].op = "none" /\ \A x \in Workers \ {w} : req'[x] = req[x] BY <2>1, <2>2, OnlyOne
  <2>4. \A x \in Workers \ {w} : ~Serves(x, "raise") BY <1>1 DEF OneWriter, WriterOps
  <2> QED BY <2>3, <2>4 DEF Serves, WriterOps
<1>4. OneWriter' BY <1>1, <1>3 DEF OneWriter, Serves
<1>5. RaiseKnows' BY <1>3 DEF RaiseKnows
<1>6. ASSUME NEW x \in Workers, Serves(x, "scan")'
      PROVE  Serves(x, "scan") /\ req'[x] = req[x]
  BY <1>3, <1>6 DEF Serves, WriterOps
<1>7. Rows(alert)' = Rows(alert') /\ Rows(ticket)' = Rows(ticket) BY <1>1 DEF Rows
\* What is known of every row after the step.
<1>8. /\ alert' = [a \in Alerts |-> alert'[a]]
      /\ \A a \in Rows(alert') :
           /\ IsAlert(alert'[a])
           /\ \/ a \in Rows(alert) /\ alert'[a] = alert[a]
              \/ alert'[a].veh = k.veh /\ alert'[a].type = k.type /\ ~alert'[a].read
      /\ \A a, b \in Rows(alert') :
           a # b /\ alert'[b].veh = k.veh /\ alert'[b].type = k.type /\ ~alert'[b].read =>
             \/ ~(alert'[a].veh = k.veh /\ alert'[a].type = k.type) \/ alert'[a].read
      /\ \A a \in Rows(alert') : a \in unseen' => (a \in unseen /\ alert'[a] = alert[a]) \/ ~alert'[a].read
  <2>1. CASE \E a \in req[w].found : /\ a \in Rows(alert)
                                     /\ alert' = [alert EXCEPT ![a].due = today]
                                     /\ unseen' = unseen \cup {a}
    <3>1. PICK a \in Unread(k.veh, k.type) : /\ a \in Rows(alert)
                                             /\ alert' = [alert EXCEPT ![a].due = today]
                                             /\ unseen' = unseen \cup {a}
      BY <1>2, <2>1
    <3>2. DOMAIN alert = Alerts /\ DOMAIN alert' = Alerts /\ a \in Alerts /\ IsAlert(alert[a])
      BY <3>1 DEF Shapes, Rows
    <3>3. alert'[a] = [alert[a] EXCEPT !.due = today] /\ \A b \in Alerts \ {a} : alert'[b] = alert[b]
      BY <3>1, <3>2
    <3>4. alert[a].veh = k.veh /\ alert[a].type = k.type /\ ~alert[a].read BY <3>1 DEF Unread
    <3>5. IsAlert(alert'[a]) /\ alert'[a].veh = k.veh /\ alert'[a].type = k.type /\ ~alert'[a].read
      BY <3>2, <3>3, <3>4 DEF IsAlert
    <3>6. \A b \in Rows(alert') : b # a => b \in Rows(alert) /\ alert'[b] = alert[b]
      BY <3>2, <3>3 DEF Rows
    <3>7. alert' = [x \in Alerts |-> alert'[x]] BY <3>1, <3>2 DEF Shapes
    <3>8. ASSUME NEW b \in Rows(alert'), b # a, alert'[b].veh = k.veh, alert'[b].type = k.type
          PROVE  alert'[b].read
      <4>1. b \in Rows(alert) /\ alert'[b] = alert[b] BY <3>6, <3>8
      <4> QED BY <1>2, <3>1, <3>4, <3>8, <4>1 DEF AlertedOnce, SameType
    <3>9. \A b \in Rows(alert') : IsAlert(alert'[b]) BY <3>5, <3>6 DEF Shapes
    <3> QED BY <3>1, <3>5, <3>6, <3>7, <3>8, <3>9
  <2>2. CASE \E new : /\ \A n \in new : /\ IsAlert(n) /\ n.veh = k.veh /\ n.type = k.type /\ ~n.read
                                        /\ \A m \in new : m = n
                      /\ req[w].found = {} /\ KeysFor(new) /\ alert' = Inserted(new)
                      /\ unseen' = unseen \cup {a \in Alerts : alert'[a] # alert[a]}
    <3>1. PICK new : /\ \A n \in new : /\ IsAlert(n) /\ n.veh = k.veh /\ n.type = k.type /\ ~n.read
                                       /\ \A m \in new : m = n
                     /\ req[w].found = {} /\ KeysFor(new) /\ alert' = Inserted(new)
                     /\ unseen' = unseen \cup {a \in Alerts : alert'[a] # alert[a]}
      BY <2>2
    <3>2. /\ alert' = [a \in Alerts |-> alert'[a]]
          /\ \A a \in Rows(alert) : a \in Rows(alert') /\ alert'[a] = alert[a]
          /\ \A a \in Rows(alert') : a \in Alerts
          /\ \A a \in Alerts \ Rows(alert) : alert'[a] \in new \/ a \notin Rows(alert')
          /\ \A a, b \in Rows(alert') \ Rows(alert) : alert'[a] = alert'[b] => a = b
          /\ \A a \in Alerts : alert'[a] # alert[a] => a \notin Rows(alert) /\ alert'[a] \in new
      BY <3>1, InsertedFacts
    <3>3. \A a \in Rows(alert) : alert[a].veh = k.veh /\ alert[a].type = k.type => alert[a].read
      BY <1>2, <3>1 DEF Unread
    <3>4. \A a \in Rows(alert') : a \in Rows(alert) \/ alert'[a] \in new BY <3>2
    <3>5. \A a \in Rows(alert') : IsAlert(alert'[a]) BY <3>1, <3>2, <3>4 DEF Shapes
    <3>6. \A a, b \in Rows(alert') \ Rows(alert) : a = b BY <3>1, <3>2, <3>4
    <3>7. \A a \in Rows(alert') : a \in unseen' => (a \in unseen /\ alert'[a] = alert[a]) \/ ~alert'[a].read
      BY <3>1, <3>2
    <3>8. \A a \in Rows(alert') :
            \/ a \in Rows(alert) /\ alert'[a] = alert[a]
            \/ alert'[a].veh = k.veh /\ alert'[a].type = k.type /\ ~alert'[a].read
      BY <3>1, <3>2, <3>4
    <3>9. ASSUME NEW a \in Rows(alert'), NEW b \in Rows(alert'), a # b,
                 alert'[b].veh = k.veh, alert'[b].type = k.type, ~alert'[b].read,
                 alert'[a].veh = k.veh, alert'[a].type = k.type
          PROVE  alert'[a].read
      <4>1. b \notin Rows(alert) BY <3>2, <3>3, <3>9
      <4>2. a \in Rows(alert) BY <3>6, <3>9, <4>1
      <4> QED BY <3>2, <3>3, <3>9, <4>2
    <3> QED BY <3>2, <3>5, <3>7, <3>8, <3>9
  <2>3. LET n == [veh |-> k.veh, type |-> k.type, due |-> today, severity |-> "info", read |-> FALSE]
        IN  IsAlert(n) /\ n.veh = k.veh /\ n.type = k.type /\ ~n.read
    BY DEF IsAlert
  <2> DEFINE n == [veh |-> k.veh, type |-> k.type, due |-> today, severity |-> "info", read |-> FALSE]
  <2>4. IsAlert(n) /\ n.veh = k.veh /\ n.type = k.type /\ ~n.read BY <2>3
  <2>5. \/ \E a \in req[w].found : /\ a \in Rows(alert)
                                   /\ alert' = [alert EXCEPT ![a].due = today]
                                   /\ unseen' = unseen \cup {a}
        \/ /\ req[w].found = {} /\ KeysFor({n}) /\ alert' = Inserted({n})
           /\ unseen' = unseen \cup {a \in Alerts : alert'[a] # alert[a]}
    BY <1>1 DEF create_notification
  <2> HIDE DEF n
  <2> QED BY <2>1, <2>2, <2>4, <2>5
<1>9. Shapes' BY <1>1, <1>7, <1>8 DEF Shapes
<1>10. ScanFresh'
  <2> SUFFICES ASSUME NEW x \in Workers, Serves(x, "scan")', NEW n \in req'[x].found PROVE New(n)'
    BY DEF ScanFresh
  <2>1. New(n) BY <1>6 DEF ScanFresh
  <2>2. \A a \in Rows(alert') : ~SameCall(alert'[a], n) BY <1>2, <1>8, <2>1 DEF New, SameCall
  <2> QED BY <1>7, <2>1, <2>2 DEF New
<1>11. AlertedOnce'
  <2> SUFFICES ASSUME NEW a \in Rows(alert'), NEW b \in Rows(alert'), a # b
               PROVE  IF alert'[a].type \notin ScanTypes
                      THEN ~SameType(alert'[a], alert'[b]) \/ alert'[a].read \/ alert'[b].read
                      ELSE ~SameCall(alert'[a], alert'[b])
    BY <1>7 DEF AlertedOnce
  <2> DEFINE Written(x) == alert'[x].veh = k.veh /\ alert'[x].type = k.type /\ ~alert'[x].read
  <2>1. CASE Written(a) BY <1>2, <1>8, <2>1 DEF SameType
  <2>2. CASE Written(b) BY <1>2, <1>8, <2>2 DEF SameType, SameCall
  <2>3. CASE ~Written(a) /\ ~Written(b)
    <3>1. a \in Rows(alert) /\ alert'[a] = alert[a] /\ b \in Rows(alert) /\ alert'[b] = alert[b]
      BY <1>8, <2>3
    <3> QED BY <3>1 DEF AlertedOnce
  <2> QED BY <2>1, <2>2, <2>3
<1>12. ReadIsSeen'
  <2>1. \A a \in Rows(alert') : alert'[a].read => a \notin unseen'
    BY <1>8 DEF ReadIsSeen
  <2> QED BY <1>7, <2>1 DEF ReadIsSeen
<1> QED BY <1>4, <1>5, <1>9, <1>10, <1>11, <1>12

\* A scan begins: it has found what is missing, and no other scan is under way.
LEMMA AlertsByScanStart ==
  ASSUME ~raced', HistoryInv, AlertInv, NEW w \in Workers, scan_and_generate_notifications(w)
  PROVE  AlertInv'
<1> USE DEF AlertInv
<1>1. /\ raced' = (raced \/ Writing("scan"))
      /\ UNCHANGED <<vehicle, ticket, alert, unseen>>
  BY DEF scan_and_generate_notifications, tables
<1>2. ~raced /\ \A x \in Workers : ~Serves(x, "scan") BY <1>1 DEF Writing, Serves
<1>3. /\ \A x \in Workers \ {w} : req'[x] = req[x]
      /\ Serves(w, "scan")' /\ req'[w].found = Missing
  <2> DEFINE q == [Request("scan", Nothing) EXCEPT !.found = Missing]
  <2>1. Becomes(w, q) BY DEF scan_and_generate_notifications
  <2>2. q.op = "scan" /\ q.found = Missing BY DEF Request, NoRequest
  <2> HIDE DEF q
  <2> QED BY <2>1, <2>2, OnlyOne DEF Serves
<1>4. Shapes' BY <1>1 DEF Shapes, Rows
<1>5. OneWriter' BY <1>2, <1>3 DEF OneWriter, Serves, WriterOps
<1>6. ScanFresh'
  <2> SUFFICES ASSUME NEW x \in Workers, Serves(x, "scan")', NEW n \in req'[x].found PROVE New(n)'
    BY DEF ScanFresh
  <2>1. n \in Calls /\ \A a \in Rows(alert) : ~SameCall(alert[a], n)
    BY <1>2, <1>3 DEF Serves, Missing
  <2>2. \/ \E v, severity : n = DocAlert(v, severity)
        \/ \E t : n = TicketAlert(t)
    BY <2>1 DEF Calls
  <2>3. ASSUME NEW v, NEW severity
        PROVE  LET m == DocAlert(v, severity) IN IsAlert(m) /\ m.type \in ScanTypes /\ ~m.read
    BY DEF DocAlert, IsAlert, ScanTypes
  <2>4. ASSUME NEW t
        PROVE  LET m == TicketAlert(t) IN IsAlert(m) /\ m.type \in ScanTypes /\ ~m.read
    BY DEF TicketAlert, IsAlert, ScanTypes
  <2>5. IsAlert(n) /\ n.type \in ScanTypes /\ ~n.read BY <2>2, <2>3, <2>4
  <2> QED BY <1>1, <2>1, <2>5 DEF New, Rows
<1>7. RaiseKnows'
  <2>1. \A x \in Workers : Serves(x, "raise")' => Serves(x, "raise") /\ req'[x] = req[x]
    BY <1>3 DEF Serves
  <2> QED BY <1>1, <1>2, <2>1 DEF RaiseKnows, Knows, Unread, Rows
<1>8. AlertedOnce' /\ ReadIsSeen' BY <1>1, <1>2 DEF AlertedOnce, ReadIsSeen, Rows
<1> QED BY <1>4, <1>5, <1>6, <1>7, <1>8

\* A request that raises an alert begins: no other is under way.
LEMMA AlertsByRaise ==
  ASSUME ~raced', HistoryInv, AlertInv, NEW w \in Workers,
         NEW v \in Vehicles, NEW type, type \notin ScanTypes, NEW change,
         Raises(w, v, type, change), TicketShape', UNCHANGED <<vehicle, alert, unseen>>
  PROVE  AlertInv'
<1> USE DEF AlertInv
<1>1. ~raced /\ \A x \in Workers : ~Serves(x, "raise") BY DEF Raises, Writing, Serves
<1>2. /\ \A x \in Workers \ {w} : req'[x] = req[x]
      /\ Serves(w, "raise")' /\ req'[w].found = Unread(v, type)
      /\ req'[w].key = [veh |-> v, type |-> type]
  <2> DEFINE q == [Request("raise", [veh |-> v, type |-> type]) EXCEPT
                      !.found = Unread(v, type), !.change = change]
  <2>1. Becomes(w, q) BY DEF Raises
  <2>2. q.op = "raise" /\ q.found = Unread(v, type) /\ q.key = [veh |-> v, type |-> type]
    BY DEF Request, NoRequest
  <2> HIDE DEF q
  <2> QED BY <2>1, <2>2, OnlyOne DEF Serves
<1>3. Shapes' BY DEF Shapes, TicketShape, Rows
<1>4. OneWriter' BY <1>1, <1>2 DEF OneWriter, Serves, WriterOps
<1>5. ScanFresh'
  <2>1. \A x \in Workers : Serves(x, "scan")' => Serves(x, "scan") /\ req'[x] = req[x]
    BY <1>2 DEF Serves
  <2> QED BY <1>1, <2>1 DEF ScanFresh, New, Rows
<1>6. RaiseKnows'
  <2>1. \A x \in Workers : Serves(x, "raise")' => x = w BY <1>1, <1>2 DEF Serves
  <2>2. Unread(v, type)' = Unread(v, type) BY DEF Unread, Rows
  <2>3. Knows(req[w])' BY <1>2, <2>2 DEF Knows
  <2> QED BY <2>1, <2>3 DEF RaiseKnows
<1>7. AlertedOnce' /\ ReadIsSeen' BY <1>1 DEF AlertedOnce, ReadIsSeen, Rows
<1> QED BY <1>3, <1>4, <1>5, <1>6, <1>7

LEMMA AlertsByEdits ==
  ASSUME ~raced', HistoryInv, AlertInv, NEW w \in Workers, EditRental(w) \/ EditTicket(w)
  PROVE  AlertInv'
<1>1. TicketShape /\ DOMAIN vehicle = Vehicles BY DEF AlertInv, Shapes, TicketShape, HistoryInv
<1>2. UNCHANGED <<vehicle, alert, unseen>> BY DEF EditRental, EditTicket, tables
<1>3. \A r \in Rows(rental) : rental[r].veh \in Vehicles
  BY DEF HistoryInv, Rows, RentalRow
<1>4. \A v \in Rows(vehicle) : v \in Vehicles BY <1>1 DEF Rows
<1>5. CASE EditRental(w)
  <2>1. TicketShape' BY <1>1, <1>5 DEF EditRental, tables, TicketShape, Rows
  <2>2. PICK v, type, change :
          v \in Vehicles /\ type \notin ScanTypes /\ Raises(w, v, type, change)
    <3>1. ASSUME NEW from, NEW to, NEW type, Moves(w, from, to, type)
          PROVE  \E v, change : v \in Vehicles /\ Raises(w, v, type, change)
      BY <1>3, <3>1 DEF Moves
    <3>2. CASE create_rental(w) BY <1>4, <3>2 DEF create_rental, ScanTypes
    <3>3. CASE activate_rental(w) BY <3>1, <3>3 DEF activate_rental, ScanTypes
    <3>4. CASE cancel_rental(w) BY <3>1, <3>4 DEF cancel_rental, ScanTypes
    <3>5. CASE complete_rental(w) BY <3>1, <3>5 DEF complete_rental, ScanTypes
    <3>6. CASE update_vehicle_status(w) BY <1>4, <3>6 DEF update_vehicle_status, ScanTypes
    <3> QED BY <1>5, <3>2, <3>3, <3>4, <3>5, <3>6 DEF EditRental
  <2> QED BY <1>2, <2>1, <2>2, AlertsByRaise
<1>6. CASE EditTicket(w)
  <2>1. CASE create_maintenance(w)
    <3>1. PICK t \in Tickets, v \in Rows(vehicle) :
            /\ ticket' = [ticket EXCEPT ![t] = [veh |-> v, status |-> "ACTIVE", start |-> today]]
            /\ Raises(w, v, "MAINTENANCE_CREATED", Nothing)
      BY <2>1 DEF create_maintenance
    <3> DEFINE row == [veh |-> v, status |-> "ACTIVE", start |-> today]
    <3>2. IsTicket(row) BY <1>4 DEF IsTicket
    <3>3. ticket' = [ticket EXCEPT ![t] = row] BY <3>1
    <3> HIDE DEF row
    <3>4. TicketShape' BY <1>1, <3>2, <3>3, OneTicket
    <3>5. "MAINTENANCE_CREATED" \notin ScanTypes /\ v \in Vehicles BY <1>4 DEF ScanTypes
    <3> QED BY <1>2, <3>1, <3>4, <3>5, AlertsByRaise
  <2>2. CASE complete_maintenance(w)
    <3>1. PICK t \in Rows(ticket) :
            /\ ticket' = [ticket EXCEPT ![t].status = "COMPLETED"]
            /\ Raises(w, ticket[t].veh, "MAINTENANCE_COMPLETED", Nothing)
      BY <2>2 DEF complete_maintenance
    <3> DEFINE row == [ticket[t] EXCEPT !.status = "COMPLETED"]
    <3>2. t \in Tickets /\ IsTicket(ticket[t]) BY <1>1 DEF TicketShape, Rows
    <3>3. IsTicket(row) BY <3>2 DEF IsTicket
    <3>4. ticket' = [ticket EXCEPT ![t] = row] BY <3>1
    <3> HIDE DEF row
    <3>5. TicketShape' BY <1>1, <3>2, <3>3, <3>4, OneTicket
    <3>6. "MAINTENANCE_COMPLETED" \notin ScanTypes /\ ticket[t].veh \in Vehicles
      BY <3>2 DEF ScanTypes, IsTicket
    <3> QED BY <1>2, <3>1, <3>5, <3>6, AlertsByRaise
  <2> QED BY <1>6, <2>1, <2>2 DEF EditTicket
<1> QED BY <1>5, <1>6

LEMMA InitAlerts == Init => AlertInv
<1> SUFFICES ASSUME Init PROVE AlertInv OBVIOUS
<1>1. Rows(alert) = {} /\ Rows(ticket) = {} BY DEF Init, Rows
<1>2. \A w \in Workers : ~Serves(w, "scan") /\ ~Serves(w, "raise") BY DEF Init, Serves, NoRequest
<1>3. alert = [a \in Alerts |-> alert[a]] /\ ticket = [t \in Tickets |-> ticket[t]] BY DEF Init
<1> QED BY <1>1, <1>2, <1>3 DEF AlertInv, Shapes, OneWriter, WriterOps, ScanFresh, RaiseKnows,
                                AlertedOnce, ReadIsSeen

\* What holds as long as the requests that write alerts do not overlap.
UntilRaced == ~raced => AlertInv

LEMMA StepAlerts ==
  ASSUME HistoryInv, UntilRaced, [Next]_vars
  PROVE  UntilRaced'
<1> SUFFICES ASSUME ~raced' PROVE AlertInv' BY DEF UntilRaced
<1>1. ~raced
  <2>1. ASSUME NEW w \in Workers, NEW v, NEW type, NEW change, Raises(w, v, type, change)
        PROVE  ~raced
    BY <2>1 DEF Raises
  <2>2. CASE \E w \in Workers : EditRental(w) \/ EditTicket(w)
    BY <2>1, <2>2 DEF EditRental, create_rental, activate_rental, cancel_rental,
         complete_rental, update_vehicle_status, Moves, EditTicket, create_maintenance,
         complete_maintenance
  <2>3. CASE raced' = raced BY <2>3
  <2> QED BY <2>2, <2>3 DEF Next, vars, NextDay, create_client, create_vehicle, update_client,
         update_vehicle, PushVehicleDelete, delete_maintenance, mark_as_read, mark_all_read,
         MarkRead, Fails, Commits, CommitClientDelete, CommitVehicleDelete, CommitScan, CommitRaise,
         delete_client, delete_vehicle, scan_and_generate_notifications
<1>2. AlertInv BY <1>1 DEF UntilRaced
<1>3. CASE \/ NextDay \/ create_client \/ create_vehicle \/ update_client \/ update_vehicle
           \/ delete_maintenance \/ UNCHANGED vars
  BY <1>2, <1>3, AlertsByOtherSteps
<1>4. CASE PushVehicleDelete BY <1>2, <1>4, AlertsByPushDelete
<1>5. CASE mark_as_read \/ mark_all_read
  <2>1. PICK as : as \subseteq Rows(alert) /\ MarkRead(as)
    BY <1>5 DEF mark_as_read, mark_all_read, IsUnread
  <2> QED BY <1>2, <2>1, AlertsByReading
<1>6. ASSUME NEW w \in Workers,
             \/ delete_client(w) \/ delete_vehicle(w) \/ Fails(w)
             \/ CommitClientDelete(w) \/ CommitVehicleDelete(w)
      PROVE  AlertInv'
  BY <1>2, <1>6, AlertsByDeletes
<1>7. ASSUME NEW w \in Workers, CommitScan(w) PROVE AlertInv' BY <1>1, <1>2, <1>7, AlertsByCommitScan
<1>8. ASSUME NEW w \in Workers, CommitRaise(w) PROVE AlertInv' BY <1>1, <1>2, <1>8, AlertsByCommitRaise
<1>9. ASSUME NEW w \in Workers, scan_and_generate_notifications(w) PROVE AlertInv'
  BY <1>2, <1>9, AlertsByScanStart
<1>10. ASSUME NEW w \in Workers, EditRental(w) \/ EditTicket(w) PROVE AlertInv'
  BY <1>2, <1>10, AlertsByEdits
<1> QED BY <1>3, <1>4, <1>5, <1>6, <1>7, <1>8, <1>9, <1>10 DEF Next, Commits

\* Until two of them overlap, each request that writes alerts has looked up what is still
\* so when it writes, whatever else readers, edits and deletions did in between.
THEOREM AlertInvHolds == Spec => [](~raced => AlertInv)
<1>1. Init => UntilRaced BY InitAlerts DEF UntilRaced
<1>2. HistoryInv /\ UntilRaced /\ [Next]_vars => UntilRaced' BY StepAlerts
<1>3. UntilRaced <=> (~raced => AlertInv) BY DEF UntilRaced
<1> QED BY <1>1, <1>2, <1>3, HistoryInvariant, PTL DEF Spec

\* Nothing is announced twice: one alert for a document, its date and severity, one for
\* a ticket of a vehicle and its day, one unread alert for a kind of event of a vehicle.
THEOREM AlertedOnceHolds == Spec => []AlertedOnce
<1>1. (~raced => AlertInv) => AlertedOnce BY DEF AlertInv, AlertedOnce
<1> QED BY <1>1, AlertInvHolds, PTL

\* No event writes its news into an alert that is marked as read.
THEOREM ReadIsSeenHolds == Spec => []ReadIsSeen
<1>1. (~raced => AlertInv) => ReadIsSeen BY DEF AlertInv, ReadIsSeen
<1> QED BY <1>1, AlertInvHolds, PTL
=============================================================================
