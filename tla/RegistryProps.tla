---------------------------- MODULE RegistryProps ----------------------------
(* What the registry promises, stated over the module Registry. *)
EXTENDS Registry

RentalRow == [veh : Vehicles, client : Clients \cup {Nothing},
              status : {"RESERVED", "ACTIVE", "CANCELLED", "COMPLETED"}]

ASSUME MarksAreNoRows ==
  /\ Absent \notin RentalRow /\ Gone \notin RentalRow /\ Absent # Gone
  /\ Nothing \notin Clients

(***************************************************************************)
(* What the deletion of a client rests on: a rental that is about to be    *)
(* inserted has a key of its own that no row ever had, so the rentals that *)
(* were there when the client's were counted refer to the client only if   *)
(* they were counted.                                                      *)
(***************************************************************************)
Writes(w)  == req[w].change # Nothing
Inserts(w) == Writes(w) /\ req[w].change.from = Absent

HistoryInv ==
  /\ DOMAIN client = Clients /\ DOMAIN vehicle = Vehicles
  /\ rental \in [Rentals -> RentalRow \cup {Absent, Gone}]
  /\ req = [w \in Workers |-> req[w]]
  /\ \A w \in Workers :
       /\ Writes(w) =>
            req[w].op = "raise" /\ req[w].change.key \in Rentals /\ req[w].change.row \in RentalRow
       /\ Inserts(w) => rental[req[w].change.key] = Absent
       /\ \A x \in Workers \ {w} :
            Inserts(w) /\ Inserts(x) => req[w].change.key # req[x].change.key
       /\ req[w].existed \subseteq {r \in Rentals : rental[r] # Absent}
       /\ Serves(w, "delete_client") =>
            /\ req[w].key \in Clients
            /\ \A r \in req[w].existed \cap Rows(rental) :
                 rental[r].client = req[w].key => r \in req[w].found

\* Deleting through the API takes no rental and no ticket away, and takes its
\* client from no rental that was there when the rentals of the client were
\* counted.  (client_service.py:118-124: a client with history is deactivated.)
HistoryKept ==
  [][\A w \in Workers :
       req[w].op \in {"delete_client", "delete_vehicle"} /\ req'[w] # req[w] =>
         /\ Rows(rental)' = Rows(rental) /\ Rows(ticket)' = Rows(ticket)
         /\ \A r \in req[w].existed \cap Rows(rental) : rental'[r].client = rental[r].client]_vars

\* Nothing is announced twice: one alert for a document, its date and severity,
\* one for a step of a maintenance, and one unread alert for a kind of event of a
\* vehicle, as long as the requests that write such alerts do not overlap.
AlertedOnce ==
  ~raced => \A a, b \in Rows(alert) :
    a # b => IF alert[a].type \notin ScanTypes
             THEN ~SameType(alert[a], alert[b]) \/ alert[a].read \/ alert[b].read
             ELSE ~SameCall(alert[a], alert[b])

\* What is marked as read has been read: an event does not write its news into an
\* alert the operators have already dealt with.
ReadIsSeen == ~raced => \A a \in Rows(alert) : alert[a].read => a \notin unseen

\* Whatever calls for an alert gets one, also the next date of a renewed document
\* and the expiry of a document that was announced as a warning.
ExpiryAnnounced ==
  []<>(\A n \in Calls : \E a \in Rows(alert) : [alert[a] EXCEPT !.read = FALSE] = n)
=============================================================================
