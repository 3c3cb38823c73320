---------------------------- MODULE MCFleetBooking ----------------------------
(***************************************************************************)
(* Instances of FleetBooking for TLC: which requests the clients send.     *)
(***************************************************************************)
EXTENDS FleetBookingProps, TLC

Create(k, v, s, e) ==
  [op |-> "create_rental", key |-> k, veh |-> v, start |-> s, end |-> e]
Move(k, s, e)   == [op |-> "update_rental", key |-> k, start |-> s, end |-> e]
Do(name, k)     == [op |-> name, key |-> k]
Push(k, v, s, e) ==
  [op |-> "_process_reservation_create", key |-> k, veh |-> v, start |-> s, end |-> e,
   status |-> "RESERVED"]
PushStatus(k, st) == [op |-> "_process_reservation_update", key |-> k, status |-> st]
Ticket(m, v, s, e, c) ==
  [op |-> "create_maintenance", key |-> m, veh |-> v, start |-> s, exp |-> e,
   act |-> Null, status |-> "ACTIVE", confirm |-> c]
Patch(m, st, s, e, a, c) ==
  [op |-> "update_maintenance", key |-> m, start |-> s, exp |-> e, act |-> a, status |-> st,
   confirm |-> c]
PushTicket(m, v, s, e, st) ==
  [op |-> "_process_maintenance_create", key |-> m, veh |-> v, start |-> s, exp |-> e,
   status |-> st]
PushTicketChange(m, st, a) ==
  [op |-> "_process_maintenance_update", key |-> m, status |-> st, act |-> a]
Vehicle(name, v, st) == [op |-> name, key |-> v, status |-> st]

\* Two rentals that overlap or not, and a maintenance, from REST and from sync.
RaceRequests ==
  UNION {
    {Create(k, v, 0, 2), Move(k, 0, 1), Push(k, v, 1, 2), PushStatus(k, "RESERVED"),
     Do("cancel_rental", k), Do("complete_rental", k)} : k \in Rentals, v \in Vehicles}
  \cup UNION {
    {Ticket(m, v, 0, 1, TRUE), Do("complete_maintenance", m)} : m \in Tickets, v \in Vehicles}

\* Requests that lock a rental and its vehicle in either order.
LockRequests ==
  UNION {
    {Create(k, v, 0, 1), Push(k, v, 0, 1), Do("cancel_rental", k),
     Do("_process_maintenance_delete", m), Ticket(m, v, 0, 1, FALSE),
     PushTicketChange(m, "CANCELLED", Null),
     Vehicle("update_vehicle", v, "RENTED")} :
       k \in Rentals, m \in Tickets, v \in Vehicles}

\* Every handler.  Tickets are moved and given another end or none, open and closed.
EveryRequest ==
  UNION {
    {Create(k, v, 0, 2), Create(k, v, 0, 1), Push(k, v, 1, 2), Move(k, 0, 1), Move(k, 1, 2),
     Do("cancel_rental", k), Do("complete_rental", k), Do("activate_rental", k),
     PushStatus(k, "RESERVED")} : k \in Rentals, v \in Vehicles}
  \cup UNION {
    {Ticket(m, v, 1, 2, FALSE), PushTicket(m, v, 1, 2, "ACTIVE"),
     PushTicket(m, v, 1, 2, "SCHEDULED"), PushTicket(m, v, 0, Null, "ACTIVE"),
     Patch(m, "CANCELLED", 1, 2, Null, FALSE), Patch(m, "ACTIVE", 1, 2, Null, FALSE),
     Patch(m, "ACTIVE", 1, 2, Null, TRUE), Patch(m, "ACTIVE", 0, 2, Null, TRUE),
     Patch(m, "ACTIVE", 0, 2, 1, TRUE), Patch(m, "ACTIVE", 0, 1, 2, TRUE),
     PushTicketChange(m, "CANCELLED", Null), PushTicketChange(m, "IN_PROGRESS", Null),
     Do("complete_maintenance", m), Do("delete_maintenance", m),
     Do("_process_maintenance_delete", m)} : m \in Tickets, v \in Vehicles}
  \cup UNION {
    {Vehicle("update_vehicle", v, "RENTED"), Vehicle("_process_vehicle_update", v, "SOLD"),
     Vehicle("_process_vehicle_update", v, "AVAILABLE")} : v \in Vehicles}

Sym == Permutations(Rentals) \cup Permutations(Workers)
===============================================================================
