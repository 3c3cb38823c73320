----------------------------- MODULE FleetStatus -----------------------------
(***************************************************************************)
(* "What state is this vehicle in right now": the derivation every screen  *)
(* shows, written three times in the code (the normative reference in      *)
(* shared/, the backend over SQL, the desktop over its local rows), and    *)
(* the instant at which the answer can next change.                        *)
(*                                                                         *)
(* A table is a function from primary keys to rows: vs gives a vehicle its *)
(* persisted status, rs and ms the reservation and maintenance rows.  An   *)
(* instant is a number; Null is SQL's.                                     *)
(***************************************************************************)
EXTENDS Integers, FiniteSets

CONSTANTS Null, FarFuture

ASSUME FarFutureIsInstant == FarFuture \in Int /\ Null \notin Int

STRUCTURAL_STATUSES           == {"SOLD", "INACTIVE"}
BLOCKING_RESERVATION_STATUSES == {"RESERVED", "ACTIVE"}
TERMINAL_MAINTENANCE_STATUSES == {"COMPLETED", "CANCELLED"}
Operational == {"AVAILABLE", "RESERVED", "RENTED", "MAINTENANCE"}

\* COALESCE(actual end, expected end, far future).
_maintenance_end(m) ==
  IF m.act # Null THEN m.act ELSE IF m.exp # Null THEN m.exp ELSE FarFuture

OpenTicket(m)       == m.status \notin TERMINAL_MAINTENANCE_STATUSES
BlockingRental(r)   == r.status \in BLOCKING_RESERVATION_STATUSES
Occupies(m, now)    == OpenTicket(m) /\ m.start <= now /\ now < _maintenance_end(m)
Out(r, now)         == BlockingRental(r) /\ r.start <= now /\ now < r.end
Upcoming(r, now)    == BlockingRental(r) /\ now < r.start

(***************************************************************************)
(* shared/fleet_status_reference.py: the sets exclude, while they are      *)
(* built, the vehicles a stronger status already took.                     *)
(***************************************************************************)
structural(vs) == {v \in DOMAIN vs : vs[v] \in STRUCTURAL_STATUSES}

RefMaintenance(vs, ms, now) ==
  {v \in DOMAIN vs \ structural(vs) :
     \E m \in DOMAIN ms : ms[m].veh = v /\ Occupies(ms[m], now)}

RefRented(vs, rs, ms, now) ==
  {v \in DOMAIN vs \ (structural(vs) \cup RefMaintenance(vs, ms, now)) :
     \E r \in DOMAIN rs : rs[r].veh = v /\ Out(rs[r], now)}

RefReserved(vs, rs, ms, now) ==
  {v \in DOMAIN vs \ (structural(vs) \cup RefMaintenance(vs, ms, now)) :
     \E r \in DOMAIN rs : rs[r].veh = v /\ Upcoming(rs[r], now)}
    \ RefRented(vs, rs, ms, now)

effective_statuses(vs, rs, ms, now) ==
  [v \in DOMAIN vs |->
     IF v \in structural(vs) THEN vs[v]
     ELSE IF v \in RefMaintenance(vs, ms, now) THEN "MAINTENANCE"
     ELSE IF v \in RefRented(vs, rs, ms, now) THEN "RENTED"
     ELSE IF v \in RefReserved(vs, rs, ms, now) THEN "RESERVED"
     ELSE "AVAILABLE"]

Bucket(eff, status) == Cardinality({v \in DOMAIN eff : eff[v] = status})
CountsOf(eff) ==
  [total_vehicles |-> Cardinality({v \in DOMAIN eff : eff[v] \in Operational}),
   available      |-> Bucket(eff, "AVAILABLE"),
   reserved       |-> Bucket(eff, "RESERVED"),
   rented         |-> Bucket(eff, "RENTED"),
   maintenance    |-> Bucket(eff, "MAINTENANCE")]

fleet_counts(vs, rs, ms, now) == CountsOf(effective_statuses(vs, rs, ms, now))

\* The instants after now at which a reservation or a ticket begins or ends.
Edges(rs, ms, now) ==
  {t \in (UNION {{rs[r].start, rs[r].end} : r \in {k \in DOMAIN rs : BlockingRental(rs[k])}})
         \cup (UNION {{ms[m].start, _maintenance_end(ms[m])} \ {FarFuture} :
                        m \in {k \in DOMAIN ms : OpenTicket(ms[k])}}) : t > now}

Earliest(S) == IF S = {} THEN Null ELSE CHOOSE t \in S : \A u \in S : t <= u
next_boundary(rs, ms, now) == Earliest(Edges(rs, ms, now))

(***************************************************************************)
(* backend/app/services/fleet_status.py: SQL selects by row status alone,  *)
(* for any vehicle; the precedence is applied at the end.                  *)
(***************************************************************************)
SqlMaintenance(ms, now) == {ms[m].veh : m \in {k \in DOMAIN ms : Occupies(ms[k], now)}}
SqlRented(rs, now)      == {rs[r].veh : r \in {k \in DOMAIN rs : Out(rs[k], now)}}
SqlReserved(rs, now)    ==
  {rs[r].veh : r \in {k \in DOMAIN rs : Upcoming(rs[k], now)}} \ SqlRented(rs, now)

compute_effective_statuses(vs, rs, ms, now) ==
  [v \in DOMAIN vs |->
     IF vs[v] \in STRUCTURAL_STATUSES THEN vs[v]
     ELSE IF v \in SqlMaintenance(ms, now) THEN "MAINTENANCE"
     ELSE IF v \in SqlRented(rs, now) THEN "RENTED"
     ELSE IF v \in SqlReserved(rs, now) THEN "RESERVED"
     ELSE "AVAILABLE"]

compute_fleet_counts(vs, rs, ms, now) ==
  CountsOf(compute_effective_statuses(vs, rs, ms, now))

(***************************************************************************)
(* desktop/app/utils/fleet_status.py: three disjoint sets; whatever is in  *)
(* none of them is counted available by subtraction.                       *)
(***************************************************************************)
\* Mutant: the orphan rows and the vehicles in maintenance are not left out.
FleetSetsUnfiltered(vs, rs, ms, now) ==
  [rented |-> SqlRented(rs, now), reserved |-> SqlReserved(rs, now),
   maintenance |-> SqlMaintenance(ms, now),
   total |-> Cardinality({v \in DOMAIN vs : vs[v] \notin STRUCTURAL_STATUSES})]

compute_fleet_sets_rows(vs, rs, ms, now) ==
  LET known == DOMAIN vs
      maint == {ms[m].veh : m \in {k \in DOMAIN ms :
                  /\ Occupies(ms[k], now)
                  /\ ms[k].veh \in known \ structural(vs)}}
      free(r) == rs[r].veh \in known \ (structural(vs) \cup maint)
      rented == {rs[r].veh : r \in {k \in DOMAIN rs : Out(rs[k], now) /\ free(k)}}
      reserved == {rs[r].veh : r \in {k \in DOMAIN rs : Upcoming(rs[k], now) /\ free(k)}}
  IN [rented |-> rented, reserved |-> reserved \ rented, maintenance |-> maint,
      total |-> Cardinality({v \in known : vs[v] \notin STRUCTURAL_STATUSES})]

AtLeastZero(n) == IF n < 0 THEN 0 ELSE n

compute_fleet_counts_rows(vs, rs, ms, now) ==
  LET s == compute_fleet_sets_rows(vs, rs, ms, now)
      out == Cardinality(s.rented)  booked == Cardinality(s.reserved)
      held == Cardinality(s.maintenance)
  IN [total_vehicles |-> s.total,
      available   |-> AtLeastZero(s.total - out - booked - held),
      reserved    |-> booked,
      rented      |-> out,
      maintenance |-> held]

effective_status(status, v, s) ==
  IF status \in STRUCTURAL_STATUSES THEN status
  ELSE IF v \in s.maintenance THEN "MAINTENANCE"
  ELSE IF v \in s.rented THEN "RENTED"
  ELSE IF v \in s.reserved THEN "RESERVED"
  ELSE "AVAILABLE"

effective_statuses_rows(vs, rs, ms, now) ==
  LET s == compute_fleet_sets_rows(vs, rs, ms, now)
  IN [v \in DOMAIN vs |-> effective_status(vs[v], v, s)]

\* The desktop also wakes at local midnight, when the period cards roll over.
next_boundary_rows(rs, ms, now, midnight) ==
  Earliest(Edges(rs, ms, now) \cup {midnight})

\* Rows of a vehicle that is not in the vehicle table are dropped on reading.
_rows_from_session(vs, t) ==
  [k \in {j \in DOMAIN t : t[j].veh \in DOMAIN vs} |-> t[k]]
=============================================================================
