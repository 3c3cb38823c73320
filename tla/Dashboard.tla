------------------------------ MODULE Dashboard ------------------------------
(***************************************************************************)
(* Every number the dashboard shows, derived from one set of rows and one  *)
(* instant: the shared snapshot, which the backend feeds from PostgreSQL   *)
(* and the desktop from its local rows, the flat overview older clients    *)
(* read, and the overview the desktop computes on its own.                 *)
(***************************************************************************)
EXTENDS Revenue, SequencesExt

CONSTANTS
  TOP_VEHICLES_LIMIT,
  IdOrder   \* gives a vehicle the place of its identifier among all

ASSUME IdentifiersDiffer ==
  /\ TOP_VEHICLES_LIMIT \in Nat
  /\ \A u, v \in DOMAIN IdOrder : IdOrder[u] \in Int /\ (IdOrder[u] = IdOrder[v] => u = v)

Where(t, Test(_)) == {k \in DOMAIN t : Test(t[k])}
AllTime == [from |-> 0, to |-> FarFuture]

(***************************************************************************)
(* shared/dashboard_reference.py                                           *)
(***************************************************************************)
resolve_period(name, now, from, to) ==
  IF name = "custom" THEN custom_bounds(from, to) ELSE period_bounds(name, now)

\* A vehicle that is only booked for later is ready to rent now.
fleet_section(vs, rs, ms, now) ==
  LET eff == effective_statuses(vs, rs, ms, now)
      ready == Bucket(eff, "AVAILABLE") + Bucket(eff, "RESERVED")
  IN [total               |-> ready + Bucket(eff, "RENTED") + Bucket(eff, "MAINTENANCE"),
      ready_to_rent       |-> ready,
      active_rental       |-> Bucket(eff, "RENTED"),
      maintenance         |-> Bucket(eff, "MAINTENANCE"),
      excluded_structural |-> Bucket(eff, "SOLD") + Bucket(eff, "INACTIVE"),
      fleet_size          |-> Cardinality(DOMAIN vs)]

EndsToday(r, now) == business_date(r.end) = business_date(now)

reservations_today_section(rs, now) ==
  [starting_today |-> rentals_started_between(rs, period_bounds("today", now)),
   ending_today   |-> Cardinality(Where(rs, LAMBDA r : BlockingRental(r) /\ EndsToday(r, now))),
   in_progress    |-> Cardinality(Where(rs, LAMBDA r : Out(r, now)))]

\* Mutant: a ticket counts from the day it is written.
TicketsByStatus(ms, fleet, now) ==
  LET open == Where(ms, OpenTicket)
  IN [active_tickets |-> Cardinality(open), open_tickets |-> Cardinality(open),
      vehicles_in_maintenance    |-> Cardinality({ms[m].veh : m \in open}),
      fleet_maintenance_vehicles |-> fleet.maintenance]
maintenance_section(ms, fleet, now) ==
  LET active == Where(ms, LAMBDA m : Occupies(m, now))
  IN [active_tickets |-> Cardinality(active),
      open_tickets   |-> Cardinality(Where(ms, OpenTicket)),
      vehicles_in_maintenance    |-> Cardinality({ms[m].veh : m \in active}),
      fleet_maintenance_vehicles |-> fleet.maintenance]

\* Vehicles by number of rentals, then revenue, then identifier: the order of the
\* three rankings.
Before(e, u, v) ==
  \/ e[u].rental_count > e[v].rental_count
  \/ /\ e[u].rental_count = e[v].rental_count
     /\ \/ e[u].revenue > e[v].revenue
        \/ e[u].revenue = e[v].revenue /\ IdOrder[u] < IdOrder[v]
Place(e, v) == Cardinality({u \in DOMAIN e : Before(e, u, v)}) + 1
Ranked(e) == [i \in 1 .. Cardinality(DOMAIN e) |-> e[CHOOSE v \in DOMAIN e : Place(e, v) = i]]
FirstOnes(s, n) == SubSeq(s, 1, Least(n, Len(s)))

Vehicles(rs, ks) == {rs[k].veh : k \in ks}
RentalsOf(rs, ks, v) == {k \in ks : rs[k].veh = v}
DaysOf(rs, ks, now)   == MapThenSumSet(LAMBDA k : Realised(rs[k], now), ks)
EarnedBy(rs, ks, now) ==
  MapThenSumSet(LAMBDA k : reservation_period_revenue(rs[k], AllTime, now), ks)

top_vehicles_section(rs, now, limit) ==
  LET counted == Where(rs, LAMBDA r : is_revenue_eligible(r) /\ r.start <= now)
      of(v)   == RentalsOf(rs, counted, v)
  IN FirstOnes(Ranked([v \in Vehicles(rs, counted) |->
       [vehicle_id   |-> v,
        rental_count |-> Cardinality(of(v)),
        rental_days  |-> DaysOf(rs, of(v), now),
        revenue      |-> EarnedBy(rs, of(v), now)]]), limit)

_period_block(rs, name, now) ==
  LET p == period_bounds(name, now)
  IN [revenue     |-> revenue_between(rs, p, now),
      rentals     |-> rentals_started_between(rs, p),
      rental_days |-> rental_days_between(rs, p, now)]

\* The self-check every snapshot carries: no card contradicts another one.
validate(dto) ==
  LET v == dto.vehicles  top == dto.top_vehicles IN
  /\ \A n \in {v.total, v.ready_to_rent, v.active_rental, v.maintenance} : n >= 0
  /\ v.ready_to_rent + v.active_rental + v.maintenance = v.total
  /\ v.total + v.excluded_structural = v.fleet_size
  /\ dto.revenue.revenue >= 0 /\ dto.revenue.rental_days >= 0
  /\ \A i, j \in DOMAIN top : i < j => top[i].rental_count >= top[j].rental_count

build_snapshot(vs, rs, ms, p, now, limit) ==
  LET fleet == fleet_section(vs, rs, ms, now)
  IN [revenue |-> [revenue     |-> revenue_between(rs, p, now),
                   rentals     |-> rentals_started_between(rs, p),
                   rental_days |-> rental_days_between(rs, p, now)],
      periods |-> [name \in StandingPeriods |-> _period_block(rs, name, now)],
      reservations_today |-> reservations_today_section(rs, now),
      maintenance  |-> maintenance_section(ms, fleet, now),
      vehicles     |-> fleet,
      top_vehicles |-> top_vehicles_section(rs, now, limit)]

Overview(counts, rentals, tickets, vehicles, returns, revenue, started) ==
  [fleet |-> counts, active_rentals |-> rentals, active_maintenance_tickets |-> tickets,
   active_maintenances |-> vehicles, today_returns |-> returns,
   revenue |-> revenue, rentals |-> started]

legacy_overview(vs, rs, ms, now) ==
  LET fleet == fleet_section(vs, rs, ms, now)
      maint == maintenance_section(ms, fleet, now)
      today == reservations_today_section(rs, now)
      block == [name \in StandingPeriods |-> _period_block(rs, name, now)]
  IN Overview([total_vehicles |-> fleet.total, available |-> fleet.ready_to_rent,
               rented |-> fleet.active_rental, maintenance |-> fleet.maintenance],
              today.in_progress, maint.open_tickets, maint.active_tickets,
              today.ending_today,
              [name \in StandingPeriods |-> block[name].revenue],
              [name \in StandingPeriods |-> block[name].rentals])

\* backend/app/services/dashboard_snapshot.py: all rows of the three tables and one
\* instant are behind every number of an answer.
build_dashboard_snapshot(d, period, from, to, now) ==
  build_snapshot(d.veh, d.ren, d.tic, resolve_period(period, now, from, to), now,
                 TOP_VEHICLES_LIMIT)

(***************************************************************************)
(* backend/app/services/dashboard_service.py and its endpoints             *)
(***************************************************************************)
\* Unknown names mean today here; the endpoint refuses them before.
get_period_stats(rs, name, now) ==
  ServiceFigures(rs, period_bounds(IF name \in PERIOD_NAMES THEN name ELSE "today", now), now)

get_revenue_range(rs, from, to, now) == ServiceFigures(rs, custom_bounds(from, to), now)

\* rental_repository.get_vehicle_stats: no cancelled rental, interrupted or not.
get_vehicle_stats(rs, now) ==
  LET counted == Where(rs, LAMBDA r : r.status # "CANCELLED" /\ r.start <= now)
      of(v)   == RentalsOf(rs, counted, v)
  IN Ranked([v \in Vehicles(rs, counted) |->
       [vehicle_id   |-> v,
        rental_count |-> Cardinality(of(v)),
        rental_days  |-> DaysOf(rs, of(v), now),
        revenue      |-> EarnedBy(rs, of(v), now),
        reservations |-> of(v)]])

\* Every vehicle entered the fleet at instant 0.
Utilization(rs, ks, now) == calculate_vehicle_utilization(0, [k \in ks |-> rs[k]], now)

get_vehicle_performance(rs, now) ==
  LET stats == get_vehicle_stats(rs, now)
  IN [i \in DOMAIN stats |->
        [vehicle_id   |-> stats[i].vehicle_id,
         rental_count |-> stats[i].rental_count,
         rental_days  |-> stats[i].rental_days,
         revenue      |-> stats[i].revenue,
         utilization  |-> Utilization(rs, stats[i].reservations, now)]]

(***************************************************************************)
(* desktop/app/sync/dashboard_cache.py                                     *)
(***************************************************************************)
LocalDaysOf(rs, ks, now) ==
  MapThenSumSet(LAMBDA k : IF rs[k].status = "COMPLETED" THEN rs[k].days
                           ELSE _realised_days(rs[k].start, rs[k].days, now), ks)
LocallyEarnedBy(rs, ks, now) ==
  MapThenSumSet(LAMBDA k : _reservation_revenue(rs[k], AllTime, now), ks)

compute_top_vehicles_rows(rs, now, limit) ==
  LET counted == Where(rs, LAMBDA r : r.status # "CANCELLED" /\ r.start <= now)
      of(v)   == RentalsOf(rs, counted, v)
  IN FirstOnes(Ranked([v \in Vehicles(rs, counted) |->
       [vehicle_id   |-> v,
        rental_count |-> Cardinality(of(v)),
        rental_days  |-> LocalDaysOf(rs, of(v), now),
        revenue      |-> LocallyEarnedBy(rs, of(v), now),
        utilization  |-> Utilization(rs, of(v), now)]]), limit)

\* Every ACTIVE rental is under way here, even one that is late or to come.
UnderWay(r, now) ==
  r.status = "ACTIVE" \/ (r.status = "RESERVED" /\ r.start <= now /\ now < r.end)

compute_overview_rows(rs, counts, ms, now) ==
  LET open   == Cardinality(Where(ms, OpenTicket))
      money  == [name \in StandingPeriods |->
                   revenue_between_rows(rs, period_bounds(name, now), now).revenue]
  IN Overview(counts, Cardinality(Where(rs, LAMBDA r : UnderWay(r, now))), open,
              counts.maintenance,
              Cardinality(Where(rs, LAMBDA r : BlockingRental(r) /\ EndsToday(r, now))),
              money,
              [name \in StandingPeriods |-> _rentals_started(rs, period_bounds(name, now))])
=============================================================================
