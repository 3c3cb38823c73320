------------------------------- MODULE Revenue -------------------------------
(***************************************************************************)
(* Reporting periods and pro-rata revenue.  A rental of `days` days earns  *)
(* price / days for each of its day slots that has begun (is realised);    *)
(* slot i belongs to the calendar date of its start plus i.  The code has  *)
(* a normative version (shared/), a backend query that feeds it and a      *)
(* desktop port.                                                           *)
(*                                                                         *)
(* A date is the number of a day of DayLen slots; weeks, months and years  *)
(* have fixed lengths (the real ones vary, the code asks the calendar).    *)
(* Prices are multiples of the number of days, so that no rounding to      *)
(* cents is needed.                                                        *)
(***************************************************************************)
EXTENDS FleetStatus, FiniteSetsExt

CONSTANTS DayLen, WeekLen, MonthLen, YearLen

ASSUME CalendarUnits == {DayLen, WeekLen, MonthLen, YearLen} \subseteq Nat \ {0}

(***************************************************************************)
(* shared/money_time.py                                                    *)
(***************************************************************************)
business_date(t) == t \div DayLen

StandingPeriods == {"today", "week", "month", "year"}
PERIOD_NAMES == StandingPeriods \cup {"yesterday", "last_week", "last_month", "last_year"}

FirstOf(unit, date) == date - (date % unit)
UnitOf(name) ==
  CASE name \in {"today", "yesterday"}  -> 1
    [] name \in {"week", "last_week"}   -> WeekLen
    [] name \in {"month", "last_month"} -> MonthLen
    [] name \in {"year", "last_year"}   -> YearLen

\* The dates [from, to) of a named period, around the date of now.
period_bounds(name, now) ==
  LET unit  == UnitOf(name)
      first == FirstOf(unit, business_date(now))
  IN IF name \in StandingPeriods THEN [from |-> first, to |-> first + unit]
     ELSE [from |-> first - unit, to |-> first]

\* The operator's two dates in either order; the later one counts in full.
custom_bounds(from, to) ==
  IF to < from THEN [from |-> to, to |-> from + 1] ELSE [from |-> from, to |-> to + 1]

(***************************************************************************)
(* shared/revenue_reference.py                                             *)
(***************************************************************************)
INTERRUPTIONS == {"MAINTENANCE", "MAINTENANCE_URGENT"}

Least(a, b)    == IF a <= b THEN a ELSE b
Greatest(a, b) == IF a >= b THEN a ELSE b

Interrupted(r) == r.status = "CANCELLED" /\ r.reason \in INTERRUPTIONS
is_revenue_eligible(r) == r.status # "CANCELLED" \/ Interrupted(r)

\* How many days a rental is charged for.  The server counts begun days of 24
\* hours (rental_service.py), the form of the desktop the dates between
\* (reservation_list.py).
calculate_days(start, end) == Greatest(1, (end - start + DayLen - 1) \div DayLen)
_recalculate(start, end)   == Greatest(1, business_date(end) - business_date(start))

\* The day slots begun at now.
_realised_days(start, days, now) ==
  Greatest(0, Least(days, ((now - start) \div DayLen) + 1))

\* When an interrupted rental stopped earning (its end, in rows with no instant).
InterruptedAt(r) == IF r.cancelledAt # Null THEN r.cancelledAt ELSE r.end

\* Mutant: the days of an interrupted rental keep running.
RealisedUncapped(r, now) ==
  IF ~is_revenue_eligible(r) THEN 0
  ELSE IF r.status = "COMPLETED" THEN r.days
  ELSE _realised_days(r.start, r.days, now)

Realised(r, now) ==
  IF ~is_revenue_eligible(r) THEN 0
  ELSE IF Interrupted(r) THEN _realised_days(r.start, r.days, Least(now, InterruptedAt(r)))
  ELSE IF r.status = "COMPLETED" THEN r.days
  ELSE _realised_days(r.start, r.days, now)

\* Mutant: the last date of a period is counted in the next one too.
DaysInclusive(d, n, p) == Greatest(0, Least(d + n, p.to + 1) - Greatest(d, p.from))
\* How many of the first n days from date d lie in the period p.
DaysInside(d, n, p) == Greatest(0, Least(d + n, p.to) - Greatest(d, p.from))
RealisedInside(r, p, now) == DaysInside(business_date(r.start), Realised(r, now), p)

reservation_period_revenue(r, p, now) == (r.price \div r.days) * RealisedInside(r, p, now)

revenue_between(rs, p, now) ==
  MapThenSumSet(LAMBDA k : reservation_period_revenue(rs[k], p, now), DOMAIN rs)

rental_days_between(rs, p, now) ==
  MapThenSumSet(LAMBDA k : RealisedInside(rs[k], p, now), DOMAIN rs)

StartsIn(r, p) == p.from <= business_date(r.start) /\ business_date(r.start) < p.to

rentals_started_between(rs, p) ==
  Cardinality({k \in DOMAIN rs : is_revenue_eligible(rs[k]) /\ StartsIn(rs[k], p)})

(***************************************************************************)
(* backend/app/services/revenue_service.py: the SQL reads only rentals     *)
(* that can matter to a window that closes at local midnight of p.to.      *)
(***************************************************************************)
\* Mutant: interrupted rentals are not fetched.
CandidatesNotCancelled(rs, p) ==
  [k \in {j \in DOMAIN rs : /\ rs[j].status # "CANCELLED"
                            /\ rs[j].start < p.to * DayLen} |-> rs[k]]
_load_candidate_reservations(rs, p) ==
  [k \in {j \in DOMAIN rs : /\ rs[j].status # "CANCELLED" \/ rs[j].reason \in INTERRUPTIONS
                            /\ rs[j].start < p.to * DayLen} |-> rs[k]]

ServiceFigures(rs, p, now) ==
  LET found == _load_candidate_reservations(rs, p)
  IN [revenue     |-> revenue_between(found, p, now),
      rental_days |-> rental_days_between(found, p, now),
      rentals     |-> rentals_started_between(found, p)]

(***************************************************************************)
(* desktop/app/sync/dashboard_cache.py: the port.  It knows one of the two *)
(* interruption reasons.                                                   *)
(***************************************************************************)
LocallyInterrupted(r)   == r.status = "CANCELLED" /\ r.reason = "MAINTENANCE"
_is_revenue_eligible(r) == r.status # "CANCELLED" \/ LocallyInterrupted(r)

_realised_for_row(r, now) ==
  IF LocallyInterrupted(r)
  THEN _realised_days(r.start, r.days, Least(now, InterruptedAt(r)))
  ELSE IF r.status = "COMPLETED" THEN r.days
  ELSE _realised_days(r.start, r.days, now)

LocalDaysInside(r, p, now) ==
  IF _is_revenue_eligible(r)
  THEN DaysInside(business_date(r.start), _realised_for_row(r, now), p) ELSE 0

_reservation_revenue(r, p, now) == (r.price \div r.days) * LocalDaysInside(r, p, now)

revenue_between_rows(rs, p, now) ==
  [revenue |-> MapThenSumSet(LAMBDA k : _reservation_revenue(rs[k], p, now), DOMAIN rs),
   rental_days |-> MapThenSumSet(LAMBDA k : LocalDaysInside(rs[k], p, now), DOMAIN rs)]

\* Mutant: cancelled rentals are counted.
StartedAnyStatus(rs, p) == Cardinality({k \in DOMAIN rs : StartsIn(rs[k], p)})
_rentals_started(rs, p) ==
  Cardinality({k \in DOMAIN rs : _is_revenue_eligible(rs[k]) /\ StartsIn(rs[k], p)})

(***************************************************************************)
(* shared/utilization_reference.py: the dates a vehicle was occupied since *)
(* it was created, each counted once.                                      *)
(***************************************************************************)
OccupiedDates(r, now) ==
  LET begun == IF r.status = "COMPLETED" THEN r.days ELSE _realised_days(r.start, r.days, now)
  IN IF r.status = "CANCELLED" \/ r.start > now THEN {}
     ELSE business_date(r.start) .. business_date(r.start) + begun - 1

calculate_vehicle_utilization(created, rs, now) ==
  LET lifetime == business_date(created) .. business_date(now)
      occupied == lifetime \cap UNION {OccupiedDates(rs[k], now) : k \in DOMAIN rs}
  IN [operational_days |-> Greatest(1, Cardinality(lifetime)),
      occupied_days    |-> Cardinality(occupied)]
=============================================================================
