-------------------------- MODULE DomainStoreProps --------------------------
(***************************************************************************)
(* What the desktop's picture of the fleet, and the figures derived from   *)
(* it, must satisfy.                                                       *)
(***************************************************************************)
EXTENDS DomainStore, ClientReport

Statuses == Operational \cup STRUCTURAL_STATUSES

\* Every rebuild stage, snapshot and timer holds values of its own type, and a
\* rental or ticket of the picture belongs to a vehicle of the picture.
TypeOK ==
  /\ now \in 0 .. Horizon /\ writes \in 0 .. MaxWrites
  /\ ui \in {"idle", "vehicles", "reservations", "build", "publish", "rearm"}
  /\ \A s \in {snapshot, worker} \ {Null} :
       /\ s.at \in 0 .. now /\ s.derived \in s.at .. now
       /\ s.effective \in [DOMAIN s.tables.veh -> Statuses]
       /\ \A k \in DOMAIN s.tables.ren : s.tables.ren[k].veh \in DOMAIN s.effective
       /\ \A k \in DOMAIN s.tables.tic : s.tables.tic[k].veh \in DOMAIN s.effective
  /\ clock.due \in 0 .. Horizon + DayLen \cup {Null} /\ clock.armed \in 0 .. now

\* The figures depend on the tables and the instant alone; every such pair is
\* reached before the first snapshot is built, and looked at there.
Fresh == snapshot = Null /\ ui = "idle"

\* The tables as they are, and as a rebuild in progress has read them (each at
\* another moment, so a rental's vehicle may be missing).
Pictures ==
  (IF Fresh THEN {disk} ELSE {}) \cup (IF ui = "build" THEN {[rows.tables EXCEPT !.tic = disk.tic]} ELSE {})

\* The reference, the backend and the desktop give every vehicle the same
\* status and every bucket the same size, even from tables read at different
\* moments, although each excludes orphan rows and overlaps in another way
\* ("can never disagree", desktop fleet_status.py).
DerivationsAgree ==
  \A d \in Pictures :
    LET ref == effective_statuses(d.veh, d.ren, d.tic, now) IN
    /\ compute_effective_statuses(d.veh, d.ren, d.tic, now) = ref
    /\ effective_statuses_rows(d.veh, d.ren, d.tic, now) = ref
    /\ compute_fleet_counts_rows(d.veh, d.ren, d.tic, now) = CountsOf(ref)

\* Rentals interrupted for the reason the desktop's port does not know.
Urgent(rs) == {k \in DOMAIN rs : Interrupted(rs[k]) /\ ~LocallyInterrupted(rs[k])}

\* The server's and the desktop's period cards, from the rows of d: the money and
\* the rentals of every standing period, the returns of the day, the cars ready to
\* rent (the desktop's available and reserved ones).
CardsAgree(d) ==
  LET counts == compute_fleet_counts_rows(d.veh, d.ren, d.tic, now)
      here   == compute_overview_rows(d.ren, counts, d.tic, now)
      there  == legacy_overview(d.veh, d.ren, d.tic, now)
  IN /\ here.revenue = there.revenue /\ here.rentals = there.rentals
     /\ here.today_returns = there.today_returns
     /\ there.fleet.available = counts.available + counts.reserved

FilesAgree(d) ==
  \A c \in Clients : LocalRentals(d.ren, c) = get_client_rentals(d.ren, c) =>
    _apply_offline_fallback(d.ren, c, now) = get_client_rentals_report(d.ren, c, now)

RankingsAgree(d) ==
  compute_top_vehicles_rows(d.ren, now, TOP_VEHICLES_LIMIT)
    = FirstOnes(get_vehicle_performance(d.ren, now), TOP_VEHICLES_LIMIT)

\* From the same rows the offline figures are the server's: the cards, the ranking
\* of the vehicles, the file of a client whose rentals all bear its contact.  (No
\* rental was interrupted as MAINTENANCE_URGENT.)
OfflineFiguresAgree ==
  LET d == Visible(disk)
  IN Fresh /\ Urgent(d.ren) = {} => CardsAgree(d) /\ RankingsAgree(d) /\ FilesAgree(d)

\* The period and range endpoints report what the snapshot reports for the same
\* window.
PeriodsAgree(d) ==
  LET dto(name, from, to) == build_dashboard_snapshot(d, name, from, to, now)
  IN /\ \A name \in PERIOD_NAMES :
          dto(name, 0, 0).revenue = get_period_stats(d.ren, name, now)
     /\ \A from, to \in 0 .. business_date(Horizon) :
          dto("custom", from, to).revenue = get_revenue_range(d.ren, from, to, now)

\* A file's number of rentals under way and its vehicles never contradict the badges
\* of these vehicles elsewhere (client_service.py:186-191): every rental of the client
\* that covers now is counted, and its vehicle is listed and neither free nor booked.
FilesMatchBadges(d) ==
  LET shown == effective_statuses(d.veh, d.ren, d.tic, now) IN
  \A c \in Clients :
    LET file == get_client_rentals_report(d.ren, c, now)
        out  == {k \in get_client_rentals(d.ren, c) : Out(d.ren[k], now)}
    IN /\ file.active_rentals = Cardinality(out)
       /\ \A k \in out : /\ d.ren[k].veh \in {e.vehicle_id : e \in file.vehicles}
                         /\ shown[d.ren[k].veh] \notin {"AVAILABLE", "RESERVED"}

\* The backend's SQL filter loses nothing from a period, and a client's file agrees
\* with what the fleet shows.
EndpointsAgree ==
  LET d == Visible(disk) IN Fresh => PeriodsAgree(d) /\ FilesMatchBadges(d)

\* A rental across a period boundary is split, each period gets its days: the
\* money of two adjoining windows adds up; a rental over and done earns its
\* price, once.
RevenueSplits ==
  LET rs == disk.ren  last == business_date(Horizon) + 2
      in(from, to) == revenue_between(rs, [from |-> from, to |-> to], now)
  IN Fresh =>
     /\ \A from \in 0 .. last : \A mid \in from .. last :
          in(from, last) = in(from, mid) + in(mid, last)
     /\ \A k \in DOMAIN rs :
          rs[k].status = "COMPLETED" \/ (rs[k].status # "CANCELLED" /\ rs[k].end <= now)
            => reservation_period_revenue(rs[k], AllTime, now) = rs[k].price

\* Whatever the store has just published passes the dashboard's own integrity
\* check, then and later while the pages are drawn, and no ticket is 'en cours' while its
\* vehicle is not in maintenance unless the vehicle was sold.
SnapshotReconciles ==
  snapshot # Null /\ ui = "rearm" =>
    LET d == snapshot.tables
        dto == build_local_snapshot(snapshot, "month", 0, 0)
    IN /\ validate(dto) /\ _validate_snapshot(snapshot)
       /\ dto.maintenance.vehicles_in_maintenance - dto.vehicles.maintenance
            = Cardinality({v \in structural(d.veh) :
                 \E m \in DOMAIN d.tic : d.tic[m].veh = v /\ Occupies(d.tic[m], now)})

\* What an interrupted rental earned never grows again: its closed periods are
\* immutable (revenue_reference.py), as long as its row is the same.
InterruptedRevenueFrozen ==
  [][\A k \in DOMAIN disk.ren \cap DOMAIN disk'.ren :
       LET r == disk.ren[k] IN
       disk'.ren[k] = r /\ Interrupted(r) /\ r.cancelledAt # Null /\ r.cancelledAt <= now
         => /\ Realised(r, now') = Realised(r, now)
            /\ _reservation_revenue(r, AllTime, now') = _reservation_revenue(r, AllTime, now)]_vars

\* Between two wake-ups the statuses on screen are true.
Current(s, t) ==
  s.effective = effective_statuses(s.tables.veh, s.tables.ren, s.tables.tic, t)

\* The boundaries that passed after the snapshot was derived and before the
\* clock was armed.
Missed ==
  {t \in Edges(snapshot.tables.ren, snapshot.tables.tic, snapshot.derived) : t <= clock.armed}

Resting == ui = "idle" /\ snapshot # Null /\ clock.due # Null /\ now < clock.due

\* While the timer is not due, every status on screen is the one the rows give
\* at this very moment, with no polling; but for boundaries that passed while
\* the snapshot was being published, and rows the worker put under the clock.
StatusesCurrent ==
  Resting /\ snapshot.tables = clock.tables /\ Missed = {} => Current(snapshot, now)

\* The picture catches up with SQLite and with the clock, again and again,
\* whatever commits between two reads, is missed by the clock or is put back
\* by the worker.
CatchesUp ==
  []<>(snapshot # Null /\ snapshot.tables = Visible(disk) /\ Current(snapshot, now))

(***************************************************************************)
(* What the promises rest on: an inductive invariant.                      *)
(***************************************************************************)
StatusesAt(d, t) == effective_statuses(d.veh, d.ren, d.tic, t)
NoOrphans(d) ==
  \A table \in {"ren", "tic"} : \A k \in DOMAIN d[table] : d[table][k].veh \in DOMAIN d.veh

\* A snapshot has the statuses its rows gave at the instant it was derived.
IsSnapshot(s) ==
  /\ DOMAIN s = {"at", "derived", "tables", "effective", "counts", "overview"}
  /\ AreTables(s.tables) /\ NoOrphans(s.tables)
  /\ s.at \in 0 .. now /\ s.derived \in s.at .. now
  /\ s.effective = StatusesAt(s.tables, s.derived)

ReloadInv ==
  /\ DOMAIN rows = {"at", "tables"}
  /\ ui \in {"vehicles", "reservations", "build"} => AreTables(rows.tables) /\ rows.at \in 0 .. now
  /\ ui = "publish" => IsSnapshot(rows.tables)

SnapshotsInv ==
  /\ snapshot # Null \/ ui = "rearm" \/ clock.due # Null => IsSnapshot(snapshot)
  /\ worker # Null => IsSnapshot(worker)

\* The timer is due no later than the first boundary after it was armed.
ClockInv ==
  /\ DOMAIN clock = {"due", "armed", "tables"} /\ clock.armed \in 0 .. now
  /\ clock.due # Null =>
       /\ clock.due \in clock.armed .. clock.armed + DayLen
       /\ \A t \in Edges(clock.tables.ren, clock.tables.tic, clock.armed) : clock.due <= t

StoreInv ==
  /\ now \in 0 .. Horizon /\ writes \in 0 .. MaxWrites
  /\ ui \in {"idle", "vehicles", "reservations", "build", "publish", "rearm"}
  /\ AreTables(disk) /\ ReloadInv /\ SnapshotsInv /\ ClockInv

\* Snapshots are valid ones, and the overview of an old server would not spoil one.
ValidInv ==
  /\ \A s \in {snapshot, worker} \ {Null} : _validate_snapshot(s)
  /\ server # Null => /\ "revenue" \in DOMAIN server
                      /\ \A p \in DOMAIN server.revenue : server.revenue[p] >= 0
=============================================================================
