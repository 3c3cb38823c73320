----------------------------- MODULE DomainStore -----------------------------
(***************************************************************************)
(* The desktop's one in-memory picture of the fleet, and the clock that    *)
(* keeps it true while nothing happens.                                    *)
(*                                                                         *)
(* The UI thread rebuilds the snapshot from SQLite, one query per table    *)
(* (the sync thread commits between two of them, and time passes), then    *)
(* publishes it to its subscribers: first the window, which redraws every  *)
(* page, last the BoundaryClock, which arms one timer for the next instant *)
(* at which a vehicle's status or a period card changes.  When the timer   *)
(* fires the store derives the snapshot again from the rows it holds.      *)
(* Against an old server a worker thread writes the server's overview into *)
(* the store at any moment.                                                *)
(*                                                                         *)
(* The program's store has no lock.                                        *)
(***************************************************************************)
EXTENDS Dashboard

CONSTANTS
  StartTables,  \* what SQLite may hold when the application starts
  Changes,      \* what a committed transaction may do: [table, key, row]
  Gone,         \* the row of a deletion
  Horizon,      \* the last instant
  MaxWrites,    \* how many transactions and server answers there are
  UtcLag        \* slots from local midnight to the next midnight in UTC

\* What the columns of a table hold.
Fits(table, row) ==
  CASE table = "veh" -> row \in Operational \cup STRUCTURAL_STATUSES
    [] table = "ren" -> /\ row.veh \in DOMAIN IdOrder
                        /\ row.start \in Nat /\ row.end \in Nat /\ row.start < row.end
                        /\ row.cancelledAt \in Int \cup {Null}
                        /\ row.status \in BLOCKING_RESERVATION_STATUSES \cup {"COMPLETED", "CANCELLED"}
                        /\ row.days \in {calculate_days(row.start, row.end),
                                        _recalculate(row.start, row.end)}
                        /\ business_date(row.start) + row.days <= FarFuture
                        /\ row.price \in Nat /\ row.price % row.days = 0
    [] table = "tic" -> row.start \in Int /\ {row.exp, row.act} \subseteq Int \cup {Null}
AreTables(d) ==
  /\ DOMAIN d = {"veh", "ren", "tic"}
  /\ \A table \in DOMAIN d : /\ IsFiniteSet(DOMAIN d[table])
                            /\ \A k \in DOMAIN d[table] : Fits(table, d[table][k])

ASSUME TablesAreTables ==
  /\ \A d \in StartTables : AreTables(d)
  /\ \A c \in Changes : c.table \in {"veh", "ren", "tic"} /\ (c.row # Gone => Fits(c.table, c.row))
ASSUME TimeIsBounded == Horizon \in Nat /\ MaxWrites \in Nat /\ Horizon < FarFuture

VARIABLES
  disk,         \* the committed local tables
  writes,       \* how many transactions and server answers there were
  now,
  ui,           \* what the UI thread does next
  rows,         \* the tables the rebuild in progress has read, and its instant
  snapshot,     \* the store's snapshot
  server,       \* _server_overview: the overview an old server sent, or Null
  worker,       \* the snapshot the worker thread is copying, or Null
  clock         \* the BoundaryClock: its timer, when and for which rows it was armed

vars == <<disk, writes, now, ui, rows, snapshot, server, worker, clock>>

Empty == [k \in {} |-> Null]
NoTables == [veh |-> Empty, ren |-> Empty, tic |-> Empty]

Init ==
  /\ disk \in StartTables
  /\ writes = 0 /\ now = 0
  /\ ui = "idle"
  /\ rows = [at |-> 0, tables |-> NoTables]
  /\ snapshot = Null /\ server = Null /\ worker = Null
  /\ clock = [due |-> Null, armed |-> 0, tables |-> NoTables]

\* The clock is read when a reload begins and when the timer is armed; that time
\* passes between the queries and the publication shows at these two points.
Tick == now < Horizon /\ ui \in {"idle", "vehicles", "rearm"} /\ now' = now + 1
        /\ UNCHANGED <<disk, writes, ui, rows, snapshot, server, worker, clock>>

(***************************************************************************)
(* Transactions                                                            *)
(***************************************************************************)
Apply(d, c) ==
  [d EXCEPT ![c.table] =
     IF c.row = Gone THEN [k \in DOMAIN @ \ {c.key} |-> @[k]]
     ELSE [k \in DOMAIN @ \cup {c.key} |-> IF k = c.key THEN c.row ELSE @[k]]]

Commit(c) ==
  /\ writes < MaxWrites
  /\ disk' = Apply(disk, c) /\ disk' # disk
  /\ writes' = writes + 1

\* The sync thread stores what it pulled.
SyncCommit(c) ==
  Commit(c) /\ UNCHANGED <<now, ui, rows, snapshot, server, worker, clock>>

BeginReload == ui' = "vehicles" /\ rows' = [at |-> now, tables |-> NoTables]

\* store.mutate: the operator's edit commits, the reload follows at once.  (A
\* transaction that fails is rolled back: nothing happens.)
mutate(c) ==
  ui = "idle" /\ Commit(c) /\ BeginReload
  /\ UNCHANGED <<now, snapshot, server, worker, clock>>

(***************************************************************************)
(* reload, on the UI thread                                                *)
(***************************************************************************)
reload ==
  ui = "idle" /\ BeginReload
  /\ UNCHANGED <<disk, writes, now, snapshot, server, worker, clock>>

Read(stage, table, next) ==
  /\ ui = stage
  /\ rows' = [rows EXCEPT !.tables[table] = disk[table]]
  /\ ui' = next
  /\ UNCHANGED <<disk, writes, now, snapshot, server, worker, clock>>

\* Rows of vehicles that were not read are dropped.
Visible(d) ==
  [veh |-> d.veh, ren |-> _rows_from_session(d.veh, d.ren),
   tic |-> _rows_from_session(d.veh, d.tic)]

Midnight(t) == (business_date(t) + 1) * DayLen
utc_date(t) == (t - UtcLag) \div DayLen

\* Mutant: the tables are used as read.
BuildFromAnyRow(d, at, held) ==
  LET counts == compute_fleet_counts_rows(d.veh, d.ren, d.tic, at)
  IN [at |-> at, derived |-> at, tables |-> d,
      effective |-> effective_statuses_rows(d.veh, d.ren, d.tic, at),
      counts    |-> counts,
      overview  |-> IF held # Null THEN held
                    ELSE compute_overview_rows(d.ren, counts, d.tic, at)]
_build_snapshot(d, at, held) == BuildFromAnyRow(Visible(d), at, held)

_validate_snapshot(s) ==
  /\ \A f \in DOMAIN s.counts : s.counts[f] >= 0
  /\ \A p \in DOMAIN s.overview.revenue : s.overview.revenue[p] >= 0

\* The dashboard derives the statuses itself: it is given the persisted ones.
rows_from_domain_snapshot(s) == [veh |-> s.tables.veh, ren |-> s.tables.ren, tic |-> s.tables.tic]
build_local_snapshot(s, period, from, to) ==
  LET d == rows_from_domain_snapshot(s)
  IN build_snapshot(d.veh, d.ren, d.tic, resolve_period(period, now, from, to), now,
                    TOP_VEHICLES_LIMIT)

\* The last query, and the snapshot built from the three.
Build ==
  /\ ui = "build"
  /\ rows' = [at |-> 0, tables |->
       _build_snapshot([rows.tables EXCEPT !.tic = disk.tic], rows.at, server)]
  /\ ui' = "publish"
  /\ UNCHANGED <<disk, writes, now, snapshot, server, worker, clock>>

\* Mutant: a snapshot is published only if a count differs.
PublishIfCountsDiffer ==
  /\ ui = "publish"
  /\ snapshot' = IF snapshot = Null \/ snapshot.counts # rows.tables.counts
                 THEN rows.tables ELSE snapshot
  /\ rows' = [at |-> 0, tables |-> NoTables]
  /\ ui' = "rearm"
  /\ UNCHANGED <<disk, writes, now, server, worker, clock>>

\* The window redraws every page before the clock hears of the snapshot.  Of one
\* that is not valid nobody hears.
Publish ==
  /\ ui = "publish"
  /\ LET valid == _validate_snapshot(rows.tables)
     IN /\ snapshot' = IF valid THEN rows.tables ELSE snapshot
        /\ ui' = IF valid THEN "rearm" ELSE "idle"
  /\ rows' = [at |-> 0, tables |-> NoTables]
  /\ UNCHANGED <<disk, writes, now, server, worker, clock>>

(***************************************************************************)
(* BoundaryClock                                                           *)
(***************************************************************************)
\* The instant the clock takes now, not the one the snapshot was built for.
reschedule ==
  LET target == next_boundary_rows(snapshot.tables.ren, snapshot.tables.tic, now, Midnight(now))
  IN clock' = [due |-> now + Least(target - now, DayLen), armed |-> now,
               tables |-> snapshot.tables]

Rearm ==
  ui = "rearm" /\ reschedule /\ ui' = "idle"
  /\ UNCHANGED <<disk, writes, now, rows, snapshot, server, worker>>

FleetKeys(counts) ==
  [f \in {"total_vehicles", "available", "rented", "reserved", "maintenance"} |-> counts[f]]

\* The overview of an old server, moved on to the instant t: its fleet counts
\* always, its period figures when the UTC date has changed.
Evolve(held, fresh, from, t) ==
  [held EXCEPT !.fleet = FleetKeys(fresh.fleet),
     !.revenue = IF utc_date(t) # utc_date(from) THEN fresh.revenue ELSE @,
     !.rentals = IF utc_date(t) # utc_date(from) THEN fresh.rentals ELSE @,
     !.today_returns = IF utc_date(t) # utc_date(from) THEN fresh.today_returns ELSE @]

\* Mutant: a boundary changes the counts, the statuses wait for the next reading.
RecomputeCountsOnly(s, held, t) ==
  LET d == s.tables
      counts == compute_fleet_counts_rows(d.veh, d.ren, d.tic, t)
      fresh  == compute_overview_rows(d.ren, counts, d.tic, t)
  IN [s EXCEPT !.at = t, !.derived = t, !.counts = counts,
               !.overview = IF held # Null THEN Evolve(held, fresh, s.at, t) ELSE fresh]
recompute_effective(s, held, t) ==
  LET d == s.tables
      counts == compute_fleet_counts_rows(d.veh, d.ren, d.tic, t)
      fresh  == compute_overview_rows(d.ren, counts, d.tic, t)
  IN [s EXCEPT !.at = t, !.derived = t, !.counts = counts,
               !.effective = effective_statuses_rows(d.veh, d.ren, d.tic, t),
               !.overview = IF held # Null THEN Evolve(held, fresh, s.at, t) ELSE fresh]

Shown(s) == [effective |-> s.effective, counts |-> s.counts, overview |-> s.overview]

\* The timer.  A boundary that changes nothing publishes nothing (the snapshot
\* keeps its instant; `derived` is not in the program); the overview of an old
\* server always differs from the local one, which has a figure more.
_fire ==
  LET r == recompute_effective(snapshot, server, now)
  IN /\ ui = "idle" /\ clock.due # Null /\ clock.due <= now
     /\ snapshot' = IF server = Null /\ Shown(r) = Shown(snapshot)
                    THEN [snapshot EXCEPT !.derived = now] ELSE r
     /\ server' = IF server # Null THEN r.overview ELSE Null
     /\ ui' = "rearm"
     /\ clock' = [clock EXCEPT !.due = Null]
     /\ UNCHANGED <<disk, writes, now, rows, worker>>

(***************************************************************************)
(* update_server_dashboard, on the worker thread that asked an old server. *)
(* It takes the overview verbatim, then replaces the snapshot by a copy of *)
(* the one it found.  (The server has the desktop's rows here.)            *)
(***************************************************************************)
update_server_dashboard ==
  /\ worker = Null
  /\ writes < MaxWrites /\ writes' = writes + 1
  /\ server' = legacy_overview(disk.veh, disk.ren, disk.tic, now)
  /\ LET base == IF snapshot # Null THEN snapshot ELSE _build_snapshot(disk, now, Null)
     IN worker' = [base EXCEPT !.overview = server']
  /\ UNCHANGED <<disk, now, ui, rows, snapshot, clock>>

ReplaceSnapshot ==
  /\ worker # Null
  /\ snapshot' = worker /\ worker' = Null
  /\ UNCHANGED <<disk, writes, now, ui, rows, server, clock>>

Next ==
  \/ Tick
  \/ \E c \in Changes : SyncCommit(c) \/ mutate(c)
  \/ reload
  \/ Read("vehicles", "veh", "reservations")
  \/ Read("reservations", "ren", "build")
  \/ Build \/ Publish \/ Rearm \/ _fire
  \/ update_server_dashboard \/ ReplaceSnapshot

\* The event loop of the UI thread runs; while the server answers, a sync cycle
\* ends every thirty seconds and asks for a reload.
UiThread ==
  \/ reload \/ Read("vehicles", "veh", "reservations") \/ Read("reservations", "ren", "build")
  \/ Build \/ Publish \/ Rearm \/ _fire

Spec == Init /\ [][Next]_vars /\ WF_vars(UiThread)
=============================================================================
