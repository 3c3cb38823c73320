# Atelier Berlin: a verification project for the fleet, its money and its offline desktop

The repository is a car-rental system: a FastAPI backend over PostgreSQL
(`src/backend`), an offline-first PySide desktop over SQLite (`src/desktop`), an
Android app (`src/mobile`) and code they share (`src/shared`). This directory
holds TLA+ modules of the parts where correctness depends on what runs together
or on one rule written several times, the TLC configurations that check them, and
TLAPS proofs.

Contents: [inventory](#1-inventory) · [modules and code](#2-modules-and-how-they-correspond-to-the-code) ·
[runs](#3-runs) · [fairness](#4-fairness) · [proofs](#5-proofs) ·
[disagreements found](#6-where-the-code-and-its-words-disagree) ·
[left out](#7-what-is-not-modelled) · [plan](#8-plan)

To repeat the checks:

    tlc -workers 2 -config MCFleetBooking_race.cfg MCFleetBooking.tla
    tlapm FleetBookingProofs.tla

## 1. Inventory

| Component | State it keeps | Operations | Talks to | What is hard | What makes it correct |
|---|---|---|---|---|---|
| **Fleet calendar** (`services/rental_service.py`, `repositories/rental_repository.py`, `api/v1/maintenance.py`) | `reservations`, `maintenances`, `vehicles` with an exclusion constraint and a trigger | create, update, cancel, complete, activate a rental; create, update, complete, delete a ticket; change a vehicle status; each also through sync | one database shared by all requests | READ COMMITTED: the availability check takes no lock; several locks in different orders; failures between statements | no double booking; maintenance wins over rentals; a closed rental keeps its outcome; every request ends; to readers a request is one booking |
| **Server side of sync** (`services/sync_service.py`) | idempotency keys, versions, audit records | `process_push`, pull, bootstrap | the desktop engine; the calendar's tables | retries of requests that committed, or are still running; one failing item of a batch | an edit takes effect once; versions detect unseen edits |
| **Desktop engine and queue** (`sync/engine.py`, `sync/queue.py`) | `sync_queue`: status and retry count per item | push, mark, adopt a version, pull, merge, bootstrap | server; SQLite rows shared with the user interface | crash between commits, lost and late answers, pulls older than an edit | nothing marked before it is stored; waiting edits survive pulls; all edits are decided |
| **Desktop editing** (`ui/main_window.py`, the forms) | local rows | create, update, delete with a queue item in the same transaction | queue, domain store | edits while a sync thread runs | the row and its item are written together |
| **Sync scheduling, sessions, realtime** (`ui/main_window.py`, `services/api_client.py`, `services/realtime_client.py`, `services/event_broadcaster.py`) | timers, pending flag, running thread, token pairs in three places, a socket, a history of events | timer, debounce, button, forced bootstrap, refresh, broadcast, poll | engine, server | requests that arrive while a thread runs; tokens rotated on two sides; events before their commit, lost events | no request for a sync is lost; rotation alone never ends the session; a change that was announced arrives |
| **Offline uploads** (`sync/uploads.py`, `models/pending_upload.py`) | `pending_uploads`, copies of files, markers in rows and payloads | save a form, register, attempt, replace the marker | queue, server | crash between upload, marker and record; order relative to the push | a file is kept until the server has it, sent once, referred to by its URL; every upload ends |
| **Domain store and boundary clock** (`state/`) | snapshot, server overview, one timer | mutate, reload, publish, recompute, fire | every view | reads at different moments, boundaries that pass while publishing, a worker thread without a lock | statuses on screen are true between two wake-ups; the picture catches up |
| **Effective fleet status** (`services/fleet_status.py`, `utils/fleet_status.py`, `shared/fleet_status_reference.py`) | none | three translations of one derivation, next boundary | all clients | open ends, equal instants, orphan rows | the three agree; nothing changes before the next boundary |
| **Revenue and dashboard figures** (`shared/`, `services/revenue_service.py`, `services/dashboard_service.py`, `sync/dashboard_cache.py`) | none | periods, pro-rata revenue, rankings, snapshot, client file | dashboard, clients | borders of periods, interrupted rentals, two ports | money is split over periods and counted once; endpoints and ports agree; closed periods do not change |
| **Dashboard requests** (`ui/dashboard.py`, `ui/main_window.py`) | what is on screen, the latest request, the last server snapshot | request, fall back, show, repaint | server, domain store | late and superseded answers | figures are not blanked or downgraded; the page settles on the server's |
| **Notifications** (`services/notification_service.py`) | alerts | scan, raise, read | calendar, vehicles | every poll scans; alerts rewritten while they are read | announced once, and announced again when there is something new |
| **Clients and vehicles** (`services/client_service.py`, `services/vehicle_service.py`) | rows others refer to | create, update, delete or deactivate | calendar, sync | decision and deletion are two statements | history is not destroyed |
| **Authentication and users** (`services/auth_service.py`, `services/user_service.py`) | failed attempts, lock, refresh tokens, accounts | login, refresh, logout, new password, enable and disable | every client | concurrent attempts, rotation without locks | the lock is temporary and earned; an ended session stays ended |
| **Mobile application**, **other user interfaces**, **migrations and packaging** | - | - | - | - | section 7 |

`PROJECT.json` lists the hazards, each at the line where it bites, with the
property that would catch it or the reason none does.

## 2. Modules and how they correspond to the code

    BookingCalendar <── refinement ──┐
    FleetBooking ──> FleetBookingProps ──┬──> MCFleetBooking
                                         └──> FleetBookingProofs
    EditLedger <── refinement ───────┐
    SyncProtocol ──> SyncProtocolProps ──────┬──> MCSyncProtocol
                                             └──> SyncProtocolProofs
    SyncSession ──> SyncSessionProps ────────┬──> MCSyncSession
                                             └──> SyncSessionProofs
    OfflineDocuments ──> OfflineDocumentsProps ─┬──> MCOfflineDocuments
                                                └──> OfflineDocumentsProofs
    FleetStatus ──> Revenue ──> Dashboard ──┬──> DomainStore ──┐
                                            └──> ClientReport ─┴──> DomainStoreProps ─┬──> MCDomainStore
                                                                                      └──> DomainStoreProofs
    Registry ──> RegistryProps ──┬──> MCRegistry
                                 └──> RegistryProofs
    Accounts ──> AccountsProps ──┬──> MCAccounts
                                 └──> AccountsProofs
    DashboardRequests ──> DashboardRequestsProps ──┬──> MCDashboardRequests
                                                   └──> DashboardRequestsProofs

The MC modules are for TLC, the Proofs modules for TLAPS.

`PROJECT.json` maps every definition to its lines. Definitions whose comment starts with
"Mutant" are deliberate errors: each property is shown to fail when
one of them takes the place of the definition below it, so no property holds merely by the
shape of the model. Variables marked "not in the program" only remember something for a
property; no action's guard reads them, but for one named bound in `Registry`.

### FleetBooking: the backend's calendar

*State.* `com[k]` and `cur[k]` are the committed and the latest version of row `k`
(a vehicle, a rental or a ticket), `owner[k]` the request that holds its row lock.
Per worker (a request in progress): `pc` the next SQL statement, `req` the request,
`seen` the row as loaded into the ORM session (an update of a ticket loads its vehicle's raw status
along with it, `LoadedTicket`), `cand` the rows found by `SELECT … FOR UPDATE`. `now` is the server's clock.

*Steps.* A request is one READ COMMITTED transaction (`get_db` commits at the end of
the handler) and one step is one SQL statement, so any two requests interleave between any
two statements. The actions named after handlers (`CreateRental`, `UpdateMaintenance`,
`PushReservationCreate`, …) are the first statement and the early returns; then follow
`CheckVehicle`, `CheckRentals`, `CheckTickets` (`check_availability`, which locks
nothing), `WriteRental`, `WriteTicket`, `WriteVehicle`, `FreeVehicle`/`WriteFree` and
`ReadHold`/`WriteHold` (the raw vehicle status), `Guard` (the confirmation that a running
rental may be interrupted), `Scan`/`CancelOne`/`CancelDone`
(`cancel_overlapping_reservations`), and `Commit`. A request refused before its first
write changes nothing and is left out. `Fail` stops a request at any statement.

*PostgreSQL* is external and modelled from how the code relies on it: a write takes the row
lock or waits; an insert or update that would violate
`excl_reservations_no_overlap` waits while the conflicting version belongs to another
transaction and fails when it is committed (or its own); the overlap trigger sees what
its statement sees; a row locked after waiting is tested again on its latest version; one
transaction of a cycle of waits is aborted. `Column` is SQLAlchemy's rule that an update
writes only attributes whose value changed *from the loaded one*: this is how a stale read
meets a newer row.

An update of a ticket over REST may set any field the schema has: its start, both ends, its status. What follows in
the handler reads the object it has just written to, whatever a concurrent request made of other columns
(`OwnTicket`), and the vehicle as it was loaded with the ticket; a pushed update reads the row as it is.

*Ends of a ticket.* `EffectiveEnd`, `CancelEnd` and `TriggerEnd` are three
different rules in three places of the code, kept apart on purpose.

*Abstractions.* Time is a line of slots. One item of a push is one transaction here
(SyncProtocol has the batches). Prices, parts, notes, audit rows and events have no influence
on the properties. A vehicle exists from the start; its creation and deletion are in Registry.

### SyncProtocol: a desktop's edits and the server

*State.* The server's rows and idempotency keys (`com`, `cur`, `owner`, as above), `taken`
(whether inserting this row would violate a constraint because someone else has the dates or the
registration number); per push request, `link` (stage, items with their versions,
results); on the desktop's disk `local` and `queue`; in its sync thread `phase`,
`conn`, `answer`, `snap`, and of a merge in progress `skip` (the identifiers that waited in the queue when it was
read) and `seen` (the rows its session has loaded). `asked`, the length of the queue at that reading, is not in the program.

Edits are numbered in the order they are made; the number stands for the queue item, its
idempotency key and its payload. A row is its version, the last desktop edit in it, and the
number of other users' edits in it: equal rows have equal contents.

*Steps.* The user's edits write a row and its queue item in one transaction
(`CreateLocal`, `UpdateLocal`, `DeleteLocal`). A sync cycle is `PushChanges` →
`ReceiveAnswer` or `GiveUp` → `MarkItem` (`mark_synced`, `mark_conflict`,
`mark_failed`) and `AdoptVersion`, a commit of its own → `PullChanges` →
`BeginMerge` → `LoadRow` → `ApplyPulledItems`; or `Bootstrap` → `BeginMerge` → `LoadRow` → `ApplyBootstrap` first.
`BeginMerge` reads the pending identifiers, `LoadRow` a row, and the last step commits; the user's edits commit between
any two of them, as the user interface does in a session of its own. Of a row that was loaded before the user wrote it,
only the columns that differ from the row as loaded are written (`Written`), and a row that has meanwhile come or gone
makes the whole merge fail (`MergeFails`). Once the merge has written its first row (autoflush), SQLite
lets nobody else write until it commits, so from there on it is one step. `Restart` may
strike anywhere: what is on disk stays, the thread's variables are lost. The server serves a
request in two steps per item, `CheckItem` (key and row are read) and `ApplyItem` or
`FailItem` (the savepoint with row and key), then `CommitPush`; `AbortPush` is a
server failure. A request the desktop has given up on goes on, so two requests with
the same items may run at the same time. `WebUpdate`, `WebDelete` and `WebTake` are
other users.

*Abstractions.* Each SyncThread builds a new engine, so every pull asks for all rows. Vehicles
and reservations stand for all kinds of entity (a vehicle can be deleted on the
desktop, a rejected reservation is reverted). Refreshing a token after a 401 repeats the same
request, which is a resend here. While a merge holds SQLite's write
lock an edit waits or, after 15 seconds, fails; it is simply not made here. `AdoptVersion` reads and writes the row's
version in one step. `MarkConflict` takes two commits of the code together (the item, then the reverted
reservation); the second is never reached, since only updates meet a conflict (`EditsInv`) and only a reservation's
creation is reverted. A batch's nested locks are always taken in the order of
creation, so requests of one desktop do not deadlock; REST writers are single steps.

### BookingCalendar: what the calendar promises

One variable, the window each rental holds; one step at a time books a window that
fits, moves it on its vehicle, or releases windows. `FleetBookingProps` instantiates it with
`book <- [k \in Rentals |-> Held(com[k])]`: the committed rows, without sessions, locks or
waits. `BooksCalendar` is its specification as a property of `FleetBooking`.

### EditLedger: what the sync promises

Four variables: the edits `made`, the outcome `decided` of each, the server's `rows`, and what the desktop has been
`told` of each edit. `Make` adds an edit; `Decide` gives some edits their outcome for good and changes only rows that
one of these, accepted, explains; `Others` is another user's change, which keeps the desktop's edit in the row; `Tell`
reports an edit once, only when it is decided, and as a conflict only when that was its outcome. There are no requests,
keys, retries, locks or crashes. `SyncProtocolProps` instantiates it with the committed rows and keys
(`decided <- [k \in Keys |-> com[k]]`), the queue without its retry counts (`made`), and `PENDING`/`FAILED` read as
not told (`Told`). `KeepsLedger` is its specification as a property of `SyncProtocol`. A refused edit that is sent
again is answered `ok`, so `Tell` may report `SYNCED` for a refusal: the ledger promises what the code keeps, and
`phantom` (section 6) is the rest.

### SyncSession: when a cycle runs, and with which tokens

*State.* The server's announced and committed revision, the live token pairs and the
expired accesses (`srv`); the window (`win`: its pair, `_is_online`, `_sync_thread`,
`_sync_pending`, timers), the `ApiClient`'s pair (`api`), the threads (`cycle`), the socket
(`rt`) and the event queue of the UI thread (`posted`).

*Steps.* The UI thread handles one event per step (`_initial_load`, `SyncTimer`,
`ImmediateSync`, `_on_refresh_clicked`, `_on_sync_finished`, `_on_sync_thread_finished`,
`_logout`), a SyncThread goes through `check_connection`, `bootstrap`, `sync`, `EngineRefresh`,
`Report`, `Finish`; the `ApiClient` refreshes between two of them (`_request`, `_do_refresh`);
`broadcast_event` precedes `CommitWrite` as in the endpoints; the socket connects, breaks,
delivers, and `_poll_recent_events` reads the history.

*Abstractions.* What is pushed is SyncProtocol's; data is a revision number. A pair nobody
holds is issued again as a new one; a rotation needs one (`Unheld # {}`, a bound).

### OfflineDocuments: a file chosen while offline

*State.* The committed local database (`db`: row, queue items, upload records), the copies in
the upload directory (`file`), the server's record and what it has received (`srv`), the open form,
the handler in progress (`save`), the sync thread (`sync`).

*Steps.* Each of the three handlers (`client_edit.py`, `main_window.py`,
`reservation_list.py`) commits in its own order, and the model keeps that order: the client's row,
its registration and its queue item are three commits, the vehicle's row and item are one. Then
`process_due`, `_upload_file_once`, `LoadMarked` and `replace_marker_in_entities` (the row is loaded, then the
replacement committed), `RecordSynced` or `RecordFailure` (another commit), `push`, `pull`. Between the loading and
the commit the user may save: a vehicle's comma-separated images are one column, which is then
overwritten as a whole; of other rows only the replaced column is written (`RowWritten`). `Crash` loses everything not committed; a call or
a commit may fail.

The queue keeps every item and marks it (`PENDING`, `FAILED`, `SYNCED`), as `queue.py` does: the replacement
of a marker goes through items that were already sent as well. What a push leaves in the server's row is written
in closed form, the last writer of each field (`ServerRow`).

*Abstractions.* No backoff (a record is due as soon as it may be), one record per run. Queue items that are added
between the search for the marker and the commit (`uploads.py:342` to `349`) are taken as found.

### FleetStatus, Revenue, Dashboard, ClientReport: figures

No variables. Each rule appears as often as the code has it: `effective_statuses` (reference),
`compute_effective_statuses` (SQL), `effective_statuses_rows` (desktop); `revenue_between` and
`revenue_between_rows`; `build_snapshot`'s sections, the backend's `legacy_overview`, the desktop's
`compute_overview_rows`; `get_client_rentals_report` and `_apply_offline_fallback`. A table is a
function from keys to rows, an instant a number, a date a number of a day of `DayLen`
instants; weeks, months and years have fixed lengths; prices divide evenly by days. How many days a
rental has is written twice as well, and differently: `calculate_days` (server) and `_recalculate` (the desktop's
form), section 6. The rankings sort by number of rentals, then revenue, then identifier, as the code's sort keys do (`Before`;
`IdOrder` gives the identifiers' order), so a ranking is one sequence, not one of several.

### DomainStore: the desktop's picture and its clock

*State.* `disk` (SQLite), what a rebuild has read so far (`rows`), the `snapshot`, the overview of
an old server (`server`), the worker thread's copy (`worker`) and the `clock`.

*Steps.* `mutate` and `reload` start a rebuild; `Read` is one query; `Build` derives; `Publish`
validates and tells the window, or keeps the old snapshot and tells nobody; `Rearm` is the clock (the last subscriber); `_fire` is
the timer with `recompute_effective`. `SyncCommit` commits between any two of them, `Tick` lets
time pass, `update_server_dashboard` and `ReplaceSnapshot` are the two halves of the worker's write.

*Abstraction.* The worker copies the snapshot field by field without a lock (`domain_store.py:177`); here the
copy is one reading. A copy that mixes the fields of two snapshots is possible in the code and not in the model:
`StatusesCurrent`, `SnapshotReconciles` and `CatchesUp` are claims about copies that are not torn. The check of the
server's generation (`domain_store.py:151`) is left out because it never drops anything: the only caller
(`main_window.py:710`) passes no generation.

`DomainStoreProps` evaluates the figures on every set of tables this machine meets.

### DashboardRequests: answers that come late

*State.* The window (`_is_online`, whether it has an access token, the last server snapshot), the page (selection,
latest request, what it shows, `_is_live_data`), the coalescing timer, two worker threads.

*Steps.* A worker starts; a window that is online and has a token asks `get_dashboard_summary`, any other goes
to the local mirror. `GetsFigures` is an answer, `GetsNothing` anything else a call can end in: no network, a time-out, a 401
that nothing renews, an error of the server; `ServerContractMismatch` is the 404 of an old server, after which the
legacy endpoints are asked (each a step, the revision may change in between). A local computation may raise: the
worker then reports a failure, and a repaint shows nothing new. `_on_snapshot_done` applies
`AfterAnswer`, the page's rules for what may replace what; `_on_domain_changed`, `_switch_page`,
`_on_period_changed`, `_on_sync_finished` repaint or ask again. A window starts with or without a token, painted once
and with its first request due. A cycle that ends online brings the server's rows only if it has a token
and what it asked was answered (`Pulled`).

### Registry: clients, vehicles, what refers to them, alerts

*State.* The committed rows of five tables, the day, and per worker what a request has read. A
request reads in one step and commits in a later one (`delete_client` … `CommitClientDelete`);
foreign keys act at the commit (SET NULL, RESTRICT, CASCADE); `Fails` is a commit that a constraint
forbids. `scan_and_generate_notifications` and `create_notification` look for an alert before they
write one.

*Bounds.* No request lasts over midnight; once alerts were written by overlapping requests
(`raced`), no further requests overlap. There are fresh keys for what is inserted (`KeysFor`).

### Accounts: locks and sessions

*State.* Account rows, refresh tokens (with the session they continue), per worker the row as
read. `Written` writes only the columns a request changed, so stale requests lose updates as
SQLAlchemy's do. `login` ends in `RefuseLocked`, `RefuseWrong`, `RefuseDisabled` or `LogIn`;
`refresh_tokens`, `logout`, `change_password`, `create_user`, `update_user`.

*Bounds.* No request lasts as long as a lock (`Tick` waits for it).

## 3. Runs

Distinct states as measured with two workers.

| Run | Expect | Properties | Instance | What it shows |
|---|---|---|---|---|
| `race` | pass | `TypeOK` `NoDoubleBooking` `BookingInv` `ClosedRentalsSpared` `BooksCalendar` | 1 vehicle, 2 rentals, 1 ticket, 2 requests at once, 3 slots; 940,476 states | concurrent create, move, push, cancel, complete and a maintenance, with failures at each statement; every commit is a step of the abstract calendar |
| `locks` | pass | `RequestsEnd` | 1 vehicle, 1 rental, 1 ticket, 2 requests, 2 slots; 18,766 states | lock cycles occur and every request still ends |
| `serial` | pass | `MaintenanceWins` | every handler, 1 request at a time, 3 slots, tickets with and without ends, moved, extended, closed late and reopened; 1,814,500 states | requests in series make no open rental overlap an open maintenance that has an end, except by extending an open ticket |
| `safe` | pass | `TypeOK` `KeepsLedger` `AppliedOnce` `InOrder` `PendingEditKept` | 1 vehicle, 2 push requests, 2 edits, 1 edit of others; 4,330,307 states | retries, overlapping requests, restarts, deletes, other users, edits made during a merge; every step is a step of the abstract ledger |
| `live` | pass | `Delivered` `Converges` | a new vehicle, 1 request, 2 edits, passing faults; 117,189 states | every edit is decided; the desktop comes to show the server's row |
| `store` | pass | `TypeOK` `DerivationsAgree` `OfflineFiguresAgree` `EndpointsAgree` `RevenueSplits` `SnapshotReconciles` `StatusesCurrent` `InterruptedRevenueFrozen` `CatchesUp` | 2 vehicles, 2 rentals, 1 ticket, 4 instants in days of 2, 2 transactions or server answers; 244,619 states | the store and its clock, and all figures on every set of tables met |
| `session` | pass | `NoForgottenSync` `SomeoneCanRefresh` `ChangesReachDesktop` | 2 threads, 6 token pairs, 1 change, 1 expiry, cut or click; 1,043,018 states | scheduling, token rotation on two sides, a lossy socket |
| `figures` | pass | `FiguresKept` `ServerFiguresNotDowngraded` `SettlesOnServer` | 2 workers, 2 periods, 1 change, 1 cut, 1 click, with and without a token; 1,103,900 states | late, superseded, failed and refused answers |
| `offline` | pass | `TypeOK` `FileKeptUntilConfirmed` `UploadedOnce` `ReplacedEverywhere` `UploadsSettle` | 3 forms, 2 documents, 2 attempts, 1 cut, 1 fault, 1 crash; 580,372 states | the files of a record from the form to the server |
| `registry` | pass | `AlertedOnce` `ReadIsSeen` `HistoryKept` `ExpiryAnnounced` | 1 client, 1 vehicle, 1 rental, 1 ticket, 2 requests, 2 days, 2 edits; 422,233 states | deletions that meet bookings, scans that meet scans |
| `accounts` | pass | `SessionsStayEnded` `FullBudget` | 1 account, 4 tokens, 2 passwords, 2 requests at once, 8 in all, 3 attempts; 781,232 states | locks that run out, rotation, logout, new password |
| `phantom` | violation | `SyncedWasApplied` | 1 vehicle, 2 edits | a stored refusal is answered `ok` on retry |

**Why the bounds are enough.** Double booking is about two rentals of one vehicle; every rule
compares two rows, so two rentals and a ticket show each pair of kinds. Three slots give
intervals that overlap, touch and contain one another, and a `now` before,
within and after each. Two requests at once already give every pairwise interleaving, the lock
cycle and the wait of a `FOR UPDATE`; for more, the theorems of section 5 hold. `locks` leaves out
update and completion of rentals, which take the same locks in the same order as cancelling. In
`SyncProtocol` two edits suffice for order and for a batch, two retries for the limit to be
reached by one item while another still counts, two requests for an overlap of the first try with
its repetition, one edit of others for a server's row that the desktop has not seen; a row the desktop brings
to a version of its own, or a bootstrap puts back, gives the other order of versions.

In `store` the starting tables and the row changes are listed in `MCDomainStore`: rentals out, booked,
interrupted, completed early, of a sold vehicle; tickets with and without an end; a deleted vehicle; between
them every branch of the derivations is taken, and two transactions put one between any two
reads. In `session` one disturbance is one expiry, cut or click at any moment, and a lost answer in
addition; two threads overlap when one is about to finish. `figures` needs two workers for
answers out of order. In `offline` two documents make one record overtake the other, and two
attempts make a record be given up. In `registry` a scan and a deletion each meet every other
request; eight alerts are more than two edits and two days can write. In `accounts` three wrong
passwords arm a lock, and eight requests allow a lock, its end and a second round, or four
generations of a token.

**Where a bound or a premise restricts a claim.** `MaintenanceWins` is about requests in series, and excepts two steps
the code does not guard: those that leave a ticket without any end (or with an empty period), for which the cancelling query and the
trigger look at different periods (`EndsAgree`), and those that give an open ticket an earlier start or a later
end (`Widened`), since an update cancels rentals only when it makes a ticket blocking (section 6, items 3 and 18).
`PendingEditKept` excepts an edit made after the merge in progress has read the queue (`Overtaken`; item 19): it is overwritten on
screen by that merge, but stays in the queue, and `Delivered` and `Converges` hold for it as for any other.
`SettlesOnServer` excepts a window the server does not serve (`Unserved`): one without a token,
after an offline login, and one that asks again and again and is not answered any more (a token refused for good, item 7,
or a server that keeps failing). `InOrder` holds with `Faults = FALSE`: after a passing fault of one item, later edits of
the row go first and the retry then counts as a newer one. `Converges` excludes rows with
an edit that was given up or whose refusal was taken for success (`phantom`), and `live` uses
one edit of others: with two, the local version may stay ahead of the server's, and pulls
ignore the server's row as stale. `ChangesReachDesktop` excludes a window that is stranded (its tokens are no
longer good for anything, section 6), `SomeoneCanRefresh` lost answers and two cycles at once.
`OfflineFiguresAgree` excludes rentals interrupted as MAINTENANCE_URGENT. `AlertedOnce` and
`ReadIsSeen` exclude requests that overlapped while writing alerts (nothing locks), `SessionsStayEnded` sessions
in which a refresh overlapped another request. `UploadedOnce` and `ReplacedEverywhere` are stated without
crash or failed call, the latter for documents whose marker was neither pushed nor loaded into a form.
`StatusesCurrent` excludes boundaries that passed between derivation and arming.

## 4. Fairness

*FleetBooking, `FairSpec`*: strong fairness of each request's next statement. A statement that can
run does run; one that waits for a lock can be passed over by others, but PostgreSQL
grants a lock to its waiters in arrival order, so a statement that becomes possible
again and again is executed. Nothing is assumed of clients, of the clock, or that requests
fail. Aborting a deadlock's victim is a statement of the victim (`deadlock_timeout`).

*SyncProtocol, `FairSpec`*: the desktop's engine keeps going (the timer starts a cycle every
30 seconds, and realtime events start more), the server makes progress on each request,
and from some time on there are no more disruptions: crashes, lost messages, timeouts with a live
request. Without that last assumption nothing offline-first can be promised. Strong
fairness of `ApplyPulledItems` only says that a crash does not strike again and again for ever in exactly the moment
between a merge's reading of the queue and its commit. Users' and other users' actions carry no fairness.

*SyncSession*: a write that was announced is committed, the network comes back, queued events are
handled, threads run, the timer of 30 seconds fires again and again (strongly, since a running cycle
disables what it starts). Nothing is assumed of the socket, of polling or of the pages, so the
announcements may all be lost.

*DashboardRequests*: the network comes back, threads run and their signals are handled, a cycle ends again
and again, the coalescing timer fires (strongly: it needs a free worker). Nothing is assumed of what the server answers.

*OfflineDocuments*: the network comes back, the sync thread runs, and a record that is due again and again
is tried (the processor goes through the due records in order before it goes on).

*DomainStore*: the UI thread's event loop runs and a reload is asked for when it is idle (the end of a sync
cycle does so every 30 seconds).

*Registry*: a request ends, clients poll, and not every scan fails. *Accounts* states no liveness.

## 5. Proofs

TLC shows a property on one small instance; the theorems hold for **every** value of the constants: any sets of
vehicles, rentals, tickets, workers, clients, accounts, tokens, edits, threads or documents, any horizon and any
bound on faults, retries and attempts, within the assumptions below.

| Theorem | Module | What is proved |
|---|---|---|
| `TypeCorrect` | `FleetBookingProofs` | `Spec => []TypeOK` |
| `BookingInvariant` | | `Spec => []BookingInv`, the inductive invariant |
| `NeverDoubleBooked` | | `Spec => []NoDoubleBooking` |
| `MaintenanceSparesClosed` | | `Spec => ClosedRentalsSpared` |
| `ImplementsCalendar` | | `Spec => BooksCalendar`, the refinement |
| `MaintenanceWinsInSeries` | | `MaintenanceWins`, for one request at a time |
| `HistoryInvariant`, `HistoryIsKept` | `RegistryProofs` | `Spec => []HistoryInv`, `Spec => HistoryKept` |
| `AlertInvHolds` | | `Spec => [](~raced => AlertInv)` |
| `AlertedOnceHolds`, `ReadIsSeenHolds` | | `AlertedOnce`, `ReadIsSeen` |
| `ProtocolInvHolds` | `SyncProtocolProofs` | `Spec => []ProtocolInv` |
| `TypeCorrect`, `MarkedWasStoredHolds` | | `[]TypeOK`, `[]MarkedWasStored` |
| `AppliedOnceHolds`, `PendingEditKeptHolds` | | `AppliedOnce`, `PendingEditKept` |
| `LedgerInvHolds`, `ImplementsLedger` | | `Spec => []LedgerInv`, and `Spec => KeepsLedger`, the refinement (with passing faults) |
| `OrderInvHolds`, `InOrderHolds` | | `[]OrderInv` and `InOrder`, without passing faults (`~Faults`) |
| `AccountsInvHolds` | `AccountsProofs` | `Spec => []AccountsInv` |
| `SessionsStayEndedHolds`, `FullBudgetHolds` | | `[]SessionsStayEnded`, `FullBudget` |
| `SessionInvHolds`, `TypeCorrect` | `SyncSessionProofs` | `Spec => []SessionInv`, `[]TypeOK` |
| `NoForgottenSyncHolds`, `SomeoneCanRefreshHolds` | | `[]NoForgottenSync`, `[]SomeoneCanRefresh` |
| `StoreInvHolds`, `TypeCorrect` | `DomainStoreProofs` | `Spec => []StoreInv`, `[]TypeOK` |
| `StatusesCurrentHolds`, `InterruptedRevenueFrozenHolds` | | what is shown between two wake-ups, closed periods |
| `DerivationsAgreeHolds`, `RevenueSplitsHolds` | | the three derivations; the split of money over periods |
| `OfflineFiguresHold`, `EndpointsAgreeHolds` | | `[]OfflineFiguresAgree` (cards, rankings and files), `[]EndpointsAgree` (periods and ranges, files against badges) |
| `ValidInvHolds`, `SnapshotReconcilesHolds` | | `Spec => []ValidInv`, `[]SnapshotReconciles` |
| `UploadInvHolds`, `TypeCorrect` | `OfflineDocumentsProofs` | `Spec => []UploadInv`, `[]TypeOK` |
| `FileKept`, `UploadedOnceHolds`, `MarkersReplaced` | | `FileKeptUntilConfirmed`, `UploadedOnce`, `ReplacedEverywhere` |
| `FiguresInvHolds` | `DashboardRequestsProofs` | `Spec => []FiguresInv` |
| `FiguresKeptHolds`, `NotDowngraded` | | `FiguresKept`, `ServerFiguresNotDowngraded` |

*Assumptions* (named, evaluated by TLC in the runs). They say what a value is, never what the program does.
`FleetBooking`: `TimeAssumption` (slots and the day are natural numbers), `KeyAssumption` (the
three tables' keys are distinct UUIDs), `NullAssumption` (NULL and the absent row are no values),
`RequestAssumption` (requests have the form the schemas declare); `FleetBookingProps`: `WindowAssumption` (the absent
row is no window). `Registry`: `DaysAreNumbers`; `RegistryProps`: `MarksAreNoRows` (the marks for an
absent and a deleted row are no rows, NULL is no client). `SyncProtocol`: `BoundAssumption` (bounds are natural numbers, retries and batches positive),
`EntityAssumption` (vehicles and reservations have distinct keys), `AbsentAssumption` (the marks for "no row" and "no
request" are none). `Accounts`: `NumbersOfAccounts` (attempts, days and passwords are numbers),
`FirstPasswordIsOne`, `AbsentIsNoRow`. `SyncSession`: `PairsAreNumbered`. `FleetStatus`:
`FarFutureIsInstant`; `Revenue`: `CalendarUnits` (a day has instants, a week days, and so on). `Dashboard`: `IdentifiersDiffer`
(different vehicles have different identifiers, which have an order). `DomainStore`:
`TablesAreTables` (what is on the disk first, and what commits later, are tables of finitely many rows with the
columns the models declare), `TimeIsBounded`. `OfflineDocuments`: `BoundsAssumption`. `DashboardRequests`:
`MonthIsOffered` (the page starts with a period it offers), `NoneIsNoDto`. PostgreSQL's exclusion constraint
is not assumed to keep the table clean: only its row-by-row behaviour (wait, or refuse) is in
the model, and what it adds up to under commits and rollbacks in any order is proved.

*Argument for the calendar.* `NoDoubleBooking` speaks of committed rows and is not inductive: a commit makes
uncommitted versions committed. `BookingInv` adds

* `VersionsOK`: no two versions that may come to be committed together clash. Two committed ones,
  two latest ones (both transactions commit), and, when two rows have different owners, the
  committed version of one with the latest of the other (one commits, the other rolls back). A write
  preserves it because the constraint looks at both versions of every other row;
* `LocksOK`: an unlocked row has one version; a rental is never removed;
* `SessionInv`: what a request in progress knows: the row it loaded has the type its
  next statement expects (`LoadedOK`), it still owns the ticket it works for
  (`TicketHeld`), and a maintenance owns only rentals that are open in their committed version
  (`SessionOK`), which is what `ClosedRentalsSpared` needs at commit.

`BookingInv` together with `TypeOK` is inductive (`InitInv`, `NextInv`, `Invariance`); TLC checks it as
an invariant of `race`.

*Argument for the refinement.* The abstract `Book` and `Move` change one rental, `Release` any number. That a
commit is one of them needs to know what a request may have written by then: `WrittenOK` says that a maintenance
has only cancelled rentals, and any other request has written the one rental it is about, on its
vehicle. With `BookingInv` it is inductive. A statement other than `Commit` leaves the committed rows, hence is a
stutter; a commit that changes a window finds it fitting because of `VersionsOK`.

*Argument for maintenance.* `MaintenanceWins` fails when a rental and a ticket are written at the same time (section 6, item
2), so the theorem assumes `OneAtATime`; what the code does not guard in series is in the property itself.
`SerialInv` says that whatever is in conflict in the latest versions, and was not before the request, is still to be
cancelled (`ToCancel`), at whichever statement the request is, as long as its ticket may be committed under the
property (`Committable`: it has an end, and is not wider than before). The trigger preserves it when a rental is written;
`AfterTicket` when a ticket comes to block its period: a ticket that blocked before and is not wider
has no new conflicts, any other goes to the scan. The scan looks at `OwnTicket`, the object in
the session, which in series is the row; the scan and the cancelling go through the rentals one by one. TLC was
run on `SerialInv` before the proof.

*Argument for the history.* `HistoryKept` compares what a deletion has counted with what is there when it commits.
`HistoryInv` says that a rental that existed when the client's rentals were counted and still refers to the client
was counted. Other requests preserve it if they are `Harmless`: a row changes its status, loses its client or
goes, and a new row has a key no row ever had, which in turn needs that two requests about to
insert have different keys. The row inserted in between, which loses its client, is the case the property leaves out;
the code has it.

*Argument for alerts.* `AlertInv` holds until two requests that write alerts overlap (`raced`). Up to then at most
one scan and at most one raising request are between their reads and their commit (`OneWriter`), what the scan found
missing is missing still (`ScanFresh`), and the unread alert a raise found is still the unread one, unless its vehicle has gone
(`RaiseKnows`). Hence nothing is written twice, and no news goes into an alert that has been read.

*Argument for the protocol.* `MarkedWasStored` (a final status on the desktop has a stored outcome) speaks of the queue on the desktop and of the server's keys, and an
outcome is in between for a long time: in the request's results, in an answer under way, in an answer being worked
off. `ProtocolInv` follows it: wherever an outcome is (`RequestsInv`, `ThreadInv`), it is stored with the request that
has not committed yet, or for good (`StoredInv`). `LocksInv` says that a key a request owns is new, so that two
requests with the same items cannot both apply one, which gives `AppliedOnce`. `EditsInv` says that a
row, wherever it is, bears the number of an edit of that row, and that only an update meets a conflict; `PendingEditKept`
needs it of what a pull or a conflict may put in the row's place, and that while a merge is going on, every edit older
than its reading of the queue which still waits is among those it skips.

*Argument for the ledger.* Of all the steps only commits, `MarkItem` and the user's edits are seen in the ledger; the
others must be shown to leave it alone. `LedgerInv` adds to `ProtocolInv` what these three need. `AuthorsInv`: a row that
a request holds is the work of an edit accepted in the same request, whose key it holds too; hence whatever a
commit changes, one of the outcomes it stores explains, also when a request with several edits of a row writes it
several times, and a savepoint that fails takes neither or both away. `ConflictsInv` follows a conflict through results
and answers to the key that stores it. `OpenInv`: what the sync thread waits for has not been reported, except the item whose
version it is about to adopt, so nothing is told twice, although `MarkItem` and `AdoptVersion` are two commits and a
restart may fall between them. No step needs `~Faults`.

*Argument for the order of edits.* `InOrder` speaks of one write, but what makes it true was decided requests earlier.
`SettledInv`: a request takes the older updates of its rows along (`TakesAlong`: `get_pending` leaves an item out only
together with all later ones, or because it has been tried), and an update the desktop or a request is done with is
settled: its key is stored, or its row is deleted for good. Without passing faults a failed update is settled too, since
it met its own key or a row deleted after it was loaded (`LoadedInv`, `DeletedInv`); with them it is not, and this is the
only step of the proof that assumes `~Faults`. `CreatedInv` keeps a create from
writing over a deleted row. So when an update writes a row, every older one of that row is stored with it (`BehindInv`), and
an update whose key is not stored yet is newer than what the row bears. TLC has also checked `OrderInv` on
instances with three edits and with new rows.

*Argument for accounts.* `SessionsInv`: until two requests of a session overlap, one token of it is live or is just
being replaced by one refresh, and an ended session has none. `BudgetInv`: the counter is never ahead of the wrong
passwords since the last lock was over, neither in the row nor in what a login under way has read of it, and logins that meet
a lock that is over have all read the same row; hence a lock is always earned anew.

*Argument for the session.* `NoForgottenSync` is inductive with the types: a request that finds a thread running sets the
pending flag, and the handler of the thread's end reads it before anything else can run on the UI thread.
`SomeoneCanRefresh` needs `RotationInv`: as long as no cut, no lost answer and no two cycles at once disturbed the
session, the live pair is the `ApiClient`'s, the running cycle's, or, when none runs, the window's, and a
cycle's new pair is nobody else's; `OneAtATime` ties the events still in the queue to the phase of the one cycle.

*Argument for the store.* `StoreInv`: a snapshot holds, for its own rows, the statuses of the instant it was derived at; the
timer is due no later than the first boundary after it was armed; a rebuild's rows are tables. `StatusesStable` proves
that no status changes between two boundaries, for any tables: this and the timer give `StatusesCurrent`. That the
SQL, the Python and the desktop's derivation agree (`DerivationsAgree`) is proved rule by rule, and their
counts by the sets they count. Sums are folds over finite sets; what a sum does when a term is added is proved by
induction over finite sets with a *set* of good subsets in place of a predicate, and `RevenueSplits`,
the cards and the files follow.

*Argument for the figures.* A ranking is defined by the place of each vehicle: the number of vehicles before it. `Before` is a
total order by `IdentifiersDiffer` (`BeforeIsOrder`), so places are `1 .. n`, each taken once (`PlaceFacts`,
`PlaceTaken`), and the sequence is determined by its places (`RankedFacts`, `RankedAlike`): no induction over sorting is
needed. The server and the desktop rank the same vehicles with the same figures, which are sums with equal
terms; hence equal rankings. `SnapshotReconciles` follows from `StoreInv` (a snapshot's statuses are those of its own rows, so the
buckets of a status add up to the fleet) and from `ValidInv`: the picture shown may be the worker's copy, or have been
given an old server's overview, and it was valid when it was built, repainted or replaced. A client's file agrees with
the badges because a rental that covers now makes its vehicle at least RENTED in the derivation (`FilesAndBadges`).

*Argument for uploads.* `UploadInv`: `FilesInv` (what a marker mentions has its file, and a file is archived only when the
server has it), `OnceInv` (what the server has was sent by the form, or its record is done or about to be, as long as no
crash and no failed call came in between), `HandlerInv` and `LeakedInv` (a marker that no form loaded and no push sent has
no record before its handler commits one), `ReplacedInv` (a marker whose record is done is neither in the row nor in
the queue), `RowInv` (nor in a row the sync thread has loaded in order to write it back).

*Argument for the dashboard.* `FiguresInv`: figures of the server that are on the page, or that a thread has handed over, are
held by the window (`_last_server_snapshot`), and the page knows them for live (`_is_live_data`); only the server's figures are ever held. That is what
`AfterAnswer` and the repaints need so as not to blank the figures or to put the mirror's in their place.

*Only model-checked.*

* Liveness (`RequestsEnd`, `Delivered`, `Converges`, `CatchesUp`, `ChangesReachDesktop`, `SettlesOnServer`,
  `UploadsSettle`, `ExpiryAnnounced`): fairness and `ENABLED` are out of the prover's reach.

## 6. Where the code and its words disagree

One is a run with a counterexample, which `PROJECT.json` quotes:

1. `phantom`: keys "ensure safe retries", but a record is stored for a refused item too and
   every stored record is answered `ok`. When the first answer is lost, the desktop shows a refused
   edit as synced.

The others were met while modelling; the model contains the behaviour, and the property's premise or
the run's bounds name it (section 3).

2. "maintenance WINS … atomically cancels" (`models/maintenance.py:106`) holds only
   for rows that are already committed: the cancelling query does not see an uncommitted rental, the
   trigger no uncommitted ticket. With two requests TLC finds the overlap.
3. A ticket without an end "occupies the vehicle until closed" (`rental_repository.py:116`), but the
   trigger ends it after one day, and the trigger is all that guards a pushed reservation.
4. "optimistic concurrency control via version column" (`models/base.py:29`), but the desktop
   sends the version after its own increment, so one unseen edit of another user passes.
5. "a server-rejected reservation must NOT remain RESERVED locally" (`engine.py:182`), but a
   constraint that fails inside the savepoint is answered `error`, never `conflict`; the
   item is retried until it is given up and the row is not reverted.
6. A client edit with an unreplaced marker is answered `rejected` after other columns were written
   (`sync_service.py:521`); the retry is answered `ok`, so the document does not reach the server by this
   way. "Without this the marker would stay in PostgreSQL forever" (`client_edit.py:396`) describes what an edit
   that loaded the form before the upload still does.
7. `api_client.py:120` speaks of a "single refresh path"; there are two, in the `ApiClient` and in the
   engine, with a copy of the tokens each, and the window gives every thread its own older copy. After
   an `ApiClient` refresh the engine's refresh is refused for ever: the window is stranded until the next login. A
   window opened by the offline login has no token and never syncs, although it reports to be online. Neither
   settles on the server's figures (`Stranded` in `ChangesReachDesktop`, `Unserved` in `SettlesOnServer`).
8. A forced bootstrap that meets a running cycle is remembered as an ordinary sync, and a
   bootstrap with an expired access is given up without a refresh (`main_window.py:837`, `engine.py`).
9. `dashboard_cache.py:57` counts rentals interrupted as "MAINTENANCE" only, while
   `api/v1/maintenance.py:271` also writes "MAINTENANCE_URGENT": offline revenue is lower.
10. `available` means two things: the server's includes vehicles booked for later, the desktop's does not.
11. The file of a client is matched by link, name and phone online, by name and phone offline; and
    "never contradicts the vehicle's own RENTED badge" (`client_service.py:186`) holds in one direction only: a
    rental under way is counted also while its vehicle is in maintenance or sold.
12. `boundary_clock.py` arms its timer for boundaries after the moment of arming, the snapshot holds statuses of the
    moment the reload began; a boundary in between waits for the next reload. The period cards also
    change at each rental's own hour, which is no boundary, and the midnight compared in
    `recompute_effective` is UTC's (`domain_store.py:538`), the timer's Casablanca's.
13. `update_server_dashboard` runs on a worker thread and replaces the snapshot by a copy it took
    earlier (`main_window.py:710`): an older picture may come back until the next reload.
14. With an old server whose revenue endpoint fails the dashboard shows a revenue of 0.0 as live (`main_window.py:649`),
    against the docstring at line 595. (Read in the source; the model has no figures in a snapshot.)
15. `create_maintenance` commits the ticket before its alert, in another transaction; a client edit commits its row before
    its queue item (`client_edit.py`): a crash in between loses the alert, or keeps the edit
    from the server.
16. `email_exists` compares as written, the login's lookup does not (`user_repository.py:21`).
17. "Partial days count as full" (`rental_service.py:36`): the server counts every 24 hours begun, the
    desktop's form the dates in between (`reservation_list.py:348`), and a push stores the desktop's `num_days` as sent
    (`sync_service.py:333`): the same rental of 25 hours has two days or one, depending on where it was entered.
18. "transitions the ticket INTO an active/blocking state" (`maintenance.py:522`) is the only case in which an update
    cancels rentals. A PATCH that moves an open ticket's start to an earlier time or its end to a later one
    (`maintenance.py:516`; the schema accepts both) leaves open rentals in the added time, and the trigger looks only
    at rentals that are written.
19. "Skipping pulled item … pending local mutation exists" (`engine.py:287`): the identifiers are read at line 276 (578 in
    `bootstrap`) and the merge commits at 501 (769). An edit the user saves in between is overwritten in the local row, column by
    column, by the server's older row, unless SQLite's lock keeps it waiting; it is still pushed. A bootstrap does so
    without comparing versions, so the row may get an older version again, and the next edit is then a conflict.
20. A vehicle's images saved while one of its markers is being replaced (`uploads.py:303`) are lost from `image_url`: the
    column is written back as it was loaded.
21. "a ticket can never be 'en cours' while its vehicle is not 'en maintenance' on the fleet card"
    (`dashboard_reference.py:234`), except that a sold or inactive vehicle with an open ticket stays in its own bucket; `SnapshotReconciles`
    counts exactly these.

## 7. What is not modelled

* **Mobile application.** It reads only; its revision guard, ticker and Kotlin ports of the derivations are the next
  module. The bootstrap's revision (`sync_service.py:995`) matters to it alone.
* **In the modelled components**: the second clause of the bootstrap guard (`local_total > 5`), the purge of orphans,
  the revenue of a custom range on the page (a second request of the same form), prices other than the sums above, parts, audit
  texts, event payloads, columns that nothing depends on, image uploads online, backoff times,
  `clear_server_dashboard` (called by nothing), the `cancelled_at` that the desktop's `_create_maintenance_record` leaves out
  (the row is overwritten by the next pull). Windows with `end <= start` are refused
  before they reach the tables and are not requests here.
* **User interfaces**: widgets, layout, translation. The hover preview keeps a cache of images whose `invalidate` deletes
  by `url` while its keys are `vehicle_url`, so nothing is ever invalidated; nothing else depends on it.
* **Migrations, packaging, deployment**: run once, by hand.

## 8. Plan

1. **MobileSnapshot**: revision guard of bootstraps, including the revision that falls when
   the newest row is deleted.
2. **Vehicles' life in FleetBooking**: creation and deletion with foreign keys, so that the calendar's theorems
   cover the cascade that `Registry` has; the orphan a desktop keeps after a deletion by sync.
3. **Stronger ledger**: an abstract specification that also keeps the order of edits of one row
   (`InOrder`, without passing faults) and what the desktop shows of it, so that one refinement states all of them.
