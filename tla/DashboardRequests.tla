-------------------------- MODULE DashboardRequests --------------------------
(***************************************************************************)
(* How the dashboard page of the desktop gets its figures.  The page asks  *)
(* a provider of the main window from a worker thread of its own; the      *)
(* provider asks the server while the window believes to be online and     *)
(* computes from the local database otherwise.  A sync cycle decides what  *)
(* the window believes, and every published revision repaints the page     *)
(* from the best payload in hand, with no request.                         *)
(*                                                                         *)
(* Only a window with a token asks the server at all; a login that the     *)
(* server did not answer leaves it without one.  What it asks may fail     *)
(* although the network works: a token that is refused and not renewed     *)
(* (SyncSession.tla has how that happens), an error of the server.         *)
(*                                                                         *)
(* A snapshot is a record: where its figures come from, for which period,  *)
(* of which revision of the server's data.  What the figures are is the    *)
(* subject of Dashboard.tla.                                               *)
(***************************************************************************)
EXTENDS Integers, FiniteSets

CONSTANTS
  Workers,               \* worker threads of the page; one that has ended is used again
  Periods, Month,        \* what the period box offers, and what it shows at first
  MaxRev,                \* bound on the changes on the server
  MaxCuts, MaxClicks,    \* bounds on cuts of the network and on changes of the period
  None

ASSUME MonthIsOffered == Month \in Periods

\* What a page can show: figures and where they come from.
Dto == [source : {"server", "local"}, period : Periods, rev : Nat]
ASSUME NoneIsNoDto == None \notin Dto

VARIABLES
  db,       \* revision of the server's data
  net,      \* TRUE while the network works
  mirror,   \* revision of the local snapshot
  win,      \* MainWindow: _is_online, the last server snapshot, has it a token
  page,     \* the page: on screen, selection, the latest request while it runs, _dto,
            \*   _is_live_data
  fetch,    \* the timer of 120 ms that coalesces requests
  worker,   \* SnapshotWorker: phase, period, snapshot so far
  left      \* what is left of MaxCuts and MaxClicks

vars == <<db, net, mirror, win, page, fetch, worker, left>>

Idle == [phase |-> "free", period |-> None, dto |-> None]

Snapshot(source, period, rev) == [source |-> source, period |-> period, rev |-> rev]
build_local_snapshot(period)  == Snapshot("local", period, mirror)

IsServer(dto) == dto # None /\ dto.source = "server"

Commit ==
  /\ db < MaxRev /\ db' = db + 1
  /\ UNCHANGED <<net, mirror, win, page, fetch, worker, left>>
Cut ==
  /\ net /\ left.cuts > 0 /\ net' = FALSE /\ left' = [left EXCEPT !.cuts = @ - 1]
  /\ UNCHANGED <<db, mirror, win, page, fetch, worker>>
Restore ==
  /\ ~net /\ net' = TRUE /\ UNCHANGED <<db, mirror, win, page, fetch, worker, left>>

(***************************************************************************)
(* The page, on the UI thread                                              *)
(***************************************************************************)
Click == left.clicks > 0 /\ left' = [left EXCEPT !.clicks = @ - 1]

apply_snapshot(pg, dto)  == [pg EXCEPT !.shown = dto, !.live = IsServer(dto)]
apply_unavailable(pg)    == [pg EXCEPT !.shown = None, !.live = FALSE]

request_snapshot(pg) ==
  \E w \in Workers :
    /\ worker[w].phase = "free"
    /\ worker' = [worker EXCEPT ![w] = [phase |-> "start", period |-> pg.period, dto |-> None]]
    /\ page' = [pg EXCEPT !.latest = w]

\* The period box, the dates of a custom period, the button of the card.
_on_period_changed ==
  /\ Click /\ page.visible
  /\ \E p \in Periods : request_snapshot([page EXCEPT !.period = p])
  /\ UNCHANGED <<db, net, mirror, win, fetch>>

FetchTimer ==
  /\ fetch /\ fetch' = FALSE /\ request_snapshot(page)
  /\ UNCHANGED <<db, net, mirror, win, left>>

\* A cache snapshot never lands on what the page takes for live.
Lands(pg, dto) == IF ~IsServer(dto) /\ pg.live THEN pg ELSE apply_snapshot(pg, dto)

\* Mutant: a failed refresh blanks the page.
BlankOnFailure(pg, w) ==
  CASE w # pg.latest -> pg
    [] w = pg.latest /\ worker[w].dto # None -> Lands(pg, worker[w].dto)
    [] OTHER -> apply_unavailable(pg)

\* Mutant: whatever the latest request brings is shown.
ShowWhateverCame(pg, w) ==
  CASE w # pg.latest -> pg
    [] w = pg.latest /\ worker[w].dto # None -> apply_snapshot(pg, worker[w].dto)
    [] OTHER -> IF pg.shown # None THEN pg ELSE apply_unavailable(pg)

\* What the page makes of an answer: a superseded one is dropped, and a failure
\* leaves the figures that are there (the banner says so).
AfterAnswer(pg, w) ==
  CASE w # pg.latest -> pg
    [] w = pg.latest /\ worker[w].dto # None -> Lands(pg, worker[w].dto)
    [] OTHER -> IF pg.shown # None THEN pg ELSE apply_unavailable(pg)

_on_snapshot_done(w) ==
  /\ worker[w].phase = "done"
  /\ page' = [AfterAnswer(page, w) EXCEPT !.latest = IF w = @ THEN None ELSE @]
  /\ worker' = [worker EXCEPT ![w] = Idle]
  /\ UNCHANGED <<db, net, mirror, win, fetch, left>>

(***************************************************************************)
(* MainWindow, on the UI thread                                            *)
(***************************************************************************)
\* The held server snapshot while online, whatever its period; else the mirror.
BestKnown(online, held, rev, period) ==
  IF online /\ held # None THEN held ELSE Snapshot("local", period, rev)

\* The page pg repainted; what goes wrong in a local computation is only logged.
_render_dashboard_from_best_known(pg, online, rev) ==
  LET best == BestKnown(online, win.held, rev, pg.period) IN
  {apply_snapshot(pg, best)} \cup (IF IsServer(best) THEN {} ELSE {pg})

\* The last thing a new window does is to visit the dashboard: a page that takes
\* its data for live is repainted, and the first request is due.
Init ==
  /\ db = 0 /\ net = TRUE /\ mirror = 0
  /\ \E token \in BOOLEAN : win = [online |-> token, held |-> None, token |-> token]
  /\ page \in _render_dashboard_from_best_known(
       [visible |-> TRUE, period |-> Month, latest |-> None, shown |-> None, live |-> TRUE],
       win.online, mirror)
  /\ fetch = TRUE
  /\ worker = [w \in Workers |-> Idle]
  /\ left = [cuts |-> MaxCuts, clicks |-> MaxClicks]

\* A published revision: a local edit, a boundary of time, a tab visit elsewhere.
_on_domain_changed ==
  /\ page' \in _render_dashboard_from_best_known(page, win.online, mirror)
  /\ UNCHANGED <<db, net, mirror, win, fetch, worker, left>>

\* The dashboard is left, or visited; the refresh button and another language do on
\* it what a visit does.
_switch_page ==
  /\ \/ /\ page.visible /\ page' = [page EXCEPT !.visible = FALSE] /\ UNCHANGED fetch
     \/ /\ fetch' = TRUE
        /\ page' \in _render_dashboard_from_best_known([page EXCEPT !.visible = TRUE],
                                                       win.online, mirror)
  /\ UNCHANGED <<db, net, mirror, win, worker, left>>

\* What a cycle that ended online has made of the mirror: nothing without a token,
\* or when what it asked was refused or failed.  (Rows a cycle committed are read
\* when its report is handled.)
Pulled == IF win.token THEN {mirror, db} ELSE {mirror}

\* Mutant: the end of a sync cycle repaints and asks for nothing.
RepaintOnly ==
  /\ win' = [win EXCEPT !.online = net]
  /\ \/ /\ net /\ mirror' \in Pulled
        /\ page' \in _render_dashboard_from_best_known(page, TRUE, mirror')
     \/ ~net /\ UNCHANGED <<mirror, page>>
  /\ UNCHANGED <<db, net, fetch, worker, left>>

\* A cycle that ended online repaints from the reloaded mirror and asks for fresh
\* figures; one that did not leaves the page as it is.
_on_sync_finished ==
  /\ win' = [win EXCEPT !.online = net]
  /\ \/ /\ net /\ mirror' \in Pulled
        /\ page' \in _render_dashboard_from_best_known(page, TRUE, mirror')
        /\ fetch' = (fetch \/ page.visible)
     \/ ~net /\ UNCHANGED <<mirror, page, fetch>>
  /\ UNCHANGED <<db, net, worker, left>>

(***************************************************************************)
(* _dashboard_snapshot_provider, on a worker thread                        *)
(***************************************************************************)
At(w, phase) == worker[w].phase = phase
Goes(w, phase, dto) == worker' = [worker EXCEPT ![w].phase = phase, ![w].dto = dto]
Quiet == UNCHANGED <<db, net, mirror, page, fetch, left>>

Start(w) ==
  /\ At(w, "start")
  /\ Goes(w, IF win.online /\ win.token THEN "summary" ELSE "local", None)
  /\ Quiet /\ UNCHANGED win

\* /dashboard/summary, the whole snapshot at one instant, or /dashboard/stats.
GetsFigures(w) ==
  /\ net
  /\ \/ At(w, "summary") /\ Goes(w, "answered", Snapshot("server", worker[w].period, db))
     \/ At(w, "stats") /\ Goes(w, "revenue", Snapshot("server", worker[w].period, db))
  /\ Quiet /\ UNCHANGED win

\* No network, a time-out, a refused token, an error of the server.
GetsNothing(w) ==
  /\ At(w, "summary") \/ At(w, "stats")
  /\ Goes(w, "failed", None) /\ Quiet /\ UNCHANGED win

\* A server that predates the endpoint answers 404, to any token.
ServerContractMismatch(w) ==
  /\ At(w, "summary") /\ net /\ Goes(w, "stats", None) /\ Quiet /\ UNCHANGED win

\* After /dashboard/stats the revenue and the ranking are asked for; whatever becomes
\* of that, the figures are used.
_fetch_legacy_server_snapshot(w) ==
  /\ At(w, "revenue") /\ Goes(w, "answered", worker[w].dto)
  /\ Quiet /\ UNCHANGED win

\* Stored from the worker thread, before the page knows whether it still wants it.
_on_server_snapshot(w) ==
  /\ At(w, "answered") /\ Goes(w, "done", worker[w].dto)
  /\ win' = [win EXCEPT !.held = worker[w].dto] /\ Quiet

\* No answer: while online, what the server said before is not replaced.
CouldNotRefresh(w) ==
  /\ At(w, "failed")
  /\ IF win.online /\ win.held # None THEN Goes(w, "done", None) ELSE Goes(w, "local", None)
  /\ Quiet /\ UNCHANGED win

Fallback(w) ==
  /\ At(w, "local")
  /\ \E dto \in {build_local_snapshot(worker[w].period), None} : Goes(w, "done", dto)
  /\ Quiet /\ UNCHANGED win

SnapshotWorker(w) ==
  \/ Start(w) \/ GetsFigures(w) \/ GetsNothing(w) \/ ServerContractMismatch(w)
  \/ _fetch_legacy_server_snapshot(w) \/ _on_server_snapshot(w) \/ CouldNotRefresh(w) \/ Fallback(w)

Next ==
  \/ Commit \/ Cut \/ Restore
  \/ _on_period_changed \/ FetchTimer \/ _on_domain_changed \/ _switch_page \/ _on_sync_finished
  \/ \E w \in Workers : _on_snapshot_done(w) \/ SnapshotWorker(w)

\* The network comes back, threads run and their signals are handled, a sync
\* cycle ends again and again (its timer), and so does the timer it starts.
\* Nothing is assumed of what the server answers.
Fairness ==
  /\ WF_vars(Restore) /\ WF_vars(_on_sync_finished) /\ SF_vars(FetchTimer)
  /\ \A w \in Workers : WF_vars(_on_snapshot_done(w)) /\ WF_vars(SnapshotWorker(w))

Spec == Init /\ [][Next]_vars /\ Fairness
=============================================================================
