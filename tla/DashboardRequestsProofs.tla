----------------------- MODULE DashboardRequestsProofs -----------------------
(***************************************************************************)
(* Proofs about DashboardRequests, for any number of worker threads,       *)
(* periods, changes, cuts and clicks.                                      *)
(***************************************************************************)
EXTENDS DashboardRequestsProps, TLAPS

WorkerState == [phase : Phases, period : Periods \cup {None}, dto : Dto \cup {None}]

LEMMA SnapshotIsDto ==
  ASSUME NEW source \in {"server", "local"}, NEW period \in Periods, NEW rev \in Nat
  PROVE  /\ Snapshot(source, period, rev) \in Dto
         /\ Snapshot(source, period, rev) # None
         /\ IsServer(Snapshot(source, period, rev)) <=> source = "server"
BY NoneIsNoDto DEF Snapshot, Dto, IsServer

\* A step of one thread, after which it is at a phase with a snapshot in hand.
LEMMA Moves ==
  ASSUME FiguresInv, NEW w \in Workers, worker[w].phase # "free",
         NEW phase \in Phases, NEW dto \in Dto \cup {None}, Goes(w, phase, dto),
         UNCHANGED <<db, net, mirror, page>>,
         \/ win' = win
         \/ IsServer(dto) /\ win' = [win EXCEPT !.held = dto],
         phase \in {"revenue", "answered"} => IsServer(dto),
         phase = "done" /\ IsServer(dto) => win'.held # None
  PROVE  FiguresInv'
<1>1. worker[w] \in WorkerState /\ worker[w].period \in Periods BY DEF FiguresInv, TypeOK, WorkerState
<1>2. /\ worker'[w] \in WorkerState
      /\ worker'[w].phase = phase /\ worker'[w].dto = dto /\ worker'[w].period = worker[w].period
      /\ \A x \in Workers \ {w} : worker'[x] = worker[x]
      /\ worker' \in [Workers -> WorkerState]
  BY <1>1 DEF Goes, FiguresInv, TypeOK, WorkerState
<1>3. /\ win' \in Window
      /\ win'.held # None => IsServer(win'.held)
      /\ win.held # None => win'.held # None
  BY DEF FiguresInv, TypeOK, HeldInv, IsServer, Window
<1>4. TypeOK'
  <2>1. \A x \in Workers : worker'[x].phase # "free" => worker'[x].period \in Periods
    BY <1>1, <1>2 DEF FiguresInv, TypeOK
  <2> QED BY <1>2, <1>3, <2>1 DEF FiguresInv, TypeOK, WorkerState
<1>5. HeldInv' BY <1>2, <1>3 DEF FiguresInv, HeldInv, IsServer
<1> QED BY <1>4, <1>5 DEF FiguresInv

LEMMA WorkerKeeps == ASSUME FiguresInv, NEW w \in Workers, SnapshotWorker(w) PROVE FiguresInv'
<1> USE DEF FiguresInv
<1>1. /\ worker[w] \in WorkerState /\ db \in Nat /\ mirror \in Nat
      /\ worker[w].phase # "free" => worker[w].period \in Periods
  BY DEF TypeOK, WorkerState
<1>2. CASE Start(w) BY <1>2, Moves DEF Start, At, Quiet, Phases, IsServer
<1>3. CASE GetsFigures(w)
  <2> DEFINE dto == Snapshot("server", worker[w].period, db)
  <2>1. /\ Quiet /\ UNCHANGED win
        /\ \/ At(w, "summary") /\ Goes(w, "answered", dto)
           \/ At(w, "stats") /\ Goes(w, "revenue", dto)
    BY <1>3 DEF GetsFigures
  <2>2. dto \in Dto /\ IsServer(dto) BY <1>1, <2>1, SnapshotIsDto DEF At
  <2> HIDE DEF dto
  <2> QED BY <2>1, <2>2, Moves DEF At, Quiet, Phases
<1>4. CASE GetsNothing(w) \/ ServerContractMismatch(w)
  <2>1. Quiet /\ UNCHANGED win /\ worker[w].phase # "free"
    BY <1>4 DEF GetsNothing, ServerContractMismatch, At
  <2>2. Goes(w, "failed", None) \/ Goes(w, "stats", None)
    BY <1>4 DEF GetsNothing, ServerContractMismatch
  <2> QED BY <2>1, <2>2, Moves DEF Quiet, Phases, IsServer
<1>5. CASE _fetch_legacy_server_snapshot(w)
  <2>1. At(w, "revenue") /\ Goes(w, "answered", worker[w].dto) /\ Quiet /\ UNCHANGED win
    BY <1>5 DEF _fetch_legacy_server_snapshot
  <2>2. worker[w].dto \in Dto /\ IsServer(worker[w].dto)
    BY <1>1, <2>1 DEF At, HeldInv, IsServer, WorkerState
  <2> QED BY <2>1, <2>2, Moves DEF At, Quiet, Phases
<1>6. CASE _on_server_snapshot(w)
  <2>1. /\ At(w, "answered") /\ Goes(w, "done", worker[w].dto) /\ Quiet
        /\ win' = [win EXCEPT !.held = worker[w].dto]
    BY <1>6 DEF _on_server_snapshot
  <2>2. IsServer(worker[w].dto) /\ worker[w].dto \in Dto
    BY <1>1, <2>1 DEF At, HeldInv, IsServer, WorkerState
  <2>3. win'.held = worker[w].dto /\ worker[w].dto # None BY <2>1, <2>2 DEF TypeOK, Window, IsServer
  <2> QED BY <2>1, <2>2, <2>3, Moves DEF At, Quiet, Phases
<1>7. CASE CouldNotRefresh(w) BY <1>7, Moves DEF CouldNotRefresh, At, Quiet, Phases, IsServer
<1>8. CASE Fallback(w)
  <2> DEFINE local == build_local_snapshot(worker[w].period)
  <2>1. /\ At(w, "local") /\ Quiet /\ UNCHANGED win
        /\ Goes(w, "done", local) \/ Goes(w, "done", None)
    BY <1>8 DEF Fallback
  <2>2. local \in Dto /\ ~IsServer(local) BY <1>1, <2>1, SnapshotIsDto DEF At, build_local_snapshot
  <2> HIDE DEF local
  <2> QED BY <2>1, <2>2, Moves DEF At, Quiet, Phases, IsServer
<1> QED BY <1>2, <1>3, <1>4, <1>5, <1>6, <1>7, <1>8 DEF SnapshotWorker

\* What the window repaints with: server figures if it is online and has some.
LEMMA BestKnownIsDto ==
  ASSUME FiguresInv, NEW online \in BOOLEAN, NEW rev \in Nat, NEW period \in Periods
  PROVE  LET dto == BestKnown(online, win.held, rev, period) IN
         /\ dto \in Dto /\ dto # None
         /\ IsServer(dto) <=> online /\ win.held # None
<1>1. win.held \in Dto \cup {None} BY DEF FiguresInv, TypeOK, Window
<1>2. CASE online /\ win.held # None BY <1>1, <1>2 DEF BestKnown, FiguresInv, HeldInv
<1>3. CASE ~(online /\ win.held # None) BY <1>1, <1>3, SnapshotIsDto DEF BestKnown
<1> QED BY <1>2, <1>3

\* A repainted page shows what the window knows best, or is as it was because a
\* local computation failed, for want of server figures while online.
LEMMA Repainted ==
  ASSUME FiguresInv, NEW pg \in Page, NEW online \in BOOLEAN, NEW rev \in Nat,
         NEW new \in _render_dashboard_from_best_known(pg, online, rev)
  PROVE  /\ new \in Page
         /\ \/ /\ new.shown # None /\ (IsServer(new.shown) <=> online /\ win.held # None)
               /\ new.live <=> IsServer(new.shown)
            \/ new = pg /\ ~(online /\ win.held # None)
<1> DEFINE dto == BestKnown(online, win.held, rev, pg.period)
<1>1. dto \in Dto /\ dto # None /\ (IsServer(dto) <=> online /\ win.held # None)
  BY BestKnownIsDto DEF Page
<1>2. new = apply_snapshot(pg, dto) \/ (new = pg /\ ~IsServer(dto))
  BY DEF _render_dashboard_from_best_known
<1> HIDE DEF dto
<1>3. CASE new = apply_snapshot(pg, dto)
  <2>1. new = [pg EXCEPT !.shown = dto, !.live = IsServer(dto)] BY <1>3 DEF apply_snapshot
  <2>2. IsServer(dto) \in BOOLEAN BY DEF IsServer
  <2>3. new \in Page /\ new.shown = dto /\ new.live = IsServer(dto) BY <1>1, <2>1, <2>2 DEF Page
  <2> QED BY <1>1, <2>3
<1>4. CASE new = pg /\ ~IsServer(dto) BY <1>1, <1>4
<1> QED BY <1>2, <1>3, <1>4

\* The page of a new window, painted from the mirror.
LEMMA InitFigures == Init => FiguresInv
<1> SUFFICES ASSUME Init PROVE FiguresInv OBVIOUS
<1> DEFINE blank == [visible |-> TRUE, period |-> Month, latest |-> None, shown |-> None, live |-> TRUE]
           best  == BestKnown(win.online, win.held, mirror, Month)
<1>1. Idle \in WorkerState /\ Idle.phase = "free" BY DEF Idle, WorkerState, Phases
<1>2. /\ win \in Window /\ win.held = None /\ mirror \in Nat /\ db \in Nat /\ net \in BOOLEAN
      /\ worker \in [Workers -> WorkerState] /\ \A w \in Workers : worker[w].phase = "free"
  BY <1>1 DEF Init, Window
<1>3. best \in Dto /\ ~IsServer(best) BY <1>2, MonthIsOffered, SnapshotIsDto DEF BestKnown
<1>4. blank \in Page /\ blank.period = Month /\ blank.shown = None BY MonthIsOffered DEF Page
<1>5. page \in {apply_snapshot(blank, best), blank}
  BY <1>3, <1>4 DEF Init, _render_dashboard_from_best_known
<1> HIDE DEF blank, best
<1>6. page \in Page /\ ~IsServer(page.shown)
  <2>1. CASE page = blank BY <1>4, <2>1 DEF IsServer
  <2>2. CASE page = apply_snapshot(blank, best)
    <3>1. page = [blank EXCEPT !.shown = best, !.live = FALSE]
      BY <1>3, <2>2 DEF apply_snapshot, IsServer
    <3> QED BY <1>3, <1>4, <3>1 DEF Page
  <2> QED BY <1>5, <2>1, <2>2
<1>7. TypeOK BY <1>2, <1>6 DEF TypeOK, WorkerState
<1>8. HeldInv BY <1>2, <1>6 DEF HeldInv
<1> QED BY <1>7, <1>8 DEF FiguresInv

\* Answers: what a request that is not superseded brings.
LEMMA Answered ==
  ASSUME FiguresInv, NEW w \in Workers, _on_snapshot_done(w)
  PROVE  /\ page' \in Page
         /\ page'.shown # None \/ page.shown = None
         /\ IsServer(page'.shown) => page'.live /\ (page'.shown = page.shown \/ page'.shown = worker[w].dto)
         /\ IsServer(page.shown) => IsServer(page'.shown)
<1>1. /\ page' = [AfterAnswer(page, w) EXCEPT !.latest = IF w = @ THEN None ELSE @]
      /\ page \in Page /\ worker[w].dto \in Dto \cup {None}
      /\ IsServer(page.shown) => page.live
  BY DEF _on_snapshot_done, FiguresInv, TypeOK, HeldInv
<1>2. IsServer(worker[w].dto) \in BOOLEAN BY DEF IsServer
<1>3. CASE AfterAnswer(page, w) = page BY <1>1, <1>3 DEF Page
<1>4. CASE /\ worker[w].dto # None /\ (IsServer(worker[w].dto) \/ ~page.live)
           /\ AfterAnswer(page, w) = [page EXCEPT !.shown = worker[w].dto,
                                                !.live = IsServer(worker[w].dto)]
  <2> DEFINE dto == worker[w].dto
  <2>1. page' = [[page EXCEPT !.shown = dto, !.live = IsServer(dto)]
                   EXCEPT !.latest = IF w = @ THEN None ELSE @]
    BY <1>1, <1>4
  <2>2. dto \in Dto \cup {None} /\ dto # None /\ (IsServer(dto) \/ ~IsServer(page.shown))
    BY <1>1, <1>4
  <2> HIDE DEF dto
  <2>3. IsServer(dto) \in BOOLEAN BY DEF IsServer
  <2>4. page' \in Page /\ page'.shown = dto /\ page'.live = IsServer(dto)
    BY <1>1, <2>1, <2>2, <2>3 DEF Page
  <2> QED BY <2>2, <2>4 DEF dto
<1>5. CASE page.shown = None /\ AfterAnswer(page, w) = [page EXCEPT !.shown = None, !.live = FALSE]
  BY <1>1, <1>5 DEF Page, IsServer
<1> QED BY <1>1, <1>3, <1>4, <1>5 DEF AfterAnswer, Lands, apply_snapshot, apply_unavailable

LEMMA AnswerKeeps == ASSUME FiguresInv, NEW w \in Workers, _on_snapshot_done(w) PROVE FiguresInv'
<1>1. /\ worker[w].phase = "done" /\ worker' = [worker EXCEPT ![w] = Idle]
      /\ UNCHANGED <<db, net, mirror, win>>
  BY DEF _on_snapshot_done
<1>2. Idle \in WorkerState /\ Idle.phase = "free" BY DEF Idle, WorkerState, Phases
<1>3. TypeOK' BY <1>1, <1>2, Answered DEF FiguresInv, TypeOK, WorkerState
<1>4. IsServer(page'.shown) => win.held # None /\ page'.live
  BY <1>1, Answered DEF FiguresInv, HeldInv
<1>5. \A x \in Workers : worker'[x] = worker[x] \/ worker'[x].phase = "free"
  BY <1>1, <1>2 DEF FiguresInv, TypeOK
<1>6. HeldInv' BY <1>1, <1>4, <1>5 DEF FiguresInv, HeldInv, IsServer
<1> QED BY <1>3, <1>6 DEF FiguresInv

\* Requests: a thread that is free starts.
LEMMA RequestKeeps ==
  ASSUME FiguresInv, NEW pg \in Page, pg.shown = page.shown, pg.live = page.live,
         request_snapshot(pg), UNCHANGED <<db, net, mirror, win>>
  PROVE  FiguresInv'
<1> USE DEF FiguresInv
<1> DEFINE begun == [phase |-> "start", period |-> pg.period, dto |-> None]
<1>1. PICK w \in Workers : /\ worker' = [worker EXCEPT ![w] = begun]
                           /\ page' = [pg EXCEPT !.latest = w]
  BY DEF request_snapshot
<1>2. begun \in WorkerState /\ begun.phase = "start" /\ begun.period \in Periods
  BY DEF WorkerState, Phases, Page
<1> HIDE DEF begun
<1>3. TypeOK' BY <1>1, <1>2 DEF TypeOK, WorkerState, Page
<1>4. page'.shown = page.shown /\ page'.live = page.live BY <1>1 DEF Page
<1>5. \A x \in Workers : worker'[x] = worker[x] \/ worker'[x].phase = "start"
  BY <1>1, <1>2 DEF TypeOK
<1>6. HeldInv' BY <1>4, <1>5 DEF HeldInv, IsServer
<1> QED BY <1>3, <1>6

\* Repainting from the best payload in hand.
LEMMA RepaintKeeps ==
  ASSUME FiguresInv, NEW pg \in Page, pg.shown = page.shown, pg.live = page.live,
         NEW online \in BOOLEAN, NEW rev \in Nat,
         page' \in _render_dashboard_from_best_known(pg, online, rev),
         win' = win \/ \E b \in BOOLEAN : win' = [win EXCEPT !.online = b],
         mirror' \in Nat, UNCHANGED <<db, net, worker>>
  PROVE  FiguresInv'
<1> USE DEF FiguresInv
<1>1. /\ page' \in Page
      /\ IsServer(page'.shown) => win.held # None /\ page'.live
  BY Repainted DEF HeldInv
<1>2. win'.held = win.held /\ win' \in Window BY DEF TypeOK, Window
<1>3. TypeOK' BY <1>1, <1>2 DEF TypeOK
<1>4. HeldInv' BY <1>1, <1>2 DEF HeldInv, IsServer
<1> QED BY <1>3, <1>4

LEMMA StepKeeps == ASSUME FiguresInv, [Next]_vars PROVE FiguresInv'
<1>0. TypeOK BY DEF FiguresInv
<1>1. CASE Commit \/ Cut \/ Restore \/ UNCHANGED vars
  <2>1. UNCHANGED <<mirror, win, page, worker>> /\ db' \in Nat /\ net' \in BOOLEAN
    <3>1. db \in Nat /\ net \in BOOLEAN BY <1>0 DEF TypeOK
    <3>2. CASE Commit BY <3>1, <3>2 DEF Commit
    <3>3. CASE Cut BY <3>1, <3>3 DEF Cut
    <3>4. CASE Restore BY <3>1, <3>4 DEF Restore
    <3>5. CASE UNCHANGED vars BY <3>1, <3>5 DEF vars
    <3> QED BY <1>1, <3>2, <3>3, <3>4, <3>5
  <2> QED BY <1>0, <2>1 DEF FiguresInv, TypeOK, HeldInv, IsServer
<1>2. CASE _on_period_changed
  <2>1. PICK p \in Periods : request_snapshot([page EXCEPT !.period = p]) BY <1>2 DEF _on_period_changed
  <2> DEFINE pg == [page EXCEPT !.period = p]
  <2>2. pg \in Page /\ pg.shown = page.shown /\ pg.live = page.live BY <1>0 DEF TypeOK, Page
  <2> HIDE DEF pg
  <2>3. request_snapshot(pg) BY <2>1 DEF pg
  <2> QED BY <1>2, <2>2, <2>3, RequestKeeps DEF _on_period_changed
<1>3. CASE FetchTimer BY <1>0, <1>3, RequestKeeps DEF FetchTimer, TypeOK
<1>4. CASE _on_domain_changed
  <2>1. win.online \in BOOLEAN /\ mirror \in Nat /\ page \in Page BY <1>0 DEF TypeOK, Window
  <2> QED BY <1>4, <2>1, RepaintKeeps DEF _on_domain_changed
<1>5. CASE _switch_page
  <2>1. UNCHANGED <<db, net, mirror, win, worker>> BY <1>5 DEF _switch_page
  <2>2. CASE page' = [page EXCEPT !.visible = FALSE]
    <3>1. page' \in Page /\ page'.shown = page.shown /\ page'.live = page.live
      BY <1>0, <2>2 DEF TypeOK, Page
    <3> QED BY <2>1, <3>1 DEF FiguresInv, TypeOK, HeldInv, IsServer
  <2>3. CASE page' \in _render_dashboard_from_best_known([page EXCEPT !.visible = TRUE], win.online, mirror)
    <3> DEFINE pg == [page EXCEPT !.visible = TRUE]
    <3>1. pg \in Page /\ pg.shown = page.shown /\ pg.live = page.live BY <1>0 DEF TypeOK, Page
    <3>2. page' \in _render_dashboard_from_best_known(pg, win.online, mirror) BY <2>3
    <3>3. win.online \in BOOLEAN /\ mirror \in Nat BY <1>0 DEF TypeOK, Window
    <3> HIDE DEF pg
    <3> QED BY <2>1, <3>1, <3>2, <3>3, RepaintKeeps
  <2> QED BY <1>5, <2>2, <2>3 DEF _switch_page
<1>6. CASE _on_sync_finished
  <2>1. win' = [win EXCEPT !.online = net] /\ net \in BOOLEAN /\ UNCHANGED <<db, net, worker>>
    BY <1>0, <1>6 DEF _on_sync_finished, TypeOK
  <2>2. CASE UNCHANGED <<mirror, page>>
    <3>1. win'.held = win.held /\ win' \in Window BY <1>0, <2>1 DEF TypeOK, Window
    <3> QED BY <1>0, <2>1, <2>2, <3>1 DEF FiguresInv, TypeOK, HeldInv, IsServer
  <2>3. CASE /\ mirror' \in Pulled
             /\ page' \in _render_dashboard_from_best_known(page, TRUE, mirror')
    <3>1. mirror' \in Nat /\ page \in Page BY <1>0, <2>3 DEF TypeOK, Pulled
    <3> QED BY <2>1, <2>3, <3>1, RepaintKeeps
  <2> QED BY <1>6, <2>2, <2>3 DEF _on_sync_finished
<1> QED BY <1>1, <1>2, <1>3, <1>4, <1>5, <1>6, AnswerKeeps, WorkerKeeps DEF Next

(***************************************************************************)
(* The theorems                                                            *)
(***************************************************************************)
\* Server figures on screen have been stored before, whichever thread is late: the
\* window can always fall back on what the server said last.
THEOREM FiguresInvHolds == Spec => []FiguresInv
<1>1. FiguresInv /\ [Next]_vars => FiguresInv' BY StepKeeps
<1> QED BY InitFigures, <1>1, PTL DEF Spec

\* What one step makes of the page: figures stay figures, and those of the server
\* give way to the mirror's only while the window knows that it is offline.
LEMMA PageSteps ==
  ASSUME FiguresInv, [Next]_vars
  PROVE  /\ page.shown # None => page'.shown # None
         /\ IsServer(page.shown) /\ page'.shown # None /\ ~IsServer(page'.shown) => ~win.online
<1>0. /\ page \in Page /\ win.online \in BOOLEAN /\ mirror \in Nat /\ db \in Nat
      /\ IsServer(page.shown) => win.held # None
  BY DEF FiguresInv, TypeOK, HeldInv, Window
<1>1. CASE page'.shown = page.shown BY <1>1
<1>2. ASSUME NEW w \in Workers, _on_snapshot_done(w)
      PROVE  /\ page.shown # None => page'.shown # None
             /\ IsServer(page.shown) => IsServer(page'.shown)
  BY <1>2, Answered
<1>3. ASSUME NEW pg \in Page, pg.shown = page.shown, NEW online \in BOOLEAN, NEW rev \in Nat,
             online \/ online = win.online,
             page' \in _render_dashboard_from_best_known(pg, online, rev)
      PROVE  /\ page.shown # None => page'.shown # None
             /\ IsServer(page.shown) /\ ~IsServer(page'.shown) => ~win.online
  BY <1>0, <1>3, Repainted
<1>4. CASE _on_domain_changed BY <1>0, <1>3, <1>4 DEF _on_domain_changed
<1>5. CASE _switch_page
  <2>1. CASE page' = [page EXCEPT !.visible = FALSE]
    <3>1. page'.shown = page.shown BY <1>0, <2>1 DEF Page
    <3> QED BY <1>1, <3>1
  <2>2. CASE page' \in _render_dashboard_from_best_known([page EXCEPT !.visible = TRUE], win.online, mirror)
    <3> DEFINE pg == [page EXCEPT !.visible = TRUE]
    <3>1. pg \in Page /\ pg.shown = page.shown BY <1>0 DEF Page
    <3>2. page' \in _render_dashboard_from_best_known(pg, win.online, mirror) BY <2>2
    <3> HIDE DEF pg
    <3> QED BY <1>0, <1>3, <3>1, <3>2
  <2> QED BY <1>5, <2>1, <2>2 DEF _switch_page
<1>6. CASE _on_sync_finished
  <2>1. CASE UNCHANGED page BY <1>1, <2>1
  <2>2. CASE /\ mirror' \in Pulled
             /\ page' \in _render_dashboard_from_best_known(page, TRUE, mirror')
    <3>1. mirror' \in Nat BY <1>0, <2>2 DEF Pulled
    <3> QED BY <1>0, <1>3, <2>2, <3>1
  <2> QED BY <1>6, <2>1, <2>2 DEF _on_sync_finished
<1>7. CASE _on_period_changed \/ FetchTimer
  <2>1. page'.shown = page.shown BY <1>0, <1>7 DEF _on_period_changed, FetchTimer, request_snapshot, Page
  <2> QED BY <1>1, <2>1
<1>8. CASE \/ Commit \/ Cut \/ Restore \/ UNCHANGED vars \/ \E w \in Workers : SnapshotWorker(w)
  <2>1. UNCHANGED page
    BY <1>8 DEF Commit, Cut, Restore, vars, SnapshotWorker, Start, GetsFigures, GetsNothing,
         ServerContractMismatch, _fetch_legacy_server_snapshot, _on_server_snapshot, CouldNotRefresh, Fallback, Quiet
  <2> QED BY <1>1, <2>1
<1> QED BY <1>1, <1>2, <1>4, <1>5, <1>6, <1>7, <1>8 DEF Next

\* No failed or superseded answer blanks the page (dashboard.py, _on_snapshot_done).
THEOREM FiguresKeptHolds == Spec => FiguresKept
<1>1. FiguresInv /\ [Next]_vars => [page.shown # None => page'.shown # None]_page BY PageSteps
<1> QED BY <1>1, FiguresInvHolds, PTL DEF Spec, FiguresKept

\* No fallback that was already travelling, and no failure while nominally online,
\* replaces figures of the server by figures of the mirror.
THEOREM NotDowngraded == Spec => ServerFiguresNotDowngraded
<1>1. FiguresInv /\ [Next]_vars =>
        [IsServer(page.shown) /\ page'.shown # None /\ ~IsServer(page'.shown) => ~win.online]_page
  BY PageSteps
<1> QED BY <1>1, FiguresInvHolds, PTL DEF Spec, ServerFiguresNotDowngraded
=============================================================================
