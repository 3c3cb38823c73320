----------------------- MODULE DashboardRequestsProps -----------------------
(***************************************************************************)
(* What DashboardRequests.tla guarantees of the figures on screen.         *)
(***************************************************************************)
EXTENDS DashboardRequests

\* Figures once on screen are never blanked by a request that failed.
FiguresKept == [][page.shown # None => page'.shown # None]_page

\* Server figures give way to figures of the local mirror only while the window
\* knows that it is offline: not by a fallback that was already travelling, not by a
\* failure while nominally online.
ServerFiguresNotDowngraded ==
  [][IsServer(page.shown) /\ page'.shown # None /\ ~IsServer(page'.shown) => ~win.online]_page

\* The server leaves the window without an answer for ever: it is not asked, for
\* want of a token, or it is asked again and again and has stopped answering (it
\* fails, or refuses tokens that nothing renews).
Asks == \E w \in Workers : worker[w].phase = "summary"
Told == \E w \in Workers : worker[w].phase = "answered"
Unserved == ~win.token \/ ([]<>Asks /\ <>[]~Told)

\* Whatever answers come late or fail, in which order, and from which period: when
\* the operator has stopped clicking and the server changing, and unless the server
\* leaves the window without an answer for ever, the dashboard on screen ends up
\* with the server's current figures for the selected period.
SettlesOnServer ==
  \/ Unserved
  \/ <>[](page.visible =>
            /\ IsServer(page.shown) /\ page.shown.period = page.period
            /\ page.shown.rev = db)

(***************************************************************************)
(* What the promises rest on: an inductive invariant.                      *)
(***************************************************************************)
Phases == {"free", "start", "summary", "stats", "revenue", "answered", "failed", "local", "done"}
Window == [online : BOOLEAN, held : Dto \cup {None}, token : BOOLEAN]
Page   == [visible : BOOLEAN, period : Periods, latest : Workers \cup {None},
           shown : Dto \cup {None}, live : BOOLEAN]

TypeOK ==
  /\ db \in Nat /\ mirror \in Nat /\ net \in BOOLEAN
  /\ win \in Window
  /\ page \in Page
  /\ worker \in [Workers -> [phase : Phases, period : Periods \cup {None}, dto : Dto \cup {None}]]
  /\ \A w \in Workers : worker[w].phase # "free" => worker[w].period \in Periods

\* What the window holds came from the server, and server figures are held before
\* the page can show them: _on_server_snapshot is called on the worker thread,
\* ahead of the signal that hands the figures over.  _is_live_data says so of them.
HeldInv ==
  /\ win.held # None => IsServer(win.held)
  /\ \A w \in Workers :
       /\ worker[w].phase \in {"revenue", "answered"} => IsServer(worker[w].dto)
       /\ worker[w].phase = "done" /\ IsServer(worker[w].dto) => win.held # None
  /\ IsServer(page.shown) => win.held # None /\ page.live

FiguresInv == TypeOK /\ HeldInv
=============================================================================
