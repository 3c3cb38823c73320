----------------------------- MODULE SyncSession -----------------------------
(***************************************************************************)
(* One session of the desktop application: when a sync cycle runs, what    *)
(* tells it that the server has changed, and who holds which tokens.       *)
(*                                                                         *)
(* The UI thread handles one event at a time.  A SyncThread runs one cycle *)
(* with the tokens it was started with and posts its report to the event   *)
(* queue of the UI thread.  The ApiClient that all pages share refreshes   *)
(* the tokens on its own when a request of a page meets an expired one.    *)
(* The server announces changes on a socket; a lost announcement is made   *)
(* up for by polling and by the timer.                                     *)
(*                                                                         *)
(* A pair is an access token and the refresh token issued with it.  What   *)
(* the server stores and the desktop has is a revision: how many changes   *)
(* it includes.                                                            *)
(***************************************************************************)
EXTENDS Integers, Sequences, FiniteSets

CONSTANTS
  Pairs,        \* token pairs; one that nobody holds is issued again as a new one, and
                \*   none is issued while all are held (a bound)
  Cycles,       \* SyncThread objects
  MaxRev,       \* bound on the changes made elsewhere
  MaxEvents,    \* bound on expiries, cuts and clicks together
  NoPair, None

ASSUME PairsAreNumbered == 1 \in Pairs /\ Pairs \subseteq Nat /\ NoPair \notin Pairs

VARIABLES
  srv,      \* the server: announced and committed revision, live pairs, expired accesses
  net,      \* TRUE while the network works
  happened, \* how many expiries, cuts, clicks so far; has an answer been lost
  win,      \* MainWindow: its pair, _is_online, _sync_thread, _sync_pending, timers
  api,      \* the ApiClient: its pair and the one it is having refreshed
  cycle,    \* the SyncThreads
  rt,       \* RealtimeEventsClient: its pair, the socket and its unread events, the last seen
  mirror,   \* revision of the local database
  posted,   \* the event queue of the UI thread
  wanted,   \* a sync was asked for and none has started since  (not in the program)
  overlap   \* a cycle has started before the last was dealt with (not in the program)

vars == <<srv, net, happened, win, api, cycle, rt, mirror, posted, wanted, overlap>>
server  == <<srv, net, happened>>
desktop == <<win, api, cycle, rt, mirror, posted, wanted, overlap>>

Happens(what) ==
  /\ happened.expiries + happened.cuts + happened.clicks < MaxEvents
  /\ happened' = [happened EXCEPT ![what] = @ + 1]
LosesAnswer == happened' = [happened EXCEPT !.loss = TRUE]

Ended == [pair |-> NoPair, phase |-> "none", force |-> FALSE, up |-> FALSE]

\* A window just opened by an operator whom the server knew (the pair p), or
\* whom it did not answer and the local password let in (NoPair).
OpenedWindow(p) ==
  [pair |-> p, online |-> p # NoPair, thread |-> None, pending |-> FALSE,
   debounce |-> FALSE, loaded |-> FALSE]
ClosedSocket(p) == [pair |-> p, open |-> FALSE, inbox |-> 0, seen |-> 0]

Init ==
  /\ srv = [announced |-> 0, rev |-> 0, live |-> {1}, expired |-> {}]
  /\ net = TRUE
  /\ happened = [expiries |-> 0, cuts |-> 0, clicks |-> 0, loss |-> FALSE]
  /\ win = OpenedWindow(1) /\ api = [pair |-> 1, sent |-> NoPair]
  /\ cycle = [c \in Cycles |-> Ended] /\ rt = ClosedSocket(1)
  /\ mirror = 0 /\ posted = <<>> /\ wanted = FALSE /\ overlap = FALSE

(***************************************************************************)
(* The server and the network                                              *)
(***************************************************************************)
\* The endpoints broadcast before their transaction is committed; an event that
\* finds no socket, or a dead one, is in the history only.
broadcast_event ==
  /\ srv.announced < MaxRev /\ srv.announced = srv.rev
  /\ srv' = [srv EXCEPT !.announced = @ + 1]
  /\ rt' = IF rt.open /\ net THEN [rt EXCEPT !.inbox = srv.announced + 1] ELSE rt
  /\ UNCHANGED <<net, happened, win, api, cycle, mirror, posted, wanted, overlap>>

CommitWrite ==
  srv.rev < srv.announced /\ srv' = [srv EXCEPT !.rev = srv.announced]
  /\ UNCHANGED <<net, happened, desktop>>

verify_access_token(p) == p # NoPair /\ p \notin srv.expired

Drop ==
  net /\ Happens("cuts") /\ net' = FALSE /\ UNCHANGED <<srv, desktop>>
Restore == ~net /\ net' = TRUE /\ UNCHANGED <<srv, happened, desktop>>

Holders ==
  {win.pair, api.pair, api.sent, rt.pair} \cup {cycle[c].pair : c \in Cycles}
    \cup {posted[i].pair : i \in {j \in DOMAIN posted : posted[j].type = "sync_finished"}}
Unheld == Pairs \ Holders
Fresh  == CHOOSE p \in Unheld : \A q \in Unheld : p <= q

Expire ==
  /\ Happens("expiries")
  /\ \E p \in Holders \cap (srv.live \ srv.expired) : srv' = [srv EXCEPT !.expired = @ \cup {p}]
  /\ UNCHANGED <<net, desktop>>

\* The server reads that the old refresh token is live in one step, and revokes
\* it and stores the new one in another: two clients may be granted the same.
Grants(old) == net /\ old \in srv.live
refresh_tokens(old, new) ==
  Unheld # {} /\ srv' = [srv EXCEPT !.live = (@ \ {old}) \cup {new}, !.expired = @ \ {new}]

(***************************************************************************)
(* MainWindow                                                              *)
(***************************************************************************)
\* isRunning() is FALSE from the moment run() has returned.
Running(c) == cycle[c].phase \notin {"none", "finishing", "gone"}

\* Mutant: a request that meets a running cycle is dropped.
RunOrForget(w, cs, force) ==
  IF w.thread # None /\ Running(w.thread)
  THEN win' = w /\ cycle' = cs /\ wanted' = TRUE /\ UNCHANGED overlap
  ELSE \E c \in Cycles :
         /\ cs[c].phase = "none"
         /\ win' = [w EXCEPT !.thread = c, !.pending = FALSE]
         /\ cycle' = [cs EXCEPT ![c] =
              [pair |-> w.pair, phase |-> "check", force |-> force, up |-> FALSE]]
         /\ wanted' = FALSE
         /\ overlap' = (overlap \/ \E o \in Cycles : cs[o].phase # "none")

\* w is the window, cs the threads, as the handler that asks has changed them.
_run_sync(w, cs, force) ==
  IF w.thread # None /\ Running(w.thread)
  THEN win' = [w EXCEPT !.pending = TRUE] /\ cycle' = cs /\ wanted' = TRUE /\ UNCHANGED overlap
  ELSE \E c \in Cycles :
         /\ cs[c].phase = "none"
         /\ win' = [w EXCEPT !.thread = c, !.pending = FALSE]
         /\ cycle' = [cs EXCEPT ![c] =
              [pair |-> w.pair, phase |-> "check", force |-> force, up |-> FALSE]]
         /\ wanted' = FALSE
         /\ overlap' = (overlap \/ \E o \in Cycles : cs[o].phase # "none")

_initial_load ==
  /\ ~win.loaded /\ _run_sync([win EXCEPT !.loaded = TRUE], cycle, TRUE)
  /\ UNCHANGED <<server, api, rt, mirror, posted>>

\* Every thirty seconds.
SyncTimer ==
  /\ win.loaded /\ _run_sync(win, cycle, FALSE)
  /\ UNCHANGED <<server, api, rt, mirror, posted>>

\* The timer of 250 ms that an event (re)starts.
ImmediateSync ==
  /\ win.debounce /\ _run_sync([win EXCEPT !.debounce = FALSE], cycle, FALSE)
  /\ UNCHANGED <<server, api, rt, mirror, posted>>

\* The refresh button; an edit does the same without the bootstrap.
_on_refresh_clicked ==
  /\ Happens("clicks") /\ win.loaded
  /\ \E force \in BOOLEAN : _run_sync(win, cycle, force)
  /\ UNCHANGED <<srv, net, api, rt, mirror, posted>>

Message == Head(posted)
Got(type) == posted # <<>> /\ Message.type = type /\ posted' = Tail(posted)

\* Mutant: the report only tells whether the cycle was online.
OnlineOnly ==
  /\ Got("sync_finished") /\ win' = [win EXCEPT !.online = Message.up]
  /\ UNCHANGED <<server, api, cycle, rt, mirror, wanted, overlap>>

\* Only the report of a cycle that ended online brings tokens.
_on_sync_finished ==
  /\ Got("sync_finished")
  /\ LET adopts == Message.pair # NoPair /\ Message.pair # win.pair
         pair   == IF adopts THEN Message.pair ELSE win.pair
     IN /\ win' = [win EXCEPT !.online = Message.up, !.pair = pair]
        /\ api' = IF adopts THEN [api EXCEPT !.pair = pair] ELSE api
        /\ rt'  = IF adopts THEN [rt EXCEPT !.pair = pair, !.open = FALSE, !.inbox = 0] ELSE rt
  /\ UNCHANGED <<server, cycle, mirror, wanted, overlap>>

\* Whichever thread has finished, the window forgets the one it knows.
_on_sync_thread_finished ==
  /\ Got("finished")
  /\ LET w     == [win EXCEPT !.thread = None]
         ended == [cycle EXCEPT ![Message.cycle] = Ended]
     IN IF win.pending THEN _run_sync(w, ended, FALSE)
        ELSE win' = w /\ cycle' = ended /\ UNCHANGED <<wanted, overlap>>
  /\ UNCHANGED <<server, api, rt, mirror>>

\* Log out and in again: the process is replaced.
_logout ==
  /\ Happens("clicks") /\ (net => Unheld # {})
  /\ LET p == IF net THEN Fresh ELSE NoPair IN
     /\ srv' = [srv EXCEPT !.live = (IF net THEN @ \ {win.pair} ELSE @) \cup ({p} \ {NoPair}),
                           !.expired = @ \ {p}]
     /\ win' = OpenedWindow(p) /\ api' = [pair |-> p, sent |-> NoPair] /\ rt' = ClosedSocket(p)
  /\ cycle' = [c \in Cycles |-> Ended]
  /\ posted' = <<>> /\ wanted' = FALSE
  /\ UNCHANGED <<net, mirror, overlap>>

(***************************************************************************)
(* ApiClient: a request of a page meets an expired access.                 *)
(***************************************************************************)
_request ==
  /\ net /\ api.pair # NoPair /\ ~verify_access_token(api.pair) /\ api.sent = NoPair
  /\ Grants(api.pair)
  /\ api' = [api EXCEPT !.sent = api.pair]
  /\ UNCHANGED <<server, win, cycle, rt, mirror, posted, wanted, overlap>>

\* The rotation commits, and its answer arrives or is lost.
_do_refresh ==
  /\ api.sent # NoPair /\ refresh_tokens(api.sent, Fresh)
  /\ \/ api' = [pair |-> Fresh, sent |-> NoPair] /\ UNCHANGED happened
     \/ LosesAnswer /\ api' = [api EXCEPT !.sent = NoPair]
  /\ UNCHANGED <<net, win, cycle, rt, mirror, posted, wanted, overlap>>

(***************************************************************************)
(* RealtimeEventsClient                                                    *)
(***************************************************************************)
\* The reconnect timer; the recent events of the greeting are not looked at.
_try_connect ==
  /\ ~rt.open /\ net /\ verify_access_token(rt.pair)
  /\ rt' = [rt EXCEPT !.open = TRUE, !.inbox = 0]
  /\ UNCHANGED <<server, win, api, cycle, mirror, posted, wanted, overlap>>

_on_ws_disconnected ==
  /\ rt.open /\ ~net
  /\ rt' = [rt EXCEPT !.open = FALSE, !.inbox = 0]
  /\ UNCHANGED <<server, win, api, cycle, mirror, posted, wanted, overlap>>

Hears(event) ==
  /\ rt' = [rt EXCEPT !.seen = event, !.inbox = 0]
  /\ win' = [win EXCEPT !.debounce = TRUE]
  /\ UNCHANGED <<server, api, cycle, mirror, posted, wanted, overlap>>

_on_message_received == rt.open /\ rt.inbox > 0 /\ Hears(rt.inbox)

\* While the socket is closed: the events after the last one seen.
_poll_recent_events ==
  ~rt.open /\ net /\ verify_access_token(rt.pair) /\ srv.announced > rt.seen
  /\ Hears(srv.announced)

(***************************************************************************)
(* SyncThread.run                                                          *)
(***************************************************************************)
In(c, phase) == cycle[c].phase = phase
To(c, phase) == [cycle EXCEPT ![c].phase = phase]
Quiet == UNCHANGED <<win, api, rt, wanted, overlap>>

check_connection(c) ==
  /\ In(c, "check")
  /\ cycle' = [To(c, IF ~net \/ cycle[c].pair = NoPair THEN "report"
                     ELSE IF cycle[c].force THEN "bootstrap" ELSE "exchange")
               EXCEPT ![c].up = net]
  /\ Quiet /\ UNCHANGED <<server, mirror, posted>>

\* No refresh here: with an expired access the bootstrap is given up.
bootstrap(c) ==
  /\ In(c, "bootstrap") /\ cycle' = To(c, "exchange")
  /\ mirror' = IF net /\ verify_access_token(cycle[c].pair) THEN srv.rev ELSE mirror
  /\ Quiet /\ UNCHANGED <<server, posted>>

\* Mutant: an answer 401 ends the cycle.
SyncWithoutRefresh(c) ==
  /\ In(c, "exchange") /\ cycle' = [To(c, "report") EXCEPT ![c].up = net]
  /\ mirror' = IF net /\ verify_access_token(cycle[c].pair) THEN srv.rev ELSE mirror
  /\ Quiet /\ UNCHANGED <<server, posted>>

\* Uploads, push and pull meet an expired access in the same way: one stage.
sync(c) ==
  /\ In(c, "exchange")
  /\ cycle' = [To(c, IF net /\ ~verify_access_token(cycle[c].pair) THEN "refresh" ELSE "report")
               EXCEPT ![c].up = net]
  /\ mirror' = IF net /\ verify_access_token(cycle[c].pair) THEN srv.rev ELSE mirror
  /\ Quiet /\ UNCHANGED <<server, posted>>

\* A refresh token that was revoked is refused, and so is what was asked.
EngineRefresh(c) ==
  /\ In(c, "refresh")
  /\ cycle' = To(c, IF Grants(cycle[c].pair) THEN "granted" ELSE "report")
  /\ Quiet /\ UNCHANGED <<server, mirror, posted>>

EngineRefreshed(c) ==
  /\ In(c, "granted") /\ refresh_tokens(cycle[c].pair, Fresh)
  /\ \/ cycle' = [To(c, "exchange") EXCEPT ![c].pair = Fresh] /\ UNCHANGED happened
     \/ LosesAnswer /\ cycle' = To(c, "report")
  /\ Quiet /\ UNCHANGED <<net, mirror, posted>>

\* run() emits its report and returns: isRunning() is FALSE before finished is posted.
Report(c) ==
  /\ In(c, "report") /\ cycle' = To(c, "finishing")
  /\ posted' = Append(posted, [type |-> "sync_finished", up |-> cycle[c].up,
       pair |-> IF cycle[c].up THEN cycle[c].pair ELSE NoPair])
  /\ Quiet /\ UNCHANGED <<server, mirror>>

Finish(c) ==
  /\ In(c, "finishing") /\ cycle' = To(c, "gone")
  /\ posted' = Append(posted, [type |-> "finished", cycle |-> c])
  /\ Quiet /\ UNCHANGED <<server, mirror>>

SyncThread(c) ==
  \/ check_connection(c) \/ bootstrap(c) \/ sync(c)
  \/ EngineRefresh(c) \/ EngineRefreshed(c)
  \/ Report(c) \/ Finish(c)

Queued == _on_sync_finished \/ _on_sync_thread_finished

Next ==
  \/ broadcast_event \/ CommitWrite \/ Expire \/ Drop \/ Restore
  \/ _initial_load \/ SyncTimer \/ ImmediateSync \/ Queued
  \/ _on_refresh_clicked \/ _logout
  \/ _request \/ _do_refresh
  \/ _try_connect \/ _on_ws_disconnected \/ _on_message_received \/ _poll_recent_events
  \/ \E c \in Cycles : SyncThread(c)

\* The network comes back, timers fire, threads run, queued events are handled.
\* Nothing is assumed of the socket, of polling or of the pages.
Fairness ==
  /\ WF_vars(CommitWrite) /\ WF_vars(Restore)
  /\ WF_vars(_initial_load) /\ WF_vars(Queued) /\ SF_vars(SyncTimer)
  /\ \A c \in Cycles : WF_vars(SyncThread(c))

Spec == Init /\ [][Next]_vars /\ Fairness
=============================================================================
