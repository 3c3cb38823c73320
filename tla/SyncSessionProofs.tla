-------------------------- MODULE SyncSessionProofs --------------------------
(***************************************************************************)
(* Proofs about SyncSession.  A noted request survives because the only    *)
(* handler that takes a finished signal away starts the noted sync itself. *)
(* A session survives rotation on two sides because, with one cycle at a   *)
(* time, a pair that the cycle was granted is nobody else's until its      *)
(* report reaches the window, and that report comes before its finished    *)
(* signal: no later cycle starts with the pair of before.                  *)
(***************************************************************************)
EXTENDS SyncSessionProps, SequenceTheorems, FiniteSetTheorems, WellFoundedInduction, TLAPS

(***************************************************************************)
(* Pairs                                                                   *)
(***************************************************************************)
LEMMA LeastExists ==
  ASSUME NEW S, S \subseteq Nat, S # {}
  PROVE  \E k \in S : \A j \in S : k <= j
<1> DEFINE T == {0 .. k : k \in S}
<1>1. \A k \in Nat : 0 .. k \in FiniteSubsetsOf(Nat)
  BY FS_Interval DEF FiniteSubsetsOf
<1>2. \E x \in T : \A y \in T : ~ (<<y, x>> \in StrictSubsetOrdering(Nat))
  <2>1. T # {} /\ T \subseteq FiniteSubsetsOf(Nat) BY <1>1
  <2> HIDE DEF T
  <2> QED BY <2>1, WFMin, FS_StrictSubsetOrderingWellFounded
<1>3. PICK k \in S : \A y \in T : ~ (<<y, 0 .. k>> \in StrictSubsetOrdering(Nat))
  BY <1>2
<1>4. ASSUME NEW j \in S PROVE k <= j
  <2>1. ~ (<<0 .. j, 0 .. k>> \in StrictSubsetOrdering(Nat)) BY <1>3
  <2>2. j \in Nat /\ k \in Nat OBVIOUS
  <2>3. SUFFICES ASSUME j < k PROVE FALSE BY <2>2
  <2>4. 0 .. j \subseteq 0 .. k /\ 0 .. j # 0 .. k /\ 0 .. k \subseteq Nat BY <2>2, <2>3
  <2> QED BY <2>1, <2>4 DEF StrictSubsetOrdering
<1> QED BY <1>4

\* A pair that is issued is nobody's: not the one any holder has.
LEMMA FreshFacts ==
  ASSUME Unheld # {}
  PROVE  /\ Fresh \in Pairs /\ Fresh # NoPair
         /\ Fresh \notin {win.pair, api.pair, api.sent, rt.pair}
         /\ \A c \in Cycles : cycle[c].pair # Fresh
<1>1. Unheld \subseteq Nat BY PairsAreNumbered DEF Unheld
<1>2. \E p \in Unheld : \A q \in Unheld : p <= q BY <1>1, LeastExists
<1>3. Fresh \in Unheld BY <1>2 DEF Fresh
<1>4. Fresh \in Pairs /\ Fresh \notin Holders BY <1>3 DEF Unheld
<1>5. \A c \in Cycles : cycle[c].pair \in Holders BY DEF Holders
<1> QED BY <1>4, <1>5, PairsAreNumbered DEF Holders

(***************************************************************************)
(* The shape of the session                                                *)
(***************************************************************************)
LEMMA ShapeFacts ==
  ASSUME TypeOK
  PROVE  /\ NoPair \notin Pairs /\ 1 \in Pairs /\ Ended \in Cycle
         /\ \A p \in Pair : OpenedWindow(p) \in Window
         /\ \A p \in Pair : ClosedSocket(p) \in [pair : Pair, open : BOOLEAN, inbox : Nat, seen : Nat]
         /\ win.pair \in Pair /\ api.pair \in Pair /\ api.sent \in Pair /\ rt.pair \in Pair
         /\ srv.live \subseteq Pairs /\ srv.expired \subseteq Pairs
         /\ \A c \in Cycles : cycle[c] \in Cycle /\ cycle[c].pair \in Pair
BY PairsAreNumbered
   DEF TypeOK, Ended, Cycle, OpenedWindow, Window, ClosedSocket, Phase, Pair

\* A request for a sync is noted while a cycle runs; otherwise a free thread
\* starts one, with the pair the window has.
Noted(w, cs) ==
  /\ win' = [w EXCEPT !.pending = TRUE] /\ cycle' = cs /\ wanted' = TRUE /\ overlap' = overlap
  /\ \E c \in Cycles : cs[c].phase # "none"
Started(w, cs, force, c) ==
  /\ cs[c].phase = "none"
  /\ win' = [w EXCEPT !.thread = c, !.pending = FALSE]
  /\ cycle' = [cs EXCEPT ![c] = [pair |-> w.pair, phase |-> "check", force |-> force, up |-> FALSE]]
  /\ wanted' = FALSE
  /\ overlap' = (overlap \/ \E o \in Cycles : cs[o].phase # "none")

LEMMA RunSyncFacts ==
  ASSUME NEW w \in Window, NEW cs \in [Cycles -> Cycle], NEW force \in BOOLEAN,
         w.thread # None /\ Running(w.thread) => cs[w.thread].phase # "none",
         _run_sync(w, cs, force)
  PROVE  Noted(w, cs) \/ \E c \in Cycles : Started(w, cs, force, c)
<1>1. CASE w.thread # None /\ Running(w.thread)
  <2>1. w.thread \in Cycles BY <1>1 DEF Window
  <2> QED BY <1>1, <2>1 DEF _run_sync, Noted
<1>2. CASE ~(w.thread # None /\ Running(w.thread))
  BY <1>2 DEF _run_sync, Started
<1> QED BY <1>1, <1>2

LEMMA RunSyncTypes ==
  ASSUME NEW w \in Window, NEW cs \in [Cycles -> Cycle], NEW force \in BOOLEAN, overlap \in BOOLEAN,
         w.thread # None /\ Running(w.thread) => cs[w.thread].phase # "none",
         _run_sync(w, cs, force)
  PROVE  /\ win' \in Window /\ win'.pair = w.pair /\ cycle' \in [Cycles -> Cycle]
         /\ wanted' \in BOOLEAN /\ overlap' \in BOOLEAN
<1>1. CASE Noted(w, cs) BY <1>1 DEF Noted, Window
<1>2. ASSUME NEW c \in Cycles, Started(w, cs, force, c)
      PROVE  win' \in Window /\ win'.pair = w.pair /\ cycle' \in [Cycles -> Cycle]
             /\ wanted' \in BOOLEAN /\ overlap' \in BOOLEAN
  <2>1. win' \in Window /\ win'.pair = w.pair BY <1>2 DEF Started, Window
  <2> DEFINE n == [pair |-> w.pair, phase |-> "check", force |-> force, up |-> FALSE]
  <2>2. n \in Cycle BY DEF Cycle, Window, Phase
  <2>3. cycle' = [cs EXCEPT ![c] = n] BY <1>2 DEF Started
  <2> HIDE DEF n
  <2> QED BY <1>2, <2>1, <2>2, <2>3 DEF Started
<1> QED BY <1>1, <1>2, RunSyncFacts

LEMMA MessageFacts ==
  ASSUME TypeOK, NEW type, Got(type)
  PROVE  /\ posted # <<>> /\ Message \in Posted /\ Message.type = type
         /\ Message = posted[1] /\ posted' \in Seq(Posted) /\ posted' = Tail(posted)
<1>1. posted \in Seq(Posted) /\ posted # <<>> /\ posted' = Tail(posted) /\ Message.type = type
  BY DEF TypeOK, Got
<1> HIDE DEF Posted
<1> QED BY <1>1 DEF Message

LEMMA ReportFacts ==
  ASSUME NEW m \in Posted, m.type = "sync_finished"
  PROVE  m \in [type : {"sync_finished"}, up : BOOLEAN, pair : Pair] /\ m.up \in BOOLEAN /\ m.pair \in Pair
BY DEF Posted

LEMMA FinishedFacts ==
  ASSUME NEW m \in Posted, m.type = "finished"
  PROVE  m.cycle \in Cycles /\ m = [type |-> "finished", cycle |-> m.cycle]
BY DEF Posted

\* The signals a thread posts.
LEMMA PostedFacts ==
  ASSUME TypeOK, NEW c \in Cycles
  PROVE  /\ [type |-> "finished", cycle |-> c] \in Posted
         /\ [type |-> "sync_finished", up |-> cycle[c].up,
             pair |-> IF cycle[c].up THEN cycle[c].pair ELSE NoPair] \in Posted
         /\ \A m \in Posted : Append(posted, m) \in Seq(Posted)
<1>1. cycle[c].up \in BOOLEAN /\ cycle[c].pair \in Pair /\ NoPair \in Pair BY DEF TypeOK, Cycle, Pair
<1>2. posted \in Seq(Posted) BY DEF TypeOK
<1>3. \A m \in Posted : Append(posted, m) \in Seq(Posted)
  <2> HIDE DEF Posted
  <2> QED BY <1>2
<1> QED BY <1>1, <1>3 DEF Posted

(***************************************************************************)
(* TypeOK, step by step                                                    *)
(***************************************************************************)
LEMMA HappensFacts ==
  ASSUME TypeOK, NEW what \in {"expiries", "cuts", "clicks"}, Happens(what)
  PROVE  /\ happened' \in [expiries : Nat, cuts : Nat, clicks : Nat, loss : BOOLEAN]
         /\ happened'.loss = happened.loss /\ happened'.cuts >= happened.cuts
         /\ what = "cuts" => happened'.cuts # 0
<1>1. happened \in [expiries : Nat, cuts : Nat, clicks : Nat, loss : BOOLEAN] BY DEF TypeOK
<1>2. happened[what] + 1 \in Nat BY <1>1
<1>3. happened' = [happened EXCEPT ![what] = happened[what] + 1] BY DEF Happens
<1>4. CASE what = "cuts" BY <1>1, <1>2, <1>3, <1>4
<1>5. CASE what = "expiries" BY <1>1, <1>2, <1>3, <1>5
<1>6. CASE what = "clicks" BY <1>1, <1>2, <1>3, <1>6
<1> QED BY <1>4, <1>5, <1>6

LEMMA LossFacts ==
  ASSUME TypeOK, LosesAnswer
  PROVE  happened' \in [expiries : Nat, cuts : Nat, clicks : Nat, loss : BOOLEAN] /\ ~Undisturbed'
BY DEF TypeOK, LosesAnswer, Undisturbed

Server == [announced : Nat, rev : Nat, live : SUBSET Pairs, expired : SUBSET Pairs]
Socket == [pair : Pair, open : BOOLEAN, inbox : Nat, seen : Nat]

LEMMA RefreshFacts ==
  ASSUME TypeOK, NEW old, refresh_tokens(old, Fresh)
  PROVE  /\ srv' \in Server /\ Unheld # {} /\ Fresh \in Pairs
         /\ srv'.live = (srv.live \ {old}) \cup {Fresh}
<1>1. Unheld # {} /\ srv' = [srv EXCEPT !.live = (@ \ {old}) \cup {Fresh}, !.expired = @ \ {Fresh}]
  BY DEF refresh_tokens
<1>2. Fresh \in Pairs BY <1>1, FreshFacts
<1> DEFINE new == Fresh
<1> HIDE DEF new
<1>3. srv' = [srv EXCEPT !.live = (srv.live \ {old}) \cup {new}, !.expired = srv.expired \ {new}]
  BY <1>1 DEF new
<1>4. srv \in Server /\ new \in Pairs BY <1>2 DEF TypeOK, Server, new
<1>5. srv' \in Server /\ srv'.live = (srv.live \ {old}) \cup {new}
  BY <1>3, <1>4 DEF Server
<1> QED BY <1>1, <1>2, <1>5 DEF new

LEMMA InitTypes == Init => TypeOK
<1> SUFFICES ASSUME Init PROVE TypeOK OBVIOUS
<1>1. 1 \in Pairs /\ 1 \in Pair BY PairsAreNumbered DEF Pair
<1>2. srv \in [announced : Nat, rev : Nat, live : SUBSET Pairs, expired : SUBSET Pairs]
  BY <1>1 DEF Init
<1>3. Ended \in Cycle BY DEF Ended, Cycle, Pair, Phase
<1>4. cycle \in [Cycles -> Cycle] BY <1>3 DEF Init
<1>5. win \in Window /\ rt \in [pair : Pair, open : BOOLEAN, inbox : Nat, seen : Nat]
  BY <1>1 DEF Init, OpenedWindow, ClosedSocket, Window
<1>6. posted \in Seq(Posted)
  <2> HIDE DEF Posted
  <2> QED BY DEF Init
<1>7. api \in [pair : Pair, sent : Pair] BY <1>1 DEF Init, Pair
<1> QED BY <1>2, <1>4, <1>5, <1>6, <1>7 DEF Init, TypeOK

LEMMA ServerKeepsTypes ==
  ASSUME TypeOK, broadcast_event \/ CommitWrite \/ Expire \/ Drop \/ Restore
  PROVE  TypeOK'
<1>1. srv \in Server /\ rt \in Socket BY DEF TypeOK, Server, Socket
<1>2. CASE broadcast_event
  <2>1. srv.announced + 1 \in Nat BY <1>1 DEF Server
  <2>2. srv' \in Server BY <1>1, <1>2, <2>1 DEF broadcast_event, Server
  <2>3. rt' \in Socket BY <1>1, <1>2, <2>1 DEF broadcast_event, Socket
  <2> QED BY <1>2, <2>2, <2>3 DEF broadcast_event, TypeOK, Server, Socket
<1>3. CASE CommitWrite
  <2>1. srv.announced \in Nat BY <1>1 DEF Server
  <2>2. srv' \in Server BY <1>1, <1>3, <2>1 DEF CommitWrite, Server
  <2> QED BY <1>3, <2>2 DEF CommitWrite, TypeOK, Server, desktop
<1>4. CASE Expire
  <2>1. PICK p \in srv.live : srv' = [srv EXCEPT !.expired = srv.expired \cup {p}]
    BY <1>4 DEF Expire
  <2>2. srv.expired \cup {p} \in SUBSET Pairs BY <1>1 DEF Server
  <2>3. srv' \in Server BY <1>1, <2>1, <2>2 DEF Server
  <2> QED BY <1>4, <2>3, HappensFacts DEF Expire, TypeOK, Server, desktop
<1>5. CASE Drop BY <1>5, HappensFacts DEF Drop, TypeOK, desktop
<1>6. CASE Restore BY <1>6 DEF Restore, TypeOK, desktop
<1> QED BY <1>2, <1>3, <1>4, <1>5, <1>6

\* The handlers that do no more than ask for a sync.
Asks == _initial_load \/ SyncTimer \/ ImmediateSync \/ _on_refresh_clicked

LEMMA AsksFacts ==
  ASSUME TypeOK, Asks
  PROVE  \E w \in Window, force \in BOOLEAN :
           /\ w.pair = win.pair /\ w.thread = win.thread /\ w.pending = win.pending
           /\ _run_sync(w, cycle, force)
           /\ UNCHANGED <<srv, net, api, rt, mirror, posted>>
<1>1. CASE _initial_load
  <2> DEFINE w == [win EXCEPT !.loaded = TRUE]
  <2>1. w \in Window /\ w.pair = win.pair /\ w.thread = win.thread /\ w.pending = win.pending
    BY DEF TypeOK, Window
  <2>2. _run_sync(w, cycle, TRUE) /\ UNCHANGED <<srv, net, api, rt, mirror, posted>>
    BY <1>1 DEF _initial_load, server
  <2> HIDE DEF w
  <2> QED BY <2>1, <2>2
<1>2. CASE SyncTimer BY <1>2 DEF SyncTimer, server, TypeOK
<1>3. CASE ImmediateSync
  <2> DEFINE w == [win EXCEPT !.debounce = FALSE]
  <2>1. w \in Window /\ w.pair = win.pair /\ w.thread = win.thread /\ w.pending = win.pending
    BY DEF TypeOK, Window
  <2>2. _run_sync(w, cycle, FALSE) /\ UNCHANGED <<srv, net, api, rt, mirror, posted>>
    BY <1>3 DEF ImmediateSync, server
  <2> HIDE DEF w
  <2> QED BY <2>1, <2>2
<1>4. CASE _on_refresh_clicked BY <1>4 DEF _on_refresh_clicked, TypeOK
<1> QED BY <1>1, <1>2, <1>3, <1>4 DEF Asks

LEMMA AsksHappened ==
  ASSUME TypeOK, Asks
  PROVE  /\ happened' \in [expiries : Nat, cuts : Nat, clicks : Nat, loss : BOOLEAN]
         /\ Undisturbed' => Undisturbed
<1>1. happened \in [expiries : Nat, cuts : Nat, clicks : Nat, loss : BOOLEAN] BY DEF TypeOK
<1>2. CASE happened' = happened BY <1>1, <1>2 DEF Undisturbed
<1>3. CASE Happens("clicks") BY <1>1, <1>3, HappensFacts DEF Undisturbed
<1> QED BY <1>2, <1>3 DEF Asks, _initial_load, SyncTimer, ImmediateSync, _on_refresh_clicked, server

LEMMA AsksKeepsTypes == ASSUME TypeOK, Asks PROVE TypeOK'
<1>1. PICK w \in Window, force \in BOOLEAN :
        /\ w.pair = win.pair /\ w.thread = win.thread
        /\ _run_sync(w, cycle, force) /\ UNCHANGED <<srv, net, api, rt, mirror, posted>>
  BY AsksFacts
<1>2. w.thread # None /\ Running(w.thread) => cycle[w.thread].phase # "none"
  BY DEF Running
<1>3. /\ win' \in Window /\ cycle' \in [Cycles -> Cycle] /\ wanted' \in BOOLEAN /\ overlap' \in BOOLEAN
  <2>1. cycle \in [Cycles -> Cycle] /\ overlap \in BOOLEAN BY DEF TypeOK
  <2> QED BY <1>1, <1>2, <2>1, RunSyncTypes
<1> QED BY <1>1, <1>3, AsksHappened DEF TypeOK

\* What handling a report does.
LEMMA ReportHandled ==
  ASSUME TypeOK, _on_sync_finished
  PROVE  /\ Got("sync_finished") /\ Message.pair \in Pair
         /\ win' \in Window /\ api' \in [pair : Pair, sent : Pair] /\ rt' \in Socket
         /\ win'.pending = win.pending /\ api'.sent = api.sent
         /\ UNCHANGED <<srv, net, happened, cycle, mirror, wanted, overlap>>
         /\ IF Message.pair # NoPair /\ Message.pair # win.pair
            THEN win'.pair = Message.pair /\ api'.pair = Message.pair
            ELSE win'.pair = win.pair /\ api' = api
<1>1. /\ Got("sync_finished") /\ UNCHANGED <<srv, net, happened, cycle, mirror, wanted, overlap>>
  BY DEF _on_sync_finished, server
<1>2. Message \in Posted /\ Message.type = "sync_finished" BY <1>1, MessageFacts
<1>3. Message.up \in BOOLEAN /\ Message.pair \in Pair BY <1>2, ReportFacts
<1>4. win \in Window /\ api \in [pair : Pair, sent : Pair] /\ rt \in Socket
  BY DEF TypeOK, Socket
<1>5. CASE Message.pair # NoPair /\ Message.pair # win.pair
  <2>1. /\ win' = [win EXCEPT !.online = Message.up, !.pair = Message.pair]
        /\ api' = [api EXCEPT !.pair = Message.pair]
        /\ rt' = [rt EXCEPT !.pair = Message.pair, !.open = FALSE, !.inbox = 0]
    BY <1>5 DEF _on_sync_finished
  <2>2. win' \in Window /\ win'.pair = Message.pair /\ win'.pending = win.pending
    BY <1>3, <1>4, <2>1 DEF Window
  <2>3. api' \in [pair : Pair, sent : Pair] /\ api'.pair = Message.pair /\ api'.sent = api.sent
    BY <1>3, <1>4, <2>1
  <2>4. rt' \in Socket BY <1>3, <1>4, <2>1 DEF Socket
  <2> QED BY <1>1, <1>3, <1>5, <2>2, <2>3, <2>4
<1>6. CASE ~(Message.pair # NoPair /\ Message.pair # win.pair)
  <2>1. win' = [win EXCEPT !.online = Message.up, !.pair = win.pair] /\ api' = api /\ rt' = rt
    BY <1>6 DEF _on_sync_finished
  <2>2. win' \in Window /\ win'.pair = win.pair /\ win'.pending = win.pending
    BY <1>3, <1>4, <2>1 DEF Window
  <2> QED BY <1>1, <1>3, <1>4, <1>6, <2>1, <2>2
<1> QED BY <1>5, <1>6

\* Handling a finished signal: the thread is gone, and a noted sync starts.
LEMMA FinishHandled ==
  ASSUME TypeOK, _on_sync_thread_finished
  PROVE  /\ Got("finished") /\ UNCHANGED <<srv, net, happened, api, rt, mirror>>
         /\ \E w \in Window, cs \in [Cycles -> Cycle] :
              /\ w.pair = win.pair /\ w.thread = None /\ w.pending = win.pending
              /\ cs[Message.cycle] = Ended /\ \A c \in Cycles \ {Message.cycle} : cs[c] = cycle[c]
              /\ IF win.pending THEN _run_sync(w, cs, FALSE)
                 ELSE win' = w /\ cycle' = cs /\ wanted' = wanted /\ overlap' = overlap
<1> DEFINE w == [win EXCEPT !.thread = None]
           cs == [cycle EXCEPT ![Message.cycle] = Ended]
<1>1. /\ Got("finished") /\ UNCHANGED <<srv, net, happened, api, rt, mirror>>
      /\ IF win.pending THEN _run_sync(w, cs, FALSE)
         ELSE win' = w /\ cycle' = cs /\ wanted' = wanted /\ overlap' = overlap
  BY DEF _on_sync_thread_finished, server
<1>2. Message \in Posted /\ Message.type = "finished" BY <1>1, MessageFacts
<1>3. Message.cycle \in Cycles BY <1>2, FinishedFacts
<1>4. Ended \in Cycle BY ShapeFacts
<1>5. cs \in [Cycles -> Cycle] /\ cs[Message.cycle] = Ended
      /\ \A c \in Cycles \ {Message.cycle} : cs[c] = cycle[c]
  BY <1>3, <1>4 DEF TypeOK
<1>6. w \in Window /\ w.pair = win.pair /\ w.thread = None /\ w.pending = win.pending
  BY DEF TypeOK, Window
<1> HIDE DEF w, cs
<1> QED BY <1>1, <1>5, <1>6

LEMMA QueuedKeepsTypes == ASSUME TypeOK, Queued PROVE TypeOK'
<1>1. CASE _on_sync_finished
  <2>1. posted' \in Seq(Posted) BY <1>1, ReportHandled, MessageFacts
  <2> QED BY <1>1, <2>1, ReportHandled DEF TypeOK, Socket
<1>2. CASE _on_sync_thread_finished
  <2>1. posted' \in Seq(Posted) BY <1>2, FinishHandled, MessageFacts
  <2>2. PICK w \in Window, cs \in [Cycles -> Cycle] :
          /\ w.thread = None
          /\ IF win.pending THEN _run_sync(w, cs, FALSE)
             ELSE win' = w /\ cycle' = cs /\ wanted' = wanted /\ overlap' = overlap
    BY <1>2, FinishHandled
  <2>3. /\ win' \in Window /\ cycle' \in [Cycles -> Cycle] /\ wanted' \in BOOLEAN /\ overlap' \in BOOLEAN
    <3>1. overlap \in BOOLEAN /\ wanted \in BOOLEAN BY DEF TypeOK
    <3>2. CASE win.pending BY <2>2, <3>1, <3>2, RunSyncTypes
    <3>3. CASE ~win.pending BY <2>2, <3>1, <3>3
    <3> QED BY <3>2, <3>3
  <2> QED BY <1>2, <2>1, <2>3, FinishHandled DEF TypeOK
<1> QED BY <1>1, <1>2 DEF Queued

\* Logging out and in replaces everything the process held.
LEMMA LogoutFacts ==
  ASSUME TypeOK, _logout
  PROVE  /\ Happens("clicks") /\ UNCHANGED <<net, mirror, overlap>>
         /\ posted' = <<>> /\ wanted' = FALSE /\ cycle' = [c \in Cycles |-> Ended]
         /\ \E p \in Pair :
              /\ srv' \in Server /\ win' = OpenedWindow(p) /\ rt' = ClosedSocket(p)
              /\ api' = [pair |-> p, sent |-> NoPair]
              /\ net => p \in Pairs /\ p \in srv'.live
<1> DEFINE p == IF net THEN Fresh ELSE NoPair
<1>1. /\ win' = OpenedWindow(p) /\ api' = [pair |-> p, sent |-> NoPair] /\ rt' = ClosedSocket(p)
      /\ srv' = [srv EXCEPT !.live = (IF net THEN @ \ {win.pair} ELSE @) \cup ({p} \ {NoPair}),
                            !.expired = @ \ {p}]
  BY DEF _logout
<1>2. p \in Pair /\ (net => p \in Pairs /\ p # NoPair)
  BY FreshFacts, PairsAreNumbered DEF _logout, Pair
<1> HIDE DEF p
<1> DEFINE kept == IF net THEN srv.live \ {win.pair} ELSE srv.live
<1>3. srv' = [srv EXCEPT !.live = kept \cup ({p} \ {NoPair}), !.expired = srv.expired \ {p}]
  BY <1>1
<1>4. srv \in Server /\ kept \subseteq Pairs BY DEF TypeOK, Server
<1> HIDE DEF kept
<1>5. srv' \in Server /\ srv'.live = kept \cup ({p} \ {NoPair})
  BY <1>2, <1>3, <1>4 DEF Server, Pair
<1>6. net => p \in Pairs /\ p \in srv'.live BY <1>2, <1>5
<1> QED BY <1>1, <1>2, <1>5, <1>6 DEF _logout

LEMMA LogoutKeepsTypes == ASSUME TypeOK, _logout PROVE TypeOK'
<1>1. PICK p \in Pair : srv' \in Server /\ win' = OpenedWindow(p) /\ rt' = ClosedSocket(p)
                        /\ api' = [pair |-> p, sent |-> NoPair]
  BY LogoutFacts
<1>2. win' \in Window /\ rt' \in Socket /\ api' \in [pair : Pair, sent : Pair]
  BY <1>1 DEF OpenedWindow, ClosedSocket, Window, Socket, Pair
<1>3. cycle' \in [Cycles -> Cycle] BY LogoutFacts, ShapeFacts
<1>4. happened' \in [expiries : Nat, cuts : Nat, clicks : Nat, loss : BOOLEAN]
  BY LogoutFacts, HappensFacts
<1>5. posted' \in Seq(Posted)
  <2> HIDE DEF Posted
  <2> QED BY LogoutFacts
<1> QED BY <1>1, <1>2, <1>3, <1>4, <1>5, LogoutFacts DEF TypeOK, Server, Socket

\* A page's request, and the rotation that answers it.
LEMMA PagesFacts ==
  ASSUME TypeOK, _request \/ _do_refresh
  PROVE  /\ api' \in [pair : Pair, sent : Pair] /\ srv' \in Server
         /\ happened' \in [expiries : Nat, cuts : Nat, clicks : Nat, loss : BOOLEAN]
         /\ UNCHANGED <<net, win, cycle, rt, mirror, posted, wanted, overlap>>
         /\ \/ /\ api'.pair = api.pair /\ api'.sent = api.pair /\ srv' = srv /\ happened' = happened
            \/ /\ api'.pair = Fresh /\ api'.sent = NoPair /\ happened' = happened
               /\ Unheld # {} /\ srv'.live = (srv.live \ {api.sent}) \cup {Fresh}
            \/ ~Undisturbed'
<1>1. /\ api \in [pair : Pair, sent : Pair] /\ srv \in Server /\ NoPair \in Pair
      /\ happened \in [expiries : Nat, cuts : Nat, clicks : Nat, loss : BOOLEAN]
  BY DEF TypeOK, Server, Pair
<1>2. CASE _request BY <1>1, <1>2 DEF _request, server
<1>3. CASE _do_refresh
  <2>1. /\ srv' \in Server /\ Unheld # {} /\ Fresh \in Pair
        /\ srv'.live = (srv.live \ {api.sent}) \cup {Fresh}
    BY <1>3, RefreshFacts DEF _do_refresh, Pair
  <2> DEFINE new == Fresh
  <2> HIDE DEF new
  <2>2. CASE api' = [pair |-> new, sent |-> NoPair] /\ happened' = happened
    BY <1>1, <1>3, <2>1, <2>2 DEF _do_refresh, new
  <2>3. CASE LosesAnswer /\ api' = [api EXCEPT !.sent = NoPair]
    BY <1>1, <1>3, <2>1, <2>3, LossFacts DEF _do_refresh
  <2> QED BY <1>3, <2>2, <2>3 DEF _do_refresh, new
<1> QED BY <1>2, <1>3

LEMMA PagesKeepTypes == ASSUME TypeOK, _request \/ _do_refresh PROVE TypeOK'
BY PagesFacts DEF TypeOK, Server

Sockets == _try_connect \/ _on_ws_disconnected \/ _on_message_received \/ _poll_recent_events

LEMMA SocketsFacts ==
  ASSUME TypeOK, Sockets
  PROVE  /\ rt' \in Socket /\ win' \in Window /\ win'.pair = win.pair /\ win'.pending = win.pending
         /\ UNCHANGED <<srv, net, happened, api, cycle, mirror, posted, wanted, overlap>>
<1>1. rt \in Socket /\ win \in Window /\ srv.announced \in Nat BY DEF TypeOK, Socket
<1>2. ASSUME NEW n \in Nat, Hears(n)
      PROVE  /\ rt' \in Socket /\ win' \in Window /\ win'.pair = win.pair /\ win'.pending = win.pending
             /\ UNCHANGED <<srv, net, happened, api, cycle, mirror, posted, wanted, overlap>>
  <2>1. rt' \in Socket BY <1>1, <1>2 DEF Hears, Socket
  <2>2. win' \in Window /\ win'.pair = win.pair /\ win'.pending = win.pending
    BY <1>1, <1>2 DEF Hears, Window
  <2> QED BY <1>2, <2>1, <2>2 DEF Hears, server
<1>3. rt.inbox \in Nat BY <1>1 DEF Socket
<1>4. CASE _try_connect \/ _on_ws_disconnected
  <2>1. /\ rt' = [rt EXCEPT !.open = TRUE, !.inbox = 0] \/ rt' = [rt EXCEPT !.open = FALSE, !.inbox = 0]
        /\ UNCHANGED <<srv, net, happened, win, api, cycle, mirror, posted, wanted, overlap>>
    BY <1>4 DEF _try_connect, _on_ws_disconnected, server
  <2>2. PICK open \in BOOLEAN : rt' = [rt EXCEPT !.open = open, !.inbox = 0] BY <2>1
  <2>3. rt' \in Socket BY <1>1, <2>2 DEF Socket
  <2> QED BY <1>1, <2>1, <2>3
<1> QED BY <1>1, <1>2, <1>3, <1>4 DEF Sockets, _on_message_received, _poll_recent_events

LEMMA SocketsKeepTypes == ASSUME TypeOK, Sockets PROVE TypeOK'
BY SocketsFacts DEF TypeOK, Socket

\* What a step of a thread does to its cycle and to the rest.
Unmoved == UNCHANGED <<net, win, api, rt, wanted, overlap>>
Moves(c, ph) ==
  /\ cycle' \in [Cycles -> Cycle] /\ \A d \in Cycles \ {c} : cycle'[d] = cycle[d]
  /\ cycle'[c].phase = ph
Steps(c) ==
  \/ /\ cycle[c].phase = "check" /\ (Moves(c, "report") \/ Moves(c, "bootstrap") \/ Moves(c, "exchange"))
     /\ cycle'[c].pair = cycle[c].pair /\ cycle'[c].up = net
     /\ posted' = posted /\ srv' = srv /\ happened' = happened
  \/ /\ cycle[c].phase = "bootstrap" /\ Moves(c, "exchange")
     /\ cycle'[c].pair = cycle[c].pair /\ cycle'[c].up = cycle[c].up
     /\ posted' = posted /\ srv' = srv /\ happened' = happened
  \/ /\ cycle[c].phase = "exchange" /\ (Moves(c, "report") \/ Moves(c, "refresh"))
     /\ cycle'[c].pair = cycle[c].pair /\ cycle'[c].up = net
     /\ posted' = posted /\ srv' = srv /\ happened' = happened
  \/ /\ cycle[c].phase = "refresh" /\ (Moves(c, "report") \/ Moves(c, "granted"))
     /\ cycle'[c].pair = cycle[c].pair /\ cycle'[c].up = cycle[c].up
     /\ posted' = posted /\ srv' = srv /\ happened' = happened
  \/ /\ cycle[c].phase = "granted" /\ Moves(c, "exchange")
     /\ cycle'[c].pair = Fresh /\ cycle'[c].up = cycle[c].up
     /\ posted' = posted /\ srv'.live = (srv.live \ {cycle[c].pair}) \cup {Fresh} /\ happened' = happened
     /\ Unheld # {}
  \/ /\ cycle[c].phase = "granted" /\ Moves(c, "report")
     /\ posted' = posted /\ ~Undisturbed'
  \/ /\ cycle[c].phase = "report" /\ Moves(c, "finishing")
     /\ cycle'[c].pair = cycle[c].pair /\ cycle'[c].up = cycle[c].up
     /\ posted' = Append(posted, [type |-> "sync_finished", up |-> cycle[c].up,
                                  pair |-> IF cycle[c].up THEN cycle[c].pair ELSE NoPair])
     /\ srv' = srv /\ happened' = happened
  \/ /\ cycle[c].phase = "finishing" /\ Moves(c, "gone")
     /\ cycle'[c].pair = cycle[c].pair /\ cycle'[c].up = cycle[c].up
     /\ posted' = Append(posted, [type |-> "finished", cycle |-> c])
     /\ srv' = srv /\ happened' = happened

LEMMA MoveFacts ==
  ASSUME TypeOK, NEW c \in Cycles, NEW ph \in Phase, NEW p \in Pair, NEW up \in BOOLEAN,
         \/ cycle' = [cycle EXCEPT ![c].phase = ph] /\ p = cycle[c].pair /\ up = cycle[c].up
         \/ cycle' = [[cycle EXCEPT ![c].phase = ph] EXCEPT ![c].up = up] /\ p = cycle[c].pair
         \/ cycle' = [[cycle EXCEPT ![c].phase = ph] EXCEPT ![c].pair = p] /\ up = cycle[c].up
  PROVE  Moves(c, ph) /\ cycle'[c].pair = p /\ cycle'[c].up = up
<1>1. cycle \in [Cycles -> Cycle] BY DEF TypeOK
<1> DEFINE a == [cycle[c] EXCEPT !.phase = ph]
           b == [cycle[c] EXCEPT !.phase = ph, !.up = up]
           e == [cycle[c] EXCEPT !.phase = ph, !.pair = p]
<1>2. a \in Cycle /\ a.phase = ph /\ a.pair = cycle[c].pair /\ a.up = cycle[c].up
  BY <1>1 DEF Cycle
<1>3. b \in Cycle /\ b.phase = ph /\ b.pair = cycle[c].pair /\ b.up = up
  BY <1>1 DEF Cycle
<1>4. e \in Cycle /\ e.phase = ph /\ e.pair = p /\ e.up = cycle[c].up
  BY <1>1 DEF Cycle
<1>5. \/ cycle' = [cycle EXCEPT ![c] = a] /\ p = cycle[c].pair /\ up = cycle[c].up
      \/ cycle' = [cycle EXCEPT ![c] = b] /\ p = cycle[c].pair
      \/ cycle' = [cycle EXCEPT ![c] = e] /\ up = cycle[c].up
  BY <1>1
<1> HIDE DEF a, b, e
<1> QED BY <1>1, <1>2, <1>3, <1>4, <1>5 DEF Moves

LEMMA ThreadFacts ==
  ASSUME TypeOK, NEW c \in Cycles, SyncThread(c)
  PROVE  /\ Steps(c) /\ Unmoved
         /\ srv' \in Server /\ mirror' \in Nat
         /\ happened' \in [expiries : Nat, cuts : Nat, clicks : Nat, loss : BOOLEAN]
<1>1. /\ srv \in Server /\ mirror \in Nat /\ srv.rev \in Nat /\ net \in BOOLEAN
      /\ happened \in [expiries : Nat, cuts : Nat, clicks : Nat, loss : BOOLEAN]
      /\ cycle[c].pair \in Pair /\ cycle[c].up \in BOOLEAN
  BY DEF TypeOK, Server, Cycle
<1>2. CASE check_connection(c)
  <2>1. PICK ph \in {"report", "bootstrap", "exchange"} :
          cycle' = [[cycle EXCEPT ![c].phase = ph] EXCEPT ![c].up = net]
    BY <1>2 DEF check_connection, To
  <2>2. ph \in Phase BY DEF Phase
  <2>3. Moves(c, ph) /\ cycle'[c].pair = cycle[c].pair /\ cycle'[c].up = net
    BY <1>1, <2>1, <2>2, MoveFacts
  <2> QED BY <1>1, <1>2, <2>3 DEF check_connection, In, Quiet, server, Steps, Unmoved
<1>3. CASE bootstrap(c)
  <2>1. cycle' = [cycle EXCEPT ![c].phase = "exchange"] BY <1>3 DEF bootstrap, To
  <2>2. Moves(c, "exchange") /\ cycle'[c].pair = cycle[c].pair /\ cycle'[c].up = cycle[c].up
    BY <1>1, <2>1, MoveFacts DEF Phase
  <2> QED BY <1>1, <1>3, <2>2 DEF bootstrap, In, Quiet, server, Steps, Unmoved
<1>4. CASE sync(c)
  <2>1. PICK ph \in {"report", "refresh"} :
          cycle' = [[cycle EXCEPT ![c].phase = ph] EXCEPT ![c].up = net]
    BY <1>4 DEF sync, To
  <2>2. ph \in Phase BY DEF Phase
  <2>3. Moves(c, ph) /\ cycle'[c].pair = cycle[c].pair /\ cycle'[c].up = net
    BY <1>1, <2>1, <2>2, MoveFacts
  <2> QED BY <1>1, <1>4, <2>3 DEF sync, In, Quiet, server, Steps, Unmoved
<1>5. CASE EngineRefresh(c)
  <2>1. PICK ph \in {"report", "granted"} : cycle' = [cycle EXCEPT ![c].phase = ph]
    BY <1>5 DEF EngineRefresh, To
  <2>2. ph \in Phase BY DEF Phase
  <2>3. Moves(c, ph) /\ cycle'[c].pair = cycle[c].pair /\ cycle'[c].up = cycle[c].up
    BY <1>1, <2>1, <2>2, MoveFacts
  <2> QED BY <1>1, <1>5, <2>3 DEF EngineRefresh, In, Quiet, server, Steps, Unmoved
<1>6. CASE EngineRefreshed(c)
  <2>1. /\ srv' \in Server /\ Unheld # {} /\ Fresh \in Pair
        /\ srv'.live = (srv.live \ {cycle[c].pair}) \cup {Fresh}
    BY <1>6, RefreshFacts DEF EngineRefreshed, Pair
  <2>2. CASE cycle' = [To(c, "exchange") EXCEPT ![c].pair = Fresh] /\ UNCHANGED happened
    <3>1. Moves(c, "exchange") /\ cycle'[c].pair = Fresh /\ cycle'[c].up = cycle[c].up
      BY <1>1, <2>1, <2>2, MoveFacts DEF Phase, To
    <3> QED BY <1>1, <1>6, <2>1, <2>2, <3>1 DEF EngineRefreshed, In, Quiet, Steps, Unmoved
  <2>3. CASE LosesAnswer /\ cycle' = To(c, "report")
    <3>1. Moves(c, "report") BY <1>1, <2>3, MoveFacts DEF Phase, To
    <3> QED BY <1>1, <1>6, <2>1, <2>3, <3>1, LossFacts DEF EngineRefreshed, In, Quiet, Steps, Unmoved
  <2> QED BY <1>6, <2>2, <2>3 DEF EngineRefreshed
<1>7. CASE Report(c)
  <2>1. cycle' = [cycle EXCEPT ![c].phase = "finishing"] BY <1>7 DEF Report, To
  <2>2. Moves(c, "finishing") /\ cycle'[c].pair = cycle[c].pair /\ cycle'[c].up = cycle[c].up
    BY <1>1, <2>1, MoveFacts DEF Phase
  <2> QED BY <1>1, <1>7, <2>2 DEF Report, In, Quiet, server, Steps, Unmoved
<1>8. CASE Finish(c)
  <2>1. cycle' = [cycle EXCEPT ![c].phase = "gone"] BY <1>8 DEF Finish, To
  <2>2. Moves(c, "gone") /\ cycle'[c].pair = cycle[c].pair /\ cycle'[c].up = cycle[c].up
    BY <1>1, <2>1, MoveFacts DEF Phase
  <2> QED BY <1>1, <1>8, <2>2 DEF Finish, In, Quiet, server, Steps, Unmoved
<1> QED BY <1>2, <1>3, <1>4, <1>5, <1>6, <1>7, <1>8 DEF SyncThread

LEMMA ThreadKeepsTypes == ASSUME TypeOK, NEW c \in Cycles, SyncThread(c) PROVE TypeOK'
<1>1. cycle' \in [Cycles -> Cycle] BY ThreadFacts DEF Steps, Moves
<1>2. posted' \in Seq(Posted)
  <2>1. posted \in Seq(Posted) BY DEF TypeOK
  <2> QED BY <2>1, ThreadFacts, PostedFacts DEF Steps
<1> QED BY <1>1, <1>2, ThreadFacts DEF TypeOK, Unmoved, Server

LEMMA StepKeepsTypes == ASSUME TypeOK, [Next]_vars PROVE TypeOK'
<1>1. CASE UNCHANGED vars BY <1>1 DEF TypeOK, vars
<1>2. CASE Next
  BY <1>2, ServerKeepsTypes, AsksKeepsTypes, QueuedKeepsTypes, LogoutKeepsTypes, PagesKeepTypes,
     SocketsKeepTypes, ThreadKeepsTypes
     DEF Next, Asks, Sockets
<1> QED BY <1>1, <1>2

\* The shapes are kept for every set of pairs and of cycles, however long the queue.
THEOREM TypeCorrect == Spec => []TypeOK
<1>1. TypeOK /\ [Next]_vars => TypeOK' BY StepKeepsTypes
<1> QED BY <1>1, InitTypes, PTL DEF Spec

(***************************************************************************)
(* NoForgottenSync, step by step                                           *)
(***************************************************************************)
LEMMA TailFacts ==
  ASSUME NEW S, NEW s \in Seq(S), s # <<>>
  PROVE  /\ \A i \in DOMAIN s \ {1} : i - 1 \in DOMAIN Tail(s) /\ Tail(s)[i - 1] = s[i]
         /\ Head(s) = s[1]
OBVIOUS

LEMMA ReportKeepsRequest ==
  ASSUME TypeOK, NoForgottenSync, _on_sync_finished PROVE NoForgottenSync'
<1>1. /\ posted \in Seq(Posted) /\ posted # <<>> /\ posted' = Tail(posted)
      /\ posted[1].type = "sync_finished"
  BY ReportHandled, MessageFacts DEF TypeOK
<1>2. SUFFICES ASSUME wanted PROVE InMotion'
  BY ReportHandled DEF NoForgottenSync
<1>3. CASE \E c \in Cycles : cycle[c].phase # "none"
  BY <1>3, ReportHandled DEF InMotion
<1>4. CASE \E i \in DOMAIN posted : posted[i].type = "finished"
  <2>1. PICK i \in DOMAIN posted : posted[i].type = "finished" BY <1>4
  <2>2. i # 1 BY <1>1, <2>1
  <2>3. i - 1 \in DOMAIN posted' /\ posted'[i - 1] = posted[i]
    <3> HIDE DEF Posted
    <3> QED BY <1>1, <2>2, TailFacts
  <2> QED BY <2>1, <2>3 DEF InMotion
<1> QED BY <1>2, <1>3, <1>4 DEF NoForgottenSync, InMotion

\* Whoever starts a sync meets every request there is, and whoever does not, notes it.
LEMMA RunSyncKeepsRequest ==
  ASSUME NEW w \in Window, NEW cs \in [Cycles -> Cycle], NEW force \in BOOLEAN,
         w.thread # None /\ Running(w.thread) => cs[w.thread].phase # "none",
         _run_sync(w, cs, force)
  PROVE  NoForgottenSync'
<1>1. CASE Noted(w, cs)
  <2>1. win'.pending = TRUE BY <1>1 DEF Noted, Window
  <2> QED BY <1>1, <2>1 DEF Noted, NoForgottenSync, InMotion
<1>2. ASSUME NEW c \in Cycles, Started(w, cs, force, c) PROVE NoForgottenSync'
  BY <1>2 DEF Started, NoForgottenSync
<1> QED BY <1>1, <1>2, RunSyncFacts

LEMMA StepKeepsRequest ==
  ASSUME TypeOK, NoForgottenSync, [Next]_vars PROVE NoForgottenSync'
<1>1. CASE UNCHANGED vars \/ broadcast_event \/ CommitWrite \/ Expire \/ Drop \/ Restore
  <2>1. UNCHANGED <<win, cycle, posted, wanted>>
    BY <1>1 DEF vars, broadcast_event, CommitWrite, Expire, Drop, Restore, desktop
  <2> QED BY <2>1 DEF NoForgottenSync, InMotion
<1>2. CASE Asks
  <2>1. PICK w \in Window, force \in BOOLEAN : w.thread = win.thread /\ _run_sync(w, cycle, force)
    BY <1>2, AsksFacts
  <2>2. cycle \in [Cycles -> Cycle] BY DEF TypeOK
  <2>3. w.thread # None /\ Running(w.thread) => cycle[w.thread].phase # "none" BY DEF Running
  <2> QED BY <2>1, <2>2, <2>3, RunSyncKeepsRequest
<1>3. CASE _on_sync_finished BY <1>3, ReportKeepsRequest
<1>4. CASE _on_sync_thread_finished
  <2>1. PICK w \in Window, cs \in [Cycles -> Cycle] :
          /\ w.thread = None
          /\ IF win.pending THEN _run_sync(w, cs, FALSE)
             ELSE win' = w /\ cycle' = cs /\ wanted' = wanted /\ overlap' = overlap
    BY <1>4, FinishHandled
  <2>2. CASE win.pending BY <2>1, <2>2, RunSyncKeepsRequest
  <2>3. CASE ~win.pending BY <2>1, <2>3 DEF NoForgottenSync
  <2> QED BY <2>2, <2>3
<1>5. CASE _logout BY <1>5, LogoutFacts DEF NoForgottenSync
<1>6. CASE _request \/ _do_refresh BY <1>6, PagesFacts DEF NoForgottenSync, InMotion
<1>7. CASE Sockets BY <1>7, SocketsFacts DEF NoForgottenSync, InMotion
<1>8. ASSUME NEW c \in Cycles, SyncThread(c) PROVE NoForgottenSync'
  <2>1. cycle'[c].phase # "none" BY <1>8, ThreadFacts DEF Steps, Moves
  <2>2. win' = win /\ wanted' = wanted BY <1>8, ThreadFacts DEF Unmoved
  <2> QED BY <2>1, <2>2 DEF NoForgottenSync, InMotion
<1> QED BY <1>1, <1>2, <1>3, <1>4, <1>5, <1>6, <1>7, <1>8 DEF Next, Asks, Queued, Sockets

(***************************************************************************)
(* Rotation, step by step                                                  *)
(***************************************************************************)
LEMMA DisturbedStays ==
  ASSUME TypeOK, [Next]_vars
  PROVE  (Undisturbed' => Undisturbed) /\ (overlap => overlap')
<1>1. happened' = happened \/ (\E what \in {"expiries", "cuts", "clicks"} : Happens(what)) \/ LosesAnswer
  BY DEF Next, vars, broadcast_event, CommitWrite, Expire, Drop, Restore, _initial_load, SyncTimer,
         ImmediateSync, Queued, _on_sync_finished, _on_sync_thread_finished, _on_refresh_clicked,
         _logout, _request, _do_refresh, _try_connect, _on_ws_disconnected, _on_message_received,
         _poll_recent_events, Hears, SyncThread, check_connection, bootstrap, sync, EngineRefresh,
         EngineRefreshed, Report, Finish, server
<1>2. Undisturbed' => Undisturbed
  <2>1. happened \in [expiries : Nat, cuts : Nat, clicks : Nat, loss : BOOLEAN] BY DEF TypeOK
  <2>2. CASE happened' = happened BY <2>2 DEF Undisturbed
  <2>3. ASSUME NEW what \in {"expiries", "cuts", "clicks"}, Happens(what)
        PROVE  Undisturbed' => Undisturbed
    <3>1. /\ happened' \in [expiries : Nat, cuts : Nat, clicks : Nat, loss : BOOLEAN]
          /\ happened'.loss = happened.loss /\ happened'.cuts >= happened.cuts
      BY <2>3, HappensFacts
    <3> QED BY <2>1, <3>1 DEF Undisturbed
  <2>4. CASE LosesAnswer BY <2>4, LossFacts
  <2> QED BY <1>1, <2>2, <2>3, <2>4
<1>3. overlap' = overlap
      \/ \E w, cs, force : _run_sync(w, cs, force)
  BY DEF Next, vars, broadcast_event, CommitWrite, Expire, Drop, Restore, _initial_load, SyncTimer,
         ImmediateSync, Queued, _on_sync_finished, _on_sync_thread_finished, _on_refresh_clicked,
         _logout, _request, _do_refresh, _try_connect, _on_ws_disconnected, _on_message_received,
         _poll_recent_events, Hears, SyncThread, check_connection, bootstrap, sync, EngineRefresh,
         EngineRefreshed, Report, Finish, desktop, Quiet
<1>4. ASSUME NEW w, NEW cs, NEW force, _run_sync(w, cs, force) PROVE overlap => overlap'
  BY <1>4 DEF _run_sync
<1> QED BY <1>2, <1>3, <1>4

Rotating == OneAtATime /\ RotationInv

LEMMA FrameKeepsRotation ==
  ASSUME Rotating, win'.pair = win.pair, srv'.live = srv.live, UNCHANGED <<net, api, cycle, posted>>
  PROVE  Rotating'
BY DEF Rotating, OneAtATime, RotationInv, Busy, InPost, Reported, Ending, TakenOver

\* A cycle that starts while there is no other has the pair of the window.
LEMMA StartKeepsRotation ==
  ASSUME NEW w \in Window, NEW cs \in [Cycles -> Cycle], NEW force, NEW c \in Cycles,
         Started(w, cs, force, c), w.pair = win.pair, ~overlap',
         net, win.pair # NoPair, api.pair # NoPair,
         (\A d \in Cycles : cs[d].phase = "none") => posted' = <<>>,
         api.pair \in srv.live \/ win.pair \in srv.live,
         UNCHANGED <<srv, net, api>>
  PROVE  Rotating'
<1>1. \A d \in Cycles : cs[d].phase = "none" BY DEF Started
<1> DEFINE n == [pair |-> w.pair, phase |-> "check", force |-> force, up |-> FALSE]
<1>2. cycle' = [cs EXCEPT ![c] = n] BY DEF Started
<1>3. n.pair = w.pair /\ n.phase = "check" OBVIOUS
<1> HIDE DEF n
<1>4. /\ cycle'[c].pair = win.pair /\ cycle'[c].phase = "check"
      /\ \A d \in Cycles \ {c} : cycle'[d].phase = "none"
  BY <1>1, <1>2, <1>3
<1>5. Busy' = {c} BY <1>4 DEF Busy
<1>6. win'.pair = win.pair BY DEF Started, Window
<1>7. posted' = <<>> BY <1>1
<1>8. OneAtATime' BY <1>4, <1>5, <1>6, <1>7 DEF OneAtATime, InPost
<1>9. RotationInv' BY <1>4, <1>5, <1>6 DEF RotationInv
<1> QED BY <1>8, <1>9 DEF Rotating

LEMMA AsksKeepsRotation ==
  ASSUME TypeOK, Rotating, Asks, ~overlap' PROVE Rotating'
<1>1. PICK w \in Window, force \in BOOLEAN :
        /\ w.pair = win.pair /\ w.thread = win.thread
        /\ _run_sync(w, cycle, force) /\ UNCHANGED <<srv, net, api, rt, mirror, posted>>
  BY AsksFacts
<1>2. cycle \in [Cycles -> Cycle] BY DEF TypeOK
<1>3. w.thread # None /\ Running(w.thread) => cycle[w.thread].phase # "none" BY DEF Running
<1>4. CASE Noted(w, cycle)
  <2>1. win'.pair = win.pair /\ cycle' = cycle BY <1>1, <1>4 DEF Noted, Window
  <2> QED BY <1>1, <2>1, FrameKeepsRotation
<1>5. ASSUME NEW c \in Cycles, Started(w, cycle, force, c) PROVE Rotating'
  <2>1. \A d \in Cycles : cycle[d].phase = "none" BY <1>5 DEF Started
  <2>2. Busy = {} BY <2>1 DEF Busy
  <2>3. /\ net /\ win.pair # NoPair /\ api.pair # NoPair /\ posted = <<>>
        /\ api.pair \in srv.live \/ win.pair \in srv.live
    BY <2>2 DEF Rotating, OneAtATime, RotationInv
  <2> QED BY <1>1, <1>2, <1>5, <2>3, StartKeepsRotation
<1> QED BY <1>1, <1>2, <1>3, <1>4, <1>5, RunSyncFacts

LEMMA TwoPosted == ASSUME NEW m, NEW f PROVE Append(<<m>>, f) = <<m, f>>
<1> DEFINE S == {m, f}
           s == <<m>>
           t == <<m, f>>
<1>1. s \in Seq(S) /\ Len(s) = 1 /\ s[1] = m /\ f \in S OBVIOUS
<1>2. t \in Seq(S) /\ Len(t) = 2 /\ t[1] = m /\ t[2] = f OBVIOUS
<1> HIDE DEF S, s, t
<1>3. Append(s, f) \in Seq(S) BY <1>1, AppendProperties
<1>4. Len(Append(s, f)) = Len(s) + 1 BY <1>1, AppendProperties
<1>5. Len(Append(s, f)) = 2 BY <1>1, <1>4
<1>6. Append(s, f)[1] = m /\ Append(s, f)[2] = f
  BY <1>1, AppendProperties
<1>7. ASSUME NEW i \in 1 .. 2 PROVE Append(s, f)[i] = t[i]
  <2>1. i = 1 \/ i = 2 OBVIOUS
  <2> QED BY <1>2, <1>6, <2>1
<1>8. Append(s, f) = t BY <1>2, <1>3, <1>7, <1>5, SeqEqual
<1> QED BY <1>8 DEF s, t

\* What is posted while a cycle runs, by what comes first.
LEMMA ReportFirst ==
  ASSUME TypeOK, Rotating, Got("sync_finished")
  PROVE  \E c \in Busy : /\ Message.pair = cycle[c].pair
                         /\ \/ cycle[c].phase = "finishing" /\ posted' = <<>>
                            \/ cycle[c].phase = "gone" /\ posted' = <<Ending(c)>>
<1>1. posted # <<>> /\ posted' = Tail(posted) /\ Message = posted[1] /\ posted[1].type = "sync_finished"
  BY MessageFacts
<1>2. PICK c \in Busy : TRUE BY <1>1 DEF Rotating, OneAtATime
<1>3. InPost(c) BY DEF Rotating, OneAtATime
<1>4. Ending(c).type # "sync_finished" /\ Reported(c).pair = cycle[c].pair BY DEF Ending, Reported
<1>5. CASE posted = <<Reported(c)>> /\ cycle[c].phase = "finishing" BY <1>1, <1>4, <1>5
<1>6. CASE posted = <<Reported(c), Ending(c)>> /\ cycle[c].phase = "gone" BY <1>1, <1>4, <1>6
<1>7. CASE posted = <<Ending(c)>> BY <1>1, <1>4, <1>7
<1> QED BY <1>1, <1>3, <1>5, <1>6, <1>7 DEF InPost

LEMMA FinishedFirst ==
  ASSUME TypeOK, Rotating, Got("finished")
  PROVE  \E c \in Busy : /\ Message.cycle = c /\ posted' = <<>> /\ TakenOver(c)
<1>1. posted # <<>> /\ posted' = Tail(posted) /\ Message = posted[1] /\ posted[1].type = "finished"
  BY MessageFacts
<1>2. PICK c \in Busy : TRUE BY <1>1 DEF Rotating, OneAtATime
<1>3. InPost(c) BY DEF Rotating, OneAtATime
<1>4. Ending(c).cycle = c /\ Reported(c).type # "finished" BY DEF Ending, Reported
<1>5. CASE posted = <<Ending(c)>> /\ TakenOver(c) BY <1>1, <1>4, <1>5
<1>6. CASE posted = <<Reported(c)>> \/ posted = <<Reported(c), Ending(c)>> BY <1>1, <1>4, <1>6
<1> QED BY <1>1, <1>3, <1>5, <1>6 DEF InPost

LEMMA QueuedKeepsRotation ==
  ASSUME TypeOK, Rotating, Queued, ~overlap' PROVE Rotating'
<1>1. CASE _on_sync_finished
  <2>1. PICK c \in Busy : /\ Message.pair = cycle[c].pair
                          /\ \/ cycle[c].phase = "finishing" /\ posted' = <<>>
                             \/ cycle[c].phase = "gone" /\ posted' = <<Ending(c)>>
    BY <1>1, ReportHandled, ReportFirst
  <2>2. /\ UNCHANGED <<srv, net, cycle>> /\ api'.sent = api.sent
        /\ IF Message.pair # NoPair /\ Message.pair # win.pair
           THEN win'.pair = Message.pair /\ api'.pair = Message.pair
           ELSE win'.pair = win.pair /\ api' = api
    BY <1>1, ReportHandled
  <2>3. /\ cycle[c].pair # NoPair /\ \A d \in Busy : d = c
        /\ cycle[c].phase # "check" => cycle[c].up
    BY DEF Rotating, OneAtATime
  <2>4. win'.pair = cycle[c].pair BY <2>1, <2>2, <2>3
  <2>5. Busy' = {c} /\ Busy = {c} BY <2>2, <2>3 DEF Busy
  <2>6. InPost(c)' BY <2>1, <2>2, <2>4 DEF InPost, Ending, TakenOver
  <2>7. OneAtATime' BY <2>2, <2>3, <2>4, <2>5, <2>6 DEF Rotating, OneAtATime
  <2>8. api.pair \in srv.live \/ cycle[c].pair \in srv.live
    BY <2>5 DEF Rotating, RotationInv
  <2>9. cycle[c].pair # win.pair => cycle[c].pair \in srv.live BY DEF Rotating, RotationInv
  <2>10. api'.pair \in srv.live \/ cycle[c].pair \in srv.live BY <2>1, <2>2, <2>8, <2>9
  <2>11. RotationInv' BY <2>2, <2>4, <2>5, <2>10 DEF RotationInv
  <2> QED BY <2>7, <2>11 DEF Rotating
<1>2. CASE _on_sync_thread_finished
  <2>1. PICK c \in Busy : Message.cycle = c /\ posted' = <<>> /\ win.pair = cycle[c].pair
    BY <1>2, FinishHandled, FinishedFirst DEF TakenOver
  <2>2. PICK w \in Window, cs \in [Cycles -> Cycle] :
          /\ w.pair = win.pair /\ w.thread = None
          /\ cs[Message.cycle] = Ended /\ \A d \in Cycles \ {Message.cycle} : cs[d] = cycle[d]
          /\ IF win.pending THEN _run_sync(w, cs, FALSE)
             ELSE win' = w /\ cycle' = cs /\ wanted' = wanted /\ overlap' = overlap
    BY <1>2, FinishHandled
  <2>3. UNCHANGED <<srv, net, api>> BY <1>2, FinishHandled
  <2>4. /\ net /\ win.pair # NoPair /\ api.pair # NoPair /\ \A d \in Busy : d = c
    BY DEF Rotating, OneAtATime
  <2>5. Busy = {c} BY <2>4
  <2>6. api.pair \in srv.live \/ win.pair \in srv.live BY <2>1, <2>5 DEF Rotating, RotationInv
  <2>7. \A d \in Cycles : cs[d].phase = "none"
    BY <2>1, <2>2, <2>4 DEF Busy, Ended
  <2>8. CASE win.pending
    <3>1. PICK d \in Cycles : Started(w, cs, FALSE, d)
      BY <2>2, <2>7, <2>8, RunSyncFacts DEF Noted
    <3> QED BY <2>1, <2>2, <2>3, <2>4, <2>6, <3>1, StartKeepsRotation
  <2>9. CASE ~win.pending
    <3>1. win'.pair = win.pair /\ Busy' = {} BY <2>2, <2>7, <2>9 DEF Busy
    <3> QED BY <2>1, <2>3, <2>4, <2>6, <3>1 DEF Rotating, OneAtATime, RotationInv
  <2> QED BY <2>8, <2>9
<1> QED BY <1>1, <1>2 DEF Queued

LEMMA LogoutKeepsRotation ==
  ASSUME TypeOK, net, _logout PROVE Rotating'
<1>1. PICK p \in Pairs : /\ p \in srv'.live /\ win' = OpenedWindow(p)
                         /\ api' = [pair |-> p, sent |-> NoPair]
  BY LogoutFacts
<1>2. win'.pair = p /\ api'.pair = p /\ p # NoPair BY <1>1, PairsAreNumbered DEF OpenedWindow
<1>3. Busy' = {} BY LogoutFacts DEF Busy, Ended
<1> QED BY <1>1, <1>2, <1>3, LogoutFacts DEF Rotating, OneAtATime, RotationInv

LEMMA PagesKeepRotation ==
  ASSUME TypeOK, Rotating, _request \/ _do_refresh, Undisturbed' PROVE Rotating'
<1>1. UNCHANGED <<net, win, cycle, posted>> BY PagesFacts
<1>2. Busy' = Busy BY <1>1 DEF Busy
<1>3. \A c \in Busy : InPost(c)' = InPost(c) BY <1>1 DEF InPost, Reported, Ending, TakenOver
<1>4. CASE api'.pair = api.pair /\ api'.sent = api.pair /\ srv' = srv
  <2>1. OneAtATime' BY <1>1, <1>2, <1>3, <1>4 DEF Rotating, OneAtATime
  <2>2. RotationInv' BY <1>1, <1>2, <1>4 DEF Rotating, RotationInv
  <2> QED BY <2>1, <2>2 DEF Rotating
<1>5. CASE /\ api'.pair = Fresh /\ api'.sent = NoPair /\ Unheld # {}
           /\ srv'.live = (srv.live \ {api.sent}) \cup {Fresh}
  <2>1. Fresh # NoPair /\ \A c \in Cycles : cycle[c].pair # Fresh BY <1>5, FreshFacts
  <2>2. OneAtATime' BY <1>1, <1>2, <1>3, <1>5, <2>1 DEF Rotating, OneAtATime
  <2>3. \A c \in Busy : cycle[c].pair # NoPair BY DEF Rotating, OneAtATime
  <2>4. api'.pair \in srv'.live BY <1>5
  <2>5. ASSUME NEW c \in Busy, cycle[c].pair # win.pair
        PROVE  cycle[c].pair \in srv'.live /\ cycle[c].pair \notin {api'.pair, api'.sent}
    <3>1. cycle[c].pair \in srv.live /\ cycle[c].pair # api.sent
      BY <2>5 DEF Rotating, RotationInv
    <3> QED BY <1>5, <2>1, <2>3, <3>1 DEF Busy
  <2> QED BY <1>1, <1>2, <2>2, <2>4, <2>5 DEF Rotating, RotationInv
<1> QED BY <1>4, <1>5, PagesFacts

LEMMA ThreadKeepsRotation ==
  ASSUME TypeOK, Rotating, NEW c \in Cycles, SyncThread(c), Undisturbed' PROVE Rotating'
<1>1. Steps(c) /\ Unmoved BY ThreadFacts
<1>2. /\ cycle[c].phase # "none" /\ cycle'[c].phase # "none"
      /\ \A d \in Cycles \ {c} : cycle'[d] = cycle[d]
  BY <1>1 DEF Steps, Moves
<1>3. /\ c \in Busy /\ (\A d \in Busy : d = c) /\ net /\ win.pair # NoPair /\ api.pair # NoPair
      /\ cycle[c].pair # NoPair /\ (cycle[c].phase # "check" => cycle[c].up) /\ InPost(c)
      /\ cycle[c].pair # win.pair => cycle[c].pair \in srv.live /\ cycle[c].pair \notin {api.pair, api.sent}
      /\ api.pair \in srv.live \/ cycle[c].pair \in srv.live
  BY <1>2 DEF Rotating, OneAtATime, RotationInv, Busy
<1>4. Busy' = {c} BY <1>2, <1>3 DEF Busy
<1>5. UNCHANGED <<net, win, api>> BY <1>1 DEF Unmoved
<1>6. CASE cycle[c].phase = "granted"
  <2>1. /\ cycle'[c].phase = "exchange" /\ cycle'[c].pair = Fresh /\ cycle'[c].up = cycle[c].up
        /\ posted' = posted /\ Fresh \in srv'.live /\ Unheld # {}
    BY <1>1, <1>6 DEF Steps, Moves
  <2>2. Fresh # NoPair /\ Fresh \notin {api.pair, api.sent} BY <2>1, FreshFacts
  <2>3. OneAtATime' BY <1>3, <1>4, <1>5, <1>6, <2>1, <2>2 DEF OneAtATime, InPost
  <2>4. RotationInv' BY <1>3, <1>4, <1>5, <2>1, <2>2 DEF RotationInv
  <2> QED BY <2>3, <2>4 DEF Rotating
<1>7. CASE cycle[c].phase # "granted"
  <2>1. cycle'[c].pair = cycle[c].pair /\ srv' = srv BY <1>1, <1>7 DEF Steps
  <2>2. cycle'[c].phase # "check" /\ cycle'[c].up
    BY <1>1, <1>3, <1>5, <1>7 DEF Steps, Moves
  <2>3. RotationInv' BY <1>3, <1>4, <1>5, <2>1 DEF RotationInv
  <2>4. InPost(c)'
    <3>1. CASE cycle[c].phase = "report"
      <4>1. /\ cycle'[c].phase = "finishing" /\ posted = <<>>
            /\ posted' = Append(posted, Reported(c))
        BY <1>1, <1>3, <3>1 DEF Steps, Moves, InPost, Reported
      <4>2. Reported(c)' = Reported(c) BY <2>1 DEF Reported
      <4> QED BY <4>1, <4>2 DEF InPost
    <3>2. CASE cycle[c].phase = "finishing"
      <4>1. /\ cycle'[c].phase = "gone" /\ posted' = Append(posted, Ending(c))
            /\ posted = <<Reported(c)>> \/ (posted = <<>> /\ TakenOver(c))
        BY <1>1, <1>3, <3>2 DEF Steps, Moves, InPost, Ending
      <4>2. Reported(c)' = Reported(c) /\ Ending(c)' = Ending(c) /\ (TakenOver(c) => TakenOver(c)')
        BY <1>5, <2>1 DEF Reported, Ending, TakenOver
      <4>3. CASE posted = <<Reported(c)>>
        <5>1. posted' = Append(<<Reported(c)>>, Ending(c)) BY <4>1, <4>3
        <5>2. posted' = <<Reported(c), Ending(c)>> BY <5>1, TwoPosted
        <5> QED BY <4>1, <4>2, <5>2 DEF InPost
      <4>4. CASE posted = <<>> /\ TakenOver(c)
        <5>1. posted' = <<Ending(c)>> BY <4>1, <4>4
        <5> QED BY <4>1, <4>2, <4>4, <5>1 DEF InPost
      <4> QED BY <4>1, <4>3, <4>4
    <3>3. CASE cycle[c].phase \notin {"report", "finishing"}
      <4>1. cycle'[c].phase \notin {"finishing", "gone"} /\ posted' = posted /\ posted = <<>>
        BY <1>1, <1>3, <1>7, <3>3 DEF Steps, Moves, InPost
      <4> QED BY <4>1 DEF InPost
    <3> QED BY <3>1, <3>2, <3>3
  <2>5. OneAtATime' BY <1>3, <1>4, <1>5, <2>1, <2>2, <2>4 DEF OneAtATime
  <2> QED BY <2>3, <2>5 DEF Rotating
<1> QED BY <1>6, <1>7

LEMMA StepKeepsRotation ==
  ASSUME TypeOK, Rotating, [Next]_vars, Undisturbed', ~overlap' PROVE Rotating'
<1>1. CASE UNCHANGED vars \/ broadcast_event \/ CommitWrite \/ Expire
  <2>1. UNCHANGED <<net, win, api, cycle, posted>>
    BY <1>1 DEF vars, broadcast_event, CommitWrite, Expire, desktop
  <2>2. srv'.live = srv.live
    <3>1. srv \in Server BY DEF TypeOK, Server
    <3> QED BY <1>1, <3>1 DEF vars, broadcast_event, CommitWrite, Expire, Server
  <2> QED BY <2>1, <2>2, FrameKeepsRotation
<1>2. CASE Drop
  <2>1. happened'.cuts # 0 BY <1>2, HappensFacts DEF Drop
  <2> QED BY <2>1 DEF Undisturbed
<1>3. CASE Restore BY <1>3 DEF Restore, Rotating, OneAtATime
<1>4. CASE Asks BY <1>4, AsksKeepsRotation
<1>5. CASE Queued BY <1>5, QueuedKeepsRotation
<1>6. CASE _logout BY <1>6, LogoutKeepsRotation DEF Rotating, OneAtATime
<1>7. CASE _request \/ _do_refresh BY <1>7, PagesKeepRotation
<1>8. CASE Sockets BY <1>8, SocketsFacts, FrameKeepsRotation
<1>9. ASSUME NEW c \in Cycles, SyncThread(c) PROVE Rotating'
  BY <1>9, ThreadKeepsRotation
<1> QED BY <1>1, <1>2, <1>3, <1>4, <1>5, <1>6, <1>7, <1>8, <1>9 DEF Next, Asks, Sockets

(***************************************************************************)
(* The theorems                                                            *)
(***************************************************************************)
\* The inductive invariant: shapes, the noted request, and what rotation rests on
\* as long as nothing was lost and one cycle ran at a time.
THEOREM SessionInvHolds == Spec => []SessionInv
<1>1. Init => SessionInv
  <2> SUFFICES ASSUME Init PROVE SessionInv OBVIOUS
  <2>1. NoForgottenSync BY DEF Init, NoForgottenSync
  <2>2. Busy = {} BY DEF Init, Busy, Ended
  <2>3. OneAtATime BY <2>2, PairsAreNumbered DEF Init, OneAtATime, OpenedWindow
  <2>4. RotationInv BY <2>2 DEF Init, RotationInv
  <2> QED BY <2>1, <2>3, <2>4, InitTypes DEF SessionInv
<1>2. SessionInv /\ [Next]_vars => SessionInv'
  <2> SUFFICES ASSUME SessionInv, [Next]_vars PROVE SessionInv' OBVIOUS
  <2>1. TypeOK /\ NoForgottenSync BY DEF SessionInv
  <2>2. TypeOK' /\ NoForgottenSync' BY <2>1, StepKeepsTypes, StepKeepsRequest
  <2>3. ASSUME Undisturbed', ~overlap' PROVE OneAtATime' /\ RotationInv'
    <3>1. Rotating BY <2>1, <2>3, DisturbedStays DEF SessionInv, Rotating
    <3> QED BY <2>1, <2>3, <3>1, StepKeepsRotation DEF Rotating
  <2> QED BY <2>2, <2>3 DEF SessionInv
<1> QED BY <1>1, <1>2, PTL DEF Spec

\* A sync asked for while a cycle runs is not lost, however many cycles overlap and
\* whatever is cut, lost or expired.
THEOREM NoForgottenSyncHolds == Spec => []NoForgottenSync
<1>1. SessionInv => NoForgottenSync BY DEF SessionInv
<1> QED BY <1>1, SessionInvHolds, PTL

\* With no answer lost, no cut and no two cycles at once, someone in the process
\* holds a refresh token the server takes, however often pairs expire and rotate.
THEOREM SomeoneCanRefreshHolds == Spec => []SomeoneCanRefresh
<1>1. SessionInv => SomeoneCanRefresh
  <2> SUFFICES ASSUME SessionInv, Undisturbed, ~overlap
               PROVE  \E p \in Holders \ {NoPair} : p \in srv.live
    BY DEF SomeoneCanRefresh
  <2>1. RotationInv /\ srv.live \subseteq Pairs BY ShapeFacts DEF SessionInv
  <2>2. PICK p \in srv.live : p \in {api.pair, win.pair} \/ \E c \in Cycles : p = cycle[c].pair
    BY <2>1 DEF RotationInv, Busy
  <2>3. p \in Holders BY <2>2 DEF Holders
  <2> QED BY <2>1, <2>2, <2>3, PairsAreNumbered
<1> QED BY <1>1, SessionInvHolds, PTL
=============================================================================
