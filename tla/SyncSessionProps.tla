-------------------------- MODULE SyncSessionProps --------------------------
(***************************************************************************)
(* What the sync session of SyncSession.tla guarantees.                    *)
(***************************************************************************)
EXTENDS SyncSession

\* A cycle has been started and its end has not been handled yet.
InMotion ==
  \/ \E c \in Cycles : cycle[c].phase # "none"
  \/ \E i \in DOMAIN posted : posted[i].type = "finished"

\* A sync asked for while a cycle runs (an edit, an event, the button) is not
\* lost: as long as none has started since, it is noted and a finished signal
\* that will start it is on its way.
NoForgottenSync == wanted => InMotion /\ win.pending

\* A pair the server still takes: its access has not run out, or its refresh
\* token is live.
Usable(p) == verify_access_token(p) \/ p \in srv.live
Stranded == win.pair = NoPair \/ ~Usable(win.pair)

\* Whatever the server announces reaches the local database, socket or not,
\* unless the window holds tokens that nothing will renew.
ChangesReachDesktop ==
  \A n \in 1 .. MaxRev : (srv.announced = n) ~> (mirror >= n \/ Stranded)

\* With no answer lost, no cut and no two cycles at once, rotation on two
\* sides (engine and ApiClient) never destroys the session: some holder in the
\* process can always refresh once more.
Undisturbed == happened.cuts = 0 /\ ~happened.loss
SomeoneCanRefresh ==
  Undisturbed /\ ~overlap => \E p \in Holders \ {NoPair} : p \in srv.live

(***************************************************************************)
(* What the promises rest on: an inductive invariant.                      *)
(***************************************************************************)
Pair   == Pairs \cup {NoPair}
Window == [pair : Pair, online : BOOLEAN, thread : Cycles \cup {None}, pending : BOOLEAN,
           debounce : BOOLEAN, loaded : BOOLEAN]
Phase  == {"none", "check", "bootstrap", "exchange", "refresh", "granted", "report",
           "finishing", "gone"}
Cycle  == [pair : Pair, phase : Phase, force : BOOLEAN, up : BOOLEAN]
Posted == [type : {"sync_finished"}, up : BOOLEAN, pair : Pair]
            \cup [type : {"finished"}, cycle : Cycles]

\* The variables keep their shapes, and the server stores pairs that were issued.
TypeOK ==
  /\ srv \in [announced : Nat, rev : Nat, live : SUBSET Pairs, expired : SUBSET Pairs]
  /\ happened \in [expiries : Nat, cuts : Nat, clicks : Nat, loss : BOOLEAN]
  /\ win \in Window /\ api \in [pair : Pair, sent : Pair]
  /\ rt \in [pair : Pair, open : BOOLEAN, inbox : Nat, seen : Nat]
  /\ cycle \in [Cycles -> Cycle] /\ posted \in Seq(Posted)
  /\ net \in BOOLEAN /\ mirror \in Nat /\ wanted \in BOOLEAN /\ overlap \in BOOLEAN

Busy == {c \in Cycles : cycle[c].phase # "none"}

\* What is posted while c is the only cycle: its report until it is handled, which
\* gives the window the pair of the cycle, and then its finished.
Reported(c) == [type |-> "sync_finished", up |-> TRUE, pair |-> cycle[c].pair]
Ending(c)   == [type |-> "finished", cycle |-> c]
TakenOver(c) == win.pair = cycle[c].pair
InPost(c) ==
  CASE cycle[c].phase = "finishing" -> posted = <<Reported(c)>> \/ (posted = <<>> /\ TakenOver(c))
    [] cycle[c].phase = "gone" ->
         posted = <<Reported(c), Ending(c)>> \/ (posted = <<Ending(c)>> /\ TakenOver(c))
    [] OTHER -> posted = <<>>

OneAtATime ==
  /\ net /\ win.pair # NoPair /\ api.pair # NoPair
  /\ Busy = {} => posted = <<>>
  /\ \A c \in Busy :
       /\ \A d \in Busy : d = c
       /\ cycle[c].pair # NoPair /\ (cycle[c].phase # "check" => cycle[c].up) /\ InPost(c)

\* A pair the cycle has been given is its own until the window takes it over, and
\* the pages or the cycle (the window, between two cycles) hold a live one.
RotationInv ==
  /\ \A c \in Busy : cycle[c].pair # win.pair =>
       cycle[c].pair \in srv.live /\ cycle[c].pair \notin {api.pair, api.sent}
  /\ \/ api.pair \in srv.live
     \/ Busy = {} /\ win.pair \in srv.live
     \/ \E c \in Busy : cycle[c].pair \in srv.live

SessionInv ==
  /\ TypeOK /\ NoForgottenSync
  /\ Undisturbed /\ ~overlap => OneAtATime /\ RotationInv
=============================================================================
