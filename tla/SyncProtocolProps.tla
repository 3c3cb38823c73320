-------------------------- MODULE SyncProtocolProps --------------------------
(***************************************************************************)
(* What the offline edits of a desktop may rely on.                        *)
(***************************************************************************)
EXTENDS SyncProtocol

Stages == {"free", "sent", "check", "apply", "answered"}
Phases == {"idle", "wait", "mark", "adopt", "pull", "pulled", "merge", "booted",
           "reconcile", "push"}
Absent == {NoRow, Gone}

LinkOK(l) ==
  /\ l.stage \in Stages
  /\ DOMAIN l.items \subseteq Keys /\ DOMAIN l.results \subseteq DOMAIN l.items
  /\ \A k \in DOMAIN l.items : l.items[k] \in Nat
  /\ \A k \in DOMAIN l.results : l.results[k] \in Result
  /\ l.load \in Row \cup Absent

\* Every variable keeps its type: rows on both sides, stored results, queue
\* items and requests are what the SQLAlchemy models declare.
TypeOK ==
  /\ \A t \in {com, cur} : /\ \A e \in Entities : t[e] \in Row \cup Absent
                           /\ \A k \in Keys : t[k] \in Result \cup {NoRow}
  /\ owner \in [Things -> Conns \cup {NoConn}]
  /\ taken \subseteq Entities
  /\ \A c \in Conns : LinkOK(link[c])
  /\ local \in [Entities -> Row \cup {NoRow}]
  /\ queue \in Seq(Item) /\ Len(queue) <= MaxEdits
  /\ phase \in Phases /\ conn \in Conns \cup {NoConn}
  /\ DOMAIN answer \subseteq DOMAIN queue
  /\ \A k \in DOMAIN answer : answer[k] \in Result
  /\ snap # NoRow => \A e \in Entities : snap[e] \in Row \cup Absent
  /\ skip \subseteq Entities /\ DOMAIN seen \subseteq Entities
  /\ \A e \in DOMAIN seen : seen[e] \in Row \cup {NoRow}
  /\ asked \in 0 .. Len(queue)

\* The queue is told the outcome of an item only when the server has committed
\* one: mark_synced and mark_conflict never run ahead of the server.
MarkedWasStored ==
  \A k \in DOMAIN queue : queue[k].status \in {"SYNCED", "CONFLICT"} => com[k] # NoRow

(***************************************************************************)
(* What the promises rest on.                                              *)
(***************************************************************************)
Partial(D, R) == UNION {[K -> R] : K \in SUBSET D}
Tables == {t \in [Things -> Row \cup Absent \cup Result] :
             /\ \A e \in Entities : t[e] \in Row \cup Absent
             /\ \A k \in Keys : t[k] \in Result \cup {NoRow}}
Links  == [stage : Stages, items : Partial(Keys, Nat), load : Row \cup Absent,
           results : Partial(Keys, Result)]
Pulled == [Entities -> Row \cup Absent]
Merging     == phase \in {"merge", "reconcile"}
HasSnapshot == phase \in {"pulled", "merge", "booted", "reconcile"}

\* The variables, in their shapes.
Shape ==
  /\ com \in Tables /\ cur \in Tables
  /\ owner \in [Things -> Conns \cup {NoConn}] /\ taken \subseteq Entities
  /\ link \in [Conns -> Links]
  /\ local \in [Entities -> Row \cup {NoRow}]
  /\ queue \in Seq(Item) /\ Len(queue) <= MaxEdits
  /\ phase \in Phases /\ conn \in Conns \cup {NoConn}
  /\ answer \in Partial(Keys, Result) /\ snap \in Pulled \cup {NoRow}
  /\ skip \subseteq Entities /\ seen \in Partial(Entities, Row \cup {NoRow})
  /\ asked \in Nat

\* A request holds items of the queue; its answer is about them.
RequestsInv ==
  \A c \in Conns :
    /\ DOMAIN link[c].results \subseteq DOMAIN link[c].items
    /\ DOMAIN link[c].items \subseteq DOMAIN queue
    /\ link[c].stage \in {"free", "sent"} => DOMAIN link[c].results = {}
    /\ link[c].stage = "apply" => DOMAIN link[c].results # DOMAIN link[c].items

\* The sync thread holds what its next step needs, the items it waits for may be
\* tried again, and a merge knows the edits that waited when it read the queue.
ThreadInv ==
  /\ DOMAIN answer \subseteq DOMAIN queue
  /\ phase = "wait" => conn \in Conns /\ \A k \in DOMAIN link[conn].items : queue[k].retry < MaxRetry
  /\ phase = "adopt" => DOMAIN answer # {}
  /\ HasSnapshot => snap \in Pulled
  /\ asked <= Len(queue)
  /\ Merging => \A k \in DOMAIN queue :
       k <= asked /\ queue[k].status = "PENDING" => queue[k].ent \in skip
  /\ \A k \in DOMAIN answer : queue[k].retry < MaxRetry

\* What no request owns is committed; a key that is owned is new; a row that is
\* owned was written with a key of the same request.
LocksInv ==
  /\ \A x \in Things : owner[x] = NoConn => cur[x] = com[x]
  /\ \A x \in Things : owner[x] # NoConn => link[owner[x]].stage \in {"check", "apply"}
  /\ \A k \in Keys : owner[k] # NoConn => com[k] = NoRow /\ cur[k] # NoRow
  /\ \A e \in Entities : owner[e] # NoConn =>
       cur[e] = Gone \/ (cur[e] \in Row /\ cur[e].edit \in Keys /\ owner[cur[e].edit] = owner[e])

\* An outcome, wherever it is on its way, is stored with the request or for good.
Outcome(results, k) == k \in DOMAIN results /\ results[k].status # "error"
StoredInv ==
  /\ \A c \in Conns : \A k \in Keys : Outcome(link[c].results, k) =>
       com[k] # NoRow \/ (link[c].stage # "answered" /\ owner[k] = c)
  /\ \A k \in Keys : Outcome(answer, k) => com[k] # NoRow
  /\ MarkedWasStored

\* A row bears the number of an edit of its own, and only an update meets a
\* conflict.
OwnEdits(t) ==
  \A e \in Entities : t[e] \in Row /\ t[e].edit # Reverted =>
    t[e].edit \in DOMAIN queue /\ queue[t[e].edit].ent = e
OnlyUpdates(results) ==
  \A k \in DOMAIN results : results[k].status = "conflict" => queue[k].op = "UPDATE"
EditsInv ==
  /\ OwnEdits(com) /\ OwnEdits(cur) /\ OwnEdits(local)
  /\ HasSnapshot => OwnEdits(snap)
  /\ \A c \in Conns : OnlyUpdates(link[c].results)
  /\ OnlyUpdates(answer)

ProtocolInv == Shape /\ RequestsInv /\ ThreadInv /\ LocksInv /\ StoredInv /\ EditsInv

\* A row that a request has changed is the work of an edit that it has accepted;
\* the keys it holds are those of edits.
WroteIt(k, e) ==
  /\ queue[k].ent = e /\ cur[k] # NoRow /\ cur[k].status = "ok"
  /\ IF queue[k].op = "DELETE" THEN cur[e] = Gone ELSE cur[e] \in Row /\ cur[e].edit = k
AuthorsInv ==
  /\ \A k \in Keys : owner[k] # NoConn => k \in DOMAIN queue
  /\ \A e \in Entities : owner[e] # NoConn =>
       \E k \in DOMAIN queue : owner[k] = owner[e] /\ WroteIt(k, e)

\* A conflict is answered only where one is stored.
ConflictsInv ==
  /\ \A c \in Conns : \A k \in DOMAIN link[c].results : link[c].results[k].status = "conflict" =>
       \/ com[k] # NoRow /\ com[k].status = "conflict"
       \/ owner[k] = c /\ cur[k].status = "conflict"
  /\ \A k \in DOMAIN answer : answer[k].status = "conflict" =>
       com[k] # NoRow /\ com[k].status = "conflict"

\* The items the sync thread waits for have no final status, except the one whose
\* version it is about to adopt.
Open(k) == queue[k].status \in {"PENDING", "FAILED"}
OpenInv ==
  /\ phase = "wait" => \A k \in DOMAIN link[conn].items : Open(k)
  /\ \A k \in DOMAIN answer : Open(k) \/ (phase = "adopt" /\ k = Oldest(DOMAIN answer))

LedgerInv == AuthorsInv /\ ConflictsInv /\ OpenInv

(***************************************************************************)
(* What the order of the edits rests on, when no item fails for a passing  *)
(* reason: an update that is sent no more, or no more with the later ones, *)
(* has been decided, or its row is deleted for good.                       *)
(***************************************************************************)
\* The outcome of an edit is stored for good, or with the request c.
Stands(k, c)  == com[k] # NoRow \/ (c # NoConn /\ owner[k] = c)
Settled(k, c) == Stands(k, c) \/ com[queue[k].ent] = Gone

Updates(e) == {k \in DOMAIN queue : queue[k].op = "UPDATE" /\ queue[k].ent = e}
Creates(e) == {k \in DOMAIN queue : queue[k].op = "CREATE" /\ queue[k].ent = e}

\* A row of the desktop begins with the edit that creates it, on both sides.
CreatedInv ==
  /\ \A k \in DOMAIN queue : queue[k].op = "CREATE" =>
       queue[k].ent \notin Old /\ \A j \in DOMAIN queue : j < k => queue[j].ent # queue[k].ent
  /\ \A e \in Entities \ Old :
       /\ com[e] # NoRow => \E k \in Creates(e) : com[k] # NoRow
       /\ cur[e] # NoRow => \E k \in Creates(e) : Stands(k, owner[e])

\* A row that is deleted stays so.
DeletedInv == \A e \in Entities : com[e] = Gone => cur[e] = Gone

\* A row that a request has loaded was committed then, or is the request's own.
LoadedInv ==
  \A c \in Conns : link[c].stage = "apply" =>
    /\ Present(link[c].load) => com[Entity(c)] # NoRow \/ owner[Entity(c)] = c
    /\ owner[Entity(c)] = c => link[c].load = cur[Entity(c)]

\* A request takes the older updates of a row along, unless they are settled.
TakesAlong(c) ==
  \A k \in DOMAIN link[c].items : \A j \in Updates(queue[k].ent) :
    j < k => j \in DOMAIN link[c].items \/ Settled(j, NoConn)

\* An update that a request, the sync thread or the queue is done with is settled.
DoneInv ==
  /\ \A c \in Conns : \A k \in DOMAIN link[c].results : queue[k].op = "UPDATE" => Settled(k, c)
  /\ \A k \in DOMAIN answer : queue[k].op = "UPDATE" => Settled(k, NoConn)
  /\ \A k \in DOMAIN queue :
       queue[k].retry > 0 \/ queue[k].status \in {"SYNCED", "CONFLICT"}
         => (queue[k].op = "UPDATE" => Settled(k, NoConn))

SettledInv == DoneInv /\ \A c \in Conns : TakesAlong(c)

\* Every update older than the edit a row bears is stored with it.
BehindInv ==
  \A e \in Entities : \A k \in Updates(e) :
    /\ Present(com[e]) /\ k < com[e].edit => com[k] # NoRow
    /\ Present(cur[e]) /\ k < cur[e].edit => Stands(k, owner[e])

OrderInv == CreatedInv /\ DeletedInv /\ LoadedInv /\ SettledInv /\ BehindInv

(***************************************************************************)
(* The protocol as a ledger of edits.                                      *)
(***************************************************************************)
Told(item) == IF item.status \in {"SYNCED", "CONFLICT"} THEN item.status ELSE "PENDING"

Ledger == INSTANCE EditLedger WITH
  Outcomes <- Result,
  Start    <- [e \in Entities |-> Known(e)],
  made     <- [k \in DOMAIN queue |-> [ent |-> queue[k].ent, op |-> queue[k].op]],
  decided  <- [k \in Keys |-> com[k]],
  rows     <- [e \in Entities |-> com[e]],
  told     <- [k \in DOMAIN queue |-> Told(queue[k])]

\* However often an edit is sent, it is as if it were decided once: its outcome is
\* stored by one commit, with the row it changes, and never replaced; the desktop
\* is told only of outcomes that are stored, once ("ensure safe retries",
\* models/idempotency_key.py; sync_service.py:process_push).
KeepsLedger == Ledger!Spec

\* An edit pushed twice (lost answer, two requests in progress, restart) takes
\* effect once: a committed row changes by an edit of another user, by a
\* deletion, or by a desktop edit whose key is stored by the same commit and
\* was not stored before.
AppliedOnce ==
  [][\A e \in Entities : com'[e] # com[e] =>
       \/ com'[e] = Gone
       \/ Present(com[e]) /\ com'[e].web # com[e].web
       \/ LET k == com'[e].edit IN
          k \in Keys /\ com[k] = NoRow /\ com'[k] # NoRow]_vars

\* The server applies this desktop's edits of one row in the order they were
\* made, whatever is resent, delayed or answered late (get_pending sends them
\* by created_at); only a passing fault of one item breaks this.
InOrder ==
  [][\A e \in Entities :
       owner'[e] # NoConn /\ Present(cur[e]) /\ Present(cur'[e])
         => cur'[e].edit >= cur[e].edit]_vars

\* The edit was made after the merge in progress had read the queue, and if this
\* is a pull, the server's row is no older than the one loaded.
Overtaken(k) ==
  LET e == queue[k].ent IN
  /\ Merging /\ k > asked
  /\ phase = "merge" /\ Present(snap[e]) /\ Loaded(e) # NoRow => snap[e].ver >= Loaded(e).ver

\* An edit that waits to be pushed stays on screen: whatever a pull or bootstrap
\* brings, whenever it began and however far a push is with other edits, only a
\* later edit of the user replaces it, or a merge that had read the queue before
\* the edit was made (apply_pulled_items; by Delivered it is pushed all the same).
PendingEditKept ==
  [][\A e \in Entities :
       LET k == local[e].edit IN
       local[e] # NoRow /\ k \in DOMAIN queue /\ queue[k].status = "PENDING" /\ ~Overtaken(k)
         => \/ local'[e] # NoRow /\ local'[e].edit = k
            \/ Len(queue') > Len(queue) /\ queue'[Len(queue')].ent = e]_vars

\* Every edit is decided: the server took it, answered with a conflict, or
\* refused it MaxRetry times.
Exhausted(k) == queue[k].status = "FAILED" /\ queue[k].retry = MaxRetry
Decided(k)   == queue[k].status \in {"SYNCED", "CONFLICT"} \/ Exhausted(k)
Delivered ==
  \A k \in Keys : k \in DOMAIN queue ~> k \in DOMAIN queue /\ Decided(k)

\* When nobody edits any more the desktop shows what the server has, except
\* for a row with an edit that was given up, or whose stored refusal was taken
\* for a success (its version may stay ahead of the server's for ever).
Unapplied(k) == Exhausted(k) \/ (queue[k].status = "SYNCED" /\ com[k].status = "error")
Same(e) ==
  IF Present(com[e])
    THEN local[e] # NoRow /\ local[e].edit = com[e].edit /\ local[e].web = com[e].web
    ELSE local[e] = NoRow
Converges ==
  \A e \in Entities :
    <>[](Same(e) \/ \E k \in DOMAIN queue : queue[k].ent = e /\ Unapplied(k))

\* An item the desktop shows as synced was applied by the server
\* (idempotency keys "ensure safe retries").
SyncedWasApplied ==
  \A k \in DOMAIN queue :
    queue[k].status = "SYNCED" /\ com[k] # NoRow => com[k].status = "ok"
===============================================================================
