----------------------------- MODULE SyncProtocol -----------------------------
(***************************************************************************)
(* Offline edits on one desktop and their way to the server and back: the  *)
(* local SQLite rows, the sync queue, push requests with idempotency keys  *)
(* and optimistic versions, and the pull that merges the server's rows.    *)
(*                                                                         *)
(* Edits are numbered in the order they are made; the number stands for    *)
(* the queue item, its idempotency key and its payload.  A row is its      *)
(* version, the last edit of this desktop it contains, and how many edits  *)
(* of other users it contains, so two rows are equal when their contents   *)
(* are.  A push request runs in one transaction on the server, two steps   *)
(* per item, and may still be running when the desktop has given up on it  *)
(* and sends its items again.                                              *)
(***************************************************************************)
EXTENDS Integers, Sequences, FiniteSets

CONSTANTS
  Vehicles, Reservations,   \* entity ids
  Old,                      \* the entities both sides know from the start
  Conns,                    \* push requests the server may be serving at once
  MaxRetry,                 \* retry_count < MaxRetry (5 in the code)
  Limit,                    \* items of one push (50 in the code)
  MaxEdits, MaxWeb,         \* bounds: edits of the desktop, of others per row
  Faults,                   \* whether an item may fail for a passing reason
  NoRow, Gone, NoConn       \* absent, deleted with an audit record, no request

Entities == Vehicles \cup Reservations
Keys     == 1 .. MaxEdits
Things   == Entities \cup Keys              \* rows with a lock on the server
Ops      == {"CREATE", "UPDATE", "DELETE"}
Status   == {"PENDING", "FAILED", "SYNCED", "CONFLICT"}
Reverted == 0                               \* a row cancelled by the engine

Row    == [ver : Nat, edit : 0 .. MaxEdits, web : 0 .. MaxWeb]
Result == [status : {"ok", "conflict", "error"}, ver : Nat]
Item   == [ent : Entities, op : Ops, status : Status, retry : 0 .. MaxRetry,
           web : 0 .. MaxWeb]

ASSUME BoundAssumption ==
  /\ MaxRetry \in Nat \ {0} /\ Limit \in Nat \ {0}
  /\ MaxEdits \in Nat /\ MaxWeb \in Nat /\ Faults \in BOOLEAN
ASSUME EntityAssumption ==
  /\ Vehicles \cap Reservations = {} /\ Old \subseteq Entities
  /\ Entities \cap Int = {} /\ NoConn \notin Conns
ASSUME AbsentAssumption ==
  NoRow # Gone /\ {NoRow, Gone} \cap (Row \cup Result) = {}

VARIABLES
  com, cur, owner,  \* server: committed and latest rows and keys, their locks
  taken,            \* server: inserting these violates a constraint just now
  link,             \* each push request: its items, transaction and results
  local, queue,     \* desktop, on disk: rows, sync queue in creation order
  phase, conn,      \* desktop: the sync thread, the request it waits for
  answer,           \* desktop: results not yet marked
  snap, skip, seen, \* desktop: rows to merge, rows with an edit, rows loaded
  asked             \* not in the program: how many edits the merge knows of

server  == <<com, cur, owner, taken>>
disk    == <<local, queue>>
merging == <<snap, skip, seen, asked>>
thread  == <<phase, conn, answer, merging>>
vars    == <<server, link, disk, thread>>

Present(row)   == row \notin {NoRow, Gone}
Nothing        == [k \in {} |-> NoRow]
Unused         == [stage |-> "free", items |-> Nothing, load |-> NoRow,
                   results |-> Nothing]
Oldest(S)      == CHOOSE k \in S : \A j \in S : k <= j
Extend(f, k, v) == [j \in DOMAIN f \cup {k} |-> IF j = k THEN v ELSE f[j]]
Without(f, k)  == [j \in DOMAIN f \ {k} |-> f[j]]

(***************************************************************************)
(* The user edits local rows; the edit and its queue item are one SQLite   *)
(* transaction (DomainStore.mutate with SyncQueue.enqueue).                *)
(***************************************************************************)
Enqueue(e, op, web) ==
  /\ Len(queue) < MaxEdits
  /\ queue' = Append(queue, [ent |-> e, op |-> op, status |-> "PENDING",
                             retry |-> 0, web |-> web])

\* A new row has a new UUID.
CreateLocal(e) ==
  /\ e \notin Old /\ \A k \in DOMAIN queue : queue[k].ent # e
  /\ Enqueue(e, "CREATE", 0)
  /\ local' = [local EXCEPT ![e] = [ver |-> 1, edit |-> Len(queue) + 1, web |-> 0]]
  /\ UNCHANGED <<server, link, thread>>

UpdateLocal(e) ==
  /\ local[e] # NoRow
  /\ Enqueue(e, "UPDATE", local[e].web)
  /\ local' = [local EXCEPT ![e].ver = @ + 1, ![e].edit = Len(queue) + 1]
  /\ UNCHANGED <<server, link, thread>>

DeleteLocal(e) ==
  /\ e \in Vehicles /\ local[e] # NoRow
  /\ Enqueue(e, "DELETE", local[e].web)
  /\ local' = [local EXCEPT ![e] = NoRow]
  /\ UNCHANGED <<server, link, thread>>

(***************************************************************************)
(* SyncEngine.push_changes                                                 *)
(***************************************************************************)
Pending == {k \in DOMAIN queue : /\ queue[k].status \in {"PENDING", "FAILED"}
                                 /\ queue[k].retry < MaxRetry}

\* SyncQueue.get_pending
Batch == {k \in Pending : Cardinality({j \in Pending : j < k}) < Limit}

\* Every item carries the version its row has now, not when it was edited.
PushVersion(k) == LET row == local[queue[k].ent] IN IF row = NoRow THEN 1 ELSE row.ver

PushChanges ==
  /\ phase \in {"idle", "push"} /\ Pending # {}
  /\ \E c \in Conns :
       /\ link[c].stage = "free"
       /\ link' = [link EXCEPT ![c].stage = "sent",
                               ![c].items = [k \in Batch |-> PushVersion(k)]]
       /\ conn' = c
  /\ phase' = "wait"
  /\ UNCHANGED <<server, disk, answer, merging>>

NothingToPush ==
  /\ phase \in {"idle", "push"} /\ Pending = {}
  /\ phase' = "pull"
  /\ UNCHANGED <<server, link, disk, conn, answer, merging>>

\* Timeout, connection error or an HTTP error: the items stay as they are.
GiveUp ==
  /\ phase = "wait"
  /\ phase' = "pull" /\ conn' = NoConn
  /\ UNCHANGED <<server, link, disk, answer, merging>>

ReceiveAnswer ==
  /\ phase = "wait" /\ link[conn].stage = "answered"
  /\ answer' = link[conn].results
  /\ link' = [link EXCEPT ![conn] = Unused]
  /\ phase' = "mark" /\ conn' = NoConn
  /\ UNCHANGED <<server, disk, merging>>

SetStatus(k, status) == queue' = [queue EXCEPT ![k].status = status]
Marked(k) == answer' = Without(answer, k) /\ UNCHANGED phase

\* SyncQueue.mark_synced; the server's version is adopted by a second commit.
MarkSynced(k) ==
  /\ answer[k].status = "ok"
  /\ SetStatus(k, "SYNCED")
  /\ IF answer[k].ver # 0 THEN phase' = "adopt" /\ UNCHANGED answer ELSE Marked(k)
  /\ UNCHANGED local

\* SyncQueue.mark_conflict; a reservation the server rejected is cancelled.  The
\* code cancels it by a second commit; the two are one step here, as no CREATE
\* is ever answered with a conflict (EditsInv).
MarkConflict(k) ==
  /\ answer[k].status = "conflict"
  /\ SetStatus(k, "CONFLICT")
  /\ LET e == queue[k].ent IN
     IF /\ e \in Reservations /\ queue[k].op = "CREATE"
        /\ local[e] # NoRow /\ local[e].edit # Reverted
       THEN local' = [local EXCEPT ![e].ver = @ + 1, ![e].edit = Reverted]
       ELSE UNCHANGED local
  /\ Marked(k)

\* Mutant: the retry is not counted.
MarkFailedUncounted(k) ==
  /\ answer[k].status = "error"
  /\ SetStatus(k, "FAILED")
  /\ Marked(k)
  /\ UNCHANGED local

\* SyncQueue.mark_failed
MarkFailed(k) ==
  /\ answer[k].status = "error"
  /\ queue' = [queue EXCEPT ![k].status = "FAILED", ![k].retry = @ + 1]
  /\ Marked(k)
  /\ UNCHANGED local

MarkItem ==
  /\ phase = "mark" /\ answer # Nothing
  /\ LET k == Oldest(DOMAIN answer) IN MarkSynced(k) \/ MarkConflict(k) \/ MarkFailed(k)
  /\ UNCHANGED <<server, link, conn, merging>>

AdoptVersion ==
  /\ phase = "adopt"
  /\ LET k == Oldest(DOMAIN answer)  e == queue[k].ent IN
     /\ local' = IF local[e] = NoRow THEN local
                 ELSE [local EXCEPT ![e].ver = answer[k].ver]
     /\ answer' = Without(answer, k)
  /\ phase' = "mark"
  /\ UNCHANGED <<server, link, queue, conn, merging>>

PushDone ==
  /\ phase = "mark" /\ answer = Nothing
  /\ phase' = "pull"
  /\ UNCHANGED <<server, link, disk, conn, answer, merging>>

(***************************************************************************)
(* SyncEngine.pull_changes, apply_pulled_items and bootstrap.  Every sync  *)
(* thread makes a new engine, so a pull asks for all rows.                 *)
(*                                                                         *)
(* The rows are merged in one SQLite transaction, beside the user's own    *)
(* session: the queue is read first, then rows are loaded one by one, each *)
(* as it is at that moment, until the first that is written takes SQLite's *)
(* write lock.  From there to the commit nothing else is written.          *)
(***************************************************************************)
Fetch(next) ==
  /\ snap' = [e \in Entities |-> com[e]]
  /\ phase' = next
  /\ UNCHANGED <<server, link, disk, conn, answer, skip, seen, asked>>

PullChanges == phase = "pull" /\ Fetch("pulled")
Bootstrap   == phase = "idle" /\ Fetch("booted")

HasPending(e) == \E k \in DOMAIN queue : queue[k].ent = e /\ queue[k].status = "PENDING"

ReadPending(next) ==
  /\ skip' = {e \in Entities : HasPending(e)} /\ asked' = Len(queue)
  /\ phase' = next
  /\ UNCHANGED <<server, link, disk, conn, answer, snap, seen>>

Finish(rows, next) ==
  /\ local' = rows
  /\ snap' = NoRow /\ skip' = {} /\ seen' = Nothing /\ asked' = 0
  /\ phase' = next
  /\ UNCHANGED <<server, link, queue, conn, answer>>

\* An empty snapshot does not wipe local rows.  A sync follows in any case.
EmptySnapshot ==
  (\A e \in Entities : ~Present(snap[e])) /\ \E e \in Entities : local[e] # NoRow

BeginMerge ==
  \/ phase = "pulled" /\ ReadPending("merge")
  \/ phase = "booted" /\ ~EmptySnapshot /\ ReadPending("reconcile")
  \/ phase = "booted" /\ EmptySnapshot /\ Finish(local, "push")

\* A row as the session of the merge has it.
Loaded(e) == IF e \in DOMAIN seen THEN seen[e] ELSE local[e]

\* Mutant: the merge does not look at the queue.
LeftAloneUnasked(e) ==
  \/ ~Present(snap[e]) /\ Loaded(e) = NoRow
  \/ phase = "merge" /\ snap[e] = NoRow
  \/ phase = "merge" /\ snap[e] # Gone /\ Loaded(e) # NoRow /\ snap[e].ver < Loaded(e).ver

\* Mutant: a row is stale already when the versions are equal.
LeftAloneWhenEqual(e) ==
  \/ e \in skip
  \/ ~Present(snap[e]) /\ Loaded(e) = NoRow
  \/ phase = "merge" /\ snap[e] = NoRow
  \/ phase = "merge" /\ snap[e] # Gone /\ Loaded(e) # NoRow /\ snap[e].ver <= Loaded(e).ver

\* Rows with an edit that waits, rows that are on neither side, and in a pull
\* those it does not bring, or brings in an older version.
LeftAlone(e) ==
  \/ e \in skip
  \/ ~Present(snap[e]) /\ Loaded(e) = NoRow
  \/ phase = "merge" /\ snap[e] = NoRow
  \/ phase = "merge" /\ snap[e] # Gone /\ Loaded(e) # NoRow /\ snap[e].ver < Loaded(e).ver

\* Before the first row that it writes.
LoadRow(e) ==
  /\ phase \in {"merge", "reconcile"} /\ e \notin skip \cup DOMAIN seen
  /\ \A x \in DOMAIN seen : LeftAlone(x)
  /\ seen' = Extend(seen, e, local[e])
  /\ UNCHANGED <<server, link, disk, phase, conn, answer, snap, skip, asked>>

\* Only the columns that differ from the row as loaded are written.
Written(e) ==
  IF ~Present(snap[e]) THEN NoRow
  ELSE IF Loaded(e) = NoRow \/ local[e] = NoRow THEN snap[e]
  ELSE [f \in DOMAIN snap[e] |->
          IF snap[e][f] = Loaded(e)[f] THEN local[e][f] ELSE snap[e][f]]

Merge(e) == IF LeftAlone(e) THEN local[e] ELSE Written(e)

\* An update meets no row, or an insert meets one.
MergeFails ==
  \E e \in Entities : /\ ~LeftAlone(e) /\ Present(snap[e])
                      /\ (Loaded(e) = NoRow) # (local[e] = NoRow)

ApplyMerge(next) ==
  Finish(IF MergeFails THEN local ELSE [e \in Entities |-> Merge(e)], next)

ApplyPulledItems == phase = "merge" /\ ApplyMerge("idle")
ApplyBootstrap   == phase = "reconcile" /\ ApplyMerge("push")

\* The request fails, or the desktop is closed or crashes and starts again.
Restart ==
  /\ phase # "idle"
  /\ phase' = "idle" /\ conn' = NoConn /\ answer' = Nothing
  /\ snap' = NoRow /\ skip' = {} /\ seen' = Nothing /\ asked' = 0
  /\ UNCHANGED <<server, link, disk>>

(***************************************************************************)
(* SyncService.process_push: one transaction for the request, one          *)
(* savepoint for each item.                                                *)
(***************************************************************************)
Reads(c, x) == IF owner[x] = c THEN cur[x] ELSE com[x]
Unlocked(c, x) == owner[x] \in {c, NoConn}

\* Mutant: the newest item first.
DueNewest(c) ==
  LET left == DOMAIN link[c].items \ DOMAIN link[c].results IN
  CHOOSE k \in left : \A j \in left : j <= k

Due(c) == Oldest(DOMAIN link[c].items \ DOMAIN link[c].results)
Entity(c) == queue[Due(c)].ent

Arrive(c) ==
  /\ link[c].stage = "sent"
  /\ link' = [link EXCEPT ![c].stage = "check"]
  /\ UNCHANGED <<server, disk, thread>>

Close(c) ==
  /\ link' = [link EXCEPT ![c] = Unused]
  /\ UNCHANGED <<server, disk, thread>>

\* A request or its answer is lost.
Lose(c) == (link[c].stage = "sent" \/ (link[c].stage = "answered" /\ conn = c)) /\ Close(c)

\* Nobody waits for the answer any more.
Discard(c) == link[c].stage = "answered" /\ conn # c /\ Close(c)

Reply(c, r) ==
  link' = [link EXCEPT ![c].stage = "check", ![c].load = NoRow,
                       ![c].results = Extend(@, Due(c), r)]

\* check_idempotency: whatever was stored is answered with ok.
Duplicate(c) ==
  /\ Reads(c, Due(c)) # NoRow
  /\ Reply(c, [status |-> "ok", ver |-> Reads(c, Due(c)).ver])

LoadEntity(c) ==
  /\ Reads(c, Due(c)) = NoRow
  /\ link' = [link EXCEPT ![c].stage = "apply", ![c].load = Reads(c, Entity(c))]

CheckItem(c) ==
  /\ link[c].stage = "check" /\ DOMAIN link[c].results # DOMAIN link[c].items
  /\ Duplicate(c) \/ LoadEntity(c)
  /\ UNCHANGED <<server, disk, thread>>

\* Mutant: the status code of the stored record in place of its status.
OkCode(v) == [status |-> "200", ver |-> v]

Ok(v) == [status |-> "ok", ver |-> v]

\* _process_*_create: an existing row is taken for an earlier attempt.
Insert(c) == LET found == Present(link[c].load) IN
  [write |-> ~found, row |-> [ver |-> 1, edit |-> Due(c), web |-> 0], result |-> Ok(1)]

\* _process_*_update, on the row as loaded
Update(c) == LET k == Due(c)  old == link[c].load IN
  IF ~Present(old)
    THEN [write |-> FALSE, row |-> NoRow, result |-> [status |-> "error", ver |-> 0]]
  ELSE IF old.ver > link[c].items[k]
    THEN [write |-> FALSE, row |-> NoRow, result |-> [status |-> "conflict", ver |-> old.ver]]
  ELSE [write |-> TRUE, result |-> Ok(old.ver + 1),
        row |-> [ver |-> old.ver + 1, edit |-> k,
                 web |-> IF Present(cur[Entity(c)]) THEN cur[Entity(c)].web ELSE 0]]

\* _process_vehicle_delete
Delete(c) ==
  [write |-> Present(link[c].load), row |-> Gone, result |-> Ok(0)]

Effect(c) == LET op == queue[Due(c)].op IN
  IF op = "CREATE" THEN Insert(c) ELSE IF op = "UPDATE" THEN Update(c) ELSE Delete(c)

\* The key exists by now, or the insert or the update meets a row it cannot.
Raises(c) == LET e == Entity(c)  op == queue[Due(c)].op IN
  \/ cur[Due(c)] # NoRow
  \/ Effect(c).write /\ op = "CREATE" /\ (Present(cur[e]) \/ e \in taken)
  \/ Effect(c).write /\ op = "UPDATE" /\ ~Present(cur[e])

\* Mutant: the idempotency record is not stored.
ApplyUnstored(c) ==
  /\ link[c].stage = "apply"
  /\ Effect(c).write => Unlocked(c, Entity(c))
  /\ ~Raises(c)
  /\ LET e == Entity(c)  f == Effect(c) IN
     /\ cur'   = [cur EXCEPT ![e] = IF f.write THEN f.row ELSE @]
     /\ owner' = [owner EXCEPT ![e] = IF f.write THEN c ELSE @]
     /\ Reply(c, f.result)
  /\ UNCHANGED <<com, taken, disk, thread>>

\* The entity row and the idempotency record are written together.
ApplyItem(c) ==
  /\ link[c].stage = "apply"
  /\ Unlocked(c, Due(c)) /\ (Effect(c).write => Unlocked(c, Entity(c)))
  /\ ~Raises(c)
  /\ LET k == Due(c)  e == Entity(c)  f == Effect(c) IN
     /\ cur'   = [cur EXCEPT ![k] = f.result, ![e] = IF f.write THEN f.row ELSE @]
     /\ owner' = [owner EXCEPT ![k] = c, ![e] = IF f.write THEN c ELSE @]
     /\ Reply(c, f.result)
  /\ UNCHANGED <<com, taken, disk, thread>>

\* The savepoint is rolled back and nothing is stored: a constraint (the
\* handler's own answer is lost with it, as its session refuses further
\* work), or a passing fault.
FailItem(c) ==
  /\ link[c].stage = "apply"
  /\ Faults \/ (Unlocked(c, Due(c)) /\ Unlocked(c, Entity(c)) /\ Raises(c))
  /\ Reply(c, [status |-> "error", ver |-> 0])
  /\ UNCHANGED <<server, disk, thread>>

Release(c) ==
  /\ owner' = [x \in Things |-> IF owner[x] = c THEN NoConn ELSE owner[x]]
  /\ UNCHANGED <<taken, disk, thread>>

\* Mutant: the answer is sent, the transaction is not committed.
AnswerOnly(c) ==
  /\ link[c].stage = "check" /\ DOMAIN link[c].results = DOMAIN link[c].items
  /\ cur' = [x \in Things |-> IF owner[x] = c THEN com[x] ELSE cur[x]]
  /\ link' = [link EXCEPT ![c].stage = "answered"]
  /\ UNCHANGED com
  /\ Release(c)

CommitPush(c) ==
  /\ link[c].stage = "check" /\ DOMAIN link[c].results = DOMAIN link[c].items
  /\ com' = [x \in Things |-> IF owner[x] = c THEN cur[x] ELSE com[x]]
  /\ link' = [link EXCEPT ![c].stage = "answered"]
  /\ UNCHANGED cur
  /\ Release(c)

\* The server or the connection to the database dies.
AbortPush(c) ==
  /\ link[c].stage \in {"check", "apply"}
  /\ cur' = [x \in Things |-> IF owner[x] = c THEN com[x] ELSE cur[x]]
  /\ link' = [link EXCEPT ![c] = Unused]
  /\ UNCHANGED com
  /\ Release(c)

(***************************************************************************)
(* Other users work on the server (REST handlers, modelled in detail by    *)
(* FleetBooking).                                                          *)
(***************************************************************************)
WebWrite(e, row) ==
  /\ Present(com[e]) /\ owner[e] = NoConn
  /\ com' = [com EXCEPT ![e] = row] /\ cur' = [cur EXCEPT ![e] = row]
  /\ UNCHANGED <<owner, taken, link, disk, thread>>

WebUpdate(e) ==
  /\ Present(com[e]) /\ com[e].web < MaxWeb
  /\ WebWrite(e, [com[e] EXCEPT !.ver = @ + 1, !.web = @ + 1])

WebDelete(e) == e \in Vehicles /\ WebWrite(e, Gone)

\* Somebody else takes or gives up the dates, or the registration number.
WebTake(e) ==
  /\ ~Present(cur[e]) /\ owner[e] = NoConn
  /\ taken' \in {taken \cup {e}, taken \ {e}} /\ taken' # taken
  /\ UNCHANGED <<com, cur, owner, link, disk, thread>>

-------------------------------------------------------------------------------
User(e)  == CreateLocal(e) \/ UpdateLocal(e) \/ DeleteLocal(e)

Engine ==
  \/ PushChanges \/ NothingToPush \/ GiveUp \/ ReceiveAnswer \/ MarkItem
  \/ AdoptVersion \/ PushDone \/ PullChanges \/ Bootstrap \/ BeginMerge
  \/ (\E e \in Entities : LoadRow(e)) \/ ApplyPulledItems \/ ApplyBootstrap \/ Restart

Serve(c) ==
  Arrive(c) \/ Lose(c) \/ Discard(c) \/ CheckItem(c) \/ ApplyItem(c) \/ FailItem(c)
  \/ CommitPush(c) \/ AbortPush(c)

Web(e)   == WebUpdate(e) \/ WebDelete(e) \/ WebTake(e)

Next == Engine \/ (\E e \in Entities : User(e) \/ Web(e)) \/ \E c \in Conns : Serve(c)

Known(e) == IF e \in Old THEN [ver |-> 1, edit |-> 0, web |-> 0] ELSE NoRow

Init ==
  /\ com = [x \in Things |-> IF x \in Entities THEN Known(x) ELSE NoRow]
  /\ cur = com
  /\ owner = [x \in Things |-> NoConn]
  /\ taken = {}
  /\ link = [c \in Conns |-> Unused]
  /\ local = [e \in Entities |-> Known(e)]
  /\ queue = <<>>
  /\ phase = "idle" /\ conn = NoConn /\ answer = Nothing
  /\ snap = NoRow /\ skip = {} /\ seen = Nothing /\ asked = 0

Spec == Init /\ [][Next]_vars

\* What can keep a sync cycle from running to its end.  A restart that loses
\* pulled rows is not told from a merge that changes no row, so the fairness of
\* the merge deals with it.
Disruption ==
  \/ Restart /\ phase # "merge"
  \/ GiveUp /\ link[conn].stage # "free"
  \/ \E c \in Conns : Lose(c) \/ AbortPush(c)

\* The desktop syncs again and again (timer, realtime events), every step of a
\* cycle and of a request is taken, and in the end nothing disrupts them.
FairSpec ==
  /\ Spec
  /\ <>[][~Disruption]_vars
  /\ WF_vars(Engine) /\ SF_vars(ApplyPulledItems)
  /\ \A c \in Conns : WF_vars(Serve(c))
===============================================================================
