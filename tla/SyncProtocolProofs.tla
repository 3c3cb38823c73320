-------------------------- MODULE SyncProtocolProofs --------------------------
(***************************************************************************)
(* Proofs about SyncProtocol.  Everything follows from ProtocolInv: a key  *)
(* that a request holds locked is not committed yet, a row it holds locked *)
(* was written with such a key, and an outcome is stored with the request  *)
(* or for good wherever the answer is on its way.  Every action keeps it,  *)
(* with faults and any number of requests in progress.  The order of the   *)
(* edits rests on OrderInv, which every action keeps without the faults.   *)
(* With LedgerInv, again for faults and any number of requests, a commit   *)
(* of the protocol is one step of EditLedger and the rest goes unseen.     *)
(***************************************************************************)
EXTENDS SyncProtocolProps, FiniteSetTheorems, SequenceTheorems, TLAPS

\* Oldest, the order of get_pending, is the least number of a set that is not empty.
LEMMA OldestIsLeast ==
  ASSUME NEW S, S \subseteq Nat, S # {}
  PROVE  Oldest(S) \in S /\ \A j \in S : Oldest(S) <= j
<1> DEFINE T == {0 .. k : k \in S}
<1>1. \A k \in S : 0 .. k \in FiniteSubsetsOf(Nat)
  <2>1. \A k \in Nat : IsFiniteSet(0 .. k) BY FS_Interval
  <2> QED BY <2>1 DEF FiniteSubsetsOf
<1>2. \E x \in T : \A y \in T : ~ (<<y, x>> \in StrictSubsetOrdering(Nat))
  <2>1. T # {} /\ T \subseteq FiniteSubsetsOf(Nat) BY <1>1
  <2> HIDE DEF T
  <2> QED BY <2>1, WFMin, FS_StrictSubsetOrderingWellFounded
<1>3. PICK k \in S : \A y \in T : ~ (<<y, 0 .. k>> \in StrictSubsetOrdering(Nat))
  BY <1>2
<1>4. ASSUME NEW j \in S PROVE k <= j
  <2>1. ~ (<<0 .. j, 0 .. k>> \in StrictSubsetOrdering(Nat)) BY <1>3
  <2>2. j \in Nat /\ k \in Nat OBVIOUS
  <2>3. SUFFICES ASSUME j < k PROVE FALSE BY <2>2
  <2>4. 0 .. j \subseteq 0 .. k /\ 0 .. j # 0 .. k /\ 0 .. k \subseteq Nat BY <2>2, <2>3
  <2> QED BY <2>1, <2>4 DEF StrictSubsetOrdering
<1> QED BY <1>4 DEF Oldest

LEMMA KeysAreNat == Keys \subseteq Nat \ {0} /\ MaxEdits \in Nat
BY BoundAssumption DEF Keys

\* Keys and entities are different things, and marks are neither rows nor results.
LEMMA Apart ==
  /\ Entities \cap Keys = {} /\ Things = Entities \cup Keys
  /\ NoRow # Gone /\ NoRow \notin Row /\ Gone \notin Row
  /\ NoRow \notin Result /\ Gone \notin Result /\ NoConn \notin Conns
BY EntityAssumption, AbsentAssumption DEF Keys, Things

LEMMA EditNumbers == 0 .. MaxEdits = Keys \cup {Reverted}
BY KeysAreNat DEF Keys, Reverted

LEMMA RowFacts ==
  ASSUME NEW r \in Row
  PROVE  r.ver \in Nat /\ r.ver + 1 \in Nat /\ r.edit \in Keys \cup {Reverted} /\ r.web \in 0 .. MaxWeb
BY EditNumbers DEF Row

\* Answers and item tables are functions on some of the keys, and stay so when an
\* entry is added or dropped.
LEMMA NothingIsPartial ==
  ASSUME NEW D, NEW R PROVE Nothing \in Partial(D, R) /\ DOMAIN Nothing = {}
BY DEF Nothing, Partial

LEMMA IsPartial ==
  ASSUME NEW D, NEW R, NEW K \in SUBSET D, NEW f \in [K -> R]
  PROVE  f \in Partial(D, R)
BY DEF Partial

LEMMA PartialFacts ==
  ASSUME NEW D, NEW R, NEW f \in Partial(D, R)
  PROVE  DOMAIN f \subseteq D /\ (\A k \in DOMAIN f : f[k] \in R) /\ f = [k \in DOMAIN f |-> f[k]]
BY DEF Partial

LEMMA ExtendIsPartial ==
  ASSUME NEW D, NEW R, NEW f \in Partial(D, R), NEW k \in D, NEW r \in R
  PROVE  Extend(f, k, r) \in Partial(D, R)
<1>1. DOMAIN f \in SUBSET D /\ \A j \in DOMAIN f : f[j] \in R BY PartialFacts
<1> DEFINE K == DOMAIN f \cup {k}
           g == [j \in K |-> IF j = k THEN r ELSE f[j]]
<1>2. K \in SUBSET D /\ g \in [K -> R] BY <1>1
<1>3. g \in Partial(D, R) BY <1>2, IsPartial
<1>4. Extend(f, k, r) = g BY DEF Extend
<1> QED BY <1>3, <1>4

LEMMA WithoutIsPartial ==
  ASSUME NEW D, NEW R, NEW f \in Partial(D, R), NEW k
  PROVE  Without(f, k) \in Partial(D, R)
<1>1. DOMAIN f \in SUBSET D /\ \A j \in DOMAIN f : f[j] \in R BY PartialFacts
<1> DEFINE K == DOMAIN f \ {k}
           g == [j \in K |-> f[j]]
<1>2. K \in SUBSET D /\ g \in [K -> R] BY <1>1
<1>3. g \in Partial(D, R) BY <1>2, IsPartial
<1>4. Without(f, k) = g BY DEF Without
<1> QED BY <1>3, <1>4

\* Queue positions are keys.
LEMMA QueueFacts ==
  ASSUME queue \in Seq(Item), Len(queue) <= MaxEdits
  PROVE  /\ DOMAIN queue = 1 .. Len(queue) /\ Len(queue) \in Nat /\ DOMAIN queue \subseteq Keys
         /\ \A k \in DOMAIN queue : queue[k] \in Item
BY KeysAreNat DEF Keys

\* The server's rows, an empty queue and no request make a good start.
LEMMA KnownLength == ASSUME ProtocolInv PROVE Len(queue) \in Nat /\ 0 <= Len(queue)
BY DEF ProtocolInv, Shape

LEMMA InitInv == Init => ProtocolInv
<1> SUFFICES ASSUME Init PROVE ProtocolInv OBVIOUS
<1>1. \A e \in Entities : Known(e) \in Row \cup {NoRow} /\ (Known(e) \in Row => Known(e).edit = 0)
  BY KeysAreNat, BoundAssumption, Apart DEF Known, Row
<1>2. com \in Tables /\ cur \in Tables
  BY <1>1, Apart DEF Init, Tables, Absent
<1>3. Unused \in Links /\ Unused.stage = "free" /\ DOMAIN Unused.items = {} /\ DOMAIN Unused.results = {}
  BY NothingIsPartial DEF Unused, Links, Stages, Absent
<1>4. Shape
  BY <1>1, <1>2, <1>3, NothingIsPartial, KeysAreNat DEF Init, Shape, Phases
<1>5. RequestsInv /\ ThreadInv
  BY <1>3, NothingIsPartial DEF Init, RequestsInv, ThreadInv, Merging, HasSnapshot
<1>6. LocksInv /\ StoredInv
  BY <1>3, NothingIsPartial, Apart DEF Init, LocksInv, StoredInv, Outcome, MarkedWasStored
<1>7. EditsInv
  <2>1. OwnEdits(com) /\ OwnEdits(cur) /\ OwnEdits(local)
    BY <1>1, Apart DEF Init, OwnEdits, Reverted
  <2> QED BY <2>1, <1>3, NothingIsPartial DEF EditsInv, OnlyUpdates, Init, HasSnapshot
<1> QED BY <1>4, <1>5, <1>6, <1>7 DEF ProtocolInv

(***************************************************************************)
(* The user.                                                               *)
(***************************************************************************)
LEMMA EnqueueFacts ==
  ASSUME Shape, NEW e \in Entities, NEW op \in Ops, NEW web \in 0 .. MaxWeb, Enqueue(e, op, web)
  PROVE  /\ queue' \in Seq(Item) /\ Len(queue') <= MaxEdits /\ Len(queue) + 1 \in Keys
         /\ DOMAIN queue' = DOMAIN queue \cup {Len(queue) + 1}
         /\ \A k \in DOMAIN queue : queue'[k] = queue[k]
         /\ queue'[Len(queue) + 1].ent = e /\ queue'[Len(queue) + 1].status = "PENDING"
<1> DEFINE it == [ent |-> e, op |-> op, status |-> "PENDING", retry |-> 0, web |-> web]
<1>1. queue \in Seq(Item) /\ Len(queue) \in Nat /\ Len(queue) < MaxEdits /\ queue' = Append(queue, it)
  BY DEF Enqueue, Shape
<1>2. it \in Item BY BoundAssumption DEF Item, Status
<1>3. it.ent = e /\ it.status = "PENDING" OBVIOUS
<1> HIDE DEF it
<1>4. /\ queue' \in Seq(Item) /\ Len(queue') = Len(queue) + 1
      /\ queue'[Len(queue) + 1] = it /\ \A k \in 1 .. Len(queue) : queue'[k] = queue[k]
  BY <1>1, <1>2
<1>5. DOMAIN queue = 1 .. Len(queue) /\ DOMAIN queue' = 1 .. (Len(queue) + 1)
  BY <1>1, <1>4
<1> QED BY <1>1, <1>3, <1>4, <1>5, KeysAreNat DEF Keys

\* An edit takes the next number in the queue, and its row bears that number.
LEMMA EditKeepsInv ==
  ASSUME ProtocolInv, UNCHANGED <<server, link, thread>>,
         NEW e \in Entities, NEW op \in Ops, NEW web \in 0 .. MaxWeb, Enqueue(e, op, web),
         local' \in [Entities -> Row \cup {NoRow}],
         \A x \in Entities : \/ local'[x] = local[x]
                             \/ x = e /\ (local'[x] = NoRow \/ local'[x].edit = Len(queue) + 1)
  PROVE  ProtocolInv'
<1> DEFINE n == Len(queue) + 1
<1>1. /\ queue' \in Seq(Item) /\ Len(queue') <= MaxEdits /\ n \in Keys
      /\ DOMAIN queue' = DOMAIN queue \cup {n} /\ \A k \in DOMAIN queue : queue'[k] = queue[k]
      /\ queue'[n].ent = e /\ queue'[n].status = "PENDING"
  BY EnqueueFacts DEF ProtocolInv
<1>2. UNCHANGED <<com, cur, owner, taken, link, phase, conn, answer, snap, skip, seen, asked>> BY DEF server, thread, merging
<1>3. DOMAIN queue \subseteq Keys BY QueueFacts DEF ProtocolInv, Shape
<1> HIDE DEF n
<1>4. Shape' BY <1>1, <1>2 DEF ProtocolInv, Shape
<1>5. RequestsInv' BY <1>1, <1>2 DEF ProtocolInv, RequestsInv
<1>6. ThreadInv'
  <2>1. asked \in Nat /\ asked <= Len(queue) /\ Len(queue) \in Nat
    BY DEF ProtocolInv, Shape, ThreadInv
  <2>2. asked <= Len(queue') /\ \A k \in DOMAIN queue' : k <= asked => k \in DOMAIN queue
    <3>1. n = Len(queue) + 1 BY DEF n
    <3>2. Len(queue') = Len(queue) + 1 BY <2>1 DEF Enqueue
    <3> QED BY <1>1, <2>1, <3>1, <3>2
  <2> QED BY <1>1, <1>2, <2>2 DEF ProtocolInv, ThreadInv, RequestsInv, Merging, HasSnapshot
<1>7. LocksInv' BY <1>2 DEF ProtocolInv, LocksInv
<1>8. StoredInv' BY <1>1, <1>2 DEF ProtocolInv, StoredInv, Outcome, MarkedWasStored
<1>9. EditsInv'
  <2>2. OwnEdits(com)' /\ OwnEdits(cur)' /\ (HasSnapshot' => OwnEdits(snap)')
    BY <1>1, <1>2 DEF ProtocolInv, EditsInv, OwnEdits, HasSnapshot
  <2>3. OwnEdits(local)' BY <1>1, Apart DEF ProtocolInv, EditsInv, OwnEdits, n
  <2>4. OnlyUpdates(answer)' BY <1>1, <1>2 DEF ProtocolInv, EditsInv, OnlyUpdates, ThreadInv
  <2>5. \A c \in Conns : OnlyUpdates(link[c].results)'
    BY <1>1, <1>2 DEF ProtocolInv, EditsInv, OnlyUpdates, RequestsInv
  <2> QED BY <2>2, <2>3, <2>4, <2>5, <1>2 DEF EditsInv
<1> QED BY <1>4, <1>5, <1>6, <1>7, <1>8, <1>9 DEF ProtocolInv

LEMMA UserKeepsInv == ASSUME ProtocolInv, NEW e \in Entities, User(e) PROVE ProtocolInv'
<1>1. /\ local \in [Entities -> Row \cup {NoRow}] /\ Len(queue) \in Nat
      /\ \A r \in Row : r.ver \in Nat /\ r.web \in 0 .. MaxWeb
  BY DEF ProtocolInv, Shape, Row
<1>2. 0 \in 0 .. MaxWeb BY BoundAssumption
<1>3. CASE CreateLocal(e)
  <2>1. Enqueue(e, "CREATE", 0) /\ UNCHANGED <<server, link, thread>> BY <1>3 DEF CreateLocal
  <2>2. Len(queue) + 1 \in Keys BY <2>1, <1>2, EnqueueFacts DEF ProtocolInv, Ops
  <2> DEFINE r == [ver |-> 1, edit |-> Len(queue) + 1, web |-> 0]
  <2>3. r \in Row /\ r.edit = Len(queue) + 1 BY <2>2, <1>2, KeysAreNat DEF Row, Keys
  <2>4. local' = [local EXCEPT ![e] = r] BY <1>3 DEF CreateLocal
  <2> HIDE DEF r
  <2> QED BY <1>1, <1>2, <2>1, <2>3, <2>4, EditKeepsInv DEF Ops
<1>4. CASE UpdateLocal(e)
  <2>1. /\ local[e] \in Row /\ Enqueue(e, "UPDATE", local[e].web) /\ UNCHANGED <<server, link, thread>>
    BY <1>1, <1>4 DEF UpdateLocal
  <2>2. Len(queue) + 1 \in Keys BY <2>1, <1>1, EnqueueFacts DEF ProtocolInv, Ops
  <2> DEFINE r == [local[e] EXCEPT !.ver = @ + 1, !.edit = Len(queue) + 1]
  <2>3. r \in Row /\ r.edit = Len(queue) + 1
    <3>1. Len(queue) + 1 \in 0 .. MaxEdits BY <2>2, EditNumbers
    <3>2. local[e].ver + 1 \in Nat BY <2>1, RowFacts
    <3> QED BY <2>1, <3>1, <3>2 DEF Row
  <2>4. local' = [local EXCEPT ![e] = r] BY <1>4 DEF UpdateLocal
  <2> HIDE DEF r
  <2> QED BY <1>1, <2>1, <2>3, <2>4, EditKeepsInv DEF Ops
<1>5. CASE DeleteLocal(e)
  <2>1. local[e] \in Row BY <1>1, <1>5 DEF DeleteLocal
  <2> QED BY <1>1, <1>5, <2>1, EditKeepsInv DEF DeleteLocal, Ops
<1> QED BY <1>3, <1>4, <1>5 DEF User

(***************************************************************************)
(* The sync thread of the desktop.                                         *)
(***************************************************************************)
LEMMA PushKeepsInv == ASSUME ProtocolInv, PushChanges PROVE ProtocolInv'
<1>1. PICK c \in Conns :
        /\ link[c].stage = "free" /\ conn' = c
        /\ link' = [link EXCEPT ![c].stage = "sent", ![c].items = [k \in Batch |-> PushVersion(k)]]
  BY DEF PushChanges
<1>2. phase' = "wait" /\ UNCHANGED <<com, cur, owner, taken, local, queue, answer, snap, skip, seen, asked>>
  BY DEF PushChanges, server, disk, merging
<1> DEFINE items == [k \in Batch |-> PushVersion(k)]
<1>3. /\ Batch \subseteq DOMAIN queue /\ DOMAIN queue \subseteq Keys
      /\ \A k \in Batch : queue[k].retry < MaxRetry /\ queue[k] \in Item
  BY QueueFacts DEF Batch, Pending, ProtocolInv, Shape
<1>4. \A k \in Batch : PushVersion(k) \in Nat
  <2> SUFFICES ASSUME NEW k \in Batch PROVE PushVersion(k) \in Nat OBVIOUS
  <2>1. local[queue[k].ent] \in Row \cup {NoRow} BY <1>3 DEF ProtocolInv, Shape, Item
  <2> QED BY <2>1, RowFacts DEF PushVersion
<1>5. items \in Partial(Keys, Nat) /\ DOMAIN items = Batch
  <2>1. Batch \in SUBSET Keys /\ items \in [Batch -> Nat] BY <1>3, <1>4
  <2> QED BY <2>1, IsPartial
<1> HIDE DEF items
<1>6. link' = [link EXCEPT ![c].stage = "sent", ![c].items = items] BY <1>1 DEF items
<1>7. link \in [Conns -> Links] /\ "sent" \in Stages BY DEF ProtocolInv, Shape, Stages
<1>8. /\ link'[c].stage = "sent" /\ link'[c].items = items /\ link'[c].results = link[c].results
      /\ \A d \in Conns \ {c} : link'[d] = link[d]
  BY <1>6, <1>7 DEF Links
<1>9. link' \in [Conns -> Links] BY <1>5, <1>6, <1>7 DEF Links
<1>10. Shape' BY <1>1, <1>2, <1>9 DEF ProtocolInv, Shape, Phases
<1>11. RequestsInv' BY <1>1, <1>2, <1>3, <1>5, <1>8 DEF ProtocolInv, RequestsInv
<1>12. ThreadInv' BY <1>1, <1>2, <1>3, <1>5, <1>8 DEF ProtocolInv, ThreadInv, Merging, HasSnapshot
<1>13. LocksInv'
  <2>1. \A x \in Things : owner[x] # NoConn => owner[x] \in Conns \ {c}
    BY <1>1 DEF ProtocolInv, Shape, LocksInv
  <2> QED BY <1>2, <1>8, <2>1 DEF ProtocolInv, LocksInv
<1>14. StoredInv'
  <2>1. DOMAIN link'[c].results = {} BY <1>1, <1>8 DEF ProtocolInv, RequestsInv
  <2> QED BY <1>2, <1>8, <2>1 DEF ProtocolInv, StoredInv, Outcome, MarkedWasStored
<1>15. EditsInv' BY <1>2, <1>8 DEF ProtocolInv, EditsInv, OwnEdits, OnlyUpdates, HasSnapshot
<1> QED BY <1>10, <1>11, <1>12, <1>13, <1>14, <1>15 DEF ProtocolInv

\* A step of the thread that only moves it on.
LEMMA ThreadMovesKeepsInv ==
  ASSUME ProtocolInv, UNCHANGED <<server, link, disk>>, phase' \in {"idle", "pull"},
         conn' \in {conn, NoConn}, answer' \in {answer, Nothing}, snap' \in {snap, NoRow},
         skip' \in {skip, {}}, seen' \in {seen, Nothing}, asked' \in {asked, 0}
  PROVE  ProtocolInv'
<1>1. UNCHANGED <<com, cur, owner, taken, link, local, queue>> BY DEF server, disk
<1>2. /\ Nothing \in Partial(Keys, Result) /\ DOMAIN Nothing = {}
      /\ Nothing \in Partial(Entities, Row \cup {NoRow})
  BY NothingIsPartial
<1>3. Shape' BY <1>1, <1>2 DEF ProtocolInv, Shape, Phases
<1>4. RequestsInv' /\ LocksInv' BY <1>1 DEF ProtocolInv, RequestsInv, LocksInv
<1>5. ThreadInv'
  BY <1>1, <1>2, KnownLength DEF ProtocolInv, ThreadInv, Merging, HasSnapshot
<1>6. StoredInv' BY <1>1, <1>2 DEF ProtocolInv, StoredInv, Outcome, MarkedWasStored
<1>7. EditsInv' BY <1>1, <1>2 DEF ProtocolInv, EditsInv, OwnEdits, OnlyUpdates, HasSnapshot
<1> QED BY <1>3, <1>4, <1>5, <1>6, <1>7 DEF ProtocolInv

\* What an answer brings is committed by now.
LEMMA ReceiveKeepsInv == ASSUME ProtocolInv, ReceiveAnswer PROVE ProtocolInv'
<1>1. /\ conn \in Conns /\ link[conn].stage = "answered" /\ answer' = link[conn].results
      /\ link' = [link EXCEPT ![conn] = Unused] /\ phase' = "mark" /\ conn' = NoConn
      /\ UNCHANGED <<com, cur, owner, taken, local, queue, snap, skip, seen, asked>>
  BY DEF ReceiveAnswer, ProtocolInv, ThreadInv, server, disk, merging
<1>2. Unused \in Links /\ Unused.stage = "free" /\ DOMAIN Unused.items = {} /\ DOMAIN Unused.results = {}
  BY NothingIsPartial DEF Unused, Links, Stages, Absent
<1>3. link \in [Conns -> Links] BY DEF ProtocolInv, Shape
<1>4. link'[conn] = Unused /\ \A d \in Conns \ {conn} : link'[d] = link[d] BY <1>1, <1>3
<1>5. link' \in [Conns -> Links] BY <1>1, <1>2, <1>3
<1>6. answer' \in Partial(Keys, Result) BY <1>1, <1>3 DEF Links
<1>7. Shape' BY <1>1, <1>5, <1>6 DEF ProtocolInv, Shape, Phases
<1>8. RequestsInv' BY <1>1, <1>2, <1>4 DEF ProtocolInv, RequestsInv
<1>9. ThreadInv' BY <1>1 DEF ReceiveAnswer, ProtocolInv, ThreadInv, RequestsInv, Merging, HasSnapshot
<1>10. LocksInv'
  <2>1. \A x \in Things : owner[x] # NoConn => owner[x] \in Conns \ {conn}
    BY <1>1 DEF ProtocolInv, Shape, LocksInv
  <2> QED BY <1>1, <1>4, <2>1 DEF ProtocolInv, LocksInv
<1>11. StoredInv' BY <1>1, <1>2, <1>4 DEF ProtocolInv, StoredInv, Outcome, MarkedWasStored
<1>12. EditsInv' BY <1>1, <1>2, <1>4 DEF ProtocolInv, EditsInv, OwnEdits, OnlyUpdates, HasSnapshot
<1> QED BY <1>7, <1>8, <1>9, <1>10, <1>11, <1>12 DEF ProtocolInv

LEMMA SetItemFacts ==
  ASSUME Shape, NEW k \in DOMAIN queue, NEW it \in Item, queue' = [queue EXCEPT ![k] = it]
  PROVE  /\ queue' \in Seq(Item) /\ Len(queue') <= MaxEdits /\ DOMAIN queue' = DOMAIN queue
         /\ queue'[k] = it /\ \A j \in DOMAIN queue \ {k} : queue'[j] = queue[j]
BY DEF Shape

\* An item of the answer is marked, and dropped unless its version is adopted next.
LEMMA MarkedKeepsInv ==
  ASSUME ProtocolInv, UNCHANGED <<server, link, conn, snap, skip, seen, asked, local>>,
         NEW k \in DOMAIN answer, NEW it \in Item, queue' = [queue EXCEPT ![k] = it],
         it.ent = queue[k].ent, it.op = queue[k].op,
         it.status \in {"SYNCED", "CONFLICT"} => com[k] # NoRow,
         \/ it.retry = queue[k].retry /\ phase' = "adopt" /\ answer' = answer
         \/ phase' = "mark" /\ answer' = Without(answer, k)
  PROVE  ProtocolInv'
<1>1. UNCHANGED <<com, cur, owner, taken, link, conn, snap, skip, seen, asked, local>> BY DEF server
<1>2. k \in DOMAIN queue /\ answer \in Partial(Keys, Result)
  BY DEF ProtocolInv, ThreadInv, Shape
<1>3. /\ queue' \in Seq(Item) /\ Len(queue') <= MaxEdits /\ DOMAIN queue' = DOMAIN queue
      /\ queue'[k] = it /\ \A j \in DOMAIN queue \ {k} : queue'[j] = queue[j]
  BY <1>2, SetItemFacts DEF ProtocolInv
<1>4. /\ answer' \in Partial(Keys, Result) /\ DOMAIN answer' \subseteq DOMAIN answer
      /\ \A j \in DOMAIN answer' : answer'[j] = answer[j]
      /\ phase' = "adopt" => k \in DOMAIN answer' /\ it.retry = queue[k].retry
      /\ phase' # "adopt" => phase' = "mark" /\ k \notin DOMAIN answer'
  <2>1. Without(answer, k) \in Partial(Keys, Result) BY <1>2, WithoutIsPartial
  <2>2. /\ DOMAIN Without(answer, k) = DOMAIN answer \ {k}
        /\ \A j \in DOMAIN answer \ {k} : Without(answer, k)[j] = answer[j]
    BY DEF Without
  <2> QED BY <1>2, <2>1, <2>2
<1>5. \A j \in DOMAIN queue : queue'[j].ent = queue[j].ent /\ queue'[j].op = queue[j].op
  BY <1>3
<1>6. Shape' BY <1>1, <1>3, <1>4 DEF ProtocolInv, Shape, Phases
<1>7. RequestsInv' /\ LocksInv' BY <1>1, <1>3 DEF ProtocolInv, RequestsInv, LocksInv
<1>8. ThreadInv' BY <1>1, <1>3, <1>4 DEF ProtocolInv, ThreadInv, Merging, HasSnapshot
<1>9. StoredInv' BY <1>1, <1>3, <1>4 DEF ProtocolInv, StoredInv, Outcome, MarkedWasStored
<1>10. EditsInv'
  <2>1. OwnEdits(com)' /\ OwnEdits(cur)' /\ OwnEdits(local)'
    BY <1>1, <1>3, <1>5 DEF ProtocolInv, EditsInv, OwnEdits
  <2>2. OnlyUpdates(answer)'
    BY <1>1, <1>3, <1>4, <1>5 DEF ProtocolInv, ThreadInv, EditsInv, OnlyUpdates
  <2>3. \A c \in Conns : OnlyUpdates(link[c].results)'
    BY <1>1, <1>3, <1>5 DEF ProtocolInv, RequestsInv, EditsInv, OnlyUpdates
  <2> QED BY <1>1, <1>4, <2>1, <2>2, <2>3 DEF EditsInv, HasSnapshot
<1> QED BY <1>6, <1>7, <1>8, <1>9, <1>10 DEF ProtocolInv

LEMMA AnswerIsLeast ==
  ASSUME ProtocolInv, DOMAIN answer # {}
  PROVE  /\ Oldest(DOMAIN answer) \in DOMAIN answer /\ Oldest(DOMAIN answer) \in DOMAIN queue
         /\ queue[Oldest(DOMAIN answer)] \in Item /\ answer[Oldest(DOMAIN answer)] \in Result
<1>1. DOMAIN answer \subseteq DOMAIN queue /\ DOMAIN answer \subseteq Keys
      /\ \A k \in DOMAIN answer : answer[k] \in Result
  BY PartialFacts DEF ProtocolInv, Shape, ThreadInv
<1>2. DOMAIN answer \subseteq Nat BY <1>1, KeysAreNat
<1>3. Oldest(DOMAIN answer) \in DOMAIN answer BY <1>2, OldestIsLeast
<1> QED BY <1>1, <1>3, QueueFacts DEF ProtocolInv, Shape

LEMMA MarkKeepsInv == ASSUME ProtocolInv, MarkItem PROVE ProtocolInv'
<1> DEFINE k == Oldest(DOMAIN answer)
<1>1. /\ phase = "mark" /\ answer # Nothing
      /\ UNCHANGED <<server, link, conn, snap, skip, seen, asked>>
      /\ MarkSynced(k) \/ MarkConflict(k) \/ MarkFailed(k)
  BY DEF MarkItem, merging
<1>2. DOMAIN answer # {}
  <2>1. answer = [j \in DOMAIN answer |-> answer[j]] BY PartialFacts DEF ProtocolInv, Shape
  <2> QED BY <1>1, <2>1 DEF Nothing
<1>3. k \in DOMAIN answer /\ k \in DOMAIN queue /\ queue[k] \in Item /\ answer[k] \in Result
  BY <1>2, AnswerIsLeast
<1>4. k \in Keys /\ queue[k].retry < MaxRetry
  BY <1>3, QueueFacts DEF ProtocolInv, ThreadInv, Shape
<1>5. answer[k].status # "error" => com[k] # NoRow
  BY <1>3, <1>4 DEF ProtocolInv, StoredInv, Outcome
<1> HIDE DEF k
<1>6. CASE MarkSynced(k)
  <2> DEFINE it == [queue[k] EXCEPT !.status = "SYNCED"]
  <2>1. /\ it \in Item /\ it.ent = queue[k].ent /\ it.op = queue[k].op /\ it.retry = queue[k].retry
    BY <1>3 DEF Item, Status
  <2>2. /\ queue' = [queue EXCEPT ![k] = it] /\ com[k] # NoRow /\ UNCHANGED local
        /\ \/ phase' = "adopt" /\ answer' = answer
           \/ phase' = "mark" /\ answer' = Without(answer, k)
    BY <1>1, <1>5, <1>6 DEF MarkSynced, SetStatus, Marked
  <2> HIDE DEF it
  <2> QED BY <1>1, <1>3, <2>1, <2>2, MarkedKeepsInv
<1>7. CASE MarkConflict(k)
  <2> DEFINE it == [queue[k] EXCEPT !.status = "CONFLICT"]
  <2>1. /\ it \in Item /\ it.ent = queue[k].ent /\ it.op = queue[k].op
    BY <1>3 DEF Item, Status
  <2>2. queue[k].op = "UPDATE" /\ com[k] # NoRow
    BY <1>3, <1>5, <1>7 DEF MarkConflict, ProtocolInv, EditsInv, OnlyUpdates
  <2>3. /\ queue' = [queue EXCEPT ![k] = it] /\ UNCHANGED local
        /\ phase' = "mark" /\ answer' = Without(answer, k)
    BY <1>1, <1>7, <2>2 DEF MarkConflict, SetStatus, Marked
  <2> HIDE DEF it
  <2> QED BY <1>1, <1>3, <2>1, <2>2, <2>3, MarkedKeepsInv
<1>8. CASE MarkFailed(k)
  <2> DEFINE it == [queue[k] EXCEPT !.status = "FAILED", !.retry = @ + 1]
  <2>1. queue[k].retry + 1 \in 0 .. MaxRetry BY <1>3, <1>4, BoundAssumption DEF Item
  <2>2. it \in Item /\ it.ent = queue[k].ent /\ it.op = queue[k].op /\ it.status = "FAILED"
    BY <1>3, <2>1 DEF Item, Status
  <2>3. /\ queue' = [queue EXCEPT ![k] = it] /\ UNCHANGED local
        /\ phase' = "mark" /\ answer' = Without(answer, k)
    BY <1>1, <1>8 DEF MarkFailed, Marked
  <2> HIDE DEF it
  <2> QED BY <1>1, <1>3, <2>2, <2>3, MarkedKeepsInv
<1> QED BY <1>1, <1>6, <1>7, <1>8

\* Rows of this desktop are replaced by rows that bear its edits, or by none.
LEMMA LocalKeepsInv ==
  ASSUME ProtocolInv, UNCHANGED <<server, link, queue, conn>>,
         local' \in [Entities -> Row \cup {NoRow}], OwnEdits(local'),
         phase' \in {"idle", "push", "mark"}, snap' \in {snap, NoRow},
         skip' \in {skip, {}}, seen' \in {seen, Nothing}, asked' \in {asked, 0},
         answer' \in Partial(Keys, Result), DOMAIN answer' \subseteq DOMAIN answer,
         \A k \in DOMAIN answer' : answer'[k] = answer[k]
  PROVE  ProtocolInv'
<1>1. UNCHANGED <<com, cur, owner, taken, link, queue, conn>> BY DEF server
<1>2. Shape' BY <1>1, NothingIsPartial DEF ProtocolInv, Shape, Phases
<1>3. RequestsInv' /\ LocksInv' BY <1>1 DEF ProtocolInv, RequestsInv, LocksInv
<1>4. ThreadInv' BY <1>1, KnownLength DEF ProtocolInv, ThreadInv, Merging, HasSnapshot
<1>5. StoredInv' BY <1>1 DEF ProtocolInv, StoredInv, Outcome, MarkedWasStored
<1>6. EditsInv'
  <2>1. OwnEdits(local)' BY <1>1 DEF OwnEdits
  <2> QED BY <1>1, <2>1 DEF ProtocolInv, EditsInv, OwnEdits, OnlyUpdates, HasSnapshot
<1> QED BY <1>2, <1>3, <1>4, <1>5, <1>6 DEF ProtocolInv

LEMMA AdoptKeepsInv == ASSUME ProtocolInv, AdoptVersion PROVE ProtocolInv'
<1> DEFINE k == Oldest(DOMAIN answer)  e == queue[k].ent
<1>1. /\ phase = "adopt" /\ phase' = "mark"
      /\ UNCHANGED <<server, link, queue, conn, snap, skip, seen, asked>>
      /\ local' = IF local[e] = NoRow THEN local ELSE [local EXCEPT ![e].ver = answer[k].ver]
      /\ answer' = Without(answer, k)
  BY DEF AdoptVersion, merging
<1>2. DOMAIN answer # {} BY <1>1 DEF ProtocolInv, ThreadInv, Merging, HasSnapshot
<1>3. k \in DOMAIN answer /\ queue[k] \in Item /\ answer[k] \in Result BY <1>2, AnswerIsLeast
<1>4. e \in Entities /\ answer[k].ver \in Nat BY <1>3 DEF Item, Result
<1>5. local \in [Entities -> Row \cup {NoRow}] /\ OwnEdits(local) /\ answer \in Partial(Keys, Result)
  BY DEF ProtocolInv, Shape, EditsInv
<1>6. /\ answer' \in Partial(Keys, Result) /\ DOMAIN answer' \subseteq DOMAIN answer
      /\ \A j \in DOMAIN answer' : answer'[j] = answer[j]
  <2>1. Without(answer, k) \in Partial(Keys, Result) BY <1>5, WithoutIsPartial
  <2>2. /\ DOMAIN Without(answer, k) = DOMAIN answer \ {k}
        /\ \A j \in DOMAIN answer \ {k} : Without(answer, k)[j] = answer[j]
    BY DEF Without
  <2> QED BY <1>1, <2>1, <2>2
<1> HIDE DEF k, e
<1>7. local' \in [Entities -> Row \cup {NoRow}] /\ OwnEdits(local')
  <2>1. CASE local[e] = NoRow BY <1>1, <1>5, <2>1 DEF OwnEdits
  <2>2. CASE local[e] # NoRow
    <3> DEFINE r == [local[e] EXCEPT !.ver = answer[k].ver]
    <3>1. local[e] \in Row BY <1>4, <1>5, <2>2
    <3>2. r \in Row /\ r.edit = local[e].edit BY <1>4, <3>1 DEF Row
    <3>3. local' = [local EXCEPT ![e] = r] BY <1>1, <2>2
    <3> HIDE DEF r
    <3> QED BY <1>1, <1>4, <1>5, <3>1, <3>2, <3>3 DEF OwnEdits
  <2> QED BY <2>1, <2>2
<1> QED BY <1>1, <1>6, <1>7, LocalKeepsInv

\* A step of the merge that leaves the rows and the queue alone.
LEMMA MergeMovesKeepsInv ==
  ASSUME ProtocolInv, UNCHANGED <<server, link, disk, conn, answer>>,
         phase' \in {"pulled", "booted", "merge", "reconcile"},
         snap' \in Pulled, OwnEdits(snap'), skip' \subseteq Entities,
         seen' \in Partial(Entities, Row \cup {NoRow}), asked' \in Nat, asked' <= Len(queue),
         Merging' => \A k \in DOMAIN queue :
           k <= asked' /\ queue[k].status = "PENDING" => queue[k].ent \in skip'
  PROVE  ProtocolInv'
<1>1. UNCHANGED <<com, cur, owner, taken, link, local, queue, conn, answer>> BY DEF server, disk
<1>2. Shape' BY <1>1 DEF ProtocolInv, Shape, Phases
<1>3. RequestsInv' /\ LocksInv' BY <1>1 DEF ProtocolInv, RequestsInv, LocksInv
<1>4. ThreadInv' BY <1>1 DEF ProtocolInv, ThreadInv, HasSnapshot
<1>5. StoredInv' BY <1>1 DEF ProtocolInv, StoredInv, Outcome, MarkedWasStored
<1>6. EditsInv'
  <2>1. OwnEdits(snap)' BY <1>1 DEF OwnEdits
  <2> QED BY <1>1, <2>1 DEF ProtocolInv, EditsInv, OwnEdits, OnlyUpdates, HasSnapshot
<1> QED BY <1>2, <1>3, <1>4, <1>5, <1>6 DEF ProtocolInv

LEMMA FetchKeepsInv ==
  ASSUME ProtocolInv, NEW next \in {"pulled", "booted"}, Fetch(next) PROVE ProtocolInv'
<1>1. /\ UNCHANGED <<server, link, disk, conn, answer, skip, seen, asked>> /\ phase' = next
      /\ snap' = [e \in Entities |-> com[e]]
  BY DEF Fetch
<1>2. snap' \in Pulled /\ \A e \in Entities : snap'[e] = com[e]
  BY <1>1 DEF ProtocolInv, Shape, Tables, Pulled
<1>3. OwnEdits(snap') BY <1>2 DEF ProtocolInv, EditsInv, OwnEdits
<1>4. ~Merging' BY <1>1 DEF Merging
<1> QED BY <1>1, <1>2, <1>3, <1>4, MergeMovesKeepsInv DEF ProtocolInv, Shape, ThreadInv

\* The ids of the rows whose edits wait are those of all edits that wait.
LEMMA ReadKeepsInv ==
  ASSUME ProtocolInv, HasSnapshot, NEW next \in {"merge", "reconcile"}, ReadPending(next)
  PROVE  ProtocolInv'
<1>1. /\ UNCHANGED <<server, link, disk, conn, answer, snap, seen>> /\ phase' = next
      /\ skip' = {e \in Entities : HasPending(e)} /\ asked' = Len(queue)
  BY DEF ReadPending
<1>2. snap' \in Pulled /\ OwnEdits(snap')
  BY <1>1 DEF ProtocolInv, ThreadInv, EditsInv, OwnEdits
<1>3. \A k \in DOMAIN queue : queue[k].status = "PENDING" => queue[k].ent \in skip'
  BY <1>1, QueueFacts DEF ProtocolInv, Shape, HasPending, Item
<1>4. asked' \in Nat /\ asked' <= Len(queue) BY <1>1, KnownLength
<1> QED BY <1>1, <1>2, <1>3, <1>4, MergeMovesKeepsInv DEF ProtocolInv, Shape

LEMMA LoadRowKeepsInv ==
  ASSUME ProtocolInv, NEW e \in Entities, LoadRow(e) PROVE ProtocolInv'
<1>1. /\ UNCHANGED <<server, link, disk, phase, conn, answer, snap, skip, asked>>
      /\ Merging /\ HasSnapshot /\ phase \in {"merge", "reconcile"}
      /\ seen' = Extend(seen, e, local[e])
  BY DEF LoadRow, Merging, HasSnapshot
<1>2. snap' \in Pulled /\ OwnEdits(snap')
  BY <1>1 DEF ProtocolInv, ThreadInv, EditsInv, OwnEdits
<1>3. seen' \in Partial(Entities, Row \cup {NoRow})
  BY <1>1, ExtendIsPartial DEF ProtocolInv, Shape
<1>4. \A k \in DOMAIN queue : k <= asked' /\ queue[k].status = "PENDING" => queue[k].ent \in skip'
  BY <1>1 DEF ProtocolInv, ThreadInv, Merging, HasSnapshot
<1> QED BY <1>1, <1>2, <1>3, <1>4, MergeMovesKeepsInv DEF ProtocolInv, Shape, ThreadInv

LEMMA FinishKeepsInv ==
  ASSUME ProtocolInv, NEW rows, NEW next \in {"idle", "push"}, Finish(rows, next),
         rows \in [Entities -> Row \cup {NoRow}], OwnEdits(rows)
  PROVE  ProtocolInv'
<1>1. /\ UNCHANGED <<server, link, queue, conn, answer>> /\ local' = rows /\ phase' = next
      /\ snap' = NoRow /\ skip' = {} /\ seen' = Nothing /\ asked' = 0
  BY DEF Finish
<1>2. answer \in Partial(Keys, Result) BY DEF ProtocolInv, Shape
<1> QED BY <1>1, <1>2, LocalKeepsInv

\* A merged row is the local one, the pulled one, or has columns of both.
LEMMA MergedRow ==
  ASSUME ProtocolInv, HasSnapshot, ~MergeFails, NEW e \in Entities
  PROVE  /\ Merge(e) \in Row \cup {NoRow}
         /\ Merge(e) \in Row => \/ snap[e] \in Row /\ Merge(e).edit = snap[e].edit
                                \/ local[e] \in Row /\ Merge(e).edit = local[e].edit
<1>1. local[e] \in Row \cup {NoRow} /\ snap[e] \in Row \cup Absent /\ Loaded(e) \in Row \cup {NoRow}
  BY PartialFacts DEF ProtocolInv, Shape, ThreadInv, Pulled, Loaded
<1>2. CASE LeftAlone(e) \/ ~Present(snap[e])
  BY <1>1, <1>2, Apart DEF Merge, Written
<1>3. CASE ~LeftAlone(e) /\ Present(snap[e])
  <2>1. snap[e] \in Row /\ DOMAIN snap[e] = {"ver", "edit", "web"}
    BY <1>1, <1>3 DEF Present, Absent, Row
  <2>2. CASE Loaded(e) = NoRow \/ local[e] = NoRow
    <3>1. Merge(e) = snap[e] BY <1>3, <2>2 DEF Merge, Written
    <3> QED BY <2>1, <3>1
  <2>3. CASE Loaded(e) # NoRow /\ local[e] # NoRow
    <3> DEFINE Col(f) == IF snap[e][f] = Loaded(e)[f] THEN local[e][f] ELSE snap[e][f]
    <3>1. Merge(e) = [f \in {"ver", "edit", "web"} |-> Col(f)]
      BY <1>3, <2>1, <2>3 DEF Merge, Written
    <3>2. local[e] \in Row BY <1>1, <2>3
    <3>3. /\ Col("ver") \in Nat /\ Col("edit") \in 0 .. MaxEdits /\ Col("web") \in 0 .. MaxWeb
          /\ Col("edit") = snap[e].edit \/ Col("edit") = local[e].edit
      BY <2>1, <3>2 DEF Row
    <3> HIDE DEF Col
    <3>4. Merge(e) \in Row BY <3>1, <3>3 DEF Row
    <3>5. Merge(e).edit = Col("edit") BY <3>1
    <3> QED BY <2>1, <3>2, <3>3, <3>4, <3>5
  <2> QED BY <2>2, <2>3
<1> QED BY <1>2, <1>3

LEMMA ApplyKeepsRows ==
  ASSUME ProtocolInv, HasSnapshot, NEW next \in {"idle", "push"}, ApplyMerge(next)
  PROVE  ProtocolInv'
<1> DEFINE rows == [e \in Entities |-> Merge(e)]
<1>1. local \in [Entities -> Row \cup {NoRow}] /\ OwnEdits(local) /\ OwnEdits(snap)
  BY DEF ProtocolInv, Shape, EditsInv
<1>2. CASE MergeFails
  <2>1. Finish(local, next) BY <1>2 DEF ApplyMerge
  <2> QED BY <1>1, <2>1, FinishKeepsInv
<1>3. CASE ~MergeFails
  <2>1. Finish(rows, next) BY <1>3 DEF ApplyMerge
  <2>2. rows \in [Entities -> Row \cup {NoRow}] BY <1>3, MergedRow
  <2>3. \A e \in Entities : rows[e] \in Row =>
          \/ snap[e] \in Row /\ rows[e].edit = snap[e].edit
          \/ local[e] \in Row /\ rows[e].edit = local[e].edit
    BY <1>3, MergedRow
  <2> HIDE DEF rows
  <2>4. OwnEdits(rows) BY <1>1, <2>3 DEF OwnEdits
  <2> QED BY <2>1, <2>2, <2>4, FinishKeepsInv
<1> QED BY <1>2, <1>3

LEMMA EngineKeepsInv == ASSUME ProtocolInv, Engine PROVE ProtocolInv'
<1>1. CASE PushChanges BY <1>1, PushKeepsInv
<1>2. CASE NothingToPush BY <1>2, ThreadMovesKeepsInv DEF NothingToPush, merging
<1>3. CASE GiveUp BY <1>3, ThreadMovesKeepsInv DEF GiveUp, merging
<1>4. CASE ReceiveAnswer BY <1>4, ReceiveKeepsInv
<1>5. CASE MarkItem BY <1>5, MarkKeepsInv
<1>6. CASE AdoptVersion BY <1>6, AdoptKeepsInv
<1>7. CASE PushDone BY <1>7, ThreadMovesKeepsInv DEF PushDone, merging
<1>8. CASE PullChanges BY <1>8, FetchKeepsInv DEF PullChanges
<1>9. CASE Bootstrap BY <1>9, FetchKeepsInv DEF Bootstrap
<1>10. CASE Restart BY <1>10, ThreadMovesKeepsInv DEF Restart
<1>11. CASE BeginMerge
  <2>1. HasSnapshot BY <1>11 DEF BeginMerge, HasSnapshot
  <2>2. local \in [Entities -> Row \cup {NoRow}] /\ OwnEdits(local) BY DEF ProtocolInv, Shape, EditsInv
  <2> QED BY <1>11, <2>1, <2>2, ReadKeepsInv, FinishKeepsInv DEF BeginMerge
<1>12. CASE \E e \in Entities : LoadRow(e) BY <1>12, LoadRowKeepsInv
<1>13. CASE ApplyPulledItems \/ ApplyBootstrap
  <2>1. HasSnapshot /\ (ApplyMerge("idle") \/ ApplyMerge("push"))
    BY <1>13 DEF ApplyPulledItems, ApplyBootstrap, HasSnapshot
  <2> QED BY <2>1, ApplyKeepsRows
<1> QED BY <1>1, <1>2, <1>3, <1>4, <1>5, <1>6, <1>7, <1>8, <1>9, <1>10, <1>11, <1>12, <1>13 DEF Engine

(***************************************************************************)
(* The push requests on the server.                                        *)
(***************************************************************************)
LEMMA UnusedFacts ==
  Unused \in Links /\ Unused.stage = "free" /\ DOMAIN Unused.items = {} /\ DOMAIN Unused.results = {}
BY NothingIsPartial DEF Unused, Links, Stages, Absent

LEMMA ArriveKeepsInv == ASSUME ProtocolInv, NEW c \in Conns, Arrive(c) PROVE ProtocolInv'
<1>1. /\ link[c].stage = "sent" /\ link' = [link EXCEPT ![c].stage = "check"]
      /\ UNCHANGED <<com, cur, owner, taken, local, queue, phase, conn, answer, snap, skip, seen, asked>>
  BY DEF Arrive, server, disk, thread, merging
<1>2. link \in [Conns -> Links] /\ "check" \in Stages BY DEF ProtocolInv, Shape, Stages
<1>3. /\ link' \in [Conns -> Links] /\ link'[c].stage = "check" /\ link'[c].items = link[c].items
      /\ link'[c].results = link[c].results /\ \A d \in Conns \ {c} : link'[d] = link[d]
  BY <1>1, <1>2 DEF Links
<1>4. \A d \in Conns : link'[d].items = link[d].items /\ link'[d].results = link[d].results BY <1>3
<1>5. Shape' BY <1>1, <1>3 DEF ProtocolInv, Shape
<1>6. RequestsInv' BY <1>1, <1>3 DEF ProtocolInv, RequestsInv
<1>7. ThreadInv' BY <1>1, <1>4 DEF ProtocolInv, ThreadInv, Merging, HasSnapshot
<1>8. LocksInv' BY <1>1, <1>3 DEF ProtocolInv, LocksInv, Shape
<1>9. StoredInv'
  <2>1. DOMAIN link[c].results = {} BY <1>1 DEF ProtocolInv, RequestsInv
  <2> QED BY <1>1, <1>3, <2>1 DEF ProtocolInv, StoredInv, Outcome, MarkedWasStored
<1>10. EditsInv' BY <1>1, <1>4 DEF ProtocolInv, EditsInv, OwnEdits, OnlyUpdates, HasSnapshot
<1> QED BY <1>5, <1>6, <1>7, <1>8, <1>9, <1>10 DEF ProtocolInv

LEMMA CloseKeepsInv ==
  ASSUME ProtocolInv, NEW c \in Conns, link[c].stage \in {"sent", "answered"}, Close(c)
  PROVE  ProtocolInv'
<1>1. /\ link' = [link EXCEPT ![c] = Unused]
      /\ UNCHANGED <<com, cur, owner, taken, local, queue, phase, conn, answer, snap, skip, seen, asked>>
  BY DEF Close, server, disk, thread, merging
<1>2. link \in [Conns -> Links] BY DEF ProtocolInv, Shape
<1>3. link' \in [Conns -> Links] /\ link'[c] = Unused /\ \A d \in Conns \ {c} : link'[d] = link[d]
  BY <1>1, <1>2, UnusedFacts
<1>4. Shape' BY <1>1, <1>3 DEF ProtocolInv, Shape
<1>5. RequestsInv' BY <1>1, <1>3, UnusedFacts DEF ProtocolInv, RequestsInv
<1>6. ThreadInv' BY <1>1, <1>3, UnusedFacts DEF ProtocolInv, ThreadInv, Merging, HasSnapshot
<1>7. LocksInv'
  <2>1. \A x \in Things : owner[x] # NoConn => owner[x] \in Conns \ {c}
    BY <1>1 DEF ProtocolInv, Shape, LocksInv
  <2> QED BY <1>1, <1>3, <2>1 DEF ProtocolInv, LocksInv
<1>8. StoredInv' BY <1>1, <1>3, UnusedFacts DEF ProtocolInv, StoredInv, Outcome, MarkedWasStored
<1>9. EditsInv' BY <1>1, <1>3, UnusedFacts DEF ProtocolInv, EditsInv, OwnEdits, OnlyUpdates, HasSnapshot
<1> QED BY <1>4, <1>5, <1>6, <1>7, <1>8, <1>9 DEF ProtocolInv

\* The item a request works on is one of the queue's, without a result.
LEMMA DueFacts ==
  ASSUME ProtocolInv, NEW c \in Conns, DOMAIN link[c].results # DOMAIN link[c].items
  PROVE  /\ Due(c) \in DOMAIN link[c].items \ DOMAIN link[c].results
         /\ Due(c) \in DOMAIN queue /\ Due(c) \in Keys /\ Due(c) \in Things
         /\ queue[Due(c)] \in Item /\ link[c].items[Due(c)] \in Nat
         /\ Entity(c) \in Entities /\ Entity(c) \in Things /\ Entity(c) # Due(c)
<1> DEFINE left == DOMAIN link[c].items \ DOMAIN link[c].results
<1>1. link[c].items \in Partial(Keys, Nat) /\ DOMAIN queue \subseteq Keys
  BY QueueFacts DEF ProtocolInv, Shape, Links
<1>2. DOMAIN link[c].results \subseteq DOMAIN link[c].items /\ DOMAIN link[c].items \subseteq DOMAIN queue
  BY DEF ProtocolInv, RequestsInv
<1>3. left \subseteq Nat /\ left # {} BY <1>1, <1>2, KeysAreNat
<1>4. Oldest(left) \in left BY <1>3, OldestIsLeast
<1>5. Due(c) \in left BY <1>4 DEF Due
<1>6. Due(c) \in DOMAIN queue /\ Due(c) \in Keys BY <1>1, <1>2, <1>5
<1>7. queue[Due(c)] \in Item BY <1>6, QueueFacts DEF ProtocolInv, Shape
<1>8. link[c].items[Due(c)] \in Nat BY <1>1, <1>5, PartialFacts
<1>9. Entity(c) \in Entities BY <1>7 DEF Entity, Item
<1> QED BY <1>5, <1>6, <1>7, <1>8, <1>9, Apart

\* Reply adds one result, for the item that is due.
LEMMA ReplyFacts ==
  ASSUME ProtocolInv, NEW c \in Conns, DOMAIN link[c].results # DOMAIN link[c].items,
         NEW r \in Result, Reply(c, r)
  PROVE  /\ link' \in [Conns -> Links] /\ link'[c].stage = "check" /\ link'[c].items = link[c].items
         /\ DOMAIN link'[c].results = DOMAIN link[c].results \cup {Due(c)}
         /\ link'[c].results[Due(c)] = r
         /\ \A k \in DOMAIN link[c].results : link'[c].results[k] = link[c].results[k]
         /\ \A d \in Conns \ {c} : link'[d] = link[d]
<1> DEFINE s == Extend(link[c].results, Due(c), r)
<1>1. link \in [Conns -> Links] /\ "check" \in Stages /\ NoRow \in Absent
  BY DEF ProtocolInv, Shape, Stages, Absent
<1>2. Due(c) \in Keys /\ Due(c) \notin DOMAIN link[c].results BY DueFacts
<1>3. link[c].results \in Partial(Keys, Result) BY <1>1 DEF Links
<1>4. s \in Partial(Keys, Result) BY <1>2, <1>3, ExtendIsPartial
<1>5. /\ DOMAIN s = DOMAIN link[c].results \cup {Due(c)} /\ s[Due(c)] = r
      /\ \A k \in DOMAIN link[c].results : s[k] = link[c].results[k]
  BY <1>2 DEF Extend
<1>6. link' = [link EXCEPT ![c].stage = "check", ![c].load = NoRow, ![c].results = s]
  BY <1>1 DEF Reply
<1> HIDE DEF s
<1>7. /\ link' \in [Conns -> Links] /\ link'[c].stage = "check" /\ link'[c].items = link[c].items
      /\ link'[c].results = s /\ \A d \in Conns \ {c} : link'[d] = link[d]
  BY <1>1, <1>4, <1>6 DEF Links
<1> QED BY <1>5, <1>7

\* A result is added to an answer; the tables stay.
LEMMA AnswerItemKeepsInv ==
  ASSUME ProtocolInv, NEW c \in Conns, DOMAIN link[c].results # DOMAIN link[c].items,
         link[c].stage \in {"check", "apply"},
         NEW r \in Result, Reply(c, r), UNCHANGED <<server, disk, thread>>,
         r.status # "error" => com[Due(c)] # NoRow \/ owner[Due(c)] = c,
         r.status # "conflict"
  PROVE  ProtocolInv'
<1>1. UNCHANGED <<com, cur, owner, taken, local, queue, phase, conn, answer, snap, skip, seen, asked>>
  BY DEF server, disk, thread, merging
<1> DEFINE k == Due(c)
<1>2. k \in DOMAIN link[c].items \ DOMAIN link[c].results /\ k \in DOMAIN queue /\ k \in Keys
  BY DueFacts
<1>3. /\ link' \in [Conns -> Links] /\ link'[c].stage = "check" /\ link'[c].items = link[c].items
      /\ DOMAIN link'[c].results = DOMAIN link[c].results \cup {k} /\ link'[c].results[k] = r
      /\ \A j \in DOMAIN link[c].results : link'[c].results[j] = link[c].results[j]
      /\ \A d \in Conns \ {c} : link'[d] = link[d]
  BY ReplyFacts
<1> HIDE DEF k
<1>4. Shape' BY <1>1, <1>3 DEF ProtocolInv, Shape
<1>5. RequestsInv' BY <1>1, <1>2, <1>3 DEF ProtocolInv, RequestsInv
<1>6. \A d \in Conns : link'[d].items = link[d].items BY <1>3
<1>7. ThreadInv' BY <1>1, <1>6 DEF ProtocolInv, ThreadInv, Merging, HasSnapshot
<1>8. LocksInv' BY <1>1, <1>3 DEF ProtocolInv, LocksInv, Shape
<1>9. StoredInv'
  <2>1. r.status # "error" => com[k] # NoRow \/ owner[k] = c BY DEF k
  <2> QED BY <1>1, <1>3, <2>1 DEF ProtocolInv, StoredInv, Outcome, MarkedWasStored
<1>10. EditsInv' BY <1>1, <1>3 DEF ProtocolInv, EditsInv, OwnEdits, OnlyUpdates, HasSnapshot
<1> QED BY <1>4, <1>5, <1>7, <1>8, <1>9, <1>10 DEF ProtocolInv

LEMMA LoadKeepsInv ==
  ASSUME ProtocolInv, NEW c \in Conns, DOMAIN link[c].results # DOMAIN link[c].items,
         link[c].stage = "check", LoadEntity(c), UNCHANGED <<server, disk, thread>>
  PROVE  ProtocolInv'
<1>1. UNCHANGED <<com, cur, owner, taken, local, queue, phase, conn, answer, snap, skip, seen, asked>>
  BY DEF server, disk, thread, merging
<1> DEFINE row == Reads(c, Entity(c))
<1>2. row \in Row \cup Absent BY DueFacts DEF Reads, ProtocolInv, Shape, Tables
<1>3. link \in [Conns -> Links] /\ "apply" \in Stages BY DEF ProtocolInv, Shape, Stages
<1>4. link' = [link EXCEPT ![c].stage = "apply", ![c].load = row] BY DEF LoadEntity
<1> HIDE DEF row
<1>5. /\ link' \in [Conns -> Links] /\ link'[c].stage = "apply" /\ link'[c].items = link[c].items
      /\ link'[c].results = link[c].results /\ \A d \in Conns \ {c} : link'[d] = link[d]
  BY <1>2, <1>3, <1>4 DEF Links
<1>6. \A d \in Conns : link'[d].items = link[d].items /\ link'[d].results = link[d].results BY <1>5
<1>7. Shape' BY <1>1, <1>5 DEF ProtocolInv, Shape
<1>8. RequestsInv' BY <1>1, <1>5 DEF ProtocolInv, RequestsInv
<1>9. ThreadInv' BY <1>1, <1>6 DEF ProtocolInv, ThreadInv, Merging, HasSnapshot
<1>10. LocksInv' BY <1>1, <1>5 DEF ProtocolInv, LocksInv, Shape
<1>11. StoredInv' BY <1>1, <1>5 DEF ProtocolInv, StoredInv, Outcome, MarkedWasStored
<1>12. EditsInv' BY <1>1, <1>6 DEF ProtocolInv, EditsInv, OwnEdits, OnlyUpdates, HasSnapshot
<1> QED BY <1>7, <1>8, <1>9, <1>10, <1>11, <1>12 DEF ProtocolInv

LEMMA CheckKeepsInv == ASSUME ProtocolInv, NEW c \in Conns, CheckItem(c) PROVE ProtocolInv'
<1>1. /\ link[c].stage = "check" /\ DOMAIN link[c].results # DOMAIN link[c].items
      /\ Duplicate(c) \/ LoadEntity(c)
      /\ UNCHANGED <<server, disk, thread>>
  BY DEF CheckItem
<1>2. CASE LoadEntity(c) BY <1>1, <1>2, LoadKeepsInv
<1>3. CASE Duplicate(c)
  <2> DEFINE k == Due(c)  r == [status |-> "ok", ver |-> Reads(c, k).ver]
  <2>1. Reads(c, k) # NoRow /\ Reply(c, r) BY <1>3 DEF Duplicate
  <2>2. k \in Keys BY <1>1, DueFacts
  <2>3. com[k] \in Result \cup {NoRow} /\ cur[k] \in Result \cup {NoRow}
    BY <2>2 DEF ProtocolInv, Shape, Tables
  <2>4. Reads(c, k) \in Result /\ (com[k] # NoRow \/ owner[k] = c) BY <2>1, <2>3 DEF Reads
  <2>5. r \in Result /\ r.status = "ok" BY <2>4 DEF Result
  <2> HIDE DEF r
  <2> QED BY <1>1, <2>1, <2>4, <2>5, AnswerItemKeepsInv
<1> QED BY <1>1, <1>2, <1>3

LEMMA FailKeepsInv == ASSUME ProtocolInv, NEW c \in Conns, FailItem(c) PROVE ProtocolInv'
<1> DEFINE r == [status |-> "error", ver |-> 0]
<1>1. link[c].stage = "apply" /\ Reply(c, r) /\ UNCHANGED <<server, disk, thread>> BY DEF FailItem
<1>2. r \in Result /\ r.status = "error" BY DEF Result
<1>3. DOMAIN link[c].results # DOMAIN link[c].items BY <1>1 DEF ProtocolInv, RequestsInv
<1> HIDE DEF r
<1> QED BY <1>1, <1>2, <1>3, AnswerItemKeepsInv

\* What a handler writes bears the number of the item, and only the handler of
\* an update answers with a conflict.
LEMMA EffectFacts ==
  ASSUME ProtocolInv, NEW c \in Conns, DOMAIN link[c].results # DOMAIN link[c].items
  PROVE  /\ Effect(c).result \in Result
         /\ Effect(c).result.status = "conflict" => queue[Due(c)].op = "UPDATE"
         /\ Effect(c).write =>
              /\ Effect(c).result.status = "ok"
              /\ IF queue[Due(c)].op = "DELETE" THEN Effect(c).row = Gone
                 ELSE Effect(c).row \in Row /\ Effect(c).row.edit = Due(c)
<1> DEFINE k == Due(c)  e == Entity(c)  old == link[c].load
<1>1. /\ k \in Keys /\ queue[k] \in Item /\ link[c].items[k] \in Nat /\ e \in Entities
  BY DueFacts
<1>2. old \in Row \cup Absent /\ cur[e] \in Row \cup Absent
  BY <1>1 DEF ProtocolInv, Shape, Links, Tables
<1>3. queue[k].op \in Ops /\ k \in 0 .. MaxEdits BY <1>1, EditNumbers DEF Item
<1>4. CASE queue[k].op = "CREATE"
  <2>1. Effect(c) = Insert(c) BY <1>4 DEF Effect
  <2>2. [ver |-> 1, edit |-> k, web |-> 0] \in Row /\ Ok(1) \in Result /\ Ok(1).status = "ok"
    BY <1>3, BoundAssumption DEF Row, Result, Ok
  <2> QED BY <1>4, <2>1, <2>2 DEF Insert
<1>5. CASE queue[k].op = "UPDATE"
  <2>1. Effect(c) = Update(c) BY <1>5 DEF Effect
  <2>2. CASE ~Present(old)
    <3>1. [status |-> "error", ver |-> 0] \in Result BY DEF Result
    <3> QED BY <1>5, <2>1, <2>2, <3>1 DEF Update
  <2>3. CASE Present(old)
    <3>1. old \in Row /\ old.ver \in Nat /\ old.ver + 1 \in Nat BY <1>2, <2>3, RowFacts DEF Present, Absent
    <3> DEFINE web == IF Present(cur[e]) THEN cur[e].web ELSE 0
    <3>2. web \in 0 .. MaxWeb BY <1>2, RowFacts, BoundAssumption DEF Present, Absent
    <3>3. /\ [status |-> "conflict", ver |-> old.ver] \in Result
          /\ Ok(old.ver + 1) \in Result /\ Ok(old.ver + 1).status = "ok"
      BY <3>1 DEF Result, Ok
    <3>4. [ver |-> old.ver + 1, edit |-> k, web |-> web] \in Row BY <1>3, <3>1, <3>2 DEF Row
    <3>5. CASE old.ver > link[c].items[k] BY <1>5, <2>1, <2>3, <3>3, <3>5 DEF Update
    <3>6. CASE ~(old.ver > link[c].items[k])
      <4>1. Update(c) = [write |-> TRUE, result |-> Ok(old.ver + 1),
                         row |-> [ver |-> old.ver + 1, edit |-> k, web |-> web]]
        BY <2>3, <3>6 DEF Update
      <4> QED BY <1>5, <2>1, <3>3, <3>4, <4>1
    <3> QED BY <3>5, <3>6
  <2> QED BY <2>2, <2>3
<1>6. CASE queue[k].op = "DELETE"
  <2>1. Effect(c) = Delete(c) BY <1>6 DEF Effect
  <2>2. Ok(0) \in Result /\ Ok(0).status = "ok" BY DEF Ok, Result
  <2> QED BY <1>6, <2>1, <2>2 DEF Delete
<1> QED BY <1>3, <1>4, <1>5, <1>6 DEF Ops

\* The item a request stores is new, for this request and for every other.
LEMMA StoredIsNew ==
  ASSUME ProtocolInv, NEW c \in Conns, ApplyItem(c)
  PROVE  /\ DOMAIN link[c].results # DOMAIN link[c].items
         /\ owner[Due(c)] = NoConn /\ cur[Due(c)] = NoRow /\ com[Due(c)] = NoRow
<1>1. DOMAIN link[c].results # DOMAIN link[c].items BY DEF ApplyItem, ProtocolInv, RequestsInv
<1>2. Due(c) \in Keys BY <1>1, DueFacts
<1>3. cur[Due(c)] = NoRow BY DEF ApplyItem, Raises
<1>4. owner[Due(c)] = NoConn BY <1>2, <1>3 DEF ProtocolInv, LocksInv
<1> QED BY <1>1, <1>2, <1>3, <1>4, Apart DEF ProtocolInv, LocksInv

LEMMA ApplyKeepsInv == ASSUME ProtocolInv, NEW c \in Conns, ApplyItem(c) PROVE ProtocolInv'
<1> DEFINE k == Due(c)  e == Entity(c)  w == Effect(c).write  row == Effect(c).row
           r == Effect(c).result
<1>1. /\ link[c].stage = "apply" /\ Reply(c, r)
      /\ cur' = [cur EXCEPT ![k] = r, ![e] = IF w THEN row ELSE @]
      /\ owner' = [owner EXCEPT ![k] = c, ![e] = IF w THEN c ELSE @]
      /\ UNCHANGED <<com, taken, local, queue, phase, conn, answer, snap, skip, seen, asked>>
  BY DEF ApplyItem, disk, thread, merging
<1>2. /\ DOMAIN link[c].results # DOMAIN link[c].items
      /\ owner[k] = NoConn /\ cur[k] = NoRow /\ com[k] = NoRow
  BY StoredIsNew
<1>3. /\ k \in DOMAIN link[c].items \ DOMAIN link[c].results /\ k \in DOMAIN queue /\ k \in Keys
      /\ k \in Things /\ e \in Entities /\ e \in Things /\ e # k /\ queue[k].ent = e
  BY <1>2, DueFacts DEF Entity
<1>4. /\ r \in Result /\ (r.status = "conflict" => queue[k].op = "UPDATE")
      /\ w => row = Gone \/ (row \in Row /\ row.edit = k)
  BY <1>2, EffectFacts
<1>5. /\ link' \in [Conns -> Links] /\ link'[c].stage = "check" /\ link'[c].items = link[c].items
      /\ DOMAIN link'[c].results = DOMAIN link[c].results \cup {k} /\ link'[c].results[k] = r
      /\ \A j \in DOMAIN link[c].results : link'[c].results[j] = link[c].results[j]
      /\ \A d \in Conns \ {c} : link'[d] = link[d]
  BY <1>1, <1>2, <1>4, ReplyFacts
<1> HIDE DEF k, e, w, row, r
<1>6. /\ cur \in [Things -> Row \cup Absent \cup Result] /\ owner \in [Things -> Conns \cup {NoConn}]
      /\ \A x \in Entities : x \in Things /\ x # k
      /\ \A x \in Keys : x \in Things /\ x # e
      /\ r # NoRow /\ c # NoConn
  BY <1>3, <1>4, Apart DEF ProtocolInv, Shape, Tables
<1>7. /\ cur'[k] = r /\ owner'[k] = c
      /\ w => cur'[e] = row /\ owner'[e] = c
      /\ ~w => cur'[e] = cur[e] /\ owner'[e] = owner[e]
      /\ \A x \in Things \ {k, e} : cur'[x] = cur[x] /\ owner'[x] = owner[x]
  BY <1>1, <1>3, <1>6
<1>8. Shape'
  <2>1. cur' \in [Things -> Row \cup Absent \cup Result] BY <1>1, <1>3, <1>4, <1>6 DEF Absent
  <2>2. /\ \A x \in Entities : cur'[x] \in Row \cup Absent
        /\ \A x \in Keys : cur'[x] \in Result \cup {NoRow}
    BY <1>3, <1>4, <1>6, <1>7 DEF ProtocolInv, Shape, Tables, Absent
  <2>3. owner' \in [Things -> Conns \cup {NoConn}] BY <1>1, <1>3, <1>6
  <2> QED BY <1>1, <1>5, <2>1, <2>2, <2>3 DEF ProtocolInv, Shape, Tables
<1>9. RequestsInv' BY <1>1, <1>3, <1>5 DEF ProtocolInv, RequestsInv
<1>10. \A d \in Conns : link'[d].items = link[d].items BY <1>5
<1>11. ThreadInv' BY <1>1, <1>10 DEF ProtocolInv, ThreadInv, Merging, HasSnapshot
<1>12. LocksInv'
  <2>1. \A x \in Things : owner'[x] = NoConn => cur'[x] = com'[x]
    BY <1>1, <1>3, <1>6, <1>7 DEF ProtocolInv, LocksInv
  <2>2. \A x \in Things : owner'[x] # NoConn => link'[owner'[x]].stage \in {"check", "apply"}
    <3> SUFFICES ASSUME NEW x \in Things, owner'[x] # NoConn
                 PROVE  link'[owner'[x]].stage \in {"check", "apply"}
      OBVIOUS
    <3>1. CASE owner'[x] = c BY <1>5, <3>1
    <3>2. CASE owner'[x] # c
      <4>1. owner'[x] = owner[x] BY <1>7, <3>2
      <4>2. owner[x] \in Conns \ {c} BY <1>6, <3>2, <4>1
      <4> QED BY <1>5, <4>1, <4>2 DEF ProtocolInv, LocksInv
    <3> QED BY <3>1, <3>2
  <2>3. \A j \in Keys : owner'[j] # NoConn => com'[j] = NoRow /\ cur'[j] # NoRow
    BY <1>1, <1>2, <1>6, <1>7 DEF ProtocolInv, LocksInv
  <2>4. ASSUME NEW x \in Entities, owner'[x] # NoConn
        PROVE  cur'[x] = Gone \/ (cur'[x] \in Row /\ cur'[x].edit \in Keys
                                 /\ owner'[cur'[x].edit] = owner'[x])
    <3>1. CASE x = e /\ w BY <1>3, <1>4, <1>7, <3>1
    <3>2. CASE ~(x = e /\ w)
      <4>1. cur'[x] = cur[x] /\ owner'[x] = owner[x] BY <1>6, <1>7, <3>2
      <4>2. cur[x] = Gone \/ (cur[x] \in Row /\ cur[x].edit \in Keys /\ owner[cur[x].edit] = owner[x])
        BY <2>4, <4>1 DEF ProtocolInv, LocksInv
      <4>3. ASSUME NEW j \in Keys, owner[j] = owner[x] PROVE owner'[j] = owner[j]
        BY <1>2, <1>6, <1>7, <2>4, <4>1, <4>3
      <4> QED BY <4>1, <4>2, <4>3
    <3> QED BY <3>1, <3>2
  <2> QED BY <2>1, <2>2, <2>3, <2>4 DEF LocksInv
<1>13. StoredInv'
  <2>1. ASSUME NEW d \in Conns, NEW j \in Keys, Outcome(link'[d].results, j)
        PROVE  com'[j] # NoRow \/ (link'[d].stage # "answered" /\ owner'[j] = d)
    <3>1. CASE d = c /\ j = k BY <1>5, <1>7, <3>1
    <3>2. CASE ~(d = c /\ j = k)
      <4>1. Outcome(link[d].results, j) BY <1>5, <2>1, <3>2 DEF Outcome
      <4>2. com[j] # NoRow \/ (link[d].stage # "answered" /\ owner[j] = d)
        BY <4>1 DEF ProtocolInv, StoredInv
      <4>3. d # NoConn BY Apart
      <4> QED BY <1>1, <1>2, <1>5, <1>6, <1>7, <4>2, <4>3
    <3> QED BY <3>1, <3>2
  <2> QED BY <1>1, <2>1 DEF ProtocolInv, StoredInv, Outcome, MarkedWasStored
<1>14. EditsInv'
  <2>1. OwnEdits(cur)'
    <3> SUFFICES ASSUME NEW x \in Entities, cur'[x] \in Row, cur'[x].edit # Reverted
                 PROVE  cur'[x].edit \in DOMAIN queue' /\ queue'[cur'[x].edit].ent = x
      BY DEF OwnEdits
    <3>1. CASE x = e /\ w BY <1>1, <1>3, <1>4, <1>7, <3>1, Apart
    <3>2. CASE ~(x = e /\ w)
      <4>1. cur'[x] = cur[x] BY <1>6, <1>7, <3>2
      <4> QED BY <1>1, <4>1 DEF ProtocolInv, EditsInv, OwnEdits
    <3> QED BY <3>1, <3>2
  <2>2. \A d \in Conns : OnlyUpdates(link[d].results)'
    BY <1>1, <1>4, <1>5 DEF ProtocolInv, EditsInv, OnlyUpdates
  <2> QED BY <1>1, <2>1, <2>2 DEF ProtocolInv, EditsInv, OwnEdits, OnlyUpdates, HasSnapshot
<1> QED BY <1>8, <1>9, <1>11, <1>12, <1>13, <1>14 DEF ProtocolInv

\* A request ends: what it owned is committed, or rolled back.
LEMMA EndKeepsInv ==
  ASSUME ProtocolInv, NEW c \in Conns, NEW l \in Links, link' = [link EXCEPT ![c] = l], Release(c),
         l.stage \in {"free", "answered"}, DOMAIN l.results \subseteq DOMAIN l.items,
         l.stage = "free" => l = Unused,
         l.items \in {link[c].items, Nothing},
         l.results \in {link[c].results, Nothing},
         \/ com' = [x \in Things |-> IF owner[x] = c THEN cur[x] ELSE com[x]] /\ UNCHANGED cur
         \/ /\ cur' = [x \in Things |-> IF owner[x] = c THEN com[x] ELSE cur[x]] /\ UNCHANGED com
            /\ l = Unused
  PROVE  ProtocolInv'
<1>1. /\ owner' = [x \in Things |-> IF owner[x] = c THEN NoConn ELSE owner[x]]
      /\ UNCHANGED <<taken, local, queue, phase, conn, answer, snap, skip, seen, asked>>
  BY DEF Release, disk, thread, merging
<1>2. /\ link \in [Conns -> Links] /\ com \in Tables /\ cur \in Tables
      /\ owner \in [Things -> Conns \cup {NoConn}]
  BY DEF ProtocolInv, Shape
<1>3. link' \in [Conns -> Links] /\ link'[c] = l /\ \A d \in Conns \ {c} : link'[d] = link[d]
  BY <1>2
<1>4. \A x \in Things : owner'[x] = IF owner[x] = c THEN NoConn ELSE owner[x] BY <1>1
<1>5. \A x \in Things : /\ owner[x] # c => com'[x] = com[x] /\ cur'[x] = cur[x]
                        /\ owner[x] = c => com'[x] = cur'[x] /\ com'[x] \in {com[x], cur[x]}
  OBVIOUS
<1>6. com' \in Tables /\ cur' \in Tables
  <2>2. /\ com' \in [Things -> Row \cup Absent \cup Result] /\ cur' \in [Things -> Row \cup Absent \cup Result]
    BY <1>2 DEF Tables
  <2>3. \A x \in Things : com'[x] \in {com[x], cur[x]} /\ cur'[x] \in {com[x], cur[x]} BY <1>5
  <2>4. ASSUME NEW e \in Entities PROVE com'[e] \in Row \cup Absent /\ cur'[e] \in Row \cup Absent
    <3>1. com[e] \in Row \cup Absent /\ cur[e] \in Row \cup Absent BY <1>2 DEF Tables
    <3>2. e \in Things BY Apart
    <3>3. com'[e] \in {com[e], cur[e]} /\ cur'[e] \in {com[e], cur[e]} BY <2>3, <3>2
    <3> QED BY <3>1, <3>3
  <2>5. ASSUME NEW k \in Keys PROVE com'[k] \in Result \cup {NoRow} /\ cur'[k] \in Result \cup {NoRow}
    <3>1. com[k] \in Result \cup {NoRow} /\ cur[k] \in Result \cup {NoRow} BY <1>2 DEF Tables
    <3>2. k \in Things BY Apart
    <3>3. com'[k] \in {com[k], cur[k]} /\ cur'[k] \in {com[k], cur[k]} BY <2>3, <3>2
    <3> QED BY <3>1, <3>3
  <2> QED BY <2>2, <2>4, <2>5 DEF Tables
<1>7. owner' \in [Things -> Conns \cup {NoConn}] BY <1>1, <1>2
<1>8. Shape' BY <1>1, <1>3, <1>6, <1>7 DEF ProtocolInv, Shape
<1>9. DOMAIN Nothing = {} BY DEF Nothing
<1>10. RequestsInv' BY <1>1, <1>3, <1>9, UnusedFacts DEF ProtocolInv, RequestsInv
<1>11. \A d \in Conns : DOMAIN link'[d].items = {} \/ link'[d].items = link[d].items
  BY <1>3, <1>9
<1>12. ThreadInv' BY <1>1, <1>11 DEF ProtocolInv, ThreadInv, Merging, HasSnapshot
<1>13. LocksInv'
  <2>1. \A x \in Things : owner'[x] = NoConn => cur'[x] = com'[x]
    BY <1>4, <1>5 DEF ProtocolInv, LocksInv
  <2>2. \A x \in Things : owner'[x] # NoConn => owner'[x] = owner[x] /\ owner[x] \in Conns \ {c}
    BY <1>2, <1>4
  <2>3. \A x \in Things : owner'[x] # NoConn => link'[owner'[x]].stage \in {"check", "apply"}
    BY <1>3, <2>2 DEF ProtocolInv, LocksInv
  <2>4. \A k \in Keys : owner'[k] # NoConn => com'[k] = NoRow /\ cur'[k] # NoRow
    BY <1>5, <2>2, Apart DEF ProtocolInv, LocksInv
  <2>5. ASSUME NEW e \in Entities, owner'[e] # NoConn
        PROVE  cur'[e] = Gone \/ (cur'[e] \in Row /\ cur'[e].edit \in Keys
                                 /\ owner'[cur'[e].edit] = owner'[e])
    <3>1. e \in Things /\ owner'[e] = owner[e] /\ owner[e] \in Conns \ {c} BY <2>2, <2>5, Apart
    <3>2. cur'[e] = cur[e] BY <1>5, <3>1
    <3>3. cur[e] = Gone \/ (cur[e] \in Row /\ cur[e].edit \in Keys /\ owner[cur[e].edit] = owner[e])
      BY <2>5, <3>1 DEF ProtocolInv, LocksInv
    <3>4. \A j \in Keys : owner[j] = owner[e] => owner'[j] = owner[j] BY <1>4, <3>1, Apart
    <3> QED BY <3>1, <3>2, <3>3, <3>4
  <2> QED BY <2>1, <2>3, <2>4, <2>5 DEF LocksInv
<1>14. \A k \in Keys : com[k] # NoRow => com'[k] # NoRow
  <2> SUFFICES ASSUME NEW k \in Keys, com[k] # NoRow PROVE com'[k] # NoRow OBVIOUS
  <2>1. k \in Things BY Apart
  <2>2. owner[k] = NoConn BY DEF ProtocolInv, LocksInv
  <2> QED BY <1>5, <2>1, <2>2, Apart
<1>15. StoredInv'
  <2>1. ASSUME NEW d \in Conns, NEW k \in Keys, Outcome(link'[d].results, k)
        PROVE  com'[k] # NoRow \/ (link'[d].stage # "answered" /\ owner'[k] = d)
    <3>0. k \in Things BY Apart
    <3>1. CASE d = c
      <4>1. l.stage = "answered" /\ l.results = link[c].results
        BY <1>3, <1>9, <2>1, <3>1, UnusedFacts DEF Outcome
      <4>2. com[k] # NoRow \/ owner[k] = c
        BY <1>3, <2>1, <3>1, <4>1 DEF ProtocolInv, StoredInv
      <4>3. owner[k] = c => com'[k] # NoRow
        BY <3>0, <4>1, UnusedFacts, Apart DEF ProtocolInv, LocksInv
      <4> QED BY <1>14, <4>2, <4>3
    <3>2. CASE d # c
      <4>1. com[k] # NoRow \/ (link[d].stage # "answered" /\ owner[k] = d)
        BY <1>3, <2>1, <3>2 DEF ProtocolInv, StoredInv
      <4> QED BY <1>3, <1>4, <1>14, <3>0, <3>2, <4>1
    <3> QED BY <3>1, <3>2
  <2>2. DOMAIN queue \subseteq Keys /\ DOMAIN answer \subseteq Keys
    BY QueueFacts DEF ProtocolInv, Shape, ThreadInv
  <2> QED BY <1>1, <1>14, <2>1, <2>2 DEF ProtocolInv, StoredInv, Outcome, MarkedWasStored
<1>16. EditsInv'
  <2>1. \A e \in Entities : com'[e] \in {com[e], cur[e]} /\ cur'[e] \in {com[e], cur[e]}
    BY <1>5, Apart
  <2>2. OwnEdits(com)' /\ OwnEdits(cur)' BY <1>1, <2>1 DEF ProtocolInv, EditsInv, OwnEdits
  <2>3. \A d \in Conns : OnlyUpdates(link[d].results)'
    BY <1>1, <1>3, <1>9 DEF ProtocolInv, EditsInv, OnlyUpdates
  <2> QED BY <1>1, <2>2, <2>3 DEF ProtocolInv, EditsInv, OwnEdits, OnlyUpdates, HasSnapshot
<1> QED BY <1>8, <1>10, <1>12, <1>13, <1>15, <1>16 DEF ProtocolInv

LEMMA CommitKeepsInv == ASSUME ProtocolInv, NEW c \in Conns, CommitPush(c) PROVE ProtocolInv'
<1> DEFINE l == [link[c] EXCEPT !.stage = "answered"]
<1>1. link \in [Conns -> Links] /\ "answered" \in Stages BY DEF ProtocolInv, Shape, Stages
<1>2. /\ l \in Links /\ l.stage = "answered" /\ l.items = link[c].items /\ l.results = link[c].results
  BY <1>1 DEF Links
<1>3. /\ link' = [link EXCEPT ![c] = l] /\ Release(c) /\ UNCHANGED cur
      /\ com' = [x \in Things |-> IF owner[x] = c THEN cur[x] ELSE com[x]]
  BY DEF CommitPush
<1>4. DOMAIN link[c].results \subseteq DOMAIN link[c].items BY DEF ProtocolInv, RequestsInv
<1> HIDE DEF l
<1> QED BY <1>2, <1>3, <1>4, EndKeepsInv

LEMMA AbortKeepsInv == ASSUME ProtocolInv, NEW c \in Conns, AbortPush(c) PROVE ProtocolInv'
<1>1. /\ link' = [link EXCEPT ![c] = Unused] /\ Release(c) /\ UNCHANGED com
      /\ cur' = [x \in Things |-> IF owner[x] = c THEN com[x] ELSE cur[x]]
  BY DEF AbortPush
<1>2. Unused.items = Nothing /\ Unused.results = Nothing BY DEF Unused
<1> QED BY <1>1, <1>2, UnusedFacts, EndKeepsInv

LEMMA ServeKeepsInv == ASSUME ProtocolInv, NEW c \in Conns, Serve(c) PROVE ProtocolInv'
<1>1. CASE Arrive(c) BY <1>1, ArriveKeepsInv
<1>2. CASE Lose(c) BY <1>2, CloseKeepsInv DEF Lose
<1>3. CASE Discard(c) BY <1>3, CloseKeepsInv DEF Discard
<1>4. CASE CheckItem(c) BY <1>4, CheckKeepsInv
<1>5. CASE ApplyItem(c) BY <1>5, ApplyKeepsInv
<1>6. CASE FailItem(c) BY <1>6, FailKeepsInv
<1>7. CASE CommitPush(c) BY <1>7, CommitKeepsInv
<1>8. CASE AbortPush(c) BY <1>8, AbortKeepsInv
<1> QED BY <1>1, <1>2, <1>3, <1>4, <1>5, <1>6, <1>7, <1>8 DEF Serve

(***************************************************************************)
(* The other users.                                                        *)
(***************************************************************************)
\* Others write rows no request owns, and leave their edit number alone.
LEMMA WriteKeepsInv ==
  ASSUME ProtocolInv, NEW e \in Entities, NEW row \in Row \cup {Gone}, WebWrite(e, row),
         row \in Row => row.edit = com[e].edit
  PROVE  ProtocolInv'
<1>1. /\ com[e] \in Row /\ owner[e] = NoConn /\ e \in Things
      /\ com' = [com EXCEPT ![e] = row] /\ cur' = [cur EXCEPT ![e] = row]
      /\ UNCHANGED <<owner, taken, link, local, queue, phase, conn, answer, snap, skip, seen, asked>>
  BY Apart DEF WebWrite, Present, ProtocolInv, Shape, Tables, Absent, disk, thread, merging
<1>2. com \in Tables /\ cur \in Tables BY DEF ProtocolInv, Shape
<1>3. /\ com'[e] = row /\ cur'[e] = row
      /\ \A x \in Things \ {e} : com'[x] = com[x] /\ cur'[x] = cur[x]
  BY <1>1, <1>2 DEF Tables
<1>4. com' \in Tables /\ cur' \in Tables
  <2>1. /\ com' \in [Things -> Row \cup Absent \cup Result] /\ cur' \in [Things -> Row \cup Absent \cup Result]
    BY <1>1, <1>2 DEF Tables, Absent
  <2>2. \A x \in Entities : com'[x] \in Row \cup Absent /\ cur'[x] \in Row \cup Absent
    BY <1>2, <1>3, Apart DEF Tables, Absent
  <2>3. \A k \in Keys : com'[k] \in Result \cup {NoRow} /\ cur'[k] \in Result \cup {NoRow}
    BY <1>2, <1>3, Apart DEF Tables
  <2> QED BY <2>1, <2>2, <2>3 DEF Tables
<1>5. \A k \in Keys : com'[k] = com[k] /\ cur'[k] = cur[k] BY <1>3, Apart
<1>6. Shape' BY <1>1, <1>4 DEF ProtocolInv, Shape
<1>7. RequestsInv' /\ ThreadInv' BY <1>1 DEF ProtocolInv, RequestsInv, ThreadInv, Merging, HasSnapshot
<1>8. LocksInv'
  <2>1. \A x \in Things : owner'[x] = NoConn => cur'[x] = com'[x]
    BY <1>1, <1>3 DEF ProtocolInv, LocksInv
  <2>2. \A x \in Entities : owner'[x] # NoConn => cur'[x] = cur[x] BY <1>1, <1>3, Apart
  <2> QED BY <1>1, <1>5, <2>1, <2>2 DEF ProtocolInv, LocksInv
<1>9. StoredInv'
  <2>1. DOMAIN queue \subseteq Keys BY QueueFacts DEF ProtocolInv, Shape
  <2> QED BY <1>1, <1>5, <2>1 DEF ProtocolInv, StoredInv, Outcome, MarkedWasStored
<1>10. EditsInv'
  <2>1. OwnEdits(com)' /\ OwnEdits(cur)'
    BY <1>1, <1>3, Apart DEF ProtocolInv, EditsInv, OwnEdits
  <2> QED BY <1>1, <2>1 DEF ProtocolInv, EditsInv, OwnEdits, OnlyUpdates, HasSnapshot
<1> QED BY <1>6, <1>7, <1>8, <1>9, <1>10 DEF ProtocolInv

LEMMA WebKeepsInv == ASSUME ProtocolInv, NEW e \in Entities, Web(e) PROVE ProtocolInv'
<1>1. CASE WebUpdate(e)
  <2> DEFINE r == [com[e] EXCEPT !.ver = @ + 1, !.web = @ + 1]
  <2>1. com[e] \in Row /\ com[e].web < MaxWeb /\ WebWrite(e, r)
    BY <1>1 DEF WebUpdate, Present, ProtocolInv, Shape, Tables, Absent
  <2>2. com[e].ver + 1 \in Nat /\ com[e].web + 1 \in 0 .. MaxWeb
    BY <2>1, RowFacts, BoundAssumption
  <2>3. r \in Row /\ r.edit = com[e].edit BY <2>1, <2>2 DEF Row
  <2> HIDE DEF r
  <2> QED BY <2>1, <2>3, WriteKeepsInv
<1>2. CASE WebDelete(e) BY <1>2, WriteKeepsInv, Apart DEF WebDelete
<1>3. CASE WebTake(e)
  <2>1. /\ UNCHANGED <<com, cur, owner, link, local, queue, phase, conn, answer, snap, skip, seen, asked>>
        /\ taken' \subseteq Entities
    BY <1>3 DEF WebTake, disk, thread, merging, ProtocolInv, Shape
  <2> QED BY <2>1 DEF ProtocolInv, Shape, RequestsInv, ThreadInv, LocksInv, StoredInv, Outcome,
                       MarkedWasStored, EditsInv, OwnEdits, OnlyUpdates, Merging, HasSnapshot
<1> QED BY <1>1, <1>2, <1>3 DEF Web

LEMMA NextKeepsInv == ProtocolInv /\ [Next]_vars => ProtocolInv'
<1> SUFFICES ASSUME ProtocolInv, [Next]_vars PROVE ProtocolInv' OBVIOUS
<1>1. CASE Engine BY <1>1, EngineKeepsInv
<1>2. CASE \E e \in Entities : User(e) BY <1>2, UserKeepsInv
<1>3. CASE \E e \in Entities : Web(e) BY <1>3, WebKeepsInv
<1>4. CASE \E c \in Conns : Serve(c) BY <1>4, ServeKeepsInv
<1>5. CASE UNCHANGED vars
  BY <1>5 DEF vars, server, disk, thread, merging, ProtocolInv, Shape, RequestsInv, ThreadInv, LocksInv,
              StoredInv, Outcome, MarkedWasStored, EditsInv, OwnEdits, OnlyUpdates, Merging, HasSnapshot
<1> QED BY <1>1, <1>2, <1>3, <1>4, <1>5 DEF Next

\* What the locks of process_push, the idempotency records, the queue and the
\* sync thread have to do with one another holds in every reachable state.
THEOREM ProtocolInvHolds == Spec => []ProtocolInv
BY InitInv, NextKeepsInv, PTL DEF Spec

\* Rows, stored results, queue items and requests keep the types of their models
\* on both sides, for any number of entities, edits and requests.
THEOREM TypeCorrect == Spec => []TypeOK
<1>1. ProtocolInv => TypeOK
  <2> SUFFICES ASSUME ProtocolInv PROVE TypeOK OBVIOUS
  <2>1. ASSUME NEW c \in Conns PROVE LinkOK(link[c])
    <3>1. link[c] \in Links /\ DOMAIN link[c].results \subseteq DOMAIN link[c].items
      BY DEF ProtocolInv, Shape, RequestsInv
    <3>2. link[c].items \in Partial(Keys, Nat) /\ link[c].results \in Partial(Keys, Result)
      BY <3>1 DEF Links
    <3> QED BY <3>1, <3>2, PartialFacts DEF Links, LinkOK
  <2>2. \A k \in DOMAIN answer : answer[k] \in Result BY PartialFacts DEF ProtocolInv, Shape
  <2>3. snap # NoRow => \A e \in Entities : snap[e] \in Row \cup Absent
    BY DEF ProtocolInv, Shape, Pulled
  <2>4. /\ DOMAIN seen \subseteq Entities /\ \A e \in DOMAIN seen : seen[e] \in Row \cup {NoRow}
        /\ asked \in 0 .. Len(queue)
    BY PartialFacts, KnownLength DEF ProtocolInv, Shape, ThreadInv
  <2> QED BY <2>1, <2>2, <2>3, <2>4 DEF TypeOK, ProtocolInv, Shape, ThreadInv, Tables
<1> QED BY <1>1, ProtocolInvHolds, PTL

\* mark_synced and mark_conflict never run ahead of the commit of process_push,
\* whichever requests and answers are lost, resent or late.
THEOREM MarkedWasStoredHolds == Spec => []MarkedWasStored
<1>1. ProtocolInv => MarkedWasStored BY DEF ProtocolInv, StoredInv
<1> QED BY <1>1, ProtocolInvHolds, PTL

(***************************************************************************)
(* What a step may do to a committed row, and to a row on screen.          *)
(***************************************************************************)
\* Others change a committed row by a deletion or by an edit of their own.
LEMMA CommittedByWeb ==
  ASSUME ProtocolInv, NEW x \in Entities, Web(x), NEW e \in Entities, com'[e] # com[e]
  PROVE  com'[e] = Gone \/ (Present(com[e]) /\ com'[e].web # com[e].web)
<1>1. com \in Tables /\ e \in Things /\ x \in Things BY Apart DEF ProtocolInv, Shape
<1>2. CASE WebUpdate(x)
  <2> DEFINE r == [com[x] EXCEPT !.ver = @ + 1, !.web = @ + 1]
  <2>1. Present(com[x]) /\ com[x] \in Row /\ com' = [com EXCEPT ![x] = r]
    BY <1>1, <1>2 DEF WebUpdate, WebWrite, Present, Tables, Absent
  <2>2. r.web # com[x].web BY <2>1, RowFacts DEF Row
  <2> HIDE DEF r
  <2> QED BY <1>1, <2>1, <2>2 DEF Tables
<1>3. CASE WebDelete(x) BY <1>1, <1>3 DEF WebDelete, WebWrite, Tables
<1>4. CASE WebTake(x) BY <1>4 DEF WebTake
<1> QED BY <1>2, <1>3, <1>4 DEF Web

\* A commit brings a row together with the record of the edit that wrote it.
LEMMA CommittedByPush ==
  ASSUME ProtocolInv, NEW c \in Conns, Serve(c), NEW e \in Entities, com'[e] # com[e]
  PROVE  com'[e] = Gone \/ LET k == com'[e].edit IN k \in Keys /\ com[k] = NoRow /\ com'[k] # NoRow
<1>1. CommitPush(c)
  BY DEF Serve, Arrive, Lose, Discard, Close, CheckItem, ApplyItem, FailItem, AbortPush, server
<1>2. com' = [x \in Things |-> IF owner[x] = c THEN cur[x] ELSE com[x]] BY <1>1 DEF CommitPush
<1>3. owner[e] = c /\ com'[e] = cur[e] BY <1>2, Apart
<1>4. cur[e] = Gone \/ (cur[e] \in Row /\ cur[e].edit \in Keys /\ owner[cur[e].edit] = c)
  BY <1>3, Apart DEF ProtocolInv, LocksInv
<1>5. ASSUME NEW k \in Keys, owner[k] = c PROVE com[k] = NoRow /\ com'[k] # NoRow
  BY <1>2, <1>5, Apart DEF ProtocolInv, LocksInv
<1> QED BY <1>3, <1>4, <1>5

\* check_idempotency and the unique key let an edit of this desktop change a
\* committed row once, also when two requests carry it at the same time.
THEOREM AppliedOnceHolds == Spec => AppliedOnce
<1> DEFINE A == \A e \in Entities : com'[e] # com[e] =>
                 \/ com'[e] = Gone
                 \/ Present(com[e]) /\ com'[e].web # com[e].web
                 \/ LET k == com'[e].edit IN k \in Keys /\ com[k] = NoRow /\ com'[k] # NoRow
<1>1. ASSUME ProtocolInv, [Next]_vars PROVE A
  <2> SUFFICES ASSUME NEW e \in Entities, com'[e] # com[e]
               PROVE  \/ com'[e] = Gone
                      \/ Present(com[e]) /\ com'[e].web # com[e].web
                      \/ LET k == com'[e].edit IN k \in Keys /\ com[k] = NoRow /\ com'[k] # NoRow
    OBVIOUS
  <2>1. ~ UNCHANGED com OBVIOUS
  <2>2. ~ Engine
    BY <2>1 DEF Engine, PushChanges, NothingToPush, GiveUp, ReceiveAnswer, MarkItem, AdoptVersion,
         PushDone, PullChanges, Bootstrap, Fetch, BeginMerge, ReadPending, LoadRow, ApplyPulledItems,
         ApplyBootstrap, ApplyMerge, Finish, Restart, server
  <2>3. \A x \in Entities : ~ User(x)
    BY <2>1 DEF User, CreateLocal, UpdateLocal, DeleteLocal, server
  <2>4. (\E x \in Entities : Web(x)) \/ \E c \in Conns : Serve(c)
    BY <1>1, <2>1, <2>2, <2>3 DEF Next, vars, server
  <2> QED BY <1>1, <2>4, CommittedByWeb, CommittedByPush
<1>2. ProtocolInv /\ [Next]_vars => [A]_vars BY <1>1
<1> QED BY <1>2, ProtocolInvHolds, PTL DEF Spec, AppliedOnce

\* A row on screen changes by an edit of the user, by the version it adopts, or
\* when a pull or a bootstrap stores rows.
LEMMA LocalChanges ==
  ASSUME ProtocolInv, [Next]_vars, local' # local
  PROVE  \/ \E x \in Entities : User(x)
         \/ AdoptVersion
         \/ ApplyPulledItems
         \/ ApplyBootstrap
<1>1. ~ MarkItem
  <2> SUFFICES ASSUME MarkItem PROVE FALSE OBVIOUS
  <2> DEFINE k == Oldest(DOMAIN answer)
  <2>1. answer # Nothing /\ (MarkSynced(k) \/ MarkConflict(k) \/ MarkFailed(k)) BY DEF MarkItem
  <2>2. answer = [j \in DOMAIN answer |-> answer[j]] BY PartialFacts DEF ProtocolInv, Shape
  <2>3. k \in DOMAIN answer BY <2>1, <2>2, AnswerIsLeast DEF Nothing
  <2> HIDE DEF k
  <2>4. MarkConflict(k) BY <2>1 DEF MarkSynced, MarkFailed
  <2>5. queue[k].op = "UPDATE" BY <2>3, <2>4 DEF MarkConflict, ProtocolInv, EditsInv, OnlyUpdates
  <2> QED BY <2>4, <2>5 DEF MarkConflict
<1>2. \A c \in Conns : ~ Serve(c)
  BY DEF Serve, Arrive, Lose, Discard, Close, CheckItem, ApplyItem, FailItem, CommitPush, AbortPush,
         Release, disk
<1>3. \A x \in Entities : ~ Web(x) BY DEF Web, WebUpdate, WebDelete, WebWrite, WebTake, disk
<1>4. ~ UNCHANGED vars BY DEF vars, disk
<1>5. ~ (PushChanges \/ NothingToPush \/ GiveUp \/ ReceiveAnswer \/ PushDone \/ PullChanges
        \/ Bootstrap \/ BeginMerge \/ (\E x \in Entities : LoadRow(x)) \/ Restart)
  BY DEF PushChanges, NothingToPush, GiveUp, ReceiveAnswer, PushDone, PullChanges, Bootstrap, Fetch,
         BeginMerge, ReadPending, Finish, LoadRow, Restart, disk
<1> QED BY <1>1, <1>2, <1>3, <1>4, <1>5 DEF Next, Engine

\* A row on screen with a waiting edit survives whatever stores rows.
LEMMA WaitingEditStays ==
  ASSUME ProtocolInv, [Next]_vars, NEW e \in Entities, local[e] # NoRow,
         local[e].edit \in DOMAIN queue, queue[local[e].edit].status = "PENDING", ~Overtaken(local[e].edit)
  PROVE  \/ local'[e] # NoRow /\ local'[e].edit = local[e].edit
         \/ Len(queue') > Len(queue) /\ queue'[Len(queue')].ent = e
<1> DEFINE k == local[e].edit
           Stays == local'[e] # NoRow /\ local'[e].edit = k
           Edited == Len(queue') > Len(queue) /\ queue'[Len(queue')].ent = e
<1>1. /\ local \in [Entities -> Row \cup {NoRow}] /\ local[e] \in Row /\ k # Reverted
      /\ queue[k].ent = e
  <2>1. DOMAIN queue \subseteq Keys BY QueueFacts DEF ProtocolInv, Shape
  <2> QED BY <2>1, KeysAreNat DEF ProtocolInv, Shape, EditsInv, OwnEdits, Reverted
<1>3. CASE local' = local BY <1>3
<1>4. CASE \E x \in Entities : User(x)
  <2>1. PICK x \in Entities : User(x) BY <1>4
  <2>2. \A y \in Entities \ {x} : local'[y] = local[y]
    BY <1>1, <2>1 DEF User, CreateLocal, UpdateLocal, DeleteLocal
  <2>3. PICK it : queue' = Append(queue, it) /\ it.ent = x
    <3>1. PICK op, web : Enqueue(x, op, web)
      BY <2>1 DEF User, CreateLocal, UpdateLocal, DeleteLocal
    <3> QED BY <3>1 DEF Enqueue
  <2>4. Len(queue) \in Nat /\ Len(queue') = Len(queue) + 1 /\ queue'[Len(queue')] = it
    BY <2>3 DEF ProtocolInv, Shape
  <2>5. CASE x = e
    <3>1. Edited BY <2>3, <2>4, <2>5
    <3> QED BY <3>1
  <2>6. CASE x # e
    <3>1. Stays BY <2>2, <2>6
    <3> QED BY <3>1
  <2> QED BY <2>5, <2>6
<1>5. CASE AdoptVersion
  <2> DEFINE x == queue[Oldest(DOMAIN answer)].ent  v == answer[Oldest(DOMAIN answer)].ver
  <2>1. local' = IF local[x] = NoRow THEN local ELSE [local EXCEPT ![x].ver = v]
    BY <1>5 DEF AdoptVersion
  <2> HIDE DEF x, v
  <2>2. local'[e] = local[e] \/ local'[e] = [local[e] EXCEPT !.ver = v] BY <1>1, <2>1
  <2>3. [local[e] EXCEPT !.ver = v].edit = k BY <1>1 DEF Row
  <2>4. [local[e] EXCEPT !.ver = v] # NoRow
    <3>1. phase = "adopt" BY <1>5 DEF AdoptVersion
    <3>2. DOMAIN answer # {} BY <3>1 DEF ProtocolInv, ThreadInv, Merging, HasSnapshot
    <3>3. v \in Nat BY <3>2, AnswerIsLeast DEF v, Result
    <3>4. [local[e] EXCEPT !.ver = v] \in Row BY <1>1, <3>3 DEF Row
    <3> QED BY <3>4, Apart
  <2>5. Stays BY <2>2, <2>3, <2>4
  <2> QED BY <2>5
<1>6. CASE ApplyPulledItems \/ ApplyBootstrap
  <2>1. Merging /\ (ApplyMerge("idle") \/ ApplyMerge("push"))
    BY <1>6 DEF ApplyPulledItems, ApplyBootstrap, Merging
  <2>2. k <= asked => e \in skip BY <1>1, <2>1 DEF ProtocolInv, ThreadInv
  <2>3. asked \in Nat /\ k \in Nat BY <1>1, QueueFacts, KeysAreNat DEF ProtocolInv, Shape
  <2>4. LeftAlone(e)
    <3>1. CASE e \in skip BY <3>1 DEF LeftAlone
    <3>2. CASE e \notin skip
      <4>1. k > asked BY <2>2, <2>3, <3>2
      <4>2. /\ phase = "merge" /\ Present(snap[e]) /\ Loaded(e) # NoRow
            /\ ~ (snap[e].ver >= Loaded(e).ver)
        BY <1>1, <2>1, <4>1 DEF Overtaken
      <4>3. snap[e].ver \in Nat /\ Loaded(e).ver \in Nat
        <5>1. snap[e] \in Row BY <4>2 DEF ProtocolInv, ThreadInv, Shape, HasSnapshot, Pulled, Present, Absent
        <5>2. Loaded(e) \in Row \cup {NoRow}
          BY PartialFacts DEF ProtocolInv, Shape, Loaded
        <5> QED BY <4>2, <5>1, <5>2, RowFacts
      <4> QED BY <4>2, <4>3 DEF LeftAlone, Present
    <3> QED BY <3>1, <3>2
  <2>5. local'[e] = local[e] BY <2>1, <2>4 DEF ApplyMerge, Finish, Merge
  <2> QED BY <2>5
<1> QED BY <1>3, <1>4, <1>5, <1>6, LocalChanges

\* apply_pulled_items and the bootstrap leave a row alone whose edit waited when they
\* read the queue, also when it was made while the server was answering; a pull also
\* one with a later edit, if its own copy is newer than the server's.
THEOREM PendingEditKeptHolds == Spec => PendingEditKept
<1> DEFINE A == \A e \in Entities :
                 LET k == local[e].edit IN
                 local[e] # NoRow /\ k \in DOMAIN queue /\ queue[k].status = "PENDING" /\ ~Overtaken(k)
                   => \/ local'[e] # NoRow /\ local'[e].edit = k
                      \/ Len(queue') > Len(queue) /\ queue'[Len(queue')].ent = e
<1>1. ProtocolInv /\ [Next]_vars => [A]_vars BY WaitingEditStays
<1> QED BY <1>1, ProtocolInvHolds, PTL DEF Spec, PendingEditKept

(***************************************************************************)
(* The order of the edits, when no item fails for a passing reason.        *)
(***************************************************************************)
LEMMA InitOrder == Init => OrderInv
<1> SUFFICES ASSUME Init PROVE OrderInv OBVIOUS
<1>1. queue = <<>> /\ DOMAIN queue = {} /\ answer = Nothing /\ link = [c \in Conns |-> Unused]
  BY DEF Init
<1>2. \A e \in Entities : com[e] = Known(e) /\ cur[e] = Known(e) BY Apart DEF Init
<1>3. \A e \in Entities : Known(e) # Gone /\ (e \notin Old => Known(e) = NoRow)
  <2>1. ASSUME NEW e \in Old PROVE Known(e) \in Row
    BY <2>1, KeysAreNat, BoundAssumption DEF Known, Row
  <2> QED BY <2>1, Apart DEF Known
<1>4. CreatedInv BY <1>1, <1>2, <1>3 DEF CreatedInv
<1>5. DeletedInv BY <1>2, <1>3 DEF DeletedInv
<1>6. LoadedInv BY <1>1, UnusedFacts DEF LoadedInv
<1>7. SettledInv BY <1>1, UnusedFacts, NothingIsPartial DEF SettledInv, DoneInv, TakesAlong
<1>8. BehindInv BY <1>1 DEF BehindInv, Updates
<1> QED BY <1>4, <1>5, <1>6, <1>7, <1>8 DEF OrderInv

\* Steps of the desktop that make no edit, and of requests that store nothing,
\* leave the rows and the names of the items alone.
LEMMA RowsKeepOrder ==
  ASSUME ProtocolInv, OrderInv, UNCHANGED <<com, cur, owner>>, DOMAIN queue' = DOMAIN queue,
         \A k \in DOMAIN queue : queue'[k].ent = queue[k].ent /\ queue'[k].op = queue[k].op
  PROVE  CreatedInv' /\ DeletedInv' /\ BehindInv'
<1>1. \A e : Updates(e)' = Updates(e) /\ Creates(e)' = Creates(e) BY DEF Updates, Creates
<1>2. CreatedInv'
  <2>1. \A k, c : Stands(k, c)' <=> Stands(k, c) BY DEF Stands
  <2> QED BY <1>1, <2>1 DEF OrderInv, CreatedInv, Stands
<1>3. DeletedInv' BY DEF OrderInv, DeletedInv
<1>4. BehindInv' BY <1>1 DEF OrderInv, BehindInv, Stands
<1> QED BY <1>2, <1>3, <1>4

\* The desktop marks an item, or its thread moves on.
LEMMA ThreadKeepsOrder ==
  ASSUME ProtocolInv, OrderInv, UNCHANGED <<com, cur, owner, link>>, DOMAIN queue' = DOMAIN queue,
         \A k \in DOMAIN queue : queue'[k].ent = queue[k].ent /\ queue'[k].op = queue[k].op,
         DOMAIN answer' \subseteq DOMAIN answer,
         \A k \in DOMAIN queue :
           \/ queue'[k].status = queue[k].status /\ queue'[k].retry = queue[k].retry
           \/ k \in DOMAIN answer
  PROVE  OrderInv'
<1>1. CreatedInv' /\ DeletedInv' /\ BehindInv' BY RowsKeepOrder
<1>2. \A e : Updates(e)' = Updates(e) BY DEF Updates
<1>3. \A k \in DOMAIN queue : \A c : Settled(k, c)' <=> Settled(k, c) BY DEF Settled, Stands
<1>4. \A c \in Conns : /\ DOMAIN link[c].items \subseteq DOMAIN queue
                       /\ DOMAIN link[c].results \subseteq DOMAIN queue
                       /\ link[c].stage = "apply" => DOMAIN link[c].results # DOMAIN link[c].items
  BY DEF ProtocolInv, RequestsInv
<1>5. LoadedInv'
  <2> SUFFICES ASSUME NEW c \in Conns, link[c].stage = "apply"
               PROVE  Due(c)' = Due(c) /\ Entity(c)' = Entity(c)
    BY DEF OrderInv, LoadedInv
  <2>1. Due(c)' = Due(c) BY DEF Due
  <2>2. Due(c) \in DOMAIN queue BY <1>4, DueFacts
  <2> QED BY <2>1, <2>2 DEF Entity
<1>6. \A e : Updates(e) \subseteq DOMAIN queue BY DEF Updates
<1>7. ASSUME NEW c \in Conns PROVE TakesAlong(c)'
  <2> SUFFICES ASSUME NEW k \in DOMAIN link[c].items, NEW j \in Updates(queue[k].ent), j < k,
                      j \notin DOMAIN link[c].items
               PROVE  Settled(j, NoConn)'
    BY <1>2, <1>4 DEF TakesAlong
  <2>1. Settled(j, NoConn) BY DEF OrderInv, SettledInv, TakesAlong
  <2> QED BY <1>3, <1>6, <2>1
<1>8. DoneInv'
  <2>1. ASSUME NEW c \in Conns, NEW k \in DOMAIN link'[c].results, queue'[k].op = "UPDATE"
        PROVE  Settled(k, c)'
    <3>1. k \in DOMAIN queue /\ queue[k].op = "UPDATE" BY <1>4, <2>1
    <3>2. Settled(k, c) BY <2>1, <3>1 DEF OrderInv, SettledInv, DoneInv
    <3> QED BY <1>3, <3>1, <3>2
  <2>2. DOMAIN answer \subseteq DOMAIN queue BY DEF ProtocolInv, ThreadInv, Merging, HasSnapshot
  <2>3. ASSUME NEW k \in DOMAIN answer', queue'[k].op = "UPDATE" PROVE Settled(k, NoConn)'
    <3>1. k \in DOMAIN answer /\ k \in DOMAIN queue /\ queue[k].op = "UPDATE" BY <2>2, <2>3
    <3>2. Settled(k, NoConn) BY <3>1 DEF OrderInv, SettledInv, DoneInv
    <3> QED BY <1>3, <3>1, <3>2
  <2>4. ASSUME NEW k \in DOMAIN queue', queue'[k].op = "UPDATE",
               queue'[k].retry > 0 \/ queue'[k].status \in {"SYNCED", "CONFLICT"}
        PROVE  Settled(k, NoConn)'
    <3>1. k \in DOMAIN queue /\ queue[k].op = "UPDATE" BY <2>4
    <3>2. Settled(k, NoConn) BY <2>4, <3>1 DEF OrderInv, SettledInv, DoneInv
    <3> QED BY <1>3, <3>1, <3>2
  <2> QED BY <2>1, <2>3, <2>4 DEF DoneInv
<1>9. SettledInv' BY <1>7, <1>8 DEF SettledInv
<1> QED BY <1>1, <1>5, <1>9 DEF OrderInv

LEMMA MarkKeepsOrder == ASSUME ProtocolInv, OrderInv, MarkItem PROVE OrderInv'
<1> DEFINE k == Oldest(DOMAIN answer)
<1>1. /\ answer # Nothing /\ UNCHANGED <<com, cur, owner, link>>
      /\ MarkSynced(k) \/ MarkConflict(k) \/ MarkFailed(k)
  BY DEF MarkItem, server
<1>2. DOMAIN answer # {}
  <2>1. answer = [j \in DOMAIN answer |-> answer[j]] BY PartialFacts DEF ProtocolInv, Shape
  <2> QED BY <1>1, <2>1 DEF Nothing
<1>3. k \in DOMAIN answer /\ k \in DOMAIN queue /\ queue[k] \in Item BY <1>2, AnswerIsLeast
<1> HIDE DEF k
<1>4. DOMAIN Without(answer, k) = DOMAIN answer \ {k} BY DEF Without
<1>5. PICK it : /\ queue' = [queue EXCEPT ![k] = it] /\ it.ent = queue[k].ent /\ it.op = queue[k].op
                /\ answer' \in {answer, Without(answer, k)}
  <2>1. CASE MarkSynced(k)
    <3> DEFINE it == [queue[k] EXCEPT !.status = "SYNCED"]
    <3>1. it.ent = queue[k].ent /\ it.op = queue[k].op BY <1>3 DEF Item
    <3>2. queue' = [queue EXCEPT ![k] = it] /\ answer' \in {answer, Without(answer, k)}
      BY <2>1 DEF MarkSynced, SetStatus, Marked
    <3> QED BY <3>1, <3>2
  <2>2. CASE MarkConflict(k)
    <3> DEFINE it == [queue[k] EXCEPT !.status = "CONFLICT"]
    <3>1. it.ent = queue[k].ent /\ it.op = queue[k].op BY <1>3 DEF Item
    <3>2. queue' = [queue EXCEPT ![k] = it] /\ answer' \in {answer, Without(answer, k)}
      BY <2>2 DEF MarkConflict, SetStatus, Marked
    <3> QED BY <3>1, <3>2
  <2>3. CASE MarkFailed(k)
    <3> DEFINE it == [queue[k] EXCEPT !.status = "FAILED", !.retry = @ + 1]
    <3>1. it.ent = queue[k].ent /\ it.op = queue[k].op BY <1>3 DEF Item
    <3>2. queue' = [queue EXCEPT ![k] = it] /\ answer' \in {answer, Without(answer, k)}
      BY <2>3 DEF MarkFailed, Marked
    <3> QED BY <3>1, <3>2
  <2> QED BY <1>1, <2>1, <2>2, <2>3
<1>6. DOMAIN queue' = DOMAIN queue /\ queue'[k] = it /\ \A j \in DOMAIN queue \ {k} : queue'[j] = queue[j]
  BY <1>3, <1>5
<1>7. DOMAIN answer' \subseteq DOMAIN answer BY <1>4, <1>5
<1> QED BY <1>1, <1>3, <1>5, <1>6, <1>7, ThreadKeepsOrder

\* What an answer brings is settled for good by the commit.
LEMMA ReceiveKeepsOrder == ASSUME ProtocolInv, OrderInv, ReceiveAnswer PROVE OrderInv'
<1>1. /\ conn \in Conns /\ link[conn].stage = "answered" /\ answer' = link[conn].results
      /\ link' = [link EXCEPT ![conn] = Unused]
      /\ UNCHANGED <<com, cur, owner, queue>>
  BY DEF ReceiveAnswer, ProtocolInv, ThreadInv, server, disk, merging
<1>2. link \in [Conns -> Links] BY DEF ProtocolInv, Shape
<1>3. link'[conn] = Unused /\ \A d \in Conns \ {conn} : link'[d] = link[d] BY <1>1, <1>2
<1>4. CreatedInv' /\ DeletedInv' /\ BehindInv' BY <1>1, RowsKeepOrder
<1>5. \A e : Updates(e)' = Updates(e) BY <1>1 DEF Updates
<1>6. \A k, c : Settled(k, c)' <=> Settled(k, c) BY <1>1 DEF Settled, Stands
<1>7. LoadedInv' BY <1>1, <1>3, UnusedFacts DEF OrderInv, LoadedInv, Due, Entity
<1>8. ASSUME NEW k \in DOMAIN link[conn].results, queue[k].op = "UPDATE"
      PROVE  Settled(k, NoConn)
  <2>1. Settled(k, conn) BY <1>1, <1>8 DEF OrderInv, SettledInv, DoneInv
  <2>2. k \in Keys BY <1>1, QueueFacts DEF ProtocolInv, RequestsInv, Shape
  <2>3. owner[k] # conn BY <1>1, <2>2, Apart DEF ProtocolInv, LocksInv
  <2> QED BY <2>1, <2>3 DEF Settled, Stands
<1>9. ASSUME NEW c \in Conns PROVE TakesAlong(c)'
  <2>1. CASE c = conn BY <1>3, <2>1, UnusedFacts DEF TakesAlong
  <2>2. CASE c # conn
    <3>1. link'[c] = link[c] BY <1>3, <2>2
    <3>2. TakesAlong(c) BY DEF OrderInv, SettledInv
    <3> QED BY <1>1, <1>5, <1>6, <3>1, <3>2 DEF TakesAlong
  <2> QED BY <2>1, <2>2
<1>10. DoneInv'
  <2>1. ASSUME NEW c \in Conns, NEW k \in DOMAIN link'[c].results, queue'[k].op = "UPDATE"
        PROVE  Settled(k, c)'
    BY <1>1, <1>3, <1>6, <2>1, UnusedFacts DEF OrderInv, SettledInv, DoneInv
  <2>2. ASSUME NEW k \in DOMAIN answer', queue'[k].op = "UPDATE" PROVE Settled(k, NoConn)'
    BY <1>1, <1>6, <1>8, <2>2
  <2>3. ASSUME NEW k \in DOMAIN queue', queue'[k].op = "UPDATE",
               queue'[k].retry > 0 \/ queue'[k].status \in {"SYNCED", "CONFLICT"}
        PROVE  Settled(k, NoConn)'
    BY <1>1, <1>6, <2>3 DEF OrderInv, SettledInv, DoneInv
  <2> QED BY <2>1, <2>2, <2>3 DEF DoneInv
<1>11. SettledInv' BY <1>9, <1>10 DEF SettledInv
<1> QED BY <1>4, <1>7, <1>11 DEF OrderInv
\* get_pending leaves out an item only when it is settled, or when it leaves out
\* every later one as well.
LEMMA BatchIsOldest ==
  ASSUME ProtocolInv, NEW k \in Batch, NEW j \in Pending, j < k
  PROVE  j \in Batch
<1> DEFINE A == {i \in Pending : i < j}  B == {i \in Pending : i < k}
<1>1. Pending \subseteq DOMAIN queue /\ DOMAIN queue = 1 .. Len(queue) /\ Len(queue) \in Nat
  BY QueueFacts DEF Pending, ProtocolInv, Shape
<1>2. k \in Pending /\ Cardinality(B) < Limit BY DEF Batch
<1>3. IsFiniteSet(1 .. Len(queue)) BY <1>1, FS_Interval
<1>4. B \subseteq 1 .. Len(queue) /\ A \subseteq B
  <2>1. \A i \in Pending : i \in Nat BY <1>1
  <2> QED BY <1>1, <1>2, <2>1
<1>5. IsFiniteSet(B) BY <1>3, <1>4, FS_Subset
<1>6. Cardinality(A) <= Cardinality(B) BY <1>4, <1>5, FS_Subset
<1>7. IsFiniteSet(A) BY <1>4, <1>5, FS_Subset
<1>8. Cardinality(A) \in Nat /\ Cardinality(B) \in Nat /\ Limit \in Nat
  BY <1>5, <1>7, FS_CardinalityType, BoundAssumption
<1>9. Cardinality(A) < Limit BY <1>2, <1>6, <1>8
<1> HIDE DEF B
<1> QED BY <1>9 DEF Batch

LEMMA PushKeepsOrder == ASSUME ProtocolInv, OrderInv, PushChanges PROVE OrderInv'
<1>1. PICK c \in Conns :
        /\ link[c].stage = "free"
        /\ link' = [link EXCEPT ![c].stage = "sent", ![c].items = [k \in Batch |-> PushVersion(k)]]
  BY DEF PushChanges
<1>2. UNCHANGED <<com, cur, owner, queue, answer>> BY DEF PushChanges, server, disk
<1> DEFINE items == [k \in Batch |-> PushVersion(k)]
<1>3. DOMAIN items = Batch OBVIOUS
<1>4. link \in [Conns -> Links] BY DEF ProtocolInv, Shape
<1> HIDE DEF items
<1>5. /\ link'[c].stage = "sent" /\ link'[c].items = items /\ link'[c].results = link[c].results
      /\ \A d \in Conns \ {c} : link'[d] = link[d]
  <2>1. link' = [link EXCEPT ![c].stage = "sent", ![c].items = items] BY <1>1 DEF items
  <2> QED BY <1>4, <2>1 DEF Links
<1>6. DOMAIN link[c].results = {} BY <1>1 DEF ProtocolInv, RequestsInv
<1>7. CreatedInv' /\ DeletedInv' /\ BehindInv' BY <1>2, RowsKeepOrder
<1>8. \A e : Updates(e)' = Updates(e) BY <1>2 DEF Updates
<1>9. \A k, d : Settled(k, d)' <=> Settled(k, d) BY <1>2 DEF Settled, Stands
<1>10. LoadedInv' BY <1>2, <1>5 DEF OrderInv, LoadedInv, Due, Entity
<1>11. ASSUME NEW d \in Conns PROVE TakesAlong(d)'
  <2>1. CASE d = c
    <3> SUFFICES ASSUME NEW k \in Batch, NEW j \in Updates(queue[k].ent), j < k, j \notin Batch
                 PROVE  Settled(j, NoConn)
      BY <1>2, <1>3, <1>5, <1>8, <1>9, <2>1 DEF TakesAlong
    <3>1. j \in DOMAIN queue /\ queue[j].op = "UPDATE" BY DEF Updates
    <3>2. j \notin Pending BY BatchIsOldest
    <3>3. queue[j].status \in Status /\ queue[j].retry \in 0 .. MaxRetry
      BY <3>1, QueueFacts DEF ProtocolInv, Shape, Item
    <3>4. queue[j].retry > 0 \/ queue[j].status \in {"SYNCED", "CONFLICT"}
      BY <3>1, <3>2, <3>3, BoundAssumption DEF Pending, Status
    <3> QED BY <3>1, <3>4 DEF OrderInv, SettledInv, DoneInv
  <2>2. CASE d # c
    <3>1. link'[d] = link[d] /\ TakesAlong(d) BY <1>5, <2>2 DEF OrderInv, SettledInv
    <3> QED BY <1>2, <1>8, <1>9, <3>1 DEF TakesAlong
  <2> QED BY <2>1, <2>2
<1>12. DoneInv'
  <2>1. ASSUME NEW d \in Conns, NEW k \in DOMAIN link'[d].results, queue'[k].op = "UPDATE"
        PROVE  Settled(k, d)'
    BY <1>2, <1>5, <1>6, <1>9, <2>1 DEF OrderInv, SettledInv, DoneInv
  <2>2. ASSUME NEW k \in DOMAIN answer', queue'[k].op = "UPDATE" PROVE Settled(k, NoConn)'
    BY <1>2, <1>9, <2>2 DEF OrderInv, SettledInv, DoneInv
  <2>3. ASSUME NEW k \in DOMAIN queue', queue'[k].op = "UPDATE",
               queue'[k].retry > 0 \/ queue'[k].status \in {"SYNCED", "CONFLICT"}
        PROVE  Settled(k, NoConn)'
    BY <1>2, <1>9, <2>3 DEF OrderInv, SettledInv, DoneInv
  <2> QED BY <2>1, <2>2, <2>3 DEF DoneInv
<1>13. SettledInv' BY <1>11, <1>12 DEF SettledInv
<1> QED BY <1>7, <1>10, <1>13 DEF OrderInv

LEMMA EngineKeepsOrder == ASSUME ProtocolInv, OrderInv, Engine PROVE OrderInv'
<1>1. CASE PushChanges BY <1>1, PushKeepsOrder
<1>2. CASE ReceiveAnswer BY <1>2, ReceiveKeepsOrder
<1>3. CASE MarkItem BY <1>3, MarkKeepsOrder
<1>4. CASE /\ UNCHANGED <<com, cur, owner, link, queue>>
           /\ DOMAIN answer' \subseteq DOMAIN answer
  BY <1>4, ThreadKeepsOrder
<1>5. \A k : DOMAIN Without(answer, k) \subseteq DOMAIN answer BY DEF Without
<1>6. DOMAIN Nothing = {} BY DEF Nothing
<1>7. CASE AdoptVersion BY <1>4, <1>5, <1>7 DEF AdoptVersion, server
<1>8. CASE Restart BY <1>4, <1>6, <1>8 DEF Restart, server, disk
<1>9. CASE NothingToPush \/ GiveUp \/ PushDone
  BY <1>4, <1>9 DEF NothingToPush, GiveUp, PushDone, server, disk
<1>10. CASE PullChanges \/ Bootstrap
  BY <1>4, <1>10 DEF PullChanges, Bootstrap, Fetch, server, disk
<1>11. CASE ApplyPulledItems BY <1>4, <1>11 DEF ApplyPulledItems, ApplyMerge, Finish, server
<1>12. CASE ApplyBootstrap BY <1>4, <1>12 DEF ApplyBootstrap, ApplyMerge, Finish, server
<1>13. CASE BeginMerge BY <1>4, <1>13 DEF BeginMerge, ReadPending, Finish, server, disk
<1>14. CASE \E e \in Entities : LoadRow(e) BY <1>4, <1>14 DEF LoadRow, server, disk
<1> QED BY <1>1, <1>2, <1>3, <1>7, <1>8, <1>9, <1>10, <1>11, <1>12, <1>13, <1>14 DEF Engine

\* The user's edit is the newest; only the first edit of a row creates it.
LEMMA EditKeepsOrder ==
  ASSUME ProtocolInv, OrderInv, UNCHANGED <<server, link, thread>>,
         NEW e \in Entities, NEW op \in Ops, NEW web \in 0 .. MaxWeb, Enqueue(e, op, web),
         op = "CREATE" => e \notin Old /\ \A k \in DOMAIN queue : queue[k].ent # e
  PROVE  OrderInv'
<1> DEFINE n == Len(queue) + 1
<1>1. /\ DOMAIN queue' = DOMAIN queue \cup {n} /\ \A k \in DOMAIN queue : queue'[k] = queue[k]
      /\ queue'[n].ent = e /\ queue'[n].status = "PENDING"
  BY EnqueueFacts DEF ProtocolInv
<1>2. queue'[n].op = op /\ queue'[n].retry = 0
  <2>1. queue' = Append(queue, [ent |-> e, op |-> op, status |-> "PENDING", retry |-> 0, web |-> web])
    BY DEF Enqueue
  <2> QED BY <2>1 DEF ProtocolInv, Shape
<1>3. UNCHANGED <<com, cur, owner, link, answer>> BY DEF server, thread, merging
<1>4. /\ \A k \in DOMAIN queue : k \in Nat /\ k < n
      /\ n \in Nat \ {0}
  BY QueueFacts DEF ProtocolInv, Shape
<1>5. n \notin DOMAIN queue BY <1>4
<1> HIDE DEF n
<1>6. \A x : /\ Creates(x) \subseteq Creates(x)'
             /\ Updates(x)' \subseteq Updates(x) \cup {n}
             /\ Updates(x) \subseteq DOMAIN queue
  BY <1>1, <1>5 DEF Creates, Updates
<1>7. \A k \in DOMAIN queue : \A c : Settled(k, c)' <=> Settled(k, c)
  BY <1>1, <1>3 DEF Settled, Stands
<1>8. CreatedInv'
  <2>1. ASSUME NEW k \in DOMAIN queue', queue'[k].op = "CREATE"
        PROVE  /\ queue'[k].ent \notin Old
               /\ \A j \in DOMAIN queue' : j < k => queue'[j].ent # queue'[k].ent
    <3>1. CASE k = n BY <1>1, <1>2, <1>4, <2>1, <3>1
    <3>2. CASE k \in DOMAIN queue
      BY <1>1, <1>4, <2>1, <3>2 DEF OrderInv, CreatedInv
    <3> QED BY <1>1, <2>1, <3>1, <3>2
  <2>2. ASSUME NEW x \in Entities \ Old
        PROVE  /\ com'[x] # NoRow => \E k \in Creates(x)' : com'[k] # NoRow
               /\ cur'[x] # NoRow => \E k \in Creates(x)' : Stands(k, owner[x])'
    BY <1>3, <1>6 DEF OrderInv, CreatedInv, Stands
  <2> QED BY <2>1, <2>2 DEF CreatedInv
<1>9. DeletedInv' BY <1>3 DEF OrderInv, DeletedInv
<1>10. BehindInv'
  <2> SUFFICES ASSUME NEW x \in Entities, NEW k \in Updates(x)'
               PROVE  /\ Present(com[x]) /\ k < com[x].edit => com[k] # NoRow
                      /\ Present(cur[x]) /\ k < cur[x].edit => Stands(k, owner[x])
    BY <1>3 DEF BehindInv, Stands
  <2>1. CASE k \in Updates(x) BY <2>1 DEF OrderInv, BehindInv
  <2>2. CASE k = n
    <3>1. /\ Present(com[x]) => com[x] \in Row
          /\ Present(cur[x]) => cur[x] \in Row
      BY DEF Present, ProtocolInv, Shape, Tables, Absent
    <3>2. \A r \in Row : r.edit # Reverted /\ r.edit \in DOMAIN queue => ~(n < r.edit)
      BY <1>4
    <3>3. ~(n < Reverted) BY <1>4 DEF Reverted
    <3> QED BY <2>2, <3>1, <3>2, <3>3 DEF ProtocolInv, EditsInv, OwnEdits
  <2> QED BY <1>6, <2>1, <2>2
<1>11. LoadedInv'
  <2> SUFFICES ASSUME NEW c \in Conns, link[c].stage = "apply" PROVE Entity(c)' = Entity(c)
    BY <1>3 DEF OrderInv, LoadedInv
  <2>1. Due(c)' = Due(c) BY <1>3 DEF Due
  <2>2. Due(c) \in DOMAIN queue BY DueFacts DEF ProtocolInv, RequestsInv
  <2> QED BY <1>1, <2>1, <2>2 DEF Entity
<1>12. ASSUME NEW c \in Conns PROVE TakesAlong(c)'
  <2>1. DOMAIN link[c].items \subseteq DOMAIN queue BY DEF ProtocolInv, RequestsInv
  <2> SUFFICES ASSUME NEW k \in DOMAIN link[c].items, NEW j \in Updates(queue[k].ent)', j < k,
                      j \notin DOMAIN link[c].items
               PROVE  Settled(j, NoConn)'
    BY <1>1, <1>3, <2>1 DEF TakesAlong
  <2>2. j # n BY <1>4, <2>1
  <2>3. j \in Updates(queue[k].ent) /\ j \in DOMAIN queue
    <3>1. queue'[k].ent = queue[k].ent BY <1>1, <2>1
    <3> QED BY <1>6, <2>2, <3>1
  <2>4. Settled(j, NoConn) BY <2>3 DEF OrderInv, SettledInv, TakesAlong
  <2> QED BY <1>7, <2>3, <2>4
<1>13. DoneInv'
  <2>1. ASSUME NEW c \in Conns, NEW k \in DOMAIN link'[c].results, queue'[k].op = "UPDATE"
        PROVE  Settled(k, c)'
    <3>1. k \in DOMAIN queue BY <1>3 DEF ProtocolInv, RequestsInv
    <3> QED BY <1>1, <1>3, <1>7, <2>1, <3>1 DEF OrderInv, SettledInv, DoneInv
  <2>2. ASSUME NEW k \in DOMAIN answer', queue'[k].op = "UPDATE" PROVE Settled(k, NoConn)'
    <3>1. k \in DOMAIN queue BY <1>3 DEF ProtocolInv, ThreadInv, Merging, HasSnapshot
    <3> QED BY <1>1, <1>3, <1>7, <2>2, <3>1 DEF OrderInv, SettledInv, DoneInv
  <2>3. ASSUME NEW k \in DOMAIN queue', queue'[k].op = "UPDATE",
               queue'[k].retry > 0 \/ queue'[k].status \in {"SYNCED", "CONFLICT"}
        PROVE  Settled(k, NoConn)'
    BY <1>1, <1>2, <1>7, <2>3 DEF OrderInv, SettledInv, DoneInv
  <2> QED BY <2>1, <2>2, <2>3 DEF DoneInv
<1>14. SettledInv' BY <1>12, <1>13 DEF SettledInv
<1> QED BY <1>8, <1>9, <1>10, <1>11, <1>14 DEF OrderInv

LEMMA UserKeepsOrder == ASSUME ProtocolInv, OrderInv, NEW e \in Entities, User(e) PROVE OrderInv'
<1>1. local[e] # NoRow => local[e].web \in 0 .. MaxWeb
  BY RowFacts DEF ProtocolInv, Shape
<1>2. 0 \in 0 .. MaxWeb BY BoundAssumption
<1>3. CASE CreateLocal(e) BY <1>2, <1>3, EditKeepsOrder DEF CreateLocal, Ops
<1>4. CASE UpdateLocal(e) BY <1>1, <1>4, EditKeepsOrder DEF UpdateLocal, Ops
<1>5. CASE DeleteLocal(e) BY <1>1, <1>5, EditKeepsOrder DEF DeleteLocal, Ops
<1> QED BY <1>3, <1>4, <1>5 DEF User
(***************************************************************************)
(* The requests on the server.                                             *)
(***************************************************************************)
\* A request arrives, or is closed: nothing is applied, no result is added.
LEMMA QuietKeepsOrder ==
  ASSUME ProtocolInv, OrderInv, NEW c \in Conns, Arrive(c) \/ Close(c) PROVE OrderInv'
<1>1. UNCHANGED <<com, cur, owner, queue, answer>> BY DEF Arrive, Close, server, disk, thread, merging
<1>2. link \in [Conns -> Links] BY DEF ProtocolInv, Shape
<1>3. /\ link'[c].stage # "apply" /\ \A d \in Conns \ {c} : link'[d] = link[d]
      /\ DOMAIN link'[c].items \in {{}, DOMAIN link[c].items}
      /\ DOMAIN link'[c].results \in {{}, DOMAIN link[c].results}
  <2>1. CASE Arrive(c) BY <1>2, <2>1 DEF Arrive, Links
  <2>2. CASE Close(c) BY <1>2, <2>2, UnusedFacts DEF Close
  <2> QED BY <2>1, <2>2
<1>4. CreatedInv' /\ DeletedInv' /\ BehindInv' BY <1>1, RowsKeepOrder
<1>5. \A e : Updates(e)' = Updates(e) BY <1>1 DEF Updates
<1>6. \A k, d : Settled(k, d)' <=> Settled(k, d) BY <1>1 DEF Settled, Stands
<1>7. LoadedInv' BY <1>1, <1>3 DEF OrderInv, LoadedInv, Due, Entity
<1>8. ASSUME NEW d \in Conns PROVE TakesAlong(d)'
  <2>1. TakesAlong(d) /\ DOMAIN link'[d].items \in {{}, DOMAIN link[d].items}
    BY <1>3 DEF OrderInv, SettledInv
  <2> QED BY <1>1, <1>5, <1>6, <2>1 DEF TakesAlong
<1>9. DoneInv'
  <2>1. ASSUME NEW d \in Conns, NEW k \in DOMAIN link'[d].results, queue'[k].op = "UPDATE"
        PROVE  Settled(k, d)'
    <3>1. k \in DOMAIN link[d].results BY <1>3, <2>1
    <3> QED BY <1>1, <1>6, <2>1, <3>1 DEF OrderInv, SettledInv, DoneInv
  <2> QED BY <1>1, <1>6, <2>1 DEF OrderInv, SettledInv, DoneInv
<1>10. SettledInv' BY <1>8, <1>9 DEF SettledInv
<1> QED BY <1>4, <1>7, <1>10 DEF OrderInv

LEMMA LoadKeepsOrder ==
  ASSUME ProtocolInv, OrderInv, NEW c \in Conns, LoadEntity(c), UNCHANGED <<server, disk, thread>>
  PROVE  OrderInv'
<1>1. UNCHANGED <<com, cur, owner, queue, answer>> BY DEF server, disk, thread, merging
<1> DEFINE row == Reads(c, Entity(c))
<1>2. link \in [Conns -> Links] /\ link' = [link EXCEPT ![c].stage = "apply", ![c].load = row]
  BY DEF LoadEntity, ProtocolInv, Shape
<1> HIDE DEF row
<1>3. /\ link'[c].load = row /\ link'[c].items = link[c].items
      /\ link'[c].results = link[c].results /\ \A d \in Conns \ {c} : link'[d] = link[d]
  BY <1>2 DEF Links
<1>4. CreatedInv' /\ DeletedInv' /\ BehindInv' BY <1>1, RowsKeepOrder
<1>5. \A e : Updates(e)' = Updates(e) BY <1>1 DEF Updates
<1>6. \A k, d : Settled(k, d)' <=> Settled(k, d) BY <1>1 DEF Settled, Stands
<1>7. \A d \in Conns : link'[d].items = link[d].items /\ link'[d].results = link[d].results BY <1>3
<1>8. \A d \in Conns : Entity(d)' = Entity(d) BY <1>1, <1>7 DEF Entity, Due
<1>9. LoadedInv'
  <2>1. /\ Present(row) => com[Entity(c)] # NoRow \/ owner[Entity(c)] = c
        /\ owner[Entity(c)] = c => row = cur[Entity(c)]
    BY DEF row, Reads, Present
  <2> QED BY <1>1, <1>3, <1>8, <2>1 DEF OrderInv, LoadedInv
<1>10. ASSUME NEW d \in Conns PROVE TakesAlong(d)'
  <2>1. TakesAlong(d) BY DEF OrderInv, SettledInv
  <2> QED BY <1>1, <1>5, <1>6, <1>7, <2>1 DEF TakesAlong
<1>11. DoneInv' BY <1>1, <1>6, <1>7 DEF OrderInv, SettledInv, DoneInv
<1>12. SettledInv' BY <1>10, <1>11 DEF SettledInv
<1> QED BY <1>4, <1>9, <1>12 DEF OrderInv

\* A result is added for an item that is settled.
LEMMA AnswerItemKeepsOrder ==
  ASSUME ProtocolInv, OrderInv, NEW c \in Conns, DOMAIN link[c].results # DOMAIN link[c].items,
         NEW r \in Result, Reply(c, r), UNCHANGED <<server, disk, thread>>,
         queue[Due(c)].op = "UPDATE" => Settled(Due(c), c)
  PROVE  OrderInv'
<1>1. UNCHANGED <<com, cur, owner, queue, answer>> BY DEF server, disk, thread, merging
<1>2. /\ link'[c].stage = "check" /\ link'[c].items = link[c].items
      /\ DOMAIN link'[c].results = DOMAIN link[c].results \cup {Due(c)}
      /\ \A d \in Conns \ {c} : link'[d] = link[d]
  BY ReplyFacts
<1>3. CreatedInv' /\ DeletedInv' /\ BehindInv' BY <1>1, RowsKeepOrder
<1>4. \A e : Updates(e)' = Updates(e) BY <1>1 DEF Updates
<1>5. \A k, d : Settled(k, d)' <=> Settled(k, d) BY <1>1 DEF Settled, Stands
<1>6. LoadedInv' BY <1>1, <1>2 DEF OrderInv, LoadedInv, Due, Entity
<1>7. ASSUME NEW d \in Conns PROVE TakesAlong(d)'
  <2>1. TakesAlong(d) /\ link'[d].items = link[d].items BY <1>2 DEF OrderInv, SettledInv
  <2> QED BY <1>1, <1>4, <1>5, <2>1 DEF TakesAlong
<1>8. DoneInv'
  <2>1. ASSUME NEW d \in Conns, NEW k \in DOMAIN link'[d].results, queue'[k].op = "UPDATE"
        PROVE  Settled(k, d)'
    <3>1. CASE d = c /\ k = Due(c) BY <1>1, <1>5, <2>1, <3>1
    <3>2. CASE k \in DOMAIN link[d].results
      BY <1>1, <1>5, <2>1, <3>2 DEF OrderInv, SettledInv, DoneInv
    <3> QED BY <1>2, <2>1, <3>1, <3>2
  <2> QED BY <1>1, <1>5, <2>1 DEF OrderInv, SettledInv, DoneInv
<1>9. SettledInv' BY <1>7, <1>8 DEF SettledInv
<1> QED BY <1>3, <1>6, <1>9 DEF OrderInv

LEMMA CheckKeepsOrder == ASSUME ProtocolInv, OrderInv, NEW c \in Conns, CheckItem(c) PROVE OrderInv'
<1>1. /\ DOMAIN link[c].results # DOMAIN link[c].items
      /\ Duplicate(c) \/ LoadEntity(c)
      /\ UNCHANGED <<server, disk, thread>>
  BY DEF CheckItem
<1>2. CASE LoadEntity(c) BY <1>1, <1>2, LoadKeepsOrder
<1>3. CASE Duplicate(c)
  <2> DEFINE k == Due(c)  r == [status |-> "ok", ver |-> Reads(c, k).ver]
  <2>1. Reads(c, k) # NoRow /\ Reply(c, r) BY <1>3 DEF Duplicate
  <2>2. k \in Keys BY <1>1, DueFacts
  <2>3. com[k] \in Result \cup {NoRow} /\ cur[k] \in Result \cup {NoRow}
    BY <2>2 DEF ProtocolInv, Shape, Tables
  <2>4. Reads(c, k) \in Result /\ (com[k] # NoRow \/ owner[k] = c) BY <2>1, <2>3 DEF Reads
  <2>5. r \in Result BY <2>4 DEF Result
  <2>6. Settled(k, c) BY <2>4, Apart DEF Settled, Stands
  <2> HIDE DEF r
  <2> QED BY <1>1, <2>1, <2>5, <2>6, AnswerItemKeepsOrder
<1> QED BY <1>1, <1>2, <1>3

\* Without passing faults an update fails only when its outcome is stored, or its
\* row was deleted after it was loaded.
LEMMA FailKeepsOrder ==
  ASSUME ProtocolInv, OrderInv, NEW c \in Conns, ~Faults, FailItem(c) PROVE OrderInv'
<1> DEFINE r == [status |-> "error", ver |-> 0]  k == Due(c)  e == Entity(c)
<1>1. /\ link[c].stage = "apply" /\ Reply(c, r) /\ UNCHANGED <<server, disk, thread>>
      /\ Unlocked(c, k) /\ Unlocked(c, e) /\ Raises(c)
  BY DEF FailItem
<1>2. r \in Result BY DEF Result
<1>3. DOMAIN link[c].results # DOMAIN link[c].items BY <1>1 DEF ProtocolInv, RequestsInv
<1>4. k \in Keys /\ k \in Things /\ e \in Entities /\ e \in Things /\ queue[k].ent = e
  BY <1>3, DueFacts DEF Entity
<1>5. ASSUME queue[k].op = "UPDATE" PROVE Settled(k, c)
  <2>1. CASE cur[k] # NoRow
    <3>1. owner[k] = c \/ com[k] # NoRow BY <1>1, <1>4, <2>1 DEF Unlocked, ProtocolInv, LocksInv
    <3> QED BY <3>1, Apart DEF Settled, Stands
  <2>2. CASE cur[k] = NoRow
    <3>1. Effect(c).write /\ ~Present(cur[e]) BY <1>1, <1>5, <2>2 DEF Raises
    <3>2. Present(link[c].load) BY <1>5, <3>1 DEF Effect, Update
    <3>3. /\ com[e] # NoRow \/ owner[e] = c
          /\ owner[e] = c => link[c].load = cur[e]
      BY <1>1, <3>2 DEF OrderInv, LoadedInv
    <3>4. owner[e] = NoConn BY <1>1, <3>1, <3>2, <3>3 DEF Unlocked
    <3>5. cur[e] = com[e] BY <1>4, <3>4 DEF ProtocolInv, LocksInv
    <3>6. com[e] = Gone BY <3>1, <3>3, <3>4, <3>5, Apart DEF Present
    <3> QED BY <1>4, <3>6 DEF Settled
  <2> QED BY <2>1, <2>2
<1> HIDE DEF r, k, e
<1>6. queue[Due(c)].op = "UPDATE" => Settled(Due(c), c) BY <1>5 DEF k
<1> QED BY <1>1, <1>2, <1>3, <1>6, AnswerItemKeepsOrder
\* The row that a request writes; the others keep their rows and their owners.
LEMMA ApplyFacts ==
  ASSUME ProtocolInv, NEW c \in Conns, ApplyItem(c)
  PROVE  LET k == Due(c)  e == Entity(c)  f == Effect(c) IN
         /\ k \in DOMAIN link[c].items \ DOMAIN link[c].results
         /\ k \in DOMAIN queue /\ k \in Keys /\ e \in Entities /\ queue[k].ent = e
         /\ queue[k].op \in Ops
         /\ owner[k] = NoConn /\ cur[k] = NoRow /\ com[k] = NoRow
         /\ UNCHANGED <<com, queue, answer>>
         /\ owner'[k] = c /\ \A j \in Keys \ {k} : owner'[j] = owner[j]
         /\ f.write => /\ cur'[e] = f.row /\ owner'[e] = c /\ owner[e] \in {c, NoConn}
                       /\ f.row = Gone \/ (f.row \in Row /\ f.row.edit = k)
         /\ ~f.write => cur'[e] = cur[e] /\ owner'[e] = owner[e]
         /\ \A x \in Entities \ {e} : cur'[x] = cur[x] /\ owner'[x] = owner[x]
         /\ DOMAIN link'[c].results = DOMAIN link[c].results \cup {k}
         /\ link'[c].stage = "check" /\ link'[c].items = link[c].items
         /\ \A d \in Conns \ {c} : link'[d] = link[d]
<1> DEFINE k == Due(c)  e == Entity(c)  w == Effect(c).write  row == Effect(c).row
           r == Effect(c).result
<1>1. /\ Reply(c, r) /\ (w => Unlocked(c, e))
      /\ cur' = [cur EXCEPT ![k] = r, ![e] = IF w THEN row ELSE @]
      /\ owner' = [owner EXCEPT ![k] = c, ![e] = IF w THEN c ELSE @]
      /\ UNCHANGED <<com, queue, answer>>
  BY DEF ApplyItem, disk, thread, merging
<1>2. /\ DOMAIN link[c].results # DOMAIN link[c].items
      /\ owner[k] = NoConn /\ cur[k] = NoRow /\ com[k] = NoRow
  BY StoredIsNew
<1>3. /\ k \in DOMAIN link[c].items \ DOMAIN link[c].results /\ k \in DOMAIN queue /\ k \in Keys
      /\ k \in Things /\ e \in Entities /\ e \in Things /\ e # k /\ queue[k].ent = e
      /\ queue[k].op \in Ops
  BY <1>2, DueFacts DEF Entity, Item
<1>4. r \in Result /\ (w => row = Gone \/ (row \in Row /\ row.edit = k)) BY <1>2, EffectFacts
<1>5. /\ link'[c].stage = "check" /\ link'[c].items = link[c].items
      /\ DOMAIN link'[c].results = DOMAIN link[c].results \cup {k}
      /\ \A d \in Conns \ {c} : link'[d] = link[d]
  BY <1>1, <1>2, <1>4, ReplyFacts
<1>6. w => owner[e] \in {c, NoConn} BY <1>1 DEF Unlocked
<1> HIDE DEF k, e, w, row, r
<1>7. /\ cur \in [Things -> Row \cup Absent \cup Result] /\ owner \in [Things -> Conns \cup {NoConn}]
      /\ \A x \in Entities : x \in Things /\ x # k
      /\ \A x \in Keys : x \in Things /\ x # e
  BY <1>3, Apart DEF ProtocolInv, Shape, Tables
<1>8. /\ owner'[k] = c
      /\ w => cur'[e] = row /\ owner'[e] = c
      /\ ~w => cur'[e] = cur[e] /\ owner'[e] = owner[e]
      /\ \A x \in Things \ {k, e} : cur'[x] = cur[x] /\ owner'[x] = owner[x]
  BY <1>1, <1>3, <1>7
<1>9. /\ \A j \in Keys \ {k} : owner'[j] = owner[j]
      /\ \A x \in Entities \ {e} : cur'[x] = cur[x] /\ owner'[x] = owner[x]
  BY <1>7, <1>8
<1> QED BY <1>1, <1>2, <1>3, <1>4, <1>5, <1>6, <1>8, <1>9 DEF k, e, w, row, r

\* A create writes only where there is no row, an update only over one.
LEMMA WriteFacts ==
  ASSUME ProtocolInv, OrderInv, NEW c \in Conns, ApplyItem(c), Effect(c).write
  PROVE  LET k == Due(c)  e == Entity(c) IN
         /\ queue[k].op = "CREATE" =>
              e \notin Old /\ com[e] = NoRow /\ ~Present(cur[e]) /\ \A j \in Updates(e) : ~(j < k)
         /\ queue[k].op = "UPDATE" => Present(cur[e]) /\ com[e] # Gone
         /\ queue[k].op = "DELETE" =>
              Effect(c).row = Gone /\ (com[e] # NoRow \/ (owner[e] = c /\ cur[e] # NoRow))
<1> DEFINE k == Due(c)  e == Entity(c)
<1>1. /\ k \in DOMAIN queue /\ e \in Entities /\ queue[k].ent = e /\ k \in Keys
      /\ com[k] = NoRow
  BY ApplyFacts
<1>2. link[c].stage = "apply" /\ ~Raises(c) BY DEF ApplyItem
<1>3. ASSUME queue[k].op = "CREATE"
      PROVE  e \notin Old /\ com[e] = NoRow /\ ~Present(cur[e]) /\ \A j \in Updates(e) : ~(j < k)
  <2>1. ~Present(cur[e]) BY <1>2, <1>3 DEF Raises
  <2>2. e \notin Old /\ \A j \in DOMAIN queue : j < k => queue[j].ent # e
    BY <1>1, <1>3 DEF OrderInv, CreatedInv
  <2>3. \A j \in Creates(e) : j = k
    <3>1. \A j \in DOMAIN queue : j \in Nat
      BY QueueFacts DEF ProtocolInv, Shape
    <3> QED BY <1>1, <1>3, <2>2, <3>1 DEF OrderInv, CreatedInv, Creates
  <2>4. com[e] = NoRow BY <1>1, <2>2, <2>3 DEF OrderInv, CreatedInv
  <2> QED BY <2>1, <2>2, <2>4 DEF Updates
<1>4. ASSUME queue[k].op = "UPDATE" PROVE Present(cur[e]) /\ com[e] # Gone
  <2>1. Present(cur[e]) BY <1>2, <1>4 DEF Raises
  <2> QED BY <1>1, <2>1 DEF OrderInv, DeletedInv, Present
<1>5. ASSUME queue[k].op = "DELETE"
      PROVE  Effect(c).row = Gone /\ (com[e] # NoRow \/ (owner[e] = c /\ cur[e] # NoRow))
  <2>1. Effect(c) = Delete(c) BY <1>5 DEF Effect
  <2>2. Present(link[c].load) /\ Effect(c).row = Gone BY <2>1 DEF Delete
  <2> QED BY <1>2, <2>2 DEF OrderInv, LoadedInv, Present
<1> QED BY <1>3, <1>4, <1>5

\* What stands with some request stands after an item is applied.
LEMMA ApplyStands ==
  ASSUME ProtocolInv, NEW c \in Conns, ApplyItem(c), NEW j \in Keys, NEW d, Stands(j, d)
  PROVE  Stands(j, d)'
BY ApplyFacts DEF Stands

LEMMA ApplyKeepsOrder ==
  ASSUME ProtocolInv, OrderInv, NEW c \in Conns, ApplyItem(c) PROVE OrderInv'
<1> DEFINE k == Due(c)  e == Entity(c)  w == Effect(c).write  row == Effect(c).row
<1>1. /\ k \in DOMAIN link[c].items \ DOMAIN link[c].results
      /\ k \in DOMAIN queue /\ k \in Keys /\ e \in Entities /\ queue[k].ent = e
      /\ queue[k].op \in Ops
      /\ owner[k] = NoConn /\ com[k] = NoRow
      /\ UNCHANGED <<com, queue, answer>>
      /\ owner'[k] = c
      /\ w => /\ cur'[e] = row /\ owner'[e] = c /\ owner[e] \in {c, NoConn}
              /\ row = Gone \/ (row \in Row /\ row.edit = k)
      /\ ~w => cur'[e] = cur[e] /\ owner'[e] = owner[e]
      /\ \A x \in Entities \ {e} : cur'[x] = cur[x] /\ owner'[x] = owner[x]
  BY ApplyFacts
<1>2. /\ DOMAIN link'[c].results = DOMAIN link[c].results \cup {k}
      /\ link'[c].stage = "check" /\ link'[c].items = link[c].items
      /\ \A d \in Conns \ {c} : link'[d] = link[d]
  BY ApplyFacts
<1>3. w => /\ queue[k].op = "CREATE" =>
                e \notin Old /\ com[e] = NoRow /\ \A j \in Updates(e) : ~(j < k)
           /\ queue[k].op = "UPDATE" => Present(cur[e]) /\ com[e] # Gone
           /\ queue[k].op = "DELETE" =>
                row = Gone /\ (com[e] # NoRow \/ (owner[e] = c /\ cur[e] # NoRow))
  BY WriteFacts
<1>4. \A j \in Keys : \A d : Stands(j, d) => Stands(j, d)' BY ApplyStands
<1>5. c # NoConn BY Apart
<1>7. /\ \A x : Updates(x)' = Updates(x) /\ Creates(x)' = Creates(x)
      /\ \A x : Updates(x) \subseteq DOMAIN queue /\ Creates(x) \subseteq DOMAIN queue
      /\ DOMAIN queue \subseteq Keys
  BY <1>1, QueueFacts DEF Updates, Creates, ProtocolInv, Shape
<1>8. \A j \in Keys : \A d : Settled(j, d) => Settled(j, d)' BY <1>1, <1>4 DEF Settled
<1>9. \A d \in Conns : link'[d].items = link[d].items BY <1>2
<1>10. DOMAIN link[c].items \subseteq DOMAIN queue /\ \A d \in Conns : DOMAIN link[d].results \subseteq DOMAIN queue
  BY DEF ProtocolInv, RequestsInv
<1>11. \A d \in Conns \ {c} : Entity(d)' = Entity(d) BY <1>1, <1>2 DEF Entity, Due
<1>12. ASSUME NEW j \in DOMAIN link[c].items, j \notin DOMAIN link[c].results PROVE k <= j
  <2> DEFINE left == DOMAIN link[c].items \ DOMAIN link[c].results
  <2>1. left \subseteq Nat /\ left # {} BY <1>1, <1>7, <1>10, KeysAreNat
  <2>2. Oldest(left) <= j BY <1>12, <2>1, OldestIsLeast
  <2> QED BY <2>2 DEF Due
<1> HIDE DEF k, e, w, row
<1>13. CreatedInv'
  <2>1. ASSUME NEW x \in Entities \ Old, cur'[x] # NoRow
        PROVE  \E j \in Creates(x) : Stands(j, owner[x])'
    <3>1. CASE ~(x = e /\ w)
      <4>1. cur'[x] = cur[x] /\ owner'[x] = owner[x] BY <1>1, <3>1
      <4>2. PICK j \in Creates(x) : Stands(j, owner[x]) BY <2>1, <4>1 DEF OrderInv, CreatedInv
      <4>3. Stands(j, owner[x])' BY <1>4, <1>7, <4>1, <4>2 DEF Stands
      <4> QED BY <4>3
    <3>2. CASE x = e /\ w
      <4>1. owner'[x] = c BY <1>1, <3>2
      <4>2. CASE queue[k].op = "CREATE"
        <5>1. PICK j \in Creates(x) : j = k BY <1>1, <3>2, <4>2 DEF Creates
        <5> QED BY <1>1, <1>5, <4>1, <5>1 DEF Stands
      <4>3. CASE queue[k].op # "CREATE"
        <5>1. com[x] # NoRow \/ cur[x] # NoRow
          BY <1>1, <1>3, <3>2, <4>3 DEF Ops, Present
        <5>2. \E j \in Creates(x) : Stands(j, owner[x]) BY <5>1 DEF OrderInv, CreatedInv, Stands
        <5>3. PICK j \in Creates(x) : Stands(j, c) BY <1>1, <3>2, <5>2 DEF Stands
        <5>4. Stands(j, c)' BY <1>4, <1>7, <5>3
        <5> QED BY <4>1, <5>4 DEF Stands
      <4> QED BY <4>2, <4>3
    <3> QED BY <3>1, <3>2
  <2> QED BY <1>1, <1>7, <2>1 DEF OrderInv, CreatedInv
<1>14. DeletedInv'
  <2> SUFFICES ASSUME NEW x \in Entities, com[x] = Gone PROVE cur'[x] = Gone
    BY <1>1 DEF DeletedInv
  <2>1. cur[x] = Gone BY DEF OrderInv, DeletedInv
  <2>2. CASE ~(x = e /\ w) BY <1>1, <2>1, <2>2
  <2>3. CASE x = e /\ w BY <1>1, <1>3, <2>3, Apart DEF Ops
  <2> QED BY <2>2, <2>3
<1>15. LoadedInv'
  <2> SUFFICES ASSUME NEW d \in Conns \ {c}, link[d].stage = "apply"
               PROVE  /\ Present(link[d].load) => com[Entity(d)] # NoRow \/ owner'[Entity(d)] = d
                      /\ owner'[Entity(d)] = d => link[d].load = cur'[Entity(d)]
    BY <1>1, <1>2, <1>11 DEF LoadedInv
  <2>1. Entity(d) \in Entities BY DueFacts DEF ProtocolInv, RequestsInv
  <2>2. /\ Present(link[d].load) => com[Entity(d)] # NoRow \/ owner[Entity(d)] = d
        /\ owner[Entity(d)] = d => link[d].load = cur[Entity(d)]
    BY DEF OrderInv, LoadedInv
  <2>3. CASE ~(Entity(d) = e /\ w) BY <1>1, <2>1, <2>2, <2>3
  <2>4. CASE Entity(d) = e /\ w BY <1>1, <2>2, <2>4, Apart
  <2> QED BY <2>3, <2>4
<1>16. ASSUME NEW d \in Conns PROVE TakesAlong(d)'
  <2>1. TakesAlong(d) BY DEF OrderInv, SettledInv
  <2> QED BY <1>1, <1>7, <1>8, <1>9, <2>1 DEF TakesAlong
<1>17. DoneInv'
  <2>1. ASSUME NEW d \in Conns, NEW j \in DOMAIN link'[d].results, queue'[j].op = "UPDATE"
        PROVE  Settled(j, d)'
    <3>1. CASE d = c /\ j = k BY <1>1, <1>5, <3>1 DEF Settled, Stands
    <3>2. CASE j \in DOMAIN link[d].results
      <4>1. j \in Keys /\ Settled(j, d)
        BY <1>1, <1>7, <1>10, <2>1, <3>2 DEF OrderInv, SettledInv, DoneInv
      <4> QED BY <1>8, <4>1
    <3> QED BY <1>2, <2>1, <3>1, <3>2
  <2>2. ASSUME NEW j \in DOMAIN answer, queue[j].op = "UPDATE" PROVE Settled(j, NoConn)'
    <3>1. j \in Keys BY <1>7 DEF ProtocolInv, ThreadInv, Merging, HasSnapshot
    <3> QED BY <1>8, <2>2, <3>1 DEF OrderInv, SettledInv, DoneInv
  <2>3. ASSUME NEW j \in DOMAIN queue, queue[j].op = "UPDATE",
               queue[j].retry > 0 \/ queue[j].status \in {"SYNCED", "CONFLICT"}
        PROVE  Settled(j, NoConn)'
    <3>1. Settled(j, NoConn) BY <2>3 DEF OrderInv, SettledInv, DoneInv
    <3> QED BY <1>7, <1>8, <3>1
  <2> QED BY <1>1, <2>1, <2>2, <2>3 DEF DoneInv
<1>18. SettledInv' BY <1>16, <1>17 DEF SettledInv
<1>19. BehindInv'
  <2> SUFFICES ASSUME NEW x \in Entities, NEW j \in Updates(x)
               PROVE  /\ Present(com[x]) /\ j < com[x].edit => com[j] # NoRow
                      /\ Present(cur'[x]) /\ j < cur'[x].edit => Stands(j, owner[x])'
    BY <1>1, <1>7 DEF BehindInv, Stands
  <2>1. Present(com[x]) /\ j < com[x].edit => com[j] # NoRow BY DEF OrderInv, BehindInv
  <2>2. j \in Keys BY <1>7
  <2>3. ASSUME Present(cur'[x]), j < cur'[x].edit PROVE Stands(j, owner[x])'
    <3>1. CASE ~(x = e /\ w)
      <4>1. cur'[x] = cur[x] /\ owner'[x] = owner[x] BY <1>1, <3>1
      <4>2. Stands(j, owner[x]) BY <2>3, <4>1 DEF OrderInv, BehindInv
      <4> QED BY <1>4, <2>2, <4>1, <4>2 DEF Stands
    <3>2. CASE x = e /\ w
      <4>1. owner'[x] = c /\ j < k BY <1>1, <2>3, <3>2 DEF Present
      <4>2. queue[k].op = "UPDATE" BY <1>1, <1>3, <2>3, <3>2, <4>1 DEF Ops, Present
      <4>3. TakesAlong(c) BY DEF OrderInv, SettledInv
      <4>4. j \in DOMAIN link[c].items \/ Settled(j, NoConn)
        BY <1>1, <3>2, <4>1, <4>3 DEF TakesAlong
      <4>5. Settled(j, c)
        <5>1. CASE j \in DOMAIN link[c].items
          <6>1. j \in Nat /\ k \in Nat BY <1>1, <2>2, KeysAreNat
          <6>2. j \in DOMAIN link[c].results BY <1>12, <4>1, <5>1, <6>1
          <6> QED BY <6>2 DEF Updates, OrderInv, SettledInv, DoneInv
        <5>2. CASE Settled(j, NoConn) BY <5>2 DEF Settled, Stands
        <5> QED BY <4>4, <5>1, <5>2
      <4>6. Stands(j, c) BY <1>3, <3>2, <4>2, <4>5 DEF Settled, Updates
      <4>7. Stands(j, c)' BY <1>4, <2>2, <4>6
      <4> QED BY <4>1, <4>7 DEF Stands
    <3> QED BY <3>1, <3>2
  <2> QED BY <2>1, <2>3
<1> QED BY <1>13, <1>14, <1>15, <1>18, <1>19 DEF OrderInv
\* A request ends: what stands with it stands for good after a commit, and what
\* stands with another request stays.
LEMMA EndStands ==
  ASSUME ProtocolInv, NEW c \in Conns, CommitPush(c) \/ AbortPush(c), NEW j \in Keys
  PROVE  /\ com[j] # NoRow => com'[j] # NoRow
         /\ owner[j] # c => owner'[j] = owner[j]
         /\ CommitPush(c) /\ owner[j] = c => com'[j] # NoRow
<1>1. j \in Things BY Apart
<1>2. /\ owner'[j] = IF owner[j] = c THEN NoConn ELSE owner[j]
      /\ CommitPush(c) => com'[j] = IF owner[j] = c THEN cur[j] ELSE com[j]
      /\ AbortPush(c) => com'[j] = com[j]
  BY <1>1 DEF CommitPush, AbortPush, Release
<1>3. owner[j] = c => com[j] = NoRow /\ cur[j] # NoRow BY Apart DEF ProtocolInv, LocksInv
<1> QED BY <1>2, <1>3

\* The rows of a request that ends.
LEMMA EndFacts ==
  ASSUME ProtocolInv, NEW c \in Conns, CommitPush(c) \/ AbortPush(c)
  PROVE  /\ UNCHANGED <<queue, answer>>
         /\ \A x \in Entities :
              /\ owner[x] # c => owner'[x] = owner[x] /\ com'[x] = com[x] /\ cur'[x] = cur[x]
              /\ owner[x] = c => /\ owner'[x] = NoConn /\ cur[x] # NoRow
                                 /\ CommitPush(c) => com'[x] = cur[x] /\ cur'[x] = cur[x]
                                 /\ AbortPush(c) => com'[x] = com[x] /\ cur'[x] = com[x]
         /\ link'[c].stage # "apply" /\ \A d \in Conns \ {c} : link'[d] = link[d]
         /\ DOMAIN link'[c].items \in {{}, DOMAIN link[c].items}
         /\ DOMAIN link'[c].results \in {{}, DOMAIN link[c].results}
         /\ AbortPush(c) => DOMAIN link'[c].results = {}
<1>1. UNCHANGED <<queue, answer>> BY DEF CommitPush, AbortPush, Release, disk, thread, merging
<1>2. \A x \in Entities : owner[x] = c => cur[x] # NoRow
  BY Apart DEF ProtocolInv, LocksInv
<1>3. \A x \in Entities :
        /\ owner'[x] = IF owner[x] = c THEN NoConn ELSE owner[x]
        /\ CommitPush(c) => cur'[x] = cur[x] /\ com'[x] = IF owner[x] = c THEN cur[x] ELSE com[x]
        /\ AbortPush(c) => com'[x] = com[x] /\ cur'[x] = IF owner[x] = c THEN com[x] ELSE cur[x]
  BY Apart DEF CommitPush, AbortPush, Release
<1>4. link \in [Conns -> Links] BY DEF ProtocolInv, Shape
<1>5. CASE CommitPush(c)
  <2>1. link' = [link EXCEPT ![c].stage = "answered"] BY <1>5 DEF CommitPush
  <2>2. /\ link'[c].stage = "answered" /\ link'[c].items = link[c].items
        /\ link'[c].results = link[c].results /\ \A d \in Conns \ {c} : link'[d] = link[d]
    BY <1>4, <2>1 DEF Links
  <2>3. ~AbortPush(c) BY <1>4, <2>2, UnusedFacts DEF AbortPush
  <2> QED BY <1>1, <1>2, <1>3, <2>2, <2>3
<1>6. CASE AbortPush(c)
  <2>1. link' = [link EXCEPT ![c] = Unused] BY <1>6 DEF AbortPush
  <2>2. link'[c] = Unused /\ \A d \in Conns \ {c} : link'[d] = link[d] BY <1>4, <2>1
  <2> QED BY <1>1, <1>2, <1>3, <2>2, UnusedFacts
<1> QED BY <1>5, <1>6

LEMMA EndKeepsOrder ==
  ASSUME ProtocolInv, OrderInv, NEW c \in Conns, CommitPush(c) \/ AbortPush(c) PROVE OrderInv'
<1>1. /\ UNCHANGED <<queue, answer>>
      /\ \A x \in Entities :
           /\ owner[x] # c => owner'[x] = owner[x] /\ com'[x] = com[x] /\ cur'[x] = cur[x]
           /\ owner[x] = c => /\ owner'[x] = NoConn /\ cur[x] # NoRow
                              /\ CommitPush(c) => com'[x] = cur[x] /\ cur'[x] = cur[x]
                              /\ AbortPush(c) => com'[x] = com[x] /\ cur'[x] = com[x]
      /\ link'[c].stage # "apply" /\ \A d \in Conns \ {c} : link'[d] = link[d]
      /\ DOMAIN link'[c].items \in {{}, DOMAIN link[c].items}
      /\ DOMAIN link'[c].results \in {{}, DOMAIN link[c].results}
      /\ AbortPush(c) => DOMAIN link'[c].results = {}
  BY EndFacts
<1>2. ASSUME NEW j \in Keys
      PROVE  /\ com[j] # NoRow => com'[j] # NoRow
             /\ owner[j] # c => owner'[j] = owner[j]
             /\ CommitPush(c) /\ owner[j] = c => com'[j] # NoRow
  BY EndStands
<1>3. ASSUME NEW x \in Entities, com[x] = Gone PROVE com'[x] = Gone
  BY <1>1, <1>3 DEF OrderInv, DeletedInv
<1>4. /\ \A x : Updates(x)' = Updates(x) /\ Creates(x)' = Creates(x)
      /\ \A x : Updates(x) \subseteq DOMAIN queue /\ Creates(x) \subseteq DOMAIN queue
      /\ DOMAIN queue \subseteq Keys /\ \A k \in DOMAIN queue : queue[k].ent \in Entities
  BY <1>1, QueueFacts DEF Updates, Creates, ProtocolInv, Shape, Item
<1>5. ASSUME NEW j \in Keys, NEW d, d # c \/ CommitPush(c), Stands(j, d) PROVE Stands(j, d)'
  BY <1>2, <1>5 DEF Stands
<1>6. ASSUME NEW j \in Keys, Stands(j, c), CommitPush(c) PROVE com'[j] # NoRow
  BY <1>2, <1>6 DEF Stands
<1>7. ASSUME NEW j \in DOMAIN queue, NEW d, d # c \/ CommitPush(c), Settled(j, d)
      PROVE  Settled(j, d)'
  <2>1. j \in Keys /\ queue[j].ent \in Entities BY <1>4
  <2> QED BY <1>1, <1>3, <1>5, <1>7, <2>1 DEF Settled
<1>8. NoConn # c BY Apart
<1>9. CreatedInv'
  <2>1. ASSUME NEW x \in Entities \ Old
        PROVE  /\ com'[x] # NoRow => \E j \in Creates(x) : com'[j] # NoRow
               /\ cur'[x] # NoRow => \E j \in Creates(x) : Stands(j, owner[x])'
    <3>1. /\ com[x] # NoRow => \E j \in Creates(x) : com[j] # NoRow
          /\ cur[x] # NoRow => \E j \in Creates(x) : Stands(j, owner[x])
      BY DEF OrderInv, CreatedInv
    <3>2. CASE owner[x] # c
      <4>1. owner'[x] = owner[x] /\ com'[x] = com[x] /\ cur'[x] = cur[x] BY <1>1, <3>2
      <4>2. \A j \in Creates(x) : com[j] # NoRow => com'[j] # NoRow BY <1>2, <1>4
      <4>3. \A j \in Creates(x) : Stands(j, owner[x]) => Stands(j, owner[x])'
        BY <1>4, <1>5, <3>2, <4>1 DEF Stands
      <4> QED BY <3>1, <4>1, <4>2, <4>3
    <3>3. CASE owner[x] = c /\ CommitPush(c)
      <4>1. PICK j \in Creates(x) : Stands(j, c) BY <1>1, <3>1, <3>3
      <4>2. com'[j] # NoRow BY <1>4, <1>6, <3>3, <4>1
      <4> QED BY <4>2 DEF Stands
    <3>4. CASE owner[x] = c /\ AbortPush(c)
      <4>1. com'[x] = com[x] /\ cur'[x] = com[x] BY <1>1, <3>4
      <4>2. \A j \in Creates(x) : com[j] # NoRow => com'[j] # NoRow BY <1>2, <1>4
      <4> QED BY <3>1, <4>1, <4>2 DEF Stands
    <3> QED BY <3>2, <3>3, <3>4
  <2> QED BY <1>1, <1>4, <2>1 DEF OrderInv, CreatedInv
<1>10. DeletedInv' BY <1>1 DEF OrderInv, DeletedInv
<1>11. LoadedInv'
  <2> SUFFICES ASSUME NEW d \in Conns \ {c}, link[d].stage = "apply"
               PROVE  /\ Present(link[d].load) => com'[Entity(d)] # NoRow \/ owner'[Entity(d)] = d
                      /\ owner'[Entity(d)] = d => link[d].load = cur'[Entity(d)]
    <3>1. \A d \in Conns \ {c} : Entity(d)' = Entity(d) BY <1>1 DEF Entity, Due
    <3> QED BY <1>1, <3>1 DEF LoadedInv
  <2>1. Entity(d) \in Entities BY DueFacts DEF ProtocolInv, RequestsInv
  <2>2. /\ Present(link[d].load) => com[Entity(d)] # NoRow \/ owner[Entity(d)] = d
        /\ owner[Entity(d)] = d => link[d].load = cur[Entity(d)]
    BY DEF OrderInv, LoadedInv
  <2>3. d # NoConn BY Apart
  <2> QED BY <1>1, <2>1, <2>2, <2>3
<1>12. ASSUME NEW d \in Conns PROVE TakesAlong(d)'
  <2>1. TakesAlong(d) /\ DOMAIN link'[d].items \in {{}, DOMAIN link[d].items}
    BY <1>1 DEF OrderInv, SettledInv
  <2> QED BY <1>1, <1>4, <1>7, <1>8, <2>1 DEF TakesAlong
<1>13. DoneInv'
  <2>1. ASSUME NEW d \in Conns, NEW k \in DOMAIN link'[d].results, queue'[k].op = "UPDATE"
        PROVE  Settled(k, d)'
    <3>1. k \in DOMAIN link[d].results /\ (d # c \/ CommitPush(c)) BY <1>1, <2>1
    <3>2. k \in DOMAIN queue BY <3>1 DEF ProtocolInv, RequestsInv
    <3>3. Settled(k, d) BY <1>1, <2>1, <3>1 DEF OrderInv, SettledInv, DoneInv
    <3> QED BY <1>7, <3>1, <3>2, <3>3
  <2>2. ASSUME NEW k \in DOMAIN answer, queue[k].op = "UPDATE" PROVE Settled(k, NoConn)'
    <3>1. k \in DOMAIN queue BY DEF ProtocolInv, ThreadInv, Merging, HasSnapshot
    <3> QED BY <1>7, <1>8, <2>2, <3>1 DEF OrderInv, SettledInv, DoneInv
  <2>3. ASSUME NEW k \in DOMAIN queue, queue[k].op = "UPDATE",
               queue[k].retry > 0 \/ queue[k].status \in {"SYNCED", "CONFLICT"}
        PROVE  Settled(k, NoConn)'
    <3>1. Settled(k, NoConn) BY <2>3 DEF OrderInv, SettledInv, DoneInv
    <3> QED BY <1>7, <1>8, <3>1
  <2> QED BY <1>1, <2>1, <2>2, <2>3 DEF DoneInv
<1>14. SettledInv' BY <1>12, <1>13 DEF SettledInv
<1>15. BehindInv'
  <2> SUFFICES ASSUME NEW x \in Entities, NEW j \in Updates(x)
               PROVE  /\ Present(com'[x]) /\ j < com'[x].edit => com'[j] # NoRow
                      /\ Present(cur'[x]) /\ j < cur'[x].edit => Stands(j, owner[x])'
    BY <1>4 DEF BehindInv
  <2>1. j \in Keys BY <1>4
  <2>2. /\ Present(com[x]) /\ j < com[x].edit => com[j] # NoRow
        /\ Present(cur[x]) /\ j < cur[x].edit => Stands(j, owner[x])
    BY DEF OrderInv, BehindInv
  <2>3. CASE owner[x] # c
    <3>1. owner'[x] = owner[x] /\ com'[x] = com[x] /\ cur'[x] = cur[x] BY <1>1, <2>3
    <3>2. Stands(j, owner[x]) => Stands(j, owner[x])' BY <1>5, <2>1, <2>3, <3>1 DEF Stands
    <3> QED BY <1>2, <2>1, <2>2, <3>1, <3>2
  <2>4. CASE owner[x] = c /\ CommitPush(c)
    <3>1. com'[x] = cur[x] /\ cur'[x] = cur[x] BY <1>1, <2>4
    <3> QED BY <1>6, <2>1, <2>2, <2>4, <3>1 DEF Stands
  <2>5. CASE owner[x] = c /\ AbortPush(c)
    <3>1. com'[x] = com[x] /\ cur'[x] = com[x] BY <1>1, <2>5
    <3> QED BY <1>2, <2>1, <2>2, <3>1 DEF Stands
  <2> QED BY <2>3, <2>4, <2>5
<1> QED BY <1>9, <1>10, <1>11, <1>14, <1>15 DEF OrderInv

LEMMA ServeKeepsOrder ==
  ASSUME ProtocolInv, OrderInv, ~Faults, NEW c \in Conns, Serve(c) PROVE OrderInv'
<1>1. CASE Arrive(c) BY <1>1, QuietKeepsOrder
<1>2. CASE Lose(c) BY <1>2, QuietKeepsOrder DEF Lose
<1>3. CASE Discard(c) BY <1>3, QuietKeepsOrder DEF Discard
<1>4. CASE CheckItem(c) BY <1>4, CheckKeepsOrder
<1>5. CASE ApplyItem(c) BY <1>5, ApplyKeepsOrder
<1>6. CASE FailItem(c) BY <1>6, FailKeepsOrder
<1>7. CASE CommitPush(c) BY <1>7, EndKeepsOrder
<1>8. CASE AbortPush(c) BY <1>8, EndKeepsOrder
<1> QED BY <1>1, <1>2, <1>3, <1>4, <1>5, <1>6, <1>7, <1>8 DEF Serve

\* Others write committed rows that no request owns.
LEMMA WriteKeepsOrder ==
  ASSUME ProtocolInv, OrderInv, NEW e \in Entities, NEW row \in Row \cup {Gone}, WebWrite(e, row),
         row \in Row => row.edit = com[e].edit
  PROVE  OrderInv'
<1>1. /\ Present(com[e]) /\ owner[e] = NoConn /\ e \in Things
      /\ com' = [com EXCEPT ![e] = row] /\ cur' = [cur EXCEPT ![e] = row]
      /\ UNCHANGED <<owner, link, queue, answer>>
  BY Apart DEF WebWrite, disk, thread, merging
<1>2. com \in Tables /\ cur \in Tables BY DEF ProtocolInv, Shape
<1>3. /\ com'[e] = row /\ cur'[e] = row
      /\ \A x \in Things \ {e} : com'[x] = com[x] /\ cur'[x] = cur[x]
  BY <1>1, <1>2 DEF Tables
<1>4. /\ \A x \in Entities \ {e} : com'[x] = com[x] /\ cur'[x] = cur[x]
      /\ \A k \in Keys : com'[k] = com[k]
  BY <1>3, Apart
<1>5. \A x : Updates(x)' = Updates(x) /\ Creates(x)' = Creates(x)
  BY <1>1 DEF Updates, Creates
<1>6. /\ \A x : Updates(x) \subseteq DOMAIN queue /\ Creates(x) \subseteq DOMAIN queue
      /\ DOMAIN queue \subseteq Keys
  BY QueueFacts DEF Updates, Creates, ProtocolInv, Shape
<1>7. \A j \in Keys : \A d : Stands(j, d)' <=> Stands(j, d) BY <1>1, <1>4 DEF Stands
<1>8. \A x \in Entities : com[x] = Gone => com'[x] = Gone BY <1>1, <1>4 DEF Present
<1>9. ASSUME NEW j \in DOMAIN queue, NEW d, Settled(j, d) PROVE Settled(j, d)'
  <2>1. queue[j].ent \in Entities /\ j \in Keys
    BY <1>6, QueueFacts DEF ProtocolInv, Shape, Item
  <2> QED BY <1>1, <1>7, <1>8, <1>9, <2>1 DEF Settled
<1>10. com[e] # NoRow /\ row # NoRow BY <1>1, Apart DEF Present
<1>11. cur[e] = com[e] BY <1>1 DEF ProtocolInv, LocksInv
<1>12. CreatedInv'
  <2>1. ASSUME NEW x \in Entities \ Old
        PROVE  /\ com'[x] # NoRow => \E j \in Creates(x) : com'[j] # NoRow
               /\ cur'[x] # NoRow => \E j \in Creates(x) : Stands(j, owner[x])'
    <3>1. com'[x] # NoRow => com[x] # NoRow BY <1>4, <1>10
    <3>2. cur'[x] # NoRow => cur[x] # NoRow BY <1>4, <1>10, <1>11
    <3>3. \A j \in Creates(x) : Stands(j, owner[x]) => Stands(j, owner[x])'
      BY <1>1, <1>6, <1>7 DEF Stands
    <3> QED BY <1>4, <1>6, <3>1, <3>2, <3>3 DEF OrderInv, CreatedInv
  <2> QED BY <1>1, <1>5, <2>1 DEF OrderInv, CreatedInv
<1>13. DeletedInv' BY <1>3, <1>4 DEF OrderInv, DeletedInv
<1>14. LoadedInv'
  <2> SUFFICES ASSUME NEW d \in Conns, link[d].stage = "apply"
               PROVE  /\ Present(link[d].load) => com'[Entity(d)] # NoRow \/ owner[Entity(d)] = d
                      /\ owner[Entity(d)] = d => link[d].load = cur'[Entity(d)]
    BY <1>1 DEF LoadedInv, Entity, Due
  <2>1. Entity(d) \in Entities BY DueFacts DEF ProtocolInv, RequestsInv
  <2>2. /\ Present(link[d].load) => com[Entity(d)] # NoRow \/ owner[Entity(d)] = d
        /\ owner[Entity(d)] = d => link[d].load = cur[Entity(d)]
    BY DEF OrderInv, LoadedInv
  <2>3. d # NoConn BY Apart
  <2>4. CASE Entity(d) = e BY <1>1, <1>3, <1>10, <2>3, <2>4
  <2>5. CASE Entity(d) # e BY <1>4, <2>1, <2>2, <2>5
  <2> QED BY <2>4, <2>5
<1>15. ASSUME NEW d \in Conns PROVE TakesAlong(d)'
  <2>1. TakesAlong(d) BY DEF OrderInv, SettledInv
  <2> QED BY <1>1, <1>5, <1>6, <1>9, <2>1 DEF TakesAlong
<1>16. DoneInv'
  <2>1. DOMAIN answer \subseteq DOMAIN queue /\ \A d \in Conns : DOMAIN link[d].results \subseteq DOMAIN queue
    BY DEF ProtocolInv, ThreadInv, RequestsInv, Merging, HasSnapshot
  <2>2. DoneInv BY DEF OrderInv, SettledInv
  <2>3. ASSUME NEW d \in Conns, NEW k \in DOMAIN link[d].results, queue[k].op = "UPDATE"
        PROVE  Settled(k, d)'
    BY <1>9, <2>1, <2>2, <2>3 DEF DoneInv
  <2>4. ASSUME NEW k \in DOMAIN answer, queue[k].op = "UPDATE" PROVE Settled(k, NoConn)'
    BY <1>9, <2>1, <2>2, <2>4 DEF DoneInv
  <2>5. ASSUME NEW k \in DOMAIN queue, queue[k].op = "UPDATE",
               queue[k].retry > 0 \/ queue[k].status \in {"SYNCED", "CONFLICT"}
        PROVE  Settled(k, NoConn)'
    BY <1>9, <2>2, <2>5 DEF DoneInv
  <2> QED BY <1>1, <2>3, <2>4, <2>5 DEF DoneInv
<1>17. SettledInv' BY <1>15, <1>16 DEF SettledInv
<1>18. BehindInv'
  <2> SUFFICES ASSUME NEW x \in Entities, NEW j \in Updates(x)
               PROVE  /\ Present(com'[x]) /\ j < com'[x].edit => com'[j] # NoRow
                      /\ Present(cur'[x]) /\ j < cur'[x].edit => Stands(j, owner[x])'
    BY <1>5 DEF BehindInv
  <2>1. /\ Present(com[x]) /\ j < com[x].edit => com[j] # NoRow
        /\ Present(cur[x]) /\ j < cur[x].edit => Stands(j, owner[x])
    BY DEF OrderInv, BehindInv
  <2>2. j \in Keys /\ com'[j] = com[j] BY <1>4, <1>6
  <2>3. Stands(j, owner[x]) => Stands(j, owner[x])' BY <1>1, <1>7, <2>2 DEF Stands
  <2>4. CASE x # e BY <1>4, <2>1, <2>2, <2>3, <2>4
  <2>5. CASE x = e
    <3>1. Present(row) => row.edit = com[e].edit BY DEF Present
    <3> QED BY <1>1, <1>3, <2>1, <2>2, <2>5, <3>1 DEF Stands
  <2> QED BY <2>4, <2>5
<1> QED BY <1>12, <1>13, <1>14, <1>17, <1>18 DEF OrderInv

LEMMA WebKeepsOrder == ASSUME ProtocolInv, OrderInv, NEW e \in Entities, Web(e) PROVE OrderInv'
<1>1. CASE WebUpdate(e)
  <2> DEFINE r == [com[e] EXCEPT !.ver = @ + 1, !.web = @ + 1]
  <2>1. com[e] \in Row /\ com[e].web < MaxWeb /\ WebWrite(e, r)
    BY <1>1 DEF WebUpdate, Present, ProtocolInv, Shape, Tables, Absent
  <2>2. com[e].ver + 1 \in Nat /\ com[e].web + 1 \in 0 .. MaxWeb
    BY <2>1, RowFacts, BoundAssumption
  <2>3. r \in Row /\ r.edit = com[e].edit BY <2>1, <2>2 DEF Row
  <2> HIDE DEF r
  <2> QED BY <2>1, <2>3, WriteKeepsOrder
<1>2. CASE WebDelete(e) BY <1>2, WriteKeepsOrder, Apart DEF WebDelete
<1>3. CASE WebTake(e) BY <1>3, ThreadKeepsOrder DEF WebTake, disk, thread, merging
<1> QED BY <1>1, <1>2, <1>3 DEF Web

LEMMA NextKeepsOrder == ASSUME ~Faults, ProtocolInv, OrderInv, [Next]_vars PROVE OrderInv'
<1>1. CASE Engine BY <1>1, EngineKeepsOrder
<1>2. CASE \E e \in Entities : User(e) BY <1>2, UserKeepsOrder
<1>3. CASE \E e \in Entities : Web(e) BY <1>3, WebKeepsOrder
<1>4. CASE \E c \in Conns : Serve(c) BY <1>4, ServeKeepsOrder
<1>5. CASE UNCHANGED vars BY <1>5, ThreadKeepsOrder DEF vars, server, disk, thread, merging
<1> QED BY <1>1, <1>2, <1>3, <1>4, <1>5 DEF Next

\* With the queue in order, get_pending, the locks of process_push and the stored
\* keys leave no update behind a later one of its row.
THEOREM OrderInvHolds == ASSUME ~Faults PROVE Spec => []OrderInv
<1>1. Init => OrderInv BY InitOrder
<1>2. ProtocolInv /\ OrderInv /\ [Next]_vars => OrderInv' BY NextKeepsOrder
<1> QED BY <1>1, <1>2, ProtocolInvHolds, PTL DEF Spec

\* A request that writes a row writes a later edit over an earlier one.
LEMMA WritesLater ==
  ASSUME ProtocolInv, OrderInv, [Next]_vars, NEW e \in Entities,
         owner'[e] # NoConn, Present(cur[e]), Present(cur'[e])
  PROVE  cur'[e].edit >= cur[e].edit
<1>1. cur[e] \in Row /\ cur[e].edit \in Nat
  <2>1. cur[e] \in Row BY DEF ProtocolInv, Shape, Tables, Present, Absent
  <2>2. cur[e].edit \in 0 .. MaxEdits BY <2>1 DEF Row
  <2> QED BY <2>1, <2>2
<1>2. CASE cur'[e] = cur[e] BY <1>1, <1>2
<1>3. CASE cur'[e] # cur[e]
  <2>1. ~UNCHANGED cur BY <1>3
  <2>2. ~Engine
    BY <2>1 DEF Engine, PushChanges, NothingToPush, GiveUp, ReceiveAnswer, MarkItem, AdoptVersion,
         PushDone, PullChanges, Bootstrap, Fetch, BeginMerge, ReadPending, LoadRow, ApplyPulledItems,
         ApplyBootstrap, ApplyMerge, Finish, Restart, server
  <2>3. \A x \in Entities : ~User(x)
    BY <2>1 DEF User, CreateLocal, UpdateLocal, DeleteLocal, server
  <2>4. \A x \in Entities : ~Web(x)
    <3> SUFFICES ASSUME NEW x \in Entities, Web(x) PROVE FALSE OBVIOUS
    <3>1. PICK row : WebWrite(x, row) BY <2>1 DEF Web, WebUpdate, WebDelete, WebTake
    <3>2. x # e BY <3>1 DEF WebWrite
    <3> QED BY <1>3, <3>1, <3>2 DEF WebWrite
  <2>5. PICK c \in Conns : ApplyItem(c) \/ AbortPush(c)
    BY <2>1, <2>2, <2>3, <2>4 DEF Next, vars, server, Serve, Arrive, Lose, Discard, Close, CheckItem,
         FailItem, CommitPush
  <2>6. ~AbortPush(c) BY <1>3, EndFacts
  <2>7. ApplyItem(c) BY <2>5, <2>6
  <2> DEFINE k == Due(c)  w == Effect(c).write  row == Effect(c).row
  <2>8. /\ k \in DOMAIN queue /\ k \in Keys /\ queue[k].op \in Ops /\ com[k] = NoRow
        /\ owner[k] = NoConn /\ queue[k].ent = Entity(c)
        /\ e = Entity(c) /\ w /\ cur'[e] = row /\ (row = Gone \/ row.edit = k)
    BY <1>3, <2>7, ApplyFacts
  <2>9. row # Gone /\ ~(queue[k].op = "CREATE") /\ ~(queue[k].op = "DELETE")
    BY <2>7, <2>8, WriteFacts DEF Present
  <2> HIDE DEF k, w, row
  <2>10. k \in Updates(e) BY <2>8, <2>9 DEF Updates, Ops
  <2>11. ~Stands(k, owner[e]) BY <2>8 DEF Stands
  <2>12. ~(k < cur[e].edit) BY <2>10, <2>11 DEF OrderInv, BehindInv
  <2> QED BY <1>1, <2>8, <2>9, <2>12, KeysAreNat
<1> QED BY <1>2, <1>3

\* get_pending and process_push apply the edits of a row in the order they were
\* made, whichever requests overlap, are lost or resent and whichever are refused,
\* as long as no item fails for a passing reason.
THEOREM InOrderHolds == ASSUME ~Faults PROVE Spec => InOrder
<1> DEFINE A == \A e \in Entities :
                 owner'[e] # NoConn /\ Present(cur[e]) /\ Present(cur'[e])
                   => cur'[e].edit >= cur[e].edit
<1>1. ProtocolInv /\ OrderInv /\ [Next]_vars => [A]_vars BY WritesLater
<1> QED BY <1>1, ProtocolInvHolds, OrderInvHolds, PTL DEF Spec, InOrder

(***************************************************************************)
(* What the ledger of edits rests on.                                      *)
(***************************************************************************)
LEMMA InitLedger == Init => LedgerInv
<1> SUFFICES ASSUME Init PROVE LedgerInv OBVIOUS
<1>1. \A x \in Things : owner[x] = NoConn BY DEF Init
<1>2. Nothing = answer /\ DOMAIN Nothing = {} /\ phase = "idle" BY DEF Init, Nothing
<1>3. \A c \in Conns : DOMAIN link[c].results = {} BY UnusedFacts DEF Init
<1>4. AuthorsInv BY <1>1, Apart DEF AuthorsInv
<1>5. ConflictsInv BY <1>2, <1>3 DEF ConflictsInv
<1>6. OpenInv BY <1>2 DEF OpenInv
<1> QED BY <1>4, <1>5, <1>6 DEF LedgerInv

\* The three parts survive whatever leaves their state alone.
LEMMA AuthorsStay ==
  ASSUME AuthorsInv, UNCHANGED <<cur, owner>>, DOMAIN queue \subseteq DOMAIN queue',
         \A k \in DOMAIN queue : queue'[k].ent = queue[k].ent /\ queue'[k].op = queue[k].op
  PROVE  AuthorsInv'
<1>1. \A k \in Keys : owner'[k] # NoConn => k \in DOMAIN queue' BY DEF AuthorsInv
<1>2. ASSUME NEW e \in Entities, owner[e] # NoConn
      PROVE  \E k \in DOMAIN queue' : owner'[k] = owner'[e] /\ WroteIt(k, e)'
  <2>1. PICK k \in DOMAIN queue : owner[k] = owner[e] /\ WroteIt(k, e) BY <1>2 DEF AuthorsInv
  <2>2. WroteIt(k, e)' BY <2>1 DEF WroteIt
  <2> QED BY <2>1, <2>2
<1> QED BY <1>1, <1>2 DEF AuthorsInv

LEMMA ConflictsStay ==
  ASSUME ConflictsInv, UNCHANGED owner,
         \A k \in Keys : com'[k] = com[k] /\ cur'[k] = cur[k],
         \A c \in Conns : DOMAIN link'[c].results \subseteq Keys,
         DOMAIN answer' \subseteq Keys,
         \A c \in Conns : \A k \in DOMAIN link'[c].results :
           link'[c].results[k].status # "conflict"
             \/ (k \in DOMAIN link[c].results /\ link'[c].results[k] = link[c].results[k]),
         \A k \in DOMAIN answer' : k \in DOMAIN answer /\ answer'[k] = answer[k]
  PROVE  ConflictsInv'
BY DEF ConflictsInv

\* The results of a request and the answer are about keys.
LEMMA ResultKeys ==
  ASSUME ProtocolInv
  PROVE  /\ \A c \in Conns : DOMAIN link[c].results \subseteq Keys
         /\ DOMAIN answer \subseteq Keys /\ DOMAIN queue \subseteq Keys
<1>1. DOMAIN queue \subseteq Keys BY QueueFacts DEF ProtocolInv, Shape
<1> QED BY <1>1 DEF ProtocolInv, RequestsInv, ThreadInv, Merging, HasSnapshot

LEMMA OpenStays ==
  ASSUME ProtocolInv, OpenInv, \A k \in DOMAIN queue : queue'[k].status = queue[k].status,
         UNCHANGED <<phase, conn, answer>>,
         phase = "wait" => DOMAIN link'[conn].items \subseteq DOMAIN link[conn].items
  PROVE  OpenInv'
<1>1. DOMAIN answer \subseteq DOMAIN queue
      /\ (phase = "wait" => conn \in Conns /\ DOMAIN link[conn].items \subseteq DOMAIN queue)
  BY DEF ProtocolInv, ThreadInv, RequestsInv, Merging, HasSnapshot
<1> QED BY <1>1 DEF OpenInv, Open

(***************************************************************************)
(* The user and the sync thread.                                           *)
(***************************************************************************)
LEMMA UserKeepsLedger ==
  ASSUME ProtocolInv, LedgerInv, NEW e \in Entities, User(e) PROVE LedgerInv'
<1>1. UNCHANGED <<com, cur, owner, link, phase, conn, answer>>
  BY DEF User, CreateLocal, UpdateLocal, DeleteLocal, server, thread, merging
<1>2. \E it : queue' = Append(queue, it)
  BY DEF User, CreateLocal, UpdateLocal, DeleteLocal, Enqueue
<1>3. DOMAIN queue \subseteq DOMAIN queue' /\ \A k \in DOMAIN queue : queue'[k] = queue[k]
  BY <1>2 DEF ProtocolInv, Shape
<1>4. AuthorsInv' BY <1>1, <1>3, AuthorsStay DEF LedgerInv
<1>5. ConflictsInv' BY <1>1, ResultKeys, ConflictsStay DEF LedgerInv
<1>6. OpenInv' BY <1>1, <1>3, OpenStays DEF LedgerInv
<1> QED BY <1>4, <1>5, <1>6 DEF LedgerInv

LEMMA ThreadKeepsLedger ==
  ASSUME ProtocolInv, LedgerInv, UNCHANGED <<server, link, queue>>,
         phase' \notin {"wait", "adopt"},
         \/ phase # "adopt" /\ answer' = answer
         \/ DOMAIN answer' = {}
         \/ phase = "adopt" /\ answer' = Without(answer, Oldest(DOMAIN answer))
  PROVE  LedgerInv'
<1>1. UNCHANGED <<com, cur, owner, link, queue>> BY DEF server
<1>2. \A k \in DOMAIN answer' : k \in DOMAIN answer /\ answer'[k] = answer[k] BY DEF Without
<1>3. AuthorsInv' BY <1>1, AuthorsStay DEF LedgerInv
<1>4. ConflictsInv' BY <1>1, <1>2, ResultKeys, ConflictsStay DEF LedgerInv
<1>5. \A k \in DOMAIN answer' : Open(k) BY <1>2 DEF LedgerInv, OpenInv, Without
<1>6. OpenInv' BY <1>1, <1>5 DEF OpenInv, Open
<1> QED BY <1>3, <1>4, <1>6 DEF LedgerInv

LEMMA PushKeepsLedger == ASSUME ProtocolInv, LedgerInv, PushChanges PROVE LedgerInv'
<1>1. PICK c \in Conns :
        /\ link[c].stage = "free" /\ conn' = c
        /\ link' = [link EXCEPT ![c].stage = "sent", ![c].items = [k \in Batch |-> PushVersion(k)]]
  BY DEF PushChanges
<1>2. /\ phase' = "wait" /\ phase \in {"idle", "push"}
      /\ UNCHANGED <<com, cur, owner, queue, answer>>
  BY DEF PushChanges, server, disk, merging
<1>3. link \in [Conns -> Links] BY DEF ProtocolInv, Shape
<1>4. /\ DOMAIN link'[c].items = Batch /\ \A d \in Conns : link'[d].results = link[d].results
  BY <1>1, <1>3 DEF Links
<1>5. \A k \in Batch : Open(k) BY DEF Batch, Pending, Open
<1>6. AuthorsInv' BY <1>2, AuthorsStay DEF LedgerInv
<1>7. ConflictsInv' BY <1>2, <1>4, ResultKeys, ConflictsStay DEF LedgerInv
<1>8. OpenInv'
  <2>1. \A k \in DOMAIN answer : Open(k) BY <1>2 DEF LedgerInv, OpenInv
  <2> QED BY <1>1, <1>2, <1>4, <1>5, <2>1 DEF OpenInv, Open
<1> QED BY <1>6, <1>7, <1>8 DEF LedgerInv

LEMMA ReceiveKeepsLedger == ASSUME ProtocolInv, LedgerInv, ReceiveAnswer PROVE LedgerInv'
<1>1. /\ phase = "wait" /\ conn \in Conns /\ link[conn].stage = "answered"
      /\ answer' = link[conn].results /\ phase' = "mark"
      /\ link' = [link EXCEPT ![conn] = Unused] /\ UNCHANGED <<com, cur, owner, queue>>
  BY DEF ReceiveAnswer, ProtocolInv, ThreadInv, server, disk, merging
<1>2. link \in [Conns -> Links] BY DEF ProtocolInv, Shape
<1>3. link'[conn] = Unused /\ \A d \in Conns \ {conn} : link'[d] = link[d] BY <1>1, <1>2
<1>4. AuthorsInv' BY <1>1, AuthorsStay DEF LedgerInv
<1>5. ASSUME NEW k \in DOMAIN link[conn].results, link[conn].results[k].status = "conflict"
      PROVE  com[k] # NoRow /\ com[k].status = "conflict"
  <2>1. k \in Things BY <1>1, ResultKeys, Apart
  <2>2. owner[k] # conn BY <1>1, <2>1, Apart DEF ProtocolInv, LocksInv
  <2> QED BY <1>1, <1>5, <2>2 DEF LedgerInv, ConflictsInv
<1>6. ConflictsInv'
  <2>1. ASSUME NEW c \in Conns, NEW k \in DOMAIN link'[c].results,
               link'[c].results[k].status = "conflict"
        PROVE  \/ com[k] # NoRow /\ com[k].status = "conflict"
               \/ owner[k] = c /\ cur[k].status = "conflict"
    <3>1. c # conn BY <1>3, <2>1, UnusedFacts
    <3> QED BY <1>3, <2>1, <3>1 DEF LedgerInv, ConflictsInv
  <2> QED BY <1>1, <1>5, <2>1 DEF ConflictsInv
<1>7. OpenInv'
  <2>1. \A k \in DOMAIN link[conn].results : Open(k)
    BY <1>1 DEF LedgerInv, OpenInv, ProtocolInv, RequestsInv
  <2> QED BY <1>1, <2>1 DEF OpenInv, Open
<1> QED BY <1>4, <1>6, <1>7 DEF LedgerInv

\* Marking changes the status of the oldest item of the answer, nothing else.
LEMMA MarkFacts ==
  ASSUME ProtocolInv, MarkItem
  PROVE  LET k == Oldest(DOMAIN answer) IN
         /\ k \in DOMAIN answer /\ k \in DOMAIN queue /\ DOMAIN queue' = DOMAIN queue
         /\ \A j \in DOMAIN queue : queue'[j].ent = queue[j].ent /\ queue'[j].op = queue[j].op
         /\ \A j \in DOMAIN queue \ {k} : queue'[j] = queue[j]
         /\ \/ /\ queue'[k].status = "SYNCED" /\ answer[k].status = "ok"
               /\ (phase' = "adopt" /\ answer' = answer) \/ (phase' = "mark" /\ answer' = Without(answer, k))
            \/ /\ queue'[k].status = "CONFLICT" /\ answer[k].status = "conflict"
               /\ phase' = "mark" /\ answer' = Without(answer, k)
            \/ /\ queue'[k].status = "FAILED"
               /\ phase' = "mark" /\ answer' = Without(answer, k)
<1> DEFINE k == Oldest(DOMAIN answer)
<1>1. /\ phase = "mark" /\ answer # Nothing
      /\ MarkSynced(k) \/ MarkConflict(k) \/ MarkFailed(k)
  BY DEF MarkItem, merging
<1>2. DOMAIN answer # {}
  <2>1. answer = [j \in DOMAIN answer |-> answer[j]] BY PartialFacts DEF ProtocolInv, Shape
  <2> QED BY <1>1, <2>1 DEF Nothing
<1>3. k \in DOMAIN answer /\ k \in DOMAIN queue /\ queue[k] \in Item BY <1>2, AnswerIsLeast
<1>4. queue \in Seq(Item) BY DEF ProtocolInv, Shape
<1> HIDE DEF k
<1>5. ASSUME NEW it, queue' = [queue EXCEPT ![k] = it], it.ent = queue[k].ent, it.op = queue[k].op
      PROVE  /\ DOMAIN queue' = DOMAIN queue /\ queue'[k] = it
             /\ \A j \in DOMAIN queue \ {k} : queue'[j] = queue[j]
             /\ \A j \in DOMAIN queue : queue'[j].ent = queue[j].ent /\ queue'[j].op = queue[j].op
  BY <1>3, <1>4, <1>5
<1>6. CASE MarkSynced(k)
  <2> DEFINE it == [queue[k] EXCEPT !.status = "SYNCED"]
  <2>1. queue' = [queue EXCEPT ![k] = it] /\ answer[k].status = "ok"
        /\ ((phase' = "adopt" /\ answer' = answer) \/ (phase' = "mark" /\ answer' = Without(answer, k)))
    BY <1>1, <1>6 DEF MarkSynced, SetStatus, Marked
  <2>2. it.status = "SYNCED" /\ it.ent = queue[k].ent /\ it.op = queue[k].op BY <1>3 DEF Item
  <2> HIDE DEF it
  <2>3. /\ DOMAIN queue' = DOMAIN queue /\ queue'[k] = it
        /\ \A j \in DOMAIN queue \ {k} : queue'[j] = queue[j]
        /\ \A j \in DOMAIN queue : queue'[j].ent = queue[j].ent /\ queue'[j].op = queue[j].op
    BY <1>5, <2>1, <2>2
  <2> QED BY <1>3, <2>1, <2>2, <2>3 DEF k
<1>7. CASE MarkConflict(k)
  <2> DEFINE it == [queue[k] EXCEPT !.status = "CONFLICT"]
  <2>1. queue' = [queue EXCEPT ![k] = it] /\ answer[k].status = "conflict"
        /\ phase' = "mark" /\ answer' = Without(answer, k)
    BY <1>1, <1>7 DEF MarkConflict, SetStatus, Marked
  <2>2. it.status = "CONFLICT" /\ it.ent = queue[k].ent /\ it.op = queue[k].op BY <1>3 DEF Item
  <2> HIDE DEF it
  <2>3. /\ DOMAIN queue' = DOMAIN queue /\ queue'[k] = it
        /\ \A j \in DOMAIN queue \ {k} : queue'[j] = queue[j]
        /\ \A j \in DOMAIN queue : queue'[j].ent = queue[j].ent /\ queue'[j].op = queue[j].op
    BY <1>5, <2>1, <2>2
  <2> QED BY <1>3, <2>1, <2>2, <2>3 DEF k
<1>8. CASE MarkFailed(k)
  <2> DEFINE it == [queue[k] EXCEPT !.status = "FAILED", !.retry = @ + 1]
  <2>1. queue' = [queue EXCEPT ![k] = it] /\ phase' = "mark" /\ answer' = Without(answer, k)
    BY <1>1, <1>8 DEF MarkFailed, Marked
  <2>2. it.status = "FAILED" /\ it.ent = queue[k].ent /\ it.op = queue[k].op BY <1>3 DEF Item
  <2> HIDE DEF it
  <2>3. /\ DOMAIN queue' = DOMAIN queue /\ queue'[k] = it
        /\ \A j \in DOMAIN queue \ {k} : queue'[j] = queue[j]
        /\ \A j \in DOMAIN queue : queue'[j].ent = queue[j].ent /\ queue'[j].op = queue[j].op
    BY <1>5, <2>1, <2>2
  <2> QED BY <1>3, <2>1, <2>2, <2>3 DEF k
<1> QED BY <1>1, <1>6, <1>7, <1>8 DEF k

LEMMA MarkKeepsLedger == ASSUME ProtocolInv, LedgerInv, MarkItem PROVE LedgerInv'
<1> DEFINE k == Oldest(DOMAIN answer)
<1>1. /\ phase = "mark" /\ UNCHANGED <<com, cur, owner, link>> BY DEF MarkItem, server
<1>2. /\ k \in DOMAIN answer /\ DOMAIN queue' = DOMAIN queue
      /\ \A j \in DOMAIN queue : queue'[j].ent = queue[j].ent /\ queue'[j].op = queue[j].op
      /\ \A j \in DOMAIN queue \ {k} : queue'[j] = queue[j]
      /\ (phase' = "adopt" /\ answer' = answer) \/ (phase' = "mark" /\ answer' = Without(answer, k))
  BY MarkFacts
<1>3. DOMAIN answer \subseteq DOMAIN queue BY DEF ProtocolInv, ThreadInv, Merging, HasSnapshot
<1>4. \A j \in DOMAIN answer : Open(j) BY <1>1 DEF LedgerInv, OpenInv
<1>5. AuthorsInv' BY <1>1, <1>2, AuthorsStay DEF LedgerInv
<1>6. \A j \in DOMAIN answer' : j \in DOMAIN answer /\ answer'[j] = answer[j] BY <1>2 DEF Without
<1>7. ConflictsInv' BY <1>1, <1>6, ResultKeys, ConflictsStay DEF LedgerInv
<1>8. OpenInv'
  <2>1. CASE phase' = "adopt" /\ answer' = answer BY <1>2, <1>3, <1>4, <2>1 DEF OpenInv, Open
  <2>2. CASE phase' = "mark" /\ answer' = Without(answer, k)
    <3>1. DOMAIN answer' = DOMAIN answer \ {k} BY <2>2 DEF Without
    <3> HIDE DEF k
    <3> QED BY <1>2, <1>3, <1>4, <2>2, <3>1 DEF OpenInv, Open
  <2> QED BY <1>2, <2>1, <2>2
<1> QED BY <1>5, <1>7, <1>8 DEF LedgerInv

LEMMA EngineKeepsLedger == ASSUME ProtocolInv, LedgerInv, Engine PROVE LedgerInv'
<1>0. DOMAIN Nothing = {} BY DEF Nothing
<1>1. CASE PushChanges BY <1>1, PushKeepsLedger
<1>2. CASE NothingToPush BY <1>2, ThreadKeepsLedger DEF NothingToPush, disk
<1>3. CASE GiveUp BY <1>3, ThreadKeepsLedger DEF GiveUp, disk
<1>4. CASE ReceiveAnswer BY <1>4, ReceiveKeepsLedger
<1>5. CASE MarkItem BY <1>5, MarkKeepsLedger
<1>6. CASE AdoptVersion BY <1>6, ThreadKeepsLedger DEF AdoptVersion
<1>7. CASE PushDone BY <1>7, ThreadKeepsLedger DEF PushDone, disk
<1>8. CASE PullChanges BY <1>8, ThreadKeepsLedger DEF PullChanges, Fetch, disk
<1>9. CASE Bootstrap BY <1>9, ThreadKeepsLedger DEF Bootstrap, Fetch, disk
<1>10. CASE Restart BY <1>0, <1>10, ThreadKeepsLedger DEF Restart, disk
<1>11. CASE ApplyPulledItems BY <1>11, ThreadKeepsLedger DEF ApplyPulledItems, ApplyMerge, Finish
<1>12. CASE ApplyBootstrap BY <1>12, ThreadKeepsLedger DEF ApplyBootstrap, ApplyMerge, Finish
<1>13. CASE BeginMerge BY <1>13, ThreadKeepsLedger DEF BeginMerge, ReadPending, Finish, disk
<1>14. CASE \E e \in Entities : LoadRow(e) BY <1>14, ThreadKeepsLedger DEF LoadRow, disk
<1> QED BY <1>1, <1>2, <1>3, <1>4, <1>5, <1>6, <1>7, <1>8, <1>9, <1>10, <1>11, <1>12, <1>13, <1>14 DEF Engine

(***************************************************************************)
(* The requests on the server, and the other users.                        *)
(***************************************************************************)
\* A request that writes nothing adds at most a result that is no conflict.
LEMMA QuietKeepsLedger ==
  ASSUME ProtocolInv, LedgerInv, UNCHANGED <<server, disk, thread>>,
         \A d \in Conns : DOMAIN link'[d].items \subseteq DOMAIN link[d].items,
         \A d \in Conns : DOMAIN link'[d].results \subseteq Keys,
         \A d \in Conns : \A k \in DOMAIN link'[d].results :
           link'[d].results[k].status # "conflict"
             \/ (k \in DOMAIN link[d].results /\ link'[d].results[k] = link[d].results[k])
  PROVE  LedgerInv'
<1>1. UNCHANGED <<com, cur, owner, queue, phase, conn, answer>> BY DEF server, disk, thread, merging
<1>2. phase = "wait" => conn \in Conns BY DEF ProtocolInv, ThreadInv, Merging, HasSnapshot
<1>3. AuthorsInv' BY <1>1, AuthorsStay DEF LedgerInv
<1>4. ConflictsInv' BY <1>1, ResultKeys, ConflictsStay DEF LedgerInv
<1>5. OpenInv' BY <1>1, <1>2, OpenStays DEF LedgerInv
<1> QED BY <1>3, <1>4, <1>5 DEF LedgerInv

LEMMA ReplyKeepsLedger ==
  ASSUME ProtocolInv, LedgerInv, NEW c \in Conns, DOMAIN link[c].results # DOMAIN link[c].items,
         NEW r \in Result, Reply(c, r), r.status # "conflict", UNCHANGED <<server, disk, thread>>
  PROVE  LedgerInv'
<1>1. /\ link'[c].items = link[c].items
      /\ DOMAIN link'[c].results = DOMAIN link[c].results \cup {Due(c)} /\ link'[c].results[Due(c)] = r
      /\ \A k \in DOMAIN link[c].results : link'[c].results[k] = link[c].results[k]
      /\ \A d \in Conns \ {c} : link'[d] = link[d]
  BY ReplyFacts
<1>2. Due(c) \in Keys BY DueFacts
<1> QED BY <1>1, <1>2, ResultKeys, QuietKeepsLedger

LEMMA ApplyKeepsLedger == ASSUME ProtocolInv, LedgerInv, NEW c \in Conns, ApplyItem(c) PROVE LedgerInv'
<1> DEFINE k == Due(c)  e == Entity(c)  w == Effect(c).write  row == Effect(c).row
           r == Effect(c).result
<1>1. /\ Reply(c, r)
      /\ cur' = [cur EXCEPT ![k] = r, ![e] = IF w THEN row ELSE @]
      /\ owner' = [owner EXCEPT ![k] = c, ![e] = IF w THEN c ELSE @]
      /\ UNCHANGED <<com, queue, phase, conn, answer>>
  BY DEF ApplyItem, disk, thread, merging
<1>2. /\ DOMAIN link[c].results # DOMAIN link[c].items /\ owner[k] = NoConn
  BY StoredIsNew
<1>3. /\ k \in DOMAIN queue /\ k \in Keys
      /\ k \in Things /\ e \in Entities /\ e \in Things /\ e # k /\ queue[k].ent = e
  BY <1>2, DueFacts DEF Entity
<1>4. /\ r \in Result
      /\ w => /\ r.status = "ok"
              /\ IF queue[k].op = "DELETE" THEN row = Gone ELSE row \in Row /\ row.edit = k
  BY <1>2, EffectFacts
<1>5. /\ link'[c].items = link[c].items
      /\ DOMAIN link'[c].results = DOMAIN link[c].results \cup {k} /\ link'[c].results[k] = r
      /\ \A j \in DOMAIN link[c].results : link'[c].results[j] = link[c].results[j]
      /\ \A d \in Conns \ {c} : link'[d] = link[d]
  BY <1>1, <1>2, <1>4, ReplyFacts
<1> HIDE DEF k, e, w, row, r
<1>6. /\ cur \in [Things -> Row \cup Absent \cup Result] /\ owner \in [Things -> Conns \cup {NoConn}]
      /\ \A x \in Entities : x \in Things /\ x # k
      /\ \A x \in Keys : x \in Things /\ x # e
      /\ r # NoRow /\ c # NoConn /\ DOMAIN queue \subseteq Keys
  BY <1>3, <1>4, Apart, ResultKeys DEF ProtocolInv, Shape, Tables
<1>7. /\ cur'[k] = r /\ owner'[k] = c
      /\ w => cur'[e] = row /\ owner'[e] = c
      /\ ~w => cur'[e] = cur[e] /\ owner'[e] = owner[e]
      /\ \A x \in Things \ {k, e} : cur'[x] = cur[x] /\ owner'[x] = owner[x]
  BY <1>1, <1>3, <1>6
<1>8. AuthorsInv'
  <2>1. ASSUME NEW j \in Keys, owner'[j] # NoConn PROVE j \in DOMAIN queue'
    BY <1>1, <1>3, <1>6, <1>7, <2>1 DEF LedgerInv, AuthorsInv
  <2>2. ASSUME NEW x \in Entities, owner'[x] # NoConn
        PROVE  \E j \in DOMAIN queue' : owner'[j] = owner'[x] /\ WroteIt(j, x)'
    <3>1. CASE x = e /\ w
      <4>1. PICK j \in DOMAIN queue : j = k BY <1>3
      <4>2. WroteIt(j, x)' BY <1>1, <1>3, <1>4, <1>6, <1>7, <3>1, <4>1 DEF WroteIt
      <4> QED BY <1>1, <1>7, <3>1, <4>1, <4>2
    <3>2. CASE ~(x = e /\ w)
      <4>1. cur'[x] = cur[x] /\ owner'[x] = owner[x] BY <1>6, <1>7, <3>2
      <4>2. PICK j \in DOMAIN queue : owner[j] = owner[x] /\ WroteIt(j, x)
        BY <2>2, <4>1 DEF LedgerInv, AuthorsInv
      <4>3. j # k BY <1>2, <2>2, <4>1, <4>2
      <4>4. cur'[j] = cur[j] /\ owner'[j] = owner[j] BY <1>6, <1>7, <4>3
      <4>5. WroteIt(j, x)' BY <1>1, <4>1, <4>2, <4>4 DEF WroteIt
      <4> QED BY <1>1, <4>1, <4>2, <4>4, <4>5
    <3> QED BY <3>1, <3>2
  <2> QED BY <2>1, <2>2 DEF AuthorsInv
<1>9. ConflictsInv'
  <2>1. ASSUME NEW d \in Conns, NEW j \in DOMAIN link'[d].results,
               link'[d].results[j].status = "conflict"
        PROVE  \/ com'[j] # NoRow /\ com'[j].status = "conflict"
               \/ owner'[j] = d /\ cur'[j].status = "conflict"
    <3>1. CASE d = c /\ j = k BY <1>5, <1>7, <2>1, <3>1
    <3>2. CASE ~(d = c /\ j = k)
      <4>1. j \in DOMAIN link[d].results /\ link[d].results[j].status = "conflict"
        BY <1>5, <2>1, <3>2
      <4>2. \/ com[j] # NoRow /\ com[j].status = "conflict"
            \/ owner[j] = d /\ cur[j].status = "conflict"
        BY <4>1 DEF LedgerInv, ConflictsInv
      <4>3. j \in Keys /\ d # NoConn BY <4>1, ResultKeys, Apart
      <4>4. owner[j] = d => cur'[j] = cur[j] /\ owner'[j] = owner[j] BY <1>2, <1>6, <1>7, <4>3
      <4> QED BY <1>1, <4>2, <4>4
    <3> QED BY <3>1, <3>2
  <2> QED BY <1>1, <2>1 DEF LedgerInv, ConflictsInv
<1>10. OpenInv'
  <2>1. phase = "wait" => conn \in Conns BY DEF ProtocolInv, ThreadInv, Merging, HasSnapshot
  <2> QED BY <1>1, <1>5, <2>1, OpenStays DEF LedgerInv
<1> QED BY <1>8, <1>9, <1>10 DEF LedgerInv

\* What a request owned is committed or rolled back; the others keep what is theirs.
LEMMA EndKeepsLedger ==
  ASSUME ProtocolInv, LedgerInv, NEW c \in Conns, CommitPush(c) \/ AbortPush(c) PROVE LedgerInv'
<1>1. /\ owner' = [x \in Things |-> IF owner[x] = c THEN NoConn ELSE owner[x]]
      /\ UNCHANGED <<queue, phase, conn, answer>>
  BY DEF CommitPush, AbortPush, Release, disk, thread, merging
<1>2. /\ link \in [Conns -> Links] /\ owner \in [Things -> Conns \cup {NoConn}]
      /\ \A x \in Entities \cup Keys : x \in Things
      /\ NoConn \notin Conns /\ c # NoConn
  BY Apart DEF ProtocolInv, Shape
<1>3. \A x \in Things : /\ owner[x] # c => owner'[x] = owner[x] /\ com'[x] = com[x] /\ cur'[x] = cur[x]
                        /\ owner[x] = c => owner'[x] = NoConn
                        /\ owner[x] = c /\ CommitPush(c) => com'[x] = cur[x]
  BY <1>1 DEF CommitPush, AbortPush
<1>4. \A d \in Conns \ {c} : link'[d] = link[d] BY <1>2 DEF CommitPush, AbortPush
<1>5. \/ AbortPush(c) /\ link'[c] = Unused
      \/ CommitPush(c) /\ link'[c].items = link[c].items /\ link'[c].results = link[c].results
  BY <1>2 DEF CommitPush, AbortPush, Links
<1>6. AuthorsInv'
  <2>1. ASSUME NEW j \in Keys, owner'[j] # NoConn PROVE j \in DOMAIN queue'
    BY <1>1, <1>2, <1>3, <2>1 DEF LedgerInv, AuthorsInv
  <2>2. ASSUME NEW x \in Entities, owner'[x] # NoConn
        PROVE  \E j \in DOMAIN queue' : owner'[j] = owner'[x] /\ WroteIt(j, x)'
    <3>1. owner[x] # c /\ owner'[x] = owner[x] /\ cur'[x] = cur[x] BY <1>2, <1>3, <2>2
    <3>2. PICK j \in DOMAIN queue : owner[j] = owner[x] /\ WroteIt(j, x)
      BY <2>2, <3>1 DEF LedgerInv, AuthorsInv
    <3>3. j \in Things BY <1>2, ResultKeys
    <3>4. cur'[j] = cur[j] /\ owner'[j] = owner[j] BY <1>3, <3>1, <3>2, <3>3
    <3>5. WroteIt(j, x)' BY <1>1, <3>1, <3>2, <3>4 DEF WroteIt
    <3> QED BY <1>1, <3>1, <3>2, <3>4, <3>5
  <2> QED BY <2>1, <2>2 DEF AuthorsInv
<1>7. ASSUME NEW k \in Keys, com[k] # NoRow PROVE com'[k] = com[k]
  BY <1>2, <1>3, <1>7 DEF ProtocolInv, LocksInv
<1>8. ConflictsInv'
  <2>1. ASSUME NEW d \in Conns, NEW j \in DOMAIN link'[d].results,
               link'[d].results[j].status = "conflict"
        PROVE  \/ com'[j] # NoRow /\ com'[j].status = "conflict"
               \/ owner'[j] = d /\ cur'[j].status = "conflict"
    <3>1. d = c => CommitPush(c) /\ link'[c].results = link[c].results BY <1>5, <2>1, UnusedFacts
    <3>2. j \in DOMAIN link[d].results /\ link[d].results[j].status = "conflict"
      BY <1>4, <2>1, <3>1
    <3>3. j \in Keys /\ j \in Things BY <1>2, <3>2, ResultKeys
    <3>4. CASE com[j] # NoRow /\ com[j].status = "conflict" BY <1>7, <3>3, <3>4
    <3>5. CASE owner[j] = d /\ cur[j].status = "conflict"
      <4>1. cur[j] # NoRow BY <1>2, <3>3, <3>5 DEF ProtocolInv, LocksInv
      <4> QED BY <1>3, <3>1, <3>3, <3>5, <4>1
    <3> QED BY <3>2, <3>4, <3>5 DEF LedgerInv, ConflictsInv
  <2>2. ASSUME NEW j \in DOMAIN answer, answer[j].status = "conflict"
        PROVE  com'[j] # NoRow /\ com'[j].status = "conflict"
    <3>1. j \in Keys /\ com[j] # NoRow /\ com[j].status = "conflict"
      BY <2>2, ResultKeys DEF LedgerInv, ConflictsInv
    <3> QED BY <1>7, <3>1
  <2> QED BY <1>1, <2>1, <2>2 DEF ConflictsInv
<1>9. OpenInv'
  <2>1. phase = "wait" => conn \in Conns BY DEF ProtocolInv, ThreadInv, Merging, HasSnapshot
  <2>2. \A d \in Conns : DOMAIN link'[d].items \subseteq DOMAIN link[d].items
    BY <1>4, <1>5, UnusedFacts
  <2> QED BY <1>1, <2>1, <2>2, OpenStays DEF LedgerInv
<1> QED BY <1>6, <1>8, <1>9 DEF LedgerInv

LEMMA ServeKeepsLedger == ASSUME ProtocolInv, LedgerInv, NEW c \in Conns, Serve(c) PROVE LedgerInv'
<1>0. link \in [Conns -> Links] BY DEF ProtocolInv, Shape
<1>1. CASE Arrive(c)
  <2>1. \A d \in Conns : link'[d].items = link[d].items /\ link'[d].results = link[d].results
    BY <1>0, <1>1 DEF Arrive, Links
  <2> QED BY <1>1, <2>1, ResultKeys, QuietKeepsLedger DEF Arrive
<1>2. CASE Lose(c) \/ Discard(c)
  <2>1. Close(c) BY <1>2 DEF Lose, Discard
  <2>2. link'[c] = Unused /\ \A d \in Conns \ {c} : link'[d] = link[d] BY <1>0, <2>1 DEF Close
  <2> QED BY <2>1, <2>2, UnusedFacts, ResultKeys, QuietKeepsLedger DEF Close
<1>3. CASE CheckItem(c)
  <2>1. /\ DOMAIN link[c].results # DOMAIN link[c].items
        /\ Duplicate(c) \/ LoadEntity(c)
        /\ UNCHANGED <<server, disk, thread>>
    BY <1>3 DEF CheckItem
  <2>2. CASE Duplicate(c)
    <3> DEFINE r == [status |-> "ok", ver |-> Reads(c, Due(c)).ver]
    <3>1. Reads(c, Due(c)) # NoRow /\ Reply(c, r) BY <2>2 DEF Duplicate
    <3>2. Due(c) \in Keys BY <2>1, DueFacts
    <3>3. Reads(c, Due(c)) \in Result BY <3>1, <3>2 DEF Reads, ProtocolInv, Shape, Tables
    <3>4. r \in Result /\ r.status = "ok" BY <3>3 DEF Result
    <3> HIDE DEF r
    <3> QED BY <2>1, <3>1, <3>4, ReplyKeepsLedger
  <2>3. CASE LoadEntity(c)
    <3>1. \A d \in Conns : link'[d].items = link[d].items /\ link'[d].results = link[d].results
      BY <1>0, <2>3 DEF LoadEntity, Links
    <3> QED BY <2>1, <3>1, ResultKeys, QuietKeepsLedger
  <2> QED BY <2>1, <2>2, <2>3
<1>4. CASE ApplyItem(c) BY <1>4, ApplyKeepsLedger
<1>5. CASE FailItem(c)
  <2> DEFINE r == [status |-> "error", ver |-> 0]
  <2>1. link[c].stage = "apply" /\ Reply(c, r) /\ UNCHANGED <<server, disk, thread>>
    BY <1>5 DEF FailItem
  <2>2. r \in Result /\ r.status = "error" BY DEF Result
  <2>3. DOMAIN link[c].results # DOMAIN link[c].items BY <2>1 DEF ProtocolInv, RequestsInv
  <2> HIDE DEF r
  <2> QED BY <2>1, <2>2, <2>3, ReplyKeepsLedger
<1>6. CASE CommitPush(c) \/ AbortPush(c) BY <1>6, EndKeepsLedger
<1> QED BY <1>1, <1>2, <1>3, <1>4, <1>5, <1>6 DEF Serve

LEMMA WebKeepsLedger == ASSUME ProtocolInv, LedgerInv, NEW e \in Entities, Web(e) PROVE LedgerInv'
<1>1. UNCHANGED <<owner, link, queue, phase, conn, answer>>
  BY DEF Web, WebUpdate, WebDelete, WebWrite, WebTake, disk, thread, merging
<1>2. /\ \A x \in Things \ {e} : com'[x] = com[x] /\ cur'[x] = cur[x]
      /\ cur'[e] # cur[e] => owner[e] = NoConn
  <2>1. com \in Tables /\ cur \in Tables /\ e \in Things BY Apart DEF ProtocolInv, Shape
  <2> QED BY <2>1 DEF Web, WebUpdate, WebDelete, WebWrite, WebTake, Tables
<1>3. \A k \in Keys : com'[k] = com[k] /\ cur'[k] = cur[k] BY <1>2, Apart
<1>4. AuthorsInv'
  <2>1. ASSUME NEW x \in Entities, owner[x] # NoConn
        PROVE  \E j \in DOMAIN queue : owner[j] = owner[x] /\ WroteIt(j, x)'
    <3>1. PICK j \in DOMAIN queue : owner[j] = owner[x] /\ WroteIt(j, x)
      BY <2>1 DEF LedgerInv, AuthorsInv
    <3>2. cur'[j] = cur[j] BY <1>3, ResultKeys
    <3>3. cur'[x] = cur[x] BY <1>2, <2>1, Apart
    <3>4. WroteIt(j, x)' BY <1>1, <3>1, <3>2, <3>3 DEF WroteIt
    <3> QED BY <3>1, <3>4
  <2> QED BY <1>1, <2>1 DEF LedgerInv, AuthorsInv
<1>5. ConflictsInv' BY <1>1, <1>3, ResultKeys, ConflictsStay DEF LedgerInv
<1>6. OpenInv' BY <1>1, OpenStays DEF LedgerInv
<1> QED BY <1>4, <1>5, <1>6 DEF LedgerInv

LEMMA NextKeepsLedger == ProtocolInv /\ LedgerInv /\ [Next]_vars => LedgerInv'
<1> SUFFICES ASSUME ProtocolInv, LedgerInv, [Next]_vars PROVE LedgerInv' OBVIOUS
<1>1. CASE Engine BY <1>1, EngineKeepsLedger
<1>2. CASE \E e \in Entities : User(e) BY <1>2, UserKeepsLedger
<1>3. CASE \E e \in Entities : Web(e) BY <1>3, WebKeepsLedger
<1>4. CASE \E c \in Conns : Serve(c) BY <1>4, ServeKeepsLedger
<1>5. CASE UNCHANGED vars
  <2>1. UNCHANGED <<com, cur, owner, link, queue, phase, conn, answer>>
    BY <1>5 DEF vars, server, disk, thread, merging
  <2>2. AuthorsInv' BY <2>1, AuthorsStay DEF LedgerInv
  <2>3. ConflictsInv' BY <2>1, ResultKeys, ConflictsStay DEF LedgerInv
  <2>4. OpenInv' BY <2>1, OpenStays DEF LedgerInv
  <2> QED BY <2>2, <2>3, <2>4 DEF LedgerInv
<1> QED BY <1>1, <1>2, <1>3, <1>4, <1>5 DEF Next

\* A row under a lock has an author, a conflict is answered only where one is stored,
\* and the sync thread waits for items that are still open.
THEOREM LedgerInvHolds == Spec => []LedgerInv
BY InitLedger, NextKeepsLedger, ProtocolInvHolds, PTL DEF Spec

(***************************************************************************)
(* SyncProtocol implements EditLedger: an edit of the user is one entry, a *)
(* commit decides the edits whose keys it stores, marking an item tells    *)
(* its outcome, and every other step of desktop and server changes nothing *)
(* that the ledger shows.                                                  *)
(***************************************************************************)
MadeOf(q)  == [k \in DOMAIN q |-> [ent |-> q[k].ent, op |-> q[k].op]]
ToldOf(q)  == [k \in DOMAIN q |-> Told(q[k])]
Decisions(t) == [k \in Keys |-> t[k]]
RowsOf(t)  == [e \in Entities |-> t[e]]

LedgerStep == Ledger!Next \/ UNCHANGED <<MadeOf(queue), Decisions(com), RowsOf(com), ToldOf(queue)>>

LEMMA SameLedger ==
  ASSUME UNCHANGED <<com, queue>> PROVE LedgerStep
BY DEF LedgerStep

LEMMA AppendIs ==
  ASSUME NEW T, NEW n \in Nat, NEW s \in [1 .. n -> T], NEW t \in T, NEW u \in [1 .. n + 1 -> T],
         \A i \in 1 .. n : u[i] = s[i], u[n + 1] = t
  PROVE  u = Append(s, t)
<1>1. s \in Seq(T) /\ Len(s) = n OBVIOUS
<1>2. /\ Append(s, t) \in Seq(T) /\ Len(Append(s, t)) = n + 1
      /\ Append(s, t)[n + 1] = t /\ \A i \in 1 .. n : Append(s, t)[i] = s[i]
  BY <1>1
<1>3. Append(s, t) \in [1 .. n + 1 -> T] BY <1>2, LenProperties
<1>4. ASSUME NEW i \in 1 .. n + 1 PROVE u[i] = Append(s, t)[i]
  <2>1. CASE i = n + 1 BY <1>2, <2>1
  <2>2. CASE i # n + 1
    <3>1. i \in 1 .. n BY <2>2
    <3> QED BY <1>2, <3>1
  <2> QED BY <2>1, <2>2
<1> QED BY <1>3, <1>4

\* An edit of the user is a new entry.
LEMMA UserMakes ==
  ASSUME ProtocolInv, NEW e \in Entities, User(e) PROVE \E op \in Ops : Ledger!Make(e, op)
<1>0. PICK op \in Ops : \E web : Enqueue(e, op, web) /\ UNCHANGED com
  BY DEF User, CreateLocal, UpdateLocal, DeleteLocal, Ops, server
<1>1. PICK web : Enqueue(e, op, web) /\ UNCHANGED com BY <1>0
<1> DEFINE n == Len(queue)
           it == [ent |-> e, op |-> op, status |-> "PENDING", retry |-> 0, web |-> web]
           Entry == [ent : Entities, op : Ops]
<1>2. queue \in Seq(Item) /\ n \in Nat /\ queue' = Append(queue, it) /\ DOMAIN queue = 1 .. n
  BY <1>1 DEF Enqueue, ProtocolInv, Shape
<1>3. it.ent = e /\ it.op = op /\ Told(it) = "PENDING" BY DEF Told
<1> HIDE DEF it
<1>4. /\ DOMAIN queue' = 1 .. n + 1 /\ queue'[n + 1] = it
      /\ \A k \in 1 .. n : queue'[k] = queue[k]
  BY <1>2
<1>5. \A k \in 1 .. n : queue[k].ent \in Entities /\ queue[k].op \in Ops
  BY <1>2, QueueFacts DEF Item, ProtocolInv, Shape
<1> HIDE DEF n
<1>6. MadeOf(queue') = Append(MadeOf(queue), [ent |-> e, op |-> op])
  <2> DEFINE s == [k \in 1 .. n |-> [ent |-> queue[k].ent, op |-> queue[k].op]]
             u == [k \in 1 .. n + 1 |-> [ent |-> queue'[k].ent, op |-> queue'[k].op]]
             t == [ent |-> e, op |-> op]
  <2>1. s \in [1 .. n -> Entry] /\ t \in Entry BY <1>5
  <2>2. \A k \in 1 .. n : u[k] = s[k]
    <3>1. \A k \in 1 .. n : k \in 1 .. n + 1 BY <1>2
    <3> QED BY <1>4, <3>1
  <2>3. u[n + 1] = t
    <3>1. n + 1 \in 1 .. n + 1 BY <1>2
    <3> QED BY <1>3, <1>4, <3>1
  <2>4. u \in [1 .. n + 1 -> Entry]
    <3>1. ASSUME NEW k \in 1 .. n + 1 PROVE u[k] \in Entry
      <4>1. k \in 1 .. n \/ k = n + 1 BY <1>2
      <4> HIDE DEF u, s, t, Entry
      <4> QED BY <2>1, <2>2, <2>3, <4>1
    <3>2. u = [k \in 1 .. n + 1 |-> u[k]] OBVIOUS
    <3> HIDE DEF u, Entry
    <3> QED BY <3>1, <3>2
  <2>5. MadeOf(queue) = s /\ MadeOf(queue') = u BY <1>2, <1>4 DEF MadeOf
  <2> HIDE DEF s, u, t, Entry
  <2>6. u = Append(s, t) BY <1>2, <2>1, <2>2, <2>3, <2>4, AppendIs
  <2> QED BY <2>5, <2>6 DEF t
<1>7. ToldOf(queue') = Append(ToldOf(queue), "PENDING")
  <2> DEFINE T == {Told(queue[k]) : k \in 1 .. n} \cup {"PENDING"}
             s == [k \in 1 .. n |-> Told(queue[k])]
             u == [k \in 1 .. n + 1 |-> Told(queue'[k])]
  <2>1. s \in [1 .. n -> T] /\ "PENDING" \in T OBVIOUS
  <2>2. \A k \in 1 .. n : u[k] = s[k]
    <3>1. \A k \in 1 .. n : k \in 1 .. n + 1 BY <1>2
    <3> QED BY <1>4, <3>1
  <2>3. u[n + 1] = "PENDING"
    <3>1. n + 1 \in 1 .. n + 1 BY <1>2
    <3> QED BY <1>3, <1>4, <3>1
  <2>4. u \in [1 .. n + 1 -> T]
    <3>1. ASSUME NEW k \in 1 .. n + 1 PROVE u[k] \in T
      <4>1. k \in 1 .. n \/ k = n + 1 BY <1>2
      <4> HIDE DEF u, s, T
      <4> QED BY <2>1, <2>2, <2>3, <4>1
    <3>2. u = [k \in 1 .. n + 1 |-> u[k]] OBVIOUS
    <3> HIDE DEF u, T
    <3> QED BY <3>1, <3>2
  <2>5. ToldOf(queue) = s /\ ToldOf(queue') = u BY <1>2, <1>4 DEF ToldOf
  <2> HIDE DEF s, u, T
  <2>6. u = Append(s, "PENDING") BY <1>2, <2>1, <2>2, <2>3, <2>4, AppendIs
  <2> QED BY <2>5, <2>6
<1>8. Ledger!Make(e, op) BY <1>1, <1>6, <1>7 DEF Ledger!Make, MadeOf, ToldOf
<1> QED BY <1>8

\* A commit decides the edits whose keys the request held.
LEMMA CommitDecides ==
  ASSUME ProtocolInv, LedgerInv, NEW c \in Conns, CommitPush(c)
  PROVE  \E D \in SUBSET DOMAIN MadeOf(queue) : Ledger!Decide(D)
<1> SUFFICES ASSUME NEW D, D = {k \in DOMAIN queue : owner[k] = c}
             PROVE  D \in SUBSET DOMAIN MadeOf(queue) /\ Ledger!Decide(D)
  OBVIOUS
<1>1. com' = [x \in Things |-> IF owner[x] = c THEN cur[x] ELSE com[x]] /\ UNCHANGED queue
  BY DEF CommitPush, Release, disk
<1>2. \A x \in Entities \cup Keys : x \in Things BY Apart
<1>3. \A x \in Things : com'[x] = IF owner[x] = c THEN cur[x] ELSE com[x] BY <1>1
<1>4. D \subseteq Keys BY ResultKeys
<1>5. \A k \in Keys : k \in D <=> owner[k] = c
  <2>1. c # NoConn BY Apart
  <2> QED BY <2>1 DEF LedgerInv, AuthorsInv
<1>6. ASSUME NEW k \in D PROVE com[k] = NoRow /\ com'[k] # NoRow /\ com'[k] = cur[k]
  <2>1. k \in Keys /\ owner[k] = c /\ c # NoConn BY <1>4, Apart
  <2>2. com[k] = NoRow /\ cur[k] # NoRow BY <2>1 DEF ProtocolInv, LocksInv
  <2> QED BY <1>2, <1>3, <2>1, <2>2
<1>7. \A k \in Keys \ D : com'[k] = com[k] BY <1>2, <1>3, <1>5
<1>8. \A k \in Keys : com'[k] \in Result \cup {NoRow}
  <2>1. \A k \in Keys : com[k] \in Result \cup {NoRow} /\ cur[k] \in Result \cup {NoRow}
    BY DEF ProtocolInv, Shape, Tables
  <2> QED BY <1>2, <1>3, <2>1
<1>9. ASSUME NEW e \in Entities, com'[e] # com[e]
      PROVE  \E k \in D : /\ queue[k].ent = e /\ com'[k].status = "ok"
                          /\ IF queue[k].op = "DELETE" THEN com'[e] = Gone
                             ELSE com'[e] \notin {NoRow, Gone} /\ com'[e].edit = k
  <2>1. owner[e] = c /\ com'[e] = cur[e] BY <1>2, <1>3, <1>9
  <2>2. PICK k \in DOMAIN queue : owner[k] = owner[e] /\ WroteIt(k, e)
    <3>1. owner[e] # NoConn BY <2>1, Apart
    <3> QED BY <3>1 DEF LedgerInv, AuthorsInv
  <2>3. k \in D BY <2>1, <2>2
  <2>4. com'[k] = cur[k] BY <1>6, <2>3
  <2> QED BY <2>1, <2>2, <2>3, <2>4, Apart DEF WroteIt
<1>10. D \in SUBSET DOMAIN queue OBVIOUS
<1>11. D \in SUBSET DOMAIN MadeOf(queue) BY <1>10 DEF MadeOf
<1>12. \A k \in D : Decisions(com)[k] = NoRow BY <1>4, <1>6 DEF Decisions
<1>13. Decisions(com') \in [Keys -> Result \cup {NoRow}] BY <1>8 DEF Decisions
<1>14. \A k \in Keys : IF k \in D THEN Decisions(com')[k] # NoRow
                       ELSE Decisions(com')[k] = Decisions(com)[k]
  BY <1>6, <1>7 DEF Decisions
<1>15. ASSUME NEW e \in Entities, RowsOf(com')[e] # RowsOf(com)[e]
       PROVE  \E k \in D : Ledger!Explains(k, e)
  <2>1. com'[e] # com[e] BY <1>15 DEF RowsOf
  <2>2. PICK k \in D : /\ queue[k].ent = e /\ com'[k].status = "ok"
                       /\ IF queue[k].op = "DELETE" THEN com'[e] = Gone
                          ELSE com'[e] \notin {NoRow, Gone} /\ com'[e].edit = k
    BY <1>9, <2>1
  <2>3. k \in Keys /\ k \in DOMAIN queue BY <1>4, <1>10
  <2>4. Ledger!Explains(k, e) BY <2>2, <2>3 DEF Ledger!Explains, Ledger!Present
  <2> QED BY <2>4
<1>16. Ledger!Decide(D)
  BY <1>1, <1>12, <1>13, <1>14, <1>15 DEF Ledger!Decide, Decisions, RowsOf
<1> QED BY <1>11, <1>16

\* Another user changes or deletes a row that is there.
LEMMA WebIsOthers ==
  ASSUME ProtocolInv, NEW e \in Entities, Web(e) PROVE Ledger!Others(e) \/ UNCHANGED <<com, queue>>
<1>1. com \in Tables /\ \A x \in Entities \cup Keys : x \in Things BY Apart DEF ProtocolInv, Shape
<1>2. CASE WebTake(e) BY <1>2 DEF WebTake, disk
<1>3. ASSUME NEW row, WebWrite(e, row), row = Gone \/ (Present(row) /\ row.edit = com[e].edit)
      PROVE  Ledger!Others(e)
  <2>1. /\ com[e] \notin {NoRow, Gone} /\ com' = [com EXCEPT ![e] = row] /\ UNCHANGED queue
    BY <1>3 DEF WebWrite, Present, disk
  <2>2. com'[e] = row /\ \A x \in Things \ {e} : com'[x] = com[x] BY <1>1, <2>1 DEF Tables
  <2>3. \A k \in Keys : com'[k] = com[k] BY <1>1, <2>2, Apart
  <2>4. Decisions(com') = Decisions(com) BY <2>3 DEF Decisions
  <2>5. \A x \in Entities \ {e} : com'[x] = com[x] BY <1>1, <2>2
  <2> QED BY <1>3, <2>1, <2>2, <2>4, <2>5
       DEF Ledger!Others, Ledger!Present, Present, Decisions
<1>4. CASE WebUpdate(e)
  <2> DEFINE r == [com[e] EXCEPT !.ver = @ + 1, !.web = @ + 1]
  <2>1. com[e] \in Row /\ com[e].web < MaxWeb /\ WebWrite(e, r)
    BY <1>4 DEF WebUpdate, Present, ProtocolInv, Shape, Tables, Absent
  <2>2. com[e].ver + 1 \in Nat /\ com[e].web + 1 \in 0 .. MaxWeb
    BY <2>1, RowFacts, BoundAssumption
  <2>3. r \in Row /\ r.edit = com[e].edit BY <2>1, <2>2 DEF Row
  <2> HIDE DEF r
  <2>4. Present(r) BY <2>3, Apart DEF Present
  <2> QED BY <1>3, <2>1, <2>3, <2>4
<1>5. CASE WebDelete(e) BY <1>3, <1>5 DEF WebDelete
<1> QED BY <1>2, <1>4, <1>5 DEF Web

\* The desktop is told one outcome, which is stored, of one item that was open.
LEMMA MarkTells ==
  ASSUME ProtocolInv, LedgerInv, MarkItem
  PROVE  \/ \E k \in DOMAIN ToldOf(queue), s \in Ledger!Final : Ledger!Tell(k, s)
         \/ /\ MadeOf(queue') = MadeOf(queue) /\ ToldOf(queue') = ToldOf(queue) /\ UNCHANGED com
<1> DEFINE k == Oldest(DOMAIN answer)
<1>1. /\ k \in DOMAIN answer /\ k \in DOMAIN queue /\ DOMAIN queue' = DOMAIN queue
      /\ \A j \in DOMAIN queue : queue'[j].ent = queue[j].ent /\ queue'[j].op = queue[j].op
      /\ \A j \in DOMAIN queue \ {k} : queue'[j] = queue[j]
      /\ \/ queue'[k].status = "SYNCED" /\ answer[k].status = "ok"
         \/ queue'[k].status = "CONFLICT" /\ answer[k].status = "conflict"
         \/ queue'[k].status = "FAILED"
  BY MarkFacts
<1>2. phase = "mark" /\ UNCHANGED com BY DEF MarkItem, server
<1>3. PICK i \in DOMAIN queue : i = k BY <1>1
<1> HIDE DEF k
<1>4. queue[i].status \in {"PENDING", "FAILED"} BY <1>1, <1>2, <1>3 DEF LedgerInv, OpenInv, Open
<1>5. MadeOf(queue') = MadeOf(queue) BY <1>1 DEF MadeOf
<1>6. i \in Keys BY ResultKeys
<1>7. Told(queue[i]) = "PENDING" BY <1>4 DEF Told
<1>8. \A j \in DOMAIN queue \ {i} : Told(queue'[j]) = Told(queue[j]) BY <1>1, <1>3
<1>9. ASSUME NEW s, Told(queue'[i]) = s PROVE ToldOf(queue') = [ToldOf(queue) EXCEPT ![i] = s]
  BY <1>1, <1>8, <1>9 DEF ToldOf
<1>10. CASE queue'[i].status = "FAILED"
  <2>1. Told(queue'[i]) = "PENDING" BY <1>10 DEF Told
  <2>2. \A j \in DOMAIN queue : Told(queue'[j]) = Told(queue[j]) BY <1>7, <1>8, <2>1
  <2>3. ToldOf(queue') = ToldOf(queue) BY <1>1, <2>2 DEF ToldOf
  <2> QED BY <1>2, <1>5, <2>3
<1>11. ASSUME NEW s \in Ledger!Final, queue'[i].status = s, com[i] # NoRow,
              s = "CONFLICT" => com[i].status = "conflict"
       PROVE  Ledger!Tell(i, s) /\ i \in DOMAIN ToldOf(queue)
  <2>1. Told(queue'[i]) = s BY <1>11 DEF Told, Ledger!Final
  <2>2. ToldOf(queue') = [ToldOf(queue) EXCEPT ![i] = s] BY <1>9, <2>1
  <2>3. i \in DOMAIN ToldOf(queue) /\ ToldOf(queue)[i] = "PENDING" BY <1>7 DEF ToldOf
  <2> QED BY <1>2, <1>5, <1>6, <1>11, <2>2, <2>3 DEF Ledger!Tell, MadeOf, ToldOf
<1>12. CASE queue'[i].status = "SYNCED"
  <2>1. com[i] # NoRow BY <1>1, <1>3, <1>6, <1>12 DEF ProtocolInv, StoredInv, Outcome
  <2>2. "SYNCED" \in Ledger!Final BY DEF Ledger!Final
  <2> QED BY <1>11, <1>12, <2>1, <2>2
<1>13. CASE queue'[i].status = "CONFLICT"
  <2>1. com[i] # NoRow /\ com[i].status = "conflict"
    BY <1>1, <1>3, <1>13 DEF LedgerInv, ConflictsInv
  <2>2. "CONFLICT" \in Ledger!Final BY DEF Ledger!Final
  <2> QED BY <1>11, <1>13, <2>1, <2>2
<1> QED BY <1>1, <1>3, <1>10, <1>12, <1>13

LEMMA StepKeepsLedger == ProtocolInv /\ LedgerInv /\ [Next]_vars => LedgerStep
<1> SUFFICES ASSUME ProtocolInv, LedgerInv, [Next]_vars PROVE LedgerStep OBVIOUS
<1>1. CASE Engine
  <2>1. CASE MarkItem
    <3>1. CASE \E k \in DOMAIN ToldOf(queue), s \in Ledger!Final : Ledger!Tell(k, s)
      BY <3>1 DEF LedgerStep, Ledger!Next, ToldOf
    <3>2. CASE MadeOf(queue') = MadeOf(queue) /\ ToldOf(queue') = ToldOf(queue) /\ UNCHANGED com
      BY <3>2 DEF LedgerStep, Decisions, RowsOf, MadeOf, ToldOf
    <3> QED BY <2>1, <3>1, <3>2, MarkTells
  <2>2. CASE ~ MarkItem
    BY <1>1, <2>2, SameLedger DEF Engine, PushChanges, NothingToPush, GiveUp, ReceiveAnswer,
       AdoptVersion, PushDone, PullChanges, Bootstrap, Fetch, BeginMerge, ReadPending, LoadRow,
       ApplyPulledItems, ApplyBootstrap, ApplyMerge, Finish, Restart, server, disk
  <2> QED BY <2>1, <2>2
<1>2. CASE \E e \in Entities : User(e) BY <1>2, UserMakes DEF LedgerStep, Ledger!Next
<1>3. CASE \E e \in Entities : Web(e) BY <1>3, WebIsOthers, SameLedger DEF LedgerStep, Ledger!Next
<1>4. CASE \E c \in Conns : Serve(c)
  <2> SUFFICES ASSUME NEW c \in Conns, Serve(c) PROVE LedgerStep BY <1>4
  <2>1. CASE CommitPush(c) BY <2>1, CommitDecides DEF LedgerStep, Ledger!Next, MadeOf
  <2>2. CASE ~ CommitPush(c)
    BY <2>2, SameLedger DEF Serve, Arrive, Lose, Discard, Close, CheckItem, ApplyItem, FailItem,
       AbortPush, Release, server, disk
  <2> QED BY <2>1, <2>2
<1>5. CASE UNCHANGED vars BY <1>5, SameLedger DEF vars, server, disk
<1> QED BY <1>1, <1>2, <1>3, <1>4, <1>5 DEF Next

\* Lost, late, resent and overlapping requests, rollbacks and restarts cannot be told
\* from edits that are each made, decided once, and reported once
\* (sync_service.py:process_push, models/idempotency_key.py, engine.py:push_changes).
THEOREM ImplementsLedger == Spec => KeepsLedger
<1>1. Init => Ledger!Init
  <2> SUFFICES ASSUME Init PROVE Ledger!Init OBVIOUS
  <2>1. queue = <<>> /\ \A k \in Keys : com[k] = NoRow BY Apart DEF Init
  <2>2. \A e \in Entities : com[e] = Known(e) BY Apart DEF Init
  <2> QED BY <2>1, <2>2 DEF Ledger!Init
<1>2. LedgerStep => [Ledger!Next]_(Ledger!vars)
  BY DEF LedgerStep, Ledger!vars, MadeOf, ToldOf, Decisions, RowsOf
<1> QED BY <1>1, <1>2, StepKeepsLedger, ProtocolInvHolds, LedgerInvHolds, PTL
     DEF Spec, KeepsLedger, Ledger!Spec
===============================================================================
