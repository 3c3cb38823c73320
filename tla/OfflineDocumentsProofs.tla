------------------------ MODULE OfflineDocumentsProofs ------------------------
(***************************************************************************)
(* Proofs about OfflineDocuments: the copy of a document stays until the   *)
(* server has the document, and without a failure each document is sent    *)
(* once and its marker is gone when its record says so.                    *)
(***************************************************************************)
EXTENDS OfflineDocumentsProps, NaturalsInduction, WellFoundedInduction, TLAPS

USE BoundsAssumption

(***************************************************************************)
(* The inductive invariant                                                 *)
(***************************************************************************)
Rec  == [status : {"none", "PENDING", "FAILED", "SYNCED", "PERMANENT_FAILED"},
         retries : 0 .. MaxRetries]
Item == [refs : Refs, status : {"PENDING", "FAILED", "SYNCED"}]
Save == [at : {"begin", "rows", "register", "queue"}, refs : Refs, todo : SUBSET Docs,
         offline : BOOLEAN]
Trying == {"post", "uploaded", "loaded", "replaced", "failed", "refused"}
Place  == [at : Trying \cup {"idle", "push", "pull"}, doc : Docs \cup {Nothing},
           row : Refs \cup {Nothing}]
Local  == [row : Refs, ahead : BOOLEAN, customer : BOOLEAN, queue : Seq(Item), rec : [Docs -> Rec]]
Server == [row : Refs, copies : [Docs -> Nat]]
Left   == [cuts : 0 .. MaxCuts, faults : 0 .. MaxFaults, crashes : 0 .. MaxCrashes]

\* Every variable has its type, and the record in progress may be tried.
Typed ==
  /\ db \in Local /\ srv \in Server /\ left \in Left /\ sync \in Place
  /\ file \in [Docs -> {"none", "stored", "archived"}]
  /\ form # Nothing => form \in Refs
  /\ save # Nothing => save \in Save
  /\ sync.at \in Trying => sync.doc \in Docs /\ Due(db.rec[sync.doc])
  /\ sync.at = "loaded" => sync.row \in Refs

\* Where a marker of a document, or its upload record, can be.
Mentioned(d) ==
  \/ db.row[d] = "marker" \/ srv.row[d] = "marker"
  \/ form # Nothing /\ form[d] = "marker"
  \/ save # Nothing /\ (save.refs[d] = "marker" \/ d \in save.todo)
  \/ \E i \in DOMAIN db.queue : db.queue[i].refs[d] = "marker"
  \/ db.rec[d].status # "none"
  \/ sync.at = "loaded" /\ sync.row[d] = "marker"

\* What is mentioned has its file, and an archived file is on the server; so is
\* the one whose upload was confirmed and is being recorded.
Confirmed(d) == sync.at \in {"uploaded", "loaded", "replaced"} /\ sync.doc = d
FilesInv ==
  \A d \in Docs :
    /\ Mentioned(d) => file[d] # "none"
    /\ file[d] = "archived" \/ Confirmed(d) => srv.copies[d] >= 1

Calm == left.crashes = MaxCrashes /\ left.faults = MaxFaults

\* A document the server has was sent by the form, or its record is done or
\* about to be.
OnceInv ==
  Calm => \A d \in Docs :
    /\ srv.copies[d] <= 1
    /\ srv.copies[d] = 1 => file[d] = "none" \/ db.rec[d].status = "SYNCED" \/ Confirmed(d)

\* The handler in progress has a record of a marker only if a form loaded it.
HandlerInv ==
  save # Nothing =>
    /\ save.at = "begin" => save.todo = MarkersIn(save.refs)
    /\ save.at \in {"begin", "rows"} =>
         \A d \in Docs \ leaked : save.refs[d] = "marker" => db.rec[d].status = "none"

LeakedInv ==
  \A d \in Docs \ leaked :
    srv.row[d] # "marker" /\ (form # Nothing => form[d] # "marker")

Done(d) == db.rec[d].status = "SYNCED" \/ (sync.at = "replaced" /\ sync.doc = d)
ReplacedInv ==
  Calm => \A d \in Docs \ leaked :
    Done(d) => /\ db.row[d] # "marker"
               /\ kind # "client" => \A i \in DOMAIN db.queue : db.queue[i].refs[d] # "marker"

\* The row as a replacement has it: no marker comes back with it, and the marker to
\* be replaced has not appeared since.
RowInv ==
  Calm /\ sync.at = "loaded" => \A d \in Docs \ leaked :
    /\ Done(d) => sync.row[d] # "marker"
    /\ d = sync.doc /\ sync.row[d] # "marker" => db.row[d] # "marker"

UploadInv == Typed /\ FilesInv /\ OnceInv /\ HandlerInv /\ LeakedInv /\ ReplacedInv /\ RowInv

LEMMA InitHolds == ASSUME Init PROVE UploadInv
<1>1. Typed
  BY DEF Init, AtRest, Typed, Local, Server, Left, Place, Trying, Refs, Empty, Rec, Item, Unsent
<1>2. FilesInv /\ OnceInv /\ HandlerInv /\ LeakedInv /\ ReplacedInv /\ RowInv
  BY DEF Init, AtRest, FilesInv, Mentioned, Confirmed, OnceInv, HandlerInv, LeakedInv, ReplacedInv, RowInv, Done,
         Empty, Unsent, Calm
<1> QED BY <1>1, <1>2 DEF UploadInv

(***************************************************************************)
(* What the operators return                                               *)
(***************************************************************************)
LEMMA LargestExists ==
  ASSUME NEW n \in Nat, NEW S, S \subseteq 1 .. n, S # {} PROVE Max(S) \in S
<1> DEFINE above == {m \in Nat : \A y \in S : y <= m}
<1>1. n \in above OBVIOUS
<1>2. PICK m \in above : \A k \in above : ~ (<<k, m>> \in OpToRel(<, Nat))
  <2>1. above \subseteq Nat OBVIOUS
  <2> HIDE DEF above
  <2> QED BY <1>1, <2>1, WFMin, NatLessThanWellFounded
<1>3. \A k \in above : ~ (k < m)
  BY <1>2 DEF OpToRel
<1>4. m \in S
  <2>1. SUFFICES ASSUME m \notin S PROVE FALSE OBVIOUS
  <2>2. \A y \in S : y <= m - 1 BY <2>1
  <2>3. PICK y \in S : TRUE OBVIOUS
  <2>4. m - 1 \in Nat BY <2>2, <2>3
  <2> QED BY <1>3, <2>2, <2>4
<1>5. \A y \in S : m >= y OBVIOUS
<1> QED BY <1>4, <1>5 DEF Max

LEMMA ItemFacts ==
  ASSUME NEW q \in Seq(Item), NEW i \in DOMAIN q
  PROVE  q[i] \in Item /\ q[i].refs \in Refs
<1>1. q[i] \in Item OBVIOUS
<1> QED BY <1>1 DEF Item

LEMMA SameLength ==
  ASSUME NEW q \in Seq(Item), NEW p, p = [i \in DOMAIN q |-> p[i]],
         \A i \in DOMAIN q : p[i] \in Item
  PROVE  DOMAIN p = DOMAIN q /\ p \in Seq(Item)
<1>1. DOMAIN q = 1 .. Len(q) /\ Len(q) \in Nat OBVIOUS
<1>2. p = [i \in 1 .. Len(q) |-> p[i]] /\ \A i \in 1 .. Len(q) : p[i] \in Item BY <1>1
<1>3. p \in [1 .. Len(q) -> Item] BY <1>2
<1> QED BY <1>1, <1>3

LEMMA GivenFacts ==
  ASSUME NEW row \in Refs, NEW refs \in Refs
  PROVE  /\ Given(row, refs) \in Refs
         /\ \A d \in Docs : Given(row, refs)[d] = "marker" => row[d] = "marker" \/ refs[d] = "marker"
BY DEF Given, Refs

LEMMA ReplacedFacts ==
  ASSUME NEW refs \in Refs, NEW d \in Docs
  PROVE  /\ Replaced(refs, d) \in Refs
         /\ \A x \in Docs : Replaced(refs, d)[x] = "marker" <=> refs[x] = "marker" /\ x # d
BY DEF Replaced, Refs

LEMMA AppliedFacts ==
  ASSUME NEW item \in Item
  PROVE  /\ Applied(item) \in Refs
         /\ \A d \in Docs : Applied(item)[d] = "marker" => item.refs[d] = "marker"
BY DEF Applied, BeforeMarker, Refs, Item

LEMMA ServerRowFacts ==
  ASSUME NEW row \in Refs, NEW queue \in Seq(Item)
  PROVE  /\ ServerRow(row, queue) \in Refs
         /\ \A d \in Docs : ServerRow(row, queue)[d] = "marker" =>
              row[d] = "marker" \/ \E i \in DOMAIN queue : queue[i].refs[d] = "marker"
<1>1. ASSUME NEW d \in Docs
      PROVE  LET v == ServerRow(row, queue)[d] IN
             /\ v \in {"marker", "url", "none"}
             /\ v = "marker" => row[d] = "marker" \/ \E i \in DOMAIN queue : queue[i].refs[d] = "marker"
  <2> DEFINE writers == {i \in DOMAIN queue : Writes(queue[i], d)}
  <2>1. ServerRow(row, queue)[d] = IF writers = {} THEN row[d] ELSE Applied(queue[Max(writers)])[d]
    BY DEF ServerRow
  <2>2. CASE writers = {} BY <2>1, <2>2 DEF Refs
  <2>3. CASE writers # {}
    <3>1. Len(queue) \in Nat /\ writers \subseteq 1 .. Len(queue) /\ writers \subseteq DOMAIN queue
      OBVIOUS
    <3> HIDE DEF writers
    <3>2. Max(writers) \in DOMAIN queue BY <2>3, <3>1, LargestExists
    <3>3. queue[Max(writers)] \in Item BY <3>2
    <3> QED BY <2>1, <2>3, <3>2, <3>3, AppliedFacts DEF Refs
  <2> QED BY <2>2, <2>3
<1>2. ServerRow(row, queue) \in Refs BY <1>1 DEF ServerRow, Refs
<1> QED BY <1>1, <1>2

\* Queueing an edit.
LEMMA QueuedFacts ==
  ASSUME NEW database \in Local, NEW refs \in Refs
  PROVE  LET q == Queued(database, refs) IN
         /\ q \in Local
         /\ q.row = database.row /\ q.rec = database.rec /\ q.customer = database.customer
         /\ \A d \in Docs : (\E i \in DOMAIN q.queue : q.queue[i].refs[d] = "marker") =>
              refs[d] = "marker" \/ \E i \in DOMAIN database.queue : database.queue[i].refs[d] = "marker"
<1> DEFINE item == [refs |-> refs, status |-> "PENDING"]
           q == Queued(database, refs)
<1>1. item \in Item BY DEF Item
<1>2. /\ q.queue = Append(database.queue, item) /\ q.ahead = TRUE
      /\ q.row = database.row /\ q.rec = database.rec /\ q.customer = database.customer
  BY DEF Queued, Local
<1>3. database.queue \in Seq(Item) BY DEF Local
<1>4. q.queue \in Seq(Item) BY <1>1, <1>2, <1>3
<1>5. q \in Local BY <1>2, <1>4 DEF Queued, Local
<1>6. \A i \in DOMAIN q.queue : q.queue[i] = item \/ (i \in DOMAIN database.queue /\ q.queue[i] = database.queue[i])
  <2> HIDE DEF item
  <2> QED BY <1>1, <1>2, <1>3
<1> QED BY <1>2, <1>5, <1>6

\* Registering the next upload of a handler.
LEMMA RegisterFacts ==
  ASSUME NEW database \in Local, NEW then, RegisterNext(database, then),
         save \in Save
  PROVE  /\ db' \in Local
         /\ \/ save' = then
            \/ /\ save' \in Save /\ save'.at = "register" /\ save'.refs = save.refs
               /\ save'.todo \subseteq save.todo
         /\ \A d \in Docs : db'.rec[d] # database.rec[d] =>
              d \in save.todo /\ database.rec[d].status = "none" /\ db'.rec[d].status = "PENDING"
         /\ db'.row = database.row /\ db'.queue = database.queue
<1>1. PICK d \in save.todo :
        /\ db' = [database EXCEPT !.rec = enqueue_pending_upload(@, d)]
        /\ save' = IF save.todo = {d} THEN then ELSE [save EXCEPT !.at = "register", !.todo = @ \ {d}]
  BY DEF RegisterNext
<1>2. d \in Docs BY DEF Save
<1> DEFINE rec == enqueue_pending_upload(database.rec, d)
<1>3. /\ rec \in [Docs -> Rec]
      /\ \A x \in Docs : rec[x] # database.rec[x] =>
           x = d /\ database.rec[x].status = "none" /\ rec[x].status = "PENDING"
  <2>1. [status |-> "PENDING", retries |-> 0] \in Rec BY DEF Rec
  <2>2. database.rec \in [Docs -> Rec] BY DEF Local
  <2> QED BY <1>2, <2>1, <2>2 DEF enqueue_pending_upload
<1> HIDE DEF rec
<1>4. db' = [database EXCEPT !.rec = rec] BY <1>1 DEF rec
<1>5. db' \in Local /\ db'.rec = rec /\ db'.row = database.row /\ db'.queue = database.queue
  BY <1>3, <1>4 DEF Local
<1> DEFINE next == [save EXCEPT !.at = "register", !.todo = @ \ {d}]
<1>6. next \in Save /\ next.at = "register" /\ next.refs = save.refs /\ next.todo \subseteq save.todo
  BY DEF Save
<1>7. save' = then \/ save' = next BY <1>1
<1> HIDE DEF next
<1> QED BY <1>1, <1>2, <1>3, <1>5, <1>6, <1>7

LEMMA BoundedFacts ==
  ASSUME left \in Left, NEW what \in {"cuts", "faults", "crashes"}, Bounded(what)
  PROVE  left' \in Left /\ (Calm' => Calm /\ what = "cuts")
BY DEF Bounded, Left, Calm

(***************************************************************************)
(* The network, a crash, the form                                          *)
(***************************************************************************)
LEMMA NetworkKeeps == ASSUME UploadInv, Cut \/ Restore PROVE UploadInv'
<1> USE DEF UploadInv
<1>1. left' \in Left /\ (Calm' => Calm)
  BY BoundedFacts DEF Cut, Restore, Typed, Calm
<1>2. UNCHANGED <<kind, db, file, srv, form, save, sync, leaked>> BY DEF Cut, Restore
<1>3. Typed' BY <1>1, <1>2 DEF Typed, Due
<1>4. FilesInv' BY <1>2 DEF FilesInv, Mentioned, Confirmed
<1>5. OnceInv' BY <1>1, <1>2 DEF OnceInv, Confirmed
<1>6. HandlerInv' /\ LeakedInv' BY <1>2 DEF HandlerInv, LeakedInv, MarkersIn
<1>7. ReplacedInv' BY <1>1, <1>2 DEF ReplacedInv, Done
<1>8. RowInv' BY <1>1, <1>2 DEF RowInv, Done
<1> QED BY <1>3, <1>4, <1>5, <1>6, <1>7, <1>8

LEMMA CrashKeeps == ASSUME UploadInv, Crash PROVE UploadInv'
<1> USE DEF UploadInv
<1>1. left' \in Left /\ ~Calm' BY BoundedFacts DEF Crash, Typed
<1>2. /\ UNCHANGED <<kind, db, file, srv, leaked>>
      /\ form' = Nothing /\ save' = Nothing /\ sync' = [at |-> "idle", doc |-> Nothing, row |-> Nothing]
  BY DEF Crash, AtRest
<1>3. Typed' BY <1>1, <1>2 DEF Typed, Place, Trying
<1>4. FilesInv' BY <1>2 DEF FilesInv, Mentioned, Confirmed
<1>5. OnceInv' /\ ReplacedInv' BY <1>1 DEF OnceInv, ReplacedInv
<1>6. HandlerInv' /\ LeakedInv' BY <1>2 DEF HandlerInv, LeakedInv
<1>7. RowInv' BY <1>1 DEF RowInv
<1> QED BY <1>3, <1>4, <1>5, <1>6, <1>7

LEMMA OpenKeeps == ASSUME UploadInv, OpenForm PROVE UploadInv'
<1> USE DEF UploadInv
<1>1. /\ UNCHANGED <<kind, db, file, srv, save, sync, left>> /\ save = Nothing
      /\ form' = IF kind = "client" THEN Empty ELSE db.row
      /\ leaked' = leaked \cup MarkersIn(form')
  BY DEF OpenForm
<1>2. form' \in Refs /\ \A d \in Docs : form'[d] = "marker" => db.row[d] = "marker"
  BY <1>1 DEF Empty, Refs, Typed, Local
<1>3. Typed' BY <1>1, <1>2 DEF Typed, Due
<1>4. FilesInv' BY <1>1, <1>2 DEF FilesInv, Mentioned, Confirmed
<1>5. OnceInv' BY <1>1 DEF OnceInv, Confirmed, Calm
<1>6. HandlerInv' /\ LeakedInv' BY <1>1 DEF HandlerInv, LeakedInv, MarkersIn
<1>7. ReplacedInv' BY <1>1 DEF ReplacedInv, Done, Calm
<1>8. RowInv' BY <1>1 DEF RowInv, Done, Calm
<1> QED BY <1>3, <1>4, <1>5, <1>6, <1>7, <1>8

LEMMA UploadFormKeeps == ASSUME UploadInv, _upload_file PROVE UploadInv'
<1> USE DEF UploadInv
<1>1. PICK chosen \in SUBSET Docs \ {{}}, sent \in BOOLEAN :
       LET given == IF sent THEN "url" ELSE "marker"
           refs  == [d \in Docs |-> IF d \in chosen THEN given ELSE form[d]] IN
       /\ \A d \in chosen : file[d] = "none" /\ srv.copies[d] = 0
       /\ IF net /\ ~sent THEN Bounded("faults") ELSE UNCHANGED left
       /\ file' = [d \in Docs |-> IF d \in chosen /\ ~sent THEN "stored" ELSE file[d]]
       /\ srv' = [srv EXCEPT !.copies = [d \in Docs |-> IF d \in chosen /\ sent THEN 1 ELSE @[d]]]
       /\ save' = [at |-> "begin", refs |-> refs, todo |-> MarkersIn(refs), offline |-> TRUE]
  BY DEF _upload_file
<1>2. form # Nothing /\ form' = Nothing /\ UNCHANGED <<kind, net, db, sync, leaked>>
  BY DEF _upload_file
<1>3. left' \in Left /\ (Calm' => Calm) BY <1>1, BoundedFacts DEF Typed, Calm
<1> DEFINE refs == [d \in Docs |-> IF d \in chosen THEN (IF sent THEN "url" ELSE "marker") ELSE form[d]]
<1>4. form \in Refs /\ file \in [Docs -> {"none", "stored", "archived"}] /\ srv \in Server
  BY <1>2 DEF Typed
<1>5. /\ refs \in Refs
      /\ \A d \in Docs : refs[d] = "marker" <=> IF d \in chosen THEN ~sent ELSE form[d] = "marker"
  BY <1>4 DEF Refs
<1>6. save' = [at |-> "begin", refs |-> refs, todo |-> MarkersIn(refs), offline |-> TRUE]
  BY <1>1
<1> HIDE DEF refs
<1>7. /\ save' \in Save /\ save'.at = "begin" /\ save'.refs = refs /\ save'.todo = MarkersIn(refs)
  BY <1>5, <1>6 DEF Save, MarkersIn
<1>8. /\ srv' \in Server /\ srv'.row = srv.row
      /\ \A d \in Docs : srv'.copies[d] = IF d \in chosen /\ sent THEN 1 ELSE srv.copies[d]
  BY <1>1, <1>4 DEF Server
<1>9. /\ file' \in [Docs -> {"none", "stored", "archived"}]
      /\ \A d \in Docs : file'[d] = IF d \in chosen /\ ~sent THEN "stored" ELSE file[d]
  BY <1>1, <1>4
<1>10. \A d \in chosen : d \in Docs /\ file[d] = "none" /\ srv.copies[d] = 0 /\ ~Mentioned(d)
  BY <1>1 DEF FilesInv
<1>11. Typed' BY <1>2, <1>3, <1>7, <1>8, <1>9 DEF Typed, Due
<1>12. FilesInv'
  <2> SUFFICES ASSUME NEW d \in Docs
               PROVE  /\ Mentioned(d)' => file'[d] # "none"
                      /\ file'[d] = "archived" \/ Confirmed(d)' => srv'.copies[d] >= 1
    BY DEF FilesInv
  <2>1. Mentioned(d)' => Mentioned(d) \/ (d \in chosen /\ ~sent)
    BY <1>2, <1>5, <1>7, <1>8 DEF Mentioned, MarkersIn
  <2>2. (Mentioned(d) => file[d] # "none") /\ (file[d] = "archived" \/ Confirmed(d) => srv.copies[d] >= 1)
    BY DEF FilesInv
  <2> QED BY <1>2, <1>8, <1>9, <1>10, <2>1, <2>2 DEF Confirmed
<1>13. OnceInv'
  <2> SUFFICES ASSUME Calm', NEW d \in Docs
               PROVE  /\ srv'.copies[d] <= 1
                      /\ srv'.copies[d] = 1 => file'[d] = "none" \/ db'.rec[d].status = "SYNCED" \/ Confirmed(d)'
    BY DEF OnceInv
  <2>1. /\ srv.copies[d] <= 1
        /\ srv.copies[d] = 1 => file[d] = "none" \/ db.rec[d].status = "SYNCED" \/ Confirmed(d)
    BY <1>3 DEF OnceInv
  <2> QED BY <1>2, <1>8, <1>9, <1>10, <2>1 DEF Confirmed
<1>14. HandlerInv' BY <1>2, <1>5, <1>7, <1>10 DEF HandlerInv, LeakedInv, Mentioned
<1>15. LeakedInv' BY <1>2, <1>8 DEF LeakedInv
<1>16. ReplacedInv' BY <1>2, <1>3 DEF ReplacedInv, Done
<1>17. RowInv' BY <1>2, <1>3 DEF RowInv, Done
<1> QED BY <1>11, <1>12, <1>13, <1>14, <1>15, <1>16, <1>17

(***************************************************************************)
(* The handlers                                                            *)
(***************************************************************************)
\* A step of a handler registers uploads of its own edit, and gives its row or its
\* queue nothing else than the edit, before any upload of it is registered.
LEMMA QuietKeeps ==
  ASSUME UploadInv, Quiet, UNCHANGED srv, save # Nothing,
         db' \in Local,
         save' # Nothing =>
           /\ save' \in Save /\ save'.at \notin {"begin", "rows"}
           /\ save'.refs = save.refs /\ save'.todo \subseteq save.todo,
         \A d \in Docs : db'.rec[d] # db.rec[d] =>
           d \in save.todo /\ db.rec[d].status = "none" /\ db'.rec[d].status = "PENDING",
         \A d \in Docs : db'.row[d] = "marker" => db.row[d] = "marker" \/ save.refs[d] = "marker",
         \A d \in Docs : (\E i \in DOMAIN db'.queue : db'.queue[i].refs[d] = "marker") =>
           save.refs[d] = "marker" \/ \E i \in DOMAIN db.queue : db.queue[i].refs[d] = "marker",
         \/ save.at \in {"begin", "rows"}
         \/ db'.row = db.row /\ (kind = "client" \/ db'.queue = db.queue)
  PROVE  UploadInv'
<1> USE DEF UploadInv
<1>1. UNCHANGED <<kind, net, file, form, sync, left, leaked>> BY DEF Quiet
<1>2. Calm' <=> Calm BY <1>1 DEF Calm
<1>3. sync.at \in Trying => db'.rec[sync.doc] = db.rec[sync.doc]
  BY DEF Typed, Due
<1>4. Typed' BY <1>1, <1>3 DEF Typed, Due
<1>5. FilesInv'
  <2> SUFFICES ASSUME NEW d \in Docs
               PROVE  /\ Mentioned(d)' => file'[d] # "none"
                      /\ file'[d] = "archived" \/ Confirmed(d)' => srv'.copies[d] >= 1
    BY DEF FilesInv
  <2>1. Mentioned(d)' => Mentioned(d) BY <1>1 DEF Mentioned
  <2> QED BY <1>1, <2>1 DEF FilesInv, Confirmed
<1>6. OnceInv' BY <1>1, <1>2 DEF OnceInv, Confirmed
<1>7. HandlerInv' BY DEF HandlerInv
<1>8. LeakedInv' BY <1>1 DEF LeakedInv
<1>9. ReplacedInv'
  <2> SUFFICES ASSUME Calm, NEW d \in Docs \ leaked, Done(d)'
               PROVE  /\ db'.row[d] # "marker"
                      /\ kind # "client" => \A i \in DOMAIN db'.queue : db'.queue[i].refs[d] # "marker"
    BY <1>1, <1>2 DEF ReplacedInv
  <2>1. Done(d) BY <1>1 DEF Done
  <2>2. db.rec[d].status # "none" BY <2>1 DEF Done, Typed, Due, Trying
  <2>3. /\ db.row[d] # "marker"
        /\ kind # "client" => \A i \in DOMAIN db.queue : db.queue[i].refs[d] # "marker"
    BY <2>1 DEF ReplacedInv
  <2>4. CASE save.at \in {"begin", "rows"}
    <3>1. save.refs[d] # "marker" BY <2>2, <2>4 DEF HandlerInv
    <3> QED BY <2>3, <3>1
  <2>5. CASE db'.row = db.row /\ (kind = "client" \/ db'.queue = db.queue) BY <2>3, <2>5
  <2> QED BY <2>4, <2>5
<1>10. RowInv'
  <2> SUFFICES ASSUME Calm, sync.at = "loaded", NEW d \in Docs \ leaked
               PROVE  /\ Done(d)' => sync.row[d] # "marker"
                      /\ d = sync.doc /\ sync.row[d] # "marker" => db'.row[d] # "marker"
    BY <1>1, <1>2 DEF RowInv
  <2>1. /\ Done(d) => sync.row[d] # "marker"
        /\ d = sync.doc /\ sync.row[d] # "marker" => db.row[d] # "marker"
    BY DEF RowInv
  <2>2. Done(d)' => Done(d) BY <1>1 DEF Done
  <2>3. CASE d = sync.doc /\ save.at \in {"begin", "rows"}
    <3>1. db.rec[d].status # "none" BY <2>3 DEF Typed, Trying, Due
    <3>2. save.refs[d] # "marker" BY <2>3, <3>1 DEF HandlerInv
    <3> QED BY <2>1, <2>2, <3>2
  <2>4. CASE db'.row = db.row BY <2>1, <2>2, <2>4
  <2> QED BY <2>1, <2>2, <2>3, <2>4
<1> QED BY <1>4, <1>5, <1>6, <1>7, <1>8, <1>9, <1>10

LEMMA SavingFacts ==
  ASSUME Typed, save # Nothing
  PROVE  /\ save \in Save /\ save.refs \in Refs /\ save.todo \subseteq Docs
         /\ db \in Local /\ db.row \in Refs
BY DEF Typed, Save, Local

LEMMA UpdateClientKeeps == ASSUME UploadInv, update_client PROVE UploadInv'
<1> USE DEF UploadInv
<1>1. /\ save # Nothing /\ save.at = "begin" /\ UNCHANGED <<kind, net, db, file, form, sync, leaked>>
  BY DEF update_client, Saving
<1>2. save \in Save /\ save.refs \in Refs BY <1>1, SavingFacts
<1>3. save' # Nothing => save' \in Save /\ save'.refs = save.refs /\ save'.todo = save.todo /\ save'.at = "rows"
  BY <1>2 DEF update_client, Save
<1>4. left' \in Left /\ (Calm' => Calm) BY BoundedFacts DEF update_client, Typed, Calm
<1>5. /\ srv' \in Server /\ srv'.copies = srv.copies
      /\ \A d \in Docs : srv'.row[d] = "marker" => srv.row[d] = "marker"
  <2>1. CASE save.todo = {} /\ srv' = [srv EXCEPT !.row = Given(@, save.refs)]
    <3>1. \A d \in Docs : save.refs[d] # "marker" BY <1>1, <2>1 DEF HandlerInv, MarkersIn
    <3>2. srv \in Server /\ srv.row \in Refs BY DEF Typed, Server
    <3>3. /\ Given(srv.row, save.refs) \in Refs
          /\ \A d \in Docs : Given(srv.row, save.refs)[d] = "marker" => srv.row[d] = "marker"
      BY <1>2, <3>1, <3>2, GivenFacts
    <3> QED BY <2>1, <3>2, <3>3 DEF Server
  <2>2. CASE srv' = srv BY <2>2 DEF Typed
  <2> QED BY <2>1, <2>2 DEF update_client
<1>6. Typed' BY <1>1, <1>3, <1>4, <1>5 DEF Typed, Due
<1>7. FilesInv'
  <2> SUFFICES ASSUME NEW d \in Docs
               PROVE  /\ Mentioned(d)' => file'[d] # "none"
                      /\ file'[d] = "archived" \/ Confirmed(d)' => srv'.copies[d] >= 1
    BY DEF FilesInv
  <2>1. Mentioned(d)' => Mentioned(d) BY <1>1, <1>3, <1>5 DEF Mentioned
  <2> QED BY <1>1, <1>5, <2>1 DEF FilesInv, Confirmed
<1>8. OnceInv' BY <1>1, <1>4, <1>5 DEF OnceInv, Confirmed
<1>9. HandlerInv' BY <1>1, <1>3 DEF HandlerInv
<1>10. LeakedInv' BY <1>1, <1>5 DEF LeakedInv
<1>11. ReplacedInv' BY <1>1, <1>4 DEF ReplacedInv, Done
<1>12. RowInv' BY <1>1, <1>4 DEF RowInv, Done
<1> QED BY <1>6, <1>7, <1>8, <1>9, <1>10, <1>11, <1>12

LEMMA ClientKeeps ==
  ASSUME UploadInv, ClientRows \/ ClientRegister \/ ClientQueue PROVE UploadInv'
<1>1. Quiet /\ srv' = srv /\ save # Nothing /\ kind = "client" /\ Typed
  BY DEF ClientRows, ClientRegister, ClientQueue, Saving, UploadInv
<1>2. /\ save \in Save /\ save.refs \in Refs /\ save.todo \subseteq Docs
      /\ db \in Local /\ db.row \in Refs
  BY <1>1, SavingFacts
<1> DEFINE then == [save EXCEPT !.at = "queue", !.todo = {}]
<1>3. then \in Save /\ then.at = "queue" /\ then.refs = save.refs /\ then.todo = {}
  BY <1>2 DEF Save
<1> HIDE DEF then
<1>4. CASE ClientRows
  <2> DEFINE written == [db EXCEPT !.row = Given(@, save.refs), !.ahead = @ \/ save.offline]
  <2>1. /\ Given(db.row, save.refs) \in Refs
        /\ \A d \in Docs : Given(db.row, save.refs)[d] = "marker" => db.row[d] = "marker" \/ save.refs[d] = "marker"
    BY <1>2, GivenFacts
  <2>2. /\ written \in Local /\ written.row = Given(db.row, save.refs)
        /\ written.rec = db.rec /\ written.queue = db.queue
    BY <1>2, <2>1 DEF Local, Save
  <2>3. /\ save.at = "rows"
        /\ \/ save' = Nothing /\ db' = IF save.offline THEN Queued(written, save.refs) ELSE written
           \/ RegisterNext(written, then)
    BY <1>4 DEF ClientRows, Saving, then
  <2> HIDE DEF written
  <2>4. CASE save' = Nothing /\ db' = Queued(written, save.refs)
    <3>1. /\ db' \in Local /\ db'.row = written.row /\ db'.rec = written.rec
          /\ \A d \in Docs : (\E i \in DOMAIN db'.queue : db'.queue[i].refs[d] = "marker") =>
               save.refs[d] = "marker" \/ \E i \in DOMAIN written.queue : written.queue[i].refs[d] = "marker"
      BY <1>2, <2>2, <2>4, QueuedFacts
    <3> QED BY <1>1, <2>1, <2>2, <2>3, <2>4, <3>1, QuietKeeps
  <2>5. CASE save' = Nothing /\ db' = written
    BY <1>1, <1>2, <2>1, <2>2, <2>3, <2>5, QuietKeeps
  <2>6. CASE RegisterNext(written, then)
    <3>1. /\ db' \in Local
          /\ save' # Nothing => save' \in Save /\ save'.at \in {"queue", "register"}
                                /\ save'.refs = save.refs /\ save'.todo \subseteq save.todo
          /\ \A d \in Docs : db'.rec[d] # written.rec[d] =>
               d \in save.todo /\ written.rec[d].status = "none" /\ db'.rec[d].status = "PENDING"
          /\ db'.row = written.row /\ db'.queue = written.queue
      BY <1>1, <1>2, <1>3, <2>2, <2>6, RegisterFacts
    <3> QED BY <1>1, <2>1, <2>2, <2>3, <3>1, QuietKeeps
  <2> QED BY <2>3, <2>4, <2>5, <2>6
<1>5. CASE ClientRegister
  <2>1. RegisterNext(db, then) BY <1>5 DEF ClientRegister, then
  <2>2. /\ db' \in Local
        /\ save' # Nothing => save' \in Save /\ save'.at \in {"queue", "register"}
                              /\ save'.refs = save.refs /\ save'.todo \subseteq save.todo
        /\ \A d \in Docs : db'.rec[d] # db.rec[d] =>
             d \in save.todo /\ db.rec[d].status = "none" /\ db'.rec[d].status = "PENDING"
        /\ db'.row = db.row /\ db'.queue = db.queue
    BY <1>1, <1>2, <1>3, <2>1, RegisterFacts
  <2> QED BY <1>1, <2>2, QuietKeeps
<1>6. CASE ClientQueue
  <2>1. save' = Nothing /\ db' = IF save.offline THEN Queued(db, save.refs) ELSE db
    BY <1>6 DEF ClientQueue
  <2> QED BY <1>1, <1>2, <2>1, QueuedFacts, QuietKeeps
<1> QED BY <1>4, <1>5, <1>6

LEMMA RegisteringKeeps ==
  ASSUME UploadInv, _register_vehicle_image_uploads \/ ReservationRegister PROVE UploadInv'
<1>1. Quiet /\ srv' = srv /\ save # Nothing /\ Typed /\ RegisterNext(db, Nothing)
  BY DEF _register_vehicle_image_uploads, ReservationRegister, Saving, UploadInv
<1>2. save \in Save /\ db \in Local BY <1>1, SavingFacts
<1>3. /\ db' \in Local
      /\ save' # Nothing => save' \in Save /\ save'.at = "register"
                            /\ save'.refs = save.refs /\ save'.todo \subseteq save.todo
      /\ \A d \in Docs : db'.rec[d] # db.rec[d] =>
           d \in save.todo /\ db.rec[d].status = "none" /\ db'.rec[d].status = "PENDING"
      /\ db'.row = db.row /\ db'.queue = db.queue
  BY <1>1, <1>2, RegisterFacts
<1> QED BY <1>1, <1>3, QuietKeeps

LEMMA RecordKeeps ==
  ASSUME UploadInv, _update_vehicle \/ _create_reservation_record PROVE UploadInv'
<1>1. Quiet /\ srv' = srv /\ save # Nothing /\ save.at = "begin" /\ Typed
  BY DEF _update_vehicle, _create_reservation_record, Saving, UploadInv
<1>2. save \in Save /\ save.refs \in Refs /\ db \in Local BY <1>1, SavingFacts
<1>3. CASE _update_vehicle
  <2> DEFINE base == [db EXCEPT !.row = save.refs]
  <2>1. base \in Local /\ base.row = save.refs /\ base.rec = db.rec /\ base.queue = db.queue
    BY <1>2 DEF Local
  <2>2. db' = Queued(base, save.refs) BY <1>3 DEF _update_vehicle
  <2>3. save' # Nothing => save' \in Save /\ save'.at = "register" /\ save'.refs = save.refs /\ save'.todo = save.todo
    BY <1>2, <1>3 DEF _update_vehicle, Save
  <2> HIDE DEF base
  <2> QED BY <1>1, <1>2, <2>1, <2>2, <2>3, QueuedFacts, QuietKeeps
<1>4. CASE _create_reservation_record
  <2> DEFINE base == [db EXCEPT !.row = save.refs, !.customer = TRUE]
             written == Queued(base, save.refs)
  <2>1. base \in Local /\ base.row = save.refs /\ base.rec = db.rec /\ base.queue = db.queue
    BY <1>2 DEF Local
  <2>2. (save' = Nothing /\ db' = written) \/ RegisterNext(written, Nothing)
    BY <1>4 DEF _create_reservation_record
  <2> HIDE DEF base
  <2>3. /\ written \in Local /\ written.row = save.refs /\ written.rec = db.rec
        /\ \A d \in Docs : (\E i \in DOMAIN written.queue : written.queue[i].refs[d] = "marker") =>
             save.refs[d] = "marker" \/ \E i \in DOMAIN db.queue : db.queue[i].refs[d] = "marker"
    BY <1>2, <2>1, QueuedFacts
  <2> HIDE DEF written
  <2>4. CASE save' = Nothing /\ db' = written BY <1>1, <2>3, <2>4, QuietKeeps
  <2>5. CASE RegisterNext(written, Nothing)
    <3>1. /\ db' \in Local
          /\ save' # Nothing => save' \in Save /\ save'.at = "register"
                                /\ save'.refs = save.refs /\ save'.todo \subseteq save.todo
          /\ \A d \in Docs : db'.rec[d] # written.rec[d] =>
               d \in save.todo /\ written.rec[d].status = "none" /\ db'.rec[d].status = "PENDING"
          /\ db'.row = written.row /\ db'.queue = written.queue
      BY <1>1, <1>2, <2>3, <2>5, RegisterFacts
    <3> QED BY <1>1, <2>3, <3>1, QuietKeeps
  <2> QED BY <2>2, <2>4, <2>5
<1> QED BY <1>3, <1>4

LEMMA CompensateKeeps == ASSUME UploadInv, Compensate PROVE UploadInv'
<1> USE DEF UploadInv
<1>1. left' \in Left /\ ~Calm' BY BoundedFacts DEF Compensate, Typed
<1>2. /\ UNCHANGED <<kind, net, file, srv, form, sync, leaked>> /\ save' = Nothing
      /\ db' = [db EXCEPT !.customer = FALSE]
  BY DEF Compensate
<1>3. db' \in Local /\ db'.row = db.row /\ db'.queue = db.queue /\ db'.rec = db.rec
  BY <1>2 DEF Typed, Local
<1>4. Typed' BY <1>1, <1>2, <1>3 DEF Typed, Due
<1>5. FilesInv' BY <1>2, <1>3 DEF FilesInv, Mentioned, Confirmed
<1>6. OnceInv' /\ ReplacedInv' BY <1>1 DEF OnceInv, ReplacedInv
<1>7. HandlerInv' /\ LeakedInv' BY <1>2 DEF HandlerInv, LeakedInv
<1>8. RowInv' BY <1>1 DEF RowInv
<1> QED BY <1>4, <1>5, <1>6, <1>7, <1>8

(***************************************************************************)
(* The sync thread                                                         *)
(***************************************************************************)
LEMMA StillFacts ==
  ASSUME UploadInv, Still
  PROVE  /\ UNCHANGED <<kind, net, form, save, leaked>>
         /\ db \in Local /\ db.row \in Refs /\ db.rec \in [Docs -> Rec] /\ db.queue \in Seq(Item)
         /\ srv \in Server /\ srv.row \in Refs /\ srv.copies \in [Docs -> Nat]
         /\ file \in [Docs -> {"none", "stored", "archived"}]
         /\ left \in Left /\ sync \in Place
BY DEF Still, UploadInv, Typed, Local, Server

LEMMA ProcessKeeps == ASSUME UploadInv, process_due PROVE UploadInv'
<1> USE DEF UploadInv
<1>1. /\ UNCHANGED <<kind, net, form, save, leaked, db, file, srv, left>> /\ sync.at = "idle"
      /\ \/ \E d \in Docs : Due(db.rec[d]) /\ sync' = [at |-> "post", doc |-> d, row |-> Nothing]
         \/ sync' = [at |-> "push", doc |-> Nothing, row |-> Nothing]
  BY DEF process_due, Still, SyncGoes, SyncAt
<1>2. /\ sync' \in Place /\ sync'.at \in {"post", "push"}
      /\ sync'.at \in Trying => sync'.doc \in Docs /\ Due(db.rec[sync'.doc])
  BY <1>1 DEF Place, Trying
<1>3. Typed' BY <1>1, <1>2 DEF Typed, Due
<1>4. FilesInv' BY <1>1, <1>2 DEF FilesInv, Mentioned, Confirmed
<1>5. OnceInv' BY <1>1, <1>2 DEF OnceInv, Confirmed, Calm
<1>6. HandlerInv' /\ LeakedInv' BY <1>1 DEF HandlerInv, LeakedInv, MarkersIn
<1>7. ReplacedInv' BY <1>1, <1>2 DEF ReplacedInv, Done, Calm
<1>8. RowInv' BY <1>2 DEF RowInv
<1> QED BY <1>3, <1>4, <1>5, <1>6, <1>7, <1>8

LEMMA UploadOnceKeeps == ASSUME UploadInv, _upload_file_once PROVE UploadInv'
<1> USE DEF UploadInv
<1> DEFINE d == sync.doc
           stored == [srv EXCEPT !.copies[d] = @ + 1]
<1>1. sync.at = "post" /\ d \in Docs /\ Due(db.rec[d])
  BY DEF _upload_file_once, SyncAt, Typed, Trying
<1>2. /\ UNCHANGED <<kind, net, form, save, leaked, db, file>>
      /\ srv \in Server /\ srv.copies \in [Docs -> Nat]
  BY StillFacts DEF _upload_file_once
<1>3. \/ srv' = stored /\ sync' = [at |-> "uploaded", doc |-> d, row |-> Nothing] /\ left' = left
      \/ srv' = stored /\ sync' = [at |-> "failed", doc |-> d, row |-> Nothing] /\ Bounded("faults")
      \/ srv' = srv /\ sync' = [at |-> "refused", doc |-> d, row |-> Nothing] /\ Bounded("faults")
      \/ srv' = srv /\ sync' = [at |-> "failed", doc |-> d, row |-> Nothing] /\ left' = left
  BY DEF _upload_file_once, SyncGoes
<1>4. /\ stored \in Server /\ stored.row = srv.row
      /\ \A x \in Docs : stored.copies[x] = IF x = d THEN srv.copies[x] + 1 ELSE srv.copies[x]
  BY <1>1, <1>2 DEF Server
<1> HIDE DEF stored
<1>5. left' \in Left /\ (Calm' => Calm /\ left' = left)
  BY <1>3, BoundedFacts DEF Typed, Calm
<1>6. /\ sync' \in Place /\ sync'.doc = d /\ sync'.at \in {"uploaded", "failed", "refused"}
      /\ sync'.at \in Trying
  BY <1>1, <1>3 DEF Place, Trying
<1>7. srv' \in Server /\ srv'.row = srv.row
  BY <1>2, <1>3, <1>4
<1>8. file[d] # "none" BY <1>1 DEF FilesInv, Mentioned, Due
<1>9. Typed' BY <1>1, <1>2, <1>5, <1>6, <1>7 DEF Typed, Due
<1>10. FilesInv'
  <2> SUFFICES ASSUME NEW x \in Docs
               PROVE  /\ Mentioned(x)' => file'[x] # "none"
                      /\ file'[x] = "archived" \/ Confirmed(x)' => srv'.copies[x] >= 1
    BY DEF FilesInv
  <2>1. Mentioned(x)' => Mentioned(x) BY <1>2, <1>6, <1>7 DEF Mentioned
  <2>2. (Mentioned(x) => file[x] # "none") /\ (file[x] = "archived" => srv.copies[x] >= 1)
    BY DEF FilesInv
  <2>3. srv.copies[x] \in Nat BY <1>2
  <2>4. Confirmed(x)' => x = d /\ srv' = stored BY <1>3 DEF Confirmed
  <2> QED BY <1>2, <1>3, <1>4, <2>1, <2>2, <2>3, <2>4
<1>11. OnceInv'
  <2> SUFFICES ASSUME Calm', NEW x \in Docs
               PROVE  /\ srv'.copies[x] <= 1
                      /\ srv'.copies[x] = 1 => file'[x] = "none" \/ db'.rec[x].status = "SYNCED" \/ Confirmed(x)'
    BY DEF OnceInv
  <2>1. /\ srv.copies[x] <= 1 /\ srv.copies[x] \in Nat
        /\ srv.copies[x] = 1 => file[x] = "none" \/ db.rec[x].status = "SYNCED" \/ Confirmed(x)
    BY <1>2, <1>5 DEF OnceInv
  <2>2. \/ srv' = stored /\ sync' = [at |-> "uploaded", doc |-> d, row |-> Nothing]
        \/ srv' = srv /\ sync' = [at |-> "failed", doc |-> d, row |-> Nothing]
    BY <1>3, <1>5, BoundedFacts DEF Typed
  <2>3. ~Confirmed(x) BY <1>1 DEF Confirmed
  <2>4. x = d => srv.copies[x] = 0 BY <1>1, <1>8, <2>1, <2>3 DEF Due
  <2>5. CASE srv' = stored /\ sync' = [at |-> "uploaded", doc |-> d, row |-> Nothing]
    BY <1>2, <1>4, <2>1, <2>3, <2>4, <2>5 DEF Confirmed
  <2>6. CASE srv' = srv BY <1>2, <2>1, <2>3, <2>6
  <2> QED BY <2>2, <2>5, <2>6
<1>12. HandlerInv' /\ LeakedInv' BY <1>2, <1>7 DEF HandlerInv, LeakedInv, MarkersIn
<1>13. ReplacedInv' BY <1>2, <1>5, <1>6 DEF ReplacedInv, Done
<1>14. RowInv' BY <1>6 DEF RowInv
<1> QED BY <1>9, <1>10, <1>11, <1>12, <1>13, <1>14

LEMMA LoadKeeps == ASSUME UploadInv, LoadMarked PROVE UploadInv'
<1> USE DEF UploadInv
<1>1. /\ UNCHANGED <<kind, net, form, save, leaked, db, file, srv, left>> /\ sync.at = "uploaded"
      /\ sync' = [at |-> "loaded", doc |-> sync.doc, row |-> db.row] /\ db.row \in Refs
  BY StillFacts DEF LoadMarked, SyncAt
<1>2. sync' \in Place /\ sync'.at = "loaded" /\ sync'.doc = sync.doc /\ sync'.row = db.row
  BY <1>1 DEF Typed, Place, Trying
<1>3. Typed' BY <1>1, <1>2 DEF Typed, Due, Trying
<1>4. FilesInv' BY <1>1, <1>2 DEF FilesInv, Mentioned, Confirmed
<1>5. OnceInv' BY <1>1, <1>2 DEF OnceInv, Confirmed, Calm
<1>6. HandlerInv' /\ LeakedInv' BY <1>1 DEF HandlerInv, LeakedInv, MarkersIn
<1>7. ReplacedInv' /\ RowInv' BY <1>1, <1>2 DEF ReplacedInv, RowInv, Done, Calm
<1> QED BY <1>3, <1>4, <1>5, <1>6, <1>7

LEMMA ReplaceKeeps == ASSUME UploadInv, replace_marker_in_entities PROVE UploadInv'
<1> USE DEF UploadInv
<1> DEFINE d == sync.doc
           row == RowWritten
           queue == [i \in DOMAIN db.queue |-> [db.queue[i] EXCEPT !.refs = Replaced(@, d)]]
           new == [db EXCEPT !.row = row, !.queue = queue]
<1>1. sync.at = "loaded" /\ d \in Docs /\ Due(db.rec[d]) /\ sync.row \in Refs
  BY DEF replace_marker_in_entities, SyncAt, Typed, Trying
<1>2. /\ UNCHANGED <<kind, net, form, save, leaked, file, srv>>
      /\ db \in Local /\ db.row \in Refs /\ db.queue \in Seq(Item)
      /\ sync' = [at |-> "replaced", doc |-> d, row |-> Nothing]
  BY StillFacts DEF replace_marker_in_entities, SyncGoes
<1>3. (db' = new /\ left' = left) \/ (Bounded("faults") /\ db' = db)
  BY <1>2 DEF replace_marker_in_entities
<1>4. /\ row \in Refs
      /\ sync.row[d] # "marker" => row = db.row
      /\ sync.row[d] = "marker" => row[d] # "marker"
      /\ \A x \in Docs : row[x] = "marker" => db.row[x] = "marker" \/ sync.row[x] = "marker"
  <2>1. CASE sync.row[d] # "marker" BY <1>2, <2>1 DEF RowWritten
  <2>2. CASE sync.row[d] = "marker" /\ kind = "vehicle"
    BY <1>1, <2>2, ReplacedFacts DEF RowWritten
  <2>3. CASE sync.row[d] = "marker" /\ kind # "vehicle"
    <3>1. row = [db.row EXCEPT ![d] = "url"] BY <2>3 DEF RowWritten
    <3> HIDE DEF row
    <3> QED BY <1>1, <1>2, <2>3, <3>1 DEF Refs
  <2> QED BY <2>1, <2>2, <2>3
<1>5. ASSUME NEW i \in DOMAIN db.queue
      PROVE  /\ queue[i] \in Item
             /\ \A x \in Docs : queue[i].refs[x] = "marker" <=> db.queue[i].refs[x] = "marker" /\ x # d
  <2>1. db.queue[i] \in Item /\ db.queue[i].refs \in Refs BY <1>2, ItemFacts
  <2>2. /\ Replaced(db.queue[i].refs, d) \in Refs
        /\ \A x \in Docs : Replaced(db.queue[i].refs, d)[x] = "marker" <=> db.queue[i].refs[x] = "marker" /\ x # d
    BY <1>1, <2>1, ReplacedFacts
  <2> QED BY <2>1, <2>2 DEF Item
<1>6. DOMAIN queue = DOMAIN db.queue /\ queue \in Seq(Item)
  <2>1. queue = [i \in DOMAIN db.queue |-> queue[i]] OBVIOUS
  <2>2. \A i \in DOMAIN db.queue : queue[i] \in Item BY <1>5
  <2> HIDE DEF queue
  <2> QED BY <1>2, <2>1, <2>2, SameLength
<1> HIDE DEF row, queue
<1>7. new \in Local /\ new.row = row /\ new.queue = queue /\ new.rec = db.rec
  BY <1>2, <1>4, <1>6 DEF Local
<1> HIDE DEF new
<1>8. left' \in Left /\ (Calm' => Calm /\ db' = new)
  BY <1>3, BoundedFacts DEF Typed, Calm
<1>9. db' \in Local /\ db'.rec = db.rec BY <1>2, <1>3, <1>7
<1>10. sync' \in Place /\ sync'.doc = d /\ sync'.at = "replaced" BY <1>1, <1>2 DEF Place, Trying
<1>11. Typed' BY <1>1, <1>2, <1>8, <1>9, <1>10 DEF Typed, Due
<1>12. FilesInv'
  <2> SUFFICES ASSUME NEW x \in Docs
               PROVE  /\ Mentioned(x)' => file'[x] # "none"
                      /\ file'[x] = "archived" \/ Confirmed(x)' => srv'.copies[x] >= 1
    BY DEF FilesInv
  <2>1. Mentioned(x)' => Mentioned(x)
    <3>1. db'.row[x] = "marker" => db.row[x] = "marker" \/ sync.row[x] = "marker"
      BY <1>3, <1>4, <1>7
    <3>2. (\E i \in DOMAIN db'.queue : db'.queue[i].refs[x] = "marker")
            => \E i \in DOMAIN db.queue : db.queue[i].refs[x] = "marker"
      BY <1>3, <1>5, <1>6, <1>7
    <3> QED BY <1>1, <1>2, <1>9, <1>10, <3>1, <3>2 DEF Mentioned
  <2>2. Confirmed(x)' => Confirmed(x) BY <1>1, <1>10 DEF Confirmed
  <2> QED BY <1>2, <2>1, <2>2 DEF FilesInv
<1>13. OnceInv' BY <1>1, <1>2, <1>8, <1>9, <1>10 DEF OnceInv, Confirmed
<1>14. HandlerInv' /\ LeakedInv' BY <1>2, <1>9 DEF HandlerInv, LeakedInv, MarkersIn
<1>15. ReplacedInv'
  <2> SUFFICES ASSUME Calm', NEW x \in Docs \ leaked, Done(x)'
               PROVE  /\ db'.row[x] # "marker"
                      /\ kind # "client" => \A i \in DOMAIN db'.queue : db'.queue[i].refs[x] # "marker"
    BY <1>2 DEF ReplacedInv
  <2>1. Done(x) \/ x = d BY <1>9, <1>10 DEF Done
  <2>2. /\ db'.row[x] # "marker"
        /\ \A i \in DOMAIN db'.queue :
             i \in DOMAIN db.queue /\ (db'.queue[i].refs[x] = "marker" => db.queue[i].refs[x] = "marker" /\ x # d)
    <3>1. db' = new BY <1>8
    <3>2. Done(x) => db.row[x] # "marker" /\ sync.row[x] # "marker"
      BY <1>1, <1>8 DEF ReplacedInv, RowInv
    <3>3. x = d => db.row[x] # "marker" \/ sync.row[x] = "marker"
      BY <1>1, <1>8 DEF RowInv
    <3>4. db'.row[x] # "marker" BY <1>4, <1>7, <2>1, <3>1, <3>2, <3>3
    <3> QED BY <1>5, <1>6, <1>7, <3>1, <3>4
  <2>3. Done(x) => (kind # "client" => \A i \in DOMAIN db.queue : db.queue[i].refs[x] # "marker")
    BY <1>8 DEF ReplacedInv
  <2> QED BY <1>2, <2>1, <2>2, <2>3
<1>16. RowInv' BY <1>10 DEF RowInv
<1> QED BY <1>11, <1>12, <1>13, <1>14, <1>15, <1>16

\* Recording the outcome of an attempt.
LEMMA RecordingKeeps == ASSUME UploadInv, RecordSynced \/ RecordFailure PROVE UploadInv'
<1> USE DEF UploadInv
<1> DEFINE d == sync.doc
<1>1. /\ sync.at \in {"replaced", "failed", "refused"} /\ d \in Docs /\ Due(db.rec[d])
  BY DEF RecordSynced, RecordFailure, SyncAt, Typed, Trying
<1>2. /\ UNCHANGED <<kind, net, form, save, leaked, srv, left>>
      /\ db \in Local /\ db.rec \in [Docs -> Rec] /\ srv.copies \in [Docs -> Nat]
      /\ file \in [Docs -> {"none", "stored", "archived"}]
      /\ sync' = [at |-> "idle", doc |-> Nothing, row |-> Nothing]
  BY StillFacts DEF RecordSynced, RecordFailure, SyncGoes
<1>3. \E r \in Rec : /\ db' = [db EXCEPT !.rec[d] = r] /\ r.status # "none"
                     /\ r.status = "SYNCED" <=> sync.at = "replaced"
  <2>1. db.rec[d] \in Rec /\ db.rec[d].retries \in 0 .. MaxRetries /\ db.rec[d].retries < MaxRetries
    BY <1>1, <1>2 DEF Rec, Due
  <2>2. CASE RecordSynced
    <3>1. [status |-> "SYNCED", retries |-> db.rec[d].retries] \in Rec BY <2>1 DEF Rec
    <3>2. sync.at = "replaced" BY <2>2 DEF RecordSynced, SyncAt
    <3> QED BY <2>2, <3>1, <3>2 DEF RecordSynced, SetRecord
  <2>3. CASE RecordFailure
    <3>1. [status |-> "PERMANENT_FAILED", retries |-> db.rec[d].retries] \in Rec BY <2>1 DEF Rec
    <3>2. [status |-> "FAILED", retries |-> db.rec[d].retries + 1] \in Rec BY <2>1 DEF Rec
    <3>3. sync.at # "replaced" BY <2>3 DEF RecordFailure
    <3> QED BY <2>3, <3>1, <3>2, <3>3 DEF RecordFailure, SetRecord
  <2> QED BY <2>2, <2>3
<1>4. /\ db' \in Local /\ db'.row = db.row /\ db'.queue = db.queue
      /\ \A x \in Docs \ {d} : db'.rec[x] = db.rec[x]
      /\ db'.rec[d].status # "none" /\ (db'.rec[d].status = "SYNCED" <=> sync.at = "replaced")
  <2>1. PICK r \in Rec : /\ db' = [db EXCEPT !.rec[d] = r] /\ r.status # "none"
                         /\ r.status = "SYNCED" <=> sync.at = "replaced"
    BY <1>3
  <2>2. db' \in Local /\ db'.row = db.row /\ db'.queue = db.queue /\ db'.rec = [db.rec EXCEPT ![d] = r]
    BY <1>1, <1>2, <2>1 DEF Local
  <2> QED BY <1>1, <1>2, <2>1, <2>2
<1>5. /\ file' \in [Docs -> {"none", "stored", "archived"}]
      /\ \A x \in Docs : file'[x] = IF x = d /\ sync.at = "replaced" THEN "archived" ELSE file[x]
  BY <1>1, <1>2 DEF RecordSynced, RecordFailure, SyncAt
<1>6. sync' \in Place /\ sync'.at = "idle" BY <1>2 DEF Place
<1>7. file[d] # "none" BY <1>1 DEF FilesInv, Mentioned, Due
<1>8. Typed' BY <1>2, <1>4, <1>5, <1>6 DEF Typed, Trying
<1>9. FilesInv'
  <2> SUFFICES ASSUME NEW x \in Docs
               PROVE  /\ Mentioned(x)' => file'[x] # "none"
                      /\ file'[x] = "archived" \/ Confirmed(x)' => srv'.copies[x] >= 1
    BY DEF FilesInv
  <2>1. Mentioned(x)' => Mentioned(x) \/ x = d BY <1>2, <1>4 DEF Mentioned
  <2>2. (Mentioned(x) => file[x] # "none") /\ (file[x] = "archived" \/ Confirmed(x) => srv.copies[x] >= 1)
    BY DEF FilesInv
  <2> QED BY <1>2, <1>5, <1>6, <1>7, <2>1, <2>2 DEF Confirmed
<1>10. OnceInv'
  <2> SUFFICES ASSUME Calm, NEW x \in Docs
               PROVE  /\ srv.copies[x] <= 1
                      /\ srv.copies[x] = 1 => file'[x] = "none" \/ db'.rec[x].status = "SYNCED"
    BY <1>2 DEF OnceInv, Calm
  <2>1. /\ srv.copies[x] <= 1
        /\ srv.copies[x] = 1 => file[x] = "none" \/ db.rec[x].status = "SYNCED" \/ Confirmed(x)
    BY DEF OnceInv
  <2>2. CASE x = d BY <1>1, <1>4, <1>7, <2>1, <2>2 DEF Confirmed, Due
  <2>3. CASE x # d BY <1>4, <1>5, <2>1, <2>3 DEF Confirmed
  <2> QED BY <2>2, <2>3
<1>11. HandlerInv'
  <2> SUFFICES ASSUME save # Nothing, NEW x \in Docs \ leaked, save.at \in {"begin", "rows"},
                      save.refs[x] = "marker"
               PROVE  db'.rec[x].status = "none"
    BY <1>2 DEF HandlerInv, MarkersIn
  <2>1. db.rec[x].status = "none" BY DEF HandlerInv
  <2> QED BY <1>1, <1>4, <2>1 DEF Due
<1>12. LeakedInv' BY <1>2 DEF LeakedInv
<1>13. ReplacedInv'
  <2>1. \A x \in Docs : Done(x)' => Done(x) BY <1>1, <1>4, <1>6 DEF Done
  <2> QED BY <1>2, <1>4, <2>1 DEF ReplacedInv, Calm
<1>14. RowInv' BY <1>6 DEF RowInv
<1> QED BY <1>8, <1>9, <1>10, <1>11, <1>12, <1>13, <1>14

LEMMA PushKeeps == ASSUME UploadInv, push PROVE UploadInv'
<1> USE DEF UploadInv
<1> DEFINE queue == [i \in DOMAIN db.queue |-> Answered(db.queue[i])]
           row   == ServerRow(srv.row, db.queue)
<1>1. UNCHANGED <<kind, net, file, form, save, left>> /\ sync.at = "push"
      /\ sync' = [at |-> "pull", doc |-> Nothing, row |-> Nothing]
  BY DEF push, SyncAt, SyncGoes
<1>2. /\ db \in Local /\ db.queue \in Seq(Item) /\ srv \in Server /\ srv.row \in Refs
  BY DEF Typed, Local, Server
<1>3. /\ row \in Refs
      /\ \A d \in Docs : row[d] = "marker" =>
           srv.row[d] = "marker" \/ \E i \in DOMAIN db.queue : db.queue[i].refs[d] = "marker"
  BY <1>2, ServerRowFacts
<1>4. \A i \in DOMAIN db.queue : queue[i] \in Item /\ queue[i].refs = db.queue[i].refs
  <2> SUFFICES ASSUME NEW i \in DOMAIN db.queue
               PROVE  queue[i] \in Item /\ queue[i].refs = db.queue[i].refs
    OBVIOUS
  <2>1. db.queue[i] \in Item BY <1>2, ItemFacts
  <2> QED BY <2>1 DEF Answered, Item
<1>5. DOMAIN queue = DOMAIN db.queue /\ queue \in Seq(Item)
  <2>1. queue = [i \in DOMAIN db.queue |-> queue[i]] OBVIOUS
  <2>2. \A i \in DOMAIN db.queue : queue[i] \in Item BY <1>4
  <2> HIDE DEF queue
  <2> QED BY <1>2, <2>1, <2>2, SameLength
<1> HIDE DEF queue, row
<1>6. \/ /\ srv' = [srv EXCEPT !.row = row] /\ leaked' = leaked \cup MarkersIn(srv'.row)
         /\ \E ahead \in BOOLEAN : db' = [db EXCEPT !.ahead = ahead, !.queue = queue]
      \/ UNCHANGED <<srv, db, leaked>>
  <2>1. CASE net
    <3> DEFINE ahead == db.ahead /\ {i \in DOMAIN db.queue :
                                       db.queue[i].status = "PENDING" /\ ~Refused(db.queue[i])} = {}
    <3>1. /\ srv' = [srv EXCEPT !.row = row] /\ leaked' = leaked \cup MarkersIn(srv'.row)
          /\ db' = [db EXCEPT !.ahead = ahead, !.queue = queue]
      BY <1>2, <2>1 DEF push, queue, row, Local, Server
    <3>2. ahead \in BOOLEAN OBVIOUS
    <3> HIDE DEF ahead
    <3> QED BY <3>1, <3>2
  <2>2. CASE ~net BY <2>2 DEF push
  <2> QED BY <2>1, <2>2
<1>7. /\ db' \in Local /\ db'.row = db.row /\ db'.rec = db.rec
      /\ DOMAIN db'.queue = DOMAIN db.queue
      /\ \A i \in DOMAIN db.queue : db'.queue[i].refs = db.queue[i].refs
  BY <1>2, <1>4, <1>5, <1>6 DEF Local
<1>8. /\ srv' \in Server /\ srv'.copies = srv.copies
      /\ \A d \in Docs : srv'.row[d] = "marker" =>
           srv.row[d] = "marker" \/ \E i \in DOMAIN db.queue : db.queue[i].refs[d] = "marker"
  BY <1>2, <1>3, <1>6 DEF Server
<1>9. /\ leaked \subseteq leaked'
      /\ \A d \in Docs \ leaked' : d \notin leaked /\ (srv'.row[d] = "marker" => srv.row[d] = "marker")
  BY <1>6 DEF MarkersIn
<1>10. sync' \in Place /\ sync'.at = "pull" BY <1>1 DEF Place
<1>11. Typed' BY <1>1, <1>7, <1>8, <1>10 DEF Typed, Trying
<1>12. FilesInv'
  <2> SUFFICES ASSUME NEW d \in Docs
               PROVE  /\ Mentioned(d)' => file'[d] # "none"
                      /\ file'[d] = "archived" \/ Confirmed(d)' => srv'.copies[d] >= 1
    BY DEF FilesInv
  <2>1. Mentioned(d)' => Mentioned(d) BY <1>1, <1>7, <1>8 DEF Mentioned
  <2> QED BY <1>1, <1>8, <1>10, <2>1 DEF FilesInv, Confirmed
<1>13. OnceInv' BY <1>1, <1>7, <1>8 DEF OnceInv, Confirmed, Calm
<1>14. HandlerInv' BY <1>1, <1>7, <1>9 DEF HandlerInv, MarkersIn
<1>15. LeakedInv' BY <1>1, <1>9 DEF LeakedInv
<1>16. ReplacedInv' BY <1>1, <1>7, <1>9 DEF ReplacedInv, Done, Calm
<1>17. RowInv' BY <1>10 DEF RowInv
<1> QED BY <1>11, <1>12, <1>13, <1>14, <1>15, <1>16, <1>17

LEMMA PullKeeps == ASSUME UploadInv, pull PROVE UploadInv'
<1> USE DEF UploadInv
<1>1. /\ UNCHANGED <<kind, net, form, save, leaked, file, srv, left>> /\ sync.at = "pull"
      /\ sync' = [at |-> "idle", doc |-> Nothing, row |-> Nothing]
      /\ db \in Local /\ srv.row \in Refs
  BY StillFacts DEF pull, SyncAt, SyncGoes
<1>2. /\ db' \in Local /\ db'.rec = db.rec /\ db'.queue = db.queue
      /\ db'.row = db.row \/ db'.row = srv.row
  BY <1>1 DEF pull, Local
<1>3. sync' \in Place /\ sync'.at = "idle" BY <1>1 DEF Place
<1>4. Typed' BY <1>1, <1>2, <1>3 DEF Typed, Trying
<1>5. FilesInv'
  <2> SUFFICES ASSUME NEW d \in Docs
               PROVE  /\ Mentioned(d)' => file'[d] # "none"
                      /\ file'[d] = "archived" \/ Confirmed(d)' => srv'.copies[d] >= 1
    BY DEF FilesInv
  <2>1. Mentioned(d)' => Mentioned(d) BY <1>1, <1>2 DEF Mentioned
  <2> QED BY <1>1, <1>3, <2>1 DEF FilesInv, Confirmed
<1>6. OnceInv' BY <1>1, <1>2 DEF OnceInv, Confirmed, Calm
<1>7. HandlerInv' /\ LeakedInv' BY <1>1, <1>2 DEF HandlerInv, LeakedInv, MarkersIn
<1>8. ReplacedInv' BY <1>1, <1>2, <1>3 DEF ReplacedInv, Done, Calm, LeakedInv
<1>9. RowInv' BY <1>3 DEF RowInv
<1> QED BY <1>4, <1>5, <1>6, <1>7, <1>8, <1>9

(***************************************************************************)
(* The theorems                                                            *)
(***************************************************************************)
LEMMA NextKeeps == ASSUME UploadInv, [Next]_vars PROVE UploadInv'
<1>1. CASE UNCHANGED vars
  BY <1>1 DEF vars, UploadInv, Typed, Due, FilesInv, Mentioned, Confirmed, OnceInv, Calm, HandlerInv,
              MarkersIn, LeakedInv, ReplacedInv, RowInv, Done
<1>2. CASE Next
  BY <1>2, NetworkKeeps, CrashKeeps, OpenKeeps, UploadFormKeeps, UpdateClientKeeps, ClientKeeps,
     RegisteringKeeps, RecordKeeps, CompensateKeeps, ProcessKeeps, UploadOnceKeeps, LoadKeeps, ReplaceKeeps,
     RecordingKeeps, PushKeeps, PullKeeps
     DEF Next, SaveHandler, SyncThread
<1> QED BY <1>1, <1>2

\* The invariant, in every reachable state.
THEOREM UploadInvHolds == Spec => []UploadInv
BY InitHolds, NextKeeps, PTL DEF Spec

\* Types, and no upload gets more attempts than it may have.
THEOREM TypeCorrect == Spec => []TypeOK
<1>1. UploadInv => TypeOK
  <2> SUFFICES ASSUME UploadInv PROVE TypeOK OBVIOUS
  <2>1. /\ db.row \in Refs /\ db.queue \in Seq(Item) /\ db.rec \in [Docs -> Rec] /\ srv.row \in Refs
        /\ sync.doc \in Docs \cup {Nothing}
    BY DEF UploadInv, Typed, Local, Server, Place
  <2>2. \A i \in DOMAIN db.queue : db.queue[i].refs \in Refs BY <2>1, ItemFacts
  <2>3. \A d \in Docs : db.rec[d] \in Rec BY <2>1
  <2> QED BY <2>1, <2>2, <2>3 DEF TypeOK, Rec
<1> QED BY <1>1, UploadInvHolds, PTL

\* No copy leaves the directory before the server has it, and every marker has a file:
\* uploads.py archives only after the answer, and registers only what it has copied.
THEOREM FileKept == Spec => []FileKeptUntilConfirmed
<1>1. UploadInv => FileKeptUntilConfirmed
  BY DEF UploadInv, FilesInv, Mentioned, FileKeptUntilConfirmed, MarkersIn
<1> QED BY <1>1, UploadInvHolds, PTL

\* Without a crash and without a failed call the server receives each file once.
THEOREM UploadedOnceHolds == Spec => []UploadedOnce
<1>1. UploadInv => UploadedOnce
  BY DEF UploadInv, OnceInv, Calm, UploadedOnce
<1> QED BY <1>1, UploadInvHolds, PTL

\* Without them, what was uploaded is referred to by its URL, if the marker was
\* neither pushed nor loaded.
THEOREM MarkersReplaced == Spec => []ReplacedEverywhere
<1>1. UploadInv => ReplacedEverywhere
  BY DEF UploadInv, ReplacedInv, Calm, Done, ReplacedEverywhere, Uploaded, MarkersIn
<1> QED BY <1>1, UploadInvHolds, PTL
=============================================================================
