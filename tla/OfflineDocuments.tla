--------------------------- MODULE OfflineDocuments ---------------------------
(***************************************************************************)
(* Documents chosen on the desktop while the server does not answer.  The  *)
(* file is copied to a local directory and the edited record carries a     *)
(* marker in place of its URL; a durable upload record sends the file      *)
(* later and puts the URL where the marker stands.                         *)
(*                                                                         *)
(* Three handlers of the UI thread save such a record (a client, a         *)
(* vehicle, a new reservation with its new client), each with its own      *)
(* order of commits; registering an upload always commits.  The sync       *)
(* thread uploads, then pushes the queue, then pulls.                      *)
(*                                                                         *)
(* What a record holds is, for each of its document fields, a marker, the  *)
(* URL of the file chosen for that field, or nothing.                      *)
(***************************************************************************)
EXTENDS Integers, FiniteSets, SequencesExt

CONSTANTS
  Kinds,        \* which handlers may save: "client", "vehicle", "reservation"
  Docs,         \* document fields of the record, numbered in the server's order, with
                \*   the file chosen for each
  MaxRetries,   \* max_retries of an upload record
  MaxCuts, MaxFaults, MaxCrashes,  \* bounds: network cuts, failed calls and commits, crashes
  Nothing

ASSUME BoundsAssumption == {MaxRetries, MaxCuts, MaxFaults, MaxCrashes} \subseteq Nat

VARIABLES
  kind,     \* the handler this record belongs to
  net,      \* TRUE while the network works
  db,       \* the committed local database: row and whether its version is ahead of
            \*   the server's, customer, queue, upload records
  file,     \* the local copy of each document
  srv,      \* the server: the record, copies of each document
  form,     \* what the open form has loaded
  save,     \* the handler in progress
  sync,     \* the sync thread; for a replacement, the row as it was loaded
  left,     \* what is left of the bounds
  leaked    \* documents whose marker a form has loaded or the server has been told
            \*   (not in the program)

vars == <<kind, net, db, file, srv, form, save, sync, left, leaked>>

Refs  == [Docs -> {"marker", "url", "none"}]
Empty == [d \in Docs |-> "none"]
MarkersIn(refs) == {d \in Docs : refs[d] = "marker"}

Unsent == [status |-> "none", retries |-> 0]
\* Mutant: one attempt more than max_retries.
DueOnceMore(r) == r.status \in {"PENDING", "FAILED"} /\ r.retries <= MaxRetries

Due(r) == r.status \in {"PENDING", "FAILED"} /\ r.retries < MaxRetries

AtRest == [at |-> "idle", doc |-> Nothing, row |-> Nothing]

Init ==
  /\ kind \in Kinds /\ net = TRUE
  /\ db = [row |-> Empty, ahead |-> FALSE, customer |-> kind # "reservation", queue |-> <<>>,
           rec |-> [d \in Docs |-> Unsent]]
  /\ file = [d \in Docs |-> "none"]
  /\ srv = [row |-> Empty, copies |-> [d \in Docs |-> 0]]
  /\ form = Nothing /\ save = Nothing /\ sync = AtRest
  /\ left = [cuts |-> MaxCuts, faults |-> MaxFaults, crashes |-> MaxCrashes]
  /\ leaked = {}

Bounded(what) == left[what] > 0 /\ left' = [left EXCEPT ![what] = @ - 1]

Cut ==
  /\ net /\ Bounded("cuts") /\ net' = FALSE
  /\ UNCHANGED <<kind, db, file, srv, form, save, sync, leaked>>
Restore == ~net /\ net' = TRUE /\ UNCHANGED <<kind, db, file, srv, form, save, sync, left, leaked>>

\* Everything that is not committed is gone.
Crash ==
  /\ Bounded("crashes")
  /\ form' = Nothing /\ save' = Nothing /\ sync' = AtRest
  /\ UNCHANGED <<kind, net, db, file, srv, leaked>>

(***************************************************************************)
(* The form                                                                *)
(***************************************************************************)
\* The dialog copies the record; what happens to the record does not reach it.  A
\* client's dialog sends the fields that were changed and no other.
OpenForm ==
  /\ form = Nothing /\ save = Nothing
  /\ kind = "reservation" => db.row = Empty
  /\ form' = IF kind = "client" THEN Empty ELSE db.row
  /\ leaked' = leaked \cup MarkersIn(form')
  /\ UNCHANGED <<kind, net, db, file, srv, save, sync, left>>

\* Saving: the chosen files are uploaded at once, or stored under markers when
\* those calls fail.
_upload_file ==
  /\ form # Nothing
  /\ \E chosen \in SUBSET Docs \ {{}}, sent \in BOOLEAN :
       LET given == IF sent THEN "url" ELSE "marker"
           refs  == [d \in Docs |-> IF d \in chosen THEN given ELSE form[d]] IN
       /\ \A d \in chosen : file[d] = "none" /\ srv.copies[d] = 0
       /\ sent => net
       /\ IF net /\ ~sent THEN Bounded("faults") ELSE UNCHANGED left
       /\ file' = [d \in Docs |-> IF d \in chosen /\ ~sent THEN "stored" ELSE file[d]]
       /\ srv' = [srv EXCEPT !.copies = [d \in Docs |-> IF d \in chosen /\ sent THEN 1 ELSE @[d]]]
       /\ save' = [at |-> "begin", refs |-> refs, todo |-> MarkersIn(refs), offline |-> TRUE]
  /\ form' = Nothing
  /\ UNCHANGED <<kind, net, db, sync, leaked>>

(***************************************************************************)
(* register_pending_upload: one record per marker, and a commit.           *)
(***************************************************************************)
enqueue_pending_upload(rec, d) ==
  IF rec[d].status = "none" THEN [rec EXCEPT ![d] = [status |-> "PENDING", retries |-> 0]] ELSE rec

Saving(k, at) == save # Nothing /\ kind = k /\ save.at = at
Quiet == UNCHANGED <<kind, net, file, form, sync, left, leaked>>

\* The next marker, of those left; the last one ends at the given step.
RegisterNext(database, then) ==
  \E d \in save.todo :
    /\ db' = [database EXCEPT !.rec = enqueue_pending_upload(@, d)]
    /\ save' = IF save.todo = {d} THEN then ELSE [save EXCEPT !.at = "register", !.todo = @ \ {d}]

(***************************************************************************)
(* A client: the server first; then row and uploads; then the queue, if    *)
(* the server could not be asked.                                          *)
(***************************************************************************)
\* What a record holds once it is given the fields of an edit.
Given(row, refs) ==
  IF kind = "client" THEN [d \in Docs |-> IF refs[d] = "none" THEN row[d] ELSE refs[d]] ELSE refs

\* The server takes no marker: it refuses the edit, and nothing is saved.
update_client ==
  /\ Saving("client", "begin")
  /\ \/ net /\ save.todo = {} /\ srv' = [srv EXCEPT !.row = Given(@, save.refs)]
        /\ \/ save' = [save EXCEPT !.at = "rows", !.offline = FALSE] /\ UNCHANGED left
           \/ save' = [save EXCEPT !.at = "rows"] /\ Bounded("faults")   \* no answer in time
     \/ net /\ save.todo # {} /\ save' = Nothing /\ UNCHANGED <<srv, left>>
     \/ ~net /\ save' = [save EXCEPT !.at = "rows"] /\ UNCHANGED <<srv, left>>
  /\ UNCHANGED <<kind, net, db, file, form, sync, leaked>>

Queued(database, refs) ==
  [database EXCEPT !.ahead = TRUE, !.queue = Append(@, [refs |-> refs, status |-> "PENDING"])]

ClientRows ==
  /\ Saving("client", "rows")
  /\ LET written == [db EXCEPT !.row = Given(@, save.refs), !.ahead = @ \/ save.offline] IN
     IF save.todo = {}
     THEN save' = Nothing /\ db' = IF save.offline THEN Queued(written, save.refs) ELSE written
     ELSE RegisterNext(written, [save EXCEPT !.at = "queue", !.todo = {}])
  /\ Quiet /\ UNCHANGED srv

ClientRegister ==
  /\ Saving("client", "register") /\ RegisterNext(db, [save EXCEPT !.at = "queue", !.todo = {}])
  /\ Quiet /\ UNCHANGED srv

ClientQueue ==
  /\ Saving("client", "queue") /\ save' = Nothing
  /\ db' = IF save.offline THEN Queued(db, save.refs) ELSE db
  /\ Quiet /\ UNCHANGED srv

(***************************************************************************)
(* A vehicle: row and queue in one transaction, the uploads afterwards.    *)
(***************************************************************************)
_update_vehicle ==
  /\ Saving("vehicle", "begin")
  /\ db' = Queued([db EXCEPT !.row = save.refs], save.refs)
  /\ save' = IF save.todo = {} THEN Nothing ELSE [save EXCEPT !.at = "register"]
  /\ Quiet /\ UNCHANGED srv

_register_vehicle_image_uploads ==
  /\ Saving("vehicle", "register") /\ RegisterNext(db, Nothing)
  /\ Quiet /\ UNCHANGED srv

(***************************************************************************)
(* A reservation with its new client and both queue items; registering the *)
(* first upload commits all of them.                                       *)
(***************************************************************************)
_create_reservation_record ==
  /\ Saving("reservation", "begin")
  /\ LET written == Queued([db EXCEPT !.row = save.refs, !.customer = TRUE], save.refs) IN
     IF save.todo = {} THEN save' = Nothing /\ db' = written ELSE RegisterNext(written, Nothing)
  /\ Quiet /\ UNCHANGED srv

ReservationRegister ==
  /\ Saving("reservation", "register") /\ RegisterNext(db, Nothing)
  /\ Quiet /\ UNCHANGED srv

\* A commit that fails (the database is locked or full): rolled back, and the
\* client is removed again with its queue item.
Compensate ==
  /\ save # Nothing /\ save.at \in {"begin", "register"} /\ kind = "reservation"
  /\ Bounded("faults")
  /\ db' = [db EXCEPT !.customer = FALSE] /\ save' = Nothing
  /\ UNCHANGED <<kind, net, file, srv, form, sync, leaked>>

(***************************************************************************)
(* The sync thread: PendingUploadProcessor, push, pull.                    *)
(***************************************************************************)
SyncAt(at) == sync.at = at
SyncGoes(at, d) == sync' = [at |-> at, doc |-> d, row |-> Nothing]
Still == UNCHANGED <<kind, net, form, save, leaked>>

\* Mutant: a record that is done is taken again.
AnyRecord ==
  /\ SyncAt("idle")
  /\ \/ \E d \in Docs : db.rec[d].status # "none" /\ srv.copies[d] < 2 /\ SyncGoes("post", d)
     \/ net /\ SyncGoes("push", Nothing)
  /\ Still /\ UNCHANGED <<db, file, srv, left>>

\* Mutant: a record that has failed once is not taken again.
PendingOnly ==
  /\ SyncAt("idle")
  /\ \/ \E d \in Docs : db.rec[d].status = "PENDING" /\ SyncGoes("post", d)
     \/ net /\ SyncGoes("push", Nothing)
  /\ Still /\ UNCHANGED <<db, file, srv, left>>

\* Records whose time has come, one at a time; then the rest of the cycle.
process_due ==
  /\ SyncAt("idle")
  /\ \/ \E d \in Docs : Due(db.rec[d]) /\ SyncGoes("post", d)
     \/ net /\ SyncGoes("push", Nothing)
  /\ Still /\ UNCHANGED <<db, file, srv, left>>

\* The server stores the file and its answer arrives, or is lost; it refuses
\* the file; or it is not reached.
_upload_file_once ==
  /\ SyncAt("post")
  /\ LET d == sync.doc  stored == [srv EXCEPT !.copies[d] = @ + 1] IN
     \/ net /\ srv' = stored /\ SyncGoes("uploaded", d) /\ UNCHANGED left
     \/ net /\ Bounded("faults") /\ srv' = stored /\ SyncGoes("failed", d)
     \/ net /\ Bounded("faults") /\ UNCHANGED srv /\ SyncGoes("refused", d)
     \/ ~net /\ UNCHANGED <<srv, left>> /\ SyncGoes("failed", d)
  /\ Still /\ UNCHANGED <<db, file>>

\* The row is loaded some time before anything is written.
LoadMarked ==
  /\ SyncAt("uploaded")
  /\ sync' = [at |-> "loaded", doc |-> sync.doc, row |-> db.row]
  /\ Still /\ UNCHANGED <<db, file, srv, left>>

Replaced(refs, d) == [refs EXCEPT ![d] = IF @ = "marker" THEN "url" ELSE @]

\* A row that had the marker is written by the next query, which takes SQLite's
\* write lock for what follows.  A vehicle's images are one column: what was saved
\* in it since the row was loaded is lost.
RowWritten ==
  LET d == sync.doc IN
  IF sync.row[d] # "marker" THEN db.row
  ELSE IF kind = "vehicle" THEN Replaced(sync.row, d) ELSE [db.row EXCEPT ![d] = "url"]

\* Mutant: the payloads that wait in the queue keep the marker.
ReplaceInRowOnly ==
  /\ SyncAt("loaded")
  /\ db' = [db EXCEPT !.row = RowWritten]
  /\ SyncGoes("replaced", sync.doc)
  /\ Still /\ UNCHANGED <<file, srv, left>>

\* In the rows and in the queue, with one commit of its own; an exception rolls
\* it back and is only logged.
replace_marker_in_entities ==
  /\ SyncAt("loaded")
  /\ \/ /\ db' = [db EXCEPT !.row = RowWritten,
                            !.queue = [i \in DOMAIN db.queue |->
                                         [db.queue[i] EXCEPT !.refs = Replaced(@, sync.doc)]]]
        /\ UNCHANGED left
     \/ Bounded("faults") /\ UNCHANGED db
  /\ SyncGoes("replaced", sync.doc)
  /\ Still /\ UNCHANGED <<file, srv>>

SetRecord(d, status, retries) ==
  db' = [db EXCEPT !.rec[d] = [status |-> status, retries |-> retries]]

RecordSynced ==
  /\ SyncAt("replaced") /\ SyncGoes("idle", Nothing)
  /\ SetRecord(sync.doc, "SYNCED", db.rec[sync.doc].retries)
  /\ file' = [file EXCEPT ![sync.doc] = "archived"]
  /\ Still /\ UNCHANGED <<srv, left>>

\* Mutant: the copy of a file that failed is archived.
ArchiveAnyway ==
  /\ sync.at \in {"failed", "refused"} /\ SyncGoes("idle", Nothing)
  /\ SetRecord(sync.doc, "PERMANENT_FAILED", db.rec[sync.doc].retries)
  /\ file' = [file EXCEPT ![sync.doc] = "archived"]
  /\ Still /\ UNCHANGED <<srv, left>>

RecordFailure ==
  /\ sync.at \in {"failed", "refused"} /\ SyncGoes("idle", Nothing)
  /\ LET n == db.rec[sync.doc].retries IN
     IF SyncAt("refused") THEN SetRecord(sync.doc, "PERMANENT_FAILED", n)
     ELSE SetRecord(sync.doc, "FAILED", n + 1)
  /\ Still /\ UNCHANGED <<file, srv, left>>

\* The server refuses an edit of a client at the first field with a marker; the
\* fields before it are written nevertheless, under the version of before.
Refused(item) == kind = "client" /\ MarkersIn(item.refs) # {}
BeforeMarker(refs) ==
  [d \in Docs |-> IF \E m \in MarkersIn(refs) : m <= d THEN "none" ELSE refs[d]]
Applied(item) == IF Refused(item) THEN BeforeMarker(item.refs) ELSE item.refs

\* What writes a field.  An edit that was refused before is known by its key: it
\* is answered ok, and nothing is done.
Writes(item, d) == item.status = "PENDING" /\ (kind = "client" => Applied(item)[d] # "none")

\* The queue in its order, so the last edit that writes a field prevails.
ServerRow(row, queue) ==
  [d \in Docs |-> LET writers == {i \in DOMAIN queue : Writes(queue[i], d)} IN
                  IF writers = {} THEN row[d] ELSE Applied(queue[Max(writers)])[d]]

\* An item that is refused is sent once more; no item leaves the table.
Answered(item) ==
  [item EXCEPT !.status = IF @ = "PENDING" /\ Refused(item) THEN "FAILED" ELSE "SYNCED"]

push ==
  /\ SyncAt("push") /\ SyncGoes("pull", Nothing)
  /\ IF net
     THEN LET taken == {i \in DOMAIN db.queue :
                          db.queue[i].status = "PENDING" /\ ~Refused(db.queue[i])} IN
          /\ srv' = [srv EXCEPT !.row = ServerRow(@, db.queue)]
          /\ db' = [db EXCEPT !.ahead = @ /\ taken = {},
                              !.queue = [i \in DOMAIN @ |-> Answered(@[i])]]
          /\ leaked' = leaked \cup MarkersIn(srv'.row)
     ELSE UNCHANGED <<srv, db, leaked>>
  /\ UNCHANGED <<kind, net, file, form, save, left>>

\* All rows are pulled, and written unless the local version is ahead: while an
\* edit waits, and after one that was refused.
pull ==
  /\ SyncAt("pull") /\ SyncGoes("idle", Nothing)
  /\ db' = IF net /\ ~db.ahead THEN [db EXCEPT !.row = srv.row] ELSE db
  /\ Still /\ UNCHANGED <<file, srv, left>>

SaveHandler ==
  \/ update_client \/ ClientRows \/ ClientRegister \/ ClientQueue
  \/ _update_vehicle \/ _register_vehicle_image_uploads
  \/ _create_reservation_record \/ ReservationRegister \/ Compensate

SyncThread ==
  \/ process_due \/ _upload_file_once \/ LoadMarked \/ replace_marker_in_entities
  \/ RecordSynced \/ RecordFailure \/ push \/ pull

Next == Cut \/ Restore \/ Crash \/ OpenForm \/ _upload_file \/ SaveHandler \/ SyncThread

\* The network comes back and the sync thread runs; the processor takes a
\* record that is due again and again before it goes on.
Fairness ==
  /\ WF_vars(Restore) /\ WF_vars(SyncThread)
  /\ \A d \in Docs : SF_vars(process_due /\ sync'.doc = d)
  /\ SF_vars(_upload_file_once)

Spec == Init /\ [][Next]_vars /\ Fairness
=============================================================================
