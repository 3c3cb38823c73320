------------------------ MODULE OfflineDocumentsProps ------------------------
(***************************************************************************)
(* What OfflineDocuments.tla guarantees of a file chosen while offline.    *)
(***************************************************************************)
EXTENDS OfflineDocuments

\* The state keeps its shape, and no upload gets more attempts than it may have.
TypeOK ==
  /\ db.row \in Refs /\ srv.row \in Refs
  /\ \A i \in DOMAIN db.queue : db.queue[i].refs \in Refs
  /\ \A d \in Docs :
       /\ db.rec[d].status \in {"none", "PENDING", "FAILED", "SYNCED", "PERMANENT_FAILED"}
       /\ db.rec[d].retries \in 0 .. MaxRetries
  /\ sync.doc \in Docs \cup {Nothing}

\* "The local file is NEVER removed before the upload is confirmed": one that
\* has left the directory is on the server; a marker's file is somewhere.
FileKeptUntilConfirmed ==
  /\ \A d \in Docs : file[d] = "archived" => srv.copies[d] >= 1
  /\ \A d \in MarkersIn(db.row) \cup MarkersIn(srv.row) : file[d] # "none"

\* With no crash and no answer lost, the server receives each file once,
\* however often the record is tried and the cycle runs.
UploadedOnce ==
  left.crashes = MaxCrashes /\ left.faults = MaxFaults =>
    \A d \in Docs : srv.copies[d] <= 1

\* With no crash and nothing failing, a file that has been uploaded is referred to
\* by its URL, in the record and in the edits that wait, unless the server has
\* been told the marker or a form has loaded it; a client's edit is queued too
\* late for its payload to be sure of it.
Uploaded(d) == db.rec[d].status = "SYNCED"
ReplacedEverywhere ==
  left.crashes = MaxCrashes /\ left.faults = MaxFaults =>
    \A d \in Docs : Uploaded(d) /\ d \notin leaked =>
      /\ d \notin MarkersIn(db.row)
      /\ kind # "client" => \A i \in DOMAIN db.queue : d \notin MarkersIn(db.queue[i].refs)

\* Every registered upload comes to an end: stored, refused, or given up after
\* max_retries; no record is starved by the others or retried for ever.
UploadsSettle ==
  \A d \in Docs : db.rec[d].status # "none" ~> ~Due(db.rec[d])
=============================================================================
