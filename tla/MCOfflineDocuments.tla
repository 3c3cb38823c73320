------------------------- MODULE MCOfflineDocuments -------------------------
(* Instances of OfflineDocuments for TLC. *)
EXTENDS OfflineDocumentsProps
=============================================================================
