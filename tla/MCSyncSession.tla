---------------------------- MODULE MCSyncSession ----------------------------
EXTENDS SyncSessionProps
=============================================================================
