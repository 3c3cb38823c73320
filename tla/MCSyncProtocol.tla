---------------------------- MODULE MCSyncProtocol ----------------------------
(***************************************************************************)
(* Instances of SyncProtocol for TLC.                                      *)
(***************************************************************************)
EXTENDS SyncProtocolProps, TLC

Sym == Permutations(Conns)
===============================================================================
