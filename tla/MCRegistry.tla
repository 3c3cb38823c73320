----------------------------- MODULE MCRegistry -----------------------------
(* Small instances of the registry for TLC. *)
EXTENDS RegistryProps
=============================================================================
