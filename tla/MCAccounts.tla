----------------------------- MODULE MCAccounts -----------------------------
(* Small instances of the accounts for TLC. *)
EXTENDS AccountsProps, TLC

\* Requests, tokens and passwords are alike (but for the first password).
Symmetry == Permutations(Workers) \cup Permutations(Tokens)
=============================================================================
