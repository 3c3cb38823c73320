------------------------------ MODULE EditLedger ------------------------------
(***************************************************************************)
(* What the sync promises about the edits of one desktop, as if nothing    *)
(* were ever lost or sent twice: an edit is made, the server decides it    *)
(* once and for all, and the desktop is told of a decision that stands.    *)
(* A row on the server changes together with the decision of the edit that *)
(* changes it, or by another user.                                         *)
(*                                                                         *)
(* Requests, answers, retries, locks, savepoints and restarts do not       *)
(* appear here: SyncProtocol implements these steps by its commits.        *)
(***************************************************************************)
EXTENDS Integers, Sequences

CONSTANTS
  Entities, Keys,     \* the rows; the numbers an edit can have
  Ops, Outcomes,      \* what an edit does; what the server may decide
  Start,              \* the rows on the server before the first edit
  NoRow, Gone         \* absent or undecided, deleted

VARIABLES
  made,      \* the edits in the order they are made
  decided,   \* the outcome of each edit
  rows,      \* the rows on the server
  told       \* what the desktop shows of each edit

vars == <<made, decided, rows, told>>

Final        == {"SYNCED", "CONFLICT"}
Present(row) == row \notin {NoRow, Gone}

Init ==
  /\ made = <<>> /\ told = <<>>
  /\ decided = [k \in Keys |-> NoRow] /\ rows = Start

Make(e, op) ==
  /\ made' = Append(made, [ent |-> e, op |-> op])
  /\ told' = Append(told, "PENDING")
  /\ UNCHANGED <<decided, rows>>

\* An accepted edit is what the row now shows.
Explains(k, e) ==
  /\ made[k].ent = e /\ decided'[k].status = "ok"
  /\ IF made[k].op = "DELETE" THEN rows'[e] = Gone
     ELSE Present(rows'[e]) /\ rows'[e].edit = k

\* A commit decides some edits at once.
Decide(D) ==
  /\ \A k \in D : decided[k] = NoRow
  /\ decided' \in [Keys -> Outcomes \cup {NoRow}]
  /\ \A k \in Keys : IF k \in D THEN decided'[k] # NoRow ELSE decided'[k] = decided[k]
  /\ \A e \in Entities : rows'[e] # rows[e] => \E k \in D : Explains(k, e)
  /\ UNCHANGED <<made, told>>

\* Another user changes or deletes a row; an edit it contains stays part of it.
Others(e) ==
  /\ Present(rows[e])
  /\ \A x \in Entities \ {e} : rows'[x] = rows[x]
  /\ rows'[e] = Gone \/ (Present(rows'[e]) /\ rows'[e].edit = rows[e].edit)
  /\ UNCHANGED <<made, decided, told>>

\* A refused edit that is sent again is answered with ok, so SYNCED only says that
\* there is a decision.
Tell(k, s) ==
  /\ told[k] = "PENDING" /\ decided[k] # NoRow
  /\ s = "CONFLICT" => decided[k].status = "conflict"
  /\ told' = [told EXCEPT ![k] = s]
  /\ UNCHANGED <<made, decided, rows>>

Next ==
  \/ \E e \in Entities, op \in Ops : Make(e, op)
  \/ \E D \in SUBSET DOMAIN made : Decide(D)
  \/ \E e \in Entities : Others(e)
  \/ \E k \in DOMAIN told, s \in Final : Tell(k, s)

Spec == Init /\ [][Next]_vars
===============================================================================
