---------------------------- MODULE MCDomainStore ----------------------------
(***************************************************************************)
(* Instances of DomainStore for TLC.                                       *)
(***************************************************************************)
EXTENDS DomainStoreProps

CONSTANTS v1, v2, r1, r2, m1

Rental(v, s, e, status, reason, at) ==
  [veh |-> v, start |-> s, end |-> e, status |-> status, reason |-> reason,
   cancelledAt |-> at, days |-> calculate_days(s, e), price |-> 6 * calculate_days(s, e),
   customer |-> IF reason = Null THEN "c1" ELSE Null,
   name |-> IF v = v1 THEN "Amina B" ELSE "Amina", phone |-> IF status = "ACTIVE" THEN "02" ELSE "01"]
Files == {[id |-> "c1", name |-> "Amina", phone |-> "01"], [id |-> "c2", name |-> "Karim", phone |-> "02"]}
Containing == {<<"Amina", "Amina">>, <<"Amina B", "Amina">>, <<"Karim", "Karim">>}
Ids == v1 :> 1 @@ v2 :> 2
Booked(v, s, e) == Rental(v, s, e, "RESERVED", Null, Null)
Ticket(v, s, e) == [veh |-> v, start |-> s, exp |-> e, act |-> Null, status |-> "ACTIVE"]
Row(table, key, row) == [table |-> table, key |-> key, row |-> row]

\* One car out on rent and one booked; or a rental interrupted, another one
\* completed before its last day, and its vehicle sold.
Starts ==
  {[veh |-> v1 :> "AVAILABLE" @@ v2 :> "AVAILABLE",
    ren |-> r1 :> Booked(v1, 0, 2) @@ r2 :> Booked(v2, 1, 3), tic |-> Empty],
   [veh |-> v1 :> "AVAILABLE" @@ v2 :> "SOLD",
    ren |-> r1 :> Rental(v1, 0, 4, "CANCELLED", "MAINTENANCE", 1)
            @@ r2 :> Rental(v2, 0, 4, "COMPLETED", Null, Null),
    tic |-> m1 :> Ticket(v1, 1, 3)]}

\* A vehicle deleted, a booking brought forward, withdrawn or interrupted, a
\* ticket moved to the other vehicle without an expected end.  (The rental that
\* is stopped was written on the desktop, which charged a day less.)
BroughtForward == Rental(v2, 0, 3, "ACTIVE", Null, Null)
Withdrawn      == Rental(v1, 0, 2, "CANCELLED", Null, 1)
Stopped        == [Rental(v2, 0, 3, "CANCELLED", "MAINTENANCE_URGENT", 2)
                     EXCEPT !.days = _recalculate(0, 3), !.price = 6]
OpenEnded      == Ticket(v2, 2, Null)
RowChanges ==
  {Row("veh", v1, Gone), Row("tic", m1, OpenEnded),
   Row("ren", r2, BroughtForward), Row("ren", r1, Withdrawn), Row("ren", r2, Stopped)}
=============================================================================
