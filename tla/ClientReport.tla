----------------------------- MODULE ClientReport -----------------------------
(***************************************************************************)
(* The file of one client: which rentals are the client's, what they add   *)
(* up to, and which are under way.  The backend derives it from            *)
(* PostgreSQL, the details dialog of the desktop from its local rows when  *)
(* the server cannot be reached.                                           *)
(*                                                                         *)
(* A client is [id, name, phone]; a rental has the client it refers to and *)
(* the name and phone that were written on it.                             *)
(***************************************************************************)
EXTENDS Dashboard

CONSTANTS
  Clients,       \* the clients whose files are opened
  NameContains   \* pairs of names: the first contains the second, whatever the case

Bears(r, c) == r.phone = c.phone \/ <<r.name, c.name>> \in NameContains

\* backend/app/repositories/client_repository.py
get_client_rentals(rs, c) == Where(rs, LAMBDA r : r.customer = c.id \/ Bears(r, c))

Breakdown(rs, ks) ==
  {[vehicle_id |-> v,
    rentals    |-> Cardinality({k \in ks : rs[k].veh = v}),
    days       |-> MapThenSumSet(LAMBDA k : rs[k].days, {j \in ks : rs[j].veh = v}),
    amount     |-> MapThenSumSet(LAMBDA k : rs[k].price, {j \in ks : rs[j].veh = v})] :
   v \in {rs[k].veh : k \in ks}}

\* The totals over the rentals counted, and how many of all are cancelled.
Report(rs, counted, cancelled, active, done) ==
  [total_rentals     |-> Cardinality(counted),
   total_days        |-> MapThenSumSet(LAMBDA k : rs[k].days, counted),
   total_amount      |-> MapThenSumSet(LAMBDA k : rs[k].price, counted),
   active_rentals    |-> Cardinality(active),
   completed_rentals |-> Cardinality(done),
   cancelled_rentals |-> Cardinality(cancelled),
   vehicles          |-> Breakdown(rs, counted)]

\* backend/app/services/client_service.py
get_client_rentals_report(rs, c, now) ==
  LET mine     == get_client_rentals(rs, c)
      eligible == {k \in mine : rs[k].status \in {"RESERVED", "ACTIVE", "COMPLETED"}}
      done     == {k \in eligible : rs[k].status = "COMPLETED"}
  IN Report(rs, eligible, {k \in mine : rs[k].status = "CANCELLED"},
            {k \in eligible \ done : rs[k].start <= now /\ now < rs[k].end}, done)

\* desktop/app/ui/clients/client_details.py: the link to the client is not used.
LocalRentals(rs, c) == Where(rs, LAMBDA r : Bears(r, c))

_apply_offline_fallback(rs, c, now) ==
  LET mine      == LocalRentals(rs, c)
      cancelled == {k \in mine : rs[k].status = "CANCELLED"}
      done      == {k \in mine : rs[k].status = "COMPLETED"}
  IN Report(rs, mine \ cancelled, cancelled,
            {k \in mine \ (cancelled \cup done) : rs[k].start <= now /\ now < rs[k].end}, done)
=============================================================================
