--------------------------- MODULE BookingCalendar ---------------------------
(***************************************************************************)
(* What the fleet calendar promises to those who use it: each rental holds *)
(* a window of time of one vehicle or none, and one request at a time      *)
(* books a window, moves it on the same vehicle, or releases windows.      *)
(* Windows held at the same time are disjoint.                             *)
(*                                                                         *)
(* Rows, sessions, locks, waits and rollbacks do not appear here: the      *)
(* requests of FleetBooking implement these steps by their commits.        *)
(***************************************************************************)
EXTENDS Integers

CONSTANTS Vehicles, Rentals, Horizon, NoWindow   \* NoWindow is not a window

Windows == [veh : Vehicles, start : 0 .. Horizon, end : 0 .. Horizon]

VARIABLE book    \* the window each rental holds

Disjoint(a, b) == a.veh # b.veh \/ a.end <= b.start \/ b.end <= a.start
Fits(k, win)   == \A j \in Rentals \ {k} : book[j] # NoWindow => Disjoint(book[j], win)

Init == book = [k \in Rentals |-> NoWindow]

Book(k, win) == book[k] = NoWindow /\ Fits(k, win) /\ book' = [book EXCEPT ![k] = win]

Move(k, win) ==
  /\ book[k] # NoWindow /\ book[k].veh = win.veh
  /\ Fits(k, win) /\ book' = [book EXCEPT ![k] = win]

Release(ks) == book' = [k \in Rentals |-> IF k \in ks THEN NoWindow ELSE book[k]]

Next ==
  \/ \E k \in Rentals, win \in Windows : Book(k, win) \/ Move(k, win)
  \/ \E ks \in SUBSET Rentals : Release(ks)

Spec == Init /\ [][Next]_book
=============================================================================
