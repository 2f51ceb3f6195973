------------------------------ MODULE MCBooking ------------------------------
(* Small instances of Booking for TLC. *)
EXTENDS Booking, TLC

(* Users, seats, orders, slots and workers are interchangeable. *)
Symmetry ==
  Permutations(Users) \cup Permutations(Seats) \cup Permutations(Orders)
    \cup Permutations(Slots) \cup Permutations(Workers)

(* Nothing but the seat map reads the cache: where that is out of play an   *)
(* event that is not cached shows all there is to see.                      *)
UncachedInit == Init /\ cache = [s \in Seats |-> "NONE"]
UncachedSpec == UncachedInit /\ [][Next]_vars
=============================================================================
