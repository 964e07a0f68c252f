----------------------------- MODULE MCDispatch -----------------------------
(* Dispatch on small sets of users, chairs and rides. *)
EXTENDS Dispatch, TLC

(* Users, chairs, rides and handler slots are interchangeable. *)
Symmetry == Permutations(Users) \cup Permutations(Chairs)
              \cup Permutations(Rides) \cup Permutations(Requests)
=============================================================================
