----------------------------- MODULE MCMatching -----------------------------
(* Matching on all cost functions of some sizes into a small set, negative costs
   and ties included, and on some of three chairs and four rides; the budgets leave
   inputs of several sizes to either method. *)
EXTENDS Matching

CostsOf(nChairs, nRides, values) == [1 .. nChairs -> [1 .. nRides -> values]]

(* The first chair has its rides in the order of their ages. *)
FirstAscends(f) == \A r \in 1 .. 3 : f[1][r] <= f[1][r + 1]

SomeInputs ==
  UNION {CostsOf(c, r, {-1, 0, 2}) : c \in 1 .. 2, r \in 1 .. 3}
    \cup UNION {CostsOf(3, r, {-1, 1}) : r \in 1 .. 3}
    \cup CostsOf(2, 4, {-1, 1})
    \cup {f \in CostsOf(3, 4, {-1, 1}) : FirstAscends(f)}
=============================================================================
