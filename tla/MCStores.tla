----------------------------- MODULE MCStores -----------------------------
(* Stores with transactions of one or two rows. *)
EXTENDS Stores, TLC

CONSTANTS r1, r2, c1, c2

Start(stage, stored, budget) == [stage |-> stage, stored |-> stored, budget |-> budget]

Quiet == c1 :> 0 @@ c2 :> 0

(* One ride alone, from its creation. *)
OneRide == {Start(r1 :> 0 @@ r2 :> 6, {}, Quiet)}

(* Beside that: two rides that arrive, a chair from its registration, two chairs
   of which one is there already, and a ride near its end beside a chair. *)
Mixed == OneRide \cup {
  Start(r1 :> 4 @@ r2 :> 5, {}, Quiet),
  Start(r1 :> 6 @@ r2 :> 6, {}, c1 :> 4 @@ c2 :> 0),
  Start(r1 :> 6 @@ r2 :> 6, {c1}, c1 :> 2 @@ c2 :> 2),
  Start(r1 :> 5 @@ r2 :> 6, {c1}, c1 :> 2 @@ c2 :> 0)}
=============================================================================
