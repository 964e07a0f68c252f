---------------------------- MODULE MCCampaign ----------------------------
(* A short ride, which a coupon makes as cheap as can be, and a long one. *)
EXTENDS Campaign, TLC

CONSTANTS g1, g2, g3, g4, q1, q2

MCRegistrations == {g1, g2, g3, g4}
MCRequests == {q1, q2}
MCMetered == (q1 :> 600) @@ (q2 :> 4000)
MCSymmetry == Permutations(MCRegistrations)
=============================================================================
