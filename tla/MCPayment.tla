----------------------------- MODULE MCPayment -----------------------------
(* Payment with two evaluation calls and a few payment requests. *)
EXTENDS Payment
=============================================================================
