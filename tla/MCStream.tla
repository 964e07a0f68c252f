------------------------------ MODULE MCStream ------------------------------
(* Stream with a few connections, of a chair and of a user. *)
EXTENDS Stream
=============================================================================
