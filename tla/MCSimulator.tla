---------------------------- MODULE MCSimulator -----------------------------
(* Simulator with two rides between three places on a line: the second one picks
   up where the first one ended. *)
EXTENDS Simulator

TwoPickups == <<1, 2>>
TwoDestinations == <<2, 0>>
=============================================================================
