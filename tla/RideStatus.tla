----------------------------- MODULE RideStatus -----------------------------
(* The statuses of a ride, shared by the modules about rides. *)
EXTENDS Naturals, Sequences

(* The ENUM of ride_statuses.status, in the order in which a ride should take
   its statuses. *)
Lifecycle ==
  <<"MATCHING", "ENROUTE", "PICKUP", "CARRYING", "ARRIVED", "COMPLETED">>

Status == {"MATCHING", "ENROUTE", "PICKUP", "CARRYING", "ARRIVED", "COMPLETED"}
=============================================================================
