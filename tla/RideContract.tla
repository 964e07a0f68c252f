---------------------------- MODULE RideContract ----------------------------
(***************************************************************************)
(* What the dispatcher promises about rides and chairs, without locks,     *)
(* handlers, streams or a matcher: the state diagram of                    *)
(* src/docs/reference/app_manual.md:64-73 and its rule that a chair takes  *)
(* no other ride until the one it has is over (line 50).                   *)
(***************************************************************************)
CONSTANTS Chairs, Rides, None

VARIABLES
  phase,     \* the status of a ride; "" before it is requested
  driver,    \* the chair that serves it
  released   \* completed rides whose chair knows that they are

contractVars == <<phase, driver, released>>

(* A chair is idle when it has been released from every ride it served. *)
Idle(c) == \A r \in Rides : driver[r] = c => r \in released

(* The successor of a status in the state diagram, once a chair is there. *)
NextPhase == [s \in {"MATCHING", "ENROUTE", "PICKUP", "CARRYING", "ARRIVED"} |->
  CASE s = "MATCHING" -> "ENROUTE" [] s = "ENROUTE" -> "PICKUP"
    [] s = "PICKUP" -> "CARRYING"  [] s = "CARRYING" -> "ARRIVED"
    [] s = "ARRIVED" -> "COMPLETED"]

ContractInit ==
  /\ phase = [r \in Rides |-> ""]
  /\ driver = [r \in Rides |-> None]
  /\ released = {}

RequestRide(r) ==
  /\ phase[r] = ""
  /\ phase' = [phase EXCEPT ![r] = "MATCHING"]
  /\ UNCHANGED <<driver, released>>

(* A round of matching: waiting rides get idle chairs, each its own. *)
MatchRound ==
  /\ \A r \in Rides : driver'[r] # driver[r] =>
       /\ phase[r] = "MATCHING" /\ driver[r] = None
       /\ driver'[r] \in Chairs /\ Idle(driver'[r])
       /\ \A s \in Rides : driver'[s] = driver'[r] /\ driver'[s] # driver[s] => s = r
  /\ driver' \in [Rides -> Chairs \cup {None}]
  /\ UNCHANGED <<phase, released>>

Advance(r) ==
  /\ driver[r] # None /\ phase[r] \in DOMAIN NextPhase
  /\ phase' = [phase EXCEPT ![r] = NextPhase[@]]
  /\ UNCHANGED <<driver, released>>

Release(r) ==
  /\ phase[r] = "COMPLETED"
  /\ released' = released \cup {r}
  /\ UNCHANGED <<phase, driver>>

ContractNext ==
  \/ MatchRound
  \/ \E r \in Rides : RequestRide(r) \/ Advance(r) \/ Release(r)

ContractSpec == ContractInit /\ [][ContractNext]_contractVars
=============================================================================
