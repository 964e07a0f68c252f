--------------------------- MODULE DispatchProofs ---------------------------
(***************************************************************************)
(* Theorems about module Dispatch, for every set of users, chairs, rides   *)
(* and handlers.                                                           *)
(***************************************************************************)
EXTENDS Dispatch, FiniteSetTheorems, TLAPS

(* Every step keeps the shape of every variable. *)
LEMMA TypeStep == ASSUME TypeOK, [Next]_vars PROVE TypeOK'
<1> USE DEF TypeOK
<1> USE DispatchAssumption
<1>1. CASE UNCHANGED vars
  BY <1>1 DEF vars, rideVars, sentVars, evalVars, matchVars, assignVars, chairVars
<1>2. ASSUME NEW u \in Users, NEW r \in Rides, PostRideCheck(u, r) PROVE TypeOK'
  BY <1>2 DEF PostRideCheck, sentVars, evalVars, matchVars, assignVars, chairVars
<1>3. ASSUME NEW r \in Rides, AddRide(r) PROVE TypeOK'
  <2>1. <<"MATCHING">> \in Seq(Status)
    BY DEF Status
  <2> QED
    BY <1>3, <2>1 DEF AddRide, sentVars, evalVars, matchVars, chairVars
<1>4. ASSUME NEW r \in Rides, PostRideAbort(r) PROVE TypeOK'
  BY <1>4 DEF PostRideAbort, sentVars, evalVars, matchVars, assignVars, chairVars
<1>5. ASSUME NEW r \in Rides, BeginEvaluation(r) PROVE TypeOK'
  BY <1>5 DEF BeginEvaluation, rideVars, sentVars, matchVars, assignVars, chairVars
<1>6. ASSUME NEW r \in Rides, Complete(r) PROVE TypeOK'
  <2>1. Append(log[r], "COMPLETED") \in Seq(Status)
    BY DEF Status
  <2>2. evals[r] - 1 \in Nat
    BY <1>6 DEF Complete
  <2>3. stats' \in [Chairs -> Nat]
    <3>1. CASE chairOf[r] \in Chairs
      BY <1>6, <3>1 DEF Complete
    <3>2. CASE chairOf[r] = None
      BY <1>6, <3>2 DEF Complete
    <3> QED
      BY <3>1, <3>2
  <2>4. log' \in [Rides -> Seq(Status)]
    BY <1>6, <2>1 DEF Complete
  <2> QED
    BY <1>6, <2>2, <2>3, <2>4 DEF Complete, rideVars, sentVars, matchVars, assignVars, chairVars
<1>7. ASSUME NEW r \in Rides, AbortEvaluation(r) PROVE TypeOK'
  <2>1. evals[r] - 1 \in Nat
    BY <1>7 DEF AbortEvaluation
  <2> QED
    BY <1>7, <2>1 DEF AbortEvaluation, rideVars, sentVars, matchVars, assignVars, chairVars
<1>8. ASSUME NEW u \in Users, AppNotify(u) PROVE TypeOK'
  BY <1>8 DEF AppNotify, rideVars, evalVars, matchVars, assignVars, chairVars
<1>9. CASE MatcherSnapshot
  <2>1. plan' \in [Rides -> Chairs \cup {None}]
    BY <1>9 DEF MatcherSnapshot, Matchings, FreeChairs
  <2> QED
    BY <1>9, <2>1 DEF MatcherSnapshot, rideVars, sentVars, evalVars, assignVars, chairVars
<1>10. CASE MatcherAssign
  <2>1. chairLatest' \in [Chairs -> Rides \cup {None}]
    BY <1>10 DEF MatcherAssign
  <2>2. chairOf' \in [Rides -> Chairs \cup {None}]
    BY <1>10 DEF MatcherAssign
  <2> QED
    BY <1>10, <2>1, <2>2 DEF MatcherAssign, Planned, rideVars, sentVars, evalVars
<1>11. ASSUME NEW outcome \in {"stored", "failed"}, MatcherUpdate(outcome) PROVE TypeOK'
  BY <1>11 DEF MatcherUpdate, Planned, rideVars, sentVars, evalVars, assignVars, chairVars
<1>12. CASE MatcherFinish
  BY <1>12 DEF MatcherFinish, Planned, NoPlan, rideVars, sentVars, evalVars, assignVars, chairVars
<1>13. ASSUME NEW c \in Chairs, ChairNotify(c) PROVE TypeOK'
  BY SMTT(30), <1>13 DEF ChairNotify, rideVars, evalVars, matchVars, assignVars
<1>14. ASSUME NEW c \in Chairs, NEW on \in BOOLEAN, SetActive(c, on) PROVE TypeOK'
  BY <1>14 DEF SetActive, rideVars, sentVars, evalVars, matchVars, assignVars
<1>15. ASSUME NEW q \in Requests, NEW c \in Chairs, NEW r \in Rides,
              NEW status \in {"ENROUTE", "CARRYING"}, PostRideStatus(q, c, r, status)
       PROVE TypeOK'
  <2>1. [chair |-> c, ride |-> r, status |-> status] \in Request
    BY DEF Request, Status
  <2> QED
    BY <1>15, <2>1 DEF PostRideStatus, rideVars, sentVars, evalVars, matchVars, assignVars, chairVars
<1>16. ASSUME NEW q \in Requests, NEW c \in Chairs, PostCoordinate(q, c) PROVE TypeOK'
  <2>1. PICK status \in {"PICKUP", "ARRIVED"} :
          req' = [req EXCEPT ![q] = [chair |-> c, ride |-> chairLatest[c], status |-> status]]
    BY <1>16 DEF PostCoordinate
  <2>2. [chair |-> c, ride |-> chairLatest[c], status |-> status] \in Request
    BY <1>16 DEF PostCoordinate, Request, Status
  <2> QED
    BY <1>16, <2>1, <2>2 DEF PostCoordinate, rideVars, sentVars, evalVars, matchVars, assignVars, chairVars
<1>17. ASSUME NEW q \in Requests, AddStatus(q) PROVE TypeOK'
  <2>1. req[q] \in Request
    BY <1>17 DEF AddStatus
  <2>2. Append(log[req[q].ride], req[q].status) \in Seq(Status)
    BY <2>1 DEF Request
  <2> QED
    BY <1>17, <2>1, <2>2 DEF AddStatus, rideVars, sentVars, evalVars, matchVars, assignVars, chairVars
<1> HIDE DEF TypeOK
<1> QED
  BY <1>1, <1>2, <1>3, <1>4, <1>5, <1>6, <1>7, <1>8, <1>9, <1>10, <1>11, <1>12,
     <1>13, <1>14, <1>15, <1>16, <1>17 DEF Next, UserNext, MatcherNext, ChairNext

(* Type correctness: TypeOK holds in every reachable state of the dispatcher,
   also when clients repeat their calls. *)
THEOREM TypeCorrect == Spec => []TypeOK
<1>1. Init => TypeOK
  <2>1. <<>> \in Seq(Status)
    OBVIOUS
  <2> QED
    BY <2>1, DispatchAssumption DEF Init, TypeOK, NoPlan
<1>2. TypeOK /\ [Next]_vars => TypeOK'
  BY TypeStep
<1> QED
  BY <1>1, <1>2, PTL DEF Spec

-----------------------------------------------------------------------------
(***************************************************************************)
(* The inductive invariant.  It speaks of the number of statuses of a ride *)
(* instead of its last status: under LifecycleOrder the two say the same.  *)
(***************************************************************************)

(* The chair of the ride was sent all six statuses. *)
Done(r) == Len(log[r]) = 6 /\ chairSent[r] = 6

NoneOrDone(c) == chairLatest[c] = None \/ Done(chairLatest[c])

FreeInv == \A c \in Chairs : c \in free <=> (c \in active /\ NoneOrDone(c))

MovesOnInv ==
  \A r \in Rides : (chairOf[r] # None /\ chairLatest[chairOf[r]] # r) => Done(r)

LatestInv ==
  \A c \in Chairs : chairLatest[c] # None => chairOf[chairLatest[c]] = c

(* A ride has statuses once it is known, and never more sent than recorded. *)
RideInv ==
  \A r \in Rides :
    /\ rideUser[r] = None => chairOf[r] = None /\ Len(log[r]) = 0
    /\ rideUser[r] # None => posting[r] = None /\ Len(log[r]) > 0
    /\ chairSent[r] <= Len(log[r])
    /\ chairOf[r] = None => chairSent[r] = 0

(* What the matcher holds on to while it is between two locks. *)
PlanInv ==
  /\ \A r, s \in Rides : (plan[r] = plan[s] /\ plan[r] # None) => r = s
  /\ mpc = "idle" => \A r \in Rides : plan[r] = None
  /\ mpc = "planned" =>
       \A r \in Rides : plan[r] # None => r \in waiting /\ NoneOrDone(plan[r])
  /\ mpc \in {"assigned", "updated"} =>
       \A r \in Rides : plan[r] # None => r \in pending /\ chairOf[r] = plan[r]

PendingInv ==
  \A r \in pending :
    /\ mpc \in {"assigned", "updated"} /\ plan[r] # None
    /\ chairSent[r] = 0 /\ Len(log[r]) = 1

UpdateInv ==
  /\ \A r \in Rides : (chairSent[r] > 0 \/ Len(log[r]) > 1) => dbAssign[r] # "none"
  /\ \A r \in Rides : chairOf[r] # None =>
       dbAssign[r] # "none" \/ (mpc = "assigned" /\ plan[r] # None)

(* A chair request under way carries the next status of a ride of its chair,
   and is the only one of that chair. *)
RequestInv ==
  /\ \A q \in Requests : req[q] # None =>
       /\ chairOf[req[q].ride] = req[q].chair
       /\ Len(log[req[q].ride]) \in 1 .. 4
       /\ req[q].status = Lifecycle[Len(log[req[q].ride]) + 1]
       /\ dbAssign[req[q].ride] # "none"
       /\ req[q].ride \notin pending
  /\ \A p, q \in Requests :
       (req[p] # None /\ req[q] # None /\ req[p].chair = req[q].chair) => p = q

(* At most one evaluation of a ride waits for the payment. *)
EvalInv ==
  \A r \in Rides :
    /\ evals[r] <= 1
    /\ evals[r] > 0 => r \in completing /\ Len(log[r]) = 5

CoreInv ==
  /\ LifecycleOrder /\ WaitingUntilAssigned
  /\ FreeInv /\ MovesOnInv /\ LatestInv /\ RideInv
  /\ PlanInv /\ PendingInv /\ UpdateInv /\ RequestInv /\ EvalInv

IInv == TypeOK /\ CoreInv

LEMMA LifecycleFacts ==
  /\ Len(Lifecycle) = 6
  /\ Lifecycle[1] = "MATCHING" /\ Lifecycle[2] = "ENROUTE"
  /\ Lifecycle[3] = "PICKUP" /\ Lifecycle[4] = "CARRYING"
  /\ Lifecycle[5] = "ARRIVED" /\ Lifecycle[6] = "COMPLETED"
BY DEF Lifecycle

LEMMA UpToSix ==
  ASSUME NEW n \in Nat, n <= 6
  PROVE  n \in 0 .. 6 /\ n \in {0, 1, 2, 3, 4, 5, 6}
OBVIOUS

(* Steps of arithmetic that the provers miss when n is the length of a log. *)
LEMMA OneIsBetween == ASSUME NEW n \in Nat, n > 0, n <= 1 PROVE n = 1
OBVIOUS

LEMMA SixIsNext == ASSUME NEW m \in Nat, NEW n \in Nat, m < n, n <= 6, m + 1 = 6
                   PROVE  n = 6
OBVIOUS

LEMMA NotBoth == ASSUME NEW m \in Nat, NEW n \in Nat, m < n PROVE ~(n = 6 /\ m = 6)
OBVIOUS

LEMMA UpToFive == ASSUME NEW n \in 1 .. 5 PROVE n < 6 /\ n \in Nat
OBVIOUS

LEMMA UpToFour ==
  ASSUME NEW n \in 1 .. 4
  PROVE  n \in 1 .. 5 /\ n < 6 /\ n \in Nat /\ n # 5
OBVIOUS

LEMMA FiveFacts ==
  ASSUME NEW n, n = 5
  PROVE  n > 1 /\ ~(n <= 1) /\ n \notin 1 .. 4 /\ n # 1 /\ n # 0
OBVIOUS

LEMMA RequestType ==
  ASSUME TypeOK, NEW q \in Requests, req[q] # None
  PROVE  /\ req[q].chair \in Chairs /\ req[q].ride \in Rides
         /\ req[q].status \in Status
<1>1. req[q] \in Request
  BY DEF TypeOK
<1> QED
  BY <1>1 DEF Request

(* The number of statuses tells the last one. *)
LEMMA LatestByLength ==
  ASSUME TypeOK, LifecycleOrder, NEW r \in Rides
  PROVE  /\ Len(log[r]) \in 0 .. 6
         /\ LatestStatus(r) = "MATCHING" <=> Len(log[r]) = 1
         /\ LatestStatus(r) = "ENROUTE" <=> Len(log[r]) = 2
         /\ LatestStatus(r) = "PICKUP" <=> Len(log[r]) = 3
         /\ LatestStatus(r) = "CARRYING" <=> Len(log[r]) = 4
         /\ LatestStatus(r) = "ARRIVED" <=> Len(log[r]) = 5
         /\ LatestStatus(r) = "COMPLETED" <=> Len(log[r]) = 6
         /\ Released(r) <=> Done(r)
<1>1. log[r] \in Seq(Status) /\ Len(log[r]) \in Nat /\ Len(log[r]) <= 6
  BY LifecycleFacts DEF TypeOK, LifecycleOrder
<1>2. Len(log[r]) \in {0, 1, 2, 3, 4, 5, 6}
  BY <1>1, UpToSix, Zenon
<1>3. CASE Len(log[r]) = 0
  BY <1>3 DEF LatestStatus, Released, Done
<1>4. CASE Len(log[r]) # 0
  <2>1. LatestStatus(r) = Lifecycle[Len(log[r])]
    BY <1>1, <1>4 DEF LatestStatus, LifecycleOrder
  <2>2. /\ LatestStatus(r) = "MATCHING" <=> Len(log[r]) = 1
        /\ LatestStatus(r) = "ENROUTE" <=> Len(log[r]) = 2
        /\ LatestStatus(r) = "PICKUP" <=> Len(log[r]) = 3
        /\ LatestStatus(r) = "CARRYING" <=> Len(log[r]) = 4
        /\ LatestStatus(r) = "ARRIVED" <=> Len(log[r]) = 5
        /\ LatestStatus(r) = "COMPLETED" <=> Len(log[r]) = 6
    BY <2>1, <1>2, <1>4, LifecycleFacts
  <2>3. Len(log[r]) \in 0 .. 6
    BY <1>1, UpToSix, Zenon
  <2>4. Released(r) <=> Done(r)
    BY <2>2, <1>1 DEF Released, Done, TypeOK
  <2> QED
    BY <2>2, <2>3, <2>4, Zenon
<1> QED
  BY <1>3, <1>4

(* Steps that record a status: the ride's log grows by the next one. *)
LEMMA LogGrows ==
  ASSUME TypeOK, LifecycleOrder, NEW r \in Rides, NEW s \in Status,
         Len(log[r]) < 6, s = Lifecycle[Len(log[r]) + 1],
         log' = [log EXCEPT ![r] = Append(@, s)]
  PROVE  /\ LifecycleOrder'
         /\ Len(log'[r]) = Len(log[r]) + 1
         /\ \A t \in Rides : t # r => log'[t] = log[t]
<1>1. log[r] \in Seq(Status) /\ log'[r] = Append(log[r], s)
  BY DEF TypeOK
<1>2. Len(log'[r]) = Len(log[r]) + 1
  BY <1>1
<1>3. \A t \in Rides : t # r => log'[t] = log[t]
  BY DEF TypeOK
<1>4. \A i \in 1 .. Len(log'[r]) : log'[r][i] = Lifecycle[i]
  BY <1>1, <1>2 DEF LifecycleOrder
<1>5. Len(log'[r]) <= Len(Lifecycle)
  BY <1>1, <1>2, LifecycleFacts
<1> QED
  BY <1>2, <1>3, <1>4, <1>5 DEF LifecycleOrder

LEMMA StutterStep == ASSUME IInv, UNCHANGED vars PROVE CoreInv'
BY DEF IInv, CoreInv, LifecycleOrder, WaitingUntilAssigned, FreeInv, NoneOrDone,
   Done, MovesOnInv, LatestInv, RideInv, PlanInv, PendingInv, UpdateInv,
   RequestInv, EvalInv, vars, rideVars, sentVars, evalVars, matchVars,
   assignVars, chairVars

LEMMA PostRideCheckStep ==
  ASSUME IInv, NEW u \in Users, NEW r \in Rides, PostRideCheck(u, r)
  PROVE  CoreInv'
<1>1. UNCHANGED <<rideUser, userLatest, sentVars, evalVars, matchVars,
                  assignVars, chairVars, log, req>> /\ rideUser[r] = None
  BY DEF PostRideCheck
<1>2. RideInv'
  BY <1>1 DEF PostRideCheck, IInv, CoreInv, TypeOK, RideInv, sentVars, assignVars
<1> QED
  BY <1>1, <1>2 DEF IInv, CoreInv, LifecycleOrder, WaitingUntilAssigned, FreeInv,
     NoneOrDone, Done, MovesOnInv, LatestInv, PlanInv, PendingInv, UpdateInv,
     RequestInv, EvalInv, sentVars, evalVars, matchVars, assignVars, chairVars

LEMMA PostRideAbortStep ==
  ASSUME IInv, NEW r \in Rides, PostRideAbort(r)
  PROVE  CoreInv'
<1>1. UNCHANGED <<rideUser, userLatest, sentVars, evalVars, matchVars,
                  assignVars, chairVars, log, req>>
  BY DEF PostRideAbort
<1>2. RideInv'
  BY <1>1 DEF PostRideAbort, IInv, CoreInv, TypeOK, RideInv, sentVars, assignVars
<1> QED
  BY <1>1, <1>2 DEF IInv, CoreInv, LifecycleOrder, WaitingUntilAssigned, FreeInv,
     NoneOrDone, Done, MovesOnInv, LatestInv, PlanInv, PendingInv, UpdateInv,
     RequestInv, EvalInv, sentVars, evalVars, matchVars, assignVars, chairVars

LEMMA AddRideStep ==
  ASSUME IInv, NEW r \in Rides, AddRide(r)
  PROVE  CoreInv'
<1> USE DEF IInv, CoreInv
<1>1. UNCHANGED <<sentVars, evalVars, matchVars, chairOf, chairLatest, chairVars, req>>
  BY DEF AddRide
<1>2. rideUser[r] = None /\ posting[r] \in Users /\ chairOf[r] = None /\ Len(log[r]) = 0
  BY DEF AddRide, RideInv, TypeOK
<1>3. /\ log'[r] = <<"MATCHING">> /\ Len(log'[r]) = 1
      /\ \A t \in Rides : t # r => log'[t] = log[t]
  BY DEF AddRide, TypeOK
<1>4. LifecycleOrder'
  <2>1. \A i \in 1 .. Len(log'[r]) : log'[r][i] = Lifecycle[i]
    BY <1>3, LifecycleFacts
  <2>2. Len(log'[r]) <= Len(Lifecycle)
    BY <1>3, LifecycleFacts
  <2>3. \A t \in Rides : t # r =>
          /\ Len(log'[t]) <= Len(Lifecycle)
          /\ \A i \in 1 .. Len(log'[t]) : log'[t][i] = Lifecycle[i]
    BY <1>3 DEF LifecycleOrder
  <2> HIDE DEF IInv, CoreInv
  <2> QED
    BY <2>1, <2>2, <2>3 DEF LifecycleOrder
<1>5. \A t \in Rides : Done(t)' <=> Done(t)
  BY <1>1, <1>2, <1>3 DEF Done, sentVars
<1>6. WaitingUntilAssigned'
  BY <1>1, <1>2, <1>3, DispatchAssumption DEF AddRide, WaitingUntilAssigned, TypeOK
<1>7. FreeInv' /\ MovesOnInv' /\ LatestInv'
  BY <1>1, <1>5 DEF FreeInv, NoneOrDone, MovesOnInv, LatestInv, chairVars, TypeOK
<1>8. RideInv'
  BY <1>1, <1>2, <1>3, DispatchAssumption DEF AddRide, RideInv, TypeOK, sentVars
<1>9. PlanInv'
  BY <1>1, <1>5 DEF AddRide, PlanInv, NoneOrDone, matchVars, TypeOK
<1>10. PendingInv'
  <2>1. r \notin pending
    BY <1>2 DEF PendingInv
  <2> QED
    BY <1>1, <1>3, <2>1 DEF PendingInv, matchVars, sentVars, TypeOK
<1>11. UpdateInv'
  <2>1. UNCHANGED <<chairSent, chairOf, dbAssign, mpc, plan>>
    BY <1>1 DEF matchVars, sentVars
  <2>2. chairSent[r] = 0
    BY <1>2 DEF RideInv
  <2>3. ~(chairSent'[r] > 0 \/ Len(log'[r]) > 1)
    BY <1>3, <2>1, <2>2
  <2>4. ASSUME NEW t \in Rides, chairSent'[t] > 0 \/ Len(log'[t]) > 1
        PROVE  dbAssign'[t] # "none"
    <3>1. t # r
      BY <2>3, <2>4
    <3>2. Len(log'[t]) = Len(log[t])
      BY <1>3, <3>1
    <3> QED
      BY <2>1, <2>4, <3>2 DEF UpdateInv
  <2> QED
    BY <2>1, <2>4 DEF UpdateInv
<1>12. RequestInv'
  <2>1. \A q \in Requests : req[q] # None => req[q].ride \in Rides /\ req[q].ride # r
    BY <1>2, RequestType DEF RequestInv
  <2> QED
    BY <1>1, <1>3, <2>1 DEF RequestInv, matchVars
<1>13. EvalInv'
  BY SMTT(30), <1>1, <1>2, <1>3 DEF EvalInv, evalVars
<1> QED
  BY <1>4, <1>6, <1>7, <1>8, <1>9, <1>10, <1>11, <1>12, <1>13

LEMMA MatcherSnapshotStep == ASSUME IInv, MatcherSnapshot PROVE CoreInv'
<1> USE DEF IInv, CoreInv
<1>1. /\ mpc = "idle" /\ mpc' = "planned"
      /\ plan' \in Matchings(WaitingRides, FreeChairs)
      /\ UNCHANGED <<rideVars, sentVars, evalVars, pending, dbAssign,
                     assignVars, chairVars, log, req>>
  BY DEF MatcherSnapshot
<1>2. \A r \in Rides : plan'[r] # None => r \in waiting /\ NoneOrDone(plan'[r])
  <2> SUFFICES ASSUME NEW r \in Rides, plan'[r] # None
               PROVE  r \in waiting /\ NoneOrDone(plan'[r])
    OBVIOUS
  <2>1. r \in WaitingRides /\ plan'[r] \in FreeChairs
    BY <1>1 DEF Matchings
  <2>2. plan'[r] \in Chairs /\ ChairIdle(plan'[r])
    BY <2>1 DEF FreeChairs, TypeOK
  <2>3. CASE chairLatest[plan'[r]] = None
    BY <2>1, <2>3 DEF NoneOrDone, WaitingRides
  <2>4. CASE chairLatest[plan'[r]] # None
    <3>1. chairLatest[plan'[r]] \in Rides /\ Released(chairLatest[plan'[r]])
      BY <2>2, <2>4 DEF ChairIdle, TypeOK
    <3> QED
      BY <3>1, <2>1, LatestByLength DEF NoneOrDone, WaitingRides
  <2> QED
    BY <2>3, <2>4
<1>3. PlanInv'
  <2>1. \A r, s \in Rides : (plan'[r] = plan'[s] /\ plan'[r] # None) => r = s
    BY <1>1 DEF Matchings
  <2> QED
    BY <1>1, <1>2, <2>1 DEF PlanInv, NoneOrDone, Done, sentVars, assignVars
<1>4. PendingInv' /\ UpdateInv'
  BY <1>1 DEF PendingInv, UpdateInv, sentVars, assignVars
<1> QED
  BY <1>1, <1>3, <1>4 DEF LifecycleOrder, WaitingUntilAssigned, FreeInv,
     NoneOrDone, Done, MovesOnInv, LatestInv, RideInv, RequestInv, EvalInv,
     rideVars, sentVars, evalVars, assignVars, chairVars

LEMMA MatcherAssignStep == ASSUME IInv, MatcherAssign PROVE CoreInv'
<1> USE DEF IInv, CoreInv
<1>1. /\ mpc = "planned" /\ mpc' = "assigned"
      /\ UNCHANGED <<rideVars, sentVars, evalVars, plan, dbAssign, active, log, req>>
      /\ pending' = pending \cup Planned /\ waiting' = waiting \ Planned
      /\ free' = {c \in free : \A r \in Rides : plan[r] # c}
  BY DEF MatcherAssign
<1>2. \A r \in Rides : chairOf'[r] = IF plan[r] # None THEN plan[r] ELSE chairOf[r]
  BY DEF MatcherAssign
<1>3. \A r \in Rides : plan[r] # None =>
        /\ r \in waiting /\ chairOf[r] = None /\ rideUser[r] # None
        /\ plan[r] \in Chairs /\ NoneOrDone(plan[r])
        /\ Len(log[r]) = 1 /\ chairSent[r] = 0
  <2> SUFFICES ASSUME NEW r \in Rides, plan[r] # None
               PROVE  /\ r \in waiting /\ chairOf[r] = None /\ rideUser[r] # None
                      /\ plan[r] \in Chairs /\ NoneOrDone(plan[r])
                      /\ Len(log[r]) = 1 /\ chairSent[r] = 0
    OBVIOUS
  <2>1. r \in waiting /\ plan[r] \in Chairs /\ NoneOrDone(plan[r])
    BY <1>1 DEF PlanInv, TypeOK
  <2>2. chairOf[r] = None /\ rideUser[r] # None /\ Len(log[r]) <= 1
    BY <2>1 DEF WaitingUntilAssigned
  <2>3. Len(log[r]) > 0 /\ chairSent[r] = 0
    BY <2>2 DEF RideInv
  <2>4. Len(log[r]) \in Nat
    BY DEF TypeOK
  <2>5. Len(log[r]) = 1
    BY <2>2, <2>3, <2>4, OneIsBetween, Zenon
  <2> QED
    BY <2>1, <2>2, <2>3, <2>5
<1>4. \A c \in Chairs : (\E r \in Rides : plan[r] = c) =>
        chairLatest'[c] \in Rides /\ plan[chairLatest'[c]] = c
  BY DEF MatcherAssign
<1>5. \A c \in Chairs : (\A r \in Rides : plan[r] # c) => chairLatest'[c] = chairLatest[c]
  BY DEF MatcherAssign
<1>6. \A r \in Rides : Done(r)' <=> Done(r)
  BY <1>1 DEF Done, sentVars
<1>7. \A r \in Rides : plan[r] # None => chairLatest'[plan[r]] = r /\ ~Done(r)
  BY <1>3, <1>4 DEF PlanInv, Done
<1>8. pending = {}
  BY <1>1 DEF PendingInv
<1>9. WaitingUntilAssigned'
  BY <1>1, <1>2, <1>3 DEF WaitingUntilAssigned, Planned, rideVars, TypeOK
<1>10. FreeInv'
  <2> SUFFICES ASSUME NEW c \in Chairs
               PROVE  c \in free' <=> (c \in active /\ NoneOrDone(c)')
    BY <1>1 DEF FreeInv
  <2>1. CASE \A r \in Rides : plan[r] # c
    <3>1. chairLatest'[c] = chairLatest[c] /\ (c \in free' <=> c \in free)
      BY <1>1, <1>5, <2>1
    <3>2. NoneOrDone(c)' <=> NoneOrDone(c)
      BY <3>1, <1>6 DEF NoneOrDone, TypeOK
    <3> QED
      BY <3>1, <3>2 DEF FreeInv
  <2>2. ASSUME NEW r \in Rides, plan[r] = c
        PROVE  c \in free' <=> (c \in active /\ NoneOrDone(c)')
    <3>1. plan[r] # None
      BY <2>2, DispatchAssumption
    <3>2. chairLatest'[c] = r /\ ~Done(r)' /\ r # None
      BY <2>2, <3>1, <1>6, <1>7, DispatchAssumption
    <3> QED
      BY <1>1, <2>2, <3>2 DEF NoneOrDone
  <2> QED
    BY <2>1, <2>2
<1>11. MovesOnInv'
  <2> SUFFICES ASSUME NEW r \in Rides, chairOf'[r] # None, chairLatest'[chairOf'[r]] # r
               PROVE  Done(r)
    BY <1>6 DEF MovesOnInv
  <2>1. plan[r] = None /\ chairOf'[r] = chairOf[r] /\ chairOf[r] \in Chairs
    BY <1>2, <1>7 DEF TypeOK
  <2>2. CASE \A s \in Rides : plan[s] # chairOf[r]
    BY <2>1, <2>2, <1>5 DEF MovesOnInv
  <2>3. ASSUME NEW s \in Rides, plan[s] = chairOf[r] PROVE Done(r)
    <3>1. NoneOrDone(chairOf[r])
      BY <2>1, <2>3, <1>3, DispatchAssumption
    <3>2. CASE chairLatest[chairOf[r]] = r
      BY <3>1, <3>2, DispatchAssumption DEF NoneOrDone
    <3>3. CASE chairLatest[chairOf[r]] # r
      BY <2>1, <3>3 DEF MovesOnInv
    <3> QED
      BY <3>2, <3>3
  <2> QED
    BY <2>2, <2>3
<1>12. LatestInv'
  <2> SUFFICES ASSUME NEW c \in Chairs, chairLatest'[c] # None
               PROVE  chairOf'[chairLatest'[c]] = c
    BY DEF LatestInv
  <2>1. CASE \A r \in Rides : plan[r] # c
    <3>1. chairLatest'[c] = chairLatest[c] /\ chairLatest[c] \in Rides
      BY <1>5, <2>1 DEF TypeOK
    <3>2. chairOf[chairLatest[c]] = c /\ c # None
      BY <3>1, DispatchAssumption DEF LatestInv
    <3>3. plan[chairLatest[c]] = None
      BY <3>1, <3>2, <1>3
    <3> QED
      BY <1>2, <3>1, <3>2, <3>3
  <2>2. CASE \E r \in Rides : plan[r] = c
    BY <1>2, <1>4, <2>2, DispatchAssumption
  <2> QED
    BY <2>1, <2>2
<1>13. RideInv'
  BY <1>1, <1>2, <1>3 DEF RideInv, rideVars, sentVars
<1>14. PlanInv'
  BY <1>1, <1>2 DEF PlanInv, Planned
<1>15. PendingInv'
  BY <1>1, <1>3, <1>8 DEF PendingInv, Planned, sentVars
<1>16. UpdateInv'
  BY <1>1, <1>2 DEF UpdateInv, sentVars
<1>17. RequestInv'
  <2>1. \A q \in Requests : req[q] # None =>
          req[q].ride \in Rides /\ plan[req[q].ride] = None /\ req[q].ride \notin Planned
    BY <1>3, RequestType, DispatchAssumption DEF RequestInv, Planned
  <2> QED
    BY <1>1, <1>2, <2>1 DEF RequestInv
<1> QED
  BY <1>1, <1>9, <1>10, <1>11, <1>12, <1>13, <1>14, <1>15, <1>16, <1>17
     DEF LifecycleOrder, EvalInv, evalVars

LEMMA MatcherUpdateStep ==
  ASSUME IInv, NEW outcome \in {"stored", "failed"}, MatcherUpdate(outcome)
  PROVE  CoreInv'
<1> USE DEF IInv, CoreInv
<1>1. /\ mpc = "assigned" /\ mpc' = "updated"
      /\ UNCHANGED <<rideVars, sentVars, evalVars, plan, pending, assignVars,
                     chairVars, log, req>>
      /\ \A r \in Rides : dbAssign'[r] = IF r \in Planned THEN outcome ELSE dbAssign[r]
  BY DEF MatcherUpdate
<1>2. UpdateInv'
  BY <1>1 DEF UpdateInv, Planned, sentVars, assignVars
<1>3. PlanInv'
  BY <1>1 DEF PlanInv, assignVars
<1>4. RequestInv'
  BY <1>1, RequestType DEF RequestInv, assignVars
<1> QED
  BY <1>1, <1>2, <1>3, <1>4 DEF LifecycleOrder, WaitingUntilAssigned, FreeInv,
     NoneOrDone, Done, MovesOnInv, LatestInv, RideInv, PendingInv, EvalInv,
     rideVars, sentVars, evalVars, assignVars, chairVars

LEMMA MatcherFinishStep == ASSUME IInv, MatcherFinish PROVE CoreInv'
<1> USE DEF IInv, CoreInv
<1>1. /\ mpc = "updated" /\ mpc' = "idle" /\ plan' = NoPlan
      /\ pending' = pending \ Planned
      /\ UNCHANGED <<rideVars, sentVars, evalVars, dbAssign, assignVars,
                     chairVars, log, req>>
  BY DEF MatcherFinish
<1>2. \A r \in Rides : plan'[r] = None
  BY <1>1 DEF NoPlan
<1>3. pending' = {}
  BY <1>1 DEF PendingInv, Planned, TypeOK
<1>4. PlanInv' /\ PendingInv'
  BY <1>1, <1>2, <1>3 DEF PlanInv, PendingInv
<1>5. UpdateInv'
  BY <1>1 DEF UpdateInv, sentVars, assignVars
<1>6. RequestInv'
  BY <1>1, <1>3 DEF RequestInv, assignVars
<1> QED
  BY <1>1, <1>4, <1>5, <1>6 DEF LifecycleOrder, WaitingUntilAssigned, FreeInv,
     NoneOrDone, Done, MovesOnInv, LatestInv, RideInv, EvalInv,
     rideVars, sentVars, evalVars, assignVars, chairVars

LEMMA AppNotifyStep ==
  ASSUME IInv, NEW u \in Users, AppNotify(u)
  PROVE  CoreInv'
BY DEF AppNotify, IInv, CoreInv, LifecycleOrder, WaitingUntilAssigned, FreeInv,
   NoneOrDone, Done, MovesOnInv, LatestInv, RideInv, PlanInv, PendingInv,
   UpdateInv, RequestInv, EvalInv, rideVars, evalVars, matchVars, assignVars,
   chairVars

LEMMA ChairNotifyStep ==
  ASSUME IInv, NEW c \in Chairs, ChairNotify(c)
  PROVE  CoreInv'
<1> USE DEF IInv, CoreInv
<1> DEFINE r == chairLatest[c]
<1>1. /\ r \in Rides /\ r \notin pending /\ chairOf[r] = c
      /\ chairSent[r] \in Nat /\ chairSent[r] < Len(log[r])
      /\ log[r] \in Seq(Status)
  BY DEF ChairNotify, TypeOK, LatestInv
<1>2. /\ chairSent'[r] = chairSent[r] + 1
      /\ \A t \in Rides : t # r => chairSent'[t] = chairSent[t]
  BY <1>1 DEF ChairNotify, TypeOK
<1>3. UNCHANGED <<rideVars, appSent, evalVars, matchVars, assignVars, active, log, req>>
  BY DEF ChairNotify
<1>4. Len(log[r]) <= 6 /\ Len(log[r]) \in Nat
  BY <1>1, LifecycleFacts DEF LifecycleOrder
<1>5. ~Done(r)
  BY <1>1, <1>4, NotBoth DEF Done
<1>6. \A t \in Rides : t # r => (Done(t)' <=> Done(t))
  BY <1>2, <1>3 DEF Done
<1>7. log[r][chairSent[r] + 1] = "COMPLETED" <=> Done(r)'
  <2>1. log[r][chairSent[r] + 1] = Lifecycle[chairSent[r] + 1]
    BY <1>1 DEF LifecycleOrder
  <2>2. chairSent[r] + 1 \in Nat /\ chairSent[r] + 1 <= 6 /\ chairSent[r] + 1 > 0
    BY <1>1, <1>4
  <2>3. chairSent[r] + 1 \in {0, 1, 2, 3, 4, 5, 6}
    BY <2>2, UpToSix
  <2>4. log[r][chairSent[r] + 1] = "COMPLETED" <=> chairSent[r] + 1 = 6
    BY <2>1, <2>2, <2>3, LifecycleFacts
  <2>5. chairSent[r] + 1 = 6 => Len(log[r]) = 6
    BY <1>1, <1>4, SixIsNext
  <2>6. Done(r)' <=> (Len(log[r]) = 6 /\ chairSent[r] + 1 = 6)
    BY <1>2, <1>3 DEF Done, assignVars
  <2> QED
    BY <2>4, <2>5, <2>6
<1>8. \A d \in Chairs : d # c /\ chairLatest[d] # None => chairLatest[d] \in Rides \ {r}
  BY <1>1 DEF LatestInv, TypeOK
<1>9. FreeInv'
  <2>1. free' = IF Done(r)' /\ c \in active THEN free \cup {c} ELSE free
    BY <1>7 DEF ChairNotify
  <2>2. c \notin free
    BY <1>1, <1>5, DispatchAssumption DEF FreeInv, NoneOrDone
  <2>3. c \in free' <=> (c \in active /\ NoneOrDone(c)')
    BY <2>1, <2>2, <1>1, <1>3, DispatchAssumption DEF NoneOrDone, assignVars
  <2>4. ASSUME NEW d \in Chairs, d # c
        PROVE  d \in free' <=> (d \in active /\ NoneOrDone(d)')
    <3>1. NoneOrDone(d)' <=> NoneOrDone(d)
      BY <1>3, <1>6, <1>8, <2>4 DEF NoneOrDone, assignVars
    <3> QED
      BY <2>1, <2>4, <3>1 DEF FreeInv
  <2> QED
    BY <2>3, <2>4, <1>3 DEF FreeInv
<1>10. MovesOnInv'
  BY <1>3, <1>5, <1>6 DEF MovesOnInv, assignVars
<1>11. RideInv'
  BY <1>1, <1>2, <1>3, <1>4, DispatchAssumption DEF RideInv, rideVars, assignVars
<1>12. PlanInv'
  <2>1. \A t \in Rides : plan[t] # None => (NoneOrDone(plan[t]) => NoneOrDone(plan[t])')
    <3> SUFFICES ASSUME NEW t \in Rides, plan[t] # None, NoneOrDone(plan[t])
                 PROVE  NoneOrDone(plan[t])'
      BY <1>3 DEF NoneOrDone, Done, matchVars
    <3>1. plan[t] \in Chairs
      BY DEF TypeOK
    <3>2. plan' = plan /\ chairLatest' = chairLatest
      BY <1>3 DEF matchVars, assignVars
    <3>3. CASE chairLatest[plan[t]] = None
      BY <3>2, <3>3 DEF NoneOrDone
    <3>4. CASE chairLatest[plan[t]] # None
      <4>1. chairLatest[plan[t]] \in Rides /\ Done(chairLatest[plan[t]])
        BY <3>1, <3>4 DEF NoneOrDone, TypeOK
      <4>2. chairLatest[plan[t]] # r
        BY <4>1, <1>5
      <4> QED
        BY <4>1, <4>2, <3>2, <1>6 DEF NoneOrDone
    <3> QED
      BY <3>3, <3>4
  <2> QED
    BY <1>3, <2>1 DEF PlanInv, matchVars, assignVars
<1>13. PendingInv'
  BY <1>1, <1>2, <1>3 DEF PendingInv, matchVars, TypeOK
<1>14. UpdateInv'
  <2>1. dbAssign[r] # "none"
    BY <1>1, DispatchAssumption DEF UpdateInv, PlanInv
  <2> QED
    BY <1>2, <1>3, <2>1 DEF UpdateInv, matchVars, assignVars
<1> QED
  BY <1>3, <1>9, <1>10, <1>11, <1>12, <1>13, <1>14 DEF LifecycleOrder,
     WaitingUntilAssigned, LatestInv, RequestInv, EvalInv, rideVars, evalVars,
     matchVars, assignVars

LEMMA SetActiveStep ==
  ASSUME IInv, NEW c \in Chairs, NEW on \in BOOLEAN, SetActive(c, on)
  PROVE  CoreInv'
<1> USE DEF IInv, CoreInv
<1>1. UNCHANGED <<rideVars, sentVars, evalVars, matchVars, assignVars, log, req>>
  BY DEF SetActive
<1>2. ChairIdle(c) <=> NoneOrDone(c)
  BY LatestByLength DEF ChairIdle, NoneOrDone, TypeOK
<1>3. \A d \in Chairs : NoneOrDone(d)' <=> NoneOrDone(d)
  BY <1>1 DEF NoneOrDone, Done, assignVars, sentVars
<1>4. FreeInv'
  BY <1>2, <1>3 DEF SetActive, FreeInv
<1> QED
  BY <1>1, <1>4 DEF LifecycleOrder, WaitingUntilAssigned, NoneOrDone, Done,
     MovesOnInv, LatestInv, RideInv, PlanInv, PendingInv, UpdateInv, RequestInv,
     EvalInv, rideVars, sentVars, evalVars, matchVars, assignVars

LEMMA PostRideStatusStep ==
  ASSUME IInv, ~Retries, NEW q \in Requests, NEW c \in Chairs, NEW r \in Rides,
         NEW status \in {"ENROUTE", "CARRYING"}, PostRideStatus(q, c, r, status)
  PROVE  CoreInv'
<1> USE DEF IInv, CoreInv
<1>1. /\ req[q] = None /\ chairSent[r] > 0 /\ chairOf[r] = c
      /\ \A p \in Requests : req[p] # None => req[p].chair # c
      /\ UNCHANGED <<rideVars, sentVars, evalVars, matchVars, assignVars,
                     chairVars, log>>
  BY DEF PostRideStatus, MayCall, MayPost
<1> DEFINE new == [chair |-> c, ride |-> r, status |-> status]
<1>2. /\ req'[q] = new /\ new.chair = c /\ new.ride = r /\ new.status = status
      /\ \A p \in Requests : p # q => req'[p] = req[p]
  BY DEF PostRideStatus, TypeOK
<1>3. /\ Len(log[r]) \in 1 .. 4 /\ status = Lifecycle[Len(log[r]) + 1]
  <2>1. /\ log[r] \in Seq(Status) /\ Len(log[r]) \in Nat /\ Len(log[r]) \in 0 .. 6
        /\ Len(log[r]) # 0
    BY <1>1, LatestByLength DEF TypeOK, RideInv
  <2>2. CASE status = "ENROUTE"
    <3>1. \A i \in 1 .. Len(log[r]) : log[r][i] # "ENROUTE"
      BY <2>2 DEF PostRideStatus, MayPost
    <3>2. ~(2 <= Len(log[r]))
      BY <2>1, <3>1, LifecycleFacts DEF LifecycleOrder
    <3>3. Len(log[r]) = 1
      <4>1. \A n \in Nat : n # 0 /\ ~(2 <= n) => n = 1
        OBVIOUS
      <4> QED
        BY <2>1, <3>2, <4>1
    <3> QED
      BY <2>2, <3>3, LifecycleFacts
  <2>3. CASE status = "CARRYING"
    <3>1. Len(log[r]) = 3
      BY <2>3, LatestByLength DEF PostRideStatus
    <3> QED
      BY <2>3, <3>1, LifecycleFacts
  <2> QED
    BY <2>2, <2>3
<1>4. dbAssign[r] # "none" /\ r \notin pending
  BY <1>1 DEF UpdateInv, PendingInv
<1>5. RequestInv'
  <2>1. ASSUME NEW p \in Requests, req'[p] # None
        PROVE  /\ chairOf[req'[p].ride] = req'[p].chair
               /\ Len(log[req'[p].ride]) \in 1 .. 4
               /\ req'[p].status = Lifecycle[Len(log[req'[p].ride]) + 1]
               /\ dbAssign[req'[p].ride] # "none"
               /\ req'[p].ride \notin pending
    <3>1. CASE p = q
      BY <3>1, <1>1, <1>2, <1>3, <1>4
    <3>2. CASE p # q
      BY <2>1, <3>2, <1>2 DEF RequestInv
    <3> QED
      BY <3>1, <3>2
  <2>2. ASSUME NEW p1 \in Requests, NEW p2 \in Requests,
               req'[p1] # None, req'[p2] # None, req'[p1].chair = req'[p2].chair
        PROVE  p1 = p2
    BY <2>2, <1>1, <1>2 DEF RequestInv
  <2>3. UNCHANGED <<chairOf, log, dbAssign, pending>>
    BY <1>1 DEF assignVars, matchVars
  <2> QED
    BY <2>1, <2>2, <2>3 DEF RequestInv
<1> QED
  BY <1>1, <1>5 DEF LifecycleOrder, WaitingUntilAssigned, FreeInv, NoneOrDone,
     Done, MovesOnInv, LatestInv, RideInv, PlanInv, PendingInv, UpdateInv,
     EvalInv, rideVars, sentVars, evalVars, matchVars, assignVars, chairVars

LEMMA PostCoordinateStep ==
  ASSUME IInv, ~Retries, NEW q \in Requests, NEW c \in Chairs, PostCoordinate(q, c)
  PROVE  CoreInv'
<1> USE DEF IInv, CoreInv
<1> DEFINE r == chairLatest[c]
<1>1. /\ req[q] = None /\ r \in Rides /\ chairOf[r] = c
      /\ \A p \in Requests : req[p] # None => req[p].chair # c
      /\ UNCHANGED <<rideVars, sentVars, evalVars, matchVars, assignVars,
                     chairVars, log>>
  BY DEF PostCoordinate, MayCall, TypeOK, LatestInv
<1>2. PICK status \in {"PICKUP", "ARRIVED"} :
        /\ LatestStatus(r) = IF status = "PICKUP" THEN "ENROUTE" ELSE "CARRYING"
        /\ req' = [req EXCEPT ![q] = [chair |-> c, ride |-> r, status |-> status]]
  BY DEF PostCoordinate
<1> DEFINE new == [chair |-> c, ride |-> r, status |-> status]
<1>3. /\ req'[q] = new /\ new.chair = c /\ new.ride = r /\ new.status = status
      /\ \A p \in Requests : p # q => req'[p] = req[p]
  BY <1>2 DEF TypeOK
<1>4. \/ status = "PICKUP" /\ Len(log[r]) = 2
      \/ status = "ARRIVED" /\ Len(log[r]) = 4
  BY <1>1, <1>2, LatestByLength
<1>5. Len(log[r]) \in 1 .. 4 /\ status = Lifecycle[Len(log[r]) + 1]
  <2>1. CASE status = "PICKUP" /\ Len(log[r]) = 2
    BY <2>1, LifecycleFacts
  <2>2. CASE status = "ARRIVED" /\ Len(log[r]) = 4
    BY <2>2, LifecycleFacts
  <2> QED
    BY <1>4, <2>1, <2>2
<1>6. dbAssign[r] # "none" /\ r \notin pending
  BY <1>1, <1>4 DEF UpdateInv, PendingInv
<1>7. RequestInv'
  <2>1. ASSUME NEW p \in Requests, req'[p] # None
        PROVE  /\ chairOf[req'[p].ride] = req'[p].chair
               /\ Len(log[req'[p].ride]) \in 1 .. 4
               /\ req'[p].status = Lifecycle[Len(log[req'[p].ride]) + 1]
               /\ dbAssign[req'[p].ride] # "none"
               /\ req'[p].ride \notin pending
    <3>1. CASE p = q
      BY <3>1, <1>1, <1>3, <1>5, <1>6
    <3>2. CASE p # q
      BY <2>1, <3>2, <1>3 DEF RequestInv
    <3> QED
      BY <3>1, <3>2
  <2>2. ASSUME NEW p1 \in Requests, NEW p2 \in Requests,
               req'[p1] # None, req'[p2] # None, req'[p1].chair = req'[p2].chair
        PROVE  p1 = p2
    BY <2>2, <1>1, <1>3 DEF RequestInv
  <2>3. UNCHANGED <<chairOf, log, dbAssign, pending>>
    BY <1>1 DEF assignVars, matchVars
  <2> QED
    BY <2>1, <2>2, <2>3 DEF RequestInv
<1> QED
  BY <1>1, <1>7 DEF LifecycleOrder, WaitingUntilAssigned, FreeInv, NoneOrDone,
     Done, MovesOnInv, LatestInv, RideInv, PlanInv, PendingInv, UpdateInv,
     EvalInv, rideVars, sentVars, evalVars, matchVars, assignVars, chairVars

(* A status recorded for a ride of a chair that is not Done: everything but
   the requests and the evaluations. *)
LEMMA GrowStep ==
  ASSUME IInv, NEW r \in Rides, chairOf[r] # None, rideUser[r] # None,
         dbAssign[r] # "none", r \notin pending,
         NEW s \in Status, Len(log[r]) \in 1 .. 5, s = Lifecycle[Len(log[r]) + 1],
         log' = [log EXCEPT ![r] = Append(@, s)],
         UNCHANGED <<rideVars, sentVars, matchVars, assignVars, chairVars>>
  PROVE  /\ LifecycleOrder' /\ WaitingUntilAssigned' /\ FreeInv' /\ MovesOnInv'
         /\ LatestInv' /\ RideInv' /\ PlanInv' /\ PendingInv' /\ UpdateInv'
<1> USE DEF IInv, CoreInv
<1>1. Len(log[r]) < 6 /\ Len(log[r]) \in Nat
  BY UpToFive, Zenon
<1>2. /\ LifecycleOrder' /\ Len(log'[r]) = Len(log[r]) + 1
      /\ \A t \in Rides : t # r => log'[t] = log[t]
  BY <1>1, LogGrows
<1>3. chairSent' = chairSent /\ chairSent[r] <= Len(log[r]) /\ chairSent[r] \in Nat
  BY DEF sentVars, RideInv, TypeOK
<1>4. ~Done(r) /\ ~Done(r)'
  <2>1. chairSent[r] # 6
    BY <1>1, <1>3
  <2> QED
    BY <2>1, <1>3 DEF Done
<1>5. \A t \in Rides : Done(t)' <=> Done(t)
  BY <1>2, <1>3, <1>4 DEF Done
<1>6. WaitingUntilAssigned'
  BY <1>2 DEF WaitingUntilAssigned, rideVars, assignVars
<1>7. FreeInv' /\ MovesOnInv' /\ LatestInv'
  BY <1>5 DEF FreeInv, NoneOrDone, MovesOnInv, LatestInv, assignVars, chairVars, TypeOK
<1>8. RideInv'
  <2>1. Len(log'[r]) > 0 /\ chairSent[r] <= Len(log'[r])
    BY <1>1, <1>2, <1>3
  <2> QED
    BY <1>2, <1>3, <2>1 DEF RideInv, rideVars, assignVars
<1>9. PlanInv'
  BY <1>5 DEF PlanInv, NoneOrDone, matchVars, assignVars, TypeOK
<1>10. PendingInv'
  BY <1>2, <1>3 DEF PendingInv, matchVars, TypeOK
<1>11. UpdateInv'
  BY <1>2, <1>3 DEF UpdateInv, matchVars, assignVars
<1> QED
  BY <1>2, <1>6, <1>7, <1>8, <1>9, <1>10, <1>11

LEMMA AddStatusStep ==
  ASSUME IInv, NEW q \in Requests, AddStatus(q)
  PROVE  CoreInv'
<1> USE DEF IInv, CoreInv
<1> DEFINE r == req[q].ride
<1>1. /\ req[q] # None
      /\ log' = [log EXCEPT ![r] = Append(@, req[q].status)]
      /\ req' = [req EXCEPT ![q] = None]
      /\ UNCHANGED <<rideVars, sentVars, evalVars, matchVars, assignVars, chairVars>>
  BY DEF AddStatus
<1>2. /\ r \in Rides /\ req[q].chair \in Chairs /\ req[q].status \in Status
      /\ chairOf[r] = req[q].chair /\ Len(log[r]) \in 1 .. 4
      /\ req[q].status = Lifecycle[Len(log[r]) + 1]
      /\ dbAssign[r] # "none" /\ r \notin pending
  BY <1>1, RequestType DEF RequestInv
<1>3. chairOf[r] # None /\ rideUser[r] # None
  BY <1>2, DispatchAssumption DEF RideInv
<1>4. Len(log[r]) \in 1 .. 5 /\ Len(log[r]) < 6 /\ Len(log[r]) \in Nat
  BY <1>2, UpToFour, Zenon
<1>5. /\ LifecycleOrder' /\ WaitingUntilAssigned' /\ FreeInv' /\ MovesOnInv'
      /\ LatestInv' /\ RideInv' /\ PlanInv' /\ PendingInv' /\ UpdateInv'
  BY <1>1, <1>2, <1>3, <1>4, GrowStep
<1>6. \A t \in Rides : t # r => log'[t] = log[t]
  BY <1>1, <1>2, <1>4, LogGrows
<1>7. RequestInv'
  <2>1. \A p \in Requests : req'[p] # None => req'[p] = req[p] /\ p # q
    BY <1>1 DEF TypeOK
  <2>2. \A p \in Requests : req'[p] # None => req[p].ride # r
    BY <2>1, <1>1, <1>2 DEF RequestInv
  <2>3. \A p \in Requests : req'[p] # None => log'[req[p].ride] = log[req[p].ride]
    BY <2>1, <2>2, <1>6, RequestType
  <2>4. UNCHANGED <<chairOf, dbAssign, pending>>
    BY <1>1 DEF assignVars, matchVars
  <2> QED
    BY <2>1, <2>3, <2>4 DEF RequestInv
<1>8. EvalInv'
  <2>1. Len(log[r]) # 5
    BY <1>2, UpToFour, Zenon
  <2> QED
    BY <1>1, <1>2, <1>6, <2>1 DEF EvalInv, evalVars, TypeOK
<1> QED
  BY <1>5, <1>7, <1>8

LEMMA BeginEvaluationStep ==
  ASSUME IInv, NEW r \in Rides, BeginEvaluation(r)
  PROVE  CoreInv'
<1> USE DEF IInv, CoreInv
<1>1. /\ r \notin completing /\ completing' = completing \cup {r}
      /\ evals' = [evals EXCEPT ![r] = @ + 1]
      /\ UNCHANGED <<rideVars, sentVars, stats, matchVars, assignVars, chairVars,
                     log, req>>
  BY DEF BeginEvaluation
<1>2. Len(log[r]) = 5
  BY LatestByLength DEF BeginEvaluation
<1>3. EvalInv'
  <2>1. evals[r] = 0
    BY <1>1 DEF EvalInv, TypeOK
  <2> QED
    BY <1>1, <1>2, <2>1 DEF EvalInv, TypeOK
<1> QED
  BY <1>1, <1>3 DEF LifecycleOrder, WaitingUntilAssigned, FreeInv, NoneOrDone,
     Done, MovesOnInv, LatestInv, RideInv, PlanInv, PendingInv, UpdateInv,
     RequestInv, rideVars, sentVars, matchVars, assignVars, chairVars

LEMMA AbortEvaluationStep ==
  ASSUME IInv, NEW r \in Rides, AbortEvaluation(r)
  PROVE  CoreInv'
<1> USE DEF IInv, CoreInv
<1>1. /\ evals[r] > 0 /\ completing' = completing \ {r}
      /\ evals' = [evals EXCEPT ![r] = @ - 1]
      /\ UNCHANGED <<rideVars, sentVars, stats, matchVars, assignVars, chairVars,
                     log, req>>
  BY DEF AbortEvaluation
<1>2. EvalInv'
  <2>1. evals'[r] = 0
    BY <1>1 DEF EvalInv, TypeOK
  <2> QED
    BY <1>1, <2>1 DEF EvalInv, TypeOK
<1> QED
  BY <1>1, <1>2 DEF LifecycleOrder, WaitingUntilAssigned, FreeInv, NoneOrDone,
     Done, MovesOnInv, LatestInv, RideInv, PlanInv, PendingInv, UpdateInv,
     RequestInv, rideVars, sentVars, matchVars, assignVars, chairVars

LEMMA CompleteStep ==
  ASSUME IInv, NEW r \in Rides, Complete(r)
  PROVE  CoreInv'
<1> USE DEF IInv, CoreInv
<1>1. /\ evals[r] > 0 /\ evals' = [evals EXCEPT ![r] = @ - 1]
      /\ log' = [log EXCEPT ![r] = Append(@, "COMPLETED")]
      /\ UNCHANGED <<rideVars, sentVars, completing, matchVars, assignVars,
                     chairVars, req>>
  BY DEF Complete
<1>2. Len(log[r]) = 5 /\ r \in completing /\ evals[r] = 1
  BY <1>1 DEF EvalInv, TypeOK
<1>3. chairOf[r] # None /\ rideUser[r] # None /\ dbAssign[r] # "none" /\ r \notin pending
  <2>1. /\ Len(log[r]) > 1 /\ ~(Len(log[r]) <= 1)
        /\ Len(log[r]) # 1 /\ Len(log[r]) # 0
    BY <1>2, FiveFacts, Zenon
  <2>2. chairOf[r] # None /\ rideUser[r] # None
    BY <2>1, Zenon DEF WaitingUntilAssigned, RideInv
  <2>3. dbAssign[r] # "none" /\ r \notin pending
    BY <2>1, Zenon DEF UpdateInv, PendingInv
  <2> QED
    BY <2>2, <2>3
<1>4. /\ "COMPLETED" \in Status /\ "COMPLETED" = Lifecycle[Len(log[r]) + 1]
      /\ Len(log[r]) \in 1 .. 5 /\ Len(log[r]) < 6
  BY <1>2, LifecycleFacts DEF Status
<1>5. /\ LifecycleOrder' /\ WaitingUntilAssigned' /\ FreeInv' /\ MovesOnInv'
      /\ LatestInv' /\ RideInv' /\ PlanInv' /\ PendingInv' /\ UpdateInv'
  BY <1>1, <1>3, <1>4, GrowStep
<1>6. \A t \in Rides : t # r => log'[t] = log[t]
  BY <1>1, <1>4, LogGrows
<1>7. RequestInv'
  <2>1. \A p \in Requests : req[p] # None => req[p].ride \in Rides /\ req[p].ride # r
    <3>1. Len(log[r]) \notin 1 .. 4
      BY <1>2, FiveFacts, Zenon
    <3> QED
      BY <3>1, RequestType DEF RequestInv
  <2> QED
    BY <1>1, <1>6, <2>1 DEF RequestInv, assignVars, matchVars
<1>8. EvalInv'
  BY <1>1, <1>2, <1>6 DEF EvalInv, TypeOK
<1> QED
  BY <1>5, <1>7, <1>8

(* IInv is inductive when no client repeats or overlaps its calls. *)
LEMMA CoreStep == ASSUME ~Retries, IInv, [Next]_vars PROVE IInv'
<1>1. TypeOK'
  BY TypeStep DEF IInv
<1>2. CoreInv'
  BY StutterStep, PostRideCheckStep, AddRideStep, PostRideAbortStep,
     BeginEvaluationStep, CompleteStep, AbortEvaluationStep, AppNotifyStep,
     MatcherSnapshotStep, MatcherAssignStep, MatcherUpdateStep,
     MatcherFinishStep, ChairNotifyStep, SetActiveStep, PostRideStatusStep,
     PostCoordinateStep, AddStatusStep
     DEF Next, UserNext, MatcherNext, ChairNext
<1> QED
  BY <1>1, <1>2 DEF IInv

LEMMA CoreInit == Init => IInv
<1> SUFFICES ASSUME Init PROVE IInv
  OBVIOUS
<1>1. TypeOK
  <2>1. <<>> \in Seq(Status)
    OBVIOUS
  <2> QED
    BY <2>1, DispatchAssumption DEF Init, TypeOK, NoPlan
<1>2. \A r \in Rides : Len(log[r]) = 0 /\ plan[r] = None
  BY DEF Init, NoPlan
<1>3. LifecycleOrder
  BY <1>2, LifecycleFacts DEF LifecycleOrder
<1> QED
  BY <1>1, <1>2, <1>3 DEF Init, IInv, CoreInv, WaitingUntilAssigned, FreeInv,
     NoneOrDone, MovesOnInv, LatestInv, RideInv, PlanInv, PendingInv, UpdateInv,
     RequestInv, EvalInv

LEMMA CoreCorrect == ASSUME ~Retries PROVE Spec => []IInv
<1>1. Init => IInv
  BY CoreInit
<1>2. IInv /\ [Next]_vars => IInv'
  BY CoreStep
<1> QED
  BY <1>1, <1>2, PTL DEF Spec

-----------------------------------------------------------------------------
(* Every ride goes through the life cycle of the manual in order, for every
   number of users, chairs and handlers, if clients do not repeat calls. *)
THEOREM LifecycleCorrect == ASSUME ~Retries PROVE Spec => []LifecycleOrder
<1>1. IInv => LifecycleOrder
  BY DEF IInv, CoreInv
<1> QED
  BY <1>1, CoreCorrect, PTL

(* freeChairs is exactly the set of active chairs without a ride to serve, and
   rides are neither lost between the lists nor moved without a chair. *)
THEOREM ListsCorrect == ASSUME ~Retries PROVE Spec => []ListsAreRight
<1>1. IInv => ListsAreRight
  <2> SUFFICES ASSUME IInv PROVE ListsAreRight
    OBVIOUS
  <2>1. \A c \in Chairs : ChairIdle(c) <=> NoneOrDone(c)
    BY LatestByLength DEF IInv, CoreInv, ChairIdle, NoneOrDone, TypeOK
  <2>2. FreeIffIdle
    BY <2>1 DEF IInv, CoreInv, FreeInv, FreeIffIdle
  <2> QED
    BY <2>2 DEF IInv, CoreInv, ListsAreRight
<1> QED
  BY <1>1, CoreCorrect, PTL

(* A chair has at most one ride it has not been told the end of. *)
THEOREM ChairMovesOnCorrect == ASSUME ~Retries PROVE Spec => []ChairMovesOnWhenTold
<1>1. IInv => ChairMovesOnWhenTold
  BY LatestByLength DEF IInv, CoreInv, MovesOnInv, ChairMovesOnWhenTold
<1> QED
  BY <1>1, CoreCorrect, PTL

(* The matcher's plans survive the time between its two locks. *)
THEOREM PlansCorrect == ASSUME ~Retries PROVE Spec => []PlansStayValid
<1>1. IInv => PlansStayValid
  <2> SUFFICES ASSUME IInv, mpc = "planned", NEW r \in Planned
               PROVE  r \in waiting /\ ChairIdle(plan[r])
    BY DEF PlansStayValid
  <2>1. r \in Rides /\ r \in waiting /\ NoneOrDone(plan[r]) /\ plan[r] \in Chairs
    BY DispatchAssumption DEF IInv, CoreInv, PlanInv, Planned, TypeOK
  <2> QED
    BY <2>1, LatestByLength DEF IInv, CoreInv, ChairIdle, NoneOrDone, TypeOK
<1> QED
  BY <1>1, CoreCorrect, PTL

(* No chair hears of an assignment before the database does. *)
THEOREM ToldAfterUpdateCorrect == ASSUME ~Retries PROVE Spec => []ToldAfterUpdate
<1>1. IInv => ToldAfterUpdate
  BY DEF IInv, CoreInv, UpdateInv, ToldAfterUpdate
<1> QED
  BY <1>1, CoreCorrect, PTL

(***************************************************************************)
(* The refinement: a step that records or sends no status and assigns no   *)
(* chair stutters; each of the others is one action of the contract.       *)
(***************************************************************************)

LEMMA RefinesInit == Init => Contract!ContractInit
BY DEF Init, Contract!ContractInit, phaseOf, releasedRides, Released, LatestStatus

LEMMA ContractStutters ==
  ASSUME UNCHANGED <<log, chairSent, chairOf>>
  PROVE  UNCHANGED <<phaseOf, chairOf, releasedRides>>
BY DEF phaseOf, releasedRides, Released, LatestStatus

(* addRide is a request of the contract. *)
LEMMA RequestRefines ==
  ASSUME IInv, NEW r \in Rides, AddRide(r)
  PROVE  Contract!RequestRide(r)
<1>1. /\ log' = [log EXCEPT ![r] = <<"MATCHING">>]
      /\ UNCHANGED <<chairOf, chairSent>>
      /\ log \in [Rides -> Seq(Status)]
  BY DEF AddRide, IInv, TypeOK, sentVars
<1>2. Len(log[r]) = 0
  BY DEF AddRide, IInv, CoreInv, RideInv
<1>3. \A s \in Rides : LatestStatus(s)' = IF s = r THEN "MATCHING" ELSE LatestStatus(s)
  <2>1. log'[r] = <<"MATCHING">> /\ \A s \in Rides : s # r => log'[s] = log[s]
    BY <1>1
  <2>2. LatestStatus(r)' = "MATCHING"
    BY <2>1 DEF LatestStatus
  <2>3. \A s \in Rides : s # r => LatestStatus(s)' = LatestStatus(s)
    BY <2>1, Zenon DEF LatestStatus
  <2> QED
    BY <2>2, <2>3
<1>4. LatestStatus(r) = ""
  BY <1>2 DEF LatestStatus
<1>5. \A s \in Rides : Released(s)' <=> Released(s)
  BY <1>1, <1>3, <1>4 DEF Released
<1> QED
  BY <1>1, <1>3, <1>4, <1>5 DEF Contract!RequestRide, phaseOf, releasedRides

(* assignChairs is a round of matching: the planned rides wait, and their chairs
   have been released from every ride they served. *)
LEMMA MatchRefines ==
  ASSUME IInv, MatcherAssign
  PROVE  Contract!MatchRound
<1>1. /\ chairOf' = [r \in Rides |-> IF plan[r] # None THEN plan[r] ELSE chairOf[r]]
      /\ UNCHANGED <<log, chairSent>> /\ mpc = "planned"
      /\ chairOf \in [Rides -> Chairs \cup {None}]
      /\ plan \in [Rides -> Chairs \cup {None}]
  BY DEF MatcherAssign, IInv, TypeOK, sentVars
<1>2. UNCHANGED <<phaseOf, releasedRides>>
  BY <1>1 DEF phaseOf, releasedRides, Released, LatestStatus
<1>3. ASSUME NEW r \in Rides, chairOf'[r] # chairOf[r]
      PROVE  /\ phaseOf[r] = "MATCHING" /\ chairOf[r] = None
             /\ chairOf'[r] \in Chairs /\ Contract!Idle(chairOf'[r])
             /\ \A s \in Rides :
                  chairOf'[s] = chairOf'[r] /\ chairOf'[s] # chairOf[s] => s = r
  <2>1. plan[r] # None /\ chairOf'[r] = plan[r] /\ plan[r] \in Chairs
    BY <1>1, <1>3
  <2>2. r \in waiting /\ NoneOrDone(plan[r])
    BY <1>1, <2>1 DEF IInv, CoreInv, PlanInv
  <2>3. chairOf[r] = None /\ Len(log[r]) = 1
    <3>1. /\ rideUser[r] # None /\ chairOf[r] = None /\ Len(log[r]) <= 1
          /\ Len(log[r]) > 0 /\ Len(log[r]) \in Nat
      BY <2>2 DEF IInv, CoreInv, WaitingUntilAssigned, RideInv, TypeOK
    <3> QED
      BY <3>1, OneIsBetween
  <2>4. phaseOf[r] = "MATCHING"
    BY <2>3, LatestByLength DEF IInv, CoreInv, phaseOf
  <2>5. Contract!Idle(plan[r])
    <3> SUFFICES ASSUME NEW s \in Rides, chairOf[s] = plan[r] PROVE Done(s)
      BY LatestByLength DEF Contract!Idle, releasedRides, IInv, CoreInv
    <3>1. CASE chairLatest[plan[r]] = s
      BY <2>2, <3>1, DispatchAssumption DEF NoneOrDone
    <3>2. CASE chairLatest[plan[r]] # s
      BY <2>1, <3>2 DEF IInv, CoreInv, MovesOnInv
    <3> QED
      BY <3>1, <3>2
  <2>6. \A s \in Rides : chairOf'[s] = chairOf'[r] /\ chairOf'[s] # chairOf[s] => s = r
    BY <1>1, <2>1 DEF IInv, CoreInv, PlanInv
  <2> QED
    BY <2>1, <2>3, <2>4, <2>5, <2>6
<1>4. chairOf' \in [Rides -> Chairs \cup {None}]
  BY <1>1
<1> QED
  BY <1>2, <1>3, <1>4, Zenon DEF Contract!MatchRound

(* A chair that is sent the last status is released; other notices stutter. *)
LEMMA NotifyRefines ==
  ASSUME IInv, NEW c \in Chairs, ChairNotify(c), NEW r \in Rides, r = chairLatest[c]
  PROVE  Contract!Release(r) \/ UNCHANGED <<phaseOf, chairOf, releasedRides>>
<1>1. /\ r \in Rides /\ UNCHANGED <<log, chairOf>>
      /\ chairSent[r] < Len(log[r])
      /\ chairSent' = [chairSent EXCEPT ![r] = @ + 1]
      /\ chairSent \in [Rides -> Nat] /\ Len(log[r]) \in Nat
  BY DEF ChairNotify, IInv, TypeOK, assignVars
<1>2. UNCHANGED phaseOf
  BY <1>1 DEF phaseOf, LatestStatus
<1>3. \A s \in Rides : s # r => (Released(s)' <=> Released(s))
  <2>1. \A s \in Rides : s # r => chairSent'[s] = chairSent[s]
    BY <1>1
  <2> QED
    BY <1>1, <2>1, Zenon DEF Released, LatestStatus
<1>4. ~Released(r)
  BY <1>1 DEF Released
<1>5. CASE Released(r)'
  <2>1. releasedRides' = releasedRides \cup {r}
    BY <1>1, <1>3, <1>5 DEF releasedRides
  <2>2. phaseOf[r] = "COMPLETED"
    BY <1>1, <1>5 DEF phaseOf, Released, LatestStatus
  <2> QED
    BY <1>1, <1>2, <2>1, <2>2 DEF Contract!Release
<1>6. CASE ~Released(r)'
  BY <1>1, <1>2, <1>3, <1>4, <1>6 DEF releasedRides
<1> QED
  BY <1>5, <1>6

(* The state diagram of the contract and the order of the statuses agree. *)
LEMMA NextIsNext ==
  ASSUME NEW n \in {1, 2, 3, 4, 5}
  PROVE  /\ Lifecycle[n + 1] \in Status
         /\ Lifecycle[n] \in DOMAIN Contract!NextPhase
         /\ Contract!NextPhase[Lifecycle[n]] = Lifecycle[n + 1]
<1>1. DOMAIN Contract!NextPhase = {"MATCHING", "ENROUTE", "PICKUP", "CARRYING", "ARRIVED"}
  BY DEF Contract!NextPhase
<1>2. /\ Contract!NextPhase["MATCHING"] = "ENROUTE"
      /\ Contract!NextPhase["ENROUTE"] = "PICKUP"
      /\ Contract!NextPhase["PICKUP"] = "CARRYING"
      /\ Contract!NextPhase["CARRYING"] = "ARRIVED"
      /\ Contract!NextPhase["ARRIVED"] = "COMPLETED"
  BY DEF Contract!NextPhase
<1>3. /\ 1 + 1 = 2 /\ 2 + 1 = 3 /\ 3 + 1 = 4 /\ 4 + 1 = 5 /\ 5 + 1 = 6
  OBVIOUS
<1> QED
  BY <1>1, <1>2, <1>3, LifecycleFacts, Zenon DEF Status

(* A ride with a chair takes the next status and is not released by that. *)
LEMMA GrowRefines ==
  ASSUME IInv, NEW r \in Rides, chairOf[r] # None, Len(log[r]) \in 1 .. 5,
         log' = [log EXCEPT ![r] = Append(@, Lifecycle[Len(log[r]) + 1])],
         UNCHANGED <<chairOf, chairSent>>
  PROVE  Contract!Advance(r)
<1> DEFINE n == Len(log[r])
<1>0. TypeOK /\ LifecycleOrder /\ n \in Nat /\ n < 6
  BY UpToFive DEF IInv, CoreInv
<1>6. n \in {1, 2, 3, 4, 5}
  OBVIOUS
<1>1. Lifecycle[n + 1] \in Status
  BY <1>6, NextIsNext
<1>2. /\ LifecycleOrder' /\ Len(log'[r]) = n + 1
      /\ \A t \in Rides : t # r => log'[t] = log[t]
  BY <1>0, <1>1, LogGrows
<1>3. log'[r] = Append(log[r], Lifecycle[n + 1]) /\ log[r] \in Seq(Status)
  BY <1>0 DEF TypeOK
<1>4. LatestStatus(r)' = Lifecycle[n + 1]
  <2>1. log'[r][n + 1] = Lifecycle[n + 1] /\ n + 1 # 0
    <3>1. n + 1 \in 1 .. (n + 1) /\ n + 1 # 0
      BY <1>0
    <3> QED
      BY <1>2, <3>1 DEF LifecycleOrder
  <2> QED
    BY <1>2, <2>1 DEF LatestStatus
<1>5. LatestStatus(r) = Lifecycle[n]
  <2>1. log[r][n] = Lifecycle[n] /\ n # 0
    <3>1. n \in 1 .. n /\ n # 0
      BY SMTT(30), <1>6
    <3> QED
      BY <1>0, <3>1 DEF LifecycleOrder
  <2> QED
    BY <2>1 DEF LatestStatus
<1>7. /\ Lifecycle[n] \in DOMAIN Contract!NextPhase
      /\ Contract!NextPhase[Lifecycle[n]] = Lifecycle[n + 1]
  BY <1>6, NextIsNext
<1>8. phaseOf' = [phaseOf EXCEPT ![r] = Contract!NextPhase[@]]
  <2>1. \A t \in Rides : t # r => LatestStatus(t)' = LatestStatus(t)
    BY <1>2 DEF LatestStatus
  <2> QED
    BY <2>1, <1>4, <1>5, <1>7 DEF phaseOf
<1>9. \A t \in Rides : Released(t)' <=> Released(t)
  <2>1. \A t \in Rides : t # r => (Released(t)' <=> Released(t))
    BY <1>2 DEF Released, LatestStatus
  <2>2. chairSent[r] <= n /\ chairSent[r] \in Nat
    BY DEF IInv, CoreInv, RideInv, TypeOK
  <2>3. ~Released(r)'
    BY <1>2, <2>2 DEF Released
  <2>4. ~Released(r)
    BY <1>5, <1>6, LifecycleFacts DEF Released
  <2> QED
    BY <2>1, <2>3, <2>4
<1>10. phaseOf[r] \in DOMAIN Contract!NextPhase
  BY <1>5, <1>7 DEF phaseOf
<1> QED
  BY <1>8, <1>9, <1>10 DEF Contract!Advance, releasedRides

LEMMA AddStatusRefines ==
  ASSUME IInv, NEW q \in Requests, AddStatus(q)
  PROVE  Contract!Advance(req[q].ride)
<1>1. /\ req[q] # None /\ UNCHANGED <<chairOf, chairSent>>
      /\ log' = [log EXCEPT ![req[q].ride] = Append(@, req[q].status)]
  BY DEF AddStatus, sentVars, assignVars
<1>2. req[q].ride \in Rides /\ req[q].chair \in Chairs
  BY <1>1, RequestType DEF IInv
<1>3. /\ chairOf[req[q].ride] = req[q].chair
      /\ Len(log[req[q].ride]) \in 1 .. 4
      /\ req[q].status = Lifecycle[Len(log[req[q].ride]) + 1]
  BY <1>1 DEF IInv, CoreInv, RequestInv
<1>4. chairOf[req[q].ride] # None /\ Len(log[req[q].ride]) \in 1 .. 5
  BY <1>2, <1>3, UpToFour, DispatchAssumption
<1>5. log' = [log EXCEPT ![req[q].ride] =
                Append(@, Lifecycle[Len(log[req[q].ride]) + 1])]
  BY <1>1, <1>3
<1> QED
  BY <1>1, <1>2, <1>4, <1>5, GrowRefines

LEMMA CompleteRefines ==
  ASSUME IInv, NEW r \in Rides, Complete(r)
  PROVE  Contract!Advance(r)
<1>1. /\ evals[r] > 0 /\ UNCHANGED <<chairOf, chairSent>>
      /\ log' = [log EXCEPT ![r] = Append(@, "COMPLETED")]
  BY DEF Complete, sentVars, assignVars
<1>2. Len(log[r]) = 5
  BY <1>1 DEF IInv, CoreInv, EvalInv
<1>3. chairOf[r] # None /\ Len(log[r]) \in 1 .. 5
  BY SMTT(30), <1>2, FiveFacts DEF IInv, CoreInv, WaitingUntilAssigned
<1>4. Lifecycle[Len(log[r]) + 1] = "COMPLETED"
  <2>1. \A n : n = 5 => n + 1 = 6
    OBVIOUS
  <2> QED
    BY <1>2, <2>1, LifecycleFacts
<1> QED
  BY <1>1, <1>3, <1>4, GrowRefines

LEMMA RefinesStep ==
  ASSUME IInv, [Next]_vars
  PROVE  [Contract!ContractNext]_<<phaseOf, chairOf, releasedRides>>
<1> USE ContractStutters
<1>1. CASE UNCHANGED vars
  BY <1>1 DEF vars, sentVars, assignVars
<1>2. CASE UserNext
  <2>1. ASSUME NEW u \in Users, NEW r \in Rides, PostRideCheck(u, r)
        PROVE  UNCHANGED <<log, chairSent, chairOf>>
    BY <2>1 DEF PostRideCheck, sentVars, assignVars
  <2>2. ASSUME NEW r \in Rides, PostRideAbort(r) \/ BeginEvaluation(r) \/ AbortEvaluation(r)
        PROVE  UNCHANGED <<log, chairSent, chairOf>>
    BY <2>2 DEF PostRideAbort, BeginEvaluation, AbortEvaluation, sentVars, assignVars
  <2>3. ASSUME NEW u \in Users, AppNotify(u)
        PROVE  UNCHANGED <<log, chairSent, chairOf>>
    BY <2>3 DEF AppNotify, assignVars
  <2> QED
    BY <1>2, <2>1, <2>2, <2>3, RequestRefines, CompleteRefines
       DEF UserNext, Contract!ContractNext
<1>3. CASE MatcherNext
  <2>1. ASSUME MatcherSnapshot \/ MatcherFinish
        PROVE  UNCHANGED <<log, chairSent, chairOf>>
    BY <2>1 DEF MatcherSnapshot, MatcherFinish, sentVars, assignVars
  <2>2. ASSUME NEW outcome \in {"stored", "failed"}, MatcherUpdate(outcome)
        PROVE  UNCHANGED <<log, chairSent, chairOf>>
    BY <2>2 DEF MatcherUpdate, sentVars, assignVars
  <2> QED
    BY <1>3, <2>1, <2>2, MatchRefines DEF MatcherNext, Contract!ContractNext
<1>4. CASE ChairNext
  <2>1. ASSUME NEW c \in Chairs, NEW on \in BOOLEAN, SetActive(c, on)
        PROVE  UNCHANGED <<log, chairSent, chairOf>>
    BY <2>1 DEF SetActive, sentVars, assignVars
  <2>2. ASSUME NEW q \in Requests, NEW c \in Chairs, NEW r \in Rides,
               NEW status \in {"ENROUTE", "CARRYING"}, PostRideStatus(q, c, r, status)
        PROVE  UNCHANGED <<log, chairSent, chairOf>>
    BY <2>2 DEF PostRideStatus, sentVars, assignVars
  <2>3. ASSUME NEW q \in Requests, NEW c \in Chairs, PostCoordinate(q, c)
        PROVE  UNCHANGED <<log, chairSent, chairOf>>
    BY <2>3 DEF PostCoordinate, sentVars, assignVars
  <2>4. ASSUME NEW c \in Chairs, ChairNotify(c)
        PROVE  [Contract!ContractNext]_<<phaseOf, chairOf, releasedRides>>
    <3>1. chairLatest[c] \in Rides
      BY <2>4 DEF ChairNotify, IInv, TypeOK
    <3> QED
      BY <2>4, <3>1, NotifyRefines DEF Contract!ContractNext
  <2>5. ASSUME NEW q \in Requests, AddStatus(q)
        PROVE  Contract!ContractNext
    <3>1. req[q].ride \in Rides
      BY <2>5, RequestType DEF AddStatus, IInv
    <3> QED
      BY <2>5, <3>1, AddStatusRefines DEF Contract!ContractNext
  <2> QED
    BY <1>4, <2>1, <2>2, <2>3, <2>4, <2>5 DEF ChairNext
<1> QED
  BY <1>1, <1>2, <1>3, <1>4 DEF Next

(* The dispatcher implements RideContract if clients do not repeat calls: rides
   go through the state diagram, and a chair serves one ride at a time. *)
THEOREM ContractCorrect == ASSUME ~Retries PROVE Spec => KeepsContract
<1>1. Init => Contract!ContractInit
  BY RefinesInit
<1>2. IInv /\ [Next]_vars => [Contract!ContractNext]_<<phaseOf, chairOf, releasedRides>>
  BY RefinesStep
<1> QED
  BY <1>1, <1>2, CoreCorrect, PTL
     DEF Spec, KeepsContract, Contract!ContractSpec, Contract!contractVars

-----------------------------------------------------------------------------
(***************************************************************************)
(* The statistics.  The invariant also says that the completed rides of a  *)
(* chair are finite in number, as Rides need not be.                       *)
(***************************************************************************)
Completed(c) == {r \in Rides : chairOf[r] = c /\ LatestStatus(r) = "COMPLETED"}

StatsInv ==
  \A c \in Chairs : IsFiniteSet(Completed(c)) /\ stats[c] = Cardinality(Completed(c))

(* A step after which the same rides are completed, and counted. *)
LEMMA StatsStay ==
  ASSUME StatsInv, UNCHANGED stats, \A c \in Chairs : Completed(c)' = Completed(c)
  PROVE  StatsInv'
BY Zenon DEF StatsInv

LEMMA StatsStutter ==
  ASSUME StatsInv, UNCHANGED <<log, chairOf, stats>>
  PROVE  StatsInv'
<1>1. \A c \in Chairs : Completed(c)' = Completed(c)
  BY DEF Completed, LatestStatus
<1> QED
  BY <1>1, StatsStay

(* A ride becomes COMPLETED only in Complete. *)
LEMMA StatsGrowing ==
  ASSUME StatsInv, NEW r \in Rides, UNCHANGED <<chairOf, stats>>,
         \A s \in Rides : s # r => log'[s] = log[s],
         LatestStatus(r) # "COMPLETED", LatestStatus(r)' # "COMPLETED"
  PROVE  StatsInv'
<1>1. \A s \in Rides : s # r => LatestStatus(s)' = LatestStatus(s)
  BY Zenon DEF LatestStatus
<1>2. \A c \in Chairs : Completed(c)' = Completed(c)
  BY <1>1 DEF Completed
<1> QED
  BY <1>2, StatsStay

LEMMA StatsAddRide ==
  ASSUME IInv, StatsInv, NEW r \in Rides, AddRide(r)
  PROVE  StatsInv'
<1>1. /\ UNCHANGED <<chairOf, stats>>
      /\ log' = [log EXCEPT ![r] = <<"MATCHING">>] /\ log \in [Rides -> Seq(Status)]
  BY DEF AddRide, evalVars, IInv, TypeOK
<1>2. Len(log[r]) = 0
  BY DEF AddRide, IInv, CoreInv, RideInv
<1>3. log'[r] = <<"MATCHING">> /\ \A s \in Rides : s # r => log'[s] = log[s]
  BY <1>1
<1>4. LatestStatus(r) # "COMPLETED" /\ LatestStatus(r)' # "COMPLETED"
  BY <1>2, <1>3 DEF LatestStatus
<1> QED
  BY <1>1, <1>3, <1>4, StatsGrowing

LEMMA NotTheLast ==
  ASSUME NEW n \in 1 .. 4
  PROVE  n \in Nat /\ n < 6 /\ n # 6 /\ Lifecycle[n + 1] # "COMPLETED"
<1>1. n \in {1, 2, 3, 4}
  OBVIOUS
<1>2. 1 + 1 = 2 /\ 2 + 1 = 3 /\ 3 + 1 = 4 /\ 4 + 1 = 5
  OBVIOUS
<1>3. Lifecycle[n + 1] # "COMPLETED"
  BY <1>1, <1>2, LifecycleFacts
<1> QED
  BY <1>1, <1>3

LEMMA StatsAddStatus ==
  ASSUME IInv, StatsInv, NEW q \in Requests, AddStatus(q)
  PROVE  StatsInv'
<1>1. PICK r \in Rides : r = req[q].ride
  BY RequestType DEF AddStatus, IInv
<1>2. /\ UNCHANGED <<chairOf, stats>> /\ req[q] # None
      /\ log' = [log EXCEPT ![r] = Append(@, req[q].status)]
      /\ log \in [Rides -> Seq(Status)]
  BY <1>1 DEF AddStatus, evalVars, assignVars, IInv, TypeOK
<1>3. Len(log[r]) \in 1 .. 4 /\ req[q].status = Lifecycle[Len(log[r]) + 1]
  BY <1>1, <1>2 DEF IInv, CoreInv, RequestInv
<1>4. /\ Len(log[r]) < 6 /\ Len(log[r]) \in Nat /\ Len(log[r]) # 6
      /\ req[q].status # "COMPLETED"
  BY <1>3, NotTheLast
<1>5. req[q].status \in Status
  BY <1>2, RequestType DEF IInv
<1>6. /\ LifecycleOrder' /\ Len(log'[r]) = Len(log[r]) + 1
      /\ \A s \in Rides : s # r => log'[s] = log[s]
  BY <1>2, <1>3, <1>4, <1>5, LogGrows DEF IInv, CoreInv
<1>7. LatestStatus(r) # "COMPLETED"
  BY <1>4, LatestByLength DEF IInv, CoreInv
<1>8. LatestStatus(r)' # "COMPLETED"
  <2>1. log'[r] = Append(log[r], req[q].status) /\ log[r] \in Seq(Status)
    BY <1>2
  <2>2. /\ Len(log'[r]) # 0 /\ log'[r][Len(log'[r])] = req[q].status
    BY <2>1, <1>4, <1>6
  <2> QED
    BY <2>2, <1>4 DEF LatestStatus
<1> QED
  BY <1>2, <1>6, <1>7, <1>8, StatsGrowing

LEMMA StatsAssign ==
  ASSUME IInv, StatsInv, MatcherAssign
  PROVE  StatsInv'
<1>1. /\ chairOf' = [r \in Rides |-> IF plan[r] # None THEN plan[r] ELSE chairOf[r]]
      /\ UNCHANGED <<log, stats>> /\ mpc = "planned"
  BY DEF MatcherAssign, evalVars
<1>2. ASSUME NEW r \in Rides, plan[r] # None PROVE LatestStatus(r) # "COMPLETED"
  <2>1. r \in waiting
    BY <1>1, <1>2 DEF IInv, CoreInv, PlanInv
  <2>2. Len(log[r]) <= 1
    BY <2>1 DEF IInv, CoreInv, WaitingUntilAssigned
  <2>3. Len(log[r]) # 6
    BY SMTT(30), <2>2
  <2> QED
    BY <2>3, LatestByLength DEF IInv, CoreInv
<1>3. \A r \in Rides : LatestStatus(r)' = LatestStatus(r)
  BY <1>1 DEF LatestStatus
<1>4. \A c \in Chairs : Completed(c)' = Completed(c)
  BY <1>1, <1>2, <1>3 DEF Completed
<1> QED
  BY <1>1, <1>4, StatsStay

LEMMA StatsComplete ==
  ASSUME IInv, StatsInv, NEW r \in Rides, Complete(r)
  PROVE  StatsInv'
<1>1. /\ evals[r] > 0 /\ UNCHANGED chairOf
      /\ log' = [log EXCEPT ![r] = Append(@, "COMPLETED")]
      /\ log \in [Rides -> Seq(Status)]
      /\ stats' = [stats EXCEPT ![chairOf[r]] = @ + 1] /\ stats \in [Chairs -> Nat]
  BY DEF Complete, assignVars, IInv, TypeOK
<1>2. Len(log[r]) = 5
  BY <1>1 DEF IInv, CoreInv, EvalInv
<1>3. chairOf[r] \in Chairs
  BY <1>2, FiveFacts DEF IInv, CoreInv, WaitingUntilAssigned, TypeOK
<1>4. LatestStatus(r) # "COMPLETED"
  <2>1. Len(log[r]) # 6
    BY <1>2
  <2> QED
    BY <2>1, LatestByLength DEF IInv, CoreInv
<1>5. log'[r] = Append(log[r], "COMPLETED") /\ \A s \in Rides : s # r => log'[s] = log[s]
  BY <1>1
<1>6. LatestStatus(r)' = "COMPLETED"
  <2>1. log[r] \in Seq(Status) /\ "COMPLETED" \in Status
    BY <1>1 DEF Status
  <2> QED
    BY <2>1, <1>5 DEF LatestStatus
<1>7. \A s \in Rides : s # r => LatestStatus(s)' = LatestStatus(s)
  BY <1>5, Zenon DEF LatestStatus
<1>8. ASSUME NEW c \in Chairs
      PROVE  IsFiniteSet(Completed(c)') /\ stats'[c] = Cardinality(Completed(c)')
  <2>1. IsFiniteSet(Completed(c)) /\ stats[c] = Cardinality(Completed(c))
    BY DEF StatsInv
  <2>2. CASE c = chairOf[r]
    <3>1. Completed(c)' = Completed(c) \cup {r} /\ r \notin Completed(c)
      BY <1>1, <1>4, <1>6, <1>7, <2>2 DEF Completed
    <3>2. stats'[c] = stats[c] + 1
      BY <1>1, <2>2
    <3> QED
      BY <2>1, <3>1, <3>2, FS_AddElement
  <2>3. CASE c # chairOf[r]
    <3>1. Completed(c)' = Completed(c)
      BY <1>1, <1>7, <2>3 DEF Completed
    <3>2. stats'[c] = stats[c]
      BY <1>1, <2>3
    <3> QED
      BY <2>1, <3>1, <3>2
  <2> QED
    BY <2>2, <2>3
<1> QED
  BY <1>8 DEF StatsInv

LEMMA StatsStep == ASSUME IInv, StatsInv, [Next]_vars PROVE StatsInv'
<1> USE StatsStutter
<1>1. CASE UNCHANGED vars
  BY <1>1 DEF vars, evalVars, assignVars
<1>2. CASE UserNext
  <2>1. ASSUME NEW u \in Users, NEW r \in Rides, PostRideCheck(u, r) PROVE StatsInv'
    BY <2>1 DEF PostRideCheck, evalVars, assignVars
  <2>2. ASSUME NEW r \in Rides, PostRideAbort(r) \/ BeginEvaluation(r) \/ AbortEvaluation(r)
        PROVE  StatsInv'
    BY <2>2 DEF PostRideAbort, BeginEvaluation, AbortEvaluation, evalVars, assignVars
  <2>3. ASSUME NEW u \in Users, AppNotify(u) PROVE StatsInv'
    BY <2>3 DEF AppNotify, evalVars, assignVars
  <2> QED
    BY <1>2, <2>1, <2>2, <2>3, StatsAddRide, StatsComplete DEF UserNext
<1>3. CASE MatcherNext
  <2>1. ASSUME MatcherSnapshot \/ MatcherFinish PROVE StatsInv'
    BY <2>1 DEF MatcherSnapshot, MatcherFinish, evalVars, assignVars
  <2>2. ASSUME NEW outcome \in {"stored", "failed"}, MatcherUpdate(outcome)
        PROVE  StatsInv'
    BY <2>2 DEF MatcherUpdate, evalVars, assignVars
  <2> QED
    BY <1>3, <2>1, <2>2, StatsAssign DEF MatcherNext
<1>4. CASE ChairNext
  <2>1. ASSUME NEW c \in Chairs, NEW on \in BOOLEAN, SetActive(c, on) PROVE StatsInv'
    BY <2>1 DEF SetActive, evalVars, assignVars
  <2>2. ASSUME NEW q \in Requests, NEW c \in Chairs, NEW r \in Rides,
               NEW status \in {"ENROUTE", "CARRYING"}, PostRideStatus(q, c, r, status)
        PROVE  StatsInv'
    BY <2>2 DEF PostRideStatus, evalVars, assignVars
  <2>3. ASSUME NEW q \in Requests, NEW c \in Chairs, PostCoordinate(q, c) PROVE StatsInv'
    BY <2>3 DEF PostCoordinate, evalVars, assignVars
  <2>4. ASSUME NEW c \in Chairs, ChairNotify(c) PROVE StatsInv'
    BY <2>4 DEF ChairNotify, evalVars, assignVars
  <2> QED
    BY <1>4, <2>1, <2>2, <2>3, <2>4, StatsAddStatus DEF ChairNext
<1> QED
  BY <1>1, <1>2, <1>3, <1>4 DEF Next

LEMMA StatsInit == Init => StatsInv
<1> SUFFICES ASSUME Init, NEW c \in Chairs
             PROVE  IsFiniteSet(Completed(c)) /\ stats[c] = Cardinality(Completed(c))
  BY DEF StatsInv
<1>1. Completed(c) = {} /\ stats[c] = 0
  BY DEF Init, Completed, LatestStatus
<1> QED
  BY <1>1, FS_EmptySet

(* The count of a chair is the number of rides it completed, though the handlers,
   the streams and the matcher interleave. *)
THEOREM StatsCorrect == ASSUME ~Retries PROVE Spec => []StatsMatchCompleted
<1>1. Init => StatsInv
  BY StatsInit
<1>2. IInv /\ StatsInv /\ [Next]_vars => StatsInv'
  BY StatsStep
<1>3. StatsInv => StatsMatchCompleted
  BY DEF StatsInv, StatsMatchCompleted, Completed
<1> QED
  BY <1>1, <1>2, <1>3, CoreCorrect, PTL DEF Spec
=============================================================================
