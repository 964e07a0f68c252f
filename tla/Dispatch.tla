------------------------------ MODULE Dispatch ------------------------------
(***************************************************************************)
(* The in-memory dispatcher of src/webapp/go (state.go and the handlers    *)
(* that use it) between two initializations: users request rides, the      *)
(* matcher gives waiting rides to free chairs, chairs and users move a     *)
(* ride through its six statuses, and the notification streams record what *)
(* each side has been told.                                                *)
(*                                                                         *)
(* Every section of code between st.mu.Lock() and st.mu.Unlock() is one    *)
(* action.  A handler that takes the lock twice, or that waits for the     *)
(* database or the payment server in between, is several actions, and its  *)
(* local variables are state: posting, req, evals, mpc and plan.           *)
(*                                                                         *)
(* Coordinates, fares and evaluations are abstracted; the database is      *)
(* reduced to what the matcher's UPDATE did (dbAssign); the writer that    *)
(* stores the statuses is module RideWriter.                               *)
(***************************************************************************)
EXTENDS RideStatus, FiniteSets

CONSTANTS
  Users, Chairs, Rides,  \* a member of Rides is a ULID an appPostRides call made
  Requests,              \* slots for chair requests that are being handled
  Retries,               \* TRUE: a client may repeat or overlap its calls
  None                   \* "" or nil in the code

(* A status transition a chair handler has decided on, not yet recorded. *)
Request == [chair : Chairs, ride : Rides, status : Status]

ASSUME DispatchAssumption ==
  /\ Retries \in BOOLEAN
  /\ None \notin Users \cup Chairs \cup Rides \cup Request

VARIABLES
  \* memState
  rideUser,     \* rideState.UserID; None while the ride is not in st.rides
  chairOf,      \* rideState.ChairID
  log,          \* rideState.Statuses, without the sent flags
  appSent,      \* number of leading statuses whose AppSent is set
  chairSent,    \* number of leading statuses whose ChairSent is set
  pending,      \* rides whose AssignPending is set
  completing,   \* rides whose Completing is set
  userLatest, chairLatest, waiting, free,
  active,       \* chairs whose IsActive is set
  stats,        \* chairStats[c].Count
  \* handlers
  posting,      \* appPostRides past its check: the user who asked for the ride
  req,          \* chair handlers between reading the status and addStatus
  evals,        \* appPostRideEvaluatation calls that wait for the payment
  mpc, plan,    \* internalGetMatching: where it is, and its plans
  \* database
  dbAssign      \* the matcher's UPDATE of the ride: "none", "stored", "failed"

rideVars == <<rideUser, userLatest, posting>>
sentVars == <<appSent, chairSent>>
evalVars == <<completing, evals, stats>>
matchVars == <<mpc, plan, pending, dbAssign>>
assignVars == <<chairOf, chairLatest, waiting>>
chairVars == <<free, active>>
vars == <<rideVars, sentVars, evalVars, matchVars, assignVars, chairVars,
          log, req>>

-----------------------------------------------------------------------------
(* rideState.latestStatus *)
LatestStatus(r) == IF Len(log[r]) = 0 THEN "" ELSE log[r][Len(log[r])]

(* chairIdle, and releasedChair with no grace: the last status is COMPLETED
   and the chair has been told so *)
Released(r) ==
  /\ LatestStatus(r) = "COMPLETED"
  /\ chairSent[r] = Len(log[r])

(* Mutant: a chair is idle before it was told COMPLETED. *)
ChairIdleUntold(c) ==
  chairLatest[c] = None \/ LatestStatus(chairLatest[c]) = "COMPLETED"

ChairIdle(c) == chairLatest[c] = None \/ Released(chairLatest[c])

(* The plans that leave no waiting ride beside a free chair: both the
   Hungarian method and the greedy one match until one side is used up. *)
Matchings(W, F) ==
  {p \in [Rides -> F \cup {None}] :
     /\ \A r \in Rides : p[r] # None => r \in W
     /\ \A r, s \in Rides : (p[r] = p[s] /\ p[r] # None) => r = s
     /\ \/ \A r \in W : p[r] # None
        \/ \A c \in F : \E r \in W : p[r] = c}

NoPlan == [r \in Rides |-> None]
Planned == {r \in Rides : plan[r] # None}

Init ==
  /\ rideUser = [r \in Rides |-> None]
  /\ chairOf = [r \in Rides |-> None]
  /\ log = [r \in Rides |-> <<>>]
  /\ appSent = [r \in Rides |-> 0]
  /\ chairSent = [r \in Rides |-> 0]
  /\ pending = {}
  /\ completing = {}
  /\ userLatest = [u \in Users |-> None]
  /\ chairLatest = [c \in Chairs |-> None]
  /\ waiting = {}
  /\ active \in SUBSET Chairs
  /\ free = active
  /\ stats = [c \in Chairs |-> 0]
  /\ posting = [r \in Rides |-> None]
  /\ req = [q \in Requests |-> None]
  /\ evals = [r \in Rides |-> 0]
  /\ mpc = "idle"
  /\ plan = NoPlan
  /\ dbAssign = [r \in Rides |-> "none"]

-----------------------------------------------------------------------------
(* POST /api/app/rides *)

(* The check that the user has no ride in progress.  A client that does not
   retry has one such call under way at a time. *)
PostRideCheck(u, r) ==
  /\ rideUser[r] = None /\ posting[r] = None
  /\ ~Retries => \A s \in Rides : posting[s] # u
  /\ userLatest[u] # None => LatestStatus(userLatest[u]) = "COMPLETED"
  /\ posting' = [posting EXCEPT ![r] = u]
  /\ UNCHANGED <<rideUser, userLatest, sentVars, evalVars, matchVars,
                 assignVars, chairVars, log, req>>

(* The transaction committed: addRide. *)
AddRide(r) ==
  /\ posting[r] # None
  /\ rideUser' = [rideUser EXCEPT ![r] = posting[r]]
  /\ log' = [log EXCEPT ![r] = <<"MATCHING">>]
  /\ userLatest' = [userLatest EXCEPT ![posting[r]] = r]
  /\ waiting' = waiting \cup {r}
  /\ posting' = [posting EXCEPT ![r] = None]
  /\ UNCHANGED <<sentVars, evalVars, matchVars, chairOf, chairLatest,
                 chairVars, req>>

(* The transaction failed and was rolled back. *)
PostRideAbort(r) ==
  /\ posting[r] # None
  /\ posting' = [posting EXCEPT ![r] = None]
  /\ UNCHANGED <<rideUser, userLatest, sentVars, evalVars, matchVars,
                 assignVars, chairVars, log, req>>

-----------------------------------------------------------------------------
(* GET /api/internal/matching, called by one loop, one call at a time *)

(* Mutant: by status alone, as an assigned ride stays MATCHING until accepted. *)
WaitingByStatus == {r \in Rides : LatestStatus(r) = "MATCHING"}

WaitingRides ==
  {r \in waiting : chairOf[r] = None /\ LatestStatus(r) = "MATCHING"}

FreeChairs == {c \in free : c \in active /\ ChairIdle(c)}

(* Copy the waiting rides and the free chairs, unlock, and compute plans. *)
MatcherSnapshot ==
  /\ mpc = "idle"
  /\ WaitingRides # {} /\ FreeChairs # {}
  /\ plan' \in Matchings(WaitingRides, FreeChairs)
  /\ mpc' = "planned"
  /\ UNCHANGED <<rideVars, sentVars, evalVars, pending, dbAssign,
                 assignVars, chairVars, log, req>>

(* Mutant: the assigned rides stay on the waiting list. *)
MatcherAssignKeepsWaiting ==
  /\ mpc = "planned"
  /\ chairOf' = [r \in Rides |-> IF plan[r] # None THEN plan[r] ELSE chairOf[r]]
  /\ chairLatest' = [c \in Chairs |->
       IF \E r \in Rides : plan[r] = c THEN CHOOSE r \in Rides : plan[r] = c
                                       ELSE chairLatest[c]]
  /\ pending' = pending \cup Planned
  /\ free' = {c \in free : \A r \in Rides : plan[r] # c}
  /\ mpc' = "assigned"
  /\ UNCHANGED <<rideVars, sentVars, evalVars, plan, waiting, dbAssign, active,
                 log, req>>

(* assignChairs: all plans, under one lock *)
MatcherAssign ==
  /\ mpc = "planned"
  /\ chairOf' = [r \in Rides |-> IF plan[r] # None THEN plan[r] ELSE chairOf[r]]
  /\ chairLatest' = [c \in Chairs |->
       IF \E r \in Rides : plan[r] = c THEN CHOOSE r \in Rides : plan[r] = c
                                       ELSE chairLatest[c]]
  /\ pending' = pending \cup Planned
  /\ waiting' = waiting \ Planned
  /\ free' = {c \in free : \A r \in Rides : plan[r] # c}
  /\ mpc' = "assigned"
  /\ UNCHANGED <<rideVars, sentVars, evalVars, plan, dbAssign, active, log, req>>

(* The UPDATE of rides.chair_id, which may fail: the plans stand anyway. *)
MatcherUpdate(outcome) ==
  /\ mpc = "assigned"
  /\ dbAssign' = [r \in Rides |-> IF r \in Planned THEN outcome ELSE dbAssign[r]]
  /\ mpc' = "updated"
  /\ UNCHANGED <<rideVars, sentVars, evalVars, plan, pending, assignVars,
                 chairVars, log, req>>

(* finishAssign *)
MatcherFinish ==
  /\ mpc = "updated"
  /\ pending' = pending \ Planned
  /\ plan' = NoPlan
  /\ mpc' = "idle"
  /\ UNCHANGED <<rideVars, sentVars, evalVars, dbAssign, assignVars,
                 chairVars, log, req>>

-----------------------------------------------------------------------------
(* The notification streams.  Waking and connections: module Stream. *)

(* nextAppNotificationLocked with a status to send *)
AppNotify(u) ==
  /\ userLatest[u] # None
  /\ LET r == userLatest[u] IN
       /\ appSent[r] < Len(log[r])
       /\ appSent' = [appSent EXCEPT ![r] = @ + 1]
  /\ UNCHANGED <<rideVars, chairSent, evalVars, matchVars, assignVars,
                 chairVars, log, req>>

(* Mutants: AssignPending is ignored; the chair is not freed. *)
ChairNotifyPending(c) ==
  /\ chairLatest[c] # None
  /\ LET r == chairLatest[c] IN
       /\ chairSent[r] < Len(log[r])
       /\ chairSent' = [chairSent EXCEPT ![r] = @ + 1]
       /\ free' = IF log[r][chairSent[r] + 1] = "COMPLETED" /\ c \in active
                    THEN free \cup {c} ELSE free
  /\ UNCHANGED <<rideVars, appSent, evalVars, matchVars, assignVars, active,
                 log, req>>

ChairNotifyNotFreed(c) ==
  /\ chairLatest[c] # None /\ chairLatest[c] \notin pending
  /\ LET r == chairLatest[c] IN
       /\ chairSent[r] < Len(log[r])
       /\ chairSent' = [chairSent EXCEPT ![r] = @ + 1]
  /\ UNCHANGED <<rideVars, appSent, evalVars, matchVars, assignVars, chairVars,
                 log, req>>

(* nextChairNotificationLocked with a status to send: a chair that is told
   COMPLETED is free if it is active *)
ChairNotify(c) ==
  /\ chairLatest[c] # None /\ chairLatest[c] \notin pending
  /\ LET r == chairLatest[c] IN
       /\ chairSent[r] < Len(log[r])
       /\ chairSent' = [chairSent EXCEPT ![r] = @ + 1]
       /\ free' = IF log[r][chairSent[r] + 1] = "COMPLETED" /\ c \in active
                    THEN free \cup {c} ELSE free
  /\ UNCHANGED <<rideVars, appSent, evalVars, matchVars, assignVars, active,
                 log, req>>

-----------------------------------------------------------------------------
(* Chair requests *)

(* POST /api/chair/activity: setChairActive *)
SetActive(c, on) ==
  /\ active' = IF on THEN active \cup {c} ELSE active \ {c}
  /\ free' = IF on /\ ChairIdle(c) THEN free \cup {c} ELSE free \ {c}
  /\ UNCHANGED <<rideVars, sentVars, evalVars, matchVars, assignVars, log, req>>

(* A chair that does not retry waits for the answer to its previous call. *)
MayCall(c) ==
  ~Retries => \A q \in Requests : req[q] # None => req[q].chair # c

(* It speaks of rides that it was told of, and accepts each once. *)
MayPost(r, status) ==
  ~Retries => /\ chairSent[r] > 0
              /\ status = "ENROUTE" => \A i \in 1 .. Len(log[r]) : log[r][i] # "ENROUTE"

(* Mutant: CARRYING without a look at the last status. *)
PostRideStatusUnchecked(q, c, r, status) ==
  /\ req[q] = None /\ MayCall(c) /\ MayPost(r, status)
  /\ chairOf[r] = c
  /\ req' = [req EXCEPT ![q] = [chair |-> c, ride |-> r, status |-> status]]
  /\ UNCHANGED <<rideVars, sentVars, evalVars, matchVars, assignVars,
                 chairVars, log>>

(* chairPostRideStatus up to the unlock, and its checks: ENROUTE is taken whatever
   the last status is *)
PostRideStatus(q, c, r, status) ==
  /\ req[q] = None /\ MayCall(c) /\ MayPost(r, status)
  /\ chairOf[r] = c
  /\ status = "CARRYING" => LatestStatus(r) = "PICKUP"
  /\ req' = [req EXCEPT ![q] = [chair |-> c, ride |-> r, status |-> status]]
  /\ UNCHANGED <<rideVars, sentVars, evalVars, matchVars, assignVars,
                 chairVars, log>>

(* Mutant: without `newStatus != ""`, a coordinate elsewhere adds an empty status. *)
PostCoordinateElsewhere(q, c) ==
  /\ req[q] = None /\ MayCall(c)
  /\ chairLatest[c] # None
  /\ LET r == chairLatest[c] IN
       req' = [req EXCEPT ![q] = [chair |-> c, ride |-> r, status |-> ""]]
  /\ UNCHANGED <<rideVars, sentVars, evalVars, matchVars, assignVars,
                 chairVars, log>>

(* chairPostCoordinate up to the second unlock, at the pickup point of a ride
   under way or at its destination; elsewhere it changes no ride *)
PostCoordinate(q, c) ==
  /\ req[q] = None /\ MayCall(c)
  /\ chairLatest[c] # None
  /\ LET r == chairLatest[c] IN
       \E status \in {"PICKUP", "ARRIVED"} :
         /\ LatestStatus(r) = IF status = "PICKUP" THEN "ENROUTE" ELSE "CARRYING"
         /\ req' = [req EXCEPT ![q] = [chair |-> c, ride |-> r, status |-> status]]
  /\ UNCHANGED <<rideVars, sentVars, evalVars, matchVars, assignVars,
                 chairVars, log>>

(* addStatus, for either handler *)
AddStatus(q) ==
  /\ req[q] # None
  /\ log' = [log EXCEPT ![req[q].ride] = Append(@, req[q].status)]
  /\ req' = [req EXCEPT ![q] = None]
  /\ UNCHANGED <<rideVars, sentVars, evalVars, matchVars, assignVars, chairVars>>

-----------------------------------------------------------------------------
(* POST /api/app/rides/{ride_id}/evaluation; calls may overlap *)

(* Mutants: Completing is not looked at; the ride need not have arrived. *)
BeginEvaluationTwice(r) ==
  /\ LatestStatus(r) = "ARRIVED"
  /\ evals[r] < 2   \* bounds the mutant
  /\ completing' = completing \cup {r}
  /\ evals' = [evals EXCEPT ![r] = @ + 1]
  /\ UNCHANGED <<rideVars, sentVars, stats, matchVars, assignVars, chairVars,
                 log, req>>

BeginEvaluationEarly(r) ==
  /\ chairOf[r] # None /\ LatestStatus(r) # "COMPLETED" /\ r \notin completing
  /\ completing' = completing \cup {r}
  /\ evals' = [evals EXCEPT ![r] = @ + 1]
  /\ UNCHANGED <<rideVars, sentVars, stats, matchVars, assignVars, chairVars,
                 log, req>>

BeginEvaluation(r) ==
  /\ LatestStatus(r) = "ARRIVED" /\ r \notin completing
  /\ completing' = completing \cup {r}
  /\ evals' = [evals EXCEPT ![r] = @ + 1]
  /\ UNCHANGED <<rideVars, sentVars, stats, matchVars, assignVars, chairVars,
                 log, req>>

(* The payment succeeded: complete.  Completing stays set. *)
Complete(r) ==
  /\ evals[r] > 0
  /\ evals' = [evals EXCEPT ![r] = @ - 1]
  /\ log' = [log EXCEPT ![r] = Append(@, "COMPLETED")]
  /\ stats' = [stats EXCEPT ![chairOf[r]] = @ + 1]
  /\ UNCHANGED <<rideVars, sentVars, completing, matchVars, assignVars,
                 chairVars, req>>

(* Mutant: no deferred reset of Completing. *)
AbortEvaluationKeeps(r) ==
  /\ evals[r] > 0
  /\ evals' = [evals EXCEPT ![r] = @ - 1]
  /\ UNCHANGED <<rideVars, sentVars, completing, stats, matchVars, assignVars,
                 chairVars, log, req>>

(* No payment token, or the payment failed. *)
AbortEvaluation(r) ==
  /\ evals[r] > 0
  /\ evals' = [evals EXCEPT ![r] = @ - 1]
  /\ completing' = completing \ {r}
  /\ UNCHANGED <<rideVars, sentVars, stats, matchVars, assignVars, chairVars,
                 log, req>>

-----------------------------------------------------------------------------
UserNext ==
  \/ \E u \in Users, r \in Rides : PostRideCheck(u, r)
  \/ \E r \in Rides : AddRide(r)
  \/ \E r \in Rides : PostRideAbort(r)
  \/ \E r \in Rides : BeginEvaluation(r)
  \/ \E r \in Rides : Complete(r)
  \/ \E r \in Rides : AbortEvaluation(r)
  \/ \E u \in Users : AppNotify(u)

MatcherNext ==
  \/ MatcherSnapshot
  \/ MatcherAssign
  \/ \E outcome \in {"stored", "failed"} : MatcherUpdate(outcome)
  \/ MatcherFinish

ChairNext ==
  \/ \E c \in Chairs : ChairNotify(c)
  \/ \E c \in Chairs, on \in BOOLEAN : SetActive(c, on)
  \/ \E q \in Requests, c \in Chairs, r \in Rides,
       status \in {"ENROUTE", "CARRYING"} : PostRideStatus(q, c, r, status)
  \/ \E q \in Requests, c \in Chairs : PostCoordinate(q, c)
  \/ \E q \in Requests : AddStatus(q)

Next == UserNext \/ MatcherNext \/ ChairNext

Spec == Init /\ [][Next]_vars

-----------------------------------------------------------------------------
(* Type invariant: every variable keeps its shape. *)
TypeOK ==
  /\ rideUser \in [Rides -> Users \cup {None}]
  /\ chairOf \in [Rides -> Chairs \cup {None}]
  /\ log \in [Rides -> Seq(Status)]
  /\ appSent \in [Rides -> Nat] /\ chairSent \in [Rides -> Nat]
  /\ pending \in SUBSET Rides /\ completing \in SUBSET Rides
  /\ userLatest \in [Users -> Rides \cup {None}]
  /\ chairLatest \in [Chairs -> Rides \cup {None}]
  /\ waiting \in SUBSET Rides
  /\ free \in SUBSET Chairs /\ active \in SUBSET Chairs
  /\ stats \in [Chairs -> Nat]
  /\ posting \in [Rides -> Users \cup {None}]
  /\ req \in [Requests -> Request \cup {None}]
  /\ evals \in [Rides -> Nat]
  /\ mpc \in {"idle", "planned", "assigned", "updated"}
  /\ plan \in [Rides -> Chairs \cup {None}]
  /\ dbAssign \in [Rides -> {"none", "stored", "failed"}]

(* The statuses of every ride are the life cycle of the manual, in order and
   without repetition, although evaluations overlap (app_handlers.go:509-537), a chair
   goes on while its user evaluates, and only CARRYING is refused in a wrong status.
   This is about chairs that wait for the answer to each call and accept a ride once
   (~Retries): the status and coordinate handlers unlock between reading the last
   status and adding the next (chair_handlers.go:116-134, 280-316), and two calls of a
   chair there add the same status twice. *)
LifecycleOrder ==
  \A r \in Rides :
    /\ Len(log[r]) <= Len(Lifecycle)
    /\ \A i \in 1 .. Len(log[r]) : log[r][i] = Lifecycle[i]

(* freeChairs, which four handlers maintain step by step, is at every moment
   the set of active chairs without a ride they have not been released from:
   no busy chair is offered and no idle one is forgotten. *)
FreeIffIdle ==
  \A c \in Chairs : c \in free <=> (c \in active /\ ChairIdle(c))

(* A ride is on the waiting list exactly from its creation until a chair is
   assigned to it, and it has only been MATCHING by then. *)
WaitingUntilAssigned ==
  \A r \in Rides :
    /\ r \in waiting <=> (rideUser[r] # None /\ chairOf[r] = None)
    /\ (chairOf[r] = None) => Len(log[r]) <= 1

(* The lists that the matcher works from are right whenever it may look: no ride
   and no chair is lost between them, or offered twice (state.go:105-112). *)
ListsAreRight == FreeIffIdle /\ WaitingUntilAssigned

(* A chair is given another ride only after the previous one was completed and
   the chair was sent every status of it, COMPLETED included (state.go:50-54):
   its stream, which looks at the latest ride only, skips nothing. *)
ChairMovesOnWhenTold ==
  \A r \in Rides :
    (chairOf[r] # None /\ chairLatest[chairOf[r]] # r) => Released(r)

(* The plans computed from the unlocked copy still fit when assignChairs takes
   the lock again: the rides wait and the chairs are idle
   (internal_handlers.go:207 and 313). *)
PlansStayValid ==
  mpc = "planned" =>
    \A r \in Planned : r \in waiting /\ ChairIdle(plan[r])

(* No chair hears of a ride, and no ride leaves MATCHING, before the UPDATE of
   rides.chair_id has returned: what AssignPending is for (state.go:43-46). *)
ToldAfterUpdate ==
  \A r \in Rides :
    (chairSent[r] > 0 \/ Len(log[r]) > 1) => dbAssign[r] # "none"

(* The ride count of a chair is the number of rides it completed, in every
   state in which a stream may send COMPLETED (state.go:579-582). *)
StatsMatchCompleted ==
  \A c \in Chairs :
    stats[c] = Cardinality({r \in Rides :
                              chairOf[r] = c /\ LatestStatus(r) = "COMPLETED"})

(* Before the user is sent anything about a newer ride, everything about the
   older one was sent (app_manual.md:158, 166-169). *)
UserToldInOrder ==
  \A r \in Rides :
    (rideUser[r] # None /\ userLatest[rideUser[r]] # r
       /\ appSent[userLatest[rideUser[r]]] > 0) => appSent[r] = Len(log[r])

-----------------------------------------------------------------------------
(* Refinement: with what has been recorded and sent read off the detailed
   state, the dispatcher behaves as RideContract says. *)
phaseOf == [r \in Rides |-> LatestStatus(r)]
releasedRides == {r \in Rides : Released(r)}

Contract == INSTANCE RideContract
  WITH phase <- phaseOf, driver <- chairOf, released <- releasedRides

(* The rides go through the state diagram of the manual and a chair serves one
   ride at a time. *)
KeepsContract == Contract!ContractSpec

-----------------------------------------------------------------------------
(* Fairness.  Server steps: a goroutine that holds no lock goes on, and the
   matching loop never stops.  Clients: a chair that was told of a ride accepts
   it, drives on and picks the user up; a user evaluates an arrived ride and
   tries again, and the payment does not fail for ever. *)
Accept(c) == \E q \in Requests, r \in Rides : PostRideStatus(q, c, r, "ENROUTE")
PickUp(c) == \E q \in Requests, r \in Rides : PostRideStatus(q, c, r, "CARRYING")
Drive(c) == \E q \in Requests : PostCoordinate(q, c)

Fairness ==
  /\ WF_vars(MatcherNext)
  /\ \A c \in Chairs : /\ WF_vars(ChairNotify(c)) /\ WF_vars(Accept(c))
                       /\ WF_vars(PickUp(c)) /\ WF_vars(Drive(c))
  /\ \A q \in Requests : WF_vars(AddStatus(q))
  /\ \A r \in Rides : WF_vars(BeginEvaluation(r)) /\ SF_vars(Complete(r))

FairSpec == Spec /\ Fairness

(* Every ride that gets a chair is completed and releases the chair, whatever
   fails or is switched off on the way. *)
AssignedRideEnds == \A r \in Rides : chairOf[r] # None ~> Released(r)

(* If all chairs stay active from some time on, every waiting ride gets one. *)
WaitingRideIsServed ==
  <>[](active = Chairs) => \A r \in Rides : r \in waiting ~> chairOf[r] # None
=============================================================================
