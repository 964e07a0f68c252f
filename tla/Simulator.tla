------------------------------ MODULE Simulator ------------------------------
(***************************************************************************)
(* The simulator page of the front end (src/webapp/public/assets): a chair *)
(* driven by timers of the page, and in an iframe the page of a user who   *)
(* requests and evaluates rides, both against the handlers of the server.  *)
(* The handlers are atomic here: what interleaves inside them is Dispatch  *)
(* and Stream.  The files of the front end are minified; the letters in    *)
(* the comments are the names of functions in them.                        *)
(*                                                                         *)
(* Time is reduced to an order: a call is answered within a second, before *)
(* the next tick (1 s); the timers of the page (30 s and 60 s) are over    *)
(* before the proxy ends a silent stream (600 s, isuride.conf:63).  There  *)
(* is one such page, as the manual asks for, and it has been loaded.       *)
(***************************************************************************)
EXTENDS RideStatus, SequencesExt

CONSTANTS
  MaxRides,              \* bound on the rides that the user requests
  Places,                \* coordinates: an interval of integers
  Start,                 \* where the chair is at first
  Pickup, Destination,   \* of the rides
  MaxLost                \* bound on lost calls and broken connections

Rides == 1 .. MaxRides

ASSUME SimulatorAssumption ==
  /\ MaxRides \in Nat /\ MaxLost \in Nat
  /\ Places \subseteq Int /\ Start \in Places
  /\ \A x, z \in Places : x .. z \subseteq Places
  /\ Pickup \in [Rides -> Places] /\ Destination \in [Rides -> Places]

VARIABLES
  \* server: memState, as far as this user and this chair are concerned
  log,          \* rideState.Statuses
  userRide, chairRide,   \* userLatestRide, chairLatestRide; 0: none
  appSent, chairSent,    \* how many of their statuses are marked as sent
  stream,       \* the connection in chairWake: "events", "probe" or "none"
  initial,      \* that connection has sent nothing yet
  \* simulator page
  data,         \* the ride and the status it has been told, as <<ride, status>>
  place,        \* its coordinate
  ticking,      \* the timer of a second is set
  timer,        \* the timer of 30 or 60 seconds is set
  currentRide,  \* simulator.currentRideId
  source,       \* its EventSource, as the browser sees it: "open", "broken"
  posted,       \* coordinates of the call under way
  carryOn,      \* that call is followed by I
  act,          \* a call of H or I under way
  \* client page
  seen,         \* the ride and the status it has been told
  shown,        \* the status it shows; "" at first
  asking,       \* POST /api/app/rides: "none", "sent", "created"
  evaluating,   \* the ride of an evaluation under way; 0: none
  \* history
  lost,         \* how many calls and connections were lost
  unaccepted,   \* rides whose acceptance was lost
  unevaluated   \* rides of which an evaluation failed

serverVars == <<log, userRide, chairRide, appSent, chairSent>>
streamVars == <<stream, initial>>
pageVars == <<data, place, ticking, timer, currentRide>>
callVars == <<posted, carryOn, act>>
clientVars == <<seen, shown, asking, evaluating>>
historyVars == <<lost, unaccepted, unevaluated>>
vars == <<serverVars, streamVars, pageVars, source, callVars, clientVars,
          historyVars>>

-----------------------------------------------------------------------------
Nothing == <<0, "">>
NoAct == [pc |-> "none", ride |-> 0, status |-> ""]

Latest(r) == IF r = 0 \/ log[r] = <<>> THEN "" ELSE Last(log[r])

(* The modal of the client page covers the button while a ride is under way. *)
InProgress == {"MATCHING", "ENROUTE", "PICKUP", "CARRYING", "ARRIVED"}

Init ==
  /\ log = [r \in Rides |-> <<>>]
  /\ userRide = 0 /\ chairRide = 0 /\ appSent = 0 /\ chairSent = 0
  /\ stream = "events" /\ initial = TRUE
  /\ data = Nothing /\ place = Start /\ ticking = FALSE /\ timer = FALSE
  /\ currentRide = 0 /\ source = "open"
  /\ posted = {} /\ carryOn = FALSE /\ act = NoAct
  /\ seen = Nothing /\ shown = "" /\ asking = "none" /\ evaluating = 0
  /\ lost = 0 /\ unaccepted = {} /\ unevaluated = {}

NoCalls == posted = {} /\ act = NoAct

-----------------------------------------------------------------------------
(* The client page *)

(* he: the page shows MATCHING at once, and calls POST /api/app/rides. *)
RequestRide ==
  /\ shown \notin InProgress /\ asking = "none" /\ userRide < MaxRides
  /\ shown' = "MATCHING" /\ asking' = "sent"
  /\ UNCHANGED <<serverVars, streamVars, pageVars, source, callVars, seen,
                 evaluating, historyVars>>

(* appPostRides *)
PostRides ==
  /\ asking = "sent"
  /\ IF Latest(userRide) \in {"", "COMPLETED"}
       THEN /\ userRide' = userRide + 1
            /\ log' = [log EXCEPT ![userRide + 1] = <<"MATCHING">>]
            /\ appSent' = 0 /\ asking' = "created"
       ELSE asking' = "none" /\ UNCHANGED <<userRide, log, appSent>>
  /\ UNCHANGED <<chairRide, chairSent, streamVars, pageVars, source, callVars,
                 seen, shown, evaluating, historyVars>>

(* A failed evaluation is only logged; mutants: the page closes without one. *)
EvaluateNothing ==
  /\ shown = "ARRIVED"
  /\ shown' = "COMPLETED"
  /\ UNCHANGED <<serverVars, streamVars, pageVars, source, callVars, seen, asking,
                 evaluating, historyVars>>

(* v of Xe: POST evaluation is not awaited, and the modal closes. *)
Evaluate ==
  /\ shown = "ARRIVED"
  /\ evaluating' = seen[1]
  /\ shown' = "COMPLETED"
  /\ UNCHANGED <<serverVars, streamVars, pageVars, source, callVars, seen, asking,
                 historyVars>>

(* appPostRideEvaluatation, whose payment may fail *)
PostEvaluation ==
  /\ evaluating # 0
  /\ evaluating' = 0
  /\ \/ /\ Latest(evaluating) = "ARRIVED"
        /\ log' = [log EXCEPT ![evaluating] = Append(@, "COMPLETED")]
        /\ UNCHANGED unevaluated
     \/ unevaluated' = unevaluated \cup {evaluating} /\ UNCHANGED log
  /\ UNCHANGED <<userRide, chairRide, appSent, chairSent, streamVars, pageVars,
                 source, callVars, seen, shown, asking, lost, unaccepted>>

(* appGetNotification, to the only connection of the user; the page follows a
   status when it differs from the one before. *)
ClientNotified ==
  /\ userRide # 0 /\ appSent < Len(log[userRide])
  /\ appSent' = appSent + 1
  /\ LET status == log[userRide][appSent + 1]
     IN /\ seen' = <<userRide, status>>
        /\ shown' = IF status # seen[2] THEN status ELSE shown
  /\ UNCHANGED <<log, userRide, chairRide, chairSent, streamVars, pageVars, source,
                 callVars, asking, evaluating, historyVars>>

-----------------------------------------------------------------------------
(* The simulator page: what is rendered anew sets its timers anew. *)

(* isAnotherSimulatorBeingUsed *)
Another(d, current) ==
  d[2] \in {"ARRIVED", "CARRYING", "ENROUTE", "PICKUP"} /\ d[1] # current

Ticks(d, current) == d # Nothing /\ ~Another(d, current)

(* The answer to he reaches the page around the iframe: ClientRideRequested. *)
RideRequested ==
  /\ asking = "created"
  /\ asking' = "none"
  /\ currentRide' = userRide
  /\ ticking' = Ticks(data, userRide)
  /\ timer' = (timer \/ (Another(data, currentRide) # Another(data, userRide)
                          /\ data[2] \in {"ENROUTE", "PICKUP", "CARRYING"}))
  /\ UNCHANGED <<serverVars, streamVars, data, place, source, callVars, seen, shown,
                 evaluating, historyVars>>

(* The page is told of a status. *)
Told(d) ==
  IF d # data
    THEN /\ data' = d
         /\ place' = CASE d[2] = "PICKUP" -> Pickup[d[1]]
                       [] d[2] = "ARRIVED" -> Destination[d[1]]
                       [] OTHER -> place
         /\ ticking' = Ticks(d, currentRide)
         /\ timer' = (d[2] \in {"ENROUTE", "PICKUP", "CARRYING"})
    ELSE UNCHANGED <<data, place, ticking, timer>>

Goal == IF data[2] = "ENROUTE" THEN Pickup[data[1]] ELSE Destination[data[1]]

(* w, which throws when there is no way to go; mutant: the wrong way. *)
Away(from, to) == IF from < to THEN from - 1 ELSE from + 1
Toward(from, to) == IF from < to THEN from + 1 ELSE from - 1

(* A call of H or I, which ask for the status first; mutant: H does not. *)
CallUnasked(status) ==
  [pc |-> IF status = "ENROUTE" THEN "posting" ELSE "fetch",
   ride |-> data[1], status |-> status]
Call(status) == [pc |-> "fetch", ride |-> data[1], status |-> status]

(* The effect of F that runs every second: the coordinate is posted and not
   awaited, and what the status asks for is done. *)
Tick ==
  /\ ticking /\ NoCalls
  /\ posted' = {place}
  /\ \/ /\ data[2] \in {"ENROUTE", "CARRYING"} /\ place # Goal
        /\ place' = Toward(place, Goal)
        /\ UNCHANGED <<ticking, act>>
     \/ /\ data[2] \in {"ENROUTE", "CARRYING"} => place = Goal
        /\ act' = CASE data[2] = "MATCHING" -> Call("ENROUTE")
                    [] data[2] = "PICKUP" -> Call("CARRYING")
                    [] OTHER -> NoAct
        /\ ticking' = FALSE
        /\ UNCHANGED place
  /\ UNCHANGED <<serverVars, streamVars, data, timer, currentRide, source, carryOn,
                 clientVars, historyVars>>

(* The timers L, V and Y of F, set when a status is told, whichever page drives;
   mutant: none for the way to the destination. *)
FallbackNotCarrying ==
  /\ timer /\ NoCalls
  /\ timer' = FALSE
  /\ posted' = IF data[2] = "CARRYING" THEN {} ELSE {Pickup[data[1]]}
  /\ carryOn' = (data[2] = "PICKUP")
  /\ UNCHANGED <<serverVars, streamVars, data, place, ticking, currentRide, source,
                 act, clientVars, historyVars>>

Fallback ==
  /\ timer /\ NoCalls
  /\ timer' = FALSE
  /\ posted' = {IF data[2] = "CARRYING" THEN Destination[data[1]] ELSE Pickup[data[1]]}
  /\ carryOn' = (data[2] = "PICKUP")
  /\ UNCHANGED <<serverVars, streamVars, data, place, ticking, currentRide, source,
                 act, clientVars, historyVars>>

-----------------------------------------------------------------------------
(* The calls of the simulator page *)

(* The status that the chair reaches with a coordinate; "": none. *)
Reached(c) ==
  CASE Latest(chairRide) = "ENROUTE" /\ c = Pickup[chairRide] -> "PICKUP"
    [] Latest(chairRide) = "CARRYING" /\ c = Destination[chairRide] -> "ARRIVED"
    [] OTHER -> ""

(* chairPostCoordinate; V goes on with I *)
PostCoordinate ==
  \E c \in posted :
    /\ log' = IF Reached(c) = "" THEN log
                                 ELSE [log EXCEPT ![chairRide] = Append(@, Reached(c))]
    /\ posted' = {} /\ carryOn' = FALSE
    /\ act' = IF carryOn /\ data[1] # 0 THEN Call("CARRYING") ELSE act
    /\ UNCHANGED <<userRide, chairRide, appSent, chairSent, streamVars, pageVars,
                   source, clientVars, historyVars>>

(* R: a second request for the stream, which replaces the EventSource. *)
Probe ==
  /\ act.pc = "fetch"
  /\ act' = [act EXCEPT !.pc = "reading"]
  /\ stream' = "probe" /\ initial' = TRUE
  /\ UNCHANGED <<serverVars, pageVars, source, posted, carryOn, clientVars,
                 historyVars>>

(* nextChairNotificationLocked; mutant: a new connection is not told the latest
   status. *)
HasUnsent == chairRide # 0 /\ chairSent < Len(log[chairRide])
HasData == chairRide # 0 /\ (initial \/ chairSent < Len(log[chairRide]))
Message ==
  <<chairRide, IF chairSent < Len(log[chairRide]) THEN log[chairRide][chairSent + 1]
                                                  ELSE Latest(chairRide)>>
Mark ==
  /\ chairSent' = IF chairSent < Len(log[chairRide]) THEN chairSent + 1 ELSE chairSent
  /\ initial' = FALSE

(* H goes on after MATCHING, I after PICKUP. *)
ProbeAnswered ==
  /\ act.pc = "reading" /\ stream = "probe" /\ initial /\ HasData /\ Mark
  /\ act' = IF Message[2] = (IF act.status = "ENROUTE" THEN "MATCHING" ELSE "PICKUP")
              THEN [act EXCEPT !.pc = "posting"] ELSE NoAct
  /\ UNCHANGED <<log, userRide, chairRide, appSent, stream, pageVars, source, posted,
                 carryOn, clientVars, historyVars>>

(* The stream of the probe ends unread when the EventSource comes back. *)
ProbeReplaced ==
  /\ act.pc = "reading" /\ stream # "probe"
  /\ act' = NoAct
  /\ unaccepted' = IF act.status = "ENROUTE" THEN unaccepted \cup {act.ride}
                                             ELSE unaccepted
  /\ UNCHANGED <<serverVars, streamVars, pageVars, source, posted, carryOn,
                 clientVars, lost, unevaluated>>

(* chairPostRideStatus *)
PostStatus ==
  /\ act.pc = "posting"
  /\ act' = NoAct
  /\ log' = IF chairRide = act.ride /\ (act.status = "CARRYING" => Latest(chairRide) = "PICKUP")
              THEN [log EXCEPT ![chairRide] = Append(@, act.status)] ELSE log
  /\ UNCHANGED <<userRide, chairRide, appSent, chairSent, streamVars, pageVars,
                 source, posted, carryOn, clientVars, historyVars>>

-----------------------------------------------------------------------------
(* Matcher and streams *)

(* internalGetMatching: the chair is free when it was told COMPLETED. *)
Match ==
  /\ Latest(userRide) = "MATCHING" /\ chairRide # userRide
  /\ chairRide # 0 => Latest(chairRide) = "COMPLETED" /\ chairSent = Len(log[chairRide])
  /\ chairRide' = userRide /\ chairSent' = 0
  /\ UNCHANGED <<log, userRide, appSent, streamVars, pageVars, source, callVars,
                 clientVars, historyVars>>

(* chairGetNotification, to the EventSource *)
SourceTold ==
  /\ stream = "events" /\ HasData /\ Mark /\ Told(Message)
  /\ UNCHANGED <<log, userRide, chairRide, appSent, stream, currentRide, source,
                 callVars, clientVars, historyVars>>

(* The same to a probe that nobody reads any more, until the browser drops it. *)
ProbeTold ==
  /\ stream = "probe" /\ act.pc # "reading"
  /\ \/ HasData /\ Mark /\ UNCHANGED stream
     \/ stream' = "none" /\ UNCHANGED <<chairSent, initial>>
  /\ UNCHANGED <<log, userRide, chairRide, appSent, pageVars, source, callVars,
                 clientVars, historyVars>>

(* The proxy ends a stream after 600 silent seconds: no timer is left by then. *)
ProxyTimeout ==
  /\ source = "open" /\ NoCalls /\ ~ticking /\ ~timer
  /\ stream = "events" => ~HasData
  /\ source' = "broken"
  /\ stream' = IF stream = "events" THEN "none" ELSE stream
  /\ UNCHANGED <<serverVars, initial, pageVars, callVars, clientVars, historyVars>>

(* The EventSource connects again by itself. *)
Reconnect ==
  /\ source = "broken"
  /\ source' = "open" /\ stream' = "events" /\ initial' = TRUE
  /\ UNCHANGED <<serverVars, pageVars, callVars, clientVars, historyVars>>

-----------------------------------------------------------------------------
(* What the network loses *)

(* A call to POST /api/app/rides, or the answer. *)
LoseRides ==
  /\ asking # "none" /\ lost < MaxLost
  /\ asking' = "none" /\ lost' = lost + 1
  /\ UNCHANGED <<serverVars, streamVars, pageVars, source, callVars, seen, shown,
                 evaluating, unaccepted, unevaluated>>

LoseCoordinate ==
  /\ posted # {} /\ lost < MaxLost
  /\ posted' = {} /\ carryOn' = FALSE /\ lost' = lost + 1
  /\ UNCHANGED <<serverVars, streamVars, pageVars, source, act, clientVars,
                 unaccepted, unevaluated>>

LoseAct ==
  /\ act # NoAct /\ lost < MaxLost
  /\ act' = NoAct /\ lost' = lost + 1
  /\ unaccepted' = IF act.status = "ENROUTE" THEN unaccepted \cup {act.ride}
                                             ELSE unaccepted
  /\ UNCHANGED <<serverVars, streamVars, pageVars, source, posted, carryOn,
                 clientVars, unevaluated>>

(* The connection of the EventSource, with or without a message in it. *)
LoseSource ==
  /\ source = "open" /\ lost < MaxLost
  /\ source' = "broken" /\ lost' = lost + 1
  /\ IF stream = "events"
       THEN /\ stream' = "none"
            /\ \/ HasData /\ Mark
               \/ UNCHANGED <<chairSent, initial>>
       ELSE UNCHANGED <<streamVars, chairSent>>
  /\ UNCHANGED <<log, userRide, chairRide, appSent, pageVars, callVars, clientVars,
                 unaccepted, unevaluated>>

-----------------------------------------------------------------------------
User == RequestRide \/ Evaluate
Client == PostRides \/ PostEvaluation \/ ClientNotified \/ RideRequested
Timers == Tick \/ Fallback
Calls == PostCoordinate \/ Probe \/ ProbeAnswered \/ ProbeReplaced \/ PostStatus
Server == Match \/ SourceTold \/ ProbeTold
Connection == ProxyTimeout \/ Reconnect
Losses == LoseRides \/ LoseCoordinate \/ LoseAct \/ LoseSource

Next == User \/ Client \/ Timers \/ Calls \/ Server \/ Connection \/ Losses

Spec == Init /\ [][Next]_vars

(* The page and the server go on, and silent streams are ended. *)
FairSpec ==
  /\ Spec
  /\ WF_vars(Client) /\ WF_vars(Tick) /\ WF_vars(Fallback) /\ WF_vars(Calls)
  /\ WF_vars(Match) /\ WF_vars(SourceTold) /\ WF_vars(Connection)

-----------------------------------------------------------------------------
(* Type invariant. *)
TypeOK ==
  /\ log \in [Rides -> Seq(Status)]
  /\ userRide \in 0 .. MaxRides /\ chairRide \in 0 .. userRide
  /\ appSent \in 0 .. 6 /\ chairSent \in 0 .. 6
  /\ stream \in {"events", "probe", "none"} /\ source \in {"open", "broken"}
  /\ {data, seen} \subseteq (Rides \X Status) \cup {Nothing}
  /\ place \in Places /\ posted \subseteq Places
  /\ {initial, ticking, timer, carryOn} \subseteq BOOLEAN
  /\ currentRide \in 0 .. userRide /\ evaluating \in 0 .. userRide
  /\ act.pc \in {"none", "fetch", "reading", "posting"}
  /\ shown \in Status \cup {""} /\ asking \in {"none", "sent", "created"}
  /\ lost \in 0 .. MaxLost
  /\ unaccepted \cup unevaluated \subseteq Rides

(* Driven by the page, a ride takes its statuses in order and once, although the
   server accepts ENROUTE in any status and the page may tick again in MATCHING:
   the probe of H prevents it. *)
RideInOrder == \A r \in Rides : IsPrefix(log[r], Lifecycle)

(* The page shows the latest status of its ride when its EventSource is the
   stream of the chair and nothing is left to send. *)
HearsLatest ==
  (stream = "events" /\ chairRide # 0 /\ ~HasData) =>
    data = <<chairRide, Latest(chairRide)>>

(* The client page offers a ride only to a user without one, once it has been
   told everything, unless an evaluation failed: the page then forgets the ride
   that has arrived, and the next request is refused. *)
OfferedWhenFree ==
  (/\ shown \notin InProgress /\ asking = "none" /\ evaluating = 0
   /\ userRide # 0 => appSent = Len(log[userRide])) =>
    Latest(userRide) \in {"", "COMPLETED"} \/ userRide \in unevaluated

(* A ride that is given to the chair arrives, although a call or a connection is
   lost: the timers repeat what may have been lost.  Only the acceptance is not
   repeated. *)
RideIsDriven ==
  \A r \in Rides :
    chairRide = r ~> (Latest(r) \in {"ARRIVED", "COMPLETED"} \/ r \in unaccepted)

-----------------------------------------------------------------------------
(* What the manual says and the pages and the server together do not do. *)

(* A status that has been sent is known to the page as soon as no call is under
   way (app_manual.md:95 gives three seconds). *)
ToldInTime ==
  (/\ NoCalls /\ source = "open"
   /\ chairRide # 0 /\ chairSent = Len(log[chairRide]) /\ ~initial) =>
    data = <<chairRide, Latest(chairRide)>>
=============================================================================
