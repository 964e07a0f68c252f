-------------------------- MODULE SimulatorProofs --------------------------
(***************************************************************************)
(* The two pages against the server, for every number of rides and losses  *)
(* and every interval of places.                                           *)
(***************************************************************************)
EXTENDS Simulator, SequenceTheorems, TLAPS

(***************************************************************************)
(* The inductive invariant.                                                *)
(***************************************************************************)

(* How many statuses a ride has taken, and that they are the first ones in order. *)
Steps(r) == Len(log[r])
Ordered(s) == Len(s) <= 6 /\ \A n \in 1 .. Len(s) : s[n] = Lifecycle[n]

(* Only the latest ride of the user is under way, and without its chair it waits. *)
LogInv ==
  /\ \A r \in Rides : Ordered(log[r]) /\ (log[r] # <<>> <=> r <= userRide)
  /\ \A r \in Rides : r < userRide => Steps(r) = 6
  /\ chairRide # userRide => userRide = chairRide + 1 /\ Steps(userRide) = 1

SentInv ==
  /\ appSent <= (IF userRide = 0 THEN 0 ELSE Steps(userRide))
  /\ chairSent <= (IF chairRide = 0 THEN 0 ELSE Steps(chairRide))

(* What the page knows of the ride of the chair was marked as sent ... *)
DataInv ==
  /\ data[1] <= chairRide
  /\ data[1] = chairRide /\ chairRide # 0 => chairSent >= 1
  /\ ticking \/ timer => data # Nothing

(* ... so that a probe that answers MATCHING answers with the latest status, which no
   one else can change until the acceptance is posted. *)
ActInv ==
  act # NoAct =>
    /\ act \in [pc : {"fetch", "reading", "posting"}, ride : 1 .. chairRide,
                status : {"ENROUTE", "CARRYING"}]
    /\ act.ride = chairRide => chairSent >= 1
    /\ act.ride = chairRide /\ act.pc = "posting" /\ act.status = "ENROUTE" =>
         Steps(chairRide) = 1

(* A connection that was told something told the page what is marked last. *)
StreamInv ==
  stream = "events" /\ ~initial /\ chairRide # 0 /\ chairSent >= 1 =>
    data = <<chairRide, log[chairRide][chairSent]>>

(* What the client page shows is what it was told last, or what it did since: it shows
   COMPLETED of a ride that has arrived only if it has evaluated it. *)
ClientInv ==
  /\ userRide # 0 /\ appSent >= 1 => seen = <<userRide, log[userRide][appSent]>>
  /\ seen[1] <= userRide
  /\ asking = "sent" => userRide < MaxRides
  /\ shown = "" => seen = Nothing
  /\ shown \in {"ENROUTE", "PICKUP", "CARRYING", "ARRIVED"} => seen[2] = shown
  /\ shown = "COMPLETED" =>
       \/ seen[2] = "COMPLETED"
       \/ /\ seen[2] = "ARRIVED"
          /\ \/ evaluating = seen[1] \/ seen[1] \in unevaluated
             \/ Steps(seen[1]) = 6

IInv == TypeOK /\ LogInv /\ SentInv /\ DataInv /\ ActInv /\ StreamInv /\ ClientInv

-----------------------------------------------------------------------------
(* Sequences of statuses in their order. *)

LEMMA OrderedLast ==
  ASSUME NEW s \in Seq(Status), Ordered(s), s # <<>>
  PROVE  /\ Len(s) \in 1 .. 6
         /\ Last(s) = Lifecycle[Len(s)] /\ Last(s) \in Status
         /\ Last(s) = "MATCHING" <=> Len(s) = 1
         /\ Last(s) = "ENROUTE" <=> Len(s) = 2
         /\ Last(s) = "PICKUP" <=> Len(s) = 3
         /\ Last(s) = "CARRYING" <=> Len(s) = 4
         /\ Last(s) = "ARRIVED" <=> Len(s) = 5
         /\ Last(s) = "COMPLETED" <=> Len(s) = 6
<1>1. Len(s) \in 1 .. 6
  <2>1. Len(s) \in Nat \ {0}
    BY EmptySeq
  <2>2. Len(s) <= 6
    BY DEF Ordered
  <2>3. \A l \in Nat \ {0} : l <= 6 => l \in 1 .. 6
    OBVIOUS
  <2> QED
    BY <2>1, <2>2, <2>3, Zenon
<1>2. Last(s) = Lifecycle[Len(s)]
  BY <1>1 DEF Ordered, Last
<1>3. \A k \in 1 .. 6 :
        /\ Lifecycle[k] \in Status
        /\ Lifecycle[k] = "MATCHING" <=> k = 1
        /\ Lifecycle[k] = "ENROUTE" <=> k = 2
        /\ Lifecycle[k] = "PICKUP" <=> k = 3
        /\ Lifecycle[k] = "CARRYING" <=> k = 4
        /\ Lifecycle[k] = "ARRIVED" <=> k = 5
        /\ Lifecycle[k] = "COMPLETED" <=> k = 6
  BY DEF Lifecycle, Status
<1> QED
  BY <1>1, <1>2, <1>3

LEMMA OrderedAppend ==
  ASSUME NEW s \in Seq(Status), Ordered(s), Len(s) < 6
  PROVE  LET t == Append(s, Lifecycle[Len(s) + 1]) IN
         /\ t \in Seq(Status) /\ Ordered(t) /\ t # <<>> /\ Len(t) = Len(s) + 1
         /\ \A n \in 1 .. Len(s) : t[n] = s[n]
<1> DEFINE t == Append(s, Lifecycle[Len(s) + 1])
<1>1. Len(s) \in Nat /\ Len(s) + 1 \in 1 .. 6
  OBVIOUS
<1>2. Lifecycle[Len(s) + 1] \in Status
  BY <1>1 DEF Lifecycle, Status
<1>3. /\ t \in Seq(Status) /\ Len(t) = Len(s) + 1
      /\ \A n \in 1 .. Len(s) : t[n] = s[n]
      /\ t[Len(s) + 1] = Lifecycle[Len(s) + 1]
  BY <1>1, <1>2
<1>4. Ordered(t)
  BY <1>1, <1>3 DEF Ordered
<1> QED
  BY <1>1, <1>3, <1>4

LEMMA OrderedFirst ==
  /\ <<"MATCHING">> \in Seq(Status) /\ Ordered(<<"MATCHING">>)
  /\ <<"MATCHING">> # <<>> /\ Len(<<"MATCHING">>) = 1
  /\ <<>> \in Seq(Status) /\ Ordered(<<>>)
BY DEF Status, Ordered, Lifecycle

(* The shapes that the steps need again and again. *)
LEMMA Shapes ==
  ASSUME TypeOK, LogInv, SentInv
  PROVE  /\ MaxRides \in Nat /\ MaxLost \in Nat
         /\ log \in [Rides -> Seq(Status)] /\ \A r \in Rides : Ordered(log[r])
         /\ userRide \in 0 .. MaxRides /\ chairRide \in 0 .. userRide
         /\ appSent \in 0 .. 6 /\ chairSent \in 0 .. 6
         /\ \A r \in 1 .. userRide : r \in Rides /\ log[r] # <<>> /\ Steps(r) \in 1 .. 6
         /\ data = Nothing \/ data \in Rides \X Status
         /\ seen = Nothing \/ seen \in Rides \X Status
<1>1. MaxRides \in Nat /\ MaxLost \in Nat
  BY SimulatorAssumption
<1>2. ASSUME NEW r \in 1 .. userRide
      PROVE  r \in Rides /\ log[r] # <<>> /\ Steps(r) \in 1 .. 6
  <2>1. r \in Rides
    <3>1. userRide \in 0 .. MaxRides
      BY DEF TypeOK
    <3> QED
      BY <1>1, <1>2, <3>1 DEF Rides
  <2>2. log[r] \in Seq(Status) /\ Ordered(log[r]) /\ log[r] # <<>>
    <3>1. /\ log \in [Rides -> Seq(Status)]
          /\ Ordered(log[r]) /\ (log[r] # <<>> <=> r <= userRide)
      BY <2>1 DEF TypeOK, LogInv
    <3> QED
      BY <1>2, <2>1, <3>1
  <2> QED
    BY <2>1, <2>2, OrderedLast DEF Steps
<1> QED
  BY <1>1, <1>2 DEF TypeOK, LogInv

-----------------------------------------------------------------------------
LEMMA NoActIdle == NoAct.pc = "none" /\ NoAct.pc \notin {"fetch", "reading", "posting"}
BY DEF NoAct

(* How the statuses grow. *)

(* A ride that was not there is requested, or one takes its next status: the user's
   latest, which has its chair. *)
NewRide ==
  /\ userRide < MaxRides /\ (userRide # 0 => Steps(userRide) = 6)
  /\ userRide' = userRide + 1 /\ appSent' = 0
  /\ log' = [log EXCEPT ![userRide + 1] = <<"MATCHING">>]
  /\ UNCHANGED <<chairRide, chairSent, data, stream, initial, act, seen, shown>>

NewStatus(r) ==
  /\ r \in Rides /\ r = userRide /\ r = chairRide /\ Steps(r) < 6
  /\ log' = [log EXCEPT ![r] = Append(@, Lifecycle[Steps(r) + 1])]
  /\ UNCHANGED <<userRide, chairRide, appSent, chairSent, data, stream, initial,
                 seen, shown>>

(* Nothing that was recorded changes. *)
Grown ==
  /\ userRide <= userRide'
  /\ \A r \in Rides :
       /\ Steps(r) <= Steps(r)'
       /\ \A n \in 1 .. Steps(r) : log'[r][n] = log[r][n]

LEMMA LatestByLength ==
  ASSUME TypeOK, LogInv, SentInv, NEW r \in 0 .. userRide
  PROVE  /\ Latest(r) = "" <=> r = 0
         /\ r # 0 => Latest(r) = Lifecycle[Steps(r)] /\ Latest(r) \in Status
         /\ Latest(r) = "MATCHING" <=> r # 0 /\ Steps(r) = 1
         /\ Latest(r) = "ENROUTE" <=> r # 0 /\ Steps(r) = 2
         /\ Latest(r) = "PICKUP" <=> r # 0 /\ Steps(r) = 3
         /\ Latest(r) = "CARRYING" <=> r # 0 /\ Steps(r) = 4
         /\ Latest(r) = "ARRIVED" <=> r # 0 /\ Steps(r) = 5
         /\ Latest(r) = "COMPLETED" <=> r # 0 /\ Steps(r) = 6
<1>1. CASE r = 0
  BY <1>1 DEF Latest
<1>2. CASE r # 0
  <2>1. r \in Rides /\ log[r] # <<>> /\ log[r] \in Seq(Status) /\ Ordered(log[r])
    BY <1>2, Shapes
  <2>2. Latest(r) = Last(log[r])
    BY <1>2, <2>1 DEF Latest
  <2>3. "" \notin Status
    BY DEF Status
  <2> QED
    BY <1>2, <2>1, <2>2, <2>3, OrderedLast DEF Steps
<1> QED
  BY <1>1, <1>2

LEMMA RequestIsNew ==
  ASSUME IInv, PostRides
  PROVE  NewRide \/ UNCHANGED <<serverVars, streamVars, data, act, seen, shown>>
<1>1. TypeOK /\ LogInv /\ SentInv
  BY DEF IInv
<1>2. CASE Latest(userRide) \in {"", "COMPLETED"}
  <2>1. userRide # 0 => Steps(userRide) = 6
    <3>1. userRide \in 0 .. userRide
      BY <1>1, Shapes
    <3> QED
      BY <1>1, <1>2, <3>1, LatestByLength
  <2>2. /\ userRide' = userRide + 1 /\ appSent' = 0
        /\ log' = [log EXCEPT ![userRide + 1] = <<"MATCHING">>]
        /\ UNCHANGED <<chairRide, chairSent, data, stream, initial, act, seen, shown>>
    BY <1>2 DEF PostRides, streamVars, pageVars, callVars
  <2>3. userRide < MaxRides
    BY DEF PostRides, IInv, ClientInv
  <2> QED
    BY <2>1, <2>2, <2>3 DEF NewRide
<1>3. CASE Latest(userRide) \notin {"", "COMPLETED"}
  BY <1>3 DEF PostRides, serverVars, streamVars, pageVars, callVars
<1> QED
  BY <1>2, <1>3

(* Whatever is not the latest ride, with its chair, is complete or waits. *)
LEMMA UnderWay ==
  ASSUME TypeOK, LogInv, SentInv, NEW r \in 1 .. userRide, Steps(r) < 6,
         Steps(r) # 1 \/ r = chairRide
  PROVE  r \in Rides /\ r = userRide /\ r = chairRide
<1>1. r \in Rides /\ userRide \in Nat /\ chairRide \in Nat /\ Steps(r) \in Nat
  BY Shapes
<1>2. r = userRide
  <2>1. \A s \in Rides : s < userRide => Steps(s) = 6
    BY DEF LogInv
  <2>2. ~(r < userRide)
    BY <1>1, <2>1
  <2> QED
    BY <1>1, <2>2
<1>3. r = chairRide
  <2>1. chairRide # userRide => Steps(userRide) = 1
    BY DEF LogInv
  <2> QED
    BY <1>2, <2>1
<1> QED
  BY <1>1, <1>2, <1>3

LEMMA EvaluationIsNew ==
  ASSUME IInv, PostEvaluation
  PROVE  NewStatus(evaluating) \/ UNCHANGED <<serverVars, streamVars, data, act, seen, shown>>
<1>1. TypeOK /\ LogInv /\ SentInv /\ userRide \in Nat
  BY Shapes DEF IInv
<1>2. evaluating \in 1 .. userRide
  <2>1. evaluating \in 0 .. userRide /\ evaluating # 0
    BY DEF IInv, TypeOK, PostEvaluation
  <2> QED
    BY <1>1, <2>1
<1>3. CASE UNCHANGED log
  BY <1>3 DEF PostEvaluation, serverVars, streamVars, pageVars, callVars
<1>4. CASE /\ Latest(evaluating) = "ARRIVED"
           /\ log' = [log EXCEPT ![evaluating] = Append(@, "COMPLETED")]
  <2>1. Steps(evaluating) = 5
    <3>1. evaluating \in 0 .. userRide
      BY <1>2
    <3> QED
      BY <1>1, <1>4, <3>1, LatestByLength
  <2>2. Lifecycle[Steps(evaluating) + 1] = "COMPLETED"
    BY <2>1 DEF Lifecycle
  <2>3. evaluating \in Rides /\ evaluating = userRide /\ evaluating = chairRide
    <3>1. Steps(evaluating) < 6 /\ Steps(evaluating) # 1
      BY <2>1
    <3> QED
      BY <1>1, <1>2, <3>1, UnderWay
  <2>4. UNCHANGED <<userRide, chairRide, appSent, chairSent, data, stream, initial,
                    seen, shown>>
    BY DEF PostEvaluation, streamVars, pageVars
  <2>5. Steps(evaluating) < 6
    BY <2>1
  <2>6. log' = [log EXCEPT ![evaluating] = Append(@, Lifecycle[Steps(evaluating) + 1])]
    BY <1>4, <2>2
  <2> QED
    BY <2>3, <2>4, <2>5, <2>6 DEF NewStatus
<1> QED
  BY <1>3, <1>4 DEF PostEvaluation

LEMMA ReachedNext ==
  ASSUME TypeOK, LogInv, SentInv, NEW c, Reached(c) # ""
  PROVE  /\ chairRide \in 1 .. userRide /\ Steps(chairRide) \in {2, 4}
         /\ Reached(c) = Lifecycle[Steps(chairRide) + 1]
<1>1. chairRide \in 0 .. userRide
  BY Shapes
<1>2. CASE Latest(chairRide) = "ENROUTE"
  <2>1. chairRide # 0 /\ Steps(chairRide) = 2
    BY <1>1, <1>2, LatestByLength
  <2>2. Reached(c) = "PICKUP"
    BY <1>2 DEF Reached
  <2> QED
    BY <1>1, <2>1, <2>2 DEF Lifecycle
<1>3. CASE Latest(chairRide) = "CARRYING"
  <2>1. chairRide # 0 /\ Steps(chairRide) = 4
    BY <1>1, <1>3, LatestByLength
  <2>2. Reached(c) = "ARRIVED"
    BY <1>3 DEF Reached
  <2> QED
    BY <1>1, <2>1, <2>2 DEF Lifecycle
<1> QED
  BY <1>2, <1>3 DEF Reached

LEMMA CoordinateIsNew ==
  ASSUME IInv, PostCoordinate
  PROVE  NewStatus(chairRide) \/ UNCHANGED <<serverVars, streamVars, data, seen, shown>>
<1>1. TypeOK /\ LogInv /\ SentInv
  BY DEF IInv
<1>2. PICK c \in posted :
        log' = IF Reached(c) = "" THEN log
                                  ELSE [log EXCEPT ![chairRide] = Append(@, Reached(c))]
  BY DEF PostCoordinate
<1>3. UNCHANGED <<userRide, chairRide, appSent, chairSent, data, stream, initial, seen, shown>>
  BY DEF PostCoordinate, streamVars, pageVars, clientVars
<1>4. CASE Reached(c) = ""
  BY <1>2, <1>3, <1>4 DEF serverVars, streamVars
<1>5. CASE Reached(c) # ""
  <2>1. /\ chairRide \in 1 .. userRide /\ Steps(chairRide) \in {2, 4}
        /\ Reached(c) = Lifecycle[Steps(chairRide) + 1]
    BY <1>1, <1>5, ReachedNext
  <2>2. Steps(chairRide) < 6
    BY <2>1
  <2>3. chairRide \in Rides /\ chairRide = userRide
    BY <1>1, <2>1, <2>2, UnderWay
  <2>4. log' = [log EXCEPT ![chairRide] = Append(@, Lifecycle[Steps(chairRide) + 1])]
    BY <1>2, <1>5, <2>1
  <2> QED
    BY <1>3, <2>2, <2>3, <2>4 DEF NewStatus
<1> QED
  BY <1>4, <1>5

LEMMA StatusIsNew ==
  ASSUME IInv, PostStatus
  PROVE  NewStatus(chairRide) \/ UNCHANGED <<serverVars, streamVars, data, seen, shown>>
<1>1. TypeOK /\ LogInv /\ SentInv
  BY DEF IInv
<1>2. UNCHANGED <<userRide, chairRide, appSent, chairSent, data, stream, initial, seen, shown>>
  BY DEF PostStatus, streamVars, pageVars, clientVars
<1>3. CASE chairRide = act.ride /\ (act.status = "CARRYING" => Latest(chairRide) = "PICKUP")
  <2>1. log' = [log EXCEPT ![chairRide] = Append(@, act.status)]
    BY <1>3 DEF PostStatus
  <2>2. /\ act.pc = "posting" /\ act.ride \in 1 .. chairRide
        /\ act.status \in {"ENROUTE", "CARRYING"}
        /\ act.status = "ENROUTE" => Steps(chairRide) = 1
    <3>1. act.pc = "posting" /\ act # NoAct
      BY NoActIdle DEF PostStatus
    <3>2. /\ act \in [pc : {"fetch", "reading", "posting"}, ride : 1 .. chairRide,
                      status : {"ENROUTE", "CARRYING"}]
          /\ act.ride = chairRide /\ act.pc = "posting" /\ act.status = "ENROUTE" =>
               Steps(chairRide) = 1
      BY <3>1 DEF IInv, ActInv
    <3> QED
      BY <1>3, <3>1, <3>2
  <2>3. chairRide \in 1 .. userRide /\ chairRide \in 0 .. userRide
    BY <1>1, <1>3, <2>2, Shapes
  <2>4. /\ Steps(chairRide) \in {1, 3}
        /\ act.status = Lifecycle[Steps(chairRide) + 1]
    <3>1. CASE act.status = "ENROUTE"
      <4>1. Steps(chairRide) = 1
        BY <2>2, <3>1
      <4> QED
        BY <3>1, <4>1 DEF Lifecycle
    <3>2. CASE act.status = "CARRYING"
      <4>1. Steps(chairRide) = 3
        BY <1>1, <1>3, <2>3, <3>2, LatestByLength
      <4> QED
        BY <3>2, <4>1 DEF Lifecycle
    <3> QED
      BY <2>2, <3>1, <3>2
  <2>5. Steps(chairRide) < 6
    BY <2>4
  <2>6. chairRide \in Rides /\ chairRide = userRide
    BY <1>1, <2>3, <2>5, UnderWay
  <2>7. log' = [log EXCEPT ![chairRide] = Append(@, Lifecycle[Steps(chairRide) + 1])]
    BY <2>1, <2>4
  <2> QED
    BY <1>2, <2>5, <2>6, <2>7 DEF NewStatus
<1>4. CASE ~(chairRide = act.ride /\ (act.status = "CARRYING" => Latest(chairRide) = "PICKUP"))
  <2>1. UNCHANGED log
    BY <1>4 DEF PostStatus
  <2> QED
    BY <1>2, <2>1 DEF serverVars, streamVars
<1> QED
  BY <1>3, <1>4

(* Other steps leave the rides alone and mark at most one status as sent. *)
Marking ==
  /\ UNCHANGED <<log, userRide, chairRide, appSent>>
  /\ UNCHANGED chairSent \/ (HasData /\ Mark)

LEMMA RideSteps ==
  ASSUME IInv, Next
  PROVE  \/ NewRide \/ (\E r \in Rides : NewStatus(r)) \/ Match \/ ClientNotified
         \/ Marking
<1>1. CASE PostRides
  BY <1>1, RequestIsNew DEF serverVars, Marking
<1>2. CASE PostEvaluation
  BY <1>2, EvaluationIsNew DEF serverVars, Marking, NewStatus
<1>3. CASE PostCoordinate
  BY <1>3, CoordinateIsNew DEF serverVars, Marking, NewStatus
<1>4. CASE PostStatus
  BY <1>4, StatusIsNew DEF serverVars, Marking, NewStatus
<1>5. CASE User \/ RideRequested \/ Timers
  BY <1>5 DEF User, Timers, RequestRide, Evaluate, RideRequested,
              Tick, Fallback, serverVars, Marking
<1>6. CASE Probe \/ ProbeAnswered \/ ProbeReplaced
  BY <1>6 DEF Probe, ProbeAnswered, ProbeReplaced, serverVars, Marking
<1>7. CASE SourceTold \/ ProbeTold \/ Connection
  BY <1>7 DEF SourceTold, ProbeTold, Connection, ProxyTimeout, Reconnect, serverVars, Marking
<1>8. CASE Losses
  BY <1>8 DEF Losses, LoseRides, LoseCoordinate, LoseAct, LoseSource, serverVars, Marking
<1> QED
  BY <1>1, <1>2, <1>3, <1>4, <1>5, <1>6, <1>7, <1>8 DEF Next, Client, Calls, Server

RidesTyped ==
  /\ log \in [Rides -> Seq(Status)]
  /\ userRide \in 0 .. MaxRides /\ chairRide \in 0 .. userRide
  /\ appSent \in 0 .. 6 /\ chairSent \in 0 .. 6

LEMMA RequestKeeps ==
  ASSUME TypeOK, LogInv, SentInv, NewRide
  PROVE  RidesTyped' /\ LogInv' /\ SentInv' /\ Grown
<1>0. PICK n : n = userRide + 1
  OBVIOUS
<1>1. /\ MaxRides \in Nat /\ log \in [Rides -> Seq(Status)]
      /\ userRide \in 0 .. MaxRides /\ chairRide \in 0 .. userRide
      /\ appSent \in 0 .. 6 /\ chairSent \in 0 .. 6
      /\ \A r \in 1 .. userRide : r \in Rides /\ Steps(r) \in 1 .. 6
  BY Shapes
<1>2. /\ n \in Rides /\ userRide' = n /\ UNCHANGED <<chairRide, chairSent>>
      /\ log' = [log EXCEPT ![n] = <<"MATCHING">>] /\ appSent' = 0
  BY <1>0, <1>1 DEF NewRide, Rides
<1>3. /\ log'[n] = <<"MATCHING">> /\ Steps(n)' = 1
      /\ \A r \in Rides \ {n} : log'[r] = log[r] /\ Steps(r)' = Steps(r)
  <2>1. /\ log'[n] = <<"MATCHING">>
        /\ \A r \in Rides \ {n} : log'[r] = log[r]
    BY <1>1, <1>2
  <2>2. Steps(n)' = 1
    <3>1. Steps(n)' = Len(log'[n])
      BY DEF Steps
    <3> QED
      BY <2>1, <3>1, OrderedFirst
  <2> QED
    BY <2>1, <2>2 DEF Steps
<1>4. log[n] = <<>>
  <2>1. ~(n <= userRide)
    BY <1>0, <1>1
  <2> QED
    BY <1>2, <2>1 DEF LogInv
<1>5. chairRide = userRide
  <2>1. chairRide # userRide => userRide = chairRide + 1 /\ Steps(userRide) = 1
    BY DEF LogInv
  <2>2. userRide # 0 => Steps(userRide) = 6
    BY DEF NewRide
  <2> QED
    BY <1>1, <2>1, <2>2
<1>6. RidesTyped'
  <2>1. log' \in [Rides -> Seq(Status)]
    BY <1>1, <1>2, OrderedFirst
  <2> QED
    BY <1>0, <1>1, <1>2, <2>1 DEF RidesTyped, Rides
<1>7. Grown
  <2>1. \A r \in Rides : Steps(r) \in Nat
    BY <1>1 DEF Steps
  <2>2. Steps(n) = 0
    BY <1>4 DEF Steps
  <2>3. \A r \in Rides : Steps(r) <= Steps(r)'
    <3> SUFFICES ASSUME NEW r \in Rides PROVE Steps(r) <= Steps(r)'
      OBVIOUS
    <3>1. CASE r = n
      BY <1>3, <2>2, <3>1
    <3>2. CASE r # n
      BY <1>3, <2>1, <3>2
    <3> QED
      BY <3>1, <3>2
  <2>4. \A r \in Rides : \A k \in 1 .. Steps(r) : log'[r][k] = log[r][k]
    BY <1>3, <2>2
  <2> QED
    BY <1>0, <1>1, <1>2, <2>3, <2>4 DEF Grown
<1>8. LogInv'
  <2>1. \A r \in Rides : Ordered(log'[r]) /\ (log'[r] # <<>> <=> r <= userRide')
    <3> SUFFICES ASSUME NEW r \in Rides
                 PROVE  Ordered(log'[r]) /\ (log'[r] # <<>> <=> r <= userRide')
      OBVIOUS
    <3>1. CASE r = n
      BY <1>0, <1>1, <1>2, <1>3, <3>1, OrderedFirst DEF Rides
    <3>2. CASE r # n
      <4>1. Ordered(log[r]) /\ (log[r] # <<>> <=> r <= userRide)
        BY DEF LogInv
      <4>2. r <= n <=> r <= userRide
        BY <1>0, <1>1, <3>2 DEF Rides
      <4> QED
        BY <1>2, <1>3, <3>2, <4>1, <4>2
    <3> QED
      BY <3>1, <3>2
  <2>2. \A r \in Rides : r < userRide' => Steps(r)' = 6
    <3> SUFFICES ASSUME NEW r \in Rides, r < n
                 PROVE  Steps(r)' = 6
      BY <1>2
    <3>1. r # n /\ (r = userRide \/ r < userRide) /\ userRide # 0
      BY <1>0, <1>1 DEF Rides
    <3>2. Steps(r) = 6
      BY <3>1 DEF LogInv, NewRide
    <3> QED
      BY <1>3, <3>1, <3>2
  <2>3. userRide' = chairRide' + 1 /\ Steps(userRide)' = 1
    <3>1. Steps(userRide)' = Steps(n)'
      BY <1>2 DEF Steps
    <3> QED
      BY <1>0, <1>2, <1>3, <1>5, <3>1
  <2>4. chairRide' # userRide' =>
          userRide' = chairRide' + 1 /\ Steps(userRide)' = 1
    BY <2>3
  <2> QED
    BY <2>1, <2>2, <2>4 DEF LogInv
<1>9. SentInv'
  <2>1. Steps(userRide)' = 1
    BY <1>2, <1>3 DEF Steps
  <2>2. chairRide # 0 => Steps(chairRide)' = Steps(chairRide)
    <3>1. chairRide # 0 => chairRide \in Rides \ {n}
      BY <1>0, <1>1, <1>5
    <3>2. chairRide' = chairRide
      BY <1>2
    <3>3. chairRide # 0 => log'[chairRide'] = log[chairRide]
      BY <1>3, <3>1, <3>2
    <3> QED
      BY <3>3 DEF Steps
  <2>3. chairSent <= (IF chairRide = 0 THEN 0 ELSE Steps(chairRide))
    BY DEF SentInv
  <2>4. appSent' <= (IF userRide' = 0 THEN 0 ELSE Steps(userRide)')
    BY <1>1, <1>2, <2>1
  <2>5. chairSent' <= (IF chairRide' = 0 THEN 0 ELSE Steps(chairRide)')
    BY <1>2, <2>2, <2>3
  <2> QED
    BY <2>4, <2>5 DEF SentInv
<1> QED
  BY <1>6, <1>7, <1>8, <1>9

LEMMA AdvanceKeeps ==
  ASSUME TypeOK, LogInv, SentInv, NEW r \in Rides, NewStatus(r)
  PROVE  RidesTyped' /\ LogInv' /\ SentInv' /\ Grown
<1>1. /\ log \in [Rides -> Seq(Status)]
      /\ userRide \in 0 .. MaxRides /\ chairRide \in 0 .. userRide /\ MaxRides \in Nat
      /\ appSent \in 0 .. 6 /\ chairSent \in 0 .. 6
  BY Shapes
<1>2. /\ r = userRide /\ r = chairRide /\ Steps(r) < 6
      /\ UNCHANGED <<userRide, chairRide, appSent, chairSent>>
      /\ log' = [log EXCEPT ![r] = Append(@, Lifecycle[Steps(r) + 1])]
  BY DEF NewStatus
<1>3. r \in 1 .. userRide /\ r # 0 /\ Ordered(log[r]) /\ log[r] \in Seq(Status)
  BY <1>1, <1>2, Shapes DEF Rides
<1>4. /\ log'[r] \in Seq(Status) /\ Ordered(log'[r]) /\ log'[r] # <<>>
      /\ Steps(r)' = Steps(r) + 1 /\ Steps(r) \in 1 .. 6
      /\ \A k \in 1 .. Steps(r) : log'[r][k] = log[r][k]
  <2>1. log'[r] = Append(log[r], Lifecycle[Len(log[r]) + 1])
    BY <1>1, <1>2 DEF Steps
  <2>2. Steps(r) \in 1 .. 6
    BY <1>3, Shapes
  <2> QED
    BY <1>2, <1>3, <2>1, <2>2, OrderedAppend DEF Steps
<1>5. \A o \in Rides \ {r} : log'[o] = log[o] /\ Steps(o)' = Steps(o)
  BY <1>1, <1>2 DEF Steps
<1>6. RidesTyped'
  <2>1. log' \in [Rides -> Seq(Status)]
    BY <1>1, <1>2, <1>4
  <2> QED
    BY <1>1, <1>2, <2>1 DEF RidesTyped
<1>7. Grown
  <2>1. \A o \in Rides : Steps(o) \in Nat
    BY <1>1 DEF Steps
  <2>2. \A o \in Rides : Steps(o) <= Steps(o)'
    BY <1>4, <1>5, <2>1
  <2>3. \A o \in Rides : \A k \in 1 .. Steps(o) : log'[o][k] = log[o][k]
    BY <1>4, <1>5
  <2>4. userRide <= userRide'
    <3>1. userRide \in Nat
      BY Shapes
    <3>2. userRide' = userRide
      BY DEF NewStatus
    <3> QED
      BY <3>1, <3>2
  <2> QED
    BY <2>2, <2>3, <2>4 DEF Grown
<1>8. LogInv'
  <2>1. \A o \in Rides : Ordered(log'[o]) /\ (log'[o] # <<>> <=> o <= userRide')
    <3> SUFFICES ASSUME NEW o \in Rides
                 PROVE  Ordered(log'[o]) /\ (log'[o] # <<>> <=> o <= userRide)
      BY <1>2
    <3>1. Ordered(log[o]) /\ (log[o] # <<>> <=> o <= userRide)
      BY DEF LogInv
    <3>2. r <= userRide
      BY <1>1, <1>2
    <3> QED
      BY <1>4, <1>5, <3>1, <3>2
  <2>2. \A o \in Rides : o < userRide' => Steps(o)' = 6
    <3> SUFFICES ASSUME NEW o \in Rides, o < userRide
                 PROVE  Steps(o)' = 6
      BY <1>2
    <3>1. o # r
      BY <1>1, <1>2
    <3>2. Steps(o) = 6
      BY DEF LogInv
    <3> QED
      BY <1>5, <3>1, <3>2
  <2>3. chairRide' = userRide'
    BY <1>2
  <2> QED
    BY <2>1, <2>2, <2>3 DEF LogInv
<1>9. SentInv'
  <2>1. Steps(userRide)' = Steps(r)' /\ Steps(chairRide)' = Steps(r)'
    BY <1>2 DEF Steps
  <2>2. appSent <= Steps(r) /\ chairSent <= Steps(r)
    BY <1>2, <1>3 DEF SentInv
  <2>3. appSent' <= Steps(r)' /\ chairSent' <= Steps(r)'
    BY <1>1, <1>2, <1>4, <2>2
  <2> QED
    BY <1>2, <1>3, <2>1, <2>3 DEF SentInv
<1> QED
  BY <1>6, <1>7, <1>8, <1>9

(* A step that leaves the rides alone. *)
LEMMA SameRides ==
  ASSUME TypeOK, LogInv, SentInv, UNCHANGED <<log, userRide>>,
         chairRide' = chairRide \/ chairRide' = userRide
  PROVE  /\ LogInv' /\ Grown /\ \A r \in Rides : Steps(r)' = Steps(r)
         /\ chairRide' \in 0 .. userRide'
<1>1. /\ log \in [Rides -> Seq(Status)]
      /\ userRide \in 0 .. MaxRides /\ chairRide \in 0 .. userRide /\ MaxRides \in Nat
  BY Shapes
<1>2. \A r : Steps(r)' = Steps(r)
  BY DEF Steps
<1>3. \A r \in Rides : Steps(r) \in Nat
  BY <1>1 DEF Steps
<1>4. Grown
  BY <1>1, <1>2, <1>3 DEF Grown
<1>5. Steps(userRide)' = Steps(userRide)
  BY DEF Steps
<1>6. LogInv'
  <2>1. \A r \in Rides : Ordered(log'[r]) /\ (log'[r] # <<>> <=> r <= userRide')
    BY DEF LogInv
  <2>2. \A r \in Rides : r < userRide' => Steps(r)' = 6
    BY <1>2 DEF LogInv
  <2>3. chairRide' # userRide' => userRide' = chairRide' + 1 /\ Steps(userRide)' = 1
    BY <1>5 DEF LogInv
  <2> QED
    BY <2>1, <2>2, <2>3 DEF LogInv
<1> QED
  BY <1>1, <1>2, <1>4, <1>6

LEMMA MatchKeeps ==
  ASSUME TypeOK, LogInv, SentInv, Match
  PROVE  /\ RidesTyped' /\ LogInv' /\ SentInv' /\ Grown
         /\ chairRide' = userRide /\ chairRide < userRide /\ chairSent' = 0
<1>1. /\ log \in [Rides -> Seq(Status)]
      /\ userRide \in 0 .. MaxRides /\ chairRide \in 0 .. userRide
      /\ appSent \in 0 .. 6 /\ chairSent \in 0 .. 6 /\ MaxRides \in Nat
  BY Shapes
<1>2. /\ UNCHANGED <<log, userRide, appSent>> /\ chairRide' = userRide
      /\ chairRide # userRide /\ chairSent' = 0
  BY DEF Match
<1>3. LogInv' /\ Grown
  BY <1>2, SameRides
<1>4. RidesTyped'
  BY <1>1, <1>2 DEF RidesTyped
<1>5. userRide \in 1 .. userRide
  BY <1>1, <1>2
<1>6. Steps(userRide)' = Steps(userRide) /\ Steps(chairRide)' = Steps(userRide)
  BY <1>2 DEF Steps
<1>7. Steps(userRide) \in 1 .. 6
  BY <1>5, Shapes
<1>8. SentInv'
  <2>1. appSent <= (IF userRide = 0 THEN 0 ELSE Steps(userRide))
    BY DEF SentInv
  <2>2. appSent' <= (IF userRide' = 0 THEN 0 ELSE Steps(userRide)')
    BY <1>2, <1>6, <2>1
  <2>3. chairSent' <= (IF chairRide' = 0 THEN 0 ELSE Steps(chairRide)')
    BY <1>2, <1>5, <1>6, <1>7
  <2> QED
    BY <2>2, <2>3 DEF SentInv
<1> QED
  BY <1>1, <1>2, <1>3, <1>4, <1>8

(* What is sent to the chair is the status that is then marked last; a MATCHING that is
   sent when something was sent before is the latest status. *)
LEMMA MessageFacts ==
  ASSUME TypeOK, LogInv, SentInv, HasData, Mark
  PROVE  /\ chairRide \in 1 .. userRide /\ chairRide \in Rides
         /\ chairSent' \in 1 .. Steps(chairRide) /\ chairSent <= chairSent' /\ chairSent' \in 1 .. 6
         /\ Message = <<chairRide, log[chairRide][chairSent']>>
         /\ Message \in Rides \X Status
         /\ chairSent >= 1 /\ Message[2] = "MATCHING" => Steps(chairRide) = 1
         /\ initial' = FALSE
<1>1. /\ log \in [Rides -> Seq(Status)]
      /\ userRide \in 0 .. MaxRides /\ chairRide \in 0 .. userRide
      /\ chairSent \in 0 .. 6 /\ MaxRides \in Nat
  BY Shapes
<1>2. chairRide \in 1 .. userRide /\ chairRide \in 0 .. userRide
  BY <1>1 DEF HasData
<1>3. /\ chairRide \in Rides /\ Steps(chairRide) \in 1 .. 6
      /\ Ordered(log[chairRide]) /\ log[chairRide] \in Seq(Status)
  BY <1>2, Shapes
<1>4. chairSent <= Steps(chairRide)
  BY <1>1, <1>2 DEF SentInv
<1>5. chairSent' = IF chairSent < Steps(chairRide) THEN chairSent + 1 ELSE chairSent
  BY DEF Mark, Steps
<1>6. chairSent' \in 1 .. Steps(chairRide) /\ chairSent <= chairSent' /\ chairSent' \in 1 .. 6
  BY <1>1, <1>3, <1>4, <1>5
<1>7. \A n \in 1 .. Steps(chairRide) : log[chairRide][n] = Lifecycle[n]
  BY <1>3 DEF Ordered, Steps
<1>8. Message[1] = chairRide /\ Message[2] = log[chairRide][chairSent'] /\
      Message = <<chairRide, log[chairRide][chairSent']>>
  <2>1. CASE chairSent < Steps(chairRide)
    BY <1>5, <2>1 DEF Message, Steps
  <2>2. CASE ~(chairSent < Steps(chairRide))
    <3>1. chairSent' = Steps(chairRide)
      BY <1>1, <1>3, <1>4, <1>5, <2>2
    <3>2. Latest(chairRide) = Lifecycle[Steps(chairRide)]
      <4>1. chairRide # 0
        BY <1>2
      <4> QED
        BY <1>2, <4>1, LatestByLength
    <3>3. log[chairRide][chairSent'] = Lifecycle[Steps(chairRide)]
      BY <1>3, <1>7, <3>1
    <3> QED
      BY <2>2, <3>2, <3>3 DEF Message, Steps
  <2> QED
    BY <2>1, <2>2
<1>9. Message[2] = Lifecycle[chairSent']
  BY <1>6, <1>7, <1>8
<1>10. Message[2] \in Status /\ (Message[2] = "MATCHING" <=> chairSent' = 1)
  <2>1. \A k \in 1 .. 6 : Lifecycle[k] \in Status /\ (Lifecycle[k] = "MATCHING" <=> k = 1)
    BY DEF Lifecycle, Status
  <2> QED
    BY <1>6, <1>9, <2>1
<1>11. chairSent >= 1 /\ Message[2] = "MATCHING" => Steps(chairRide) = 1
  BY <1>1, <1>3, <1>4, <1>5, <1>10
<1> QED
  BY <1>2, <1>3, <1>6, <1>8, <1>10, <1>11 DEF Mark

LEMMA NoticeFacts ==
  ASSUME TypeOK, LogInv, SentInv, ClientNotified
  PROVE  /\ userRide \in Rides /\ appSent' = appSent + 1 /\ appSent' \in 1 .. Steps(userRide)
         /\ appSent' \in 1 .. 6
         /\ log[userRide][appSent'] = Lifecycle[appSent']
         /\ UNCHANGED <<log, userRide, chairRide, chairSent>>
<1>1. /\ userRide \in 0 .. MaxRides /\ MaxRides \in Nat /\ appSent \in 0 .. 6
  BY Shapes
<1>2. /\ appSent' = appSent + 1 /\ appSent < Steps(userRide) /\ userRide # 0
      /\ UNCHANGED <<log, userRide, chairRide, chairSent>>
  BY DEF ClientNotified, Steps
<1>3. userRide \in 1 .. userRide
  BY <1>1, <1>2
<1>4. userRide \in Rides /\ Steps(userRide) \in 1 .. 6 /\ Ordered(log[userRide])
  BY <1>3, Shapes
<1>5. appSent' \in 1 .. Steps(userRide) /\ appSent' \in 1 .. 6
  BY <1>1, <1>2, <1>4
<1>6. log[userRide][appSent'] = Lifecycle[appSent']
  BY <1>4, <1>5 DEF Ordered, Steps
<1> QED
  BY <1>2, <1>4, <1>5, <1>6

LEMMA NotifyKeeps ==
  ASSUME TypeOK, LogInv, SentInv, ClientNotified \/ Marking
  PROVE  RidesTyped' /\ LogInv' /\ SentInv' /\ Grown
<1>1. /\ log \in [Rides -> Seq(Status)]
      /\ userRide \in 0 .. MaxRides /\ chairRide \in 0 .. userRide
      /\ appSent \in 0 .. 6 /\ chairSent \in 0 .. 6 /\ MaxRides \in Nat
  BY Shapes
<1>2. UNCHANGED <<log, userRide, chairRide>>
  BY DEF ClientNotified, Marking
<1>3. LogInv' /\ Grown
  BY <1>2, SameRides
<1>4. Steps(userRide)' = Steps(userRide) /\ Steps(chairRide)' = Steps(chairRide)
  BY <1>2 DEF Steps
<1>5. /\ appSent <= (IF userRide = 0 THEN 0 ELSE Steps(userRide))
      /\ chairSent <= (IF chairRide = 0 THEN 0 ELSE Steps(chairRide))
  BY DEF SentInv
<1>6. /\ appSent' \in 0 .. 6 /\ chairSent' \in 0 .. 6
      /\ appSent' <= (IF userRide = 0 THEN 0 ELSE Steps(userRide))
      /\ chairSent' <= (IF chairRide = 0 THEN 0 ELSE Steps(chairRide))
  <2>1. CASE ClientNotified
    <3>1. /\ appSent' \in 1 .. Steps(userRide) /\ appSent' \in 1 .. 6 /\ chairSent' = chairSent
          /\ userRide # 0
      BY <2>1, NoticeFacts DEF ClientNotified
    <3> QED
      BY <1>1, <1>5, <3>1
  <2>2. CASE Marking /\ UNCHANGED chairSent
    BY <1>1, <1>5, <2>2 DEF Marking
  <2>3. CASE Marking /\ HasData /\ Mark
    <3>1. chairSent' \in 1 .. Steps(chairRide) /\ chairSent' \in 1 .. 6 /\ chairRide # 0
      BY <2>3, MessageFacts DEF HasData
    <3>2. appSent' = appSent
      BY <2>3 DEF Marking
    <3> QED
      BY <1>1, <1>5, <3>1, <3>2
  <2> QED
    BY <2>1, <2>2, <2>3 DEF Marking
<1>7. SentInv'
  <2>1. appSent' <= (IF userRide' = 0 THEN 0 ELSE Steps(userRide)')
    BY <1>2, <1>4, <1>6
  <2>2. chairSent' <= (IF chairRide' = 0 THEN 0 ELSE Steps(chairRide)')
    BY <1>2, <1>4, <1>6
  <2> QED
    BY <2>1, <2>2 DEF SentInv
<1>8. RidesTyped'
  BY <1>1, <1>2, <1>6 DEF RidesTyped
<1> QED
  BY <1>3, <1>7, <1>8

(* In sum: the rides keep their order in every step. *)
LEMMA RidesKept ==
  ASSUME IInv, Next
  PROVE  RidesTyped' /\ LogInv' /\ SentInv' /\ Grown
<1>1. TypeOK /\ LogInv /\ SentInv
  BY DEF IInv
<1>2. \/ NewRide \/ (\E r \in Rides : NewStatus(r)) \/ Match \/ ClientNotified
      \/ Marking
  BY RideSteps
<1> QED
  BY <1>1, <1>2, RequestKeeps, AdvanceKeeps, MatchKeeps, NotifyKeeps

-----------------------------------------------------------------------------
(* The page of the chair. *)

(* The chair keeps its ride, and what is marked stays marked, or it gets a later ride. *)
ChairGoesOn ==
  \/ chairRide' = chairRide /\ chairSent <= chairSent'
  \/ Match /\ chairRide < chairRide' /\ chairSent' = 0

LEMMA ChairKept ==
  ASSUME IInv, Next
  PROVE  ChairGoesOn
<1>1. TypeOK /\ LogInv /\ SentInv
  BY DEF IInv
<1>2. chairSent \in Nat
  BY <1>1, Shapes
<1>3. CASE NewRide
  BY <1>2, <1>3 DEF NewRide, ChairGoesOn
<1>4. CASE \E r \in Rides : NewStatus(r)
  BY <1>2, <1>4 DEF NewStatus, ChairGoesOn
<1>5. CASE Match
  BY <1>1, <1>5, MatchKeeps DEF ChairGoesOn
<1>6. CASE ClientNotified
  BY <1>2, <1>6 DEF ClientNotified, ChairGoesOn
<1>7. CASE Marking
  <2>1. CASE UNCHANGED chairSent
    BY <1>2, <1>7, <2>1 DEF Marking, ChairGoesOn
  <2>2. CASE HasData /\ Mark
    BY <1>1, <1>7, <2>2, MessageFacts DEF Marking, ChairGoesOn
  <2> QED
    BY <1>7, <2>1, <2>2 DEF Marking
<1> QED
  BY <1>3, <1>4, <1>5, <1>6, <1>7, RideSteps

(* The page is told something, or sets its timers anew, or lets them run out. *)
LEMMA PageSteps ==
  ASSUME Next
  PROVE  \/ SourceTold \/ RideRequested
         \/ UNCHANGED data /\ (ticking' => ticking) /\ (timer' => timer)
<1>1. CASE User \/ PostRides \/ PostEvaluation \/ ClientNotified
  BY <1>1 DEF User, RequestRide, Evaluate, PostRides, PostEvaluation, ClientNotified, pageVars
<1>2. CASE Timers
  BY <1>2 DEF Timers, Tick, Fallback
<1>3. CASE Calls
  BY <1>3 DEF Calls, PostCoordinate, Probe, ProbeAnswered, ProbeReplaced, PostStatus, pageVars
<1>4. CASE Match \/ ProbeTold \/ Connection
  BY <1>4 DEF Match, ProbeTold, Connection, ProxyTimeout, Reconnect, pageVars
<1>5. CASE Losses
  BY <1>5 DEF Losses, LoseRides, LoseCoordinate, LoseAct, LoseSource, pageVars
<1> QED
  BY <1>1, <1>2, <1>3, <1>4, <1>5 DEF Next, Client, Server

LEMMA NothingIsEmpty == Nothing[1] = 0 /\ Nothing[2] = ""
BY DEF Nothing

LEMMA ToldData ==
  ASSUME NEW d, Told(d)
  PROVE  data' = d
<1>1. CASE d # data
  BY <1>1 DEF Told
<1>2. CASE d = data
  BY <1>2 DEF Told
<1> QED
  BY <1>1, <1>2

LEMMA DataKept ==
  ASSUME IInv, Next
  PROVE  DataInv'
<1>1. TypeOK /\ LogInv /\ SentInv /\ DataInv
  BY DEF IInv
<1>2. RidesTyped' /\ chairRide \in Nat /\ chairRide' \in Nat /\ chairSent \in Nat
      /\ chairSent' \in Nat /\ data[1] \in Nat
  <2>1. RidesTyped'
    BY RidesKept
  <2>2. data = Nothing \/ data \in Rides \X Status
    BY <1>1, Shapes
  <2>3. data[1] \in Nat
    <3>1. data[1] \in Rides \/ data[1] = 0
      BY <2>2, NothingIsEmpty
    <3> QED
      BY <3>1, SimulatorAssumption DEF Rides
  <2> QED
    BY <1>1, <2>1, <2>3, Shapes DEF RidesTyped
<1>3. CASE SourceTold
  <2>1. data' = Message /\ chairRide' = chairRide /\ HasData /\ Mark
    BY <1>3, ToldData DEF SourceTold
  <2>2. /\ Message = <<chairRide, log[chairRide][chairSent']>> /\ chairRide # 0
        /\ chairSent' \in 1 .. Steps(chairRide) /\ Message \in Rides \X Status
    BY <1>1, <2>1, MessageFacts DEF HasData
  <2>3. data'[1] = chairRide /\ chairSent' >= 1
    BY <2>1, <2>2
  <2>4. data' # Nothing
    BY <1>2, <2>2, <2>3, NothingIsEmpty
  <2> QED
    BY <1>2, <2>1, <2>3, <2>4 DEF DataInv
<1>4. CASE RideRequested
  <2>1. UNCHANGED <<data, chairRide, chairSent>>
    BY <1>4 DEF RideRequested, serverVars
  <2>2. ticking' \/ timer' => data # Nothing
    <3>1. ticking' => data # Nothing
      BY <1>4 DEF RideRequested, Ticks
    <3>2. timer' => timer \/ data[2] \in {"ENROUTE", "PICKUP", "CARRYING"}
      BY <1>4 DEF RideRequested
    <3> QED
      BY <1>1, <3>1, <3>2, NothingIsEmpty DEF DataInv
  <2> QED
    BY <1>1, <2>1, <2>2 DEF DataInv
<1>5. CASE UNCHANGED data /\ (ticking' => ticking) /\ (timer' => timer)
  <2>1. ticking' \/ timer' => data' # Nothing
    BY <1>1, <1>5 DEF DataInv
  <2>2. data'[1] <= chairRide' /\ (data'[1] = chairRide' /\ chairRide' # 0 => chairSent' >= 1)
    <3>1. CASE chairRide' = chairRide /\ chairSent <= chairSent'
      BY <1>1, <1>2, <1>5, <3>1 DEF DataInv
    <3>2. CASE chairRide < chairRide'
      BY <1>1, <1>2, <1>5, <3>2 DEF DataInv
    <3> QED
      BY <3>1, <3>2, ChairKept DEF ChairGoesOn
  <2> QED
    BY <2>1, <2>2 DEF DataInv
<1> QED
  BY <1>3, <1>4, <1>5, PageSteps

(* A call under way is about a ride that the page was told of. *)
LEMMA ActWaits ==
  ASSUME IInv, UNCHANGED act, ChairGoesOn, chairRide' \in Nat, chairSent' \in Nat,
         chairRide' = chairRide /\ Steps(chairRide) = 1 => Steps(chairRide)' = 1
  PROVE  ActInv'
<1>1. chairRide \in Nat /\ chairSent \in Nat
  BY Shapes DEF IInv
<1>2. SUFFICES ASSUME act # NoAct PROVE ActInv'
  BY DEF ActInv
<1>3. /\ act \in [pc : {"fetch", "reading", "posting"}, ride : 1 .. chairRide,
                  status : {"ENROUTE", "CARRYING"}]
      /\ act.ride = chairRide => chairSent >= 1
      /\ act.ride = chairRide /\ act.pc = "posting" /\ act.status = "ENROUTE" =>
           Steps(chairRide) = 1
  BY <1>2 DEF IInv, ActInv
<1>4. CASE chairRide' = chairRide /\ chairSent <= chairSent'
  <2>1. act.ride = chairRide => chairSent' >= 1
    BY <1>1, <1>3, <1>4
  <2> QED
    BY <1>3, <1>4, <2>1 DEF ActInv
<1>5. CASE chairRide < chairRide'
  <2>1. act.ride \in 1 .. chairRide' /\ act.ride # chairRide'
    BY <1>1, <1>3, <1>5
  <2>2. act \in [pc : {"fetch", "reading", "posting"}, ride : 1 .. chairRide',
                 status : {"ENROUTE", "CARRYING"}]
    BY <1>3, <2>1
  <2> QED
    BY <2>1, <2>2 DEF ActInv
<1> QED
  BY <1>4, <1>5 DEF ChairGoesOn

(* The call that the page begins is about the ride that it shows. *)
LEMMA CallBegins ==
  ASSUME IInv, NEW status \in {"ENROUTE", "CARRYING"}, act' = Call(status), data # Nothing,
         chairRide' = chairRide, chairSent' = chairSent
  PROVE  ActInv'
<1>1. data \in Rides \X Status /\ chairRide \in Nat
  BY Shapes DEF IInv
<1>2. data[1] \in 1 .. chairRide
  BY <1>1 DEF IInv, DataInv, Rides
<1>3. data[1] = chairRide => chairSent >= 1
  BY <1>1, <1>2 DEF IInv, DataInv
<1>4. act' = [pc |-> "fetch", ride |-> data[1], status |-> status]
  BY DEF Call
<1>5. /\ act'.pc = "fetch" /\ act'.ride = data[1]
      /\ act' \in [pc : {"fetch", "reading", "posting"}, ride : 1 .. chairRide,
                   status : {"ENROUTE", "CARRYING"}]
  BY <1>2, <1>4
<1> QED
  BY <1>3, <1>5 DEF ActInv

LEMMA ActKept ==
  ASSUME IInv, Next
  PROVE  ActInv'
<1>1. TypeOK /\ LogInv /\ SentInv /\ DataInv /\ ActInv
  BY DEF IInv
<1>2. RidesTyped' /\ chairRide' \in Nat /\ chairSent' \in Nat
  <2>1. RidesTyped'
    BY RidesKept
  <2> QED
    BY <2>1 DEF RidesTyped
<1>3. ChairGoesOn
  BY ChairKept
<1>4. ASSUME UNCHANGED act, chairRide' = chairRide /\ Steps(chairRide) = 1 => Steps(chairRide)' = 1
      PROVE  ActInv'
  BY <1>2, <1>3, <1>4, ActWaits
<1>5. ASSUME UNCHANGED act, UNCHANGED log
      PROVE  ActInv'
  <2>1. chairRide' = chairRide => Steps(chairRide)' = Steps(chairRide)
    BY <1>5 DEF Steps
  <2> QED
    BY <1>4, <1>5, <2>1
<1>6. ASSUME act' = NoAct
      PROVE  ActInv'
  BY <1>6 DEF ActInv
<1>7. CASE PostRides
  <2>1. UNCHANGED act
    BY <1>7 DEF PostRides, callVars
  <2>2. CASE UNCHANGED log
    BY <1>5, <2>1, <2>2
  <2>3. CASE NewRide
    <3>1. Steps(chairRide) = 1 /\ chairRide' = chairRide => Steps(chairRide)' = 1
      <4>1. chairRide \in Nat /\ userRide \in Nat /\ chairRide <= userRide
        BY <1>1, Shapes
      <4>2. chairRide # userRide + 1
        BY <4>1
      <4>3. log'[chairRide] = log[chairRide]
        BY <2>3, <4>2 DEF NewRide
      <4> QED
        BY <4>3 DEF Steps
    <3> QED
      BY <1>4, <2>1, <3>1
  <2> QED
    BY <1>7, <2>2, <2>3, RequestIsNew DEF serverVars
<1>8. CASE PostEvaluation
  <2>1. UNCHANGED act
    BY <1>8 DEF PostEvaluation, callVars
  <2>2. Steps(chairRide) = 1 /\ chairRide' = chairRide => Steps(chairRide)' = 1
    <3>1. CASE UNCHANGED log
      BY <3>1 DEF Steps
    <3>2. CASE /\ Latest(evaluating) = "ARRIVED"
               /\ log' = [log EXCEPT ![evaluating] = Append(@, "COMPLETED")]
      <4>1. evaluating \in 0 .. userRide
        BY <1>1 DEF TypeOK
      <4>2. Steps(evaluating) = 5
        BY <1>1, <3>2, <4>1, LatestByLength
      <4>3. chairRide # evaluating => log'[chairRide] = log[chairRide]
        BY <3>2
      <4> QED
        BY <4>2, <4>3 DEF Steps
    <3> QED
      BY <1>8, <3>1, <3>2 DEF PostEvaluation
  <2> QED
    BY <1>4, <2>1, <2>2
<1>9. CASE PostCoordinate
  <2>1. PICK c \in posted :
          /\ log' = IF Reached(c) = "" THEN log
                                       ELSE [log EXCEPT ![chairRide] = Append(@, Reached(c))]
          /\ act' = IF carryOn /\ data[1] # 0 THEN Call("CARRYING") ELSE act
    BY <1>9 DEF PostCoordinate
  <2>2. chairRide' = chairRide /\ chairSent' = chairSent
    BY <1>9 DEF PostCoordinate
  <2>3. CASE carryOn /\ data[1] # 0
    <3>1. act' = Call("CARRYING") /\ data # Nothing
      BY <2>1, <2>3, NothingIsEmpty
    <3> QED
      BY <2>2, <3>1, CallBegins
  <2>4. CASE ~(carryOn /\ data[1] # 0)
    <3>1. UNCHANGED act
      BY <2>1, <2>4
    <3>2. Steps(chairRide) = 1 => Steps(chairRide)' = 1
      <4>1. CASE Reached(c) = ""
        BY <2>1, <2>2, <4>1 DEF Steps
      <4>2. CASE Reached(c) # ""
        <5>1. Steps(chairRide) \in {2, 4}
          BY <1>1, <4>2, ReachedNext
        <5> QED
          BY <5>1
      <4> QED
        BY <4>1, <4>2
    <3> QED
      BY <1>4, <3>1, <3>2
  <2> QED
    BY <2>3, <2>4
<1>10. CASE Tick
  <2>1. UNCHANGED log /\ chairRide' = chairRide /\ chairSent' = chairSent /\ data # Nothing
    BY <1>1, <1>10 DEF Tick, serverVars, DataInv
  <2>2. act' \in {act, NoAct, Call("ENROUTE"), Call("CARRYING")}
    BY <1>10 DEF Tick
  <2> QED
    BY <1>5, <1>6, <2>1, <2>2, CallBegins
<1>11. CASE Probe
  <2>1. /\ act.pc = "fetch" /\ act' = [act EXCEPT !.pc = "reading"]
        /\ UNCHANGED <<log, chairRide, chairSent>>
    BY <1>11 DEF Probe, serverVars
  <2>2. act # NoAct
    BY <2>1, NoActIdle
  <2>3. /\ act \in [pc : {"fetch", "reading", "posting"}, ride : 1 .. chairRide,
                    status : {"ENROUTE", "CARRYING"}]
        /\ act.ride = chairRide => chairSent >= 1
    BY <1>1, <2>2 DEF ActInv
  <2>4. /\ act' \in [pc : {"fetch", "reading", "posting"}, ride : 1 .. chairRide,
                     status : {"ENROUTE", "CARRYING"}]
        /\ act'.pc = "reading" /\ act'.ride = act.ride
    BY <2>1, <2>3
  <2> QED
    BY <2>1, <2>3, <2>4 DEF ActInv
<1>12. CASE ProbeAnswered
  <2>1. /\ act.pc = "reading" /\ HasData /\ Mark /\ UNCHANGED <<log, chairRide>>
        /\ act' = IF Message[2] = (IF act.status = "ENROUTE" THEN "MATCHING" ELSE "PICKUP")
                    THEN [act EXCEPT !.pc = "posting"] ELSE NoAct
    BY <1>12 DEF ProbeAnswered
  <2>2. act # NoAct
    BY <2>1, NoActIdle
  <2>3. /\ act \in [pc : {"fetch", "reading", "posting"}, ride : 1 .. chairRide,
                    status : {"ENROUTE", "CARRYING"}]
        /\ act.ride = chairRide => chairSent >= 1
    BY <1>1, <2>2 DEF ActInv
  <2>4. /\ chairSent' \in 1 .. Steps(chairRide) /\ chairSent' \in 1 .. 6
        /\ chairSent >= 1 /\ Message[2] = "MATCHING" => Steps(chairRide) = 1
    BY <1>1, <2>1, MessageFacts
  <2>5. CASE Message[2] = (IF act.status = "ENROUTE" THEN "MATCHING" ELSE "PICKUP")
    <3>1. /\ act' \in [pc : {"fetch", "reading", "posting"}, ride : 1 .. chairRide,
                       status : {"ENROUTE", "CARRYING"}]
          /\ act'.ride = act.ride /\ act'.status = act.status
      BY <2>1, <2>3, <2>5
    <3>2. act.ride = chairRide /\ act.status = "ENROUTE" => Steps(chairRide) = 1
      BY <2>3, <2>4, <2>5
    <3>3. Steps(chairRide)' = Steps(chairRide) /\ chairSent' >= 1
      BY <2>1, <2>4 DEF Steps
    <3> QED
      BY <2>1, <3>1, <3>2, <3>3 DEF ActInv
  <2>6. CASE Message[2] # (IF act.status = "ENROUTE" THEN "MATCHING" ELSE "PICKUP")
    BY <1>6, <2>1, <2>6
  <2> QED
    BY <2>5, <2>6
<1>13. CASE ProbeReplaced \/ PostStatus \/ LoseAct
  BY <1>6, <1>13 DEF ProbeReplaced, PostStatus, LoseAct
<1>14. CASE User \/ ClientNotified \/ RideRequested \/ Fallback
  BY <1>5, <1>14 DEF User, RequestRide, Evaluate, ClientNotified, RideRequested, Fallback,
                     callVars, serverVars
<1>15. CASE Server \/ Connection
  BY <1>5, <1>15 DEF Server, Match, SourceTold, ProbeTold, Connection, ProxyTimeout,
                     Reconnect, callVars, serverVars
<1>16. CASE LoseRides \/ LoseCoordinate \/ LoseSource
  BY <1>5, <1>16 DEF LoseRides, LoseCoordinate, LoseSource, callVars, serverVars
<1> QED
  BY <1>7, <1>8, <1>9, <1>10, <1>11, <1>12, <1>13, <1>14, <1>15, <1>16
  DEF Next, Client, Timers, Calls, Losses

(* Only the EventSource carries what the page is told. *)
LEMMA StreamSteps ==
  ASSUME Next
  PROVE  \/ SourceTold \/ Match \/ stream' # "events" \/ initial'
         \/ UNCHANGED <<stream, initial, data, chairRide, chairSent>>
<1>1. CASE User \/ Client
  BY <1>1 DEF User, Client, RequestRide, Evaluate, PostRides, PostEvaluation, ClientNotified,
              RideRequested, streamVars, serverVars, pageVars
<1>2. CASE Timers
  BY <1>2 DEF Timers, Tick, Fallback, streamVars, serverVars
<1>3. CASE Calls
  BY <1>3 DEF Calls, PostCoordinate, Probe, ProbeAnswered, ProbeReplaced, PostStatus,
              streamVars, serverVars, pageVars
<1>4. CASE ProbeTold \/ Connection
  BY <1>4 DEF ProbeTold, Connection, ProxyTimeout, Reconnect
<1>5. CASE Losses
  BY <1>5 DEF Losses, LoseRides, LoseCoordinate, LoseAct, LoseSource, streamVars,
              serverVars, pageVars
<1> QED
  BY <1>1, <1>2, <1>3, <1>4, <1>5 DEF Next, Server

LEMMA StreamKept ==
  ASSUME IInv, Next
  PROVE  StreamInv'
<1>1. TypeOK /\ LogInv /\ SentInv /\ StreamInv
  BY DEF IInv
<1>2. CASE SourceTold
  <2>1. data' = Message /\ HasData /\ Mark /\ UNCHANGED <<log, chairRide>>
    BY <1>2, ToldData DEF SourceTold
  <2>2. Message = <<chairRide, log[chairRide][chairSent']>>
    BY <1>1, <2>1, MessageFacts
  <2> QED
    BY <2>1, <2>2 DEF StreamInv
<1>3. CASE Match
  <2>1. ~(chairSent' >= 1)
    BY <1>3 DEF Match
  <2> QED
    BY <2>1 DEF StreamInv
<1>4. CASE stream' # "events" \/ initial'
  BY <1>4 DEF StreamInv
<1>5. CASE UNCHANGED <<stream, initial, data, chairRide, chairSent>>
  <2>1. SUFFICES ASSUME stream = "events", ~initial, chairRide # 0, chairSent >= 1
                 PROVE  data = <<chairRide, log'[chairRide][chairSent]>>
    BY <1>5 DEF StreamInv
  <2>2. data = <<chairRide, log[chairRide][chairSent]>>
    BY <1>1, <2>1 DEF StreamInv
  <2>3. chairRide \in Rides /\ chairSent \in 1 .. Steps(chairRide)
    <3>1. chairRide \in 1 .. userRide /\ chairSent \in Nat
      BY <1>1, <2>1, Shapes
    <3>2. chairRide \in Rides /\ Steps(chairRide) \in 1 .. 6
      BY <1>1, <3>1, Shapes
    <3>3. chairSent <= Steps(chairRide)
      BY <1>1, <2>1 DEF SentInv
    <3> QED
      BY <2>1, <3>1, <3>2, <3>3
  <2>4. log'[chairRide][chairSent] = log[chairRide][chairSent]
    <3>1. Grown
      BY RidesKept
    <3> QED
      BY <2>3, <3>1 DEF Grown
  <2> QED
    BY <2>2, <2>4
<1> QED
  BY <1>2, <1>3, <1>4, <1>5, StreamSteps

-----------------------------------------------------------------------------
(* The page of the user. *)

(* The client page was told the status that is marked last. *)
HeardInv == userRide # 0 /\ appSent >= 1 => seen = <<userRide, log[userRide][appSent]>>

(* A ride that shows COMPLETED before it was told so is being evaluated. *)
Evaluated(r) == evaluating = r \/ r \in unevaluated \/ Steps(r) = 6

ShownInv ==
  /\ shown = "" => seen = Nothing
  /\ shown \in {"ENROUTE", "PICKUP", "CARRYING", "ARRIVED"} => seen[2] = shown
  /\ shown = "COMPLETED" =>
       seen[2] = "COMPLETED" \/ (seen[2] = "ARRIVED" /\ Evaluated(seen[1]))

LEMMA ClientParts ==
  ClientInv <=> /\ HeardInv /\ ShownInv /\ seen[1] <= userRide
                /\ (asking = "sent" => userRide < MaxRides)
BY DEF ClientInv, HeardInv, ShownInv, Evaluated

LEMMA ClientPartsNext ==
  ASSUME HeardInv', ShownInv', seen'[1] <= userRide',
         asking' = "sent" => userRide' < MaxRides
  PROVE  ClientInv'
BY DEF ClientInv, HeardInv, ShownInv, Evaluated

(* What the client page knows stays true while statuses are added. *)
LEMMA HeardStays ==
  ASSUME IInv, Grown, UNCHANGED <<userRide, appSent, seen>>
  PROVE  HeardInv'
<1>1. SUFFICES ASSUME userRide # 0, appSent >= 1
               PROVE  seen = <<userRide, log'[userRide][appSent]>>
  BY DEF HeardInv
<1>2. TypeOK /\ LogInv /\ SentInv
  BY DEF IInv
<1>3. userRide \in 1 .. userRide /\ appSent \in Nat
  BY <1>1, <1>2, Shapes
<1>4. userRide \in Rides /\ Steps(userRide) \in 1 .. 6
  BY <1>2, <1>3, Shapes
<1>5. appSent <= Steps(userRide)
  BY <1>1, <1>2 DEF SentInv
<1>6. appSent \in 1 .. Steps(userRide)
  BY <1>1, <1>3, <1>4, <1>5
<1>7. log'[userRide][appSent] = log[userRide][appSent]
  BY <1>4, <1>6 DEF Grown
<1>8. seen = <<userRide, log[userRide][appSent]>>
  BY <1>1, ClientParts DEF IInv, HeardInv
<1> QED
  BY <1>7, <1>8

LEMMA SixStays ==
  ASSUME IInv, RidesTyped', LogInv', Grown, NEW r \in Rides, Steps(r) = 6
  PROVE  Steps(r)' = 6
<1>1. Steps(r) <= Steps(r)'
  BY DEF Grown
<1>2. Steps(r)' <= 6 /\ Steps(r)' \in Nat
  BY DEF RidesTyped, LogInv, Ordered, Steps
<1> QED
  BY <1>1, <1>2

LEMMA ShownStays ==
  ASSUME IInv, RidesTyped', LogInv', Grown, UNCHANGED <<seen, shown>>,
         \A r \in Rides : evaluating = r \/ r \in unevaluated => Evaluated(r)'
  PROVE  ShownInv'
<1>1. ShownInv
  BY ClientParts DEF IInv
<1>2. SUFFICES ASSUME shown = "COMPLETED", seen[2] = "ARRIVED", Evaluated(seen[1])
               PROVE  Evaluated(seen[1])'
  BY <1>1 DEF ShownInv
<1>3. seen \in Rides \X Status
  BY <1>2, Shapes, NothingIsEmpty DEF IInv
<1>4. PICK r \in Rides : r = seen[1]
  BY <1>3
<1>5. Evaluated(r)'
  <2>1. CASE Steps(r) = 6
    BY <2>1, SixStays DEF Evaluated
  <2> QED
    BY <1>2, <1>4, <2>1 DEF Evaluated
<1>6. r = seen'[1]
  BY <1>4
<1> QED
  BY <1>5, <1>6 DEF Evaluated, Steps

(* The steps of others. *)
LEMMA OthersKeepClient ==
  ASSUME IInv, Next, UNCHANGED <<clientVars, userRide, appSent, unevaluated>>
  PROVE  ClientInv'
<1>1. RidesTyped' /\ LogInv' /\ Grown
  BY RidesKept
<1>2. UNCHANGED <<seen, shown, asking, evaluating, userRide, appSent, unevaluated>>
  BY DEF clientVars
<1>3. HeardInv'
  BY <1>1, <1>2, HeardStays
<1>4. ShownInv'
  <2>1. \A r \in Rides : evaluating = r \/ r \in unevaluated => Evaluated(r)'
    BY <1>2 DEF Evaluated
  <2> QED
    BY <1>1, <1>2, <2>1, ShownStays
<1>5. seen[1] <= userRide /\ (asking = "sent" => userRide < MaxRides)
  BY DEF IInv, ClientInv
<1> QED
  BY <1>2, <1>3, <1>4, <1>5, ClientPartsNext

LEMMA NoticeKeepsClient ==
  ASSUME IInv, ClientNotified
  PROVE  ClientInv'
<1>1. TypeOK /\ LogInv /\ SentInv
  BY DEF IInv
<1>2. /\ userRide \in Rides /\ appSent' = appSent + 1 /\ appSent' \in 1 .. Steps(userRide)
      /\ appSent' \in 1 .. 6
      /\ log[userRide][appSent'] = Lifecycle[appSent']
      /\ UNCHANGED <<log, userRide, chairRide, chairSent>>
  BY <1>1, NoticeFacts
<1>3. PICK status : status = Lifecycle[appSent']
  OBVIOUS
<1>4. /\ seen' = <<userRide, status>>
      /\ shown' = IF status # seen[2] THEN status ELSE shown
      /\ UNCHANGED asking
  BY <1>2, <1>3 DEF ClientNotified
<1>5. /\ status \in Status
      /\ status = "MATCHING" <=> appSent' = 1
      /\ status = "ARRIVED" <=> appSent' = 5
  <2>1. \A k \in 1 .. 6 : /\ Lifecycle[k] \in Status
                          /\ Lifecycle[k] = "MATCHING" <=> k = 1
                          /\ Lifecycle[k] = "ARRIVED" <=> k = 5
    BY DEF Lifecycle, Status
  <2> QED
    BY <1>2, <1>3, <2>1
<1>6. HeardInv'
  BY <1>2, <1>3, <1>4 DEF HeardInv
<1>7. ~(status = "ARRIVED" /\ seen[2] = "ARRIVED")
  <2>1. SUFFICES ASSUME status = "ARRIVED", seen[2] = "ARRIVED" PROVE FALSE
    OBVIOUS
  <2>2. appSent = 4 /\ userRide # 0
    <3>1. appSent \in Nat /\ appSent + 1 = 5 /\ userRide \in 1 .. MaxRides
      BY <1>1, <1>2, <1>5, <2>1, Shapes DEF Rides
    <3> QED
      BY <3>1
  <2>3. seen = <<userRide, log[userRide][appSent]>>
    BY <2>2, ClientParts DEF IInv, HeardInv
  <2>4. log[userRide][4] = "CARRYING"
    <3>1. 4 \in 1 .. Steps(userRide)
      <4>1. userRide \in 1 .. userRide
        BY <1>1, <1>2, <2>2, Shapes
      <4>2. Steps(userRide) \in Nat
        <5>1. Steps(userRide) \in 1 .. 6
          BY <1>1, <4>1, Shapes
        <5> QED
          BY <5>1
      <4>3. appSent' = 5
        BY <1>2, <2>2
      <4> QED
        BY <1>2, <4>2, <4>3
    <3>2. \A n \in 1 .. Steps(userRide) : log[userRide][n] = Lifecycle[n]
      BY <1>1, <1>2 DEF LogInv, Ordered, Steps
    <3>3. log[userRide][4] = Lifecycle[4]
      BY <3>1, <3>2
    <3> QED
      BY <3>3 DEF Lifecycle
  <2> QED
    BY <2>1, <2>2, <2>3, <2>4
<1>8. ShownInv'
  <2>1. ShownInv
    BY ClientParts DEF IInv
  <2>2. seen'[1] = userRide /\ seen'[2] = status
    BY <1>4
  <2>3. CASE status # seen[2]
    <3>1. shown' = status /\ status # ""
      BY <1>4, <1>5, <2>3 DEF Status
    <3> QED
      BY <2>2, <3>1 DEF ShownInv
  <2>4. CASE status = seen[2]
    <3>1. shown' = shown
      BY <1>4, <2>4
    <3>2. shown # ""
      <4>1. "" \notin Status
        BY DEF Status
      <4> QED
        BY <1>5, <2>1, <2>4, <4>1, NothingIsEmpty DEF ShownInv
    <3>3. shown = "COMPLETED" => status = "COMPLETED"
      BY <1>7, <2>1, <2>4 DEF ShownInv
    <3> QED
      BY <2>1, <2>2, <2>4, <3>1, <3>2, <3>3 DEF ShownInv
  <2> QED
    BY <2>3, <2>4
<1>9. seen'[1] <= userRide' /\ (asking' = "sent" => userRide' < MaxRides)
  <2>1. userRide \in Nat /\ (asking = "sent" => userRide < MaxRides)
    <3>1. asking = "sent" => userRide < MaxRides
      BY ClientParts DEF IInv
    <3> QED
      BY <1>1, <3>1, Shapes
  <2> QED
    BY <1>2, <1>4, <2>1
<1> QED
  BY <1>6, <1>8, <1>9, ClientPartsNext

LEMMA UserKeepsClient ==
  ASSUME IInv, Next, User \/ PostRides \/ PostEvaluation
  PROVE  ClientInv'
<1>1. TypeOK /\ LogInv /\ SentInv /\ ShownInv /\ HeardInv
  BY ClientParts DEF IInv
<1>2. RidesTyped' /\ LogInv' /\ Grown
  BY RidesKept
<1>3. /\ seen[1] <= userRide /\ (asking = "sent" => userRide < MaxRides)
      /\ userRide \in Nat /\ userRide' \in Nat /\ seen[1] \in Nat
  <2>1. seen = Nothing \/ seen \in Rides \X Status
    BY <1>1, Shapes
  <2>2. seen[1] \in Nat
    <3>1. seen[1] \in Rides \/ seen[1] = 0
      BY <2>1, NothingIsEmpty
    <3> QED
      BY <3>1, SimulatorAssumption DEF Rides
  <2> QED
    <3>1. seen[1] <= userRide /\ (asking = "sent" => userRide < MaxRides)
      BY ClientParts DEF IInv
    <3>2. userRide \in Nat
      BY <1>1, Shapes
    <3>3. userRide' \in Nat
      BY <1>2 DEF RidesTyped
    <3> QED
      BY <2>2, <3>1, <3>2, <3>3
<1>4. CASE RequestRide
  <2>1. UNCHANGED <<userRide, appSent, seen, log, evaluating, unevaluated>>
    BY <1>4 DEF RequestRide, serverVars, historyVars
  <2>2. HeardInv'
    BY <1>2, <2>1, HeardStays
  <2>3. shown' = "MATCHING" /\ userRide < MaxRides
    BY <1>4 DEF RequestRide
  <2>4. ShownInv'
    BY <2>3 DEF ShownInv
  <2> QED
    BY <1>3, <2>1, <2>2, <2>3, <2>4, ClientPartsNext
<1>5. CASE Evaluate
  <2>1. UNCHANGED <<userRide, appSent, seen, log, asking>>
    BY <1>5 DEF Evaluate, serverVars
  <2>2. HeardInv'
    BY <1>2, <2>1, HeardStays
  <2>3. shown' = "COMPLETED" /\ shown = "ARRIVED" /\ evaluating' = seen[1]
    BY <1>5 DEF Evaluate
  <2>4. seen[2] = "ARRIVED"
    BY <1>1, <2>3 DEF ShownInv
  <2>5. ShownInv'
    BY <2>1, <2>3, <2>4 DEF ShownInv, Evaluated
  <2> QED
    BY <1>3, <2>1, <2>2, <2>5, ClientPartsNext
<1>6. CASE PostRides
  <2>1. /\ UNCHANGED <<seen, shown, evaluating, unevaluated>>
        /\ asking' # "sent"
    BY <1>6 DEF PostRides, historyVars
  <2>2. ShownInv'
    <3>1. \A r \in Rides : evaluating = r \/ r \in unevaluated => Evaluated(r)'
      BY <2>1 DEF Evaluated
    <3> QED
      BY <1>2, <2>1, <3>1, ShownStays
  <2>3. HeardInv'
    <3>1. CASE NewRide
      <4>1. ~(appSent' >= 1)
        BY <3>1 DEF NewRide
      <4> QED
        BY <4>1 DEF HeardInv
    <3>2. CASE UNCHANGED serverVars
      BY <1>2, <2>1, <3>2, HeardStays DEF serverVars
    <3> QED
      BY <1>6, <3>1, <3>2, RequestIsNew DEF serverVars
  <2>4. seen'[1] <= userRide'
    <3>1. userRide <= userRide'
      BY <1>2 DEF Grown
    <3> QED
      BY <1>3, <2>1, <3>1
  <2> QED
    BY <2>1, <2>2, <2>3, <2>4, ClientPartsNext
<1>7. CASE PostEvaluation
  <2>1. UNCHANGED <<userRide, appSent, seen, shown, asking>>
    BY <1>7 DEF PostEvaluation
  <2>2. HeardInv'
    BY <1>2, <2>1, HeardStays
  <2>3. \A r \in Rides : evaluating = r \/ r \in unevaluated => Evaluated(r)'
    <3>1. CASE unevaluated' = unevaluated \cup {evaluating}
      BY <3>1 DEF Evaluated
    <3>2. CASE /\ Latest(evaluating) = "ARRIVED" /\ UNCHANGED unevaluated
               /\ log' = [log EXCEPT ![evaluating] = Append(@, "COMPLETED")]
      <4>1. ASSUME NEW r \in Rides, evaluating = r PROVE Steps(r)' = 6
        <5>1. evaluating \in 0 .. userRide
          BY <1>1 DEF TypeOK
        <5>2. Steps(r) = 5
          BY <1>1, <3>2, <4>1, <5>1, LatestByLength
        <5>3. log[r] \in Seq(Status) /\ log'[r] = Append(log[r], "COMPLETED")
          BY <1>1, <3>2, <4>1 DEF TypeOK
        <5>4. Len(log'[r]) = Len(log[r]) + 1
          BY <5>3 DEF Status
        <5> QED
          BY <5>2, <5>4 DEF Steps
      <4> QED
        BY <3>2, <4>1 DEF Evaluated
    <3> QED
      BY <1>7, <3>1, <3>2 DEF PostEvaluation
  <2>4. ShownInv'
    BY <1>2, <2>1, <2>3, ShownStays
  <2> QED
    BY <1>3, <2>1, <2>2, <2>4, ClientPartsNext
<1> QED
  BY <1>4, <1>5, <1>6, <1>7 DEF User

LEMMA ClientKept ==
  ASSUME IInv, Next
  PROVE  ClientInv'
<1>1. CASE User \/ PostRides \/ PostEvaluation
  BY <1>1, UserKeepsClient
<1>2. CASE ClientNotified
  BY <1>2, NoticeKeepsClient
<1>3. CASE RideRequested \/ LoseRides
  <2>1. UNCHANGED <<log, userRide, appSent, seen, shown, evaluating, unevaluated>>
    BY <1>3 DEF RideRequested, LoseRides, serverVars, historyVars
  <2>2. asking' # "sent"
    BY <1>3 DEF RideRequested, LoseRides
  <2>3. RidesTyped' /\ LogInv' /\ Grown
    BY RidesKept
  <2>4. HeardInv'
    BY <2>1, <2>3, HeardStays
  <2>5. ShownInv'
    <3>1. \A r \in Rides : evaluating = r \/ r \in unevaluated => Evaluated(r)'
      BY <2>1 DEF Evaluated
    <3> QED
      BY <2>1, <2>3, <3>1, ShownStays
  <2>6. seen'[1] <= userRide'
    BY <2>1, ClientParts DEF IInv
  <2> QED
    BY <2>2, <2>4, <2>5, <2>6, ClientPartsNext
<1>4. CASE Timers
  BY <1>4, OthersKeepClient DEF Timers, Tick, Fallback, serverVars, historyVars
<1>5. CASE Calls
  BY <1>5, OthersKeepClient DEF Calls, PostCoordinate, Probe, ProbeAnswered, ProbeReplaced,
     PostStatus, serverVars, historyVars
<1>6. CASE Server \/ Connection
  BY <1>6, OthersKeepClient DEF Server, Match, SourceTold, ProbeTold, Connection,
     ProxyTimeout, Reconnect, serverVars, historyVars
<1>7. CASE LoseCoordinate \/ LoseAct \/ LoseSource
  BY <1>7, OthersKeepClient DEF LoseCoordinate, LoseAct, LoseSource, serverVars
<1> QED
  BY <1>1, <1>2, <1>3, <1>4, <1>5, <1>6, <1>7 DEF Next, Client, Losses

-----------------------------------------------------------------------------
(* The types of the rest. *)

PageTyped ==
  /\ data \in (Rides \X Status) \cup {Nothing}
  /\ place \in Places /\ posted \subseteq Places
  /\ ticking \in BOOLEAN /\ timer \in BOOLEAN /\ carryOn \in BOOLEAN

ClientTyped ==
  /\ seen \in (Rides \X Status) \cup {Nothing}
  /\ currentRide \in 0 .. userRide /\ evaluating \in 0 .. userRide
  /\ shown \in Status \cup {""} /\ asking \in {"none", "sent", "created"}
  /\ unevaluated \subseteq Rides

StreamTyped ==
  /\ stream \in {"events", "probe", "none"} /\ source \in {"open", "broken"}
  /\ initial \in BOOLEAN /\ lost \in 0 .. MaxLost /\ unaccepted \subseteq Rides

LEMMA TypeParts ==
  ASSUME TypeOK
  PROVE  PageTyped /\ ClientTyped /\ StreamTyped
<1>1. /\ place \in Places /\ posted \subseteq Places
      /\ {data, seen} \subseteq (Rides \X Status) \cup {Nothing}
      /\ {initial, ticking, timer, carryOn} \subseteq BOOLEAN
  BY DEF TypeOK
<1>2. PageTyped
  BY <1>1 DEF PageTyped
<1>3. /\ currentRide \in 0 .. userRide /\ evaluating \in 0 .. userRide
      /\ shown \in Status \cup {""} /\ asking \in {"none", "sent", "created"}
      /\ unaccepted \cup unevaluated \subseteq Rides
  BY DEF TypeOK
<1>4. ClientTyped
  BY <1>1, <1>3 DEF ClientTyped
<1>5. /\ stream \in {"events", "probe", "none"} /\ source \in {"open", "broken"}
      /\ lost \in 0 .. MaxLost
  BY DEF TypeOK
<1>6. StreamTyped
  BY <1>1, <1>3, <1>5 DEF StreamTyped
<1> QED
  BY <1>2, <1>4, <1>6

LEMMA TypePartsNext ==
  ASSUME RidesTyped', PageTyped', ClientTyped', StreamTyped', ActInv'
  PROVE  TypeOK'
<1>1. act'.pc \in {"none", "fetch", "reading", "posting"}
  BY NoActIdle DEF ActInv
<1>2. {data, seen}' \subseteq (Rides \X Status) \cup {Nothing}
  BY DEF PageTyped, ClientTyped
<1>3. {initial, ticking, timer, carryOn}' \subseteq BOOLEAN
  BY DEF PageTyped, StreamTyped
<1>4. unaccepted' \cup unevaluated' \subseteq Rides
  BY DEF ClientTyped, StreamTyped
<1> QED
  BY <1>1, <1>2, <1>3, <1>4 DEF TypeOK, RidesTyped, PageTyped, ClientTyped, StreamTyped

(* A step towards a place is between two places. *)
LEMMA TowardStays ==
  ASSUME NEW from \in Places, NEW to \in Places, from # to
  PROVE  Toward(from, to) \in Places
<1>1. from \in Int /\ to \in Int
  BY SimulatorAssumption
<1>2. CASE from < to
  <2>1. from + 1 \in from .. to /\ Toward(from, to) = from + 1
    BY <1>1, <1>2 DEF Toward
  <2>2. from .. to \subseteq Places
    BY SimulatorAssumption
  <2> QED
    BY <2>1, <2>2
<1>3. CASE to < from
  <2>1. from - 1 \in to .. from /\ Toward(from, to) = from - 1
    BY <1>1, <1>3 DEF Toward
  <2>2. to .. from \subseteq Places
    BY SimulatorAssumption
  <2> QED
    BY <2>1, <2>2
<1> QED
  BY <1>1, <1>2, <1>3

LEMMA PageTypeKept ==
  ASSUME IInv, Next
  PROVE  PageTyped'
<1>1. PageTyped /\ (ticking \/ timer => data # Nothing)
  BY TypeParts DEF IInv, DataInv
<1>2. Pickup \in [Rides -> Places] /\ Destination \in [Rides -> Places]
  BY SimulatorAssumption
<1>3. data # Nothing => data[1] \in Rides
  BY <1>1 DEF PageTyped
<1>4. CASE SourceTold
  <2>1. Message \in Rides \X Status
    BY <1>4, MessageFacts DEF IInv, SourceTold
  <2>2. Told(Message) /\ UNCHANGED <<posted, carryOn>>
    BY <1>4 DEF SourceTold, callVars
  <2>3. data' = Message
    BY <2>2, ToldData
  <2>4. CASE UNCHANGED <<data, place, ticking, timer>>
    BY <1>1, <2>2, <2>4 DEF PageTyped
  <2>5. CASE Message # data
    <3>1. place' \in Places
      <4>1. place' \in {Pickup[Message[1]], Destination[Message[1]], place}
        BY <2>2, <2>5 DEF Told
      <4> QED
        BY <1>1, <1>2, <2>1, <4>1 DEF PageTyped
    <3>2. ticking' \in BOOLEAN /\ timer' \in BOOLEAN
      <4>1. ticking' = Ticks(Message, currentRide)
        BY <2>2, <2>5 DEF Told
      <4>2. timer' = (Message[2] \in {"ENROUTE", "PICKUP", "CARRYING"})
        BY <2>2, <2>5 DEF Told
      <4> QED
        BY <4>1, <4>2 DEF Ticks, Another
    <3> QED
      BY <1>1, <2>1, <2>2, <2>3, <3>1, <3>2 DEF PageTyped
  <2> QED
    BY <2>2, <2>4, <2>5 DEF Told
<1>5. CASE RideRequested
  <2>1. UNCHANGED <<data, place, posted, carryOn>>
    BY <1>5 DEF RideRequested, callVars
  <2>2. ticking' \in BOOLEAN /\ timer' \in BOOLEAN
    BY <1>5 DEF RideRequested, Ticks, Another
  <2> QED
    BY <1>1, <2>1, <2>2 DEF PageTyped
<1>6. CASE Tick
  <2>1. /\ ticking /\ posted' = {place} /\ UNCHANGED <<data, timer, carryOn>>
        /\ ticking' = ticking \/ ticking' = FALSE
    BY <1>6 DEF Tick
  <2>2. place' \in Places
    <3>1. CASE place' = place
      BY <1>1, <3>1 DEF PageTyped
    <3>2. CASE place # Goal /\ place' = Toward(place, Goal)
      <4>1. Goal \in Places
        BY <1>1, <1>2, <1>3, <2>1 DEF Goal
      <4> QED
        BY <1>1, <3>2, <4>1, TowardStays DEF PageTyped
    <3> QED
      BY <1>6, <3>1, <3>2 DEF Tick
  <2> QED
    BY <1>1, <2>1, <2>2 DEF PageTyped
<1>7. CASE Fallback
  <2>1. /\ timer /\ timer' = FALSE /\ UNCHANGED <<data, place, ticking>>
        /\ posted' = {IF data[2] = "CARRYING" THEN Destination[data[1]] ELSE Pickup[data[1]]}
        /\ carryOn' = (data[2] = "PICKUP")
    BY <1>7 DEF Fallback
  <2>2. posted' \subseteq Places
    BY <1>1, <1>2, <1>3, <2>1
  <2> QED
    BY <1>1, <2>1, <2>2 DEF PageTyped
<1>8. CASE PostCoordinate \/ LoseCoordinate
  <2>1. /\ UNCHANGED <<data, place, ticking, timer>>
        /\ posted' = {} /\ carryOn' = FALSE
    BY <1>8 DEF PostCoordinate, LoseCoordinate, pageVars
  <2> QED
    BY <1>1, <2>1 DEF PageTyped
<1>9. CASE UNCHANGED <<data, place, ticking, timer, posted, carryOn>>
  BY <1>1, <1>9 DEF PageTyped
<1>10. CASE User \/ PostRides \/ PostEvaluation \/ ClientNotified
  BY <1>9, <1>10 DEF User, RequestRide, Evaluate, PostRides, PostEvaluation, ClientNotified,
     pageVars, callVars
<1>11. CASE Probe \/ ProbeAnswered \/ ProbeReplaced \/ PostStatus
  BY <1>9, <1>11 DEF Probe, ProbeAnswered, ProbeReplaced, PostStatus, pageVars
<1>12. CASE Match \/ ProbeTold \/ Connection
  BY <1>9, <1>12 DEF Match, ProbeTold, Connection, ProxyTimeout, Reconnect, pageVars, callVars
<1>13. CASE LoseRides \/ LoseAct \/ LoseSource
  BY <1>9, <1>13 DEF LoseRides, LoseAct, LoseSource, pageVars, callVars
<1> QED
  BY <1>4, <1>5, <1>6, <1>7, <1>8, <1>10, <1>11, <1>12, <1>13
  DEF Next, Client, Timers, Calls, Server, Losses

LEMMA ClientTypeKept ==
  ASSUME IInv, Next
  PROVE  ClientTyped'
<1>1. ClientTyped /\ TypeOK /\ LogInv /\ SentInv
  BY TypeParts DEF IInv
<1>2. userRide \in Nat /\ userRide' \in Nat /\ userRide <= userRide'
  <2>1. Grown /\ RidesTyped'
    BY RidesKept
  <2> QED
    BY <1>1, <2>1, Shapes DEF Grown, RidesTyped
<1>3. 0 .. userRide \subseteq 0 .. userRide'
  BY <1>2
<1>4. CASE UNCHANGED clientVars /\ UNCHANGED <<currentRide, unevaluated>>
  BY <1>1, <1>3, <1>4 DEF ClientTyped, clientVars
<1>5. CASE RequestRide
  <2>1. /\ UNCHANGED <<userRide, seen, evaluating, currentRide, unevaluated>>
        /\ shown' = "MATCHING" /\ asking' = "sent"
    BY <1>5 DEF RequestRide, serverVars, pageVars, historyVars
  <2> QED
    BY <1>1, <2>1 DEF ClientTyped, Status
<1>6. CASE Evaluate
  <2>1. /\ UNCHANGED <<userRide, seen, asking, currentRide, unevaluated>>
        /\ shown' = "COMPLETED" /\ evaluating' = seen[1]
    BY <1>6 DEF Evaluate, serverVars, pageVars, historyVars
  <2>2. seen[1] \in 0 .. userRide
    <3>1. seen[1] <= userRide
      BY ClientParts DEF IInv
    <3>2. seen[1] \in Rides \/ seen[1] = 0
      BY <1>1, NothingIsEmpty DEF ClientTyped
    <3>3. seen[1] \in Nat
      BY <3>2, SimulatorAssumption DEF Rides
    <3> QED
      BY <1>2, <3>1, <3>3
  <2> QED
    BY <1>1, <2>1, <2>2 DEF ClientTyped, Status
<1>7. CASE PostRides
  <2>1. /\ UNCHANGED <<seen, shown, evaluating, currentRide, unevaluated>>
        /\ asking' \in {"none", "created"}
    BY <1>7 DEF PostRides, pageVars, historyVars
  <2> QED
    BY <1>1, <1>3, <2>1 DEF ClientTyped
<1>8. CASE PostEvaluation
  <2>1. /\ UNCHANGED <<userRide, seen, shown, asking, currentRide>>
        /\ evaluating' = 0 /\ evaluating # 0
        /\ unevaluated' = unevaluated \/ unevaluated' = unevaluated \cup {evaluating}
    BY <1>8 DEF PostEvaluation, pageVars
  <2>2. evaluating \in Rides
    <3>1. evaluating \in 1 .. userRide
      <4>1. evaluating \in 0 .. userRide
        BY <1>1 DEF ClientTyped
      <4> QED
        BY <1>2, <2>1, <4>1
    <3> QED
      BY <1>1, <3>1, Shapes
  <2>3. 0 \in 0 .. userRide
    BY <1>2
  <2> QED
    BY <1>1, <2>1, <2>2, <2>3 DEF ClientTyped
<1>9. CASE ClientNotified
  <2>1. /\ UNCHANGED <<userRide, asking, evaluating, currentRide, unevaluated>>
        /\ seen' = <<userRide, log[userRide][appSent + 1]>>
        /\ shown' \in {log[userRide][appSent + 1], shown}
    BY <1>9 DEF ClientNotified, pageVars, historyVars
  <2>2. userRide \in Rides /\ log[userRide][appSent + 1] \in Status
    <3>1. /\ userRide \in Rides /\ appSent + 1 \in 1 .. 6
          /\ log[userRide][appSent + 1] = Lifecycle[appSent + 1]
      BY <1>1, <1>9, NoticeFacts
    <3>2. \A k \in 1 .. 6 : Lifecycle[k] \in Status
      BY DEF Lifecycle, Status
    <3> QED
      BY <3>1, <3>2
  <2> QED
    BY <1>1, <2>1, <2>2 DEF ClientTyped
<1>10. CASE RideRequested
  <2>1. /\ UNCHANGED <<userRide, seen, shown, evaluating, unevaluated>>
        /\ asking' = "none" /\ currentRide' = userRide
    BY <1>10 DEF RideRequested, serverVars, historyVars
  <2>2. userRide \in 0 .. userRide
    BY <1>2
  <2> QED
    BY <1>1, <2>1, <2>2 DEF ClientTyped
<1>11. CASE LoseRides
  <2>1. /\ UNCHANGED <<userRide, seen, shown, evaluating, currentRide, unevaluated>>
        /\ asking' = "none"
    BY <1>11 DEF LoseRides, serverVars, pageVars
  <2> QED
    BY <1>1, <2>1 DEF ClientTyped
<1>12. CASE Timers
  BY <1>4, <1>12 DEF Timers, Tick, Fallback, historyVars
<1>13. CASE Calls
  BY <1>4, <1>13 DEF Calls, PostCoordinate, Probe, ProbeAnswered, ProbeReplaced, PostStatus,
     pageVars, historyVars
<1>14. CASE Server \/ Connection
  BY <1>4, <1>14 DEF Server, Match, SourceTold, ProbeTold, Connection, ProxyTimeout,
     Reconnect, pageVars, historyVars
<1>15. CASE LoseCoordinate \/ LoseAct \/ LoseSource
  BY <1>4, <1>15 DEF LoseCoordinate, LoseAct, LoseSource, pageVars
<1> QED
  BY <1>5, <1>6, <1>7, <1>8, <1>9, <1>10, <1>11, <1>12, <1>13, <1>14, <1>15
  DEF Next, User, Client, Losses

(* A call that is lost is one of those that were under way. *)
LEMMA ActRide ==
  ASSUME IInv, act.pc = "reading" \/ act # NoAct
  PROVE  act.ride \in Rides
<1>1. act # NoAct
  BY NoActIdle
<1>2. act.ride \in 1 .. chairRide
  BY <1>1 DEF IInv, ActInv
<1>3. chairRide \in 0 .. userRide /\ userRide \in 0 .. MaxRides /\ MaxRides \in Nat
  BY Shapes DEF IInv
<1> QED
  BY <1>2, <1>3 DEF Rides

LEMMA StreamTypeKept ==
  ASSUME IInv, Next
  PROVE  StreamTyped'
<1>1. StreamTyped /\ MaxLost \in Nat
  BY TypeParts, SimulatorAssumption DEF IInv
<1>2. ASSUME lost < MaxLost, lost' = lost + 1 PROVE lost' \in 0 .. MaxLost
  BY <1>1, <1>2 DEF StreamTyped
<1>3. CASE UNCHANGED <<stream, source, initial, lost, unaccepted>>
  BY <1>1, <1>3 DEF StreamTyped
<1>4. CASE User \/ Client
  BY <1>3, <1>4 DEF User, RequestRide, Evaluate, Client, PostRides, PostEvaluation,
     ClientNotified, RideRequested, streamVars, historyVars
<1>5. CASE Timers \/ PostCoordinate \/ PostStatus \/ Match
  BY <1>3, <1>5 DEF Timers, Tick, Fallback, PostCoordinate, PostStatus, Match, streamVars,
     historyVars
<1>6. CASE Probe \/ ProbeAnswered \/ SourceTold \/ ProbeTold
  <2>1. /\ stream' \in {stream, "probe", "none"} /\ initial' \in {initial, TRUE, FALSE}
        /\ UNCHANGED <<source, lost, unaccepted>>
    BY <1>6 DEF Probe, ProbeAnswered, SourceTold, ProbeTold, Mark, historyVars
  <2> QED
    BY <1>1, <2>1 DEF StreamTyped
<1>7. CASE ProbeReplaced
  <2>1. /\ UNCHANGED <<stream, source, initial, lost>> /\ act.pc = "reading"
        /\ unaccepted' \in {unaccepted, unaccepted \cup {act.ride}}
    BY <1>7 DEF ProbeReplaced, streamVars
  <2> QED
    BY <1>1, <2>1, ActRide DEF StreamTyped
<1>8. CASE Connection
  <2>1. /\ stream' \in {stream, "events", "none"} /\ initial' \in {initial, TRUE}
        /\ source' \in {"open", "broken"} /\ UNCHANGED <<lost, unaccepted>>
    BY <1>8 DEF Connection, ProxyTimeout, Reconnect, historyVars
  <2> QED
    BY <1>1, <2>1 DEF StreamTyped
<1>9. CASE LoseRides \/ LoseCoordinate
  <2>1. /\ UNCHANGED <<stream, source, initial, unaccepted>>
        /\ lost < MaxLost /\ lost' = lost + 1
    BY <1>9 DEF LoseRides, LoseCoordinate, streamVars
  <2> QED
    BY <1>1, <1>2, <2>1 DEF StreamTyped
<1>10. CASE LoseAct
  <2>1. /\ UNCHANGED <<stream, source, initial>> /\ act # NoAct
        /\ lost < MaxLost /\ lost' = lost + 1
        /\ unaccepted' \in {unaccepted, unaccepted \cup {act.ride}}
    BY <1>10 DEF LoseAct, streamVars
  <2> QED
    BY <1>1, <1>2, <2>1, ActRide DEF StreamTyped
<1>11. CASE LoseSource
  <2>1. /\ stream' \in {stream, "none"} /\ initial' \in {initial, FALSE}
        /\ source' = "broken" /\ UNCHANGED unaccepted
        /\ lost < MaxLost /\ lost' = lost + 1
    BY <1>11 DEF LoseSource, Mark, streamVars
  <2> QED
    BY <1>1, <1>2, <2>1 DEF StreamTyped
<1> QED
  BY <1>4, <1>5, <1>6, <1>7, <1>8, <1>9, <1>10, <1>11
  DEF Next, Calls, Server, Losses

-----------------------------------------------------------------------------
(* The theorems. *)

LEMMA InvariantInit == Init => IInv
<1> SUFFICES ASSUME Init PROVE IInv
  OBVIOUS
<1>1. /\ log = [r \in Rides |-> <<>>] /\ userRide = 0 /\ chairRide = 0
      /\ appSent = 0 /\ chairSent = 0 /\ data = Nothing /\ ticking = FALSE /\ timer = FALSE
      /\ act = NoAct /\ initial = TRUE /\ seen = Nothing /\ shown = "" /\ asking = "none"
  BY DEF Init
<1>2. MaxRides \in Nat /\ MaxLost \in Nat /\ Start \in Places
  BY SimulatorAssumption
<1>3. LogInv
  <2>1. \A r \in Rides : ~(r <= 0) /\ ~(r < 0)
    BY <1>2 DEF Rides
  <2>2. \A r \in Rides : log[r] = <<>>
    BY <1>1
  <2> QED
    BY <1>1, <2>1, <2>2, OrderedFirst DEF LogInv
<1>4. SentInv
  <2>1. userRide = 0 /\ chairRide = 0 /\ appSent = 0 /\ chairSent = 0
    BY <1>1
  <2> QED
    BY <2>1 DEF SentInv
<1>5. DataInv
  <2>1. data[1] = 0
    BY <1>1, NothingIsEmpty
  <2>2. chairRide = 0 /\ ~ticking /\ ~timer
    BY <1>1
  <2> QED
    BY <2>1, <2>2 DEF DataInv
<1>6. ActInv /\ StreamInv
  BY <1>1 DEF ActInv, StreamInv
<1>7. ClientInv
  <2>1. seen[1] <= userRide
    <3>1. seen[1] = 0 /\ userRide = 0
      BY <1>1, NothingIsEmpty
    <3> QED
      BY <3>1
  <2>2. shown = "" /\ seen = Nothing /\ asking # "sent" /\ userRide = 0
    BY <1>1
  <2>3. ShownInv /\ HeardInv
    BY <2>2 DEF ShownInv, HeardInv
  <2> QED
    BY <2>1, <2>2, <2>3, ClientParts
<1>8. TypeOK
  <2>1. log \in [Rides -> Seq(Status)]
    BY <1>1, OrderedFirst
  <2>2. 0 \in 0 .. MaxRides /\ 0 \in 0 .. 0 /\ 0 \in 0 .. 6 /\ 0 \in 0 .. MaxLost
    BY <1>2
  <2>3. /\ stream = "events" /\ source = "open" /\ place = Start /\ posted = {}
        /\ carryOn = FALSE /\ currentRide = 0 /\ evaluating = 0 /\ lost = 0
        /\ unaccepted = {} /\ unevaluated = {}
    BY DEF Init
  <2> QED
    BY <1>1, <1>2, <2>1, <2>2, <2>3, NoActIdle DEF TypeOK
<1> QED
  BY <1>3, <1>4, <1>5, <1>6, <1>7, <1>8 DEF IInv

LEMMA InvariantStep == IInv /\ [Next]_vars => IInv'
<1>1. ASSUME IInv, Next PROVE IInv'
  <2>1. RidesTyped' /\ LogInv' /\ SentInv'
    BY <1>1, RidesKept
  <2>2. DataInv' /\ ActInv' /\ StreamInv' /\ ClientInv'
    BY <1>1, DataKept, ActKept, StreamKept, ClientKept
  <2>3. PageTyped' /\ ClientTyped' /\ StreamTyped'
    BY <1>1, PageTypeKept, ClientTypeKept, StreamTypeKept
  <2>4. TypeOK'
    BY <2>1, <2>2, <2>3, TypePartsNext
  <2> QED
    BY <2>1, <2>2, <2>4 DEF IInv
<1>2. ASSUME IInv, UNCHANGED vars PROVE IInv'
  <2>1. UNCHANGED <<log, userRide, chairRide, appSent, chairSent, stream, initial, data, place,
                    ticking, timer, currentRide, source, posted, carryOn, act, seen, shown,
                    asking, evaluating, lost, unaccepted, unevaluated>>
    BY <1>2 DEF vars, serverVars, streamVars, pageVars, callVars, clientVars, historyVars
  <2>2. TypeOK'
    BY <1>2, <2>1 DEF IInv, TypeOK
  <2>3. LogInv' /\ SentInv'
    BY <1>2, <2>1 DEF IInv, LogInv, SentInv, Steps
  <2>4. DataInv' /\ ActInv' /\ StreamInv'
    BY <1>2, <2>1 DEF IInv, DataInv, ActInv, StreamInv, Steps
  <2>5. ClientInv'
    BY <1>2, <2>1 DEF IInv, ClientInv, Steps
  <2> QED
    BY <2>2, <2>3, <2>4, <2>5 DEF IInv
<1> QED
  BY <1>1, <1>2

LEMMA InvariantAlways == Spec => []IInv
  BY InvariantInit, InvariantStep, PTL DEF Spec

(* The variables of pages, streams and server keep their types. *)
THEOREM TypeCorrect == Spec => []TypeOK
<1>1. IInv => TypeOK
  BY DEF IInv
<1> QED
  BY <1>1, InvariantAlways, PTL

(* Driven by the page, a ride takes its statuses in order and once, however many calls and
   connections are lost and repeated (chairPostRideStatus and the functions H and I of the
   page). *)
THEOREM RideInOrderCorrect == Spec => []RideInOrder
<1>1. IInv => RideInOrder
  <2> SUFFICES ASSUME IInv, NEW r \in Rides
               PROVE  IsPrefix(log[r], Lifecycle)
    BY DEF RideInOrder
  <2>1. log[r] \in Seq(Status) /\ Ordered(log[r])
    BY Shapes DEF IInv
  <2>2. Lifecycle \in Seq(Status) /\ Len(Lifecycle) = 6
    BY DEF Lifecycle, Status
  <2>3. Len(log[r]) \in Nat /\ Len(log[r]) <= 6
        /\ \A n \in 1 .. Len(log[r]) : log[r][n] = Lifecycle[n]
    BY <2>1 DEF Ordered
  <2> QED
    BY <2>1, <2>2, <2>3 DEF IsPrefix
<1> QED
  BY <1>1, InvariantAlways, PTL

(* The page knows the latest status of its ride when its EventSource is the stream of the
   chair and nothing is left to send (chairGetNotification). *)
THEOREM HearsLatestCorrect == Spec => []HearsLatest
<1>1. IInv => HearsLatest
  <2> SUFFICES ASSUME IInv, stream = "events", chairRide # 0, ~HasData
               PROVE  data = <<chairRide, Latest(chairRide)>>
    BY DEF HearsLatest
  <2>1. TypeOK /\ LogInv /\ SentInv /\ StreamInv
    BY DEF IInv
  <2>2. chairRide \in 1 .. userRide /\ chairRide \in 0 .. userRide /\ chairSent \in Nat
    BY <2>1, Shapes
  <2>3. Steps(chairRide) \in 1 .. 6 /\ Ordered(log[chairRide])
    BY <2>1, <2>2, Shapes
  <2>4. ~initial /\ ~(chairSent < Steps(chairRide)) /\ chairSent <= Steps(chairRide)
    BY <2>1 DEF HasData, SentInv, Steps
  <2>5. chairSent = Steps(chairRide)
    BY <2>2, <2>3, <2>4
  <2>6. data = <<chairRide, log[chairRide][chairSent]>>
    BY <2>1, <2>3, <2>4, <2>5 DEF StreamInv
  <2>7. log[chairRide][Steps(chairRide)] = Lifecycle[Steps(chairRide)]
    <3>1. \A n \in 1 .. Steps(chairRide) : log[chairRide][n] = Lifecycle[n]
      BY <2>3 DEF Ordered, Steps
    <3> QED
      BY <2>3, <3>1
  <2>8. Latest(chairRide) = Lifecycle[Steps(chairRide)]
    BY <2>1, <2>2, LatestByLength
  <2> QED
    BY <2>5, <2>6, <2>7, <2>8
<1> QED
  BY <1>1, InvariantAlways, PTL

(* The client page offers a ride only to a user without one, unless an evaluation of it
   failed (appPostRides, appPostRideEvaluatation, and the function Xe of the page). *)
THEOREM OfferedWhenFreeCorrect == Spec => []OfferedWhenFree
<1>1. IInv => OfferedWhenFree
  <2> SUFFICES ASSUME IInv, shown \notin InProgress, evaluating = 0, userRide # 0,
                      appSent = Steps(userRide)
               PROVE  Latest(userRide) = "COMPLETED" \/ userRide \in unevaluated
    BY DEF OfferedWhenFree, Latest, Steps
  <2>1. TypeOK /\ LogInv /\ SentInv /\ HeardInv /\ ShownInv
    BY ClientParts DEF IInv
  <2>2. userRide \in 1 .. userRide /\ userRide \in 0 .. userRide
    BY <2>1, Shapes
  <2>3. Steps(userRide) \in 1 .. 6 /\ Ordered(log[userRide])
    BY <2>1, <2>2, Shapes
  <2>4. seen = <<userRide, log[userRide][Steps(userRide)]>>
    BY <2>1, <2>3 DEF HeardInv
  <2>5. Latest(userRide) = log[userRide][Steps(userRide)]
    <3>1. \A n \in 1 .. Steps(userRide) : log[userRide][n] = Lifecycle[n]
      BY <2>3 DEF Ordered, Steps
    <3>2. log[userRide][Steps(userRide)] = Lifecycle[Steps(userRide)]
      BY <2>3, <3>1
    <3> QED
      BY <2>1, <2>2, <3>2, LatestByLength
  <2>6. shown = "COMPLETED"
    <3>1. shown \in Status \cup {""}
      BY <2>1 DEF TypeOK
    <3>2. shown # ""
      <4>1. seen[1] # 0
        BY <2>4
      <4> QED
        BY <2>1, <4>1, NothingIsEmpty DEF ShownInv
    <3> QED
      BY <3>1, <3>2 DEF InProgress, Status
  <2>7. seen[1] = userRide /\ seen[2] = Latest(userRide)
    BY <2>4, <2>5
  <2>8. CASE seen[2] = "COMPLETED"
    BY <2>7, <2>8
  <2>9. CASE Evaluated(seen[1])
    <3>1. evaluating # userRide
      BY <2>2
    <3>2. Steps(userRide) = 6 => Latest(userRide) = "COMPLETED"
      BY <2>1, <2>2, LatestByLength
    <3> QED
      BY <2>7, <2>9, <3>1, <3>2 DEF Evaluated
  <2> QED
    BY <2>1, <2>6, <2>8, <2>9 DEF ShownInv
<1> QED
  BY <1>1, InvariantAlways, PTL
=============================================================================
