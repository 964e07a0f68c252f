--------------------------- MODULE PaymentProofs ----------------------------
(* Proofs about Payment, for any number of rides, calls and requests. *)
EXTENDS Payment, TLAPS

(* A call under way holds Completing of its ride, alone. *)
OneCallPerRide ==
  /\ \A e \in Calls : pc[e] # "idle" =>
       ride[e] \in Rides /\ ride[e] \in completing /\ completed[ride[e]] = 0
  /\ \A e, f \in Calls :
       (pc[e] # "idle" /\ pc[f] # "idle" /\ ride[e] = ride[f]) => e = f

(* The request that a call waits for is its own, and for its ride. *)
OwnRequest ==
  /\ \A e \in Calls : pc[e] = "waiting" =>
       slot[e] \in Slots /\ key[slot[e]] = ride[e] /\ state[slot[e]] # "free"
  /\ \A e \in Calls : slot[e] # None => pc[e] = "waiting"
  /\ \A e, f \in Calls : (slot[e] = slot[f] /\ slot[e] # None) => e = f

(* Requests that are handled carry the key of a ride. *)
KeyOfRide == \A s \in Slots : state[s] # "free" => key[s] \in Rides

(* The payment is where a success was reported. *)
Reported ==
  /\ \A r \in Rides : r \in recorded <=> charges[r] > 0
  /\ \A s \in Slots : state[s] = "ok" => key[s] \in recorded
  /\ \A e \in Calls : pc[e] = "paid" => ride[e] \in recorded
  /\ \A r \in Rides : completed[r] > 0 => r \in recorded

(* As long as no request of a ride was abandoned: each one is waited for, a
   payment under way is the first, and there was at most one. *)
Serial ==
  /\ \A s \in Slots : (state[s] # "free" /\ key[s] \notin abandoned) =>
       \E e \in Calls : slot[e] = s
  /\ \A s \in Slots : (state[s] = "paying" /\ key[s] \notin abandoned) =>
       key[s] \notin recorded
  /\ ChargedOnce

IInv ==
  TypeOK /\ OneCallPerRide /\ OwnRequest /\ KeyOfRide /\ Reported /\ Serial

LEMMA InitIInv == Init => IInv
<1> SUFFICES ASSUME Init PROVE IInv
  OBVIOUS
<1> USE PaymentAssumption DEF Init
<1>1. TypeOK
  BY DEF TypeOK
<1>2. OneCallPerRide /\ OwnRequest /\ KeyOfRide
  BY DEF OneCallPerRide, OwnRequest, KeyOfRide
<1>3. Reported /\ Serial
  BY DEF Reported, Serial, ChargedOnce
<1> QED BY <1>1, <1>2, <1>3 DEF IInv

-----------------------------------------------------------------------------
USE DEF callVars, serviceVars

(* An evaluation call passes the check, and registers under Completing. *)
LEMMA BeginStep ==
  ASSUME IInv, NEW e \in Calls, NEW r \in Rides, Begin(e, r)
  PROVE  IInv'
<1> USE PaymentAssumption DEF IInv, Begin
<1>1. TypeOK'
  BY DEF TypeOK
<1>2. OneCallPerRide'
  BY DEF TypeOK, OneCallPerRide
<1>3. OwnRequest'
  BY DEF TypeOK, OwnRequest
<1>4. KeyOfRide' /\ Reported'
  BY DEF TypeOK, KeyOfRide, Reported
<1>5. Serial'
  BY DEF TypeOK, Serial, ChargedOnce
<1> QED BY <1>1, <1>2, <1>3, <1>4, <1>5

LEMMA SendStep ==
  ASSUME IInv, NEW e \in Calls, NEW s \in Slots, Send(e, s)
  PROVE  IInv'
<1> USE PaymentAssumption DEF IInv, Send
<1>1. TypeOK'
  BY DEF TypeOK, OneCallPerRide
<1>2. OneCallPerRide'
  BY DEF TypeOK, OneCallPerRide
<1>3. OwnRequest'
  BY DEF TypeOK, OneCallPerRide, OwnRequest
<1>4. KeyOfRide'
  BY DEF TypeOK, OneCallPerRide, KeyOfRide
<1>5. Reported'
  BY DEF TypeOK, Reported
<1>6. Serial'
  BY DEF TypeOK, OwnRequest, Serial, ChargedOnce
<1> QED BY <1>1, <1>2, <1>3, <1>4, <1>5, <1>6

LEMMA ReceiveStep ==
  ASSUME IInv, NEW e \in Calls, Receive(e)
  PROVE  IInv'
<1> USE PaymentAssumption DEF IInv, Receive, AfterError
<1>0. slot[e] \in Slots /\ key[slot[e]] = ride[e]
  BY DEF OwnRequest
<1>1. TypeOK'
  BY DEF TypeOK
<1>2. OneCallPerRide'
  BY DEF TypeOK, OneCallPerRide
<1>3. OwnRequest'
  BY <1>0 DEF TypeOK, OwnRequest
<1>4. KeyOfRide'
  BY DEF TypeOK, KeyOfRide
<1>5. Reported'
  BY <1>0 DEF TypeOK, Reported
<1>6. Serial'
  BY <1>0 DEF TypeOK, OwnRequest, Serial, ChargedOnce
<1> QED BY <1>1, <1>2, <1>3, <1>4, <1>5, <1>6

LEMMA AbandonStep ==
  ASSUME IInv, NEW e \in Calls, Abandon(e)
  PROVE  IInv'
<1> USE PaymentAssumption DEF IInv, Abandon, AfterError
<1>1. TypeOK'
  BY DEF TypeOK, OneCallPerRide
<1>2. OneCallPerRide' /\ OwnRequest'
  BY DEF TypeOK, OneCallPerRide, OwnRequest
<1>3. KeyOfRide' /\ Reported'
  BY DEF TypeOK, KeyOfRide, Reported
<1>4. Serial'
  <2>1. slot[e] \in Slots /\ key[slot[e]] = ride[e]
    BY DEF OwnRequest
  <2> QED BY <2>1 DEF TypeOK, Serial, ChargedOnce
<1> QED BY <1>1, <1>2, <1>3, <1>4

(* Complete and Fail give the ride up. *)
LEMMA EndStep ==
  ASSUME IInv, NEW e \in Calls, Complete(e) \/ Fail(e)
  PROVE  IInv'
<1> USE PaymentAssumption DEF IInv
<1>0. ride[e] \in Rides /\ completed[ride[e]] = 0 /\ slot[e] = None
  BY DEF Complete, Fail, OneCallPerRide, OwnRequest
<1>1. TypeOK'
  BY <1>0 DEF Complete, Fail, TypeOK
<1>2. OneCallPerRide'
  BY <1>0 DEF Complete, Fail, TypeOK, OneCallPerRide
<1>3. OwnRequest'
  BY <1>0 DEF Complete, Fail, TypeOK, OwnRequest
<1>4. KeyOfRide'
  BY DEF Complete, Fail, KeyOfRide
<1>5. Reported'
  BY <1>0 DEF Complete, Fail, TypeOK, Reported
<1>6. Serial'
  BY DEF Complete, Fail, Serial, ChargedOnce
<1> QED BY <1>1, <1>2, <1>3, <1>4, <1>5, <1>6

(* The service looks a key up: a payment starts only while nothing is recorded
   for the ride. *)
LEMMA LookUpStep ==
  ASSUME IInv, NEW s \in Slots, StartPayment(s) \/ AnswerRepeated(s) \/ Refuse(s)
  PROVE  IInv'
<1> USE PaymentAssumption DEF IInv, StartPayment, AnswerRepeated, Refuse
<1>1. TypeOK'
  BY DEF TypeOK
<1>2. OneCallPerRide' /\ OwnRequest' /\ KeyOfRide'
  BY DEF TypeOK, OneCallPerRide, OwnRequest, KeyOfRide
<1>3. Reported'
  BY DEF TypeOK, Reported
<1>4. Serial'
  BY DEF TypeOK, Serial, ChargedOnce
<1> QED BY <1>1, <1>2, <1>3, <1>4

(* While a payment is made for a ride no other request for it exists, unless
   one was abandoned. *)
LEMMA PayStep ==
  ASSUME IInv, NEW s \in Slots, Pay(s)
  PROVE  IInv'
<1> USE PaymentAssumption DEF IInv, Pay
<1>0. key[s] \in Rides
  BY DEF KeyOfRide
<1>1. TypeOK'
  BY <1>0 DEF TypeOK
<1>2. OneCallPerRide' /\ OwnRequest' /\ KeyOfRide'
  BY DEF TypeOK, OneCallPerRide, OwnRequest, KeyOfRide
<1>3. Reported'
  <2>1. charges'[key[s]] > 0 /\ key[s] \in recorded'
    BY <1>0 DEF TypeOK
  <2>2. \A r \in Rides : r # key[s] => charges'[r] = charges[r]
    BY <1>0 DEF TypeOK
  <2> QED BY <1>0, <2>1, <2>2 DEF TypeOK, Reported
<1>4. Serial'
  <2>1. ASSUME NEW t \in Slots, state'[t] # "free", key'[t] \notin abandoned'
        PROVE  \E e \in Calls : slot'[e] = t
    BY <2>1 DEF TypeOK, Serial
  <2>2. ASSUME NEW t \in Slots, state'[t] = "paying", key'[t] \notin abandoned'
        PROVE  key'[t] \notin recorded'
    <3>1. t # s /\ state[t] = "paying" /\ key[t] \notin recorded
      BY <2>2 DEF TypeOK, Serial
    <3>2. CASE key[t] # key[s]
      BY <3>1, <3>2
    <3>3. CASE key[t] = key[s]
      <4>1. PICK e \in Calls : slot[e] = s
        BY <2>2, <3>3 DEF Serial
      <4>2. PICK f \in Calls : slot[f] = t
        BY <2>2, <3>1 DEF Serial
      <4>3. /\ pc[e] = "waiting" /\ ride[e] = key[s]
            /\ pc[f] = "waiting" /\ ride[f] = key[t]
        BY PaymentAssumption, <4>1, <4>2 DEF OwnRequest
      <4> QED BY <3>1, <3>3, <4>1, <4>2, <4>3 DEF OneCallPerRide
    <3> QED BY <3>2, <3>3
  <2>3. ChargedOnce'
    <3>1. CASE key[s] \in abandoned
      BY <3>1, <1>0 DEF TypeOK, Serial, ChargedOnce
    <3>2. CASE key[s] \notin abandoned
      <4>1. charges[key[s]] = 0
        BY <3>2, <1>0 DEF TypeOK, Serial, Reported
      <4>2. charges' = [charges EXCEPT ![key[s]] = 1]
        BY <4>1, <1>0 DEF TypeOK
      <4> QED BY <4>2 DEF TypeOK, Serial, ChargedOnce
    <3> QED BY <3>1, <3>2
  <2> QED BY <2>1, <2>2, <2>3 DEF Serial
<1> QED BY <1>1, <1>2, <1>3, <1>4

LEMMA UnheardStep ==
  ASSUME IInv, NEW s \in Slots, Unheard(s)
  PROVE  IInv'
<1> USE PaymentAssumption DEF IInv, Unheard
<1>1. TypeOK'
  BY DEF TypeOK
<1>2. OneCallPerRide' /\ OwnRequest' /\ KeyOfRide'
  BY DEF TypeOK, OneCallPerRide, OwnRequest, KeyOfRide
<1>3. Reported'
  BY DEF TypeOK, Reported
<1>4. Serial'
  BY DEF TypeOK, Serial, ChargedOnce
<1> QED BY <1>1, <1>2, <1>3, <1>4

(* Registering a payment method, the end of the 8 seconds and a client that
   leaves touch nothing that IInv is about. *)
LEMMA OtherStep ==
  ASSUME IInv,
         \/ \E r \in Rides : RegisterToken(r)
         \/ \E e \in Calls : Expire(e) \/ Cancel(e)
         \/ UNCHANGED vars
  PROVE  IInv'
<1> USE DEF IInv, RegisterToken, Expire, Cancel, vars
<1>1. TypeOK'
  BY DEF TypeOK
<1>2. OneCallPerRide' /\ OwnRequest' /\ KeyOfRide'
  BY DEF OneCallPerRide, OwnRequest, KeyOfRide
<1>3. Reported' /\ Serial'
  BY DEF Reported, Serial, ChargedOnce
<1> QED BY <1>1, <1>2, <1>3

LEMMA StepIInv == IInv /\ [Next]_vars => IInv'
BY BeginStep, SendStep, ReceiveStep, AbandonStep, EndStep, LookUpStep, PayStep,
   UnheardStep, OtherStep DEF Next, Handle, Service, Answer

LEMMA InvariantHolds == Spec => []IInv
BY InitIInv, StepIInv, PTL DEF Spec

-----------------------------------------------------------------------------
(* The types, with COMPLETED recorded once, hold in every execution. *)
THEOREM TypeCorrect == Spec => []TypeOK
BY InvariantHolds, PTL DEF IInv

(* No ride is completed unpaid, also when answers of the payment service are
   lost or late. *)
THEOREM CompletedWasPaidCorrect == Spec => []CompletedWasPaid
<1>1. IInv => CompletedWasPaid
  BY DEF IInv, Reported, CompletedWasPaid
<1> QED BY <1>1, InvariantHolds, PTL

(* No ride is paid twice whose requests were all waited for until they were
   answered, whatever other rides, calls and failures do. *)
THEOREM ChargedOnceCorrect == Spec => []ChargedOnce
<1>1. IInv => ChargedOnce
  BY DEF IInv, Serial
<1> QED BY <1>1, InvariantHolds, PTL

(* And nothing is paid for such a ride after COMPLETED was recorded: a request
   that is handled belongs to a call, and a call to a ride that is not completed. *)
THEOREM NoPaymentAfterwardsCorrect == Spec => NoPaymentAfterwards
<1> DEFINE Same == \A r \in Rides \ abandoned :
                     completed[r] > 0 => charges'[r] = charges[r]
<1>1. ASSUME IInv, NEW s \in Slots, Pay(s) PROVE Same
  <2> SUFFICES ASSUME NEW r \in Rides \ abandoned, completed[r] > 0
               PROVE  charges'[r] = charges[r]
    OBVIOUS
  <2>1. key[s] # r
    <3> SUFFICES ASSUME key[s] = r PROVE FALSE
      OBVIOUS
    <3>1. PICK e \in Calls : slot[e] = s
      BY <1>1 DEF IInv, Serial, Pay
    <3>2. pc[e] = "waiting" /\ ride[e] = r
      BY PaymentAssumption, <1>1, <3>1 DEF IInv, OwnRequest
    <3> QED BY <1>1, <3>2 DEF IInv, OneCallPerRide
  <2> QED BY <1>1, <2>1 DEF Pay, IInv, TypeOK
<1>2. ASSUME ~ \E s \in Slots : Pay(s), [Next]_vars PROVE Same
  BY <1>2 DEF Next, Handle, Service, Answer, vars, RegisterToken, Begin, Send,
     Receive, Abandon, Expire, Cancel, Complete, Fail, StartPayment,
     AnswerRepeated, Refuse, Unheard
<1>3. IInv /\ [Next]_vars => [Same]_vars
  BY <1>1, <1>2
<1> QED BY <1>3, InvariantHolds, PTL DEF Spec, NoPaymentAfterwards
=============================================================================
