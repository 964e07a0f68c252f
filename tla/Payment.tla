------------------------------ MODULE Payment -------------------------------
(***************************************************************************)
(* The payment of rides that have arrived: evaluation requests that may    *)
(* overlap (appPostRideEvaluatation), the loop that repeats POST /payments *)
(* with the ride as Idempotency-Key (payment_gateway.go), and the payment  *)
(* service.  The service is external; its behaviour is what the code has   *)
(* to expect: most requests fail with a 5xx, before or after the payment   *)
(* was made (payment_gateway.go:71-74), and the key is recorded only when  *)
(* a payment is made, so that two requests handled at the same time both   *)
(* pay (docs/journal.md:279).  Dispatch abstracts all this to a success or *)
(* a failure.                                                              *)
(***************************************************************************)
EXTENDS Naturals, FiniteSets

CONSTANTS
  Rides,      \* rides that have arrived, each of another user
  Calls,      \* evaluation requests under way; a call that has ended may recur
  Slots,      \* requests to the payment service; an answered one may recur
  None

ASSUME PaymentAssumption == None \notin Slots \cup Rides

VARIABLES
  \* memState
  token,       \* rides whose user is in paymentTokens
  completing,  \* rides whose Completing is set
  completed,   \* how often COMPLETED was recorded of a ride
  \* evaluation requests
  ride,        \* the ride that a call evaluates
  pc,          \* "idle", "refused", "loop", "waiting", "paid", "failed"
  expired,     \* calls whose 8 seconds are over
  cancelled,   \* calls whose client is gone
  slot,        \* the payment request a call waits for
  abandoned,   \* history: rides with a request whose answer was not awaited
  \* payment service
  state,       \* of a request: "free", "sent", "paying", "ok", "error"
  key,         \* its Idempotency-Key
  recorded,    \* the keys that are known
  charges      \* payments made for a ride

callVars == <<ride, pc, expired, cancelled, slot, abandoned>>
serviceVars == <<state, key, recorded, charges>>
vars == <<token, completing, completed, callVars, serviceVars>>

Init ==
  /\ token \in SUBSET Rides
  /\ completing = {} /\ completed = [r \in Rides |-> 0]
  /\ ride = [e \in Calls |-> None]
  /\ pc = [e \in Calls |-> "idle"]
  /\ expired = {} /\ cancelled = {}
  /\ slot = [e \in Calls |-> None] /\ abandoned = {}
  /\ state = [s \in Slots |-> "free"]
  /\ key = [s \in Slots |-> None]
  /\ recorded = {} /\ charges = [r \in Rides |-> 0]

-----------------------------------------------------------------------------
(* appPostPaymentMethods *)
RegisterToken(r) ==
  /\ r \notin token /\ token' = token \cup {r}
  /\ UNCHANGED <<completing, completed, callVars, serviceVars>>

(* appPostRideEvaluatation up to the unlock; mutant: Completing is not read. *)
BeginUnguarded(e, r) ==
  /\ pc[e] = "idle" /\ completed[r] = 0
  /\ completing' = completing \cup {r}
  /\ ride' = [ride EXCEPT ![e] = r]
  /\ pc' = [pc EXCEPT ![e] = IF r \in token THEN "loop" ELSE "refused"]
  /\ UNCHANGED <<token, completed, expired, cancelled, slot, abandoned,
                 serviceVars>>

Begin(e, r) ==
  /\ pc[e] = "idle" /\ completed[r] = 0 /\ r \notin completing
  /\ completing' = completing \cup {r}
  /\ ride' = [ride EXCEPT ![e] = r]
  /\ pc' = [pc EXCEPT ![e] = IF r \in token THEN "loop" ELSE "refused"]
  /\ UNCHANGED <<token, completed, expired, cancelled, slot, abandoned,
                 serviceVars>>

(* requestPaymentGatewayPostPayment: one round of the loop sends a request ... *)
Send(e, s) ==
  /\ pc[e] = "loop" /\ state[s] = "free"
  /\ pc' = [pc EXCEPT ![e] = "waiting"]
  /\ slot' = [slot EXCEPT ![e] = s]
  /\ state' = [state EXCEPT ![s] = "sent"]
  /\ key' = [key EXCEPT ![s] = ride[e]]
  /\ UNCHANGED <<token, completing, completed, ride, expired, cancelled,
                 abandoned, recorded, charges>>

(* Where a round that failed leads: to the next one, unless the client is gone
   or the time is over; mutant: an error counts as a success at the end. *)
GiveUpPaid(e) == IF e \in expired \cup cancelled THEN "paid" ELSE "loop"
AfterError(e) == IF e \in expired \cup cancelled THEN "failed" ELSE "loop"

(* ... gets its answer ... *)
Receive(e) ==
  /\ pc[e] = "waiting" /\ state[slot[e]] \in {"ok", "error"}
  /\ pc' = [pc EXCEPT ![e] =
       IF state[slot[e]] = "ok" THEN "paid" ELSE AfterError(e)]
  /\ state' = [state EXCEPT ![slot[e]] = "free"]
  /\ slot' = [slot EXCEPT ![e] = None]
  /\ UNCHANGED <<token, completing, completed, ride, expired, cancelled,
                 abandoned, key, recorded, charges>>

(* ... or stops waiting: the connection broke, or the client is gone, or the
   10 seconds of paymentClient are over, and then the 8 of the loop are too. *)
Abandon(e) ==
  /\ pc[e] = "waiting"
  /\ pc' = [pc EXCEPT ![e] = AfterError(e)]
  /\ slot' = [slot EXCEPT ![e] = None]
  /\ abandoned' = abandoned \cup {ride[e]}
  /\ UNCHANGED <<token, completing, completed, ride, expired, cancelled,
                 serviceVars>>

Expire(e) ==
  /\ pc[e] \in {"loop", "waiting"} /\ e \notin expired
  /\ expired' = expired \cup {e}
  /\ UNCHANGED <<token, completing, completed, ride, pc, cancelled, slot,
                 abandoned, serviceVars>>

Cancel(e) ==
  /\ pc[e] \in {"loop", "waiting"} /\ e \notin cancelled
  /\ cancelled' = cancelled \cup {e}
  /\ UNCHANGED <<token, completing, completed, ride, pc, expired, slot,
                 abandoned, serviceVars>>

(* The payment succeeded: complete, which fails only for a ride that an initialization
   took out of memory meanwhile; there is none here. *)
Complete(e) ==
  /\ pc[e] = "paid"
  /\ completed' = [completed EXCEPT ![ride[e]] = @ + 1]
  /\ pc' = [pc EXCEPT ![e] = "idle"]
  /\ expired' = expired \ {e} /\ cancelled' = cancelled \ {e}
  /\ ride' = [ride EXCEPT ![e] = None]
  /\ UNCHANGED <<token, completing, slot, abandoned, serviceVars>>

(* It failed: the deferred function resets Completing; mutant: it does not. *)
FailKeeps(e) ==
  /\ pc[e] \in {"refused", "failed"}
  /\ pc' = [pc EXCEPT ![e] = "idle"]
  /\ expired' = expired \ {e} /\ cancelled' = cancelled \ {e}
  /\ ride' = [ride EXCEPT ![e] = None]
  /\ UNCHANGED <<token, completing, completed, slot, abandoned, serviceVars>>

Fail(e) ==
  /\ pc[e] \in {"refused", "failed"}
  /\ completing' = completing \ {ride[e]}
  /\ pc' = [pc EXCEPT ![e] = "idle"]
  /\ expired' = expired \ {e} /\ cancelled' = cancelled \ {e}
  /\ ride' = [ride EXCEPT ![e] = None]
  /\ UNCHANGED <<token, completed, slot, abandoned, serviceVars>>

-----------------------------------------------------------------------------
(* The payment service looks the key up ... *)
StartPayment(s) ==
  /\ state[s] = "sent" /\ key[s] \notin recorded
  /\ state' = [state EXCEPT ![s] = "paying"]
  /\ UNCHANGED <<token, completing, completed, callVars, key, recorded, charges>>

AnswerRepeated(s) ==
  /\ state[s] = "sent" /\ key[s] \in recorded
  /\ state' = [state EXCEPT ![s] = "ok"]
  /\ UNCHANGED <<token, completing, completed, callVars, key, recorded, charges>>

(* ... pays, and answers, or fails to ... *)
Pay(s) ==
  /\ state[s] = "paying"
  /\ recorded' = recorded \cup {key[s]}
  /\ charges' = [charges EXCEPT ![key[s]] = @ + 1]
  /\ \E answer \in {"ok", "error"} : state' = [state EXCEPT ![s] = answer]
  /\ UNCHANGED <<token, completing, completed, callVars, key>>

(* ... or fails before that. *)
Refuse(s) ==
  /\ state[s] \in {"sent", "paying"}
  /\ state' = [state EXCEPT ![s] = "error"]
  /\ UNCHANGED <<token, completing, completed, callVars, key, recorded, charges>>

(* An answer that nobody waits for. *)
Unheard(s) ==
  /\ state[s] \in {"ok", "error"} /\ \A e \in Calls : slot[e] # s
  /\ state' = [state EXCEPT ![s] = "free"]
  /\ UNCHANGED <<token, completing, completed, callVars, key, recorded, charges>>

-----------------------------------------------------------------------------
Answer(s) == StartPayment(s) \/ AnswerRepeated(s) \/ Pay(s)

Service(s) == Answer(s) \/ Refuse(s) \/ Unheard(s)

Handle(e) ==
  \/ \E s \in Slots : Send(e, s)
  \/ Receive(e) \/ Complete(e) \/ Fail(e)

Next ==
  \/ \E r \in Rides : RegisterToken(r)
  \/ \E e \in Calls, r \in Rides : Begin(e, r)
  \/ \E e \in Calls : Handle(e) \/ Abandon(e) \/ Expire(e) \/ Cancel(e)
  \/ \E s \in Slots : Service(s)

Spec == Init /\ [][Next]_vars

(* The server goes on, the service answers and does not refuse for ever, a user
   without a payment method registers one and evaluates again after a failure. *)
FairSpec ==
  /\ Spec
  /\ \A r \in Rides : WF_vars(RegisterToken(r))
                   /\ SF_vars(\E e \in Calls : Begin(e, r))
  /\ \A e \in Calls : WF_vars(Handle(e))
  /\ \A s \in Slots : WF_vars(Service(s))
                   /\ SF_vars(StartPayment(s)) /\ SF_vars(AnswerRepeated(s))
                   /\ SF_vars(Pay(s) /\ state'[s] = "ok")

-----------------------------------------------------------------------------
(* Type invariant. *)
TypeOK ==
  /\ token \subseteq Rides /\ completing \subseteq Rides
  /\ completed \in [Rides -> 0 .. 1]
  /\ ride \in [Calls -> Rides \cup {None}]
  /\ pc \in [Calls -> {"idle", "refused", "loop", "waiting", "paid", "failed"}]
  /\ expired \subseteq Calls /\ cancelled \subseteq Calls
  /\ slot \in [Calls -> Slots \cup {None}] /\ abandoned \subseteq Rides
  /\ state \in [Slots -> {"free", "sent", "paying", "ok", "error"}]
  /\ key \in [Slots -> Rides \cup {None}]
  /\ recorded \subseteq Rides /\ charges \in [Rides -> Nat]

(* If every request of a ride was waited for until it was answered, the ride is
   paid at most once, however often the loop and the user try (app_handlers.go:
   507-508, payment_gateway.go:73). *)
ChargedOnce == \A r \in Rides \ abandoned : charges[r] <= 1

(* A ride is completed only after it was paid (app_handlers.go:546). *)
CompletedWasPaid == \A r \in Rides : completed[r] > 0 => charges[r] > 0

(* Nor is anything paid for it once it is completed. *)
NoPaymentAfterwards ==
  [][\A r \in Rides \ abandoned :
       completed[r] > 0 => charges'[r] = charges[r]]_vars

(* A ride that has arrived is completed in the end, and so no payment is kept
   for a ride that stays open, unless answers are not waited for again and
   again. *)
RideIsCompleted ==
  <>[][~ \E e \in Calls : Abandon(e)]_vars => \A r \in Rides : <>(completed[r] > 0)

-----------------------------------------------------------------------------
(* What a comment says and the code does not do: repeated and overlapping
   requests never charge twice (app_handlers.go:507-508). *)
NeverChargedTwice == \A r \in Rides : charges[r] <= 1
=============================================================================
