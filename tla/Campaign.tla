------------------------------ MODULE Campaign ------------------------------
(***************************************************************************)
(* Invitations and coupons (app_handlers.go, state.go).  New users register *)
(* with one user's invitation code: a slot of at most three is reserved in *)
(* memory, the rest is a transaction, and a failure returns the slot.  Each *)
(* registration gives the inviter a coupon of 1000, beside the newcomer's  *)
(* coupon of 3000, and the inviter's rides use coupons up: a ride chooses  *)
(* one in its transaction and keeps its fare in memory.  A restart counts  *)
(* slots and fares from the database again.                                *)
(*                                                                         *)
(* The database: rows that a transaction has inserted and not committed    *)
(* keep a scan of the coupons waiting, and a scan locks the coupons it has *)
(* read, and the gaps between them, until its transaction ends (InnoDB,    *)
(* REPEATABLE READ).                                                       *)
(***************************************************************************)
EXTENDS Integers, FiniteSets, Sequences

CONSTANTS
  Registrations,    \* calls of POST /api/app/users with the code
  Requests,         \* calls of POST /api/app/rides by the inviter
  Metered,          \* what the distance of a requested ride costs
  Newcomer,         \* the coupon CP_NEW2024 of the inviter
  None

ASSUME CampaignAssumption ==
  /\ IsFiniteSet(Registrations)
  /\ Metered \in [Requests -> Nat]
  /\ Newcomer \notin Registrations
  /\ None \notin Requests \cup Registrations \cup {Newcomer}

(* The reward of a registration bears its name. *)
Coupons == Registrations \cup {Newcomer}

VARIABLES
  inviteUsed,   \* st.inviteUsed of the code
  reg,          \* how far a registration is
  invited,      \* registrations whose coupons are in the database
  given,        \* the inviter's coupons as they were inserted, oldest first; those
                \* that were rolled back stay here, but are in no table
  usedBy,       \* coupons.used_by
  req,          \* how far a request for a ride is
  first,        \* rideCount = 1
  coupon,       \* the coupon a request has chosen
  lock,         \* the request whose transaction has locked the coupons
  ridden,       \* rides in the database
  fares,        \* rideState.Fare; None for a ride that is not in memory
  unheard       \* history: registrations committed and answered with an error

slotVars == <<inviteUsed, invited, unheard>>
rideVars == <<req, first, coupon, lock, ridden, fares>>
vars == <<slotVars, reg, given, usedBy, rideVars>>

-----------------------------------------------------------------------------
Discount(c) == IF c = Newcomer THEN 3000 ELSE IF c = None THEN 0 ELSE 1000

(* fareWithDiscount: a coupon reduces the metered part to zero at most. *)
Fare(q, c) ==
  500 + IF Metered[q] > Discount(c) THEN Metered[q] - Discount(c) ELSE 0

(* discountByRide of loadState: what the rows say a ride has used. *)
StoredCoupon(q) ==
  IF \E c \in Coupons : usedBy[c] = q THEN CHOOSE c \in Coupons : usedBy[c] = q
                                      ELSE None

(* The inviter has registered, and has no ride and no guests yet. *)
Init ==
  /\ inviteUsed = 0 /\ invited = {} /\ unheard = {}
  /\ reg = [g \in Registrations |-> "idle"]
  /\ given = <<Newcomer>> /\ usedBy = [c \in Coupons |-> None]
  /\ req = [q \in Requests |-> "idle"] /\ first = [q \in Requests |-> FALSE]
  /\ coupon = [q \in Requests |-> None] /\ lock = None
  /\ ridden = {} /\ fares = [q \in Requests |-> None]

-----------------------------------------------------------------------------
(* Mutant: the limit is looked at in the database instead of memory. *)
ReserveByRows(g) ==
  /\ reg[g] = "idle"
  /\ IF Cardinality(invited) >= 3
       THEN reg' = [reg EXCEPT ![g] = "failed"] /\ UNCHANGED inviteUsed
       ELSE reg' = [reg EXCEPT ![g] = "reserved"] /\ inviteUsed' = inviteUsed + 1
  /\ UNCHANGED <<invited, unheard, given, usedBy, rideVars>>

(* appPostUsers begins its transaction; reserveInvitation. *)
Reserve(g) ==
  /\ reg[g] = "idle"
  /\ IF inviteUsed >= 3
       THEN reg' = [reg EXCEPT ![g] = "failed"] /\ UNCHANGED inviteUsed
       ELSE reg' = [reg EXCEPT ![g] = "reserved"] /\ inviteUsed' = inviteUsed + 1
  /\ UNCHANGED <<invited, unheard, given, usedBy, rideVars>>

(* The coupons are inserted, unless a request has scanned the inviter's: only
   the lookup of the newcomer's coupon leaves the gaps open. *)
InsertReward(g) ==
  /\ reg[g] = "reserved"
  /\ lock # None => coupon[lock] = Newcomer /\ first[lock]
  /\ given' = Append(given, g)
  /\ reg' = [reg EXCEPT ![g] = "inserted"]
  /\ UNCHANGED <<slotVars, usedBy, rideVars>>

CommitRegistration(g) ==
  /\ reg[g] = "inserted"
  /\ invited' = invited \cup {g}
  /\ reg' = [reg EXCEPT ![g] = "committed"]
  /\ UNCHANGED <<inviteUsed, unheard, given, usedBy, rideVars>>

Registered(g) ==
  /\ reg[g] = "committed"
  /\ reg' = [reg EXCEPT ![g] = "done"]
  /\ UNCHANGED <<slotVars, given, usedBy, rideVars>>

(* Mutants: the slot of a failed registration is not returned; both deferred
   functions return it. *)
ReleaseNothing == UNCHANGED inviteUsed

ReleaseTwice == inviteUsed' = inviteUsed - 2

(* releaseInvitation, deferred. *)
Release == inviteUsed' = IF inviteUsed > 0 THEN inviteUsed - 1 ELSE 0

(* Any statement fails: no such code, a lock wait, a deadlock, the database is
   away, or the reward's key is taken (the same slot in the same millisecond). *)
FailRegistration(g) ==
  /\ reg[g] \in {"reserved", "inserted"}
  /\ Release
  /\ reg' = [reg EXCEPT ![g] = "failed"]
  /\ UNCHANGED <<invited, unheard, given, usedBy, rideVars>>

(* Commit returns an error although the database has committed. *)
CommitUnheard(g) ==
  /\ reg[g] = "committed"
  /\ Release
  /\ reg' = [reg EXCEPT ![g] = "failed"]
  /\ unheard' = unheard \cup {g}
  /\ UNCHANGED <<invited, given, usedBy, rideVars>>

-----------------------------------------------------------------------------
(* appPostRides: the ride is inserted and the user's rides are counted; the
   count does not see rides that are not committed.  That no ride is in
   progress was checked before, and a ride may be over at any time. *)
BeginRide(q) ==
  /\ req[q] = "idle"
  /\ req' = [req EXCEPT ![q] = "begun"]
  /\ first' = [first EXCEPT ![q] = ridden = {}]
  /\ UNCHANGED <<slotVars, reg, given, usedBy, coupon, lock, ridden, fares>>

(* Positions of the coupons in the table that no ride has used. *)
Unused ==
  {i \in DOMAIN given : given[i] \in invited \cup {Newcomer} /\ usedBy[given[i]] = None}

(* The one that was given first. *)
OldestUnused == {given[i] : i \in {i \in Unused : \A j \in Unused : i <= j}}

(* The coupon that the SELECTs of q find. *)
Found(q) ==
  IF first[q] /\ usedBy[Newcomer] = None THEN {Newcomer}
  ELSE IF Unused = {} THEN {None} ELSE OldestUnused

(* Mutant: the coupon is read without FOR UPDATE. *)
ChooseCouponUnlocked(q) ==
  /\ req[q] = "begun"
  /\ \E c \in Found(q) : coupon' = [coupon EXCEPT ![q] = c]
  /\ (\E g \in Registrations : reg[g] = "inserted") => Found(q) = {Newcomer} /\ first[q]
  /\ req' = [req EXCEPT ![q] = "priced"]
  /\ UNCHANGED <<slotVars, reg, given, usedBy, first, lock, ridden, fares>>

(* SELECT ... FOR UPDATE and the UPDATE of used_by: for a first ride the
   newcomer's coupon, else the oldest one that is unused. *)
ChooseCoupon(q) ==
  /\ req[q] = "begun" /\ lock = None
  /\ \E c \in Found(q) : coupon' = [coupon EXCEPT ![q] = c]
  /\ (\E g \in Registrations : reg[g] = "inserted") => Found(q) = {Newcomer} /\ first[q]
  /\ lock' = q
  /\ req' = [req EXCEPT ![q] = "priced"]
  /\ UNCHANGED <<slotVars, reg, given, usedBy, first, ridden, fares>>

Unlocked(q) == IF lock = q THEN None ELSE lock

FailRide(q) ==
  /\ req[q] \in {"begun", "priced"}
  /\ req' = [req EXCEPT ![q] = "failed"]
  /\ lock' = Unlocked(q)
  /\ UNCHANGED <<slotVars, reg, given, usedBy, first, coupon, ridden, fares>>

CommitRide(q) ==
  /\ req[q] = "priced"
  /\ ridden' = ridden \cup {q}
  /\ usedBy' = IF coupon[q] = None THEN usedBy ELSE [usedBy EXCEPT ![coupon[q]] = q]
  /\ lock' = Unlocked(q)
  /\ req' = [req EXCEPT ![q] = "committed"]
  /\ UNCHANGED <<slotVars, reg, given, first, coupon, fares>>

(* Mutant: the coupon reduces the whole fare. *)
AddRideDiscounted(q) ==
  /\ req[q] = "committed"
  /\ fares' = [fares EXCEPT ![q] = IF Metered[q] + 500 > Discount(coupon[q])
                                     THEN Metered[q] + 500 - Discount(coupon[q]) ELSE 0]
  /\ req' = [req EXCEPT ![q] = "done"]
  /\ UNCHANGED <<slotVars, reg, given, usedBy, first, coupon, lock, ridden>>

(* addRide, with the fare computed before the commit; or the commit returned an
   error, and the ride is in the database only. *)
AddRide(q) ==
  /\ req[q] = "committed"
  /\ \/ fares' = [fares EXCEPT ![q] = Fare(q, coupon[q])]
     \/ UNCHANGED fares
  /\ req' = [req EXCEPT ![q] = "done"]
  /\ UNCHANGED <<slotVars, reg, given, usedBy, first, coupon, lock, ridden>>

-----------------------------------------------------------------------------
(* The process dies and starts again: transactions are rolled back, loadState
   counts the INV_ coupons and prices the rides. *)
CrashAndRestart ==
  /\ inviteUsed' = Cardinality(invited)
  /\ reg' = [g \in Registrations |-> IF reg[g] = "idle" THEN "idle" ELSE "done"]
  /\ req' = [q \in Requests |-> IF req[q] = "idle" THEN "idle" ELSE "done"]
  /\ lock' = None
  /\ fares' = [q \in Requests |->
       IF q \in ridden THEN Fare(q, StoredCoupon(q)) ELSE None]
  /\ UNCHANGED <<invited, unheard, given, usedBy, first, coupon, ridden>>

RegistrationStep(g) ==
  \/ Reserve(g)            \/ InsertReward(g)     \/ CommitRegistration(g)
  \/ Registered(g)         \/ FailRegistration(g) \/ CommitUnheard(g)

RideStep(q) ==
  BeginRide(q) \/ ChooseCoupon(q) \/ FailRide(q) \/ CommitRide(q) \/ AddRide(q)

Next ==
  \/ \E g \in Registrations : RegistrationStep(g)
  \/ \E q \in Requests : RideStep(q)
  \/ CrashAndRestart

Spec == Init /\ [][Next]_vars

-----------------------------------------------------------------------------
(* Registrations that hold a slot they may still return. *)
Holding == {g \in Registrations : reg[g] \in {"reserved", "inserted", "committed"}}

(* Type invariant. *)
TypeOK ==
  /\ inviteUsed \in Nat
  /\ reg \in [Registrations ->
       {"idle", "reserved", "inserted", "committed", "done", "failed"}]
  /\ invited \subseteq Registrations /\ unheard \subseteq invited
  /\ given \in Seq(Coupons)
  /\ usedBy \in [Coupons -> Requests \cup {None}]
  /\ req \in [Requests -> {"idle", "begun", "priced", "committed", "done", "failed"}]
  /\ first \in [Requests -> BOOLEAN]
  /\ coupon \in [Requests -> Coupons \cup {None}]
  /\ lock \in Requests \cup {None}
  /\ ridden \subseteq Requests
  /\ fares \in [Requests -> Nat \cup {None}]

(* The counter in memory stands for the slots taken, stored or being stored: a
   failure returns its slot once, no slot is lost, and only registrations that
   were stored but answered with an error (app_handlers.go:130-134) make it
   smaller than it should be, until a restart counts them again. *)
SlotsAreCounted ==
  LET taken == Cardinality(invited \cup Holding)
  IN /\ Cardinality(Holding) <= inviteUsed
     /\ inviteUsed <= taken
     /\ taken <= inviteUsed + Cardinality(unheard)

(* A code invites three users, and one more for each registration that was
   stored although its Commit returned an error, under any interleaving of
   registrations, failures and restarts (state.go:612-621). *)
InviteLimit == Cardinality(invited) <= 3 + Cardinality(unheard)

(* A coupon pays for one ride only: once a ride has used it, no other ride ever
   takes it over (app_handlers.go:341-393). *)
CouponUsedOnce ==
  [][\A c \in Coupons : usedBy[c] # None => usedBy'[c] = usedBy[c]]_vars

(* The fare that the request answered and memory holds is the one that a restart
   computes from the coupons in the database (state.go:341-360). *)
FareSurvives ==
  \A q \in Requests : fares[q] # None => fares[q] = Fare(q, StoredCoupon(q))
=============================================================================
