--------------------------- MODULE CampaignProofs ---------------------------
(* Proofs about Campaign, for any number of registrations and requests. *)
EXTENDS Campaign, FiniteSetTheorems, TLAPS

(* A registration is in the database from its commit on, which is not unheard yet. *)
InvitedWhenCommitted ==
  \A g \in Registrations :
    /\ reg[g] = "committed" => g \in invited \ unheard
    /\ reg[g] \in {"idle", "reserved", "inserted"} => g \notin invited

(* The slots taken, with those of registrations under way. *)
SlotsAreFew == Cardinality(invited \cup Holding) <= 3 + Cardinality(unheard)

(* The rows say that q has used c, and nothing else. *)
IsCoupon(q, c) == \A d \in Coupons : usedBy[d] = q <=> d = c

(* A request that is not committed has neither ride, fare nor coupon. *)
NotYetRidden ==
  \A q \in Requests : req[q] \in {"idle", "begun", "priced", "failed"} =>
    q \notin ridden /\ fares[q] = None /\ IsCoupon(q, None)

(* The transaction that has chosen a coupon has it locked, unused. *)
ChosenIsLocked ==
  \A q \in Requests : req[q] = "priced" =>
    lock = q /\ (coupon[q] # None => usedBy[coupon[q]] = None)

CommittedHasCoupon ==
  \A q \in Requests : req[q] = "committed" =>
    q \in ridden /\ IsCoupon(q, coupon[q])

FareOfCoupon ==
  \A q \in Requests : \E c \in Coupons \cup {None} :
    IsCoupon(q, c) /\ (fares[q] # None => fares[q] = Fare(q, c))

SlotInv == InvitedWhenCommitted /\ SlotsAreCounted /\ SlotsAreFew

CouponInv == NotYetRidden /\ ChosenIsLocked /\ CommittedHasCoupon /\ FareOfCoupon

IInv == TypeOK /\ SlotInv /\ CouponInv

-----------------------------------------------------------------------------
(* StoredCoupon finds the coupon if there is one at most. *)
LEMMA StoredCouponIs ==
  ASSUME NEW q \in Requests, NEW c \in Coupons \cup {None}, IsCoupon(q, c)
  PROVE  StoredCoupon(q) = c
<1>1. None \notin Coupons
  BY CampaignAssumption DEF Coupons
<1> QED BY <1>1 DEF StoredCoupon, IsCoupon

LEMMA FareType ==
  ASSUME NEW q \in Requests, NEW c PROVE Fare(q, c) \in Nat
BY CampaignAssumption DEF Fare, Discount

(* The sets whose sizes are compared are finite. *)
LEMMA SlotSetsFinite ==
  ASSUME TypeOK
  PROVE  /\ IsFiniteSet(Holding) /\ Cardinality(Holding) \in Nat
         /\ IsFiniteSet(invited) /\ Cardinality(invited) \in Nat
         /\ IsFiniteSet(unheard) /\ Cardinality(unheard) \in Nat
         /\ IsFiniteSet(invited \cup Holding)
         /\ Cardinality(invited \cup Holding) \in Nat
<1>1. /\ Holding \in SUBSET Registrations /\ invited \in SUBSET Registrations
      /\ unheard \in SUBSET Registrations
      /\ invited \cup Holding \in SUBSET Registrations
  BY DEF TypeOK, Holding
<1>2. \A T \in SUBSET Registrations : IsFiniteSet(T)
  BY CampaignAssumption, FS_Subset
<1> QED BY <1>1, <1>2, FS_CardinalityType

LEMMA InitIInv == Init => IInv
<1> SUFFICES ASSUME Init PROVE IInv
  OBVIOUS
<1> USE CampaignAssumption DEF Init
<1>1. TypeOK
  BY DEF TypeOK, Coupons
<1>2. Holding = {} /\ invited \cup Holding = {} /\ unheard = {}
  BY DEF Holding
<1>3. SlotsAreCounted /\ SlotsAreFew
  BY <1>2, FS_EmptySet DEF SlotsAreCounted, SlotsAreFew
<1>4. InvitedWhenCommitted
  BY DEF InvitedWhenCommitted
<1>5. \A q \in Requests : IsCoupon(q, None)
  BY DEF IsCoupon, Coupons
<1>6. CouponInv
  BY <1>5 DEF CouponInv, NotYetRidden, ChosenIsLocked, CommittedHasCoupon, FareOfCoupon
<1> QED BY <1>1, <1>3, <1>4, <1>6 DEF IInv, SlotInv

-----------------------------------------------------------------------------
(* Type invariant, step by step. *)
LEMMA RegistrationTypes ==
  ASSUME TypeOK, NEW g \in Registrations, RegistrationStep(g),
         InvitedWhenCommitted
  PROVE  TypeOK'
<1> USE DEF TypeOK, slotVars, rideVars
<1>1. CASE Reserve(g)
  BY <1>1 DEF Reserve
<1>2. CASE InsertReward(g)
  BY <1>2 DEF InsertReward, Coupons
<1>3. CASE CommitRegistration(g)
  BY <1>3 DEF CommitRegistration
<1>4. CASE Registered(g)
  BY <1>4 DEF Registered
<1>5. CASE FailRegistration(g)
  BY <1>5 DEF FailRegistration, Release
<1>6. CASE CommitUnheard(g)
  BY <1>6 DEF CommitUnheard, Release, InvitedWhenCommitted
<1> QED BY <1>1, <1>2, <1>3, <1>4, <1>5, <1>6 DEF RegistrationStep

LEMMA RideTypes ==
  ASSUME TypeOK, NEW q \in Requests, RideStep(q)
  PROVE  TypeOK'
<1> USE DEF TypeOK, slotVars
<1>1. CASE BeginRide(q)
  BY <1>1 DEF BeginRide
<1>2. CASE ChooseCoupon(q)
  <2>1. Found(q) \subseteq Coupons \cup {None}
    BY DEF Found, OldestUnused, Unused, Coupons
  <2> QED BY <1>2, <2>1 DEF ChooseCoupon
<1>3. CASE FailRide(q)
  BY <1>3 DEF FailRide, Unlocked
<1>4. CASE CommitRide(q)
  BY <1>4 DEF CommitRide, Unlocked
<1>5. CASE AddRide(q)
  BY <1>5, FareType DEF AddRide
<1> QED BY <1>1, <1>2, <1>3, <1>4, <1>5 DEF RideStep

(* A restart reads integers and sets back, and prices in naturals. *)
LEMMA RestartTypes ==
  ASSUME TypeOK, CrashAndRestart PROVE TypeOK'
BY SlotSetsFinite, FareType DEF TypeOK, CrashAndRestart

-----------------------------------------------------------------------------
(* Slots: each step adds the same registration to both sides, or to none. *)
LEMMA ReserveSlots ==
  ASSUME IInv, NEW g \in Registrations, Reserve(g)
  PROVE  SlotInv'
<1> USE DEF IInv, SlotInv
<1>1. InvitedWhenCommitted'
  BY DEF Reserve, InvitedWhenCommitted, TypeOK
<1>2. CASE inviteUsed >= 3
  <2>1. Holding' = Holding /\ UNCHANGED <<inviteUsed, invited, unheard>>
    BY <1>2 DEF Reserve, Holding, TypeOK
  <2> QED BY <1>1, <2>1 DEF SlotsAreCounted, SlotsAreFew
<1>3. CASE ~ (inviteUsed >= 3)
  <2>1. /\ Holding' = Holding \cup {g} /\ g \notin Holding /\ g \notin invited
        /\ inviteUsed' = inviteUsed + 1 /\ UNCHANGED <<invited, unheard>>
    BY <1>3 DEF Reserve, Holding, TypeOK, InvitedWhenCommitted
  <2>2. (invited \cup Holding)' = (invited \cup Holding) \cup {g}
    BY <2>1
  <2>3. /\ Cardinality(Holding') = Cardinality(Holding) + 1
        /\ Cardinality((invited \cup Holding)') = Cardinality(invited \cup Holding) + 1
    BY <2>1, <2>2, SlotSetsFinite, FS_AddElement
  <2> QED BY <1>1, <1>3, <2>1, <2>3, SlotSetsFinite
          DEF SlotsAreCounted, SlotsAreFew, TypeOK
<1> QED BY <1>2, <1>3

LEMMA FailSlots ==
  ASSUME IInv, NEW g \in Registrations, FailRegistration(g)
  PROVE  SlotInv'
<1> USE DEF IInv, SlotInv
<1>1. InvitedWhenCommitted'
  BY DEF FailRegistration, InvitedWhenCommitted, TypeOK
<1>2. /\ Holding' = Holding \ {g} /\ g \in Holding /\ g \notin invited
      /\ UNCHANGED <<invited, unheard>>
  BY DEF FailRegistration, Holding, TypeOK, InvitedWhenCommitted
<1>3. (invited \cup Holding)' = (invited \cup Holding) \ {g}
  BY <1>2
<1>4. /\ Cardinality(Holding') = Cardinality(Holding) - 1
      /\ Cardinality((invited \cup Holding)') = Cardinality(invited \cup Holding) - 1
  BY <1>2, <1>3, SlotSetsFinite, FS_RemoveElement
<1>5. Cardinality(Holding) > 0
  BY <1>2, SlotSetsFinite, FS_EmptySet
<1>6. inviteUsed' = inviteUsed - 1
  BY <1>5, SlotSetsFinite DEF FailRegistration, Release, SlotsAreCounted, TypeOK
<1> QED BY SMTT(30), <1>1, <1>2, <1>4, <1>6, SlotSetsFinite
        DEF SlotsAreCounted, SlotsAreFew, TypeOK

LEMMA UnheardSlots ==
  ASSUME IInv, NEW g \in Registrations, CommitUnheard(g)
  PROVE  SlotInv'
<1> USE DEF IInv, SlotInv
<1>1. InvitedWhenCommitted'
  BY DEF CommitUnheard, InvitedWhenCommitted, TypeOK
<1>2. /\ Holding' = Holding \ {g} /\ g \in Holding /\ g \in invited \ unheard
      /\ unheard' = unheard \cup {g} /\ UNCHANGED invited
  BY DEF CommitUnheard, Holding, TypeOK, InvitedWhenCommitted
<1>3. Cardinality((invited \cup Holding)') = Cardinality(invited \cup Holding)
  <2>1. (invited \cup Holding)' = invited \cup Holding
    BY <1>2
  <2> QED BY <2>1, Zenon
<1>4. /\ Cardinality(Holding') = Cardinality(Holding) - 1
      /\ Cardinality(unheard') = Cardinality(unheard) + 1
  BY <1>2, SlotSetsFinite, FS_RemoveElement, FS_AddElement
<1>5. Cardinality(Holding) > 0
  BY <1>2, SlotSetsFinite, FS_EmptySet
<1>6. inviteUsed' = inviteUsed - 1
  BY <1>5, SlotSetsFinite DEF CommitUnheard, Release, SlotsAreCounted, TypeOK
<1>7. SlotsAreCounted'
  <2>1. /\ Cardinality(Holding) <= inviteUsed
        /\ inviteUsed <= Cardinality(invited \cup Holding)
        /\ Cardinality(invited \cup Holding) <= inviteUsed + Cardinality(unheard)
        /\ inviteUsed \in Nat
    BY DEF SlotsAreCounted, TypeOK
  <2> QED BY <1>3, <1>4, <1>6, <2>1, SlotSetsFinite DEF SlotsAreCounted
<1>8. SlotsAreFew'
  BY <1>3, <1>4, SlotSetsFinite DEF SlotsAreFew
<1> QED BY <1>1, <1>7, <1>8

LEMMA CommitSlots ==
  ASSUME IInv, NEW g \in Registrations, CommitRegistration(g) \/ Registered(g)
                                       \/ InsertReward(g)
  PROVE  SlotInv'
<1> USE DEF IInv, SlotInv
<1>1. InvitedWhenCommitted'
  BY DEF CommitRegistration, Registered, InsertReward, InvitedWhenCommitted, TypeOK,
         slotVars
<1>2. UNCHANGED <<inviteUsed, unheard>>
  BY DEF CommitRegistration, Registered, InsertReward, slotVars
<1>3. CASE InsertReward(g)
  <2>1. Holding' = Holding /\ UNCHANGED invited
    BY <1>3 DEF InsertReward, Holding, TypeOK, slotVars
  <2> QED BY <1>1, <1>2, <2>1 DEF SlotsAreCounted, SlotsAreFew
<1>4. CASE CommitRegistration(g)
  <2>1. Holding' = Holding /\ g \in Holding /\ invited' = invited \cup {g}
    BY <1>4 DEF CommitRegistration, Holding, TypeOK
  <2>2. (invited \cup Holding)' = invited \cup Holding
    BY <2>1
  <2> QED BY <1>1, <1>2, <2>1, <2>2 DEF SlotsAreCounted, SlotsAreFew
<1>5. CASE Registered(g)
  <2>1. Holding' = Holding \ {g} /\ g \in invited /\ UNCHANGED invited
    BY <1>5 DEF Registered, Holding, TypeOK, InvitedWhenCommitted, slotVars
  <2>2. Cardinality((invited \cup Holding)') = Cardinality(invited \cup Holding)
    <3>1. (invited \cup Holding)' = invited \cup Holding
      BY <2>1
    <3> QED BY <3>1, Zenon
  <2>3. /\ Cardinality(Holding') \in Nat
        /\ Cardinality(Holding') <= Cardinality(Holding)
    <3>1. Holding' \in SUBSET Holding
      BY <2>1
    <3>2. IsFiniteSet(Holding') /\ Cardinality(Holding') <= Cardinality(Holding)
      BY <3>1, SlotSetsFinite, FS_Subset
    <3> QED BY <3>2, FS_CardinalityType
  <2>4. SlotsAreCounted' /\ SlotsAreFew'
    BY <1>2, <2>2, <2>3, SlotSetsFinite DEF SlotsAreCounted, SlotsAreFew, TypeOK
  <2> QED BY <1>1, <2>4
<1> QED BY <1>3, <1>4, <1>5

LEMMA RestartSlots ==
  ASSUME IInv, CrashAndRestart
  PROVE  SlotInv'
<1> USE DEF IInv, SlotInv
<1>1. InvitedWhenCommitted'
  BY DEF CrashAndRestart, InvitedWhenCommitted, TypeOK
<1>2. Holding' = {} /\ (invited \cup Holding)' = invited /\ UNCHANGED unheard
  BY DEF CrashAndRestart, Holding
<1>3. Cardinality(invited) <= Cardinality(invited \cup Holding)
  BY SlotSetsFinite, FS_Subset
<1>4. Cardinality(Holding') = 0 /\ inviteUsed' = Cardinality(invited)
  BY <1>2, FS_EmptySet DEF CrashAndRestart
<1> QED BY <1>1, <1>2, <1>3, <1>4, SlotSetsFinite
        DEF SlotsAreCounted, SlotsAreFew

LEMMA RegistrationInv ==
  ASSUME IInv, NEW g \in Registrations, RegistrationStep(g)
  PROVE  IInv'
<1>1. TypeOK'
  BY RegistrationTypes DEF IInv, SlotInv
<1>2. SlotInv'
  BY ReserveSlots, FailSlots, UnheardSlots, CommitSlots DEF RegistrationStep
<1>3. UNCHANGED <<usedBy, rideVars>>
  BY DEF RegistrationStep, Reserve, InsertReward, CommitRegistration, Registered,
         FailRegistration, CommitUnheard
<1>4. CouponInv'
  BY <1>3 DEF IInv, CouponInv, NotYetRidden, ChosenIsLocked, CommittedHasCoupon,
              FareOfCoupon, IsCoupon, rideVars
<1> QED BY <1>1, <1>2, <1>4 DEF IInv

-----------------------------------------------------------------------------
(* Coupons.  Until the commit of a ride only its own request changes. *)
LEMMA BeforeCommit ==
  ASSUME IInv, NEW q \in Requests, BeginRide(q) \/ FailRide(q)
  PROVE  CouponInv'
<1> USE DEF IInv, CouponInv, TypeOK
<1>1. UNCHANGED <<usedBy, coupon, ridden, fares>>
  BY DEF BeginRide, FailRide
<1>2. FareOfCoupon'
  BY <1>1 DEF FareOfCoupon, IsCoupon
<1>3. NotYetRidden' /\ CommittedHasCoupon'
  BY <1>1 DEF BeginRide, FailRide, NotYetRidden, CommittedHasCoupon, IsCoupon
<1>4. ChosenIsLocked'
  BY <1>1 DEF BeginRide, FailRide, Unlocked, ChosenIsLocked
<1> QED BY <1>2, <1>3, <1>4

LEMMA ChooseInv ==
  ASSUME IInv, NEW q \in Requests, ChooseCoupon(q)
  PROVE  CouponInv'
<1> USE DEF IInv, CouponInv, TypeOK
<1>1. UNCHANGED <<usedBy, ridden, fares>> /\ lock = None /\ lock' = q
  BY DEF ChooseCoupon
<1>2. PICK c \in Found(q) : coupon' = [coupon EXCEPT ![q] = c]
  BY DEF ChooseCoupon
<1>3. c # None => usedBy[c] = None
  BY <1>2 DEF Found, OldestUnused, Unused
<1>4. \A p \in Requests : req[p] # "priced"
  BY <1>1, CampaignAssumption DEF ChosenIsLocked
<1>5. ChosenIsLocked'
  BY <1>1, <1>2, <1>3, <1>4 DEF ChosenIsLocked, ChooseCoupon
<1>6. FareOfCoupon'
  BY <1>1 DEF FareOfCoupon, IsCoupon
<1>7. NotYetRidden' /\ CommittedHasCoupon'
  BY <1>1, <1>2 DEF ChooseCoupon, NotYetRidden, CommittedHasCoupon, IsCoupon
<1> QED BY <1>5, <1>6, <1>7

LEMMA CommitInv ==
  ASSUME IInv, NEW q \in Requests, CommitRide(q)
  PROVE  CouponInv'
<1> USE CampaignAssumption DEF IInv, CouponInv, TypeOK
<1>1. /\ req[q] = "priced" /\ req' = [req EXCEPT ![q] = "committed"]
      /\ ridden' = ridden \cup {q} /\ UNCHANGED <<coupon, fares>>
      /\ usedBy' = IF coupon[q] = None THEN usedBy
                                       ELSE [usedBy EXCEPT ![coupon[q]] = q]
  BY DEF CommitRide
<1>2. lock = q /\ (coupon[q] # None => usedBy[coupon[q]] = None)
  BY <1>1 DEF ChosenIsLocked
<1>3. IsCoupon(q, None) /\ fares[q] = None
  BY <1>1 DEF NotYetRidden
<1>4. None \notin Coupons
  BY DEF Coupons
<1>5. IsCoupon(q, coupon[q])'
  BY <1>1, <1>3, <1>4 DEF IsCoupon
<1>6. \A p \in Requests \ {q} : \A d \in Coupons : usedBy'[d] = p <=> usedBy[d] = p
  BY <1>1, <1>2
<1>7. \A p \in Requests \ {q} : \A c : IsCoupon(p, c)' <=> IsCoupon(p, c)
  BY <1>6 DEF IsCoupon
<1>8. NotYetRidden'
  BY <1>1, <1>7 DEF NotYetRidden
<1>9. \A p \in Requests \ {q} : req[p] # "priced"
  BY <1>2 DEF ChosenIsLocked
<1>10. ChosenIsLocked'
  BY <1>1, <1>9 DEF ChosenIsLocked
<1>11. CommittedHasCoupon'
  BY <1>1, <1>5, <1>7 DEF CommittedHasCoupon
<1>12. FareOfCoupon'
  <2> SUFFICES ASSUME NEW p \in Requests
               PROVE  \E c \in Coupons \cup {None} :
                        IsCoupon(p, c)' /\ (fares'[p] # None => fares'[p] = Fare(p, c))
    BY DEF FareOfCoupon, Fare
  <2>1. CASE p = q
    <3>1. coupon[q] \in Coupons \cup {None} /\ coupon'[q] = coupon[q] /\ fares'[q] = None
      BY <1>1, <1>3
    <3> QED BY <1>5, <2>1, <3>1
  <2>2. CASE p # q
    <3>1. PICK c \in Coupons \cup {None} :
            IsCoupon(p, c) /\ (fares[p] # None => fares[p] = Fare(p, c))
      BY DEF FareOfCoupon
    <3> QED BY <1>1, <1>7, <2>2, <3>1
  <2> QED BY <2>1, <2>2
<1> QED BY <1>8, <1>10, <1>11, <1>12

LEMMA AddInv ==
  ASSUME IInv, NEW q \in Requests, AddRide(q)
  PROVE  CouponInv'
<1> USE CampaignAssumption DEF IInv, CouponInv, TypeOK
<1>1. /\ req[q] = "committed" /\ req' = [req EXCEPT ![q] = "done"]
      /\ fares' = [fares EXCEPT ![q] = Fare(q, coupon[q])] \/ fares' = fares
      /\ UNCHANGED <<usedBy, coupon, ridden, lock>>
  BY DEF AddRide
<1>2. IsCoupon(q, coupon[q])
  BY <1>1 DEF CommittedHasCoupon
<1>3. \A p, c : IsCoupon(p, c)' <=> IsCoupon(p, c)
  BY <1>1 DEF IsCoupon
<1>4. NotYetRidden' /\ ChosenIsLocked' /\ CommittedHasCoupon'
  BY <1>1, <1>3 DEF NotYetRidden, ChosenIsLocked, CommittedHasCoupon
<1>5. FareOfCoupon'
  BY <1>1, <1>2, <1>3 DEF FareOfCoupon
<1> QED BY <1>4, <1>5

LEMMA RideInv ==
  ASSUME IInv, NEW q \in Requests, RideStep(q)
  PROVE  IInv'
<1>1. TypeOK'
  BY RideTypes DEF IInv
<1>2. UNCHANGED <<slotVars, reg>>
  BY DEF RideStep, BeginRide, ChooseCoupon, FailRide, CommitRide, AddRide
<1>3. SlotInv'
  BY <1>2 DEF IInv, SlotInv, InvitedWhenCommitted, SlotsAreCounted, SlotsAreFew,
              Holding, slotVars
<1>4. CouponInv'
  BY BeforeCommit, ChooseInv, CommitInv, AddInv DEF RideStep
<1> QED BY <1>1, <1>3, <1>4 DEF IInv

LEMMA RestartInv ==
  ASSUME IInv, CrashAndRestart
  PROVE  IInv'
<1> USE DEF CouponInv
<1>1. TypeOK' /\ SlotInv'
  BY RestartTypes, RestartSlots DEF IInv
<1>2. \A p, c : IsCoupon(p, c)' <=> IsCoupon(p, c)
  BY DEF IsCoupon, CrashAndRestart
<1>3. /\ \A q \in Requests : req'[q] = "idle" \/ req'[q] = "done"
      /\ \A q \in Requests : req'[q] = "idle" => req[q] = "idle"
      /\ UNCHANGED ridden
  BY DEF CrashAndRestart
<1>4. NotYetRidden'
  BY <1>2, <1>3 DEF IInv, NotYetRidden, CrashAndRestart
<1>5. ChosenIsLocked' /\ CommittedHasCoupon'
  BY <1>3 DEF ChosenIsLocked, CommittedHasCoupon
<1>6. FareOfCoupon'
  <2> SUFFICES ASSUME NEW q \in Requests
               PROVE  \E c \in Coupons \cup {None} :
                 IsCoupon(q, c) /\ (fares'[q] # None => fares'[q] = Fare(q, c))
    BY <1>2 DEF FareOfCoupon
  <2>1. PICK c \in Coupons \cup {None} : IsCoupon(q, c)
    BY DEF IInv, FareOfCoupon
  <2>2. StoredCoupon(q) = c
    BY <2>1, StoredCouponIs
  <2> QED BY <2>1, <2>2 DEF CrashAndRestart
<1> QED BY <1>1, <1>4, <1>5, <1>6 DEF IInv

LEMMA StepIInv == IInv /\ [Next]_vars => IInv'
<1> SUFFICES ASSUME IInv, [Next]_vars PROVE IInv'
  OBVIOUS
<1>1. CASE UNCHANGED vars
  BY <1>1 DEF vars, slotVars, rideVars, IInv, TypeOK, SlotInv, InvitedWhenCommitted,
     SlotsAreCounted, SlotsAreFew, Holding, CouponInv, NotYetRidden, ChosenIsLocked,
     CommittedHasCoupon, FareOfCoupon, IsCoupon
<1> QED BY <1>1, RegistrationInv, RideInv, RestartInv DEF Next

LEMMA InvariantHolds == Spec => []IInv
BY InitIInv, StepIInv, PTL DEF Spec

-----------------------------------------------------------------------------
(* The types hold in every execution. *)
THEOREM TypeCorrect == Spec => []TypeOK
BY InvariantHolds, PTL DEF IInv

(* Slots in memory and guests in the database agree, for any number of
   registrations at once, failures and restarts. *)
THEOREM SlotsAreCountedCorrect == Spec => []SlotsAreCounted
<1>1. IInv => SlotsAreCounted
  BY DEF IInv, SlotInv
<1> QED BY <1>1, InvariantHolds, PTL

(* Three guests, and one more for each that was answered with an error. *)
THEOREM InviteLimitCorrect == Spec => []InviteLimit
<1>1. IInv => InviteLimit
  <2> SUFFICES ASSUME IInv PROVE InviteLimit
    OBVIOUS
  <2>1. Cardinality(invited) <= Cardinality(invited \cup Holding)
    BY SlotSetsFinite, FS_Subset DEF IInv
  <2> QED BY <2>1, SlotSetsFinite DEF IInv, SlotInv, SlotsAreFew, InviteLimit
<1> QED BY <1>1, InvariantHolds, PTL

(* What memory holds as a fare is what the database says of the ride. *)
THEOREM FareSurvivesCorrect == Spec => []FareSurvives
<1>1. IInv => FareSurvives
  BY StoredCouponIs DEF IInv, CouponInv, FareOfCoupon, FareSurvives
<1> QED BY <1>1, InvariantHolds, PTL

(* Coupons change hands once, from no ride to one, for any number of requests. *)
THEOREM CouponUsedOnceCorrect == Spec => CouponUsedOnce
<1> DEFINE Same == \A c \in Coupons : usedBy[c] # None => usedBy'[c] = usedBy[c]
<1>1. ASSUME IInv, NEW q \in Requests, CommitRide(q) PROVE Same
  <2>1. coupon[q] # None => usedBy[coupon[q]] = None
    BY <1>1 DEF IInv, CouponInv, ChosenIsLocked, CommitRide
  <2> QED BY <1>1, <2>1 DEF CommitRide, IInv, TypeOK
<1>2. ASSUME ~ \E q \in Requests : CommitRide(q), [Next]_vars PROVE Same
  BY <1>2 DEF Next, RegistrationStep, RideStep, vars, rideVars, slotVars, Reserve,
     InsertReward, CommitRegistration, Registered, FailRegistration, CommitUnheard,
     BeginRide, ChooseCoupon, FailRide, AddRide, CrashAndRestart
<1>3. IInv /\ [Next]_vars => [Same]_vars
  BY <1>1, <1>2
<1> QED BY <1>3, InvariantHolds, PTL DEF Spec, CouponUsedOnce
=============================================================================
