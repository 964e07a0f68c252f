------------------------------ MODULE Matching ------------------------------
(***************************************************************************)
(* How internalGetMatching chooses its plans from a copy of the waiting    *)
(* rides and the free chairs: the candidates of each chair, and then an    *)
(* assignment of least total cost if it is cheap enough to compute, or a   *)
(* greedy one.  Rides are numbered by age and chairs by name, as the code  *)
(* sorts them; costOf is any function.  The least cost is found by the     *)
(* steps of module Hungarian; that the plans still fit when they are       *)
(* carried out is PlansStayValid of Dispatch.                              *)
(***************************************************************************)
EXTENDS Hungarian, FiniteSetsExt, Functions

CONSTANTS
  Inputs,    \* what costOf may be, by chair and ride
  Budgets    \* what hungarianBudget may be: 20,000,000 in the code

(* A cost for each chair and each ride, of which there is one at least. *)
ASSUME MatchingAssumption ==
  /\ Budgets \subseteq Nat
  /\ \A f \in Inputs :
       /\ f \in Seq(Seq(Int)) /\ f # <<>> /\ f[1] # <<>>
       /\ \A c \in 1 .. Len(f) : Len(f[c]) = Len(f[1])

VARIABLES
  cost,    \* costOf
  hungarianBudget,
  plans,   \* the plans, as pairs
  pc       \* "snapshot", "minimise", "done"

vars == <<cost, hungarianBudget, plans, pc, hungarianVars>>

(* How many chairs are free, and how many rides wait. *)
chairs == Len(cost)
rides == Len(cost[1])

Pair == [ride : 1 .. rides, chair : 1 .. chairs]

Cost(x) == cost[x.chair][x.ride]

(* comparePair *)
Before(x, y) ==
  \/ Cost(x) < Cost(y)
  \/ Cost(x) = Cost(y) /\ x.ride < y.ride
  \/ Cost(x) = Cost(y) /\ x.ride = y.ride /\ x.chair < y.chair

(* How many candidates a chair keeps; mutant: one too few. *)
TooFewKept == Max({1, chairs - 1})
Kept == chairs

(* The pairs of a chair with the rides that cost it least. *)
Candidates(c) ==
  LET all == [ride : 1 .. rides, chair : {c}]
  IN {x \in all : Cardinality({y \in all : Before(y, x)}) < Kept}

Pairs == UNION {Candidates(c) : c \in 1 .. chairs}

CandRides == {x.ride : x \in Pairs}

(* The greedy assignment from a set of pairs. *)
AddPlan(P, x) ==
  IF \E y \in P : y.ride = x.ride \/ y.chair = x.chair THEN P ELSE P \cup {x}

Nth(S, n) == CHOOSE x \in S : Cardinality({y \in S : Before(y, x)}) = n - 1

Greedy(S) ==
  LET plan[n \in 0 .. Cardinality(S)] ==
        IF n = 0 THEN {} ELSE AddPlan(plan[n - 1], Nth(S, n))
  IN plan[Cardinality(S)]

(* nr * nr * nc *)
Work ==
  LET n == Cardinality(CandRides)
  IN IF chairs <= n THEN chairs * chairs * n ELSE n * n * chairs

UseHungarian == Work > 0 /\ Work <= hungarianBudget

(* minCostAssign: the rows are the smaller side, and each gets a column. *)
RowsAreChairs == chairs <= Cardinality(CandRides)

candRides ==
  LET all == CandRides
  IN [n \in 1 .. Cardinality(all) |->
        CHOOSE r \in all : Cardinality({q \in all : q < r}) = n - 1]

Matrix ==
  LET cand == candRides
  IN IF RowsAreChairs
       THEN [c \in 1 .. chairs |-> [n \in DOMAIN cand |-> cost[c][cand[n]]]]
       ELSE [n \in DOMAIN cand |-> [c \in 1 .. chairs |-> cost[c][cand[n]]]]

(* The answer of hungarian as pairs; mutant: ride and chair are swapped. *)
PlanOfSwapped(row) ==
  IF RowsAreChairs THEN [ride |-> row, chair |-> candRides[Assign[row]]]
                   ELSE [ride |-> Assign[row], chair |-> candRides[row]]
PlanOf(row) ==
  IF RowsAreChairs THEN [ride |-> candRides[Assign[row]], chair |-> row]
                   ELSE [ride |-> candRides[row], chair |-> Assign[row]]

-----------------------------------------------------------------------------
Init ==
  /\ cost \in Inputs
  /\ Start(Matrix)
  /\ plans = {} /\ pc = "snapshot"
  /\ hungarianBudget \in Budgets

(* usedHungarian; the matrix of minCostAssign is there from the beginning. *)
ChooseHungarian ==
  /\ pc = "snapshot" /\ UseHungarian
  /\ pc' = "minimise"
  /\ UNCHANGED <<cost, hungarianBudget, plans, hungarianVars>>

Minimise ==
  /\ pc = "minimise" /\ HungarianNext
  /\ UNCHANGED <<cost, hungarianBudget, plans, pc>>

PlanCheapest ==
  /\ pc = "minimise" /\ step = "done"
  /\ plans' = {PlanOf(row) : row \in Rows}
  /\ pc' = "done"
  /\ UNCHANGED <<cost, hungarianBudget, hungarianVars>>

PlanGreedy ==
  /\ pc = "snapshot" /\ ~UseHungarian
  /\ plans' = Greedy(Pairs)
  /\ pc' = "done"
  /\ UNCHANGED <<cost, hungarianBudget, hungarianVars>>

Next == ChooseHungarian \/ Minimise \/ PlanCheapest \/ PlanGreedy

Spec == Init /\ [][Next]_vars

(* A sequential function. *)
FairSpec == Spec /\ WF_vars(Minimise \/ PlanCheapest)

-----------------------------------------------------------------------------
(* Type invariant. *)
TypeOK ==
  /\ cost \in Inputs /\ hungarianBudget \in Budgets
  /\ plans \subseteq Pair /\ pc \in {"snapshot", "minimise", "done"}
  /\ HungarianTypeOK

(* The assignments that use the smaller side up, and what they cost. *)
Assignments ==
  IF chairs <= rides
    THEN {{[ride |-> f[c], chair |-> c] : c \in 1 .. chairs} :
            f \in Injection(1 .. chairs, 1 .. rides)}
    ELSE {{[ride |-> r, chair |-> f[r]] : r \in 1 .. rides} :
            f \in Injection(1 .. rides, 1 .. chairs)}

TotalCost(P) == SumFunction([x \in P |-> Cost(x)])

(* Keeping only the len(chairs) cheapest rides of each chair changes nothing
   about a greedy assignment, which uses the smaller side up: no waiting ride is
   left beside a free chair (internal_handlers.go:219-222). *)
GreedyNeedsNoMore ==
  (pc = "done" /\ step # "done") => plans = Greedy(Pair) /\ plans \in Assignments

(* Nor does it make the cheapest assignment dearer: what hungarian finds among
   the candidates uses the smaller side up and costs no more than any assignment
   of all the rides (internal_handlers.go:270-272; hungarian_test.go compares on
   a matrix). *)
CheapestOfAll ==
  (pc = "done" /\ step = "done") =>
    /\ plans \in Assignments
    /\ \A P \in Assignments : TotalCost(plans) <= TotalCost(P)

(* The two inner loops of hungarian end, for every matrix. *)
Terminates == pc = "minimise" ~> pc = "done"
=============================================================================
