----------------------------- MODULE Hungarian ------------------------------
(***************************************************************************)
(* hungarian of internal_handlers.go: the Kuhn-Munkres method with         *)
(* potentials on a cost matrix with at most as many rows as columns.  Each *)
(* pass of one of its loops is one action.  Costs are integers here; the   *)
(* rounding of float64 is not modelled.                                    *)
(***************************************************************************)
EXTENDS Integers, Sequences, FiniteSets

VARIABLES
  a,        \* the cost matrix
  u, v,     \* the potentials of the rows and the columns
  p,        \* the row matched to a column; 0: none
  way,      \* the column from which a column was reached
  minv,     \* its least reduced cost from the columns seen
  used,     \* the columns seen
  i, j0,    \* the row being added, and the column the search is at
  step      \* "row", "search", "augment", "done"

(* n and m *)
N == Len(a)
M == Len(a[1])

Rows == 1 .. N
Cols == 1 .. M
Cols0 == 0 .. M   \* column 0 stands for the row that is being added

hungarianVars == <<a, u, v, p, way, minv, used, i, j0, step>>

(* The local variables for a matrix that is given. *)
Start(matrix) ==
  /\ a = matrix
  /\ u = [r \in 0 .. N |-> 0] /\ v = [j \in Cols0 |-> 0]
  /\ p = [j \in Cols0 |-> 0] /\ way = [j \in Cols0 |-> 0]
  /\ minv = [j \in Cols0 |-> 0] /\ used = {}
  /\ i = 1 /\ j0 = 0 /\ step = "row"

-----------------------------------------------------------------------------
StartRow ==
  /\ step = "row" /\ i <= N
  /\ p' = [p EXCEPT ![0] = i]
  /\ j0' = 0 /\ used' = {}
  /\ step' = "search"
  /\ UNCHANGED <<a, u, v, way, minv, i>>

(* A pass of the search sees one more column; mutant: and forgets the others. *)
SeenLast == {j0}
Seen == used \cup {j0}
Unseen == Cols \ Seen

(* minv is infinite only in the first pass for a row, in which every column is
   reached from column 0. *)
ReducedCost(j) == a[p[j0]][j] - u[p[j0]] - v[j]
Reached(j) == j0 = 0 \/ ReducedCost(j) < minv[j]
LeastCost(j) == IF Reached(j) THEN ReducedCost(j) ELSE minv[j]

(* The first of the unseen columns that cost least; mutant: the first unseen. *)
FirstUnseen == CHOOSE j \in Unseen : \A k \in Unseen : j <= k
Closest ==
  CHOOSE j \in Unseen :
    \A k \in Unseen : LeastCost(j) < LeastCost(k)
                        \/ (LeastCost(j) = LeastCost(k) /\ j <= k)

(* The potentials after that; mutant: those of the columns stay. *)
RaisedRow(r, delta) == IF \E j \in Seen : p[j] = r THEN u[r] + delta ELSE u[r]
KeptColumn(j, delta) == v[j]
LoweredColumn(j, delta) == IF j \in Seen THEN v[j] - delta ELSE v[j]

Search ==
  /\ step = "search"
  /\ used' = Seen
  /\ way' = [j \in Cols0 |-> IF j \in Unseen /\ Reached(j) THEN j0 ELSE way[j]]
  /\ LET delta == LeastCost(Closest)
     IN /\ u' = [r \in 0 .. N |-> RaisedRow(r, delta)]
        /\ v' = [j \in Cols0 |-> LoweredColumn(j, delta)]
        /\ minv' = [j \in Cols0 |->
                      IF j \in Unseen THEN LeastCost(j) - delta ELSE minv[j]]
  /\ j0' = Closest
  /\ step' = IF p[Closest] = 0 THEN "augment" ELSE "search"
  /\ UNCHANGED <<a, p, i>>

(* A pass of the second loop shifts a row along the path to column 0. *)
Augment ==
  /\ step = "augment"
  /\ p' = [p EXCEPT ![j0] = p[way[j0]]]
  /\ j0' = way[j0]
  /\ IF way[j0] = 0 THEN step' = "row" /\ i' = i + 1 ELSE UNCHANGED <<step, i>>
  /\ UNCHANGED <<a, u, v, way, minv, used>>

Finish ==
  /\ step = "row" /\ i > N
  /\ step' = "done"
  /\ UNCHANGED <<a, u, v, p, way, minv, used, i, j0>>

HungarianNext == StartRow \/ Search \/ Augment \/ Finish

(* The method by itself, on any matrix. *)
Matrices ==
  {m \in Seq(Seq(Int)) : /\ m # <<>>
                         /\ \A r \in 1 .. Len(m) : Len(m[r]) = Len(m[1])
                         /\ Len(m) <= Len(m[1])}

HungarianInit == \E matrix \in Matrices : Start(matrix)

HungarianSpec == HungarianInit /\ [][HungarianNext]_hungarianVars

-----------------------------------------------------------------------------
(* Type invariant. *)
HungarianTypeOK ==
  /\ a \in Seq(Seq(Int)) /\ a # <<>>
  /\ N <= M /\ \A r \in Rows : Len(a[r]) = M
  /\ u \in [0 .. N -> Int] /\ v \in [Cols0 -> Int] /\ minv \in [Cols0 -> Int]
  /\ p \in [Cols0 -> 0 .. N] /\ way \in [Cols0 -> Cols0]
  /\ used \subseteq Cols0 /\ j0 \in Cols0 /\ i \in 1 .. N + 1
  /\ step \in {"row", "search", "augment", "done"}

(* The rows whose potential is meant to be feasible: those already added, and
   the one being added once the search has left column 0. *)
Added == {r \in Rows : r < i \/ (r = i /\ step \in {"search", "augment"} /\ used # {})}

(* No potential exceeds a cost: what makes the dual a lower bound, in every
   pass of the search and not only at its end. *)
DualFeasible ==
  \A r \in Added, j \in Cols : u[r] + v[j] <= a[r][j]

(* What hungarian returns. *)
Assign == [r \in Rows |-> CHOOSE j \in Cols : p[j] = r]

(* In the end each row has a column of its own, and the potentials prove that this
   costs least: they never exceed a cost, they add up to the costs of the matched
   pairs, and a column that is left over has none (internal_handlers.go:84-156). *)
ProvedCheapest ==
  /\ DualFeasible
  /\ step = "done" =>
       /\ \A r \in Rows : LET j == Assign[r] IN
            j \in Cols /\ p[j] = r /\ u[r] + v[j] = a[r][j]
       /\ \A j \in Cols : v[j] <= 0 /\ (v[j] < 0 => \E r \in Rows : Assign[r] = j)
=============================================================================
