---------------------------- MODULE WriterProofs ----------------------------
(***************************************************************************)
(* The two write-behind paths, for any number of rides and chairs, any     *)
(* length of queue, batch and transaction: the inductive invariants behind *)
(* OnceAndInOrder, EveryStatusHasAPlace and ChairsCatchUp, and a lemma for *)
(* every step of RideWriter and ChairWriter that it keeps them.  That the  *)
(* steps of an initialization come in their order, and under flushMu, is   *)
(* known in StoresProofs, which puts the lemmas together.                  *)
(***************************************************************************)
EXTENDS RideWriter, ChairWriter, SequenceTheorems, WellFoundedInduction, TLAPS

(***************************************************************************)
(* The order of the statuses, and what loadState reads in it.              *)
(***************************************************************************)

(* The place of a status in the life of a ride. *)
Place(s) ==
  CASE s = "MATCHING" -> 1 [] s = "ENROUTE" -> 2 [] s = "PICKUP" -> 3
    [] s = "CARRYING" -> 4 [] s = "ARRIVED" -> 5 [] s = "COMPLETED" -> 6
    [] OTHER -> 0
Sorted(s) == \A k, l \in 1 .. Len(s) : k < l => Place(s[k]) < Place(s[l])

LEMMA Places ==
  /\ Place("MATCHING") = 1 /\ Place("ENROUTE") = 2 /\ Place("PICKUP") = 3
  /\ Place("CARRYING") = 4 /\ Place("ARRIVED") = 5 /\ Place("COMPLETED") = 6
BY DEF Place

LEMMA PlaceFacts ==
  /\ \A s \in Status : Place(s) \in 1 .. 6
  /\ \A s, t \in Status : Place(s) = Place(t) => s = t
  /\ \A s \in Status : /\ Place(s) = 6 <=> s = "COMPLETED"
                       /\ Place(s) = 5 <=> s = "ARRIVED"
                       /\ Place(s) = 1 <=> s = "MATCHING"
BY Places DEF Status

LEMMA PlacesDiffer ==
  ASSUME NEW s \in Status, NEW t \in Status, Place(s) < Place(t)
  PROVE  s # t
<1>1. Place(s) \in Int /\ Place(t) \in Int
  BY PlaceFacts
<1> QED
  BY <1>1

(* The statuses from which a chair goes on. *)
Moving == {"MATCHING", "ENROUTE", "PICKUP", "CARRYING"}

LEMMA ChairNextFacts ==
  ASSUME NEW s \in Status \cup {""}
  PROVE  /\ ChairNext(s) \in Status \cup {""}
         /\ ChairNext(s) # "" => s \in Moving /\ s \in Status /\ ChairNext(s) \in Status
BY DEF Status, ChairNext, Moving

LEMMA NextPlace ==
  ASSUME NEW s \in Moving
  PROVE  Place(ChairNext(s)) = Place(s) + 1 /\ Place(ChairNext(s)) <= 5
<1>1. /\ ChairNext("MATCHING") = "ENROUTE" /\ ChairNext("ENROUTE") = "PICKUP"
      /\ ChairNext("PICKUP") = "CARRYING" /\ ChairNext("CARRYING") = "ARRIVED"
  BY DEF ChairNext
<1>2. /\ Place(ChairNext("MATCHING")) = 2 /\ Place(ChairNext("ENROUTE")) = 3
      /\ Place(ChairNext("PICKUP")) = 4 /\ Place(ChairNext("CARRYING")) = 5
  BY <1>1, Places
<1> QED
  BY <1>2, Places DEF Moving

LEMMA LifecycleFacts ==
  /\ Len(Lifecycle) = 6 /\ Lifecycle \in Seq(Status)
  /\ \A i \in 1 .. 6 : Lifecycle[i] \in Status /\ Place(Lifecycle[i]) = i
BY Places DEF Lifecycle, Status

(* The statuses up to place n, in their order. *)
Kept(s, n, statuses) ==
  /\ s \in Seq(Status) /\ Sorted(s)
  /\ \A k \in 1 .. Len(s) : Place(s[k]) <= n /\ s[k] \in statuses
  /\ \A t \in statuses : Place(t) <= n => \E k \in 1 .. Len(s) : s[k] = t

(* The step of the fold in InOrder. *)
LEMMA KeepNext ==
  ASSUME NEW statuses \in SUBSET Status, NEW n \in 0 .. 5, NEW s, Kept(s, n, statuses)
  PROVE  Kept(IF Lifecycle[n + 1] \in statuses THEN Append(s, Lifecycle[n + 1]) ELSE s,
              n + 1, statuses)
<1> DEFINE t == Lifecycle[n + 1]
<1>1. t \in Status /\ Place(t) = n + 1
  BY LifecycleFacts
<1> HIDE DEF t
<1>2. \A x \in Status : Place(x) \in Nat /\ (Place(x) = Place(t) => x = t)
  BY <1>1, PlaceFacts
<1>3. s \in Seq(Status) /\ Len(s) \in Nat /\ \A k \in 1 .. Len(s) : s[k] \in Status
  BY DEF Kept
<1>4. CASE t \in statuses
  <2>1. /\ Append(s, t) \in Seq(Status) /\ Len(Append(s, t)) = Len(s) + 1
        /\ \A k \in 1 .. Len(s) : Append(s, t)[k] = s[k]
        /\ Append(s, t)[Len(s) + 1] = t
    BY <1>1, <1>3
  <2> DEFINE z == Append(s, t)
  <2> HIDE DEF z
  <2>2. Sorted(z)
    <3> SUFFICES ASSUME NEW k \in 1 .. Len(z), NEW l \in 1 .. Len(z), k < l
                 PROVE  Place(z[k]) < Place(z[l])
      BY DEF Sorted
    <3>0. k \in 1 .. Len(s) /\ z[k] = s[k]
      BY <1>3, <2>1 DEF z
    <3>1. CASE l = Len(s) + 1
      BY <1>1, <1>2, <1>3, <2>1, <3>0, <3>1 DEF Kept, z
    <3>2. CASE l \in 1 .. Len(s)
      BY <2>1, <3>0, <3>2 DEF Kept, Sorted, z
    <3> QED
      BY <1>3, <2>1, <3>1, <3>2 DEF z
  <2>3. \A k \in 1 .. Len(z) : Place(z[k]) <= n + 1 /\ z[k] \in statuses
    BY <1>1, <1>2, <1>3, <1>4, <2>1 DEF Kept, z
  <2>4. ASSUME NEW x \in statuses, Place(x) <= n + 1
        PROVE  \E k \in 1 .. Len(z) : z[k] = x
    <3>1. CASE x = t
      BY <1>3, <2>1, <3>1 DEF z
    <3>2. CASE Place(x) <= n
      <4>1. PICK k \in 1 .. Len(s) : s[k] = x
        BY <3>2 DEF Kept
      <4> QED
        BY <1>3, <2>1, <4>1 DEF z
    <3> QED
      BY <1>1, <1>2, <2>4, <3>1, <3>2
  <2> QED
    BY <1>4, <2>1, <2>2, <2>3, <2>4 DEF Kept, z, t
<1>5. CASE t \notin statuses
  <2>1. \A x \in statuses : Place(x) <= n + 1 => Place(x) <= n
    BY <1>1, <1>2, <1>5
  <2>2. \A k \in 1 .. Len(s) : Place(s[k]) <= n + 1
    BY <1>2, <1>3 DEF Kept
  <2> QED
    BY <1>5, <2>1, <2>2 DEF Kept, t
<1> QED
  BY <1>4, <1>5

LEMMA InOrderFacts ==
  ASSUME NEW statuses \in SUBSET Status
  PROVE  /\ InOrder(statuses) \in Seq(Status) /\ Sorted(InOrder(statuses))
         /\ \A s \in Status :
              (\E k \in 1 .. Len(InOrder(statuses)) : InOrder(statuses)[k] = s) <=> s \in statuses
<1> DEFINE Next(s, n) ==
             IF Lifecycle[n] \in statuses THEN Append(s, Lifecycle[n]) ELSE s
           Equation(f) == f = [n \in 0 .. 6 |-> IF n = 0 THEN <<>> ELSE Next(f[n - 1], n)]
           s1 == Next(<<>>, 1)
           s2 == Next(s1, 2)
           s3 == Next(s2, 3)
           s4 == Next(s3, 4)
           s5 == Next(s4, 5)
           s6 == Next(s5, 6)
           g == [n \in 0 .. 6 |->
                  CASE n = 0 -> <<>> [] n = 1 -> s1 [] n = 2 -> s2 [] n = 3 -> s3
                    [] n = 4 -> s4 [] n = 5 -> s5 [] n = 6 -> s6]
           kept == CHOOSE f : Equation(f)
<1>1. InOrder(statuses) = kept[6]
  BY LifecycleFacts DEF InOrder
<1> HIDE DEF Next
<1>2. Equation(g)
  <2>1. /\ g[0] = <<>> /\ g[1] = Next(g[0], 1) /\ g[2] = Next(g[1], 2)
        /\ g[3] = Next(g[2], 3) /\ g[4] = Next(g[3], 4) /\ g[5] = Next(g[4], 5)
        /\ g[6] = Next(g[5], 6)
    OBVIOUS
  <2> HIDE DEF g
  <2>2. \A n \in 0 .. 6 : g[n] = IF n = 0 THEN <<>> ELSE Next(g[n - 1], n)
    <3> TAKE n \in 0 .. 6
    <3>1. n = 0 \/ n = 1 \/ n = 2 \/ n = 3 \/ n = 4 \/ n = 5 \/ n = 6
      OBVIOUS
    <3> QED
      BY <2>1, <3>1
  <2>3. g = [n \in 0 .. 6 |-> g[n]]
    BY DEF g
  <2> QED
    BY <2>2, <2>3
<1> HIDE DEF s1, s2, s3, s4, s5, s6, g
<1>3. Equation(kept)
  BY <1>2
<1> HIDE DEF kept
<1>4. kept[0] = <<>> /\ \A n \in 0 .. 5 : kept[n + 1] = Next(kept[n], n + 1)
  <2>1. \A n \in 0 .. 6 : kept[n] = IF n = 0 THEN <<>> ELSE Next(kept[n - 1], n)
    BY <1>3
  <2> QED
    BY <2>1
<1>5. Kept(kept[0], 0, statuses)
  <2>1. Kept(<<>>, 0, statuses)
    BY PlaceFacts DEF Kept, Sorted
  <2> QED
    BY <1>4, <2>1
<1>6. \A n \in 0 .. 5 : Kept(kept[n], n, statuses) => Kept(kept[n + 1], n + 1, statuses)
  BY <1>4, KeepNext DEF Next
<1>7. Kept(kept[6], 6, statuses)
  <2>1. Kept(kept[1], 1, statuses)
    BY <1>5, <1>6
  <2>2. Kept(kept[2], 2, statuses)
    BY <1>6, <2>1
  <2>3. Kept(kept[3], 3, statuses)
    BY <1>6, <2>2
  <2>4. Kept(kept[4], 4, statuses)
    BY <1>6, <2>3
  <2>5. Kept(kept[5], 5, statuses)
    BY <1>6, <2>4
  <2> QED
    BY <1>6, <2>5
<1> QED
  BY <1>1, <1>7, PlaceFacts DEF Kept

-----------------------------------------------------------------------------
(* The greatest of some indices. *)
LEMMA MaxIsThere ==
  ASSUME NEW m \in Nat, NEW S \in SUBSET (1 .. m), S # {}
  PROVE  Max(S) \in S /\ \A k \in S : k <= Max(S)
<1> DEFINE Left == {m - k : k \in S}
<1>1. PICK n \in Left : \A l \in Left : ~(l < n)
  <2>1. Left \subseteq Nat /\ Left # {}
    <3>1. \A k \in S : m - k \in Nat
      OBVIOUS
    <3> QED
      BY <3>1
  <2>2. \E n \in Left : \A l \in Left : ~(<<l, n>> \in OpToRel(<, Nat))
    BY <2>1, NatLessThanWellFounded, WFMin
  <2> QED
    BY <2>1, <2>2 DEF OpToRel
<1>2. \E x \in S : \A y \in S : x >= y
  <2>1. PICK x \in S : n = m - x
    BY <1>1
  <2>2. \A y \in S : ~(m - y < m - x)
    BY <1>1, <2>1
  <2> QED
    BY <2>1, <2>2
<1>3. Max(S) \in S /\ \A y \in S : Max(S) >= y
  BY <1>2 DEF Max
<1> QED
  BY <1>3

(* What is left of a sequence without its first n entries. *)
LEMMA RestOf ==
  ASSUME NEW S, NEW s \in Seq(S), NEW n \in 0 .. Len(s)
  PROVE  /\ SubSeq(s, n + 1, Len(s)) \in Seq(S)
         /\ Len(SubSeq(s, n + 1, Len(s))) = Len(s) - n
         /\ \A k \in 1 .. Len(s) - n : SubSeq(s, n + 1, Len(s))[k] = s[n + k]
<1>1. Len(s) \in Nat /\ n \in Nat /\ n + 1 \in Int /\ n <= Len(s)
  OBVIOUS
<1>2. \A i \in n + 1 .. Len(s) : s[i] \in S
  BY <1>1
<1> DEFINE t == SubSeq(s, n + 1, Len(s))
<1>3. /\ t \in Seq(S)
      /\ Len(t) = IF n + 1 <= Len(s) THEN Len(s) - (n + 1) + 1 ELSE 0
      /\ \A i \in 1 .. Len(s) - (n + 1) + 1 : t[i] = s[n + 1 + i - 1]
  BY <1>1, <1>2, SubSeqProperties
<1> HIDE DEF t
<1>4. Len(t) = Len(s) - n
  BY <1>1, <1>3
<1>5. ASSUME NEW k \in 1 .. Len(s) - n
      PROVE  t[k] = s[n + k]
  <2>1. k \in 1 .. Len(s) - (n + 1) + 1 /\ n + 1 + k - 1 = n + k
    BY <1>1
  <2> QED
    BY <1>3, <2>1
<1> QED
  BY <1>3, <1>4, <1>5 DEF t

-----------------------------------------------------------------------------
(* A chunk is a beginning of the batch. *)
LEMMA ChunkFacts ==
  ASSUME batch \in Seq(Write), batch # <<>>
  PROVE  /\ Len(Chunk) \in 1 .. Len(batch) /\ Chunk \in Seq(Write)
         /\ \A k \in 1 .. Len(Chunk) : Chunk[k] = batch[k]
<1>1. Len(batch) \in Nat /\ Len(batch) > 0
  OBVIOUS
<1>2. PICK n \in 1 .. Len(batch) : Chunk = SubSeq(batch, 1, n)
  BY <1>1, RideWriterAssumption DEF Chunk
<1> QED
  BY <1>1, <1>2

LEMMA RowsOfFacts ==
  ASSUME batch \in Seq(Write), batch # <<>>, NEW r, NEW s
  PROVE  s \in RowsOf(r) <=>
           \E k \in 1 .. Len(Chunk) : batch[k].ride = r /\ batch[k].status = s
<1>1. /\ Len(Chunk) \in Nat /\ Chunk \in Seq(Write)
      /\ \A k \in 1 .. Len(Chunk) : Chunk[k] = batch[k]
  BY ChunkFacts
<1>2. ToSet(Chunk) = {batch[k] : k \in 1 .. Len(Chunk)}
  BY <1>1 DEF ToSet
<1> QED
  BY <1>2 DEF RowsOf

LEMMA LastOfType ==
  ASSUME batch \in Seq(Write), batch # <<>>, NEW r, RowsOf(r) # {}
  PROVE  LastOf(r) \in Status
<1> DEFINE mine == {n \in DOMAIN Chunk : Chunk[n].ride = r}
<1>1. /\ Len(Chunk) \in Nat /\ Chunk \in Seq(Write)
      /\ \A k \in 1 .. Len(Chunk) : Chunk[k] = batch[k] /\ Chunk[k] \in Write
  BY ChunkFacts
<1>2. mine \in SUBSET (1 .. Len(Chunk)) /\ mine # {}
  BY <1>1, RowsOfFacts
<1> HIDE DEF mine
<1>3. Max(mine) \in 1 .. Len(Chunk)
  BY <1>1, <1>2, MaxIsThere
<1>4. Chunk[Max(mine)].status \in Status
  BY <1>1, <1>3 DEF Write
<1> QED
  BY <1>4 DEF LastOf, mine

-----------------------------------------------------------------------------
(***************************************************************************)
(* The rides: types.                                                       *)
(***************************************************************************)

LEMMA EmptyPipe ==
  ASSUME NEW S
  PROVE  <<>> \in Seq(S) /\ \A i : i \notin 1 .. Len(<<>>)
OBVIOUS

LEMMA SingleEntry ==
  ASSUME NEW S, NEW s \in S
  PROVE  <<s>> \in Seq(S) /\ Len(<<s>>) = 1 /\ <<s>>[1] = s /\ <<s>> # <<>>
OBVIOUS

LEMMA QueuedType ==
  ASSUME RideTypeOK, NEW r \in Rides, NEW s \in Status
  PROVE  /\ Queued(r, s) \in Write
         /\ Queued(r, s).ride = r /\ Queued(r, s).status = s
         /\ Append(q, Queued(r, s)) \in Seq(Write)
<1>1. Queued(r, s) \in Write /\ Queued(r, s).ride = r /\ Queued(r, s).status = s
  BY DEF Queued, Write, RideTypeOK
<1>2. q \in Seq(Write)
  BY DEF RideTypeOK
<1> QED
  BY <1>1, <1>2, AppendProperties

LEMMA EnqueueTyped ==
  ASSUME RideTypeOK, NEW r \in Rides, NEW s \in Status, Enqueue(r, s)
  PROVE  q' \in Seq(Write) /\ late' \subseteq Rides \X Status
<1>1. q' \in Seq(Write)
  BY QueuedType DEF Enqueue
<1>2. late' \subseteq late \cup {<<r, s>>}
  BY DEF Enqueue
<1>3. <<r, s>> \in Rides \X Status
  OBVIOUS
<1>4. late \subseteq Rides \X Status
  BY DEF RideTypeOK
<1> QED
  BY <1>1, <1>2, <1>3, <1>4

LEMMA LatestType ==
  ASSUME RideTypeOK, NEW r \in Rides
  PROVE  /\ mem[r] \in Seq(Status) /\ Len(mem[r]) \in Nat
         /\ mem[r] # <<>> => /\ Len(mem[r]) \in 1 .. Len(mem[r])
                             /\ LatestStatus(r) = mem[r][Len(mem[r])]
                             /\ LatestStatus(r) \in Status
         /\ mem[r] = <<>> => LatestStatus(r) = ""
         /\ LatestStatus(r) \in Status \cup {""}
<1>1. mem[r] \in Seq(Status) /\ Len(mem[r]) \in Nat
  <2>1. mem[r] \in Seq(Status)
    BY DEF RideTypeOK
  <2> QED
    BY <2>1, LenProperties
<1>2. CASE mem[r] # <<>>
  <2>1. Len(mem[r]) \in 1 .. Len(mem[r])
    BY <1>1, <1>2
  <2>2. LatestStatus(r) = mem[r][Len(mem[r])]
    BY <1>2 DEF LatestStatus, Last
  <2>3. mem[r][Len(mem[r])] \in Status
    BY <1>1, <2>1
  <2> QED
    BY <1>1, <1>2, <2>1, <2>2, <2>3
<1>3. CASE mem[r] = <<>>
  BY <1>1, <1>3 DEF LatestStatus
<1> QED
  BY <1>2, <1>3

LEMMA MemGrows ==
  ASSUME RideTypeOK, NEW r \in Rides, NEW s \in Status,
         mem' = [mem EXCEPT ![r] = Append(@, s)]
  PROVE  /\ mem' \in [Rides -> Seq(Status)] /\ mem'[r] = Append(mem[r], s)
         /\ mem'[r] # <<>> /\ Len(mem'[r]) = Len(mem[r]) + 1
         /\ \A k \in 1 .. Len(mem[r]) : mem'[r][k] = mem[r][k]
         /\ mem'[r][Len(mem[r]) + 1] = s
         /\ \A t \in Rides : t # r => mem'[t] = mem[t]
<1>1. mem \in [Rides -> Seq(Status)] /\ mem[r] \in Seq(Status)
  BY DEF RideTypeOK
<1>2. /\ Append(mem[r], s) \in Seq(Status) /\ Append(mem[r], s) # <<>>
      /\ Len(Append(mem[r], s)) = Len(mem[r]) + 1
      /\ \A k \in 1 .. Len(mem[r]) : Append(mem[r], s)[k] = mem[r][k]
      /\ Append(mem[r], s)[Len(mem[r]) + 1] = s
  BY <1>1, AppendProperties
<1>3. mem'[r] = Append(mem[r], s) /\ \A t \in Rides : t # r => mem'[t] = mem[t]
  BY <1>1
<1>4. mem' \in [Rides -> Seq(Status)]
  BY <1>1, <1>2
<1> QED
  BY <1>2, <1>3, <1>4

LEMMA RefsType ==
  ASSUME NEW pipe \in Seq(Write)
  PROVE  /\ Refs(pipe) \subseteq Rides \X Status
         /\ \A k \in 1 .. Len(pipe) : <<pipe[k].ride, pipe[k].status>> \in Refs(pipe)
<1>1. ToSet(pipe) = {pipe[k] : k \in 1 .. Len(pipe)}
  BY DEF ToSet
<1>2. \A k \in 1 .. Len(pipe) :
        pipe[k] \in Write /\ pipe[k].ride \in Rides /\ pipe[k].status \in Status
  <2> TAKE k \in 1 .. Len(pipe)
  <2>1. pipe[k] \in Write
    BY ElementOfSeq
  <2> QED
    BY <2>1 DEF Write
<1>3. \A w \in ToSet(pipe) : w.ride \in Rides /\ w.status \in Status
  BY <1>1, <1>2
<1> QED
  BY <1>1, <1>3 DEF Refs

LEMMA ReloadedType ==
  ASSUME RideTypeOK
  PROVE  /\ ReloadedStatuses \in [Rides -> Seq(Status)]
         /\ ReloadedStats \subseteq Rides
<1>1. \A r \in Rides : rows[r] \in SUBSET Status
  BY DEF RideTypeOK
<1>2. \A r \in Rides : InOrder(rows[r]) \in Seq(Status)
  BY <1>1, InOrderFacts
<1>3. <<>> \in Seq(Status)
  OBVIOUS
<1> QED
  BY <1>2, <1>3 DEF ReloadedStatuses, ReloadedStats, RideTypeOK

LEMMA RideCallTyped ==
  ASSUME RideTypeOK, NEW r \in Rides, CreateRide(r) \/ RideCall(r)
  PROVE  RideTypeOK'
<1> USE DEF RideTypeOK
<1>1. CASE CreateRide(r)
  <2>1. <<"MATCHING">> \in Seq(Status) /\ "MATCHING" \in Status
    <3>1. "MATCHING" \in Status
      BY DEF Status
    <3> QED
      BY <3>1, SingleEntry
  <2>2. /\ mem' \in [Rides -> Seq(Status)] /\ known' \subseteq Rides
        /\ rows' \in [Rides -> SUBSET Status] /\ column' \in [Rides -> Status \cup {""}]
    BY <1>1, <2>1 DEF CreateRide
  <2> QED
    BY <1>1, <2>2 DEF CreateRide, handlerVars, queueVars, writerVars, historyVars
<1>2. CASE RecordStatus(r)
  <2>1. ChairNext(LatestStatus(r)) \in Status
    BY <1>2, LatestType, ChairNextFacts DEF RecordStatus
  <2>2. mem' \in [Rides -> Seq(Status)]
    BY <1>2, <2>1, MemGrows DEF RecordStatus
  <2> QED
    BY <1>2, <2>1, <2>2 DEF RecordStatus, queueVars, writerVars, dbVars, historyVars
<1>3. CASE BeginEvaluation(r) \/ AbortEvaluation(r)
  BY <1>3 DEF BeginEvaluation, AbortEvaluation, memVars, queueVars, writerVars, dbVars,
     historyVars
<1> QED
  BY <1>1, <1>2, <1>3 DEF RideCall

LEMMA RideHandlerTyped ==
  ASSUME RideTypeOK, NEW r \in Rides, RideHandlerStep(r)
  PROVE  RideTypeOK'
<1>1. CASE EnqueueStatus(r)
  <2>1. recorded[r] \in Status
    BY <1>1 DEF EnqueueStatus, RideTypeOK
  <2>2. q' \in Seq(Write) /\ late' \subseteq Rides \X Status
    BY <1>1, <2>1, EnqueueTyped DEF EnqueueStatus
  <2> QED
    BY <1>1, <2>2 DEF EnqueueStatus, RideTypeOK, memVars, writerVars, dbVars
<1>2. "COMPLETED" \in Status
  BY DEF Status
<1>3. CASE EnqueueCompleted(r)
  <2>1. q' \in Seq(Write) /\ late' \subseteq Rides \X Status
    BY <1>2, <1>3, EnqueueTyped DEF EnqueueCompleted
  <2> QED
    BY <1>3, <2>1 DEF EnqueueCompleted, RideTypeOK, memVars, writerVars, dbVars
<1>4. CASE RecordCompleted(r)
  <2>1. mem' \in [Rides -> Seq(Status)] /\ counted' \subseteq Rides
    <3>1. CASE mem[r] = <<>>
      BY <1>4, <3>1 DEF RecordCompleted, RideTypeOK, memVars
    <3>2. CASE mem[r] # <<>>
      <4>1. mem' = [mem EXCEPT ![r] = Append(@, "COMPLETED")] /\ counted' = counted \cup {r}
        BY <1>4, <3>2 DEF RecordCompleted
      <4> QED
        BY <1>2, <4>1, MemGrows DEF RideTypeOK
    <3> QED
      BY <3>1, <3>2
  <2> QED
    BY <1>4, <2>1 DEF RecordCompleted, RideTypeOK, queueVars, writerVars, dbVars, historyVars
<1> QED
  BY <1>1, <1>3, <1>4 DEF RideHandlerStep

LEMMA RideWriterTyped ==
  ASSUME RideTypeOK, RideWriterStep
  PROVE  RideTypeOK'
<1>1. q \in Seq(Write) /\ batch \in Seq(Write) /\ <<>> \in Seq(Write)
  BY EmptyPipe DEF RideTypeOK
<1>2. Refs(batch) \subseteq Rides \X Status
  BY <1>1, RefsType
<1>3. CASE TakeBatch
  BY <1>1, <1>3 DEF TakeBatch, RideTypeOK, memVars, handlerVars, dbVars, historyVars
<1>4. CASE LockFlush \/ WriteFails \/ UnlockFlush
  BY <1>1, <1>2, <1>4 DEF LockFlush, WriteFails, UnlockFlush, RideTypeOK, memVars,
     handlerVars, queueVars, dbVars, historyVars
<1>5. CASE WriteChunk
  <2>1. batch # <<>> /\ Len(Chunk) \in 0 .. Len(batch)
    BY <1>1, <1>5, ChunkFacts DEF WriteChunk
  <2>2. batch' \in Seq(Write)
    BY <1>1, <1>5, <2>1, RestOf DEF WriteChunk
  <2>3. ASSUME NEW r \in Rides PROVE RowsOf(r) \subseteq Status
    <3> SUFFICES ASSUME NEW s \in RowsOf(r) PROVE s \in Status
      OBVIOUS
    <3>1. PICK k \in 1 .. Len(Chunk) : batch[k].status = s
      BY <1>1, <2>1, RowsOfFacts
    <3>2. k \in 1 .. Len(batch) /\ batch[k] \in Write
      BY <1>1, <2>1
    <3> QED
      BY <3>1, <3>2 DEF Write
  <2>4. rows' \in [Rides -> SUBSET Status]
    BY <1>5, <2>3 DEF WriteChunk, RideTypeOK
  <2>5. column' \in [Rides -> Status \cup {""}]
    <3>1. \A r \in Rides : RowsOf(r) # {} => LastOf(r) \in Status
      BY <1>1, <2>1, LastOfType
    <3> QED
      BY <1>5, <3>1 DEF WriteChunk, RideTypeOK
  <2>6. evaluated' \subseteq Rides
    BY <1>5 DEF WriteChunk, RideTypeOK
  <2>7. strays' \subseteq Rides \X Status
    <3>1. Refs(Chunk) \subseteq Rides \X Status
      BY <1>1, <2>1, ChunkFacts, RefsType
    <3> QED
      BY <1>5, <3>1 DEF WriteChunk, Orphans, RideTypeOK
  <2> QED
    BY <1>5, <2>2, <2>4, <2>5, <2>6, <2>7 DEF WriteChunk, RideTypeOK, memVars, handlerVars,
       queueVars
<1> QED
  BY <1>3, <1>4, <1>5 DEF RideWriterStep

LEMMA RideInitializeTyped ==
  ASSUME RideTypeOK, NEW tables,
         DiscardRideWrites \/ RebuildRides(tables) \/ ReloadRides \/ RestartRides
  PROVE  RideTypeOK'
<1>1. q \in Seq(Write) /\ <<>> \in Seq(Write) /\ gen + 1 \in Nat /\ 0 \in Nat
  <2>1. q \in Seq(Write) /\ gen \in Nat
    BY DEF RideTypeOK
  <2> QED
    BY <2>1, EmptyPipe
<1>2. CASE DiscardRideWrites
  <2>1. Refs(q) \subseteq Rides \X Status
    BY <1>1, RefsType
  <2> QED
    BY <1>1, <1>2, <2>1 DEF DiscardRideWrites, RideTypeOK, memVars, handlerVars, writerVars,
       dbVars
<1>3. CASE RebuildRides(tables)
  <2>1. rows' \in [Rides -> SUBSET Status]
    BY <1>3 DEF RebuildRides, RideTypeOK
  <2>2. /\ known' \subseteq Rides /\ evaluated' \subseteq Rides
        /\ column' \in [Rides -> Status \cup {""}]
    BY <1>3 DEF RebuildRides, RideTypeOK
  <2> QED
    BY <1>3, <2>1, <2>2 DEF RebuildRides, RideTypeOK, memVars, handlerVars, queueVars,
       writerVars, historyVars
<1>4. CASE ReloadRides
  BY <1>4, ReloadedType DEF ReloadRides, RideTypeOK, handlerVars, queueVars, writerVars,
     dbVars, historyVars
<1>5. CASE RestartRides
  BY <1>1, <1>5, ReloadedType DEF RestartRides, RideTypeOK, dbVars, historyVars
<1> QED
  BY <1>2, <1>3, <1>4, <1>5

-----------------------------------------------------------------------------
(***************************************************************************)
(* The rides: the inductive invariant.                                     *)
(***************************************************************************)

(* What is on its way to the database, in the order in which it gets there. *)
Pipe == batch \o q

(* A write of the status is on its way. *)
Waits(r, s) == \E k \in 1 .. Len(Pipe) : Pipe[k].ride = r /\ Pipe[k].status = s

(* The status is stored or accounted for, or will be. *)
Placed(r, s) == s \in rows[r] \/ <<r, s>> \in lost \/ Waits(r, s)

(* The status is in memory. *)
InMem(r, s) == \E k \in 1 .. Len(mem[r]) : mem[r][k] = s

(* Memory holds the statuses of a ride once, in their order. *)
MemInv == \A r \in Rides : Sorted(mem[r])

(* Nothing is in the pipe twice, or in the pipe and in the database. *)
OnceInv ==
  /\ wpc = "wait" => batch = <<>>
  /\ \A k, l \in 1 .. Len(Pipe) :
       Pipe[k].ride = Pipe[l].ride /\ Pipe[k].status = Pipe[l].status => k = l
  /\ \A k \in 1 .. Len(Pipe) : Pipe[k].status \notin rows[Pipe[k].ride]

(* What a handler that has recorded a status, or is about to queue one, may rely on. *)
RecordedInv ==
  \A r \in Rides : recorded[r] # "" =>
    /\ Place(recorded[r]) <= 5
    /\ recorded[r] \notin rows[r] /\ ~Waits(r, recorded[r])
    /\ mem[r] # <<>> => InMem(r, recorded[r])

(* An evaluation that is under way: nothing of it is stored before it is paid for, the
   ride has arrived as far as memory knows, and what it has queued is not forgotten. *)
EvaluationInv ==
  \A r \in Rides :
    /\ eval[r] = "paying" => "COMPLETED" \notin rows[r] /\ ~Waits(r, "COMPLETED")
    /\ eval[r] # "none" /\ mem[r] # <<>> => LatestStatus(r) = "ARRIVED"
    /\ eval[r] = "queued" /\ r \in known => Placed(r, "COMPLETED")

(* The pipe and the database know nothing that memory does not know ... *)
RowInv ==
  \A r \in Rides, s \in Status :
    mem[r] # <<>> /\ (s \in rows[r] \/ Waits(r, s)) =>
      InMem(r, s) \/ (s = "COMPLETED" /\ eval[r] = "queued")

(* ... and memory nothing that is not accounted for. *)
PlaceInv ==
  \A r \in known :
    /\ mem[r] # <<>>
    /\ \A s \in Status : InMem(r, s) => Placed(r, s) \/ recorded[r] = s
    /\ \A s, t \in Status : Place(s) < Place(t) /\ Place(t) <= 5 /\ InMem(r, t) =>
         InMem(r, s) \/ <<r, s>> \in lost

(* Before a status of the chair, the earlier ones: in the database and in the pipe. *)
OrderInv ==
  \A r \in known, s \in Status, t \in Status : Place(s) < Place(t) /\ Place(t) <= 5 =>
    /\ t \in rows[r] => s \in rows[r] \/ <<r, s>> \in lost
    /\ \A k \in 1 .. Len(Pipe) : Pipe[k].ride = r /\ Pipe[k].status = t =>
         \/ s \in rows[r] \/ <<r, s>> \in lost
         \/ \E l \in 1 .. k - 1 : Pipe[l].ride = r /\ Pipe[l].status = s

(* There is no trace of a ride that is not there yet. *)
FreshInv ==
  \A r \in Rides \ (known \cup gone) :
    /\ mem[r] = <<>> /\ rows[r] = {} /\ recorded[r] = "" /\ eval[r] = "none"
    /\ \A s \in Status : ~Waits(r, s)

(* What is counted is in memory, what is evaluated in the database, and every ride has
   the row of its creation. *)
CountInv ==
  /\ \A r \in counted : InMem(r, "COMPLETED")
  /\ \A r \in evaluated : "COMPLETED" \in rows[r]
  /\ \A r \in known : "MATCHING" \in rows[r]

RideInv ==
  /\ MemInv /\ OnceInv /\ RecordedInv /\ EvaluationInv
  /\ RowInv /\ PlaceInv /\ OrderInv /\ FreshInv /\ CountInv

-----------------------------------------------------------------------------
(* The lemmas about the pipe. *)

LEMMA PipeFacts ==
  ASSUME RideTypeOK
  PROVE  /\ Pipe \in Seq(Write) /\ Len(Pipe) = Len(batch) + Len(q)
         /\ Len(Pipe) \in Nat /\ Len(batch) \in Nat /\ Len(q) \in Nat
         /\ \A k \in 1 .. Len(batch) : Pipe[k] = batch[k]
         /\ \A k \in 1 .. Len(q) : Pipe[Len(batch) + k] = q[k]
         /\ \A k \in 1 .. Len(Pipe) : Pipe[k].ride \in Rides /\ Pipe[k].status \in Status
<1>1. q \in Seq(Write) /\ batch \in Seq(Write)
  BY DEF RideTypeOK
<1>2. /\ Pipe \in Seq(Write) /\ Len(Pipe) = Len(batch) + Len(q)
      /\ \A k \in 1 .. Len(batch) + Len(q) :
           Pipe[k] = IF k <= Len(batch) THEN batch[k] ELSE q[k - Len(batch)]
  BY <1>1, ConcatProperties DEF Pipe
<1>3. Len(Pipe) \in Nat /\ Len(batch) \in Nat /\ Len(q) \in Nat
  BY <1>1, <1>2, LenProperties
<1>4. \A k \in 1 .. Len(batch) : Pipe[k] = batch[k]
  BY <1>2, <1>3
<1>5. ASSUME NEW k \in 1 .. Len(q) PROVE Pipe[Len(batch) + k] = q[k]
  <2>1. /\ Len(batch) + k \in 1 .. Len(batch) + Len(q) /\ ~(Len(batch) + k <= Len(batch))
        /\ Len(batch) + k - Len(batch) = k
    BY <1>3
  <2> QED
    BY <1>2, <2>1
<1>6. ASSUME NEW k \in 1 .. Len(Pipe)
      PROVE  Pipe[k].ride \in Rides /\ Pipe[k].status \in Status
  <2>1. Pipe[k] \in Write
    BY <1>2, ElementOfSeq
  <2> QED
    BY <2>1 DEF Write
<1> QED
  BY <1>2, <1>3, <1>4, <1>5, <1>6

(* Only the entries of the pipe from a + 1 to b are left: those before them are
   stored or lost, those after them lost.  The writer's steps and the discarding of
   the queue are of this kind. *)
LEMMA PipeWindow ==
  ASSUME RideTypeOK, RideInv, NEW a \in Nat, NEW b \in Nat, a <= b, b <= Len(Pipe),
         Len(Pipe') = b - a, \A k \in 1 .. b - a : Pipe'[k] = Pipe[a + k],
         UNCHANGED <<memVars, handlerVars, known>>, gone \subseteq gone',
         lost \subseteq lost',
         \A r \in Rides : rows[r] \subseteq rows'[r],
         \A k \in 1 .. Len(Pipe) :
           k <= a \/ k > b => \/ Pipe[k].status \in rows'[Pipe[k].ride]
                              \/ <<Pipe[k].ride, Pipe[k].status>> \in lost',
         \A r \in Rides : \A s \in rows'[r] :
           s \in rows[r] \/ \E k \in 1 .. a : Pipe[k].ride = r /\ Pipe[k].status = s,
         \A r \in evaluated' : "COMPLETED" \in rows'[r],
         wpc' = "wait" => batch' = <<>>
  PROVE  RideInv'
<1>1. /\ Len(Pipe) \in Nat /\ Len(Pipe') \in Nat
      /\ \A k \in 1 .. Len(Pipe) : Pipe[k].ride \in Rides /\ Pipe[k].status \in Status
      /\ \A k \in 1 .. Len(Pipe') : a + k \in 1 .. Len(Pipe) /\ Pipe'[k] = Pipe[a + k]
      /\ \A k \in 1 .. a : k \in 1 .. Len(Pipe)
  BY PipeFacts
<1>2. /\ UNCHANGED <<mem, counted, recorded, eval, known>>
      /\ \A r : LatestStatus(r)' = LatestStatus(r)
      /\ \A r, s : InMem(r, s)' <=> InMem(r, s)
  BY DEF memVars, handlerVars, LatestStatus, InMem
<1>3. known \subseteq Rides
  BY DEF RideTypeOK
<1>4. ASSUME NEW r, NEW s, Waits(r, s)' PROVE Waits(r, s)
  BY <1>1, <1>4 DEF Waits
<1>5. ASSUME NEW r \in Rides, NEW s, s \in rows'[r] PROVE s \in rows[r] \/ Waits(r, s)
  BY <1>1, <1>5 DEF Waits
<1>6. ASSUME NEW r \in Rides, NEW s, Placed(r, s) PROVE Placed(r, s)'
  <2>1. CASE s \in rows[r] \/ <<r, s>> \in lost
    BY <2>1 DEF Placed
  <2>2. CASE Waits(r, s)
    <3>1. PICK k \in 1 .. Len(Pipe) : Pipe[k].ride = r /\ Pipe[k].status = s
      BY <2>2 DEF Waits
    <3>2. CASE k <= a \/ k > b
      BY <3>1, <3>2 DEF Placed
    <3>3. CASE k > a /\ k <= b
      <4>1. k - a \in 1 .. Len(Pipe') /\ a + (k - a) = k
        BY <1>1, <3>3
      <4>2. Pipe'[k - a].ride = r /\ Pipe'[k - a].status = s
        BY <1>1, <3>1, <4>1
      <4>3. Waits(r, s)'
        BY <4>1, <4>2 DEF Waits
      <4> QED
        BY <4>3 DEF Placed
    <3> QED
      BY <1>1, <3>2, <3>3
  <2> QED
    BY <1>6, <2>1, <2>2 DEF Placed
<1>7. MemInv' /\ FreshInv'
  <2>1. MemInv'
    BY <1>2 DEF RideInv, MemInv
  <2>2. \A r \in Rides \ (known \cup gone) : rows'[r] = {}
    <3> SUFFICES ASSUME NEW r \in Rides \ (known \cup gone), NEW s \in rows'[r] PROVE FALSE
      OBVIOUS
    <3>1. s \in rows[r] \/ (Waits(r, s) /\ s \in Status)
      BY <1>1, <1>5 DEF Waits
    <3> QED
      BY <3>1 DEF RideInv, FreshInv
  <2> QED
    BY <1>2, <1>4, <2>1, <2>2 DEF RideInv, FreshInv
<1>8. OnceInv'
  <2>1. ASSUME NEW k \in 1 .. Len(Pipe'), NEW l \in 1 .. Len(Pipe'),
               Pipe'[k].ride = Pipe'[l].ride, Pipe'[k].status = Pipe'[l].status
        PROVE  k = l
    <3>1. /\ a + k \in 1 .. Len(Pipe) /\ a + l \in 1 .. Len(Pipe)
          /\ Pipe[a + k].ride = Pipe[a + l].ride /\ Pipe[a + k].status = Pipe[a + l].status
      BY <1>1, <2>1
    <3>2. a + k = a + l
      BY <3>1 DEF RideInv, OnceInv
    <3> QED
      BY <3>2
  <2>2. ASSUME NEW k \in 1 .. Len(Pipe') PROVE Pipe'[k].status \notin rows'[Pipe'[k].ride]
    <3>1. ASSUME NEW l \in 1 .. a
          PROVE  ~(Pipe[l].ride = Pipe[a + k].ride /\ Pipe[l].status = Pipe[a + k].status)
      <4>1. l # a + k
        OBVIOUS
      <4> QED
        BY <1>1, <4>1 DEF RideInv, OnceInv
    <3>2. Pipe[a + k].status \notin rows[Pipe[a + k].ride] /\ Pipe[a + k].ride \in Rides
      BY <1>1 DEF RideInv, OnceInv
    <3>3. ASSUME NEW r \in Rides, NEW s, Pipe[a + k].ride = r, Pipe[a + k].status = s
          PROVE  s \notin rows'[r]
      <4>1. s \notin rows[r] /\ ~ \E l \in 1 .. a : Pipe[l].ride = r /\ Pipe[l].status = s
        BY <3>1, <3>2, <3>3
      <4> QED
        BY <4>1
    <3> QED
      BY <1>1, <3>3
  <2> QED
    BY <2>1, <2>2 DEF OnceInv
<1>9. RecordedInv' /\ EvaluationInv'
  <2>1. ASSUME NEW r \in Rides, NEW s, s \notin rows[r], ~Waits(r, s)
        PROVE  s \notin rows'[r] /\ ~Waits(r, s)'
    BY <1>4, <1>5, <2>1
  <2> QED
    BY <1>2, <1>6, <2>1 DEF RideInv, RecordedInv, EvaluationInv
<1>10. RowInv' /\ PlaceInv'
  <2>1. RowInv'
    BY <1>2, <1>4, <1>5 DEF RideInv, RowInv
  <2>2. PlaceInv'
    BY <1>2, <1>3, <1>6 DEF RideInv, PlaceInv
  <2> QED
    BY <2>1, <2>2
<1>11. OrderInv'
  <2> SUFFICES ASSUME NEW r \in known, NEW s \in Status, NEW t \in Status,
                      Place(s) < Place(t) /\ Place(t) <= 5
               PROVE  /\ t \in rows'[r] => s \in rows'[r] \/ <<r, s>> \in lost'
                      /\ \A k \in 1 .. Len(Pipe') : Pipe'[k].ride = r /\ Pipe'[k].status = t =>
                           \/ s \in rows'[r] \/ <<r, s>> \in lost'
                           \/ \E l \in 1 .. k - 1 : Pipe'[l].ride = r /\ Pipe'[l].status = s
    BY <1>2 DEF OrderInv
  <2> DEFINE Stored == s \in rows'[r] \/ <<r, s>> \in lost'
  <2>1. r \in Rides /\ (s \in rows[r] \/ <<r, s>> \in lost => Stored)
    BY <1>3
  <2>2. ASSUME NEW l \in 1 .. a, Pipe[l].ride = r, Pipe[l].status = s
        PROVE  Stored
    BY <1>1, <2>2
  <2> HIDE DEF Stored
  <2>3. ASSUME NEW k \in 1 .. Len(Pipe), Pipe[k].ride = r, Pipe[k].status = t
        PROVE  Stored \/ \E l \in 1 .. k - 1 : Pipe[l].ride = r /\ Pipe[l].status = s
    BY <2>1, <2>3 DEF RideInv, OrderInv
  <2>4. ASSUME t \in rows'[r] PROVE Stored
    <3>1. CASE t \in rows[r]
      BY <2>1, <3>1 DEF RideInv, OrderInv
    <3>2. CASE \E k \in 1 .. a : Pipe[k].ride = r /\ Pipe[k].status = t
      <4>1. PICK k \in 1 .. a : Pipe[k].ride = r /\ Pipe[k].status = t
        BY <3>2
      <4>2. k \in 1 .. Len(Pipe) /\ \A l \in 1 .. k - 1 : l \in 1 .. a
        BY <1>1
      <4> QED
        BY <2>2, <2>3, <4>1, <4>2
    <3> QED
      BY <2>1, <2>4, <3>1, <3>2
  <2>5. ASSUME NEW k \in 1 .. Len(Pipe'), Pipe'[k].ride = r, Pipe'[k].status = t
        PROVE  Stored \/ \E l \in 1 .. k - 1 : Pipe'[l].ride = r /\ Pipe'[l].status = s
    <3>1. a + k \in 1 .. Len(Pipe) /\ Pipe[a + k].ride = r /\ Pipe[a + k].status = t
      BY <1>1, <2>5
    <3>2. ASSUME NEW l \in 1 .. (a + k) - 1, Pipe[l].ride = r, Pipe[l].status = s
          PROVE  Stored \/ \E m \in 1 .. k - 1 : Pipe'[m].ride = r /\ Pipe'[m].status = s
      <4>1. CASE l <= a
        BY <2>2, <3>2, <4>1
      <4>2. CASE l > a
        <5>1. l - a \in 1 .. k - 1 /\ l - a \in 1 .. Len(Pipe') /\ a + (l - a) = l
          BY <1>1, <4>2
        <5>2. Pipe'[l - a] = Pipe[l]
          BY <1>1, <5>1
        <5> QED
          BY <3>2, <5>1, <5>2
      <4> QED
        BY <4>1, <4>2
    <3> QED
      BY <2>3, <3>1, <3>2
  <2> QED
    BY <2>4, <2>5 DEF Stored
<1>12. CountInv'
  BY <1>2, <1>3 DEF RideInv, CountInv
<1> QED
  BY <1>7, <1>8, <1>9, <1>10, <1>11, <1>12 DEF RideInv

(* The steps of the writer, and an initialization that discards the queue. *)
LEMMA RideWriterKeepsInv ==
  ASSUME RideTypeOK, RideInv, RideWriterStep
  PROVE  RideInv'
<1> DEFINE N == Len(Pipe)
<1>1. /\ N \in Nat /\ N = Len(batch) + Len(q) /\ Len(batch) \in Nat /\ Len(q) \in Nat
      /\ Pipe \in Seq(Write) /\ q \in Seq(Write) /\ batch \in Seq(Write)
      /\ \A k \in 1 .. Len(batch) : Pipe[k] = batch[k]
      /\ \A k \in 1 .. Len(q) : Pipe[Len(batch) + k] = q[k]
      /\ \A k \in 1 .. N : Pipe[k].ride \in Rides /\ Pipe[k].status \in Status
  BY PipeFacts DEF RideTypeOK
<1>2. /\ \A r \in evaluated : "COMPLETED" \in rows[r]
      /\ wpc = "wait" => batch = <<>>
  BY DEF RideInv, CountInv, OnceInv
<1>3. ASSUME Pipe' = Pipe, UNCHANGED <<memVars, handlerVars, dbVars, gone, lost>>,
             wpc' = "wait" => batch' = <<>>
      PROVE  RideInv'
  <2>1. UNCHANGED <<known, rows, evaluated>>
    BY <1>3 DEF dbVars
  <2>2. Len(Pipe') = N - 0 /\ \A k \in 1 .. N - 0 : Pipe'[k] = Pipe[0 + k]
    BY <1>1, <1>3
  <2>3. /\ 0 \in Nat /\ 0 <= N /\ N <= Len(Pipe)
        /\ \A k \in 1 .. Len(Pipe) : ~(k <= 0 \/ k > N)
    BY <1>1
  <2> HIDE DEF N
  <2> QED
    BY <1>1, <1>2, <1>3, <2>1, <2>2, <2>3, PipeWindow
<1>4. CASE TakeBatch
  <2>1. /\ wpc = "wait" /\ batch' = q /\ q' = <<>> /\ wpc' = "taken"
        /\ UNCHANGED <<memVars, handlerVars, dbVars, gone, lost>>
    BY <1>4 DEF TakeBatch, historyVars
  <2>2. <<>> \o q = q /\ q \o <<>> = q
    BY <1>1, ConcatEmptySeq
  <2>3. Pipe' = Pipe
    BY <1>2, <2>1, <2>2 DEF Pipe
  <2>4. wpc' # "wait"
    BY <2>1
  <2> QED
    BY <1>3, <2>1, <2>3, <2>4
<1>5. CASE UnlockFlush
  <2>1. /\ UNCHANGED <<memVars, handlerVars, dbVars, gone, lost, batch, q>> /\ batch = <<>>
    BY <1>5 DEF UnlockFlush, historyVars, queueVars
  <2>2. Pipe' = Pipe
    BY <2>1 DEF Pipe
  <2> QED
    BY <1>3, <2>1, <2>2
(* The batch leaves the pipe. *)
<1>6. ASSUME batch' = <<>>, lost' = lost \cup Refs(batch), UNCHANGED q,
             UNCHANGED <<memVars, handlerVars, dbVars, gone>>
      PROVE  RideInv'
  <2>1. UNCHANGED <<known, rows, evaluated>>
    BY <1>6 DEF dbVars
  <2>2. Pipe' = q
    BY <1>1, <1>6, ConcatEmptySeq DEF Pipe
  <2>3. /\ Len(Pipe') = N - Len(batch)
        /\ \A k \in 1 .. N - Len(batch) : Pipe'[k] = Pipe[Len(batch) + k]
    BY <1>1, <2>2
  <2>4. \A k \in 1 .. Len(batch) : <<batch[k].ride, batch[k].status>> \in lost'
    BY <1>1, <1>6, RefsType
  <2>5. \A k \in 1 .. Len(Pipe) : k <= Len(batch) \/ k > N =>
          <<Pipe[k].ride, Pipe[k].status>> \in lost'
    BY <1>1, <2>4
  <2>6. Len(batch) <= N /\ N <= Len(Pipe)
    BY <1>1
  <2> HIDE DEF N
  <2> QED
    BY <1>1, <1>2, <1>6, <2>1, <2>3, <2>5, <2>6, PipeWindow
<1>7. CASE LockFlush
  <2>1. CASE Stale
    BY <1>6, <1>7, <2>1 DEF LockFlush, queueVars
  <2>2. CASE ~Stale
    <3>1. /\ UNCHANGED <<memVars, handlerVars, dbVars, gone, lost, batch, q>>
          /\ wpc' # "wait"
      BY <1>7, <2>2 DEF LockFlush, queueVars
    <3>2. Pipe' = Pipe
      BY <3>1 DEF Pipe
    <3> QED
      BY <1>3, <3>1, <3>2
  <2> QED
    BY <2>1, <2>2
<1>8. CASE WriteFails
  BY <1>6, <1>8 DEF WriteFails, queueVars
<1>9. CASE WriteChunk
  <2> DEFINE n == Len(Chunk)
  <2>1. /\ wpc = "writing" /\ batch # <<>>
        /\ rows' = [r \in Rides |-> rows[r] \cup RowsOf(r)]
        /\ evaluated' = evaluated \cup {r \in known : "COMPLETED" \in RowsOf(r)}
        /\ batch' = SubSeq(batch, n + 1, Len(batch))
        /\ UNCHANGED <<memVars, handlerVars, q, wpc, known, gone, lost>>
    BY <1>9 DEF WriteChunk, queueVars
  <2>2. n \in 1 .. Len(batch)
    BY <1>1, <2>1, ChunkFacts
  <2>3. \A r, s : s \in RowsOf(r) <=>
          \E k \in 1 .. n : batch[k].ride = r /\ batch[k].status = s
    BY <1>1, <2>1, RowsOfFacts
  <2> HIDE DEF n
  <2>4. /\ batch' \in Seq(Write) /\ Len(batch') = Len(batch) - n
        /\ \A k \in 1 .. Len(batch) - n : batch'[k] = batch[n + k]
    BY <1>1, <2>1, <2>2, RestOf
  <2>5. /\ Len(Pipe') = N - n
        /\ \A k \in 1 .. N - n : Pipe'[k] = Pipe[n + k]
    <3>1. /\ Pipe' \in Seq(Write) /\ Len(Pipe') = Len(batch') + Len(q)
          /\ \A k \in 1 .. Len(batch') + Len(q) :
               Pipe'[k] = IF k <= Len(batch') THEN batch'[k] ELSE q[k - Len(batch')]
      BY <1>1, <2>1, <2>4, ConcatProperties DEF Pipe
    <3>2. ASSUME NEW k \in 1 .. N - n PROVE Pipe'[k] = Pipe[n + k]
      <4>1. CASE k <= Len(batch')
        <5>1. k \in 1 .. Len(batch) - n /\ n + k \in 1 .. Len(batch)
          BY <1>1, <2>2, <2>4, <4>1
        <5>2. Pipe'[k] = batch'[k]
          BY <1>1, <2>4, <3>1, <4>1
        <5> QED
          BY <1>1, <2>4, <5>1, <5>2
      <4>2. CASE k > Len(batch')
        <5> DEFINE m == k - Len(batch')
        <5>1. m \in 1 .. Len(q) /\ n + k = Len(batch) + m /\ ~(k <= Len(batch'))
          BY <1>1, <2>2, <2>4, <4>2
        <5>2. Pipe'[k] = q[m]
          BY <1>1, <2>4, <3>1, <5>1
        <5> HIDE DEF m
        <5> QED
          BY <1>1, <5>1, <5>2
      <4> QED
        BY <2>2, <2>4, <4>1, <4>2
    <3> QED
      BY <1>1, <2>2, <2>4, <3>1, <3>2
  <2>6. ASSUME NEW k \in 1 .. Len(Pipe), k <= n \/ k > N
        PROVE  Pipe[k].status \in rows'[Pipe[k].ride]
    <3>1. k \in 1 .. n /\ Pipe[k] = batch[k] /\ batch[k].ride \in Rides
      BY <1>1, <2>2, <2>6
    <3>2. batch[k].status \in RowsOf(batch[k].ride)
      BY <2>3, <3>1
    <3> QED
      BY <2>1, <3>1, <3>2
  <2>7. ASSUME NEW r \in Rides, NEW s \in rows'[r]
        PROVE  s \in rows[r] \/ \E k \in 1 .. n : Pipe[k].ride = r /\ Pipe[k].status = s
    <3>1. s \in rows[r] \/ s \in RowsOf(r)
      BY <2>1
    <3>2. \A k \in 1 .. n : Pipe[k] = batch[k]
      BY <1>1, <2>2
    <3> QED
      BY <2>3, <3>1, <3>2
  <2>8. known \subseteq Rides /\ evaluated \subseteq Rides
    BY DEF RideTypeOK
  <2>9. /\ \A r \in evaluated' : "COMPLETED" \in rows'[r]
        /\ \A r \in Rides : rows[r] \subseteq rows'[r]
    BY <1>2, <2>1, <2>8
  <2>10. n \in Nat /\ n <= N /\ N <= Len(Pipe) /\ lost \subseteq lost' /\ wpc' # "wait"
    BY <1>1, <2>1, <2>2
  <2> HIDE DEF N
  <2> QED
    BY <1>1, <2>1, <2>5, <2>6, <2>7, <2>9, <2>10, PipeWindow
<1> QED
  BY <1>4, <1>5, <1>7, <1>8, <1>9 DEF RideWriterStep

LEMMA DiscardRideWritesKeepsInv ==
  ASSUME RideTypeOK, RideInv, DiscardRideWrites
  PROVE  RideInv'
<1>1. /\ q' = <<>> /\ lost' = lost \cup Refs(q)
      /\ UNCHANGED <<memVars, handlerVars, known, rows, evaluated, wpc, batch>>
      /\ gone \subseteq gone'
  BY DEF DiscardRideWrites, writerVars, dbVars
<1>2. /\ Len(Pipe) = Len(batch) + Len(q) /\ Len(batch) \in Nat /\ Len(q) \in Nat
      /\ q \in Seq(Write) /\ batch \in Seq(Write)
      /\ \A k \in 1 .. Len(batch) : Pipe[k] = batch[k]
      /\ \A k \in 1 .. Len(q) : Pipe[Len(batch) + k] = q[k]
  BY PipeFacts DEF RideTypeOK
<1>3. Pipe' = batch
  BY <1>1, <1>2, ConcatEmptySeq DEF Pipe
<1>4. Len(Pipe') = Len(batch) - 0 /\ \A k \in 1 .. Len(batch) - 0 : Pipe'[k] = Pipe[0 + k]
  BY <1>2, <1>3
<1>5. \A k \in 1 .. Len(q) : <<q[k].ride, q[k].status>> \in lost'
  BY <1>1, <1>2, RefsType
<1>6. ASSUME NEW k \in 1 .. Len(Pipe), k <= 0 \/ k > Len(batch)
      PROVE  <<Pipe[k].ride, Pipe[k].status>> \in lost'
  <2>1. k - Len(batch) \in 1 .. Len(q) /\ Len(batch) + (k - Len(batch)) = k
    BY <1>2, <1>6
  <2> QED
    BY <1>2, <1>5, <2>1
<1>7. /\ \A r \in evaluated' : "COMPLETED" \in rows'[r]
      /\ wpc' = "wait" => batch' = <<>>
  BY <1>1 DEF RideInv, CountInv, OnceInv
<1>8. 0 \in Nat /\ 0 <= Len(batch) /\ Len(batch) <= Len(Pipe) /\ lost \subseteq lost'
  BY <1>1, <1>2
<1> QED
  BY <1>1, <1>2, <1>4, <1>6, <1>7, <1>8, PipeWindow

(* A status joins the pipe: it is there once, after the earlier ones of its ride. *)
LEMMA PipeGrows ==
  ASSUME RideTypeOK, RideInv, NEW r \in Rides, NEW s \in Status,
         q' = Append(q, Queued(r, s)), UNCHANGED <<batch, wpc, known, rows, lost>>,
         s \notin rows[r], ~Waits(r, s),
         r \in known /\ Place(s) <= 5 =>
           \A t \in Status : Place(t) < Place(s) => Placed(r, t)
  PROVE  /\ OnceInv' /\ OrderInv'
         /\ \A x, y : Waits(x, y)' <=> Waits(x, y) \/ (x = r /\ y = s)
<1> DEFINE N == Len(Pipe)
<1>1. /\ Pipe \in Seq(Write) /\ N \in Nat
      /\ q \in Seq(Write) /\ batch \in Seq(Write)
      /\ \A k \in 1 .. N : Pipe[k].ride \in Rides /\ Pipe[k].status \in Status
  BY PipeFacts DEF RideTypeOK
<1>2. /\ Queued(r, s) \in Write /\ Queued(r, s).ride = r /\ Queued(r, s).status = s
  BY QueuedType
<1>3. /\ Len(Pipe') = N + 1 /\ \A k \in 1 .. N : Pipe'[k] = Pipe[k]
      /\ Pipe'[N + 1] = Queued(r, s)
  <2>1. <<Queued(r, s)>> \in Seq(Write)
    BY <1>2, SingleEntry
  <2>2. Pipe' = batch \o (q \o <<Queued(r, s)>>)
    BY <1>1, <1>2, AppendIsConcat DEF Pipe
  <2>3. Pipe' = Pipe \o <<Queued(r, s)>>
    BY <1>1, <2>1, <2>2, ConcatAssociative DEF Pipe
  <2>4. Pipe' = Append(Pipe, Queued(r, s))
    BY <1>1, <1>2, <2>3, AppendIsConcat
  <2> QED
    BY <1>1, <1>2, <2>4, AppendProperties
<1> HIDE DEF N
<1>4. \A k \in 1 .. N + 1 : k \in 1 .. N \/ k = N + 1
  BY <1>1
<1>5. ASSUME NEW k \in 1 .. N PROVE ~(Pipe'[k].ride = r /\ Pipe'[k].status = s)
  BY <1>3 DEF Waits, N
<1>6. OnceInv'
  <2>1. ASSUME NEW k \in 1 .. N + 1, NEW l \in 1 .. N + 1,
               Pipe'[k].ride = Pipe'[l].ride, Pipe'[k].status = Pipe'[l].status
        PROVE  k = l
    <3>1. CASE k \in 1 .. N /\ l \in 1 .. N
      BY <1>3, <2>1, <3>1 DEF RideInv, OnceInv, N
    <3>2. CASE k = N + 1 /\ l \in 1 .. N
      BY <1>2, <1>3, <1>5, <2>1, <3>2
    <3>3. CASE k \in 1 .. N /\ l = N + 1
      BY <1>2, <1>3, <1>5, <2>1, <3>3
    <3> QED
      BY <1>4, <3>1, <3>2, <3>3
  <2>2. ASSUME NEW k \in 1 .. N + 1 PROVE Pipe'[k].status \notin rows[Pipe'[k].ride]
    <3>1. CASE k \in 1 .. N
      BY <1>3, <3>1 DEF RideInv, OnceInv, N
    <3>2. CASE k = N + 1
      BY <1>2, <1>3, <3>2
    <3> QED
      BY <1>4, <3>1, <3>2
  <2>3. wpc = "wait" => batch = <<>>
    BY DEF RideInv, OnceInv
  <2> QED
    BY <1>3, <2>1, <2>2, <2>3 DEF OnceInv
<1>7. OrderInv'
  <2> SUFFICES ASSUME NEW x \in known, NEW t \in Status, NEW u \in Status,
                      Place(t) < Place(u) /\ Place(u) <= 5
               PROVE  /\ u \in rows[x] => t \in rows[x] \/ <<x, t>> \in lost
                      /\ \A k \in 1 .. N + 1 : Pipe'[k].ride = x /\ Pipe'[k].status = u =>
                           \/ t \in rows[x] \/ <<x, t>> \in lost
                           \/ \E l \in 1 .. k - 1 : Pipe'[l].ride = x /\ Pipe'[l].status = t
    BY <1>3 DEF OrderInv
  <2>1. u \in rows[x] => t \in rows[x] \/ <<x, t>> \in lost
    BY DEF RideInv, OrderInv
  <2>2. ASSUME NEW k \in 1 .. N + 1, Pipe'[k].ride = x, Pipe'[k].status = u,
               ~(t \in rows[x] \/ <<x, t>> \in lost)
        PROVE  \E l \in 1 .. k - 1 : Pipe'[l].ride = x /\ Pipe'[l].status = t
    <3>1. CASE k \in 1 .. N
      <4>1. PICK l \in 1 .. k - 1 : Pipe[l].ride = x /\ Pipe[l].status = t
        BY <1>3, <2>2, <3>1 DEF RideInv, OrderInv, N
      <4>2. l \in 1 .. N
        BY <1>1, <3>1
      <4> QED
        BY <1>3, <4>1, <4>2
    <3>2. CASE k = N + 1
      <4>1. x = r /\ u = s
        BY <1>2, <1>3, <2>2, <3>2
      <4>2. Waits(r, t)
        BY <2>2, <4>1 DEF Placed
      <4>3. PICK l \in 1 .. N : Pipe[l].ride = x /\ Pipe[l].status = t
        BY <4>1, <4>2 DEF Waits, N
      <4>4. l \in 1 .. k - 1
        BY <1>1, <3>2
      <4> QED
        BY <1>3, <4>3, <4>4
    <3> QED
      BY <1>4, <3>1, <3>2
  <2> QED
    BY <2>1, <2>2
<1>8. ASSUME NEW x, NEW y PROVE Waits(x, y)' <=> Waits(x, y) \/ (x = r /\ y = s)
  <2>1. ASSUME Waits(x, y)' PROVE Waits(x, y) \/ (x = r /\ y = s)
    <3>1. PICK k \in 1 .. N + 1 : Pipe'[k].ride = x /\ Pipe'[k].status = y
      BY <1>3, <2>1 DEF Waits
    <3>2. CASE k \in 1 .. N
      BY <1>3, <3>1, <3>2 DEF Waits, N
    <3>3. CASE k = N + 1
      BY <1>2, <1>3, <3>1, <3>3
    <3> QED
      BY <1>4, <3>2, <3>3
  <2>2. ASSUME Waits(x, y) PROVE Waits(x, y)'
    <3>1. PICK k \in 1 .. N : Pipe[k].ride = x /\ Pipe[k].status = y
      BY <2>2 DEF Waits, N
    <3>2. k \in 1 .. N + 1
      BY <1>1
    <3> QED
      BY <1>3, <3>1, <3>2 DEF Waits
  <2>3. Waits(r, s)'
    <3>1. N + 1 \in 1 .. N + 1
      BY <1>1
    <3> QED
      BY <1>2, <1>3, <3>1 DEF Waits
  <2> QED
    BY <2>1, <2>2, <2>3
<1> QED
  BY <1>6, <1>7, <1>8

LEMMA EnqueueStatusKeepsInv ==
  ASSUME RideTypeOK, RideInv, NEW r \in Rides, EnqueueStatus(r)
  PROVE  RideInv'
<1> DEFINE s == recorded[r]
<1>1. /\ s # "" /\ q' = Append(q, Queued(r, s))
      /\ recorded' = [recorded EXCEPT ![r] = ""]
      /\ UNCHANGED <<mem, counted, eval, wpc, batch, known, rows, evaluated, lost, gone>>
  BY DEF EnqueueStatus, Enqueue, memVars, writerVars, dbVars
<1>2. s \in Status /\ known \subseteq Rides /\ recorded \in [Rides -> Status \cup {""}]
  BY <1>1 DEF RideTypeOK
<1>3. /\ recorded'[r] = "" /\ \A x \in Rides : x # r => recorded'[x] = recorded[x]
  BY <1>1, <1>2
<1>4. /\ Place(s) <= 5 /\ s \notin rows[r] /\ ~Waits(r, s)
      /\ mem[r] # <<>> => InMem(r, s)
  BY <1>1 DEF RideInv, RecordedInv
<1>5. \A x, y : InMem(x, y)' <=> InMem(x, y)
  BY <1>1 DEF InMem
<1>6. \A x : LatestStatus(x)' = LatestStatus(x)
  BY <1>1 DEF LatestStatus
<1> HIDE DEF s
<1>7. s # "COMPLETED"
  <2>1. ~(Place("COMPLETED") <= 5)
    BY Places
  <2> QED
    BY <1>4, <2>1
<1>8. ASSUME r \in known, NEW t \in Status, Place(t) < Place(s) PROVE Placed(r, t)
  <2>1. mem[r] # <<>>
    BY <1>8 DEF RideInv, PlaceInv
  <2>2. InMem(r, t) \/ <<r, t>> \in lost
    BY <1>2, <1>4, <1>8, <2>1 DEF RideInv, PlaceInv
  <2>3. t # s
    BY <1>2, <1>8, PlacesDiffer
  <2> QED
    BY <1>8, <2>2, <2>3 DEF RideInv, PlaceInv, Placed, s
<1>9. /\ OnceInv' /\ OrderInv'
      /\ \A x, y : Waits(x, y)' <=> Waits(x, y) \/ (x = r /\ y = s)
  BY <1>1, <1>2, <1>4, <1>8, PipeGrows
<1>10. \A x, y : Placed(x, y)' <=> Placed(x, y) \/ (x = r /\ y = s)
  BY <1>1, <1>9 DEF Placed
<1>11. MemInv' /\ CountInv'
  BY <1>1, <1>5 DEF RideInv, MemInv, CountInv
<1>12. RecordedInv' /\ EvaluationInv'
  <2>1. RecordedInv'
    BY <1>1, <1>3, <1>5, <1>9 DEF RideInv, RecordedInv
  <2>2. EvaluationInv'
    BY <1>1, <1>6, <1>7, <1>9, <1>10 DEF RideInv, EvaluationInv
  <2> QED
    BY <2>1, <2>2
<1>13. RowInv'
  <2>1. \A x \in Rides, y \in Status :
          mem[x] # <<>> /\ (y \in rows[x] \/ Waits(x, y) \/ (x = r /\ y = s)) =>
            InMem(x, y) \/ (y = "COMPLETED" /\ eval[x] = "queued")
    BY <1>4 DEF RideInv, RowInv
  <2> QED
    BY <1>1, <1>5, <1>9, <2>1 DEF RowInv
<1>14. PlaceInv'
  <2>1. ASSUME NEW x \in known, NEW y \in Status, InMem(x, y)
        PROVE  Placed(x, y)' \/ recorded'[x] = y
    BY <1>2, <1>3, <1>10, <2>1 DEF RideInv, PlaceInv, s
  <2> QED
    BY <1>1, <1>5, <2>1 DEF RideInv, PlaceInv
<1>15. FreshInv'
  <2>1. r \notin Rides \ (known \cup gone)
    BY <1>1 DEF RideInv, FreshInv, s
  <2> QED
    BY <1>1, <1>3, <1>9, <2>1 DEF RideInv, FreshInv
<1> QED
  BY <1>9, <1>11, <1>12, <1>13, <1>14, <1>15 DEF RideInv

LEMMA EnqueueCompletedKeepsInv ==
  ASSUME RideTypeOK, RideInv, NEW r \in Rides, EnqueueCompleted(r)
  PROVE  RideInv'
<1>1. /\ eval[r] = "paying" /\ q' = Append(q, Queued(r, "COMPLETED"))
      /\ eval' = [eval EXCEPT ![r] = "queued"]
      /\ UNCHANGED <<mem, counted, recorded, wpc, batch, known, rows, evaluated, lost, gone>>
  BY DEF EnqueueCompleted, Enqueue, memVars, writerVars, dbVars
<1>2. "COMPLETED" \in Status /\ known \subseteq Rides
  BY DEF RideTypeOK, Status
<1>3. eval'[r] = "queued" /\ \A x \in Rides : x # r => eval'[x] = eval[x]
  BY <1>1 DEF RideTypeOK
<1>4. "COMPLETED" \notin rows[r] /\ ~Waits(r, "COMPLETED")
  BY <1>1 DEF RideInv, EvaluationInv
<1>5. /\ \A x, y : InMem(x, y)' <=> InMem(x, y)
      /\ \A x : LatestStatus(x)' = LatestStatus(x)
  BY <1>1 DEF InMem, LatestStatus
<1>6. ~(Place("COMPLETED") <= 5)
  BY Places
<1>7. /\ OnceInv' /\ OrderInv'
      /\ \A x, y : Waits(x, y)' <=> Waits(x, y) \/ (x = r /\ y = "COMPLETED")
  BY <1>1, <1>2, <1>4, <1>6, PipeGrows
<1>8. \A x, y : Placed(x, y)' <=> Placed(x, y) \/ (x = r /\ y = "COMPLETED")
  BY <1>1, <1>7 DEF Placed
<1>9. MemInv' /\ CountInv'
  BY <1>1, <1>5 DEF RideInv, MemInv, CountInv
<1>10. RecordedInv' /\ EvaluationInv'
  <2>1. ASSUME NEW x \in Rides, recorded[x] # "" PROVE recorded[x] # "COMPLETED"
    BY <1>6, <2>1 DEF RideInv, RecordedInv
  <2>2. RecordedInv'
    BY <1>1, <1>5, <1>7, <2>1 DEF RideInv, RecordedInv
  <2>3. EvaluationInv'
    BY <1>1, <1>3, <1>5, <1>7, <1>8 DEF RideInv, EvaluationInv
  <2> QED
    BY <2>2, <2>3
<1>11. RowInv'
  BY <1>1, <1>3, <1>5, <1>7 DEF RideInv, RowInv
<1>12. PlaceInv'
  BY <1>1, <1>5, <1>8 DEF RideInv, PlaceInv
<1>13. FreshInv'
  <2>1. r \notin Rides \ (known \cup gone)
    BY <1>1 DEF RideInv, FreshInv
  <2>2. ASSUME NEW x \in Rides \ (known \cup gone), NEW y \in Status PROVE ~Waits(x, y)'
    BY <1>7, <2>1 DEF RideInv, FreshInv
  <2>3. \A x \in Rides \ (known \cup gone) : eval'[x] = eval[x]
    BY <1>3, <2>1
  <2> QED
    BY <1>1, <2>2, <2>3 DEF RideInv, FreshInv
<1> QED
  BY <1>7, <1>9, <1>10, <1>11, <1>12, <1>13 DEF RideInv

(* Memory gains a status that is later than the latest. *)
LEMMA MemoryGrows ==
  ASSUME RideTypeOK, RideInv, NEW r \in Rides, NEW s \in Status, mem[r] # <<>>,
         Place(LatestStatus(r)) < Place(s), mem' = [mem EXCEPT ![r] = Append(@, s)]
  PROVE  /\ MemInv'
         /\ \A x \in Rides : \A y : InMem(x, y)' <=> InMem(x, y) \/ (x = r /\ y = s)
         /\ mem'[r] # <<>>
         /\ \A x \in Rides : x # r => mem'[x] = mem[x]
         /\ \A x \in Rides : x # r => LatestStatus(x)' = LatestStatus(x)
<1>1. /\ mem'[r] # <<>> /\ Len(mem'[r]) = Len(mem[r]) + 1
      /\ \A k \in 1 .. Len(mem[r]) : mem'[r][k] = mem[r][k]
      /\ mem'[r][Len(mem[r]) + 1] = s
      /\ \A x \in Rides : x # r => mem'[x] = mem[x]
  BY MemGrows
<1> DEFINE n == Len(mem[r])
<1>2. n \in Nat /\ n \in 1 .. n /\ mem[r][n] = LatestStatus(r) /\ mem[r] \in Seq(Status)
  BY LatestType
<1>3. \A k \in 1 .. n : Place(mem[r][k]) \in Int /\ Place(mem[r][k]) < Place(s)
  <2>1. ASSUME NEW k \in 1 .. n PROVE Place(mem[r][k]) < Place(s)
    <3>1. mem[r][k] \in Status /\ LatestStatus(r) \in Status
      BY <1>2, ElementOfSeq
    <3>2. /\ Place(mem[r][k]) \in Int /\ Place(LatestStatus(r)) \in Int /\ Place(s) \in Int
      BY <3>1, PlaceFacts
    <3>3. k = n \/ k < n
      BY <1>2
    <3>4. Sorted(mem[r])
      BY DEF RideInv, MemInv
    <3>5. k < n => Place(mem[r][k]) < Place(LatestStatus(r))
      BY <1>2, <3>4 DEF Sorted
    <3> QED
      BY <1>2, <3>2, <3>3, <3>5
  <2>2. ASSUME NEW k \in 1 .. n PROVE Place(mem[r][k]) \in Int
    <3>1. mem[r][k] \in Status
      BY <1>2, ElementOfSeq
    <3> QED
      BY <3>1, PlaceFacts
  <2> QED
    BY <2>1, <2>2
<1> HIDE DEF n
<1>4. Len(mem'[r]) = n + 1 /\ \A k \in 1 .. n + 1 : k \in 1 .. n \/ k = n + 1
  BY <1>1, <1>2 DEF n
<1>5. Sorted(mem'[r])
  <2>1. ASSUME NEW k \in 1 .. n + 1, NEW l \in 1 .. n + 1, k < l
        PROVE  Place(mem'[r][k]) < Place(mem'[r][l])
    <3>1. k \in 1 .. n
      BY <1>2, <2>1
    <3>2. CASE l \in 1 .. n
      BY <1>1, <2>1, <3>1, <3>2 DEF RideInv, MemInv, Sorted, n
    <3>3. CASE l = n + 1
      BY <1>1, <1>3, <3>1, <3>3 DEF n
    <3> QED
      BY <1>4, <3>2, <3>3
  <2> QED
    BY <1>4, <2>1 DEF Sorted
<1>6. MemInv'
  BY <1>1, <1>5 DEF RideInv, MemInv
<1>7. ASSUME NEW y PROVE InMem(r, y)' <=> InMem(r, y) \/ y = s
  <2>1. ASSUME InMem(r, y)' PROVE InMem(r, y) \/ y = s
    BY <1>1, <1>4, <2>1 DEF InMem, n
  <2>2. ASSUME InMem(r, y) PROVE InMem(r, y)'
    <3>1. PICK k \in 1 .. n : mem[r][k] = y
      BY <2>2 DEF InMem, n
    <3>2. k \in 1 .. n + 1
      BY <1>2
    <3> QED
      BY <1>1, <1>4, <3>1, <3>2 DEF InMem, n
  <2>3. InMem(r, s)'
    <3>1. n + 1 \in 1 .. n + 1
      BY <1>2
    <3> QED
      BY <1>1, <1>4, <3>1 DEF InMem, n
  <2> QED
    BY <2>1, <2>2, <2>3
<1>8. \A x \in Rides : \A y : x # r => (InMem(x, y)' <=> InMem(x, y))
  BY <1>1 DEF InMem
<1>9. \A x \in Rides : x # r => LatestStatus(x)' = LatestStatus(x)
  BY <1>1 DEF LatestStatus
<1> QED
  BY <1>1, <1>6, <1>7, <1>8, <1>9

(* What memory holds of a ride is not later than the latest. *)
LEMMA LatestIsLast ==
  ASSUME RideTypeOK, RideInv, NEW r \in Rides, NEW s \in Status, InMem(r, s)
  PROVE  /\ mem[r] # <<>> /\ LatestStatus(r) \in Status
         /\ s = LatestStatus(r) \/ Place(s) < Place(LatestStatus(r))
<1>1. PICK k \in 1 .. Len(mem[r]) : mem[r][k] = s
  BY DEF InMem
<1>2. mem[r] # <<>>
  BY <1>1, EmptyPipe
<1>3. /\ Len(mem[r]) \in Nat /\ Len(mem[r]) \in 1 .. Len(mem[r])
      /\ LatestStatus(r) = mem[r][Len(mem[r])] /\ LatestStatus(r) \in Status
  BY <1>2, LatestType
<1>4. k = Len(mem[r]) \/ k < Len(mem[r])
  BY <1>3
<1>5. CASE k < Len(mem[r])
  BY <1>1, <1>3, <1>5 DEF RideInv, MemInv, Sorted
<1> QED
  BY <1>1, <1>2, <1>3, <1>4, <1>5

(* The latest status is in memory. *)
LEMMA LatestIsThere ==
  ASSUME RideTypeOK, NEW r \in Rides, mem[r] # <<>>
  PROVE  InMem(r, LatestStatus(r))
BY LatestType DEF InMem

LEMMA CreateRideKeepsInv ==
  ASSUME RideTypeOK, RideInv, NEW r \in Rides, CreateRide(r)
  PROVE  RideInv'
<1>1. /\ r \notin known \cup gone /\ known' = known \cup {r}
      /\ rows' = [rows EXCEPT ![r] = {"MATCHING"}]
      /\ mem' = [mem EXCEPT ![r] = <<"MATCHING">>]
      /\ UNCHANGED <<counted, recorded, eval, q, batch, wpc, evaluated, lost, gone>>
  BY DEF CreateRide, handlerVars, queueVars, writerVars, historyVars
<1>2. /\ "MATCHING" \in Status /\ "MATCHING" # "COMPLETED" /\ known \subseteq Rides
      /\ counted \subseteq Rides /\ evaluated \subseteq Rides
      /\ mem \in [Rides -> Seq(Status)] /\ rows \in [Rides -> SUBSET Status]
  BY DEF RideTypeOK, Status
<1>3. /\ mem[r] = <<>> /\ rows[r] = {} /\ recorded[r] = "" /\ eval[r] = "none"
      /\ \A s \in Status : ~Waits(r, s)
  BY <1>1 DEF RideInv, FreshInv
<1>4. /\ mem'[r] = <<"MATCHING">> /\ rows'[r] = {"MATCHING"}
      /\ \A x \in Rides : x # r => mem'[x] = mem[x] /\ rows'[x] = rows[x]
  BY <1>1, <1>2
<1>5. Len(mem'[r]) = 1 /\ mem'[r][1] = "MATCHING" /\ mem'[r] # <<>>
  BY <1>2, <1>4, SingleEntry
<1>6. /\ Pipe' = Pipe
      /\ \A x, y : Waits(x, y)' <=> Waits(x, y)
  BY <1>1 DEF Pipe, Waits
<1>7. /\ \A y : InMem(r, y)' <=> y = "MATCHING"
      /\ \A y : ~InMem(r, y)
      /\ \A x \in Rides : x # r => \A y : InMem(x, y)' <=> InMem(x, y)
  <2>1. \A y : InMem(r, y)' <=> y = "MATCHING"
    BY <1>5 DEF InMem
  <2>2. \A y : ~InMem(r, y)
    BY <1>3, EmptyPipe DEF InMem
  <2>3. \A x \in Rides : x # r => \A y : InMem(x, y)' <=> InMem(x, y)
    BY <1>4 DEF InMem
  <2> QED
    BY <2>1, <2>2, <2>3
<1>8. \A x \in Rides : x # r => LatestStatus(x)' = LatestStatus(x)
  BY <1>4 DEF LatestStatus
<1>9. \A x \in Rides : x # r => \A y : Placed(x, y)' <=> Placed(x, y)
  BY <1>1, <1>4, <1>6 DEF Placed
<1>10. Placed(r, "MATCHING")'
  BY <1>4 DEF Placed
<1>11. \A s \in Status : ~(Place(s) < Place("MATCHING"))
  BY PlaceFacts, Places
<1>12. MemInv'
  <2>1. Sorted(mem'[r])
    BY <1>5 DEF Sorted
  <2> QED
    BY <1>4, <2>1 DEF RideInv, MemInv
<1>13. OnceInv'
  <2>1. \A k \in 1 .. Len(Pipe) : Pipe[k].status \notin rows'[Pipe[k].ride]
    <3>1. \A k \in 1 .. Len(Pipe) : Pipe[k].ride \in Rides /\ Pipe[k].ride # r
      BY <1>3, PipeFacts DEF Waits
    <3> QED
      BY <1>4, <3>1 DEF RideInv, OnceInv
  <2> QED
    BY <1>1, <1>6, <2>1 DEF RideInv, OnceInv
<1>14. RecordedInv'
  BY <1>1, <1>3, <1>4, <1>6, <1>7 DEF RideInv, RecordedInv
<1>15. EvaluationInv'
  BY <1>1, <1>3, <1>4, <1>6, <1>8, <1>9 DEF RideInv, EvaluationInv
<1>16. RowInv'
  BY <1>1, <1>3, <1>4, <1>6, <1>7 DEF RideInv, RowInv
<1>17. PlaceInv'
  <2>1. ASSUME NEW x \in known', x # r
        PROVE  /\ mem'[x] # <<>>
               /\ \A s \in Status : InMem(x, s)' => Placed(x, s)' \/ recorded'[x] = s
               /\ \A s, t \in Status : Place(s) < Place(t) /\ Place(t) <= 5 /\ InMem(x, t)' =>
                    InMem(x, s)' \/ <<x, s>> \in lost'
    <3>1. x \in known /\ x \in Rides
      BY <1>1, <1>2, <2>1
    <3> QED
      BY <1>1, <1>4, <1>7, <1>9, <2>1, <3>1 DEF RideInv, PlaceInv
  <2>2. /\ mem'[r] # <<>>
        /\ \A s \in Status : InMem(r, s)' => Placed(r, s)' \/ recorded'[r] = s
        /\ \A s, t \in Status : Place(s) < Place(t) /\ Place(t) <= 5 /\ InMem(r, t)' =>
             InMem(r, s)' \/ <<r, s>> \in lost'
    BY <1>5, <1>7, <1>10, <1>11
  <2> QED
    BY <2>1, <2>2 DEF PlaceInv
<1>18. OrderInv'
  <2>1. ASSUME NEW x \in known', NEW s \in Status, NEW t \in Status,
               Place(s) < Place(t) /\ Place(t) <= 5
        PROVE  /\ t \in rows'[x] => s \in rows'[x] \/ <<x, s>> \in lost
               /\ \A k \in 1 .. Len(Pipe) : Pipe[k].ride = x /\ Pipe[k].status = t =>
                    \/ s \in rows'[x] \/ <<x, s>> \in lost
                    \/ \E l \in 1 .. k - 1 : Pipe[l].ride = x /\ Pipe[l].status = s
    <3>1. CASE x = r
      <4>1. t \notin rows'[r]
        BY <1>4, <1>11, <2>1
      <4>2. ~Waits(r, t)
        BY <1>3
      <4> QED
        BY <3>1, <4>1, <4>2 DEF Waits
    <3>2. CASE x # r
      <4>1. x \in known /\ x \in Rides /\ rows'[x] = rows[x]
        BY <1>1, <1>2, <1>4, <3>2
      <4> QED
        BY <2>1, <4>1 DEF RideInv, OrderInv
    <3> QED
      BY <3>1, <3>2
  <2> QED
    BY <1>1, <1>6, <2>1 DEF OrderInv
<1>19. FreshInv'
  BY <1>1, <1>4, <1>6 DEF RideInv, FreshInv
<1>20. CountInv'
  <2>1. ASSUME NEW x \in counted PROVE InMem(x, "COMPLETED")'
    <3>1. x # r /\ x \in Rides /\ InMem(x, "COMPLETED")
      BY <1>2, <1>7 DEF RideInv, CountInv
    <3> QED
      BY <1>7, <3>1
  <2>2. ASSUME NEW x \in evaluated PROVE "COMPLETED" \in rows'[x]
    <3>1. x # r /\ x \in Rides /\ "COMPLETED" \in rows[x]
      BY <1>2, <1>3 DEF RideInv, CountInv
    <3> QED
      BY <1>4, <3>1
  <2>3. ASSUME NEW x \in known' PROVE "MATCHING" \in rows'[x]
    BY <1>1, <1>2, <1>4 DEF RideInv, CountInv
  <2> QED
    BY <1>1, <2>1, <2>2, <2>3 DEF CountInv
<1> QED
  BY <1>12, <1>13, <1>14, <1>15, <1>16, <1>17, <1>18, <1>19, <1>20 DEF RideInv

(* Steps that change neither pipe nor database. *)
LEMMA PipeSame ==
  ASSUME RideInv, UNCHANGED <<queueVars, writerVars, dbVars, historyVars>>
  PROVE  /\ OnceInv' /\ OrderInv'
         /\ \A x, y : Waits(x, y)' <=> Waits(x, y)
         /\ \A x, y : Placed(x, y)' <=> Placed(x, y)
         /\ UNCHANGED <<known, rows, evaluated, gone, lost>>
<1>1. UNCHANGED <<known, rows, evaluated, gone, lost, wpc, batch, q>>
  BY DEF queueVars, writerVars, dbVars, historyVars
<1>2. Pipe' = Pipe
  BY <1>1 DEF Pipe
<1>3. \A x, y : Waits(x, y)' <=> Waits(x, y)
  BY <1>2 DEF Waits
<1>4. \A x, y : Placed(x, y)' <=> Placed(x, y)
  BY <1>1, <1>3 DEF Placed
<1>5. OnceInv' /\ OrderInv'
  BY <1>1, <1>2 DEF RideInv, OnceInv, OrderInv
<1> QED
  BY <1>1, <1>3, <1>4, <1>5

LEMMA RecordStatusKeepsInv ==
  ASSUME RideTypeOK, RideInv, NEW r \in Rides, RecordStatus(r)
  PROVE  RideInv'
<1> DEFINE u == LatestStatus(r)
           s == ChairNext(u)
<1>1. /\ recorded[r] = "" /\ s # ""
      /\ recorded' = [recorded EXCEPT ![r] = s]
      /\ mem' = [mem EXCEPT ![r] = Append(@, s)]
      /\ UNCHANGED <<counted, eval, queueVars, writerVars, dbVars, historyVars>>
  BY DEF RecordStatus
<1>2. u \in Moving /\ u \in Status /\ s \in Status
  BY <1>1, LatestType, ChairNextFacts
<1>3. mem[r] # <<>>
  <2>1. u # ""
    BY <1>2 DEF Moving
  <2> QED
    BY <2>1, LatestType
<1>4. Place(s) = Place(u) + 1 /\ Place(s) <= 5 /\ Place(u) \in Int /\ Place(u) < Place(s)
  <2>1. Place(s) = Place(u) + 1 /\ Place(s) <= 5 /\ Place(u) \in Int
    BY <1>2, NextPlace, PlaceFacts
  <2> QED
    BY <2>1
<1>5. u # "ARRIVED" /\ s # "COMPLETED" /\ InMem(r, u)
  <2>1. u # "ARRIVED"
    BY <1>2 DEF Moving
  <2>2. ~(Place("COMPLETED") <= 5)
    BY Places
  <2> QED
    BY <1>3, <1>4, <2>1, <2>2, LatestIsThere
<1>6. recorded \in [Rides -> Status \cup {""}] /\ known \subseteq Rides /\ counted \subseteq Rides
  BY DEF RideTypeOK
<1> HIDE DEF s
<1>7. recorded'[r] = s /\ \A x \in Rides : x # r => recorded'[x] = recorded[x]
  BY <1>1, <1>6
<1>8. ~InMem(r, s)
  <2> SUFFICES ASSUME InMem(r, s) PROVE FALSE
    OBVIOUS
  <2>1. s = u \/ Place(s) < Place(u)
    BY <1>2, LatestIsLast
  <2> QED
    BY <1>4, <2>1
<1>9. s \notin rows[r] /\ ~Waits(r, s)
  BY <1>2, <1>3, <1>5, <1>8 DEF RideInv, RowInv
<1>10. eval[r] = "none"
  BY <1>3, <1>5 DEF RideInv, EvaluationInv
<1>11. /\ MemInv'
       /\ \A x \in Rides : \A y : InMem(x, y)' <=> InMem(x, y) \/ (x = r /\ y = s)
       /\ mem'[r] # <<>>
       /\ \A x \in Rides : x # r => mem'[x] = mem[x]
       /\ \A x \in Rides : x # r => LatestStatus(x)' = LatestStatus(x)
  BY <1>1, <1>2, <1>3, <1>4, MemoryGrows
<1>12. /\ OnceInv' /\ OrderInv'
       /\ \A x, y : Waits(x, y)' <=> Waits(x, y)
       /\ \A x, y : Placed(x, y)' <=> Placed(x, y)
       /\ UNCHANGED <<known, rows, evaluated, gone, lost>>
  BY <1>1, PipeSame
<1>13. RecordedInv'
  <2>1. ASSUME NEW x \in Rides, x # r, recorded'[x] # ""
        PROVE  /\ Place(recorded'[x]) <= 5
               /\ recorded'[x] \notin rows'[x] /\ ~Waits(x, recorded[x])'
               /\ mem'[x] # <<>> => InMem(x, recorded[x])'
    BY <1>7, <1>11, <1>12, <2>1 DEF RideInv, RecordedInv
  <2>2. /\ Place(recorded'[r]) <= 5
        /\ recorded'[r] \notin rows'[r] /\ ~Waits(r, recorded[r])'
        /\ mem'[r] # <<>> => InMem(r, recorded[r])'
    BY <1>4, <1>7, <1>9, <1>11, <1>12
  <2> QED
    BY <2>1, <2>2 DEF RecordedInv
<1>14. EvaluationInv'
  BY <1>1, <1>10, <1>11, <1>12 DEF RideInv, EvaluationInv
<1>15. RowInv'
  BY <1>1, <1>3, <1>11, <1>12 DEF RideInv, RowInv
<1>16. PlaceInv'
  <2> SUFFICES ASSUME NEW x \in known
               PROVE  /\ mem'[x] # <<>>
                      /\ \A y \in Status : InMem(x, y)' => Placed(x, y)' \/ recorded'[x] = y
                      /\ \A y, z \in Status : Place(y) < Place(z) /\ Place(z) <= 5 /\ InMem(x, z)' =>
                           InMem(x, y)' \/ <<x, y>> \in lost
    BY <1>12 DEF PlaceInv
  <2>1. CASE x # r
    BY <1>6, <1>7, <1>11, <1>12, <2>1 DEF RideInv, PlaceInv
  <2>2. CASE x = r
    <3>1. ASSUME NEW y \in Status, InMem(r, y)' PROVE Placed(r, y)' \/ recorded'[r] = y
      <4>1. recorded[r] # y
        BY <1>1, <3>1 DEF Status
      <4> QED
        BY <1>7, <1>11, <1>12, <2>2, <3>1, <4>1 DEF RideInv, PlaceInv
    <3>2. ASSUME NEW y \in Status, NEW z \in Status, Place(y) < Place(z), Place(z) <= 5,
                 InMem(r, z)'
          PROVE  InMem(r, y)' \/ <<r, y>> \in lost
      <4>1. CASE InMem(r, z)
        BY <1>11, <2>2, <3>2, <4>1 DEF RideInv, PlaceInv
      <4>2. CASE z = s
        <5>1. Place(y) = Place(u) \/ Place(y) < Place(u)
          <6>1. Place(y) \in Int
            BY PlaceFacts
          <6> QED
            BY <1>4, <3>2, <4>2, <6>1
        <5>2. CASE Place(y) = Place(u)
          <6>1. y = u
            BY <1>2, <5>2, PlaceFacts
          <6> QED
            BY <1>5, <1>11, <6>1
        <5>3. CASE Place(y) < Place(u)
          <6>1. Place(u) <= 5
            BY <1>4
          <6> QED
            BY <1>2, <1>5, <1>11, <2>2, <5>3, <6>1 DEF RideInv, PlaceInv
        <5> QED
          BY <5>1, <5>2, <5>3
      <4> QED
        BY <1>11, <3>2, <4>1, <4>2
    <3> QED
      BY <1>11, <2>2, <3>1, <3>2
  <2> QED
    BY <2>1, <2>2
<1>17. FreshInv'
  <2>1. r \notin Rides \ (known \cup gone)
    BY <1>3 DEF RideInv, FreshInv
  <2> QED
    BY <1>1, <1>7, <1>11, <1>12, <2>1 DEF RideInv, FreshInv
<1>18. CountInv'
  BY <1>1, <1>6, <1>11, <1>12 DEF RideInv, CountInv
<1> QED
  BY <1>11, <1>12, <1>13, <1>14, <1>15, <1>16, <1>17, <1>18 DEF RideInv

(* The check of an evaluation, and one whose payment failed. *)
LEMMA EvaluationKeepsInv ==
  ASSUME RideTypeOK, RideInv, NEW r \in Rides, BeginEvaluation(r) \/ AbortEvaluation(r)
  PROVE  RideInv'
<1>1. /\ \/ LatestStatus(r) = "ARRIVED" /\ eval[r] = "none" /\ eval'[r] = "paying"
         \/ eval[r] = "paying" /\ eval'[r] = "none"
      /\ \A x \in Rides : x # r => eval'[x] = eval[x]
      /\ UNCHANGED <<mem, counted, recorded, queueVars, writerVars, dbVars, historyVars>>
  BY DEF BeginEvaluation, AbortEvaluation, RideTypeOK, memVars
<1>2. /\ OnceInv' /\ OrderInv'
      /\ \A x, y : Waits(x, y)' <=> Waits(x, y)
      /\ \A x, y : Placed(x, y)' <=> Placed(x, y)
      /\ UNCHANGED <<known, rows, evaluated, gone, lost>>
  BY <1>1, PipeSame
<1>3. /\ \A x, y : InMem(x, y)' <=> InMem(x, y)
      /\ \A x : LatestStatus(x)' = LatestStatus(x)
  BY <1>1 DEF InMem, LatestStatus
<1>4. eval'[r] = "paying" => "COMPLETED" \notin rows[r] /\ ~Waits(r, "COMPLETED")
  <2> SUFFICES ASSUME LatestStatus(r) = "ARRIVED", eval[r] = "none"
               PROVE  "COMPLETED" \notin rows[r] /\ ~Waits(r, "COMPLETED")
    BY <1>1
  <2>1. "COMPLETED" \in Status
    BY DEF Status
  <2>2. mem[r] # <<>>
    BY LatestType
  <2>3. ~InMem(r, "COMPLETED")
    <3> SUFFICES ASSUME InMem(r, "COMPLETED") PROVE FALSE
      OBVIOUS
    <3>1. Place("COMPLETED") < Place("ARRIVED")
      BY <2>1, LatestIsLast
    <3> QED
      BY <3>1, Places
  <2> QED
    BY <2>1, <2>2, <2>3 DEF RideInv, RowInv
<1>5. MemInv' /\ PlaceInv' /\ CountInv'
  BY <1>1, <1>2, <1>3 DEF RideInv, MemInv, PlaceInv, CountInv
<1>6. RecordedInv'
  BY <1>1, <1>2, <1>3 DEF RideInv, RecordedInv
<1>7. EvaluationInv'
  BY <1>1, <1>2, <1>3, <1>4 DEF RideInv, EvaluationInv
<1>8. RowInv'
  BY <1>1, <1>2, <1>3 DEF RideInv, RowInv
<1>9. FreshInv'
  <2>1. r \notin Rides \ (known \cup gone)
    <3>1. mem[r] = <<>> => LatestStatus(r) # "ARRIVED"
      BY LatestType
    <3> QED
      BY <1>1, <3>1 DEF RideInv, FreshInv
  <2> QED
    BY <1>1, <1>2, <2>1 DEF RideInv, FreshInv
<1> QED
  BY <1>2, <1>5, <1>6, <1>7, <1>8, <1>9 DEF RideInv

LEMMA RecordCompletedKeepsInv ==
  ASSUME RideTypeOK, RideInv, NEW r \in Rides, RecordCompleted(r)
  PROVE  RideInv'
<1>1. /\ eval[r] = "queued" /\ eval'[r] = "none"
      /\ \A x \in Rides : x # r => eval'[x] = eval[x]
      /\ UNCHANGED <<recorded, queueVars, writerVars, dbVars, historyVars>>
  BY DEF RecordCompleted, RideTypeOK
<1>2. /\ OnceInv' /\ OrderInv'
      /\ \A x, y : Waits(x, y)' <=> Waits(x, y)
      /\ \A x, y : Placed(x, y)' <=> Placed(x, y)
      /\ UNCHANGED <<known, rows, evaluated, gone, lost>>
  BY <1>1, PipeSame
<1>3. r \notin Rides \ (known \cup gone)
  BY <1>1 DEF RideInv, FreshInv
<1>4. known \subseteq Rides /\ counted \subseteq Rides
  BY DEF RideTypeOK
<1>5. CASE mem[r] = <<>>
  <2>1. UNCHANGED <<mem, counted>>
    BY <1>5 DEF RecordCompleted, memVars
  <2>2. /\ \A x, y : InMem(x, y)' <=> InMem(x, y)
        /\ \A x : LatestStatus(x)' = LatestStatus(x)
    BY <2>1 DEF InMem, LatestStatus
  <2>3. MemInv' /\ PlaceInv' /\ CountInv'
    BY <1>1, <1>2, <2>1, <2>2 DEF RideInv, MemInv, PlaceInv, CountInv
  <2>4. RecordedInv'
    BY <1>1, <1>2, <2>1, <2>2 DEF RideInv, RecordedInv
  <2>5. EvaluationInv'
    BY <1>1, <1>2, <2>1, <2>2 DEF RideInv, EvaluationInv
  <2>6. RowInv'
    BY <1>1, <1>2, <1>5, <2>1, <2>2 DEF RideInv, RowInv
  <2>7. FreshInv'
    BY <1>1, <1>2, <1>3, <2>1 DEF RideInv, FreshInv
  <2> QED
    BY <1>2, <2>3, <2>4, <2>5, <2>6, <2>7 DEF RideInv
<1>6. CASE mem[r] # <<>>
  <2>1. mem' = [mem EXCEPT ![r] = Append(@, "COMPLETED")] /\ counted' = counted \cup {r}
    BY <1>6 DEF RecordCompleted
  <2>2. "COMPLETED" \in Status /\ LatestStatus(r) = "ARRIVED"
    BY <1>1, <1>6 DEF RideInv, EvaluationInv, Status
  <2>3. Place(LatestStatus(r)) < Place("COMPLETED") /\ ~(Place("COMPLETED") <= 5)
    BY <2>2, Places
  <2>4. /\ MemInv'
        /\ \A x \in Rides : \A y : InMem(x, y)' <=> InMem(x, y) \/ (x = r /\ y = "COMPLETED")
        /\ mem'[r] # <<>>
        /\ \A x \in Rides : x # r => mem'[x] = mem[x]
        /\ \A x \in Rides : x # r => LatestStatus(x)' = LatestStatus(x)
    BY <1>6, <2>1, <2>2, <2>3, MemoryGrows
  <2>5. RecordedInv'
    BY <1>1, <1>2, <1>6, <2>4 DEF RideInv, RecordedInv
  <2>6. EvaluationInv'
    BY <1>1, <1>2, <2>4 DEF RideInv, EvaluationInv
  <2>7. RowInv'
    <3>1. ASSUME NEW x \in Rides, NEW y \in Status, mem'[x] # <<>>,
                 y \in rows[x] \/ Waits(x, y)
          PROVE  InMem(x, y)' \/ (y = "COMPLETED" /\ eval'[x] = "queued")
      BY <1>1, <1>6, <2>4, <3>1 DEF RideInv, RowInv
    <3> QED
      BY <1>2, <3>1 DEF RowInv
  <2>8. PlaceInv'
    <3>1. r \in known => Placed(r, "COMPLETED")
      BY <1>1 DEF RideInv, EvaluationInv
    <3>2. ASSUME NEW x \in known, NEW y \in Status, InMem(x, y)'
          PROVE  Placed(x, y)' \/ recorded'[x] = y
      BY <1>1, <1>2, <1>4, <2>4, <3>1, <3>2 DEF RideInv, PlaceInv
    <3>3. ASSUME NEW x \in known, NEW y \in Status, NEW z \in Status, Place(y) < Place(z),
                 Place(z) <= 5, InMem(x, z)'
          PROVE  InMem(x, y)' \/ <<x, y>> \in lost
      <4>1. InMem(x, z) /\ x \in Rides
        BY <1>4, <2>3, <2>4, <3>3
      <4> QED
        BY <2>4, <3>3, <4>1 DEF RideInv, PlaceInv
    <3>4. \A x \in known : mem'[x] # <<>>
      BY <1>4, <2>4 DEF RideInv, PlaceInv
    <3> QED
      BY <1>2, <3>2, <3>3, <3>4 DEF PlaceInv
  <2>9. FreshInv'
    BY <1>1, <1>2, <1>3, <2>4 DEF RideInv, FreshInv
  <2>10. CountInv'
    BY <1>2, <1>4, <2>1, <2>4 DEF RideInv, CountInv
  <2> QED
    BY <1>2, <2>4, <2>5, <2>6, <2>7, <2>8, <2>9, <2>10 DEF RideInv
<1> QED
  BY <1>5, <1>6

-----------------------------------------------------------------------------
(***************************************************************************)
(* The rides: start, restart and initialization.                           *)
(***************************************************************************)

LEMMA ReloadedFacts ==
  ASSUME rows \in [Rides -> SUBSET Status], known \subseteq Rides
  PROVE  /\ \A r \in known : /\ ReloadedStatuses[r] \in Seq(Status)
                             /\ Sorted(ReloadedStatuses[r])
                             /\ \A s \in Status :
                                  (\E k \in 1 .. Len(ReloadedStatuses[r]) :
                                     ReloadedStatuses[r][k] = s) <=> s \in rows[r]
         /\ \A r \in Rides \ known : ReloadedStatuses[r] = <<>>
         /\ ReloadedStats \subseteq known \cap evaluated
<1>1. \A r \in known : rows[r] \in SUBSET Status /\ ReloadedStatuses[r] = InOrder(rows[r])
  BY DEF ReloadedStatuses
<1>2. \A r \in Rides \ known : ReloadedStatuses[r] = <<>>
  BY DEF ReloadedStatuses
<1>3. ReloadedStats \subseteq known \cap evaluated
  BY DEF ReloadedStats
<1> QED
  BY <1>1, <1>2, <1>3, InOrderFacts

(* The process has just read the database, and done nothing yet. *)
JustLoaded ==
  /\ mem = ReloadedStatuses /\ counted = ReloadedStats
  /\ recorded = [r \in Rides |-> ""] /\ eval = [r \in Rides |-> "none"]
  /\ q = <<>> /\ batch = <<>>
  /\ rows \in [Rides -> SUBSET Status] /\ known \subseteq Rides
  /\ \A r \in known, s \in Status, t \in Status :
       Place(s) < Place(t) /\ Place(t) <= 5 /\ t \in rows[r] =>
         s \in rows[r] \/ <<r, s>> \in lost
  /\ \A r \in Rides \ (known \cup gone) : rows[r] = {}
  /\ \A r \in evaluated : "COMPLETED" \in rows[r]
  /\ \A r \in known : "MATCHING" \in rows[r]

LEMMA JustLoadedIsFine == JustLoaded => RideInv
<1> SUFFICES ASSUME JustLoaded PROVE RideInv
  OBVIOUS
<1>1. /\ q = <<>> /\ batch = <<>> /\ mem = ReloadedStatuses /\ counted = ReloadedStats
      /\ rows \in [Rides -> SUBSET Status] /\ known \subseteq Rides
      /\ \A r \in Rides : recorded[r] = "" /\ eval[r] = "none"
  BY DEF JustLoaded
<1>2. Len(Pipe) = 0 /\ \A k : k \notin 1 .. Len(Pipe)
  <2>1. Pipe = <<>>
    BY <1>1, EmptyPipe, ConcatEmptySeq DEF Pipe
  <2> QED
    BY <2>1, EmptyPipe
<1>3. \A r, s : ~Waits(r, s)
  BY <1>2 DEF Waits
<1>4. /\ \A r \in known : /\ mem[r] \in Seq(Status) /\ Sorted(mem[r])
                          /\ \A s \in Status : InMem(r, s) <=> s \in rows[r]
      /\ \A r \in Rides \ known : mem[r] = <<>>
      /\ counted \subseteq known \cap evaluated
  BY <1>1, ReloadedFacts DEF InMem
<1>5. "COMPLETED" \in Status /\ "MATCHING" \in Status
  BY DEF Status
<1>6. \A r \in known : mem[r] # <<>>
  <2> SUFFICES ASSUME NEW r \in known, mem[r] = <<>> PROVE FALSE
    OBVIOUS
  <2>1. InMem(r, "MATCHING")
    BY <1>4, <1>5 DEF JustLoaded
  <2> QED
    BY <2>1, EmptyPipe DEF InMem
<1>7. MemInv
  <2>1. Sorted(<<>>)
    BY EmptyPipe DEF Sorted
  <2> QED
    BY <1>4, <2>1 DEF MemInv
<1>8. OnceInv
  BY <1>1, <1>2 DEF OnceInv
<1>9. RecordedInv /\ EvaluationInv
  <2>1. RecordedInv
    BY <1>1 DEF RecordedInv
  <2>2. EvaluationInv
    <3>1. \A r \in Rides : eval[r] # "paying" /\ eval[r] # "queued" /\ ~(eval[r] # "none")
      BY <1>1
    <3> QED
      BY <3>1 DEF EvaluationInv
  <2> QED
    BY <2>1, <2>2
<1>10. RowInv
  BY <1>3, <1>4 DEF RowInv
<1>11. PlaceInv
  BY <1>4, <1>6 DEF PlaceInv, Placed, JustLoaded
<1>12. OrderInv
  BY <1>2 DEF OrderInv, JustLoaded
<1>13. FreshInv
  BY <1>1, <1>3, <1>4 DEF FreshInv, JustLoaded
<1>14. CountInv
  BY <1>4, <1>5 DEF CountInv, JustLoaded
<1> QED
  BY <1>7, <1>8, <1>9, <1>10, <1>11, <1>12, <1>13, <1>14 DEF RideInv

LEMMA JustLoadedIsFineNext == JustLoaded' => RideInv'
BY JustLoadedIsFine, PTL

LEMMA RestartRidesKeepsInv ==
  ASSUME RideTypeOK, RideInv, RestartRides
  PROVE  RideInv'
<1>1. /\ mem' = ReloadedStatuses /\ counted' = ReloadedStats
      /\ recorded' = [r \in Rides |-> ""] /\ eval' = [r \in Rides |-> "none"]
      /\ q' = <<>> /\ batch' = <<>>
      /\ UNCHANGED <<known, rows, column, evaluated, lost, gone>>
  BY DEF RestartRides, dbVars, historyVars
<1>2. ReloadedStatuses' = ReloadedStatuses /\ ReloadedStats' = ReloadedStats
  BY <1>1 DEF ReloadedStatuses, ReloadedStats
<1>3. /\ rows \in [Rides -> SUBSET Status] /\ known \subseteq Rides
  BY DEF RideTypeOK
<1>4. /\ \A r \in known, s \in Status, t \in Status :
           Place(s) < Place(t) /\ Place(t) <= 5 /\ t \in rows[r] =>
             s \in rows[r] \/ <<r, s>> \in lost
      /\ \A r \in Rides \ (known \cup gone) : rows[r] = {}
      /\ \A r \in evaluated : "COMPLETED" \in rows[r]
      /\ \A r \in known : "MATCHING" \in rows[r]
  BY DEF RideInv, OrderInv, FreshInv, CountInv
<1>5. JustLoaded'
  BY <1>1, <1>2, <1>3, <1>4 DEF JustLoaded
<1> QED
  BY <1>5, JustLoadedIsFineNext

LEMMA RideInitFacts ==
  ASSUME NEW stage \in [Rides -> 0 .. Len(Lifecycle)], RideInit(stage)
  PROVE  RideTypeOK /\ RideInv
<1>1. \A r \in Rides : stage[r] \in 0 .. 6
  BY LifecycleFacts
<1>2. /\ known = {r \in Rides : stage[r] > 0}
      /\ rows = [r \in Rides |-> {Lifecycle[i] : i \in 1 .. stage[r]}]
      /\ column = [r \in Rides |-> IF stage[r] = 0 THEN "" ELSE Lifecycle[stage[r]]]
      /\ evaluated = {r \in Rides : stage[r] = 6}
      /\ mem = ReloadedStatuses /\ counted = ReloadedStats
      /\ recorded = [r \in Rides |-> ""] /\ eval = [r \in Rides |-> "none"]
      /\ q = <<>> /\ gen = 0 /\ wpc = "wait" /\ batch = <<>> /\ wgen = 0
      /\ lost = {} /\ gone = {} /\ late = {} /\ strays = {}
  BY DEF RideInit
<1>3. ASSUME NEW r \in Rides
      PROVE  \A s \in Status : s \in rows[r] <=> Place(s) <= stage[r]
  <2>1. rows[r] = {Lifecycle[i] : i \in 1 .. stage[r]}
    BY <1>2
  <2>2. ASSUME NEW s \in Status, s \in rows[r] PROVE Place(s) <= stage[r]
    <3>1. PICK i \in 1 .. stage[r] : s = Lifecycle[i]
      BY <2>1, <2>2
    <3>2. i \in 1 .. 6
      BY <1>1
    <3> QED
      BY <3>1, <3>2, LifecycleFacts
  <2>3. ASSUME NEW s \in Status, Place(s) <= stage[r] PROVE s \in rows[r]
    <3>1. Place(s) \in 1 .. 6 /\ Place(s) \in 1 .. stage[r]
      BY <1>1, <2>3, PlaceFacts
    <3>2. Lifecycle[Place(s)] = s
      BY <3>1, LifecycleFacts, PlaceFacts
    <3> QED
      BY <2>1, <3>1, <3>2
  <2> QED
    BY <2>2, <2>3
<1>4. rows \in [Rides -> SUBSET Status] /\ known \subseteq Rides /\ evaluated \subseteq Rides
  <2>1. ASSUME NEW r \in Rides PROVE {Lifecycle[i] : i \in 1 .. stage[r]} \subseteq Status
    BY <1>1, LifecycleFacts
  <2> QED
    BY <1>2, <2>1
<1>5. column \in [Rides -> Status \cup {""}]
  <2>1. ASSUME NEW r \in Rides, stage[r] # 0 PROVE Lifecycle[stage[r]] \in Status
    BY <1>1, <2>1, LifecycleFacts
  <2> QED
    BY <1>2, <2>1
<1>6. ReloadedStatuses \in [Rides -> Seq(Status)] /\ ReloadedStats \subseteq Rides
  <2>1. \A r \in Rides : InOrder(rows[r]) \in Seq(Status)
    BY <1>4, InOrderFacts
  <2> QED
    BY <1>4, <2>1, EmptyPipe DEF ReloadedStatuses, ReloadedStats
<1>7. RideTypeOK
  BY <1>2, <1>4, <1>5, <1>6, EmptyPipe DEF RideTypeOK
<1>8. /\ "COMPLETED" \in Status /\ Place("COMPLETED") = 6
      /\ "MATCHING" \in Status /\ Place("MATCHING") = 1
  BY Places DEF Status
<1>9. JustLoaded
  <2>1. \A r \in known, s \in Status, t \in Status : Place(s) < Place(t) /\ t \in rows[r] =>
           s \in rows[r]
    <3> SUFFICES ASSUME NEW r \in known, NEW s \in Status, NEW t \in Status,
                        Place(s) < Place(t), t \in rows[r]
                 PROVE  s \in rows[r]
      OBVIOUS
    <3>1. Place(t) <= stage[r] /\ stage[r] \in 0 .. 6 /\ r \in Rides
      BY <1>1, <1>2, <1>3
    <3>2. Place(s) <= stage[r]
      BY <3>1, PlaceFacts
    <3> QED
      BY <1>3, <3>1, <3>2
  <2>2. \A r \in Rides \ (known \cup gone) : rows[r] = {}
    <3> SUFFICES ASSUME NEW r \in Rides, r \notin known PROVE rows[r] = {}
      OBVIOUS
    <3>1. stage[r] \in 0 .. 6 /\ ~(stage[r] > 0)
      BY <1>1, <1>2
    <3>2. \A i : i \notin 1 .. stage[r]
      BY <3>1
    <3>3. rows[r] = {Lifecycle[i] : i \in 1 .. stage[r]}
      BY <1>2
    <3> QED
      BY <3>2, <3>3
  <2>3. ASSUME NEW r \in evaluated PROVE "COMPLETED" \in rows[r]
    <3>1. r \in Rides /\ stage[r] = 6
      BY <1>2
    <3>2. Place("COMPLETED") <= stage[r]
      BY <1>8, <3>1
    <3> QED
      BY <1>3, <1>8, <3>1, <3>2
  <2>4. ASSUME NEW r \in known PROVE "MATCHING" \in rows[r]
    <3>1. r \in Rides /\ stage[r] > 0 /\ stage[r] \in 0 .. 6
      BY <1>1, <1>2
    <3>2. Place("MATCHING") <= stage[r]
      BY <1>8, <3>1
    <3> QED
      BY <1>3, <1>8, <3>1, <3>2
  <2> QED
    BY <1>2, <1>4, <2>1, <2>2, <2>3, <2>4 DEF JustLoaded
<1> QED
  BY <1>7, <1>9, JustLoadedIsFine

LEMMA RideInvStays ==
  ASSUME RideInv, UNCHANGED rideVars
  PROVE  RideInv'
<1>1. UNCHANGED <<mem, counted, recorded, eval, queueVars, writerVars, dbVars, historyVars>>
  BY DEF rideVars, memVars, handlerVars
<1>2. /\ OnceInv' /\ OrderInv'
      /\ \A x, y : Waits(x, y)' <=> Waits(x, y)
      /\ \A x, y : Placed(x, y)' <=> Placed(x, y)
      /\ UNCHANGED <<known, rows, evaluated, gone, lost>>
  BY <1>1, PipeSame
<1>3. /\ \A x, y : InMem(x, y)' <=> InMem(x, y)
      /\ \A x : LatestStatus(x)' = LatestStatus(x)
  BY <1>1 DEF InMem, LatestStatus
<1>4. MemInv' /\ RowInv' /\ PlaceInv' /\ FreshInv' /\ CountInv'
  BY <1>1, <1>2, <1>3 DEF RideInv, MemInv, RowInv, PlaceInv, FreshInv, CountInv
<1>5. RecordedInv'
  BY <1>1, <1>2, <1>3 DEF RideInv, RecordedInv
<1>6. EvaluationInv'
  BY <1>1, <1>2, <1>3 DEF RideInv, EvaluationInv
<1> QED
  BY <1>2, <1>4, <1>5, <1>6 DEF RideInv

(* Some tables are emptied, ride_statuses only with rides, and no ride in them is of
   a run to come. *)
LEMMA RebuildRidesKeepsInv ==
  ASSUME RideTypeOK, RideInv, NEW tables, RebuildRides(tables), known \subseteq gone,
         "ride_statuses" \in tables => "rides" \in tables
  PROVE  RideInv'
<1>1. UNCHANGED <<mem, counted, recorded, eval, q, wpc, batch, lost, gone>>
  BY DEF RebuildRides, memVars, handlerVars, queueVars, writerVars, historyVars
<1>2. /\ Pipe' = Pipe
      /\ \A x, y : Waits(x, y)' <=> Waits(x, y)
      /\ \A x, y : InMem(x, y)' <=> InMem(x, y)
      /\ \A x : LatestStatus(x)' = LatestStatus(x)
  BY <1>1 DEF Pipe, Waits, InMem, LatestStatus
<1>3. CASE "rides" \in tables
  <2>1. known' = {} /\ evaluated' = {}
    BY <1>3 DEF RebuildRides
  <2>2. ASSUME NEW x \in Rides PROVE rows'[x] \subseteq rows[x]
    BY DEF RebuildRides
  <2>3. OnceInv'
    <3>1. \A k \in 1 .. Len(Pipe) : Pipe[k].status \notin rows'[Pipe[k].ride]
      BY <2>2, PipeFacts DEF RideInv, OnceInv
    <3> QED
      BY <1>1, <1>2, <3>1 DEF RideInv, OnceInv
  <2>4. MemInv' /\ PlaceInv' /\ OrderInv'
    BY <1>1, <2>1 DEF RideInv, MemInv, PlaceInv, OrderInv
  <2>5. RecordedInv'
    BY <1>1, <1>2, <2>2 DEF RideInv, RecordedInv
  <2>6. EvaluationInv'
    BY <1>1, <1>2, <2>1, <2>2 DEF RideInv, EvaluationInv
  <2>7. RowInv'
    BY <1>1, <1>2, <2>2 DEF RideInv, RowInv
  <2>8. FreshInv'
    <3>1. known' \cup gone' = known \cup gone
      BY <1>1, <2>1
    <3> QED
      BY <1>1, <1>2, <2>2, <3>1 DEF RideInv, FreshInv
  <2>9. CountInv'
    BY <1>1, <1>2, <2>1 DEF RideInv, CountInv
  <2> QED
    BY <2>3, <2>4, <2>5, <2>6, <2>7, <2>8, <2>9 DEF RideInv
<1>4. CASE "rides" \notin tables
  <2>1. UNCHANGED rideVars
    BY <1>4 DEF RebuildRides, rideVars, dbVars
  <2> QED
    BY <2>1, RideInvStays
<1> QED
  BY <1>3, <1>4

(* An initialization loads a database without rides. *)
LEMMA ReloadRidesKeepsInv ==
  ASSUME RideTypeOK, RideInv, ReloadRides, known = {}
  PROVE  RideInv'
<1>1. /\ mem' = ReloadedStatuses /\ counted' = ReloadedStats
      /\ UNCHANGED <<recorded, eval, queueVars, writerVars, dbVars, historyVars>>
  BY DEF ReloadRides, handlerVars
<1>2. /\ \A r \in Rides : mem'[r] = <<>>
      /\ counted' = {}
  BY <1>1 DEF ReloadedStatuses, ReloadedStats
<1>3. /\ OnceInv' /\ OrderInv'
      /\ \A x, y : Waits(x, y)' <=> Waits(x, y)
      /\ \A x, y : Placed(x, y)' <=> Placed(x, y)
      /\ UNCHANGED <<known, rows, evaluated, gone, lost>>
  BY <1>1, PipeSame
<1>4. MemInv'
  <2>1. Sorted(<<>>)
    BY EmptyPipe DEF Sorted
  <2> QED
    BY <1>2, <2>1 DEF MemInv
<1>5. RecordedInv'
  BY <1>1, <1>2, <1>3 DEF RideInv, RecordedInv
<1>6. EvaluationInv'
  BY <1>1, <1>2, <1>3 DEF RideInv, EvaluationInv
<1>7. RowInv' /\ PlaceInv'
  BY <1>2, <1>3 DEF RowInv, PlaceInv
<1>8. FreshInv'
  BY <1>1, <1>2, <1>3 DEF RideInv, FreshInv
<1>9. CountInv'
  BY <1>2, <1>3 DEF RideInv, CountInv
<1> QED
  BY <1>3, <1>4, <1>5, <1>6, <1>7, <1>8, <1>9 DEF RideInv

(* All steps of the rides, but for those of an initialization and a restart. *)
LEMMA RideStepKeepsInv ==
  ASSUME RideTypeOK, RideInv, (\E r \in Rides : CreateRide(r)) \/ RideStep
  PROVE  RideInv'
BY CreateRideKeepsInv, RecordStatusKeepsInv, EvaluationKeepsInv, EnqueueStatusKeepsInv,
   EnqueueCompletedKeepsInv, RecordCompletedKeepsInv, RideWriterKeepsInv
   DEF RideStep, RideCall, RideHandlerStep

(* What the invariant is for. *)
LEMMA RideInvSuffices ==
  ASSUME RideTypeOK, RideInv
  PROVE  /\ OnceAndInOrder /\ EveryStatusHasAPlace
         /\ \A r \in known : rows[r] \subseteq ToSet(mem[r]) \cup
              (IF eval[r] = "queued" THEN {"COMPLETED"} ELSE {})
         /\ \A r \in counted : "COMPLETED" \in ToSet(mem[r])
<1>1. /\ Pipe \in Seq(Write) /\ DOMAIN Pipe = 1 .. Len(Pipe)
      /\ \A k \in 1 .. Len(Pipe) : Pipe[k].ride \in Rides /\ Pipe[k].status \in Status
  BY PipeFacts, LenProperties
<1>2. /\ known \subseteq Rides /\ counted \subseteq Rides
      /\ mem \in [Rides -> Seq(Status)] /\ rows \in [Rides -> SUBSET Status]
      /\ q \in Seq(Write) /\ batch \in Seq(Write)
  BY DEF RideTypeOK
<1>3. \A r \in Rides : \A s : s \in ToSet(mem[r]) <=> InMem(r, s)
  <2> TAKE r \in Rides
  <2>1. ToSet(mem[r]) = {mem[r][k] : k \in 1 .. Len(mem[r])}
    BY <1>2 DEF ToSet
  <2> QED
    BY <2>1 DEF InMem
<1>4. \A r \in Rides : ToSet(mem[r]) \subseteq Status
  <2> TAKE r \in Rides
  <2>1. \A k \in 1 .. Len(mem[r]) : mem[r][k] \in Status
    BY <1>2, ElementOfSeq
  <2> QED
    BY <1>3, <2>1 DEF InMem
<1>5. ASSUME NEW r, NEW s, Waits(r, s) PROVE \E w \in UnderWay(r) : w.status = s
  <2>1. PICK k \in 1 .. Len(Pipe) : Pipe[k].ride = r /\ Pipe[k].status = s
    BY <1>5 DEF Waits
  <2>2. Pipe[k] \in ToSet(batch) \cup ToSet(q)
    <3>1. /\ Len(Pipe) = Len(batch) + Len(q) /\ Len(batch) \in Nat /\ Len(q) \in Nat
          /\ \A i \in 1 .. Len(batch) : Pipe[i] = batch[i]
          /\ \A i \in 1 .. Len(q) : Pipe[Len(batch) + i] = q[i]
      BY PipeFacts
    <3>2. CASE k <= Len(batch)
      <4>1. k \in 1 .. Len(batch) /\ Pipe[k] = batch[k]
        BY <3>1, <3>2
      <4> QED
        BY <1>2, <4>1 DEF ToSet
    <3>3. CASE k > Len(batch)
      <4>1. PICK i \in 1 .. Len(q) : k = Len(batch) + i
        <5>1. k - Len(batch) \in 1 .. Len(q) /\ k = Len(batch) + (k - Len(batch))
          BY <3>1, <3>3
        <5> QED
          BY <5>1
      <4>2. Pipe[k] = q[i]
        BY <3>1, <4>1
      <4> QED
        BY <1>2, <4>2 DEF ToSet
    <3> QED
      BY <3>1, <3>2, <3>3
  <2> QED
    BY <2>1, <2>2 DEF UnderWay
<1>6. StoredOnce
  BY <1>1 DEF RideInv, OnceInv, StoredOnce, Pipe
<1>7. ChairRowsInOrder
  <2> SUFFICES ASSUME NEW r \in known, NEW i \in 1 .. 5, NEW j \in 1 .. 5, i < j,
                      Lifecycle[j] \in rows[r]
               PROVE  Lifecycle[i] \in rows[r] \/ <<r, Lifecycle[i]>> \in lost
    BY DEF ChairRowsInOrder
  <2>1. /\ Lifecycle[i] \in Status /\ Lifecycle[j] \in Status
        /\ Place(Lifecycle[i]) < Place(Lifecycle[j]) /\ Place(Lifecycle[j]) <= 5
    BY LifecycleFacts
  <2> QED
    BY <2>1 DEF RideInv, OrderInv
<1>8. EveryStatusHasAPlace
  <2> SUFFICES ASSUME NEW r \in known, NEW s \in ToSet(mem[r])
               PROVE  \/ s \in rows[r] \/ <<r, s>> \in lost \/ recorded[r] = s
                      \/ \E w \in UnderWay(r) : w.status = s
    BY DEF EveryStatusHasAPlace
  <2>1. s \in Status /\ InMem(r, s)
    BY <1>2, <1>3, <1>4
  <2> QED
    BY <1>5, <2>1 DEF RideInv, PlaceInv, Placed
<1>9. ASSUME NEW r \in known, NEW s \in rows[r]
      PROVE  s \in ToSet(mem[r]) \/ (s = "COMPLETED" /\ eval[r] = "queued")
  <2>1. s \in Status /\ r \in Rides /\ mem[r] # <<>>
    BY <1>2 DEF RideInv, PlaceInv
  <2> QED
    BY <1>3, <2>1 DEF RideInv, RowInv
<1>10. \A r \in counted : "COMPLETED" \in ToSet(mem[r])
  BY <1>2, <1>3 DEF RideInv, CountInv
<1> QED
  BY <1>6, <1>7, <1>8, <1>9, <1>10 DEF OnceAndInOrder

-----------------------------------------------------------------------------
(***************************************************************************)
(* The chairs: types.                                                      *)
(***************************************************************************)

LEMMA ChairQueuedType ==
  ASSUME NEW c \in Chairs, NEW what \in {"insert", "on", "off"}
  PROVE  /\ ChairQueued(c, what) \in ChairWrite
         /\ ChairQueued(c, what).chair = c /\ ChairQueued(c, what).what = what
BY DEF ChairQueued, ChairWrite

LEMMA ChairsInType ==
  ASSUME NEW pipe \in Seq(ChairWrite)
  PROVE  /\ ChairsIn(pipe) \subseteq Chairs
         /\ \A c : c \in ChairsIn(pipe) <=> \E k \in 1 .. Len(pipe) : pipe[k].chair = c
<1>1. ToSet(pipe) = {pipe[k] : k \in 1 .. Len(pipe)}
  BY DEF ToSet
<1>2. \A k \in 1 .. Len(pipe) : pipe[k].chair \in Chairs
  <2> TAKE k \in 1 .. Len(pipe)
  <2>1. pipe[k] \in ChairWrite
    BY ElementOfSeq
  <2> QED
    BY <2>1 DEF ChairWrite
<1> QED
  BY <1>1, <1>2 DEF ChairsIn

LEMMA ChairCallTyped ==
  ASSUME ChairTypeOK, NEW c \in Chairs, ChairCall(c) \/ ChairHandlerStep(c)
  PROVE  ChairTypeOK'
<1> DEFINE Kinds == {"none", "insert", "on", "off"}
<1>1. ASSUME Calls(c) PROVE calls' \in [Chairs -> 0 .. MaxCalls]
  <2>1. calls \in [Chairs -> 0 .. MaxCalls] /\ calls[c] \in 0 .. MaxCalls /\ calls[c] > 0
    BY <1>1 DEF Calls, ChairTypeOK
  <2>2. calls[c] - 1 \in 0 .. MaxCalls
    BY <2>1, ChairWriterAssumption
  <2> QED
    BY <1>1, <2>1, <2>2 DEF Calls
<1>2. ASSUME NEW what \in {"insert", "on", "off"}, chairQ' = Append(chairQ, ChairQueued(c, what))
      PROVE  chairQ' \in Seq(ChairWrite)
  <2>1. chairQ \in Seq(ChairWrite)
    BY DEF ChairTypeOK
  <2> QED
    BY <1>2, <2>1, ChairQueuedType, AppendProperties
<1>3. \A what \in Kinds : [call EXCEPT ![c] = what] \in [Chairs -> Kinds]
  BY DEF ChairTypeOK
<1>4. CASE RegisterChair(c)
  <2>1. chairQ' \in Seq(ChairWrite) /\ calls' \in [Chairs -> 0 .. MaxCalls] /\ call' \in [Chairs -> Kinds]
    BY <1>1, <1>2, <1>3, <1>4 DEF RegisterChair
  <2> QED
    BY <1>4, <2>1 DEF RegisterChair, ChairTypeOK, fleetVars, chairWriterVars, flusherVars,
       chairDbVars, chairHistory
<1>5. CASE AddChair(c)
  <2>1. call' \in [Chairs -> Kinds] /\ fleet' \subseteq Chairs /\ fleet \subseteq fleet'
    BY <1>3, <1>5 DEF AddChair, ChairTypeOK
  <2> QED
    BY <1>5, <2>1 DEF AddChair, ChairTypeOK, chairQueueVars, chairWriterVars, flusherVars,
       chairDbVars, chairHistory
<1>6. ASSUME NEW what \in {"on", "off"}, SwitchChair(c, what) PROVE ChairTypeOK'
  <2>1. call' \in [Chairs -> Kinds] /\ calls' \in [Chairs -> 0 .. MaxCalls]
    BY <1>1, <1>3, <1>6 DEF SwitchChair
  <2>2. switchedOn' \subseteq fleet
    BY <1>6 DEF SwitchChair, ChairTypeOK
  <2> QED
    BY <1>6, <2>1, <2>2 DEF SwitchChair, ChairTypeOK, chairQueueVars, chairWriterVars,
       flusherVars, chairDbVars, chairHistory
<1>7. CASE EnqueueActivity(c)
  <2>1. chairQ' \in Seq(ChairWrite) /\ call' \in [Chairs -> Kinds]
    BY <1>2, <1>3, <1>7 DEF EnqueueActivity
  <2> QED
    BY <1>7, <2>1 DEF EnqueueActivity, ChairTypeOK, fleetVars, chairWriterVars, flusherVars,
       chairDbVars, chairHistory
<1>8. CASE MoveChair(c)
  <2>1. calls' \in [Chairs -> 0 .. MaxCalls]
    BY <1>1, <1>8 DEF MoveChair
  <2>2. total' \in [Chairs -> Nat] /\ dirty' \subseteq Chairs
    BY <1>8 DEF MoveChair, ChairTypeOK
  <2> QED
    BY <1>8, <2>1, <2>2 DEF MoveChair, ChairTypeOK, chairQueueVars, chairWriterVars,
       flusherVars, chairDbVars, chairHistory
<1> QED
  BY <1>4, <1>5, <1>6, <1>7, <1>8 DEF ChairCall, ChairHandlerStep

LEMMA ChairWriterTyped ==
  ASSUME ChairTypeOK, ChairWriterStep \/ FlusherStep
  PROVE  ChairTypeOK'
<1>1. /\ chairQ \in Seq(ChairWrite) /\ chairBatch \in Seq(ChairWrite)
      /\ <<>> \in Seq(ChairWrite)
  BY EmptyPipe DEF ChairTypeOK
<1>2. ChairsIn(chairBatch) \subseteq Chairs
  BY <1>1, ChairsInType
<1>3. {w.chair : w \in {w \in ToSet(chairBatch) : w.what = "insert"}} \subseteq Chairs
  BY <1>2 DEF ChairsIn
<1>4. CASE TakeChairBatch
  BY <1>1, <1>4 DEF TakeChairBatch, ChairTypeOK, fleetVars, callVars, flusherVars, chairDbVars,
     chairHistory
<1>5. CASE LockChairs
  BY <1>1, <1>2, <1>5 DEF LockChairs, ChairTypeOK, fleetVars, callVars, chairQueueVars,
     flusherVars, chairDbVars
<1>6. CASE InsertChairs
  BY <1>3, <1>6 DEF InsertChairs, ChairTypeOK, fleetVars, callVars, chairQueueVars, flusherVars,
     chairHistory
<1>7. CASE UpdateOn \/ UpdateOff
  BY <1>1, <1>7 DEF UpdateOn, UpdateOff, ChairTypeOK, fleetVars, callVars, chairQueueVars,
     flusherVars, chairHistory
<1>8. CASE ChairWriteFails
  BY <1>1, <1>2, <1>8 DEF ChairWriteFails, ChairTypeOK, fleetVars, callVars, chairQueueVars,
     flusherVars, chairDbVars
<1>9. [c \in Chairs |-> 0] \in [Chairs -> Nat]
  OBVIOUS
<1>10. CASE TakeDistances
  BY <1>10 DEF TakeDistances, ChairTypeOK, callVars, chairQueueVars, chairWriterVars,
     chairDbVars, chairHistory
<1>11. CASE WriteDistances
  BY <1>9, <1>11 DEF WriteDistances, ChairTypeOK, fleetVars, callVars, chairQueueVars,
     chairWriterVars, chairHistory
<1>12. CASE FlushFails
  BY <1>9, <1>12 DEF FlushFails, ChairTypeOK, fleetVars, callVars, chairQueueVars,
     chairWriterVars, chairDbVars
<1> QED
  BY <1>4, <1>5, <1>6, <1>7, <1>8, <1>10, <1>11, <1>12 DEF ChairWriterStep, FlusherStep

LEMMA ChairInitializeTyped ==
  ASSUME ChairTypeOK,
         NEW tables,
         \/ DiscardChairWrites \/ ReloadChairs \/ RestartChairs
         \/ RebuildChairs(tables) /\ wiped' \subseteq wiped
  PROVE  ChairTypeOK'
<1>1. /\ chairQ \in Seq(ChairWrite) /\ <<>> \in Seq(ChairWrite)
      /\ [c \in Chairs |-> 0] \in [Chairs -> Nat]
  BY EmptyPipe DEF ChairTypeOK
<1>2. ASSUME LoadChairs
      PROVE  /\ fleet' \subseteq Chairs /\ switchedOn' \subseteq fleet' /\ dirty' \subseteq Chairs
             /\ total' \in [Chairs -> Nat]
  BY <1>2 DEF LoadChairs, ChairTypeOK
<1>3. CASE DiscardChairWrites
  <2>1. ChairsIn(chairQ) \subseteq Chairs
    BY <1>1, ChairsInType
  <2>2. chairGen + 1 \in Nat
    BY DEF ChairTypeOK
  <2> QED
    BY <1>1, <1>3, <2>1, <2>2 DEF DiscardChairWrites, ChairTypeOK, fleetVars, callVars,
       chairWriterVars, flusherVars, chairDbVars
<1>4. CASE RebuildChairs(tables) /\ wiped' \subseteq wiped
  <2>1. /\ chairRows' \subseteq Chairs /\ activeRows' \subseteq chairRows'
        /\ chairLost' \subseteq Chairs /\ wiped' \subseteq Chairs
    BY <1>4 DEF RebuildChairs, ChairTypeOK
  <2>2. distances' \in [Chairs -> Nat]
    BY <1>1, <1>4 DEF RebuildChairs, ChairTypeOK
  <2> QED
    BY <1>4, <2>1, <2>2 DEF RebuildChairs, ChairTypeOK, fleetVars, callVars, chairQueueVars,
       chairWriterVars, flusherVars
<1>5. CASE ReloadChairs
  BY <1>2, <1>5 DEF ReloadChairs, ChairTypeOK, callVars, chairQueueVars, chairWriterVars,
     flusherVars, chairDbVars, chairHistory
<1>7. CASE RestartChairs
  <2>1. call' \in [Chairs -> {"none", "insert", "on", "off"}]
    BY <1>7 DEF RestartChairs
  <2>2. flushed' \in [Chairs -> Nat] /\ chairGen' \in Nat /\ batchGen' \in Nat
    BY <1>1, <1>7 DEF RestartChairs
  <2>3. chairLost' \subseteq Chairs /\ flushing' \subseteq Chairs
    BY <1>7 DEF RestartChairs, ChairTypeOK
  <2> QED
    BY <1>1, <1>2, <1>7, <2>1, <2>2, <2>3 DEF RestartChairs, ChairTypeOK, chairDbVars
<1> QED
  BY <1>3, <1>4, <1>5, <1>7

-----------------------------------------------------------------------------
(***************************************************************************)
(* The chairs: the inductive invariant.                                    *)
(***************************************************************************)

(* What is on its way to the database. *)
CPipe == chairBatch \o chairQ

(* Entry k switches the chair on or off. *)
Change(k, c) == CPipe[k].chair = c /\ CPipe[k].what # "insert"

Inserting(c) == \E k \in 1 .. Len(CPipe) : CPipe[k].chair = c /\ CPipe[k].what = "insert"

Unchanged(c) == \A k \in 1 .. Len(CPipe) : ~Change(k, c)

(* The last change of a chair in the pipe. *)
Says(c, what) ==
  \E k \in 1 .. Len(CPipe) : /\ Change(k, c) /\ CPipe[k].what = what
                             /\ \A l \in k + 1 .. Len(CPipe) : ~Change(l, c)

(* Something of the chair is lost already, or will be when its batch is dropped. *)
Excused(c) == c \in chairLost \/ (StaleChairs /\ c \in ChairsIn(chairBatch))

(* A chair is inserted before it is switched; what the statements of a batch have done
   so far. *)
BatchInv ==
  /\ cpc = "wait" => chairBatch = <<>>
  /\ \A k, l \in 1 .. Len(CPipe) :
       k < l /\ CPipe[k].chair = CPipe[l].chair => CPipe[l].what # "insert"
  /\ cpc \in {"on", "off"} =>
       \A k \in 1 .. Len(chairBatch) :
         chairBatch[k].what = "insert" => chairBatch[k].chair \in chairRows
  /\ cpc = "off" => \A c \in chairRows : ActivityOf(c) = "on" => c \in activeRows

(* A chair in memory has its row, or it is on its way. *)
RegisteredInv == \A c \in fleet : Excused(c) \/ c \in chairRows \/ Inserting(c)

(* The last word on the activity of a chair is that of memory: the change that is
   about to be queued, or the last one in the pipe, or else the row. *)
ActivityInv ==
  \A c \in fleet : Excused(c) \/
    IF call[c] \in {"on", "off"}
      THEN call[c] = "on" <=> c \in switchedOn
      ELSE /\ \A what : Says(c, what) => (what = "on" <=> c \in switchedOn)
           /\ Unchanged(c) => (c \in activeRows <=> c \in switchedOn)

(* The distance of a chair that is not marked as moved is stored, or copied. *)
DistanceInv ==
  \A c \in fleet : Excused(c) \/ c \in dirty \/
    IF c \in flushing THEN flushed[c] = total[c] ELSE distances[c] = total[c]

(* A chair that is not in memory, or not yet. *)
OutsideInv ==
  \A c \in Chairs \ fleet :
    /\ total[c] = 0 /\ c \notin dirty /\ c \notin flushing
    /\ c \notin chairLost => distances[c] = 0
    /\ call[c] = "insert" =>
         \/ Excused(c)
         \/ Unchanged(c) /\ c \notin activeRows /\ (c \in chairRows \/ Inserting(c))

ChairInv == BatchInv /\ RegisteredInv /\ ActivityInv /\ DistanceInv /\ OutsideInv

-----------------------------------------------------------------------------
(* The lemmas about the chairs' pipe. *)

LEMMA CPipeFacts ==
  ASSUME ChairTypeOK
  PROVE  /\ CPipe \in Seq(ChairWrite) /\ Len(CPipe) = Len(chairBatch) + Len(chairQ)
         /\ Len(CPipe) \in Nat /\ Len(chairBatch) \in Nat /\ Len(chairQ) \in Nat
         /\ \A k \in 1 .. Len(chairBatch) : CPipe[k] = chairBatch[k]
         /\ \A k \in 1 .. Len(chairQ) : CPipe[Len(chairBatch) + k] = chairQ[k]
         /\ \A k \in 1 .. Len(CPipe) :
              CPipe[k].chair \in Chairs /\ CPipe[k].what \in {"insert", "on", "off"}
<1>1. chairQ \in Seq(ChairWrite) /\ chairBatch \in Seq(ChairWrite)
  BY DEF ChairTypeOK
<1>2. /\ CPipe \in Seq(ChairWrite) /\ Len(CPipe) = Len(chairBatch) + Len(chairQ)
      /\ \A k \in 1 .. Len(chairBatch) + Len(chairQ) :
           CPipe[k] = IF k <= Len(chairBatch) THEN chairBatch[k]
                                              ELSE chairQ[k - Len(chairBatch)]
  BY <1>1, ConcatProperties DEF CPipe
<1>3. Len(CPipe) \in Nat /\ Len(chairBatch) \in Nat /\ Len(chairQ) \in Nat
  BY <1>1, <1>2, LenProperties
<1>4. \A k \in 1 .. Len(chairBatch) : CPipe[k] = chairBatch[k]
  BY <1>2, <1>3
<1>5. ASSUME NEW k \in 1 .. Len(chairQ) PROVE CPipe[Len(chairBatch) + k] = chairQ[k]
  <2>1. /\ Len(chairBatch) + k \in 1 .. Len(chairBatch) + Len(chairQ)
        /\ ~(Len(chairBatch) + k <= Len(chairBatch))
        /\ Len(chairBatch) + k - Len(chairBatch) = k
    BY <1>3
  <2> QED
    BY <1>2, <2>1
<1>6. ASSUME NEW k \in 1 .. Len(CPipe)
      PROVE  CPipe[k].chair \in Chairs /\ CPipe[k].what \in {"insert", "on", "off"}
  <2>1. CPipe[k] \in ChairWrite
    BY <1>2, ElementOfSeq
  <2> QED
    BY <2>1 DEF ChairWrite
<1> QED
  BY <1>2, <1>3, <1>4, <1>5, <1>6

LEMMA CPipeSame ==
  ASSUME UNCHANGED <<chairQ, chairBatch>>
  PROVE  /\ CPipe' = CPipe
         /\ \A c : (Inserting(c)' <=> Inserting(c)) /\ (Unchanged(c)' <=> Unchanged(c))
         /\ \A c, w : Says(c, w)' <=> Says(c, w)
         /\ \A c : ActivityOf(c)' = ActivityOf(c)
<1>1. CPipe' = CPipe
  BY DEF CPipe
<1>2. \A k, c : Change(k, c)' <=> Change(k, c)
  BY <1>1 DEF Change
<1>3. \A c : (Inserting(c)' <=> Inserting(c)) /\ (Unchanged(c)' <=> Unchanged(c))
  BY <1>1, <1>2 DEF Inserting, Unchanged
<1>4. \A c, w : Says(c, w)' <=> Says(c, w)
  BY <1>1, <1>2 DEF Says
<1>5. \A c : ActivityOf(c)' = ActivityOf(c)
  BY DEF ActivityOf
<1> QED
  BY <1>1, <1>3, <1>4, <1>5

(* An entry joins the pipe. *)
LEMMA CPipeGrows ==
  ASSUME ChairTypeOK, NEW c \in Chairs, NEW what \in {"insert", "on", "off"},
         chairQ' = Append(chairQ, ChairQueued(c, what)), UNCHANGED chairBatch
  PROVE  /\ Len(CPipe') = Len(CPipe) + 1 /\ \A k \in 1 .. Len(CPipe) : CPipe'[k] = CPipe[k]
         /\ CPipe'[Len(CPipe) + 1].chair = c /\ CPipe'[Len(CPipe) + 1].what = what
         /\ \A x : x # c => /\ Inserting(x)' <=> Inserting(x)
                            /\ Unchanged(x)' <=> Unchanged(x)
                            /\ \A w : Says(x, w)' <=> Says(x, w)
         /\ Inserting(c)' <=> Inserting(c) \/ what = "insert"
         /\ Unchanged(c)' <=> Unchanged(c) /\ what = "insert"
         /\ what # "insert" => \A w : Says(c, w)' => w = what
<1> DEFINE e == ChairQueued(c, what)
<1>0. PICK N \in Nat : N = Len(CPipe)
  BY CPipeFacts
<1>1. /\ CPipe \in Seq(ChairWrite) /\ e \in ChairWrite
      /\ chairQ \in Seq(ChairWrite) /\ chairBatch \in Seq(ChairWrite)
      /\ e.chair = c /\ e.what = what
  <2>1. chairQ \in Seq(ChairWrite) /\ chairBatch \in Seq(ChairWrite)
    BY DEF ChairTypeOK
  <2>2. e \in ChairWrite /\ e.chair = c /\ e.what = what
    BY ChairQueuedType
  <2>3. CPipe \in Seq(ChairWrite)
    BY CPipeFacts
  <2> QED
    BY <2>1, <2>2, <2>3
<1>2. /\ Len(CPipe') = N + 1 /\ \A k \in 1 .. N : CPipe'[k] = CPipe[k]
      /\ CPipe'[N + 1] = e
  <2>1. <<e>> \in Seq(ChairWrite)
    BY <1>1, SingleEntry
  <2>2. CPipe' = chairBatch \o (chairQ \o <<e>>)
    BY <1>1, AppendIsConcat DEF CPipe
  <2>3. CPipe' = CPipe \o <<e>>
    BY <1>1, <2>1, <2>2, ConcatAssociative DEF CPipe
  <2>4. CPipe' = Append(CPipe, e)
    BY <1>1, <2>3, AppendIsConcat
  <2> HIDE DEF e
  <2> QED
    BY <1>0, <1>1, <2>4, AppendProperties
<1> HIDE DEF e
<1>3. /\ \A k \in 1 .. N + 1 : k \in 1 .. N \/ k = N + 1
      /\ \A k \in 1 .. N : k \in 1 .. N + 1 /\ N + 1 \in k + 1 .. N + 1
      /\ N + 1 \in 1 .. N + 1 /\ \A l : l \notin N + 1 + 1 .. N + 1
  BY <1>1
<1>4. /\ \A k \in 1 .. N : \A x : Change(k, x)' <=> Change(k, x)
      /\ \A x : Change(N + 1, x)' => x = c /\ what # "insert"
      /\ what # "insert" => Change(N + 1, c)'
  <2>1. \A k \in 1 .. N : \A x : Change(k, x)' <=> Change(k, x)
    BY <1>2 DEF Change
  <2>2. \A x : Change(N + 1, x)' => x = c /\ what # "insert"
    BY <1>1, <1>2 DEF Change
  <2>3. what # "insert" => Change(N + 1, c)'
    BY <1>1, <1>2 DEF Change
  <2> QED
    BY <2>1, <2>2, <2>3
<1>5. \A x : Inserting(x)' <=> Inserting(x) \/ (x = c /\ what = "insert")
  BY <1>0, <1>1, <1>2, <1>3 DEF Inserting
<1>6. \A x : Unchanged(x)' <=> Unchanged(x) /\ ~(x = c /\ what # "insert")
  BY <1>0, <1>2, <1>3, <1>4 DEF Unchanged
<1>7. ASSUME NEW x, x # c, NEW w PROVE Says(x, w)' <=> Says(x, w)
  <2>1. ASSUME Says(x, w)' PROVE Says(x, w)
    <3>1. PICK k \in 1 .. N + 1 : /\ Change(k, x)' /\ CPipe'[k].what = w
                                  /\ \A l \in k + 1 .. N + 1 : ~Change(l, x)'
      BY <1>2, <2>1 DEF Says
    <3>2. k \in 1 .. N
      BY <1>3, <1>4, <1>7, <3>1
    <3>3. \A l \in k + 1 .. N : l \in 1 .. N /\ l \in k + 1 .. N + 1
      BY <1>1, <3>2
    <3> QED
      BY <1>0, <1>2, <1>4, <3>1, <3>2, <3>3 DEF Says
  <2>2. ASSUME Says(x, w) PROVE Says(x, w)'
    <3>1. PICK k \in 1 .. N : /\ Change(k, x) /\ CPipe[k].what = w
                              /\ \A l \in k + 1 .. N : ~Change(l, x)
      BY <1>0, <2>2 DEF Says
    <3>2. \A l \in k + 1 .. N + 1 : l = N + 1 \/ (l \in k + 1 .. N /\ l \in 1 .. N)
      BY <1>1, <3>1
    <3>3. \A l \in k + 1 .. N + 1 : ~Change(l, x)'
      BY <1>4, <1>7, <3>1, <3>2
    <3> QED
      BY <1>2, <1>3, <1>4, <3>1, <3>3 DEF Says
  <2> QED
    BY <2>1, <2>2
<1>8. ASSUME what # "insert", NEW w, Says(c, w)' PROVE w = what
  <2>1. PICK k \in 1 .. N + 1 : /\ CPipe'[k].what = w
                                /\ \A l \in k + 1 .. N + 1 : ~Change(l, c)'
    BY <1>2, <1>8 DEF Says
  <2>2. k = N + 1
    BY <1>3, <1>4, <1>8, <2>1
  <2> QED
    BY <1>1, <1>2, <2>1, <2>2
<1> QED
  BY <1>0, <1>1, <1>2, <1>5, <1>6, <1>7, <1>8

(* Only the entries of the pipe from a + 1 to b are left: nothing changes for a chair
   without an entry among the others. *)
LEMMA CPipeWindow ==
  ASSUME ChairTypeOK, NEW a \in Nat, NEW b \in Nat, a <= b, b <= Len(CPipe),
         Len(CPipe') = b - a, \A k \in 1 .. b - a : CPipe'[k] = CPipe[a + k]
  PROVE  /\ \A k \in 1 .. Len(CPipe') : a + k \in 1 .. Len(CPipe) /\ CPipe'[k] = CPipe[a + k]
         /\ \A c : (\A k \in 1 .. Len(CPipe) : k <= a \/ k > b => CPipe[k].chair # c) =>
              /\ Inserting(c)' <=> Inserting(c)
              /\ Unchanged(c)' <=> Unchanged(c)
              /\ \A w : Says(c, w)' <=> Says(c, w)
         /\ b = Len(CPipe) => \A c, w : Says(c, w)' => Says(c, w)
<1> DEFINE N == Len(CPipe)
           M == Len(CPipe')
<1>1. N \in Nat /\ M \in Nat /\ M = b - a
  BY CPipeFacts
<1>2. \A k \in 1 .. M : a + k \in 1 .. N /\ CPipe'[k] = CPipe[a + k]
  BY <1>1
<1>3. \A k \in 1 .. N : k <= a \/ k > b \/ (k - a \in 1 .. M /\ a + (k - a) = k)
  BY <1>1
<1> HIDE DEF N, M
<1>4. \A k \in 1 .. M : \A c : Change(k, c)' <=> Change(a + k, c)
  BY <1>2 DEF Change
<1>5. ASSUME NEW c, NEW w, Says(c, w)',
             b = N \/ \A k \in 1 .. N : k > b => CPipe[k].chair # c
      PROVE  Says(c, w)
  <2>1. PICK k \in 1 .. M : /\ Change(k, c)' /\ CPipe'[k].what = w
                            /\ \A l \in k + 1 .. M : ~Change(l, c)'
    BY <1>5 DEF Says, M
  <2>2. ASSUME NEW l \in (a + k) + 1 .. N PROVE ~Change(l, c)
    <3>1. CASE l <= b
      <4>1. l - a \in k + 1 .. M /\ l - a \in 1 .. M /\ a + (l - a) = l
        BY <1>1, <3>1
      <4> QED
        BY <1>4, <2>1, <4>1
    <3>2. CASE l > b
      <4>1. l \in 1 .. N /\ b # N
        BY <1>1, <3>2
      <4> QED
        BY <1>5, <3>2, <4>1 DEF Change
    <3> QED
      BY <1>1, <3>1, <3>2
  <2> QED
    BY <1>2, <1>4, <2>1, <2>2 DEF Says, N
<1>6. ASSUME NEW c, \A k \in 1 .. N : k <= a \/ k > b => CPipe[k].chair # c
      PROVE  /\ Inserting(c)' <=> Inserting(c)
             /\ Unchanged(c)' <=> Unchanged(c)
             /\ \A w : Says(c, w)' <=> Says(c, w)
  <2>1. \A k \in 1 .. N : CPipe[k].chair = c => k - a \in 1 .. M /\ a + (k - a) = k
    BY <1>3, <1>6
  <2>2. Inserting(c)' <=> Inserting(c)
    <3>1. ASSUME Inserting(c)' PROVE Inserting(c)
      BY <1>2, <3>1 DEF Inserting, N, M
    <3>2. ASSUME Inserting(c) PROVE Inserting(c)'
      <4>1. PICK k \in 1 .. N : CPipe[k].chair = c /\ CPipe[k].what = "insert"
        BY <3>2 DEF Inserting, N
      <4>2. CPipe'[k - a] = CPipe[k] /\ k - a \in 1 .. M
        BY <1>2, <2>1, <4>1
      <4> QED
        BY <4>1, <4>2 DEF Inserting, M
    <3> QED
      BY <3>1, <3>2
  <2>3. Unchanged(c)' <=> Unchanged(c)
    <3>1. ASSUME Unchanged(c)' PROVE Unchanged(c)
      <4> SUFFICES ASSUME NEW k \in 1 .. N, Change(k, c) PROVE FALSE
        BY DEF Unchanged, N
      <4>1. k - a \in 1 .. M /\ a + (k - a) = k
        BY <2>1 DEF Change
      <4> QED
        BY <1>4, <3>1, <4>1 DEF Unchanged, M
    <3>2. ASSUME Unchanged(c) PROVE Unchanged(c)'
      BY <1>2, <1>4, <3>2 DEF Unchanged, N, M
    <3> QED
      BY <3>1, <3>2
  <2>4. ASSUME NEW w, Says(c, w) PROVE Says(c, w)'
    <3>1. PICK k \in 1 .. N : /\ Change(k, c) /\ CPipe[k].what = w
                              /\ \A l \in k + 1 .. N : ~Change(l, c)
      BY <2>4 DEF Says, N
    <3> DEFINE m == k - a
    <3>2. m \in 1 .. M /\ a + m = k
      BY <2>1, <3>1 DEF Change
    <3> HIDE DEF m
    <3>3. \A l \in m + 1 .. M : l \in 1 .. M /\ a + l \in k + 1 .. N
      BY <1>1, <1>2, <3>2
    <3>4. \A l \in m + 1 .. M : ~Change(l, c)'
      BY <1>4, <3>1, <3>3
    <3>5. Change(m, c)' /\ CPipe'[m].what = w
      BY <1>2, <1>4, <3>1, <3>2
    <3> QED
      BY <3>2, <3>4, <3>5 DEF Says, M
  <2> QED
    BY <1>5, <1>6, <2>2, <2>3, <2>4
<1> QED
  BY <1>2, <1>5, <1>6 DEF N, M

-----------------------------------------------------------------------------
(* The calls of the chairs.  That a chair which is being registered is not in memory
   is shown where initializations are known. *)

LEMMA ChairInvStays ==
  ASSUME ChairInv,
         UNCHANGED <<fleetVars, callVars, chairQueueVars, chairWriterVars, flusherVars,
                     chairDbVars, chairLost>>
  PROVE  ChairInv' /\ \A c : Excused(c)' <=> Excused(c)
<1>1. UNCHANGED <<fleet, switchedOn, total, dirty, call, chairQ, chairGen, cpc, chairBatch,
                  batchGen, flushing, flushed, chairRows, activeRows, distances, chairLost>>
  BY DEF fleetVars, callVars, chairQueueVars, chairWriterVars, flusherVars, chairDbVars
<1>2. /\ CPipe' = CPipe
      /\ \A c : (Inserting(c)' <=> Inserting(c)) /\ (Unchanged(c)' <=> Unchanged(c))
      /\ \A c, w : Says(c, w)' <=> Says(c, w)
      /\ \A c : ActivityOf(c)' = ActivityOf(c)
  BY <1>1, CPipeSame
<1>3. \A c : Excused(c)' <=> Excused(c)
  BY <1>1 DEF Excused, StaleChairs
<1>4. BatchInv'
  BY <1>1, <1>2 DEF ChairInv, BatchInv
<1>5. RegisteredInv' /\ DistanceInv'
  BY <1>1, <1>2, <1>3 DEF ChairInv, RegisteredInv, DistanceInv
<1>6. ActivityInv'
  BY <1>1, <1>2, <1>3 DEF ChairInv, ActivityInv
<1>7. OutsideInv'
  BY <1>1, <1>2, <1>3 DEF ChairInv, OutsideInv
<1> QED
  BY <1>3, <1>4, <1>5, <1>6, <1>7 DEF ChairInv

(* A queued entry keeps the batches well formed. *)
LEMMA BatchInvGrows ==
  ASSUME ChairTypeOK, ChairInv, NEW c \in Chairs, NEW what \in {"insert", "on", "off"},
         chairQ' = Append(chairQ, ChairQueued(c, what)),
         UNCHANGED <<cpc, chairBatch, chairRows, activeRows>>,
         what = "insert" => \A k \in 1 .. Len(CPipe) : CPipe[k].chair # c
  PROVE  BatchInv'
<1>0. PICK N \in Nat : N = Len(CPipe)
  BY CPipeFacts
<1>1. /\ Len(CPipe') = N + 1 /\ \A k \in 1 .. N : CPipe'[k] = CPipe[k]
      /\ CPipe'[N + 1].chair = c /\ CPipe'[N + 1].what = what
  BY <1>0, CPipeGrows
<1>2. ASSUME NEW k \in 1 .. N + 1, NEW l \in 1 .. N + 1, k < l,
             CPipe'[k].chair = CPipe'[l].chair
      PROVE  CPipe'[l].what # "insert"
  <2>1. k \in 1 .. N /\ (l \in 1 .. N \/ l = N + 1)
    BY <1>2
  <2>2. CASE l \in 1 .. N
    BY <1>0, <1>1, <1>2, <2>1, <2>2 DEF ChairInv, BatchInv
  <2>3. CASE l = N + 1
    BY <1>0, <1>1, <1>2, <2>1, <2>3
  <2> QED
    BY <2>1, <2>2, <2>3
<1>3. \A x : ActivityOf(x)' = ActivityOf(x)
  BY DEF ActivityOf
<1>4. /\ cpc = "wait" => chairBatch = <<>>
      /\ cpc \in {"on", "off"} =>
           \A k \in 1 .. Len(chairBatch) :
             chairBatch[k].what = "insert" => chairBatch[k].chair \in chairRows
      /\ cpc = "off" => \A x \in chairRows : ActivityOf(x) = "on" => x \in activeRows
  BY DEF ChairInv, BatchInv
<1> QED
  BY <1>1, <1>2, <1>3, <1>4 DEF BatchInv

LEMMA RegisterChairKeepsInv ==
  ASSUME ChairTypeOK, ChairInv, NEW c \in Chairs, RegisterChair(c)
  PROVE  ChairInv'
<1>1. /\ c \notin fleet \cup chairRows /\ c \notin ChairsIn(chairQ \o chairBatch)
      /\ chairQ' = Append(chairQ, ChairQueued(c, "insert"))
      /\ call' = [call EXCEPT ![c] = "insert"]
      /\ UNCHANGED <<fleet, switchedOn, total, dirty, chairGen, cpc, chairBatch, batchGen,
                     flushing, flushed, chairRows, activeRows, distances, chairLost>>
  BY DEF RegisterChair, fleetVars, chairWriterVars, flusherVars, chairDbVars, chairHistory
<1>2. /\ call'[c] = "insert" /\ \A x \in Chairs : x # c => call'[x] = call[x]
      /\ fleet \subseteq Chairs /\ activeRows \subseteq chairRows
      /\ chairQ \in Seq(ChairWrite) /\ chairBatch \in Seq(ChairWrite)
  BY <1>1 DEF ChairTypeOK
<1>3. \A k \in 1 .. Len(CPipe) : CPipe[k].chair # c
  <2>1. PICK pipe \in Seq(ChairWrite) : pipe = chairQ \o chairBatch
    BY <1>2, ConcatProperties
  <2>2. /\ Len(chairQ) \in Nat /\ Len(chairBatch) \in Nat
        /\ Len(pipe) = Len(chairQ) + Len(chairBatch)
        /\ \A k \in 1 .. Len(chairQ) + Len(chairBatch) :
             pipe[k] = IF k <= Len(chairQ) THEN chairQ[k] ELSE chairBatch[k - Len(chairQ)]
    BY <1>2, <2>1, ConcatProperties, LenProperties
  <2>3. \A k \in 1 .. Len(pipe) : pipe[k].chair # c
    BY <1>1, <2>1, ChairsInType
  <2>4. \A k \in 1 .. Len(chairQ) : k \in 1 .. Len(pipe) /\ pipe[k] = chairQ[k]
    BY <2>2
  <2>5. ASSUME NEW k \in 1 .. Len(chairBatch) PROVE chairBatch[k].chair # c
    <3>1. /\ Len(chairQ) + k \in 1 .. Len(pipe) /\ ~(Len(chairQ) + k <= Len(chairQ))
          /\ Len(chairQ) + k - Len(chairQ) = k
      BY <2>2
    <3> QED
      BY <2>2, <2>3, <3>1
  <2>6. /\ Len(CPipe) = Len(chairBatch) + Len(chairQ)
        /\ \A k \in 1 .. Len(chairBatch) : CPipe[k] = chairBatch[k]
        /\ \A k \in 1 .. Len(chairQ) : CPipe[Len(chairBatch) + k] = chairQ[k]
    BY CPipeFacts
  <2> TAKE k \in 1 .. Len(CPipe)
  <2>7. CASE k \in 1 .. Len(chairBatch)
    BY <2>5, <2>6, <2>7
  <2>8. CASE k > Len(chairBatch)
    <3>1. /\ k - Len(chairBatch) \in 1 .. Len(chairQ)
          /\ Len(chairBatch) + (k - Len(chairBatch)) = k
      BY <2>2, <2>6, <2>8
    <3>2. CPipe[k] = chairQ[k - Len(chairBatch)]
      BY <2>6, <3>1
    <3>3. chairQ[k - Len(chairBatch)].chair # c
      BY <2>3, <2>4, <3>1
    <3> QED
      BY <3>2, <3>3
  <2> QED
    BY <2>2, <2>6, <2>7, <2>8
<1>4. /\ \A x : x # c => /\ Inserting(x)' <=> Inserting(x)
                         /\ Unchanged(x)' <=> Unchanged(x)
                         /\ \A w : Says(x, w)' <=> Says(x, w)
      /\ Inserting(c)' /\ Unchanged(c)'
  <2>1. Unchanged(c)
    BY <1>3 DEF Unchanged, Change
  <2> QED
    BY <1>1, <2>1, CPipeGrows
<1>5. \A x : Excused(x)' <=> Excused(x)
  BY <1>1 DEF Excused, StaleChairs
<1>6. BatchInv'
  BY <1>1, <1>3, BatchInvGrows
<1>7. RegisteredInv' /\ DistanceInv'
  BY <1>1, <1>4, <1>5 DEF ChairInv, RegisteredInv, DistanceInv
<1>8. ActivityInv'
  <2>1. \A x \in fleet : x # c /\ call'[x] = call[x]
    BY <1>1, <1>2
  <2> QED
    BY <1>1, <1>4, <1>5, <2>1 DEF ChairInv, ActivityInv
<1>9. OutsideInv'
  <2>1. ASSUME NEW x \in Chairs \ fleet, call'[x] = "insert"
        PROVE  \/ Excused(x)'
               \/ Unchanged(x)' /\ x \notin activeRows /\ (x \in chairRows \/ Inserting(x)')
    <3>1. CASE x = c
      BY <1>1, <1>2, <1>4, <3>1
    <3>2. CASE x # c
      BY <1>2, <1>4, <1>5, <2>1, <3>2 DEF ChairInv, OutsideInv
    <3> QED
      BY <3>1, <3>2
  <2> QED
    BY <1>1, <2>1 DEF ChairInv, OutsideInv
<1> QED
  BY <1>6, <1>7, <1>8, <1>9 DEF ChairInv

LEMMA AddChairKeepsInv ==
  ASSUME ChairTypeOK, ChairInv, NEW c \in Chairs, AddChair(c), c \notin fleet
  PROVE  ChairInv'
<1>1. /\ call[c] = "insert" /\ fleet' = fleet \cup {c}
      /\ call' = [call EXCEPT ![c] = "none"]
      /\ UNCHANGED <<switchedOn, total, dirty, chairQ, chairGen, cpc, chairBatch, batchGen,
                     flushing, flushed, chairRows, activeRows, distances, chairLost>>
  BY DEF AddChair, chairQueueVars, chairWriterVars, flusherVars, chairDbVars, chairHistory
<1>2. /\ call'[c] = "none" /\ \A x \in Chairs : x # c => call'[x] = call[x]
      /\ fleet \subseteq Chairs /\ c \notin switchedOn
  BY <1>1 DEF ChairTypeOK
<1>3. /\ CPipe' = CPipe
      /\ \A x : (Inserting(x)' <=> Inserting(x)) /\ (Unchanged(x)' <=> Unchanged(x))
      /\ \A x, w : Says(x, w)' <=> Says(x, w)
      /\ \A x : ActivityOf(x)' = ActivityOf(x)
  BY <1>1, CPipeSame
<1>4. \A x : Excused(x)' <=> Excused(x)
  BY <1>1 DEF Excused, StaleChairs
<1>5. /\ total[c] = 0 /\ c \notin dirty /\ c \notin flushing
      /\ c \notin chairLost => distances[c] = 0
      /\ Excused(c) \/ (Unchanged(c) /\ c \notin activeRows /\ (c \in chairRows \/ Inserting(c)))
  BY <1>1 DEF ChairInv, OutsideInv
<1>6. BatchInv'
  BY <1>1, <1>3 DEF ChairInv, BatchInv
<1>7. RegisteredInv'
  BY <1>1, <1>3, <1>4, <1>5 DEF ChairInv, RegisteredInv
<1>8. DistanceInv'
  <2>1. Excused(c) \/ distances[c] = total[c]
    BY <1>5 DEF Excused
  <2> QED
    BY <1>1, <1>4, <1>5, <2>1 DEF ChairInv, DistanceInv
<1>9. ActivityInv'
  <2>1. Unchanged(c) => \A w : ~Says(c, w)
    BY DEF Unchanged, Says
  <2>2. ASSUME NEW x \in fleet
        PROVE  Excused(x)' \/
                 IF call'[x] \in {"on", "off"}
                   THEN call'[x] = "on" <=> x \in switchedOn
                   ELSE /\ \A what : Says(x, what)' => (what = "on" <=> x \in switchedOn)
                        /\ Unchanged(x)' => (x \in activeRows <=> x \in switchedOn)
    <3>1. x # c /\ x \in Chairs /\ call'[x] = call[x]
      BY <1>2
    <3> QED
      BY <1>3, <1>4, <3>1 DEF ChairInv, ActivityInv
  <2>3. Excused(c)' \/
          /\ \A what : Says(c, what)' => (what = "on" <=> c \in switchedOn)
          /\ Unchanged(c)' => (c \in activeRows <=> c \in switchedOn)
    BY <1>2, <1>3, <1>4, <1>5, <2>1
  <2>4. ~(call'[c] \in {"on", "off"})
    BY <1>2
  <2> QED
    BY <1>1, <2>2, <2>3, <2>4 DEF ActivityInv
<1>10. OutsideInv'
  BY <1>1, <1>2, <1>3, <1>4 DEF ChairInv, OutsideInv
<1> QED
  BY <1>6, <1>7, <1>8, <1>9, <1>10 DEF ChairInv

LEMMA SwitchChairKeepsInv ==
  ASSUME ChairTypeOK, ChairInv, NEW c \in Chairs, NEW what \in {"on", "off"},
         SwitchChair(c, what)
  PROVE  ChairInv'
<1>1. /\ c \in fleet /\ call' = [call EXCEPT ![c] = what]
      /\ switchedOn' = IF what = "on" THEN switchedOn \cup {c} ELSE switchedOn \ {c}
      /\ UNCHANGED <<fleet, total, dirty, chairQ, chairGen, cpc, chairBatch, batchGen,
                     flushing, flushed, chairRows, activeRows, distances, chairLost>>
  BY DEF SwitchChair, chairQueueVars, chairWriterVars, flusherVars, chairDbVars, chairHistory
<1>2. /\ call'[c] = what /\ \A x \in Chairs : x # c => call'[x] = call[x]
      /\ c \in switchedOn' <=> what = "on"
      /\ \A x : x # c => (x \in switchedOn' <=> x \in switchedOn)
      /\ fleet \subseteq Chairs
  BY <1>1 DEF ChairTypeOK
<1>3. /\ CPipe' = CPipe
      /\ \A x : (Inserting(x)' <=> Inserting(x)) /\ (Unchanged(x)' <=> Unchanged(x))
      /\ \A x, w : Says(x, w)' <=> Says(x, w)
      /\ \A x : ActivityOf(x)' = ActivityOf(x)
  BY <1>1, CPipeSame
<1>4. \A x : Excused(x)' <=> Excused(x)
  BY <1>1 DEF Excused, StaleChairs
<1>5. BatchInv'
  BY <1>1, <1>3 DEF ChairInv, BatchInv
<1>6. RegisteredInv' /\ DistanceInv'
  BY <1>1, <1>3, <1>4 DEF ChairInv, RegisteredInv, DistanceInv
<1>7. ActivityInv'
  <2>1. ASSUME NEW x \in fleet, x # c
        PROVE  Excused(x)' \/
                 IF call'[x] \in {"on", "off"}
                   THEN call'[x] = "on" <=> x \in switchedOn'
                   ELSE /\ \A w : Says(x, w)' => (w = "on" <=> x \in switchedOn')
                        /\ Unchanged(x)' => (x \in activeRows <=> x \in switchedOn')
    <3>1. call'[x] = call[x]
      BY <1>2, <2>1
    <3> QED
      BY <1>2, <1>3, <1>4, <2>1, <3>1 DEF ChairInv, ActivityInv
  <2>2. call'[c] \in {"on", "off"} /\ (call'[c] = "on" <=> c \in switchedOn')
    BY <1>2
  <2> QED
    BY <1>1, <2>1, <2>2 DEF ActivityInv
<1>8. OutsideInv'
  <2>1. \A x \in Chairs \ fleet : call'[x] = call[x]
    BY <1>1, <1>2
  <2> QED
    BY <1>1, <1>3, <1>4, <2>1 DEF ChairInv, OutsideInv
<1> QED
  BY <1>5, <1>6, <1>7, <1>8 DEF ChairInv

LEMMA EnqueueActivityKeepsInv ==
  ASSUME ChairTypeOK, ChairInv, NEW c \in Chairs, EnqueueActivity(c)
  PROVE  ChairInv'
<1>1. /\ call[c] \in {"on", "off"} /\ call' = [call EXCEPT ![c] = "none"]
      /\ chairQ' = Append(chairQ, ChairQueued(c, call[c]))
      /\ UNCHANGED <<fleet, switchedOn, total, dirty, chairGen, cpc, chairBatch, batchGen,
                     flushing, flushed, chairRows, activeRows, distances, chairLost>>
  BY DEF EnqueueActivity, fleetVars, chairWriterVars, flusherVars, chairDbVars, chairHistory
<1>2. /\ call'[c] = "none" /\ \A x \in Chairs : x # c => call'[x] = call[x]
      /\ fleet \subseteq Chairs
  BY <1>1 DEF ChairTypeOK
<1>3. PICK what \in {"on", "off"} : what = call[c]
  BY <1>1
<1>4. /\ what \in {"insert", "on", "off"} /\ what # "insert"
      /\ chairQ' = Append(chairQ, ChairQueued(c, what))
  BY <1>1, <1>3
<1>5. /\ \A x : x # c => /\ Inserting(x)' <=> Inserting(x)
                         /\ Unchanged(x)' <=> Unchanged(x)
                         /\ \A w : Says(x, w)' <=> Says(x, w)
      /\ Inserting(c)' <=> Inserting(c)
      /\ ~Unchanged(c)' /\ \A w : Says(c, w)' => w = what
  BY <1>1, <1>4, CPipeGrows
<1>6. \A x : Excused(x)' <=> Excused(x)
  BY <1>1 DEF Excused, StaleChairs
<1>7. BatchInv'
  BY <1>1, <1>4, BatchInvGrows
<1>8. RegisteredInv' /\ DistanceInv'
  BY <1>1, <1>5, <1>6 DEF ChairInv, RegisteredInv, DistanceInv
<1>9. ActivityInv'
  <2>1. ASSUME NEW x \in fleet, x # c
        PROVE  Excused(x)' \/
                 IF call'[x] \in {"on", "off"}
                   THEN call'[x] = "on" <=> x \in switchedOn
                   ELSE /\ \A w : Says(x, w)' => (w = "on" <=> x \in switchedOn)
                        /\ Unchanged(x)' => (x \in activeRows <=> x \in switchedOn)
    <3>1. call'[x] = call[x]
      BY <1>2, <2>1
    <3> QED
      BY <1>5, <1>6, <2>1, <3>1 DEF ChairInv, ActivityInv
  <2>2. ASSUME c \in fleet
        PROVE  Excused(c)' \/
                 /\ \A w : Says(c, w)' => (w = "on" <=> c \in switchedOn)
                 /\ Unchanged(c)' => (c \in activeRows <=> c \in switchedOn)
    <3>1. Excused(c) \/ (what = "on" <=> c \in switchedOn)
      BY <1>1, <1>3, <2>2 DEF ChairInv, ActivityInv
    <3> QED
      BY <1>5, <1>6, <3>1
  <2>3. ~(call'[c] \in {"on", "off"})
    BY <1>2
  <2> QED
    BY <1>1, <2>1, <2>2, <2>3 DEF ActivityInv
<1>10. OutsideInv'
  <2>1. ASSUME NEW x \in Chairs \ fleet, call'[x] = "insert"
        PROVE  \/ Excused(x)'
               \/ Unchanged(x)' /\ x \notin activeRows /\ (x \in chairRows \/ Inserting(x)')
    <3>1. x # c /\ call[x] = "insert"
      BY <1>2, <2>1
    <3> QED
      BY <1>5, <1>6, <3>1 DEF ChairInv, OutsideInv
  <2> QED
    BY <1>1, <2>1 DEF ChairInv, OutsideInv
<1> QED
  BY <1>7, <1>8, <1>9, <1>10 DEF ChairInv

LEMMA MoveChairKeepsInv ==
  ASSUME ChairTypeOK, ChairInv, NEW c \in Chairs, MoveChair(c)
  PROVE  ChairInv'
<1>1. /\ c \in fleet /\ dirty' = dirty \cup {c} /\ total' = [total EXCEPT ![c] = @ + 1]
      /\ UNCHANGED <<fleet, switchedOn, call, chairQ, chairGen, cpc, chairBatch, batchGen,
                     flushing, flushed, chairRows, activeRows, distances, chairLost>>
  BY DEF MoveChair, chairQueueVars, chairWriterVars, flusherVars, chairDbVars, chairHistory
<1>2. (\A x \in Chairs : x # c => total'[x] = total[x]) /\ fleet \subseteq Chairs
  BY <1>1 DEF ChairTypeOK
<1>3. /\ CPipe' = CPipe
      /\ \A x : (Inserting(x)' <=> Inserting(x)) /\ (Unchanged(x)' <=> Unchanged(x))
      /\ \A x, w : Says(x, w)' <=> Says(x, w)
      /\ \A x : ActivityOf(x)' = ActivityOf(x)
  BY <1>1, CPipeSame
<1>4. \A x : Excused(x)' <=> Excused(x)
  BY <1>1 DEF Excused, StaleChairs
<1>5. BatchInv'
  BY <1>1, <1>3 DEF ChairInv, BatchInv
<1>6. RegisteredInv' /\ ActivityInv'
  BY <1>1, <1>3, <1>4 DEF ChairInv, RegisteredInv, ActivityInv
<1>7. DistanceInv'
  BY <1>1, <1>2, <1>4 DEF ChairInv, DistanceInv
<1>8. OutsideInv'
  BY <1>1, <1>2, <1>3, <1>4 DEF ChairInv, OutsideInv
<1> QED
  BY <1>5, <1>6, <1>7, <1>8 DEF ChairInv

-----------------------------------------------------------------------------
(* The writer of the chairs and the flusher. *)

(* What the updates do to a chair is in its last change of the batch. *)
LEMMA ActivityOfFacts ==
  ASSUME ChairTypeOK, NEW c
  PROVE  /\ Unchanged(c) => ActivityOf(c) = ""
         /\ ~Unchanged(c) /\ (\A l \in Len(chairBatch) + 1 .. Len(CPipe) : ~Change(l, c)) =>
              Says(c, ActivityOf(c))
<1> DEFINE changes == {n \in DOMAIN chairBatch :
                         chairBatch[n].chair = c /\ chairBatch[n].what # "insert"}
<1>1. PICK m \in Nat : m = Len(chairBatch) /\ m <= Len(CPipe)
  BY CPipeFacts
<1>2. /\ Len(CPipe) \in Nat /\ DOMAIN chairBatch = 1 .. m
      /\ \A k \in 1 .. m : CPipe[k] = chairBatch[k]
  <2>1. chairBatch \in Seq(ChairWrite)
    BY DEF ChairTypeOK
  <2> QED
    BY <1>1, <2>1, CPipeFacts, LenProperties
<1>3. changes = {k \in 1 .. m : Change(k, c)}
  BY <1>2 DEF Change
<1>4. ActivityOf(c) = IF changes = {} THEN "" ELSE chairBatch[Max(changes)].what
  BY DEF ActivityOf
<1> HIDE DEF changes
<1>5. ASSUME Unchanged(c) PROVE ActivityOf(c) = ""
  <2>1. \A k \in 1 .. m : k \in 1 .. Len(CPipe)
    BY <1>1, <1>2
  <2>2. changes = {}
    BY <1>3, <1>5, <2>1 DEF Unchanged
  <2> QED
    BY <1>4, <2>2
<1>6. ASSUME ~Unchanged(c), \A l \in m + 1 .. Len(CPipe) : ~Change(l, c)
      PROVE  Says(c, ActivityOf(c))
  <2>1. PICK k \in 1 .. Len(CPipe) : Change(k, c)
    BY <1>6 DEF Unchanged
  <2>2. k \in 1 .. m
    <3>1. k \in 1 .. m \/ k \in m + 1 .. Len(CPipe)
      BY <1>1, <1>2
    <3> QED
      BY <1>6, <2>1, <3>1
  <2>3. changes # {} /\ changes \in SUBSET (1 .. m)
    BY <1>3, <2>1, <2>2
  <2>4. Max(changes) \in changes /\ \A n \in changes : n <= Max(changes)
    BY <2>3, MaxIsThere
  <2>5. PICK n \in 1 .. m : n = Max(changes) /\ Change(n, c) /\ \A l \in changes : l <= n
    BY <1>3, <2>4
  <2>6. ActivityOf(c) = CPipe[n].what
    BY <1>2, <1>4, <2>3, <2>5
  <2>7. ASSUME NEW l \in n + 1 .. Len(CPipe) PROVE ~Change(l, c)
    <3>1. l \in m + 1 .. Len(CPipe) \/ (l \in 1 .. m /\ ~(l <= n))
      BY <1>1, <1>2
    <3> QED
      BY <1>3, <1>6, <2>5, <3>1
  <2>8. n \in 1 .. Len(CPipe)
    BY <1>1, <1>2
  <2> QED
    BY <2>5, <2>6, <2>7, <2>8 DEF Says
<1> QED
  BY <1>1, <1>5, <1>6

(* The batch leaves the pipe. *)
LEMMA BatchLeaves ==
  ASSUME ChairTypeOK, ChairInv, chairBatch' = <<>>, cpc' = "wait", UNCHANGED chairQ
  PROVE  /\ BatchInv'
         /\ \A c : c \notin ChairsIn(chairBatch) =>
              /\ Inserting(c)' <=> Inserting(c)
              /\ Unchanged(c)' <=> Unchanged(c)
              /\ \A w : Says(c, w)' <=> Says(c, w)
         /\ \A c, w : Says(c, w)' => Says(c, w)
         /\ \A c : Unchanged(c) => Unchanged(c)'
         /\ \A c : Inserting(c) => \/ Inserting(c)'
                                   \/ \E k \in 1 .. Len(chairBatch) :
                                        chairBatch[k].chair = c /\ chairBatch[k].what = "insert"
         /\ \A c : Unchanged(c)' =>
              \A l \in Len(chairBatch) + 1 .. Len(CPipe) : ~Change(l, c)
<1>1. PICK m \in Nat : m = Len(chairBatch)
  BY CPipeFacts
<1>2. PICK N \in Nat : N = Len(CPipe)
  BY CPipeFacts
<1>3. /\ N = m + Len(chairQ) /\ Len(chairQ) \in Nat /\ m <= N
      /\ \A k \in 1 .. m : CPipe[k] = chairBatch[k]
      /\ \A k \in 1 .. Len(chairQ) : CPipe[m + k] = chairQ[k]
      /\ chairQ \in Seq(ChairWrite) /\ chairBatch \in Seq(ChairWrite)
  <2>1. chairQ \in Seq(ChairWrite) /\ chairBatch \in Seq(ChairWrite)
    BY DEF ChairTypeOK
  <2>2. /\ N = m + Len(chairQ) /\ Len(chairQ) \in Nat
        /\ \A k \in 1 .. m : CPipe[k] = chairBatch[k]
        /\ \A k \in 1 .. Len(chairQ) : CPipe[m + k] = chairQ[k]
    BY <1>1, <1>2, CPipeFacts
  <2> QED
    BY <2>1, <2>2
<1>4. CPipe' = chairQ
  BY <1>3, ConcatEmptySeq DEF CPipe
<1>5. Len(CPipe') = N - m /\ \A k \in 1 .. N - m : CPipe'[k] = CPipe[m + k]
  BY <1>3, <1>4
<1>6. /\ \A k \in 1 .. Len(CPipe') : m + k \in 1 .. Len(CPipe) /\ CPipe'[k] = CPipe[m + k]
      /\ \A c : (\A k \in 1 .. Len(CPipe) : k <= m \/ k > N => CPipe[k].chair # c) =>
           /\ Inserting(c)' <=> Inserting(c)
           /\ Unchanged(c)' <=> Unchanged(c)
           /\ \A w : Says(c, w)' <=> Says(c, w)
      /\ \A c, w : Says(c, w)' => Says(c, w)
  <2>1. N <= Len(CPipe) /\ N = Len(CPipe)
    BY <1>2
  <2>2. m \in Nat /\ N \in Nat /\ m <= N
    BY <1>3
  <2>3. Len(CPipe') = N - m /\ \A k \in 1 .. N - m : CPipe'[k] = CPipe[m + k]
    BY <1>5
  <2> QED
    BY <2>1, <2>2, <2>3, CPipeWindow
<1>7. ASSUME NEW c, c \notin ChairsIn(chairBatch), NEW k \in 1 .. Len(CPipe), k <= m \/ k > N
      PROVE  CPipe[k].chair # c
  <2>1. k \in 1 .. m
    BY <1>2, <1>7
  <2> QED
    BY <1>1, <1>3, <1>7, <2>1, ChairsInType
<1>8. ASSUME NEW k \in 1 .. N, k > m
      PROVE  k - m \in 1 .. Len(CPipe') /\ CPipe'[k - m] = CPipe[k]
  <2>1. k - m \in 1 .. N - m /\ m + (k - m) = k
    BY <1>8
  <2> QED
    BY <1>5, <2>1
<1>9. BatchInv'
  <2>1. ASSUME NEW k \in 1 .. Len(CPipe'), NEW l \in 1 .. Len(CPipe'), k < l,
               CPipe'[k].chair = CPipe'[l].chair
        PROVE  CPipe'[l].what # "insert"
    <3>1. m + k \in 1 .. Len(CPipe) /\ m + l \in 1 .. Len(CPipe) /\ m + k < m + l
      BY <1>3, <1>5, <1>6, <2>1
    <3> QED
      BY <1>6, <2>1, <3>1 DEF ChairInv, BatchInv
  <2> QED
    BY <2>1 DEF BatchInv
<1>10. ASSUME NEW c, Unchanged(c) PROVE Unchanged(c)'
  <2>1. \A k \in 1 .. Len(CPipe') : ~Change(m + k, c)
    BY <1>6, <1>10 DEF Unchanged
  <2>2. \A k \in 1 .. Len(CPipe') : ~(CPipe'[k].chair = c /\ CPipe'[k].what # "insert")
    BY <1>6, <2>1 DEF Change
  <2> QED
    BY <2>2 DEF Unchanged, Change
<1>11. ASSUME NEW c, Inserting(c)
       PROVE  \/ Inserting(c)'
              \/ \E k \in 1 .. Len(chairBatch) :
                   chairBatch[k].chair = c /\ chairBatch[k].what = "insert"
  <2>1. PICK k \in 1 .. N : CPipe[k].chair = c /\ CPipe[k].what = "insert"
    BY <1>2, <1>11 DEF Inserting
  <2>2. CASE k <= m
    <3>1. k \in 1 .. m
      BY <2>2
    <3> QED
      BY <1>1, <1>3, <2>1, <3>1
  <2>3. CASE k > m
    BY <1>8, <2>1, <2>3 DEF Inserting
  <2> QED
    BY <2>2, <2>3
<1>12. ASSUME NEW c, Unchanged(c)', NEW l \in m + 1 .. N PROVE ~Change(l, c)
  <2>1. l \in 1 .. N /\ l > m
    BY <1>3
  <2>2. l - m \in 1 .. Len(CPipe') /\ CPipe'[l - m] = CPipe[l]
    BY <1>8, <2>1
  <2>3. \A k \in 1 .. Len(CPipe') : ~(CPipe'[k].chair = c /\ CPipe'[k].what # "insert")
    BY <1>12 DEF Unchanged, Change
  <2> QED
    BY <2>2, <2>3 DEF Change
<1> QED
  BY <1>1, <1>2, <1>6, <1>7, <1>9, <1>10, <1>11, <1>12

(* A batch is dropped, because it is stale or because a statement failed. *)
LEMMA BatchIsDropped ==
  ASSUME ChairTypeOK, ChairInv, chairBatch' = <<>>, cpc' = "wait",
         chairLost' = chairLost \cup ChairsIn(chairBatch),
         UNCHANGED <<fleetVars, callVars, chairQueueVars, batchGen, flusherVars, chairDbVars>>
  PROVE  ChairInv'
<1>1. UNCHANGED <<fleet, switchedOn, total, dirty, call, chairQ, chairGen, flushing, flushed,
                  chairRows, activeRows, distances>>
  BY DEF fleetVars, callVars, chairQueueVars, flusherVars, chairDbVars
<1>2. /\ BatchInv'
      /\ \A c : c \notin ChairsIn(chairBatch) =>
           /\ Inserting(c)' <=> Inserting(c)
           /\ Unchanged(c)' <=> Unchanged(c)
           /\ \A w : Says(c, w)' <=> Says(c, w)
  BY <1>1, BatchLeaves
<1>3. \A c : ~Excused(c)' => ~Excused(c) /\ c \notin ChairsIn(chairBatch) /\ c \notin chairLost
  BY DEF Excused
<1>4. RegisteredInv' /\ DistanceInv'
  BY <1>1, <1>2, <1>3 DEF ChairInv, RegisteredInv, DistanceInv
<1>5. ActivityInv'
  BY <1>1, <1>2, <1>3 DEF ChairInv, ActivityInv
<1>6. OutsideInv'
  BY <1>1, <1>2, <1>3 DEF ChairInv, OutsideInv
<1> QED
  BY <1>2, <1>4, <1>5, <1>6 DEF ChairInv

LEMMA TakeChairBatchKeepsInv ==
  ASSUME ChairTypeOK, ChairInv, TakeChairBatch
  PROVE  ChairInv' /\ \A c : Excused(c)' <=> Excused(c)
<1>1. /\ cpc = "wait" /\ cpc' = "taken" /\ chairBatch' = chairQ /\ chairQ' = <<>>
      /\ batchGen' = chairGen
      /\ UNCHANGED <<fleet, switchedOn, total, dirty, call, chairGen, flushing, flushed,
                     chairRows, activeRows, distances, chairLost>>
  BY DEF TakeChairBatch, fleetVars, callVars, flusherVars, chairDbVars, chairHistory
<1>2. chairBatch = <<>> /\ chairQ \in Seq(ChairWrite)
  BY <1>1 DEF ChairInv, BatchInv, ChairTypeOK
<1>3. CPipe' = CPipe
  BY <1>1, <1>2, ConcatEmptySeq DEF CPipe
<1>4. \A k, c : Change(k, c)' <=> Change(k, c)
  BY <1>3 DEF Change
<1>5. /\ \A c : (Inserting(c)' <=> Inserting(c)) /\ (Unchanged(c)' <=> Unchanged(c))
      /\ \A c, w : Says(c, w)' <=> Says(c, w)
  BY <1>3, <1>4 DEF Inserting, Unchanged, Says
<1>6. \A c : Excused(c)' <=> Excused(c)
  <2>1. ~StaleChairs'
    BY <1>1 DEF StaleChairs
  <2>2. \A c : c \notin ChairsIn(chairBatch)
    BY <1>2, EmptyPipe DEF ChairsIn, ToSet
  <2> QED
    BY <1>1, <2>1, <2>2 DEF Excused
<1>7. BatchInv'
  BY <1>1, <1>3 DEF ChairInv, BatchInv
<1>8. RegisteredInv' /\ DistanceInv'
  BY <1>1, <1>5, <1>6 DEF ChairInv, RegisteredInv, DistanceInv
<1>9. ActivityInv'
  BY <1>1, <1>5, <1>6 DEF ChairInv, ActivityInv
<1>10. OutsideInv'
  BY <1>1, <1>5, <1>6 DEF ChairInv, OutsideInv
<1> QED
  BY <1>6, <1>7, <1>8, <1>9, <1>10 DEF ChairInv

(* The steps that write: the batch is not stale then. *)
LEMMA ChairWriterKeepsInv ==
  ASSUME ChairTypeOK, ChairInv, ChairWriterStep,
         cpc \in {"insert", "on", "off"} => ~StaleChairs
  PROVE  ChairInv'
<1>1. CASE TakeChairBatch
  BY <1>1, TakeChairBatchKeepsInv
<1>2. CASE LockChairs
  <2>1. CASE StaleChairs
    BY <1>2, <2>1, BatchIsDropped DEF LockChairs
  <2>2. CASE ~StaleChairs
    <3>1. /\ cpc' = "insert"
          /\ UNCHANGED <<fleet, switchedOn, total, dirty, call, chairQ, chairGen, chairBatch,
                         batchGen, flushing, flushed, chairRows, activeRows, distances,
                         chairLost>>
      BY <1>2, <2>2 DEF LockChairs, fleetVars, callVars, chairQueueVars, flusherVars,
         chairDbVars
    <3>2. /\ CPipe' = CPipe
          /\ \A c : (Inserting(c)' <=> Inserting(c)) /\ (Unchanged(c)' <=> Unchanged(c))
          /\ \A c, w : Says(c, w)' <=> Says(c, w)
      BY <3>1, CPipeSame
    <3>3. \A c : Excused(c)' <=> Excused(c)
      BY <3>1 DEF Excused, StaleChairs
    <3>4. BatchInv'
      BY <3>1, <3>2 DEF ChairInv, BatchInv
    <3>5. RegisteredInv' /\ DistanceInv'
      BY <3>1, <3>2, <3>3 DEF ChairInv, RegisteredInv, DistanceInv
    <3>6. ActivityInv'
      BY <3>1, <3>2, <3>3 DEF ChairInv, ActivityInv
    <3>7. OutsideInv'
      BY <3>1, <3>2, <3>3 DEF ChairInv, OutsideInv
    <3> QED
      BY <3>4, <3>5, <3>6, <3>7 DEF ChairInv
  <2> QED
    BY <2>1, <2>2
<1>3. CASE InsertChairs
  <2> DEFINE New == {w.chair : w \in {w \in ToSet(chairBatch) : w.what = "insert"}}
  <2>1. /\ cpc' = "on" /\ chairRows' = chairRows \cup New
        /\ UNCHANGED <<fleet, switchedOn, total, dirty, call, chairQ, chairGen, chairBatch,
                       batchGen, flushing, flushed, activeRows, distances, chairLost>>
    BY <1>3 DEF InsertChairs, fleetVars, callVars, chairQueueVars, flusherVars, chairHistory
  <2>2. ASSUME NEW k \in 1 .. Len(chairBatch), chairBatch[k].what = "insert"
        PROVE  chairBatch[k].chair \in New
    <3>1. chairBatch \in Seq(ChairWrite)
      BY DEF ChairTypeOK
    <3>2. chairBatch[k] \in ToSet(chairBatch)
      BY <3>1 DEF ToSet
    <3> QED
      BY <2>2, <3>2
  <2> HIDE DEF New
  <2>3. /\ CPipe' = CPipe
        /\ \A c : (Inserting(c)' <=> Inserting(c)) /\ (Unchanged(c)' <=> Unchanged(c))
        /\ \A c, w : Says(c, w)' <=> Says(c, w)
    BY <2>1, CPipeSame
  <2>4. \A c : Excused(c)' <=> Excused(c)
    BY <2>1 DEF Excused, StaleChairs
  <2>5. BatchInv'
    <3>1. cpc' # "wait" /\ cpc' # "off"
      BY <2>1
    <3>2. \A k \in 1 .. Len(chairBatch') :
            chairBatch'[k].what = "insert" => chairBatch'[k].chair \in chairRows'
      BY <2>1, <2>2
    <3> QED
      BY <2>3, <3>1, <3>2 DEF ChairInv, BatchInv
  <2>6. RegisteredInv' /\ DistanceInv'
    BY <2>1, <2>3, <2>4 DEF ChairInv, RegisteredInv, DistanceInv
  <2>7. ActivityInv'
    BY <2>1, <2>3, <2>4 DEF ChairInv, ActivityInv
  <2>8. OutsideInv'
    BY <2>1, <2>3, <2>4 DEF ChairInv, OutsideInv
  <2> QED
    BY <2>5, <2>6, <2>7, <2>8 DEF ChairInv
<1>4. CASE UpdateOn
  <2>1. /\ cpc = "on" /\ cpc' = "off"
        /\ activeRows' = activeRows \cup {c \in chairRows : ActivityOf(c) = "on"}
        /\ UNCHANGED <<fleet, switchedOn, total, dirty, call, chairQ, chairGen, chairBatch,
                       batchGen, flushing, flushed, chairRows, distances, chairLost>>
    BY <1>4 DEF UpdateOn, fleetVars, callVars, chairQueueVars, flusherVars, chairHistory
  <2>2. /\ CPipe' = CPipe
        /\ \A c : (Inserting(c)' <=> Inserting(c)) /\ (Unchanged(c)' <=> Unchanged(c))
        /\ \A c, w : Says(c, w)' <=> Says(c, w)
        /\ \A c : ActivityOf(c)' = ActivityOf(c)
    BY <2>1, CPipeSame
  <2>3. \A c : Excused(c)' <=> Excused(c)
    BY <2>1 DEF Excused, StaleChairs
  <2>4. \A c : Unchanged(c) => (c \in activeRows' <=> c \in activeRows)
    <3>1. \A c : Unchanged(c) => ActivityOf(c) # "on"
      BY ActivityOfFacts
    <3> QED
      BY <2>1, <3>1
  <2>5. BatchInv'
    BY <2>1, <2>2 DEF ChairInv, BatchInv
  <2>6. RegisteredInv' /\ DistanceInv'
    BY <2>1, <2>2, <2>3 DEF ChairInv, RegisteredInv, DistanceInv
  <2>7. ActivityInv'
    BY <2>1, <2>2, <2>3, <2>4 DEF ChairInv, ActivityInv
  <2>8. OutsideInv'
    BY <2>1, <2>2, <2>3, <2>4 DEF ChairInv, OutsideInv
  <2> QED
    BY <2>5, <2>6, <2>7, <2>8 DEF ChairInv
<1>5. CASE UpdateOff
  <2>1. /\ cpc = "off" /\ chairBatch' = <<>> /\ cpc' = "wait"
        /\ activeRows' = activeRows \ {c \in chairRows : ActivityOf(c) = "off"}
        /\ UNCHANGED <<fleet, switchedOn, total, dirty, call, chairQ, chairGen, batchGen,
                       flushing, flushed, chairRows, distances, chairLost>>
    BY <1>5 DEF UpdateOff, fleetVars, callVars, chairQueueVars, flusherVars, chairHistory
  <2>2. /\ BatchInv'
        /\ \A c, w : Says(c, w)' => Says(c, w)
        /\ \A c : Unchanged(c) => Unchanged(c)'
        /\ \A c : Inserting(c) => \/ Inserting(c)'
                                  \/ \E k \in 1 .. Len(chairBatch) :
                                       chairBatch[k].chair = c /\ chairBatch[k].what = "insert"
        /\ \A c : Unchanged(c)' =>
              \A l \in Len(chairBatch) + 1 .. Len(CPipe) : ~Change(l, c)
    BY <2>1, BatchLeaves
  <2>3. \A c : ~Excused(c)' => ~Excused(c)
    BY <2>1 DEF Excused
  <2>4. \A c : Inserting(c) => Inserting(c)' \/ c \in chairRows
    BY <2>1, <2>2 DEF ChairInv, BatchInv
  <2>5. \A c : Unchanged(c) => (c \in activeRows' <=> c \in activeRows)
    <3>1. \A c : Unchanged(c) => ActivityOf(c) # "off"
      BY ActivityOfFacts
    <3> QED
      BY <2>1, <3>1
  <2>6. RegisteredInv' /\ DistanceInv'
    BY <2>1, <2>3, <2>4 DEF ChairInv, RegisteredInv, DistanceInv
  <2>7. ASSUME NEW c \in fleet, ~Excused(c)', ~(call[c] \in {"on", "off"}), Unchanged(c)'
        PROVE  c \in activeRows' <=> c \in switchedOn
    <3>1. CASE Unchanged(c)
      BY <2>3, <2>5, <2>7, <3>1 DEF ChairInv, ActivityInv
    <3>2. CASE ~Unchanged(c)
      <4>1. \A l \in Len(chairBatch) + 1 .. Len(CPipe) : ~Change(l, c)
        BY <2>2, <2>7
      <4>2. Says(c, ActivityOf(c))
        BY <3>2, <4>1, ActivityOfFacts
      <4>3. ActivityOf(c) = "on" <=> c \in switchedOn
        BY <2>3, <2>7, <4>2 DEF ChairInv, ActivityInv
      <4>4. PICK k \in 1 .. Len(CPipe) : Change(k, c) /\ CPipe[k].what = ActivityOf(c)
        BY <4>2 DEF Says
      <4>5. ActivityOf(c) \in {"on", "off"}
        BY <4>4, CPipeFacts DEF Change
      <4>6. c \in chairRows
        <5>1. c \in chairRows \/ Inserting(c)
          BY <2>3, <2>7 DEF ChairInv, RegisteredInv
        <5>2. ASSUME Inserting(c) PROVE c \in chairRows
          <6>1. PICK i \in 1 .. Len(CPipe) : CPipe[i].chair = c /\ CPipe[i].what = "insert"
            BY <5>2 DEF Inserting
          <6>2. k <= Len(chairBatch)
            <7>1. Len(chairBatch) \in Nat /\ Len(CPipe) \in Nat
              BY CPipeFacts
            <7>2. k \notin Len(chairBatch) + 1 .. Len(CPipe)
              BY <4>1, <4>4
            <7> QED
              BY <7>1, <7>2
          <6>3. ~(k < i)
            BY <4>4, <6>1 DEF ChairInv, BatchInv, Change
          <6>4. i \in 1 .. Len(chairBatch) /\ CPipe[i] = chairBatch[i]
            <7>1. i \in 1 .. Len(chairBatch)
              BY <6>2, <6>3, CPipeFacts
            <7> QED
              BY <7>1, CPipeFacts
          <6> QED
            BY <2>1, <6>1, <6>4 DEF ChairInv, BatchInv
        <5> QED
          BY <5>1, <5>2
      <4>7. CASE ActivityOf(c) = "on"
        <5>1. c \in activeRows
          BY <2>1, <4>6, <4>7 DEF ChairInv, BatchInv
        <5> QED
          BY <2>1, <4>3, <4>7, <5>1
      <4>8. CASE ActivityOf(c) = "off"
        BY <2>1, <4>3, <4>6, <4>8
      <4> QED
        BY <4>5, <4>7, <4>8
    <3> QED
      BY <3>1, <3>2
  <2>8. ActivityInv'
    BY <2>1, <2>2, <2>3, <2>7 DEF ChairInv, ActivityInv
  <2>9. OutsideInv'
    BY <2>1, <2>2, <2>3, <2>4, <2>5 DEF ChairInv, OutsideInv
  <2> QED
    BY <2>2, <2>6, <2>8, <2>9 DEF ChairInv
<1>6. CASE ChairWriteFails
  BY <1>6, BatchIsDropped DEF ChairWriteFails
<1> QED
  BY <1>1, <1>2, <1>3, <1>4, <1>5, <1>6 DEF ChairWriterStep

LEMMA FlusherKeepsInv ==
  ASSUME ChairTypeOK, ChairInv, FlusherStep, flush = "free" => flushing = {}
  PROVE  ChairInv'
<1>1. /\ UNCHANGED <<fleet, switchedOn, total, call, chairQ, chairGen, cpc, chairBatch, batchGen,
                     chairRows, activeRows>>
      /\ fleet \subseteq Chairs /\ flushing \subseteq Chairs
  BY DEF FlusherStep, TakeDistances, WriteDistances, FlushFails, fleetVars, callVars,
     chairQueueVars, chairWriterVars, chairDbVars, ChairTypeOK
<1>2. /\ CPipe' = CPipe
      /\ \A c : (Inserting(c)' <=> Inserting(c)) /\ (Unchanged(c)' <=> Unchanged(c))
      /\ \A c, w : Says(c, w)' <=> Says(c, w)
      /\ \A c : ActivityOf(c)' = ActivityOf(c)
  BY <1>1, CPipeSame
<1>3. /\ chairLost \subseteq chairLost'
      /\ \A c : Excused(c)' <=> Excused(c) \/ c \in chairLost'
  BY <1>1 DEF FlusherStep, TakeDistances, WriteDistances, FlushFails, Excused, StaleChairs,
     chairHistory
<1>4. BatchInv'
  BY <1>1, <1>2 DEF ChairInv, BatchInv
<1>5. RegisteredInv' /\ ActivityInv'
  BY <1>1, <1>2, <1>3 DEF ChairInv, RegisteredInv, ActivityInv
<1>6. CASE TakeDistances
  <2>1. /\ flush = "free" /\ flushing' = dirty \cap fleet /\ flushed' = total /\ dirty' = {}
        /\ UNCHANGED <<distances, chairLost>>
    BY <1>6 DEF TakeDistances, LockFlushMu, chairDbVars, chairHistory
  <2>2. DistanceInv'
    BY <1>1, <1>3, <2>1 DEF ChairInv, DistanceInv
  <2>3. OutsideInv'
    BY <1>1, <1>2, <1>3, <2>1 DEF ChairInv, OutsideInv
  <2> QED
    BY <1>4, <1>5, <2>2, <2>3 DEF ChairInv
<1>7. CASE WriteDistances
  <2>1. /\ distances' = [c \in Chairs |-> IF c \in flushing THEN flushed[c] ELSE distances[c]]
        /\ flushing' = {} /\ UNCHANGED <<dirty, chairLost>>
    BY <1>7 DEF WriteDistances, fleetVars, chairHistory
  <2>2. DistanceInv'
    BY <1>1, <1>3, <2>1 DEF ChairInv, DistanceInv
  <2>3. OutsideInv'
    BY <1>1, <1>2, <1>3, <2>1 DEF ChairInv, OutsideInv
  <2> QED
    BY <1>4, <1>5, <2>2, <2>3 DEF ChairInv
<1>8. CASE FlushFails
  <2>1. /\ chairLost' = chairLost \cup flushing /\ flushing' = {}
        /\ UNCHANGED <<dirty, distances>>
    BY <1>8 DEF FlushFails, fleetVars, chairDbVars
  <2>2. DistanceInv'
    BY <1>1, <1>3, <2>1 DEF ChairInv, DistanceInv
  <2>3. OutsideInv'
    BY <1>1, <1>2, <1>3, <2>1 DEF ChairInv, OutsideInv
  <2> QED
    BY <1>4, <1>5, <2>2, <2>3 DEF ChairInv
<1> QED
  BY <1>6, <1>7, <1>8 DEF FlusherStep

-----------------------------------------------------------------------------
(* The start, initializations and restarts.  What an initialization knows while it
   runs is the business of the module that composes its steps. *)

LEMMA ChairInitFacts ==
  ASSUME NEW stored \in SUBSET Chairs, NEW budget \in [Chairs -> 0 .. MaxCalls],
         ChairInit(stored, budget)
  PROVE  ChairTypeOK /\ ChairInv
<1>1. /\ chairRows = stored /\ activeRows = {} /\ distances = [c \in Chairs |-> 0]
      /\ fleet = stored /\ switchedOn = {} /\ dirty = {}
      /\ total = [c \in Chairs |-> 0] /\ call = [c \in Chairs |-> "none"]
      /\ calls = budget /\ chairQ = <<>> /\ chairGen = 0 /\ cpc = "wait"
      /\ chairBatch = <<>> /\ batchGen = 0 /\ flushing = {}
      /\ flushed = [c \in Chairs |-> 0] /\ chairLost = {} /\ wiped = {}
  BY DEF ChairInit
<1>2. [c \in Chairs |-> 0] \in [Chairs -> Nat] /\ <<>> \in Seq(ChairWrite) /\ 0 \in Nat
  BY EmptyPipe
<1>3. ChairTypeOK
  <2>1. call \in [Chairs -> {"none", "insert", "on", "off"}]
    BY <1>1
  <2> QED
    BY <1>1, <1>2, <2>1 DEF ChairTypeOK
<1>4. CPipe = <<>> /\ \A k : k \notin 1 .. Len(CPipe) /\ k \notin 1 .. Len(chairBatch)
  <2>1. CPipe = <<>>
    BY <1>1, <1>2, ConcatEmptySeq DEF CPipe
  <2> QED
    BY <1>1, <2>1, EmptyPipe
<1>5. \A c : Unchanged(c) /\ \A w : ~Says(c, w)
  BY <1>4 DEF Unchanged, Says
<1>6. BatchInv
  BY <1>1, <1>4 DEF BatchInv
<1>7. RegisteredInv /\ DistanceInv
  BY <1>1 DEF RegisteredInv, DistanceInv
<1>8. ActivityInv
  BY <1>1, <1>5 DEF ActivityInv
<1>9. OutsideInv
  BY <1>1 DEF OutsideInv
<1> QED
  BY <1>3, <1>6, <1>7, <1>8, <1>9 DEF ChairInv

(* The queue is thrown away, and the batch will be: chairs with an entry in either
   are excused, and the row of every other chair in memory is there. *)
LEMMA DiscardChairWritesKeepsInv ==
  ASSUME ChairTypeOK, ChairInv, DiscardChairWrites, cpc \notin {"insert", "on", "off"},
         batchGen <= chairGen
  PROVE  /\ ChairInv'
         /\ \A c \in fleet \ chairRows : Excused(c)'
<1>1. /\ chairQ' = <<>> /\ chairGen' = chairGen + 1
      /\ chairLost' = chairLost \cup ChairsIn(chairQ)
      /\ UNCHANGED <<fleet, switchedOn, total, dirty, call, cpc, chairBatch, batchGen,
                     flushing, flushed, chairRows, activeRows, distances>>
  BY DEF DiscardChairWrites, fleetVars, callVars, chairWriterVars, flusherVars, chairDbVars
<1>2. StaleChairs'
  <2>1. chairGen \in Nat /\ batchGen \in Nat
    BY DEF ChairTypeOK
  <2>2. batchGen # chairGen + 1
    BY <2>1
  <2> QED
    BY <1>1, <2>2 DEF StaleChairs
<1>3. PICK m \in Nat : m = Len(chairBatch)
  BY CPipeFacts
<1>4. PICK N \in Nat : N = Len(CPipe)
  BY CPipeFacts
<1>5. /\ N = m + Len(chairQ) /\ Len(chairQ) \in Nat /\ m <= N
      /\ \A k \in 1 .. m : CPipe[k] = chairBatch[k]
      /\ \A k \in 1 .. Len(chairQ) : CPipe[m + k] = chairQ[k]
      /\ chairQ \in Seq(ChairWrite) /\ chairBatch \in Seq(ChairWrite)
  <2>1. chairQ \in Seq(ChairWrite) /\ chairBatch \in Seq(ChairWrite)
    BY DEF ChairTypeOK
  <2>2. /\ N = m + Len(chairQ) /\ Len(chairQ) \in Nat
        /\ \A k \in 1 .. m : CPipe[k] = chairBatch[k]
        /\ \A k \in 1 .. Len(chairQ) : CPipe[m + k] = chairQ[k]
    BY <1>3, <1>4, CPipeFacts
  <2> QED
    BY <2>1, <2>2
<1>6. CPipe' = chairBatch
  BY <1>1, <1>5, ConcatEmptySeq DEF CPipe
<1>7. /\ \A k \in 1 .. m : k \in 1 .. Len(CPipe) /\ CPipe[k] = chairBatch[k]
      /\ Len(CPipe') = m
  BY <1>3, <1>4, <1>5, <1>6
<1>8. ASSUME NEW c, ~Excused(c)'
      PROVE  /\ ~Excused(c)
             /\ \A k \in 1 .. Len(CPipe) : CPipe[k].chair # c
             /\ \A k \in 1 .. Len(CPipe') : CPipe'[k].chair # c
  <2>1. c \notin chairLost /\ c \notin ChairsIn(chairQ) /\ c \notin ChairsIn(chairBatch)
    BY <1>1, <1>2, <1>8 DEF Excused
  <2>2. /\ \A k \in 1 .. Len(chairQ) : chairQ[k].chair # c
        /\ \A k \in 1 .. m : chairBatch[k].chair # c
    BY <1>3, <1>5, <2>1, ChairsInType
  <2>3. ASSUME NEW k \in 1 .. N PROVE CPipe[k].chair # c
    <3>1. CASE k \in 1 .. m
      BY <1>5, <2>2, <3>1
    <3>2. CASE k > m
      <4>1. k - m \in 1 .. Len(chairQ) /\ m + (k - m) = k
        BY <1>5, <3>2
      <4> QED
        BY <1>5, <2>2, <4>1
    <3> QED
      BY <3>1, <3>2
  <2> QED
    BY <1>4, <1>6, <1>7, <2>1, <2>2, <2>3 DEF Excused
<1>9. ASSUME NEW c, ~Excused(c)'
      PROVE  /\ ~Inserting(c) /\ Unchanged(c) /\ ~Inserting(c)' /\ Unchanged(c)'
             /\ \A w : ~Says(c, w)'
  <2>1. /\ \A k \in 1 .. Len(CPipe) : CPipe[k].chair # c
        /\ \A k \in 1 .. Len(CPipe') : CPipe'[k].chair # c
    BY <1>8, <1>9
  <2>2. ~Inserting(c) /\ Unchanged(c)
    BY <2>1 DEF Inserting, Unchanged, Change
  <2>3. ~Inserting(c)' /\ Unchanged(c)'
    BY <2>1 DEF Inserting, Unchanged, Change
  <2>4. \A w : ~Says(c, w)'
    BY <2>1 DEF Says, Change
  <2> QED
    BY <2>2, <2>3, <2>4
<1>10. BatchInv'
  <2>1. cpc' \notin {"on", "off"} /\ (cpc' = "wait" => chairBatch' = <<>>)
    BY <1>1 DEF ChairInv, BatchInv
  <2>2. ASSUME NEW k \in 1 .. Len(CPipe'), NEW l \in 1 .. Len(CPipe'), k < l,
               CPipe'[k].chair = CPipe'[l].chair
        PROVE  CPipe'[l].what # "insert"
    <3>1. /\ k \in 1 .. Len(CPipe) /\ l \in 1 .. Len(CPipe)
          /\ CPipe[k] = CPipe'[k] /\ CPipe[l] = CPipe'[l]
      BY <1>6, <1>7
    <3> QED
      BY <2>2, <3>1 DEF ChairInv, BatchInv
  <2> QED
    BY <2>1, <2>2 DEF BatchInv
<1>11. RegisteredInv' /\ DistanceInv'
  BY <1>1, <1>8, <1>9 DEF ChairInv, RegisteredInv, DistanceInv
<1>12. ActivityInv'
  BY <1>1, <1>8, <1>9 DEF ChairInv, ActivityInv
<1>13. OutsideInv'
  BY <1>1, <1>8, <1>9 DEF ChairInv, OutsideInv
<1>14. \A c \in fleet \ chairRows : Excused(c)'
  BY <1>8, <1>9 DEF ChairInv, RegisteredInv
<1> QED
  BY <1>10, <1>11, <1>12, <1>13, <1>14 DEF ChairInv

(* Some tables are emptied: every chair that had a row in chairs is excused, and a
   chair without one had no distance. *)
LEMMA RebuildChairsKeepsInv ==
  ASSUME ChairTypeOK, ChairInv, NEW tables, RebuildChairs(tables), cpc \notin {"on", "off"},
         flushing = {}, "chair_distances" \in tables => "chairs" \in tables,
         \A c \in fleet \ chairRows : Excused(c) \/ distances[c] = 0
  PROVE  ChairInv'
<1>1. /\ UNCHANGED <<fleet, switchedOn, total, dirty, call, chairQ, chairGen, cpc, chairBatch,
                     batchGen, flushing, flushed>>
      /\ \A c \in Chairs : distances'[c] = distances[c] \/ distances'[c] = 0
  BY DEF RebuildChairs, fleetVars, callVars, chairQueueVars, chairWriterVars, flusherVars
<1>2. CASE "chairs" \in tables
  <2>1. /\ chairRows' = {} /\ activeRows' = {} /\ chairLost' = chairLost \cup chairRows
    BY <1>2 DEF RebuildChairs
  <2>2. /\ CPipe' = CPipe
        /\ \A c : (Inserting(c)' <=> Inserting(c)) /\ (Unchanged(c)' <=> Unchanged(c))
        /\ \A c, w : Says(c, w)' <=> Says(c, w)
    BY <1>1, CPipeSame
  <2>3. /\ \A c : ~Excused(c)' => ~Excused(c) /\ c \notin chairRows
        /\ fleet \subseteq Chairs /\ activeRows \subseteq chairRows
    BY <1>1, <2>1 DEF Excused, StaleChairs, ChairTypeOK
  <2>4. ASSUME NEW c \in fleet, ~Excused(c)'
        PROVE  /\ ~Excused(c) /\ c \notin chairRows /\ c \notin activeRows
               /\ distances[c] = 0 /\ distances'[c] = 0
    BY <1>1, <2>3, <2>4
  <2>5. BatchInv'
    BY <1>1, <2>1, <2>2 DEF ChairInv, BatchInv
  <2>6. RegisteredInv' /\ DistanceInv'
    BY <1>1, <2>1, <2>2, <2>4 DEF ChairInv, RegisteredInv, DistanceInv
  <2>7. ActivityInv'
    BY <1>1, <2>1, <2>2, <2>4 DEF ChairInv, ActivityInv
  <2>8. OutsideInv'
    BY <1>1, <2>1, <2>2, <2>3 DEF ChairInv, OutsideInv
  <2> QED
    BY <2>5, <2>6, <2>7, <2>8 DEF ChairInv
<1>3. CASE "chairs" \notin tables
  <2>1. UNCHANGED <<fleetVars, callVars, chairQueueVars, chairWriterVars, flusherVars,
                    chairDbVars, chairLost>>
    BY <1>3 DEF RebuildChairs, chairDbVars
  <2> QED
    BY <2>1, ChairInvStays
<1> QED
  BY <1>2, <1>3

(* Memory is loaded from tables without chairs. *)
LEMMA ReloadChairsKeepsInv ==
  ASSUME ChairTypeOK, ChairInv, ReloadChairs, cpc \notin {"on", "off"}, flushing = {},
         chairRows = {}, \A c \in Chairs : distances[c] = 0,
         \A c \in Chairs : call[c] = "insert" => c \notin fleet
  PROVE  ChairInv'
<1>1. /\ fleet' = {} /\ dirty' = {} /\ total' = [c \in Chairs |-> 0]
      /\ UNCHANGED <<call, chairQ, chairGen, cpc, chairBatch, batchGen, flushing, flushed,
                     chairRows, activeRows, distances, chairLost>>
  BY DEF ReloadChairs, LoadChairs, callVars, chairQueueVars, chairWriterVars, flusherVars,
     chairDbVars, chairHistory
<1>2. /\ CPipe' = CPipe
      /\ \A c : (Inserting(c)' <=> Inserting(c)) /\ (Unchanged(c)' <=> Unchanged(c))
  BY <1>1, CPipeSame
<1>3. \A c : Excused(c)' <=> Excused(c)
  BY <1>1 DEF Excused, StaleChairs
<1>4. BatchInv'
  BY <1>1, <1>2 DEF ChairInv, BatchInv
<1>5. RegisteredInv' /\ ActivityInv' /\ DistanceInv'
  BY <1>1 DEF RegisteredInv, ActivityInv, DistanceInv
<1>6. OutsideInv'
  BY <1>1, <1>2, <1>3 DEF ChairInv, OutsideInv
<1> QED
  BY <1>4, <1>5, <1>6 DEF ChairInv

(* After a restart memory is what was stored; a chair without a row is forgotten, and
   what was on its way with it. *)
LEMMA RestartChairsKeepsInv ==
  ASSUME ChairTypeOK, ChairInv, RestartChairs
  PROVE  ChairInv'
<1>1. /\ fleet' = chairRows /\ switchedOn' = activeRows /\ dirty' = {}
      /\ total' = [c \in Chairs |-> IF c \in chairRows THEN distances[c] ELSE 0]
      /\ call' = [c \in Chairs |-> "none"]
      /\ chairQ' = <<>> /\ cpc' = "wait" /\ chairBatch' = <<>> /\ flushing' = {}
      /\ chairLost' = chairLost \cup (fleet \ chairRows)
      /\ UNCHANGED <<chairRows, activeRows, distances>>
  BY DEF RestartChairs, LoadChairs, chairDbVars
<1>2. CPipe' = <<>> /\ \A k : k \notin 1 .. Len(CPipe') /\ k \notin 1 .. Len(chairBatch')
  <2>1. <<>> \in Seq(ChairWrite)
    BY EmptyPipe
  <2>2. CPipe' = <<>>
    BY <1>1, <2>1, ConcatEmptySeq DEF CPipe
  <2> QED
    BY <1>1, <2>2, EmptyPipe
<1>3. \A c : Unchanged(c)' /\ \A w : ~Says(c, w)'
  BY <1>2 DEF Unchanged, Says
<1>4. BatchInv'
  BY <1>1, <1>2 DEF BatchInv
<1>5. chairRows \subseteq Chairs /\ \A c \in chairRows : total'[c] = distances[c]
  BY <1>1 DEF ChairTypeOK
<1>6. RegisteredInv' /\ DistanceInv'
  BY <1>1, <1>5 DEF RegisteredInv, DistanceInv
<1>7. ActivityInv'
  BY <1>1, <1>3, <1>5 DEF ActivityInv
<1>8. OutsideInv'
  <2>1. ASSUME NEW c \in Chairs \ chairRows, c \notin chairLost' PROVE distances[c] = 0
    <3>1. c \notin fleet /\ c \notin chairLost
      BY <1>1, <2>1
    <3> QED
      BY <3>1 DEF ChairInv, OutsideInv
  <2>2. \A c \in Chairs \ chairRows : total'[c] = 0 /\ call'[c] # "insert"
    BY <1>1
  <2> QED
    BY <1>1, <2>1, <2>2 DEF OutsideInv
<1> QED
  BY <1>4, <1>6, <1>7, <1>8 DEF ChairInv

(* What the invariant is for. *)
LEMMA ChairInvSuffices ==
  ASSUME ChairTypeOK, ChairInv
  PROVE  ChairsCatchUp
<1> SUFFICES ASSUME NEW c \in fleet \ chairLost, Settled(c)
             PROVE  /\ c \in chairRows /\ (c \in activeRows <=> c \in switchedOn)
                    /\ distances[c] = total[c]
  BY DEF ChairsCatchUp
<1>1. /\ call[c] = "none" /\ c \notin ChairsIn(chairQ) /\ c \notin ChairsIn(chairBatch)
      /\ c \notin dirty /\ c \notin flushing
  BY DEF Settled
<1>2. ~Excused(c)
  BY <1>1 DEF Excused
<1>3. \A k \in 1 .. Len(CPipe) : CPipe[k].chair # c
  <2>1. /\ chairQ \in Seq(ChairWrite) /\ chairBatch \in Seq(ChairWrite)
    BY DEF ChairTypeOK
  <2>2. /\ \A k \in 1 .. Len(chairQ) : chairQ[k].chair # c
        /\ \A k \in 1 .. Len(chairBatch) : chairBatch[k].chair # c
    BY <1>1, <2>1, ChairsInType
  <2>3. /\ Len(CPipe) = Len(chairBatch) + Len(chairQ)
        /\ Len(chairBatch) \in Nat /\ Len(chairQ) \in Nat
        /\ \A k \in 1 .. Len(chairBatch) : CPipe[k] = chairBatch[k]
        /\ \A k \in 1 .. Len(chairQ) : CPipe[Len(chairBatch) + k] = chairQ[k]
    BY CPipeFacts
  <2> TAKE k \in 1 .. Len(CPipe)
  <2>4. CASE k \in 1 .. Len(chairBatch)
    BY <2>2, <2>3, <2>4
  <2>5. CASE k > Len(chairBatch)
    <3>1. /\ k - Len(chairBatch) \in 1 .. Len(chairQ)
          /\ Len(chairBatch) + (k - Len(chairBatch)) = k
      BY <2>3, <2>5
    <3> QED
      BY <2>2, <2>3, <3>1
  <2> QED
    BY <2>3, <2>4, <2>5
<1>4. ~Inserting(c) /\ Unchanged(c)
  BY <1>3 DEF Inserting, Unchanged, Change
<1> QED
  BY <1>1, <1>2, <1>4 DEF ChairInv, RegisteredInv, ActivityInv, DistanceInv

=============================================================================
