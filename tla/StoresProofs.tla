---------------------------- MODULE StoresProofs ----------------------------
(***************************************************************************)
(* Both stores with initializations and restarts, for every set of rides   *)
(* and chairs, any number of initializations and restarts, and every       *)
(* length of queue, batch and transaction.  First that what an             *)
(* initialization throws away stays away, from the lock and the            *)
(* generations; then, with the lemmas of WriterProofs, that memory and     *)
(* database agree but for what was refused or is on its way.               *)
(***************************************************************************)
EXTENDS Stores, WriterProofs

(***************************************************************************)
(* The inductive invariant.                                                *)
(***************************************************************************)

(* The shapes of what the argument speaks of. *)
RideShapes ==
  /\ recorded \in [Rides -> Status \cup {""}]
  /\ q \in Seq(Write) /\ batch \in Seq(Write)
  /\ gen \in Nat /\ wgen \in Nat /\ wgen <= gen

ChairShapes ==
  /\ call \in [Chairs -> {"none", "insert", "on", "off"}]
  /\ chairQ \in Seq(ChairWrite) /\ chairBatch \in Seq(ChairWrite)
  /\ chairGen \in Nat /\ batchGen \in Nat /\ batchGen <= chairGen
  /\ fleet \subseteq Chairs /\ chairRows \subseteq Chairs

(* flushMu is held by the one who is past it. *)
LockInv ==
  /\ flush = "init" <=> ipc # "idle"
  /\ wpc = "writing" => flush = "writer" /\ wgen = gen
  /\ cpc \in {"insert", "on", "off"} => flush = "chairs" /\ batchGen = chairGen
  /\ flushing # {} => flush = "flusher"

(* What a pipe holds of the run before was queued after the last discard. *)
OnlyLate(pipe) ==
  \A i \in 1 .. Len(pipe) :
    pipe[i].ride \in gone => <<pipe[i].ride, pipe[i].status>> \in late

GenerationInv ==
  /\ OnlyLate(q)
  /\ wgen = gen => OnlyLate(batch)
  /\ strays \subseteq late

(* No insertion of a chair of the run before is left, but in a stale batch. *)
Fresh(pipe) ==
  \A i \in 1 .. Len(pipe) : pipe[i].what = "insert" => pipe[i].chair \notin wiped

InsertInv ==
  /\ Fresh(chairQ)
  /\ batchGen = chairGen => Fresh(chairBatch)
  /\ \A c \in Chairs : call[c] = "insert" => c \notin fleet \cup wiped

(* The chairs of the run before leave memory and database. *)
WipedInv ==
  /\ ipc \in {"rebuilt", "idle"} =>
       \A c \in wiped : c \notin chairRows /\ distances[c] = 0
  /\ ipc = "rebuilt" => chairRows = {}
  /\ ipc = "idle" => wiped \cap fleet = {}
  /\ wiped \cap flushing = {}
  /\ wiped \subseteq Chairs

RidePart == RideShapes /\ GenerationInv
ChairPart == ChairShapes /\ InsertInv /\ WipedInv
IInv == RidePart /\ LockInv /\ ChairPart

-----------------------------------------------------------------------------
(***************************************************************************)
(* The ride writer and its handlers.                                       *)
(***************************************************************************)

LEMMA ChairPartStays ==
  ASSUME ChairPart, UNCHANGED <<chairVars, ipc>>
  PROVE  ChairPart'
BY DEF ChairPart, ChairShapes, InsertInv, Fresh, WipedInv, chairVars, fleetVars, callVars,
   chairQueueVars, chairWriterVars, flusherVars, chairDbVars, chairHistory

LEMMA RidePartStays ==
  ASSUME RidePart, UNCHANGED rideVars
  PROVE  RidePart'
BY DEF RidePart, RideShapes, GenerationInv, OnlyLate, rideVars, memVars, handlerVars,
   queueVars, writerVars, dbVars, historyVars

(* A write of the run before that is queued is late. *)
LEMMA EnqueueKeeps ==
  ASSUME RidePart, NEW r \in Rides, NEW s \in Status, Enqueue(r, s),
         UNCHANGED <<gen, batch, wgen, gone, strays>>
  PROVE  /\ q' \in Seq(Write) /\ GenerationInv'
<1>1. /\ Queued(r, s) \in Write /\ Queued(r, s).ride = r /\ Queued(r, s).status = s
      /\ q \in Seq(Write)
  BY DEF Queued, Write, RidePart, RideShapes
<1>2. /\ q' \in Seq(Write) /\ Len(q') = Len(q) + 1
      /\ \A i \in 1 .. Len(q) : q'[i] = q[i]
      /\ q'[Len(q) + 1] = Queued(r, s)
  BY <1>1 DEF Enqueue
<1>3. /\ late \subseteq late'
      /\ r \in gone => <<r, s>> \in late'
  BY DEF Enqueue
<1>4. OnlyLate(q)'
  <2> SUFFICES ASSUME NEW i \in 1 .. Len(q'), q'[i].ride \in gone
               PROVE  <<q'[i].ride, q'[i].status>> \in late'
    BY DEF OnlyLate
  <2>1. CASE i \in 1 .. Len(q)
    <3>1. q[i].ride \in gone => <<q[i].ride, q[i].status>> \in late
      BY <2>1 DEF RidePart, GenerationInv, OnlyLate
    <3> QED
      BY <1>2, <1>3, <2>1, <3>1
  <2>2. CASE i = Len(q) + 1
    <3>1. q'[i].ride = r /\ q'[i].status = s
      BY <1>1, <1>2, <2>2
    <3> QED
      BY <1>3, <3>1
  <2> QED
    BY <1>1, <1>2, <2>1, <2>2
<1>5. wgen' = gen' => OnlyLate(batch)'
  <2> SUFFICES ASSUME wgen = gen, NEW i \in 1 .. Len(batch), batch[i].ride \in gone
               PROVE  <<batch[i].ride, batch[i].status>> \in late'
    BY DEF OnlyLate
  <2>1. <<batch[i].ride, batch[i].status>> \in late
    BY DEF RidePart, GenerationInv, OnlyLate
  <2> QED
    BY <1>3, <2>1
<1>6. strays' \subseteq late'
  BY <1>3 DEF RidePart, GenerationInv
<1> QED
  BY <1>2, <1>4, <1>5, <1>6 DEF GenerationInv

LEMMA RideCallKeeps ==
  ASSUME RidePart, NEW r \in Rides, CreateRide(r) \/ RideCall(r)
  PROVE  RidePart' /\ UNCHANGED <<flush, wpc, wgen, gen, gone>>
<1>1. UNCHANGED <<q, gen, batch, wpc, wgen, gone, late, strays, flush>>
  BY DEF CreateRide, RideCall, RecordStatus, BeginEvaluation, AbortEvaluation, queueVars,
     writerVars, historyVars
<1>2. recorded' \in [Rides -> Status \cup {""}]
  <2>1. CASE RecordStatus(r)
    <3>1. ChairNext(LatestStatus(r)) \in Status \cup {""}
      BY DEF ChairNext, Status
    <3> QED
      BY <2>1, <3>1 DEF RecordStatus, RidePart, RideShapes
  <2>2. CASE CreateRide(r) \/ BeginEvaluation(r) \/ AbortEvaluation(r)
    BY <2>2 DEF CreateRide, BeginEvaluation, AbortEvaluation, handlerVars, RidePart, RideShapes
  <2> QED
    BY <2>1, <2>2 DEF RideCall
<1> QED
  BY <1>1, <1>2 DEF RidePart, RideShapes, GenerationInv, OnlyLate

LEMMA RideHandlerKeeps ==
  ASSUME RidePart, NEW r \in Rides, RideHandlerStep(r)
  PROVE  RidePart' /\ UNCHANGED <<flush, wpc, wgen, gen, gone, known>>
<1>1. CASE EnqueueStatus(r)
  <2>1. /\ recorded[r] \in Status /\ Enqueue(r, recorded[r])
        /\ recorded' = [recorded EXCEPT ![r] = ""]
        /\ UNCHANGED <<gen, batch, wpc, wgen, gone, strays, flush, known>>
    BY <1>1 DEF EnqueueStatus, RidePart, RideShapes, writerVars, dbVars
  <2>2. q' \in Seq(Write) /\ GenerationInv'
    BY <2>1, EnqueueKeeps
  <2> QED
    BY <2>1, <2>2 DEF RidePart, RideShapes
<1>2. CASE EnqueueCompleted(r)
  <2>1. /\ Enqueue(r, "COMPLETED") /\ "COMPLETED" \in Status
        /\ UNCHANGED <<recorded, gen, batch, wpc, wgen, gone, strays, flush, known>>
    BY <1>2 DEF EnqueueCompleted, writerVars, dbVars, Status
  <2>2. q' \in Seq(Write) /\ GenerationInv'
    BY <2>1, EnqueueKeeps
  <2> QED
    BY <2>1, <2>2 DEF RidePart, RideShapes
<1>3. CASE RecordCompleted(r)
  BY <1>3 DEF RecordCompleted, queueVars, writerVars, dbVars, historyVars, RidePart,
     RideShapes, GenerationInv, OnlyLate
<1> QED
  BY <1>1, <1>2, <1>3 DEF RideHandlerStep

LEMMA TakeBatchKeeps ==
  ASSUME RidePart, LockInv, TakeBatch, UNCHANGED <<chairVars, ipc>>
  PROVE  RidePart' /\ LockInv'
<1>1. /\ batch' = q /\ q' = <<>> /\ wgen' = gen /\ wpc' = "taken"
      /\ UNCHANGED <<recorded, gen, flush, gone, late, strays, cpc, batchGen, chairGen,
                     flushing>>
  BY DEF TakeBatch, handlerVars, historyVars, chairVars, chairWriterVars, chairQueueVars,
     flusherVars
<1>2. q' \in Seq(Write) /\ \A i : i \notin 1 .. Len(q')
  BY <1>1
<1>3. RidePart'
  <2>1. RideShapes'
    <3>1. wgen' = gen /\ gen' = gen /\ gen \in Nat
      BY <1>1 DEF RidePart, RideShapes
    <3>2. wgen' \in Nat /\ gen' \in Nat /\ wgen' <= gen'
      BY <3>1
    <3> QED
      BY <1>1, <1>2, <3>2 DEF RidePart, RideShapes
  <2>2. OnlyLate(q)' /\ strays' \subseteq late'
    BY <1>1, <1>2 DEF RidePart, GenerationInv, OnlyLate
  <2>3. OnlyLate(batch)'
    BY <1>1 DEF RidePart, GenerationInv, OnlyLate
  <2> QED
    BY <2>1, <2>2, <2>3 DEF RidePart, GenerationInv
<1>4. LockInv'
  BY <1>1 DEF LockInv
<1> QED
  BY <1>3, <1>4

LEMMA LockFlushKeeps ==
  ASSUME RidePart, LockInv, LockFlush, UNCHANGED <<chairVars, ipc>>
  PROVE  RidePart' /\ LockInv'
<1>1. /\ UNCHANGED <<recorded, q, gen, wgen, gone, late, strays, cpc, batchGen, chairGen,
                     flushing>>
      /\ flush = "free"
  BY DEF LockFlush, handlerVars, queueVars, chairVars, chairWriterVars, chairQueueVars,
     flusherVars
<1>2. CASE Stale
  <2>1. batch' = <<>> /\ wpc' = "wait" /\ UNCHANGED flush
    BY <1>2 DEF LockFlush
  <2>2. batch' \in Seq(Write) /\ \A i : i \notin 1 .. Len(batch')
    BY <2>1
  <2>3. RidePart'
    BY <1>1, <2>2 DEF RidePart, RideShapes, GenerationInv, OnlyLate
  <2>4. LockInv'
    BY <1>1, <2>1 DEF LockInv
  <2> QED
    BY <2>3, <2>4
<1>3. CASE ~Stale
  BY <1>1, <1>3 DEF LockFlush, Stale, RidePart, RideShapes, GenerationInv, OnlyLate, LockInv
<1> QED
  BY <1>2, <1>3

(* A chunk is written under flushMu, in the generation of the queue: what it stores
   of a ride that is gone is late. *)
LEMMA WriteChunkKeeps ==
  ASSUME RidePart, LockInv, RideTypeOK, RideInv, WriteChunk, UNCHANGED <<chairVars, ipc>>
  PROVE  RidePart' /\ LockInv'
<1>1. /\ UNCHANGED <<recorded, q, gen, wpc, wgen, gone, late, flush, cpc, batchGen, chairGen,
                     flushing>>
      /\ wpc = "writing" /\ wgen = gen
      /\ batch' = SubSeq(batch, Len(Chunk) + 1, Len(batch))
      /\ strays' = strays \cup Orphans
      /\ batch \in Seq(Write)
  BY DEF WriteChunk, handlerVars, queueVars, chairVars, chairWriterVars, chairQueueVars,
     flusherVars, LockInv, RidePart, RideShapes
<1>2. batch # <<>>
  BY DEF WriteChunk
<1>3. /\ Len(Chunk) \in 1 .. Len(batch) /\ Chunk \in Seq(Write)
      /\ \A k \in 1 .. Len(Chunk) : Chunk[k] = batch[k]
  BY <1>1, <1>2, ChunkFacts
<1>4. PICK n \in 1 .. Len(batch) : n = Len(Chunk)
  BY <1>3
<1>5. Len(batch) \in Nat /\ n \in 0 .. Len(batch)
  <2>1. Len(batch) \in Nat
    BY <1>1, LenProperties
  <2> QED
    BY <2>1
<1>6. /\ batch' \in Seq(Write) /\ Len(batch') = Len(batch) - n
      /\ \A k \in 1 .. Len(batch) - n : batch'[k] = batch[n + k]
  BY <1>1, <1>4, <1>5, RestOf
<1>7. OnlyLate(batch)
  BY <1>1 DEF RidePart, GenerationInv
<1>8. OnlyLate(batch)'
  <2>1. \A k \in 1 .. Len(batch) - n : n + k \in 1 .. Len(batch)
    BY <1>5
  <2> QED
    BY <1>1, <1>6, <1>7, <2>1 DEF OnlyLate
<1>9. Orphans \subseteq late
  <2> SUFFICES ASSUME NEW ref \in Orphans PROVE ref \in late
    OBVIOUS
  <2>1. PICK w \in ToSet(Chunk) : ref = <<w.ride, w.status>> /\ w.ride \notin known
    BY DEF Orphans, Refs
  <2>2. PICK k \in 1 .. n : w = batch[k]
    BY <1>3, <1>4, <2>1 DEF ToSet
  <2>3. k \in 1 .. Len(batch)
    BY <1>5
  <2>4. Waits(w.ride, w.status) /\ w.ride \in Rides /\ w.status \in Status
    <3>1. /\ k \in 1 .. Len(Pipe) /\ Pipe[k] = w
          /\ Pipe[k].ride \in Rides /\ Pipe[k].status \in Status
      BY <2>2, <2>3, PipeFacts
    <3> QED
      BY <3>1 DEF Waits
  <2>5. w.ride \in gone
    BY <2>1, <2>4 DEF RideInv, FreshInv
  <2> QED
    BY <1>7, <2>1, <2>2, <2>3, <2>5 DEF OnlyLate
<1>10. RidePart'
  <2>1. RideShapes'
    BY <1>1, <1>6 DEF RidePart, RideShapes
  <2>2. OnlyLate(q)'
    BY <1>1 DEF RidePart, GenerationInv, OnlyLate
  <2>3. strays' \subseteq late'
    BY <1>1, <1>9 DEF RidePart, GenerationInv
  <2> QED
    BY <1>8, <2>1, <2>2, <2>3 DEF RidePart, GenerationInv
<1>11. LockInv'
  BY <1>1 DEF LockInv
<1> QED
  BY <1>10, <1>11

LEMMA WriteFailsKeeps ==
  ASSUME RidePart, LockInv, WriteFails, UNCHANGED <<chairVars, ipc>>
  PROVE  RidePart' /\ LockInv'
<1>1. /\ UNCHANGED <<recorded, q, gen, wpc, wgen, flush, gone, late, strays, cpc, batchGen,
                     chairGen, flushing>>
      /\ batch' = <<>>
  BY DEF WriteFails, handlerVars, queueVars, chairVars, chairWriterVars, chairQueueVars,
     flusherVars
<1>2. batch' \in Seq(Write) /\ \A i : i \notin 1 .. Len(batch')
  BY <1>1
<1>3. RidePart'
  BY <1>1, <1>2 DEF RidePart, RideShapes, GenerationInv, OnlyLate
<1>4. LockInv'
  BY <1>1 DEF LockInv
<1> QED
  BY <1>3, <1>4

LEMMA UnlockFlushKeeps ==
  ASSUME RidePart, LockInv, UnlockFlush, UNCHANGED <<chairVars, ipc>>
  PROVE  RidePart' /\ LockInv'
BY DEF UnlockFlush, handlerVars, queueVars, historyVars, chairVars, chairWriterVars,
   chairQueueVars, flusherVars, RidePart, RideShapes, GenerationInv, OnlyLate, LockInv

(* All steps of the rides. *)
LEMMA RideStepKeeps ==
  ASSUME IInv, RideTypeOK, RideInv, RequestRide \/ RideStep, UNCHANGED <<chairVars, initVars>>
  PROVE  IInv'
<1>1. UNCHANGED ipc /\ ChairPart'
  BY ChairPartStays DEF IInv, initVars
<1>2. CASE \E r \in Rides : CreateRide(r) \/ RideCall(r) \/ RideHandlerStep(r)
  <2>1. RidePart' /\ UNCHANGED <<flush, wpc, wgen, gen>>
    BY <1>2, RideCallKeeps, RideHandlerKeeps DEF IInv
  <2>2. LockInv'
    BY <1>1, <2>1 DEF IInv, LockInv, chairVars, chairWriterVars, chairQueueVars, flusherVars
  <2> QED
    BY <1>1, <2>1, <2>2 DEF IInv
<1>3. CASE RideWriterStep
  BY <1>1, <1>3, TakeBatchKeeps, LockFlushKeeps, WriteChunkKeeps, WriteFailsKeeps,
     UnlockFlushKeeps DEF RideWriterStep, IInv
<1> QED
  BY <1>2, <1>3 DEF RequestRide, RideStep

-----------------------------------------------------------------------------
(***************************************************************************)
(* The chairs, their writer and the flusher.                               *)
(***************************************************************************)

(* The chairs' steps leave the rides alone, and flushMu with them if they do. *)
LEMMA RideSideStays ==
  ASSUME IInv, UNCHANGED <<rideVars, initVars, flush, chairWriterVars, chairGen>>,
         flushing' = flushing
  PROVE  RidePart' /\ LockInv' /\ UNCHANGED ipc
<1>1. RidePart'
  BY RidePartStays DEF IInv
<1>2. LockInv'
  BY DEF IInv, LockInv, rideVars, writerVars, queueVars, initVars, chairWriterVars
<1> QED
  BY <1>1, <1>2 DEF initVars

(* An entry is queued whose chair, if it is new, is not of the run before. *)
LEMMA EnqueueChairKeeps ==
  ASSUME ChairShapes, InsertInv, NEW c \in Chairs, NEW what \in {"insert", "on", "off"},
         what = "insert" => c \notin wiped,
         chairQ' = Append(chairQ, ChairQueued(c, what)), UNCHANGED wiped
  PROVE  chairQ' \in Seq(ChairWrite) /\ Fresh(chairQ)'
<1>1. /\ ChairQueued(c, what) \in ChairWrite /\ chairQ \in Seq(ChairWrite)
      /\ ChairQueued(c, what).chair = c /\ ChairQueued(c, what).what = what
  BY DEF ChairQueued, ChairWrite, ChairShapes
<1>2. /\ chairQ' \in Seq(ChairWrite) /\ Len(chairQ') = Len(chairQ) + 1
      /\ \A i \in 1 .. Len(chairQ) : chairQ'[i] = chairQ[i]
      /\ chairQ'[Len(chairQ) + 1] = ChairQueued(c, what)
  BY <1>1
<1>3. \A i \in 1 .. Len(chairQ) : chairQ[i].what = "insert" => chairQ[i].chair \notin wiped
  BY DEF InsertInv, Fresh
<1>4. ASSUME NEW i \in 1 .. Len(chairQ'), chairQ'[i].what = "insert"
      PROVE  chairQ'[i].chair \notin wiped
  <2>1. CASE i \in 1 .. Len(chairQ)
    BY <1>2, <1>3, <1>4, <2>1
  <2>2. CASE i = Len(chairQ) + 1
    BY <1>1, <1>2, <1>4, <2>2
  <2> QED
    BY <1>1, <1>2, <2>1, <2>2
<1> QED
  BY <1>2, <1>4 DEF Fresh

LEMMA RegisterChairKeeps ==
  ASSUME IInv, NEW c \in Chairs, RegisterChair(c), UNCHANGED <<rideVars, initVars>>
  PROVE  IInv'
<1>1. /\ c \notin fleet \cup wiped
      /\ chairQ' = Append(chairQ, ChairQueued(c, "insert"))
      /\ call' = [call EXCEPT ![c] = "insert"]
      /\ UNCHANGED <<fleet, chairGen, cpc, chairBatch, batchGen, flush, flushing,
                     chairRows, distances, wiped, chairWriterVars>>
  BY DEF RegisterChair, fleetVars, chairWriterVars, flusherVars, chairDbVars, chairHistory
<1>2. chairQ' \in Seq(ChairWrite) /\ Fresh(chairQ)'
  BY <1>1, EnqueueChairKeeps DEF IInv, ChairPart
<1>3. RidePart' /\ LockInv' /\ UNCHANGED ipc
  BY <1>1, RideSideStays
<1>4. ChairShapes'
  BY <1>1, <1>2 DEF IInv, ChairPart, ChairShapes
<1>5. InsertInv'
  BY <1>1, <1>2 DEF IInv, ChairPart, ChairShapes, InsertInv, Fresh
<1>6. WipedInv'
  BY <1>1, <1>3 DEF IInv, ChairPart, WipedInv
<1> QED
  BY <1>3, <1>4, <1>5, <1>6 DEF IInv, ChairPart

LEMMA AddChairKeeps ==
  ASSUME IInv, NEW c \in Chairs, AddChair(c), UNCHANGED <<rideVars, initVars>>
  PROVE  IInv'
<1>1. /\ call[c] = "insert" /\ fleet' = fleet \cup {c}
      /\ call' = [call EXCEPT ![c] = "none"]
      /\ UNCHANGED <<chairQ, chairGen, cpc, chairBatch, batchGen, flush, flushing,
                     chairRows, distances, wiped, chairWriterVars>>
  BY DEF AddChair, chairQueueVars, chairWriterVars, flusherVars, chairDbVars, chairHistory
<1>2. c \notin wiped
  BY <1>1 DEF IInv, ChairPart, InsertInv
<1>3. RidePart' /\ LockInv' /\ UNCHANGED ipc
  BY <1>1, RideSideStays
<1>4. ChairShapes'
  BY <1>1 DEF IInv, ChairPart, ChairShapes
<1>5. InsertInv'
  BY <1>1 DEF IInv, ChairPart, ChairShapes, InsertInv, Fresh
<1>6. WipedInv'
  BY <1>1, <1>2, <1>3 DEF IInv, ChairPart, WipedInv
<1> QED
  BY <1>3, <1>4, <1>5, <1>6 DEF IInv, ChairPart

LEMMA SwitchChairKeeps ==
  ASSUME IInv, NEW c \in Chairs, NEW what \in {"on", "off"}, SwitchChair(c, what),
         UNCHANGED <<rideVars, initVars>>
  PROVE  IInv'
<1>1. /\ call' = [call EXCEPT ![c] = what]
      /\ UNCHANGED <<fleet, chairQ, chairGen, cpc, chairBatch, batchGen, flush, flushing,
                     chairRows, distances, wiped, chairWriterVars>>
  BY DEF SwitchChair, chairQueueVars, chairWriterVars, flusherVars, chairDbVars, chairHistory
<1>3. RidePart' /\ LockInv' /\ UNCHANGED ipc
  BY <1>1, RideSideStays
<1>4. ChairShapes'
  BY <1>1 DEF IInv, ChairPart, ChairShapes
<1>5. InsertInv'
  BY <1>1 DEF IInv, ChairPart, ChairShapes, InsertInv, Fresh
<1>6. WipedInv'
  BY <1>1, <1>3 DEF IInv, ChairPart, WipedInv
<1> QED
  BY <1>3, <1>4, <1>5, <1>6 DEF IInv, ChairPart

LEMMA EnqueueActivityKeeps ==
  ASSUME IInv, NEW c \in Chairs, EnqueueActivity(c), UNCHANGED <<rideVars, initVars>>
  PROVE  IInv'
<1>1. /\ call[c] \in {"on", "off"}
      /\ chairQ' = Append(chairQ, ChairQueued(c, call[c]))
      /\ call' = [call EXCEPT ![c] = "none"]
      /\ UNCHANGED <<fleet, chairGen, cpc, chairBatch, batchGen, flush, flushing,
                     chairRows, distances, wiped, chairWriterVars>>
  BY DEF EnqueueActivity, fleetVars, chairWriterVars, flusherVars, chairDbVars, chairHistory
<1>2. chairQ' \in Seq(ChairWrite) /\ Fresh(chairQ)'
  BY <1>1, EnqueueChairKeeps DEF IInv, ChairPart
<1>3. RidePart' /\ LockInv' /\ UNCHANGED ipc
  BY <1>1, RideSideStays
<1>4. ChairShapes'
  BY <1>1, <1>2 DEF IInv, ChairPart, ChairShapes
<1>5. InsertInv'
  BY <1>1, <1>2 DEF IInv, ChairPart, ChairShapes, InsertInv, Fresh
<1>6. WipedInv'
  BY <1>1, <1>3 DEF IInv, ChairPart, WipedInv
<1> QED
  BY <1>3, <1>4, <1>5, <1>6 DEF IInv, ChairPart

LEMMA MoveChairKeeps ==
  ASSUME IInv, NEW c \in Chairs, MoveChair(c), UNCHANGED <<rideVars, initVars>>
  PROVE  IInv'
<1>1. UNCHANGED <<fleet, call, chairQ, chairGen, cpc, chairBatch, batchGen, flush, flushing,
                  chairRows, distances, wiped, chairWriterVars>>
  BY DEF MoveChair, chairQueueVars, chairWriterVars, flusherVars, chairDbVars, chairHistory
<1>2. RidePart' /\ LockInv' /\ UNCHANGED ipc
  BY <1>1, RideSideStays
<1>3. ChairPart'
  BY <1>1, <1>2 DEF IInv, ChairPart, ChairShapes, InsertInv, Fresh, WipedInv
<1> QED
  BY <1>2, <1>3 DEF IInv

LEMMA TakeChairBatchKeeps ==
  ASSUME IInv, TakeChairBatch, UNCHANGED <<rideVars, initVars>>
  PROVE  IInv'
<1>1. /\ chairBatch' = chairQ /\ chairQ' = <<>> /\ batchGen' = chairGen /\ cpc' = "taken"
      /\ UNCHANGED <<fleet, call, chairGen, flush, flushing, chairRows, distances, wiped>>
      /\ UNCHANGED <<wpc, wgen, gen, ipc>>
  BY DEF TakeChairBatch, fleetVars, callVars, flusherVars, chairDbVars, chairHistory,
     rideVars, writerVars, queueVars, initVars
<1>2. chairQ' \in Seq(ChairWrite) /\ \A i : i \notin 1 .. Len(chairQ')
  BY <1>1
<1>3. RidePart'
  BY RidePartStays DEF IInv
<1>4. LockInv'
  BY <1>1 DEF IInv, LockInv
<1>5. ChairShapes'
  BY <1>1, <1>2 DEF IInv, ChairPart, ChairShapes
<1>6. InsertInv'
  BY <1>1, <1>2 DEF IInv, ChairPart, InsertInv, Fresh
<1>7. WipedInv'
  BY <1>1 DEF IInv, ChairPart, WipedInv
<1> QED
  BY <1>3, <1>4, <1>5, <1>6, <1>7 DEF IInv, ChairPart

(* A batch ends: dropped, refused, or written. *)
LEMMA BatchEndKeeps ==
  ASSUME IInv, chairBatch' = <<>>, cpc' = "wait",
         flush' = "free" /\ flush \in {"free", "chairs"},
         UNCHANGED <<rideVars, initVars, fleet, call, chairQ, chairGen, batchGen,
                     flushing, chairRows, distances, wiped>>
  PROVE  IInv'
<1>1. UNCHANGED <<wpc, wgen, gen, ipc>>
  BY DEF rideVars, writerVars, queueVars, initVars
<1>2. chairBatch' \in Seq(ChairWrite) /\ \A i : i \notin 1 .. Len(chairBatch')
  OBVIOUS
<1>3. RidePart'
  BY RidePartStays DEF IInv
<1>4. LockInv'
  BY <1>1 DEF IInv, LockInv
<1>5. ChairShapes'
  BY <1>2 DEF IInv, ChairPart, ChairShapes
<1>6. InsertInv'
  BY <1>2 DEF IInv, ChairPart, InsertInv, Fresh
<1>7. WipedInv'
  BY <1>1 DEF IInv, ChairPart, WipedInv
<1> QED
  BY <1>3, <1>4, <1>5, <1>6, <1>7 DEF IInv, ChairPart

LEMMA LockChairsKeeps ==
  ASSUME IInv, LockChairs, UNCHANGED <<rideVars, initVars>>
  PROVE  IInv'
<1>1. /\ UNCHANGED <<fleet, call, chairQ, chairGen, batchGen, flushing, chairRows,
                     distances, wiped, wpc, wgen, gen, ipc>>
      /\ flush = "free"
  BY DEF LockChairs, fleetVars, callVars, chairQueueVars, flusherVars, chairDbVars,
     rideVars, writerVars, queueVars, initVars
<1>2. CASE StaleChairs
  BY <1>1, <1>2, BatchEndKeeps DEF LockChairs
<1>3. CASE ~StaleChairs
  <2>1. /\ flush' = "chairs" /\ cpc' = "insert" /\ UNCHANGED chairBatch
        /\ batchGen = chairGen
    BY <1>3 DEF LockChairs, StaleChairs, LockFlushMu
  <2>2. RidePart'
    BY RidePartStays DEF IInv
  <2>3. LockInv'
    BY <1>1, <2>1 DEF IInv, LockInv
  <2>4. ChairPart'
    BY <1>1, <2>1 DEF IInv, ChairPart, ChairShapes, InsertInv, Fresh, WipedInv
  <2> QED
    BY <2>2, <2>3, <2>4 DEF IInv
<1> QED
  BY <1>2, <1>3

(* The chairs that are inserted are not of the run before. *)
LEMMA InsertChairsKeeps ==
  ASSUME IInv, InsertChairs, UNCHANGED <<rideVars, initVars>>
  PROVE  IInv'
<1> DEFINE New == {w.chair : w \in {w \in ToSet(chairBatch) : w.what = "insert"}}
<1>1. /\ cpc = "insert" /\ cpc' = "on" /\ chairRows' = chairRows \cup New
      /\ UNCHANGED <<fleet, call, chairQ, chairGen, chairBatch, batchGen, flush, flushing,
                     distances, wiped, wpc, wgen, gen, ipc>>
  BY DEF InsertChairs, fleetVars, callVars, chairQueueVars, flusherVars, chairHistory,
     rideVars, writerVars, queueVars, initVars
<1>2. /\ batchGen = chairGen /\ ipc = "idle"
  BY <1>1 DEF IInv, LockInv
<1>3. ASSUME NEW c \in New PROVE c \in Chairs /\ c \notin wiped
  <2>1. PICK i \in DOMAIN chairBatch : chairBatch[i].what = "insert" /\ chairBatch[i].chair = c
    BY <1>3 DEF ToSet
  <2>2. i \in 1 .. Len(chairBatch) /\ chairBatch[i] \in ChairWrite
    BY <2>1 DEF IInv, ChairPart, ChairShapes
  <2> QED
    BY <1>2, <2>1, <2>2 DEF IInv, ChairPart, InsertInv, Fresh, ChairWrite
<1> HIDE DEF New
<1>4. RidePart'
  BY RidePartStays DEF IInv
<1>5. LockInv'
  BY <1>1 DEF IInv, LockInv
<1>6. ChairShapes'
  BY <1>1, <1>3 DEF IInv, ChairPart, ChairShapes
<1>7. InsertInv'
  BY <1>1 DEF IInv, ChairPart, InsertInv, Fresh
<1>8. WipedInv'
  BY <1>1, <1>2, <1>3 DEF IInv, ChairPart, WipedInv
<1> QED
  BY <1>4, <1>5, <1>6, <1>7, <1>8 DEF IInv, ChairPart

LEMMA ChairWriterKeeps ==
  ASSUME IInv, UpdateOn \/ UpdateOff \/ ChairWriteFails, UNCHANGED <<rideVars, initVars>>
  PROVE  IInv'
<1>1. UNCHANGED <<fleet, call, chairQ, chairGen, batchGen, flushing, chairRows, distances,
                  wiped, wpc, wgen, gen, ipc>>
  BY DEF UpdateOn, UpdateOff, ChairWriteFails, fleetVars, callVars, chairQueueVars,
     flusherVars, chairDbVars, chairHistory, rideVars, writerVars, queueVars, initVars
<1>2. CASE UpdateOn
  <2>1. cpc = "on" /\ cpc' = "off" /\ UNCHANGED <<chairBatch, flush>>
    BY <1>2 DEF UpdateOn
  <2>2. RidePart'
    BY RidePartStays DEF IInv
  <2>3. LockInv'
    BY <1>1, <2>1 DEF IInv, LockInv
  <2>4. ChairPart'
    BY <1>1, <2>1 DEF IInv, ChairPart, ChairShapes, InsertInv, Fresh, WipedInv
  <2> QED
    BY <2>2, <2>3, <2>4 DEF IInv
<1>3. CASE UpdateOff \/ ChairWriteFails
  <2>1. /\ cpc \in {"insert", "on", "off"} /\ cpc' = "wait" /\ chairBatch' = <<>>
        /\ flush' = "free"
    BY <1>3 DEF UpdateOff, ChairWriteFails, UnlockFlushMu
  <2>2. flush = "chairs"
    BY <2>1 DEF IInv, LockInv
  <2> QED
    BY <1>1, <2>1, <2>2, BatchEndKeeps
<1> QED
  BY <1>2, <1>3

(* The flusher takes chairs that are in memory, none of them of the run before. *)
LEMMA FlusherKeeps ==
  ASSUME IInv, FlusherStep, UNCHANGED <<rideVars, initVars>>
  PROVE  IInv'
<1>1. /\ UNCHANGED <<fleet, call, chairQ, chairGen, cpc, chairBatch, batchGen, chairRows,
                     wiped, wpc, wgen, gen, ipc>>
      /\ RidePart'
  BY RidePartStays DEF IInv, FlusherStep, TakeDistances, WriteDistances, FlushFails,
     fleetVars, callVars, chairQueueVars, chairWriterVars, chairDbVars, chairHistory,
     rideVars, writerVars, queueVars, initVars
<1>2. ChairShapes' /\ InsertInv'
  BY <1>1 DEF IInv, ChairPart, ChairShapes, InsertInv, Fresh
<1>3. CASE TakeDistances
  <2>1. /\ flush = "free" /\ flush' = "flusher" /\ flushing' = dirty \cap fleet
        /\ UNCHANGED distances
    BY <1>3 DEF TakeDistances, LockFlushMu, chairDbVars
  <2>2. LockInv'
    BY <1>1, <2>1 DEF IInv, LockInv
  <2>3. WipedInv'
    BY <1>1, <2>1 DEF IInv, ChairPart, WipedInv, LockInv
  <2> QED
    BY <1>1, <1>2, <2>2, <2>3 DEF IInv, ChairPart
<1>4. CASE WriteDistances \/ FlushFails
  <2>1. /\ flush = "flusher" /\ flush' = "free" /\ flushing' = {}
        /\ \A c \in Chairs : c \notin flushing => distances'[c] = distances[c]
    BY <1>4 DEF WriteDistances, FlushFails, UnlockFlushMu, chairDbVars
  <2>2. LockInv'
    BY <1>1, <2>1 DEF IInv, LockInv
  <2>3. WipedInv'
    BY <1>1, <2>1 DEF IInv, ChairPart, WipedInv
  <2> QED
    BY <1>1, <1>2, <2>2, <2>3 DEF IInv, ChairPart
<1> QED
  BY <1>3, <1>4 DEF FlusherStep

LEMMA ChairStepKeeps ==
  ASSUME IInv, ChairStep, UNCHANGED <<rideVars, initVars>>
  PROVE  IInv'
BY RegisterChairKeeps, AddChairKeeps, SwitchChairKeeps, EnqueueActivityKeeps,
   MoveChairKeeps, TakeChairBatchKeeps, LockChairsKeeps, InsertChairsKeeps,
   ChairWriterKeeps, FlusherKeeps
   DEF ChairStep, ChairCall, ChairHandlerStep, ChairWriterStep

-----------------------------------------------------------------------------
(***************************************************************************)
(* Initialization and restart.                                             *)
(***************************************************************************)

LEMMA InitLockKeeps ==
  ASSUME IInv, InitLock
  PROVE  IInv'
<1>1. /\ ipc = "idle" /\ ipc' = "locked" /\ flush = "free" /\ flush' = "init"
      /\ UNCHANGED <<rideVars, chairVars>>
  BY DEF InitLock, LockFlushMu
<1>2. RidePart'
  BY <1>1, RidePartStays DEF IInv
<1>3. LockInv'
  BY <1>1 DEF IInv, LockInv, rideVars, queueVars, writerVars, chairVars, chairQueueVars,
     chairWriterVars, flusherVars
<1>4. ChairPart'
  BY <1>1 DEF IInv, ChairPart, ChairShapes, InsertInv, Fresh, WipedInv, chairVars, fleetVars,
     callVars, chairQueueVars, chairWriterVars, flusherVars, chairDbVars, chairHistory
<1> QED
  BY <1>2, <1>3, <1>4 DEF IInv

(* Both queues are emptied, the batches become stale, and the chairs in memory
   are from now on those of the run before. *)
LEMMA DiscardKeeps ==
  ASSUME IInv, Discard
  PROVE  IInv'
<1>1. /\ ipc = "locked" /\ ipc' = "discarded" /\ UNCHANGED flush
      /\ q' = <<>> /\ gen' = gen + 1 /\ strays' = {}
      /\ UNCHANGED <<recorded, wpc, batch, wgen>>
      /\ chairQ' = <<>> /\ chairGen' = chairGen + 1 /\ wiped' = wiped \cup fleet
      /\ UNCHANGED <<fleet, call, cpc, chairBatch, batchGen, flushing, chairRows, distances>>
  BY DEF Discard, DiscardRideWrites, DiscardChairWrites, handlerVars, writerVars, fleetVars,
     callVars, chairWriterVars, flusherVars, chairDbVars
<1>2. /\ flush = "init" /\ wpc # "writing" /\ cpc \notin {"insert", "on", "off"}
      /\ flushing = {}
  BY <1>1 DEF IInv, LockInv
<1>3. /\ q' \in Seq(Write) /\ \A i : i \notin 1 .. Len(q')
      /\ chairQ' \in Seq(ChairWrite) /\ \A i : i \notin 1 .. Len(chairQ')
  BY <1>1
<1>4. /\ gen \in Nat /\ wgen \in Nat /\ wgen <= gen
      /\ chairGen \in Nat /\ batchGen \in Nat /\ batchGen <= chairGen
  BY DEF IInv, RidePart, RideShapes, ChairPart, ChairShapes
<1>5. RidePart'
  <2>1. RideShapes'
    <3>1. gen' \in Nat /\ wgen' <= gen'
      BY <1>1, <1>4
    <3>2. UNCHANGED <<recorded, batch, wgen>>
      BY <1>1
    <3> QED
      BY <1>3, <3>1, <3>2 DEF IInv, RidePart, RideShapes
  <2>2. GenerationInv'
    <3>1. wgen' # gen'
      BY <1>1, <1>4
    <3> QED
      BY <1>1, <1>3, <3>1 DEF GenerationInv, OnlyLate
  <2> QED
    BY <2>1, <2>2 DEF RidePart
<1>6. LockInv'
  BY <1>1, <1>2 DEF IInv, LockInv
<1>7. ChairShapes'
  BY <1>1, <1>3, <1>4 DEF IInv, ChairPart, ChairShapes
<1>8. InsertInv'
  <2>1. batchGen' # chairGen'
    BY <1>1, <1>4
  <2>2. \A c \in Chairs : call'[c] = "insert" => c \notin fleet' \cup wiped'
    BY <1>1 DEF IInv, ChairPart, InsertInv
  <2> QED
    BY <1>3, <2>1, <2>2 DEF InsertInv, Fresh
<1>9. WipedInv'
  BY <1>1, <1>2 DEF IInv, ChairPart, ChairShapes, WipedInv
<1> QED
  BY <1>5, <1>6, <1>7, <1>8, <1>9 DEF IInv, ChairPart

LEMMA TablesNamed ==
  /\ Len(Tables) = 4 /\ Tables[1] = "chairs" /\ Tables[2] = "rides"
  /\ Tables[3] = "ride_statuses" /\ Tables[4] = "chair_distances"
  /\ ToSet(Tables) = {"chairs", "rides", "ride_statuses", "chair_distances"}
BY DEF Tables, ToSet

(* Whatever tables are dropped, no chair gets a row or a distance. *)
LEMMA RebuildFacts ==
  ASSUME NEW tables, RebuildRides(tables), RebuildChairs(tables),
         ChairShapes, InsertInv, RidePart
  PROVE  /\ RidePart' /\ chairRows' \subseteq chairRows
         /\ UNCHANGED <<gen, wgen, wpc, cpc, batchGen, chairGen, flushing, fleet, call,
                        chairQ, chairBatch>>
<1>1. UNCHANGED <<recorded, q, gen, wpc, batch, wgen, gone, late, strays>>
  BY DEF RebuildRides, handlerVars, queueVars, writerVars, historyVars
<1>2. RidePart'
  BY <1>1 DEF RidePart, RideShapes, GenerationInv, OnlyLate
<1>3. chairRows' \subseteq chairRows
  BY DEF RebuildChairs
<1>4. UNCHANGED <<cpc, batchGen, chairGen, flushing, fleet, call, chairQ, chairBatch>>
  BY DEF RebuildChairs, fleetVars, callVars, chairQueueVars, chairWriterVars, flusherVars
<1> QED
  BY <1>1, <1>2, <1>3, <1>4

LEMMA RebuildKeeps ==
  ASSUME IInv, Rebuild
  PROVE  IInv'
<1>1. /\ ipc = "discarded" /\ ipc' = "rebuilt" /\ UNCHANGED <<flush, wiped>>
      /\ RebuildRides(ToSet(Tables)) /\ RebuildChairs(ToSet(Tables))
  BY DEF Rebuild
<1>2. /\ RidePart'
      /\ UNCHANGED <<gen, wgen, wpc, cpc, batchGen, chairGen, flushing, fleet, call,
                     chairQ, chairBatch>>
  BY <1>1, RebuildFacts DEF IInv, ChairPart
<1>3. chairRows' = {} /\ distances' = [c \in Chairs |-> 0]
  BY <1>1, TablesNamed DEF RebuildChairs
<1>4. LockInv'
  BY <1>1, <1>2 DEF IInv, LockInv
<1>5. ChairShapes' /\ InsertInv'
  BY <1>1, <1>2, <1>3 DEF IInv, ChairPart, ChairShapes, InsertInv, Fresh
<1>6. WipedInv'
  BY <1>1, <1>2, <1>3 DEF IInv, ChairPart, ChairShapes, WipedInv
<1> QED
  BY <1>2, <1>4, <1>5, <1>6 DEF IInv, ChairPart

(* Memory is loaded from tables in which there is no chair. *)
LEMMA LoadKeeps ==
  ASSUME IInv, Load
  PROVE  IInv'
<1>1. /\ ipc = "rebuilt" /\ ipc' = "idle" /\ flush' = "free"
      /\ UNCHANGED <<recorded, q, gen, wpc, batch, wgen, gone, late, strays>>
      /\ fleet' = chairRows
      /\ UNCHANGED <<call, chairQ, chairGen, cpc, chairBatch, batchGen, flushing,
                     chairRows, distances, wiped>>
  BY DEF Load, ReloadRides, ReloadChairs, LoadChairs, UnlockFlushMu, handlerVars, queueVars,
     writerVars, historyVars, callVars, chairQueueVars, chairWriterVars, flusherVars,
     chairDbVars, chairHistory
<1>2. flush = "init"
  BY <1>1 DEF IInv, LockInv
<1>3. RidePart'
  BY <1>1 DEF IInv, RidePart, RideShapes, GenerationInv, OnlyLate
<1>4. LockInv'
  BY <1>1, <1>2 DEF IInv, LockInv
<1>5. chairRows = {}
  BY <1>1 DEF IInv, ChairPart, WipedInv
<1>6. ChairShapes'
  BY <1>1, <1>5 DEF IInv, ChairPart, ChairShapes
<1>7. InsertInv'
  BY <1>1, <1>5 DEF IInv, ChairPart, InsertInv, Fresh
<1>8. WipedInv'
  BY <1>1, <1>5 DEF IInv, ChairPart, WipedInv
<1> QED
  BY <1>3, <1>4, <1>6, <1>7, <1>8 DEF IInv, ChairPart

(* After a failure there is no run before: its chairs are still served. *)
LEMMA InitFailsKeeps ==
  ASSUME IInv, InitFails
  PROVE  IInv'
<1>1. /\ ipc \in {"discarded", "rebuilt"} /\ ipc' = "idle" /\ flush' = "free"
      /\ wiped' = {}
  BY DEF InitFails, UnlockFlushMu
<1>2. PICK n \in 0 .. Len(Tables) :
        LET dropped == {Tables[i] : i \in 1 .. n}
        IN RebuildRides(dropped) /\ RebuildChairs(dropped)
  BY DEF InitFails
<1>3. /\ RidePart' /\ chairRows' \subseteq chairRows
      /\ UNCHANGED <<gen, wgen, wpc, cpc, batchGen, chairGen, flushing, fleet, call,
                     chairQ, chairBatch>>
  BY <1>2, RebuildFacts DEF IInv, ChairPart
<1>4. flush = "init"
  BY <1>1 DEF IInv, LockInv
<1>5. LockInv'
  BY <1>1, <1>3, <1>4 DEF IInv, LockInv
<1>6. ChairShapes' /\ InsertInv'
  BY <1>1, <1>3 DEF IInv, ChairPart, ChairShapes, InsertInv, Fresh
<1>7. WipedInv'
  BY <1>1 DEF WipedInv
<1> QED
  BY <1>3, <1>5, <1>6, <1>7 DEF IInv, ChairPart

LEMMA RestartKeeps ==
  ASSUME IInv, CrashAndRestart
  PROVE  IInv'
<1>1. /\ ipc = "idle" /\ ipc' = "idle" /\ flush' = "free"
      /\ recorded' = [r \in Rides |-> ""] /\ UNCHANGED <<gone, late, strays>>
      /\ q' = <<>> /\ gen' = 0 /\ wpc' = "wait" /\ batch' = <<>> /\ wgen' = 0
      /\ fleet' = chairRows /\ call' = [c \in Chairs |-> "none"]
      /\ chairQ' = <<>> /\ chairGen' = 0
      /\ cpc' = "wait" /\ chairBatch' = <<>> /\ batchGen' = 0 /\ flushing' = {}
      /\ UNCHANGED <<chairRows, distances, wiped>>
  BY DEF CrashAndRestart, RestartRides, RestartChairs, LoadChairs, initVars, historyVars,
     chairDbVars
<1>2. /\ q' \in Seq(Write) /\ batch' \in Seq(Write)
      /\ chairQ' \in Seq(ChairWrite) /\ chairBatch' \in Seq(ChairWrite)
      /\ \A i : /\ i \notin 1 .. Len(q') /\ i \notin 1 .. Len(batch')
                /\ i \notin 1 .. Len(chairQ') /\ i \notin 1 .. Len(chairBatch')
  BY <1>1, EmptyPipe, Zenon
<1>3. RidePart'
  <2>1. RideShapes'
    <3>1. gen' = 0 /\ wgen' = 0
      BY <1>1
    <3>2. gen' \in Nat /\ wgen' \in Nat /\ wgen' <= gen'
      BY <3>1
    <3> QED
      BY <1>1, <1>2, <3>2 DEF RideShapes
  <2>2. GenerationInv'
    BY <1>1, <1>2 DEF IInv, RidePart, GenerationInv, OnlyLate
  <2> QED
    BY <2>1, <2>2 DEF RidePart
<1>4. LockInv'
  BY <1>1 DEF LockInv
<1>5. ChairShapes'
  <2>1. fleet' \subseteq Chairs /\ chairRows' \subseteq Chairs
    BY <1>1 DEF IInv, ChairPart, ChairShapes
  <2>2. chairGen' \in Nat /\ batchGen' \in Nat /\ batchGen' <= chairGen'
    <3>1. chairGen' = 0 /\ batchGen' = 0
      BY <1>1
    <3> QED
      BY <3>1
  <2>3. call' \in [Chairs -> {"none", "insert", "on", "off"}]
    BY <1>1
  <2> QED
    BY <1>2, <2>1, <2>2, <2>3 DEF ChairShapes
<1>6. InsertInv'
  BY <1>1, <1>2 DEF InsertInv, Fresh
<1>7. WipedInv'
  BY <1>1 DEF IInv, ChairPart, WipedInv
<1> QED
  BY <1>3, <1>4, <1>5, <1>6, <1>7 DEF IInv, ChairPart

-----------------------------------------------------------------------------
LEMMA StoresStep == ASSUME IInv, RideTypeOK, RideInv, [Next]_vars PROVE IInv'
<1>1. CASE UNCHANGED vars
  <2>1. UNCHANGED <<rideVars, chairVars, flush, ipc>>
    BY <1>1 DEF vars, initVars
  <2>2. RidePart' /\ ChairPart'
    BY <2>1, RidePartStays, ChairPartStays DEF IInv
  <2>3. LockInv'
    BY <2>1 DEF IInv, LockInv, rideVars, queueVars, writerVars, chairVars, chairQueueVars,
       chairWriterVars, flusherVars
  <2> QED
    BY <2>2, <2>3 DEF IInv
<1>2. CASE Next
  BY <1>2, RideStepKeeps, ChairStepKeeps, InitLockKeeps, DiscardKeeps, RebuildKeeps,
     LoadKeeps, InitFailsKeeps, RestartKeeps DEF Next, InitializeStep
<1> QED
  BY <1>1, <1>2

LEMMA StoresInit == Init => IInv
<1> SUFFICES ASSUME Init PROVE IInv
  OBVIOUS
<1>1. PICK s \in Starts : RideInit(s.stage) /\ ChairInit(s.stored, s.budget)
  BY DEF Init
<1>2. s.stored \subseteq Chairs
  BY StoresAssumption
<1>3. /\ q = <<>> /\ batch = <<>> /\ chairQ = <<>> /\ chairBatch = <<>>
      /\ gen = 0 /\ wgen = 0 /\ chairGen = 0 /\ batchGen = 0
      /\ recorded = [r \in Rides |-> ""] /\ call = [c \in Chairs |-> "none"]
      /\ wpc = "wait" /\ cpc = "wait" /\ flush = "free" /\ ipc = "idle"
      /\ late = {} /\ strays = {} /\ wiped = {} /\ flushing = {}
      /\ fleet \subseteq Chairs /\ chairRows \subseteq Chairs
  BY <1>1, <1>2 DEF Init, RideInit, ChairInit
<1>4. /\ q \in Seq(Write) /\ batch \in Seq(Write)
      /\ chairQ \in Seq(ChairWrite) /\ chairBatch \in Seq(ChairWrite)
      /\ \A i : /\ i \notin 1 .. Len(q) /\ i \notin 1 .. Len(batch)
                /\ i \notin 1 .. Len(chairQ) /\ i \notin 1 .. Len(chairBatch)
  BY <1>3, EmptyPipe, Zenon
<1>5. RidePart
  <2>1. gen = 0 /\ wgen = 0
    BY <1>3
  <2>2. gen \in Nat /\ wgen \in Nat /\ wgen <= gen
    BY <2>1
  <2>3. recorded \in [Rides -> Status \cup {""}]
    BY <1>3
  <2>4. RideShapes
    BY <1>4, <2>2, <2>3, Zenon DEF RideShapes
  <2>5. GenerationInv
    BY <1>3, <1>4 DEF GenerationInv, OnlyLate
  <2> QED
    BY <2>4, <2>5 DEF RidePart
<1>6. LockInv
  BY <1>3 DEF LockInv
<1>7. ChairShapes
  <2>1. chairGen = 0 /\ batchGen = 0
    BY <1>3
  <2>2. chairGen \in Nat /\ batchGen \in Nat /\ batchGen <= chairGen
    BY <2>1
  <2>3. call \in [Chairs -> {"none", "insert", "on", "off"}]
    BY <1>3
  <2> QED
    BY <1>3, <1>4, <2>2, <2>3, Zenon DEF ChairShapes
<1>8. InsertInv
  BY <1>3, <1>4 DEF InsertInv, Fresh
<1>9. WipedInv
  BY <1>3 DEF WipedInv
<1> QED
  BY <1>5, <1>6, <1>7, <1>8, <1>9 DEF IInv, ChairPart

-----------------------------------------------------------------------------
(***************************************************************************)
(* Memory and database: the invariants of the two paths together.          *)
(***************************************************************************)

(* What an initialization knows between its steps: the rides there are and the chairs
   are those of the run before, its chairs that have no row are excused, and the
   database it loads has no ride and no distance. *)
LoadInv ==
  /\ ipc = "discarded" => /\ \A c \in fleet \ chairRows : Excused(c) \/ distances[c] = 0
                          /\ known \subseteq gone
  /\ ipc = "rebuilt" => known = {} /\ \A c \in Chairs : distances[c] = 0

StoresInv == IInv /\ TypeOK /\ RideInv /\ ChairInv /\ LoadInv

LEMMA RideStepKeepsAll ==
  ASSUME StoresInv, RequestRide \/ RideStep, UNCHANGED <<chairVars, initVars>>
  PROVE  TypeOK' /\ RideInv' /\ ChairInv' /\ LoadInv'
<1>1. RideTypeOK /\ ChairTypeOK /\ RideInv /\ ChairInv
  BY DEF StoresInv, TypeOK
<1>2. (\E r \in Rides : CreateRide(r)) \/ RideStep
  BY DEF RequestRide
<1>4. RideTypeOK'
  BY <1>1, <1>2, RideCallTyped, RideHandlerTyped, RideWriterTyped DEF RideStep
<1>5. RideInv'
  BY <1>1, <1>2, RideStepKeepsInv
<1>6. UNCHANGED <<fleetVars, callVars, chairQueueVars, chairWriterVars, flusherVars,
                  chairDbVars, chairLost, wiped, ipc, inits>>
  BY DEF chairVars, chairHistory, initVars
<1>7. ChairInv' /\ \A c : Excused(c)' <=> Excused(c)
  BY <1>1, <1>6, ChairInvStays
<1>8. ChairTypeOK'
  BY <1>1, <1>6 DEF ChairTypeOK, fleetVars, callVars, chairQueueVars, chairWriterVars,
     flusherVars, chairDbVars
<1>9. flush' \in {"free", "writer", "chairs", "flusher", "init"}
  BY DEF StoresInv, TypeOK, RequestRide, RideStep, CreateRide, RideCall, RecordStatus,
     BeginEvaluation, AbortEvaluation, RideHandlerStep, EnqueueStatus, EnqueueCompleted,
     RecordCompleted, RideWriterStep, TakeBatch, LockFlush, WriteChunk, WriteFails,
     UnlockFlush, LockFlushMu, UnlockFlushMu
<1>10. TypeOK'
  BY <1>4, <1>6, <1>8, <1>9 DEF StoresInv, TypeOK
<1>11. ipc \in {"discarded", "rebuilt"} => UNCHANGED <<known, gone>>
  <2> SUFFICES ASSUME ipc \in {"discarded", "rebuilt"} PROVE UNCHANGED <<known, gone>>
    OBVIOUS
  <2>1. ~RequestRide
    BY DEF RequestRide
  <2>2. RideStep
    BY <2>1
  <2> QED
    BY <2>2 DEF RideStep, RideCall, RecordStatus, BeginEvaluation, AbortEvaluation,
       RideHandlerStep, EnqueueStatus, EnqueueCompleted, RecordCompleted, RideWriterStep,
       TakeBatch, LockFlush, WriteChunk, WriteFails, UnlockFlush, dbVars, historyVars
<1>12. UNCHANGED <<fleet, chairRows, distances>>
  BY <1>6 DEF fleetVars, chairDbVars
<1>13. LoadInv'
  BY <1>6, <1>7, <1>11, <1>12 DEF StoresInv, LoadInv
<1> QED
  BY <1>5, <1>7, <1>10, <1>13

(* A chair joins memory between Discard and Rebuild: it has no row and no distance. *)
LEMMA ChairCallKeepsAll ==
  ASSUME StoresInv, NEW c \in Chairs, ChairCall(c) \/ ChairHandlerStep(c)
  PROVE  ChairInv' /\ (UNCHANGED <<rideVars, initVars>> => LoadInv')
<1>1. RideTypeOK /\ ChairTypeOK /\ RideInv /\ ChairInv /\ LoadInv
  BY DEF StoresInv, TypeOK
<1>2. UNCHANGED <<chairBatch, batchGen, chairGen, chairLost, chairRows, distances>>
  BY DEF ChairCall, ChairHandlerStep, RegisterChair, AddChair, SwitchChair, EnqueueActivity,
     MoveChair, chairQueueVars, chairWriterVars, chairDbVars, chairHistory
<1>3. \A x : Excused(x)' <=> Excused(x)
  BY <1>2 DEF Excused, StaleChairs
<1>4. CASE AddChair(c)
  <2>1. call[c] = "insert" /\ fleet' = fleet \cup {c}
    BY <1>4 DEF AddChair
  <2>2. c \notin fleet
    BY <2>1 DEF StoresInv, IInv, ChairPart, InsertInv
  <2>3. ChairInv'
    BY <1>1, <1>4, <2>2, AddChairKeepsInv
  <2>4. Excused(c) \/ distances[c] = 0
    BY <1>1, <2>2 DEF ChairInv, OutsideInv, Excused
  <2>5. ASSUME UNCHANGED <<rideVars, initVars>> PROVE LoadInv'
    <3>1. UNCHANGED <<known, gone, ipc>>
      BY <2>5 DEF rideVars, dbVars, historyVars, initVars
    <3> QED
      BY <1>1, <1>2, <1>3, <2>1, <2>4, <3>1 DEF LoadInv
  <2> QED
    BY <2>3, <2>5
<1>5. CASE ChairCall(c) \/ EnqueueActivity(c)
  <2>1. ChairInv'
    BY <1>1, <1>5, RegisterChairKeepsInv, SwitchChairKeepsInv, MoveChairKeepsInv,
       EnqueueActivityKeepsInv DEF ChairCall
  <2>2. UNCHANGED fleet
    BY <1>5 DEF ChairCall, RegisterChair, SwitchChair, EnqueueActivity, MoveChair, fleetVars
  <2>3. ASSUME UNCHANGED <<rideVars, initVars>> PROVE LoadInv'
    <3>1. UNCHANGED <<known, gone, ipc>>
      BY <2>3 DEF rideVars, dbVars, historyVars, initVars
    <3> QED
      BY <1>1, <1>2, <1>3, <2>2, <3>1 DEF LoadInv
  <2> QED
    BY <2>1, <2>3
<1> QED
  BY <1>4, <1>5 DEF ChairHandlerStep

(* While an initialization holds flushMu, nothing is written and nothing copied. *)
LEMMA ChairWriterKeepsAll ==
  ASSUME StoresInv, ChairWriterStep \/ FlusherStep, UNCHANGED <<rideVars, initVars>>
  PROVE  ChairInv' /\ LoadInv'
<1>1. /\ ChairTypeOK /\ ChairInv /\ LoadInv /\ LockInv
  BY DEF StoresInv, TypeOK, IInv
<1>2. /\ cpc \in {"insert", "on", "off"} => ~StaleChairs
      /\ flush = "free" => flushing = {}
  BY <1>1 DEF LockInv, StaleChairs
<1>3. ChairInv'
  BY <1>1, <1>2, ChairWriterKeepsInv, FlusherKeepsInv
<1>4. UNCHANGED <<known, gone, ipc>>
  BY DEF rideVars, dbVars, historyVars, initVars
<1>5. CASE ipc \notin {"discarded", "rebuilt"}
  <2>1. ipc' # "discarded" /\ ipc' # "rebuilt"
    BY <1>4, <1>5
  <2> QED
    BY <1>3, <2>1 DEF LoadInv
<1>6. CASE ipc \in {"discarded", "rebuilt"}
  <2>1. flush = "init" /\ cpc \notin {"insert", "on", "off"}
    BY <1>1, <1>6 DEF LockInv
  <2>2. TakeChairBatch
    <3>1. ~LockChairs /\ ~FlusherStep
      BY <2>1 DEF LockChairs, FlusherStep, TakeDistances, WriteDistances, FlushFails,
         LockFlushMu
    <3>2. ~InsertChairs /\ ~UpdateOn /\ ~UpdateOff /\ ~ChairWriteFails
      BY <2>1 DEF InsertChairs, UpdateOn, UpdateOff, ChairWriteFails
    <3> QED
      BY <3>1, <3>2 DEF ChairWriterStep
  <2>3. \A c : Excused(c)' <=> Excused(c)
    BY <1>1, <2>2, TakeChairBatchKeepsInv
  <2>4. UNCHANGED <<fleet, chairRows, distances>>
    BY <2>2 DEF TakeChairBatch, fleetVars, chairDbVars
  <2>5. ipc' = ipc /\ known' = known /\ gone' = gone
    BY <1>4
  <2>6. ipc' = "discarded" =>
          /\ \A c \in fleet' \ chairRows' : Excused(c)' \/ distances'[c] = 0
          /\ known' \subseteq gone'
    BY <1>1, <2>3, <2>4, <2>5 DEF LoadInv
  <2>7. ipc' = "rebuilt" => known' = {} /\ \A c \in Chairs : distances'[c] = 0
    BY <1>1, <2>4, <2>5 DEF LoadInv
  <2> QED
    BY <1>3, <2>6, <2>7 DEF LoadInv
<1> QED
  BY <1>3, <1>5, <1>6

LEMMA ChairStepKeepsAll ==
  ASSUME StoresInv, ChairStep, UNCHANGED <<rideVars, initVars>>
  PROVE  TypeOK' /\ RideInv' /\ ChairInv' /\ LoadInv'
<1>1. RideTypeOK /\ ChairTypeOK /\ RideInv
  BY DEF StoresInv, TypeOK
<1>2. ChairInv' /\ LoadInv'
  BY ChairCallKeepsAll, ChairWriterKeepsAll DEF ChairStep
<1>3. ChairTypeOK'
  BY <1>1, ChairCallTyped, ChairWriterTyped DEF ChairStep
<1>4. RideInv'
  BY <1>1, RideInvStays
<1>5. RideTypeOK'
  BY <1>1 DEF RideTypeOK, rideVars, memVars, handlerVars, queueVars, writerVars, dbVars,
     historyVars
<1>6. flush' \in {"free", "writer", "chairs", "flusher", "init"}
  BY DEF StoresInv, TypeOK, ChairStep, ChairCall, ChairHandlerStep, RegisterChair, AddChair,
     SwitchChair, EnqueueActivity, MoveChair, ChairWriterStep, TakeChairBatch, LockChairs,
     InsertChairs, UpdateOn, UpdateOff, ChairWriteFails, FlusherStep, TakeDistances,
     WriteDistances, FlushFails, LockFlushMu, UnlockFlushMu
<1>7. TypeOK'
  BY <1>3, <1>5, <1>6 DEF StoresInv, TypeOK, initVars
<1> QED
  BY <1>2, <1>4, <1>7

LEMMA InitializeKeepsAll ==
  ASSUME StoresInv, InitializeStep
  PROVE  TypeOK' /\ RideInv' /\ ChairInv' /\ LoadInv'
<1>1. /\ RideTypeOK /\ ChairTypeOK /\ RideInv /\ ChairInv /\ LoadInv /\ LockInv
      /\ ChairPart /\ inits \in 0 .. MaxInits
  BY DEF StoresInv, TypeOK, IInv
<1>2. ipc # "idle" => /\ flush = "init" /\ cpc \notin {"insert", "on", "off"}
                      /\ flushing = {}
  BY <1>1 DEF LockInv
<1>3. CASE InitLock
  <2>1. /\ UNCHANGED <<rideVars, chairVars>> /\ ipc' = "locked" /\ flush' = "init"
        /\ inits' = inits + 1 /\ inits < MaxInits
    BY <1>3 DEF InitLock, LockFlushMu
  <2>2. RideTypeOK' /\ RideInv'
    BY <1>1, <2>1, RideInvStays DEF RideTypeOK, rideVars, memVars, handlerVars, queueVars,
       writerVars, dbVars, historyVars
  <2>3. ChairTypeOK' /\ ChairInv'
    BY <1>1, <2>1, ChairInvStays DEF ChairTypeOK, chairVars, fleetVars, callVars,
       chairQueueVars, chairWriterVars, flusherVars, chairDbVars, chairHistory
  <2>4. inits' \in 0 .. MaxInits
    BY <1>1, <2>1, StoresAssumption
  <2>5. LoadInv'
    BY <2>1 DEF LoadInv
  <2> QED
    BY <2>1, <2>2, <2>3, <2>4, <2>5 DEF TypeOK
<1>4. CASE Discard
  <2>1. /\ ipc = "locked" /\ ipc' = "discarded" /\ UNCHANGED <<flush, inits>>
        /\ DiscardRideWrites /\ DiscardChairWrites
    BY <1>4 DEF Discard
  <2>2. RideTypeOK' /\ RideInv' /\ ChairTypeOK'
    BY <1>1, <2>1, RideInitializeTyped, DiscardRideWritesKeepsInv, ChairInitializeTyped
  <2>3. ChairInv' /\ \A c \in fleet \ chairRows : Excused(c)'
    BY <1>1, <1>2, <2>1, DiscardChairWritesKeepsInv DEF ChairPart, ChairShapes
  <2>4. UNCHANGED <<fleet, chairRows>> /\ known' \subseteq gone'
    BY <2>1 DEF DiscardChairWrites, DiscardRideWrites, fleetVars, chairDbVars, dbVars
  <2>5. LoadInv'
    BY <2>1, <2>3, <2>4 DEF LoadInv
  <2> QED
    BY <2>1, <2>2, <2>3, <2>5 DEF StoresInv, TypeOK
<1>5. CASE Rebuild
  <2>1. /\ ipc = "discarded" /\ ipc' = "rebuilt" /\ UNCHANGED <<flush, inits, wiped>>
        /\ RebuildRides(ToSet(Tables)) /\ RebuildChairs(ToSet(Tables))
    BY <1>5 DEF Rebuild
  <2>2. RideTypeOK' /\ ChairTypeOK'
    BY <1>1, <2>1, RideInitializeTyped, ChairInitializeTyped
  <2>3. RideInv'
    <3>1. known \subseteq gone /\ "rides" \in ToSet(Tables)
      BY <1>1, <2>1, TablesNamed DEF LoadInv
    <3> QED
      BY <1>1, <2>1, <3>1, RebuildRidesKeepsInv
  <2>4. ChairInv'
    <3>1. "chairs" \in ToSet(Tables)
      BY TablesNamed
    <3> QED
      BY <1>1, <1>2, <2>1, <3>1, RebuildChairsKeepsInv DEF LoadInv
  <2>5. LoadInv'
    <3>1. known' = {} /\ distances' = [c \in Chairs |-> 0]
      BY <2>1, TablesNamed DEF RebuildRides, RebuildChairs
    <3> QED
      BY <2>1, <3>1 DEF LoadInv
  <2> QED
    BY <2>1, <2>2, <2>3, <2>4, <2>5 DEF StoresInv, TypeOK
<1>6. CASE Load
  <2>1. /\ ipc = "rebuilt" /\ ipc' = "idle" /\ flush' = "free" /\ UNCHANGED inits
        /\ ReloadRides /\ ReloadChairs
    BY <1>6 DEF Load, UnlockFlushMu
  <2>2. known = {} /\ chairRows = {} /\ \A c \in Chairs : distances[c] = 0
    BY <1>1, <2>1 DEF LoadInv, ChairPart, WipedInv
  <2>3. RideTypeOK' /\ RideInv' /\ ChairTypeOK'
    BY <1>1, <2>1, <2>2, RideInitializeTyped, ReloadRidesKeepsInv, ChairInitializeTyped
  <2>4. ChairInv'
    BY <1>1, <1>2, <2>1, <2>2, ReloadChairsKeepsInv DEF ChairPart, InsertInv
  <2>5. LoadInv'
    BY <2>1 DEF LoadInv
  <2> QED
    BY <2>1, <2>3, <2>4, <2>5 DEF StoresInv, TypeOK
<1>7. CASE InitFails
  <2>1. /\ ipc \in {"discarded", "rebuilt"} /\ ipc' = "idle" /\ flush' = "free"
        /\ wiped' = {} /\ UNCHANGED inits
    BY <1>7 DEF InitFails, UnlockFlushMu
  <2> DEFINE Dropped(n) == {Tables[i] : i \in 1 .. n}
  <2>2. PICK n \in 0 .. Len(Tables) : RebuildRides(Dropped(n)) /\ RebuildChairs(Dropped(n))
    BY <1>7 DEF InitFails
  <2>3. /\ "ride_statuses" \in Dropped(n) => "rides" \in Dropped(n)
        /\ "chair_distances" \in Dropped(n) => "chairs" \in Dropped(n)
    <3>1. n \in 0 .. 4
      BY TablesNamed
    <3>2. ASSUME "ride_statuses" \in Dropped(n) PROVE "rides" \in Dropped(n)
      <4>1. PICK i \in 1 .. n : Tables[i] = "ride_statuses"
        BY <3>2
      <4>2. i # 1
        BY <4>1, TablesNamed
      <4>3. 2 \in 1 .. n
        BY <3>1, <4>2
      <4> QED
        BY <4>3, TablesNamed
    <3>3. ASSUME "chair_distances" \in Dropped(n) PROVE "chairs" \in Dropped(n)
      <4>1. 1 \in 1 .. n
        BY <3>1, <3>3
      <4> QED
        BY <4>1, TablesNamed
    <3> QED
      BY <3>2, <3>3
  <2> HIDE DEF Dropped
  <2>4. known \subseteq gone /\ \A c \in fleet \ chairRows : Excused(c) \/ distances[c] = 0
    BY <1>1, <2>1 DEF LoadInv, ChairTypeOK
  <2>5. RideTypeOK' /\ ChairTypeOK'
    BY <1>1, <2>1, <2>2, RideInitializeTyped, ChairInitializeTyped
  <2>6. RideInv'
    BY <1>1, <2>2, <2>3, <2>4, RebuildRidesKeepsInv
  <2>7. ChairInv'
    BY <1>1, <1>2, <2>1, <2>2, <2>3, <2>4, RebuildChairsKeepsInv
  <2>8. LoadInv'
    BY <2>1 DEF LoadInv
  <2> QED
    BY <2>1, <2>5, <2>6, <2>7, <2>8 DEF StoresInv, TypeOK
<1> QED
  BY <1>3, <1>4, <1>5, <1>6, <1>7 DEF InitializeStep

LEMMA RestartKeepsAll ==
  ASSUME StoresInv, CrashAndRestart
  PROVE  TypeOK' /\ RideInv' /\ ChairInv' /\ LoadInv'
<1>1. /\ ipc = "idle" /\ flush' = "free" /\ UNCHANGED <<ipc, inits>>
      /\ RestartRides /\ RestartChairs
  BY DEF CrashAndRestart, initVars
<1>2. RideTypeOK' /\ ChairTypeOK' /\ RideInv' /\ ChairInv'
  BY <1>1, RideInitializeTyped, ChairInitializeTyped, RestartRidesKeepsInv,
     RestartChairsKeepsInv DEF StoresInv, TypeOK
<1>3. LoadInv'
  BY <1>1 DEF LoadInv
<1> QED
  BY <1>1, <1>2, <1>3 DEF StoresInv, TypeOK

LEMMA StoresInvInit == Init => StoresInv
<1> SUFFICES ASSUME Init PROVE StoresInv
  OBVIOUS
<1>1. PICK s \in Starts : RideInit(s.stage) /\ ChairInit(s.stored, s.budget)
  BY DEF Init
<1>2. /\ s.stage \in [Rides -> 0 .. Len(Lifecycle)]
      /\ s.stored \in SUBSET Chairs /\ s.budget \in [Chairs -> 0 .. MaxCalls]
      /\ MaxInits \in Nat
  BY StoresAssumption
<1>3. RideTypeOK /\ RideInv /\ ChairTypeOK /\ ChairInv
  BY <1>1, <1>2, RideInitFacts, ChairInitFacts
<1>4. flush = "free" /\ ipc = "idle" /\ inits \in 0 .. MaxInits
  BY <1>2 DEF Init
<1>5. TypeOK /\ LoadInv
  BY <1>3, <1>4 DEF TypeOK, LoadInv
<1> QED
  BY <1>3, <1>5, StoresInit DEF StoresInv

LEMMA StoresInvStep == ASSUME StoresInv, [Next]_vars PROVE StoresInv'
<1>1. IInv'
  BY StoresStep DEF StoresInv, TypeOK
<1>2. CASE UNCHANGED vars
  <2>1. UNCHANGED <<rideVars, chairVars, flush, initVars>>
    BY <1>2 DEF vars
  <2>2. RideInv' /\ ChairInv' /\ \A c : Excused(c)' <=> Excused(c)
    <3>1. UNCHANGED <<fleetVars, callVars, chairQueueVars, chairWriterVars, flusherVars,
                      chairDbVars, chairLost>>
      BY <2>1 DEF chairVars, chairHistory
    <3> QED
      BY <2>1, <3>1, RideInvStays, ChairInvStays DEF StoresInv
  <2>3. RideTypeOK' /\ ChairTypeOK'
    BY <2>1 DEF StoresInv, TypeOK, RideTypeOK, ChairTypeOK, rideVars, memVars, handlerVars,
       queueVars, writerVars, dbVars, historyVars, chairVars, fleetVars, callVars,
       chairQueueVars, chairWriterVars, flusherVars, chairDbVars, chairHistory
  <2>4. UNCHANGED <<known, gone, fleet, chairRows, distances, ipc, inits, flush>>
    BY <2>1 DEF rideVars, dbVars, historyVars, chairVars, fleetVars, chairDbVars, initVars
  <2> QED
    BY <1>1, <2>2, <2>3, <2>4 DEF StoresInv, TypeOK, LoadInv
<1>3. CASE Next
  BY <1>1, <1>3, RideStepKeepsAll, ChairStepKeepsAll, InitializeKeepsAll, RestartKeepsAll
     DEF Next, StoresInv
<1> QED
  BY <1>2, <1>3

LEMMA StoresInvAlways == Spec => []StoresInv
<1>1. Init => StoresInv
  BY StoresInvInit
<1>2. StoresInv /\ [Next]_vars => StoresInv'
  BY StoresInvStep
<1> QED
  BY <1>1, <1>2, PTL DEF Spec

(* Every variable keeps its type: the queues hold writes, the mutex has one holder,
   and only chairs in memory are switched on. *)
THEOREM TypeCorrect == Spec => []TypeOK
<1>1. StoresInv => TypeOK
  BY DEF StoresInv
<1> QED
  BY <1>1, StoresInvAlways, PTL

(* No status is stored twice or before an earlier one of its ride, whatever is stored
   in parts, refused, discarded or forgotten by a restart. *)
THEOREM OnceAndInOrderCorrect == Spec => []OnceAndInOrder
<1>1. StoresInv => OnceAndInOrder
  BY RideInvSuffices DEF StoresInv, TypeOK
<1> QED
  BY <1>1, StoresInvAlways, PTL

(* Memory and database tell the same story of a ride: what memory says is stored, on
   its way or accounted for, and nothing is stored that memory does not know. *)
THEOREM RidesAgreeCorrect == Spec => []RidesAgree
<1>1. StoresInv => RidesAgree
  BY RideInvSuffices DEF StoresInv, TypeOK, RidesAgree, RowsAreInMemory
<1> QED
  BY <1>1, StoresInvAlways, PTL

(* A chair of which nothing is on its way is stored as memory has it: its row, its
   activity and its distance, if no write of it was refused or thrown away. *)
THEOREM ChairsCatchUpCorrect == Spec => []ChairsCatchUp
<1>1. StoresInv => ChairsCatchUp
  BY ChairInvSuffices DEF StoresInv, TypeOK
<1> QED
  BY <1>1, StoresInvAlways, PTL

(* Of the run before an initialization nothing comes back that was queued, taken by a
   writer or copied by the flusher before it: no chair, no distance, and no status
   but what a handler queues after the queues were discarded. *)
THEOREM NoStraysCorrect == Spec => []NoStrays
<1>1. StoresInv => NoStrays
  BY DEF StoresInv, IInv, RidePart, GenerationInv, ChairPart, WipedInv, NoStrays
<1> QED
  BY <1>1, StoresInvAlways, PTL
=============================================================================
