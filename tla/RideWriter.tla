----------------------------- MODULE RideWriter -----------------------------
(***************************************************************************)
(* The write-behind path of the ride statuses (writer.go): handlers record *)
(* a status in memory and queue a row, one goroutine stores the rows in    *)
(* batches.  What an initialization and a restart do to this state is      *)
(* defined here, when they do it in Stores.                                *)
(*                                                                         *)
(* The rides here have a chair already.  A client sends its next call      *)
(* after the answer to its previous one, so the times of the statuses of a *)
(* ride are in the order of Lifecycle, and the reload, which sorts by time, *)
(* sorts by Lifecycle.  (MATCHING has the database's time, the others have *)
(* the process's, rideWrite.at: the two clocks are taken to agree.)        *)
(***************************************************************************)
EXTENDS FlushLock, RideStatus, SequencesExt

CONSTANTS
  Rides,
  ChunkSize         \* rows per transaction: 500 in the code

ASSUME RideWriterAssumption == ChunkSize \in Nat \ {0}

(* A queued row, a rideWrite. *)
Write == [ride : Rides, status : Status]

VARIABLES
  \* memory of the process
  mem,        \* rideState.Statuses; empty for a ride that is not in st.rides
  counted,    \* completed rides in chairStats (count, evaluations and sales)
  recorded,   \* a chair handler between addStatus and enqueueRideWrite: its status
  eval,       \* an evaluation: "none", "paying", or "queued" but not recorded
  q, gen,     \* rideWriter
  wpc, batch, wgen,  \* the writer goroutine and its local variables
  \* database
  known,      \* rides with a row in rides
  rows,       \* statuses in ride_statuses, by ride
  column,     \* rides.status
  evaluated,  \* rides whose row has an evaluation
  \* history
  lost,       \* <<ride, status>> in a batch that the database refused or in a
              \* queue that was thrown away
  gone,       \* rides of a run before an initialization
  late,       \* <<ride, status>> of such a ride that a handler queued after the
              \* last discard
  strays      \* <<ride, status>> stored since then of a ride that neither memory
              \* nor rides has any more

memVars == <<mem, counted>>
handlerVars == <<recorded, eval>>
queueVars == <<q, gen>>
writerVars == <<wpc, batch, wgen>>
dbVars == <<known, rows, column, evaluated>>
historyVars == <<lost, gone, late, strays>>
rideVars == <<memVars, handlerVars, queueVars, writerVars, dbVars, historyVars>>

-----------------------------------------------------------------------------
LatestStatus(r) == IF mem[r] = <<>> THEN "" ELSE Last(mem[r])

(* The next transition that the chair of a ride makes. *)
ChairNext(s) ==
  CASE s = "MATCHING" -> "ENROUTE" [] s = "ENROUTE" -> "PICKUP"
    [] s = "PICKUP" -> "CARRYING"  [] s = "CARRYING" -> "ARRIVED"
    [] OTHER -> ""

Refs(pipe) == {<<w.ride, w.status>> : w \in ToSet(pipe)}

Queued(r, s) == [ride |-> r, status |-> s]

(* Some statuses in the order in which loadState reads them. *)
InOrder(statuses) ==
  LET kept[n \in 0 .. Len(Lifecycle)] ==
        IF n = 0 THEN <<>>
        ELSE IF Lifecycle[n] \in statuses THEN Append(kept[n - 1], Lifecycle[n])
                                          ELSE kept[n - 1]
  IN kept[Len(Lifecycle)]

(* What loadState reads of the statuses and of chairStats. *)
ReloadedStatuses == [r \in Rides |-> IF r \in known THEN InOrder(rows[r]) ELSE <<>>]
ReloadedStats == {r \in known : column[r] = "COMPLETED" /\ r \in evaluated}

(* The process has just started on a database whose rides have taken some
   statuses, stage[r] of them; 0: the ride is not there yet. *)
RideInit(stage) ==
  /\ known = {r \in Rides : stage[r] > 0}
  /\ rows = [r \in Rides |-> {Lifecycle[i] : i \in 1 .. stage[r]}]
  /\ column = [r \in Rides |-> IF stage[r] = 0 THEN "" ELSE Lifecycle[stage[r]]]
  /\ evaluated = {r \in Rides : stage[r] = 6}
  /\ mem = ReloadedStatuses /\ counted = ReloadedStats
  /\ recorded = [r \in Rides |-> ""] /\ eval = [r \in Rides |-> "none"]
  /\ q = <<>> /\ gen = 0
  /\ wpc = "wait" /\ batch = <<>> /\ wgen = 0
  /\ lost = {} /\ gone = {} /\ late = {} /\ strays = {}

-----------------------------------------------------------------------------
(* appPostRides: the row and MATCHING go to the database in a transaction,
   then to memory. *)
CreateRide(r) ==
  /\ r \notin known \cup gone
  /\ known' = known \cup {r}
  /\ rows' = [rows EXCEPT ![r] = {"MATCHING"}]
  /\ column' = [column EXCEPT ![r] = "MATCHING"]
  /\ mem' = [mem EXCEPT ![r] = <<"MATCHING">>]
  /\ UNCHANGED <<counted, handlerVars, queueVars, writerVars, flush,
                 evaluated, historyVars>>

(* chairPostRideStatus, chairPostCoordinate: addStatus ... *)
RecordStatus(r) ==
  /\ recorded[r] = "" /\ ChairNext(LatestStatus(r)) # ""
  /\ recorded' = [recorded EXCEPT ![r] = ChairNext(LatestStatus(r))]
  /\ mem' = [mem EXCEPT ![r] = Append(@, ChairNext(LatestStatus(r)))]
  /\ UNCHANGED <<counted, eval, queueVars, writerVars, flush, dbVars,
                 historyVars>>

(* enqueueRideWrite; nothing keeps it from a ride of the run before. *)
Enqueue(r, s) ==
  /\ q' = Append(q, Queued(r, s))
  /\ late' = IF r \in gone THEN late \cup {<<r, s>>} ELSE late

(* ... then, without the lock, enqueueRideWrite, and the answer. *)
EnqueueStatus(r) ==
  /\ recorded[r] # ""
  /\ Enqueue(r, recorded[r])
  /\ recorded' = [recorded EXCEPT ![r] = ""]
  /\ UNCHANGED <<memVars, eval, gen, writerVars, flush, dbVars,
                 lost, gone, strays>>

(* appPostRideEvaluatation: the check, the flag Completing, the payment ... *)
BeginEvaluation(r) ==
  /\ LatestStatus(r) = "ARRIVED" /\ eval[r] = "none"
  /\ eval' = [eval EXCEPT ![r] = "paying"]
  /\ UNCHANGED <<memVars, recorded, queueVars, writerVars, flush,
                 dbVars, historyVars>>

AbortEvaluation(r) ==
  /\ eval[r] = "paying"
  /\ eval' = [eval EXCEPT ![r] = "none"]
  /\ UNCHANGED <<memVars, recorded, queueVars, writerVars, flush,
                 dbVars, historyVars>>

(* ... then enqueueRideWrite ... *)
EnqueueCompleted(r) ==
  /\ eval[r] = "paying"
  /\ Enqueue(r, "COMPLETED")
  /\ eval' = [eval EXCEPT ![r] = "queued"]
  /\ UNCHANGED <<memVars, recorded, gen, writerVars, flush, dbVars,
                 lost, gone, strays>>

(* ... and complete, which finds no ride after an initialization. *)
RecordCompleted(r) ==
  /\ eval[r] = "queued"
  /\ eval' = [eval EXCEPT ![r] = "none"]
  /\ IF mem[r] = <<>>
       THEN UNCHANGED memVars
       ELSE /\ mem' = [mem EXCEPT ![r] = Append(@, "COMPLETED")]
            /\ counted' = counted \cup {r}
  /\ UNCHANGED <<recorded, queueVars, writerVars, flush, dbVars,
                 historyVars>>

-----------------------------------------------------------------------------
(* startRideWriter: take the whole queue and its generation ... *)
TakeBatch ==
  /\ wpc = "wait" /\ q # <<>>
  /\ batch' = q /\ q' = <<>> /\ wgen' = gen
  /\ wpc' = "taken"
  /\ UNCHANGED <<memVars, handlerVars, gen, flush, dbVars, historyVars>>

(* Mutant: a batch never expires. *)
NeverStale == FALSE

Stale == wgen # gen

(* ... under flushMu, drop the batch if an initialization came in between ... *)
LockFlush ==
  /\ wpc = "taken" /\ flush = "free"
  /\ IF Stale
       THEN /\ batch' = <<>> /\ wpc' = "wait"
            /\ lost' = lost \cup Refs(batch) /\ UNCHANGED flush
       ELSE flush' = "writer" /\ wpc' = "writing" /\ UNCHANGED <<batch, lost>>
  /\ UNCHANGED <<memVars, handlerVars, queueVars, wgen, dbVars, gone,
                 late, strays>>

Chunk == SubSeq(batch, 1, IF Len(batch) < ChunkSize THEN Len(batch) ELSE ChunkSize)

RowsOf(r) == {w.status : w \in {w \in ToSet(Chunk) : w.ride = r}}

(* Rows of rides that an initialization wiped out: INSERT stores them, UPDATE rides
   finds nothing. *)
Orphans == {ref \in Refs(Chunk) : ref[1] \notin known /\ mem[ref[1]] = <<>>}

(* The status of a ride in its last row of the chunk. *)
LastOf(r) == Chunk[Max({n \in DOMAIN Chunk : Chunk[n].ride = r})].status

(* Mutants: the last row of a chunk is stored again; a row is skipped between
   two chunks. *)
WriteChunkOverlapping ==
  /\ wpc = "writing" /\ batch # <<>>
  /\ rows' = [r \in Rides |-> rows[r] \cup RowsOf(r)]
  /\ batch' = IF Len(batch) = Len(Chunk) THEN <<>>
                                         ELSE SubSeq(batch, Len(Chunk), Len(batch))
  /\ UNCHANGED <<memVars, handlerVars, queueVars, wpc, wgen, flush,
                 known, column, evaluated, historyVars>>

WriteChunkSkipping ==
  /\ wpc = "writing" /\ batch # <<>>
  /\ rows' = [r \in Rides |-> rows[r] \cup RowsOf(r)]
  /\ batch' = SubSeq(batch, Len(Chunk) + 2, Len(batch))
  /\ UNCHANGED <<memVars, handlerVars, queueVars, wpc, wgen, flush,
                 known, column, evaluated, historyVars>>

(* ... and store it chunk by chunk.  A chunk is one transaction: the rows, the
   last status of each ride, and the evaluation of a completed ride. *)
WriteChunk ==
  /\ wpc = "writing" /\ batch # <<>>
  /\ rows' = [r \in Rides |-> rows[r] \cup RowsOf(r)]
  /\ column' = [r \in Rides |->
       IF r \in known /\ RowsOf(r) # {} THEN LastOf(r) ELSE column[r]]
  /\ evaluated' = evaluated \cup {r \in known : "COMPLETED" \in RowsOf(r)}
  /\ strays' = strays \cup Orphans
  /\ batch' = SubSeq(batch, Len(Chunk) + 1, Len(batch))
  /\ UNCHANGED <<memVars, handlerVars, queueVars, wpc, wgen, flush,
                 known, lost, gone, late>>

(* A chunk fails: the error is logged and the rest of the batch dropped.  Nobody
   waits for the outcome (rideWrite.done is never set), so a commit that was
   carried out but reported as failed is WriteChunk, then this for the rest. *)
WriteFails ==
  /\ wpc = "writing" /\ batch # <<>>
  /\ lost' = lost \cup Refs(batch)
  /\ batch' = <<>>
  /\ UNCHANGED <<memVars, handlerVars, queueVars, wpc, wgen, flush,
                 dbVars, gone, late, strays>>

(* Mutant: flushMu is not unlocked. *)
UnlockForgotten ==
  /\ wpc = "writing" /\ batch = <<>>
  /\ wpc' = "wait"
  /\ UNCHANGED <<memVars, handlerVars, queueVars, batch, wgen, flush,
                 dbVars, historyVars>>

UnlockFlush ==
  /\ wpc = "writing" /\ batch = <<>>
  /\ flush' = "free" /\ wpc' = "wait"
  /\ UNCHANGED <<memVars, handlerVars, queueVars, batch, wgen, dbVars,
                 historyVars>>

-----------------------------------------------------------------------------
(* The parts of an initialization and of a restart that concern the rides. *)

(* Mutant: the generation goes down. *)
DiscardBackwards ==
  /\ q' = <<>> /\ gen' = gen - 1 /\ lost' = lost \cup Refs(q)
  /\ gone' = gone \cup known /\ late' = {} /\ strays' = {}
  /\ UNCHANGED <<memVars, handlerVars, writerVars, dbVars>>

(* From here on the rides that there are are those of the run before. *)
DiscardRideWrites ==
  /\ q' = <<>> /\ gen' = gen + 1 /\ lost' = lost \cup Refs(q)
  /\ gone' = gone \cup known /\ late' = {} /\ strays' = {}
  /\ UNCHANGED <<memVars, handlerVars, writerVars, dbVars>>

(* init.sh drops and fills some tables, in the end all of them. *)
RebuildRides(tables) ==
  /\ IF "rides" \in tables
       THEN known' = {} /\ column' = [r \in Rides |-> ""] /\ evaluated' = {}
       ELSE UNCHANGED <<known, column, evaluated>>
  /\ IF "ride_statuses" \in tables THEN rows' = [r \in Rides |-> {}] ELSE UNCHANGED rows
  /\ UNCHANGED <<memVars, handlerVars, queueVars, writerVars, historyVars>>

ReloadRides ==
  /\ mem' = ReloadedStatuses /\ counted' = ReloadedStats
  /\ UNCHANGED <<handlerVars, queueVars, writerVars, dbVars, historyVars>>

(* A new process: handlers, queue and batch are gone, the database stays. *)
RestartRides ==
  /\ mem' = ReloadedStatuses /\ counted' = ReloadedStats
  /\ recorded' = [r \in Rides |-> ""]
  /\ eval' = [r \in Rides |-> "none"]
  /\ q' = <<>> /\ gen' = 0
  /\ wpc' = "wait" /\ batch' = <<>> /\ wgen' = 0
  /\ UNCHANGED <<dbVars, historyVars>>

RideHandlerStep(r) ==
  \/ EnqueueStatus(r)
  \/ EnqueueCompleted(r)
  \/ RecordCompleted(r)

RideCall(r) == RecordStatus(r) \/ BeginEvaluation(r) \/ AbortEvaluation(r)

RideWriterStep == TakeBatch \/ LockFlush \/ WriteChunk \/ WriteFails \/ UnlockFlush

RideStep ==
  \/ \E r \in Rides : RideCall(r) \/ RideHandlerStep(r)
  \/ RideWriterStep

-----------------------------------------------------------------------------
RideTypeOK ==
  /\ mem \in [Rides -> Seq(Status)] /\ counted \subseteq Rides
  /\ recorded \in [Rides -> Status \cup {""}]
  /\ eval \in [Rides -> {"none", "paying", "queued"}]
  /\ q \in Seq(Write) /\ batch \in Seq(Write)
  /\ gen \in Nat /\ wgen \in Nat
  /\ wpc \in {"wait", "taken", "writing"}
  /\ known \subseteq Rides /\ evaluated \subseteq Rides
  /\ rows \in [Rides -> SUBSET Status]
  /\ column \in [Rides -> Status \cup {""}]
  /\ lost \subseteq Rides \X Status
  /\ gone \subseteq Rides
  /\ late \subseteq Rides \X Status /\ strays \subseteq Rides \X Status

(* Rows on their way to the database: queued, or in the writer's hands. *)
UnderWay(r) == {w \in ToSet(q) \cup ToSet(batch) : w.ride = r}

(* No status gets lost between memory and database without a trace: it is
   stored, or on its way, or its batch was refused, or an initialization, which
   may then have failed, threw the queue away (writer.go:42-111). *)
EveryStatusHasAPlace ==
  \A r \in known : \A s \in ToSet(mem[r]) :
    \/ s \in rows[r] \/ <<r, s>> \in lost
    \/ recorded[r] = s
    \/ \E w \in UnderWay(r) : w.status = s

(* A status is never on its way twice, nor on its way again after it was stored,
   whatever was retried, lost or reloaded in between. *)
StoredOnce ==
  LET pipe == batch \o q
  IN /\ \A i, j \in DOMAIN pipe :
          (pipe[i].ride = pipe[j].ride /\ pipe[i].status = pipe[j].status) => i = j
     /\ \A i \in DOMAIN pipe : pipe[i].status \notin rows[pipe[i].ride]

(* With a later transition of the chair all the earlier ones are stored, unless
   their batch was refused or thrown away. *)
ChairRowsInOrder ==
  \A r \in known : \A i, j \in 1 .. 5 :
    (i < j /\ Lifecycle[j] \in rows[r]) =>
      Lifecycle[i] \in rows[r] \/ <<r, Lifecycle[i]>> \in lost

(* The statuses of a ride are stored once, and those of its chair in order
   (writer.go:63-163). *)
OnceAndInOrder == StoredOnce /\ ChairRowsInOrder

-----------------------------------------------------------------------------
(* What comments say and the code does not do. *)

(* Once nothing of a ride is on its way, rides.status is the latest status in
   ride_statuses (4-derived-data.sql). *)
ColumnIsLatest ==
  \A r \in known :
    (UnderWay(r) = {} /\ recorded[r] = "" /\ eval[r] # "queued") =>
      column[r] = Last(InOrder(rows[r]))

=============================================================================
