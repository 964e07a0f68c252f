---------------------------- MODULE ChairWriter ----------------------------
(***************************************************************************)
(* The write-behind path of the chairs (chair_handlers.go, writer.go,      *)
(* state.go): a registration and a change of activity are recorded in      *)
(* memory and queued, one goroutine stores the queue in batches; movements *)
(* are recorded in memory, which remembers the chairs that moved, and a    *)
(* flusher stores their distances from time to time.                       *)
(*                                                                         *)
(* A chair calls after the answer to its previous call.  A movement adds   *)
(* one to the distance.  What an initialization and a restart do to this   *)
(* state is defined here, when they do it in Stores.                       *)
(***************************************************************************)
EXTENDS FlushLock, Integers, SequencesExt

CONSTANTS
  Chairs,
  MaxCalls      \* how often a chair of a model may call

ASSUME ChairWriterAssumption == MaxCalls \in Nat

(* A chairWrite: the registration of a chair, or its new activity. *)
ChairWrite == [chair : Chairs, what : {"insert", "on", "off"}]

VARIABLES
  \* memory of the process
  fleet,        \* st.chairs: the chairs in it
  switchedOn,   \* ... those with IsActive
  total,        \* ... TotalDistance; 0: no location yet
  dirty,        \* st.dirtyChairs
  call,         \* a call between its steps: "none", "insert", "on" or "off"
  chairQ, chairGen,                 \* chairWriter
  cpc, chairBatch, batchGen,        \* its goroutine and its local variables
  flushing, flushed,                \* the flusher: chairs and distances to write
  \* database
  chairRows,    \* chairs with a row in chairs
  activeRows,   \* ... those with is_active
  distances,    \* chair_distances.total_distance; 0: no row
  \* the chairs themselves, and history
  calls,        \* calls a chair may still make
  chairLost,    \* chairs with something in a refused batch or a discarded queue, or
                \* forgotten by a restart
  wiped         \* chairs that were in memory when an initialization began

fleetVars == <<fleet, switchedOn, total, dirty>>
callVars == <<call, calls>>
chairQueueVars == <<chairQ, chairGen>>
chairWriterVars == <<cpc, chairBatch, batchGen>>
flusherVars == <<flushing, flushed>>
chairDbVars == <<chairRows, activeRows, distances>>
chairHistory == <<chairLost, wiped>>
chairVars == <<fleetVars, callVars, chairQueueVars, chairWriterVars, flusherVars,
               chairDbVars, chairHistory>>

-----------------------------------------------------------------------------
(* What loadState reads. *)
LoadChairs ==
  /\ fleet' = chairRows /\ switchedOn' = activeRows
  /\ total' = [c \in Chairs |-> IF c \in chairRows THEN distances[c] ELSE 0]
  /\ dirty' = {}

(* The process has just started; stored: the chairs that were registered before. *)
ChairInit(stored, budget) ==
  /\ chairRows = stored /\ activeRows = {} /\ distances = [c \in Chairs |-> 0]
  /\ fleet = stored /\ switchedOn = {} /\ dirty = {}
  /\ total = [c \in Chairs |-> 0]
  /\ call = [c \in Chairs |-> "none"] /\ calls = budget
  /\ chairQ = <<>> /\ chairGen = 0
  /\ cpc = "wait" /\ chairBatch = <<>> /\ batchGen = 0
  /\ flushing = {} /\ flushed = [c \in Chairs |-> 0]
  /\ chairLost = {} /\ wiped = {}

-----------------------------------------------------------------------------
Calls(c) == calls[c] > 0 /\ call[c] = "none" /\ calls' = [calls EXCEPT ![c] = @ - 1]

ChairsIn(pipe) == {w.chair : w \in ToSet(pipe)}

ChairQueued(c, what) == [chair |-> c, what |-> what]

(* chairPostChairs, with an id that is new: enqueueChairWrite ... *)
RegisterChair(c) ==
  /\ Calls(c) /\ c \notin fleet \cup chairRows \cup chairLost \cup wiped
  /\ c \notin ChairsIn(chairQ \o chairBatch)
  /\ chairQ' = Append(chairQ, ChairQueued(c, "insert"))
  /\ call' = [call EXCEPT ![c] = "insert"]
  /\ UNCHANGED <<fleetVars, chairGen, chairWriterVars, flush, flusherVars,
                 chairDbVars, chairHistory>>

(* ... then addChair. *)
AddChair(c) ==
  /\ call[c] = "insert"
  /\ fleet' = fleet \cup {c}
  /\ call' = [call EXCEPT ![c] = "none"]
  /\ UNCHANGED <<switchedOn, total, dirty, calls, chairQueueVars, chairWriterVars,
                 flush, flusherVars, chairDbVars, chairHistory>>

(* chairPostActivity: setChairActive ... *)
SwitchChair(c, what) ==
  /\ c \in fleet /\ Calls(c)
  /\ switchedOn' = IF what = "on" THEN switchedOn \cup {c} ELSE switchedOn \ {c}
  /\ call' = [call EXCEPT ![c] = what]
  /\ UNCHANGED <<fleet, total, dirty, chairQueueVars, chairWriterVars, flush,
                 flusherVars, chairDbVars, chairHistory>>

(* ... then enqueueChairWrite. *)
EnqueueActivity(c) ==
  /\ call[c] \in {"on", "off"}
  /\ chairQ' = Append(chairQ, ChairQueued(c, call[c]))
  /\ call' = [call EXCEPT ![c] = "none"]
  /\ UNCHANGED <<fleetVars, calls, chairGen, chairWriterVars, flush, flusherVars,
                 chairDbVars, chairHistory>>

(* chairPostCoordinate: setChairLocation. *)
MoveChair(c) ==
  /\ c \in fleet /\ Calls(c)
  /\ total' = [total EXCEPT ![c] = @ + 1]
  /\ dirty' = dirty \cup {c}
  /\ UNCHANGED <<fleet, switchedOn, call, chairQueueVars, chairWriterVars, flush,
                 flusherVars, chairDbVars, chairHistory>>

-----------------------------------------------------------------------------
(* startChairWriter: take the queue and its generation ... *)
TakeChairBatch ==
  /\ cpc = "wait" /\ chairQ # <<>>
  /\ chairBatch' = chairQ /\ chairQ' = <<>> /\ batchGen' = chairGen
  /\ cpc' = "taken"
  /\ UNCHANGED <<fleetVars, callVars, chairGen, flush, flusherVars, chairDbVars,
                 chairHistory>>

(* Mutant: a batch never expires. *)
NeverStaleChairs == FALSE

StaleChairs == batchGen # chairGen

(* ... under flushMu, drop it after an initialization ... *)
LockChairs ==
  /\ cpc = "taken" /\ flush = "free"
  /\ IF StaleChairs
       THEN /\ chairBatch' = <<>> /\ cpc' = "wait"
            /\ chairLost' = chairLost \cup ChairsIn(chairBatch) /\ UNCHANGED flush
       ELSE LockFlushMu("chairs") /\ cpc' = "insert" /\ UNCHANGED <<chairBatch, chairLost>>
  /\ UNCHANGED <<fleetVars, callVars, chairQueueVars, batchGen, flusherVars,
                 chairDbVars, wiped>>

(* ... insert the registered chairs (in statements of 500, here one) ... *)
InsertChairs ==
  /\ cpc = "insert"
  /\ chairRows' = chairRows \cup {w.chair : w \in {w \in ToSet(chairBatch) : w.what = "insert"}}
  /\ cpc' = "on"
  /\ UNCHANGED <<fleetVars, callVars, chairQueueVars, chairBatch, batchGen, flush,
                 flusherVars, activeRows, distances, chairHistory>>

(* The activity of a chair in the batch: the last one, "" for none. *)
ActivityOf(c) ==
  LET changes == {n \in DOMAIN chairBatch :
                    chairBatch[n].chair = c /\ chairBatch[n].what # "insert"}
  IN IF changes = {} THEN "" ELSE chairBatch[Max(changes)].what

(* ... and update those switched on, then those switched off. *)
UpdateOn ==
  /\ cpc = "on"
  /\ activeRows' = activeRows \cup {c \in chairRows : ActivityOf(c) = "on"}
  /\ cpc' = "off"
  /\ UNCHANGED <<fleetVars, callVars, chairQueueVars, chairBatch, batchGen, flush,
                 flusherVars, chairRows, distances, chairHistory>>

UpdateOff ==
  /\ cpc = "off"
  /\ activeRows' = activeRows \ {c \in chairRows : ActivityOf(c) = "off"}
  /\ chairBatch' = <<>> /\ cpc' = "wait" /\ UnlockFlushMu
  /\ UNCHANGED <<fleetVars, callVars, chairQueueVars, batchGen, flusherVars,
                 chairRows, distances, chairHistory>>

(* A statement fails: the error is logged and the rest of the batch dropped. *)
ChairWriteFails ==
  /\ cpc \in {"insert", "on", "off"}
  /\ chairLost' = chairLost \cup ChairsIn(chairBatch)
  /\ chairBatch' = <<>> /\ cpc' = "wait" /\ UnlockFlushMu
  /\ UNCHANGED <<fleetVars, callVars, chairQueueVars, batchGen, flusherVars,
                 chairDbVars, wiped>>

ChairWriterStep ==
  TakeChairBatch \/ LockChairs \/ InsertChairs \/ UpdateOn \/ UpdateOff \/ ChairWriteFails

-----------------------------------------------------------------------------
(* flushChairDistances: copy what moved, under flushMu ... *)
TakeDistances ==
  /\ dirty # {} /\ LockFlushMu("flusher")
  /\ flushing' = dirty \cap fleet /\ flushed' = total /\ dirty' = {}
  /\ UNCHANGED <<fleet, switchedOn, total, callVars, chairQueueVars, chairWriterVars,
                 chairDbVars, chairHistory>>

(* Mutant: moves made during the write are forgotten. *)
WriteDistancesLate ==
  /\ flush = "flusher"
  /\ distances' = [c \in Chairs |-> IF c \in flushing THEN flushed[c] ELSE distances[c]]
  /\ flushing' = {} /\ flushed' = [c \in Chairs |-> 0] /\ dirty' = {} /\ UnlockFlushMu
  /\ UNCHANGED <<fleet, switchedOn, total, callVars, chairQueueVars, chairWriterVars,
                 chairRows, activeRows, chairHistory>>

(* ... then write it (in statements of 500, here one). *)
WriteDistances ==
  /\ flush = "flusher"
  /\ distances' = [c \in Chairs |-> IF c \in flushing THEN flushed[c] ELSE distances[c]]
  /\ flushing' = {} /\ flushed' = [c \in Chairs |-> 0] /\ UnlockFlushMu
  /\ UNCHANGED <<fleetVars, callVars, chairQueueVars, chairWriterVars, chairRows,
                 activeRows, chairHistory>>

(* The write fails; what was copied is not dirty any more. *)
FlushFails ==
  /\ flush = "flusher"
  /\ chairLost' = chairLost \cup flushing
  /\ flushing' = {} /\ flushed' = [c \in Chairs |-> 0] /\ UnlockFlushMu
  /\ UNCHANGED <<fleetVars, callVars, chairQueueVars, chairWriterVars, chairDbVars,
                 wiped>>

FlusherStep == TakeDistances \/ WriteDistances \/ FlushFails

-----------------------------------------------------------------------------
(* The parts of an initialization and of a restart that concern the chairs. *)
DiscardChairWrites ==
  /\ chairQ' = <<>> /\ chairGen' = chairGen + 1
  /\ chairLost' = chairLost \cup ChairsIn(chairQ)
  /\ wiped' = wiped \cup fleet
  /\ UNCHANGED <<fleetVars, callVars, chairWriterVars, flusherVars, chairDbVars>>

(* init.sh drops some tables, in the end all of them, and the chairs of the run
   before are in none that it fills. *)
RebuildChairs(tables) ==
  /\ IF "chairs" \in tables
       THEN /\ chairRows' = {} /\ activeRows' = {}
            /\ chairLost' = chairLost \cup chairRows
       ELSE UNCHANGED <<chairRows, activeRows, chairLost>>
  /\ IF "chair_distances" \in tables
       THEN distances' = [c \in Chairs |-> 0] ELSE UNCHANGED distances
  /\ UNCHANGED <<fleetVars, callVars, chairQueueVars, chairWriterVars, flusherVars>>

ReloadChairs ==
  /\ LoadChairs
  /\ UNCHANGED <<callVars, chairQueueVars, chairWriterVars, flusherVars, chairDbVars,
                 chairHistory>>

RestartChairs ==
  /\ LoadChairs
  /\ call' = [c \in Chairs |-> "none"]
  /\ chairQ' = <<>> /\ chairGen' = 0
  /\ cpc' = "wait" /\ chairBatch' = <<>> /\ batchGen' = 0
  /\ flushing' = {} /\ flushed' = [c \in Chairs |-> 0]
  /\ chairLost' = chairLost \cup (fleet \ chairRows)
  /\ UNCHANGED <<calls, chairDbVars, wiped>>

ChairHandlerStep(c) == AddChair(c) \/ EnqueueActivity(c)

ChairCall(c) ==
  RegisterChair(c) \/ MoveChair(c) \/ \E what \in {"on", "off"} : SwitchChair(c, what)

ChairStep ==
  \/ \E c \in Chairs : ChairCall(c) \/ ChairHandlerStep(c)
  \/ ChairWriterStep \/ FlusherStep

-----------------------------------------------------------------------------
ChairTypeOK ==
  /\ fleet \subseteq Chairs /\ switchedOn \subseteq fleet /\ dirty \subseteq Chairs
  /\ total \in [Chairs -> Nat] /\ flushed \in [Chairs -> Nat]
  /\ distances \in [Chairs -> Nat]
  /\ call \in [Chairs -> {"none", "insert", "on", "off"}]
  /\ calls \in [Chairs -> 0 .. MaxCalls]
  /\ chairQ \in Seq(ChairWrite) /\ chairBatch \in Seq(ChairWrite)
  /\ chairGen \in Nat /\ batchGen \in Nat
  /\ cpc \in {"wait", "taken", "insert", "on", "off"}
  /\ flushing \subseteq Chairs /\ chairRows \subseteq Chairs
  /\ activeRows \subseteq chairRows
  /\ chairLost \subseteq Chairs /\ wiped \subseteq Chairs

(* Nothing of a chair is on its way to the database. *)
Settled(c) ==
  /\ call[c] = "none" /\ c \notin ChairsIn(chairQ) \cup ChairsIn(chairBatch)
  /\ c \notin dirty \cup flushing

(* The database catches up with memory: once nothing of a chair is on its way, its
   row, its activity and its distance are those of memory, unless a write was
   refused or an initialization threw it away (writer.go:165-167). *)
ChairsCatchUp ==
  \A c \in fleet \ chairLost : Settled(c) =>
    /\ c \in chairRows
    /\ c \in activeRows <=> c \in switchedOn
    /\ distances[c] = total[c]
=============================================================================
