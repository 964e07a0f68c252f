------------------------------- MODULE Stores -------------------------------
(***************************************************************************)
(* The two write-behind paths together, with what they share: flushMu,     *)
(* POST /api/initialize (main.go), which holds it, throws both queues away, *)
(* rebuilds the database and loads it, and the restart of the process.     *)
(***************************************************************************)
EXTENDS RideWriter, ChairWriter

CONSTANTS
  MaxInits,     \* how often a model may initialize
  Starts        \* initial states: [stage, stored, budget]

ASSUME StoresAssumption ==
  /\ MaxInits \in Nat
  /\ \A s \in Starts : /\ s.stage \in [Rides -> 0 .. Len(Lifecycle)]
                      /\ s.stored \subseteq Chairs
                      /\ s.budget \in [Chairs -> 0 .. MaxCalls]

VARIABLES
  ipc, inits    \* postInitialize, and how many of them there were

initVars == <<ipc, inits>>
vars == <<rideVars, chairVars, flush, initVars>>

Init ==
  /\ \E s \in Starts : RideInit(s.stage) /\ ChairInit(s.stored, s.budget)
  /\ flush = "free" /\ ipc = "idle" /\ inits = 0

(* No ride is requested while the service initializes. *)
RequestRide == ipc = "idle" /\ \E r \in Rides : CreateRide(r)

(* postInitialize: flushMu ... *)
InitLock ==
  /\ ipc = "idle" /\ inits < MaxInits /\ LockFlushMu("init")
  /\ ipc' = "locked" /\ inits' = inits + 1
  /\ UNCHANGED <<rideVars, chairVars>>

(* ... both queues ... *)
Discard ==
  /\ ipc = "locked" /\ ipc' = "discarded"
  /\ DiscardRideWrites /\ DiscardChairWrites
  /\ UNCHANGED <<flush, inits>>

(* The tables of 1-schema.sql that are modelled, in the order of the file. *)
Tables == <<"chairs", "rides", "ride_statuses", "chair_distances">>

(* ... init.sh ... *)
Rebuild ==
  /\ ipc = "discarded" /\ ipc' = "rebuilt"
  /\ RebuildRides(ToSet(Tables)) /\ RebuildChairs(ToSet(Tables))
  /\ UNCHANGED <<wiped, flush, inits>>

(* ... and loadState. *)
Load ==
  /\ ipc = "rebuilt" /\ ipc' = "idle" /\ UnlockFlushMu
  /\ ReloadRides /\ ReloadChairs
  /\ UNCHANGED inits

(* init.sh fails, after some of the tables, or the UPDATE or loadState after it: an
   error is answered, and the old memory stays beside what is in the database. *)
InitFails ==
  /\ ipc \in {"discarded", "rebuilt"} /\ ipc' = "idle" /\ UnlockFlushMu
  /\ \E n \in 0 .. Len(Tables) :
       LET dropped == {Tables[i] : i \in 1 .. n}
       IN RebuildRides(dropped) /\ RebuildChairs(dropped)
  /\ wiped' = {} /\ UNCHANGED inits

InitializeStep == InitLock \/ Discard \/ Rebuild \/ Load \/ InitFails

(* The process dies, between initializations, and starts again: loadState runs. *)
CrashAndRestart ==
  /\ ipc = "idle" /\ flush' = "free"
  /\ RestartRides /\ RestartChairs
  /\ UNCHANGED initVars

Next ==
  \/ (RequestRide \/ RideStep) /\ UNCHANGED <<chairVars, initVars>>
  \/ ChairStep /\ UNCHANGED <<rideVars, initVars>>
  \/ InitializeStep
  \/ CrashAndRestart

Spec == Init /\ [][Next]_vars

(* A handler that has begun ends, and the goroutines and an initialization go on;
   a mutex of Go, after a millisecond, goes to the one that has waited longest. *)
FairSpec ==
  /\ Spec
  /\ \A r \in Rides : WF_vars(RideHandlerStep(r) /\ UNCHANGED <<chairVars, initVars>>)
  /\ \A c \in Chairs : WF_vars(ChairHandlerStep(c) /\ UNCHANGED <<rideVars, initVars>>)
  /\ SF_vars(RideWriterStep /\ UNCHANGED <<chairVars, initVars>>)
  /\ SF_vars(ChairWriterStep /\ UNCHANGED <<rideVars, initVars>>)
  /\ SF_vars(FlusherStep /\ UNCHANGED <<rideVars, initVars>>)
  /\ WF_vars(InitializeStep)

-----------------------------------------------------------------------------
(* Type invariant. *)
TypeOK ==
  /\ RideTypeOK /\ ChairTypeOK
  /\ flush \in {"free", "writer", "chairs", "flusher", "init"}
  /\ ipc \in {"idle", "locked", "discarded", "rebuilt"} /\ inits \in 0 .. MaxInits

(* The database never knows more of a ride than memory, but for the COMPLETED that
   an evaluation queues before it records it (app_handlers.go:559-560). *)
RowsAreInMemory ==
  \A r \in known :
    rows[r] \subseteq ToSet(mem[r]) \cup
      (IF eval[r] = "queued" THEN {"COMPLETED"} ELSE {})

(* Between initializations memory and database tell the same story of a ride: what
   memory says is stored or accounted for, what is stored is in memory, and sales
   count only rides that memory holds as completed. *)
RidesAgree ==
  /\ EveryStatusHasAPlace
  /\ ipc = "idle" => /\ RowsAreInMemory
                     /\ \A r \in counted : "COMPLETED" \in ToSet(mem[r])

(* Of the run before an initialization nothing comes back that was queued, taken by
   a writer or copied by the flusher before it: no chair, no distance, and no status
   but what a handler queues after the queues were discarded, which is stored
   (writer.go:50-84, state.go:690-692; chair_handlers.go:316-320, app_handlers.go:
   546-559). *)
NoStrays ==
  /\ strays \subseteq late
  /\ ipc \in {"rebuilt", "idle"} =>
       \A c \in wiped : c \notin chairRows /\ distances[c] = 0

(* What memory says reaches the database: when clients pause, both queues, the
   writers and the flusher run empty, however often a batch fails, an initialization
   holds flushMu or the process restarts.  With RidesAgree and ChairsCatchUp,
   what was on its way is stored then, refused or thrown away. *)
EventuallyStored ==
  []<>(/\ \A r \in Rides : UnderWay(r) = {} /\ recorded[r] = ""
       /\ \A c \in Chairs : Settled(c))
=============================================================================
