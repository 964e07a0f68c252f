------------------------------- MODULE Stream -------------------------------
(***************************************************************************)
(* The notification stream of one user or one chair (appGetNotification,   *)
(* chairGetNotification): the connections its client opens one after the   *)
(* other, the wake channel of the current one, and the statuses of the     *)
(* latest ride, which other handlers append.  Module Dispatch has of all   *)
(* this only that a stream, some time, marks the next status as sent.      *)
(***************************************************************************)
EXTENDS Naturals, SequencesExt

CONSTANTS
  Conns,      \* connections; each is opened once
  LastStep,   \* the statuses of a ride are 1, MATCHING, to LastStep, COMPLETED:
              \* 6 in the code
  MaxRides,   \* bound on the number of rides
  None

ASSUME StreamAssumption ==
  /\ LastStep \in Nat \ {0} /\ MaxRides \in Nat
  /\ None \notin Conns

VARIABLES
  chair,      \* whether this is the stream of a chair, or of a user
  \* memState, as far as this client is concerned
  ride,       \* its latest ride; 0: none
  steps,      \* Statuses of that ride
  sent,       \* the leading ones of them that are marked
  pending,    \* AssignPending of that ride
  current,    \* whose channel is in userWake or chairWake
  token,      \* connections with a token in their channel
  \* handlers
  pc,         \* "closed", "loop", "sending", "waiting", "done"
  initial,    \* connections that have sent nothing yet
  msg,        \* the status a handler is about to write, as <<ride, step>>
  \* clients
  broken,     \* connections that the client has lost or given up
  got,        \* what has reached the client on a connection
  lost        \* history: what was written to connections that were lost

latestVars == <<chair, ride, steps, sent, pending>>
connVars == <<current, token, pc, initial, msg>>
clientVars == <<broken, got, lost>>
vars == <<latestVars, connVars, clientVars>>

Init ==
  /\ chair \in BOOLEAN
  /\ ride = 0 /\ steps = <<>> /\ sent = 0 /\ pending = FALSE
  /\ current = None /\ token = {}
  /\ pc = [c \in Conns |-> "closed"]
  /\ initial = Conns
  /\ msg = [c \in Conns |-> <<0, 0>>]
  /\ broken = {} /\ got = [c \in Conns |-> <<>>] /\ lost = {}

-----------------------------------------------------------------------------
(* wake: a token for the current connection, unless there is one; mutant: for
   nobody *)
WakeNobody == token
Wake == IF current = None THEN token ELSE token \cup {current}

(* There is no ride, or it is completed. *)
NoneRunning == ride > 0 => Last(steps) = LastStep

(* addRide: a user whose last ride is completed has a new one. *)
NewRide ==
  /\ ~chair /\ ride < MaxRides /\ NoneRunning
  /\ ride' = ride + 1 /\ steps' = <<1>> /\ sent' = 0
  /\ token' = Wake
  /\ UNCHANGED <<chair, pending, current, pc, initial, msg, clientVars>>

(* assignChairs: a chair that was told COMPLETED gets a new ride, and will hear
   of it when finishAssign wakes it. *)
Assign ==
  /\ chair /\ ride < MaxRides /\ NoneRunning /\ sent = Len(steps)
  /\ ride' = ride + 1 /\ steps' = <<1>> /\ sent' = 0 /\ pending' = TRUE
  /\ UNCHANGED <<chair, connVars, clientVars>>

(* Mutant: without the wake. *)
FinishAssignSilent ==
  /\ pending
  /\ pending' = FALSE
  /\ UNCHANGED <<chair, ride, steps, sent, connVars, clientVars>>

FinishAssign ==
  /\ pending
  /\ pending' = FALSE
  /\ token' = Wake
  /\ UNCHANGED <<chair, ride, steps, sent, current, pc, initial, msg, clientVars>>

(* addStatus, complete: the handlers check that the status before it is the latest
   (but for ENROUTE, which a chair sends once). *)
AddStatus ==
  /\ ~pending /\ ~NoneRunning
  /\ steps' = Append(steps, Last(steps) + 1)
  /\ token' = Wake
  /\ UNCHANGED <<chair, ride, sent, pending, current, pc, initial, msg,
                 clientVars>>

-----------------------------------------------------------------------------
(* A client opens a connection, perhaps before the server notices that it lost
   the previous one: subscribe. *)
Open(c) ==
  /\ pc[c] = "closed"
  /\ pc' = [pc EXCEPT ![c] = "loop"]
  /\ current' = c
  /\ UNCHANGED <<latestVars, token, initial, msg, clientVars>>

(* ~isCurrent *)
Replaced(c) == current # c

(* next...NotificationLocked has something to return. *)
Unsent == ride > 0 /\ ~pending /\ sent < Len(steps)
HasData(c) == Unsent \/ (ride > 0 /\ ~pending /\ c \in initial)

(* The status it returns, the first that is unsent or else the latest; mutant:
   always the latest. *)
LatestStep == Last(steps)
NextStep == IF sent < Len(steps) THEN steps[sent + 1] ELSE Last(steps)

(* The number of statuses marked after that; mutant: counted when sent again. *)
MarkedAgain == sent + 1
Marked == IF sent < Len(steps) THEN sent + 1 ELSE sent

(* The section under the lock: end, ... *)
LoopReplaced(c) ==
  /\ pc[c] = "loop" /\ Replaced(c)
  /\ pc' = [pc EXCEPT ![c] = "done"]
  /\ UNCHANGED <<latestVars, current, token, initial, msg, clientVars>>

(* ... or mark a status as sent, before it is written, ... *)
LoopData(c) ==
  /\ pc[c] = "loop" /\ ~Replaced(c) /\ HasData(c)
  /\ msg' = [msg EXCEPT ![c] = <<ride, NextStep>>]
  /\ sent' = Marked
  /\ initial' = initial \ {c}
  /\ pc' = [pc EXCEPT ![c] = "sending"]
  /\ UNCHANGED <<chair, ride, steps, pending, current, token, clientVars>>

(* ... or go to wait. *)
LoopWait(c) ==
  /\ pc[c] = "loop" /\ ~Replaced(c) /\ ~HasData(c)
  /\ pc' = [pc EXCEPT ![c] = "waiting"]
  /\ UNCHANGED <<latestVars, current, token, initial, msg, clientVars>>

(* writeSSE *)
Write(c) ==
  /\ pc[c] = "sending" /\ c \notin broken
  /\ got' = [got EXCEPT ![c] = Append(@, msg[c])]
  /\ pc' = [pc EXCEPT ![c] = "loop"]
  /\ UNCHANGED <<latestVars, current, token, initial, msg, broken, lost>>

(* On a lost connection it fails, or fills a buffer that nobody reads.  A chair
   handler also ends when it cannot look up the name of the user. *)
WriteLost(c) ==
  /\ pc[c] = "sending" /\ (chair \/ c \in broken)
  /\ \E next \in (IF c \in broken THEN {"loop", "done"} ELSE {"done"}) :
       pc' = [pc EXCEPT ![c] = next]
  /\ lost' = lost \cup {msg[c]}
  /\ UNCHANGED <<latestVars, current, token, initial, msg, broken, got>>

(* select: the channel, or ctx.Done *)
WakeUp(c) ==
  /\ pc[c] = "waiting" /\ c \in token
  /\ token' = token \ {c}
  /\ pc' = [pc EXCEPT ![c] = "loop"]
  /\ UNCHANGED <<latestVars, current, initial, msg, clientVars>>

Leave(c) ==
  /\ pc[c] = "waiting" /\ c \in broken
  /\ pc' = [pc EXCEPT ![c] = "done"]
  /\ UNCHANGED <<latestVars, current, token, initial, msg, clientVars>>

(* The client loses a connection. *)
Break(c) ==
  /\ pc[c] # "closed" /\ c \notin broken
  /\ broken' = broken \cup {c}
  /\ UNCHANGED <<latestVars, connVars, got, lost>>

-----------------------------------------------------------------------------
(* Lists of statuses that loadState may find of a ride, sorted by their times:
   MATCHING, which is stored with the ride, and some later ones. *)
Lists ==
  UNION {{list \in [1 .. n -> 1 .. LastStep] :
            list[1] = 1 /\ \A i, j \in 1 .. n : i < j => list[i] < list[j]}
         : n \in 1 .. LastStep}

(* The latest ride and its statuses as loadState may find them.  Not stored is what
   was still queued, what was in a batch that the database refused while later ones
   were stored, and the assignment of a chair whose UPDATE was not or never done;
   a ride may be committed and not yet added. *)
LatestStored ==
  {<<ride, list>> : list \in {l \in Lists : ToSet(l) \subseteq ToSet(steps)}}
    \cup (IF chair /\ ride > 1 THEN {ride - 1} \X Lists ELSE {})
    \cup (IF ride = 0 \/ (chair /\ ride = 1) THEN {<<0, <<>>>>} ELSE {})
    \cup (IF ~chair /\ ride < MaxRides /\ NoneRunning THEN {<<ride + 1, <<1>>>>} ELSE {})

InFlight == {msg[c] : c \in {k \in Conns : pc[k] = "sending"}}

(* The process ends, and starts again from the database, which has no flags of
   statuses of these rides: all of them are unsent again.  Mutant: they are
   kept as sent. *)
RestartMarked ==
  /\ \E stored \in LatestStored : /\ ride' = stored[1] /\ steps' = stored[2]
                                 /\ sent' = Len(stored[2])
  /\ pending' = FALSE
  /\ current' = None /\ token' = {}
  /\ pc' = [c \in Conns |-> IF pc[c] = "closed" THEN "closed" ELSE "done"]
  /\ broken' = {c \in Conns : pc[c] # "closed"}
  /\ lost' = lost \cup InFlight
  /\ UNCHANGED <<chair, initial, msg, got>>

Restart ==
  /\ \E stored \in LatestStored : ride' = stored[1] /\ steps' = stored[2]
  /\ sent' = 0 /\ pending' = FALSE
  /\ current' = None /\ token' = {}
  /\ pc' = [c \in Conns |-> IF pc[c] = "closed" THEN "closed" ELSE "done"]
  /\ broken' = {c \in Conns : pc[c] # "closed"}
  /\ lost' = lost \cup InFlight
  /\ UNCHANGED <<chair, initial, msg, got>>

-----------------------------------------------------------------------------
Handler(c) ==
  \/ LoopReplaced(c) \/ LoopData(c) \/ LoopWait(c)
  \/ Write(c) \/ WriteLost(c) \/ WakeUp(c) \/ Leave(c)

Next ==
  \/ NewRide \/ Assign \/ FinishAssign \/ AddStatus \/ Restart
  \/ \E c \in Conns : Open(c) \/ Handler(c) \/ Break(c)

Spec == Init /\ [][Next]_vars

(* Goroutines that can run do. *)
FairSpec == Spec /\ \A c \in Conns : WF_vars(Handler(c))

-----------------------------------------------------------------------------
(* Type invariant. *)
TypeOK ==
  /\ chair \in BOOLEAN
  /\ ride \in 0 .. MaxRides /\ steps \in Seq(1 .. LastStep)
  /\ sent \in 0 .. Len(steps)
  /\ pending \in BOOLEAN
  /\ current \in Conns \cup {None}
  /\ token \subseteq Conns /\ initial \subseteq Conns /\ broken \subseteq Conns
  /\ pc \in [Conns -> {"closed", "loop", "sending", "waiting", "done"}]
  /\ msg \in [Conns -> Nat \X Nat]
  /\ got \in [Conns -> Seq(Nat \X Nat)] /\ lost \subseteq Nat \X Nat

(* The handler of the current connection waits without a token only when there
   is nothing to send: no wake-up is lost between the check under the lock and
   the select, although the channel holds one token (state.go:447-474). *)
NothingMissed ==
  \A c \in Conns : (current = c /\ pc[c] = "waiting" /\ c \notin token) => ~Unsent

(* On one connection what comes after a status is the next one that memory has of
   the ride, so that a status is left out only if a restart had not found it; or it
   is the first of a later ride, at a chair of the next and after the last status of
   the ride before (state.go:425-445, app_handlers.go:617-671). *)
Follows(a, b) ==
  \/ /\ b[1] = a[1] /\ a[2] < b[2]
     /\ ~\E step \in ToSet(steps) : a[2] < step /\ step < b[2]
  \/ b[1] > a[1] /\ b[2] = 1 /\ (chair => a[2] = LastStep /\ b[1] = a[1] + 1)

NoGaps ==
  \A c \in Conns :
    (pc[c] = "sending" /\ c \notin broken /\ msg[c][1] = ride /\ got[c] # <<>>) =>
      Follows(Last(got[c]), msg[c])

(* A status has reached the client, or is being written, or was written to a
   connection that was lost. *)
Told(m) ==
  \/ m \in lost
  \/ \E c \in Conns : m \in ToSet(got[c]) \/ (pc[c] = "sending" /\ msg[c] = m)

(* A status that is marked as sent was written to some connection or is about to
   be: also after a restart none of the statuses that were found is left out
   (state.go:17). *)
MarkedWasWritten == \A i \in 1 .. sent : Told(<<ride, steps[i]>>)

Live == current # None /\ current \notin broken /\ pc[current] # "done"

(* While the newest connection lives, what is unsent is sent. *)
UnsentIsSent == Unsent ~> (~Unsent \/ ~Live)

=============================================================================
