---------------------------- MODULE StreamProofs ----------------------------
(* Proofs about Stream, for any number of connections and rides. *)
EXTENDS Stream, SequenceTheorems, TLAPS

USE DEF latestVars, connVars, clientVars

(* The list of the latest ride begins with MATCHING and goes up. *)
Upward(list) == \A i, j \in 1 .. Len(list) : i < j => list[i] < list[j]

StepsInv ==
  /\ ride = 0 => steps = <<>>
  /\ ride > 0 => Len(steps) > 0 /\ steps[1] = 1
  /\ Upward(steps)

(* So do the lists that a restart may find. *)
LEMMA ListsAreLists ==
  ASSUME NEW list \in Lists
  PROVE  /\ list \in Seq(1 .. LastStep) /\ Len(list) > 0 /\ list[1] = 1
         /\ Upward(list) /\ 1 \in ToSet(list)
<1>1. PICK n \in 1 .. LastStep :
        /\ list \in [1 .. n -> 1 .. LastStep] /\ list[1] = 1
        /\ \A i, j \in 1 .. n : i < j => list[i] < list[j]
  BY DEF Lists
<1>2. n \in Nat /\ n > 0
  BY StreamAssumption
<1>3. list \in Seq(1 .. LastStep)
  BY <1>1, <1>2, SeqDef
<1>4. Len(list) = n
  BY <1>1, <1>2, <1>3, LenProperties
<1>5. 1 \in ToSet(list)
  BY <1>1, <1>2 DEF ToSet
<1> QED
  BY <1>1, <1>2, <1>3, <1>4, <1>5 DEF Upward

LEMMA StoredLists ==
  ASSUME TypeOK, StepsInv, NEW stored \in LatestStored
  PROVE  /\ stored[1] \in 0 .. MaxRides
         /\ stored[1] = 0 => stored[2] = <<>>
         /\ stored[1] > 0 => Len(stored[2]) > 0 /\ stored[2][1] = 1
         /\ stored[2] \in Seq(1 .. LastStep) /\ Upward(stored[2])
<1>1. ride \in Nat /\ ride <= MaxRides /\ MaxRides \in Nat /\ LastStep \in Nat \ {0}
  BY StreamAssumption DEF TypeOK
<1>2. /\ <<>> \in Seq(1 .. LastStep) /\ Len(<<>>) = 0
      /\ <<1>> \in Seq(1 .. LastStep) /\ Len(<<1>>) = 1
  BY <1>1
<1>3. Upward(<<>>) /\ Upward(<<1>>)
  BY DEF Upward
<1>4. CASE \E list \in Lists : ToSet(list) \subseteq ToSet(steps) /\ stored = <<ride, list>>
  <2>1. PICK list \in Lists : ToSet(list) \subseteq ToSet(steps) /\ stored = <<ride, list>>
    BY <1>4
  <2>2. 1 \in ToSet(steps)
    BY <2>1, ListsAreLists
  <2>3. ride # 0
    <3> SUFFICES ASSUME ride = 0 PROVE FALSE
      OBVIOUS
    <3>1. steps = <<>>
      BY DEF StepsInv
    <3> QED
      BY <2>2, <3>1 DEF ToSet
  <2> QED
    BY <1>1, <2>1, <2>3, ListsAreLists
<1>5. CASE ride > 1 /\ stored \in {ride - 1} \X Lists
  <2>1. stored[1] = ride - 1 /\ stored[2] \in Lists
    BY <1>5
  <2> QED
    BY <1>1, <1>5, <2>1, ListsAreLists
<1>6. CASE stored = <<0, <<>>>>
  BY <1>1, <1>2, <1>3, <1>6
<1>7. CASE ride < MaxRides /\ stored = <<ride + 1, <<1>>>>
  BY <1>1, <1>2, <1>3, <1>7
<1> QED
  BY <1>4, <1>5, <1>6, <1>7 DEF LatestStored

LEMMA TypeInit == Init => TypeOK /\ StepsInv
<1> SUFFICES ASSUME Init PROVE TypeOK /\ StepsInv
  OBVIOUS
<1> USE StreamAssumption DEF Init
<1>1. got \in [Conns -> Seq(Nat \X Nat)] /\ lost \subseteq Nat \X Nat
  <2>1. <<>> \in Seq(Nat \X Nat)
    OBVIOUS
  <2> QED BY <2>1
<1>2. msg \in [Conns -> Nat \X Nat]
  OBVIOUS
<1>3. ride \in 0 .. MaxRides /\ steps \in Seq(1 .. LastStep) /\ sent \in 0 .. Len(steps)
  OBVIOUS
<1>4. /\ token \subseteq Conns /\ initial \subseteq Conns /\ broken \subseteq Conns
      /\ pc \in [Conns -> {"closed", "loop", "sending", "waiting", "done"}]
  OBVIOUS
<1>5. pending \in BOOLEAN /\ current \in Conns \cup {None}
  OBVIOUS
<1>6. StepsInv
  BY DEF StepsInv, Upward
<1> QED
  BY <1>1, <1>2, <1>3, <1>4, <1>5, <1>6 DEF TypeOK

(* A ride begins with a list of one, which then gets a higher status. *)
LEMMA NewListTyped ==
  ASSUME TypeOK, ride' = ride + 1, ride < MaxRides, steps' = << 1 >>, sent' = 0
  PROVE  /\ ride' \in 0 .. MaxRides /\ steps' \in Seq(1 .. LastStep)
         /\ sent' \in 0 .. Len(steps') /\ StepsInv'
<1>1. ride \in Nat /\ MaxRides \in Nat /\ LastStep \in Nat \ {0}
  BY StreamAssumption DEF TypeOK
<1>2. steps' \in Seq(1 .. LastStep) /\ Len(steps') = 1 /\ steps'[1] = 1
  BY <1>1
<1>3. StepsInv'
  BY <1>1, <1>2 DEF StepsInv, Upward
<1> QED
  BY <1>1, <1>2, <1>3

LEMMA AddStatusFacts ==
  ASSUME TypeOK, StepsInv, AddStatus
  PROVE  /\ steps' \in Seq(1 .. LastStep) /\ Len(steps') = Len(steps) + 1
         /\ Len(steps) \in Nat \ {0} /\ ride \in Nat \ {0}
         /\ \A i \in 1 .. Len(steps) : steps'[i] = steps[i] /\ steps[i] < Last(steps) + 1
         /\ steps'[Len(steps) + 1] = Last(steps) + 1
         /\ StepsInv'
<1>1. ride \in Nat /\ steps \in Seq(1 .. LastStep) /\ LastStep \in Nat \ {0}
  BY StreamAssumption DEF TypeOK
<1>2. ride > 0 /\ Last(steps) # LastStep /\ steps' = Append(steps, Last(steps) + 1) /\ ride' = ride
  BY DEF AddStatus, NoneRunning
<1>3. Len(steps) \in Nat \ {0} /\ steps[1] = 1 /\ Upward(steps)
  BY <1>1, <1>2 DEF StepsInv
<1>4. \A i \in 1 .. Len(steps) : steps[i] \in 1 .. LastStep
  BY <1>1
<1>5. Last(steps) = steps[Len(steps)] /\ Len(steps) \in 1 .. Len(steps)
  BY <1>3 DEF Last
<1>6. Last(steps) \in 1 .. LastStep
  BY <1>4, <1>5
<1>7. Last(steps) + 1 \in 1 .. LastStep
  BY <1>1, <1>2, <1>6
<1>8. /\ steps' \in Seq(1 .. LastStep) /\ Len(steps') = Len(steps) + 1
      /\ \A i \in 1 .. Len(steps) : steps'[i] = steps[i]
      /\ steps'[Len(steps) + 1] = Last(steps) + 1
  BY <1>1, <1>2, <1>7
<1>9. \A i \in 1 .. Len(steps) : steps[i] < Last(steps) + 1
  <2> SUFFICES ASSUME NEW i \in 1 .. Len(steps) PROVE steps[i] < Last(steps) + 1
    OBVIOUS
  <2>1. i = Len(steps) \/ i < Len(steps)
    BY <1>3
  <2>2. steps[i] <= steps[Len(steps)]
    BY <1>3, <1>4, <1>5, <2>1 DEF Upward
  <2> QED
    BY <1>4, <1>5, <1>6, <2>2
<1>10. Upward(steps)'
  <2> SUFFICES ASSUME NEW i \in 1 .. Len(steps'), NEW j \in 1 .. Len(steps'), i < j
               PROVE  steps'[i] < steps'[j]
    BY DEF Upward
  <2>1. i \in 1 .. Len(steps)
    BY <1>3, <1>8
  <2>2. CASE j \in 1 .. Len(steps)
    BY <1>3, <1>8, <2>1, <2>2 DEF Upward
  <2>3. CASE j = Len(steps) + 1
    BY <1>8, <1>9, <2>1, <2>3
  <2> QED
    BY <1>3, <1>8, <2>2, <2>3
<1>11. 1 \in 1 .. Len(steps) /\ Len(steps') > 0
  BY <1>3, <1>8
<1>12. steps'[1] = 1
  BY <1>3, <1>8, <1>11
<1>13. StepsInv'
  BY <1>2, <1>10, <1>11, <1>12 DEF StepsInv
<1> QED
  BY <1>1, <1>2, <1>3, <1>8, <1>9, <1>13

(* What a handler picks and how far it marks. *)
LEMMA PickFacts ==
  ASSUME TypeOK, StepsInv, ride > 0
  PROVE  /\ NextStep \in 1 .. LastStep /\ Marked \in 1 .. Len(steps)
         /\ NextStep = steps[Marked]
         /\ Len(steps) \in Nat /\ sent \in Nat
         /\ sent < Len(steps) => Marked = sent + 1
<1>1. /\ steps \in Seq(1 .. LastStep) /\ Len(steps) \in Nat /\ Len(steps) > 0
      /\ sent \in 0 .. Len(steps)
  BY LenProperties DEF TypeOK, StepsInv
<1>2. \A i \in 1 .. Len(steps) : steps[i] \in 1 .. LastStep
  BY <1>1, ElementOfSeq
<1>3. CASE sent < Len(steps)
  BY <1>1, <1>2, <1>3 DEF NextStep, Marked
<1>4. CASE ~(sent < Len(steps))
  <2>1. sent = Len(steps)
    BY <1>1, <1>4
  <2> QED
    BY <1>1, <1>2, <1>4, <2>1 DEF NextStep, Marked, Last
<1> QED
  BY <1>3, <1>4

(* Every section of the handlers keeps the types; in particular no more
   statuses are marked than there are. *)
LEMMA TypeStep == TypeOK /\ StepsInv /\ [Next]_vars => TypeOK' /\ StepsInv'
<1> SUFFICES ASSUME TypeOK, StepsInv, [Next]_vars PROVE TypeOK' /\ StepsInv'
  OBVIOUS
<1>0. ASSUME UNCHANGED <<ride, steps>> PROVE StepsInv'
  BY <1>0 DEF StepsInv, Upward
<1> USE StreamAssumption DEF TypeOK
<1>1. CASE NewRide
  <2>1. /\ ride' \in 0 .. MaxRides /\ steps' \in Seq(1 .. LastStep)
        /\ sent' \in 0 .. Len(steps') /\ StepsInv'
    BY <1>1, NewListTyped DEF NewRide
  <2> QED
    BY <1>1, <2>1 DEF NewRide, Wake
<1>2. CASE Assign
  <2>1. /\ ride' \in 0 .. MaxRides /\ steps' \in Seq(1 .. LastStep)
        /\ sent' \in 0 .. Len(steps') /\ StepsInv'
    BY <1>2, NewListTyped DEF Assign
  <2> QED
    BY <1>2, <2>1 DEF Assign
<1>3. CASE FinishAssign
  BY <1>0, <1>3 DEF FinishAssign, Wake
<1>4. CASE AddStatus
  <2>1. steps' \in Seq(1 .. LastStep) /\ Len(steps') = Len(steps) + 1 /\ StepsInv'
    BY <1>4, AddStatusFacts
  <2>2. sent' \in 0 .. Len(steps')
    <3>1. sent' = sent /\ sent \in 0 .. Len(steps) /\ Len(steps) \in Nat
      BY <1>4 DEF AddStatus
    <3> QED
      BY <2>1, <3>1
  <2> QED
    BY <1>4, <2>1, <2>2 DEF AddStatus, Wake
<1>5. ASSUME NEW c \in Conns, Open(c) PROVE TypeOK' /\ StepsInv'
  BY <1>0, <1>5 DEF Open
<1>6. ASSUME NEW c \in Conns, LoopReplaced(c) PROVE TypeOK' /\ StepsInv'
  BY <1>0, <1>6 DEF LoopReplaced
<1>7. ASSUME NEW c \in Conns, LoopData(c) PROVE TypeOK' /\ StepsInv'
  <2>1. ride > 0
    BY <1>7 DEF LoopData, HasData, Unsent
  <2>2. NextStep \in Nat /\ Marked \in 0 .. Len(steps)
    <3>1. NextStep \in 1 .. LastStep /\ Marked \in 1 .. Len(steps) /\ Len(steps) \in Nat
      BY <2>1, PickFacts
    <3> QED BY <3>1, StreamAssumption
  <2>3. ride \in Nat /\ UNCHANGED <<ride, steps>>
    BY <1>7 DEF LoopData
  <2>4. msg' \in [Conns -> Nat \X Nat]
    BY <1>7, <2>2, <2>3 DEF LoopData
  <2>5. sent' \in 0 .. Len(steps')
    BY <1>7, <2>2, <2>3 DEF LoopData
  <2> QED BY <1>0, <1>7, <2>3, <2>4, <2>5 DEF LoopData
<1>8. ASSUME NEW c \in Conns, LoopWait(c) PROVE TypeOK' /\ StepsInv'
  BY <1>0, <1>8 DEF LoopWait
<1>9. ASSUME NEW c \in Conns, Write(c) PROVE TypeOK' /\ StepsInv'
  BY <1>0, <1>9 DEF Write
<1>10. ASSUME NEW c \in Conns, WriteLost(c) PROVE TypeOK' /\ StepsInv'
  BY <1>0, <1>10 DEF WriteLost
<1>11. ASSUME NEW c \in Conns, WakeUp(c) PROVE TypeOK' /\ StepsInv'
  BY <1>0, <1>11 DEF WakeUp
<1>12. ASSUME NEW c \in Conns, Leave(c) PROVE TypeOK' /\ StepsInv'
  BY <1>0, <1>12 DEF Leave
<1>13. ASSUME NEW c \in Conns, Break(c) PROVE TypeOK' /\ StepsInv'
  BY <1>0, <1>13 DEF Break
<1>14. CASE Restart
  <2>1. PICK stored \in LatestStored : ride' = stored[1] /\ steps' = stored[2]
    BY <1>14 DEF Restart
  <2>2. /\ ride' \in 0 .. MaxRides /\ steps' \in Seq(1 .. LastStep)
        /\ ride' = 0 => steps' = <<>>
        /\ ride' > 0 => Len(steps') > 0 /\ steps'[1] = 1
        /\ Upward(steps')
    BY <2>1, StoredLists
  <2>3. lost' \subseteq Nat \X Nat
    BY <1>14 DEF Restart, InFlight
  <2>4. sent' \in 0 .. Len(steps')
    BY <1>14, <2>2 DEF Restart
  <2>5. StepsInv'
    BY <2>2 DEF StepsInv, Upward
  <2> QED BY <1>14, <2>2, <2>3, <2>4, <2>5 DEF Restart
<1>15. CASE UNCHANGED vars
  BY <1>0, <1>15 DEF vars
<1> QED
  BY <1>1, <1>2, <1>3, <1>4, <1>5, <1>6, <1>7, <1>8, <1>9, <1>10, <1>11,
     <1>12, <1>13, <1>14, <1>15 DEF Next, Handler

LEMMA TypeAndSteps == Spec => [](TypeOK /\ StepsInv)
BY TypeInit, TypeStep, PTL DEF Spec

(* The types are kept in every execution, whatever clients and writers do. *)
THEOREM TypeCorrect == Spec => []TypeOK
BY TypeAndSteps, PTL

-----------------------------------------------------------------------------
(* A step that makes a status unsent wakes the current connection. *)
LEMMA WakeTokens ==
  ASSUME TypeOK, current # None
  PROVE  current \in Wake /\ token \subseteq Wake
BY DEF TypeOK, Wake

(* NothingMissed is inductive by itself. *)
LEMMA NothingMissedStep ==
  TypeOK /\ NothingMissed /\ [Next]_vars => NothingMissed'
<1> SUFFICES ASSUME TypeOK, NothingMissed, [Next]_vars,
                    NEW k \in Conns,
                    current' = k, pc'[k] = "waiting", k \notin token'
             PROVE  ~Unsent'
  BY DEF NothingMissed
<1> USE DEF TypeOK, NothingMissed, Unsent
<1>0. k # None
  BY StreamAssumption
<1>1. CASE NewRide
  BY <1>0, <1>1, WakeTokens DEF NewRide
<1>2. CASE Assign
  BY <1>2 DEF Assign
<1>3. CASE FinishAssign
  BY <1>0, <1>3, WakeTokens DEF FinishAssign
<1>4. CASE AddStatus
  BY <1>0, <1>4, WakeTokens DEF AddStatus
<1>5. ASSUME NEW c \in Conns, Open(c) PROVE ~Unsent'
  BY <1>5 DEF Open
<1>6. ASSUME NEW c \in Conns, LoopReplaced(c) PROVE ~Unsent'
  BY <1>6 DEF LoopReplaced
<1>7. ASSUME NEW c \in Conns, LoopData(c) PROVE ~Unsent'
  BY <1>7 DEF LoopData, Replaced
<1>8. ASSUME NEW c \in Conns, LoopWait(c) PROVE ~Unsent'
  BY <1>8 DEF LoopWait, HasData
<1>9. ASSUME NEW c \in Conns, Write(c) PROVE ~Unsent'
  BY <1>9 DEF Write
<1>10. ASSUME NEW c \in Conns, WriteLost(c) PROVE ~Unsent'
  BY <1>10 DEF WriteLost
<1>11. ASSUME NEW c \in Conns, WakeUp(c) PROVE ~Unsent'
  BY <1>11 DEF WakeUp
<1>12. ASSUME NEW c \in Conns, Leave(c) PROVE ~Unsent'
  BY <1>12 DEF Leave
<1>13. ASSUME NEW c \in Conns, Break(c) PROVE ~Unsent'
  BY <1>13 DEF Break
<1>14. CASE Restart
  BY <1>0, <1>14 DEF Restart
<1>15. CASE UNCHANGED vars
  BY <1>15 DEF vars
<1> QED
  BY <1>1, <1>2, <1>3, <1>4, <1>5, <1>6, <1>7, <1>8, <1>9, <1>10, <1>11,
     <1>12, <1>13, <1>14, <1>15 DEF Next, Handler

(* No wake-up is lost: the handler of the newest connection never sleeps on an
   empty channel beside an unsent status. *)
THEOREM NothingMissedCorrect == Spec => []NothingMissed
<1>1. Init => NothingMissed
  BY DEF Init, NothingMissed, Unsent
<1> QED BY <1>1, NothingMissedStep, TypeCorrect, PTL DEF Spec

-----------------------------------------------------------------------------
(* What is marked was written: one more status at a time, by the handler that
   goes on to write it. *)
LEMMA ToldStays ==
  ASSUME lost' = lost, got' = got, NEW m, Told(m),
         \A c \in Conns : pc[c] = "sending" => pc'[c] = "sending" /\ msg'[c] = msg[c]
  PROVE  Told(m)'
BY DEF Told

LEMMA MarkedWasWrittenStep ==
  TypeOK /\ StepsInv /\ MarkedWasWritten /\ [Next]_vars => MarkedWasWritten'
<1> SUFFICES ASSUME TypeOK, StepsInv, MarkedWasWritten, [Next]_vars, NEW i \in 1 .. sent'
             PROVE  Told(<<ride, steps[i]>>)'
  BY DEF MarkedWasWritten
<1> USE DEF TypeOK
<1>0. i \in 1 .. sent => Told(<<ride, steps[i]>>)
  BY DEF MarkedWasWritten
<1>1. CASE NewRide \/ Assign
  BY <1>1 DEF NewRide, Assign
<1>2. CASE Restart
  BY <1>2 DEF Restart
<1>3. CASE FinishAssign
  <2>1. Told(<<ride, steps[i]>>) /\ UNCHANGED <<ride, steps, lost, got, pc, msg>>
    BY <1>0, <1>3 DEF FinishAssign
  <2>2. Told(<<ride, steps[i]>>)'
    BY <2>1 DEF Told
  <2> QED BY <2>2
<1>4. CASE AddStatus
  <2>1. i \in 1 .. sent /\ UNCHANGED <<ride, lost, got, pc, msg>>
    BY <1>4 DEF AddStatus
  <2>2. i \in 1 .. Len(steps)
    BY <2>1
  <2>3. steps'[i] = steps[i]
    BY <1>4, <2>2, AddStatusFacts
  <2> QED BY <1>0, <2>1, <2>3 DEF Told
<1>5. ASSUME NEW c \in Conns, Open(c) PROVE Told(<<ride, steps[i]>>)'
  <2>1. /\ i \in 1 .. sent /\ UNCHANGED <<ride, steps, lost, got, msg>>
        /\ \A k \in Conns : pc[k] = "sending" => pc'[k] = "sending"
    BY <1>5 DEF Open
  <2> QED BY <1>0, <2>1 DEF Told
<1>6. ASSUME NEW c \in Conns, LoopReplaced(c) \/ LoopWait(c) \/ WakeUp(c) \/ Leave(c) \/ Break(c)
      PROVE  Told(<<ride, steps[i]>>)'
  <2>1. /\ i \in 1 .. sent /\ UNCHANGED <<ride, steps, lost, got, msg>>
        /\ \A k \in Conns : pc[k] = "sending" => pc'[k] = "sending"
    BY <1>6 DEF LoopReplaced, LoopWait, WakeUp, Leave, Break
  <2> QED BY <1>0, <2>1 DEF Told
<1>7. ASSUME NEW c \in Conns, LoopData(c) PROVE Told(<<ride, steps[i]>>)'
  <2>1. /\ ride > 0 /\ sent' = Marked /\ UNCHANGED <<ride, steps, lost, got>>
        /\ pc[c] = "loop" /\ pc'[c] = "sending" /\ msg'[c] = <<ride, NextStep>>
        /\ \A k \in Conns : pc[k] = "sending" => pc'[k] = "sending" /\ msg'[k] = msg[k]
    BY <1>7 DEF LoopData, HasData, Unsent
  <2>2. CASE i \in 1 .. sent
    BY <1>0, <2>1, <2>2 DEF Told
  <2>3. CASE i \notin 1 .. sent
    <3>1. i = Marked /\ steps[i] = NextStep
      BY <2>1, <2>3, PickFacts DEF Marked
    <3> QED BY <2>1, <3>1 DEF Told
  <2> QED BY <2>2, <2>3
<1>8. ASSUME NEW c \in Conns, Write(c) PROVE Told(<<ride, steps[i]>>)'
  <2>1. /\ i \in 1 .. sent /\ UNCHANGED <<ride, steps, lost, msg>>
        /\ got'[c] = Append(got[c], msg[c])
        /\ \A k \in Conns : k # c => got'[k] = got[k] /\ pc'[k] = pc[k]
    BY <1>8 DEF Write
  <2>2. got[c] \in Seq(Nat \X Nat) /\ msg[c] \in Nat \X Nat
    OBVIOUS
  <2>3. ToSet(got'[c]) = ToSet(got[c]) \cup {msg[c]}
    <3>1. /\ DOMAIN got'[c] = 1 .. Len(got[c]) + 1 /\ DOMAIN got[c] = 1 .. Len(got[c])
          /\ Len(got[c]) \in Nat /\ got'[c][Len(got[c]) + 1] = msg[c]
          /\ \A k \in 1 .. Len(got[c]) : got'[c][k] = got[c][k]
      BY <2>1, <2>2
    <3>2. ASSUME NEW m PROVE m \in ToSet(got'[c]) <=> m \in ToSet(got[c]) \cup {msg[c]}
      <4>1. CASE m = msg[c]
        <5>1. Len(got[c]) + 1 \in 1 .. Len(got[c]) + 1
          BY <3>1
        <5> QED BY <3>1, <4>1, <5>1, Zenon DEF ToSet
      <4>2. CASE m # msg[c]
        <5>1. \A k \in 1 .. Len(got[c]) + 1 : k # Len(got[c]) + 1 => k \in 1 .. Len(got[c])
          BY <3>1
        <5>2. 1 .. Len(got[c]) \subseteq 1 .. Len(got[c]) + 1
          BY <3>1
        <5> QED BY <3>1, <4>2, <5>1, <5>2, Zenon DEF ToSet
      <4> QED BY <4>1, <4>2
    <3> QED BY <3>2
  <2> QED BY <1>0, <2>1, <2>3 DEF Told
<1>9. ASSUME NEW c \in Conns, WriteLost(c) PROVE Told(<<ride, steps[i]>>)'
  <2>1. /\ i \in 1 .. sent /\ UNCHANGED <<ride, steps, got, msg>>
        /\ lost' = lost \cup {msg[c]}
        /\ \A k \in Conns : k # c => pc'[k] = pc[k]
    BY <1>9 DEF WriteLost
  <2> QED BY <1>0, <2>1 DEF Told
<1>10. CASE UNCHANGED vars
  <2>1. i \in 1 .. sent /\ UNCHANGED <<ride, steps, lost, got, pc, msg>>
    BY <1>10 DEF vars
  <2> QED BY <1>0, <2>1 DEF Told
<1> QED
  BY <1>1, <1>2, <1>3, <1>4, <1>5, <1>6, <1>7, <1>8, <1>9, <1>10 DEF Next, Handler

(* Nothing is marked as sent that was not written to some connection, through
   lost connections, replaced ones and restarts. *)
THEOREM MarkedWasWrittenCorrect == Spec => []MarkedWasWritten
<1>1. Init => MarkedWasWritten
  BY DEF Init, MarkedWasWritten
<1> QED BY <1>1, MarkedWasWrittenStep, TypeAndSteps, PTL DEF Spec

-----------------------------------------------------------------------------
(* What a handler that may still write has written last, or is about to write,
   is where the latest ride is; so what it writes next follows. *)
Position(m) ==
  /\ m[1] >= 1
  /\ \/ m[1] = ride /\ sent > 0 /\ m[2] = steps[sent]
     \/ m[1] < ride /\ sent = 0 /\ (chair => m[2] = LastStep /\ ride = m[1] + 1)

InitialInv ==
  \A c \in Conns : /\ c \in initial => got[c] = <<>> /\ pc[c] # "sending"
                   /\ pc[c] = "closed" => c \in initial

IdleInv ==
  \A c \in Conns :
    (current = c /\ pc[c] \in {"loop", "waiting"} /\ c \notin broken /\ got[c] # <<>>) =>
      Position(Last(got[c]))

SendingInv ==
  \A c \in Conns :
    (pc[c] = "sending" /\ c \notin broken) =>
      /\ msg[c][1] \in 1 .. ride
      /\ msg[c][1] = ride => msg[c][2] \in ToSet(steps)
      /\ current = c => Position(msg[c])

GapInv == InitialInv /\ IdleInv /\ SendingInv /\ NoGaps

(* The last message of a connection that has one. *)
LEMMA LastGotType ==
  ASSUME TypeOK, NEW c \in Conns, got[c] # <<>>
  PROVE  Len(got[c]) \in Nat \ {0} /\ Last(got[c]) \in Nat \X Nat
<1>1. got[c] \in Seq(Nat \X Nat)
  BY DEF TypeOK
<1> QED BY <1>1 DEF Last

(* A new ride comes after what the handlers have written. *)
LEMMA PositionNewRide ==
  ASSUME TypeOK, StepsInv, NEW m \in Nat \X Nat, Position(m), NewRide \/ Assign
  PROVE  Position(m)'
<1>1. ride \in Nat /\ m[1] \in Nat /\ Len(steps) \in Nat /\ sent \in 0 .. Len(steps)
  BY DEF TypeOK
<1>2. CASE NewRide
  BY <1>1, <1>2 DEF NewRide, Position
<1>3. CASE Assign
  <2>1. /\ ride' = ride + 1 /\ sent' = 0 /\ chair' = chair
        /\ NoneRunning /\ sent = Len(steps)
    BY <1>3 DEF Assign
  <2>2. ride > 0 /\ Len(steps) > 0
    BY <1>1 DEF Position, StepsInv
  <2>3. m[1] = ride /\ m[2] = steps[Len(steps)]
    BY <1>1, <2>1, <2>2 DEF Position
  <2>4. m[2] = LastStep
    BY <2>1, <2>2, <2>3 DEF NoneRunning, Last
  <2> QED BY <1>1, <2>1, <2>3, <2>4 DEF Position
<1> QED BY <1>2, <1>3

LEMMA GapRides ==
  ASSUME TypeOK, StepsInv, GapInv, NewRide \/ Assign
  PROVE  GapInv'
<1>1. UNCHANGED <<chair, current, pc, initial, msg, broken, got>> /\ ride' = ride + 1
  BY DEF NewRide, Assign
<1>2. ride \in Nat
  BY DEF TypeOK
<1>3. InitialInv'
  BY <1>1 DEF GapInv, InitialInv
<1>4. IdleInv'
  <2> SUFFICES ASSUME NEW c \in Conns, current = c, pc[c] \in {"loop", "waiting"},
                      c \notin broken, got[c] # <<>>
               PROVE  Position(Last(got[c]))'
    BY <1>1 DEF IdleInv
  <2>1. Position(Last(got[c]))
    BY DEF GapInv, IdleInv
  <2>2. PICK m \in Nat \X Nat : m = Last(got[c])
    BY LastGotType
  <2>3. Position(m)'
    BY <2>1, <2>2, PositionNewRide
  <2> QED BY <1>1, <2>2, <2>3 DEF Position
<1>5. ASSUME NEW c \in Conns, pc[c] = "sending", c \notin broken
      PROVE  msg[c][1] \in 1 .. ride
  BY <1>5 DEF GapInv, SendingInv
<1>6. SendingInv'
  <2> SUFFICES ASSUME NEW c \in Conns, pc[c] = "sending", c \notin broken
               PROVE  /\ msg[c][1] \in 1 .. ride' /\ msg[c][1] # ride'
                      /\ current = c => Position(msg[c])'
    BY <1>1 DEF SendingInv
  <2>1. PICK m \in Nat \X Nat : m = msg[c]
    BY DEF TypeOK
  <2>2. current = c => Position(m)'
    BY <2>1, PositionNewRide DEF GapInv, SendingInv
  <2>3. current = c => Position(msg[c])'
    BY <1>1, <2>1, <2>2 DEF Position
  <2> QED BY <1>1, <1>2, <1>5, <2>3
<1>7. NoGaps'
  <2>1. ASSUME NEW c \in Conns, pc[c] = "sending", c \notin broken PROVE msg[c][1] # ride'
    BY <1>1, <1>2, <1>5, <2>1
  <2> QED BY <1>1, <2>1 DEF NoGaps
<1> QED BY <1>3, <1>4, <1>6, <1>7 DEF GapInv

(* A status that is added is above those that are there. *)
LEMMA GapAddStatus ==
  ASSUME TypeOK, StepsInv, GapInv, AddStatus
  PROVE  GapInv'
<1>1. UNCHANGED <<chair, ride, sent, current, pc, initial, msg, broken, got>>
  BY DEF AddStatus
<1>2. /\ Len(steps) \in Nat \ {0} /\ Len(steps') = Len(steps) + 1
      /\ \A i \in 1 .. Len(steps) : steps'[i] = steps[i] /\ steps[i] < Last(steps) + 1
      /\ steps'[Len(steps) + 1] = Last(steps) + 1
      /\ steps' \in Seq(1 .. LastStep) /\ steps \in Seq(1 .. LastStep)
  BY AddStatusFacts DEF TypeOK
<1>3. /\ ToSet(steps) \subseteq ToSet(steps')
      /\ \A step \in ToSet(steps') : step \in ToSet(steps) \/ step = Last(steps) + 1
      /\ \A step \in ToSet(steps) : step < Last(steps) + 1 /\ step \in Nat
      /\ Last(steps) \in Nat
  <2>1. /\ DOMAIN steps = 1 .. Len(steps) /\ DOMAIN steps' = 1 .. Len(steps) + 1
        /\ \A i \in 1 .. Len(steps) : steps[i] \in Nat
    BY <1>2, StreamAssumption
  <2>2. \A i \in 1 .. Len(steps) + 1 : i \in 1 .. Len(steps) \/ i = Len(steps) + 1
    BY <1>2
  <2>3. 1 .. Len(steps) \subseteq 1 .. Len(steps) + 1
    BY <1>2
  <2>4. Last(steps) \in Nat
    BY <1>2, <2>1 DEF Last
  <2> QED BY <1>2, <2>1, <2>2, <2>3, <2>4 DEF ToSet
<1>4. \A m : Position(m) => Position(m)'
  <2>1. sent \in Nat /\ sent <= Len(steps)
    BY <1>2 DEF TypeOK
  <2>2. sent > 0 => steps'[sent] = steps[sent]
    BY <1>2, <2>1
  <2> QED BY <1>1, <2>2 DEF Position
<1>5. InitialInv' /\ IdleInv'
  BY <1>1, <1>4 DEF GapInv, InitialInv, IdleInv
<1>6. SendingInv'
  BY <1>1, <1>3, <1>4 DEF GapInv, SendingInv
<1>7. NoGaps'
  <2> SUFFICES ASSUME NEW c \in Conns, pc[c] = "sending", c \notin broken,
                      msg[c][1] = ride, got[c] # <<>>
               PROVE  Follows(Last(got[c]), msg[c])'
    BY <1>1 DEF NoGaps
  <2>1. Follows(Last(got[c]), msg[c]) /\ msg[c][2] \in ToSet(steps)
    BY DEF GapInv, NoGaps, SendingInv
  <2> DEFINE a == Last(got[c])
             b == msg[c]
  <2>2. CASE b[1] = a[1] /\ a[2] < b[2]
    <3>1. ~\E step \in ToSet(steps) : a[2] < step /\ step < b[2]
      <4>1. a[1] \in Nat
        BY LastGotType
      <4>2. ~(b[1] > a[1])
        BY <2>2, <4>1
      <4> QED BY <2>1, <4>2 DEF Follows
    <3>2. ~(Last(steps) + 1 < b[2])
      BY <1>3, <2>1
    <3>3. ~\E step \in ToSet(steps') : a[2] < step /\ step < b[2]
      BY <1>3, <3>1, <3>2
    <3> QED BY <1>1, <2>2, <3>3 DEF Follows
  <2>3. CASE b[1] > a[1] /\ b[2] = 1 /\ (chair => a[2] = LastStep /\ b[1] = a[1] + 1)
    BY <1>1, <2>3 DEF Follows
  <2> QED BY <2>1, <2>2, <2>3 DEF Follows
<1> QED BY <1>5, <1>6, <1>7 DEF GapInv

(* What a handler marks follows what it has written. *)
LEMMA GapLoopData ==
  ASSUME TypeOK, StepsInv, GapInv, NEW c \in Conns, LoopData(c)
  PROVE  GapInv'
<1>1. /\ pc[c] = "loop" /\ current = c /\ ride > 0
      /\ sent < Len(steps) \/ c \in initial
      /\ msg' = [msg EXCEPT ![c] = <<ride, NextStep>>] /\ sent' = Marked
      /\ initial' = initial \ {c} /\ pc' = [pc EXCEPT ![c] = "sending"]
      /\ UNCHANGED <<chair, ride, steps, current, broken, got>>
  BY DEF LoopData, Replaced, HasData, Unsent, clientVars
<1>2. /\ NextStep \in 1 .. LastStep /\ Marked \in 1 .. Len(steps)
      /\ NextStep = steps[Marked] /\ Len(steps) \in Nat /\ sent \in Nat
      /\ sent < Len(steps) => Marked = sent + 1
      /\ ride \in Nat /\ DOMAIN steps = 1 .. Len(steps)
      /\ \A i \in 1 .. Len(steps) : steps[i] \in Nat
  <2>1. steps \in Seq(1 .. LastStep) /\ ride \in Nat
    BY StreamAssumption DEF TypeOK
  <2>2. \A i \in 1 .. Len(steps) : steps[i] \in Nat
    BY <2>1, ElementOfSeq, StreamAssumption
  <2>3. DOMAIN steps = 1 .. Len(steps)
    BY <2>1, LenProperties
  <2> QED BY <1>1, <2>1, <2>2, <2>3, PickFacts
<1>3. \A k \in Conns : k # c => pc'[k] = pc[k] /\ msg'[k] = msg[k]
  BY <1>1 DEF TypeOK
<1>4. pc'[c] = "sending" /\ msg'[c] = <<ride, NextStep>>
  BY <1>1 DEF TypeOK
<1>5. InitialInv'
  BY <1>1, <1>3, <1>4 DEF GapInv, InitialInv
<1>6. IdleInv'
  BY <1>1, <1>4 DEF IdleInv
<1>7. Position(msg[c])'
  <2>1. msg'[c][1] = ride' /\ sent' > 0 /\ msg'[c][2] = steps'[sent'] /\ ride' >= 1
    BY <1>1, <1>2, <1>4
  <2> QED BY <2>1 DEF Position
<1>8. SendingInv'
  <2> SUFFICES ASSUME NEW k \in Conns, pc'[k] = "sending", k \notin broken
               PROVE  /\ msg'[k][1] \in 1 .. ride'
                      /\ msg'[k][1] = ride' => msg'[k][2] \in ToSet(steps')
                      /\ current = k => Position(msg[k])'
    BY <1>1 DEF SendingInv
  <2>1. CASE k # c
    BY <1>1, <1>3, <2>1 DEF GapInv, SendingInv
  <2>2. CASE k = c
    <3>1. NextStep \in ToSet(steps)
      BY <1>2 DEF ToSet
    <3> QED BY <1>1, <1>2, <1>4, <1>7, <2>2, <3>1
  <2> QED BY <2>1, <2>2
<1>9. ASSUME c \notin broken, got[c] # <<>> PROVE Follows(Last(got[c]), msg[c])'
  <2>1. sent < Len(steps)
    BY <1>1, <1>9 DEF GapInv, InitialInv
  <2>2. PICK last \in Nat \X Nat : last = Last(got[c])
    BY <1>9, LastGotType
  <2>3. Position(last)
    BY <1>1, <1>9, <2>2 DEF GapInv, IdleInv
  <2>4. msg'[c] = <<ride, steps[sent + 1]>> /\ sent + 1 \in 1 .. Len(steps)
    BY <1>2, <1>4, <2>1
  <2>5. CASE last[1] = ride /\ sent > 0 /\ last[2] = steps[sent]
    <3>1. sent \in 1 .. Len(steps) /\ sent < sent + 1 /\ Upward(steps)
      BY <1>2, <2>1, <2>5 DEF StepsInv
    <3>2. steps[sent] < steps[sent + 1]
      BY <2>4, <3>1 DEF Upward
    <3>3. ASSUME NEW step \in ToSet(steps), steps[sent] < step, step < steps[sent + 1]
          PROVE  FALSE
      <4>1. PICK j \in 1 .. Len(steps) : step = steps[j]
        BY <1>2 DEF ToSet
      <4>2. CASE j = sent \/ j = sent + 1
        BY <1>2, <2>4, <3>1, <3>3, <4>1, <4>2
      <4>3. CASE j < sent
        <5>1. steps[j] < steps[sent]
          BY <3>1, <4>3 DEF Upward
        <5> QED BY <1>2, <3>1, <3>3, <4>1, <5>1
      <4>4. CASE j > sent + 1
        <5>1. steps[sent + 1] < steps[j]
          BY <2>4, <3>1, <4>4 DEF Upward
        <5> QED BY <1>2, <2>4, <3>3, <4>1, <5>1
      <4>5. j = sent \/ j = sent + 1 \/ j < sent \/ j > sent + 1
        BY <1>2
      <4> QED BY <4>2, <4>3, <4>4, <4>5
    <3>4. Follows(last, <<ride, steps[sent + 1]>>)
      BY <2>5, <3>2, <3>3 DEF Follows
    <3> QED BY <1>1, <2>2, <2>4, <3>4 DEF Follows
  <2>6. CASE last[1] < ride /\ sent = 0 /\ (chair => last[2] = LastStep /\ ride = last[1] + 1)
    <3>1. steps[1] = 1
      BY <1>1 DEF StepsInv
    <3>2. msg'[c] = <<ride, 1>>
      BY <2>4, <2>6, <3>1
    <3>3. Follows(last, <<ride, 1>>)
      BY <1>2, <2>6 DEF Follows
    <3> QED BY <1>1, <2>2, <3>2, <3>3 DEF Follows
  <2> QED BY <2>3, <2>5, <2>6 DEF Position
<1>10. NoGaps'
  <2> SUFFICES ASSUME NEW k \in Conns, pc'[k] = "sending", k \notin broken,
                      msg'[k][1] = ride, got[k] # <<>>
               PROVE  Follows(Last(got[k]), msg[k])'
    BY <1>1 DEF NoGaps
  <2>1. CASE k # c
    <3>1. Follows(Last(got[k]), msg[k])
      BY <1>3, <2>1 DEF GapInv, NoGaps
    <3> QED BY <1>1, <1>3, <2>1, <3>1 DEF Follows
  <2>2. CASE k = c
    BY <1>9, <2>2
  <2> QED BY <2>1, <2>2
<1> QED BY <1>5, <1>6, <1>8, <1>10 DEF GapInv

(* The message that is written is where the handler then stands. *)
LEMMA GapWrite ==
  ASSUME TypeOK, GapInv, NEW c \in Conns, Write(c)
  PROVE  GapInv'
<1>1. /\ pc[c] = "sending" /\ c \notin broken
      /\ got' = [got EXCEPT ![c] = Append(@, msg[c])] /\ pc' = [pc EXCEPT ![c] = "loop"]
      /\ UNCHANGED <<chair, ride, steps, sent, current, initial, msg, broken>>
  BY DEF Write
<1>2. /\ got'[c] = Append(got[c], msg[c]) /\ pc'[c] = "loop"
      /\ \A k \in Conns : k # c => got'[k] = got[k] /\ pc'[k] = pc[k]
  BY <1>1 DEF TypeOK
<1>3. got[c] \in Seq(Nat \X Nat) /\ msg[c] \in Nat \X Nat
  BY DEF TypeOK
<1>4. Last(got'[c]) = msg[c]
  BY <1>2, <1>3 DEF Last
<1>5. InitialInv'
  BY <1>1, <1>2 DEF GapInv, InitialInv
<1>6. IdleInv'
  <2> SUFFICES ASSUME NEW k \in Conns, current = k, pc'[k] \in {"loop", "waiting"},
                      k \notin broken, got'[k] # <<>>
               PROVE  Position(Last(got[k]))'
    BY <1>1 DEF IdleInv
  <2>1. CASE k # c
    <3>1. Position(Last(got[k]))
      BY <1>2, <2>1 DEF GapInv, IdleInv
    <3> QED BY <1>1, <1>2, <2>1, <3>1 DEF Position
  <2>2. CASE k = c
    <3>1. Position(msg[c])
      BY <1>1, <2>2 DEF GapInv, SendingInv
    <3> QED BY <1>1, <1>4, <2>2, <3>1 DEF Position
  <2> QED BY <2>1, <2>2
<1>7. SendingInv'
  BY <1>1, <1>2 DEF GapInv, SendingInv, Position
<1>8. NoGaps'
  <2> SUFFICES ASSUME NEW k \in Conns, pc'[k] = "sending", k \notin broken,
                      msg[k][1] = ride, got'[k] # <<>>
               PROVE  Follows(Last(got[k]), msg[k])'
    BY <1>1 DEF NoGaps
  <2>1. k # c /\ got'[k] = got[k] /\ pc[k] = "sending"
    BY <1>2
  <2>2. Follows(Last(got[k]), msg[k])
    BY <2>1 DEF GapInv, NoGaps
  <2> QED BY <1>1, <2>1, <2>2 DEF Follows
<1> QED BY <1>5, <1>6, <1>7, <1>8 DEF GapInv

(* The other steps of handlers and clients write nothing, mark nothing, and let
   no connection be written to that was not before. *)
LEMMA GapOther ==
  ASSUME TypeOK, GapInv,
         UNCHANGED <<chair, ride, steps, sent, initial, msg, got>>,
         \A k \in Conns : k \in broken => k \in broken',
         \A k \in Conns : current' = k => current = k \/ (k \in initial /\ pc'[k] = "loop"),
         \A k \in Conns : pc'[k] = "closed" => pc[k] = "closed",
         \A k \in Conns : pc'[k] = "sending" => pc[k] = "sending",
         \A k \in Conns : (pc'[k] \in {"loop", "waiting"} /\ k \notin broken' /\ k \notin initial) =>
                            pc[k] \in {"loop", "waiting"}
  PROVE  GapInv'
<1>1. InitialInv'
  BY DEF GapInv, InitialInv
<1>2. IdleInv'
  <2> SUFFICES ASSUME NEW k \in Conns, current' = k, pc'[k] \in {"loop", "waiting"},
                      k \notin broken', got[k] # <<>>
               PROVE  Position(Last(got[k]))'
    BY DEF IdleInv
  <2>1. k \notin initial
    BY DEF GapInv, InitialInv
  <2>2. Position(Last(got[k]))
    BY <2>1 DEF GapInv, IdleInv
  <2> QED BY <2>2 DEF Position
<1>3. SendingInv'
  <2> SUFFICES ASSUME NEW k \in Conns, pc'[k] = "sending", k \notin broken'
               PROVE  /\ msg[k][1] \in 1 .. ride
                      /\ msg[k][1] = ride => msg[k][2] \in ToSet(steps)
                      /\ current' = k => Position(msg[k])'
    BY DEF SendingInv
  <2>1. pc[k] = "sending" /\ k \notin broken /\ (current' = k => current = k)
    OBVIOUS
  <2> QED BY <2>1 DEF GapInv, SendingInv, Position
<1>4. NoGaps'
  <2> SUFFICES ASSUME NEW k \in Conns, pc'[k] = "sending", k \notin broken',
                      msg[k][1] = ride, got[k] # <<>>
               PROVE  Follows(Last(got[k]), msg[k])'
    BY DEF NoGaps
  <2>1. Follows(Last(got[k]), msg[k])
    BY DEF GapInv, NoGaps
  <2> QED BY <2>1 DEF Follows
<1> QED BY <1>1, <1>2, <1>3, <1>4 DEF GapInv

LEMMA GapStep == TypeOK /\ StepsInv /\ GapInv /\ [Next]_vars => GapInv'
<1> SUFFICES ASSUME TypeOK, StepsInv, GapInv, [Next]_vars PROVE GapInv'
  OBVIOUS
<1>1. CASE NewRide \/ Assign
  BY <1>1, GapRides
<1>2. CASE FinishAssign
  BY <1>2, GapOther DEF FinishAssign
<1>3. CASE AddStatus
  BY <1>3, GapAddStatus
<1>4. ASSUME NEW c \in Conns, Open(c) PROVE GapInv'
  <2>1. c \in initial
    BY <1>4 DEF Open, GapInv, InitialInv
  <2>2. /\ \A k \in Conns : k # c => pc'[k] = pc[k]
        /\ pc'[c] = "loop" /\ current' = c
    BY <1>4 DEF Open, TypeOK
  <2>3. UNCHANGED <<chair, ride, steps, sent, initial, msg, got, broken>>
    BY <1>4 DEF Open
  <2> QED BY <2>1, <2>2, <2>3, GapOther
<1>5. ASSUME NEW c \in Conns, LoopData(c) PROVE GapInv'
  BY <1>5, GapLoopData
<1>6. ASSUME NEW c \in Conns, Write(c) PROVE GapInv'
  BY <1>6, GapWrite
<1>7. ASSUME NEW c \in Conns,
             LoopReplaced(c) \/ LoopWait(c) \/ WriteLost(c) \/ WakeUp(c) \/ Leave(c)
      PROVE  GapInv'
  <2>1. UNCHANGED <<chair, ride, steps, sent, initial, msg, got, broken, current>>
    BY <1>7 DEF LoopReplaced, LoopWait, WriteLost, WakeUp, Leave
  <2>2. \A k \in Conns : k # c => pc'[k] = pc[k]
    BY <1>7 DEF LoopReplaced, LoopWait, WriteLost, WakeUp, Leave, TypeOK
  <2>3. \/ pc'[c] = "done"
        \/ pc'[c] = "loop" /\ c \in broken
        \/ pc[c] \in {"loop", "waiting"} /\ pc'[c] \in {"loop", "waiting"}
    BY <1>7 DEF LoopReplaced, LoopWait, WriteLost, WakeUp, Leave, TypeOK
  <2> QED BY <2>1, <2>2, <2>3, GapOther
<1>8. ASSUME NEW c \in Conns, Break(c) PROVE GapInv'
  BY <1>8, GapOther DEF Break
<1>9. CASE Restart
  <2>1. /\ UNCHANGED <<chair, initial, msg, got>>
        /\ pc' = [c \in Conns |-> IF pc[c] = "closed" THEN "closed" ELSE "done"]
    BY <1>9 DEF Restart
  <2>2. \A c \in Conns : pc'[c] \in {"closed", "done"} /\ (pc'[c] = "closed" => pc[c] = "closed")
    BY <2>1
  <2>3. InitialInv' /\ IdleInv' /\ SendingInv'
    BY <2>1, <2>2 DEF GapInv, InitialInv, IdleInv, SendingInv
  <2>4. NoGaps'
    BY <2>1 DEF GapInv, NoGaps
  <2> QED BY <2>3, <2>4 DEF GapInv
<1>10. CASE UNCHANGED vars
  BY <1>10, GapOther DEF vars
<1> QED
  BY <1>1, <1>2, <1>3, <1>4, <1>5, <1>6, <1>7, <1>8, <1>9, <1>10 DEF Next, Handler

(* On no connection a status is left out that memory has, for any number of
   connections, rides and restarts. *)
THEOREM NoGapsCorrect == Spec => []NoGaps
<1>1. Init => GapInv
  BY DEF Init, GapInv, InitialInv, IdleInv, SendingInv, NoGaps
<1>2. GapInv => NoGaps
  BY DEF GapInv
<1> QED BY <1>1, <1>2, GapStep, TypeAndSteps, PTL DEF Spec
=============================================================================
