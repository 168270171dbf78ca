----------------------------- MODULE PoolProofs -----------------------------
(***************************************************************************)
(* Theorems about Pool, for any number of workers, functions and callers.  *)
(* Invariant is the inductive invariant; TLC checks it too (MCPool).       *)
(***************************************************************************)
EXTENDS PoolInvariant, SequenceTheorems, TLAPS

USE PoolAssumption

-----------------------------------------------------------------------------
(* The elements of a sequence.                                             *)

LEMMA ElementsOfAppend ==
    ASSUME NEW S, NEW s \in Seq(S), NEW x \in S
    PROVE  Elements(Append(s, x)) = Elements(s) \union {x}
  <1>1. /\ Len(Append(s, x)) = Len(s) + 1
        /\ \A i \in 1 .. Len(s) : Append(s, x)[i] = s[i]
        /\ Append(s, x)[Len(s) + 1] = x
    BY AppendProperties
  <1>2. Len(s) \in Nat
    OBVIOUS
  <1> QED
    BY <1>1, <1>2 DEF Elements

LEMMA ElementsOfTail ==
    ASSUME NEW S, NEW s \in Seq(S), s # <<>>
    PROVE  Elements(s) = {Head(s)} \union Elements(Tail(s))
  <1>1. /\ Len(Tail(s)) = Len(s) - 1
        /\ \A i \in 1 .. Len(Tail(s)) : Tail(s)[i] = s[i + 1]
    BY HeadTailProperties, Zenon
  <1>2. Len(s) \in Nat \ {0}
    BY EmptySeq
  <1>3. Head(s) = s[1]
    OBVIOUS
  <1>4. ASSUME NEW i \in 1 .. Len(s), i # 1
        PROVE  s[i] = Tail(s)[i - 1] /\ (i - 1) \in 1 .. Len(Tail(s))
    <2>1. (i - 1) \in 1 .. Len(Tail(s)) /\ (i - 1) + 1 = i
      BY <1>1, <1>2, <1>4
    <2> QED
      BY <1>1, <2>1
  <1>5. ASSUME NEW i \in 1 .. Len(Tail(s))
        PROVE  Tail(s)[i] = s[i + 1] /\ (i + 1) \in 1 .. Len(s)
    BY <1>1, <1>2
  <1>6. Elements(s) \subseteq {Head(s)} \union Elements(Tail(s))
    BY <1>3, <1>4 DEF Elements
  <1>7. Head(s) \in Elements(s)
    BY <1>2, <1>3 DEF Elements
  <1>8. Elements(Tail(s)) \subseteq Elements(s)
    BY <1>5 DEF Elements
  <1> QED
    BY <1>6, <1>7, <1>8

LEMMA ElementsOfEmpty == Elements(<<>>) = {}
  BY DEF Elements

-----------------------------------------------------------------------------
(* Types.                                                                  *)


-----------------------------------------------------------------------------
(* The initial state.                                                      *)

LEMMA InitiallyInvariant == Init => Invariant
  <1> SUFFICES ASSUME Init PROVE Invariant
    OBVIOUS
  <1>1. TypeOK
    <2>1. wq \in Seq(Work) /\ workChan \in Seq(Work) /\ Len(workChan) <= Routines
      BY EmptySeq DEF Init
    <2>2. worker \in [Worker -> {"recv", "notify", "run", "stopped"}]
      BY DEF Init
    <2>3. job \in [Worker -> Work \union {NoWork}]
      BY DEF Init
    <2> QED
      BY <2>1, <2>2, <2>3 DEF Init, TypeOK
  <1>2. SchedulerState /\ WorkerState
    BY DEF Init, SchedulerState, WorkerState
  <1>3. WaitState /\ NoLostWakeUp /\ NoneDropped
    BY DEF Init, WaitState, NoLostWakeUp, NoneDropped
  <1> QED
    BY <1>1, <1>2, <1>3 DEF Invariant

-----------------------------------------------------------------------------
(* Types and the states of the go-routines.                                *)

LEMMA TypeStep ==
    ASSUME TypeOK, SchedulerState, WorkerState, Next
    PROVE  TypeOK'
  <1> USE DEF TypeOK
  <1>1. ASSUME NEW x \in Work, Queue(x) PROVE TypeOK'
    <2>1. wq' \in Seq(Work)
      <3>1. Append(wq, x) \in Seq(Work)
        BY AppendProperties, Zenon
      <3> QED
        BY <3>1, <1>1 DEF Queue
    <2>2. notify' \in BOOLEAN
      BY <1>1 DEF Queue, NotifyScheduler
    <2>3. queued' \in SUBSET Work /\ refused' \in SUBSET Work
      BY <1>1 DEF Queue
    <2> QED
      BY <2>1, <2>2, <2>3, <1>1 DEF Queue, callVars
  <1>2. CASE SchedulerReceive
    BY <1>2 DEF SchedulerReceive, callVars, history
  <1>3. CASE SchedulerLock
    <2>1. CASE PopWork
      <3>1. held' \in Work /\ wq' \in Seq(Work)
        BY <2>1, HeadTailProperties DEF PopWork
      <3> QED
        BY <3>1, <2>1, <1>3 DEF SchedulerLock, PopWork, callVars, history
    <2>2. CASE NothingToPop
      BY <2>2, <1>3 DEF SchedulerLock, NothingToPop, callVars, history
    <2> QED
      BY <2>1, <2>2, <1>3 DEF SchedulerLock
  <1>4. CASE SchedulerSend
    <2>1. held \in Work
      BY <1>4 DEF SchedulerSend, SchedulerState
    <2>2. workChan' \in Seq(Work) /\ Len(workChan') <= Routines
      BY <2>1, <1>4, AppendProperties, LenProperties DEF SchedulerSend
    <2> QED
      BY <2>2, <1>4 DEF SchedulerSend, callVars, history
  <1>5. ASSUME NEW w \in Worker, WorkerReceive(w) PROVE TypeOK'
    <2>1. Head(workChan) \in Work /\ workChan' \in Seq(Work) /\ Len(workChan') <= Routines
      BY <1>5, HeadTailProperties, LenProperties DEF WorkerReceive
    <2>2. job' \in [Worker -> Work \union {NoWork}]
      BY <2>1, <1>5, Zenon DEF WorkerReceive
    <2>3. worker' \in [Worker -> {"recv", "notify", "run", "stopped"}]
      BY <1>5 DEF WorkerReceive
    <2> QED
      BY <2>1, <2>2, <2>3, <1>5 DEF WorkerReceive, callVars, history
  <1>6. ASSUME NEW w \in Worker, WorkerExit(w) PROVE TypeOK'
    BY <1>6 DEF WorkerExit, callVars, history
  <1>7. ASSUME NEW w \in Worker, WorkerNotify(w) PROVE TypeOK'
    BY <1>7 DEF WorkerNotify, NotifyScheduler, callVars, history
  <1>8. ASSUME NEW w \in Worker, WorkerFinish(w) PROVE TypeOK'
    <2>1. executed' \in SUBSET Work
      BY <1>8 DEF WorkerFinish, WorkerState
    <2>2. job' \in [Worker -> Work \union {NoWork}]
      BY <1>8 DEF WorkerFinish
    <2> QED
      BY <2>1, <2>2, <1>8 DEF WorkerFinish, callVars
  <1>9. ASSUME NEW c \in Caller, CallWait(c) \/ WaitReturn(c) PROVE TypeOK'
    <2>1. waiting' \in SUBSET Caller /\ returned' \in SUBSET Caller
      BY <1>9 DEF CallWait, WaitReturn
    <2> QED
      BY <2>1, <1>9 DEF CallWait, WaitReturn, history
  <1>10. CASE WaitTerminate
    BY <1>10 DEF WaitTerminate, history
  <1>11. CASE WaitNotify
    BY <1>11 DEF WaitNotify, NotifyScheduler, history
  <1>12. CASE WaitJoin
    BY <1>12 DEF WaitJoin, history
  <1>13. CASE Rest
    BY <1>13 DEF Rest, vars, callVars, history
  <1> QED
    BY <1>1, <1>2, <1>3, <1>4, <1>5, <1>6, <1>7, <1>8, <1>9, <1>10, <1>11, <1>12,
       <1>13 DEF Next

LEMMA SchedulerStateStep ==
    ASSUME TypeOK, SchedulerState, Next
    PROVE  SchedulerState'
  <1> USE DEF SchedulerState
  <1>1. ASSUME NEW x \in Work, Queue(x) PROVE SchedulerState'
    BY <1>1 DEF Queue
  <1>2. CASE SchedulerReceive
    BY <1>2 DEF SchedulerReceive
  <1>3. CASE SchedulerLock
    <2>1. CASE PopWork
      <3>1. Head(wq) \in Work
        BY <2>1, HeadTailProperties DEF PopWork, TypeOK
      <3> QED
        BY <3>1, <2>1, <1>3 DEF SchedulerLock, PopWork, TypeOK
    <2>2. CASE NothingToPop
      BY <2>2, <1>3 DEF SchedulerLock, NothingToPop, TypeOK
    <2> QED
      BY <2>1, <2>2, <1>3 DEF SchedulerLock
  <1>4. CASE SchedulerSend
    BY <1>4 DEF SchedulerSend
  <1>5. ASSUME NEW w \in Worker,
               WorkerReceive(w) \/ WorkerExit(w) \/ WorkerNotify(w) \/ WorkerFinish(w)
        PROVE  SchedulerState'
    BY <1>5 DEF WorkerReceive, WorkerExit, WorkerNotify, WorkerFinish
  <1>6. ASSUME NEW c \in Caller, CallWait(c) \/ WaitReturn(c) PROVE SchedulerState'
    BY <1>6 DEF CallWait, WaitReturn
  <1>7. CASE WaitTerminate \/ WaitNotify \/ WaitJoin \/ Rest
    BY <1>7 DEF WaitTerminate, WaitNotify, WaitJoin, Rest, vars
  <1> QED
    BY <1>1, <1>2, <1>3, <1>4, <1>5, <1>6, <1>7 DEF Next

LEMMA WorkerStateStep ==
    ASSUME TypeOK, SchedulerState, WorkerState, Next
    PROVE  WorkerState'
  <1> USE DEF WorkerState
  <1>1. ASSUME NEW x \in Work, Queue(x) PROVE WorkerState'
    BY <1>1 DEF Queue
  <1>2. CASE SchedulerReceive
    BY <1>2 DEF SchedulerReceive
  <1>3. CASE SchedulerLock
    BY <1>3 DEF SchedulerLock, PopWork, NothingToPop, SchedulerState
  <1>4. CASE SchedulerSend
    BY <1>4 DEF SchedulerSend, SchedulerState
  <1>5. ASSUME NEW w \in Worker, WorkerReceive(w) PROVE WorkerState'
    <2>1. Head(workChan) \in Work
      BY <1>5, HeadTailProperties DEF WorkerReceive, TypeOK
    <2> QED
      BY <2>1, <1>5 DEF WorkerReceive, TypeOK
  <1>6. ASSUME NEW w \in Worker, WorkerExit(w) \/ WorkerNotify(w) \/ WorkerFinish(w)
        PROVE  WorkerState'
    BY <1>6 DEF WorkerExit, WorkerNotify, WorkerFinish, TypeOK
  <1>7. ASSUME NEW c \in Caller, CallWait(c) \/ WaitReturn(c) PROVE WorkerState'
    BY <1>7 DEF CallWait, WaitReturn
  <1>8. CASE WaitTerminate \/ WaitNotify \/ WaitJoin \/ Rest
    BY <1>8 DEF WaitTerminate, WaitNotify, WaitJoin, Rest, vars
  <1> QED
    BY <1>1, <1>2, <1>3, <1>4, <1>5, <1>6, <1>7, <1>8 DEF Next

LEMMA WaitStateStep ==
    ASSUME TypeOK, WaitState, Next
    PROVE  WaitState'
  <1> USE DEF WaitState, AllStopped
  <1>1. ASSUME NEW x \in Work, Queue(x) PROVE WaitState'
    BY <1>1 DEF Queue, callVars
  <1>2. CASE SchedulerReceive \/ SchedulerLock \/ SchedulerSend
    BY <1>2 DEF SchedulerReceive, SchedulerLock, SchedulerSend, callVars
  <1>3. ASSUME NEW w \in Worker,
               WorkerReceive(w) \/ WorkerExit(w) \/ WorkerNotify(w) \/ WorkerFinish(w)
        PROVE  WaitState'
    BY <1>3 DEF WorkerReceive, WorkerExit, WorkerNotify, WorkerFinish, callVars, TypeOK
  <1>4. ASSUME NEW c \in Caller, CallWait(c) \/ WaitReturn(c) PROVE WaitState'
    BY <1>4 DEF CallWait, WaitReturn
  <1>5. CASE WaitTerminate \/ WaitNotify \/ WaitJoin \/ Rest
    BY <1>5 DEF WaitTerminate, WaitNotify, WaitJoin, Rest, vars, TypeOK
  <1> QED
    BY <1>1, <1>2, <1>3, <1>4, <1>5 DEF Next

-----------------------------------------------------------------------------
(* The wake-up protocol.                                                   *)

LEMMA WakeUpStep ==
    ASSUME TypeOK, SchedulerState, WaitState, NoLostWakeUp, Next
    PROVE  NoLostWakeUp'
  <1> USE DEF NoLostWakeUp, WakeUpUnderWay
  <1>1. ASSUME NEW x \in Work, Queue(x) PROVE NoLostWakeUp'
    BY <1>1 DEF Queue, NotifyScheduler, callVars
  <1>2. CASE SchedulerReceive
    BY <1>2 DEF SchedulerReceive
  <1>3. CASE SchedulerLock
    \* Going back to sleep: nothing is queued, and wait() has not announced itself.
    BY <1>3 DEF SchedulerLock, PopWork, NothingToPop, WaitState, callVars
  <1>4. CASE SchedulerSend
    \* The function in workChan will make a worker notify the scheduler.
    <2>1. held \in Work
      BY <1>4 DEF SchedulerSend, SchedulerState, TypeOK
    <2>2. Append(workChan, held) # <<>>
      BY <2>1, AppendProperties DEF TypeOK
    <2> QED
      BY <2>2, <1>4 DEF SchedulerSend
  <1>5. ASSUME NEW w \in Worker, WorkerReceive(w) PROVE NoLostWakeUp'
    BY <1>5 DEF WorkerReceive, TypeOK
  <1>6. ASSUME NEW w \in Worker, WorkerExit(w) \/ WorkerFinish(w) PROVE NoLostWakeUp'
    BY <1>6 DEF WorkerExit, WorkerFinish, callVars, TypeOK
  <1>7. ASSUME NEW w \in Worker, WorkerNotify(w) PROVE NoLostWakeUp'
    BY <1>7 DEF WorkerNotify, NotifyScheduler
  <1>8. ASSUME NEW c \in Caller, CallWait(c) \/ WaitReturn(c) PROVE NoLostWakeUp'
    BY <1>8 DEF CallWait, WaitReturn
  <1>9. CASE WaitTerminate \/ WaitNotify \/ WaitJoin \/ Rest
    BY <1>9 DEF WaitTerminate, WaitNotify, NotifyScheduler, WaitJoin, Rest, vars
  <1> QED
    BY <1>1, <1>2, <1>3, <1>4, <1>5, <1>6, <1>7, <1>8, <1>9 DEF Next

-----------------------------------------------------------------------------
(* No accepted function is dropped on its way to a worker.                 *)

LEMMA NoneDroppedStep ==
    ASSUME TypeOK, SchedulerState, WorkerState, NoneDropped, Next
    PROVE  NoneDropped'
  <1> USE DEF NoneDropped
  <1>1. ASSUME NEW x \in Work, Queue(x) PROVE NoneDropped'
    <2>1. CASE terminate
      BY <2>1, <1>1 DEF Queue
    <2>2. CASE ~terminate
      <3>1. Elements(wq') = Elements(wq) \union {x}
        BY <2>2, <1>1, ElementsOfAppend DEF Queue, TypeOK
      <3> QED
        BY <3>1, <2>2, <1>1 DEF Queue
    <2> QED
      BY <2>1, <2>2
  <1>2. CASE SchedulerReceive
    BY <1>2 DEF SchedulerReceive, history
  <1>3. CASE SchedulerLock
    <2>1. CASE PopWork
      <3>1. Elements(wq) = {held'} \union Elements(wq')
        BY <2>1, ElementsOfTail DEF PopWork, TypeOK
      <3>2. held = NoWork
        BY <1>3 DEF SchedulerLock, SchedulerState
      <3> QED
        BY <3>1, <3>2, <2>1, <1>3 DEF SchedulerLock, PopWork, history, TypeOK
    <2>2. CASE NothingToPop
      BY <2>2, <1>3 DEF SchedulerLock, NothingToPop, history
    <2> QED
      BY <2>1, <2>2, <1>3 DEF SchedulerLock
  <1>4. CASE SchedulerSend
    <2>1. held \in Work
      BY <1>4 DEF SchedulerSend, SchedulerState, TypeOK
    <2>2. Elements(workChan') = Elements(workChan) \union {held}
      BY <2>1, <1>4, ElementsOfAppend DEF SchedulerSend, TypeOK
    <2> QED
      BY <2>2, <1>4 DEF SchedulerSend, history
  <1>5. ASSUME NEW w \in Worker, WorkerReceive(w) PROVE NoneDropped'
    <2>1. Elements(workChan) = {Head(workChan)} \union Elements(workChan')
      BY <1>5, ElementsOfTail DEF WorkerReceive, TypeOK
    <2>2. job[w] = NoWork
      BY <1>5 DEF WorkerReceive, WorkerState
    <2>3. job' = [job EXCEPT ![w] = Head(workChan)]
      BY <1>5 DEF WorkerReceive
    <2>4. ({job[v] : v \in Worker} \ {NoWork}) \union {Head(workChan)}
             \subseteq {job'[v] : v \in Worker}
      BY <2>2, <2>3 DEF TypeOK
    <2>5. NoWork \notin queued
      BY DEF TypeOK
    <2>6. UNCHANGED <<wq, held, queued, refused, executed>>
      BY <1>5 DEF WorkerReceive, history
    <2>7. ASSUME NEW x \in {job[v] : v \in Worker}, x # NoWork
          PROVE  x \in {job'[v] : v \in Worker}
      BY <2>4, <2>7
    <2>8. ASSUME NEW x \in Elements(workChan)
          PROVE  x \in {job'[v] : v \in Worker} \union Elements(workChan')
      BY <2>1, <2>4
    <2>9. ASSUME NEW x \in queued \ refused
          PROVE  x \in Elements(wq) \union {held} \union Elements(workChan')
                         \union {job'[v] : v \in Worker} \union executed
      BY <2>5, <2>7, <2>8
    <2> QED
      BY <2>6, <2>9
  <1>6. ASSUME NEW w \in Worker, WorkerExit(w) \/ WorkerNotify(w) PROVE NoneDropped'
    BY <1>6 DEF WorkerExit, WorkerNotify, history
  <1>7. ASSUME NEW w \in Worker, WorkerFinish(w) PROVE NoneDropped'
    <2>1. job' = [job EXCEPT ![w] = NoWork]
      BY <1>7 DEF WorkerFinish
    <2>2. {job[v] : v \in Worker} \ {job[w]} \subseteq {job'[v] : v \in Worker}
      BY <2>1 DEF TypeOK
    <2> QED
      BY <2>2, <1>7 DEF WorkerFinish
  <1>8. ASSUME NEW c \in Caller, CallWait(c) \/ WaitReturn(c) PROVE NoneDropped'
    BY <1>8 DEF CallWait, WaitReturn, history
  <1>9. CASE WaitTerminate \/ WaitNotify \/ WaitJoin \/ Rest
    BY <1>9 DEF WaitTerminate, WaitNotify, WaitJoin, Rest, vars, history
  <1> QED
    BY <1>1, <1>2, <1>3, <1>4, <1>5, <1>6, <1>7, <1>8, <1>9 DEF Next

-----------------------------------------------------------------------------
(* The theorems.                                                           *)

LEMMA InvariantStep == Invariant /\ [Next]_vars => Invariant'
  <1> SUFFICES ASSUME Invariant, [Next]_vars PROVE Invariant'
    OBVIOUS
  <1> USE DEF Invariant
  <1>1. CASE Next
    BY <1>1, TypeStep, SchedulerStateStep, WorkerStateStep, WaitStateStep, WakeUpStep,
       NoneDroppedStep
  <1>2. CASE UNCHANGED vars
    <2>1. TypeOK' /\ SchedulerState' /\ WorkerState'
      BY <1>2 DEF vars, TypeOK, SchedulerState, WorkerState
    <2>2. WaitState' /\ NoLostWakeUp' /\ NoneDropped'
      BY <1>2 DEF vars, WaitState, AllStopped, NoLostWakeUp, WakeUpUnderWay, NoneDropped
    <2> QED
      BY <2>1, <2>2
  <1> QED
    BY <1>1, <1>2

LEMMA AlwaysInvariant == SafetySpec => []Invariant
  BY InitiallyInvariant, InvariantStep, PTL DEF SafetySpec

\* The variables always have their types; a function that is sent or run is never nil.
THEOREM TypeCorrect == SafetySpec => []TypeOK
  <1>1. Invariant => TypeOK
    BY DEF Invariant
  <1> QED
    BY <1>1, AlwaysInvariant, PTL

\* The notifications that are dropped while the one-slot channel is full never leave
\* the scheduler asleep with work queued or a termination announced (pool.go:96-102).
THEOREM WakeUpNeverLost == SafetySpec => []NoLostWakeUp
  <1>1. Invariant => NoLostWakeUp
    BY DEF Invariant
  <1> QED
    BY <1>1, AlwaysInvariant, PTL

\* Wait() returns only when every accepted function was executed (pool.go:119-122).
THEOREM WaitIsBarrier == SafetySpec => []WaitDrains
  <1>1. Invariant => WaitDrains
    <2> SUFFICES ASSUME Invariant, returned # {}
                 PROVE  AllStopped /\ queued \ refused \subseteq executed
      BY DEF WaitDrains
    <2>1. AllStopped
      BY DEF Invariant, WaitState
    <2>2. held = NoWork /\ wq = <<>> /\ closed
      BY <2>1 DEF Invariant, SchedulerState, AllStopped
    <2>3. \A w \in Worker : job[w] = NoWork
      BY <2>1 DEF Invariant, WorkerState, AllStopped
    <2>4. workChan = <<>>
      <3>1. 1 \in Worker
        BY DEF Worker
      <3> QED
        BY <3>1, <2>1 DEF Invariant, WorkerState, AllStopped
    <2>5. queued \ refused \subseteq {NoWork} \union executed
      BY <2>2, <2>3, <2>4, ElementsOfEmpty DEF Invariant, NoneDropped
    <2>6. NoWork \notin queued
      BY DEF Invariant, TypeOK
    <2> QED
      BY <2>1, <2>5, <2>6
  <1> QED
    BY <1>1, AlwaysInvariant, PTL

\* No go-routine sends on the notification channel after wait() closed it (pool.go:135).
THEOREM NotificationChannelIsSafe == SafetySpec => []NoSendOnClosedChannel
  <1>1. Invariant => NoSendOnClosedChannel
    BY DEF Invariant, WaitState, AllStopped, NoSendOnClosedChannel
  <1> QED
    BY <1>1, AlwaysInvariant, PTL

-----------------------------------------------------------------------------
(* Pool implements WorkQueue.                                              *)

\* The three places where work waits, as WorkQueue's pending, and its other variables.
InHand == IF held = NoWork THEN <<>> ELSE <<held>>
Pending == workChan \o InHand \o wq
Mode == IF ~terminate THEN "open" ELSE IF waitStep = "done" THEN "stopped" ELSE "draining"
Running == [w \in Worker |-> {job[w]} \ {NoWork}]

\* A non-empty sequence is its head followed by its tail.
LEMMA HeadAndTail ==
    ASSUME NEW S, NEW s \in Seq(S), s # <<>>
    PROVE  s = <<Head(s)>> \o Tail(s)
  <1>1. Head(s) \in S /\ Tail(s) \in Seq(S)
    BY HeadTailProperties
  <1>2. Len(s) \in Nat \ {0} /\ Len(Tail(s)) = Len(s) - 1
    BY HeadTailProperties, EmptySeq
  <1> DEFINE u == <<Head(s)>> \o Tail(s)
  <1>3. <<Head(s)>> \in Seq(S) /\ Len(<<Head(s)>>) = 1
    BY <1>1
  <1>4. u \in Seq(S) /\ Len(u) = Len(s)
    BY <1>1, <1>2, <1>3, ConcatProperties
  <1>5. \A i \in 1 .. Len(s) : u[i] = s[i]
    BY <1>1, <1>2, <1>3, ConcatProperties, HeadTailProperties
  <1> HIDE DEF u
  <1>6. u = s
    BY <1>4, <1>5, SeqEqual
  <1> QED
    BY <1>6 DEF u

\* The head of a concatenation is that of its first part.
LEMMA HeadTailOfConcat ==
    ASSUME NEW S, NEW s \in Seq(S), s # <<>>, NEW t \in Seq(S)
    PROVE  Head(s \o t) = Head(s) /\ Tail(s \o t) = Tail(s) \o t /\ s \o t # <<>>
  <1>1. s = <<Head(s)>> \o Tail(s) /\ Head(s) \in S /\ Tail(s) \in Seq(S)
    BY HeadAndTail, HeadTailProperties
  <1> DEFINE r == Tail(s) \o t
  <1>2. r \in Seq(S)
    BY <1>1, ConcatProperties
  <1>3. s \o t = <<Head(s)>> \o r
    BY <1>1, ConcatAssociative
  <1> HIDE DEF r
  <1>4. Head(<<Head(s)>> \o r) = Head(s) /\ Tail(<<Head(s)>> \o r) = r
    BY <1>1, <1>2
  <1>5. s \o t # <<>>
    BY ConcatEqualIffEmpty, ConcatSimplifications
  <1> QED
    BY <1>3, <1>4, <1>5 DEF r

\* The three places form a sequence of functions.
LEMMA PendingTypes ==
    ASSUME TypeOK
    PROVE  InHand \in Seq(Work) /\ Pending \in Seq(Work)
  <1>1. InHand \in Seq(Work)
    BY DEF TypeOK, InHand
  <1>2. workChan \o InHand \in Seq(Work)
    BY <1>1, ConcatProperties DEF TypeOK
  <1> QED
    BY <1>1, <1>2, ConcatProperties DEF TypeOK, Pending

\* Queue() submits a function or is refused.
LEMMA QueueImplements ==
    ASSUME Invariant, NEW x \in Work, Queue(x)
    PROVE  WQ!Submit(x) \/ UNCHANGED <<Pending, Running, executed, Mode>>
  <1>1. CASE terminate
    BY <1>1 DEF Queue, Pending, InHand, Running, Mode, callVars
  <1>2. CASE ~terminate
    <2>1. UNCHANGED <<workChan, InHand, Running, executed, Mode>> /\ wq' = Append(wq, x)
      BY <1>2 DEF Queue, InHand, Running, Mode, callVars
    <2> DEFINE s == workChan \o InHand
    <2>2. s \in Seq(Work) /\ wq \in Seq(Work) /\ wq' \in Seq(Work) /\ <<x>> \in Seq(Work)
      BY <2>1, PendingTypes, ConcatProperties, AppendProperties DEF Invariant, TypeOK
    <2>3. s \o wq' = Append(s \o wq, x)
      <3> HIDE DEF s
      <3>1. wq' = wq \o <<x>>
        BY <2>1, <2>2, AppendIsConcat
      <3>2. s \o wq \in Seq(Work)
        BY <2>2, ConcatProperties
      <3>3. Append(s \o wq, x) = (s \o wq) \o <<x>>
        BY <3>2, AppendIsConcat
      <3> QED
        BY <2>2, <3>1, <3>3, ConcatAssociative
    <2>4. Pending' = Append(Pending, x)
      BY <2>1, <2>3 DEF Pending
    <2>5. Mode = "open"
      BY <1>2 DEF Mode
    <2> QED
      BY <2>1, <2>4, <2>5 DEF WQ!Submit, Pending, InHand, Running, Mode
  <1> QED
    BY <1>1, <1>2

\* The scheduler only moves functions from one of the three places to the next one.
LEMMA SchedulerImplements ==
    ASSUME Invariant, SchedulerReceive \/ SchedulerLock \/ SchedulerSend
    PROVE  UNCHANGED <<Pending, Running, executed, Mode>>
  <1> USE DEF Invariant
  <1>0. workChan \in Seq(Work) /\ wq \in Seq(Work) /\ InHand \in Seq(Work)
    BY PendingTypes DEF TypeOK
  <1>1. UNCHANGED <<Running, executed, Mode>>
    BY DEF SchedulerReceive, SchedulerLock, SchedulerSend, Running, Mode, callVars, history
  <1>2. CASE SchedulerReceive
    BY <1>1, <1>2 DEF SchedulerReceive, Pending, InHand
  <1>3. CASE SchedulerLock /\ NothingToPop
    BY <1>1, <1>3 DEF SchedulerLock, NothingToPop, Pending, InHand
  <1>4. CASE SchedulerLock /\ PopWork
    <2>1. held = NoWork /\ wq # <<>> /\ UNCHANGED workChan
      BY <1>4 DEF SchedulerLock, PopWork, SchedulerState
    <2>2. Head(wq) \in Work /\ Tail(wq) \in Seq(Work) /\ <<Head(wq)>> \in Seq(Work)
      BY <1>0, <2>1, HeadTailProperties
    <2>3. InHand' = <<Head(wq)>> /\ wq' = Tail(wq)
      BY <1>4, <2>2 DEF SchedulerLock, PopWork, InHand
    <2>4. InHand = <<>>
      BY <2>1 DEF InHand
    <2>5. wq = <<Head(wq)>> \o Tail(wq)
      BY <1>0, <2>1, HeadAndTail
    <2>6. workChan \o <<>> = workChan
      BY <1>0, ConcatEmptySeq
    <2>7. (workChan \o <<Head(wq)>>) \o Tail(wq) = workChan \o (<<Head(wq)>> \o Tail(wq))
      BY <1>0, <2>2, ConcatAssociative
    <2>8. Pending' = Pending
      BY <2>1, <2>3, <2>4, <2>5, <2>6, <2>7 DEF Pending
    <2> QED
      BY <1>1, <2>8
  <1>5. CASE SchedulerSend
    <2>1. held \in Work /\ held # NoWork
      BY <1>5 DEF SchedulerSend, SchedulerState, TypeOK
    <2>2. InHand = <<held>> /\ InHand' = <<>> /\ UNCHANGED wq
      BY <1>5, <2>1 DEF SchedulerSend, InHand
    <2>3. workChan' = workChan \o <<held>>
      BY <1>0, <1>5, <2>1, AppendIsConcat DEF SchedulerSend
    <2>4. workChan \o <<held>> \in Seq(Work)
      BY <1>0, <2>2, ConcatProperties
    <2>5. (workChan \o <<held>>) \o <<>> = workChan \o <<held>>
      BY <2>4, ConcatEmptySeq
    <2>6. Pending' = Pending
      BY <2>2, <2>3, <2>5 DEF Pending
    <2> QED
      BY <1>1, <2>6
  <1> QED
    BY <1>2, <1>3, <1>4, <1>5 DEF SchedulerLock

\* A worker starts the oldest function, finishes it, or does nothing that shows.
LEMMA WorkerImplements ==
    ASSUME Invariant, NEW w \in Worker,
           WorkerReceive(w) \/ WorkerExit(w) \/ WorkerNotify(w) \/ WorkerFinish(w)
    PROVE  WQ!Start(w) \/ WQ!Finish(w) \/ UNCHANGED <<Pending, Running, executed, Mode>>
  <1> USE DEF Invariant
  <1>1. CASE WorkerReceive(w)
    <2>1. /\ workChan # <<>> /\ worker[w] = "recv"
          /\ job' = [job EXCEPT ![w] = Head(workChan)]
          /\ workChan' = Tail(workChan)
          /\ UNCHANGED <<InHand, wq, executed, Mode>>
      BY <1>1 DEF WorkerReceive, InHand, Mode, callVars, history
    <2>2. Head(workChan) \in Work /\ Tail(workChan) \in Seq(Work)
      BY <2>1, HeadTailProperties DEF TypeOK
    <2> DEFINE t == InHand \o wq
    <2>3. InHand \in Seq(Work) /\ wq \in Seq(Work) /\ workChan \in Seq(Work) /\ t \in Seq(Work)
      BY PendingTypes, ConcatProperties DEF TypeOK
    <2>4. Pending = workChan \o t /\ Pending' = Tail(workChan) \o t
      <3>1. (workChan \o InHand) \o wq = workChan \o t
        BY <2>3, ConcatAssociative
      <3>2. (Tail(workChan) \o InHand) \o wq = Tail(workChan) \o t
        BY <2>2, <2>3, ConcatAssociative
      <3>3. Pending' = (Tail(workChan) \o InHand) \o wq
        BY <2>1 DEF Pending
      <3> QED
        BY <3>1, <3>2, <3>3 DEF Pending
    <2>5. Pending # <<>> /\ Head(Pending) = Head(workChan) /\ Pending' = Tail(Pending)
      <3> HIDE DEF t
      <3> QED
        BY <2>1, <2>3, <2>4, HeadTailOfConcat
    <2>6. Running[w] = {} /\ Running' = [Running EXCEPT ![w] = {Head(Pending)}]
      BY <2>1, <2>2, <2>5 DEF WorkerState, Running, TypeOK
    <2> QED
      BY <2>1, <2>5, <2>6 DEF WQ!Start, Pending, InHand, Running, Mode
  <1>2. CASE WorkerExit(w) \/ WorkerNotify(w)
    <2>1. UNCHANGED <<workChan, held, wq, job, executed, terminate, waitStep>>
      BY <1>2 DEF WorkerExit, WorkerNotify, callVars, history
    <2> QED
      BY <2>1 DEF Pending, InHand, Running, Mode
  <1>3. CASE WorkerFinish(w)
    <2>1. job[w] \in Work
      BY <1>3 DEF WorkerFinish, WorkerState, TypeOK
    <2>2. Running[w] = {job[w]} /\ Running' = [Running EXCEPT ![w] = {}]
      BY <1>3, <2>1 DEF WorkerFinish, Running, TypeOK
    <2>3. executed' = executed \union {job[w]} /\ UNCHANGED <<Pending, Mode>>
      BY <1>3 DEF WorkerFinish, Pending, InHand, Mode, callVars
    <2> QED
      BY <2>2, <2>3 DEF WQ!Finish, Pending, InHand, Running, Mode
  <1> QED
    BY <1>1, <1>2, <1>3

\* wait() closes the queue to new work, and it ends when nothing is left.
LEMMA WaitImplements ==
    ASSUME Invariant,
           \/ \E c \in Caller : CallWait(c) \/ WaitReturn(c)
           \/ WaitTerminate \/ WaitNotify \/ WaitJoin \/ Rest
    PROVE  WQ!Drain \/ WQ!Stop \/ UNCHANGED <<Pending, Running, executed, Mode>>
  <1> USE DEF Invariant
  <1>1. CASE \E c \in Caller : CallWait(c) \/ WaitReturn(c)
    <2>1. UNCHANGED <<workChan, held, wq, job, executed, terminate, waitStep>>
      BY <1>1 DEF CallWait, WaitReturn, history
    <2> QED
      BY <2>1 DEF Pending, InHand, Running, Mode
  <1>2. CASE WaitNotify \/ Rest
    <2>1. UNCHANGED <<Pending, Running, executed>>
      BY <1>2 DEF WaitNotify, Rest, vars, Pending, InHand, Running, history
    <2>2. UNCHANGED Mode
      BY <1>2 DEF WaitNotify, Rest, vars, Mode
    <2> QED
      BY <2>1, <2>2
  <1>3. CASE WaitTerminate
    <2>1. Mode = "open" /\ Mode' = "draining" /\ UNCHANGED <<Pending, Running, executed>>
      BY <1>3 DEF WaitTerminate, WaitState, TypeOK, Pending, InHand, Running, Mode, history
    <2> QED
      BY <2>1 DEF WQ!Drain, Pending, InHand, Running, Mode
  <1>4. CASE WaitJoin
    <2>1. Mode = "draining" /\ Mode' = "stopped" /\ UNCHANGED <<Pending, Running, executed>>
      BY <1>4 DEF WaitJoin, WaitState, TypeOK, Pending, InHand, Running, Mode, history
    <2>2. scheduler = "stopped" /\ \A w \in Worker : worker[w] = "stopped"
      BY <1>4 DEF WaitJoin, AllStopped
    <2>3. 1 \in Worker
      BY DEF Worker
    <2>4. workChan = <<>> /\ held = NoWork /\ wq = <<>>
      BY <2>2, <2>3 DEF SchedulerState, WorkerState
    <2>5. Pending = <<>>
      BY <2>4 DEF Pending, InHand
    <2>6. \A w \in Worker : Running[w] = {}
      BY <2>2 DEF WorkerState, Running
    <2> QED
      BY <2>1, <2>5, <2>6 DEF WQ!Stop, Pending, InHand, Running, Mode
  <1> QED
    BY <1>1, <1>2, <1>3, <1>4

\* Every step of the pool is a step of the promised work queue or changes nothing of it:
\* whatever the channel, the slots and the locks do, work starts in the order in which
\* it was queued and the pool stops only when all of it is done (pool.go:8, 104, 119).
THEOREM PoolIsWorkQueue == SafetySpec => ImplementsWorkQueue
  <1>1. Init => WQ!Init
    BY DEF Init, WQ!Init
  <1>2. Invariant /\ [Next]_vars => [WQ!Next]_(WQ!vars)
    <2> SUFFICES ASSUME Invariant, [Next]_vars
                 PROVE  WQ!Next \/ UNCHANGED <<Pending, Running, executed, Mode>>
      BY DEF WQ!vars, Pending, InHand, Running, Mode
    <2>1. CASE UNCHANGED vars
      BY <2>1 DEF vars, Pending, InHand, Running, Mode
    <2>2. CASE Next
      BY <2>2, QueueImplements, SchedulerImplements, WorkerImplements, WaitImplements
      DEF Next, WQ!Next
    <2> QED
      BY <2>1, <2>2
  <1> QED
    BY <1>1, <1>2, AlwaysInvariant, PTL DEF SafetySpec, ImplementsWorkQueue, WQ!SafetySpec
=============================================================================
