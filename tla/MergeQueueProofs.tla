-------------------------- MODULE MergeQueueProofs --------------------------
(***************************************************************************)
(* Invariance proofs for MergeQueue, for every set of branches, PRs, queue *)
(* objects and handlers and every kind of events and requests.             *)
(*                                                                         *)
(* First the typing of what the operators on queues and pools do, then for *)
(* each conjunct of Invariant that every step keeps it, and the theorems   *)
(* that follow from it; then the same for WantedInvariant, and for         *)
(* AttendedInvariant.                                                      *)
(***************************************************************************)
EXTENDS MergeQueueInvariant, SequenceTheorems, TLAPS

-----------------------------------------------------------------------------
(* The operators on queues, pools and contexts.                            *)

\* Pool.Queue() leaves tasks in the pools and only reports panics.
LEMMA ScheduleType ==
    ASSUME TypeOK, NEW q \in QueueId, NEW t \in Task, NEW panic \in {"process", "request"},
           Schedule(q, t, panic)
    PROVE  /\ tasks' \in [QueueId -> Seq(Task)]
           /\ panics' \in SUBSET {"process", "map", "request"}
<1>1. CASE terminated[q]
  BY <1>1 DEF TypeOK, Schedule
<1>2. CASE ~terminated[q]
  <2>1. Append(tasks[q], t) \in Seq(Task)
    BY AppendProperties DEF TypeOK
  <2> QED
    BY <1>2, <2>1 DEF TypeOK, Schedule
<1> QED
  BY <1>1, <1>2

\* _dequeueActive() yields lists of PRs and a first element that is a PR or nil.
LEMMA DequeueActiveType ==
    ASSUME TypeOK, NEW q \in QueueId, NEW p, NEW n, DequeueActive(q, p, n)
    PROVE  /\ active' \in [QueueId -> SUBSET PR]
           /\ head' \in [QueueId -> PR \union {None}]
           /\ attended' \in [QueueId -> BOOLEAN]
<1>1. n \in PR \union {None}
  BY DEF TypeOK, DequeueActive, Successor
<1> QED
  BY <1>1 DEF TypeOK, DequeueActive

\* So does the critical section of queue.Dequeue().
LEMMA DequeueType ==
    ASSUME TypeOK, NEW q \in QueueId, NEW p, NEW n, Dequeue(q, p, n)
    PROVE  /\ active' \in [QueueId -> SUBSET PR]
           /\ head' \in [QueueId -> PR \union {None}]
           /\ attended' \in [QueueId -> BOOLEAN]
           /\ suspended' \in [QueueId -> SUBSET PR]
<1>1. CASE InActive(q, p)
  BY <1>1, DequeueActiveType DEF TypeOK, Dequeue
<1>2. CASE ~InActive(q, p)
  <2>1. suspended[q] \ {p} \in SUBSET PR
    BY DEF TypeOK
  <2> QED
    BY <1>2, <2>1 DEF TypeOK, Dequeue
<1> QED
  BY <1>1, <1>2

\* queue.Enqueue() yields well-typed lists and schedules a task.
LEMMA EnqueueType ==
    ASSUME TypeOK, NEW q \in QueueId, NEW p \in PR, Enqueue(q, p)
    PROVE  /\ active' \in [QueueId -> SUBSET PR]
           /\ head' \in [QueueId -> PR \union {None}]
           /\ attended' \in [QueueId -> BOOLEAN]
           /\ tasks' \in [QueueId -> Seq(Task)]
           /\ panics' \in SUBSET {"process", "map", "request"}
<1>1. Process(p) \in Task
  BY DEF Process, Task
<1>5. active[q] \union {p} \in SUBSET PR
  BY DEF TypeOK
<1>2. CASE p \in suspended[q] \/ p \in active[q]
  BY <1>2 DEF TypeOK, Enqueue, EnqueueActive
<1>3. CASE ~(p \in suspended[q] \/ p \in active[q]) /\ head[q] = None
  <2>1. Schedule(q, Process(p), "process")
    BY <1>3 DEF Enqueue, EnqueueActive
  <2> QED
    BY <1>1, <1>3, <1>5, <2>1, ScheduleType DEF TypeOK, Enqueue, EnqueueActive
<1>4. CASE ~(p \in suspended[q] \/ p \in active[q]) /\ head[q] # None
  BY <1>4, <1>5 DEF TypeOK, Enqueue, EnqueueActive
<1> QED
  BY <1>2, <1>3, <1>4

\* Coordinator.Enqueue() keeps the types and the entries of the coordinator's map.
LEMMA CoordinatorEnqueueType ==
    ASSUME TypeOK, NEW b \in Branch, NEW p \in PR, CoordinatorEnqueue(b, p)
    PROVE  /\ queues' \in [Branch -> QueueId \union {None}]
           /\ active' \in [QueueId -> SUBSET PR]
           /\ head' \in [QueueId -> PR \union {None}]
           /\ suspended' \in [QueueId -> SUBSET PR]
           /\ paused' \in [QueueId -> BOOLEAN]
           /\ terminated' \in [QueueId -> BOOLEAN]
           /\ tasks' \in [QueueId -> Seq(Task)]
           /\ panics' \in SUBSET {"process", "map", "request"}
           /\ attended' \in [QueueId -> BOOLEAN]
           /\ \A c \in Branch : queues[c] # None => queues'[c] = queues[c]
<1>1. CASE queues[b] # None
  <2>1. PICK q \in QueueId :
          /\ Enqueue(q, p)
          /\ UNCHANGED <<queues, suspended, paused, terminated>>
    BY <1>1 DEF CoordinatorEnqueue
  <2> QED
    BY <2>1, EnqueueType DEF TypeOK
<1>2. CASE queues[b] = None
  <2>1. PICK q \in QueueId :
             /\ queues' = [queues EXCEPT ![b] = q]
             /\ active' = [active EXCEPT ![q] = {p}]
             /\ head' = [head EXCEPT ![q] = p]
             /\ suspended' = [suspended EXCEPT ![q] = {}]
             /\ paused' = [paused EXCEPT ![q] = FALSE]
             /\ terminated' = [terminated EXCEPT ![q] = FALSE]
             /\ tasks' = [tasks EXCEPT ![q] = <<Process(p)>>]
             /\ attended' = [attended EXCEPT ![q] = FALSE]
             /\ UNCHANGED panics
    BY <1>2, QueueAssumption DEF CoordinatorEnqueue
  <2>2. <<Process(p)>> \in Seq(Task)
    BY DEF Process, Task
  <2> QED
    BY <1>2, <2>1, <2>2 DEF TypeOK
<1> QED
  BY <1>1, <1>2

\* Cancelling changes nothing but the contexts of running operations.
LEMMA CancelType ==
    ASSUME TypeOK, NEW q \in QueueId, NEW p, worker' = Cancel(q, p) \/ worker' = CancelAny(q)
    PROVE  /\ worker' \in [QueueId -> WorkerRecord]
           /\ \A r \in QueueId : /\ worker'[r].pc = worker[r].pc
                                 /\ worker'[r].task = worker[r].task
                                 /\ worker'[r].next = worker[r].next
<1>1. PICK c \in BOOLEAN : worker' = [worker EXCEPT ![q].cancelled = c]
  BY DEF Cancel, CancelAny
<1>2. worker[q] \in WorkerRecord
  BY DEF TypeOK
<1>3. [worker[q] EXCEPT !.cancelled = c] \in WorkerRecord
  BY <1>2 DEF WorkerRecord
<1>4. worker' = [worker EXCEPT ![q] = [worker[q] EXCEPT !.cancelled = c]]
  BY <1>1
<1>5. worker' \in [QueueId -> WorkerRecord]
  BY <1>3, <1>4 DEF TypeOK
<1>6. \A r \in QueueId : /\ worker'[r].pc = worker[r].pc
                        /\ worker'[r].task = worker[r].task
                        /\ worker'[r].next = worker[r].next
  BY <1>2, <1>4 DEF TypeOK, WorkerRecord
<1> QED
  BY <1>5, <1>6

-----------------------------------------------------------------------------
(* Shape.                                                                  *)

\* A well-shaped record of one worker may replace another one.
LEMMA WorkerSet ==
    ASSUME TypeOK, WorkerShape, NEW q \in QueueId, NEW r \in WorkerRecord,
           worker' = [worker EXCEPT ![q] = r],
           r.pc # "idle" => r.task \in Task,
           r.pc = "schedule" => r.next \in PR
    PROVE  worker' \in [QueueId -> WorkerRecord] /\ WorkerShape'
  BY DEF TypeOK, WorkerShape

\* A worker that only moves on keeps its task.
LEMMA WorkerMoves ==
    ASSUME TypeOK, WorkerShape, NEW q \in QueueId, NEW pc \in WorkerPc \ {"schedule"},
           worker[q].pc # "idle", WorkerGoto(q, pc)
    PROVE  worker' \in [QueueId -> WorkerRecord] /\ WorkerShape'
<1>1. worker[q] \in WorkerRecord /\ worker[q].task \in Task
  BY DEF TypeOK, WorkerShape
<1> DEFINE r == [worker[q] EXCEPT !.pc = pc]
<1>2. r \in WorkerRecord /\ r.pc = pc /\ r.task = worker[q].task
  BY <1>1 DEF WorkerRecord
<1>3. worker' = [worker EXCEPT ![q] = r]
  BY DEF WorkerGoto
<1> HIDE DEF r
<1> QED
  BY <1>1, <1>2, <1>3, WorkerSet

\* The worker of a queue keeps Shape.
LEMMA WorkerPreservesShape ==
    ASSUME Shape, NEW q \in QueueId, WorkerStep(q)
    PROVE  Shape'
<1> USE DEF Shape
<1>0. worker[q] \in WorkerRecord
  BY DEF TypeOK
<1>1. CASE WorkerTake(q)
  <2> DEFINE r == [WorkerIdle EXCEPT !.pc = "start", !.task = Head(tasks[q])]
  <2>1. Head(tasks[q]) \in Task /\ Tail(tasks[q]) \in Seq(Task)
    BY <1>1, HeadTailProperties DEF WorkerTake, TypeOK
  <2>2. r \in WorkerRecord /\ r.task \in Task /\ r.pc = "start"
    BY <2>1 DEF WorkerRecord, WorkerIdle, WorkerPc
  <2>3. worker' = [worker EXCEPT ![q] = r] /\ tasks' = [tasks EXCEPT ![q] = Tail(@)]
    BY <1>1 DEF WorkerTake
  <2> HIDE DEF r
  <2>4. worker' \in [QueueId -> WorkerRecord] /\ WorkerShape'
    BY <2>2, <2>3, WorkerSet
  <2>5. tasks' \in [QueueId -> Seq(Task)]
    BY <2>1, <2>3 DEF TypeOK
  <2> QED
    BY <1>1, <2>4, <2>5 DEF WorkerTake, TypeOK, LoopShape, HandlerShape, queueVars
<1>2. ASSUME NEW pc \in WorkerPc \ {"schedule"}, worker[q].pc # "idle", WorkerGoto(q, pc),
             UNCHANGED <<queues, active, head, suspended, paused, terminated, tasks, loop,
                         handler, stopping, panics, wanted>>,
             attended' \in [QueueId -> BOOLEAN]
      PROVE  Shape'
  BY <1>2, WorkerMoves DEF TypeOK, LoopShape, HandlerShape
<1>3. CASE WorkerSetExecuting(q)
  BY <1>2, <1>3 DEF WorkerSetExecuting, WorkerPc, queueVars, TypeOK
<1>4. CASE WorkerCheckPaused(q)
  BY <1>2, <1>4 DEF WorkerCheckPaused, WorkerPc, queueVars, TypeOK
<1>5. CASE WorkerEvaluate(q)
  BY <1>2, <1>5 DEF WorkerEvaluate, Evaluating, WorkerPc, queueVars, TypeOK
<1>6. CASE WorkerLookup(q)
  BY <1>2, <1>6 DEF WorkerLookup, WorkerPc, queueVars, TypeOK
<1>7. CASE WorkerStatus(q)
  BY <1>2, <1>7 DEF WorkerStatus, WorkerPc, queueVars, TypeOK
<1>8. worker[q].pc # "idle" => worker[q].task \in Task /\ worker[q].task.pr \in PR
  BY DEF WorkerShape, Task
<1>9. CASE WorkerCheckFirst(q)
  <2>1. PICK go \in BOOLEAN : attended' = [attended EXCEPT ![q] = @ \/ go]
    BY <1>9 DEF WorkerCheckFirst
  <2>2. attended' \in [QueueId -> BOOLEAN]
    BY <2>1 DEF TypeOK
  <2>3. PICK pc \in {"evaluate", "finish"} : WorkerGoto(q, pc)
    BY <1>9 DEF WorkerCheckFirst
  <2> QED
    BY <1>2, <1>9, <2>2, <2>3 DEF WorkerCheckFirst, WorkerPc
<1>10. CASE WorkerSuspend(q)
  <2> DEFINE p == worker[q].task.pr
             r == [worker[q] EXCEPT !.pc = "finish", !.cancelled = TRUE]
  <2>1. worker[q].pc # "idle" /\ p \in PR
    BY <1>8, <1>10 DEF WorkerSuspend
  <2>2. r \in WorkerRecord /\ r.pc = "finish" /\ r.task = worker[q].task
    BY <1>0 DEF WorkerRecord, WorkerPc
  <2>3. worker' = [worker EXCEPT ![q] = r]
    BY <1>10 DEF WorkerSuspend
  <2>4. worker' \in [QueueId -> WorkerRecord] /\ WorkerShape'
    <3> HIDE DEF r
    <3> QED
      BY <1>8, <2>1, <2>2, <2>3, WorkerSet
  <2> HIDE DEF r
  <2>5. /\ active' \in [QueueId -> SUBSET PR]
        /\ head' \in [QueueId -> PR \union {None}]
        /\ attended' \in [QueueId -> BOOLEAN]
        /\ suspended' \in [QueueId -> SUBSET PR]
        /\ tasks' \in [QueueId -> Seq(Task)]
        /\ panics' \in SUBSET {"process", "map", "request"}
    <3>1. CASE p \in active[q]
      <4>1. PICK n \in Successor(q, p) :
               /\ DequeueActive(q, p, n)
               /\ suspended' = [suspended EXCEPT ![q] = @ \union {p}]
               /\ IF NewFirst(q, n) = None
                  THEN UNCHANGED <<tasks, panics>>
                  ELSE Schedule(q, Process(n), "process")
        BY <1>10, <3>1 DEF WorkerSuspend
      <4>2. suspended[q] \union {p} \in SUBSET PR
        BY <2>1 DEF TypeOK
      <4>3. suspended' \in [QueueId -> SUBSET PR]
        BY <4>1, <4>2 DEF TypeOK
      <4>4. CASE NewFirst(q, n) = None
        BY <4>1, <4>3, <4>4, DequeueActiveType DEF TypeOK
      <4>5. CASE NewFirst(q, n) # None
        <5>1. n \in PR
          BY <4>5, QueueAssumption DEF Successor, NewFirst, TypeOK
        <5>2. Process(n) \in Task
          BY <5>1 DEF Process, Task
        <5> QED
          BY <4>1, <4>3, <4>5, <5>2, DequeueActiveType, ScheduleType
      <4> QED
        BY <4>4, <4>5
    <3>2. CASE p \notin active[q]
      BY <1>10, <3>2 DEF WorkerSuspend, TypeOK
    <3> QED
      BY <3>1, <3>2
  <2> QED
    BY <1>10, <2>4, <2>5 DEF WorkerSuspend, TypeOK, LoopShape, HandlerShape
<1>11. CASE WorkerDequeue(q)
  <2> DEFINE p == worker[q].task.pr
  <2>1. worker[q].pc # "idle" /\ p \in PR
    BY <1>8, <1>11 DEF WorkerDequeue
  <2>2. PICK n \in PR \union {None} :
          /\ Dequeue(q, p, n)
          /\ worker' = [worker EXCEPT ![q].pc = IF InActive(q, p) THEN "cancel" ELSE "finish",
                                      ![q].next = NewFirst(q, n)]
    BY <1>11 DEF WorkerDequeue
  <2> DEFINE r == [worker[q] EXCEPT !.pc = IF InActive(q, p) THEN "cancel" ELSE "finish",
                                    !.next = NewFirst(q, n)]
  <2>3. NewFirst(q, n) \in PR \union {None}
    BY DEF NewFirst
  <2>4. r \in WorkerRecord /\ r.pc # "schedule" /\ r.task = worker[q].task
    BY <1>0, <2>3 DEF WorkerRecord, WorkerPc
  <2>5. worker' = [worker EXCEPT ![q] = r]
    BY <2>2
  <2>6. worker' \in [QueueId -> WorkerRecord] /\ WorkerShape'
    <3> HIDE DEF r
    <3> QED
      BY <1>8, <2>1, <2>4, <2>5, WorkerSet
  <2>7. wanted' \in [Branch -> SUBSET PR]
    BY <1>11 DEF WorkerDequeue, TypeOK
  <2> QED
    BY <1>11, <2>2, <2>6, <2>7, DequeueType
    DEF WorkerDequeue, TypeOK, LoopShape, HandlerShape
<1>12. CASE WorkerCancel(q)
  <2> DEFINE r == [worker[q] EXCEPT !.cancelled = TRUE,
                                    !.pc = IF worker[q].next = None THEN "finish"
                                                                    ELSE "schedule"]
  <2>1. r \in WorkerRecord /\ r.task \in Task /\ (r.pc = "schedule" => r.next \in PR)
    BY <1>0, <1>8, <1>12 DEF WorkerCancel, WorkerRecord, WorkerPc
  <2>2. worker' = [worker EXCEPT ![q] = r]
    BY <1>12 DEF WorkerCancel
  <2>3. worker' \in [QueueId -> WorkerRecord] /\ WorkerShape'
    <3> HIDE DEF r
    <3> QED
      BY <2>1, <2>2, WorkerSet
  <2> QED
    BY <1>12, <2>3 DEF WorkerCancel, TypeOK, LoopShape, HandlerShape, queueVars
<1>13. CASE WorkerSchedule(q)
  <2> DEFINE r == [worker[q] EXCEPT !.pc = "finish", !.next = None]
  <2>1. r \in WorkerRecord /\ r.task \in Task /\ r.pc = "finish"
    BY <1>0, <1>8, <1>13 DEF WorkerSchedule, WorkerRecord, WorkerPc
  <2>2. worker' = [worker EXCEPT ![q] = r]
    BY <1>13 DEF WorkerSchedule
  <2>3. worker' \in [QueueId -> WorkerRecord] /\ WorkerShape'
    <3> HIDE DEF r
    <3> QED
      BY <2>1, <2>2, WorkerSet
  <2>4. Process(worker[q].next) \in Task
    BY <1>13 DEF WorkerSchedule, WorkerShape, Process, Task
  <2>5. Schedule(q, Process(worker[q].next), "process")
    BY <1>13 DEF WorkerSchedule
  <2> QED
    BY <1>13, <2>3, <2>4, <2>5, ScheduleType
    DEF WorkerSchedule, TypeOK, LoopShape, HandlerShape, queueVars
<1>14. CASE WorkerUnsuspend(q)
  <2>1. PICK pc \in {"enqueue", "finish"} : WorkerGoto(q, pc)
    BY <1>14 DEF WorkerUnsuspend
  <2>2. worker' \in [QueueId -> WorkerRecord] /\ WorkerShape'
    BY <1>14, <2>1, WorkerMoves DEF WorkerUnsuspend, WorkerPc
  <2>3. suspended' \in [QueueId -> SUBSET PR]
    BY <1>14 DEF WorkerUnsuspend, TypeOK
  <2> QED
    BY <1>14, <2>2, <2>3 DEF WorkerUnsuspend, TypeOK, LoopShape, HandlerShape
<1>15. CASE WorkerEnqueue(q)
  <2>1. worker' \in [QueueId -> WorkerRecord] /\ WorkerShape'
    BY <1>15, WorkerMoves DEF WorkerEnqueue, WorkerPc
  <2>2. worker[q].task.pr \in PR /\ Enqueue(q, worker[q].task.pr)
    BY <1>8, <1>15 DEF WorkerEnqueue
  <2> QED
    BY <1>15, <2>1, <2>2, EnqueueType DEF WorkerEnqueue, TypeOK, LoopShape, HandlerShape
<1>16. CASE WorkerFinish(q)
  <2>1. WorkerIdle \in WorkerRecord /\ WorkerIdle.pc = "idle"
    BY DEF WorkerIdle, WorkerRecord, WorkerPc
  <2>2. worker' \in [QueueId -> WorkerRecord] /\ WorkerShape'
    BY <1>16, <2>1, WorkerSet DEF WorkerFinish
  <2> QED
    BY <1>16, <2>2 DEF WorkerFinish, TypeOK, LoopShape, HandlerShape, queueVars
<1> QED
  BY <1>1, <1>3, <1>4, <1>5, <1>6, <1>7, <1>9, <1>10, <1>11, <1>12, <1>13, <1>14, <1>15, <1>16
  DEF WorkerStep

\* Starting an operation of the event loop keeps Shape if it keeps LoopShape.
LEMMA StartOperationShape ==
    ASSUME Shape, NEW op \in LoopOp, NEW pc \in LoopPc, NEW b \in Branch \union {None},
           NEW p \in PR \union {None}, NEW to \in Branch \union {None},
           NEW todo \in SUBSET Branch,
           b # None => queues[b] # None,
           StartOperation(op, pc, b, p, to, todo),
           LoopShape'
    PROVE  Shape'
<1>1. (IF b = None THEN None ELSE queues[b]) \in QueueId \union {None}
  BY DEF Shape, TypeOK
<1>2. loop' \in LoopRecord
  BY <1>1 DEF StartOperation, LoopRecord, LoopIdle
<1> QED
  BY <1>2 DEF StartOperation, Shape, TypeOK, WorkerShape, HandlerShape, queueVars

\* The steps of the event loop's operations keep Shape.
LEMMA LoopPreservesShape ==
    ASSUME Shape, LoopStep
    PROVE  Shape'
<1> USE DEF Shape
<1>0. /\ loop \in LoopRecord
      /\ queues \in [Branch -> QueueId \union {None}]
      /\ head \in [QueueId -> PR \union {None}]
      /\ stopping \in BOOLEAN
  BY DEF TypeOK
<1>1. CASE LoopNext
  <2>1. loop' \in LoopRecord /\ LoopShape'
    <3>1. CASE loop.todo = {} /\ UNCHANGED queues
      BY <1>0, <1>1, <3>1 DEF LoopNext, LoopShape, LoopRecord, LoopPc, LoopOp, LoopIdle
    <3>2. CASE loop.todo # {} /\ UNCHANGED queues
      <4>1. PICK b \in loop.todo :
             loop' = [loop EXCEPT !.branch = b, !.q = queues[b], !.todo = @ \ {b},
                                  !.pc = CASE loop.op = "probe" -> "probe"
                                           [] loop.op = "tick" -> "empty"
                                           [] loop.op = "stop" -> "discard"]
        BY <1>1, <3>2 DEF LoopNext
      <4>2. b \in Branch /\ queues[b] \in QueueId /\ loop.op \in {"probe", "tick", "stop"}
        BY <1>0, <1>1 DEF LoopNext, LoopShape, LoopRecord
      <4>3. loop' \in LoopRecord
        BY <1>0, <4>1, <4>2 DEF LoopRecord, LoopPc, LoopOp
      <4>4. LoopShape'
        BY <1>0, <1>1, <3>2, <4>1, <4>2 DEF LoopNext, LoopShape, LoopRecord, LoopPc, LoopOp
      <4> QED
        BY <4>3, <4>4
    <3> QED
      BY <1>1, <3>1, <3>2 DEF LoopNext
  <2> QED
    BY <1>1, <2>1 DEF LoopNext, TypeOK, WorkerShape, HandlerShape, queueVars
<1>2. CASE LoopCheckEmpty
  <2>1. loop' \in LoopRecord /\ LoopShape'
    BY <1>0, <1>2 DEF LoopCheckEmpty, LoopGoto, LoopShape, LoopRecord, LoopPc, LoopOp, LoopIdle
  <2> QED
    BY <1>2, <2>1 DEF LoopCheckEmpty, TypeOK, WorkerShape, HandlerShape, queueVars
<1>3. CASE LoopTrigger
  <2>1. loop' \in LoopRecord /\ LoopShape'
    BY <1>0, <1>3 DEF LoopTrigger, LoopGoto, LoopShape, LoopRecord, LoopPc, LoopOp, LoopIdle
  <2> QED
    BY <1>3, <2>1 DEF LoopTrigger, TypeOK, WorkerShape, HandlerShape, queueVars
<1>4. CASE LoopResume
  <2>1. loop' \in LoopRecord /\ LoopShape'
    BY <1>0, <1>4 DEF LoopResume, LoopGoto, LoopShape, LoopRecord, LoopPc, LoopOp, LoopIdle
  <2> QED
    BY <1>4, <2>1 DEF LoopResume, TypeOK, WorkerShape, HandlerShape, queueVars
<1>5. CASE LoopProbe
  <2>1. loop' \in LoopRecord /\ LoopShape'
    BY <1>0, <1>5 DEF LoopProbe, LoopGoto, LoopShape, LoopRecord, LoopPc, LoopOp, LoopIdle
  <2> QED
    BY <1>5, <2>1 DEF LoopProbe, TypeOK, WorkerShape, HandlerShape, queueVars
<1>6. CASE LoopExit
  <2> DEFINE todo == {b \in Branch : queues[b] # None}
  <2>1. StartOperation("stop", "next", None, None, None, todo)
    BY <1>6 DEF LoopExit
  <2>2. LoopShape'
    BY <2>1, QueueAssumption DEF StartOperation, LoopShape, LoopIdle
  <2>3. "stop" \in LoopOp /\ "next" \in LoopPc /\ todo \in SUBSET Branch
    BY DEF LoopOp, LoopPc
  <2> QED
    BY <2>1, <2>2, <2>3, StartOperationShape
<1>7. CASE LoopRemove
  <2>0. PICK n \in PR \union {None} :
          /\ Dequeue(loop.q, loop.pr, n)
          /\ loop' = [loop EXCEPT !.pc = IF InActive(loop.q, loop.pr) THEN "cancel" ELSE "empty",
                                  !.next = NewFirst(loop.q, n),
                                  !.to = IF loop.pr \in active[loop.q] \union suspended[loop.q]
                                         THEN @ ELSE None]
    BY <1>7 DEF LoopRemove
  <2>1. loop' \in LoopRecord /\ LoopShape'
    <3>1. NewFirst(loop.q, n) \in PR \union {None}
      BY DEF NewFirst
    <3>2. PICK pc \in {"cancel", "empty"}, to \in {loop.to, None}, next \in PR \union {None} :
            loop' = [loop EXCEPT !.pc = pc, !.next = next, !.to = to]
      BY <2>0, <3>1
    <3>3. loop' \in LoopRecord
      BY <1>0, <3>2 DEF LoopRecord, LoopPc
    <3>4. loop.pc = "remove" /\ UNCHANGED queues
      BY <1>7 DEF LoopRemove
    <3>5. LoopShape'
      BY <1>0, <3>2, <3>4 DEF LoopShape, LoopRecord
    <3> QED
      BY <3>3, <3>5
  <2>2. loop.q \in QueueId
    BY <1>7 DEF LoopRemove, LoopShape
  <2>3. wanted' \in [Branch -> SUBSET PR]
    BY <1>7 DEF LoopRemove, TypeOK
  <2> QED
    BY <1>7, <2>1, <2>0, <2>2, <2>3, DequeueType DEF LoopRemove, TypeOK, WorkerShape, HandlerShape
<1>8. CASE LoopCancel
  <2>1. loop' \in LoopRecord /\ LoopShape'
    BY <1>0, <1>8 DEF LoopCancel, LoopGoto, LoopShape, LoopRecord, LoopPc, LoopOp, LoopIdle
  <2>2. loop.q \in QueueId /\ worker' = Cancel(loop.q, loop.pr)
    BY <1>8 DEF LoopCancel, LoopShape
  <2>3. worker' \in [QueueId -> WorkerRecord] /\ WorkerShape'
    BY <2>2, CancelType DEF WorkerShape
  <2> QED
    BY <1>8, <2>1, <2>3 DEF LoopCancel, TypeOK, HandlerShape, queueVars
<1>9. CASE LoopStopCancel
  <2>1. loop' \in LoopRecord /\ LoopShape'
    BY <1>0, <1>9 DEF LoopStopCancel, LoopGoto, LoopShape, LoopRecord, LoopPc, LoopOp, LoopIdle
  <2>2. loop.q \in QueueId /\ worker' = CancelAny(loop.q)
    BY <1>9 DEF LoopStopCancel, LoopShape
  <2>3. worker' \in [QueueId -> WorkerRecord] /\ WorkerShape'
    BY <2>2, CancelType DEF WorkerShape
  <2> QED
    BY <1>9, <2>1, <2>3 DEF LoopStopCancel, TypeOK, HandlerShape, queueVars
<1>10. CASE LoopSchedule
  <2>1. loop' \in LoopRecord /\ LoopShape'
    <3>1. PICK pc \in {"empty", "resumeAll", "next"} :
            \/ loop' = [loop EXCEPT !.pc = pc, !.next = None] /\ (pc = "next" => loop.op = "tick")
            \/ loop' = LoopIdle
      BY <1>10 DEF LoopSchedule, LoopShape
    <3>2. UNCHANGED queues
      BY <1>10 DEF LoopSchedule
    <3>3. loop' \in LoopRecord
      <4>1. [loop EXCEPT !.pc = pc, !.next = None] \in LoopRecord
        BY <1>0 DEF LoopRecord, LoopPc
      <4>2. LoopIdle \in LoopRecord
        BY DEF LoopRecord, LoopIdle, LoopPc, LoopOp
      <4> QED
        BY <3>1, <4>1, <4>2
    <3>4. LoopShape'
      BY <1>0, <1>10, <3>1, <3>2 DEF LoopSchedule, LoopShape, LoopRecord, LoopIdle
    <3> QED
      BY <3>3, <3>4
  <2>2. loop.q \in QueueId /\ Process(loop.next) \in Task
    BY <1>10 DEF LoopSchedule, LoopShape, Process, ResumeIfPositive, Task
  <2>3. Schedule(loop.q, Process(loop.next), "process")
    BY <1>10 DEF LoopSchedule
  <2> QED
    BY <1>10, <2>1, <2>2, <2>3, ScheduleType
    DEF LoopSchedule, TypeOK, WorkerShape, HandlerShape, queueVars
<1>11. CASE LoopCheck
  <2>1. loop' \in LoopRecord /\ LoopShape'
    BY <1>0, <1>11 DEF LoopCheck, LoopGoto, LoopShape, LoopRecord, LoopPc, LoopOp, LoopIdle
  <2>2. loop.q \in QueueId /\ ResumeIfPositive(loop.pr) \in Task
    BY <1>11 DEF LoopCheck, LoopShape, Process, ResumeIfPositive, Task
  <2>3. Schedule(loop.q, ResumeIfPositive(loop.pr), "process")
    BY <1>11 DEF LoopCheck
  <2> QED
    BY <1>11, <2>1, <2>2, <2>3, ScheduleType
    DEF LoopCheck, TypeOK, WorkerShape, HandlerShape, queueVars
<1>12. CASE LoopClose
  <2>1. loop' \in LoopRecord /\ LoopShape'
    BY <1>0, <1>12 DEF LoopClose, LoopGoto, LoopShape, LoopRecord, LoopPc, LoopOp, LoopIdle
  <2> QED
    BY <1>12, <2>1 DEF LoopClose, TypeOK, WorkerShape, HandlerShape
<1>13. CASE LoopDrained
  <2>0. queues' \in [Branch -> QueueId \union {None}]
    BY <1>0, <1>13 DEF LoopDrained
  <2>1. loop' \in LoopRecord /\ LoopShape'
    <3>1. CASE loop.op \in {"tick", "stop"}
      <4>1. loop' = [loop EXCEPT !.pc = "next", !.q = None]
        BY <1>13, <3>1 DEF LoopDrained
      <4>2. loop' \in LoopRecord
        BY <1>0, <4>1 DEF LoopRecord, LoopPc
      <4>3. LoopShape'
        BY <1>0, <1>13, <3>1, <4>1 DEF LoopDrained, LoopShape, LoopRecord
      <4> QED
        BY <4>2, <4>3
    <3>2. CASE loop.op \notin {"tick", "stop"} /\ loop.to # None
      <4>1. loop' = [loop EXCEPT !.pc = "move", !.q = None]
        BY <1>13, <3>2 DEF LoopDrained
      <4>2. loop' \in LoopRecord
        BY <1>0, <4>1 DEF LoopRecord, LoopPc
      <4>3. LoopShape'
        BY <1>0, <1>13, <3>2, <4>1 DEF LoopDrained, LoopShape, LoopRecord
      <4> QED
        BY <4>2, <4>3
    <3>3. CASE loop.op \notin {"tick", "stop"} /\ loop.to = None
      <4>1. loop' = LoopIdle
        BY <1>13, <3>3 DEF LoopDrained
      <4> QED
        BY <4>1 DEF LoopShape, LoopRecord, LoopPc, LoopOp, LoopIdle
    <3> QED
      BY <3>1, <3>2, <3>3
  <2> QED
    BY <1>13, <2>1, <2>0 DEF LoopDrained, TypeOK, WorkerShape, HandlerShape, queueVars
<1>14. CASE LoopMove
  <2>0. loop.to \in Branch /\ loop.pr \in PR /\ CoordinatorEnqueue(loop.to, loop.pr)
    BY <1>14 DEF LoopMove, LoopShape
  <2>1. loop' \in LoopRecord /\ LoopShape'
    BY <1>0, <1>14 DEF LoopMove, LoopGoto, LoopShape, LoopRecord, LoopPc, LoopOp, LoopIdle
  <2>2. wanted' \in [Branch -> SUBSET PR]
    BY <1>14, <2>0 DEF LoopMove, TypeOK
  <2> QED
    BY <1>14, <2>1, <2>0, <2>2, CoordinatorEnqueueType
    DEF LoopMove, TypeOK, WorkerShape, HandlerShape
<1>15. CASE LoopUnsuspend
  <2>1. loop' \in LoopRecord /\ LoopShape'
    BY <1>0, <1>15 DEF LoopUnsuspend, LoopGoto, LoopShape, LoopRecord, LoopPc, LoopOp, LoopIdle
  <2>2. suspended' \in [QueueId -> SUBSET PR]
    BY <1>15 DEF LoopUnsuspend, TypeOK
  <2> QED
    BY <1>15, <2>1, <2>2 DEF LoopUnsuspend, TypeOK, WorkerShape, HandlerShape
<1>16. CASE LoopEnqueue
  <2>1. loop' \in LoopRecord /\ LoopShape'
    BY <1>0, <1>16 DEF LoopEnqueue, LoopGoto, LoopShape, LoopRecord, LoopPc, LoopOp, LoopIdle
  <2>2. loop.q \in QueueId /\ loop.pr \in PR /\ Enqueue(loop.q, loop.pr)
    BY <1>16 DEF LoopEnqueue, LoopShape
  <2> QED
    BY <1>16, <2>1, <2>2, EnqueueType DEF LoopEnqueue, TypeOK, WorkerShape, HandlerShape
<1>17. CASE LoopResumeAll
  <2>1. loop' \in LoopRecord /\ LoopShape'
    BY <1>0, <1>17 DEF LoopResumeAll, LoopGoto, LoopShape, LoopRecord, LoopPc, LoopOp, LoopIdle
  <2> DEFINE q == loop.q
  <2>2. q \in QueueId
    BY <1>17 DEF LoopResumeAll, LoopShape
  <2>3. active' \in [QueueId -> SUBSET PR] /\ suspended' \in [QueueId -> SUBSET PR]
    <3>1. /\ active[q] \union suspended[q] \in SUBSET PR
          /\ suspended[q] \intersect active[q] \in SUBSET PR
      BY <2>2 DEF TypeOK
    <3> QED
      BY <1>17, <2>2, <3>1 DEF LoopResumeAll, TypeOK
  <2>4. /\ head' \in [QueueId -> PR \union {None}]
        /\ attended' \in [QueueId -> BOOLEAN]
        /\ tasks' \in [QueueId -> Seq(Task)]
        /\ panics' \in SUBSET {"process", "map", "request"}
    <3>1. CASE head[q] = None /\ suspended[q] # {}
      <4>1. PICK p \in suspended[q] :
               /\ head' = [head EXCEPT ![q] = p]
               /\ attended' = [attended EXCEPT ![q] = FALSE]
               /\ Schedule(q, Process(p), "process")
        BY <1>17, <3>1 DEF LoopResumeAll
      <4>2. p \in PR /\ Process(p) \in Task
        BY <2>2 DEF TypeOK, Process, Task
      <4> QED
        BY <2>2, <4>1, <4>2, ScheduleType DEF TypeOK
    <3>2. CASE ~(head[q] = None /\ suspended[q] # {})
      BY <1>17, <3>2 DEF LoopResumeAll, TypeOK
    <3> QED
      BY <3>1, <3>2
  <2> QED
    BY <1>17, <2>1, <2>3, <2>4 DEF LoopResumeAll, TypeOK, WorkerShape, HandlerShape
<1>18. CASE LoopDiscard
  <2>1. loop' \in LoopRecord /\ LoopShape'
    BY <1>0, <1>18 DEF LoopDiscard, LoopGoto, LoopShape, LoopRecord, LoopPc, LoopOp, LoopIdle
  <2>2. PICK k \in Successor(loop.q, head[loop.q]) : DequeueActive(loop.q, head[loop.q], k)
    BY <1>18 DEF LoopDiscard
  <2>3. loop.q \in QueueId /\ suspended' \in [QueueId -> SUBSET PR]
    BY <1>18 DEF LoopDiscard, LoopShape, TypeOK
  <2> QED
    BY <1>18, <2>1, <2>2, <2>3, DequeueActiveType
    DEF LoopDiscard, TypeOK, WorkerShape, HandlerShape
<1> QED
  BY <1>1, <1>2, <1>3, <1>4, <1>5, <1>6, <1>7, <1>8, <1>9, <1>10,
     <1>11, <1>12, <1>13, <1>14, <1>15, <1>16, <1>17, <1>18
  DEF LoopStep

\* Taking an event or a tick keeps Shape.
LEMMA EventPreservesShape ==
    ASSUME Shape, LoopEvent \/ PeriodicTrigger
    PROVE  Shape'
<1> USE DEF Shape
<1> DEFINE Existing == {b \in Branch : queues[b] # None}
<1>1. ASSUME NEW b \in Branch, NEW p \in PR, OnEnqueue(b, p)
      PROVE  Shape'
  <2>1. wanted' \in [Branch -> SUBSET PR]
    BY <1>1 DEF OnEnqueue, TypeOK
  <2>2. loop.pc = "idle" /\ loop' = loop /\ loop.todo \in SUBSET Branch
    BY <1>1 DEF OnEnqueue, Receive, TypeOK, LoopRecord
  <2>3. CoordinatorEnqueue(b, p) /\ UNCHANGED <<worker, loop, handler, stopping>>
    BY <1>1 DEF OnEnqueue
  <2>4. LoopShape'
    BY <2>2, <2>3, CoordinatorEnqueueType DEF LoopShape
  <2> QED
    BY <2>1, <2>3, <2>4, CoordinatorEnqueueType DEF TypeOK, WorkerShape, HandlerShape
<1>2. ASSUME NEW b \in Branch, NEW p \in PR, NEW to \in Branch \union {None}, queues[b] # None,
             \/ StartOperation("dequeue", "remove", b, p, to, {})
             \/ StartOperation("trigger", "trigger", b, p, None, {})
             \/ StartOperation("trigger", "resume", b, p, None, {})
      PROVE  Shape'
  <2>1. queues[b] \in QueueId
    BY <1>2 DEF TypeOK
  <2>2. PICK op \in {"dequeue", "trigger"}, pc \in {"remove", "trigger", "resume"},
             t \in Branch \union {None} :
          /\ StartOperation(op, pc, b, p, t, {})
          /\ pc = "remove" => op = "dequeue"
          /\ pc = "trigger" => op = "trigger"
    BY <1>2
  <2>3. LoopShape'
    <3>1. /\ loop'.pc = pc /\ loop'.op = op /\ loop'.q = queues[b] /\ loop'.branch = b
          /\ loop'.pr = p /\ loop'.next = None /\ loop'.to = t /\ loop'.todo = {}
      BY <2>2, QueueAssumption DEF StartOperation, LoopIdle
    <3> QED
      BY <2>1, <2>2, <3>1 DEF LoopShape
  <2>4. op \in LoopOp /\ pc \in LoopPc
    BY DEF LoopOp, LoopPc
  <2> QED
    BY <1>2, <2>2, <2>3, <2>4, StartOperationShape
<1>3. ASSUME NEW b \in Branch, NEW p \in PR,
             OnDequeue(b, p) \/ OnSynchronize(b, p) \/ OnNegative(b, p)
      PROVE  Shape'
  BY <1>2, <1>3 DEF OnDequeue, OnSynchronize, OnNegative
<1>4. ASSUME NEW b \in Branch, NEW to \in Branch, NEW p \in PR, OnEdited(b, to, p)
      PROVE  Shape'
  BY <1>2, <1>4 DEF OnEdited
<1>5. ASSUME NEW p \in PR, OnPositive(p)
      PROVE  Shape'
  <2>1. StartOperation("probe", "next", None, p, None, Existing)
    BY <1>5 DEF OnPositive
  <2>2. LoopShape'
    BY <2>1, QueueAssumption DEF StartOperation, LoopShape, LoopIdle
  <2>3. "probe" \in LoopOp /\ "next" \in LoopPc /\ Existing \in SUBSET Branch
    BY DEF LoopOp, LoopPc
  <2> QED
    BY <2>1, <2>2, <2>3, StartOperationShape
<1>6. ASSUME NEW b \in Branch, OnPush(b)
      PROVE  Shape'
  <2>1. StartOperation("push", "trigger", b, None, None, {}) /\ queues[b] # None
    BY <1>6 DEF OnPush
  <2>2. queues[b] \in QueueId
    BY <2>1 DEF TypeOK
  <2>3. LoopShape'
    BY <2>1, <2>2, QueueAssumption DEF StartOperation, LoopShape, LoopIdle
  <2>4. "push" \in LoopOp /\ "trigger" \in LoopPc
    BY DEF LoopOp, LoopPc
  <2> QED
    BY <2>1, <2>3, <2>4, StartOperationShape
<1>7. CASE OnTick
  <2>1. StartOperation("tick", "next", None, None, None, Existing)
    BY <1>7 DEF OnTick
  <2>2. LoopShape'
    BY <2>1, QueueAssumption DEF StartOperation, LoopShape, LoopIdle
  <2>3. "tick" \in LoopOp /\ "next" \in LoopPc /\ Existing \in SUBSET Branch
    BY DEF LoopOp, LoopPc
  <2> QED
    BY <2>1, <2>2, <2>3, StartOperationShape
<1>8. CASE CloseShutdownChan
  BY <1>8 DEF CloseShutdownChan, TypeOK, LoopShape, WorkerShape, HandlerShape, queueVars
<1> QED
  BY <1>1, <1>3, <1>4, <1>5, <1>6, <1>7, <1>8 DEF LoopEvent, PeriodicTrigger

\* The HTTP handlers keep Shape.
LEMMA HandlerPreservesShape ==
    ASSUME Shape, NEW h \in Handler, HandlerStep(h) \/ HandlerRequest(h)
    PROVE  Shape'
<1> USE DEF Shape
<1>0. handler[h] \in HandlerRecord /\ handler \in [Handler -> HandlerRecord]
  BY DEF TypeOK
<1>1. HandlerIdle \in HandlerRecord /\ HandlerIdle.pc = "idle"
  BY DEF HandlerIdle, HandlerRecord, HandlerPc
<1>2. ASSUME NEW r \in HandlerRecord, handler' = [handler EXCEPT ![h] = r],
             r.pc # "idle" => r.q \in QueueId,
             r.pc = "schedule" => r.next \in PR
      PROVE  handler' \in [Handler -> HandlerRecord] /\ HandlerShape'
  BY <1>0, <1>2 DEF HandlerShape
<1>3. CASE HandlerPause(h)
  <2> DEFINE r == [handler[h] EXCEPT !.pc = "cancel"]
  <2>1. handler[h].q \in QueueId
    BY <1>3 DEF HandlerPause, HandlerShape
  <2>2. /\ r \in HandlerRecord
        /\ r.pc = "cancel" /\ r.q = handler[h].q
    BY <1>0 DEF HandlerRecord, HandlerPc
  <2>3. handler' = [handler EXCEPT ![h] = r]
    BY <1>3 DEF HandlerPause
  <2> HIDE DEF r
  <2>4. handler' \in [Handler -> HandlerRecord] /\ HandlerShape'
    BY <1>2, <2>1, <2>2, <2>3
  <2>5. paused' \in [QueueId -> BOOLEAN]
    BY <1>3, <2>1 DEF HandlerPause, TypeOK
  <2> QED
    BY <1>3, <2>4, <2>5 DEF HandlerPause, TypeOK, LoopShape, WorkerShape
<1>4. CASE HandlerCancel(h)
  <2>1. handler' \in [Handler -> HandlerRecord] /\ HandlerShape'
    BY <1>1, <1>2, <1>4 DEF HandlerCancel
  <2>2. handler[h].q \in QueueId /\ worker' = CancelAny(handler[h].q)
    BY <1>4 DEF HandlerCancel, HandlerShape
  <2>3. worker' \in [QueueId -> WorkerRecord] /\ WorkerShape'
    BY <2>2, CancelType DEF WorkerShape
  <2> QED
    BY <1>4, <2>1, <2>3 DEF HandlerCancel, TypeOK, LoopShape, queueVars
<1>5. CASE HandlerUnpause(h)
  <2> DEFINE r == [handler[h] EXCEPT !.pc = "first"]
  <2>1. handler[h].q \in QueueId
    BY <1>5 DEF HandlerUnpause, HandlerShape
  <2>2. /\ r \in HandlerRecord
        /\ r.pc = "first" /\ r.q = handler[h].q
    BY <1>0 DEF HandlerRecord, HandlerPc
  <2>3. handler' = [handler EXCEPT ![h] = r]
    BY <1>5 DEF HandlerUnpause
  <2> HIDE DEF r
  <2>4. handler' \in [Handler -> HandlerRecord] /\ HandlerShape'
    BY <1>2, <2>1, <2>2, <2>3
  <2>5. paused' \in [QueueId -> BOOLEAN]
    BY <1>5, <2>1 DEF HandlerUnpause, TypeOK
  <2> QED
    BY <1>5, <2>4, <2>5 DEF HandlerUnpause, TypeOK, LoopShape, WorkerShape
<1>6. CASE HandlerFirst(h)
  <2> DEFINE first == head[handler[h].q]
             r == [handler[h] EXCEPT !.pc = "schedule", !.next = first]
  <2>1. handler[h].q \in QueueId
    BY <1>6 DEF HandlerFirst, HandlerShape
  <2>2. CASE first = None
    BY <1>1, <1>2, <1>6, <2>2 DEF HandlerFirst, TypeOK, LoopShape, WorkerShape, queueVars
  <2>3. CASE first # None
    <3>1. first \in PR
      BY <2>1, <2>3 DEF TypeOK
    <3>2. /\ r \in HandlerRecord
          /\ r.pc = "schedule" /\ r.next = first
          /\ r.q = handler[h].q
      BY <1>0, <3>1 DEF HandlerRecord, HandlerPc
    <3>3. handler' = [handler EXCEPT ![h] = r]
      BY <1>6, <2>3 DEF HandlerFirst
    <3> HIDE DEF r
    <3>4. handler' \in [Handler -> HandlerRecord] /\ HandlerShape'
      BY <1>2, <2>1, <3>1, <3>2, <3>3
    <3> QED
      BY <1>6, <3>4 DEF HandlerFirst, TypeOK, LoopShape, WorkerShape, queueVars
  <2> QED
    BY <2>2, <2>3
<1>7. CASE HandlerSchedule(h)
  <2>1. handler' \in [Handler -> HandlerRecord] /\ HandlerShape'
    BY <1>1, <1>2, <1>7 DEF HandlerSchedule
  <2>2. handler[h].q \in QueueId /\ Process(handler[h].next) \in Task
    BY <1>7 DEF HandlerSchedule, HandlerShape, Process, Task
  <2>3. Schedule(handler[h].q, Process(handler[h].next), "request")
    BY <1>7 DEF HandlerSchedule
  <2> QED
    BY <1>7, <2>1, <2>2, <2>3, ScheduleType
    DEF HandlerSchedule, TypeOK, LoopShape, WorkerShape, queueVars
<1>8. ASSUME NEW request \in {"pause", "resume"}, HandlerLookup(h, request)
      PROVE  Shape'
  <2>1. PICK b \in Branch :
          /\ queues[b] # None
          /\ handler' = [handler EXCEPT ![h] = [HandlerIdle EXCEPT !.pc = request,
                                                    !.q = queues[b]]]
    BY <1>8 DEF HandlerLookup
  <2> DEFINE r == [HandlerIdle EXCEPT !.pc = request, !.q = queues[b]]
  <2>2. queues[b] \in QueueId
    BY <2>1 DEF TypeOK
  <2>3. r \in HandlerRecord /\ r.pc = request /\ r.q = queues[b]
    BY <2>2 DEF HandlerRecord, HandlerIdle, HandlerPc
  <2> HIDE DEF r
  <2>4. handler' = [handler EXCEPT ![h] = r]
    BY <2>1 DEF r
  <2>5. handler' \in [Handler -> HandlerRecord] /\ HandlerShape'
    BY <1>2, <2>2, <2>3, <2>4
  <2> QED
    BY <1>8, <2>5 DEF HandlerLookup, TypeOK, LoopShape, WorkerShape, queueVars
<1> QED
  BY <1>3, <1>4, <1>5, <1>6, <1>7, <1>8 DEF HandlerStep, HandlerRequest

\* Every step keeps Shape.
LEMMA NextPreservesShape ==
    ASSUME Shape, [Next]_vars
    PROVE  Shape'
<1>1. ASSUME NEW q \in QueueId, LookupDuringMapWrite(q)
      PROVE  Shape'
  <2>1. panics' \in SUBSET {"process", "map", "request"}
    BY <1>1 DEF LookupDuringMapWrite, Shape, TypeOK
  <2> QED
    BY <1>1, <2>1
    DEF LookupDuringMapWrite, Shape, TypeOK, LoopShape, WorkerShape, HandlerShape, queueVars
<1>2. CASE UNCHANGED vars
  BY <1>2 DEF Shape, TypeOK, LoopShape, WorkerShape, HandlerShape, vars
<1> QED
  BY <1>1, <1>2, WorkerPreservesShape, LoopPreservesShape, EventPreservesShape,
     HandlerPreservesShape DEF Next, Ended

\* Shape holds initially.
LEMMA InitShape == Init => Shape
<1> SUFFICES ASSUME Init PROVE Shape
  OBVIOUS
<1>1. WorkerIdle \in WorkerRecord
  BY DEF WorkerIdle, WorkerRecord, WorkerPc
<1>2. LoopIdle \in LoopRecord
  BY DEF LoopIdle, LoopRecord, LoopPc, LoopOp
<1>3. HandlerIdle \in HandlerRecord
  BY DEF HandlerIdle, HandlerRecord, HandlerPc
<1>4. TypeOK
  <2>1. tasks \in [QueueId -> Seq(Task)] /\ loop \in LoopRecord
    BY <1>2 DEF Init
  <2>2. worker \in [QueueId -> WorkerRecord] /\ handler \in [Handler -> HandlerRecord]
    BY <1>1, <1>3 DEF Init
  <2> QED
    BY <2>1, <2>2 DEF Init, TypeOK
<1>5. LoopShape
  BY DEF Init, LoopShape, LoopIdle
<1>6. WorkerShape /\ HandlerShape
  BY DEF Init, WorkerShape, HandlerShape, WorkerIdle, HandlerIdle
<1> QED
  BY <1>4, <1>5, <1>6 DEF Shape

-----------------------------------------------------------------------------
(* Lists: the first PR is active, and no PR is active and suspended.       *)

\* _dequeueActive() keeps Lists, whatever its caller does with the suspended PRs.
LEMMA DequeueActiveKeepsLists ==
    ASSUME TypeOK, Lists, NEW q \in QueueId, NEW p, NEW n, DequeueActive(q, p, n),
           NEW S, S \in {suspended[q], suspended[q] \union {p}, {}},
           suspended' = [suspended EXCEPT ![q] = S]
    PROVE  Lists'
<1>1. \A r \in QueueId \ {q} : /\ active'[r] = active[r]
                               /\ head'[r] = head[r]
                               /\ suspended'[r] = suspended[r]
  BY DEF DequeueActive, TypeOK
<1>2. active'[q] = active[q] \ {p} /\ head'[q] = n /\ suspended'[q] = S
  BY DEF DequeueActive, TypeOK
<1>3. IF active'[q] = {} THEN head'[q] = None ELSE head'[q] \in active'[q]
  BY <1>2, QueueAssumption DEF DequeueActive, Successor, Lists, HeadIsActive, TypeOK
<1>4. active'[q] \intersect suspended'[q] = {}
  BY <1>2 DEF Lists, Disjoint
<1> QED
  BY <1>1, <1>3, <1>4 DEF Lists, HeadIsActive, Disjoint

\* queue.Dequeue() keeps Lists.
LEMMA DequeueKeepsLists ==
    ASSUME TypeOK, Lists, NEW q \in QueueId, NEW p, NEW n, Dequeue(q, p, n)
    PROVE  Lists'
<1>1. CASE InActive(q, p)
  BY <1>1, DequeueActiveKeepsLists DEF Dequeue, TypeOK
<1>2. CASE ~InActive(q, p)
  BY <1>2 DEF Dequeue, TypeOK, Lists, HeadIsActive, Disjoint
<1> QED
  BY <1>1, <1>2

\* queue.Enqueue() keeps Lists.
LEMMA EnqueueKeepsLists ==
    ASSUME TypeOK, Lists, NEW q \in QueueId, NEW p \in PR, Enqueue(q, p), UNCHANGED suspended
    PROVE  Lists'
<1>1. CASE p \in suspended[q] \/ p \in active[q]
  BY <1>1 DEF Enqueue, EnqueueActive, Lists, HeadIsActive, Disjoint
<1>2. CASE p \notin suspended[q] /\ p \notin active[q]
  <2>1. /\ active' = [active EXCEPT ![q] = @ \union {p}]
        /\ head' = IF head[q] = None THEN [head EXCEPT ![q] = p] ELSE head
    BY <1>2 DEF Enqueue, EnqueueActive
  <2> QED
    BY <1>2, <2>1, QueueAssumption DEF TypeOK, Lists, HeadIsActive, Disjoint
<1> QED
  BY <1>1, <1>2

\* Coordinator.Enqueue() keeps Lists.
LEMMA CoordinatorEnqueueKeepsLists ==
    ASSUME TypeOK, Lists, NEW b \in Branch, NEW p \in PR, CoordinatorEnqueue(b, p)
    PROVE  Lists'
<1>1. CASE queues[b] # None
  BY <1>1, EnqueueKeepsLists DEF CoordinatorEnqueue
<1>2. CASE queues[b] = None
  <2>1. PICK q \in QueueId : /\ active' = [active EXCEPT ![q] = {p}]
                             /\ head' = [head EXCEPT ![q] = p]
                             /\ suspended' = [suspended EXCEPT ![q] = {}]
    BY <1>2, QueueAssumption DEF CoordinatorEnqueue
  <2> QED
    BY <2>1 DEF TypeOK, Lists, HeadIsActive, Disjoint
<1> QED
  BY <1>1, <1>2

\* Every step keeps Lists.
LEMMA NextKeepsLists ==
    ASSUME Shape, Lists, [Next]_vars
    PROVE  Lists'
<1> USE DEF Shape
<1>0. ASSUME UNCHANGED <<active, head, suspended>>
      PROVE  Lists'
  BY <1>0 DEF Lists, HeadIsActive, Disjoint
<1>1. ASSUME NEW q \in QueueId, WorkerStep(q)
      PROVE  Lists'
  <2>1. worker[q].pc # "idle" => worker[q].task.pr \in PR
    BY DEF WorkerShape, Task
  <2>2. CASE WorkerSuspend(q) /\ worker[q].task.pr \in active[q]
    <3>1. PICK n : /\ DequeueActive(q, worker[q].task.pr, n)
                   /\ suspended' = [suspended EXCEPT ![q] = @ \union {worker[q].task.pr}]
      BY <2>2 DEF WorkerSuspend
    <3> QED
      BY <3>1, DequeueActiveKeepsLists
  <2>3. CASE WorkerSuspend(q) /\ worker[q].task.pr \notin active[q]
    BY <1>0, <2>3 DEF WorkerSuspend
  <2>4. CASE WorkerDequeue(q)
    BY <2>4, DequeueKeepsLists DEF WorkerDequeue
  <2>5. CASE WorkerUnsuspend(q)
    BY <2>5 DEF WorkerUnsuspend, TypeOK, Lists, HeadIsActive, Disjoint
  <2>6. CASE WorkerEnqueue(q)
    BY <2>1, <2>6, EnqueueKeepsLists DEF WorkerEnqueue
  <2>7. CASE ~(WorkerSuspend(q) \/ WorkerDequeue(q) \/ WorkerUnsuspend(q) \/ WorkerEnqueue(q))
    BY <1>0, <1>1, <2>7
    DEF WorkerStep, WorkerTake, WorkerSetExecuting, WorkerCheckPaused, WorkerCheckFirst,
        WorkerEvaluate, WorkerCancel, WorkerSchedule, WorkerLookup, WorkerStatus,
        WorkerFinish, queueVars
  <2> QED
    BY <2>2, <2>3, <2>4, <2>5, <2>6, <2>7
<1>2. ASSUME LoopStep
      PROVE  Lists'
  <2>1. CASE LoopRemove
    BY <2>1, DequeueKeepsLists DEF LoopRemove, LoopShape
  <2>2. CASE LoopMove
    BY <2>2, CoordinatorEnqueueKeepsLists DEF LoopMove, LoopShape
  <2>3. CASE LoopUnsuspend
    BY <2>3 DEF LoopUnsuspend, LoopShape, TypeOK, Lists, HeadIsActive, Disjoint
  <2>4. CASE LoopEnqueue
    BY <2>4, EnqueueKeepsLists DEF LoopEnqueue, LoopShape
  <2>5. CASE LoopResumeAll
    <3> DEFINE q == loop.q
    <3>1. q \in QueueId
      BY <2>5 DEF LoopResumeAll, LoopShape
    <3>2. /\ active' = [active EXCEPT ![q] = @ \union suspended[q]]
          /\ suspended' = [suspended EXCEPT ![q] = @ \intersect active[q]]
          /\ \/ head[q] = None /\ \E p \in suspended[q] : head' = [head EXCEPT ![q] = p]
             \/ (head[q] # None \/ suspended[q] = {}) /\ head' = head
      BY <2>5 DEF LoopResumeAll
    <3> QED
      BY <3>1, <3>2, QueueAssumption DEF TypeOK, Lists, HeadIsActive, Disjoint
  <2>6. CASE LoopDiscard
    BY <2>6, DequeueActiveKeepsLists DEF LoopDiscard, LoopShape
  <2>7. CASE ~(LoopRemove \/ LoopMove \/ LoopUnsuspend \/ LoopEnqueue
                 \/ LoopResumeAll \/ LoopDiscard)
    BY <1>0, <1>2, <2>7
    DEF LoopStep, LoopNext, LoopCancel, LoopSchedule, LoopCheckEmpty, LoopClose, LoopDrained,
        LoopTrigger, LoopResume, LoopProbe, LoopCheck, LoopStopCancel, LoopExit,
        StartOperation, queueVars
  <2> QED
    BY <2>1, <2>2, <2>3, <2>4, <2>5, <2>6, <2>7
<1>3. ASSUME LoopEvent \/ PeriodicTrigger
      PROVE  Lists'
  <2>1. ASSUME NEW b \in Branch, NEW p \in PR, OnEnqueue(b, p)
        PROVE  Lists'
    BY <2>1, CoordinatorEnqueueKeepsLists DEF OnEnqueue
  <2> QED
    BY <1>0, <1>3, <2>1
    DEF LoopEvent, PeriodicTrigger, OnDequeue, OnSynchronize, OnNegative, OnEdited, OnPositive,
        OnPush, OnTick, CloseShutdownChan, StartOperation, queueVars
<1>4. ASSUME NEW h \in Handler, HandlerStep(h) \/ HandlerRequest(h)
      PROVE  Lists'
  BY <1>0, <1>4
  DEF HandlerStep, HandlerRequest, HandlerPause, HandlerCancel, HandlerUnpause, HandlerFirst,
      HandlerSchedule, HandlerLookup, queueVars
<1>5. ASSUME NEW q \in QueueId, LookupDuringMapWrite(q)
      PROVE  Lists'
  BY <1>0, <1>5 DEF LookupDuringMapWrite, queueVars
<1> QED
  BY <1>0, <1>1, <1>2, <1>3, <1>4, <1>5 DEF Next, Ended, vars

-----------------------------------------------------------------------------
(* PauseIsSeen.                                                            *)

\* What a step of the worker of q does to the workers' records.
LEMMA WorkerEffect ==
    ASSUME TypeOK, NEW q \in QueueId, WorkerStep(q)
    PROVE  /\ \A r \in QueueId \ {q} : worker'[r] = worker[r]
           /\ worker'[q].pc = "first" => WorkerCheckPaused(q)
           /\ worker'[q].pc = "evaluate" => WorkerCheckFirst(q)
           /\ UNCHANGED <<paused, loop, handler>>
<1>0. worker[q] \in WorkerRecord /\ worker \in [QueueId -> WorkerRecord]
  BY DEF TypeOK
<1>1. ASSUME NEW pc, WorkerGoto(q, pc)
      PROVE  (\A r \in QueueId \ {q} : worker'[r] = worker[r]) /\ worker'[q].pc = pc
  BY <1>0, <1>1 DEF WorkerGoto, WorkerRecord
<1>2. CASE WorkerTake(q)
  BY <1>0, <1>2 DEF WorkerTake, WorkerIdle, queueVars
<1>3. CASE WorkerSetExecuting(q) \/ WorkerCheckPaused(q) \/ WorkerCheckFirst(q)
  BY <1>1, <1>3 DEF WorkerSetExecuting, WorkerCheckPaused, WorkerCheckFirst, queueVars
<1>4. CASE WorkerEvaluate(q) \/ WorkerLookup(q) \/ WorkerStatus(q)
  BY <1>1, <1>4 DEF WorkerEvaluate, WorkerLookup, WorkerStatus, queueVars
<1>5. CASE WorkerUnsuspend(q) \/ WorkerEnqueue(q)
  BY <1>1, <1>5 DEF WorkerUnsuspend, WorkerEnqueue
<1>6. CASE WorkerSuspend(q)
  BY <1>0, <1>6 DEF WorkerSuspend, WorkerRecord
<1>7. CASE WorkerDequeue(q)
  BY <1>0, <1>7 DEF WorkerDequeue, WorkerRecord
<1>8. CASE WorkerCancel(q) \/ WorkerSchedule(q)
  BY <1>0, <1>8 DEF WorkerCancel, WorkerSchedule, WorkerRecord, queueVars
<1>9. CASE WorkerFinish(q)
  BY <1>0, <1>9 DEF WorkerFinish, WorkerIdle, queueVars
<1> QED
  BY <1>2, <1>3, <1>4, <1>5, <1>6, <1>7, <1>8, <1>9 DEF WorkerStep

\* Cancelling an operation is not undone and reaches the worker that announced it.
LEMMA CancelEffect ==
    ASSUME TypeOK, NEW q \in QueueId, NEW p, worker' = Cancel(q, p) \/ worker' = CancelAny(q)
    PROVE  /\ \A r \in QueueId : worker[r].cancelled => worker'[r].cancelled
           /\ worker' = CancelAny(q) /\ Executing(q) => worker'[q].cancelled
           /\ worker' = Cancel(q, p) /\ Executing(q) /\ worker[q].task.pr = p
                  => worker'[q].cancelled
  BY DEF TypeOK, WorkerRecord, Cancel, CancelAny

\* Every step keeps PauseIsSeen: a handler that sets the flag cancels the operation next.
LEMMA NextKeepsPauseIsSeen ==
    ASSUME Shape, PauseIsSeen, [Next]_vars
    PROVE  PauseIsSeen'
<1> USE DEF Shape
<1>0. ASSUME UNCHANGED <<paused, worker, handler>>
      PROVE  PauseIsSeen'
  BY <1>0 DEF PauseIsSeen
<1>1. ASSUME NEW q \in QueueId, WorkerStep(q)
      PROVE  PauseIsSeen'
  <2>1. paused[q] /\ worker'[q].pc \in {"first", "evaluate"} /\ ~worker'[q].cancelled
            => worker[q].pc = "first" /\ ~worker[q].cancelled
    <3>1. CASE WorkerCheckPaused(q)
      BY <3>1 DEF WorkerCheckPaused, WorkerGoto, TypeOK, WorkerRecord
    <3>2. CASE WorkerCheckFirst(q)
      BY <3>2 DEF WorkerCheckFirst, WorkerGoto, TypeOK, WorkerRecord
    <3> QED
      BY <1>1, <3>1, <3>2, WorkerEffect
  <2> QED
    BY <1>1, <2>1, WorkerEffect DEF PauseIsSeen
<1>2. ASSUME NEW q \in QueueId, NEW p, worker' = Cancel(q, p) \/ worker' = CancelAny(q),
             UNCHANGED <<paused, handler>>
      PROVE  PauseIsSeen'
  BY <1>2, CancelType, CancelEffect DEF PauseIsSeen
<1>3. ASSUME NEW b \in Branch, NEW p \in PR, CoordinatorEnqueue(b, p), UNCHANGED <<worker, handler>>
      PROVE  PauseIsSeen'
  <2>1. \A q \in QueueId : paused'[q] => paused[q]
    <3>1. CASE UNCHANGED paused
      BY <3>1
    <3>2. CASE \E q \in QueueId : paused' = [paused EXCEPT ![q] = FALSE]
      BY <3>2 DEF TypeOK
    <3> QED
      BY <1>3, <3>1, <3>2 DEF CoordinatorEnqueue
  <2> QED
    BY <1>3, <2>1 DEF PauseIsSeen
<1>4. ASSUME LoopStep
      PROVE  PauseIsSeen'
  <2>1. CASE LoopCancel \/ LoopStopCancel
    BY <1>2, <2>1 DEF LoopCancel, LoopStopCancel, LoopShape, queueVars
  <2>2. CASE LoopMove
    BY <1>3, <2>2 DEF LoopMove, LoopShape
  <2>3. CASE ~(LoopCancel \/ LoopStopCancel \/ LoopMove)
    BY <1>0, <1>4, <2>3
    DEF LoopStep, LoopNext, LoopRemove, LoopSchedule, LoopCheckEmpty, LoopClose, LoopDrained,
        LoopTrigger, LoopResume, LoopUnsuspend, LoopEnqueue, LoopResumeAll, LoopProbe,
        LoopCheck, LoopDiscard, LoopExit, StartOperation, queueVars
  <2> QED
    BY <2>1, <2>2, <2>3
<1>5. ASSUME LoopEvent \/ PeriodicTrigger
      PROVE  PauseIsSeen'
  <2>1. ASSUME NEW b \in Branch, NEW p \in PR, OnEnqueue(b, p)
        PROVE  PauseIsSeen'
    BY <1>3, <2>1 DEF OnEnqueue
  <2> QED
    BY <1>0, <1>5, <2>1
    DEF LoopEvent, PeriodicTrigger, OnDequeue, OnSynchronize, OnNegative, OnEdited, OnPositive,
        OnPush, OnTick, CloseShutdownChan, StartOperation, queueVars
<1>6. ASSUME NEW h \in Handler, HandlerStep(h) \/ HandlerRequest(h)
      PROVE  PauseIsSeen'
  <2>0. handler[h] \in HandlerRecord /\ handler \in [Handler -> HandlerRecord]
    BY DEF TypeOK
  <2>1. CASE HandlerPause(h)
    <3>1. /\ handler'[h].pc = "cancel" /\ handler'[h].q = handler[h].q
          /\ \A g \in Handler \ {h} : handler'[g] = handler[g]
      BY <2>0, <2>1 DEF HandlerPause, HandlerRecord
    <3>2. \A q \in QueueId : paused'[q] => paused[q] \/ q = handler[h].q
      BY <2>1 DEF HandlerPause, TypeOK
    <3>3. UNCHANGED worker /\ handler[h].pc # "cancel"
      BY <2>1 DEF HandlerPause
    <3> QED
      BY <3>1, <3>2, <3>3 DEF PauseIsSeen
  <2>2. CASE HandlerCancel(h)
    <3>1. /\ handler[h].q \in QueueId /\ worker' = CancelAny(handler[h].q)
          /\ UNCHANGED paused
          /\ \A g \in Handler \ {h} : handler'[g] = handler[g]
      BY <2>0, <2>2 DEF HandlerCancel, HandlerShape, queueVars
    <3>2. \A q \in QueueId : /\ worker'[q].pc = worker[q].pc
                             /\ worker[q].cancelled => worker'[q].cancelled
      BY <3>1, CancelType, CancelEffect
    <3>3. worker[handler[h].q].pc \in {"first", "evaluate"} => worker'[handler[h].q].cancelled
      BY <3>1, CancelEffect DEF Executing
    <3> QED
      BY <3>1, <3>2, <3>3 DEF PauseIsSeen
  <2>3. CASE HandlerUnpause(h) \/ HandlerFirst(h) \/ HandlerSchedule(h) \/ HandlerRequest(h)
    <3>1. /\ handler[h].pc # "cancel"
          /\ \A g \in Handler \ {h} : handler'[g] = handler[g]
          /\ UNCHANGED worker
      BY <2>0, <2>3 DEF HandlerUnpause, HandlerFirst, HandlerSchedule, HandlerRequest, HandlerLookup
    <3>2. \A q \in QueueId : paused'[q] => paused[q]
      BY <2>3 DEF HandlerUnpause, HandlerFirst, HandlerSchedule, HandlerRequest, HandlerLookup,
                  TypeOK, queueVars
    <3> QED
      BY <3>1, <3>2 DEF PauseIsSeen
  <2> QED
    BY <1>6, <2>1, <2>2, <2>3 DEF HandlerStep
<1>7. ASSUME NEW q \in QueueId, LookupDuringMapWrite(q)
      PROVE  PauseIsSeen'
  BY <1>0, <1>7 DEF LookupDuringMapWrite, queueVars
<1> QED
  BY <1>0, <1>1, <1>4, <1>5, <1>6, <1>7 DEF Next, Ended, vars

-----------------------------------------------------------------------------
(* OnlyHeadIsProcessed.                                                    *)

\* What enqueuing does to the first elements: only an empty queue gets a new one.
LEMMA EnqueueFirst ==
    ASSUME TypeOK, NEW q \in QueueId, NEW p \in PR, Enqueue(q, p)
    PROVE  \A r \in QueueId : head[r] # None => head'[r] = head[r]
  BY DEF TypeOK, Enqueue, EnqueueActive

\* Coordinator.Enqueue() also gives a first element to a queue object that is used again,
\* whose worker is idle.
LEMMA CoordinatorEnqueueFirst ==
    ASSUME TypeOK, NEW b \in Branch, NEW p \in PR, CoordinatorEnqueue(b, p)
    PROVE  \A r \in QueueId : head[r] # None => head'[r] = head[r] \/ worker[r].pc = "idle"
<1>1. CASE queues[b] # None
  BY <1>1, EnqueueFirst DEF CoordinatorEnqueue
<1>2. CASE queues[b] = None
  <2>1. PICK q \in QueueId : Unreachable(q) /\ head' = [head EXCEPT ![q] = p]
    BY <1>2, QueueAssumption DEF CoordinatorEnqueue
  <2> QED
    BY <2>1 DEF TypeOK, Unreachable
<1> QED
  BY <1>1, <1>2

\* A step of the worker of q leaves the first elements of the other queues alone.
LEMMA WorkerStaysInItsQueue ==
    ASSUME TypeOK, NEW q \in QueueId, WorkerStep(q)
    PROVE  \A r \in QueueId \ {q} : head'[r] = head[r]
<1>1. CASE WorkerSuspend(q)
  BY <1>1 DEF WorkerSuspend, DequeueActive, TypeOK
<1>2. CASE WorkerDequeue(q)
  <2>1. PICK n : Dequeue(q, worker[q].task.pr, n)
    BY <1>2 DEF WorkerDequeue
  <2> QED
    BY <2>1 DEF Dequeue, DequeueActive, TypeOK
<1>3. CASE WorkerEnqueue(q)
  BY <1>3 DEF WorkerEnqueue, Enqueue, EnqueueActive, TypeOK
<1>4. CASE ~(WorkerSuspend(q) \/ WorkerDequeue(q) \/ WorkerEnqueue(q))
  BY <1>4
  DEF WorkerStep, WorkerTake, WorkerSetExecuting, WorkerCheckPaused, WorkerCheckFirst,
      WorkerEvaluate, WorkerCancel, WorkerSchedule, WorkerLookup, WorkerStatus,
      WorkerUnsuspend, WorkerFinish, queueVars
<1> QED
  BY <1>1, <1>2, <1>3, <1>4

\* Every step keeps OnlyHeadIsProcessed: whoever removes the first PR cancels its operation.
LEMMA NextKeepsOnlyHead ==
    ASSUME Shape, OnlyHeadIsProcessed, [Next]_vars
    PROVE  OnlyHeadIsProcessed'
<1> USE DEF Shape
<1>0. ASSUME UNCHANGED <<head, worker, loop>>
      PROVE  OnlyHeadIsProcessed'
  BY <1>0 DEF OnlyHeadIsProcessed, Evaluating
<1>1. \A q \in QueueId : Evaluating(q) => worker[q].task.pr \in PR /\ worker[q].task.pr # None
  BY QueueAssumption DEF Evaluating, WorkerShape, Task
<1>2. ASSUME loop.pc \notin {"cancel", "stopCancel"}, UNCHANGED worker,
             \A q \in QueueId : head[q] # None => head'[q] = head[q] \/ worker[q].pc = "idle"
      PROVE  OnlyHeadIsProcessed'
  BY <1>1, <1>2 DEF OnlyHeadIsProcessed, Evaluating
<1>3. ASSUME NEW q \in QueueId, WorkerStep(q)
      PROVE  OnlyHeadIsProcessed'
  <2>1. Evaluating(q)' => head'[q] = worker'[q].task.pr \/ worker'[q].cancelled
    <3>1. CASE WorkerCheckFirst(q)
      BY <3>1 DEF WorkerCheckFirst, WorkerGoto, Evaluating, TypeOK, WorkerRecord
    <3> QED
      BY <1>3, <3>1, WorkerEffect DEF Evaluating
  <2> QED
    BY <1>3, <2>1, WorkerEffect, WorkerStaysInItsQueue DEF OnlyHeadIsProcessed, Evaluating
<1>4. ASSUME NEW q \in QueueId, NEW p, worker' = Cancel(q, p) \/ worker' = CancelAny(q),
             UNCHANGED head,
             \/ UNCHANGED loop
             \/ loop.pc = "cancel" /\ loop.q = q /\ loop.pr = p /\ worker' = Cancel(q, p)
             \/ loop.pc = "stopCancel" /\ loop.q = q /\ worker' = CancelAny(q)
      PROVE  OnlyHeadIsProcessed'
  <2>1. \A r \in QueueId : /\ Evaluating(r)' <=> Evaluating(r)
                           /\ worker'[r].task = worker[r].task
                           /\ worker[r].cancelled => worker'[r].cancelled
    BY <1>4, CancelType, CancelEffect DEF Evaluating
  <2>2. Evaluating(q) => Executing(q)
    BY DEF Evaluating, Executing
  <2>3. CASE UNCHANGED loop
    BY <1>4, <2>1, <2>3 DEF OnlyHeadIsProcessed
  <2>4. CASE loop.pc = "cancel" /\ loop.q = q /\ loop.pr = p /\ worker' = Cancel(q, p)
    BY <1>4, <2>1, <2>2, <2>4, CancelEffect DEF OnlyHeadIsProcessed
  <2>5. CASE loop.pc = "stopCancel" /\ loop.q = q /\ worker' = CancelAny(q)
    BY <1>4, <2>1, <2>2, <2>5, CancelEffect DEF OnlyHeadIsProcessed
  <2> QED
    BY <1>4, <2>3, <2>4, <2>5
<1>5. ASSUME LoopStep
      PROVE  OnlyHeadIsProcessed'
  <2>1. CASE LoopRemove
    <3>1. PICK n : /\ Dequeue(loop.q, loop.pr, n)
                   /\ loop' = [loop EXCEPT
                           !.pc = IF InActive(loop.q, loop.pr) THEN "cancel" ELSE "empty",
                           !.next = NewFirst(loop.q, n),
                           !.to = IF loop.pr \in active[loop.q] \union suspended[loop.q]
                                  THEN @ ELSE None]
      BY <2>1 DEF LoopRemove
    <3>2. loop.pc = "remove" /\ loop.q \in QueueId /\ UNCHANGED worker
      BY <2>1 DEF LoopRemove, LoopShape
    <3>3. CASE InActive(loop.q, loop.pr) /\ head[loop.q] = loop.pr
      <4>1. loop'.pc = "cancel" /\ loop'.q = loop.q /\ loop'.pr = loop.pr
        BY <3>1, <3>3 DEF TypeOK, LoopRecord
      <4>2. \A r \in QueueId \ {loop.q} : head'[r] = head[r]
        BY <3>1, <3>3 DEF Dequeue, DequeueActive, TypeOK
      <4> QED
        BY <3>2, <3>3, <4>1, <4>2 DEF OnlyHeadIsProcessed, Evaluating
    <3>4. CASE ~(InActive(loop.q, loop.pr) /\ head[loop.q] = loop.pr)
      <4>1. \A r \in QueueId : head'[r] = head[r]
        BY <3>1, <3>2, <3>4 DEF Dequeue, DequeueActive, Successor, TypeOK
      <4> QED
        BY <1>2, <3>2, <4>1
    <3> QED
      BY <3>3, <3>4
  <2>2. CASE LoopCancel
    BY <1>4, <2>2 DEF LoopCancel, LoopShape, queueVars
  <2>3. CASE LoopStopCancel
    BY <1>4, <2>3 DEF LoopStopCancel, LoopShape, queueVars
  <2>4. CASE LoopMove
    BY <1>2, <2>4, CoordinatorEnqueueFirst DEF LoopMove, LoopShape
  <2>5. CASE LoopEnqueue
    BY <1>2, <2>5, EnqueueFirst DEF LoopEnqueue, LoopShape
  <2>6. CASE LoopResumeAll
    BY <1>2, <2>6 DEF LoopResumeAll, TypeOK
  <2>7. CASE LoopDiscard
    <3>1. loop'.pc = "stopCancel" /\ loop'.q = loop.q /\ UNCHANGED worker
      BY <2>7 DEF LoopDiscard, LoopGoto, TypeOK, LoopRecord
    <3>2. \A r \in QueueId \ {loop.q} : head'[r] = head[r]
      BY <2>7 DEF LoopDiscard, DequeueActive, TypeOK
    <3> QED
      BY <2>7, <3>1, <3>2 DEF LoopDiscard, OnlyHeadIsProcessed, Evaluating
  <2>8. CASE ~(LoopRemove \/ LoopCancel \/ LoopStopCancel \/ LoopMove \/ LoopEnqueue
                 \/ LoopResumeAll \/ LoopDiscard)
    BY <1>2, <1>5, <2>8
    DEF LoopStep, LoopNext, LoopSchedule, LoopCheckEmpty, LoopClose, LoopDrained,
        LoopTrigger, LoopResume, LoopUnsuspend, LoopProbe, LoopCheck, LoopExit,
        StartOperation, queueVars
  <2> QED
    BY <2>1, <2>2, <2>3, <2>4, <2>5, <2>6, <2>7, <2>8
<1>6. ASSUME LoopEvent \/ PeriodicTrigger
      PROVE  OnlyHeadIsProcessed'
  <2>1. ASSUME NEW b \in Branch, NEW p \in PR, OnEnqueue(b, p)
        PROVE  OnlyHeadIsProcessed'
    BY <1>2, <2>1, CoordinatorEnqueueFirst DEF OnEnqueue, Receive
  <2>2. CASE CloseShutdownChan
    BY <1>0, <2>2 DEF CloseShutdownChan, queueVars
  <2> QED
    BY <1>2, <1>6, <2>1, <2>2
    DEF LoopEvent, PeriodicTrigger, OnDequeue, OnSynchronize, OnNegative, OnEdited, OnPositive,
        OnPush, OnTick, Receive, StartOperation, queueVars
<1>7. ASSUME NEW h \in Handler, HandlerStep(h) \/ HandlerRequest(h)
      PROVE  OnlyHeadIsProcessed'
  <2>1. CASE HandlerCancel(h)
    BY <1>4, <2>1 DEF HandlerCancel, HandlerShape, queueVars
  <2>2. CASE ~HandlerCancel(h)
    BY <1>0, <1>7, <2>2
    DEF HandlerStep, HandlerRequest, HandlerPause, HandlerUnpause, HandlerFirst,
        HandlerSchedule, HandlerLookup, queueVars
  <2> QED
    BY <2>1, <2>2
<1>8. ASSUME NEW q \in QueueId, LookupDuringMapWrite(q)
      PROVE  OnlyHeadIsProcessed'
  BY <1>0, <1>8 DEF LookupDuringMapWrite, queueVars
<1> QED
  BY <1>0, <1>3, <1>5, <1>6, <1>7, <1>8 DEF Next, Ended, vars

-----------------------------------------------------------------------------
(* The theorems about the lists, the operations and the pauses.            *)

\* The invariant is inductive.
LEMMA InvariantIsInductive ==
    /\ Init => Invariant
    /\ Invariant /\ [Next]_vars => Invariant'
<1>1. Init => HeadIsActive /\ Disjoint /\ PauseIsSeen /\ OnlyHeadIsProcessed
  BY DEF Init, HeadIsActive, Disjoint, PauseIsSeen, OnlyHeadIsProcessed, Evaluating, WorkerIdle
<1>2. Init => Invariant
  BY <1>1, InitShape DEF Invariant, Lists
<1>3. ASSUME Invariant, [Next]_vars
      PROVE  Invariant'
  BY <1>3, NextPreservesShape, NextKeepsLists, NextKeepsPauseIsSeen, NextKeepsOnlyHead
  DEF Invariant, Lists
<1> QED
  BY <1>2, <1>3

\* The inductive invariant holds in every reachable state.
THEOREM InvariantHolds == SafetySpec => []Invariant
  BY InvariantIsInductive, PTL DEF SafetySpec

\* Type correctness: every operation refers to a queue, a PR or a branch where it uses one.
THEOREM TypeCorrect == SafetySpec => []TypeOK
<1>1. Invariant => TypeOK
  BY DEF Invariant, Shape
<1> QED
  BY <1>1, InvariantHolds, PTL

\* No PR is active and suspended in the same queue (queue.go:370, 430-451).
THEOREM ListsAreDisjoint == SafetySpec => []Disjoint
<1>1. Invariant => Disjoint
  BY DEF Invariant, Lists
<1> QED
  BY <1>1, InvariantHolds, PTL

\* Only the first PR of a queue is worked on by an operation that was not cancelled, or
\* whoever removed it is about to cancel the operation (queue.go:330, 541, 1215).
THEOREM WorksOnHeadOnly == SafetySpec => []OnlyHeadIsProcessed
<1>1. Invariant => OnlyHeadIsProcessed
  BY DEF Invariant
<1> QED
  BY <1>1, InvariantHolds, PTL

\* No uncancelled processing in a paused queue once the pause request was served
\* (queue.go:484, 529 against 1108-1112).
THEOREM PauseIsQuiet == SafetySpec => []PausedIsQuiet
<1>1. Invariant => PausedIsQuiet
  BY DEF Invariant, PauseIsSeen, PausedIsQuiet, Evaluating
<1> QED
  BY <1>1, InvariantHolds, PTL

-----------------------------------------------------------------------------
(* OnlyProcesses: without positive events no task to resume a PR exists.   *)

\* Scheduling the processing of a PR keeps NoResumeTasks.
LEMMA ScheduleProcess ==
    ASSUME TypeOK, NoResumeTasks, NEW q \in QueueId, NEW p \in PR, NEW panic,
           Schedule(q, Process(p), panic)
    PROVE  NoResumeTasks'
<1>1. CASE terminated[q]
  BY <1>1 DEF Schedule, NoResumeTasks
<1>2. CASE ~terminated[q]
  <2>1. tasks' = [tasks EXCEPT ![q] = Append(@, Process(p))] /\ tasks[q] \in Seq(Task)
    BY <1>2 DEF Schedule, TypeOK
  <2>2. Process(p) \in Task /\ Process(p).kind = "process"
    BY DEF Process, Task
  <2>3. \A i \in DOMAIN Append(tasks[q], Process(p)) :
            Append(tasks[q], Process(p))[i].kind = "process"
    BY <2>1, <2>2, AppendProperties DEF NoResumeTasks
  <2> QED
    BY <2>1, <2>3 DEF TypeOK, NoResumeTasks
<1> QED
  BY <1>1, <1>2

\* So does enqueuing, also into a new queue.
LEMMA EnqueueProcess ==
    ASSUME TypeOK, NoResumeTasks, NEW p \in PR,
           \/ \E q \in QueueId : Enqueue(q, p)
           \/ \E b \in Branch : CoordinatorEnqueue(b, p)
    PROVE  NoResumeTasks'
<1>1. ASSUME NEW q \in QueueId, Enqueue(q, p)
      PROVE  NoResumeTasks'
  BY <1>1, ScheduleProcess DEF Enqueue, EnqueueActive, NoResumeTasks
<1>2. ASSUME NEW b \in Branch, CoordinatorEnqueue(b, p)
      PROVE  NoResumeTasks'
  <2>1. CASE \E q \in QueueId : Enqueue(q, p)
    BY <1>1, <2>1
  <2>2. ASSUME NEW q \in QueueId, tasks' = [tasks EXCEPT ![q] = <<Process(p)>>]
        PROVE  NoResumeTasks'
    BY <2>2 DEF NoResumeTasks, TypeOK, Process
  <2> QED
    BY <1>2, <2>1, <2>2 DEF CoordinatorEnqueue
<1> QED
  BY <1>1, <1>2

\* The loop ends an iteration, or goes on with the queue of another branch.
LEMMA LoopNextEffect ==
    ASSUME Shape, LoopNext
    PROVE  \/ /\ loop'.pc = IF loop.op = "stop" THEN "stopped" ELSE "idle"
              /\ loop'.op = "none"
              /\ loop'.next = None
           \/ /\ loop'.branch \in Branch
              /\ loop'.q = queues[loop'.branch]
              /\ loop'.q # None
              /\ loop'.op = loop.op
              /\ loop'.next = loop.next
              /\ \/ loop'.pc \in {"probe", "empty"} /\ loop.op # "stop"
                 \/ loop'.pc = "discard" /\ loop.op = "stop"
<1>0. loop \in LoopRecord /\ loop.pc = "next" /\ loop.op \in {"probe", "tick", "stop"}
  BY DEF LoopNext, Shape, TypeOK, LoopShape
<1>1. CASE loop' = IF loop.op = "stop" THEN [LoopIdle EXCEPT !.pc = "stopped"] ELSE LoopIdle
  BY <1>1 DEF LoopIdle
<1>2. ASSUME NEW b \in loop.todo, NEW pc,
             loop' = [loop EXCEPT !.branch = b, !.q = queues[b], !.todo = @ \ {b}, !.pc = pc],
             \/ pc \in {"probe", "empty"} /\ loop.op # "stop"
             \/ pc = "discard" /\ loop.op = "stop"
      PROVE  /\ loop'.branch \in Branch
             /\ loop'.q = queues[loop'.branch]
             /\ loop'.q # None
             /\ loop'.op = loop.op
             /\ loop'.next = loop.next
             /\ loop'.pc = pc
  BY <1>0, <1>2 DEF LoopRecord, Shape, LoopShape
<1> QED
  BY <1>0, <1>1, <1>2 DEF LoopNext

\* Every step keeps OnlyProcesses.
LEMMA NextKeepsOnlyProcesses ==
    ASSUME Shape, OnlyProcesses, "positive" \notin Events, [Next]_vars
    PROVE  OnlyProcesses'
<1> USE DEF Shape
<1>0. ASSUME NoResumeTasks', UNCHANGED loop,
             \A q \in QueueId : worker'[q].task = worker[q].task /\ worker'[q].pc = worker[q].pc
      PROVE  OnlyProcesses'
  BY <1>0 DEF OnlyProcesses
<1>1. ASSUME NoResumeTasks', UNCHANGED worker, loop'.op = loop.op \/ loop' = LoopIdle
      PROVE  OnlyProcesses'
  BY <1>1 DEF OnlyProcesses, LoopIdle
<1>2. ASSUME UNCHANGED tasks
      PROVE  NoResumeTasks'
  BY <1>2 DEF OnlyProcesses, NoResumeTasks
<1>3. ASSUME NEW q \in QueueId, WorkerStep(q)
      PROVE  OnlyProcesses'
  <2>0. worker[q] \in WorkerRecord /\ worker \in [QueueId -> WorkerRecord]
    BY DEF TypeOK
  <2>1. ASSUME NoResumeTasks', worker'[q].task.kind # "resume",
               worker'[q].pc \notin {"lookup", "status", "unsuspend", "enqueue"}
        PROVE  OnlyProcesses'
    BY <1>3, <2>1, WorkerEffect DEF OnlyProcesses
  <2>2. CASE WorkerTake(q)
    <3>1. tasks[q] \in Seq(Task) /\ tasks[q] # <<>> /\ tasks' = [tasks EXCEPT ![q] = Tail(@)]
      BY <2>2 DEF WorkerTake, TypeOK
    <3>2. NoResumeTasks'
      <4>1. \A i \in DOMAIN Tail(tasks[q]) : Tail(tasks[q])[i].kind = "process"
        BY <3>1, HeadTailProperties DEF OnlyProcesses, NoResumeTasks
      <4> QED
        BY <3>1, <4>1 DEF OnlyProcesses, NoResumeTasks, TypeOK
    <3>3. Head(tasks[q]).kind = "process"
      BY <3>1 DEF OnlyProcesses, NoResumeTasks
    <3>4. worker'[q].task = Head(tasks[q]) /\ worker'[q].pc = "start"
      BY <2>0, <2>2 DEF WorkerTake, WorkerIdle
    <3> QED
      BY <2>1, <3>2, <3>3, <3>4
  <2>3. ASSUME NEW pc, WorkerGoto(q, pc), UNCHANGED tasks,
               pc \notin {"lookup", "status", "unsuspend", "enqueue"}
        PROVE  OnlyProcesses'
    BY <1>2, <2>0, <2>1, <2>3 DEF WorkerGoto, WorkerRecord, OnlyProcesses
  <2>4. CASE WorkerSetExecuting(q)
    <3>1. worker[q].task.kind = "process"
      BY <2>4 DEF WorkerSetExecuting, WorkerShape, Task, OnlyProcesses
    <3> QED
      BY <2>3, <2>4, <3>1 DEF WorkerSetExecuting
  <2>5. CASE WorkerCheckPaused(q) \/ WorkerCheckFirst(q) \/ WorkerEvaluate(q)
    BY <2>3, <2>5 DEF WorkerCheckPaused, WorkerCheckFirst, WorkerEvaluate
  <2>6. CASE WorkerSuspend(q)
    <3>1. worker'[q].task = worker[q].task /\ worker'[q].pc = "finish"
      BY <2>0, <2>6 DEF WorkerSuspend, WorkerRecord
    <3>2. NoResumeTasks'
      <4>1. CASE UNCHANGED tasks
        BY <1>2, <4>1
      <4>2. ASSUME NEW n \in Successor(q, worker[q].task.pr), NewFirst(q, n) # None,
                   Schedule(q, Process(n), "process")
            PROVE  NoResumeTasks'
        <5>1. n \in PR
          BY <4>2, QueueAssumption DEF Successor, NewFirst, TypeOK
        <5> QED
          BY <4>2, <5>1, ScheduleProcess DEF OnlyProcesses
      <4> QED
        BY <2>6, <4>1, <4>2 DEF WorkerSuspend
    <3> QED
      BY <2>1, <3>1, <3>2 DEF OnlyProcesses
  <2>7. CASE WorkerDequeue(q) \/ WorkerCancel(q)
    <3>1. worker'[q].task = worker[q].task /\ worker'[q].pc \in {"cancel", "finish", "schedule"}
      BY <2>0, <2>7 DEF WorkerDequeue, WorkerCancel, WorkerRecord
    <3> QED
      BY <1>2, <2>1, <2>7, <3>1 DEF WorkerDequeue, WorkerCancel, OnlyProcesses
  <2>8. CASE WorkerSchedule(q)
    <3>1. worker'[q].task = worker[q].task /\ worker'[q].pc = "finish"
      BY <2>0, <2>8 DEF WorkerSchedule, WorkerRecord
    <3> QED
      BY <2>1, <2>8, <3>1, ScheduleProcess DEF WorkerSchedule, WorkerShape, OnlyProcesses
  <2>9. CASE WorkerFinish(q)
    BY <1>2, <2>0, <2>1, <2>9 DEF WorkerFinish, WorkerIdle, NoTask
  <2> QED
    BY <1>3, <2>2, <2>4, <2>5, <2>6, <2>7, <2>8, <2>9
    DEF WorkerStep, WorkerLookup, WorkerStatus, WorkerUnsuspend, WorkerEnqueue, OnlyProcesses
<1>4. ASSUME NEW q \in QueueId, NEW p, worker' = Cancel(q, p) \/ worker' = CancelAny(q),
             UNCHANGED tasks, loop'.op = loop.op
      PROVE  OnlyProcesses'
  <2>1. NoResumeTasks'
    BY <1>2, <1>4
  <2> QED
    BY <1>4, <2>1, CancelType DEF OnlyProcesses
<1>5. ASSUME LoopStep
      PROVE  OnlyProcesses'
  <2>0. loop \in LoopRecord
    BY DEF TypeOK
  <2>1. CASE LoopCancel \/ LoopStopCancel
    <3>1. loop.q \in QueueId /\ loop'.op = loop.op
      BY <2>0, <2>1 DEF LoopCancel, LoopStopCancel, LoopGoto, LoopShape, LoopRecord
    <3> QED
      BY <1>4, <2>1, <3>1 DEF LoopCancel, LoopStopCancel, queueVars
  <2>2. CASE LoopSchedule
    <3>1. loop'.op = loop.op \/ loop' = LoopIdle
      BY <2>0, <2>2 DEF LoopSchedule, LoopRecord, LoopShape
    <3> QED
      BY <1>1, <2>2, <3>1, ScheduleProcess DEF LoopSchedule, LoopShape, queueVars, OnlyProcesses
  <2>3. CASE LoopMove \/ LoopEnqueue
    BY <1>1, <2>3, EnqueueProcess DEF LoopMove, LoopEnqueue, LoopShape, OnlyProcesses
  <2>4. CASE LoopResumeAll
    <3>1. NoResumeTasks'
      <4>1. loop.q \in QueueId /\ suspended[loop.q] \subseteq PR
        BY <2>4 DEF LoopResumeAll, LoopShape, TypeOK
      <4> QED
        BY <1>2, <2>4, <4>1, ScheduleProcess DEF LoopResumeAll, OnlyProcesses
    <3> QED
      BY <1>1, <2>4, <3>1 DEF LoopResumeAll
  <2>5. CASE LoopProbe \/ LoopCheck
    BY <2>5 DEF LoopProbe, LoopCheck, LoopShape, OnlyProcesses
  <2>6. CASE LoopNext
    BY <1>2, <2>6, LoopNextEffect DEF LoopNext, OnlyProcesses, queueVars
  <2>7. CASE LoopExit
    BY <1>2, <2>7 DEF LoopExit, StartOperation, LoopIdle, OnlyProcesses
  <2>8. CASE LoopRemove \/ LoopCheckEmpty \/ LoopClose \/ LoopDrained \/ LoopTrigger
               \/ LoopResume \/ LoopUnsuspend \/ LoopDiscard
    <3>1. UNCHANGED <<tasks, worker>>
      BY <2>8
      DEF LoopRemove, LoopCheckEmpty, LoopClose, LoopDrained, LoopTrigger, LoopResume,
          LoopUnsuspend, LoopDiscard, queueVars
    <3>2. loop'.op = loop.op \/ loop' = LoopIdle
      BY <2>0, <2>8
      DEF LoopRemove, LoopCheckEmpty, LoopClose, LoopDrained, LoopTrigger, LoopResume,
          LoopUnsuspend, LoopDiscard, LoopGoto, LoopRecord, LoopShape
    <3> QED
      BY <1>1, <1>2, <3>1, <3>2
  <2> QED
    BY <1>5, <2>1, <2>2, <2>3, <2>4, <2>5, <2>6, <2>7, <2>8 DEF LoopStep
<1>6. ASSUME LoopEvent \/ PeriodicTrigger
      PROVE  OnlyProcesses'
  <2>1. ASSUME NEW b \in Branch, NEW p \in PR, OnEnqueue(b, p)
        PROVE  OnlyProcesses'
    BY <1>1, <2>1, EnqueueProcess DEF OnEnqueue, OnlyProcesses
  <2>2. ASSUME NEW op \in {"dequeue", "trigger", "push", "tick"}, NEW pc, NEW b, NEW p,
               NEW to, NEW todo, StartOperation(op, pc, b, p, to, todo)
        PROVE  OnlyProcesses'
    BY <1>2, <2>2 DEF StartOperation, LoopIdle, OnlyProcesses
  <2>3. CASE CloseShutdownChan
    BY <1>0, <1>2, <2>3 DEF CloseShutdownChan
  <2> QED
    BY <1>6, <2>1, <2>2, <2>3
    DEF LoopEvent, PeriodicTrigger, OnDequeue, OnSynchronize, OnNegative, OnEdited, OnPositive,
        OnPush, OnTick, Receive
<1>7. ASSUME NEW h \in Handler, HandlerStep(h) \/ HandlerRequest(h)
      PROVE  OnlyProcesses'
  <2>1. CASE HandlerCancel(h)
    BY <1>4, <2>1 DEF HandlerCancel, HandlerShape
  <2>2. CASE HandlerSchedule(h)
    BY <1>0, <2>2, ScheduleProcess DEF HandlerSchedule, HandlerShape, OnlyProcesses
  <2>3. CASE ~(HandlerCancel(h) \/ HandlerSchedule(h))
    BY <1>0, <1>2, <1>7, <2>3
    DEF HandlerStep, HandlerRequest, HandlerPause, HandlerUnpause, HandlerFirst, HandlerLookup
  <2> QED
    BY <2>1, <2>2, <2>3
<1>8. ASSUME NEW q \in QueueId, LookupDuringMapWrite(q)
      PROVE  OnlyProcesses'
  BY <1>0, <1>2, <1>8 DEF LookupDuringMapWrite
<1>9. CASE UNCHANGED vars
  BY <1>0, <1>2, <1>9 DEF vars
<1> QED
  BY <1>3, <1>5, <1>6, <1>7, <1>8, <1>9 DEF Next, Ended

-----------------------------------------------------------------------------
(* Who enters and leaves the queues.                                       *)

\* _dequeueActive() removes p from the active PRs of q.
LEMMA DequeueMembers ==
    ASSUME TypeOK, Disjoint, NEW q \in QueueId, NEW p, NEW n, Dequeue(q, p, n)
    PROVE  /\ \A r \in QueueId \ {q} : Members(r)' = Members(r) /\ suspended'[r] = suspended[r]
           /\ Members(q)' = Members(q) \ {p}
           /\ suspended'[q] \subseteq suspended[q]
<1>1. CASE InActive(q, p)
  <2>1. active' = [active EXCEPT ![q] = @ \ {p}] /\ suspended' = suspended
    BY <1>1 DEF Dequeue, DequeueActive
  <2>2. p \notin suspended[q]
    BY <1>1 DEF InActive
  <2> QED
    BY <2>1, <2>2 DEF Members, TypeOK
<1>2. CASE ~InActive(q, p)
  <2>1. active' = active /\ suspended' = [suspended EXCEPT ![q] = @ \ {p}]
    BY <1>2 DEF Dequeue
  <2>2. p \notin active[q]
    BY <1>2 DEF InActive, Disjoint
  <2> QED
    BY <2>1, <2>2 DEF Members, TypeOK
<1> QED
  BY <1>1, <1>2

\* queue.Enqueue() adds p to q.
LEMMA EnqueueMembers ==
    ASSUME TypeOK, NEW q \in QueueId, NEW p \in PR, Enqueue(q, p), UNCHANGED suspended
    PROVE  /\ \A r \in QueueId \ {q} : Members(r)' = Members(r)
           /\ Members(q)' = Members(q) \union {p}
<1>1. CASE p \in Members(q)
  BY <1>1 DEF Enqueue, EnqueueActive, Members
<1>2. CASE p \notin Members(q)
  <2>1. active' = [active EXCEPT ![q] = @ \union {p}]
    BY <1>2 DEF Enqueue, EnqueueActive, Members
  <2> QED
    BY <2>1 DEF Members, TypeOK
<1> QED
  BY <1>1, <1>2

\* Coordinator.Enqueue() adds p to the queue of b, which exists afterwards and is its own.
LEMMA CoordinatorEnqueueMembers ==
    ASSUME TypeOK, OneBranchEach, NEW b \in Branch, NEW p \in PR, CoordinatorEnqueue(b, p)
    PROVE  /\ queues' \in [Branch -> QueueId \union {None}]
           /\ \A c, d \in Branch : queues'[c] = queues'[d] /\ queues'[c] # None => c = d
           /\ \A c \in Branch \ {b} : /\ queues'[c] = queues[c]
                                      /\ queues[c] # None =>
                                             Members(queues[c])' = Members(queues[c])
           /\ queues'[b] # None
           /\ Members(queues[b])' =
                  IF queues[b] # None THEN Members(queues[b]) \union {p} ELSE {p}
           /\ \A q \in QueueId : worker[q].pc # "idle" => suspended'[q] = suspended[q]
<1>1. CASE queues[b] # None
  <2>1. PICK q \in QueueId : /\ queues[b] = q
                             /\ Enqueue(q, p)
                             /\ UNCHANGED <<queues, suspended>>
    BY <1>1 DEF CoordinatorEnqueue
  <2>2. \A c \in Branch \ {b} : queues[c] # q
    BY <2>1, <1>1 DEF OneBranchEach
  <2>3. queues' \in [Branch -> QueueId \union {None}]
    BY <2>1 DEF TypeOK
  <2>4. \A c \in Branch \ {b} : queues[c] # None => Members(queues[c])' = Members(queues[c])
    <3>1. \A c \in Branch \ {b} : queues[c] # None => queues[c] \in QueueId \ {q}
      BY <2>2 DEF TypeOK
    <3>2. \A r \in QueueId \ {q} : active'[r] = active[r] /\ suspended'[r] = suspended[r]
      BY <2>1 DEF Enqueue, EnqueueActive, TypeOK
    <3> QED
      BY <2>1, <3>1, <3>2 DEF Members
  <2>5. Members(queues[b])' = Members(queues[b]) \union {p}
    <3>1. Members(q)' = Members(q) \union {p}
      BY <2>1, EnqueueMembers
    <3> QED
      BY <2>1, <3>1 DEF Members
  <2> QED
    BY <1>1, <2>1, <2>3, <2>4, <2>5, EnqueueMembers DEF OneBranchEach
<1>2. CASE queues[b] = None
  <2>1. PICK q \in QueueId : /\ Unreachable(q)
                             /\ queues' = [queues EXCEPT ![b] = q]
                             /\ active' = [active EXCEPT ![q] = {p}]
                             /\ suspended' = [suspended EXCEPT ![q] = {}]
    BY <1>2, QueueAssumption DEF CoordinatorEnqueue
  <2>2. \A c \in Branch : queues[c] # q
    BY <2>1 DEF Unreachable
  <2>3. q # None /\ worker[q].pc = "idle"
    BY <2>1, QueueAssumption DEF Unreachable
  <2>4. \A r \in QueueId \ {q} : Members(r)' = Members(r) /\ suspended'[r] = suspended[r]
    BY <2>1 DEF Members, TypeOK
  <2>5. Members(q)' = {p}
    BY <2>1 DEF Members, TypeOK
  <2>6. queues'[b] = q /\ \A c \in Branch \ {b} : queues'[c] = queues[c]
    BY <2>1 DEF TypeOK
  <2>7. queues' \in [Branch -> QueueId \union {None}]
    BY <2>1 DEF TypeOK
  <2>8. \A c \in Branch \ {b} : queues[c] # None => Members(queues[c])' = Members(queues[c])
    <3>1. \A c \in Branch \ {b} : queues[c] # None => queues[c] \in QueueId \ {q}
      BY <2>2 DEF TypeOK
    <3> QED
      BY <2>4, <2>6, <3>1 DEF Members
  <2>9. Members(queues[b])' = {p}
    BY <2>5, <2>6 DEF Members
  <2>10. \A c, d \in Branch : queues'[c] = queues'[d] /\ queues'[c] # None => c = d
    BY <2>2, <2>6 DEF OneBranchEach
  <2> QED
    BY <1>2, <2>3, <2>4, <2>6, <2>7, <2>8, <2>9, <2>10
<1> QED
  BY <1>1, <1>2

\* The worker of q only moves PRs inside its queue, or removes the one it works on, which
\* is not wanted anymore.
LEMMA WorkerMembers ==
    ASSUME Shape, Lists, OnlyProcesses, NEW q \in QueueId, WorkerStep(q)
    PROVE  /\ UNCHANGED <<queues, loop>>
           /\ \A r \in QueueId \ {q} : /\ Members(r)' = Members(r)
                                       /\ suspended'[r] = suspended[r]
                                       /\ worker'[r] = worker[r]
           /\ \/ UNCHANGED wanted /\ Members(q)' = Members(q)
              \/ /\ worker[q].pc = "dequeue"
                 /\ Members(q)' = Members(q) \ {worker[q].task.pr}
                 /\ wanted' = [b \in Branch |-> IF queues[b] = q
                                                THEN wanted[b] \ {worker[q].task.pr}
                                                ELSE wanted[b]]
           /\ worker'[q].pc \in {"evaluate", "suspend", "dequeue"} =>
                  /\ suspended'[q] = suspended[q]
                  /\ worker'[q].task = worker[q].task
                  /\ \/ worker[q].pc = "evaluate"
                     \/ worker[q].pc = "first" /\ head[q] = worker[q].task.pr
<1> USE DEF Shape
<1>0. worker[q] \in WorkerRecord /\ worker \in [QueueId -> WorkerRecord]
  BY DEF TypeOK
<1>1. UNCHANGED loop /\ \A r \in QueueId \ {q} : worker'[r] = worker[r]
  BY WorkerEffect
<1>2. CASE WorkerSuspend(q)
  <2>1. worker'[q].pc = "finish" /\ UNCHANGED <<queues, wanted>>
    BY <1>0, <1>2 DEF WorkerSuspend, WorkerRecord
  <2> DEFINE p == worker[q].task.pr
  <2>2. CASE p \in active[q]
    <3>1. /\ active' = [active EXCEPT ![q] = @ \ {p}]
          /\ suspended' = [suspended EXCEPT ![q] = @ \union {p}]
      BY <1>2, <2>2 DEF WorkerSuspend, DequeueActive
    <3>2. Members(q)' = Members(q)
      BY <2>2, <3>1 DEF Members, TypeOK
    <3> QED
      BY <1>1, <2>1, <3>1, <3>2 DEF Members, TypeOK
  <2>3. CASE p \notin active[q]
    BY <1>1, <1>2, <2>1, <2>3 DEF WorkerSuspend, Members
  <2> QED
    BY <2>2, <2>3
<1>3. CASE WorkerDequeue(q)
  <2>1. worker'[q].pc \in {"cancel", "finish"} /\ UNCHANGED queues
    BY <1>0, <1>3 DEF WorkerDequeue, WorkerRecord
  <2> QED
    BY <1>1, <1>3, <2>1, DequeueMembers DEF WorkerDequeue, Lists
<1>4. ASSUME UNCHANGED <<queues, active, suspended, wanted>>,
             worker'[q].pc \in {"evaluate", "suspend", "dequeue"} =>
                  /\ worker'[q].task = worker[q].task
                  /\ \/ worker[q].pc = "evaluate"
                     \/ worker[q].pc = "first" /\ head[q] = worker[q].task.pr
      PROVE  /\ \A r \in QueueId : Members(r)' = Members(r) /\ suspended'[r] = suspended[r]
             /\ \A r \in QueueId \ {q} : worker'[r] = worker[r]
             /\ UNCHANGED <<queues, loop, wanted>>
             /\ worker'[q].pc \in {"evaluate", "suspend", "dequeue"} =>
                  /\ worker'[q].task = worker[q].task
                  /\ \/ worker[q].pc = "evaluate"
                     \/ worker[q].pc = "first" /\ head[q] = worker[q].task.pr
  BY <1>1, <1>4 DEF Members
<1>5. CASE WorkerCheckFirst(q)
  BY <1>0, <1>4, <1>5 DEF WorkerCheckFirst, WorkerGoto, WorkerRecord
<1>6. CASE WorkerEvaluate(q)
  BY <1>0, <1>4, <1>6 DEF WorkerEvaluate, Evaluating, WorkerGoto, WorkerRecord, queueVars
<1>7. CASE WorkerSetExecuting(q) \/ WorkerCheckPaused(q) \/ WorkerTake(q) \/ WorkerFinish(q)
             \/ WorkerCancel(q) \/ WorkerSchedule(q)
  <2>1. worker'[q].pc \notin {"evaluate", "suspend", "dequeue"}
    <3>1. CASE WorkerTake(q)
      BY <1>0, <3>1 DEF WorkerTake, WorkerIdle
    <3>4. CASE WorkerFinish(q)
      BY <1>0, <3>4 DEF WorkerFinish, WorkerIdle
    <3>2. CASE WorkerSetExecuting(q) \/ WorkerCheckPaused(q)
      BY <1>0, <3>2 DEF WorkerSetExecuting, WorkerCheckPaused, WorkerGoto, WorkerRecord
    <3>3. CASE WorkerCancel(q) \/ WorkerSchedule(q)
      BY <1>0, <3>3 DEF WorkerCancel, WorkerSchedule, WorkerRecord
    <3> QED
      BY <1>7, <3>1, <3>2, <3>3, <3>4
  <2>2. UNCHANGED <<queues, active, suspended, wanted>>
    BY <1>7
    DEF WorkerSetExecuting, WorkerCheckPaused, WorkerTake, WorkerFinish, WorkerCancel,
        WorkerSchedule, queueVars
  <2> QED
    BY <1>4, <2>1, <2>2
<1> QED
  BY <1>2, <1>3, <1>5, <1>6, <1>7
  DEF WorkerStep, WorkerLookup, WorkerStatus, WorkerUnsuspend, WorkerEnqueue, OnlyProcesses

\* The event loop moves on and leaves the queues alone.
LEMMA LoopMovesOn ==
    ASSUME Shape, WantedInvariant, UNCHANGED <<queues, active, suspended, wanted>>,
           \A q \in QueueId : worker'[q].task = worker[q].task /\ worker'[q].pc = worker[q].pc,
           loop.pc # "enqueue", loop'.pc # "enqueue",
           loop'.pc \notin {"idle", "next", "move", "stopped"} => loop'.q = queues[loop'.branch],
           loop'.pc \in {"discard", "stopCancel"} => loop'.op = "stop",
           loop'.op = "stop" =>
               loop'.pc \in {"next", "discard", "stopCancel", "close", "drain"},
           loop'.pc \in {"close", "drain"} /\ loop'.op # "stop" => Members(loop'.q) = {},
           loop.op = "stop" \/ loop.pc = "stopped" => loop'.op = "stop" \/ loop'.pc = "stopped"
    PROVE  (OneBranchEach /\ ClosesEmpty /\ BetweenLists /\ WantedAreMembers)'
<1> USE DEF WantedInvariant
<1>1. OneBranchEach'
  BY DEF OneBranchEach
<1>2. ClosesEmpty'
  BY DEF ClosesEmpty, Members
<1>3. BetweenLists'
  BY DEF BetweenLists
<1>4. WantedAreMembers'
  BY DEF WantedAreMembers, Members
<1> QED
  BY <1>1, <1>2, <1>3, <1>4

\* A step of a worker keeps what the queues and the branches agree on.
LEMMA WorkerKeepsWanted ==
    ASSUME Shape, Lists, WantedInvariant, NEW q \in QueueId, WorkerStep(q)
    PROVE  (OneBranchEach /\ ClosesEmpty /\ BetweenLists /\ WantedAreMembers)'
<1> USE DEF WantedInvariant
<1> DEFINE p == worker[q].task.pr
<1>1. UNCHANGED <<queues, loop>>
  BY WorkerMembers
<1>2. /\ \A r \in QueueId : Members(r)' \subseteq Members(r)
      /\ \A r \in QueueId \ {q} : Members(r)' = Members(r)
      /\ Members(q) \ {p} \subseteq Members(q)'
  BY WorkerMembers
<1>3. loop.pc = "enqueue" => loop.q \in QueueId /\ loop.branch \in Branch
  BY DEF Shape, LoopShape
<1>4. worker'[q].pc \in {"evaluate", "suspend", "dequeue"} =>
          /\ worker'[q].task.pr \notin suspended'[q]
          /\ loop.pc = "enqueue" /\ loop.q = q => worker'[q].task.pr # loop.pr
  <2>1. CASE worker[q].pc = "evaluate"
    BY <2>1, WorkerMembers DEF BetweenLists
  <2>2. CASE worker[q].pc = "first" /\ head[q] = p
    <3>1. p \in PR
      BY <2>2 DEF Shape, WorkerShape, Task
    <3>2. p \in active[q]
      BY <2>2, <3>1, QueueAssumption DEF Lists, HeadIsActive
    <3>3. p \notin suspended[q]
      BY <3>2 DEF Lists, Disjoint
    <3>4. loop.pc = "enqueue" /\ loop.q = q => p # loop.pr
      BY <3>2 DEF BetweenLists, Members
    <3> QED
      BY <3>3, <3>4, WorkerMembers
  <2> QED
    BY <2>1, <2>2, WorkerMembers
<1>5. OneBranchEach'
  BY <1>1 DEF OneBranchEach
<1>6. ClosesEmpty'
  <2>1. loop.pc \in {"close", "drain"} => loop.q \in QueueId
    BY DEF Shape, LoopShape
  <2>2. \A r \in QueueId : Members(r) = {} => Members(r)' = {}
    BY <1>2
  <2>3. Members(loop.q)' = {} \/ ~(loop.pc \in {"close", "drain"} /\ loop.op # "stop")
    BY <1>1, <2>1, <2>2 DEF ClosesEmpty, Members
  <2> QED
    BY <1>1, <2>3 DEF ClosesEmpty
<1>7. BetweenLists'
  <2>1. \A r \in QueueId \ {q} : worker'[r] = worker[r] /\ suspended'[r] = suspended[r]
    BY WorkerMembers
  <2>2. ASSUME loop.pc = "enqueue"
        PROVE  loop.pr \notin Members(loop.q)' /\ loop.pr \in wanted'[loop.branch]
    <3>1. loop.pr \notin Members(loop.q)' /\ loop.pr \in wanted[loop.branch]
      <4>1. \A r \in QueueId : Members(r)' \subseteq Members(r)
        BY <1>2
      <4> QED
        BY <1>1, <1>3, <2>2, <4>1 DEF BetweenLists, Members
    <3>2. CASE UNCHANGED wanted
      BY <3>1, <3>2
    <3>3. CASE /\ worker[q].pc = "dequeue"
               /\ wanted' = [b \in Branch |-> IF queues[b] = q THEN wanted[b] \ {p} ELSE wanted[b]]
      <4>1. loop.q = q => loop.pr # p
        BY <2>2, <3>3 DEF BetweenLists
      <4>2. queues[loop.branch] = loop.q
        BY <2>2 DEF OneBranchEach
      <4> QED
        BY <1>3, <2>2, <3>1, <3>3, <4>1, <4>2
    <3> QED
      BY <3>2, <3>3, WorkerMembers
  <2> QED
    BY <1>1, <1>4, <2>1, <2>2 DEF BetweenLists, Members
<1>8. WantedAreMembers'
  <2>1. ASSUME NEW b \in Branch, queues[b] # None
        PROVE  Members(queues[b])' \subseteq wanted'[b]
    <3>1. queues[b] \in QueueId /\ queues' = queues
      BY <1>1, <2>1 DEF Shape, TypeOK
    <3>2. Members(queues[b]) \subseteq wanted[b]
      BY <2>1 DEF WantedAreMembers
    <3>3. \A r \in QueueId : Members(r)' \subseteq Members(r)
      BY <1>2
    <3>4. Members(queues[b])' \subseteq wanted[b]
      BY <3>1, <3>2, <3>3 DEF Members
    <3>5. CASE UNCHANGED wanted
      BY <3>4, <3>5
    <3>6. CASE /\ Members(q)' = Members(q) \ {p}
               /\ wanted' = [c \in Branch |-> IF queues[c] = q THEN wanted[c] \ {p} ELSE wanted[c]]
      <4>1. queues[b] = q => p \notin Members(queues[b])'
        BY <3>1, <3>6 DEF Members
      <4> QED
        BY <3>4, <3>6, <4>1
    <3> QED
      BY <3>5, <3>6, WorkerMembers
  <2>2. ASSUME loop.op # "stop" /\ loop.pc # "stopped", NEW b \in Branch, NEW x \in wanted'[b]
        PROVE  /\ queues[b] # None
               /\ \/ x \in Members(queues[b])'
                  \/ loop.pc = "enqueue" /\ loop.branch = b /\ loop.pr = x
    <3>1. x \in wanted[b] /\ (wanted'[b] = wanted[b] \/ queues[b] # q \/ x # p)
      BY WorkerMembers, <2>2
    <3>2. /\ queues[b] # None
          /\ x \in Members(queues[b]) \/ (loop.pc = "enqueue" /\ loop.branch = b /\ loop.pr = x)
      BY <2>2, <3>1 DEF WantedAreMembers
    <3>3. queues[b] \in QueueId /\ queues' = queues
      BY <1>1, <3>2 DEF Shape, TypeOK
    <3>4. CASE UNCHANGED wanted /\ Members(q)' = Members(q)
      <4>1. \A r \in QueueId : Members(r)' = Members(r)
        BY <1>2, <3>4
      <4> QED
        BY <3>2, <3>3, <4>1 DEF Members
    <3>5. CASE wanted' = [c \in Branch |-> IF queues[c] = q THEN wanted[c] \ {p} ELSE wanted[c]]
      <4>1. queues[b] # q \/ x # p
        BY <2>2, <3>5
      <4>2. \A r \in QueueId : x \in Members(r) /\ (r # q \/ x # p) => x \in Members(r)'
        BY <1>2
      <4> QED
        BY <3>2, <3>3, <4>1, <4>2 DEF Members
    <3> QED
      BY <3>4, <3>5, WorkerMembers
  <2> QED
    BY <1>1, <2>1, <2>2 DEF WantedAreMembers, Members
<1> QED
  BY <1>5, <1>6, <1>7, <1>8

\* Enqueuing a PR for a branch keeps what the queues and the branches agree on.
LEMMA CoordinatorEnqueueKeepsWanted ==
    ASSUME Shape, WantedInvariant, NEW b \in Branch, NEW p \in PR, CoordinatorEnqueue(b, p),
           wanted' = [wanted EXCEPT ![b] = @ \union {p}], UNCHANGED worker,
           loop.pc \in {"idle", "move"}, loop'.pc = "idle", loop'.op # "stop"
    PROVE  (OneBranchEach /\ ClosesEmpty /\ BetweenLists /\ WantedAreMembers)'
<1> USE DEF WantedInvariant
<1>0. wanted \in [Branch -> SUBSET PR] /\ loop.op # "stop"
  BY DEF Shape, TypeOK, ClosesEmpty
<1>1. /\ queues' \in [Branch -> QueueId \union {None}]
      /\ \A c, d \in Branch : queues'[c] = queues'[d] /\ queues'[c] # None => c = d
      /\ \A c \in Branch \ {b} : /\ queues'[c] = queues[c]
                                 /\ queues[c] # None =>
                                        Members(queues[c])' = Members(queues[c])
      /\ queues'[b] # None
      /\ Members(queues[b])' =
             IF queues[b] # None THEN Members(queues[b]) \union {p} ELSE {p}
      /\ \A q \in QueueId : worker[q].pc # "idle" => suspended'[q] = suspended[q]
  BY CoordinatorEnqueueMembers DEF Shape
<1>2. OneBranchEach'
  BY <1>1 DEF OneBranchEach
<1>3. ClosesEmpty'
  BY DEF ClosesEmpty
<1>4. BetweenLists'
  BY <1>1 DEF BetweenLists
<1>5. WantedAreMembers'
  <2>1. wanted'[b] = wanted[b] \union {p} /\ \A c \in Branch \ {b} : wanted'[c] = wanted[c]
    BY <1>0
  <2>2. \A c \in Branch : /\ queues[c] # None => Members(queues[c]) \subseteq wanted[c]
                          /\ \A x \in wanted[c] : queues[c] # None /\ x \in Members(queues[c])
    BY <1>0 DEF WantedAreMembers
  <2>3. \A c \in Branch \ {b} :
            /\ queues'[c] # None => Members(queues[c])' \subseteq wanted'[c]
            /\ \A x \in wanted'[c] : queues'[c] # None /\ x \in Members(queues[c])'
    BY <1>1, <2>1, <2>2
  <2>4. /\ Members(queues[b])' \subseteq wanted'[b]
        /\ \A x \in wanted'[b] : queues'[b] # None /\ x \in Members(queues[b])'
    BY <1>1, <2>1, <2>2
  <2> QED
    BY <2>3, <2>4 DEF WantedAreMembers
<1> QED
  BY <1>2, <1>3, <1>4, <1>5

\* The event loop changes the queue that it works on, and whoever is in it is wanted.
LEMMA LoopChangesItsQueue ==
    ASSUME Shape, WantedInvariant, UNCHANGED <<queues, worker>>,
           loop.pc \notin {"idle", "next", "move", "stopped"},
           \A r \in QueueId \ {loop.q} : Members(r)' = Members(r) /\ suspended'[r] = suspended[r],
           suspended'[loop.q] \subseteq suspended[loop.q],
           \A c \in Branch \ {loop.branch} : wanted'[c] = wanted[c],
           NEW M, M = active'[loop.q] \union suspended'[loop.q],
           M \subseteq wanted'[loop.branch],
           loop.op # "stop" => wanted'[loop.branch] \subseteq M,
           loop'.pc \in {"idle", "cancel", "empty", "stopCancel"},
           loop'.pc = "stopCancel" <=> loop'.op = "stop",
           loop.op = "stop" => loop'.op = "stop",
           loop'.pc # "idle" => loop'.q = loop.q /\ loop'.branch = loop.branch
    PROVE  (OneBranchEach /\ ClosesEmpty /\ BetweenLists /\ WantedAreMembers)'
<1> USE DEF WantedInvariant
<1>0. PICK q, b : q = loop.q /\ b = loop.branch
  OBVIOUS
<1>1. /\ q \in QueueId /\ b \in Branch /\ q = queues[b] /\ q # None
      /\ \A c \in Branch \ {b} : queues[c] # q
  BY <1>0, QueueAssumption DEF Shape, LoopShape, OneBranchEach
<1>2. OneBranchEach'
  BY <1>0, <1>1 DEF OneBranchEach
<1>3. ClosesEmpty'
  BY DEF ClosesEmpty
<1>4. BetweenLists'
  <2>1. \A r \in QueueId : suspended'[r] \subseteq suspended[r]
    OBVIOUS
  <2> QED
    BY <2>1 DEF BetweenLists
<1>5. \A c \in Branch : /\ queues[c] # None => Members(queues[c])' \subseteq wanted'[c]
                        /\ loop.op # "stop" =>
                               \A x \in wanted'[c] : queues[c] # None /\ x \in Members(queues[c])'
  <2>1. Members(queues[b])' = M
    BY <1>0, <1>1 DEF Members
  <2>2. /\ queues[b] # None => Members(queues[b])' \subseteq wanted'[b]
        /\ loop.op # "stop" =>
               \A x \in wanted'[b] : queues[b] # None /\ x \in Members(queues[b])'
    BY <1>0, <1>1, <2>1
  <2>3. ASSUME NEW c \in Branch \ {b}, queues[c] # None
        PROVE  Members(queues[c])' = Members(queues[c])
    <3>1. queues[c] \in QueueId \ {q}
      BY <1>1, <2>3 DEF Shape, TypeOK
    <3> QED
      BY <1>0, <3>1 DEF Members
  <2>4. \A c \in Branch \ {b} :
            /\ queues[c] # None => Members(queues[c]) \subseteq wanted[c]
            /\ loop.op # "stop" =>
                   \A x \in wanted[c] : queues[c] # None /\ x \in Members(queues[c])
    BY <1>0 DEF WantedAreMembers
  <2>5. \A c \in Branch \ {b} : wanted'[c] = wanted[c]
    BY <1>0
  <2>6. \A c \in Branch \ {b} :
            /\ queues[c] # None => Members(queues[c])' \subseteq wanted'[c]
            /\ loop.op # "stop" =>
                   \A x \in wanted'[c] : queues[c] # None /\ x \in Members(queues[c])'
    BY <2>3, <2>4, <2>5
  <2> QED
    BY <2>2, <2>6
<1>6. WantedAreMembers'
  BY <1>5 DEF WantedAreMembers, Members
<1> QED
  BY <1>2, <1>3, <1>4, <1>6

\* So does a step of the event loop.
LEMMA LoopKeepsWanted ==
    ASSUME Shape, Lists, WantedInvariant, LoopStep
    PROVE  (OneBranchEach /\ ClosesEmpty /\ BetweenLists /\ WantedAreMembers)'
<1> USE DEF WantedInvariant
<1> DEFINE q == loop.q
           b == loop.branch
           p == loop.pr
<1>0. loop \in LoopRecord
  BY DEF Shape, TypeOK
<1>1. loop.pc \notin {"idle", "next", "move", "stopped"} =>
          /\ q \in QueueId /\ b \in Branch /\ q = queues[b] /\ q # None
          /\ \A c \in Branch \ {b} : queues[c] # q
  BY QueueAssumption DEF Shape, LoopShape, OneBranchEach
<1>2. ASSUME loop'.q = q, loop'.branch = b, loop'.op = loop.op,
             UNCHANGED <<queues, active, suspended, wanted>>,
             \A r \in QueueId : worker'[r].task = worker[r].task /\ worker'[r].pc = worker[r].pc,
             loop.pc \notin {"idle", "next", "move", "stopped", "enqueue"},
             loop'.pc \notin {"idle", "enqueue", "stopped", "discard"},
             loop'.pc = "stopCancel" => loop.op = "stop",
             loop.op = "stop" => loop'.pc \in {"close", "drain"},
             loop'.pc \in {"close", "drain"} /\ loop.op # "stop" => Members(q) = {}
      PROVE  (OneBranchEach /\ ClosesEmpty /\ BetweenLists /\ WantedAreMembers)'
  <2>1. loop'.pc \in {"close", "drain"} /\ loop.op # "stop" => Members(loop'.q) = {}
    BY <1>2
  <2> QED
    BY <1>1, <1>2, <2>1, LoopMovesOn
<1>3. ASSUME loop' = LoopIdle, loop.op # "stop", loop.pc \notin {"stopped", "enqueue"},
             UNCHANGED <<queues, active, suspended, wanted, worker>>
      PROVE  (OneBranchEach /\ ClosesEmpty /\ BetweenLists /\ WantedAreMembers)'
  BY <1>3, LoopMovesOn DEF LoopIdle
<1>4. CASE LoopNext
  <2>1. UNCHANGED <<queues, active, suspended, wanted, worker>> /\ loop.pc = "next"
    BY <1>4 DEF LoopNext, queueVars
  <2> QED
    BY <1>4, <2>1, LoopNextEffect, LoopMovesOn
<1>5. CASE LoopCancel
  <2>1. worker' = Cancel(q, p) /\ loop.pc = "cancel"
    BY <1>5 DEF LoopCancel
  <2>2. \A r \in QueueId : worker'[r].task = worker[r].task /\ worker'[r].pc = worker[r].pc
    BY <1>1, <2>1, CancelType DEF Shape
  <2>3. PICK pc \in {"empty", "schedule"} : loop' = [loop EXCEPT !.pc = pc]
    BY <1>5 DEF LoopCancel, LoopGoto
  <2>4. loop'.pc = pc /\ loop'.q = q /\ loop'.branch = b /\ loop'.op = loop.op
    BY <1>0, <2>3 DEF LoopRecord
  <2>5. loop.op # "stop"
    BY <2>1 DEF ClosesEmpty
  <2> QED
    BY <1>2, <1>5, <2>1, <2>2, <2>3, <2>4, <2>5 DEF LoopCancel, queueVars
<1>6. CASE LoopSchedule
  <2>1. /\ loop.pc = "schedule" /\ loop.op \in {"dequeue", "push", "tick", "trigger"}
        /\ UNCHANGED <<queues, active, suspended, wanted, worker>>
    BY <1>6 DEF LoopSchedule, queueVars, Shape, LoopShape
  <2>2. \/ loop' = LoopIdle
        \/ \E pc \in {"empty", "resumeAll", "next"} :
               loop' = [loop EXCEPT !.pc = pc, !.next = None]
    BY <1>6, <2>1 DEF LoopSchedule
  <2>3. ASSUME NEW pc \in {"empty", "resumeAll", "next"},
               loop' = [loop EXCEPT !.pc = pc, !.next = None]
        PROVE  loop'.pc = pc /\ loop'.q = q /\ loop'.branch = b /\ loop'.op = loop.op
    BY <1>0, <2>3 DEF LoopRecord
  <2> QED
    BY <1>2, <1>3, <2>1, <2>2, <2>3
<1>7. CASE LoopCheckEmpty
  <2>1. /\ loop.pc = "empty" /\ loop.op # "stop"
        /\ UNCHANGED <<queues, active, suspended, wanted, worker>>
    BY <1>7 DEF LoopCheckEmpty, queueVars, ClosesEmpty
  <2>2. \/ loop' = LoopIdle
        \/ \E pc \in {"close", "trigger", "move"} :
               /\ loop' = [loop EXCEPT !.pc = pc]
               /\ pc = "close" => Members(q) = {}
    BY <1>7, <2>1 DEF LoopCheckEmpty, IsEmpty, Members
  <2>3. ASSUME NEW pc \in {"close", "trigger", "move"}, loop' = [loop EXCEPT !.pc = pc]
        PROVE  loop'.pc = pc /\ loop'.q = q /\ loop'.branch = b /\ loop'.op = loop.op
    BY <1>0, <2>3 DEF LoopRecord
  <2> QED
    BY <1>2, <1>3, <2>1, <2>2, <2>3
<1>8. CASE LoopClose
  <2>1. /\ loop.pc = "close" /\ loop' = [loop EXCEPT !.pc = "drain"]
        /\ UNCHANGED <<queues, active, suspended, wanted, worker>>
    BY <1>8 DEF LoopClose, LoopGoto
  <2>2. loop'.pc = "drain" /\ loop'.q = q /\ loop'.branch = b /\ loop'.op = loop.op
    BY <1>0, <2>1 DEF LoopRecord
  <2>3. loop.op # "stop" => Members(q) = {}
    BY <2>1 DEF ClosesEmpty
  <2> QED
    BY <1>2, <2>1, <2>2, <2>3
<1>9. CASE LoopTrigger
  <2>1. /\ loop.pc = "trigger" /\ loop.op \in {"push", "tick", "trigger"}
        /\ UNCHANGED <<queues, active, suspended, wanted, worker>>
    BY <1>9 DEF LoopTrigger, queueVars, Shape, LoopShape
  <2>2. \/ loop' = LoopIdle
        \/ /\ loop'.pc \in {"schedule", "resumeAll", "next"}
           /\ loop'.q = q /\ loop'.branch = b /\ loop'.op = loop.op
    <3>1. CASE head[q] # None
      <4>1. loop' = [loop EXCEPT !.pc = "schedule", !.next = head[q]]
        BY <1>9, <3>1 DEF LoopTrigger
      <4> QED
        BY <1>0, <4>1 DEF LoopRecord
    <3>2. CASE head[q] = None
      <4>1. \/ loop' = LoopIdle
            \/ \E pc \in {"resumeAll", "next"} : loop' = [loop EXCEPT !.pc = pc]
        BY <1>9, <2>1, <3>2 DEF LoopTrigger
      <4> QED
        BY <1>0, <4>1 DEF LoopRecord
    <3> QED
      BY <3>1, <3>2
  <2> QED
    BY <1>2, <1>3, <2>1, <2>2
<1>10. CASE LoopResume
  <2>1. /\ loop.pc = "resume" /\ loop.op # "stop" /\ loop' = [loop EXCEPT !.pc = "unsuspend"]
        /\ UNCHANGED <<queues, active, suspended, wanted, worker>>
    BY <1>10 DEF LoopResume, LoopGoto, queueVars, ClosesEmpty
  <2>2. loop'.pc = "unsuspend" /\ loop'.q = q /\ loop'.branch = b /\ loop'.op = loop.op
    BY <1>0, <2>1 DEF LoopRecord
  <2> QED
    BY <1>2, <2>1, <2>2
<1>11. CASE LoopStopCancel
  <2>1. worker' = CancelAny(q) /\ loop.pc = "stopCancel" /\ loop' = [loop EXCEPT !.pc = "close"]
    BY <1>11 DEF LoopStopCancel, LoopGoto
  <2>2. \A r \in QueueId : worker'[r].task = worker[r].task /\ worker'[r].pc = worker[r].pc
    BY <1>1, <2>1, CancelType DEF Shape
  <2>3. /\ loop'.pc = "close" /\ loop'.q = q /\ loop'.branch = b /\ loop'.op = loop.op
        /\ loop.op = "stop"
    BY <1>0, <2>1 DEF LoopRecord, ClosesEmpty
  <2> QED
    BY <1>2, <1>11, <2>1, <2>2, <2>3 DEF LoopStopCancel, queueVars
<1>12. CASE LoopExit
  <2>1. /\ loop.pc = "idle" /\ loop'.pc = "next" /\ loop'.op = "stop"
        /\ UNCHANGED <<queues, active, suspended, wanted, worker>>
    BY <1>12 DEF LoopExit, StartOperation, LoopIdle, queueVars
  <2> QED
    BY <2>1, LoopMovesOn
<1>13. CASE LoopRemove
  <2>1. loop.pc = "remove" /\ loop.op = "dequeue" /\ UNCHANGED <<queues, worker>>
    BY <1>13 DEF LoopRemove, Shape, LoopShape
  <2>2. PICK n \in PR \union {None} :
          /\ Dequeue(q, p, n)
          /\ loop' = [loop EXCEPT !.pc = IF InActive(q, p) THEN "cancel" ELSE "empty",
                                 !.next = NewFirst(q, n),
                                 !.to = IF p \in active[q] \union suspended[q] THEN @ ELSE None]
    BY <1>13 DEF LoopRemove
  <2>3. /\ loop'.pc \in {"cancel", "empty"} /\ loop'.op = loop.op
        /\ loop'.q = q /\ loop'.branch = b
    BY <1>0, <2>2 DEF LoopRecord
  <2>4. /\ \A r \in QueueId \ {q} : Members(r)' = Members(r) /\ suspended'[r] = suspended[r]
        /\ active'[q] \union suspended'[q] = Members(q) \ {p}
        /\ suspended'[q] \subseteq suspended[q]
    BY <1>1, <2>1, <2>2, DequeueMembers DEF Shape, Lists, Members
  <2>5. wanted' = [wanted EXCEPT ![b] = @ \ {p}] /\ wanted \in [Branch -> SUBSET PR]
    BY <1>13 DEF LoopRemove, Shape, TypeOK
  <2>6. wanted[b] = Members(q)
    BY <1>1, <2>1 DEF WantedAreMembers
  <2> QED
    BY <1>1, <2>1, <2>3, <2>4, <2>5, <2>6, LoopChangesItsQueue
<1>14. CASE LoopUnsuspend
  <2>1. /\ loop.pc = "unsuspend" /\ loop.op # "stop" /\ UNCHANGED <<queues, active, wanted, worker>>
        /\ suspended' = [suspended EXCEPT ![q] = @ \ {p}]
    BY <1>14 DEF LoopUnsuspend, ClosesEmpty
  <2>2. CASE p \notin suspended[q]
    <3>1. suspended' = suspended /\ loop' = LoopIdle
      BY <1>14, <2>1, <2>2 DEF LoopUnsuspend, Shape, TypeOK
    <3> QED
      BY <1>3, <2>1, <3>1
  <2>3. CASE p \in suspended[q]
    <3>1. loop' = [loop EXCEPT !.pc = "enqueue"]
      BY <1>14, <2>3 DEF LoopUnsuspend
    <3>2. /\ loop'.pc = "enqueue" /\ loop'.op = loop.op /\ loop'.q = q /\ loop'.branch = b
          /\ loop'.pr = p
      BY <1>0, <3>1 DEF LoopRecord
    <3>3. /\ suspended'[q] = suspended[q] \ {p}
          /\ \A r \in QueueId \ {q} : suspended'[r] = suspended[r]
      BY <1>1, <2>1 DEF Shape, TypeOK
    <3>4. p \notin active[q] /\ p \in wanted[b]
      BY <1>1, <2>1, <2>3 DEF Lists, Disjoint, WantedAreMembers, Members
    <3>5. OneBranchEach'
      BY <1>1, <2>1, <3>2 DEF OneBranchEach
    <3>6. ClosesEmpty'
      BY <2>1, <3>2 DEF ClosesEmpty
    <3>7. BetweenLists'
      BY <1>1, <2>1, <2>3, <3>2, <3>3, <3>4 DEF BetweenLists, Members
    <3>8. WantedAreMembers'
      <4>1. \A c \in Branch : queues[c] # None => queues[c] \in QueueId
        BY DEF Shape, TypeOK
      <4>2. \A c \in Branch : /\ queues[c] # None => Members(queues[c])' \subseteq wanted[c]
                              /\ \A x \in wanted[c] :
                                    /\ queues[c] # None
                                    /\ x \in Members(queues[c])' \/ (c = b /\ x = p)
        BY <1>1, <2>1, <3>3, <4>1 DEF WantedAreMembers, Members
      <4> QED
        BY <2>1, <3>2, <4>2 DEF WantedAreMembers, Members
    <3> QED
      BY <3>5, <3>6, <3>7, <3>8
  <2> QED
    BY <2>2, <2>3
<1>15. CASE LoopEnqueue
  <2>1. /\ loop.pc = "enqueue" /\ loop.op # "stop" /\ p \in PR /\ Enqueue(q, p)
        /\ loop' = LoopIdle /\ UNCHANGED <<queues, worker, suspended, wanted>>
    BY <1>15 DEF LoopEnqueue, ClosesEmpty, Shape, LoopShape
  <2>2. /\ \A r \in QueueId \ {q} : Members(r)' = Members(r)
        /\ active'[q] \union suspended'[q] = Members(q) \union {p}
    BY <1>1, <2>1, EnqueueMembers DEF Shape, Members
  <2>3. /\ p \in wanted[b] /\ Members(q) \subseteq wanted[b]
        /\ wanted[b] \subseteq Members(q) \union {p}
    BY <1>1, <2>1 DEF WantedAreMembers, BetweenLists
  <2>4. loop'.pc = "idle" /\ loop'.op = "none"
    BY <2>1 DEF LoopIdle
  <2> QED
    BY <1>1, <2>1, <2>2, <2>3, <2>4, LoopChangesItsQueue
<1>16. CASE LoopResumeAll
  <2>1. /\ loop.pc = "resumeAll" /\ loop.op # "stop"
        /\ active' = [active EXCEPT ![q] = @ \union suspended[q]]
        /\ suspended' = [suspended EXCEPT ![q] = @ \intersect active[q]]
        /\ loop' = LoopIdle /\ UNCHANGED <<queues, worker, wanted>>
    BY <1>16 DEF LoopResumeAll, ClosesEmpty
  <2>2. /\ \A r \in QueueId \ {q} : Members(r)' = Members(r) /\ suspended'[r] = suspended[r]
        /\ active'[q] \union suspended'[q] = Members(q)
        /\ suspended'[q] \subseteq suspended[q]
    BY <1>1, <2>1 DEF Shape, TypeOK, Members
  <2>3. wanted[b] = Members(q)
    BY <1>1, <2>1 DEF WantedAreMembers
  <2>4. loop'.pc = "idle" /\ loop'.op = "none"
    BY <2>1 DEF LoopIdle
  <2> QED
    BY <1>1, <2>1, <2>2, <2>3, <2>4, LoopChangesItsQueue
<1>17. CASE LoopDiscard
  <2>1. /\ loop.pc = "discard" /\ loop.op = "stop"
        /\ suspended' = [suspended EXCEPT ![q] = {}]
        /\ loop' = [loop EXCEPT !.pc = "stopCancel"] /\ UNCHANGED <<queues, worker, wanted>>
    BY <1>17 DEF LoopDiscard, LoopGoto, ClosesEmpty
  <2>2. active' = [active EXCEPT ![q] = @ \ {head[q]}]
    BY <1>17 DEF LoopDiscard, DequeueActive
  <2>3. /\ \A r \in QueueId \ {q} : Members(r)' = Members(r) /\ suspended'[r] = suspended[r]
        /\ active'[q] \union suspended'[q] \subseteq Members(q)
        /\ suspended'[q] \subseteq suspended[q]
    BY <1>1, <2>1, <2>2 DEF Shape, TypeOK, Members
  <2>4. Members(q) \subseteq wanted[b]
    BY <1>1 , <2>1 DEF WantedAreMembers
  <2>5. /\ loop'.pc = "stopCancel" /\ loop'.op = loop.op /\ loop'.q = q /\ loop'.branch = b
    BY <1>0, <2>1 DEF LoopRecord
  <2> QED
    BY <1>1, <2>1, <2>3, <2>4, <2>5, LoopChangesItsQueue
<1>18. CASE LoopDrained
  <2>1. /\ loop.pc = "drain" /\ queues' = [queues EXCEPT ![b] = None]
        /\ UNCHANGED <<active, suspended, wanted, worker>>
    BY <1>18 DEF LoopDrained, queueVars
  <2>2. \/ loop' = LoopIdle /\ loop.op # "stop"
        \/ \E pc \in {"next", "move"} : /\ loop' = [loop EXCEPT !.pc = pc, !.q = None]
                                        /\ loop.op = "stop" => pc = "next"
    BY <1>18 DEF LoopDrained
  <2>3. /\ loop'.pc \in {"idle", "next", "move"}
        /\ loop'.op = "stop" => loop'.pc = "next"
        /\ loop.op = "stop" => loop'.op = "stop"
    <3>1. ASSUME NEW pc \in {"next", "move"}, loop' = [loop EXCEPT !.pc = pc, !.q = None]
          PROVE  loop'.pc = pc /\ loop'.op = loop.op
      BY <1>0, <3>1 DEF LoopRecord
    <3>2. CASE loop' = LoopIdle /\ loop.op # "stop"
      BY <3>2 DEF LoopIdle
    <3>3. ASSUME NEW pc \in {"next", "move"}, loop' = [loop EXCEPT !.pc = pc, !.q = None],
                 loop.op = "stop" => pc = "next"
          PROVE  /\ loop'.pc \in {"idle", "next", "move"}
                 /\ loop'.op = "stop" => loop'.pc = "next"
                 /\ loop.op = "stop" => loop'.op = "stop"
      BY <3>1, <3>3
    <3> QED
      BY <2>2, <3>2, <3>3
  <2>4. queues'[b] = None /\ \A c \in Branch \ {b} : queues'[c] = queues[c]
    BY <1>1, <2>1 DEF Shape, TypeOK
  <2>5. OneBranchEach'
    BY <2>3, <2>4 DEF OneBranchEach
  <2>6. ClosesEmpty'
    BY <2>3 DEF ClosesEmpty
  <2>7. BetweenLists'
    BY <2>1, <2>3 DEF BetweenLists
  <2>8. loop.op # "stop" => wanted[b] = {}
    BY <1>1, <2>1 DEF WantedAreMembers, ClosesEmpty
  <2>9. WantedAreMembers'
    <3>1. \A c \in Branch \ {b} :
              /\ queues[c] # None => Members(queues[c])' \subseteq wanted[c]
              /\ loop.op # "stop" =>
                     \A x \in wanted[c] : queues[c] # None /\ x \in Members(queues[c])'
      BY <2>1, <2>4 DEF WantedAreMembers, Members
    <3> QED
      BY <1>1, <2>1, <2>3, <2>4, <2>8, <3>1 DEF WantedAreMembers, Members
  <2> QED
    BY <2>5, <2>6, <2>7, <2>9
<1>19. CASE LoopMove
  <2>1. /\ loop.pc = "move" /\ loop.op # "stop" /\ loop.to \in Branch /\ p \in PR
        /\ CoordinatorEnqueue(loop.to, p)
        /\ wanted' = [wanted EXCEPT ![loop.to] = @ \union {p}]
        /\ loop' = LoopIdle /\ UNCHANGED worker
    BY <1>19 DEF LoopMove, Shape, LoopShape, ClosesEmpty
  <2> QED
    BY <2>1, CoordinatorEnqueueKeepsWanted DEF LoopIdle
<1> QED
  BY <1>4, <1>5, <1>6, <1>7, <1>8, <1>9, <1>10, <1>11, <1>12, <1>13, <1>14, <1>15, <1>16, <1>17,
     <1>18, <1>19
  DEF LoopStep, LoopProbe, LoopCheck, Shape, LoopShape, OnlyProcesses

\* Every step keeps what the queues and the branches agree on.
LEMMA NextKeepsWanted ==
    ASSUME Shape, Lists, WantedInvariant, "positive" \notin Events, [Next]_vars
    PROVE  WantedInvariant'
<1>1. OnlyProcesses'
  BY NextKeepsOnlyProcesses DEF WantedInvariant
<1> SUFFICES (OneBranchEach /\ ClosesEmpty /\ BetweenLists /\ WantedAreMembers)'
  BY <1>1 DEF WantedInvariant
<1>2. ASSUME UNCHANGED <<queues, active, suspended, worker, loop, wanted>>
      PROVE  (OneBranchEach /\ ClosesEmpty /\ BetweenLists /\ WantedAreMembers)'
  BY <1>2
  DEF WantedInvariant, OneBranchEach, ClosesEmpty, BetweenLists, WantedAreMembers, Members
<1>3. ASSUME LoopEvent \/ PeriodicTrigger
      PROVE  (OneBranchEach /\ ClosesEmpty /\ BetweenLists /\ WantedAreMembers)'
  <2>1. ASSUME NEW b \in Branch, NEW p \in PR, OnEnqueue(b, p)
        PROVE  (OneBranchEach /\ ClosesEmpty /\ BetweenLists /\ WantedAreMembers)'
    <3>1. /\ loop.pc = "idle" /\ loop' = loop /\ CoordinatorEnqueue(b, p) /\ UNCHANGED worker
          /\ wanted' = [wanted EXCEPT ![b] = @ \union {p}]
      BY <2>1 DEF OnEnqueue, Receive
    <3>2. loop.op # "stop"
      BY <3>1 DEF WantedInvariant, ClosesEmpty
    <3> QED
      BY <3>1, <3>2, CoordinatorEnqueueKeepsWanted
  <2>2. ASSUME NEW op \in {"dequeue", "trigger", "push", "tick"},
               NEW pc \in {"remove", "trigger", "resume", "next"}, NEW b, NEW p, NEW to, NEW todo,
               loop.pc = "idle", StartOperation(op, pc, b, p, to, todo), pc # "next" => b # None
        PROVE  (OneBranchEach /\ ClosesEmpty /\ BetweenLists /\ WantedAreMembers)'
    <3>1. /\ loop'.pc = pc /\ loop'.op = op /\ loop'.branch = b
          /\ loop'.q = IF b = None THEN None ELSE queues[b]
          /\ UNCHANGED <<queues, active, suspended, wanted, worker>>
      BY <2>2 DEF StartOperation, LoopIdle, queueVars
    <3>2. loop.op # "stop"
      BY <2>2 DEF WantedInvariant, ClosesEmpty
    <3> QED
      BY <2>2, <3>1, <3>2, LoopMovesOn
  <2>3. CASE CloseShutdownChan
    BY <1>2, <2>3 DEF CloseShutdownChan, queueVars
  <2>4. ASSUME NEW b \in Branch, NEW p \in PR,
               \/ OnDequeue(b, p) \/ OnSynchronize(b, p) \/ OnNegative(b, p)
               \/ \E to \in Branch : OnEdited(b, to, p)
        PROVE  (OneBranchEach /\ ClosesEmpty /\ BetweenLists /\ WantedAreMembers)'
    <3>1. b # None
      BY QueueAssumption
    <3> QED
      BY <2>2, <2>4, <3>1 DEF OnDequeue, OnSynchronize, OnNegative, OnEdited, Receive
  <2>5. ASSUME NEW b \in Branch, OnPush(b)
        PROVE  (OneBranchEach /\ ClosesEmpty /\ BetweenLists /\ WantedAreMembers)'
    <3>1. b # None
      BY QueueAssumption
    <3> QED
      BY <2>2, <2>5, <3>1 DEF OnPush, Receive
  <2>6. CASE OnTick
    BY <2>2, <2>6 DEF OnTick, Receive
  <2> QED
    BY <1>3, <2>1, <2>3, <2>4, <2>5, <2>6 DEF LoopEvent, PeriodicTrigger, OnPositive, Receive
<1>4. ASSUME NEW h \in Handler, HandlerStep(h) \/ HandlerRequest(h)
      PROVE  (OneBranchEach /\ ClosesEmpty /\ BetweenLists /\ WantedAreMembers)'
  <2>1. CASE HandlerCancel(h)
    <3>1. /\ handler[h].q \in QueueId /\ worker' = CancelAny(handler[h].q)
          /\ UNCHANGED <<queues, active, suspended, loop, wanted>>
      BY <2>1 DEF HandlerCancel, Shape, HandlerShape, queueVars
    <3>2. \A q \in QueueId : worker'[q].task = worker[q].task /\ worker'[q].pc = worker[q].pc
      BY <3>1, CancelType DEF Shape
    <3> QED
      BY <3>1, <3>2
      DEF WantedInvariant, OneBranchEach, ClosesEmpty, BetweenLists, WantedAreMembers, Members
  <2>2. CASE ~HandlerCancel(h)
    BY <1>2, <1>4, <2>2
    DEF HandlerStep, HandlerRequest, HandlerPause, HandlerUnpause, HandlerFirst,
        HandlerSchedule, HandlerLookup, queueVars
  <2> QED
    BY <2>1, <2>2
<1>5. ASSUME NEW q \in QueueId, LookupDuringMapWrite(q)
      PROVE  (OneBranchEach /\ ClosesEmpty /\ BetweenLists /\ WantedAreMembers)'
  BY <1>2, <1>5 DEF LookupDuringMapWrite, queueVars
<1>6. CASE UNCHANGED vars
  BY <1>2, <1>6 DEF vars
<1> QED
  BY <1>3, <1>4, <1>5, <1>6, WorkerKeepsWanted, LoopKeepsWanted DEF Next, Ended

\* In the initial state no queue exists and no PR is wanted.
LEMMA InitWanted == Init => WantedInvariant
<1> SUFFICES ASSUME Init PROVE WantedInvariant
  OBVIOUS
<1>1. OnlyProcesses
  BY DEF Init, OnlyProcesses, NoResumeTasks, WorkerIdle, NoTask, LoopIdle
<1>2. OneBranchEach /\ ClosesEmpty
  BY DEF Init, OneBranchEach, ClosesEmpty, LoopIdle
<1>3. BetweenLists /\ WantedAreMembers
  BY DEF Init, BetweenLists, WantedAreMembers, WorkerIdle, LoopIdle
<1> QED
  BY <1>1, <1>2, <1>3 DEF WantedInvariant

\* Together with Invariant it is inductive.
LEMMA WantedIsInductive ==
    ASSUME "positive" \notin Events
    PROVE  /\ Init => Invariant /\ WantedInvariant
           /\ Invariant /\ WantedInvariant /\ [Next]_vars => (Invariant /\ WantedInvariant)'
  BY InitWanted, NextKeepsWanted, InvariantIsInductive DEF Invariant

\* What it says about the queues of the branches.
LEMMA WantedImplies ==
    ASSUME Invariant, WantedInvariant
    PROVE  NoneLost /\ DequeuedStaysOut
<1> USE DEF WantedInvariant
<1>1. NoneLost
  <2> SUFFICES ASSUME loop.pc = "idle", NEW b \in Branch, NEW p \in wanted[b]
               PROVE  \E q \in {queues[b]} \ {None} : p \in active[q] \union suspended[q]
    BY DEF NoneLost
  <2> QED
    BY DEF WantedAreMembers, ClosesEmpty, Members
<1>2. DequeuedStaysOut
  BY QueueAssumption DEF DequeuedStaysOut, WantedAreMembers, Members
<1> QED
  BY <1>1, <1>2

\* Without positive events, a PR that was enqueued and not dequeued is in the queue of its
\* branch (coordinator.go:1082-1099, queue.go:430).
THEOREM NoPRLost ==
    ASSUME "positive" \notin Events
    PROVE  SafetySpec => []NoneLost
<1>1. /\ Init => Invariant /\ WantedInvariant
      /\ Invariant /\ WantedInvariant /\ [Next]_vars => (Invariant /\ WantedInvariant)'
  BY WantedIsInductive
<1>2. Invariant /\ WantedInvariant => NoneLost
  BY WantedImplies
<1> QED
  BY <1>1, <1>2, PTL DEF SafetySpec

\* Without positive events, a PR that was dequeued stays out of the queue of its branch
\* until it is enqueued again (queue.go:405-451).
THEOREM DequeuedIsOut ==
    ASSUME "positive" \notin Events
    PROVE  SafetySpec => []DequeuedStaysOut
<1>1. /\ Init => Invariant /\ WantedInvariant
      /\ Invariant /\ WantedInvariant /\ [Next]_vars => (Invariant /\ WantedInvariant)'
  BY WantedIsInductive
<1>2. Invariant /\ WantedInvariant => DequeuedStaysOut
  BY WantedImplies
<1> QED
  BY <1>1, <1>2, PTL DEF SafetySpec

-----------------------------------------------------------------------------
(* Who evaluates the first PR of a queue.                                  *)

\* The worker of q keeps its part of Handshakes and activates nothing.
LEMMA WorkerKeepsHandshakes ==
    ASSUME Shape, OnlyProcesses, Handshakes, NEW q \in QueueId, WorkerStep(q)
    PROVE  Handshakes'
<1> USE DEF Shape
<1>0. worker[q] \in WorkerRecord /\ worker \in [QueueId -> WorkerRecord]
  BY DEF TypeOK
<1>1. UNCHANGED <<paused, loop, handler>> /\ \A r \in QueueId \ {q} : worker'[r] = worker[r]
  BY WorkerEffect
<1>2. /\ stopping' = stopping
      /\ \A r \in QueueId : active'[r] \subseteq active[r]
  <2> DEFINE p == worker[q].task.pr
  <2>0. ASSUME active' = [active EXCEPT ![q] = @ \ {p}] \/ active' = active
        PROVE  \A r \in QueueId : active'[r] \subseteq active[r]
    BY <2>0 DEF TypeOK
  <2>1. CASE WorkerSuspend(q)
    BY <2>0, <2>1 DEF WorkerSuspend, DequeueActive
  <2>2. CASE WorkerDequeue(q)
    <3>1. PICK n : Dequeue(q, p, n)
      BY <2>2 DEF WorkerDequeue
    <3> QED
      BY <2>0, <2>2, <3>1 DEF WorkerDequeue, Dequeue, DequeueActive
  <2>3. CASE ~(WorkerSuspend(q) \/ WorkerDequeue(q))
    BY <2>3
    DEF WorkerStep, WorkerTake, WorkerSetExecuting, WorkerCheckPaused, WorkerCheckFirst,
        WorkerEvaluate, WorkerCancel, WorkerSchedule, WorkerLookup, WorkerStatus,
        WorkerUnsuspend, WorkerEnqueue, WorkerFinish, queueVars, OnlyProcesses
  <2> QED
    BY <2>1, <2>2, <2>3
<1>3. worker'[q].next # None => worker'[q].pc \in {"cancel", "schedule"}
  <2>1. CASE WorkerTake(q)
    BY <1>0, <2>1 DEF WorkerTake, WorkerIdle
  <2>2. CASE WorkerFinish(q)
    BY <1>0, <2>2 DEF WorkerFinish, WorkerIdle
  <2>3. CASE WorkerCancel(q)
    BY <1>0, <2>3 DEF WorkerCancel, WorkerRecord
  <2>4. CASE WorkerSchedule(q)
    BY <1>0, <2>4 DEF WorkerSchedule, WorkerRecord
  <2>5. CASE WorkerSuspend(q)
    BY <1>0, <2>5 DEF WorkerSuspend, WorkerRecord, Handshakes
  <2>6. CASE WorkerDequeue(q)
    <3>1. PICK n \in PR \union {None} :
            /\ Dequeue(q, worker[q].task.pr, n)
            /\ worker' = [worker EXCEPT ![q].pc = IF InActive(q, worker[q].task.pr)
                                                  THEN "cancel" ELSE "finish",
                                        ![q].next = NewFirst(q, n)]
      BY <2>6 DEF WorkerDequeue
    <3>2. /\ worker'[q].pc = IF InActive(q, worker[q].task.pr) THEN "cancel" ELSE "finish"
          /\ worker'[q].next = NewFirst(q, n)
      BY <1>0, <3>1 DEF WorkerRecord
    <3>3. ~InActive(q, worker[q].task.pr) => NewFirst(q, n) = None
      BY <3>1 DEF Dequeue, NewFirst
    <3> QED
      BY <3>2, <3>3
  <2>7. ASSUME NEW pc, WorkerGoto(q, pc), worker[q].pc \notin {"cancel", "schedule"}
        PROVE  worker'[q].next = None
    BY <1>0, <2>7 DEF WorkerGoto, WorkerRecord, Handshakes
  <2> QED
    BY <2>1, <2>2, <2>3, <2>4, <2>5, <2>6, <2>7
    DEF WorkerStep, WorkerSetExecuting, WorkerCheckPaused, WorkerCheckFirst, WorkerEvaluate,
        Evaluating, WorkerLookup, WorkerStatus, WorkerUnsuspend, WorkerEnqueue
<1>4. loop.pc = "cancel" => loop.q \in QueueId
  BY DEF LoopShape
<1> QED
  BY <1>1, <1>2, <1>3, <1>4 DEF Handshakes

\* Every step keeps Handshakes.
LEMMA NextKeepsHandshakes ==
    ASSUME Shape, Lists, WantedInvariant, OneResume, Handshakes, [Next]_vars
    PROVE  Handshakes'
<1> USE DEF Shape
<1>0. loop \in LoopRecord /\ handler \in [Handler -> HandlerRecord]
  BY DEF TypeOK
<1>1. ASSUME UNCHANGED <<stopping, paused, handler>>,
             \A q \in QueueId : worker'[q].next = worker[q].next /\ worker'[q].pc = worker[q].pc,
             loop'.next # None => loop'.pc \in {"cancel", "schedule"},
             loop'.pc = "cancel" => loop'.pr \notin active'[loop'.q],
             loop'.op = "stop" => stopping
      PROVE  Handshakes'
  BY <1>1 DEF Handshakes
<1>2. ASSUME NEW b \in Branch, NEW p \in PR, CoordinatorEnqueue(b, p),
             UNCHANGED <<stopping, worker, handler>>,
             loop'.next = None, loop'.pc = "idle", loop'.op # "stop"
      PROVE  Handshakes'
  <2>1. CASE queues[b] # None
    BY <1>1, <1>2, <2>1 DEF CoordinatorEnqueue
  <2>2. CASE queues[b] = None
    <3>1. PICK q \in QueueId : Unreachable(q) /\ paused' = [paused EXCEPT ![q] = FALSE]
      BY <1>2, <2>2, QueueAssumption DEF CoordinatorEnqueue
    <3>2. \A h \in Handler : handler[h].pc = "cancel" => paused'[handler[h].q]
      BY <3>1 DEF Unreachable, Handshakes, HandlerShape, TypeOK
    <3> QED
      BY <1>2, <3>2 DEF Handshakes
  <2> QED
    BY <2>1, <2>2
<1>3. ASSUME LoopStep
      PROVE  Handshakes'
  <2>1. loop.op = "stop" => stopping
    BY DEF Handshakes
  <2>2. loop.pc \notin {"cancel", "schedule"} => loop.next = None
    BY DEF Handshakes
  <2>3. CASE LoopRemove
    <3> DEFINE q == loop.q
               p == loop.pr
    <3>1. PICK n \in PR \union {None} :
            /\ Dequeue(q, p, n)
            /\ loop' = [loop EXCEPT !.pc = IF InActive(q, p) THEN "cancel" ELSE "empty",
                                   !.next = NewFirst(q, n),
                                   !.to = IF p \in active[q] \union suspended[q] THEN @ ELSE None]
      BY <2>3 DEF LoopRemove
    <3>2. /\ loop'.pc = (IF InActive(q, p) THEN "cancel" ELSE "empty")
          /\ loop'.next = NewFirst(q, n) /\ loop'.q = q /\ loop'.pr = p /\ loop'.op = loop.op
      BY <1>0, <3>1 DEF LoopRecord
    <3>3. q \in QueueId
      BY <2>3 DEF LoopRemove, LoopShape
    <3>4. InActive(q, p) => p \notin active'[q]
      BY <3>1, <3>3 DEF Dequeue, DequeueActive, TypeOK
    <3>5. ~InActive(q, p) => NewFirst(q, n) = None
      BY <3>1 DEF Dequeue, NewFirst
    <3> QED
      BY <1>1, <2>1, <2>3, <3>2, <3>4, <3>5 DEF LoopRemove
  <2>4. CASE LoopCancel
    <3>1. /\ loop.q \in QueueId /\ worker' = Cancel(loop.q, loop.pr)
          /\ UNCHANGED <<stopping, paused, handler>>
      BY <2>4 DEF LoopCancel, LoopShape, queueVars
    <3>2. /\ loop'.pc = (IF loop.next = None THEN "empty" ELSE "schedule")
          /\ loop'.next = loop.next /\ loop'.op = loop.op
      BY <1>0, <2>4 DEF LoopCancel, LoopGoto, LoopRecord
    <3> QED
      BY <1>1, <2>1, <3>1, <3>2, CancelType
  <2>5. CASE LoopStopCancel
    <3>1. /\ loop.q \in QueueId /\ worker' = CancelAny(loop.q) /\ loop.pc = "stopCancel"
          /\ UNCHANGED <<stopping, paused, handler>>
      BY <2>5 DEF LoopStopCancel, LoopShape, queueVars
    <3>2. loop'.pc = "close" /\ loop'.next = loop.next /\ loop'.op = loop.op
      BY <1>0, <2>5 DEF LoopStopCancel, LoopGoto, LoopRecord
    <3> QED
      BY <1>1, <2>1, <2>2, <3>1, <3>2, CancelType
  <2>6. CASE LoopMove
    <3>1. loop'.next = None /\ loop'.pc = "idle" /\ loop'.op # "stop"
      BY <2>6 DEF LoopMove, LoopIdle
    <3> QED
      BY <1>2, <2>6, <3>1 DEF LoopMove, LoopShape
  <2>7. CASE LoopExit
    <3>1. /\ stopping /\ loop'.next = None /\ loop'.pc = "next"
          /\ UNCHANGED <<stopping, paused, handler, worker>>
      BY <2>7 DEF LoopExit, StartOperation, LoopIdle, queueVars
    <3> QED
      BY <1>1, <3>1
  <2>8. ASSUME UNCHANGED <<stopping, paused, handler, worker>>,
               \/ loop'.next = None /\ loop'.op \in {loop.op, "none"} /\ loop'.pc # "cancel"
               \/ loop'.pc = "schedule" /\ loop'.op = loop.op
        PROVE  Handshakes'
    BY <1>1, <2>1, <2>8
  <2>9. CASE LoopNext
    <3>1. loop.pc = "next" /\ UNCHANGED <<stopping, paused, handler, worker>>
      BY <2>9 DEF LoopNext, queueVars
    <3> QED
      BY <2>2, <2>8, <2>9, <3>1, LoopNextEffect
  <2>10. CASE LoopSchedule
    <3>1. loop.op \in {"dequeue", "push", "tick", "trigger"}
      BY <2>10 DEF LoopSchedule, LoopShape
    <3>2. \/ loop' = LoopIdle
          \/ \E pc \in {"empty", "resumeAll", "next"} :
                 loop' = [loop EXCEPT !.pc = pc, !.next = None]
      BY <2>10, <3>1 DEF LoopSchedule
    <3>3. loop'.next = None /\ loop'.op \in {loop.op, "none"} /\ loop'.pc # "cancel"
      <4>1. CASE loop' = LoopIdle
        BY <4>1 DEF LoopIdle
      <4>2. ASSUME NEW pc \in {"empty", "resumeAll", "next"},
                   loop' = [loop EXCEPT !.pc = pc, !.next = None]
            PROVE  loop'.next = None /\ loop'.op = loop.op /\ loop'.pc # "cancel"
        BY <1>0, <4>2 DEF LoopRecord
      <4> QED
        BY <3>2, <4>1, <4>2
    <3> QED
      BY <2>8, <2>10, <3>3 DEF LoopSchedule, queueVars
  <2>11. CASE LoopTrigger
    <3>1. /\ loop.pc = "trigger" /\ loop.op \in {"push", "tick", "trigger"}
          /\ UNCHANGED <<stopping, paused, handler, worker>>
      BY <2>11 DEF LoopTrigger, LoopShape, queueVars
    <3>2. CASE head[loop.q] # None
      <4>1. loop' = [loop EXCEPT !.pc = "schedule", !.next = head[loop.q]]
        BY <2>11, <3>2 DEF LoopTrigger
      <4>2. loop'.pc = "schedule" /\ loop'.op = loop.op
        BY <1>0, <4>1 DEF LoopRecord
      <4> QED
        BY <2>8, <3>1, <4>2
    <3>3. CASE head[loop.q] = None
      <4>1. \/ loop' = LoopIdle
            \/ \E pc \in {"resumeAll", "next"} : loop' = [loop EXCEPT !.pc = pc]
        BY <2>11, <3>1, <3>3 DEF LoopTrigger
      <4>2. loop'.next = None /\ loop'.op \in {loop.op, "none"} /\ loop'.pc # "cancel"
        BY <1>0, <2>2, <3>1, <4>1 DEF LoopRecord, LoopIdle
      <4> QED
        BY <2>8, <3>1, <4>2
    <3> QED
      BY <3>2, <3>3
  <2>12. CASE LoopCheckEmpty \/ LoopClose \/ LoopDrained \/ LoopResume \/ LoopUnsuspend
                \/ LoopEnqueue \/ LoopResumeAll \/ LoopDiscard \/ LoopProbe \/ LoopCheck
    <3>1. UNCHANGED <<stopping, paused, handler, worker>>
      BY <2>12
      DEF LoopCheckEmpty, LoopClose, LoopDrained, LoopResume, LoopUnsuspend, LoopEnqueue,
          LoopResumeAll, LoopDiscard, LoopProbe, LoopCheck, queueVars
    <3>2. loop.next = None
      BY <2>2, <2>12
      DEF LoopCheckEmpty, LoopClose, LoopDrained, LoopResume, LoopUnsuspend, LoopEnqueue,
          LoopResumeAll, LoopDiscard, LoopProbe, LoopCheck
    <3>3. loop'.next = None /\ loop'.op \in {loop.op, "none"} /\ loop'.pc # "cancel"
      <4>1. CASE loop' = LoopIdle
        BY <4>1 DEF LoopIdle
      <4>2. ASSUME NEW pc, pc # "cancel",
                   loop' = [loop EXCEPT !.pc = pc] \/ loop' = [loop EXCEPT !.pc = pc, !.q = None]
            PROVE  loop'.next = None /\ loop'.op = loop.op /\ loop'.pc # "cancel"
        BY <1>0, <3>2, <4>2 DEF LoopRecord
      <4>3. CASE LoopCheckEmpty \/ LoopClose \/ LoopDrained \/ LoopResume
        BY <4>1, <4>2, <4>3 DEF LoopCheckEmpty, LoopClose, LoopDrained, LoopResume, LoopGoto
      <4> QED
        BY <2>12, <4>1, <4>2, <4>3
        DEF LoopUnsuspend, LoopEnqueue, LoopResumeAll, LoopDiscard, LoopProbe, LoopCheck, LoopGoto
    <3> QED
      BY <2>8, <3>1, <3>3
  <2> QED
    BY <1>3, <2>3, <2>4, <2>5, <2>6, <2>7, <2>9, <2>10, <2>11, <2>12 DEF LoopStep
<1>4. ASSUME LoopEvent \/ PeriodicTrigger
      PROVE  Handshakes'
  <2>1. ASSUME NEW b \in Branch, NEW p \in PR, OnEnqueue(b, p)
        PROVE  Handshakes'
    <3>1. loop.pc = "idle" /\ loop' = loop /\ CoordinatorEnqueue(b, p)
      BY <2>1 DEF OnEnqueue, Receive
    <3>2. loop.next = None /\ loop.op # "stop"
      BY <3>1 DEF Handshakes, WantedInvariant, ClosesEmpty
    <3> QED
      BY <1>2, <2>1, <3>1, <3>2 DEF OnEnqueue
  <2>2. ASSUME NEW op \in LoopOp \ {"stop"}, NEW pc \in LoopPc \ {"cancel"}, NEW b, NEW p, NEW to,
               NEW todo, StartOperation(op, pc, b, p, to, todo)
        PROVE  Handshakes'
    <3>1. /\ loop'.next = None /\ loop'.op = op /\ loop'.pc = pc
          /\ UNCHANGED <<stopping, paused, handler, worker>>
      BY <2>2 DEF StartOperation, LoopIdle, queueVars
    <3> QED
      BY <1>1, <3>1
  <2>3. CASE CloseShutdownChan
    BY <2>3 DEF CloseShutdownChan, Handshakes, queueVars
  <2> QED
    BY <1>4, <2>1, <2>2, <2>3
    DEF LoopEvent, PeriodicTrigger, OnDequeue, OnSynchronize, OnNegative, OnEdited, OnPositive,
        OnPush, OnTick, LoopOp, LoopPc
<1>5. ASSUME NEW h \in Handler, HandlerStep(h) \/ HandlerRequest(h)
      PROVE  Handshakes'
  <2>1. ASSUME NEW r, handler' = [handler EXCEPT ![h] = r],
               r.next # None => r.pc = "schedule",
               r.pc = "resume" => "resume" \in Requests,
               r.pc = "cancel" => paused'[r.q],
               \A g \in Handler \ {h} : handler[g].pc = "cancel" => paused'[handler[g].q],
               UNCHANGED <<stopping, active, loop>>,
               \A q \in QueueId : worker'[q].next = worker[q].next /\ worker'[q].pc = worker[q].pc
        PROVE  Handshakes'
    BY <1>0, <2>1 DEF Handshakes
  <2>2. /\ handler[h] \in HandlerRecord
        /\ handler[h].next # None => handler[h].pc = "schedule"
        /\ \A g \in Handler : handler[g].pc = "cancel" => paused[handler[g].q]
    BY <1>0 DEF Handshakes
  <2>3. CASE HandlerPause(h)
    <3> DEFINE r == [handler[h] EXCEPT !.pc = "cancel"]
    <3>1. handler[h].q \in QueueId /\ handler[h].pc = "pause"
      BY <2>3 DEF HandlerPause, HandlerShape
    <3>2. r.next = None /\ r.pc = "cancel" /\ r.q = handler[h].q
      BY <2>2, <3>1 DEF HandlerRecord
    <3>3. handler' = [handler EXCEPT ![h] = r] /\ paused' = [paused EXCEPT ![handler[h].q] = TRUE]
      BY <2>3 DEF HandlerPause
    <3>4. /\ paused'[handler[h].q]
          /\ \A g \in Handler \ {h} : handler[g].pc = "cancel" => paused'[handler[g].q]
      BY <2>2, <3>1, <3>3 DEF TypeOK, HandlerShape
    <3> HIDE DEF r
    <3> QED
      BY <2>1, <2>3, <3>2, <3>3, <3>4 DEF HandlerPause
  <2>4. CASE HandlerCancel(h)
    <3>1. /\ handler[h].q \in QueueId /\ worker' = CancelAny(handler[h].q)
          /\ handler' = [handler EXCEPT ![h] = HandlerIdle]
      BY <2>4 DEF HandlerCancel, HandlerShape
    <3>2. \A q \in QueueId : worker'[q].next = worker[q].next /\ worker'[q].pc = worker[q].pc
      BY <3>1, CancelType
    <3>3. HandlerIdle.next = None /\ HandlerIdle.pc = "idle"
      BY DEF HandlerIdle
    <3> QED
      BY <2>1, <2>2, <2>4, <3>1, <3>2, <3>3 DEF HandlerCancel, queueVars
  <2>5. CASE HandlerUnpause(h)
    <3> DEFINE r == [handler[h] EXCEPT !.pc = "first"]
    <3>1. handler[h].pc = "resume"
      BY <2>5 DEF HandlerUnpause
    <3>2. \A g \in Handler : g = h
      BY <3>1 DEF Handshakes, OneResume
    <3>3. r.next = None /\ r.pc = "first"
      BY <2>2, <3>1 DEF HandlerRecord
    <3>4. handler' = [handler EXCEPT ![h] = r]
      BY <2>5 DEF HandlerUnpause
    <3> HIDE DEF r
    <3> QED
      BY <2>1, <2>5, <3>2, <3>3, <3>4 DEF HandlerUnpause
  <2>6. CASE HandlerFirst(h)
    <3>1. PICK r \in {HandlerIdle,
                      [handler[h] EXCEPT !.pc = "schedule", !.next = head[handler[h].q]]} :
             handler' = [handler EXCEPT ![h] = r]
      BY <2>6 DEF HandlerFirst
    <3>2. /\ r.next # None => r.pc = "schedule"
          /\ r.pc \in {"idle", "schedule"}
      <4>1. CASE r = HandlerIdle
        BY <4>1 DEF HandlerIdle
      <4>2. CASE r = [handler[h] EXCEPT !.pc = "schedule", !.next = head[handler[h].q]]
        BY <2>2, <4>2 DEF HandlerRecord
      <4> QED
        BY <3>1, <4>1, <4>2
    <3> QED
      BY <2>1, <2>2, <2>6, <3>1, <3>2 DEF HandlerFirst, queueVars
  <2>7. CASE HandlerSchedule(h)
    <3>1. HandlerIdle.next = None /\ HandlerIdle.pc = "idle"
      BY DEF HandlerIdle
    <3> QED
      BY <2>1, <2>2, <2>7, <3>1 DEF HandlerSchedule, queueVars
  <2>8. ASSUME NEW request \in {"pause", "resume"}, HandlerLookup(h, request)
        PROVE  Handshakes'
    <3>1. PICK b \in Branch :
            handler' = [handler EXCEPT ![h] = [HandlerIdle EXCEPT !.pc = request, !.q = queues[b]]]
      BY <2>8 DEF HandlerLookup
    <3> DEFINE r == [HandlerIdle EXCEPT !.pc = request, !.q = queues[b]]
    <3>2. r.next = None /\ r.pc = request
      BY DEF HandlerIdle
    <3> HIDE DEF r
    <3>3. handler' = [handler EXCEPT ![h] = r]
      BY <3>1 DEF r
    <3>4. request \in Requests
      BY <2>8 DEF HandlerLookup
    <3> QED
      BY <2>1, <2>2, <2>8, <3>2, <3>3, <3>4 DEF HandlerLookup, queueVars
  <2> QED
    BY <1>5, <2>3, <2>4, <2>5, <2>6, <2>7, <2>8 DEF HandlerStep, HandlerRequest
<1>6. ASSUME NEW q \in QueueId, LookupDuringMapWrite(q)
      PROVE  Handshakes'
  BY <1>6 DEF LookupDuringMapWrite, Handshakes, queueVars
<1>7. CASE UNCHANGED vars
  BY <1>7 DEF Handshakes, vars
<1> QED
  BY <1>3, <1>4, <1>5, <1>6, <1>7, WorkerKeepsHandshakes DEF Next, Ended, WantedInvariant

\* A PR that is scheduled in a pool that is open stays so until the worker takes it.
LEMMA ScheduleAttends ==
    ASSUME TypeOK, NEW q \in QueueId, NEW x \in PR, NEW panic, Schedule(q, Process(x), panic)
    PROVE  /\ \A r \in QueueId, p \in PR : Scheduled(r, p) => Scheduled(r, p)'
           /\ ~terminated[q] => Scheduled(q, x)'
<1>1. CASE terminated[q]
  BY <1>1 DEF Schedule, Scheduled
<1>2. CASE ~terminated[q]
  <2>1. tasks' = [tasks EXCEPT ![q] = Append(@, Process(x))] /\ tasks[q] \in Seq(Task)
    BY <1>2 DEF Schedule, TypeOK
  <2>2. Process(x) \in Task
    BY DEF Process, Task
  <2> DEFINE s == Append(tasks[q], Process(x))
  <2>3. /\ \A i \in DOMAIN tasks[q] : i \in DOMAIN s /\ s[i] = tasks[q][i]
        /\ \E i \in DOMAIN s : s[i] = Process(x)
    <3>1. /\ Len(s) = Len(tasks[q]) + 1 /\ s \in Seq(Task) /\ Len(tasks[q]) \in Nat
          /\ \A i \in 1 .. Len(tasks[q]) : s[i] = tasks[q][i]
          /\ s[Len(tasks[q]) + 1] = Process(x)
      BY <2>1, <2>2, AppendProperties
    <3>2. DOMAIN s = 1 .. Len(tasks[q]) + 1 /\ DOMAIN tasks[q] = 1 .. Len(tasks[q])
      BY <2>1, <3>1
    <3> HIDE DEF s
    <3> QED
      BY <3>1, <3>2
  <2>4. tasks'[q] = s /\ \A r \in QueueId \ {q} : tasks'[r] = tasks[r]
    BY <2>1 DEF TypeOK
  <2> HIDE DEF s
  <2> QED
    BY <2>3, <2>4 DEF Scheduled
<1> QED
  BY <1>1, <1>2

\* A PR that becomes first when it is enqueued is scheduled.
LEMMA EnqueueAttends ==
    ASSUME TypeOK, NEW q \in QueueId, NEW x \in PR, Enqueue(q, x)
    PROVE  \A r \in QueueId, p \in PR :
               /\ Scheduled(r, p) => Scheduled(r, p)'
               /\ head'[r] = p /\ ~terminated[r] =>
                      Scheduled(r, p)' \/ (head[r] = p /\ attended'[r] = attended[r])
<1>1. CASE UNCHANGED <<head, tasks, attended>>
  BY <1>1 DEF Scheduled
<1>2. CASE ~UNCHANGED <<head, tasks, attended>>
  <2>1. /\ head' = [head EXCEPT ![q] = x]
        /\ attended' = [attended EXCEPT ![q] = FALSE]
        /\ Schedule(q, Process(x), "process")
    BY <1>2 DEF Enqueue, EnqueueActive
  <2>2. /\ head'[q] = x
        /\ \A r \in QueueId \ {q} : head'[r] = head[r] /\ attended'[r] = attended[r]
    BY <2>1 DEF TypeOK
  <2>3. /\ \A r \in QueueId, p \in PR : Scheduled(r, p) => Scheduled(r, p)'
        /\ ~terminated[q] => Scheduled(q, x)'
    BY <2>1, ScheduleAttends
  <2> QED
    BY <2>2, <2>3
<1> QED
  BY <1>1, <1>2

\* So it is in the queue of a branch, which may be a new one.
LEMMA CoordinatorEnqueueAttends ==
    ASSUME TypeOK, NEW b \in Branch, NEW x \in PR, CoordinatorEnqueue(b, x)
    PROVE  \A r \in QueueId, p \in PR :
               /\ Scheduled(r, p) => Scheduled(r, p)'
               /\ head'[r] = p /\ ~terminated'[r] =>
                      \/ Scheduled(r, p)'
                      \/ /\ head[r] = p /\ attended'[r] = attended[r]
                         /\ paused'[r] = paused[r] /\ ~terminated[r]
<1>1. CASE queues[b] # None
  BY <1>1, EnqueueAttends DEF CoordinatorEnqueue
<1>2. CASE queues[b] = None
  <2>1. PICK q \in QueueId : /\ Unreachable(q)
                             /\ head' = [head EXCEPT ![q] = x]
                             /\ paused' = [paused EXCEPT ![q] = FALSE]
                             /\ terminated' = [terminated EXCEPT ![q] = FALSE]
                             /\ tasks' = [tasks EXCEPT ![q] = <<Process(x)>>]
                             /\ attended' = [attended EXCEPT ![q] = FALSE]
    BY <1>2, QueueAssumption DEF CoordinatorEnqueue
  <2>2. \A r \in QueueId \ {q} :
           /\ head'[r] = head[r] /\ paused'[r] = paused[r] /\ terminated'[r] = terminated[r]
           /\ tasks'[r] = tasks[r] /\ attended'[r] = attended[r]
    BY <2>1 DEF TypeOK
  <2>3. head'[q] = x /\ tasks'[q] = <<Process(x)>> /\ tasks[q] = <<>>
    BY <2>1 DEF TypeOK, Unreachable
  <2>4. Scheduled(q, x)' /\ \A p : ~Scheduled(q, p)
    BY <2>3 DEF Scheduled
  <2> QED
    BY <2>2, <2>3, <2>4 DEF Scheduled
<1> QED
  BY <1>1, <1>2

\* What a step has to show of every queue.
LEMMA FirstsStayAttended ==
    ASSUME FirstsAreAttended, stopping => stopping',
           \A q \in QueueId, p \in PR :
               head'[q] = p /\ ~terminated'[q] /\ ~attended'[q] /\ ~paused'[q] /\ ~stopping' =>
                   \/ WillAttend(q, p)'
                   \/ /\ head[q] = p /\ ~terminated[q] /\ ~attended[q] /\ ~paused[q]
                      /\ WillAttend(q, p) => WillAttend(q, p)'
    PROVE  FirstsAreAttended'
<1> SUFFICES ASSUME ~stopping', NEW q \in QueueId, NEW p \in PR,
                    head'[q] = p, ~terminated'[q], ~attended'[q], ~paused'[q]
             PROVE  WillAttend(q, p)'
  BY DEF FirstsAreAttended
<1> QED
  BY DEF FirstsAreAttended

\* The worker of q attends to the first PR, or leaves it to the one that is scheduled next.
LEMMA WorkerKeepsFirsts ==
    ASSUME Shape, OnlyProcesses, Handshakes, FirstsAreAttended, NEW q \in QueueId, WorkerStep(q)
    PROVE  FirstsAreAttended'
<1> USE DEF Shape
<1>0. worker[q] \in WorkerRecord /\ worker \in [QueueId -> WorkerRecord]
  BY DEF TypeOK
<1>1. /\ UNCHANGED <<paused, loop, handler>>
      /\ \A r \in QueueId \ {q} : worker'[r] = worker[r] /\ head'[r] = head[r]
  BY WorkerEffect, WorkerStaysInItsQueue
<1>2. \A r \in QueueId, p \in PR : /\ LoopAttends(r, p) => LoopAttends(r, p)'
                                   /\ HandlerAttends(r, p) => HandlerAttends(r, p)'
  BY <1>1 DEF LoopAttends, HandlerAttends
<1>3. \A p \in PR : p # None
  BY QueueAssumption
<1>4. ASSUME UNCHANGED <<stopping, terminated>>,
             \A r \in QueueId \ {q} : attended'[r] = attended[r],
             \A r \in QueueId \ {q}, p \in PR : Scheduled(r, p) => Scheduled(r, p)',
             \A p \in PR :
                 head'[q] = p /\ ~terminated[q] /\ ~attended'[q] /\ ~paused[q] =>
                     \/ Scheduled(q, p)' \/ WorkerAttends(q, p)'
                     \/ /\ head[q] = p /\ ~attended[q]
                        /\ Scheduled(q, p) \/ WorkerAttends(q, p) =>
                               Scheduled(q, p)' \/ WorkerAttends(q, p)'
      PROVE  FirstsAreAttended'
  <2>1. \A r \in QueueId \ {q}, p \in PR : WorkerAttends(r, p) => WorkerAttends(r, p)'
    BY <1>1 DEF WorkerAttends
  <2>2. ASSUME NEW r \in QueueId, NEW p \in PR,
               head'[r] = p, ~terminated'[r], ~attended'[r], ~paused'[r]
        PROVE  \/ WillAttend(r, p)'
               \/ /\ head[r] = p /\ ~terminated[r] /\ ~attended[r] /\ ~paused[r]
                  /\ WillAttend(r, p) => WillAttend(r, p)'
    <3>1. CASE r = q
      BY <1>1, <1>2, <1>4, <2>2, <3>1 DEF WillAttend
    <3>2. CASE r # q
      BY <1>1, <1>2, <1>4, <2>1, <2>2, <3>2 DEF WillAttend
    <3> QED
      BY <3>1, <3>2
  <2> QED
    BY <1>4, <2>2, FirstsStayAttended
<1>5. ASSUME UNCHANGED <<stopping, terminated, attended, head, tasks>>,
             \A p \in PR : /\ head[q] = p /\ ~attended[q] /\ ~paused[q]
                           /\ WorkerAttends(q, p)
                           => WorkerAttends(q, p)'
      PROVE  FirstsAreAttended'
  <2>1. \A r \in QueueId, p \in PR : Scheduled(r, p) => Scheduled(r, p)'
    BY <1>5 DEF Scheduled
  <2> QED
    BY <1>1, <1>4, <1>5, <2>1
<1>6. CASE WorkerTake(q)
  <2>1. /\ worker' = [worker EXCEPT ![q] = [WorkerIdle EXCEPT !.pc = "start",
                                                              !.task = Head(tasks[q])]]
        /\ tasks' = [tasks EXCEPT ![q] = Tail(@)]
        /\ tasks[q] # <<>> /\ tasks[q] \in Seq(Task) /\ worker[q].pc = "idle"
        /\ UNCHANGED <<stopping, terminated, attended, head>>
    BY <1>6 DEF WorkerTake, queueVars, TypeOK
  <2>2. /\ worker'[q].pc = "start" /\ worker'[q].task = Head(tasks[q]) /\ ~worker'[q].cancelled
        /\ tasks'[q] = Tail(tasks[q]) /\ \A r \in QueueId \ {q} : tasks'[r] = tasks[r]
    BY <1>0, <2>1 DEF WorkerIdle, TypeOK
  <2>3. ASSUME NEW p \in PR, Scheduled(q, p)
        PROVE  Scheduled(q, p)' \/ WorkerAttends(q, p)'
    <3>1. PICK i \in DOMAIN tasks[q] : tasks[q][i] = Process(p)
      BY <2>3 DEF Scheduled
    <3>2. CASE i = 1
      BY <2>1, <2>2, <3>1, <3>2 DEF WorkerAttends
    <3>3. CASE i # 1
      <4>1. i - 1 \in DOMAIN Tail(tasks[q]) /\ Tail(tasks[q])[i - 1] = Process(p)
        BY <2>1, <3>1, <3>3
      <4> QED
        BY <2>2, <4>1 DEF Scheduled
    <3> QED
      BY <3>2, <3>3
  <2>4. \A p \in PR : ~WorkerAttends(q, p)
    BY <1>3, <2>1 DEF WorkerAttends, Handshakes
  <2>5. \A r \in QueueId \ {q}, p \in PR : Scheduled(r, p) => Scheduled(r, p)'
    BY <2>2 DEF Scheduled
  <2> QED
    BY <1>4, <2>1, <2>3, <2>4, <2>5
<1>7. CASE WorkerSetExecuting(q)
  <2>1. worker[q].pc = "start" /\ worker[q].task.kind = "process"
    BY <1>7 DEF WorkerSetExecuting, WorkerShape, Task, OnlyProcesses
  <2>2. /\ worker' = [worker EXCEPT ![q].pc = "gate"]
        /\ UNCHANGED <<stopping, terminated, attended, head, tasks>>
    BY <1>7, <2>1 DEF WorkerSetExecuting, WorkerGoto, queueVars
  <2>3. /\ worker'[q].pc = "gate" /\ worker'[q].task = worker[q].task
        /\ worker'[q].next = worker[q].next /\ worker'[q].cancelled = worker[q].cancelled
    BY <1>0, <2>2 DEF WorkerRecord
  <2> QED
    BY <1>5, <2>2, <2>3 DEF WorkerAttends
<1>8. CASE WorkerCheckPaused(q)
  <2>1. /\ worker' = [worker EXCEPT ![q].pc = IF paused[q] THEN "finish" ELSE "first"]
        /\ UNCHANGED <<stopping, terminated, attended, head, tasks>>
    BY <1>8 DEF WorkerCheckPaused, WorkerGoto, queueVars
  <2>2. /\ ~paused[q] => worker'[q].pc = "first"
        /\ worker'[q].task = worker[q].task
        /\ worker'[q].next = worker[q].next /\ worker'[q].cancelled = worker[q].cancelled
    BY <1>0, <2>1 DEF WorkerRecord
  <2> QED
    BY <1>5, <2>1, <2>2 DEF WorkerAttends
<1>9. CASE WorkerCheckFirst(q)
  <2> DEFINE go == ~worker[q].cancelled /\ head[q] = worker[q].task.pr
  <2>1. /\ worker[q].pc = "first"
        /\ attended' = [attended EXCEPT ![q] = @ \/ go]
        /\ UNCHANGED <<stopping, terminated, head, tasks>>
    BY <1>9 DEF WorkerCheckFirst
  <2>2. /\ \A r \in QueueId \ {q} : attended'[r] = attended[r]
        /\ ~attended'[q] => ~attended[q] /\ ~go
    BY <2>1 DEF TypeOK
  <2>3. \A p \in PR : head[q] = p /\ ~go => ~WorkerAttends(q, p)
    BY <1>3, <2>1 DEF WorkerAttends, Handshakes, Process
  <2>4. \A r \in QueueId, p \in PR : Scheduled(r, p) => Scheduled(r, p)'
    BY <2>1 DEF Scheduled
  <2> HIDE DEF go
  <2> QED
    BY <1>4, <2>1, <2>2, <2>3, <2>4
<1>10. CASE WorkerEvaluate(q) \/ WorkerFinish(q) \/ WorkerLookup(q) \/ WorkerStatus(q)
  <2>1. worker[q].pc \in {"evaluate", "finish", "lookup", "status"}
    BY <1>10 DEF WorkerEvaluate, Evaluating, WorkerFinish, WorkerLookup, WorkerStatus
  <2>2. UNCHANGED <<stopping, terminated, attended, head, tasks>>
    BY <1>10 DEF WorkerEvaluate, WorkerFinish, WorkerLookup, WorkerStatus, queueVars
  <2>3. \A p \in PR : ~WorkerAttends(q, p)
    BY <1>3, <2>1 DEF WorkerAttends, Handshakes
  <2> QED
    BY <1>5, <2>2, <2>3
<1>11. CASE WorkerSuspend(q)
  <2>1. worker[q].pc = "suspend" /\ UNCHANGED <<stopping, terminated>>
    BY <1>11 DEF WorkerSuspend
  <2>2. \A p \in PR : ~WorkerAttends(q, p)
    BY <1>3, <2>1 DEF WorkerAttends, Handshakes
  <2>3. CASE UNCHANGED <<head, attended, tasks>>
    BY <1>5, <2>1, <2>2, <2>3
  <2>4. CASE \E n \in Successor(q, worker[q].task.pr) :
               /\ DequeueActive(q, worker[q].task.pr, n)
               /\ IF NewFirst(q, n) = None
                  THEN UNCHANGED <<tasks, panics>>
                  ELSE Schedule(q, Process(n), "process")
    <3>1. PICK n : /\ n \in Successor(q, worker[q].task.pr)
                   /\ head' = [head EXCEPT ![q] = n]
                   /\ attended' = [attended EXCEPT ![q] = @ /\ n = head[q]]
                   /\ IF NewFirst(q, n) = None
                      THEN UNCHANGED <<tasks, panics>>
                      ELSE Schedule(q, Process(n), "process")
      BY <2>4 DEF DequeueActive
    <3>2. /\ head'[q] = n
          /\ \A r \in QueueId \ {q} : attended'[r] = attended[r]
          /\ n = head[q] => attended'[q] = attended[q]
      BY <3>1 DEF TypeOK
    <3>3. CASE n \in PR /\ n # head[q]
      <4>1. Schedule(q, Process(n), "process")
        BY <1>3, <3>1, <3>3 DEF NewFirst
      <4> QED
        BY <1>4, <2>1, <3>2, <3>3, <4>1, ScheduleAttends
    <3>4. CASE ~(n \in PR /\ n # head[q])
      <4>1. n \in PR \union {None}
        BY <3>1, QueueAssumption DEF Successor, TypeOK
      <4>2. UNCHANGED tasks
        BY <3>1, <3>4, <4>1 DEF NewFirst
      <4>3. \A r \in QueueId, p \in PR : Scheduled(r, p) => Scheduled(r, p)'
        BY <4>2 DEF Scheduled
      <4> QED
        BY <1>4, <2>1, <2>2, <3>2, <3>4, <4>3
    <3> QED
      BY <3>3, <3>4
  <2> QED
    BY <1>11, <2>3, <2>4 DEF WorkerSuspend
<1>12. CASE WorkerDequeue(q)
  <2> DEFINE x == worker[q].task.pr
  <2>1. worker[q].pc = "dequeue" /\ UNCHANGED <<stopping, terminated, tasks>>
    BY <1>12 DEF WorkerDequeue
  <2>2. \A p \in PR : ~WorkerAttends(q, p)
    BY <1>3, <2>1 DEF WorkerAttends, Handshakes
  <2>3. PICK n \in PR \union {None} :
          /\ Dequeue(q, x, n)
          /\ worker' = [worker EXCEPT ![q].pc = IF InActive(q, x) THEN "cancel" ELSE "finish",
                                      ![q].next = NewFirst(q, n)]
    BY <1>12 DEF WorkerDequeue
  <2>4. worker'[q].next = NewFirst(q, n)
    BY <1>0, <2>3 DEF WorkerRecord
  <2>5. /\ head'[q] = n
        /\ \A r \in QueueId \ {q} : attended'[r] = attended[r]
        /\ n = head[q] => attended'[q] = attended[q]
    BY <2>3 DEF Dequeue, DequeueActive, TypeOK
  <2>6. \A r \in QueueId, p \in PR : Scheduled(r, p) => Scheduled(r, p)'
    BY <2>1 DEF Scheduled
  <2>7. n # head[q] => WorkerAttends(q, n)'
    BY <2>4 DEF WorkerAttends, NewFirst
  <2> QED
    BY <1>4, <2>1, <2>2, <2>5, <2>6, <2>7
<1>13. CASE WorkerCancel(q)
  <2>1. worker[q].pc = "cancel" /\ UNCHANGED <<stopping, terminated, attended, head, tasks>>
    BY <1>13 DEF WorkerCancel, queueVars
  <2>2. worker'[q].next = worker[q].next
    BY <1>0, <1>13 DEF WorkerCancel, WorkerRecord
  <2> QED
    BY <1>5, <2>1, <2>2 DEF WorkerAttends
<1>14. CASE WorkerSchedule(q)
  <2>1. /\ worker[q].pc = "schedule" /\ worker[q].next \in PR
        /\ Schedule(q, Process(worker[q].next), "process")
        /\ UNCHANGED <<stopping, terminated, attended, head>>
    BY <1>14 DEF WorkerSchedule, WorkerShape, queueVars
  <2>2. \A p \in PR : WorkerAttends(q, p) => p = worker[q].next
    BY <2>1 DEF WorkerAttends
  <2>3. PICK x \in PR : x = worker[q].next
    BY <2>1
  <2>4. Schedule(q, Process(x), "process")
    BY <2>1, <2>3
  <2>5. /\ \A r \in QueueId, p \in PR : Scheduled(r, p) => Scheduled(r, p)'
        /\ ~terminated[q] => Scheduled(q, x)'
    BY <2>4, ScheduleAttends
  <2> QED
    BY <1>4, <2>1, <2>2, <2>3, <2>5
<1> QED
  BY <1>6, <1>7, <1>8, <1>9, <1>10, <1>11, <1>12, <1>13, <1>14
  DEF WorkerStep, WorkerUnsuspend, WorkerEnqueue, OnlyProcesses

\* The event loop attends to the first PR of the queue it works on, or schedules it.
LEMMA LoopKeepsFirsts ==
    ASSUME Shape, Lists, WantedInvariant, Handshakes, FirstsAreAttended, LoopStep
    PROVE  FirstsAreAttended'
<1> USE DEF Shape
<1>0. /\ loop \in LoopRecord /\ worker \in [QueueId -> WorkerRecord]
      /\ \A p \in PR : p # None
      /\ UNCHANGED <<stopping, handler>>
  BY QueueAssumption
  DEF TypeOK, LoopStep, LoopNext, LoopRemove, LoopCancel, LoopSchedule, LoopCheckEmpty, LoopClose,
      LoopDrained, LoopMove, LoopTrigger, LoopResume, LoopUnsuspend, LoopEnqueue, LoopResumeAll,
      LoopProbe, LoopCheck, LoopDiscard, LoopStopCancel, LoopExit, StartOperation
<1>1. CASE stopping
  BY <1>0, <1>1 DEF FirstsAreAttended
<1>2. CASE ~stopping
  <2>1. /\ loop.op \notin {"stop", "probe"}
        /\ loop.pc \notin {"probe", "check", "discard", "stopCancel"}
    BY <1>2 DEF Handshakes, WantedInvariant, OnlyProcesses, ClosesEmpty, LoopShape
  <2>2. ASSUME \A q \in QueueId, p \in PR : /\ Scheduled(q, p) => Scheduled(q, p)'
                                            /\ head[q] = p /\ WorkerAttends(q, p)
                                                   => WorkerAttends(q, p)',
               \A q \in QueueId, p \in PR :
                   head'[q] = p /\ ~terminated'[q] /\ ~attended'[q] /\ ~paused'[q] =>
                       \/ Scheduled(q, p)' \/ LoopAttends(q, p)'
                       \/ /\ head[q] = p /\ ~terminated[q] /\ ~attended[q] /\ ~paused[q]
                          /\ LoopAttends(q, p) => Scheduled(q, p)' \/ LoopAttends(q, p)'
        PROVE  FirstsAreAttended'
    <3>1. \A q, p : HandlerAttends(q, p) => HandlerAttends(q, p)'
      BY <1>0 DEF HandlerAttends
    <3> QED
      BY <1>0, <2>2, <3>1, FirstsStayAttended DEF WillAttend
  <2>3. ASSUME UNCHANGED <<head, attended, tasks, worker, paused>>,
               \A q \in QueueId : ~terminated'[q] => ~terminated[q],
               \A q \in QueueId, p \in PR : head[q] = p /\ LoopAttends(q, p) => LoopAttends(q, p)'
        PROVE  FirstsAreAttended'
    <3>1. \A q, p : Scheduled(q, p) => Scheduled(q, p)'
      BY <2>3 DEF Scheduled
    <3>2. \A q, p : WorkerAttends(q, p) => WorkerAttends(q, p)'
      BY <2>3 DEF WorkerAttends
    <3> QED
      BY <2>2, <2>3, <3>1, <3>2
  <2>4. ASSUME loop.pc \notin {"cancel", "schedule", "trigger"}
        PROVE  \A q \in QueueId, p \in PR : ~LoopAttends(q, p)
    BY <1>0, <2>4 DEF LoopAttends, Handshakes
  <2>5. CASE LoopNext \/ LoopCheckEmpty \/ LoopDrained \/ LoopResume \/ LoopUnsuspend
    <3>1. /\ loop.pc \notin {"cancel", "schedule", "trigger"}
          /\ UNCHANGED <<head, attended, tasks, worker, paused, terminated>>
      BY <2>5
      DEF LoopNext, LoopCheckEmpty, LoopDrained, LoopResume, LoopUnsuspend, queueVars
    <3> QED
      BY <2>3, <2>4, <3>1
  <2>6. CASE LoopClose
    <3>1. /\ loop.pc = "close" /\ terminated' = [terminated EXCEPT ![loop.q] = TRUE]
          /\ UNCHANGED <<head, attended, tasks, worker, paused>>
      BY <2>6 DEF LoopClose
    <3>2. \A q \in QueueId : ~terminated'[q] => ~terminated[q]
      BY <3>1 DEF TypeOK
    <3> QED
      BY <2>3, <2>4, <3>1, <3>2
  <2>7. CASE LoopRemove
    <3>0. PICK q \in QueueId, x \in PR : q = loop.q /\ x = loop.pr
      BY <2>7 DEF LoopRemove, LoopShape
    <3>1. PICK n \in PR \union {None} :
            /\ Dequeue(q, x, n)
            /\ loop' = [loop EXCEPT !.pc = IF InActive(q, x) THEN "cancel" ELSE "empty",
                                   !.next = NewFirst(q, n),
                                   !.to = IF x \in active[q] \union suspended[q] THEN @ ELSE None]
      BY <2>7, <3>0 DEF LoopRemove
    <3>2. loop'.next = NewFirst(q, n) /\ loop'.q = q
      BY <1>0, <3>0, <3>1 DEF LoopRecord
    <3>3. loop.pc = "remove" /\ UNCHANGED <<paused, terminated, tasks, worker>>
      BY <2>7 DEF LoopRemove
    <3>4. /\ head'[q] = n
          /\ \A r \in QueueId \ {q} : attended'[r] = attended[r] /\ head'[r] = head[r]
          /\ n = head[q] => attended'[q] = attended[q]
      BY <3>1, <3>3 DEF Dequeue, DequeueActive, TypeOK
    <3>5. \A r \in QueueId, p \in PR : /\ Scheduled(r, p) => Scheduled(r, p)'
                                       /\ WorkerAttends(r, p) => WorkerAttends(r, p)'
      BY <3>3 DEF Scheduled, WorkerAttends
    <3>6. n # head[q] => LoopAttends(q, n)'
      BY <3>2 DEF LoopAttends, NewFirst
    <3>7. \A r \in QueueId, p \in PR : ~LoopAttends(r, p)
      BY <2>4, <3>3
    <3> QED
      BY <2>2, <3>3, <3>4, <3>5, <3>6, <3>7
  <2>8. CASE LoopCancel
    <3>1. /\ loop.q \in QueueId /\ loop.pc = "cancel" /\ worker' = Cancel(loop.q, loop.pr)
          /\ loop' = [loop EXCEPT !.pc = IF loop.next = None THEN "empty" ELSE "schedule"]
          /\ UNCHANGED <<head, attended, tasks, paused, terminated>>
      BY <2>8 DEF LoopCancel, LoopGoto, LoopShape, queueVars
    <3>2. loop'.q = loop.q /\ loop'.next = loop.next
      BY <1>0, <3>1 DEF LoopRecord
    <3>3. \A r \in QueueId, p \in PR : /\ Scheduled(r, p) => Scheduled(r, p)'
                                       /\ LoopAttends(r, p) => LoopAttends(r, p)'
      BY <3>1, <3>2 DEF Scheduled, LoopAttends
    <3>4. ASSUME NEW r \in QueueId, NEW p \in PR, head[r] = p, WorkerAttends(r, p)
          PROVE  WorkerAttends(r, p)'
      <4>1. /\ worker'[r].pc = worker[r].pc /\ worker'[r].task = worker[r].task
            /\ worker'[r].next = worker[r].next
        BY <3>1, CancelType
      <4>2. p \in active[r]
        BY <1>0, <3>4 DEF Lists, HeadIsActive
      <4>3. r = loop.q => p # loop.pr
        BY <3>1, <4>2 DEF Handshakes
      <4>4. worker[r].task = Process(p) => worker'[r].cancelled = worker[r].cancelled
        BY <1>0, <3>1, <4>3 DEF Cancel, Process, WorkerRecord
      <4> QED
        BY <3>4, <4>1, <4>4 DEF WorkerAttends
    <3> QED
      BY <2>2, <3>1, <3>3, <3>4
  <2>9. CASE LoopSchedule
    <3>1. /\ loop.q \in QueueId /\ loop.next \in PR /\ loop.pc = "schedule"
          /\ Schedule(loop.q, Process(loop.next), "process")
          /\ UNCHANGED <<head, attended, paused, terminated, worker>>
      BY <2>9 DEF LoopSchedule, LoopShape, queueVars
    <3>2. PICK q \in QueueId, x \in PR : q = loop.q /\ x = loop.next
      BY <3>1
    <3>3. Schedule(q, Process(x), "process")
      BY <3>1, <3>2
    <3>4. /\ \A r \in QueueId, p \in PR : Scheduled(r, p) => Scheduled(r, p)'
          /\ ~terminated[q] => Scheduled(q, x)'
      BY <3>3, ScheduleAttends
    <3>5. \A r \in QueueId, p \in PR : LoopAttends(r, p) => r = q /\ p = x
      BY <3>1, <3>2 DEF LoopAttends
    <3>6. \A r, p : WorkerAttends(r, p) => WorkerAttends(r, p)'
      BY <3>1 DEF WorkerAttends
    <3> QED
      BY <2>2, <3>1, <3>4, <3>5, <3>6
  <2>10. CASE LoopTrigger
    <3>1. /\ loop.pc = "trigger"
          /\ UNCHANGED <<head, attended, tasks, worker, paused, terminated>>
      BY <2>10 DEF LoopTrigger, queueVars
    <3>2. ASSUME NEW q \in QueueId, NEW p \in PR, head[q] = p, LoopAttends(q, p)
          PROVE  LoopAttends(q, p)'
      <4>1. loop.q = q /\ head[q] # None
        BY <1>0, <3>2 DEF LoopAttends
      <4>2. loop' = [loop EXCEPT !.pc = "schedule", !.next = head[loop.q]]
        BY <2>10, <4>1 DEF LoopTrigger
      <4>3. loop'.q = q /\ loop'.next = p
        BY <1>0, <3>2, <4>1, <4>2 DEF LoopRecord
      <4> QED
        BY <4>3 DEF LoopAttends
    <3> QED
      BY <2>3, <3>1, <3>2
  <2>11. CASE LoopMove
    <3>1. PICK b \in Branch, x \in PR : b = loop.to /\ x = loop.pr
      BY <2>11 DEF LoopMove, LoopShape
    <3>2. loop.pc = "move" /\ CoordinatorEnqueue(b, x) /\ UNCHANGED worker
      BY <2>11, <3>1 DEF LoopMove
    <3>3. \A r, p : WorkerAttends(r, p) => WorkerAttends(r, p)'
      BY <3>2 DEF WorkerAttends
    <3> QED
      BY <2>2, <2>4, <3>2, <3>3, CoordinatorEnqueueAttends
  <2>12. CASE LoopEnqueue
    <3>1. PICK q \in QueueId, x \in PR : q = loop.q /\ x = loop.pr
      BY <2>12 DEF LoopEnqueue, LoopShape
    <3>2. loop.pc = "enqueue" /\ Enqueue(q, x) /\ UNCHANGED <<worker, terminated, paused>>
      BY <2>12, <3>1 DEF LoopEnqueue
    <3>3. \A r, p : WorkerAttends(r, p) => WorkerAttends(r, p)'
      BY <3>2 DEF WorkerAttends
    <3> QED
      BY <2>2, <2>4, <3>2, <3>3, EnqueueAttends
  <2>13. CASE LoopResumeAll
    <3>1. PICK q \in QueueId : q = loop.q
      BY <2>13 DEF LoopResumeAll, LoopShape
    <3>2. loop.pc = "resumeAll" /\ UNCHANGED <<worker, terminated, paused>>
      BY <2>13 DEF LoopResumeAll
    <3>3. \A r, p : WorkerAttends(r, p) => WorkerAttends(r, p)'
      BY <3>2 DEF WorkerAttends
    <3>4. CASE UNCHANGED <<head, attended, tasks>>
      BY <2>3, <2>4, <3>2, <3>4
    <3>5. CASE \E p \in suspended[q] :
                  /\ head' = [head EXCEPT ![q] = p]
                  /\ attended' = [attended EXCEPT ![q] = FALSE]
                  /\ Schedule(q, Process(p), "process")
      <4>1. PICK x \in PR : /\ head' = [head EXCEPT ![q] = x]
                            /\ attended' = [attended EXCEPT ![q] = FALSE]
                            /\ Schedule(q, Process(x), "process")
        BY <3>5 DEF TypeOK
      <4>2. /\ \A r \in QueueId, p \in PR : Scheduled(r, p) => Scheduled(r, p)'
            /\ ~terminated[q] => Scheduled(q, x)'
        BY <4>1, ScheduleAttends
      <4>3. /\ head'[q] = x
            /\ \A r \in QueueId \ {q} : head'[r] = head[r] /\ attended'[r] = attended[r]
        BY <4>1 DEF TypeOK
      <4> QED
        BY <2>2, <2>4, <3>2, <3>3, <4>2, <4>3
    <3> QED
      BY <2>13, <3>1, <3>4, <3>5 DEF LoopResumeAll
  <2> QED
    BY <1>2, <2>1, <2>5, <2>6, <2>7, <2>8, <2>9, <2>10, <2>11, <2>12, <2>13
    DEF LoopStep, LoopProbe, LoopCheck, LoopDiscard, LoopStopCancel, LoopExit
<1> QED
  BY <1>1, <1>2

\* A handler leaves the first PR to the worker once it has scheduled it, or pauses the queue.
LEMMA HandlerKeepsFirsts ==
    ASSUME Shape, Handshakes, FirstsAreAttended, NEW h \in Handler,
           HandlerStep(h) \/ HandlerRequest(h)
    PROVE  FirstsAreAttended'
<1> USE DEF Shape
<1>0. /\ handler \in [Handler -> HandlerRecord] /\ handler[h] \in HandlerRecord
      /\ \A p \in PR : p # None
  BY QueueAssumption DEF TypeOK
<1>1. ASSUME NEW r, handler' = [handler EXCEPT ![h] = r],
             UNCHANGED <<stopping, terminated, attended, head, loop>>,
             \A q \in QueueId, p \in PR :
                 head[q] = p /\ ~terminated[q] /\ ~paused'[q] =>
                     /\ Scheduled(q, p) => Scheduled(q, p)'
                     /\ WorkerAttends(q, p) => WorkerAttends(q, p)'
                     /\ \/ paused[q] /\ r.q = q /\ r.pc = "first"
                        \/ /\ ~paused[q]
                           /\ /\ handler[h].q = q
                              /\ handler[h].pc = "first" \/ handler[h].next = p
                              => (Scheduled(q, p)' \/ (r.q = q /\ r.next = p))
      PROVE  FirstsAreAttended'
  <2>1. handler'[h] = r /\ \A g \in Handler \ {h} : handler'[g] = handler[g]
    BY <1>0, <1>1
  <2>2. \A q, p : LoopAttends(q, p) => LoopAttends(q, p)'
    BY <1>1 DEF LoopAttends
  <2>3. ASSUME NEW q \in QueueId, NEW p \in PR, head[q] = p, ~terminated[q], ~paused'[q]
        PROVE  \/ WillAttend(q, p)'
               \/ ~paused[q] /\ (WillAttend(q, p) => WillAttend(q, p)')
    <3>1. CASE paused[q]
      BY <1>1, <2>1, <2>3, <3>1 DEF WillAttend, HandlerAttends
    <3>2. CASE ~paused[q]
      <4>1. HandlerAttends(q, p) => Scheduled(q, p)' \/ HandlerAttends(q, p)'
        BY <1>1, <2>1, <2>3, <3>2 DEF HandlerAttends
      <4> QED
        BY <1>1, <2>2, <2>3, <3>2, <4>1 DEF WillAttend
    <3> QED
      BY <3>1, <3>2
  <2> QED
    BY <1>1, <2>3, FirstsStayAttended
<1>2. ASSUME UNCHANGED <<tasks, worker>>
      PROVE  \A q, p : /\ Scheduled(q, p) => Scheduled(q, p)'
                       /\ WorkerAttends(q, p) => WorkerAttends(q, p)'
  BY <1>2 DEF Scheduled, WorkerAttends
<1>3. handler[h].pc # "schedule" => handler[h].next = None
  BY DEF Handshakes
<1>4. CASE HandlerPause(h)
  <2>1. PICK r : r = [handler[h] EXCEPT !.pc = "cancel"]
    OBVIOUS
  <2>2. /\ handler[h].pc = "pause" /\ handler[h].q \in QueueId
        /\ handler' = [handler EXCEPT ![h] = r]
        /\ paused' = [paused EXCEPT ![handler[h].q] = TRUE]
        /\ UNCHANGED <<stopping, terminated, attended, head, loop, tasks, worker>>
    BY <1>4, <2>1 DEF HandlerPause, HandlerShape
  <2>3. \A q \in QueueId : ~paused'[q] => ~paused[q]
    BY <2>2 DEF TypeOK
  <2> QED
    BY <1>0, <1>1, <1>2, <1>3, <2>2, <2>3
<1>5. CASE HandlerCancel(h)
  <2>1. /\ handler[h].pc = "cancel" /\ handler[h].q \in QueueId /\ paused[handler[h].q]
        /\ handler' = [handler EXCEPT ![h] = HandlerIdle]
        /\ worker' = CancelAny(handler[h].q)
        /\ UNCHANGED <<stopping, terminated, attended, head, loop, tasks, paused>>
    BY <1>5 DEF HandlerCancel, HandlerShape, Handshakes, queueVars
  <2>2. ASSUME NEW q \in QueueId, NEW p \in PR, ~paused[q]
        PROVE  WorkerAttends(q, p) => WorkerAttends(q, p)'
    <3>1. q # handler[h].q
      BY <2>1, <2>2
    <3>2. worker'[q] = worker[q]
      BY <2>1, <3>1 DEF CancelAny, TypeOK
    <3> QED
      BY <3>2 DEF WorkerAttends
  <2>3. \A q, p : Scheduled(q, p) => Scheduled(q, p)'
    BY <2>1 DEF Scheduled
  <2>4. PICK r : r = HandlerIdle
    OBVIOUS
  <2>5. ASSUME NEW q \in QueueId, NEW p \in PR, ~paused[q]
        PROVE ~(handler[h].q = q /\ (handler[h].pc = "first" \/ handler[h].next = p))
    BY <1>0, <1>3, <2>1
  <2> QED
    BY <1>1, <2>1, <2>2, <2>3, <2>4, <2>5
<1>6. CASE HandlerUnpause(h)
  <2>1. PICK r : r = [handler[h] EXCEPT !.pc = "first"]
    OBVIOUS
  <2>2. /\ handler[h].pc = "resume" /\ handler[h].q \in QueueId
        /\ handler' = [handler EXCEPT ![h] = r]
        /\ paused' = [paused EXCEPT ![handler[h].q] = FALSE]
        /\ UNCHANGED <<stopping, terminated, attended, head, loop, tasks, worker>>
    BY <1>6, <2>1 DEF HandlerUnpause, HandlerShape
  <2>3. r.q = handler[h].q /\ r.pc = "first"
    BY <1>0, <2>1 DEF HandlerRecord
  <2>4. \A q \in QueueId : q # handler[h].q => paused'[q] = paused[q]
    BY <2>2 DEF TypeOK
  <2>5. \A p \in PR : handler[h].pc # "first" /\ handler[h].next # p
    BY <1>0, <1>3, <2>2
  <2> QED
    BY <1>1, <1>2, <2>2, <2>3, <2>4, <2>5
<1>7. CASE HandlerFirst(h)
  <2>1. /\ handler[h].pc = "first" /\ handler[h].q \in QueueId
        /\ UNCHANGED <<stopping, terminated, attended, head, loop, tasks, worker, paused>>
    BY <1>7 DEF HandlerFirst, HandlerShape, queueVars
  <2>2. CASE head[handler[h].q] = None
    <3>1. handler' = [handler EXCEPT ![h] = HandlerIdle]
      BY <1>7, <2>2 DEF HandlerFirst
    <3>2. PICK r : r = HandlerIdle
      OBVIOUS
    <3> QED
      BY <1>0, <1>1, <1>2, <2>1, <2>2, <3>1, <3>2
  <2>3. CASE head[handler[h].q] # None
    <3>1. PICK r : r = [handler[h] EXCEPT !.pc = "schedule", !.next = head[handler[h].q]]
      OBVIOUS
    <3>2. handler' = [handler EXCEPT ![h] = r]
      BY <1>7, <2>3, <3>1 DEF HandlerFirst
    <3>3. r.q = handler[h].q /\ r.next = head[handler[h].q]
      BY <1>0, <3>1 DEF HandlerRecord
    <3> QED
      BY <1>1, <1>2, <2>1, <3>2, <3>3
  <2> QED
    BY <2>2, <2>3
<1>8. CASE HandlerSchedule(h)
  <2>1. /\ handler[h].pc = "schedule" /\ handler[h].q \in QueueId /\ handler[h].next \in PR
        /\ handler' = [handler EXCEPT ![h] = HandlerIdle]
        /\ Schedule(handler[h].q, Process(handler[h].next), "request")
        /\ UNCHANGED <<stopping, terminated, attended, head, loop, worker, paused>>
    BY <1>8 DEF HandlerSchedule, HandlerShape, queueVars
  <2>2. PICK r : r = HandlerIdle
    OBVIOUS
  <2>3. PICK q \in QueueId, x \in PR : q = handler[h].q /\ x = handler[h].next
    BY <2>1
  <2>4. Schedule(q, Process(x), "request")
    BY <2>1, <2>3
  <2>5. /\ \A s \in QueueId, p \in PR : Scheduled(s, p) => Scheduled(s, p)'
        /\ ~terminated[q] => Scheduled(q, x)'
    BY <2>4, ScheduleAttends
  <2>6. \A s, p : WorkerAttends(s, p) => WorkerAttends(s, p)'
    BY <2>1 DEF WorkerAttends
  <2> QED
    BY <1>1, <2>1, <2>2, <2>3, <2>5, <2>6
<1>9. CASE HandlerRequest(h)
  <2>1. PICK r : handler' = [handler EXCEPT ![h] = r]
    BY <1>9 DEF HandlerRequest, HandlerLookup
  <2>2. /\ handler[h].pc = "idle"
        /\ UNCHANGED <<stopping, terminated, attended, head, loop, tasks, worker, paused>>
    BY <1>9 DEF HandlerRequest, HandlerLookup, queueVars
  <2>3. \A p \in PR : handler[h].pc # "first" /\ handler[h].next # p
    BY <1>0, <1>3, <2>2
  <2> QED
    BY <1>1, <1>2, <2>1, <2>2, <2>3
<1> QED
  BY <1>4, <1>5, <1>6, <1>7, <1>8, <1>9 DEF HandlerStep

\* Every step leaves the first PR of every queue to somebody.
LEMMA NextKeepsFirsts ==
    ASSUME Shape, Lists, WantedInvariant, Handshakes, FirstsAreAttended, [Next]_vars
    PROVE  FirstsAreAttended'
<1> USE DEF Shape
<1>1. ASSUME UNCHANGED <<terminated, attended, head, tasks, worker, handler, paused>>,
             stopping => stopping', loop.pc = "idle" \/ loop' = loop
      PROVE  FirstsAreAttended'
  <2>1. ASSUME NEW q \in QueueId, NEW p \in PR, WillAttend(q, p)
        PROVE  WillAttend(q, p)'
    <3>1. LoopAttends(q, p) => LoopAttends(q, p)'
      BY <1>1, QueueAssumption DEF LoopAttends, Handshakes
    <3> QED
      BY <1>1, <2>1, <3>1 DEF WillAttend, Scheduled, WorkerAttends, HandlerAttends
  <2> QED
    BY <1>1, <2>1, FirstsStayAttended
<1>2. ASSUME NEW b \in Branch, NEW x \in PR, OnEnqueue(b, x)
      PROVE  FirstsAreAttended'
  <2>1. CoordinatorEnqueue(b, x) /\ UNCHANGED <<worker, loop, handler, stopping>>
    BY <1>2 DEF OnEnqueue
  <2>2. \A q, p : /\ WorkerAttends(q, p) => WorkerAttends(q, p)'
                  /\ LoopAttends(q, p) => LoopAttends(q, p)'
                  /\ HandlerAttends(q, p) => HandlerAttends(q, p)'
    BY <2>1 DEF WorkerAttends, LoopAttends, HandlerAttends
  <2> QED
    BY <2>1, <2>2, CoordinatorEnqueueAttends, FirstsStayAttended DEF WillAttend
<1>3. ASSUME LoopEvent \/ PeriodicTrigger
      PROVE  FirstsAreAttended'
  <2>1. ASSUME NEW op, NEW pc, NEW b, NEW p, NEW to, NEW todo, loop.pc = "idle",
               StartOperation(op, pc, b, p, to, todo)
        PROVE  FirstsAreAttended'
    BY <1>1, <2>1 DEF StartOperation, queueVars
  <2>2. CASE CloseShutdownChan
    BY <1>1, <2>2 DEF CloseShutdownChan, queueVars
  <2> QED
    BY <1>2, <1>3, <2>1, <2>2
    DEF LoopEvent, PeriodicTrigger, OnDequeue, OnSynchronize, OnNegative, OnEdited, OnPositive,
        OnPush, OnTick, Receive
<1>4. ASSUME NEW q \in QueueId, LookupDuringMapWrite(q)
      PROVE  FirstsAreAttended'
  BY <1>1, <1>4 DEF LookupDuringMapWrite, queueVars
<1>5. CASE UNCHANGED vars
  BY <1>1, <1>5 DEF vars
<1>6. OnlyProcesses
  BY DEF WantedInvariant
<1> QED
  BY <1>3, <1>4, <1>5, <1>6, WorkerKeepsFirsts, LoopKeepsFirsts, HandlerKeepsFirsts DEF Next, Ended

\* In the initial state all queues are closed and nobody does anything.
LEMMA InitAttended == Init => AttendedInvariant
<1> SUFFICES ASSUME Init PROVE AttendedInvariant
  OBVIOUS
<1>1. Handshakes
  BY DEF Init, Handshakes, WorkerIdle, LoopIdle, HandlerIdle
<1>2. FirstsAreAttended
  BY DEF Init, FirstsAreAttended
<1> QED
  BY <1>1, <1>2 DEF AttendedInvariant

\* The three parts together are an inductive invariant.
LEMMA AttendedIsInductive ==
    ASSUME "positive" \notin Events, OneResume
    PROVE  /\ Init => Invariant /\ WantedInvariant /\ AttendedInvariant
           /\ Invariant /\ WantedInvariant /\ AttendedInvariant /\ [Next]_vars
                  => (Invariant /\ WantedInvariant /\ AttendedInvariant)'
  BY InitAttended, WantedIsInductive, NextKeepsHandshakes, NextKeepsFirsts
  DEF Invariant, AttendedInvariant

\* Whoever attends to the first PR of a queue processes it.
LEMMA AttendedImplies ==
    ASSUME Invariant, AttendedInvariant
    PROVE  HeadIsAttended
<1> SUFFICES ASSUME ~stopping, NEW q \in QueueId, ~terminated[q], head[q] # None, ~attended[q]
             PROVE  paused[q] \/ WillProcess(q, head[q])
  BY DEF HeadIsAttended
<1>1. PICK p \in PR : p = head[q]
  BY DEF Invariant, Shape, TypeOK
<1>2. paused[q] \/ WillAttend(q, p)
  BY <1>1 DEF AttendedInvariant, FirstsAreAttended
<1>3. WillAttend(q, p) => WillProcess(q, p)
  BY DEF WillAttend, Scheduled, WorkerAttends, LoopAttends, HandlerAttends, WillProcess
<1> QED
  BY <1>1, <1>2, <1>3

\* Without positive events, and when no queue is resumed while another request pauses it,
\* whoever becomes first in a queue was evaluated since or will be without any further
\* event (queue.go:286-299, 352).
THEOREM HeadAttended ==
    ASSUME "positive" \notin Events, OneResume
    PROVE  SafetySpec => []HeadIsAttended
<1>1. /\ Init => Invariant /\ WantedInvariant /\ AttendedInvariant
      /\ Invariant /\ WantedInvariant /\ AttendedInvariant /\ [Next]_vars
             => (Invariant /\ WantedInvariant /\ AttendedInvariant)'
  BY AttendedIsInductive
<1>2. Invariant /\ WantedInvariant /\ AttendedInvariant => HeadIsAttended
  BY AttendedImplies
<1> QED
  BY <1>1, <1>2, PTL DEF SafetySpec
=============================================================================
