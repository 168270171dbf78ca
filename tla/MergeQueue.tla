----------------------------- MODULE MergeQueue -----------------------------
(***************************************************************************)
(* The merge queues of src/internal/mergequeue: queue.go and the           *)
(* coordinator's handling of their life cycle (coordinator.go).            *)
(*                                                                         *)
(* The go-routines and what they share:                                    *)
(*   - the event loop processes one webhook event or periodic trigger at a *)
(*     time and holds queuesLock while it uses a queue; it creates queues, *)
(*     closes the empty ones and, at shutdown, its place is taken by       *)
(*     Coordinator.Stop;                                                   *)
(*   - each queue has an actionPool of one worker that executes tasks in   *)
(*     FIFO order (modules Pool and WorkQueue); it never takes queuesLock; *)
(*   - HTTP handlers pause and resume a queue.  They hold queuesLock only  *)
(*     to look up the queue and keep using the pointer afterwards.         *)
(*                                                                         *)
(* A step is one critical section of queue.lock, one access to an atomic   *)
(* (paused, executing), or one call on the pool.  GitHub requests take     *)
(* time between steps; what they return is a choice.  queue.suspend keeps  *)
(* queue.lock for its whole body and is one step.                          *)
(*                                                                         *)
(* Of the ordered map of active PRs only the first element and the set of  *)
(* the others is kept: which one follows the first depends on priorities,  *)
(* the wall clock and suspend counts (queue.go:1156), so any may follow.   *)
(* That inserting and sorting never replace the first element is the       *)
(* subject of module ActiveOrder.                                          *)
(***************************************************************************)
EXTENDS Naturals, Sequences, FiniteSets

CONSTANTS
    Branch,     \* base branches of monitored repositories
    PR,         \* pull request numbers
    QueueId,    \* identities of queue objects; unreachable ones are reused
    Handler,    \* HTTP request go-routines
    None,       \* nil
    Events,     \* kinds of webhook events that arrive (bound)
    Requests,   \* kinds of HTTP requests that arrive (bound)
    MayStop,    \* TRUE iff the program may be asked to terminate (bound)
    MaxTasks    \* no event or request is taken when a pool holds this many tasks (bound)

EventKinds == {"enqueue", "dequeue", "edited", "synchronize", "negative",
               "positive", "push", "tick"}

ASSUME QueueAssumption ==
    /\ None \notin Branch \union PR \union QueueId
    /\ Events \subseteq EventKinds
    /\ Requests \subseteq {"pause", "resume"}
    /\ MayStop \in BOOLEAN
    /\ MaxTasks \in Nat \ {0}

VARIABLES
    queues,     \* Coordinator.queues: [Branch -> QueueId or None]
    active,     \* the numbers in queue.active
    head,       \* the first element of queue.active, None if it is empty
    suspended,  \* the numbers in queue.suspended
    paused,     \* queue.paused
    terminated, \* Pool.terminate of queue.actionPool
    tasks,      \* functions in the pool that were not received by its worker
    worker,     \* what the pool's worker is doing
    loop,       \* what the event loop, later Coordinator.Stop, is doing
    handler,    \* what each HTTP handler is doing
    stopping,   \* Coordinator.shutdownChan is closed
    panics,     \* panics that happened; "process" and "map" end the program
    attended,   \* history: the current head of the queue has been evaluated
    wanted      \* history: PRs enqueued for a branch and not dequeued since

vars == <<queues, active, head, suspended, paused, terminated, tasks, worker,
          loop, handler, stopping, panics, attended, wanted>>

Task == [kind : {"process", "resume"}, pr : PR]
NoTask == [kind |-> "none", pr |-> None]
Process(p) == [kind |-> "process", pr |-> p]
ResumeIfPositive(p) == [kind |-> "resume", pr |-> p]

WorkerIdle == [pc |-> "idle", task |-> NoTask, cancelled |-> FALSE, next |-> None]
LoopIdle == [pc |-> "idle", op |-> "none", q |-> None, branch |-> None, pr |-> None,
             next |-> None, to |-> None, todo |-> {}]
HandlerIdle == [pc |-> "idle", q |-> None, next |-> None]

Init ==
    /\ queues = [b \in Branch |-> None]
    /\ active = [q \in QueueId |-> {}]
    /\ head = [q \in QueueId |-> None]
    /\ suspended = [q \in QueueId |-> {}]
    /\ paused = [q \in QueueId |-> FALSE]
    /\ terminated = [q \in QueueId |-> TRUE]
    /\ tasks = [q \in QueueId |-> <<>>]
    /\ worker = [q \in QueueId |-> WorkerIdle]
    /\ loop = LoopIdle
    /\ handler = [h \in Handler |-> HandlerIdle]
    /\ stopping = FALSE
    /\ panics = {}
    /\ attended = [q \in QueueId |-> FALSE]
    /\ wanted = [b \in Branch |-> {}]

-----------------------------------------------------------------------------
(* Helpers.                                                                *)

Running == panics \intersect {"process", "map"} = {}

\* queuesLock is free between the coordinator's operations.
QueuesLockFree == loop.pc \in {"idle", "move", "resume", "stopped"}

\* Faulty variant: the worker announces itself after it looked at queue.paused.
AnnouncedLate(q) == worker[q].pc \notin {"idle", "start", "gate", "first"}

\* The worker's task is published as runningOperation in queue.executing.
Executing(q) == worker[q].pc \notin {"idle", "start"}

Evaluating(q) == worker[q].pc = "evaluate" /\ worker[q].task.kind = "process"

\* Faulty variant: the suspended PRs are forgotten.
NoActive(q) == active[q] = {}

\* queue.IsEmpty()
IsEmpty(q) == active[q] = {} /\ suspended[q] = {}

\* Pool.Queue(): panics in the calling go-routine when the pool was closed.
Schedule(q, t, panic) ==
    IF terminated[q]
    THEN /\ panics' = panics \union {panic}
         /\ UNCHANGED tasks
    ELSE /\ tasks' = [tasks EXCEPT ![q] = Append(@, t)]
         /\ UNCHANGED panics

\* The candidates for the first element once p is removed from the active PRs.
Successor(q, p) ==
    IF p # head[q] THEN {head[q]}
    ELSE IF active[q] \ {p} = {} THEN {None} ELSE active[q] \ {p}

\* _dequeueActive(): p leaves the active PRs and n is first afterwards.
DequeueActive(q, p, n) ==
    /\ n \in Successor(q, p)
    /\ active' = [active EXCEPT ![q] = @ \ {p}]
    /\ head' = [head EXCEPT ![q] = n]
    /\ attended' = [attended EXCEPT ![q] = @ /\ n = head[q]]

\* Faulty variant: a change of the first element goes unnoticed.
NoNewFirst(q, n) == None

\* The newFirstPr result of _dequeueActive().
NewFirst(q, n) == IF n = head[q] THEN None ELSE n

\* queue.Dequeue() looks for p among the suspended PRs first.
InActive(q, p) == p \in active[q] \ suspended[q]

Dequeue(q, p, n) ==
    IF InActive(q, p)
    THEN /\ DequeueActive(q, p, n)
         /\ UNCHANGED suspended
    ELSE /\ n = head[q]
         /\ suspended' = [suspended EXCEPT ![q] = @ \ {p}]
         /\ UNCHANGED <<active, head, attended>>

\* _enqueueActive(): a PR that becomes the first one is scheduled for processing.
EnqueueActive(q, p) ==
    IF p \in active[q]
    THEN UNCHANGED <<active, head, tasks, panics, attended>>
    ELSE /\ active' = [active EXCEPT ![q] = @ \union {p}]
         /\ IF head[q] = None
            THEN /\ head' = [head EXCEPT ![q] = p]
                 /\ attended' = [attended EXCEPT ![q] = FALSE]
                 /\ Schedule(q, Process(p), "process")
            ELSE UNCHANGED <<head, tasks, panics, attended>>

\* queue.Enqueue()
Enqueue(q, p) ==
    IF p \in suspended[q]
    THEN UNCHANGED <<active, head, tasks, panics, attended>>
    ELSE EnqueueActive(q, p)

\* Faulty variant: the running operation is not cancelled.
NotCancelled(q, p) == worker

\* The worker records after cancelActionForPR(p), resp. after cancelling whatever runs.
Cancel(q, p) ==
    [worker EXCEPT ![q].cancelled = @ \/ (Executing(q) /\ worker[q].task.pr = p)]
CancelAny(q) ==
    [worker EXCEPT ![q].cancelled = @ \/ Executing(q)]

WorkerGoto(q, pc) == worker' = [worker EXCEPT ![q].pc = pc]

BranchesOf(q) == {b \in Branch : queues[b] = q}

queueVars == <<active, head, suspended, paused, terminated, attended>>

-----------------------------------------------------------------------------
(* The worker of a queue: scheduleProcessPR()'s function, processPR().     *)

WorkerTake(q) ==
    /\ worker[q].pc = "idle"
    /\ tasks[q] # <<>>
    /\ worker' = [worker EXCEPT ![q] = [WorkerIdle EXCEPT !.pc = "start",
                                                          !.task = Head(tasks[q])]]
    /\ tasks' = [tasks EXCEPT ![q] = Tail(@)]
    /\ UNCHANGED <<queues, queueVars, loop, handler, stopping, panics, wanted>>

\* setExecuting(&runningOperation{...})
WorkerSetExecuting(q) ==
    /\ worker[q].pc = "start"
    /\ WorkerGoto(q, IF worker[q].task.kind = "process" THEN "gate" ELSE "lookup")
    /\ UNCHANGED <<queues, queueVars, tasks, loop, handler, stopping, panics, wanted>>

\* if q.IsPaused() { return }
WorkerCheckPaused(q) ==
    /\ worker[q].pc = "gate"
    /\ WorkerGoto(q, IF paused[q] THEN "finish" ELSE "first")
    /\ UNCHANGED <<queues, queueVars, tasks, loop, handler, stopping, panics, wanted>>

\* if ctx.Err() != nil { return }; if !q.isFirstActive(pr) { return }
WorkerCheckFirst(q) ==
    LET go == ~worker[q].cancelled /\ head[q] = worker[q].task.pr
    IN /\ worker[q].pc = "first"
       /\ WorkerGoto(q, IF go THEN "evaluate" ELSE "finish")
       /\ attended' = [attended EXCEPT ![q] = @ \/ go]
       /\ UNCHANGED <<queues, active, head, suspended, paused, terminated, tasks, loop,
                      handler, stopping, panics, wanted>>

\* evalPRAction() and the actions on GitHub and the CI server.  They end in suspending
\* or dequeuing the PR or leave it in place; a canceled evaluation may have been
\* complete before it was canceled.
WorkerEvaluate(q) ==
    /\ Evaluating(q)
    /\ \E pc \in {"suspend", "dequeue", "finish"} : WorkerGoto(q, pc)
    /\ UNCHANGED <<queues, queueVars, tasks, loop, handler, stopping, panics, wanted>>

\* queue.suspend(), by number; ErrNotFound when the PR is not active anymore.
WorkerSuspend(q) ==
    LET p == worker[q].task.pr IN
    /\ worker[q].pc = "suspend"
    /\ worker' = [worker EXCEPT ![q].pc = "finish", ![q].cancelled = TRUE]
    /\ IF p \in active[q]
       THEN \E n \in Successor(q, p) :
               /\ DequeueActive(q, p, n)
               /\ suspended' = [suspended EXCEPT ![q] = @ \union {p}]
               /\ IF NewFirst(q, n) = None
                  THEN UNCHANGED <<tasks, panics>>
                  ELSE Schedule(q, Process(n), "process")
       ELSE UNCHANGED <<active, head, suspended, tasks, panics, attended>>
    /\ UNCHANGED <<queues, paused, terminated, loop, handler, stopping, wanted>>

\* Faulty variant: the worker dequeues through the coordinator, which takes queuesLock.
WorkerDequeueViaCoordinator(q) ==
    /\ worker[q].pc = "dequeue"
    /\ QueuesLockFree
    /\ WorkerGoto(q, "finish")
    /\ UNCHANGED <<queues, queueVars, tasks, loop, handler, stopping, panics, wanted>>

\* The part of queue.Dequeue() under queue.lock.
WorkerDequeue(q) ==
    LET p == worker[q].task.pr IN
    /\ worker[q].pc = "dequeue"
    /\ wanted' = [b \in Branch |-> IF queues[b] = q THEN wanted[b] \ {p} ELSE wanted[b]]
    /\ \E n \in PR \union {None} :
          /\ Dequeue(q, p, n)
          /\ worker' = [worker EXCEPT ![q].pc = IF InActive(q, p) THEN "cancel" ELSE "finish",
                                      ![q].next = NewFirst(q, n)]
    /\ UNCHANGED <<queues, paused, terminated, tasks, loop, handler, stopping, panics>>

\* The rest of queue.Dequeue(): cancel the operation (its own), then the requests that
\* change label and status, then schedule the PR that was seen to become first.
WorkerCancel(q) ==
    /\ worker[q].pc = "cancel"
    /\ worker' = [worker EXCEPT ![q].cancelled = TRUE,
                                ![q].pc = IF worker[q].next = None THEN "finish"
                                                                   ELSE "schedule"]
    /\ UNCHANGED <<queues, queueVars, tasks, loop, handler, stopping, panics, wanted>>

WorkerSchedule(q) ==
    /\ worker[q].pc = "schedule"
    /\ Schedule(q, Process(worker[q].next), "process")
    /\ worker' = [worker EXCEPT ![q].pc = "finish", ![q].next = None]
    /\ UNCHANGED <<queues, queueVars, loop, handler, stopping, wanted>>

\* setExecuting(nil)
WorkerFinish(q) ==
    /\ worker[q].pc = "finish"
    /\ worker' = [worker EXCEPT ![q] = WorkerIdle]
    /\ UNCHANGED <<queues, queueVars, tasks, loop, handler, stopping, panics, wanted>>

-----------------------------------------------------------------------------
(* The worker: ScheduleProcessPRIfStatusPositive()'s function.             *)

\* resumeIfPRMergeStatusPositive() reads the map q.suspended without queue.lock.
WorkerLookup(q) ==
    /\ worker[q].pc = "lookup"
    /\ WorkerGoto(q, IF worker[q].task.pr \in suspended[q] THEN "status" ELSE "finish")
    /\ UNCHANGED <<queues, queueVars, tasks, loop, handler, stopping, panics, wanted>>

\* That read overlaps with a write of the map by the event loop: Go's map implementation
\* ends the program when it notices.
LookupDuringMapWrite(q) ==
    /\ worker[q].pc = "lookup"
    /\ loop.q = q
    /\ \/ loop.pc \in {"remove", "unsuspend"} /\ loop.pr \in suspended[q]
       \/ loop.pc = "resumeAll" /\ suspended[q] # {}
    /\ panics' = panics \union {"map"}
    /\ UNCHANGED <<queues, queueVars, tasks, worker, loop, handler, stopping, wanted>>

\* prReadyForMergeStatus(), the review decision and the CI status are positive or not.
WorkerStatus(q) ==
    /\ worker[q].pc = "status"
    /\ \E pc \in {"unsuspend", "finish"} : WorkerGoto(q, pc)
    /\ UNCHANGED <<queues, queueVars, tasks, loop, handler, stopping, panics, wanted>>

\* ResumePR(), first critical section: _dequeueSuspended().
WorkerUnsuspend(q) ==
    LET p == worker[q].task.pr IN
    /\ worker[q].pc = "unsuspend"
    /\ suspended' = [suspended EXCEPT ![q] = @ \ {p}]
    /\ WorkerGoto(q, IF p \in suspended[q] THEN "enqueue" ELSE "finish")
    /\ UNCHANGED <<queues, active, head, paused, terminated, attended, tasks, loop,
                   handler, stopping, panics, wanted>>

\* ResumePR(), second critical section: Enqueue().
WorkerEnqueue(q) ==
    /\ worker[q].pc = "enqueue"
    /\ Enqueue(q, worker[q].task.pr)
    /\ WorkerGoto(q, "finish")
    /\ UNCHANGED <<queues, suspended, paused, terminated, loop, handler, stopping, wanted>>

WorkerStep(q) ==
    /\ Running
    /\ \/ WorkerTake(q) \/ WorkerSetExecuting(q) \/ WorkerCheckPaused(q)
       \/ WorkerCheckFirst(q) \/ WorkerEvaluate(q) \/ WorkerSuspend(q)
       \/ WorkerDequeue(q) \/ WorkerCancel(q) \/ WorkerSchedule(q)
       \/ WorkerLookup(q) \/ WorkerStatus(q) \/ WorkerUnsuspend(q)
       \/ WorkerEnqueue(q) \/ WorkerFinish(q)

-----------------------------------------------------------------------------
(* The event loop: events.                                                 *)

Quiet == \A q \in QueueId : Len(tasks[q]) < MaxTasks

\* The loop receives an event of a kind; its first select case is not the shutdown.
Receive(kind) ==
    /\ kind \in Events
    /\ loop.pc = "idle"
    /\ Quiet

LoopGoto(pc) == loop' = [loop EXCEPT !.pc = pc]

\* A queue object that nothing points to anymore.
Unreachable(q) ==
    /\ \A b \in Branch : queues[b] # q
    /\ \A h \in Handler : handler[h].q # q
    /\ worker[q].pc = "idle"
    /\ tasks[q] = <<>>

\* Coordinator.Enqueue(): the branch's queue is created on demand, not paused.
CoordinatorEnqueue(b, p) ==
    \/ \E q \in QueueId :
          /\ queues[b] = q
          /\ Enqueue(q, p)
          /\ UNCHANGED <<queues, suspended, paused, terminated>>
    \/ /\ queues[b] = None
       /\ \E q \in QueueId :
             /\ Unreachable(q)
             /\ queues' = [queues EXCEPT ![b] = q]
             /\ active' = [active EXCEPT ![q] = {p}]
             /\ head' = [head EXCEPT ![q] = p]
             /\ suspended' = [suspended EXCEPT ![q] = {}]
             /\ paused' = [paused EXCEPT ![q] = FALSE]
             /\ terminated' = [terminated EXCEPT ![q] = FALSE]
             /\ tasks' = [tasks EXCEPT ![q] = <<Process(p)>>]
             /\ attended' = [attended EXCEPT ![q] = FALSE]
       /\ UNCHANGED panics

\* labeled, auto_merge_enabled; also what InitSync does for PRs found at startup.
OnEnqueue(b, p) ==
    /\ Receive("enqueue")
    /\ CoordinatorEnqueue(b, p)
    /\ wanted' = [wanted EXCEPT ![b] = @ \union {p}]
    /\ UNCHANGED <<worker, loop, handler, stopping>>

StartOperation(op, pc, b, p, to, todo) ==
    /\ loop' = [LoopIdle EXCEPT !.pc = pc, !.op = op, !.branch = b, !.pr = p, !.to = to,
                                !.todo = todo, !.q = IF b = None THEN None ELSE queues[b]]
    /\ UNCHANGED <<queues, queueVars, tasks, worker, handler, stopping, panics, wanted>>

\* closed, auto_merge_disabled, unlabeled
OnDequeue(b, p) ==
    /\ Receive("dequeue")
    /\ queues[b] # None
    /\ StartOperation("dequeue", "remove", b, p, None, {})

\* edited with a new base branch: ChangeBaseBranch()
OnEdited(b, to, p) ==
    /\ Receive("edited")
    /\ b # to
    /\ queues[b] # None
    /\ StartOperation("dequeue", "remove", b, p, to, {})

\* synchronize
OnSynchronize(b, p) ==
    /\ Receive("synchronize")
    /\ queues[b] # None
    /\ IF head[queues[b]] = p
       THEN StartOperation("trigger", "trigger", b, p, None, {})
       ELSE StartOperation("trigger", "resume", b, p, None, {})

\* A negative status, check run or review of a PR that is first in its queue.
OnNegative(b, p) ==
    /\ Receive("negative")
    /\ queues[b] # None
    /\ head[queues[b]] = p
    /\ StartOperation("trigger", "trigger", b, p, None, {})

\* A positive or pending status, check run or review: ResumeIfStatusPositive()
OnPositive(p) ==
    /\ Receive("positive")
    /\ StartOperation("probe", "next", None, p, None, {b \in Branch : queues[b] # None})

\* A push to a base branch.
OnPush(b) ==
    /\ Receive("push")
    /\ queues[b] # None
    /\ StartOperation("push", "trigger", b, None, None, {})

\* The periodic trigger.
OnTick ==
    /\ Receive("tick")
    /\ StartOperation("tick", "next", None, None, None, {b \in Branch : queues[b] # None})

-----------------------------------------------------------------------------
(* The event loop: the steps of its operations on queue loop.q.            *)

\* The next queue of an iteration over Coordinator.queues.
LoopNext ==
    /\ loop.pc = "next"
    /\ \/ /\ loop.todo = {}
          /\ loop' = IF loop.op = "stop" THEN [LoopIdle EXCEPT !.pc = "stopped"] ELSE LoopIdle
       \/ \E b \in loop.todo :
             loop' = [loop EXCEPT !.branch = b, !.q = queues[b], !.todo = @ \ {b},
                                  !.pc = CASE loop.op = "probe" -> "probe"
                                           [] loop.op = "tick" -> "empty"
                                           [] loop.op = "stop" -> "discard"]
    /\ UNCHANGED <<queues, queueVars, tasks, worker, handler, stopping, panics, wanted>>

\* The part of queue.Dequeue() under queue.lock; an error ends ChangeBaseBranch().
LoopRemove ==
    LET q == loop.q
        p == loop.pr
    IN
    /\ loop.pc = "remove"
    /\ wanted' = [wanted EXCEPT ![loop.branch] = @ \ {p}]
    /\ \E n \in PR \union {None} :
          /\ Dequeue(q, p, n)
          /\ loop' = [loop EXCEPT !.pc = IF InActive(q, p) THEN "cancel" ELSE "empty",
                                  !.next = NewFirst(q, n),
                                  !.to = IF p \in active[q] \union suspended[q] THEN @
                                                                               ELSE None]
    /\ UNCHANGED <<queues, paused, terminated, tasks, worker, handler, stopping, panics>>

LoopCancel ==
    /\ loop.pc = "cancel"
    /\ worker' = Cancel(loop.q, loop.pr)
    /\ LoopGoto(IF loop.next = None THEN "empty" ELSE "schedule")
    /\ UNCHANGED <<queues, queueVars, tasks, handler, stopping, panics, wanted>>

\* What follows a schedule step of the operation.
LoopSchedule ==
    /\ loop.pc = "schedule"
    /\ Schedule(loop.q, Process(loop.next), "process")
    /\ loop' = CASE loop.op = "dequeue" -> [loop EXCEPT !.pc = "empty", !.next = None]
                 [] loop.op = "push" -> [loop EXCEPT !.pc = "resumeAll", !.next = None]
                 [] loop.op = "tick" -> [loop EXCEPT !.pc = "next", !.next = None]
                 [] loop.op = "trigger" -> LoopIdle
    /\ UNCHANGED <<queues, queueVars, worker, handler, stopping, wanted>>

\* Faulty variant: the periodic trigger only removes empty queues.
LoopCheckEmptyOnly ==
    /\ loop.pc = "empty"
    /\ loop' = IF IsEmpty(loop.q) THEN [loop EXCEPT !.pc = "close"]
               ELSE IF loop.op = "tick" THEN [loop EXCEPT !.pc = "next"]
               ELSE IF loop.to # None THEN [loop EXCEPT !.pc = "move"]
               ELSE LoopIdle
    /\ UNCHANGED <<queues, queueVars, tasks, worker, handler, stopping, panics, wanted>>

\* if q.IsEmpty() { q.Wait(); delete }; the periodic trigger processes the others.
LoopCheckEmpty ==
    /\ loop.pc = "empty"
    /\ loop' = IF IsEmpty(loop.q) THEN [loop EXCEPT !.pc = "close"]
               ELSE IF loop.op = "tick" THEN [loop EXCEPT !.pc = "trigger"]
               ELSE IF loop.to # None THEN [loop EXCEPT !.pc = "move"]
               ELSE LoopIdle
    /\ UNCHANGED <<queues, queueVars, tasks, worker, handler, stopping, panics, wanted>>

\* Pool.Wait(): first no more work is accepted ...
LoopClose ==
    /\ loop.pc = "close"
    /\ terminated' = [terminated EXCEPT ![loop.q] = TRUE]
    /\ LoopGoto("drain")
    /\ UNCHANGED <<queues, active, head, suspended, paused, attended, tasks, worker,
                   handler, stopping, panics, wanted>>

\* ... and it returns when the work is done; then the queue is deleted from the map.
LoopDrained ==
    /\ loop.pc = "drain"
    /\ tasks[loop.q] = <<>>
    /\ worker[loop.q].pc = "idle"
    /\ queues' = [queues EXCEPT ![loop.branch] = None]
    /\ loop' = IF loop.op \in {"tick", "stop"} THEN [loop EXCEPT !.pc = "next", !.q = None]
               ELSE IF loop.to # None THEN [loop EXCEPT !.pc = "move", !.q = None]
               ELSE LoopIdle
    /\ UNCHANGED <<queueVars, tasks, worker, handler, stopping, panics, wanted>>

\* The second half of ChangeBaseBranch().
LoopMove ==
    /\ loop.pc = "move"
    /\ CoordinatorEnqueue(loop.to, loop.pr)
    /\ wanted' = [wanted EXCEPT ![loop.to] = @ \union {loop.pr}]
    /\ loop' = LoopIdle
    /\ UNCHANGED <<worker, handler, stopping>>

\* Faulty variant: the result of FirstActive() is used without looking at it.
LoopTriggerUnchecked ==
    /\ loop.pc = "trigger"
    /\ loop' = [loop EXCEPT !.pc = "schedule", !.next = head[loop.q]]
    /\ UNCHANGED <<queues, queueVars, tasks, worker, handler, stopping, panics, wanted>>

\* ScheduleProcessPR(): FirstActive(), then scheduleProcessPR().
LoopTrigger ==
    /\ loop.pc = "trigger"
    /\ loop' = IF head[loop.q] # None
               THEN [loop EXCEPT !.pc = "schedule", !.next = head[loop.q]]
               ELSE CASE loop.op = "push" -> [loop EXCEPT !.pc = "resumeAll"]
                      [] loop.op = "tick" -> [loop EXCEPT !.pc = "next"]
                      [] loop.op = "trigger" -> LoopIdle
    /\ UNCHANGED <<queues, queueVars, tasks, worker, handler, stopping, panics, wanted>>

\* synchronize of a PR that is not first: Coordinator.Resume() takes queuesLock again.
LoopResume ==
    /\ loop.pc = "resume"
    /\ LoopGoto("unsuspend")
    /\ UNCHANGED <<queues, queueVars, tasks, worker, handler, stopping, panics, wanted>>

LoopUnsuspend ==
    LET q == loop.q IN
    /\ loop.pc = "unsuspend"
    /\ suspended' = [suspended EXCEPT ![q] = @ \ {loop.pr}]
    /\ loop' = IF loop.pr \in suspended[q] THEN [loop EXCEPT !.pc = "enqueue"] ELSE LoopIdle
    /\ UNCHANGED <<queues, active, head, paused, terminated, attended, tasks, worker,
                   handler, stopping, panics, wanted>>

LoopEnqueue ==
    /\ loop.pc = "enqueue"
    /\ Enqueue(loop.q, loop.pr)
    /\ loop' = LoopIdle
    /\ UNCHANGED <<queues, suspended, paused, terminated, worker, handler, stopping, wanted>>

\* Faulty variant: a resumed PR stays in the map of suspended ones.
LoopResumeAllCopies ==
    LET q == loop.q IN
    /\ loop.pc = "resumeAll"
    /\ active' = [active EXCEPT ![q] = @ \union suspended[q]]
    /\ IF head[q] = None /\ suspended[q] # {}
       THEN \E p \in suspended[q] :
               /\ head' = [head EXCEPT ![q] = p]
               /\ attended' = [attended EXCEPT ![q] = FALSE]
               /\ Schedule(q, Process(p), "process")
       ELSE UNCHANGED <<head, attended, tasks, panics>>
    /\ loop' = LoopIdle
    /\ UNCHANGED <<queues, suspended, paused, terminated, worker, handler, stopping, wanted>>

\* ResumeAllPRs(): the map is iterated in any order; the first PR that is moved
\* into an empty active queue becomes its first and is scheduled.
LoopResumeAll ==
    LET q == loop.q IN
    /\ loop.pc = "resumeAll"
    /\ active' = [active EXCEPT ![q] = @ \union suspended[q]]
    /\ suspended' = [suspended EXCEPT ![q] = @ \intersect active[q]]
    /\ IF head[q] = None /\ suspended[q] # {}
       THEN \E p \in suspended[q] :
               /\ head' = [head EXCEPT ![q] = p]
               /\ attended' = [attended EXCEPT ![q] = FALSE]
               /\ Schedule(q, Process(p), "process")
       ELSE UNCHANGED <<head, attended, tasks, panics>>
    /\ loop' = LoopIdle
    /\ UNCHANGED <<queues, paused, terminated, worker, handler, stopping, wanted>>

\* SuspendedPRsbyBranch(), then ScheduleProcessPRIfStatusPositive().
LoopProbe ==
    /\ loop.pc = "probe"
    /\ LoopGoto(IF loop.pr \in suspended[loop.q] THEN "check" ELSE "next")
    /\ UNCHANGED <<queues, queueVars, tasks, worker, handler, stopping, panics, wanted>>

LoopCheck ==
    /\ loop.pc = "check"
    /\ Schedule(loop.q, ResumeIfPositive(loop.pr), "process")
    /\ LoopGoto("next")
    /\ UNCHANGED <<queues, queueVars, worker, handler, stopping, wanted>>

-----------------------------------------------------------------------------
(* Shutdown: Coordinator.Stop() waits for the event loop, then stops every *)
(* queue while it holds queuesLock.                                        *)

CloseShutdownChan ==
    /\ MayStop
    /\ ~stopping
    /\ stopping' = TRUE
    /\ UNCHANGED <<queues, queueVars, tasks, worker, loop, handler, panics, wanted>>

LoopExit ==
    /\ loop.pc = "idle"
    /\ stopping
    /\ StartOperation("stop", "next", None, None, None, {b \in Branch : queues[b] # None})

\* queue.Stop() under queue.lock: the map of suspended PRs is replaced by an empty one;
\* the iterator over the active PRs ends once its current element was removed, so
\* that only the first one is.
LoopDiscard ==
    LET q == loop.q IN
    /\ loop.pc = "discard"
    /\ suspended' = [suspended EXCEPT ![q] = {}]
    /\ \E n \in Successor(q, head[q]) : DequeueActive(q, head[q], n)
    /\ LoopGoto("stopCancel")
    /\ UNCHANGED <<queues, paused, terminated, tasks, worker, handler, stopping, panics,
                   wanted>>

LoopStopCancel ==
    /\ loop.pc = "stopCancel"
    /\ worker' = CancelAny(loop.q)
    /\ LoopGoto("close")
    /\ UNCHANGED <<queues, queueVars, tasks, handler, stopping, panics, wanted>>

LoopStep ==
    /\ Running
    /\ \/ LoopNext \/ LoopRemove \/ LoopCancel \/ LoopSchedule \/ LoopCheckEmpty
       \/ LoopClose \/ LoopDrained \/ LoopMove \/ LoopTrigger \/ LoopResume
       \/ LoopUnsuspend \/ LoopEnqueue \/ LoopResumeAll \/ LoopProbe \/ LoopCheck
       \/ LoopDiscard \/ LoopStopCancel \/ LoopExit

LoopEvent ==
    /\ Running
    /\ \/ \E b \in Branch, p \in PR :
             \/ OnEnqueue(b, p) \/ OnDequeue(b, p) \/ OnSynchronize(b, p)
             \/ OnNegative(b, p)
             \/ \E to \in Branch : OnEdited(b, to, p)
       \/ \E p \in PR : OnPositive(p)
       \/ \E b \in Branch : OnPush(b)
       \/ CloseShutdownChan

PeriodicTrigger == Running /\ OnTick

-----------------------------------------------------------------------------
(* HTTP handlers: PauseQueue() and ResumeQueue().                          *)

\* getQueue()
HandlerLookup(h, request) ==
    /\ request \in Requests
    /\ handler[h].pc = "idle"
    /\ QueuesLockFree
    /\ Quiet
    /\ \E b \in Branch :
          /\ queues[b] # None
          /\ handler' = [handler EXCEPT ![h] = [HandlerIdle EXCEPT !.pc = request, !.q = queues[b]]]
    /\ UNCHANGED <<queues, queueVars, tasks, worker, loop, stopping, panics, wanted>>

\* q.paused.Store(true)
HandlerPause(h) ==
    /\ handler[h].pc = "pause"
    /\ paused' = [paused EXCEPT ![handler[h].q] = TRUE]
    /\ handler' = [handler EXCEPT ![h].pc = "cancel"]
    /\ UNCHANGED <<queues, active, head, suspended, terminated, attended, tasks, worker,
                   loop, stopping, panics, wanted>>

\* if running := q.getExecuting(); running != nil { running.cancelFunc() }
HandlerCancel(h) ==
    /\ handler[h].pc = "cancel"
    /\ worker' = CancelAny(handler[h].q)
    /\ handler' = [handler EXCEPT ![h] = HandlerIdle]
    /\ UNCHANGED <<queues, queueVars, tasks, loop, stopping, panics, wanted>>

\* queue.Resume() after it reset the timestamps: q.paused.Store(false)
HandlerUnpause(h) ==
    /\ handler[h].pc = "resume"
    /\ paused' = [paused EXCEPT ![handler[h].q] = FALSE]
    /\ handler' = [handler EXCEPT ![h].pc = "first"]
    /\ UNCHANGED <<queues, active, head, suspended, terminated, attended, tasks, worker,
                   loop, stopping, panics, wanted>>

\* ScheduleProcessPR(): FirstActive() ...
HandlerFirst(h) ==
    LET first == head[handler[h].q] IN
    /\ handler[h].pc = "first"
    /\ handler' = [handler EXCEPT ![h] = IF first = None THEN HandlerIdle
                                         ELSE [@ EXCEPT !.pc = "schedule", !.next = first]]
    /\ UNCHANGED <<queues, queueVars, tasks, worker, loop, stopping, panics, wanted>>

\* ... then scheduleProcessPR().  net/http recovers a panic of its handlers.
HandlerSchedule(h) ==
    /\ handler[h].pc = "schedule"
    /\ Schedule(handler[h].q, Process(handler[h].next), "request")
    /\ handler' = [handler EXCEPT ![h] = HandlerIdle]
    /\ UNCHANGED <<queues, queueVars, worker, loop, stopping, wanted>>

HandlerStep(h) ==
    /\ Running
    /\ \/ HandlerPause(h) \/ HandlerCancel(h) \/ HandlerUnpause(h)
       \/ HandlerFirst(h) \/ HandlerSchedule(h)

HandlerRequest(h) ==
    /\ Running
    /\ \E request \in {"pause", "resume"} : HandlerLookup(h, request)

\* The program has ended by a panic, or the coordinator was stopped and nothing is left to do.
Ended ==
    /\ ~Running \/ loop.pc = "stopped"
    /\ UNCHANGED vars

-----------------------------------------------------------------------------
Next ==
    \/ \E q \in QueueId : WorkerStep(q) \/ (Running /\ LookupDuringMapWrite(q))
    \/ LoopStep
    \/ LoopEvent
    \/ PeriodicTrigger
    \/ \E h \in Handler : HandlerStep(h) \/ HandlerRequest(h)
    \/ Ended

SafetySpec == Init /\ [][Next]_vars

\* Every go-routine that can take a step takes one; requests of processPR end by their
\* timeout (queue.go:546).  The select of the event loop chooses at random among its
\* ready cases, so the ticker's case is taken again and again if it is ready again
\* and again (coordinator.go:160).
Fairness ==
    /\ \A q \in QueueId : WF_vars(WorkerStep(q))
    /\ WF_vars(LoopStep)
    /\ \A h \in Handler : WF_vars(HandlerStep(h))
    /\ SF_vars(PeriodicTrigger)

Spec == SafetySpec /\ Fairness

-----------------------------------------------------------------------------
(* Properties.                                                             *)

WorkerPc == {"idle", "start", "gate", "first", "evaluate", "suspend", "dequeue", "cancel",
             "schedule", "lookup", "status", "unsuspend", "enqueue", "finish"}
LoopPc == {"idle", "next", "remove", "cancel", "schedule", "empty", "close", "drain",
           "move", "trigger", "resume", "unsuspend", "enqueue", "resumeAll", "probe",
           "check", "discard", "stopCancel", "stopped"}
LoopOp == {"none", "dequeue", "trigger", "probe", "push", "tick", "stop"}
HandlerPc == {"idle", "pause", "resume", "cancel", "first", "schedule"}

WorkerRecord ==
    [pc : WorkerPc, task : Task \union {NoTask}, cancelled : BOOLEAN,
     next : PR \union {None}]
LoopRecord ==
    [pc : LoopPc, op : LoopOp, q : QueueId \union {None}, branch : Branch \union {None},
     pr : PR \union {None}, next : PR \union {None}, to : Branch \union {None},
     todo : SUBSET Branch]
HandlerRecord ==
    [pc : HandlerPc, q : QueueId \union {None}, next : PR \union {None}]

TypeOK ==
    /\ queues \in [Branch -> QueueId \union {None}]
    /\ active \in [QueueId -> SUBSET PR]
    /\ head \in [QueueId -> PR \union {None}]
    /\ suspended \in [QueueId -> SUBSET PR]
    /\ paused \in [QueueId -> BOOLEAN]
    /\ terminated \in [QueueId -> BOOLEAN]
    /\ tasks \in [QueueId -> Seq(Task)]
    /\ worker \in [QueueId -> WorkerRecord]
    /\ loop \in LoopRecord
    /\ handler \in [Handler -> HandlerRecord]
    /\ stopping \in BOOLEAN
    /\ panics \in SUBSET {"process", "map", "request"}
    /\ attended \in [QueueId -> BOOLEAN]
    /\ wanted \in [Branch -> SUBSET PR]

\* The first active PR is one of the active PRs, and there is one unless there are none.
HeadIsActive ==
    \A q \in QueueId : IF active[q] = {} THEN head[q] = None ELSE head[q] \in active[q]

\* No PR is active and suspended in the same queue, although resuming takes the PR out
\* of one and puts it into the other in two critical sections (queue.go:370, 430-451).
Disjoint == \A q \in QueueId : active[q] \intersect suspended[q] = {}

\* Only the first PR of a queue is worked on: the PR that is evaluated, labelled or has CI
\* triggered is the first one, or its operation was cancelled, or whoever removed it is
\* just about to cancel it (queue.go:330, 541, 1215).
OnlyHeadIsProcessed ==
    \A q \in QueueId :
        Evaluating(q) /\ ~worker[q].cancelled =>
            \/ head[q] = worker[q].task.pr
            \/ loop.pc = "cancel" /\ loop.q = q /\ loop.pr = worker[q].task.pr
            \/ loop.pc = "stopCancel" /\ loop.q = q

\* No uncancelled processing in a paused queue once the pause request was served: the
\* worker announces itself before it reads the flag, Pause() sets the flag before it
\* looks for a running operation (queue.go:484, 529 against 1108-1112).
PausedIsQuiet ==
    \A q \in QueueId :
        paused[q] /\ Evaluating(q) /\ ~worker[q].cancelled =>
            \E h \in Handler : handler[h].pc = "cancel" /\ handler[h].q = q

WillProcess(q, p) ==
    \/ \E i \in DOMAIN tasks[q] : tasks[q][i] = Process(p)
    \/ worker[q].task = Process(p) /\ worker[q].pc \in {"start", "gate", "first"}
    \/ worker[q].next = p
    \/ loop.q = q /\ loop.next = p
    \/ loop.q = q /\ loop.pc = "trigger"
    \/ \E h \in Handler : /\ handler[h].q = q
                          /\ handler[h].pc = "first" \/ handler[h].next = p

\* A PR that became the first of its queue was evaluated since, or will be without any
\* further event, unless the queue is paused.
HeadIsAttended ==
    Running /\ ~stopping =>
        \A b \in Branch, q \in QueueId :
            queues[b] = q /\ ~terminated[q] /\ head[q] # None /\ ~attended[q] =>
                paused[q] \/ WillProcess(q, head[q])

\* A PR between the two critical sections of ResumePR().
InResume(q) ==
    {worker[r].task.pr : r \in {r \in {q} : worker[r].pc = "enqueue"}}
        \union {loop.pr : x \in {x \in {q} : loop.pc = "enqueue" /\ loop.q = q}}

\* A PR that was enqueued and not dequeued is in the queue of its branch.
NoneLost ==
    Running /\ ~stopping /\ loop.pc = "idle" =>
        \A b \in Branch :
            wanted[b] \subseteq UNION {active[q] \union suspended[q] \union InResume(q) :
                                          q \in {queues[b]} \ {None}}

\* A PR that was dequeued and not enqueued again is not in the queue of its branch.
DequeuedStaysOut ==
    Running /\ loop.pc = "idle" =>
        \A b \in Branch, q \in QueueId :
            queues[b] = q => active[q] \union suspended[q] \subseteq wanted[b]

\* Whoever is first in a queue is evaluated as its first, unless it is removed or the queue
\* is paused: "updates are triggered periodically ... to prevent that pull requests become
\* stuck" (coordinator.go:150); also when a late Pause() cancels what Resume() scheduled.
HeadIsEvaluated ==
    \A b \in Branch, q \in QueueId, p \in PR :
        queues[b] = q /\ head[q] = p
            ~> attended[q] \/ head[q] # p \/ paused[q] \/ queues[b] # q \/ stopping \/ ~Running

\* The event loop never stays in an operation: while it holds queuesLock and waits for a
\* pool, the worker can always finish (coordinator.go:173, 967; queue.go:163).
LoopReturns == loop.pc # "idle" ~> loop.pc \in {"idle", "stopped"} \/ ~Running

-----------------------------------------------------------------------------
(* What comments of the code state and its behaviour violates.             *)

\* "After Wait() was called, no further work must be queued." (routines/pool.go:122)
\* Neither the worker and the event loop nor an HTTP handler uses a pool that was closed.
NoWorkAfterWait == panics \subseteq {"map"}
=============================================================================
