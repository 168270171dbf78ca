-------------------------------- MODULE Pool --------------------------------
(***************************************************************************)
(* src/internal/routines/pool.go: a FIFO work pool.  A scheduler           *)
(* go-routine moves work functions one at a time from the unbounded slice  *)
(* wq to the buffered channel workChan, from which the worker go-routines  *)
(* receive.  The scheduler sleeps on a channel with a single slot,         *)
(* schedulerNotifyChan, that Queue(), wait() and every worker fill without *)
(* blocking.                                                               *)
(*                                                                         *)
(* A critical section of wqMutex is one step: inside it the code only      *)
(* touches wq and terminate, does non-blocking sends and closes workChan.  *)
(* Queue() panics on a closed pool; its deferred Unlock leaves the pool    *)
(* itself intact, and the panic is recorded in refused.                    *)
(***************************************************************************)
EXTENDS Naturals, Sequences, FiniteSets

CONSTANTS
    Work,       \* work functions; each is queued at most once (bound)
    Routines,   \* number of worker go-routines, NewPool(routines)
    Caller,     \* go-routines that may call Wait()
    NoWork      \* the nil work function

\* The only pool of the program is created with one worker (queue.go:121).
ASSUME PoolAssumption ==
    /\ Routines \in Nat \ {0}
    /\ NoWork \notin Work

Worker == 1 .. Routines

VARIABLES
    wq,         \* Pool.wq
    terminate,  \* Pool.terminate
    notify,     \* TRUE iff schedulerNotifyChan holds its one element
    workChan,   \* the buffer of workChan, capacity Routines
    closed,     \* TRUE iff workChan is closed
    scheduler,  \* "recv", "lock", "send" or "stopped"
    held,       \* the function the scheduler popped and has not sent yet
    worker,     \* [Worker -> {"recv", "notify", "run", "stopped"}]
    job,        \* [Worker -> the function it received]
    waitStep,   \* progress of p.wait() inside terminateOnce.Do
    waiting,    \* callers blocked in Wait()
    returned,   \* callers whose Wait() has returned
    queued,     \* history: functions for which Queue() was called
    refused,    \* history: functions whose Queue() call panicked
    executed    \* history: functions that have returned

vars == <<wq, terminate, notify, workChan, closed, scheduler, held, worker,
          job, waitStep, waiting, returned, queued, refused, executed>>

callVars == <<waitStep, waiting, returned>>
history  == <<queued, refused, executed>>

Init ==
    /\ wq = <<>>
    /\ terminate = FALSE
    /\ notify = FALSE
    /\ workChan = <<>>
    /\ closed = FALSE
    /\ scheduler = "recv"
    /\ held = NoWork
    /\ worker = [w \in Worker |-> "recv"]
    /\ job = [w \in Worker |-> NoWork]
    /\ waitStep = "new"
    /\ waiting = {}
    /\ returned = {}
    /\ queued = {}
    /\ refused = {}
    /\ executed = {}

-----------------------------------------------------------------------------
(* Queue(): any go-routine, also a worker that runs a function.            *)

\* The non-blocking send of notifyScheduler(): a full slot is left full.
NotifyScheduler == notify' = TRUE

Queue(x) ==
    /\ x \notin queued
    /\ queued' = queued \union {x}
    /\ IF terminate
       THEN /\ refused' = refused \union {x}
            /\ UNCHANGED <<wq, notify>>
       ELSE /\ wq' = Append(wq, x)
            /\ NotifyScheduler
            /\ UNCHANGED refused
    /\ UNCHANGED <<terminate, workChan, closed, scheduler, held, worker, job,
                   callVars, executed>>

-----------------------------------------------------------------------------
(* The scheduler go-routine.                                               *)

SchedulerReceive ==
    /\ scheduler = "recv"
    /\ notify
    /\ notify' = FALSE
    /\ scheduler' = "lock"
    /\ UNCHANGED <<wq, terminate, workChan, closed, held, worker, job,
                   callVars, history>>

\* Faulty variant: the youngest function is taken.
PopYoungest ==
    /\ wq # <<>>
    /\ held' = wq[Len(wq)]
    /\ wq' = SubSeq(wq, 1, Len(wq) - 1)
    /\ scheduler' = "send"
    /\ UNCHANGED closed

PopWork ==
    /\ wq # <<>>
    /\ held' = Head(wq)
    /\ wq' = Tail(wq)
    /\ scheduler' = "send"
    /\ UNCHANGED closed

NothingToPop ==
    /\ wq = <<>>
    /\ scheduler' = IF terminate THEN "stopped" ELSE "recv"
    /\ closed' = terminate
    /\ UNCHANGED <<wq, held>>

\* Faulty variant: a terminated scheduler stops although functions are queued.
SchedulerLockAndLeave ==
    /\ scheduler = "lock"
    /\ \/ ~terminate /\ PopWork
       \/ /\ terminate \/ wq = <<>>
          /\ scheduler' = IF terminate THEN "stopped" ELSE "recv"
          /\ closed' = terminate
          /\ UNCHANGED <<wq, held>>
    /\ UNCHANGED <<terminate, notify, workChan, worker, job, callVars, history>>

SchedulerLock ==
    /\ scheduler = "lock"
    /\ PopWork \/ NothingToPop
    /\ UNCHANGED <<terminate, notify, workChan, worker, job, callVars, history>>

\* Faulty variant: the channel is never full.
SchedulerSendUnbounded ==
    /\ scheduler = "send"
    /\ workChan' = Append(workChan, held)
    /\ held' = NoWork
    /\ scheduler' = "recv"
    /\ UNCHANGED <<wq, terminate, notify, closed, worker, job, callVars, history>>

\* Blocks while the channel is full.
SchedulerSend ==
    /\ scheduler = "send"
    /\ Len(workChan) < Routines
    /\ workChan' = Append(workChan, held)
    /\ held' = NoWork
    /\ scheduler' = "recv"
    /\ UNCHANGED <<wq, terminate, notify, closed, worker, job, callVars, history>>

-----------------------------------------------------------------------------
(* The worker go-routines.                                                 *)

WorkerReceive(w) ==
    /\ worker[w] = "recv"
    /\ workChan # <<>>
    /\ job' = [job EXCEPT ![w] = Head(workChan)]
    /\ workChan' = Tail(workChan)
    /\ worker' = [worker EXCEPT ![w] = "notify"]
    /\ UNCHANGED <<wq, terminate, notify, closed, scheduler, held, callVars, history>>

\* A closed channel still delivers what it buffers.
WorkerExit(w) ==
    /\ worker[w] = "recv"
    /\ workChan = <<>>
    /\ closed
    /\ worker' = [worker EXCEPT ![w] = "stopped"]
    /\ UNCHANGED <<wq, terminate, notify, workChan, closed, scheduler, held, job,
                   callVars, history>>

\* Faulty variant: the scheduler is not notified.
WorkerNotifyNobody(w) ==
    /\ worker[w] = "notify"
    /\ worker' = [worker EXCEPT ![w] = "run"]
    /\ UNCHANGED <<wq, terminate, notify, workChan, closed, scheduler, held, job, callVars,
                   history>>

WorkerNotify(w) ==
    /\ worker[w] = "notify"
    /\ NotifyScheduler
    /\ worker' = [worker EXCEPT ![w] = "run"]
    /\ UNCHANGED <<wq, terminate, workChan, closed, scheduler, held, job, callVars, history>>

WorkerFinish(w) ==
    /\ worker[w] = "run"
    /\ executed' = executed \union {job[w]}
    /\ job' = [job EXCEPT ![w] = NoWork]
    /\ worker' = [worker EXCEPT ![w] = "recv"]
    /\ UNCHANGED <<wq, terminate, notify, workChan, closed, scheduler, held, callVars,
                   queued, refused>>

-----------------------------------------------------------------------------
(* Wait(): the first caller runs wait(), the others block in Once.Do.      *)

CallWait(c) ==
    /\ c \notin waiting \union returned
    /\ waiting' = waiting \union {c}
    /\ UNCHANGED <<wq, terminate, notify, workChan, closed, scheduler, held, worker, job,
                   waitStep, returned, history>>

WaitTerminate ==
    /\ waiting # {}
    /\ waitStep = "new"
    /\ terminate' = TRUE
    /\ waitStep' = "notify"
    /\ UNCHANGED <<wq, notify, workChan, closed, scheduler, held, worker, job,
                   waiting, returned, history>>

\* Faulty variant: the scheduler is not notified.
WaitNotifyNobody ==
    /\ waitStep = "notify"
    /\ waitStep' = "join"
    /\ UNCHANGED <<wq, terminate, notify, workChan, closed, scheduler, held, worker, job,
                   waiting, returned, history>>

WaitNotify ==
    /\ waitStep = "notify"
    /\ NotifyScheduler
    /\ waitStep' = "join"
    /\ UNCHANGED <<wq, terminate, workChan, closed, scheduler, held, worker, job,
                   waiting, returned, history>>

\* Faulty variant: only the scheduler is waited for.
SchedulerStopped == scheduler = "stopped"

AllStopped == scheduler = "stopped" /\ \A w \in Worker : worker[w] = "stopped"

\* terminateWg.Wait() and close(schedulerNotifyChan).
WaitJoin ==
    /\ waitStep = "join"
    /\ AllStopped
    /\ waitStep' = "done"
    /\ UNCHANGED <<wq, terminate, notify, workChan, closed, scheduler, held, worker, job,
                   waiting, returned, history>>

WaitReturn(c) ==
    /\ c \in waiting
    /\ waitStep = "done"
    /\ waiting' = waiting \ {c}
    /\ returned' = returned \union {c}
    /\ UNCHANGED <<wq, terminate, notify, workChan, closed, scheduler, held, worker, job,
                   waitStep, history>>

\* A pool that was waited for is at rest; any other state without a successor is a deadlock.
Rest ==
    /\ waitStep = "done"
    /\ waiting = {}
    /\ UNCHANGED vars

-----------------------------------------------------------------------------
Next ==
    \/ \E x \in Work : Queue(x)
    \/ SchedulerReceive \/ SchedulerLock \/ SchedulerSend
    \/ \E w \in Worker :
          WorkerReceive(w) \/ WorkerExit(w) \/ WorkerNotify(w) \/ WorkerFinish(w)
    \/ \E c \in Caller : CallWait(c) \/ WaitReturn(c)
    \/ WaitTerminate \/ WaitNotify \/ WaitJoin
    \/ Rest

\* The Go scheduler runs every go-routine that can take a step.
SchedulerFairness ==
    /\ WF_vars(SchedulerReceive)
    /\ WF_vars(SchedulerLock)
    /\ WF_vars(SchedulerSend)
    /\ \A w \in Worker : WF_vars(WorkerReceive(w) \/ WorkerExit(w) \/ WorkerNotify(w))
    /\ WF_vars(WaitTerminate \/ WaitNotify \/ WaitJoin)
    /\ \A c \in Caller : WF_vars(WaitReturn(c))

SafetySpec == Init /\ [][Next]_vars

\* Work functions may run forever.
Spec == SafetySpec /\ SchedulerFairness

\* Work functions return: those of the merge queue run under timeouts (queue.go:546, 1023).
\* The properties that need it say so.
WorkReturns == \A w \in Worker : WF_vars(WorkerFinish(w))

-----------------------------------------------------------------------------
(* Properties.                                                             *)

TypeOK ==
    /\ wq \in Seq(Work)
    /\ terminate \in BOOLEAN
    /\ notify \in BOOLEAN
    /\ workChan \in Seq(Work)
    /\ Len(workChan) <= Routines
    /\ closed \in BOOLEAN
    /\ scheduler \in {"recv", "lock", "send", "stopped"}
    /\ held \in Work \union {NoWork}
    /\ worker \in [Worker -> {"recv", "notify", "run", "stopped"}]
    /\ job \in [Worker -> Work \union {NoWork}]
    /\ waitStep \in {"new", "notify", "join", "done"}
    /\ waiting \in SUBSET Caller
    /\ returned \in SUBSET Caller
    /\ queued \in SUBSET Work
    /\ refused \in SUBSET Work
    /\ executed \in SUBSET Work

\* A wake-up of the scheduler is on its way: it is delivered, being acted on,
\* or some worker will deliver it before it runs its next function.
WakeUpUnderWay ==
    \/ notify
    \/ scheduler \in {"lock", "send"}
    \/ workChan # <<>>
    \/ \E w \in Worker : worker[w] = "notify"

\* No lost wake-up: although notifications to the one-slot channel are dropped while
\* it is full, the scheduler never sleeps for good while work is queued, nor after
\* wait() has announced the termination (pool.go:49, 90, 116, 132).
NoLostWakeUp ==
    wq # <<>> \/ (waitStep = "join" /\ scheduler # "stopped") => WakeUpUnderWay

\* Wait() returns only after every function accepted by Queue() has been executed
\* and no go-routine of the pool is left (pool.go:119-122).
WaitDrains ==
    returned # {} => /\ AllStopped
                     /\ queued \ refused \subseteq executed

\* Nobody sends on schedulerNotifyChan after wait() closed it, which would panic
\* (pool.go:98 against pool.go:135).
NoSendOnClosedChannel ==
    waitStep = "done" => /\ terminate
                         /\ \A w \in Worker : worker[w] # "notify"

\* When functions return, every Wait() does, no matter when it is called and by how
\* many (pool.go:113-139).
WaitReturns == WorkReturns => \A c \in Caller : c \in waiting ~> c \in returned

\* A free worker is never left idle while work is queued, even when the functions
\* on the other workers never return ("executed by the first free worker", pool.go:8).
WorkConserving ==
    \A x \in Work :
        x \in queued \ refused
            ~> \/ \E w \in Worker : job[w] = x
               \/ x \in executed
               \/ \A w \in Worker : worker[w] = "run"

\* The work queue that the documentation promises: the three places where unstarted
\* work waits form one FIFO.
WQ == INSTANCE WorkQueue WITH
    Routine <- Worker,
    pending <- workChan \o (IF held = NoWork THEN <<>> ELSE <<held>>) \o wq,
    running <- [w \in Worker |-> {job[w]} \ {NoWork}],
    executed <- executed,
    mode <- IF ~terminate THEN "open"
            ELSE IF waitStep = "done" THEN "stopped" ELSE "draining"

\* Each step of the pool is a step of that work queue: work starts in the order in
\* which it was submitted, and the pool stops only when all of it is done (pool.go:8-20).
ImplementsWorkQueue == WQ!SafetySpec

\* When functions return, the work queue is served: work does not wait for ever, and
\* a pool that is to stop stops (pool.go:75-139).
ServesWorkQueue == WorkReturns => WQ!Fairness
=============================================================================
