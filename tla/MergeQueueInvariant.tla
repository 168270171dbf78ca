------------------------- MODULE MergeQueueInvariant -------------------------
(***************************************************************************)
(* The inductive strengthening of MergeQueue's type invariant, Disjoint,   *)
(* OnlyHeadIsProcessed and PausedIsQuiet: what the go-routines refer to at *)
(* each step of an operation, and which part of a handshake is done; then  *)
(* that of NoneLost and DequeuedStaysOut, and that of HeadIsAttended.      *)
(***************************************************************************)
EXTENDS MergeQueue

\* What the event loop refers to.  The queues that an iteration has still to visit exist.
LoopShape ==
    /\ loop.pc \notin {"idle", "next", "move", "stopped"}
           => loop.q \in QueueId /\ loop.branch \in Branch
    /\ loop.pc \in {"remove", "cancel", "move", "resume", "unsuspend", "enqueue",
                    "probe", "check"} => loop.pr \in PR
    /\ loop.op = "probe" \/ loop.to # None => loop.pr \in PR
    /\ loop.pc = "move" => loop.to \in Branch
    /\ loop.pc = "schedule" =>
           loop.next \in PR /\ loop.op \in {"dequeue", "push", "tick", "trigger"}
    /\ loop.pc \in {"remove", "cancel"} => loop.op = "dequeue"
    /\ loop.pc \in {"probe", "check"} => loop.op = "probe"
    /\ loop.pc = "trigger" => loop.op \in {"push", "tick", "trigger"}
    /\ loop.pc = "next" => loop.op \in {"probe", "tick", "stop"}
    /\ \A b \in loop.todo : queues[b] # None /\ b # loop.branch

\* A worker that is not idle has a task.
WorkerShape ==
    \A q \in QueueId :
        /\ worker[q].pc # "idle" => worker[q].task \in Task
        /\ worker[q].pc = "schedule" => worker[q].next \in PR

HandlerShape ==
    \A h \in Handler :
        /\ handler[h].pc # "idle" => handler[h].q \in QueueId
        /\ handler[h].pc = "schedule" => handler[h].next \in PR

Shape == TypeOK /\ LoopShape /\ WorkerShape /\ HandlerShape

\* The lists of a queue.
Lists == HeadIsActive /\ Disjoint

\* PausedIsQuiet, already once the worker has passed the check of the flag.
PauseIsSeen ==
    \A q \in QueueId :
        paused[q] /\ worker[q].pc \in {"first", "evaluate"} /\ ~worker[q].cancelled =>
            \E h \in Handler : handler[h].pc = "cancel" /\ handler[h].q = q

Invariant == Shape /\ Lists /\ PauseIsSeen /\ OnlyHeadIsProcessed

-----------------------------------------------------------------------------
(* Who is in the queues, as long as no positive event arrives: it would    *)
(* make a worker put PRs into a queue that is just found empty and closed. *)

Members(q) == active[q] \union suspended[q]

\* Nobody but the event loop resumes PRs.
NoResumeTasks == \A q \in QueueId : \A i \in DOMAIN tasks[q] : tasks[q][i].kind = "process"

OnlyProcesses ==
    /\ NoResumeTasks
    /\ \A q \in QueueId :
          /\ worker[q].task.kind # "resume"
          /\ worker[q].pc \notin {"lookup", "status", "unsuspend", "enqueue"}
    /\ loop.op # "probe"

\* A queue object belongs to one branch, and the event loop works on the queue of its
\* branch.
OneBranchEach ==
    /\ \A b, c \in Branch : queues[b] = queues[c] /\ queues[b] # None => b = c
    /\ loop.pc \notin {"idle", "next", "move", "stopped"} => loop.q = queues[loop.branch]

\* The event loop closes queues that are empty, unless it stops the program.
ClosesEmpty ==
    /\ loop.op = "stop" => loop.pc \in {"next", "discard", "stopCancel", "close", "drain"}
    /\ loop.pc \in {"discard", "stopCancel"} => loop.op = "stop"
    /\ loop.pc \in {"close", "drain"} /\ loop.op # "stop" => Members(loop.q) = {}

\* The PR that the event loop has in its hands, between the two critical sections of
\* ResumePR(), is in no list and nobody works on it.
BetweenLists ==
    /\ \A q \in QueueId :
          worker[q].pc \in {"evaluate", "suspend", "dequeue"} =>
              /\ worker[q].task.pr \notin suspended[q]
              /\ loop.pc = "enqueue" /\ loop.q = q => worker[q].task.pr # loop.pr
    /\ loop.pc = "enqueue" =>
          loop.pr \notin Members(loop.q) /\ loop.pr \in wanted[loop.branch]

\* Whoever is in a queue was enqueued and not dequeued since, and the converse, until the
\* program stops.
WantedAreMembers ==
    /\ \A b \in Branch : queues[b] # None => Members(queues[b]) \subseteq wanted[b]
    /\ loop.op # "stop" /\ loop.pc # "stopped" =>
          \A b \in Branch : \A p \in wanted[b] :
              /\ queues[b] # None
              /\ \/ p \in Members(queues[b])
                 \/ loop.pc = "enqueue" /\ loop.branch = b /\ loop.pr = p

WantedInvariant ==
    OnlyProcesses /\ OneBranchEach /\ ClosesEmpty /\ BetweenLists /\ WantedAreMembers

-----------------------------------------------------------------------------
(* Who evaluates the first PR of a queue, as long as no positive event     *)
(* arrives and no queue is resumed while another request pauses it.        *)

OneResume == "resume" \in Requests => \A g, h \in Handler : g = h

\* A PR that became first is held to be scheduled, and an operation is cancelled for a PR
\* that is not active anymore or in a queue that is paused.
Handshakes ==
    /\ \A q \in QueueId : worker[q].next # None => worker[q].pc \in {"cancel", "schedule"}
    /\ loop.next # None => loop.pc \in {"cancel", "schedule"}
    /\ loop.pc = "cancel" => loop.pr \notin active[loop.q]
    /\ loop.op = "stop" => stopping
    /\ \A h \in Handler :
          /\ handler[h].next # None => handler[h].pc = "schedule"
          /\ handler[h].pc = "resume" => "resume" \in Requests
          /\ handler[h].pc = "cancel" => paused[handler[h].q]

\* WillProcess, where what the worker does was not cancelled.
Scheduled(q, p) == \E i \in DOMAIN tasks[q] : tasks[q][i] = Process(p)

WorkerAttends(q, p) ==
    \/ worker[q].next = p
    \/ /\ worker[q].task = Process(p)
       /\ worker[q].pc \in {"start", "gate", "first"}
       /\ ~worker[q].cancelled

LoopAttends(q, p) == loop.q = q /\ (loop.next = p \/ loop.pc = "trigger")

HandlerAttends(q, p) ==
    \E h \in Handler : handler[h].q = q /\ (handler[h].pc = "first" \/ handler[h].next = p)

WillAttend(q, p) ==
    Scheduled(q, p) \/ WorkerAttends(q, p) \/ LoopAttends(q, p) \/ HandlerAttends(q, p)

FirstsAreAttended ==
    ~stopping =>
        \A q \in QueueId, p \in PR :
            head[q] = p /\ ~terminated[q] /\ ~attended[q] => paused[q] \/ WillAttend(q, p)

AttendedInvariant == Handshakes /\ FirstsAreAttended
=============================================================================
