---------------------------- MODULE HeadReporting ----------------------------
(***************************************************************************)
(* What a queue tells GitHub about its PRs (queue.go): the head label of   *)
(* the first PR, and the commit status "directorius", which is successful  *)
(* for a PR that may be merged next and pending for one that left.         *)
(*                                                                         *)
(* Two go-routines do so: the worker of the queue and the event loop.      *)
(* Each PR has two caches of what was reported last, hasHeadLabel and      *)
(* GithubStatusLastSetState, each with a lock that is kept during the      *)
(* request.  suspend() keeps queue.lock too until its requests are done,   *)
(* Dequeue() does not.  What a go-routine has still to do after a decision *)
(* is a sequence of steps, todo.                                           *)
(*                                                                         *)
(* A request is repeated by the retryer (module Retryer); here it succeeds *)
(* or fails in the end.  Failing unless it was cancelled and interrupting  *)
(* the worker by pausing the queue are setbacks, at most MaxSetbacks.      *)
(* A request that was given up has no effect later.                        *)
(*                                                                         *)
(* Which PR succeeds a removed first one is any of the others (module      *)
(* ActiveOrder).  A PR that was dequeued does not return: enqueuing it     *)
(* again creates a new object with empty caches.  Nobody else sets or      *)
(* removes the head label.                                                 *)
(***************************************************************************)
EXTENDS Naturals, Sequences

CONSTANTS
    PR,             \* pull requests
    Commit,         \* commits of their branches (bound)
    None,           \* nil, and the commit "" that stands for the current head
    SharedCommits,  \* whether branches of two PRs may have the same head
    Lossy,          \* whether a request that fails may have had its effect
    MaxSetbacks     \* failed requests and interruptions (bound)

ASSUME ReportingAssumption ==
    /\ None \notin PR \cup Commit
    /\ SharedCommits \in BOOLEAN
    /\ Lossy \in BOOLEAN
    /\ MaxSetbacks \in Nat

VARIABLES
    place,          \* where a PR is; "out" with, "merged" without a pending status
    first,          \* the first element of queue.active
    worker,         \* processPR()
    todo,           \* todo[a]: steps that go-routine a has still to take
    request,        \* request[a]: how far the first of them is
    hasHeadLabel,   \* cache in the PR object
    reported,       \* GithubStatusLastSetState
    label,          \* GitHub: PRs that have the head label
    status,         \* GitHub: status of context "directorius" of a commit
    branch,         \* GitHub: head commit of each PR's branch
    used,           \* GitHub: commits that exist
    setbacks        \* setbacks so far

queue == <<place, first>>
caches == <<hasHeadLabel, reported>>
github == <<label, status>>
branches == <<branch, used>>
vars == <<queue, worker, todo, request, caches, github, branches, setbacks>>

Actor == {"worker", "loop"}

(* Steps.  A background step does not end when the worker is cancelled. *)
Step == [op : {"cancel", "add", "remove", "status"}, pr : PR, commit : Commit \cup {None},
         state : {"none", "pending", "success"}, background : BOOLEAN]

CancelAction(p) == [op |-> "cancel", pr |-> p, commit |-> None, state |-> "none",
                    background |-> TRUE]
AddLabel(p, bg) == [op |-> "add", pr |-> p, commit |-> None, state |-> "none",
                    background |-> bg]
RemoveLabel(p) == [op |-> "remove", pr |-> p, commit |-> None, state |-> "none",
                   background |-> TRUE]
Pending(p) == [op |-> "status", pr |-> p, commit |-> None, state |-> "pending",
               background |-> TRUE]
Success(p, c) == [op |-> "status", pr |-> p, commit |-> c, state |-> "success",
                  background |-> FALSE]

WorkerIdle == [pc |-> "idle", pr |-> None, cancelled |-> FALSE]
NeverReported == [commit |-> None, state |-> "none"]

TypeOK ==
    /\ place \in [PR -> {"new", "active", "suspended", "out", "merged"}]
    /\ first \in PR \cup {None}
    /\ worker \in [pc : {"idle", "fetch", "act", "suspend"}, pr : PR \cup {None},
                   cancelled : BOOLEAN]
    /\ todo \in [Actor -> Seq(Step)]
    /\ request \in [Actor -> {"none", "lookup", "sent", "executed"}]
    /\ hasHeadLabel \in [PR -> BOOLEAN]
    /\ reported \in [PR -> [commit : Commit \cup {None},
                            state : {"none", "pending", "success"}]]
    /\ label \in SUBSET PR
    /\ status \in [Commit -> {"none", "pending", "success"}]
    /\ branch \in [PR -> Commit]
    /\ used \in SUBSET Commit
    /\ setbacks \in 0..MaxSetbacks

Init ==
    /\ place = [p \in PR |-> "new"]
    /\ first = None
    /\ worker = WorkerIdle
    /\ todo = [a \in Actor |-> << >>]
    /\ request = [a \in Actor |-> "none"]
    /\ hasHeadLabel = [p \in PR |-> FALSE]
    /\ reported = [p \in PR |-> NeverReported]
    /\ label = {}
    /\ status = [c \in Commit |-> "none"]
    /\ branch \in [PR -> Commit]
    /\ SharedCommits \/ \A p, q \in PR : branch[p] = branch[q] => p = q
    /\ used = {branch[p] : p \in PR}
    /\ setbacks = 0

-----------------------------------------------------------------------------
(* The queue. *)

(* suspend() returns, and with it releases queue.lock, after its requests. *)
QueueLockFree == worker.pc # "suspend"

LoopIdle == todo["loop"] = << >>

Active == {p \in PR : place[p] = "active"}

Setback ==
    /\ setbacks < MaxSetbacks
    /\ setbacks' = setbacks + 1

(* _dequeueActive(): p goes to the place to, and n is first afterwards. *)
DequeueActive(p, to, n) ==
    /\ place[p] = "active"
    /\ place' = [place EXCEPT ![p] = to]
    /\ first' = n
    /\ IF p # first THEN n = first
       ELSE IF Active = {p} THEN n = None ELSE n \in Active \ {p}

(* Faulty variant: the new first PR may be nil. *)
AfterDequeueNil(p, pending, n) ==
    <<CancelAction(p), RemoveLabel(p)>>
    \o (IF pending THEN <<Pending(p)>> ELSE << >>)
    \o (IF n # first THEN <<AddLabel(n, TRUE)>> ELSE << >>)

(* Faulty variant: the operation is cancelled last. *)
AfterDequeueCancelLast(p, pending, n) ==
    <<RemoveLabel(p)>>
    \o (IF pending THEN <<Pending(p)>> ELSE << >>)
    \o (IF n \notin {first, None} THEN <<AddLabel(n, TRUE)>> ELSE << >>)
    \o <<CancelAction(p)>>

(* What Dequeue() does after it released queue.lock; scheduling is not followed. *)
AfterDequeue(p, pending, n) ==
    <<CancelAction(p), RemoveLabel(p)>>
    \o (IF pending THEN <<Pending(p)>> ELSE << >>)
    \o (IF n \notin {first, None} THEN <<AddLabel(n, TRUE)>> ELSE << >>)

Enqueue(p) ==
    /\ LoopIdle /\ QueueLockFree
    /\ place[p] = "new"
    /\ place' = [place EXCEPT ![p] = "active"]
    /\ first' = IF first = None THEN p ELSE first
    /\ UNCHANGED <<worker, todo, request, caches, github, branches, setbacks>>

(* Dequeue() by the event loop, for an event that tells whether the PR was merged. *)
LoopDequeue(p, pending) ==
    /\ LoopIdle /\ QueueLockFree
    /\ \E n \in PR \cup {None} :
          /\ DequeueActive(p, IF pending THEN "out" ELSE "merged", n)
          /\ todo' = [todo EXCEPT !["loop"] = AfterDequeue(p, pending, n)]
    /\ UNCHANGED <<worker, request, caches, github, branches, setbacks>>

LoopDequeueSuspended(p, pending) ==
    /\ LoopIdle /\ QueueLockFree
    /\ place[p] = "suspended"
    /\ place' = [place EXCEPT ![p] = IF pending THEN "out" ELSE "merged"]
    /\ UNCHANGED <<first, worker, todo, request, caches, github, branches, setbacks>>

(* ResumePR(), ResumeAllPRs() *)
Resume(p) ==
    /\ QueueLockFree
    /\ place[p] = "suspended"
    /\ place' = [place EXCEPT ![p] = "active"]
    /\ first' = IF first = None THEN p ELSE first
    /\ UNCHANGED <<worker, todo, request, caches, github, branches, setbacks>>

(* Pause() cancels the running operation; the queue is resumed at once. *)
Interrupt ==
    /\ worker.pc # "idle" /\ ~worker.cancelled
    /\ Setback
    /\ worker' = [worker EXCEPT !.cancelled = TRUE]
    /\ UNCHANGED <<queue, todo, request, caches, github, branches>>

(* A user or an update with the base branch adds a commit to the branch of p. *)
Push(p) ==
    /\ \E c \in Commit \ used :
          /\ branch' = [branch EXCEPT ![p] = c]
          /\ used' = used \cup {c}
    /\ UNCHANGED <<queue, worker, todo, request, caches, github, setbacks>>

-----------------------------------------------------------------------------
(* The worker: processPR() *)

(* The operation is announced, the PR is first. *)
CheckFirst ==
    /\ worker.pc = "idle" /\ QueueLockFree
    /\ first # None
    /\ worker' = [pc |-> "fetch", pr |-> first, cancelled |-> FALSE]
    /\ UNCHANGED <<queue, todo, request, caches, github, branches, setbacks>>

Act(steps) ==
    /\ worker' = [worker EXCEPT !.pc = "act"]
    /\ todo' = [todo EXCEPT !["worker"] = steps]
    /\ UNCHANGED <<queue, request, caches, github, branches, setbacks>>

(* evalPRAction(): CI runs, or is started, for the head of the branch. *)
CIRuns(p) ==
    /\ worker.pc = "fetch" /\ worker.pr = p
    /\ Act(<<AddLabel(p, FALSE), Success(p, branch[p])>>)

(* evalPRAction(): the requirements are met. *)
CIPassed(p) ==
    /\ worker.pc = "fetch" /\ worker.pr = p
    /\ Act(<<Success(p, branch[p])>>)

(* evalPRAction(): nothing to report, or cancelled. *)
NoAction ==
    /\ worker.pc = "fetch"
    /\ Act(<< >>)

(* evalPRAction(): the PR was closed. *)
WorkerDequeue ==
    /\ worker.pc = "fetch"
    /\ \E n \in PR \cup {None} :
          /\ DequeueActive(worker.pr, "merged", n)
          /\ todo' = [todo EXCEPT !["worker"] = AfterDequeue(worker.pr, FALSE, n)]
    /\ worker' = [worker EXCEPT !.pc = "act"]
    /\ UNCHANGED <<request, caches, github, branches, setbacks>>

(* evalPRAction(): the PR cannot be merged, or an error.  suspend() *)
Suspend ==
    /\ worker.pc = "fetch"
    /\ \E n \in PR \cup {None} : DequeueActive(worker.pr, "suspended", n)
    /\ todo' = [todo EXCEPT !["worker"] = <<RemoveLabel(worker.pr), Pending(worker.pr)>>]
    /\ worker' = [worker EXCEPT !.pc = "suspend", !.cancelled = TRUE]
    /\ UNCHANGED <<request, caches, github, branches, setbacks>>

(* processPR() returns. *)
Return ==
    /\ worker.pc \in {"act", "suspend"} /\ todo["worker"] = << >>
    /\ worker' = WorkerIdle
    /\ UNCHANGED <<queue, todo, request, caches, github, branches, setbacks>>

-----------------------------------------------------------------------------
(* Reporting. *)

OnStatus(s) == s.op = "status"

(* Faulty variant: a lock per go-routine. *)
NoLock(s) == TRUE

(* headLabelLock resp. GithubStatusLock of the PR of step s is not held. *)
LockFree(s) ==
    \A b \in Actor : request[b] # "none" =>
        \/ Head(todo[b]).pr # s.pr
        \/ OnStatus(Head(todo[b])) # OnStatus(s)

Drop(a) ==
    /\ todo' = [todo EXCEPT ![a] = Tail(@)]
    /\ request' = [request EXCEPT ![a] = "none"]

IsCancelled(s) == ~s.background /\ worker.cancelled

(* Faulty variant: any commit will do. *)
KnownForAnyCommit(s) ==
    \/ s.op = "add" /\ hasHeadLabel[s.pr]
    \/ s.op = "status" /\ reported[s.pr].state = s.state

(* The caches say that GitHub knows already. *)
Known(s) ==
    \/ s.op = "add" /\ hasHeadLabel[s.pr]
    \/ s.op = "status" /\ reported[s.pr] = [commit |-> s.commit, state |-> s.state]

(* cancelActionForPR() *)
CancelActionForPR(a) ==
    /\ todo[a] # << >> /\ Head(todo[a]).op = "cancel"
    /\ Drop(a)
    /\ worker' = [worker EXCEPT !.cancelled = @ \/ (/\ worker.pc # "idle"
                                                   /\ worker.pr = Head(todo[a]).pr)]
    /\ UNCHANGED <<queue, caches, github, branches, setbacks>>

NextRequest(a) ==
    /\ todo[a] # << >> /\ request[a] = "none"
    /\ Head(todo[a]).op # "cancel"
    /\ LockFree(Head(todo[a]))

(* Nothing is sent. *)
Skip(a) ==
    /\ NextRequest(a)
    /\ IsCancelled(Head(todo[a])) \/ Known(Head(todo[a]))
    /\ Drop(a)
    /\ UNCHANGED <<queue, worker, caches, github, branches, setbacks>>

(* CreateHeadCommitStatus() asks for the head first. *)
Start(s) == IF s.state = "pending" THEN "lookup" ELSE "sent"

(* Faulty variant: the cache of the label is cleared when the request succeeded. *)
SendKeepingCache(a) ==
    /\ NextRequest(a)
    /\ ~IsCancelled(Head(todo[a])) /\ ~Known(Head(todo[a]))
    /\ request' = [request EXCEPT ![a] = Start(Head(todo[a]))]
    /\ UNCHANGED <<queue, worker, todo, caches, github, branches, setbacks>>

(* The lock is taken and the request sent. *)
Send(a) ==
    LET s == Head(todo[a]) IN
    /\ NextRequest(a)
    /\ ~IsCancelled(s) /\ ~Known(s)
    /\ request' = [request EXCEPT ![a] = Start(s)]
    /\ hasHeadLabel' = IF s.op = "remove" THEN [hasHeadLabel EXCEPT ![s.pr] = FALSE]
                       ELSE hasHeadLabel
    /\ UNCHANGED <<queue, worker, todo, reported, github, branches, setbacks>>

LookupHead(a) ==
    /\ request[a] = "lookup"
    /\ todo' = [todo EXCEPT ![a][1].commit = branch[todo[a][1].pr]]
    /\ request' = [request EXCEPT ![a] = "sent"]
    /\ UNCHANGED <<queue, worker, caches, github, branches, setbacks>>

(* GitHub executes the request. *)
Execute(a) ==
    LET s == Head(todo[a]) IN
    /\ request[a] = "sent"
    /\ request' = [request EXCEPT ![a] = "executed"]
    /\ label' = IF s.op = "add" THEN label \cup {s.pr}
                ELSE IF s.op = "remove" THEN label \ {s.pr} ELSE label
    /\ status' = IF OnStatus(s) THEN [status EXCEPT ![s.commit] = s.state] ELSE status
    /\ UNCHANGED <<queue, worker, todo, caches, branches, setbacks>>

(* The request succeeded; the caches are written, with "" for the head, and the *)
(* lock is released.                                                            *)
Succeed(a) ==
    LET s == Head(todo[a]) IN
    /\ request[a] = "executed"
    /\ hasHeadLabel' = IF s.op = "add" THEN [hasHeadLabel EXCEPT ![s.pr] = TRUE]
                       ELSE hasHeadLabel
    /\ reported' = IF OnStatus(s)
                   THEN [reported EXCEPT ![s.pr] =
                           [commit |-> IF s.state = "pending" THEN None ELSE s.commit,
                            state |-> s.state]]
                   ELSE reported
    /\ Drop(a)
    /\ UNCHANGED <<queue, worker, github, branches, setbacks>>

(* The request is given up, because of an error, a timeout or because the worker *)
(* was cancelled; or it is repeated after an error.  If Lossy, GitHub may have   *)
(* executed it.                                                                  *)
Fail(a) ==
    /\ request[a] \in {"lookup", "sent"} \cup (IF Lossy THEN {"executed"} ELSE {})
    /\ \/ IsCancelled(Head(todo[a])) /\ Drop(a) /\ UNCHANGED setbacks
       \/ Setback /\ Drop(a)
       \/ /\ Setback
          /\ request' = [request EXCEPT ![a] = Start(Head(todo[a]))]
          /\ todo' = IF Head(todo[a]).state = "pending"
                     THEN [todo EXCEPT ![a][1].commit = None] ELSE todo
    /\ UNCHANGED <<queue, worker, caches, github, branches>>

(* Nothing is queued, or all wait for events. *)
Rest ==
    /\ first = None /\ worker.pc = "idle" /\ LoopIdle
    /\ UNCHANGED vars

-----------------------------------------------------------------------------
Report(a) ==
    \/ CancelActionForPR(a) \/ Skip(a) \/ Send(a) \/ LookupHead(a)
    \/ Execute(a) \/ Succeed(a) \/ Fail(a)

Next ==
    \/ \E p \in PR : \/ Enqueue(p) \/ Resume(p) \/ Push(p)
                     \/ CIRuns(p) \/ CIPassed(p)
                     \/ \E pending \in BOOLEAN : \/ LoopDequeue(p, pending)
                                                 \/ LoopDequeueSuspended(p, pending)
    \/ CheckFirst \/ NoAction \/ WorkerDequeue \/ Suspend \/ Return
    \/ Interrupt
    \/ \E a \in Actor : Report(a)
    \/ Rest

SafetySpec == Init /\ [][Next]_vars

(* Go-routines run, and requests end under a timeout. *)
Spec == SafetySpec /\ WF_vars(Report("worker")) /\ WF_vars(Report("loop"))

-----------------------------------------------------------------------------
Quiet == worker.pc = "idle" /\ LoopIdle

StatusRequestOf(p) ==
    \E a \in Actor : /\ request[a] # "none"
                     /\ OnStatus(Head(todo[a])) /\ Head(todo[a]).pr = p

LabelRequestOf(p) ==
    \E a \in Actor : /\ request[a] # "none"
                     /\ ~OnStatus(Head(todo[a])) /\ Head(todo[a]).pr = p

(* A PR of which the cache says that it has the head label has it, whatever    *)
(* fails, gets lost or is interrupted: else prAddQueueHeadLabel() would skip   *)
(* the request for ever (queue.go:778).                                        *)
CachedLabelIsReal == \A p \in PR : hasHeadLabel[p] => p \in label

(* The status that was cached for a commit is the one that GitHub shows, and   *)
(* after a pending status the head is not shown as successful: else            *)
(* createCommitStatus() would skip the report that is needed (queue.go:893).   *)
CachedStatusIsReal ==
    \A p \in PR : ~StatusRequestOf(p) =>
        LET r == reported[p] IN
        /\ r.state = "success" => status[r.commit] = "success"
        /\ r.state = "pending" => status[branch[p]] # "success"

Outstanding(p) == \E a \in Actor : \E i \in DOMAIN todo[a] : todo[a][i].pr = p

(* A PR that was suspended, or dequeued without having been merged, is not     *)
(* shown as ready to be merged once the requests are done: the worker may be   *)
(* reporting success for it at the same time (queue.go:338, 388).              *)
LeftIsNotSuccessful ==
    setbacks = 0 =>
        \A p \in PR : place[p] \in {"suspended", "out"} /\ ~Outstanding(p) =>
            status[branch[p]] # "success"

(* "headLabel is a GitHub label that is applied to the first pull-request in   *)
(* the active queue" (queue.go:104-105): when all is done, no other one has it *)
(* that is still open.                                                         *)
LabelOnFirstOnly ==
    setbacks = 0 /\ Quiet => \A p \in label : p = first \/ place[p] = "merged"

(* "Therefore we always set the pending status state" (queue.go:859): when the *)
(* requests for a PR that was suspended, or dequeued without having been       *)
(* merged, are done, its head is not shown as successful.                      *)
PendingIsSet ==
    [][\A p \in PR :
          (/\ setbacks = 0 /\ setbacks' = 0
           /\ place[p] \in {"suspended", "out"}
           /\ Outstanding(p) /\ ~Outstanding(p)') => status'[branch'[p]] # "success"]_vars

(* The first PR gets the label if it stays first and evaluations again and     *)
(* again find that its CI runs (queue_processpr.go:168-189).                   *)
FirstGetsLabel ==
    \A p \in PR :
        <>[](first = p) /\ []<><<CIRuns(p)>>_vars => <>[](p \in label)

(* In the same way it gets the successful status without which GitHub does not *)
(* merge it, also for the commits that are pushed later.                       *)
FirstShowsSuccess ==
    \A p \in PR :
        <>[](first = p) /\ []<><<CIRuns(p)>>_vars => <>[](status[branch[p]] = "success")

-----------------------------------------------------------------------------
(* The inductive invariant that CachedLabelIsReal and CachedStatusIsReal       *)
(* follow from.                                                                *)

(* Only a status has a state; a success is reported for a commit, a pending *)
(* status is set whether or not the worker was cancelled.                   *)
FormedStep == {s \in Step : /\ OnStatus(s) <=> s.state # "none"
                            /\ s.state = "success" => s.commit # None
                            /\ s.state = "pending" => s.background}

StepsAreFormed == \A a \in Actor : todo[a] \in Seq(FormedStep)

RequestsAreFormed ==
    \A a \in Actor : request[a] # "none" =>
        /\ todo[a] # << >>
        /\ Head(todo[a]).op # "cancel"
        /\ request[a] = "lookup" => Head(todo[a]).state = "pending"
        /\ request[a] # "lookup" /\ OnStatus(Head(todo[a])) => Head(todo[a]).commit # None

WorkerState ==
    /\ worker.pc # "idle" => worker.pr \in PR
    /\ worker.pc \in {"idle", "fetch"} => todo["worker"] = << >>

(* The locks are held by one go-routine at a time. *)
Exclusive ==
    \A a, b \in Actor : a # b /\ request[a] # "none" /\ request[b] # "none" =>
        \/ Head(todo[a]).pr # Head(todo[b]).pr
        \/ OnStatus(Head(todo[a])) # OnStatus(Head(todo[b]))

Shape ==
    /\ TypeOK
    /\ StepsAreFormed
    /\ RequestsAreFormed
    /\ WorkerState
    /\ Exclusive

(* While a label is being removed it is not cached; one that was added is there. *)
LabelRequests ==
    \A a \in Actor : request[a] # "none" =>
        LET s == Head(todo[a]) IN
        /\ s.op = "remove" => ~hasHeadLabel[s.pr]
        /\ s.op = "add" /\ request[a] = "executed" => s.pr \in label

LabelInvariant == Shape /\ LabelRequests /\ CachedLabelIsReal

(* PR p refers to commit c. *)
Refers(p, c) ==
    \/ c = branch[p]
    \/ c = reported[p].commit
    \/ \E a \in Actor : \E i \in DOMAIN todo[a] :
          todo[a][i].pr = p /\ todo[a][i].commit = c

(* Two PRs have no commit in common, a new commit has no status. *)
OwnCommits ==
    \A c \in Commit :
        /\ \A p, q \in PR : Refers(p, c) /\ Refers(q, c) => p = q
        /\ \A p \in PR : Refers(p, c) => c \in used
        /\ c \notin used => status[c] = "none"

(* An executed request is what GitHub shows; if the branch moved on since the  *)
(* head was looked up, then the new head has no success.                       *)
StatusRequests ==
    \A a \in Actor : LET s == Head(todo[a]) IN
        request[a] \in {"sent", "executed"} /\ OnStatus(s) =>
            /\ request[a] = "executed" => status[s.commit] = s.state
            /\ s.state = "pending" => \/ branch[s.pr] = s.commit
                                      \/ status[branch[s.pr]] # "success"

ExecutedFor(p) ==
    \E a \in Actor : /\ request[a] = "executed"
                     /\ OnStatus(Head(todo[a])) /\ Head(todo[a]).pr = p

StatusIsReal(p) ==
    /\ reported[p].state = "success" => /\ reported[p].commit \in Commit
                                        /\ status[reported[p].commit] = "success"
    /\ reported[p].state = "pending" => status[branch[p]] # "success"

StatusInvariant ==
    /\ Shape
    /\ OwnCommits
    /\ StatusRequests
    /\ \A p \in PR : ExecutedFor(p) \/ StatusIsReal(p)

Invariant == LabelInvariant /\ StatusInvariant

-----------------------------------------------------------------------------
(* The inductive invariant that LeftIsNotSuccessful follows from. *)

FirstIsActive == first # None => place[first] = "active"

(* Only the worker reports successes, of the PR that it works on. *)
SuccessIsWorkers ==
    \A a \in Actor : \A i \in DOMAIN todo[a] : todo[a][i].state = "success" =>
        /\ a = "worker" /\ worker.pc # "idle"
        /\ todo[a][i].pr = worker.pr /\ ~todo[a][i].background

SetsPending(a, p) ==
    \E i \in DOMAIN todo[a] : todo[a][i].pr = p /\ todo[a][i].state = "pending"

CancelFor(p) ==
    \E a \in Actor : \E i \in DOMAIN todo[a] : todo[a][i].pr = p /\ todo[a][i].op = "cancel"

(* First the worker is cancelled, afterwards the status is set to pending. *)
CancelsComeFirst ==
    \A a \in Actor, p \in PR : \A i \in DOMAIN todo[a] :
        todo[a][i].pr = p /\ todo[a][i].op = "cancel" =>
            /\ i = 1
            /\ place[p] = "merged" \/ (place[p] = "out" /\ SetsPending(a, p))

SuccessRequestOf(p) ==
    \E a \in Actor : /\ request[a] # "none"
                     /\ Head(todo[a]).pr = p /\ Head(todo[a]).state = "success"

(* When the worker was cancelled it sends no further success for the PR; the   *)
(* pending status is set after the success that was under way.                 *)
Withdrawn(p) ==
    /\ ~CancelFor(p) /\ worker.pc # "idle" /\ worker.pr = p => worker.cancelled
    /\ \/ \E a \in Actor : SetsPending(a, p)
       \/ ~SuccessRequestOf(p) /\ status[branch[p]] # "success"

LeftInvariant ==
    /\ FirstIsActive
    /\ SuccessIsWorkers
    /\ CancelsComeFirst
    /\ setbacks = 0 => \A p \in PR : place[p] \in {"suspended", "out"} => Withdrawn(p)

=============================================================================
