------------------------------ MODULE Staleness ------------------------------
(***************************************************************************)
(* When a queue gives up its first PR because nothing happened to it for   *)
(* staleTimeout: stateUnchangedSince of the PRs, which the event loop, the *)
(* worker and the HTTP handlers set, reset and read (queue.go,             *)
(* pullrequest.go, coordinator.go).                                        *)
(*                                                                         *)
(* Timestamps are kept as ages, in units of time, none of them grows       *)
(* beyond Timeout + 1.  A status event carries GitHub's time of the change *)
(* and may arrive up to Latency later, in any order.                       *)
(*                                                                         *)
(* Which PR becomes first is any of the others (module ActiveOrder); a     *)
(* task stays queued until the worker takes it, in any order.  Dequeued    *)
(* PRs are not followed.                                                   *)
(***************************************************************************)
EXTENDS Naturals

CONSTANTS
    PR,         \* pull requests
    None,       \* no PR
    Zero,       \* the zero time
    Timeout,    \* staleTimeout
    Latency,    \* how late an event may be
    Waiting     \* whether events are about PRs that are not first, too

ASSUME StalenessAssumption ==
    /\ None \notin PR
    /\ Zero \notin Nat
    /\ Timeout \in Nat
    /\ Latency \in 0..Timeout
    /\ Waiting \in BOOLEAN

VARIABLES
    place,      \* "new", "active", "suspended", "out"
    first,      \* the first element of queue.active
    since,      \* stateUnchangedSince
    tasks,      \* PRs for which processPR() is queued
    worker,     \* processPR(): what it does next, and for which PR
    paused,     \* queue.paused
    resuming,   \* a handler is in Resume()
    changed,    \* history: age of the last change since a PR became active,
                \* or the queue was resumed
    resumed,    \* history: time since the queue was resumed with the PR in it
    firstFor    \* history: for how long the first PR has been first

queue == <<place, first, tasks>>
http == <<paused, resuming>>
history == <<changed, resumed, firstFor>>
vars == <<queue, since, worker, http, history>>

MaxAge == Timeout + 1
Age == 0..MaxAge

Idle == [pc |-> "idle", pr |-> None]

TypeOK ==
    /\ place \in [PR -> {"new", "active", "suspended", "out"}]
    /\ first \in PR \cup {None}
    /\ since \in [PR -> Age \cup {Zero}]
    /\ tasks \in SUBSET PR
    /\ worker \in [pc : {"idle", "check", "eval", "ci", "stale", "suspend"}, pr : PR \cup {None}]
    /\ paused \in BOOLEAN /\ resuming \in BOOLEAN
    /\ changed \in [PR -> Age] /\ resumed \in [PR -> Age]
    /\ firstFor \in Age

Init ==
    /\ place = [p \in PR |-> "new"]
    /\ first = None
    /\ since = [p \in PR |-> Zero]
    /\ tasks = {}
    /\ worker = Idle
    /\ paused = FALSE /\ resuming = FALSE
    /\ changed = [p \in PR |-> MaxAge] /\ resumed = [p \in PR |-> MaxAge]
    /\ firstFor = 0

-----------------------------------------------------------------------------
(* Time. *)

Older(age) == IF age = Zero \/ age = MaxAge THEN age ELSE age + 1

Tick ==
    /\ since' = [p \in PR |-> Older(since[p])]
    /\ changed' = [p \in PR |-> Older(changed[p])]
    /\ resumed' = [p \in PR |-> Older(resumed[p])]
    /\ firstFor' = Older(firstFor)
    /\ UNCHANGED <<queue, worker, http>>

(* Faulty variant: the last event counts. *)
AlwaysNewer(age, t) == t

(* SetStateUnchangedSinceIfNewer() *)
IfNewer(age, t) == IF age = Zero \/ (age # Zero /\ t < age) THEN t ELSE age

IfZero(age) == IF age = Zero THEN 0 ELSE age

(* Something is seen to happen to p, at age t. *)
Change(p, t) ==
    /\ since' = [since EXCEPT ![p] = IfNewer(@, t)]
    /\ changed' = [changed EXCEPT ![p] = IF t < @ THEN t ELSE @]
    /\ UNCHANGED <<resumed, firstFor>>

-----------------------------------------------------------------------------
(* The queue. *)

BecomesFirst(n) ==
    /\ first' = n
    /\ firstFor' = IF n = first THEN firstFor ELSE 0
    /\ tasks' = IF n \in {first, None} THEN tasks ELSE tasks \cup {n}

Active == {p \in PR : place[p] = "active"}

EnqueueActive(p) ==
    /\ place' = [place EXCEPT ![p] = "active"]
    /\ BecomesFirst(IF first = None THEN p ELSE first)
    /\ UNCHANGED <<since, worker, http, changed, resumed>>

Enqueue(p) == place[p] = "new" /\ EnqueueActive(p)

(* ResumeAllPRs(), ResumePR() *)
ResumePR(p) == place[p] = "suspended" /\ EnqueueActive(p)

Leave(p, to) ==
    /\ place' = [place EXCEPT ![p] = to]
    /\ IF p # first THEN BecomesFirst(first)
       ELSE IF Active = {p} THEN BecomesFirst(None)
       ELSE \E n \in Active \ {p} : BecomesFirst(n)
    /\ since' = [since EXCEPT ![p] = Zero]
    /\ changed' = [changed EXCEPT ![p] = MaxAge]
    /\ resumed' = [resumed EXCEPT ![p] = MaxAge]

Dequeue(p) ==
    /\ place[p] = "active"
    /\ Leave(p, "out")
    /\ UNCHANGED <<worker, http>>

DequeueSuspended(p) ==
    /\ place[p] = "suspended"
    /\ place' = [place EXCEPT ![p] = "out"]
    /\ since' = [since EXCEPT ![p] = Zero]
    /\ changed' = [changed EXCEPT ![p] = MaxAge]
    /\ UNCHANGED <<first, tasks, worker, http, resumed, firstFor>>

(* Faulty variant: the queue may be empty. *)
ScheduleUnchecked ==
    /\ tasks' = tasks \cup {first}
    /\ UNCHANGED <<place, first, since, worker, http, history>>

(* ScheduleProcessPR(), by an event or the periodic trigger. *)
Schedule ==
    /\ first # None
    /\ tasks' = tasks \cup {first}
    /\ UNCHANGED <<place, first, since, worker, http, history>>

(* A status event, which has the time of the change, or a check run event. *)
StatusEvent(p) ==
    /\ place[p] \in {"active", "suspended"}
    /\ p = first \/ Waiting
    /\ \E t \in 0..Latency : Change(p, t)
    /\ UNCHANGED <<queue, worker, http>>

-----------------------------------------------------------------------------
(* HTTP handlers. *)

(* Pause(); the cancelled operation returns at a request (Interrupted). *)
Pause ==
    /\ ~resuming
    /\ paused' = TRUE
    /\ UNCHANGED <<queue, since, worker, resuming, history>>

(* Faulty variant: nothing is reset. *)
ResumeWithoutReset ==
    /\ paused /\ ~resuming
    /\ resuming' = TRUE
    /\ resumed' = [p \in PR |-> IF place[p] = "active" THEN 0 ELSE resumed[p]]
    /\ changed' = [p \in PR |-> IF place[p] = "active" THEN MaxAge ELSE changed[p]]
    /\ UNCHANGED <<queue, since, worker, paused, firstFor>>

(* Resume(), while it has queue.lock *)
ResumeReset ==
    /\ paused /\ ~resuming
    /\ resuming' = TRUE
    /\ since' = [p \in PR |-> IF place[p] = "active" THEN Zero ELSE since[p]]
    /\ resumed' = [p \in PR |-> IF place[p] = "active" THEN 0 ELSE resumed[p]]
    /\ changed' = [p \in PR |-> IF place[p] = "active" THEN MaxAge ELSE changed[p]]
    /\ UNCHANGED <<queue, worker, paused, firstFor>>

(* Resume(), afterwards *)
ResumeUnpause ==
    /\ resuming
    /\ resuming' = FALSE
    /\ paused' = FALSE
    /\ tasks' = IF first = None THEN tasks ELSE tasks \cup {first}
    /\ UNCHANGED <<place, first, since, worker, history>>

-----------------------------------------------------------------------------
(* The worker: processPR(). *)

Worker(pc, p) == worker.pc = pc /\ worker.pr = p
Goes(pc) == worker' = [worker EXCEPT !.pc = pc]

SkipPaused(p) ==
    /\ worker.pc = "idle" /\ p \in tasks
    /\ paused
    /\ tasks' = tasks \ {p}
    /\ UNCHANGED <<place, first, since, worker, http, history>>

(* Faulty variant: each evaluation begins to count anew. *)
ProcessPRAnew(p) ==
    /\ worker.pc = "idle" /\ p \in tasks
    /\ ~paused
    /\ tasks' = tasks \ {p}
    /\ since' = [since EXCEPT ![p] = 0]
    /\ worker' = [pc |-> "check", pr |-> p]
    /\ UNCHANGED <<place, first, http, history>>

ProcessPR(p) ==
    /\ worker.pc = "idle" /\ p \in tasks
    /\ ~paused
    /\ tasks' = tasks \ {p}
    /\ since' = [since EXCEPT ![p] = IfZero(@)]
    /\ worker' = [pc |-> "check", pr |-> p]
    /\ UNCHANGED <<place, first, http, history>>

isFirstActive(p) ==
    /\ Worker("check", p)
    /\ IF p = first THEN Goes("eval") ELSE worker' = Idle
    /\ UNCHANGED <<queue, since, http, history>>

(* A request is cancelled because the queue is paused or the PR left. *)
Interrupted(p) ==
    /\ Worker("eval", p)
    /\ paused \/ place[p] # "active"
    /\ worker' = Idle
    /\ UNCHANGED <<queue, since, http, history>>

(* The branch was updated with its base branch. *)
BranchUpdated(p) ==
    /\ Worker("eval", p)
    /\ Change(p, 0)
    /\ worker' = Idle
    /\ UNCHANGED <<queue, http>>

(* Not approved, a conflict, an error, failed CI. *)
CannotBeMerged(p) ==
    /\ Worker("eval", p)
    /\ Goes("suspend")
    /\ UNCHANGED <<queue, since, http, history>>

isPRStale(p) == since[p] # Zero /\ since[p] > Timeout

Stale(p) ==
    /\ Worker("eval", p)
    /\ isPRStale(p)
    /\ Goes("stale")
    /\ UNCHANGED <<queue, since, http, history>>

(* CI runs, or nothing is to be done. *)
NotStale(p) ==
    /\ Worker("eval", p)
    /\ ~isPRStale(p)
    /\ worker' = Idle
    /\ UNCHANGED <<queue, since, http, history>>

(* CI has to be started; that takes requests. *)
RunCI(p) ==
    /\ Worker("eval", p)
    /\ ~isPRStale(p)
    /\ Goes("ci")
    /\ UNCHANGED <<queue, since, http, history>>

(* CI was started. *)
CITriggered(p) ==
    /\ Worker("ci", p)
    /\ Change(p, 0)
    /\ worker' = Idle
    /\ UNCHANGED <<queue, http>>

CIFails(p) ==
    /\ Worker("ci", p)
    /\ worker' = Idle
    /\ UNCHANGED <<queue, since, http, history>>

(* suspend() *)
Suspend(p) ==
    /\ Worker("stale", p) \/ Worker("suspend", p)
    /\ IF place[p] = "active" THEN Leave(p, "suspended")
       ELSE UNCHANGED <<queue, since, history>>
    /\ worker' = Idle
    /\ UNCHANGED http

-----------------------------------------------------------------------------
Process(p) ==
    \/ SkipPaused(p) \/ ProcessPR(p) \/ isFirstActive(p) \/ Interrupted(p)
    \/ BranchUpdated(p) \/ CannotBeMerged(p) \/ Stale(p) \/ NotStale(p)
    \/ RunCI(p) \/ CITriggered(p) \/ CIFails(p) \/ Suspend(p)

Next ==
    \/ Tick
    \/ \E p \in PR : \/ Enqueue(p) \/ ResumePR(p) \/ Dequeue(p) \/ DequeueSuspended(p)
                     \/ StatusEvent(p)
                     \/ Process(p)
    \/ Schedule
    \/ Pause \/ ResumeReset \/ ResumeUnpause

Take(p) == SkipPaused(p) \/ ProcessPR(p)

(* Time passes, the periodic trigger fires, and requests end; the worker takes *)
(* the tasks in the order in which they were queued, so each has its turn      *)
(* (module WorkQueue).                                                         *)
Spec ==
    /\ Init /\ [][Next]_vars
    /\ WF_vars(Tick) /\ WF_vars(Schedule)
    /\ WF_vars(\E p \in PR : Process(p)) /\ \A p \in PR : SF_vars(Take(p))

-----------------------------------------------------------------------------
DecidesStale(p) == Worker("eval", p) /\ worker'.pc = "stale"

(* A PR is called stale only if no change was reported for staleTimeout since  *)
(* it became active, or the queue was resumed, in whichever order late events  *)
(* arrive (queue.go:494, pullrequest.go:137).                                  *)
StaleIsUnchanged == [][\A p \in PR : DecidesStale(p) => changed[p] > Timeout]_vars

(* The time that a queue was paused does not count (queue.go:1119-1132), though *)
(* the worker may run between the two steps of Resume(); but an event that was  *)
(* on its way counts from the time that it carries.                             *)
PauseDoesNotCount ==
    [][\A p \in PR : DecidesStale(p) => resumed[p] + Latency > Timeout]_vars

(* "If the pull request was not updated, it's GitHub check status did not      *)
(* change and it is the first element in the queue longer then q.staleTimeout  *)
(* it is suspended." (queue.go:521-524)                                        *)
StaleWasFirst ==
    [][\A p \in PR : DecidesStale(p) => firstFor > Timeout]_vars

(* A PR that stays first while the queue is not paused is suspended, unless    *)
(* something happens to it again and again (queue.go:494).                     *)
StaleIsSuspended ==
    \A p \in PR :
        <>[](first = p /\ ~paused) =>
            []<><<BranchUpdated(p) \/ CITriggered(p) \/ StatusEvent(p)>>_vars

-----------------------------------------------------------------------------
(* The inductive invariant that both follow from. *)
Recent(p) ==
    IF since[p] = Zero THEN changed[p] = MaxAge
    ELSE since[p] <= changed[p] /\ since[p] <= resumed[p] + Latency

SinceIsRecent == \A p \in PR : Recent(p)

Invariant ==
    /\ TypeOK
    /\ worker.pc # "idle" => worker.pr \in PR
    /\ SinceIsRecent

=============================================================================
