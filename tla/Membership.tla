----------------------------- MODULE Membership ------------------------------
(***************************************************************************)
(* Which PRs are in which queue, compared with what GitHub knows of them.  *)
(*                                                                         *)
(* GitHub sends webhook events, each with what the PR was when it was sent.*)
(* The HTTP handler (provider/github/github.go) drops an event when the    *)
(* channel is full.  The channel is filled as soon as the program runs     *)
(* (main.go:384-404), first InitSync() lists the PRs and enqueues them,    *)
(* then the event loop (coordinator.go:236-897) reads it.                  *)
(*                                                                         *)
(* The worker of a queue evaluates its first PR in two steps: it asks      *)
(* GitHub whether the PR is ready, and acts on the answer later, after     *)
(* other requests.  A PR is ready when it is approved and its CI status is *)
(* positive, which is one flag here.  Events only schedule evaluations,    *)
(* which the periodic trigger does again and again.                        *)
(*                                                                         *)
(* An approval or a positive CI status of a suspended PR queues a check on *)
(* the action pool.  The worker asks GitHub whether the PR is ready, takes *)
(* it out of the suspended PRs and enqueues it, in three steps between     *)
(* which events are processed; between the last two the PR is in neither   *)
(* list.                                                                   *)
(*                                                                         *)
(* Modules Sync and MergeQueue show these parts in detail.                 *)
(***************************************************************************)
EXTENDS Naturals, Sequences, SequencesExt, FiniteSets

CONSTANTS
    PR,             \* pull requests
    Branch,         \* base branches
    None,           \* no PR, no branch
    Trigger,        \* trigger labels, and auto-merge
    Capacity,       \* EventChannelBufferSize
    Reopens,        \* whether closed PRs are opened again
    MaxChanges,     \* changes that GitHub reports (bound)
    MaxLost,        \* events that are not delivered (bound)
    MaxRestarts     \* crashes (bound)

MembershipAssumption ==
    /\ IsFiniteSet(PR) /\ None \notin PR \cup Branch
    /\ Capacity \in Nat \ {0}
    /\ Reopens \in BOOLEAN
    /\ MaxChanges \in Nat /\ MaxLost \in Nat /\ MaxRestarts \in Nat

VARIABLES
    open,           \* GitHub: open PRs
    base,           \* GitHub: base branch of a PR
    triggers,       \* GitHub: labels of a PR, and whether auto-merge is enabled
    ready,          \* GitHub: PRs that meet the merge requirements
    channel,        \* EventChan
    pc,             \* "sync", "run"
    unlisted,       \* PRs that ListPRs() did not return yet
    listed,         \* PRs that are to be enqueued, with their base branches
    active,         \* queue.active of each base branch
    suspended,      \* queue.suspended of each base branch
    checks,         \* the checks that are queued on each action pool
    worker,         \* what each worker does
    missed,         \* PRs that were in a worker's hand when an event looked for
                    \* them, or found their queue empty, since the last start
    changes,        \* changes so far
    lost,           \* events that were not delivered since the last start
    restarts        \* crashes so far

github == <<open, base, triggers, ready>>
sync == <<pc, unlisted, listed>>
queues == <<active, suspended>>
pool == <<checks, worker, missed>>
vars == <<github, channel, sync, queues, pool, changes, lost, restarts>>

Kind == {"labeled", "unlabeled", "closed", "edited", "approved", "changes_requested",
         "synchronize", "push"}

Event == [kind : Kind, pr : PR \cup {None}, base : Branch,
          from : Branch \cup {None}, open : BOOLEAN]

(* processPR(), and the resumption of a PR that is to be taken out of the *)
(* suspended ones, or was.                                                 *)
Task == {"none", "process", "unsuspend", "enqueue"}

Operation == [task : Task, pr : PR \cup {None}, ready : BOOLEAN, cancelled : BOOLEAN]

Idle == [task |-> "none", pr |-> None, ready |-> FALSE, cancelled |-> FALSE]

Running(task, p) == [task |-> task, pr |-> p, ready |-> p \in ready, cancelled |-> FALSE]

TypeOK ==
    /\ open \subseteq PR /\ ready \subseteq PR
    /\ base \in [PR -> Branch]
    /\ triggers \in [PR -> SUBSET Trigger]
    /\ channel \in Seq(Event) /\ Len(channel) <= Capacity
    /\ pc \in {"sync", "run"}
    /\ unlisted \subseteq PR /\ listed \subseteq PR \X Branch
    /\ active \in [Branch -> Seq(PR)]
    /\ \A b \in Branch : IsInjective(active[b])
    /\ suspended \in [Branch -> SUBSET PR]
    /\ \A b \in Branch : suspended[b] \cap ToSet(active[b]) = {}
    /\ checks \in [Branch -> Seq(PR)]
    /\ worker \in [Branch -> Operation]
    /\ \A b \in Branch : worker[b].task # "none" => worker[b].pr \in PR
    /\ missed \subseteq PR
    /\ changes \in 0..MaxChanges /\ lost \in Nat /\ restarts \in 0..MaxRestarts

Starting ==
    /\ channel = <<>>
    /\ pc = "sync" /\ unlisted = PR /\ listed = {}
    /\ active = [b \in Branch |-> <<>>]
    /\ suspended = [b \in Branch |-> {}]
    /\ checks = [b \in Branch |-> <<>>]
    /\ worker = [b \in Branch |-> Idle]
    /\ lost = 0 /\ missed = {}

Init ==
    /\ open = PR /\ ready \in SUBSET PR
    /\ base \in [PR -> Branch]
    /\ triggers \in [PR -> SUBSET Trigger]
    /\ Starting
    /\ changes = 0 /\ restarts = 0

-----------------------------------------------------------------------------
(* GitHub *)

(* Faulty variant: the handler is registered when the sync is done. *)
ForwardAfterSync(e) ==
    IF pc = "run" /\ Len(channel) < Capacity THEN channel' = Append(channel, e) /\ UNCHANGED lost
    ELSE UNCHANGED <<channel, lost>>

(* HTTPHandler(): an event for which the channel has no room is lost. *)
Forward(e) ==
    IF Len(channel) < Capacity THEN channel' = Append(channel, e) /\ UNCHANGED lost
    ELSE lost' = lost + 1 /\ UNCHANGED channel

Lose == lost < MaxLost /\ lost' = lost + 1 /\ UNCHANGED channel

Send(kind, p, from) ==
    LET e == [kind |-> kind, pr |-> p, base |-> base'[p], from |-> from, open |-> p \in open]
    IN  Forward(e) \/ Lose

Changes ==
    /\ changes < MaxChanges /\ changes' = changes + 1
    /\ UNCHANGED <<sync, queues, pool, restarts>>

AddTrigger(p, t) ==
    /\ t \notin triggers[p]
    /\ triggers' = [triggers EXCEPT ![p] = @ \cup {t}]
    /\ UNCHANGED <<open, base, ready>>
    /\ Send("labeled", p, None)

RemoveTrigger(p, t) ==
    /\ t \in triggers[p]
    /\ triggers' = [triggers EXCEPT ![p] = @ \ {t}]
    /\ UNCHANGED <<open, base, ready>>
    /\ Send("unlabeled", p, None)

Close(p) ==
    /\ p \in open
    /\ open' = open \ {p}
    /\ UNCHANGED <<base, triggers, ready>>
    /\ Send("closed", p, None)

(* The event has the action "reopened", which is irrelevant. *)
Reopen(p) ==
    /\ Reopens /\ p \notin open
    /\ open' = open \cup {p}
    /\ UNCHANGED <<base, triggers, ready, channel, lost>>

ChangeBase(p, b) ==
    /\ p \in open /\ b # base[p]
    /\ base' = [base EXCEPT ![p] = b]
    /\ UNCHANGED <<open, triggers, ready>>
    /\ Send("edited", p, base[p])

BecomeReady(p) ==
    /\ p \in open \ ready
    /\ ready' = ready \cup {p}
    /\ UNCHANGED <<open, base, triggers>>
    /\ Send("approved", p, None)

BecomeUnready(p) ==
    /\ p \in ready
    /\ ready' = ready \ {p}
    /\ UNCHANGED <<open, base, triggers>>
    /\ Send("changes_requested", p, None)

PushPR(p) ==
    /\ p \in open
    /\ UNCHANGED <<open, base, triggers, ready>>
    /\ Send("synchronize", p, None)

PushBase(b) ==
    /\ UNCHANGED github
    /\ LET e == [kind |-> "push", pr |-> None, base |-> b, from |-> None, open |-> TRUE]
       IN  Forward(e) \/ Lose

Change ==
    /\ Changes
    /\ \/ \E p \in PR :
             \/ \E t \in Trigger : AddTrigger(p, t) \/ RemoveTrigger(p, t)
             \/ Close(p) \/ Reopen(p)
             \/ \E b \in Branch : ChangeBase(p, b)
             \/ BecomeReady(p) \/ BecomeUnready(p) \/ PushPR(p)
       \/ \E b \in Branch : PushBase(b)

-----------------------------------------------------------------------------
(* Coordinator.Enqueue(), Dequeue() and Resume() as functions of the queues. *)

(* orderedmap.Map.Dequeue() *)
Dropped(s, p) ==
    IF Contains(s, p) THEN RemoveAt(s, CHOOSE i \in 1..Len(s) : s[i] = p) ELSE s

InQueue(p, b) == p \in suspended[b] \/ Contains(active[b], p)

(* The PR that ResumePR() took out of the suspended ones and did not enqueue yet. *)
InHand(b) == IF worker[b].task = "enqueue" THEN {worker[b].pr} ELSE {}

Enqueue(p, b) ==
    /\ active' = IF InQueue(p, b) THEN active ELSE [active EXCEPT ![b] = Append(@, p)]
    /\ UNCHANGED suspended

(* The active PRs when Dequeue() has returned; a worker that has the PR in hand *)
(* may put it back before the event loop looks whether the queue is empty.      *)
ActiveWithout(p, b) ==
    {Dropped(active[b], p)} \cup {Append(Dropped(active[b], p), q) : q \in InHand(b) \cap {p}}

Closed(b) == active'[b] = <<>> /\ suspended'[b] = {}

(* cancelActionForPR(), and Wait() for a queue that is found empty: queued checks  *)
(* find no PR, and what the worker has in hand gets into a queue that is deleted.  *)
CancelAction(p, b) ==
    /\ worker' = [worker EXCEPT ![b] =
          IF Closed(b) \/ Contains(active'[b], p) THEN Idle
          ELSE IF @.pr = p THEN [@ EXCEPT !.cancelled = TRUE] ELSE @]
    /\ checks' = IF Closed(b) THEN [checks EXCEPT ![b] = <<>>] ELSE checks
    /\ missed' = missed \cup (IF Closed(b) THEN InHand(b) ELSE InHand(b) \cap {p})

Dequeue(p, b) ==
    /\ \E s \in ActiveWithout(p, b) : active' = [active EXCEPT ![b] = s]
    /\ suspended' = [suspended EXCEPT ![b] = @ \ {p}]
    /\ CancelAction(p, b)

(* The event loop resumes between two events; nobody looks for the PR meanwhile. *)
Resume(ps, b) ==
    /\ \E s \in SetToSeqs(ps \cap suspended[b]) :
          active' = [active EXCEPT ![b] = @ \o s]
    /\ suspended' = [suspended EXCEPT ![b] = @ \ ps]

ChangeBaseBranch(p, from, to) ==
    \/ ~InQueue(p, from) /\ Dequeue(p, from)
    \/ /\ InQueue(p, from)
       /\ \E s \in ActiveWithout(p, from) :
             active' = [b \in Branch |->
                IF b = from THEN s
                ELSE IF b = to /\ ~InQueue(p, to) THEN Append(active[b], p) ELSE active[b]]
       /\ suspended' = [suspended EXCEPT ![from] = @ \ {p}]
       /\ CancelAction(p, from)

-----------------------------------------------------------------------------
(* processEvent() *)

(* "labeled", "auto_merge_enabled" *)
Labeled(e) == (IF e.open THEN Enqueue(e.pr, e.base) ELSE UNCHANGED queues) /\ UNCHANGED pool

(* "unlabeled", "auto_merge_disabled", "closed" *)
Unlabeled(e) == Dequeue(e.pr, e.base)

Edited(e) == ChangeBaseBranch(e.pr, e.from, e.base)

Synchronized(e) == Resume({e.pr}, e.base) /\ UNCHANGED pool

Pushed(e) == Resume(suspended[e.base], e.base) /\ UNCHANGED pool

(* It looks in all queues, and queues a check for the PR. *)
ResumeIfStatusPositive(p) ==
    /\ checks' = [b \in Branch |->
          IF p \in suspended[b] THEN Append(checks[b], p) ELSE checks[b]]
    /\ UNCHANGED <<queues, worker, missed>>

(* A review or a CI status; a negative one only schedules an evaluation. *)
Reviewed(e) ==
    IF e.kind = "approved" THEN ResumeIfStatusPositive(e.pr) ELSE UNCHANGED <<queues, pool>>

ProcessEvent(e) ==
    \/ e.kind = "labeled" /\ Labeled(e)
    \/ e.kind \in {"unlabeled", "closed"} /\ Unlabeled(e)
    \/ e.kind = "edited" /\ Edited(e)
    \/ e.kind = "synchronize" /\ Synchronized(e)
    \/ e.kind = "push" /\ Pushed(e)
    \/ e.kind \in {"approved", "changes_requested"} /\ Reviewed(e)

(* The program ends and is started again. *)
Crash ==
    /\ channel' = <<>>
    /\ pc' = "sync" /\ unlisted' = PR /\ listed' = {}
    /\ active' = [b \in Branch |-> <<>>]
    /\ suspended' = [b \in Branch |-> {}]
    /\ checks' = [b \in Branch |-> <<>>]
    /\ worker' = [b \in Branch |-> Idle]
    /\ lost' = 0 /\ missed' = {}
    /\ UNCHANGED <<github, changes>>

Queued(b) == ToSet(active[b]) \cup suspended[b]

(* The queues that an event takes PR p out of. *)
Leaves(e, p, b) ==
    /\ e.pr = p
    /\ \/ e.kind \in {"unlabeled", "closed"} /\ b = e.base
       \/ e.kind = "edited" /\ b = e.from

(* The queue is found empty and its pool closed before ResumePR() enqueues the PR *)
(* and schedules its evaluation, which panics.                                    *)
ResumedTooLate(e) ==
    /\ \E b \in Branch : Leaves(e, e.pr, b) /\ InHand(b) # {} /\ Queued(b) \subseteq {e.pr}
    /\ Crash

EventLoop ==
    /\ pc = "run" /\ channel # <<>>
    /\ \/ /\ channel' = Tail(channel)
          /\ ProcessEvent(Head(channel))
          /\ UNCHANGED <<github, sync, changes, lost>>
       \/ ResumedTooLate(Head(channel))
    /\ UNCHANGED restarts

-----------------------------------------------------------------------------
(* InitSync() *)

Program == UNCHANGED <<github, channel, changes, lost, restarts>>

Wanted(p) == p \in open /\ triggers[p] # {}

ListPR(p) ==
    /\ p \in unlisted
    /\ unlisted' = unlisted \ {p}
    /\ listed' = IF Wanted(p) THEN listed \cup {<<p, base[p]>>} ELSE listed
    /\ UNCHANGED <<pc, queues, pool>>
    /\ Program

EnqueueListed(p, b) ==
    /\ unlisted = {} /\ <<p, b>> \in listed
    /\ listed' = listed \ {<<p, b>>}
    /\ Enqueue(p, b)
    /\ UNCHANGED <<pc, unlisted, pool>>
    /\ Program

Start ==
    /\ pc = "sync" /\ unlisted = {} /\ listed = {}
    /\ pc' = "run"
    /\ UNCHANGED <<unlisted, listed, queues, pool>>
    /\ Program

InitSync ==
    \/ \E p \in PR : ListPR(p) \/ \E b \in Branch : EnqueueListed(p, b)
    \/ Start

Restart == restarts < MaxRestarts /\ restarts' = restarts + 1 /\ Crash

-----------------------------------------------------------------------------
(* The worker *)

(* processPR(): GitHub's answer. *)
Fetch(b) ==
    /\ worker[b].task = "none" /\ active[b] # <<>>
    /\ worker' = [worker EXCEPT ![b] = Running("process", Head(active[b]))]
    /\ UNCHANGED <<sync, queues, checks, missed>>
    /\ Program

(* suspend() looks for the PR by its number. *)
Suspend(p, b) ==
    IF Contains(active[b], p)
    THEN /\ active' = [active EXCEPT ![b] = Dropped(@, p)]
         /\ suspended' = [suspended EXCEPT ![b] = @ \cup {p}]
    ELSE UNCHANGED queues

(* ActionDequeue *)
Without(p, b) ==
    /\ active' = [active EXCEPT ![b] = Dropped(@, p)]
    /\ suspended' = [suspended EXCEPT ![b] = @ \ {p}]

(* Faulty variant: closed PRs wait to be merged. *)
CompleteOpen(w, b) ==
    \/ ~w.ready /\ Suspend(w.pr, b)
    \/ w.ready /\ UNCHANGED queues

(* What is not ready is suspended; a closed PR is found when its branch is updated. *)
Complete(w, b) ==
    \/ ~w.ready /\ Suspend(w.pr, b)
    \/ w.ready /\ w.pr \notin open /\ ~w.cancelled /\ Without(w.pr, b)
    \/ w.ready /\ (w.pr \in open \/ w.cancelled) /\ UNCHANGED queues

Act(b) ==
    /\ worker[b].task = "process"
    /\ Complete(worker[b], b)
    /\ worker' = [worker EXCEPT ![b] = Idle]
    /\ UNCHANGED <<sync, checks, missed>>
    /\ Program

(* resumeIfPRMergeStatusPositive(): the PR must be suspended, and ready when GitHub *)
(* answers.  It leaves only by events while the worker is here, so that one look at *)
(* the map, which is not locked, stands for both.                                   *)
Check(b) ==
    /\ worker[b].task = "none" /\ checks[b] # <<>>
    /\ checks' = [checks EXCEPT ![b] = Tail(@)]
    /\ worker' = IF Head(checks[b]) \in suspended[b] \cap ready
                 THEN [worker EXCEPT ![b] = Running("unsuspend", Head(checks[b]))]
                 ELSE worker
    /\ UNCHANGED <<sync, queues, missed>>
    /\ Program

(* ResumePR(): _dequeueSuspended(), for a PR that is still suspended. *)
Unsuspend(b) ==
    /\ worker[b].task = "unsuspend"
    /\ suspended' = [suspended EXCEPT ![b] = @ \ {worker[b].pr}]
    /\ worker' = [worker EXCEPT ![b] =
          IF @.pr \in suspended[b] THEN [@ EXCEPT !.task = "enqueue"] ELSE Idle]
    /\ UNCHANGED <<sync, active, checks, missed>>
    /\ Program

(* ResumePR(): queue.lock was released in between; the PR is enqueued. *)
PutBack(b) ==
    /\ worker[b].task = "enqueue"
    /\ Enqueue(worker[b].pr, b)
    /\ worker' = [worker EXCEPT ![b] = Idle]
    /\ UNCHANGED <<sync, checks, missed>>
    /\ Program

Worker(b) == Fetch(b) \/ Act(b) \/ Check(b) \/ Unsuspend(b) \/ PutBack(b)

Next ==
    \/ Change \/ InitSync \/ EventLoop \/ Restart
    \/ \E b \in Branch : Worker(b)

(* The program runs, the periodic trigger has the first PRs evaluated, and the *)
(* pool executes what is queued in turn.                                       *)
Spec ==
    /\ Init /\ [][Next]_vars
    /\ WF_vars(InitSync) /\ WF_vars(EventLoop)
    /\ \A b \in Branch : WF_vars(Worker(b)) /\ SF_vars(Check(b))

-----------------------------------------------------------------------------
Members(b) == Queued(b) \cup InHand(b)

(* When all events are processed, each queue contains the open PRs of its base *)
(* branch that have the trigger, however a restart, the sync, resumptions and  *)
(* buffered events of earlier states interleave; unless an event was lost      *)
(* since the start.  "enqueue/dequeue a pull request when a PR has this label" *)
(* (config.example.toml:30).  The exception are the PRs that ResumePR()        *)
(* (queue.go:430-450) had in hand just when an event was to remove them, or    *)
(* found their queue empty: they come back, or get lost with the queue.        *)
OnlyWanted ==
    pc = "run" /\ channel = <<>> /\ lost = 0 =>
        \A b \in Branch : Members(b) \ missed \subseteq {p \in PR : Wanted(p) /\ base[p] = b}

(* ... and none is missing, with the same exception; one that is being resumed *)
(* is on its way into the queue.                                               *)
NoneMissing ==
    pc = "run" /\ channel = <<>> /\ lost = 0 =>
        \A p \in PR \ missed : Wanted(p) => p \in Members(base[p])

(* "If the pr is already enqueued an ErrAlreadyExists error is returned."      *)
(* (coordinator.go:904): no PR is in two queues.                               *)
OneQueue == \A b, c \in Branch : b # c => Queued(b) \cap Queued(c) = {}

(* "to prevent that pull requests become stuck because GitHub webhook event    *)
(* was missed" (coordinator.go:151): whatever is lost, a PR that is closed or  *)
(* not ready does not block those behind it.                                   *)
BlockedLeaves ==
    \A p \in PR :
        <>[](p \notin open \cap ready)
            => \A b \in Branch : []<>~(active[b] # <<>> /\ Head(active[b]) = p)

(* The suspend queue is for "PRs that do not meet the merge requirements"      *)
(* (README.md:12): one that meets them does not stay there.                    *)
ReadyIsResumed ==
    \A p \in PR :
        <>[](p \in open \cap ready)
            => \A b \in Branch : []<>(p \notin suspended[b])

-----------------------------------------------------------------------------
(* The inductive invariant that OnlyWanted and NoneMissing follow from, if     *)
(* there is one trigger and closed PRs stay closed.                            *)

Enters(e, p, b, S) ==
    /\ e.pr = p /\ b = e.base
    /\ \/ e.kind = "labeled" /\ e.open
       \/ e.kind = "edited" /\ e.from \in S

(* Each event but a push is about a PR; an edited one names two branches.      *)
Genuine(e) ==
    /\ e.kind # "push" => e.pr \in PR
    /\ e.kind = "edited" => e.from \in Branch \ {e.base}

(* The branches that p is queued for after e, if it was queued for those in S. *)
After(e, p, S) == {b \in Branch : (b \in S /\ ~Leaves(e, p, b)) \/ Enters(e, p, b, S)}

(* What the events in the channel do to p, one after the other. *)
Replays(p) ==
    {R \in [0..Len(channel) -> SUBSET Branch] :
        \A i \in 1..Len(channel) : R[i] = After(channel[i], p, R[i - 1])}

Places(p) == {b \in Branch : p \in Members(b) \/ <<p, b>> \in listed}

WantedFor(p) == IF Wanted(p) THEN {base[p]} ELSE {}

(* The events bring a PR to where it belongs. *)
Settles(p) ==
    \E R \in Replays(p) :
        /\ Places(p) \subseteq R[0]
        /\ p \in open => R[0] = Places(p)
        /\ R[Len(channel)] = WantedFor(p)

(* They would do so from wherever the PR is listed: one that is not listed     *)
(* stays out until it is wanted, one that is listed ends where it was listed   *)
(* or where it belongs.                                                        *)
WouldSettle(p) ==
    /\ Places(p) = {}
    /\ \E R \in Replays(p) : R[0] = {} /\ R[Len(channel)] \subseteq WantedFor(p)
    /\ \A b \in Branch : \E R \in Replays(p) :
          /\ R[0] = {b}
          /\ R[Len(channel)] \subseteq {b, base[p]}
          /\ Wanted(p) => R[Len(channel)] # {}

Invariant ==
    /\ TypeOK
    /\ \A i \in 1..Len(channel) : Genuine(channel[i])
    /\ pc = "run" => unlisted = {} /\ listed = {}
    /\ lost = 0 => \A p \in PR \ missed : IF p \in unlisted THEN WouldSettle(p) ELSE Settles(p)

=============================================================================
