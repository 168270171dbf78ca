-------------------------------- MODULE Sync ---------------------------------
(***************************************************************************)
(* InitSync() (sync.go): after a start, also one after a crash, the queues *)
(* are rebuilt from what GitHub shows of the open PRs of a repository.     *)
(*                                                                         *)
(* ListPRs() returns them in pages, ordered by the time of their last      *)
(* update; a PR that is updated meanwhile moves to the end, behind the     *)
(* cursor.  The actions of all listed PRs are collected first, then        *)
(* executed one after the other, while the workers of the queues that      *)
(* they fill begin to evaluate the first PRs.                              *)
(*                                                                         *)
(* A PR that is listed twice has two objects, of which the queue keeps the *)
(* first.  Events are buffered until the sync is finished (module          *)
(* Membership).  Requests of the workers are single steps that succeed     *)
(* (module HeadReporting).                                                 *)
(***************************************************************************)
EXTENDS Naturals, Sequences, SequencesExt

CONSTANTS
    PR,             \* numbers of the pull requests
    Branch,         \* base branches
    NoBranch,       \* incomplete information about the base branch
    None,           \* no PR
    PageSize,       \* PRs of a page
    MaxUpdates,     \* updates of PRs while they are listed (bound)
    MaxFailures     \* failed requests (bound)

SyncAssumption ==
    /\ PR \subseteq Nat /\ IsFiniteSet(PR) /\ None \notin PR
    /\ NoBranch \notin Branch
    /\ PageSize \in Nat \ {0}
    /\ MaxUpdates \in Nat /\ MaxFailures \in Nat

VARIABLES
    base,           \* GitHub: base branch of a PR
    trigger,        \* GitHub: PRs with a trigger label
    label,          \* GitHub: PRs with the head label
    status,         \* GitHub: commit status "directorius" of the PR's head
    rest,           \* GitHub: the PRs behind the cursor
    pc,             \* "list", "execute", "done", "failed"
    items,          \* listed PRs with their actions
    headPreserved,  \* base branches that have their head
    pr,             \* the PR of the current item
    actions,        \* its actions that are left
    preserve,       \* preserveHeadLabel
    enqueued,       \* its object is the one in the queue
    queue,          \* queue.active of each base branch
    suspended,      \* PRs in a queue.suspended
    hasHeadLabel,   \* hasHeadLabel of the queued objects
    reported,       \* GithubStatusLastSetState of the queued objects
    heads,          \* history: queued PRs with the head label at the start
    updates,        \* updates so far
    failures        \* failed requests so far

github == <<base, trigger, label, status>>
item == <<pr, actions, preserve, enqueued>>
queues == <<queue, suspended>>
caches == <<hasHeadLabel, reported>>
history == <<heads, updates>>
vars == <<github, rest, pc, items, headPreserved, item, queues, caches, history, failures>>

Action == {"unlabel", "enqueue", "resetStatusState"}

(* What an object has reported; "left" is the pending status of suspend(). *)
State == {"none", "pending", "success", "left"}

TypeOK ==
    /\ base \in [PR -> Branch \cup {NoBranch}]
    /\ trigger \subseteq PR /\ label \subseteq PR
    /\ status \in [PR -> {"none", "pending", "success"}]
    /\ rest \in Seq(PR)
    /\ pc \in {"list", "execute", "done", "failed"}
    /\ items \in Seq([pr : PR, actions : Seq(Action)])
    /\ headPreserved \subseteq Branch
    /\ pr \in PR \cup {None} /\ actions \in Seq(Action)
    /\ preserve \in BOOLEAN /\ enqueued \in BOOLEAN
    /\ queue \in [Branch -> Seq(PR)]
    /\ \A b \in Branch : IsInjective(queue[b])
    /\ suspended \subseteq PR /\ hasHeadLabel \subseteq PR
    /\ reported \in [PR -> State]
    /\ heads \subseteq PR
    /\ updates \in 0..MaxUpdates /\ failures \in 0..MaxFailures

(* GitHub shows what an earlier run left, wherever it stopped. *)
Init ==
    /\ base \in [PR -> Branch \cup {NoBranch}]
    /\ trigger \in SUBSET PR /\ label \in SUBSET PR
    /\ status \in [PR -> {"none", "pending", "success"}]
    /\ rest \in SetToSeqs(PR)
    /\ pc = "list" /\ items = <<>>
    /\ headPreserved = {}
    /\ pr = None /\ actions = <<>> /\ preserve = FALSE /\ enqueued = FALSE
    /\ queue = [b \in Branch |-> <<>>] /\ suspended = {}
    /\ hasHeadLabel = {} /\ reported = [p \in PR |-> "none"]
    /\ heads = trigger \cap label
    /\ updates = 0 /\ failures = 0

-----------------------------------------------------------------------------
(* evaluateActions(): labels are listed in any order. *)
ActionsOf(p) ==
    LET reset == IF status[p] = "success" THEN <<"resetStatusState">> ELSE <<>>
    IN  {labels \o reset : labels \in
            SetToSeqs((IF p \in label THEN {"unlabel"} ELSE {})
                        \cup (IF p \in trigger THEN {"enqueue"} ELSE {}))}

isQueuedHead(i) == Contains(i.actions, "unlabel") /\ Contains(i.actions, "enqueue")

(* Faulty variant: items are executed in the order of the list. *)
Unsorted(s) == {s}

(* slices.SortStableFunc(items, ...): g[k] is where the k-th item was. *)
HeadsFirst(s) ==
    LET before(m, n) == IF isQueuedHead(s[m]) = isQueuedHead(s[n]) THEN m < n
                        ELSE isQueuedHead(s[m])
        sorted == {g \in SetToSeqs(DOMAIN s) :
                      \A k, l \in DOMAIN s : k < l => before(g[k], g[l])}
    IN  {[k \in DOMAIN s |-> s[g[k]]] : g \in sorted}

(* A page of PRs, by their numbers, without those that are in sync. *)
Page ==
    LET listed == {rest[n] : n \in DOMAIN rest \cap 1..PageSize}
    IN  {s \in SetToSeqs({p \in listed : <<>> \notin ActionsOf(p)}) :
            \A m, n \in DOMAIN s : m < n => s[m] < s[n]}

(* Faulty variant: the cursor is moved before the error is looked at. *)
PageReceivedOrLost(all) ==
    \/ items' \in all /\ UNCHANGED failures
    \/ failures < MaxFailures /\ failures' = failures + 1 /\ UNCHANGED items

(* A request for a page that fails is repeated with the old cursor. *)
PageReceived(all) == items' \in all /\ UNCHANGED failures

(* sync(): one page of the loop over ListPRs(). *)
List ==
    /\ pc = "list"
    /\ rest' = SubSeq(rest, PageSize + 1, Len(rest))
    /\ \E page \in Page : \E todo \in [DOMAIN page -> UNION {ActionsOf(p) : p \in ToSet(page)}] :
          LET all == items \o [n \in DOMAIN page |-> [pr |-> page[n], actions |-> todo[n]]]
          IN  /\ \A n \in DOMAIN page : todo[n] \in ActionsOf(page[n])
              /\ IF rest' # <<>> THEN PageReceived({all}) /\ UNCHANGED pc
                 ELSE PageReceived(HeadsFirst(all)) /\ pc' = "execute"
    /\ UNCHANGED <<github, headPreserved, item, queues, caches, history>>

(* The list cannot be fetched: only the error is logged (main.go:397). *)
ListFails ==
    /\ pc = "list" /\ failures < MaxFailures
    /\ failures' = failures + 1
    /\ pc' = "failed"
    /\ UNCHANGED <<github, rest, items, headPreserved, item, queues, caches, history>>

(* GitHub: something happens to a PR while the list is fetched. *)
Update(p) ==
    /\ pc = "list" /\ updates < MaxUpdates
    /\ updates' = updates + 1
    /\ \/ ~Contains(rest, p) /\ rest' = Append(rest, p)
       \/ \E n \in DOMAIN rest : rest[n] = p /\ rest' = Append(RemoveAt(rest, n), p)
    /\ UNCHANGED <<github, pc, items, headPreserved, item, queues, caches, heads, failures>>

-----------------------------------------------------------------------------
(* Faulty variant: each PR with both labels keeps the head label. *)
PreservesAlways(i) == isQueuedHead(i)

preserveHeadLabel(i) == isQueuedHead(i) /\ base[i.pr] \notin headPreserved

NextItem ==
    /\ pc = "execute" /\ actions = <<>> /\ items # <<>>
    /\ items' = Tail(items)
    /\ pr' = Head(items).pr /\ actions' = Head(items).actions
    /\ preserve' = preserveHeadLabel(Head(items))
    /\ enqueued' = FALSE
    /\ UNCHANGED <<github, rest, pc, headPreserved, queues, caches, history, failures>>

Finish ==
    /\ pc = "execute" /\ actions = <<>> /\ items = <<>>
    /\ pc' = "done"
    /\ UNCHANGED <<github, rest, items, headPreserved, item, queues, caches, history, failures>>

Do(action) ==
    /\ actions # <<>> /\ Head(actions) = action
    /\ actions' = Tail(actions)
    /\ UNCHANGED <<base, trigger, rest, pc, items, pr, history>>

(* removeLabel(): an error is only logged. *)
RemoveLabel ==
    \/ label' = label \ {pr} /\ UNCHANGED failures
    \/ failures < MaxFailures /\ failures' = failures + 1 /\ UNCHANGED label

Unlabel ==
    /\ Do("unlabel")
    /\ IF preserve THEN UNCHANGED <<label, failures>> ELSE RemoveLabel
    /\ UNCHANGED <<headPreserved, preserve, enqueued, status, queues, caches>>

Preserved == headPreserved' = headPreserved \cup (IF preserve THEN {base[pr]} ELSE {})

EnqueueFails ==
    /\ Do("enqueue") /\ base[pr] = NoBranch
    /\ preserve' = FALSE
    /\ IF preserve THEN RemoveLabel ELSE UNCHANGED <<label, failures>>
    /\ UNCHANGED <<headPreserved, enqueued, status, queues, caches>>

(* Faulty variant: only the suspended PRs are looked at. *)
AlreadySuspended(p) == p \in suspended

AlreadyExists(p) == p \in suspended \/ Contains(queue[base[p]], p)

EnqueueAgain ==
    /\ Do("enqueue") /\ base[pr] # NoBranch /\ AlreadyExists(pr)
    /\ Preserved
    /\ UNCHANGED <<preserve, enqueued, label, status, queues, caches, failures>>

Enqueue ==
    /\ Do("enqueue") /\ base[pr] # NoBranch /\ ~AlreadyExists(pr)
    /\ Preserved
    /\ enqueued' = TRUE
    /\ queue' = [queue EXCEPT ![base[pr]] = Append(@, pr)]
    /\ hasHeadLabel' = IF preserve THEN hasHeadLabel \cup {pr} ELSE hasHeadLabel
    /\ UNCHANGED <<preserve, label, status, suspended, reported, failures>>

(* Faulty variant: the queue's object is not told. *)
ReportedElsewhere == UNCHANGED reported

ReportedPending ==
    reported' = IF enqueued THEN [reported EXCEPT ![pr] = "pending"] ELSE reported

(* createCommitStatus() for the object of the item. *)
ResetStatusState ==
    /\ Do("resetStatusState")
    /\ \/ /\ enqueued /\ reported[pr] = "pending"
          /\ UNCHANGED <<status, reported, failures>>
       \/ /\ ~(enqueued /\ reported[pr] = "pending")
          /\ status' = [status EXCEPT ![pr] = "pending"]
          /\ ReportedPending
          /\ UNCHANGED failures
       \/ /\ failures < MaxFailures /\ failures' = failures + 1
          /\ UNCHANGED <<status, reported>>
    /\ UNCHANGED <<headPreserved, preserve, enqueued, label, queues, hasHeadLabel>>

Execute == NextItem \/ Unlabel \/ EnqueueFails \/ EnqueueAgain \/ Enqueue \/ ResetStatusState \/ Finish

-----------------------------------------------------------------------------
IsFirst(p) == \E b \in Branch : queue[b] # <<>> /\ p = Head(queue[b])

Worker ==
    UNCHANGED <<base, trigger, rest, pc, items, headPreserved, item, history, failures>>

(* The worker evaluates the first PR: prAddQueueHeadLabel() *)
AddHeadLabel(p) ==
    /\ IsFirst(p) /\ p \notin hasHeadLabel
    /\ label' = label \cup {p} /\ hasHeadLabel' = hasHeadLabel \cup {p}
    /\ Worker /\ UNCHANGED <<status, queues, reported>>

(* prCreateCommitStatus(success) *)
ReportSuccess(p) ==
    /\ IsFirst(p) /\ reported[p] # "success"
    /\ status' = [status EXCEPT ![p] = "success"]
    /\ reported' = [reported EXCEPT ![p] = "success"]
    /\ Worker /\ UNCHANGED <<label, queues, hasHeadLabel>>

(* suspend() *)
Suspend(b) ==
    /\ queue[b] # <<>>
    /\ queue' = [queue EXCEPT ![b] = Tail(@)]
    /\ suspended' = suspended \cup {Head(queue[b])}
    /\ label' = label \ {Head(queue[b])}
    /\ hasHeadLabel' = hasHeadLabel \ {Head(queue[b])}
    /\ status' = [status EXCEPT ![Head(queue[b])] = "pending"]
    /\ reported' = [reported EXCEPT ![Head(queue[b])] = "left"]
    /\ Worker

Report == \E p \in PR : AddHeadLabel(p) \/ ReportSuccess(p)

Next ==
    \/ List \/ ListFails \/ Execute
    \/ \E p \in PR : Update(p)
    \/ Report
    \/ \E b \in Branch : Suspend(b)

(* The sync goes on, and the workers evaluate again and again.  Whether a PR   *)
(* is suspended is open.                                                       *)
Spec ==
    /\ Init /\ [][Next]_vars
    /\ WF_vars(List) /\ WF_vars(Execute)
    /\ \A p \in PR : WF_vars(AddHeadLabel(p)) /\ WF_vars(ReportSuccess(p))

-----------------------------------------------------------------------------
(* "A PR that has [a.HeadLabel] and is enqueued is placed at the head of its   *)
(* queue" (sync.go:41): the PR that was first before a crash is first again,   *)
(* and its CI was not in vain, unless it was suspended since.                  *)
HeadSurvives ==
    \A b \in Branch :
        queue[b] # <<>> /\ (\E p \in heads : base[p] = b)
            => \/ Head(queue[b]) \in heads
               \/ \E p \in suspended : base[p] = b /\ p \in heads

(* Whatever is updated between the pages, no PR with a trigger label is        *)
(* forgotten (listprs.go:80).                                                  *)
AllEnqueued ==
    pc = "done" => \A p \in trigger : base[p] # NoBranch => AlreadyExists(p)

(* What a crash left on GitHub is cleaned up (sync.go:42): afterwards no PR    *)
(* that is not first is labelled or shown as ready to be merged.               *)
OnlyFirstShows ==
    pc = "done" /\ failures = 0 =>
        \A p \in label \cup {q \in PR : status[q] = "success"} : IsFirst(p)

-----------------------------------------------------------------------------
(* The inductive invariant of these three.                                     *)

Before == pc \in {"list", "failed"}

(* Nothing is executed before all is listed. *)
Phases ==
    /\ Before => /\ heads = trigger \cap label
                 /\ actions = <<>> /\ headPreserved = {}
                 /\ queue = [b \in Branch |-> <<>>] /\ suspended = {}
    /\ ~Before => rest = <<>>
    /\ pc = "done" => items = <<>> /\ actions = <<>>

(* The actions are those that the labels at the start call for. *)
ActionsAreTrue ==
    /\ heads \subseteq trigger
    /\ \A n \in DOMAIN items :
          /\ IsInjective(items[n].actions)
          /\ Contains(items[n].actions, "enqueue") => items[n].pr \in trigger
          /\ isQueuedHead(items[n]) <=> items[n].pr \in heads
    /\ IsInjective(actions)
    /\ actions # <<>> => pr \in PR
    /\ Contains(actions, "enqueue") => pr \in trigger
    /\ preserve => pr \in heads

(* The heads are enqueued first. *)
HeadsAreFirst ==
    /\ pc = "execute" =>
          \A m, n \in DOMAIN items : m < n /\ items[n].pr \in heads => items[m].pr \in heads
    /\ Contains(actions, "enqueue") /\ pr \notin heads =>
          \A n \in DOMAIN items : items[n].pr \notin heads

Behind(action, p) ==
    \E n \in DOMAIN items : items[n].pr = p /\ Contains(items[n].actions, action)

Owed(action, p) == (pr = p /\ Contains(actions, action)) \/ Behind(action, p)

(* A head that is still to be enqueued preserves its label if and only if no   *)
(* PR came to its queue before it.                                             *)
OnePreserves ==
    /\ Contains(actions, "enqueue") /\ pr \in heads =>
          (preserve <=> base[pr] \notin headPreserved)
    /\ \A b \in Branch, p \in heads :
          /\ queue[b] # <<>> \/ \E q \in suspended : base[q] = b
          /\ base[p] = b /\ Owed("enqueue", p)
          => b \in headPreserved

QueuesAreTrue == \A b \in Branch, p \in PR : Contains(queue[b], p) => base[p] = b

NoneForgotten ==
    \A p \in trigger : base[p] # NoBranch =>
        AlreadyExists(p) \/ Contains(rest, p) \/ Owed("enqueue", p)

(* What a PR that is not first shows will be removed. *)
LabelsAreRemoved ==
    failures = 0 => \A p \in label :
        \/ IsFirst(p) \/ Contains(rest, p) \/ Behind("unlabel", p)
        \/ pr = p /\ Contains(actions, IF preserve THEN "enqueue" ELSE "unlabel")

StatusIsReset ==
    /\ \A p \in PR : reported[p] = "pending" => status[p] = "pending"
    /\ failures = 0 => \A p \in PR : status[p] = "success" =>
           IsFirst(p) \/ Contains(rest, p) \/ Owed("resetStatusState", p)

Invariant ==
    /\ TypeOK /\ Phases /\ ActionsAreTrue /\ HeadsAreFirst /\ OnePreserves /\ QueuesAreTrue
    /\ HeadSurvives /\ NoneForgotten /\ LabelsAreRemoved /\ StatusIsReset

-----------------------------------------------------------------------------
(* The first PR is shown as successful in the end, although the sync resets    *)
(* its status while the worker reports it (sync.go:176).                       *)
(* "reports a positive directorius commit status to GitHub" (README.md:19).    *)
FirstShowsSuccess ==
    \A p \in PR : <>[]IsFirst(p) => <>[](status[p] = "success")

(* "headLabel is a GitHub label that is applied to the first pull-request in   *)
(* the active queue" (queue.go:104).                                           *)
FirstHasLabel ==
    \A p \in PR : <>[]IsFirst(p) => <>[](p \in label)

=============================================================================
