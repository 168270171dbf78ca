---------------------------- MODULE BranchUpdate -----------------------------
(***************************************************************************)
(* How the first PR of a queue is kept up to date with its base branch:    *)
(* updatePRWithBase() (queue.go), which polls UpdateBranch() and           *)
(* PRIsUptodate() (githubclt/client.go), and what evalPRAction() and       *)
(* processPR() make of the result.                                         *)
(*                                                                         *)
(* Each attempt takes up to three requests, and the author, the base       *)
(* branch and GitHub, which merges some time after it accepted a request,  *)
(* move between them.  GitHub checks the expected head when it is asked    *)
(* and when it merges.  It reports the mergeable state "behind" only of    *)
(* PRs that are, but not of all of them.  Approvals, staleness and CI are  *)
(* left to CIRun and Staleness.                                            *)
(***************************************************************************)
EXTENDS Naturals, FiniteSets

CONSTANTS
    MaxHead,        \* commits of the PR's branch (bound)
    BaseCommit,     \* commits that the base branch can get
    MaxCancels,     \* evaluations that are cancelled (bound)
    BaseShrinks     \* whether the base branch is reset to older commits

UpdateAssumption ==
    /\ MaxHead \in Nat \ {0} /\ MaxCancels \in Nat
    /\ IsFiniteSet(BaseCommit)
    /\ BaseShrinks \in BOOLEAN

VARIABLES
    head,       \* the PR's head commit
    contains,   \* the base branch's commits that a commit of the PR contains
    base,       \* the commits of the base branch
    conflict,   \* merging the base branch fails
    closed,     \* the PR is closed
    accepted,   \* the expected heads of merges that GitHub has accepted
    pr,         \* where the PR is: "first", "suspended" or "out"
    pc,         \* the worker: "idle", a request ("get", "compare", "update"),
                \* "wait" in the retryer, "decide" or "suspend"
    sha,        \* prHEADSHA
    changed,    \* changed of updatePRWithBase()
    result,     \* its result
    commented,  \* a comment explains the suspension
    start,      \* the head when updatePRWithBase() was called
    lasting,    \* base commits that have been there since then
    cancels     \* evaluations cancelled so far

github == <<head, contains, base, conflict, closed>>
vars == <<github, accepted, pr, pc, sha, changed, result, commented, start, lasting, cancels>>

Commit == 1..MaxHead

Behind(c) == ~(base \subseteq contains[c])

Requests == {"get", "compare", "update"}

TypeOK ==
    /\ head \in Commit
    /\ contains \in [Commit -> SUBSET BaseCommit]
    /\ base \in SUBSET BaseCommit
    /\ conflict \in BOOLEAN /\ closed \in BOOLEAN
    /\ accepted \subseteq Commit
    /\ pr \in {"first", "suspended", "out"}
    /\ pc \in Requests \cup {"idle", "wait", "decide", "suspend"}
    /\ sha \in Commit
    /\ changed \in BOOLEAN
    /\ result \in {"none", "unchanged", "changed", "closed", "conflict", "error"}
    /\ commented \in BOOLEAN
    /\ start \in Commit
    /\ lasting \subseteq BaseCommit
    /\ cancels \in 0..MaxCancels

Init ==
    /\ head = 1 /\ contains = [c \in Commit |-> {}]
    /\ base \in SUBSET BaseCommit
    /\ conflict = FALSE /\ closed = FALSE
    /\ accepted = {}
    /\ pr = "first" /\ pc = "idle"
    /\ sha = 1 /\ changed = FALSE /\ result = "none"
    /\ commented = FALSE
    /\ start = 1 /\ lasting = {}
    /\ cancels = 0

worker == <<pr, pc, sha, changed, result, commented, start, cancels>>

-----------------------------------------------------------------------------
(* GitHub and its users *)

NewHead(content) ==
    /\ head < MaxHead /\ ~closed
    /\ head' = head + 1
    /\ contains' = [contains EXCEPT ![head + 1] = content]

(* The author may merge the base branch, and may solve a conflict. *)
AuthorPush ==
    /\ \/ NewHead(contains[head]) /\ conflict' \in BOOLEAN
       \/ NewHead(contains[head] \cup base) /\ conflict' = FALSE
    /\ UNCHANGED <<base, closed, accepted, lasting, worker>>

BasePush ==
    /\ \E c \in BaseCommit \ UNION {contains[d] : d \in Commit} :
          c \notin base /\ base' = base \cup {c}
    /\ conflict' \in BOOLEAN /\ (conflict => conflict')
    /\ UNCHANGED <<head, contains, closed, accepted, lasting, worker>>

BaseReset ==
    /\ BaseShrinks
    /\ \E c \in base : base' = base \ {c} /\ lasting' = lasting \ {c}
    /\ UNCHANGED <<head, contains, conflict, closed, accepted, worker>>

Close ==
    /\ ~closed
    /\ closed' = TRUE
    /\ UNCHANGED <<head, contains, base, conflict, accepted, lasting, worker>>

(* An accepted merge is made, or turns out to be impossible. *)
Merge ==
    \E h \in accepted :
        /\ accepted' = accepted \ {h}
        /\ IF h = head /\ ~conflict /\ ~closed THEN NewHead(contains[head] \cup base)
           ELSE UNCHANGED <<head, contains>>
        /\ UNCHANGED <<base, conflict, closed, lasting, worker>>

-----------------------------------------------------------------------------
(* UpdateBranch(), as repeated by the retryer *)

evaluation == <<pr, commented, start, lasting, cancels>>

(* evalPRAction() calls updatePRWithBase(). *)
Begin ==
    /\ pr = "first" /\ pc = "idle"
    /\ pc' = "get"
    /\ changed' = FALSE /\ result' = "none"
    /\ start' = head /\ lasting' = base
    /\ UNCHANGED <<github, accepted, pr, sha, commented, cancels>>

Return(r) == pc' = "decide" /\ result' = r

(* The result of an attempt that found the branch up to date. *)
Succeed == Return(IF changed THEN "changed" ELSE "unchanged")

(* wrapRESTRetryableErrors(): a rate limit or a server error; others end it. *)
FailedRequest ==
    /\ pc \in Requests
    /\ \/ pc' = "wait" /\ UNCHANGED result
       \/ Return("error")
    /\ UNCHANGED <<github, accepted, sha, changed, evaluation>>

(* Faulty variant: the mergeable state decides alone. *)
GetOnly ==
    /\ pc = "get"
    /\ sha' = head
    /\ IF closed THEN Return("closed")
       ELSE \/ Behind(head) /\ pc' = "update" /\ UNCHANGED result
            \/ Succeed
    /\ UNCHANGED <<github, accepted, changed, evaluation>>

(* Faulty variant: a PR that is closed is not told from others. *)
GetAny ==
    /\ pc = "get"
    /\ sha' = head
    /\ pc' = "compare"
    /\ UNCHANGED <<github, accepted, changed, result, evaluation>>

(* Faulty variant: a head without a commit ID is taken as it is. *)
GetEmpty ==
    /\ pc = "get"
    /\ sha' \in {head, 0}
    /\ IF closed THEN Return("closed") ELSE pc' = "compare" /\ UNCHANGED result
    /\ UNCHANGED <<github, accepted, changed, evaluation>>

(* PRIsUptodate() *)
Get ==
    /\ pc = "get"
    /\ sha' = head
    /\ IF closed THEN Return("closed")
       ELSE /\ \/ Behind(head) /\ pc' = "update"
               \/ pc' = "compare"
            /\ UNCHANGED result
    /\ UNCHANGED <<github, accepted, changed, evaluation>>

(* BranchIsBehindBase() *)
Compare ==
    /\ pc = "compare"
    /\ IF Behind(sha) THEN pc' = "update" /\ UNCHANGED result ELSE Succeed
    /\ UNCHANGED <<github, accepted, sha, changed, evaluation>>

(* Faulty variant: the update is taken for done when it is scheduled. *)
ScheduleOnly ==
    /\ accepted' = accepted \cup {sha}
    /\ changed' = TRUE
    /\ Return("changed")
    /\ UNCHANGED github

(* 202: retried until the update is done.  The response can be lost. *)
Schedule ==
    /\ accepted' = accepted \cup {sha}
    /\ \/ changed' = TRUE /\ pc' = "wait" /\ UNCHANGED result
       \/ UNCHANGED changed /\ pc' = "wait" /\ UNCHANGED result
       \/ UNCHANGED changed /\ Return("error")
    /\ UNCHANGED github

(* Faulty variant: no expected head is given. *)
UpdateAnyHead ==
    /\ pc = "update"
    /\ IF conflict THEN Return("conflict") /\ UNCHANGED <<github, accepted, changed>>
       ELSE /\ accepted' = accepted \cup {head}
            /\ changed' = TRUE /\ pc' = "wait"
            /\ UNCHANGED <<github, result>>
    /\ UNCHANGED <<sha, evaluation>>

Update ==
    /\ pc = "update"
    /\ CASE closed -> Return("error") /\ UNCHANGED <<github, accepted, changed>>
         [] ~closed /\ head # sha ->
               pc' = "wait" /\ UNCHANGED <<github, accepted, changed, result>>
         [] ~closed /\ head = sha /\ ~Behind(head) ->
               Succeed /\ UNCHANGED <<github, accepted, changed>>
         [] ~closed /\ head = sha /\ Behind(head) /\ conflict ->
               Return("conflict") /\ UNCHANGED <<github, accepted, changed>>
         [] OTHER ->
               \/ Schedule
               \/ /\ NewHead(contains[head] \cup base)
                  /\ changed' = TRUE /\ Return("changed")
                  /\ UNCHANGED <<base, conflict, closed, accepted>>
    /\ UNCHANGED <<sha, evaluation>>

(* The next attempt, after updateBranchPollInterval or a backoff. *)
Retry ==
    /\ pc = "wait"
    /\ pc' = "get"
    /\ UNCHANGED <<github, accepted, sha, changed, result, evaluation>>

(* operationTimeout *)
Expire ==
    /\ pc \in Requests \cup {"wait"}
    /\ Return("error")
    /\ UNCHANGED <<github, accepted, sha, changed, evaluation>>

-----------------------------------------------------------------------------
(* evalPRAction() and processPR() *)

(* Faulty variant: only errors suspend. *)
DecideErrors ==
    /\ pc = "decide"
    /\ pr' = CASE result = "closed" -> "out" [] result = "error" -> "suspended" [] OTHER -> pr
    /\ pc' = "idle"
    /\ UNCHANGED <<github, accepted, sha, changed, result, commented, start, lasting, cancels>>

(* A conflict is commented on first, which can fail: suspend() cancels ctx. *)
Decide ==
    /\ pc = "decide"
    /\ pr' = CASE result = "closed" -> "out" [] result = "error" -> "suspended" [] OTHER -> pr
    /\ IF result = "conflict" THEN pc' = "suspend" /\ commented' \in BOOLEAN
       ELSE pc' = "idle" /\ UNCHANGED commented
    /\ UNCHANGED <<github, accepted, sha, changed, result, start, lasting, cancels>>

Suspend ==
    /\ pc = "suspend"
    /\ pr' = "suspended" /\ pc' = "idle"
    /\ UNCHANGED <<github, accepted, sha, changed, result, commented, start, lasting, cancels>>

(* The queue is paused, or stopped: the evaluation ends without a decision. *)
Cancel ==
    /\ pc \in Requests \cup {"wait"} /\ cancels < MaxCancels
    /\ cancels' = cancels + 1
    /\ pc' = "idle" /\ result' = "none"
    /\ UNCHANGED <<github, accepted, pr, sha, changed, commented, start, lasting>>

Work == Begin \/ Get \/ Compare \/ Update \/ Retry \/ Decide \/ Suspend

Next ==
    \/ AuthorPush \/ BasePush \/ BaseReset \/ Close \/ Merge
    \/ Work
    \/ FailedRequest \/ Expire \/ Cancel

(* The worker makes its requests and the periodic trigger starts evaluations;  *)
(* the timeout comes when it is due.                                           *)
Fairness == WF_vars(Work) /\ WF_vars(Expire)

Spec == Init /\ [][Next]_vars

FairSpec == Spec /\ Fairness

-----------------------------------------------------------------------------
(* GitHub "creates an empty merge commit" if it is asked to update a branch    *)
(* that is up to date (client.go:161-164): no update that is requested is one, *)
(* although the author may merge the base branch between any two requests.     *)
NoEmptyMerge ==
    /\ \A h \in accepted : h = head => Behind(h)
    /\ pc = "update" /\ sha = head => Behind(head)

(* Whatever happens during an evaluation, the head for which CI is run after   *)
(* it contains all that the base branch had during the whole of it             *)
(* (client.go:84-88).                                                          *)
UnchangedIsFresh ==
    pc = "decide" /\ result = "unchanged" =>
        sha \in start..head /\ lasting \subseteq contains[sha]

(* An evaluation that ends because the branch was updated relies on the        *)
(* synchronize event to cause the next one (queue_processpr.go:123-127): there *)
(* has been a new head since it began.                                         *)
ChangedIsPushed == pc = "decide" /\ result = "changed" => head # start

(* A first PR that lacks commits of its base branch does not stay so: it is    *)
(* updated or it makes room (queue.go:511-514).                                *)
BehindEnds == pr = "first" /\ Behind(head) ~> pr # "first" \/ ~Behind(head)

(* A closed PR does not stay first, although its event may be lost             *)
(* (queue_processpr.go:99-106).                                                *)
ClosedLeaves == pr = "first" /\ closed ~> pr # "first"

-----------------------------------------------------------------------------
(* The inductive invariant that the safety properties follow from. *)

(* Commits are numbered in the order in which they are pushed, and the worker  *)
(* and GitHub know only those that were.                                       *)
Order ==
    /\ start <= head /\ sha <= head
    /\ pc \in {"compare", "update"} => start <= sha
    /\ \A h \in accepted : h <= head
    /\ lasting \subseteq base

(* What an update was requested for lacks commits of the base branch, also     *)
(* when it has not been made yet.                                              *)
ScheduledIsBehind == changed /\ head = start => Behind(start)

Shape == TypeOK /\ Order

Invariant ==
    /\ Shape
    /\ UnchangedIsFresh
    /\ ~BaseShrinks => NoEmptyMerge /\ ScheduledIsBehind /\ ChangedIsPushed

=============================================================================
