-------------------------------- MODULE CIRun --------------------------------
(***************************************************************************)
(* The CI of the first PR of a queue: how processPR() evaluates it         *)
(* (evalPRAction(), queue_processpr.go), how CI.Run() starts the required  *)
(* jobs (ci.go), and what Jenkins and GitHub make of it.                   *)
(*                                                                         *)
(* An evaluation is not atomic: the status is fetched, then the branch is  *)
(* updated and its head looked up, and users push in between.  Starting a  *)
(* job takes two requests: one queues a build, one asks for its number.    *)
(* Each is repeated by the retryer until it succeeds, fails for good,      *)
(* times out, or the operation is cancelled or the retryer stopped.  A     *)
(* repetition without effect is no step here.  A lost response, an end     *)
(* without success, a pause and the resumption of a suspended PR are       *)
(* setbacks, of which there are at most MaxSetbacks.                       *)
(*                                                                         *)
(* Every required check is a configured Jenkins job, there are no other    *)
(* checks.  Labels and commit statuses that directorius sets do not        *)
(* influence the decisions.  A PR that is dequeued is not followed up.     *)
(***************************************************************************)
EXTENDS Integers, Sequences

CONSTANTS
    Job,                    \* the required CI jobs, all of them configured
    MaxCommit,              \* commits of the PR's branch (bound)
    MaxSetbacks,            \* failed requests, pauses, resumptions (bound)
    PushDuringEvaluation    \* whether the author pushes while an evaluation
                            \* has the status but not yet the head commit

ASSUME CIAssumption ==
    /\ MaxCommit \in Nat \ {0}
    /\ MaxSetbacks \in Nat
    /\ PushDuringEvaluation \in BOOLEAN

VARIABLES
    pr,         \* "active" (and first) or "suspended"
    head,       \* GitHub: the head commit of the PR's branch
    behind,     \* GitHub: the base branch has commits that the PR lacks
    shown,      \* GitHub: shown[j], the build whose status job j has at the head
    builds,     \* Jenkins: builds[j], the builds and queue items of job j
    pc,         \* processPR(): "idle", "update", "run"
    ready,      \* its ReadyForMergeStatus.Statuses
    updated,    \* the HeadCommitID for which it runs CI
    run,        \* run[j]: the go-routine of CI.Run() for job j
    triggered,  \* pr.ciTriggeredCommit
    lastStarted,\* pr.lastStartedCIBuilds, by number
    setbacks    \* setbacks so far

github == <<head, behind, shown>>
worker == <<pc, ready, updated, run>>
fields == <<triggered, lastStarted>>
vars == <<pr, github, builds, worker, fields, setbacks>>

Nil == 0       \* no commit, no build

Commits == 1..MaxCommit

(* A build in the queue, started, started and reported as pending, finished   *)
(* and reported; "past" is a build that does not count any more: cancelled in *)
(* the queue, or started for a former commit, whatever becomes of it.         *)
Build == {"queued", "started", "pending", "success", "failure", "past"}

CIJobStatus == [state : {"expected", "pending", "success", "failure"}, build : Nat]
JobRun == [step : {"off", "build", "fetch", "done", "failed"}, item : Nat]

Missing == [state |-> "expected", build |-> Nil]
NotRunning == [step |-> "off", item |-> Nil]
Failed == [step |-> "failed", item |-> Nil]

(* What GitHub says about the required jobs at the head commit; the build is *)
(* looked at only if it failed.                                              *)
Statuses ==
    [j \in Job |->
        IF shown[j] = Nil THEN Missing
        ELSE [state |-> builds[j][shown[j]],
              build |-> IF builds[j][shown[j]] = "failure" THEN shown[j] ELSE Nil]]

Jobs(statuses, state) == {j \in Job : statuses[j].state = state}

(* One failure decides, then one job that is missing. *)
requiredCIStatus(statuses) ==
    IF Jobs(statuses, "failure") # {} THEN "failure"
    ELSE IF Jobs(statuses, "expected") # {} THEN "expected"
    ELSE IF Jobs(statuses, "pending") # {} THEN "pending" ELSE "success"

(* A missing required job wins over the roll-up of GitHub, which may be pending *)
(* when one of the jobs is.                                                     *)
overallCIStatus(statuses) ==
    {requiredCIStatus(statuses)} \cup
        (IF requiredCIStatus(statuses) # "expected" /\ Jobs(statuses, "pending") # {}
         THEN {"pending"} ELSE {})

(* Types only. *)
TypeOK ==
    /\ pr \in {"active", "suspended"}
    /\ head \in Commits
    /\ behind \in BOOLEAN
    /\ shown \in [Job -> Nat]
    /\ builds \in [Job -> Seq(Build)]
    /\ pc \in {"idle", "update", "run"}
    /\ ready \in [Job -> CIJobStatus]
    /\ updated \in Commits \cup {Nil}
    /\ run \in [Job -> JobRun]
    /\ triggered \in Commits \cup {Nil}
    /\ lastStarted \in [Job -> Nat]
    /\ setbacks \in 0..MaxSetbacks

Init ==
    /\ pr = "active"
    /\ head = 1
    /\ behind \in BOOLEAN /\ (behind => head < MaxCommit)
    /\ shown = [j \in Job |-> Nil]
    /\ builds = [j \in Job |-> << >>]
    /\ pc = "idle"
    /\ ready = [j \in Job |-> Missing]
    /\ updated = Nil
    /\ run = [j \in Job |-> NotRunning]
    /\ triggered = Nil
    /\ lastStarted = [j \in Job |-> Nil]
    /\ setbacks = 0

Setback ==
    /\ setbacks < MaxSetbacks
    /\ setbacks' = setbacks + 1

(* suspend() *)
Suspend ==
    /\ pr' = "suspended"
    /\ triggered' = Nil
    /\ UNCHANGED lastStarted

(* ResumePR() *)
Resume ==
    /\ pr = "suspended"
    /\ pr' = "active"
    /\ Setback

(* processPR() returns. *)
Return ==
    /\ pc' = "idle"
    /\ ready' = [j \in Job |-> Missing]
    /\ updated' = Nil
    /\ run' = [j \in Job |-> NotRunning]

-----------------------------------------------------------------------------
(* Users and GitHub *)

(* Faulty variant: the statuses of the former head count for the new one. *)
NewHeadKeepsStatuses ==
    /\ head' = head + 1
    /\ UNCHANGED shown
    /\ builds' = [j \in Job |-> [n \in DOMAIN builds[j] |->
                      IF builds[j][n] = "queued" THEN "queued" ELSE "past"]]

(* A new commit has no statuses and no builds yet. *)
NewHead ==
    /\ head' = head + 1
    /\ shown' = [j \in Job |-> Nil]
    /\ builds' = [j \in Job |-> [n \in DOMAIN builds[j] |->
                      IF builds[j][n] = "queued" THEN "queued" ELSE "past"]]

AuthorPush ==
    /\ head < IF behind THEN MaxCommit - 1 ELSE MaxCommit
    /\ pc = "update" => PushDuringEvaluation
    /\ NewHead
    /\ UNCHANGED <<pr, behind, worker, fields, setbacks>>

BasePush ==
    /\ ~behind /\ head < MaxCommit
    /\ behind' = TRUE
    /\ UNCHANGED <<pr, head, shown, builds, worker, fields, setbacks>>

(* A synchronize or push event resumes the PR, at once or much later. *)
ResumeByEvent ==
    /\ Resume
    /\ UNCHANGED <<github, builds, worker, fields>>

(* resumeIfPRMergeStatusPositive(), for a PR that is approved; the worker runs *)
(* it when it does not evaluate.                                               *)
ResumeIfPositive ==
    /\ pc = "idle"
    /\ overallCIStatus(Statuses) \cap {"success", "pending"} # {}
    /\ Resume
    /\ UNCHANGED <<github, builds, worker, fields>>

(* What the worker is doing is cancelled: an evaluation returns, the go-routines *)
(* of CI.Run() fail.                                                             *)
Cancel ==
    \/ pc # "run" /\ Return
    \/ /\ pc = "run"
       /\ run' = [j \in Job |-> IF run[j].step \in {"build", "fetch"}
                                THEN Failed ELSE run[j]]
       /\ UNCHANGED <<pc, ready, updated>>

(* A user pauses the queue, and resumes it later. *)
Pause ==
    /\ pr = "active" /\ pc # "idle"
    /\ Cancel
    /\ Setback
    /\ UNCHANGED <<pr, github, builds, fields>>

-----------------------------------------------------------------------------
(* Jenkins *)

InState(j, S) == {n \in DOMAIN builds[j] : builds[j][n] \in S}
InQueue(j) == InState(j, {"queued"})

(* A build gets its number when it leaves the queue and checks out the head of *)
(* the branch.                                                                 *)
StartBuild(j) ==
    /\ \E n \in InQueue(j) : builds' = [builds EXCEPT ![j][n] = "started"]
    /\ UNCHANGED <<pr, github, worker, fields, setbacks>>

(* Builds of a job overlap: the status of an old one can replace a newer one's. *)
Report(j, n, state) ==
    /\ builds' = [builds EXCEPT ![j][n] = state]
    /\ shown' = [shown EXCEPT ![j] = n]
    /\ UNCHANGED <<pr, head, behind, worker, fields, setbacks>>

ReportPending(j) == \E n \in InState(j, {"started"}) : Report(j, n, "pending")

ReportResult(j) ==
    \E n \in InState(j, {"started", "pending"}), result \in {"success", "failure"} :
        Report(j, n, result)

-----------------------------------------------------------------------------
(* processPR() *)

(* prReadyForMergeStatus() *)
FetchStatus ==
    /\ pr = "active" /\ pc = "idle"
    /\ ready' = Statuses
    /\ pc' = "update"
    /\ UNCHANGED <<pr, github, builds, updated, run, fields, setbacks>>

(* updatePRWithBase(): GitHub merges the base branch; the poll that sees the  *)
(* result reports the change, and the evaluation ends.  The synchronize event *)
(* starts the next one.                                                       *)
UpdateBranch ==
    /\ pc = "update" /\ behind
    /\ NewHead
    /\ behind' = FALSE
    /\ Return
    /\ UNCHANGED <<pr, fields, setbacks>>

(* What else ends an evaluation: the PR is not approved, has a merge conflict *)
(* or is stale, or a request failed for good.                                 *)
SuspendOtherwise ==
    /\ pc = "update"
    /\ Suspend
    /\ Return
    /\ UNCHANGED <<github, builds, setbacks>>

(* Faulty variant: "<=" instead of "<" in failedRequiredCIStatusesAreObsolete(). *)
LastIsObsolete ==
    \A j \in Jobs(ready, "failure") : ready[j].build <= lastStarted[j]

(* The failed builds are older than the ones that were started last. *)
FailedAreObsolete ==
    \A j \in Jobs(ready, "failure") : ready[j].build < lastStarted[j]

(* updatePRWithBase(): the branch is up to date; its head is looked up only *)
(* now.                                                                     *)
UpToDate == pc = "update" /\ ~behind

(* Faulty variant: ciTriggerNeeded() without the memory. *)
AlwaysNeeded == TRUE

(* The code has another branch for an empty head commit.  There is none here:  *)
(* PRIsUptodate() fails for one (client.go:104-107), and the evaluation ends.  *)
ciTriggerNeeded == head # triggered

(* The merge requirements are met, or the jobs run, or they failed but newer *)
(* builds were started: only label and commit status are set.                *)
NothingToDo ==
    /\ UpToDate
    /\ \/ overallCIStatus(ready) \cap {"success", "pending"} # {}
       \/ "failure" \in overallCIStatus(ready) /\ FailedAreObsolete
       \/ "expected" \in overallCIStatus(ready) /\ ~ciTriggerNeeded
    /\ Return
    /\ UNCHANGED <<pr, github, builds, fields, setbacks>>

SuspendFailed ==
    /\ UpToDate
    /\ "failure" \in overallCIStatus(ready) /\ ~FailedAreObsolete
    /\ Suspend
    /\ Return
    /\ UNCHANGED <<github, builds, setbacks>>

(* CI.Run() starts one go-routine for each expected job. *)
TriggerCI ==
    /\ UpToDate
    /\ "expected" \in overallCIStatus(ready) /\ ciTriggerNeeded
    /\ run' = [j \in Job |-> IF j \in Jobs(ready, "expected")
                             THEN [step |-> "build", item |-> Nil]
                             ELSE NotRunning]
    /\ updated' = head
    /\ ready' = [j \in Job |-> Missing]
    /\ pc' = "run"
    /\ UNCHANGED <<pr, github, builds, fields, setbacks>>

(* Jenkins accepts the build, or answers with the item that is queued already. *)
Accept(j, n) ==
    \/ /\ n \in InQueue(j)
       /\ UNCHANGED builds
    \/ /\ InQueue(j) = {} /\ n = Len(builds[j]) + 1
       /\ builds' = [builds EXCEPT ![j] = Append(@, "queued")]

BuildAccepted(j) ==
    /\ pc = "run" /\ run[j].step = "build"
    /\ \E n \in 1..(Len(builds[j]) + 1) :
          /\ Accept(j, n)
          /\ run' = [run EXCEPT ![j] = [step |-> "fetch", item |-> n]]
    /\ UNCHANGED <<pr, github, pc, ready, updated, fields, setbacks>>

(* Jenkins accepts the build but the response is lost; the retryer repeats it, *)
(* or gives up.                                                                *)
ResponseLost(j) ==
    /\ pc = "run" /\ run[j].step = "build"
    /\ Setback
    /\ \E n \in 1..(Len(builds[j]) + 1) : Accept(j, n)
    /\ \/ UNCHANGED run
       \/ run' = [run EXCEPT ![j] = Failed]
    /\ UNCHANGED <<pr, github, pc, ready, updated, fields>>

(* A request fails for good or the operation times out. *)
RequestFails(j) ==
    /\ pc = "run" /\ run[j].step \in {"build", "fetch"}
    /\ Setback
    /\ run' = [run EXCEPT ![j] = Failed]
    /\ UNCHANGED <<pr, github, builds, pc, ready, updated, fields>>

(* GetBuildFromQueueItemID() sees that the item was cancelled in the queue. *)
ItemCancelled(j) ==
    /\ pc = "run" /\ run[j].step = "fetch"
    /\ builds[j][run[j].item] = "queued"
    /\ Setback
    /\ builds' = [builds EXCEPT ![j][run[j].item] = "past"]
    /\ run' = [run EXCEPT ![j] = Failed]
    /\ UNCHANGED <<pr, github, pc, ready, updated, fields>>

(* Faulty variant: the build number is not waited for. *)
NotWaitedFor(j) ==
    /\ pc = "run" /\ run[j].step = "fetch"
    /\ run' = [run EXCEPT ![j].step = "done"]
    /\ UNCHANGED <<pr, github, builds, pc, ready, updated, fields, setbacks>>

(* GetBuildFromQueueItemID() succeeds as soon as the item has left the queue. *)
BuildFetched(j) ==
    /\ pc = "run" /\ run[j].step = "fetch"
    /\ builds[j][run[j].item] # "queued"
    /\ run' = [run EXCEPT ![j].step = "done"]
    /\ UNCHANGED <<pr, github, builds, pc, ready, updated, fields, setbacks>>

(* Faulty variant: CI.Run() drops the errors of its go-routines. *)
ErrorsIgnored ==
    /\ pc = "run"
    /\ \A j \in Job : run[j].step \in {"off", "done", "failed"}
    /\ lastStarted' = [j \in Job |-> IF run[j].step = "done" THEN run[j].item ELSE Nil]
    /\ triggered' = updated
    /\ Return
    /\ UNCHANGED <<pr, github, builds, setbacks>>

(* CI.Run() has the results of all go-routines. *)
RunReturns ==
    /\ pc = "run"
    /\ \A j \in Job : run[j].step \in {"off", "done", "failed"}
    /\ lastStarted' = [j \in Job |-> IF run[j].step = "done" THEN run[j].item ELSE Nil]
    /\ triggered' = IF \E j \in Job : run[j].step = "failed" THEN triggered ELSE updated
    /\ Return
    /\ UNCHANGED <<pr, github, builds, setbacks>>

(* A suspended PR may wait for ever. *)
Rest ==
    /\ pr = "suspended" /\ pc = "idle"
    /\ UNCHANGED vars

-----------------------------------------------------------------------------
ProcessPR ==
    \/ FetchStatus \/ UpdateBranch
    \/ NothingToDo \/ SuspendFailed \/ TriggerCI \/ RunReturns

Next ==
    \/ AuthorPush \/ BasePush
    \/ ResumeByEvent \/ ResumeIfPositive \/ Pause
    \/ ProcessPR \/ SuspendOtherwise
    \/ \E j \in Job : \/ StartBuild(j) \/ ReportPending(j) \/ ReportResult(j)
                      \/ BuildAccepted(j) \/ BuildFetched(j) \/ ItemCancelled(j)
                      \/ ResponseLost(j) \/ RequestFails(j)
    \/ Rest

(* The periodic trigger starts evaluations again and again, go-routines run,   *)
(* requests are answered in the end; Jenkins runs what it accepted and reports *)
(* it.  Nothing is assumed of users.                                           *)
Fairness ==
    /\ WF_vars(ProcessPR)
    /\ WF_vars(\E j \in Job : BuildAccepted(j) \/ BuildFetched(j))
    /\ WF_vars(\E j \in Job : StartBuild(j) \/ ReportResult(j))

SafetySpec == Init /\ [][Next]_vars
Spec == SafetySpec /\ Fairness

-----------------------------------------------------------------------------
(* Job j has a build of the head commit. *)
HasBuild(j) == InState(j, {"started", "pending", "success", "failure"}) # {}

(* When CI was recorded as triggered for the head of the branch, so that no    *)
(* evaluation triggers it again, then each required job has a build of it.     *)
(* ciTriggerNeeded(): "They are triggered once per head commit, on every task, *)
(* so a lost synchronize event does not leave the queue head without CI"       *)
(* (queue.go:654-655).                                                         *)
HeadHasBuilds ==
    triggered = head =>
        \A j \in Job : HasBuild(j)

(* A job is started once per commit, and once more after each setback:       *)
(* evaluations that overlap with late statuses, failures of other jobs and   *)
(* events that are lost or late cause no further builds (queue.go:653-662).  *)
OncePerCommit == \A j \in Job : Len(builds[j]) <= head + setbacks

(* The first PR does not stay without CI: again and again it is not active, or *)
(* GitHub has a status of each required job for its head, or one that failed.  *)
(* (The failure of an obsolete build can hide that others never ran:          *)
(* evalPRAction() triggers nothing then, queue_processpr.go:191-222.)          *)
HeadGetsCI ==
    []<>(\/ pr # "active"
         \/ \E j \in Job : Statuses[j].state = "failure"
         \/ \A j \in Job : Statuses[j].state # "expected")

(* A PR does not stay active when the last build of a required job failed: *)
(* later retries, resumptions and builds of other commits do not hide it   *)
(* (failedRequiredCIStatusesAreObsolete(), queue_processpr.go:236-279).    *)
FailedIsSuspended ==
    []<>(\/ pr # "active"
         \/ \A j \in Job :
               Statuses[j] # [state |-> "failure", build |-> Len(builds[j])])

-----------------------------------------------------------------------------
(* The inductive invariant that HeadHasBuilds follows from. *)

(* There is a commit left for the update of the branch (bound). *)
RoomForUpdate == behind => head < MaxCommit

(* GitHub shows builds that reported something. *)
ShownReported ==
    \A j \in Job : shown[j] # Nil =>
        shown[j] \in InState(j, {"pending", "success", "failure"})

(* A go-routine that waits for a build number has an item. *)
FetchHasItem ==
    \A j \in Job : run[j].step = "fetch" => run[j].item \in DOMAIN builds[j]

Shape ==
    /\ TypeOK
    /\ RoomForUpdate
    /\ ShownReported
    /\ FetchHasItem

(* Nobody pushes during an evaluation: what it saw is still true of the head. *)
ReadyIsOfHead ==
    pc = "update" => \A j \in Job : ready[j].state = "expected" \/ HasBuild(j)

(* Jobs that are not run, or ran, have a build of the commit for which CI is *)
(* run; the others that got so far are in the queue.  Only a new head makes  *)
(* this untrue, and then it is not the head that will be recorded.           *)
RunIsOfHead ==
    pc = "run" =>
        /\ updated \in 1..head
        /\ updated = head =>
              \A j \in Job :
                  /\ run[j].step \in {"off", "done"} => HasBuild(j)
                  /\ run[j].step = "fetch" => \/ run[j].item \in InQueue(j)
                                             \/ HasBuild(j)

Invariant ==
    /\ Shape
    /\ ReadyIsOfHead
    /\ RunIsOfHead
    /\ triggered <= head
    /\ HeadHasBuilds

-----------------------------------------------------------------------------
(* The inductive invariant that OncePerCommit follows from. *)

(* The run under way may still ask for a build of job j. *)
Asks(j) == pc = "run" /\ run[j].step = "build"

(* Without a further setback or commit there may be another run. *)
RunsAgain ==
    /\ pr = "active"
    /\ IF pc = "run" THEN updated # head \/ \E j \in Job : run[j].step = "failed"
       ELSE triggered # head

Due(j) == (IF Asks(j) THEN 1 ELSE 0) + (IF RunsAgain THEN 1 ELSE 0)

(* A suspended PR asks for nothing; the builds that are due are paid for. *)
Budget ==
    /\ pr = "suspended" => pc # "update" /\ \A j \in Job : ~Asks(j)
    /\ \A j \in Job : Len(builds[j]) + Due(j) <= head + setbacks

=============================================================================
