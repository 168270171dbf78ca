-------------------------------- MODULE MCEnds --------------------------------
(***************************************************************************)
(* An instance for TLC of what has to happen in the end, apart from the    *)
(* merge queue itself: the first PR is labelled and shown as successful    *)
(* (HeadReporting, which is extended), calls return (Retryer), CI runs     *)
(* (CIRun), PRs that cannot be merged make room (Membership) and the       *)
(* synchronization leaves the first PR as it is to be (Sync).  They have   *)
(* no state in common: "part" is the one that moves, the others stay as    *)
(* they begin.  Part "lossy" is the reporting with responses that get      *)
(* lost.                                                                   *)
(***************************************************************************)
EXTENDS HeadReporting

VARIABLES
    part,
    callPc, timer, deadline, cancelled, after, interval, closed, stopped, more,
    ciPr, head, behind, shown, builds, ciPc, ciReady, updated, run, triggered, lastStarted,
    ciSetbacks,
    open, base, triggers, ready, channel, eventsPc, unlisted, listed, active, suspended,
    checks, eventsWorker, missed, changes, lost, restarts,
    syncBase, trigger, syncLabel, syncStatus, rest, syncPc, items, headPreserved, pr, actions,
    preserve, enqueued, syncQueue, syncSuspended, syncHasHeadLabel, syncReported, heads,
    updates, failures

Callers == {"run 1", "run 2"}
Jobs == {"build", "test"}

LossyReporting == INSTANCE HeadReporting WITH Lossy <- TRUE, MaxSetbacks <- 1

Calls == INSTANCE Retryer WITH
    Caller <- Callers, Off <- None, DefTimeout <- 2, MaxAfter <- 1,
    LibraryInterval <- 1, InitialInterval <- 1, MaxInterval <- 1, pc <- callPc

CI == INSTANCE CIRun WITH
    Job <- Jobs, MaxCommit <- 1, MaxSetbacks <- 1, PushDuringEvaluation <- FALSE,
    pr <- ciPr, pc <- ciPc, ready <- ciReady, setbacks <- ciSetbacks

Events == INSTANCE Membership WITH
    PR <- {1, 2}, Branch <- {"main"}, Trigger <- {"label"}, Capacity <- 2,
    Reopens <- TRUE, MaxChanges <- 2, MaxLost <- 1, MaxRestarts <- 0,
    pc <- eventsPc, worker <- eventsWorker

Startup == INSTANCE Sync WITH
    PR <- {1, 2}, Branch <- {"main"}, NoBranch <- None, PageSize <- 1, MaxUpdates <- 0,
    MaxFailures <- 1, base <- syncBase, label <- syncLabel, status <- syncStatus, pc <- syncPc,
    queue <- syncQueue, suspended <- syncSuspended, hasHeadLabel <- syncHasHeadLabel,
    reported <- syncReported

callVars == <<callPc, timer, deadline, cancelled, after, interval, closed, stopped, more>>
ciVars == <<ciPr, head, behind, shown, builds, ciPc, ciReady, updated, run, triggered,
            lastStarted, ciSetbacks>>
eventVars == <<open, base, triggers, ready, channel, eventsPc, unlisted, listed, active,
               suspended, checks, eventsWorker, missed, changes, lost, restarts>>
syncVars == <<syncBase, trigger, syncLabel, syncStatus, rest, syncPc, items, headPreserved, pr,
              actions, preserve, enqueued, syncQueue, syncSuspended, syncHasHeadLabel,
              syncReported, heads, updates, failures>>
allVars == <<part, vars, callVars, ciVars, eventVars, syncVars>>

-----------------------------------------------------------------------------
NothingOpen ==
    /\ syncBase = [p \in {1, 2} |-> None] /\ rest = <<1, 2>>
    /\ trigger = {} /\ syncLabel = {} /\ syncStatus = [p \in {1, 2} |-> "none"]

NothingReady ==
    /\ ready = {} /\ triggers = [p \in {1, 2} |-> {}] /\ base = [p \in {1, 2} |-> "main"]

EndsInit ==
    /\ part \in {"reporting", "lossy", "calls", "ci", "events", "startup"}
    /\ (part \notin {"reporting", "lossy"} => branch = [p \in PR |-> CHOOSE c \in Commit : TRUE])
    /\ Init /\ Calls!Init /\ CI!Init
    /\ (part # "events" => NothingReady) /\ Events!Init
    /\ (part # "startup" => NothingOpen) /\ Startup!Init

EndsNext ==
    /\ UNCHANGED part
    /\ \/ part = "reporting" /\ Next /\ UNCHANGED <<callVars, ciVars, eventVars, syncVars>>
       \/ /\ part = "lossy" /\ LossyReporting!Next
          /\ UNCHANGED <<callVars, ciVars, eventVars, syncVars>>
       \/ part = "calls" /\ Calls!Next /\ UNCHANGED <<vars, ciVars, eventVars, syncVars>>
       \/ part = "ci" /\ CI!Next /\ UNCHANGED <<vars, callVars, eventVars, syncVars>>
       \/ part = "events" /\ Events!Next /\ UNCHANGED <<vars, callVars, ciVars, syncVars>>
       \/ part = "startup" /\ Startup!Next /\ UNCHANGED <<vars, callVars, ciVars, eventVars>>

(* The fairness of the modules, each as long as it moves. *)
Fairness ==
    /\ \A a \in Actor : /\ WF_vars(part = "reporting" /\ Report(a))
                        /\ WF_vars(part = "lossy" /\ LossyReporting!Report(a))
    /\ SF_callVars(part = "calls" /\ Calls!Tick)
    /\ \A r \in Callers : WF_callVars(part = "calls" /\ Calls!Step(r))
    /\ WF_ciVars(part = "ci" /\ CI!ProcessPR)
    /\ WF_ciVars(part = "ci" /\ \E j \in Jobs : CI!BuildAccepted(j) \/ CI!BuildFetched(j))
    /\ WF_ciVars(part = "ci" /\ \E j \in Jobs : CI!StartBuild(j) \/ CI!ReportResult(j))
    /\ WF_eventVars(part = "events" /\ Events!InitSync)
    /\ WF_eventVars(part = "events" /\ Events!EventLoop)
    /\ WF_eventVars(part = "events" /\ Events!Worker("main"))
    /\ WF_syncVars(part = "startup" /\ Startup!List)
    /\ WF_syncVars(part = "startup" /\ Startup!Execute)
    /\ \A p \in {1, 2} : /\ WF_syncVars(part = "startup" /\ Startup!AddHeadLabel(p))
                         /\ WF_syncVars(part = "startup" /\ Startup!ReportSuccess(p))

EndsSpec == EndsInit /\ [][EndsNext]_allVars /\ Fairness

-----------------------------------------------------------------------------
(* Run() returns although fn() may fail with retryable errors for ever, and    *)
(* whenever the context ends or Stop() is called (retryer.go:75-136).          *)
CallsReturn == Calls!RunReturns

(* The first PR gets its CI, also when a run failed halfway, and is suspended  *)
(* when the last build of a job fails (queue.go:653, queue_processpr.go:236).  *)
CIEnds == part = "ci" => CI!HeadGetsCI /\ CI!FailedIsSuspended

(* A PR that is closed or not ready to be merged does not stay first, although *)
(* the event that says so may be lost (github.go:88, coordinator.go:150).      *)
BlockedLeaves == part = "events" => Events!BlockedLeaves

(* The PR that stays first gets the label, also if responses of GitHub are     *)
(* lost, and is shown as successful, after pushes, suspensions and failed      *)
(* requests (queue.go:774, 893), and also while the sync still resets what a   *)
(* former process left (sync.go:176).                                          *)
FirstIsReported ==
    /\ part = "reporting" => FirstShowsSuccess
    /\ part = "lossy" => LossyReporting!FirstGetsLabel
    /\ part = "startup" => Startup!FirstShowsSuccess

===============================================================================
