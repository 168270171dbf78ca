------------------------------ MODULE MCWorker -------------------------------
(***************************************************************************)
(* An instance for TLC of three parts of one evaluation of the first PR:   *)
(* how long nothing happened to it (Staleness, which is extended), how its *)
(* branch is updated (BranchUpdate) and how its status checks are fetched  *)
(* (ReadyForMerge).  The worker is in one of them at a time, and they have *)
(* no state in common: "part" is the one that moves, the others stay as    *)
(* they begin.                                                             *)
(***************************************************************************)
EXTENDS Staleness, TLC

CONSTANTS MaxHead, BaseCommit, MaxCancels, BaseShrinks,     \* of BranchUpdate
          Name, Required, PageSize, MaxCommit, Ends         \* of ReadyForMerge

VARIABLES
    part,
    head, contains, base, conflict, closed, accepted, pr, pc, sha, branchChanged, result,
    commented, start, lasting, cancels,
    prHead, contexts, query, prHEADCommitID, contextsAfter, collected, ready

(* Of two checks the first one is a check run, the second one is reported as a *)
(* run or as a commit status.                                                  *)
Context == [kind : {"run"}, name : Name] \cup [kind : {"status"}, name : Name \ Required]

Update == INSTANCE BranchUpdate WITH changed <- branchChanged

Pages == INSTANCE ReadyForMerge WITH head <- prHead, pc <- query

ASSUME InstanceAssumption == Update!UpdateAssumption /\ Pages!ReadyAssumption

updateVars == <<head, contains, base, conflict, closed, accepted, pr, pc, sha, branchChanged,
                result, commented, start, lasting, cancels>>
pagesVars == <<prHead, contexts, query, prHEADCommitID, contextsAfter, collected, ready>>
allVars == <<part, vars, updateVars, pagesVars>>

WorkerInit ==
    /\ part \in {"staleness", "update", "pages"}
    /\ Init /\ Update!Init /\ Pages!Init
    /\ part # "update" => base = {}

WorkerNext ==
    /\ UNCHANGED part
    /\ \/ part = "staleness" /\ Next /\ UNCHANGED <<updateVars, pagesVars>>
       \/ part = "update" /\ Update!Next /\ UNCHANGED <<vars, pagesVars>>
       \/ part = "pages" /\ Pages!Next /\ UNCHANGED <<vars, updateVars>>

SafetySpec == WorkerInit /\ [][WorkerNext]_allVars

(* The fairness of the three modules, each as long as it moves. *)
Fairness ==
    /\ WF_vars(part = "staleness" /\ Tick) /\ WF_vars(part = "staleness" /\ Schedule)
    /\ WF_vars(part = "staleness" /\ \E p \in PR : Process(p))
    /\ \A p \in PR : SF_vars(part = "staleness" /\ Take(p))
    /\ WF_allVars(part = "update" /\ Update!Work /\ UNCHANGED <<part, vars, pagesVars>>)
    /\ WF_allVars(part = "update" /\ Update!Expire /\ UNCHANGED <<part, vars, pagesVars>>)
    /\ WF_allVars(part = "pages" /\ Pages!Query /\ UNCHANGED <<part, vars, updateVars>>)

LiveSpec == SafetySpec /\ Fairness

Symmetry == Permutations(PR)

-----------------------------------------------------------------------------
(* A PR is called stale only if no change was reported for staleTimeout, and   *)
(* the time that the queue was paused does not count (queue.go:494, 1119).     *)
StaleIsJustified == StaleIsUnchanged /\ PauseDoesNotCount

(* No update is requested that would be an empty merge commit, although the    *)
(* author may merge the base branch between any two requests                   *)
(* (client.go:161-164).                                                        *)
NoEmptyMerge == Update!TypeOK /\ Update!NoEmptyMerge

(* What the evaluation goes on with after the update is true: an unchanged     *)
(* branch has all that its base branch had all the while, and a changed one    *)
(* has a new head, of which GitHub sends an event (client.go:84-88,            *)
(* queue_processpr.go:123-127).                                                *)
UpdateIsTrue == Update!UnchangedIsFresh /\ Update!ChangedIsPushed

(* What the pages of the roll-up amount to, though authors push and checks     *)
(* start, end and are run again between the requests: nothing is missing that  *)
(* is there, the commit is the head, and success means that no check runs,     *)
(* unless another one failed: the roll-up state of GitHub is a failure then,   *)
(* for which the statuses of the required checks alone decide                  *)
(* (readyformergestatus.go:91-96, 313-319, 343-359).                           *)
RollUpIsTrue ==
    /\ [](Pages!TypeOK /\ Pages!SuccessWasSeen)
    /\ Pages!ExpectedIsMissing /\ Pages!CommitIsHead /\ Pages!SuccessIsNotPending

(* A first PR to which nothing happens any more does not stay first, unless    *)
(* the queue is paused again and again (queue.go:494).                         *)
StaleLeaves == StaleIsSuspended

(* Each part of an evaluation ends: a PR that is behind its base branch is     *)
(* updated or makes room, a closed one leaves though its event may be lost,    *)
(* and the loop over the pages ends when the pushes do.                        *)
EvaluationEnds ==
    /\ part = "update" => Update!BehindEnds
    /\ part = "update" => Update!ClosedLeaves
    /\ part = "pages" => Pages!Terminates

=============================================================================
