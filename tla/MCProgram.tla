------------------------------ MODULE MCProgram ------------------------------
(***************************************************************************)
(* An instance for TLC of what surrounds the queues: the retryer of all    *)
(* requests (Retryer, which is extended), the synchronization at the start *)
(* (Sync), and the events and the queues that they fill (Membership).      *)
(* They have no state in common: "part" is the one that moves, the others  *)
(* stay as they begin.                                                     *)
(***************************************************************************)
EXTENDS Retryer, TLC, SequencesExt

CONSTANTS Number, SyncBranch, NoBranch, PageSize, MaxUpdates, MaxFailures,          \* of Sync
          PR, Branch, None, Trigger, Capacity, Reopens, MaxChanges, MaxLost, MaxRestarts

VARIABLES
    part,
    syncBase, trigger, label, status, rest, syncPc, items, headPreserved, pr, actions, preserve,
    enqueued, queue, syncSuspended, hasHeadLabel, reported, heads, updates, failures,
    open, base, triggers, ready, channel, runPc, unlisted, listed, active, suspended,
    checks, worker, missed, changes, lost, restarts

Startup == INSTANCE Sync WITH PR <- Number, Branch <- SyncBranch, base <- syncBase,
                              pc <- syncPc, suspended <- syncSuspended

Events == INSTANCE Membership WITH pc <- runPc

ASSUME InstanceAssumption == Startup!SyncAssumption /\ Events!MembershipAssumption

syncVars == <<syncBase, trigger, label, status, rest, syncPc, items, headPreserved, pr, actions,
              preserve, enqueued, queue, syncSuspended, hasHeadLabel, reported, heads, updates,
              failures>>
eventVars == <<open, base, triggers, ready, channel, runPc, unlisted, listed, active, suspended,
               checks, worker, missed, changes, lost, restarts>>
allVars == <<part, vars, syncVars, eventVars>>

NothingOpen ==
    /\ syncBase = [p \in Number |-> NoBranch]
    /\ trigger = {} /\ label = {} /\ status = [p \in Number |-> "none"]
    /\ rest = SetToSeq(Number)

(* No status means the same to the sync as a pending one. *)
NoPending == \A p \in Number : status[p] # "pending"

NothingReady ==
    /\ ready = {} /\ triggers = [p \in PR |-> {}]
    /\ base = [p \in PR |-> CHOOSE b \in Branch : TRUE]

ProgramInit ==
    /\ part \in {"retryer", "startup", "events"}
    /\ Init
    /\ (part # "startup" => NothingOpen) /\ Startup!Init /\ NoPending
    /\ (part # "events" => NothingReady) /\ Events!Init

ProgramNext ==
    /\ UNCHANGED part
    /\ \/ part = "retryer" /\ Next /\ UNCHANGED <<syncVars, eventVars>>
       \/ part = "startup" /\ Startup!Next /\ UNCHANGED <<vars, eventVars>>
       \/ part = "events" /\ Events!Next /\ UNCHANGED <<vars, syncVars>>

ProgramSpec == ProgramInit /\ [][ProgramNext]_allVars

Symmetry == Permutations(Caller) \cup Permutations(PR) \cup Permutations(Branch)

-----------------------------------------------------------------------------
(* The PR that was first before a crash is first again, unless it was          *)
(* suspended since (sync.go:41), and whatever is updated between the pages, no *)
(* PR with a trigger label is forgotten (listprs.go:80).                       *)
QueuesSurvive == Startup!TypeOK /\ Startup!HeadSurvives /\ Startup!AllEnqueued

(* What a crash left on GitHub is cleaned up (sync.go:42): afterwards no PR    *)
(* that is not first is labelled or shown as ready to be merged.               *)
OnlyFirstShows == Startup!OnlyFirstShows

(* When all events are processed, each queue contains exactly the open PRs of  *)
(* its base branch that have the trigger, however a restart, the sync,         *)
(* resumptions and buffered events of earlier states interleave; unless an     *)
(* event was lost (config.example.toml:30).  It is not claimed of PRs that     *)
(* ResumePR() had in hand, between its two critical sections (queue.go:430),   *)
(* when an event was to remove them or found their queue empty.                *)
MembershipIsRight == Events!TypeOK /\ Events!OnlyWanted /\ Events!NoneMissing

=============================================================================
