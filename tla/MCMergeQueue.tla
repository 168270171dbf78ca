---------------------------- MODULE MCMergeQueue -----------------------------
(***************************************************************************)
(* Three instances of MergeQueue for TLC.  They share the variables; part  *)
(* is the one that moves:                                                  *)
(*   - "all": the constants of the .cfg file, every kind of event that     *)
(*     stays in one branch, HTTP requests and the shutdown;                *)
(*   - "wakeUp": more PRs and longer backlogs of the pool, without the     *)
(*     positive events, after which a PR can come back (DequeuedStaysOut), *)
(*     and without a shutdown;                                             *)
(*   - "move": two base branches between which PRs move.                   *)
(* What MergeQueueProofs proves of MergeQueue holds in the parts "wakeUp"  *)
(* and "move", so in these runs, whatever the constants are.               *)
(***************************************************************************)
EXTENDS MergeQueueInvariant, TLC, TLAPS

CONSTANTS
    Parts,          \* those of the three parts that the run is about
    MorePRs,        \* the PRs of "wakeUp"
    Branches,       \* the base branches of "move"
    QueueIds        \* the queue objects of "move"

VARIABLE part

WakeUp == INSTANCE MergeQueueProofs WITH
    PR <- MorePRs, MaxTasks <- 2, MayStop <- FALSE,
    Events <- {"enqueue", "dequeue", "synchronize", "negative", "push", "tick"}

Move == INSTANCE MergeQueueProofs WITH
    Branch <- Branches, QueueId <- QueueIds, MayStop <- FALSE,
    Events <- {"enqueue", "edited", "synchronize"}, Requests <- {}

ASSUME PartsAssumption ==
    /\ Parts \subseteq {"all", "wakeUp", "move"}
    /\ WakeUp!QueueAssumption
    /\ Move!QueueAssumption

PartsInit ==
    /\ part \in Parts
    /\ CASE part = "all" -> Init
         [] part = "wakeUp" -> WakeUp!Init
         [] part = "move" -> Move!Init

PartsNext ==
    /\ UNCHANGED part
    /\ \/ part = "all" /\ Next
       \/ part = "wakeUp" /\ WakeUp!Next
       \/ part = "move" /\ Move!Next

PartsSpec == PartsInit /\ [][PartsNext]_<<part, vars>>

\* The fairness of MergeQueue is about "all": a run with it is about this part only.
LiveSpec == PartsSpec /\ Fairness

\* A part does not refer to the names that are only in another one, so that two of its
\* states that differ by a permutation also differ by one of its own names.
Symmetry == Permutations(MorePRs) \union Permutations(QueueIds) \union Permutations(Handler)

-----------------------------------------------------------------------------
\* A PR that became first of its queue was evaluated since or will be without any further
\* event (queue.go:286-299, 352).
EachFirstIsAttended ==
    /\ part = "wakeUp" => WakeUp!HeadIsAttended
    /\ part = "move" => Move!HeadIsAttended

\* No PR that was enqueued gets lost, neither among the events of one branch nor when it
\* moves to another one (coordinator.go:1082-1099, queue.go:430).
NoPRIsLost ==
    /\ part = "wakeUp" => WakeUp!NoneLost
    /\ part = "move" => Move!NoneLost

\* Unless positive events arrive, a PR that was dequeued is only back when it was enqueued
\* again (queue.go:405-451).
NoPRComesBack == part = "wakeUp" => WakeUp!DequeuedStaysOut

-----------------------------------------------------------------------------
(* The invariants of MergeQueueProofs are those of the parts they are      *)
(* instantiated for.                                                       *)

WantedInParts ==
    /\ part = "wakeUp" => WakeUp!Invariant /\ WakeUp!WantedInvariant
    /\ part = "move" => Move!Invariant /\ Move!WantedInvariant

AttendedInParts ==
    /\ part = "wakeUp" => WakeUp!AttendedInvariant
    /\ part = "move" => Move!AttendedInvariant

\* A step belongs to the part that moves, which stays the same.
LEMMA StepOfAPart ==
    ASSUME [PartsNext]_<<part, vars>>
    PROVE  /\ part' = part
           /\ part = "wakeUp" => [WakeUp!Next]_(WakeUp!vars)
           /\ part = "move" => [Move!Next]_(Move!vars)
<1>1. CASE PartsNext
  BY <1>1 DEF PartsNext
<1>2. CASE UNCHANGED <<part, vars>>
  BY <1>2 DEF vars, WakeUp!vars, Move!vars
<1> QED
  BY <1>1, <1>2

\* The initial states are those of the parts.
LEMMA InitOfAPart ==
    ASSUME PartsInit
    PROVE  /\ part = "wakeUp" => WakeUp!Init
           /\ part = "move" => Move!Init
  BY DEF PartsInit

\* What is wanted and who is in the queues is an inductive invariant of both parts, which
\* have no positive events.
LEMMA WantedInductive ==
    /\ PartsInit => WantedInParts
    /\ WantedInParts /\ [PartsNext]_<<part, vars>> => WantedInParts'
<1>1. /\ WakeUp!Init => WakeUp!Invariant /\ WakeUp!WantedInvariant
      /\ WakeUp!Invariant /\ WakeUp!WantedInvariant /\ [WakeUp!Next]_(WakeUp!vars)
             => (WakeUp!Invariant /\ WakeUp!WantedInvariant)'
  BY WakeUp!WantedIsInductive, PartsAssumption
<1>2. /\ Move!Init => Move!Invariant /\ Move!WantedInvariant
      /\ Move!Invariant /\ Move!WantedInvariant /\ [Move!Next]_(Move!vars)
             => (Move!Invariant /\ Move!WantedInvariant)'
  BY Move!WantedIsInductive, PartsAssumption
<1>3. PartsInit => WantedInParts
  BY <1>1, <1>2, InitOfAPart DEF WantedInParts
<1>4. ASSUME WantedInParts, [PartsNext]_<<part, vars>>
      PROVE  WantedInParts'
  BY <1>1, <1>2, <1>4, StepOfAPart DEF WantedInParts
<1> QED
  BY <1>3, <1>4

\* Who attends to the first PRs is one on top of it.  "move" has no requests to resume.
LEMMA AttendedInductive ==
    ASSUME WakeUp!OneResume
    PROVE  /\ PartsInit => WantedInParts /\ AttendedInParts
           /\ WantedInParts /\ AttendedInParts /\ [PartsNext]_<<part, vars>>
                  => (WantedInParts /\ AttendedInParts)'
<1>1. /\ WakeUp!Init => WakeUp!AttendedInvariant
      /\ WakeUp!Invariant /\ WakeUp!WantedInvariant /\ WakeUp!AttendedInvariant
             /\ [WakeUp!Next]_(WakeUp!vars)
             => (WakeUp!AttendedInvariant)'
  BY WakeUp!AttendedIsInductive, PartsAssumption
<1>2. Move!OneResume
  BY DEF Move!OneResume
<1>3. /\ Move!Init => Move!AttendedInvariant
      /\ Move!Invariant /\ Move!WantedInvariant /\ Move!AttendedInvariant
             /\ [Move!Next]_(Move!vars)
             => (Move!AttendedInvariant)'
  BY <1>2, Move!AttendedIsInductive, PartsAssumption
<1>4. PartsInit => WantedInParts /\ AttendedInParts
  BY <1>1, <1>3, InitOfAPart, WantedInductive DEF AttendedInParts
<1>5. ASSUME WantedInParts, AttendedInParts, [PartsNext]_<<part, vars>>
      PROVE  AttendedInParts'
  BY <1>1, <1>3, <1>5, StepOfAPart DEF WantedInParts, AttendedInParts
<1> QED
  BY <1>4, <1>5, WantedInductive

\* No PR that was enqueued gets lost (coordinator.go:1082-1099, queue.go:430).
THEOREM NoneLostInParts == PartsSpec => []NoPRIsLost
<1>1. WantedInParts => NoPRIsLost
  BY WakeUp!WantedImplies, Move!WantedImplies, PartsAssumption DEF WantedInParts, NoPRIsLost
<1> QED
  BY <1>1, WantedInductive, PTL DEF PartsSpec

\* A PR that was dequeued is only back when it was enqueued again (queue.go:405-451).
THEOREM StaysOutInParts == PartsSpec => []NoPRComesBack
<1>1. WantedInParts => NoPRComesBack
  BY WakeUp!WantedImplies, PartsAssumption DEF WantedInParts, NoPRComesBack
<1> QED
  BY <1>1, WantedInductive, PTL DEF PartsSpec

\* A PR that became first of its queue was evaluated since or will be without any further
\* event, when no queue is resumed while another request pauses it (queue.go:286-299, 352).
THEOREM AttendedInAllParts ==
    ASSUME WakeUp!OneResume
    PROVE  PartsSpec => []EachFirstIsAttended
<1>1. /\ PartsInit => WantedInParts /\ AttendedInParts
      /\ WantedInParts /\ AttendedInParts /\ [PartsNext]_<<part, vars>>
             => (WantedInParts /\ AttendedInParts)'
  BY AttendedInductive
<1>2. WantedInParts /\ AttendedInParts => EachFirstIsAttended
  BY WakeUp!AttendedImplies, Move!AttendedImplies, PartsAssumption
  DEF WantedInParts, AttendedInParts, EachFirstIsAttended
<1> QED
  BY <1>1, <1>2, PTL DEF PartsSpec
==============================================================================
