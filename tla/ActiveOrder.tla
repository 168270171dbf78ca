----------------------------- MODULE ActiveOrder -----------------------------
(***************************************************************************)
(* The order of the active PRs of one queue: orderedmap.go, orderBefore(), *)
(* SortActiveQueue() (queue.go) and SetPullRequestPriorities()             *)
(* (coordinator.go), which stores the new priorities one by one and sorts  *)
(* afterwards.  It holds queuesLock and thereby keeps the event loop away, *)
(* but queue.lock only for each single step, so that the queue's worker    *)
(* suspends, resumes and dequeues PRs in between.                          *)
(*                                                                         *)
(* The clock counts minutes on a reduced scale: what matters is whether    *)
(* two instants are more than Minute, or FourHours, apart.  ResumePR() is  *)
(* one step here; MergeQueue has its two critical sections.                *)
(***************************************************************************)
EXTENDS Integers, FiniteSets, SequencesExt

CONSTANTS
    PR,             \* pull request numbers
    Priority,       \* the priorities a user can choose
    Minute,         \* the difference of activity below which PRs are equally old
    FourHours,      \* the age up to which suspensions count
    MaxTime,        \* the clock stops there (bound)
    MaxSuspends,    \* suspensions of one PR (bound)
    MaxUpdates      \* priorities that one request changes (bound)

OrderAssumption ==
    /\ PR \subseteq Nat
    /\ Priority \subseteq Int
    /\ 0 \in Priority
    /\ Minute \in Nat /\ FourHours \in Nat /\ Minute < FourHours
    /\ MaxTime \in Nat \ {0} /\ MaxSuspends \in Nat /\ MaxUpdates \in Nat

VARIABLES
    order,      \* queue.active, the first element first
    suspended,  \* queue.suspended
    info,       \* the fields of each PR object that orderBefore() reads
    now,        \* the clock
    phase,      \* SetPullRequestPriorities(): "idle" or "store"
    updates,    \* the priority updates that it has not stored yet
    changed     \* changes > 0

vars == <<order, suspended, info, now, phase, updates, changed>>

Active == ToSet(order)

\* Time 0 is Go's zero time.
NewInfo(p, t) == [number |-> p, priority |-> 0, suspendCount |-> 0, enqueuedAt |-> t,
                  activeSince |-> 0]

Init ==
    /\ order = <<>>
    /\ suspended = {}
    /\ info = [p \in PR |-> NewInfo(p, 0)]
    /\ now = 1
    /\ phase = "idle"
    /\ updates = {}
    /\ changed = FALSE

-----------------------------------------------------------------------------
(* orderBefore()                                                           *)

\* cmp.Compare()
Compare(a, b) == IF a < b THEN -1 ELSE IF a > b THEN 1 ELSE 0

FirstNonZero(s) ==
    LET i == SelectInSeq(s, LAMBDA r : r # 0) IN IF i = 0 THEN 0 ELSE s[i]

Young(x) == now - x.activeSince < FourHours

BySuspends(x, y) ==
    CASE Young(x) /\ Young(y) -> Compare(x.suspendCount, y.suspendCount)
      [] Young(x) /\ ~Young(y) /\ x.suspendCount > 1 -> 1
      [] ~Young(x) /\ Young(y) /\ y.suspendCount > 1 -> -1
      [] OTHER -> 0

BySince(x, y) ==
    IF x.activeSince - y.activeSince \in -Minute .. Minute THEN 0
    ELSE Compare(x.activeSince, y.activeSince)

OrderBefore(x, y) ==
    LET timed == x.activeSince # 0 /\ y.activeSince # 0
    IN FirstNonZero(<<Compare(y.priority, x.priority),
                      IF timed THEN BySuspends(x, y) ELSE 0,
                      IF timed THEN BySince(x, y) ELSE 0,
                      Compare(x.enqueuedAt, y.enqueuedAt),
                      Compare(x.number, y.number)>>)

-----------------------------------------------------------------------------
(* The ordered map.                                                        *)

\* insertList(): never before the first element.
Position(x) ==
    LET later == {k \in 2 .. Len(order) : OrderBefore(x, info[order[k]]) < 0}
    IN IF later = {} THEN Len(order) + 1
       ELSE CHOOSE k \in later : \A l \in later : k <= l

\* Faulty variant: the first element is sorted like the others.
ByOrderOnly(a, b) == OrderBefore(info[a], info[b])

\* The comparison function of SortActiveQueue().
ByKey(a, b) ==
    IF a = order[1] THEN -1 ELSE IF b = order[1] THEN 1 ELSE OrderBefore(info[a], info[b])

\* slices.SortedFunc() on the keys in the random order of a Go map: insertion sort,
\* as for every slice of at most 12 elements.
Placed(s, a) == InsertAt(s, SelectLastInSeq(s, LAMBDA b : ByKey(a, b) >= 0) + 1, a)

Sorted(keys) ==
    LET sorted[n \in 0 .. Len(keys)] ==
            IF n = 0 THEN <<>> ELSE Placed(sorted[n - 1], keys[n])
    IN sorted[Len(keys)]

\* SortByKey(): the keys are moved to the back of the list one after the other.
SortedOrders == {Sorted(keys) : keys \in SetToSeqs(Active)}

-----------------------------------------------------------------------------
(* The operations of the queue.                                            *)

\* _enqueueActive()
EnqueueActive(x) ==
    LET entering == [x EXCEPT !.activeSince = now]
    IN /\ order' = InsertAt(order, Position(entering), x.number)
       /\ info' = [info EXCEPT ![x.number] = entering]

\* Faulty variant: it is not noticed that the PR is in the list already.
EnqueueAgain(p) ==
    /\ phase = "idle"
    /\ p \notin suspended
    /\ Len(order) <= Cardinality(PR)
    /\ EnqueueActive(NewInfo(p, now))
    /\ UNCHANGED <<suspended, now, phase, updates, changed>>

\* The event loop enqueues a new PR object.
Enqueue(p) ==
    /\ phase = "idle"
    /\ p \notin Active \union suspended
    /\ EnqueueActive(NewInfo(p, now))
    /\ UNCHANGED <<suspended, now, phase, updates, changed>>

\* ResumePR(), ResumeAllPRs()
Resume(p) ==
    /\ p \in suspended
    /\ suspended' = suspended \ {p}
    /\ EnqueueActive(info[p])
    /\ UNCHANGED <<now, phase, updates, changed>>

\* suspend(): whatever was processed, which is the first PR unless it was requeued.
Suspend(p) ==
    /\ p \in Active
    /\ info[p].suspendCount < MaxSuspends
    /\ order' = RemoveFirst(order, p)
    /\ suspended' = suspended \union {p}
    /\ info' = [info EXCEPT ![p].suspendCount = @ + 1]
    /\ UNCHANGED <<now, phase, updates, changed>>

\* Dequeue(): the PR object is dropped.
Dequeue(p) ==
    /\ p \in Active \union suspended
    /\ order' = RemoveFirst(order, p)
    /\ suspended' = suspended \ {p}
    /\ info' = [info EXCEPT ![p] = NewInfo(p, 0)]
    /\ UNCHANGED <<now, phase, updates, changed>>

-----------------------------------------------------------------------------
(* SetPullRequestPriorities()                                              *)

BeginUpdate ==
    /\ phase = "idle"
    /\ \E P \in SUBSET PR : \E f \in [P -> Priority] :
          /\ Cardinality(P) <= MaxUpdates
          /\ updates' = {[pr |-> p, priority |-> f[p]] : p \in P}
    /\ phase' = "store"
    /\ UNCHANGED <<order, suspended, info, now, changed>>

\* queue.SetPullRequestPriority(); PRs that left the queue meanwhile are skipped.
StorePriority ==
    /\ phase = "store"
    /\ \E u \in updates :
          /\ updates' = updates \ {u}
          /\ IF u.pr \in Active \union suspended
             THEN /\ info' = [info EXCEPT ![u.pr].priority = u.priority]
                  /\ changed' = TRUE
             ELSE UNCHANGED <<info, changed>>
    /\ UNCHANGED <<order, suspended, now, phase>>

\* Faulty variant: short queues are not sorted.
EndUpdateSkipping ==
    /\ phase = "store"
    /\ updates = {}
    /\ IF changed /\ Len(order) > 3 THEN order' \in SortedOrders ELSE UNCHANGED order
    /\ phase' = "idle"
    /\ changed' = FALSE
    /\ UNCHANGED <<suspended, info, now, updates>>

\* if changes > 0 { q.SortActiveQueue() }
EndUpdate ==
    /\ phase = "store"
    /\ updates = {}
    /\ IF changed /\ order # <<>> THEN order' \in SortedOrders ELSE UNCHANGED order
    /\ phase' = "idle"
    /\ changed' = FALSE
    /\ UNCHANGED <<suspended, info, now, updates>>

Tick ==
    /\ now < MaxTime
    /\ now' = now + 1
    /\ UNCHANGED <<order, suspended, info, phase, updates, changed>>

-----------------------------------------------------------------------------
Next ==
    \/ \E p \in PR : Enqueue(p) \/ Resume(p) \/ Suspend(p) \/ Dequeue(p)
    \/ BeginUpdate \/ StorePriority \/ EndUpdate
    \/ Tick

Spec == Init /\ [][Next]_vars

-----------------------------------------------------------------------------
(* Properties.                                                             *)

\* Every key is in the list once.
TypeOK ==
    /\ order \in Seq(PR)
    /\ Len(order) = Cardinality(Active)
    /\ Active \intersect suspended = {}
    /\ suspended \in SUBSET PR
    /\ info \in [PR -> [number : PR, priority : Priority, suspendCount : 0 .. MaxSuspends,
                        enqueuedAt : 0 .. MaxTime, activeSince : 0 .. MaxTime]]
    /\ now \in 1 .. MaxTime
    /\ phase \in {"idle", "store"}
    /\ updates \in SUBSET [pr : PR, priority : Priority]
    /\ changed \in BOOLEAN

\* Inserting and sorting keep the first PR, for which CI jobs are running, at its place,
\* whatever the priorities of the others ("The position of the first element is fixed",
\* orderedmap.go:22; queue.go:231): as long as it is active it is the first.
FirstIsStatic ==
    [][order # <<>> /\ order[1] \in ToSet(order') => order'[1] = order[1]]_vars

\* Behind the first PR the active PRs are ordered by priority whenever no update is under
\* way, although updates are stored one by one, PRs enter a queue that is not sorted yet,
\* and suspended PRs are updated too (coordinator.go:1191-1210).
PrioritiesRespected ==
    phase = "idle" =>
        \A i, j \in 2 .. Len(order) :
            i < j => info[order[i]].priority >= info[order[j]].priority

\* What is inductive: unless a priority was changed since the last sort, the PRs behind the
\* first one are ordered by priority; and each PR knows its number.
Invariant ==
    /\ TypeOK
    /\ phase = "idle" => ~changed
    /\ ~changed =>
          \A i, j \in 2 .. Len(order) :
              i < j => info[order[i]].priority >= info[order[j]].priority
    /\ \A p \in PR : info[p].number = p

-----------------------------------------------------------------------------
(* What a comment of the code states and its behaviour violates.           *)

\* "SortActiveQueue sorts the PRs in the active queue by the [orderBefore] criteria."
\* (queue.go:228): right after the sort, no PR is behind one that it precedes.
SortedByOrderBefore ==
    [][EndUpdate /\ changed =>
          \A i, j \in 2 .. Len(order') :
              i < j => OrderBefore(info[order'[j]], info[order'[i]]) >= 0]_vars
=============================================================================
