----------------------------- MODULE WorkerProofs -----------------------------
(***************************************************************************)
(* Theorems about the three parts of an evaluation that MCWorker puts side *)
(* by side: the update of the branch (BranchUpdate), the fetch of the      *)
(* status checks (ReadyForMerge) and the time that nothing happened        *)
(* (Staleness), for any values of their constants.  Each has an inductive  *)
(* invariant of its own.                                                   *)
(***************************************************************************)
EXTENDS MCWorker, SequenceTheorems, WellFoundedInduction, TLAPS

-----------------------------------------------------------------------------
(* The update of the branch: BranchUpdate *)

LEMMA UpdateInit ==
    ASSUME Update!UpdateAssumption, Update!Init
    PROVE  Update!Invariant
  <1> USE DEF Update!UpdateAssumption, Update!Init, Update!Commit, Update!Requests
  <1>1. Update!TypeOK
    <2>1. 1 \in 1..MaxHead /\ 0 \in 0..MaxCancels
      OBVIOUS
    <2> QED
      BY <2>1 DEF Update!TypeOK
  <1>2. Update!Order
    BY DEF Update!Order
  <1> QED
    BY <1>1, <1>2
    DEF Update!Invariant, Update!Shape, Update!UnchangedIsFresh, Update!NoEmptyMerge,
        Update!ScheduledIsBehind, Update!ChangedIsPushed

(* What GitHub and its users do: commits and base commits are added, what was  *)
(* known of older commits stays, and more commits of the base branch make no   *)
(* commit up to date.                                                          *)
LEMMA UpdateGitHub ==
    ASSUME Update!Invariant, Update!TypeOK',
           UNCHANGED Update!worker,
           head' = head \/ head' = head + 1,
           \A c \in Update!Commit : c <= head => contains'[c] = contains[c],
           accepted' \subseteq accepted,
           base \subseteq base' \/ BaseShrinks,
           lasting' \subseteq lasting, lasting' \subseteq base'
    PROVE  Update!Invariant'
  <1> USE DEF Update!worker, Update!Invariant, Update!Shape
  <1>1. /\ head \in Nat /\ start \in Nat /\ sha \in Nat /\ start \in Update!Commit
        /\ sha \in Update!Commit /\ head \in Update!Commit
        /\ \A h \in accepted : h \in Nat /\ h \in Update!Commit
    BY DEF Update!TypeOK, Update!Commit
  <1>2. Update!Order'
    BY <1>1 DEF Update!Order
  <1>3. Update!UnchangedIsFresh'
    BY <1>1 DEF Update!UnchangedIsFresh, Update!Order
  <1>4. ASSUME ~BaseShrinks
        PROVE  (Update!NoEmptyMerge /\ Update!ScheduledIsBehind /\ Update!ChangedIsPushed)'
    <2>1. \A c \in Update!Commit : c <= head /\ Update!Behind(c) => Update!Behind(c)'
      BY <1>4 DEF Update!Behind
    <2>2. Update!NoEmptyMerge'
      BY <1>1, <1>4, <2>1 DEF Update!NoEmptyMerge, Update!Order
    <2>3. Update!ScheduledIsBehind' /\ Update!ChangedIsPushed'
      BY <1>1, <1>4, <2>1 DEF Update!ScheduledIsBehind, Update!ChangedIsPushed, Update!Order
    <2> QED
      BY <2>2, <2>3
  <1> QED
    BY <1>2, <1>3, <1>4

LEMMA UpdateNewHead ==
    ASSUME Update!TypeOK, NEW content \in SUBSET BaseCommit, Update!NewHead(content)
    PROVE  /\ head' = head + 1 /\ head' \in Update!Commit
           /\ contains' \in [Update!Commit -> SUBSET BaseCommit]
           /\ \A c \in Update!Commit : c <= head => contains'[c] = contains[c]
  BY InstanceAssumption
  DEF Update!TypeOK, Update!NewHead, Update!Commit, Update!UpdateAssumption

LEMMA UpdateEnvironment ==
    ASSUME Update!Invariant,
           Update!AuthorPush \/ Update!BasePush \/ Update!BaseReset \/ Update!Close \/ Update!Merge
    PROVE  Update!Invariant'
  <1> USE DEF Update!worker
  <1>0. /\ Update!TypeOK /\ Update!Order
        /\ contains[head] \in SUBSET BaseCommit
        /\ contains[head] \cup base \in SUBSET BaseCommit
    BY DEF Update!Invariant, Update!Shape, Update!TypeOK
  <1>1. CASE Update!AuthorPush
    <2>1. /\ head' = head + 1 /\ head' \in Update!Commit
          /\ contains' \in [Update!Commit -> SUBSET BaseCommit]
          /\ \A c \in Update!Commit : c <= head => contains'[c] = contains[c]
      BY <1>0, <1>1, UpdateNewHead DEF Update!AuthorPush
    <2>2. conflict' \in BOOLEAN /\ UNCHANGED <<base, closed, accepted, lasting, Update!worker>>
      BY <1>1 DEF Update!AuthorPush
    <2>3. Update!TypeOK'
      BY <1>0, <2>1, <2>2 DEF Update!TypeOK
    <2> QED
      BY <1>0, <2>1, <2>2, <2>3, UpdateGitHub DEF Update!Order
  <1>2. CASE Update!BasePush
    <2>1. /\ base \subseteq base' /\ base' \subseteq BaseCommit /\ conflict' \in BOOLEAN
          /\ UNCHANGED <<head, contains, closed, accepted, lasting, Update!worker>>
      BY <1>0, <1>2 DEF Update!BasePush, Update!TypeOK
    <2>2. Update!TypeOK'
      BY <1>0, <2>1 DEF Update!TypeOK
    <2> QED
      BY <1>0, <2>1, <2>2, UpdateGitHub DEF Update!Order
  <1>3. CASE Update!BaseReset
    <2>1. /\ BaseShrinks /\ base' \subseteq base /\ lasting' \subseteq lasting
          /\ lasting' \subseteq base'
          /\ UNCHANGED <<head, contains, conflict, closed, accepted, Update!worker>>
      BY <1>0, <1>3 DEF Update!BaseReset, Update!Order
    <2>2. Update!TypeOK'
      BY <1>0, <2>1 DEF Update!TypeOK
    <2> QED
      BY <1>0, <2>1, <2>2, UpdateGitHub DEF Update!Order
  <1>4. CASE Update!Close
    <2>1. /\ closed' = TRUE
          /\ UNCHANGED <<head, contains, base, conflict, accepted, lasting, Update!worker>>
      BY <1>4 DEF Update!Close
    <2>2. Update!TypeOK'
      BY <1>0, <2>1 DEF Update!TypeOK
    <2> QED
      BY <1>0, <2>1, <2>2, UpdateGitHub DEF Update!Order
  <1>5. CASE Update!Merge
    <2>1. /\ accepted' \subseteq accepted
          /\ UNCHANGED <<base, conflict, closed, lasting, Update!worker>>
          /\ \/ Update!NewHead(contains[head] \cup base)
             \/ UNCHANGED <<head, contains>>
      BY <1>5 DEF Update!Merge
    <2>2. /\ head' = head \/ head' = head + 1
          /\ head' \in Update!Commit
          /\ contains' \in [Update!Commit -> SUBSET BaseCommit]
          /\ \A c \in Update!Commit : c <= head => contains'[c] = contains[c]
      BY <1>0, <2>1, UpdateNewHead DEF Update!TypeOK
    <2>3. Update!TypeOK'
      BY <1>0, <2>1, <2>2 DEF Update!TypeOK
    <2> QED
      BY <1>0, <2>1, <2>2, <2>3, UpdateGitHub DEF Update!Order
  <1> QED
    BY <1>1, <1>2, <1>3, <1>4, <1>5

(* What the worker does without a merge: it learns of the head, or the state   *)
(* of the request changes.                                                     *)
LEMMA UpdateWorkerType ==
    ASSUME Update!Invariant,
           Update!Begin \/ Update!Get \/ Update!Compare \/ Update!Retry \/ Update!Decide
           \/ Update!Suspend \/ Update!FailedRequest \/ Update!Expire \/ Update!Cancel
    PROVE  Update!TypeOK'
  <1> USE DEF Update!github, Update!evaluation, Update!Return, Update!Succeed, Update!Requests
  <1>0. Update!TypeOK
    BY DEF Update!Invariant, Update!Shape
  <1>1. CASE Update!Begin
    BY <1>0, <1>1 DEF Update!TypeOK, Update!Begin
  <1>2. CASE Update!Get
    BY <1>0, <1>2 DEF Update!TypeOK, Update!Get
  <1>3. CASE Update!Compare
    BY <1>0, <1>3 DEF Update!TypeOK, Update!Compare
  <1>4. CASE Update!Retry \/ Update!Suspend \/ Update!FailedRequest \/ Update!Expire
    BY <1>0, <1>4
    DEF Update!TypeOK, Update!Retry, Update!Suspend, Update!FailedRequest, Update!Expire
  <1>5. CASE Update!Decide
    <2>1. pr' \in {"out", "suspended", pr}
      BY <1>5, Zenon DEF Update!Decide
    <2>2. /\ commented' \in BOOLEAN /\ pc' \in {"idle", "suspend"}
          /\ UNCHANGED <<Update!github, accepted, sha, branchChanged, result, start, lasting,
                         cancels>>
      BY <1>0, <1>5 DEF Update!Decide, Update!TypeOK
    <2> QED
      BY <1>0, <2>1, <2>2 DEF Update!TypeOK
  <1>6. CASE Update!Cancel
    BY <1>0, <1>6, InstanceAssumption DEF Update!TypeOK, Update!Cancel, Update!UpdateAssumption
  <1> QED
    BY <1>1, <1>2, <1>3, <1>4, <1>5, <1>6

LEMMA UpdateWorker ==
    ASSUME Update!Invariant,
           Update!Begin \/ Update!Get \/ Update!Compare \/ Update!Retry \/ Update!Decide
           \/ Update!Suspend \/ Update!FailedRequest \/ Update!Expire \/ Update!Cancel
    PROVE  Update!Invariant'
  <1> USE DEF Update!Invariant, Update!Shape, Update!Order
  <1>1. Update!TypeOK'
    BY UpdateWorkerType
  <1>2. /\ head \in Nat /\ start \in Nat /\ sha \in Nat
        /\ start <= head /\ sha <= head
        /\ UNCHANGED <<head, contains, base, accepted>>
        /\ \A c : Update!Behind(c)' = Update!Behind(c)
    <2>1. head \in Nat /\ start \in Nat /\ sha \in Nat /\ start <= head /\ sha <= head
      BY DEF Update!TypeOK, Update!Commit
    <2>2. UNCHANGED <<Update!github, accepted>>
      BY Zenon
      DEF Update!Begin, Update!Get, Update!Compare, Update!Retry, Update!Decide,
          Update!Suspend, Update!FailedRequest, Update!Expire, Update!Cancel
    <2> QED
      BY <2>1, <2>2 DEF Update!github, Update!Behind
  <1>3. CASE Update!Begin
    BY <1>1, <1>2, <1>3
    DEF Update!Begin, Update!github, Update!UnchangedIsFresh, Update!NoEmptyMerge,
        Update!ScheduledIsBehind, Update!ChangedIsPushed
  <1>4. CASE Update!Get
    BY <1>1, <1>2, <1>4
    DEF Update!Get, Update!evaluation, Update!Return, Update!Succeed, Update!UnchangedIsFresh,
        Update!NoEmptyMerge, Update!ScheduledIsBehind, Update!ChangedIsPushed
  <1>5. CASE Update!Compare
    BY <1>1, <1>2, <1>5
    DEF Update!Compare, Update!evaluation, Update!Return, Update!Succeed, Update!UnchangedIsFresh,
        Update!NoEmptyMerge, Update!ScheduledIsBehind, Update!ChangedIsPushed, Update!Behind
  <1>6. CASE \/ Update!Retry \/ Update!Decide \/ Update!Suspend
             \/ Update!FailedRequest \/ Update!Expire \/ Update!Cancel
    <2>1. /\ UNCHANGED <<sha, branchChanged, start, lasting>>
          /\ \/ pc' \in {"wait", "get", "idle", "suspend"}
             \/ pc' = "decide" /\ result' = "error"
      BY <1>6 DEF Update!Retry, Update!Decide, Update!Suspend, Update!FailedRequest,
           Update!Expire, Update!Cancel, Update!evaluation, Update!Return
    <2> QED
      BY <1>1, <1>2, <2>1
      DEF Update!UnchangedIsFresh, Update!NoEmptyMerge, Update!ScheduledIsBehind,
          Update!ChangedIsPushed
  <1> QED
    BY <1>3, <1>4, <1>5, <1>6

(* The request for the update itself. *)
LEMMA UpdateRequest ==
    ASSUME Update!Invariant, Update!Update
    PROVE  Update!Invariant'
  <1> USE DEF Update!evaluation, Update!Return, Update!Succeed
  <1>0. /\ Update!TypeOK /\ Update!Order /\ Update!UnchangedIsFresh
        /\ ~BaseShrinks => /\ Update!NoEmptyMerge /\ Update!ScheduledIsBehind
                           /\ Update!ChangedIsPushed
        /\ head \in Nat /\ start \in Nat /\ sha \in Nat
        /\ pc = "update" /\ UNCHANGED <<sha, pr, commented, start, lasting, cancels>>
        /\ start <= sha /\ sha <= head
    BY DEF Update!Invariant, Update!Shape, Update!TypeOK, Update!Commit, Update!Update,
           Update!Order
  <1>1. CASE /\ UNCHANGED <<head, contains, base, conflict, closed, accepted, branchChanged>>
             /\ \/ pc' = "decide" /\ result' \in {"error", "conflict"}
                \/ pc' = "wait" /\ UNCHANGED result
    <2>1. Update!TypeOK'
      BY <1>0, <1>1 DEF Update!TypeOK
    <2>2. Update!Order'
      BY <1>0, <1>1 DEF Update!Order
    <2> QED
      BY <1>0, <1>1, <2>1, <2>2
      DEF Update!Invariant, Update!Shape, Update!UnchangedIsFresh, Update!NoEmptyMerge,
          Update!ScheduledIsBehind, Update!ChangedIsPushed, Update!Behind
  <1>2. CASE /\ UNCHANGED <<head, contains, base, conflict, closed, accepted, branchChanged>>
             /\ head = sha /\ ~Update!Behind(head) /\ Update!Succeed
    <2>1. Update!TypeOK'
      BY <1>0, <1>2 DEF Update!TypeOK
    <2>2. Update!Order'
      BY <1>0, <1>2 DEF Update!Order
    <2> QED
      BY <1>0, <1>2, <2>1, <2>2
      DEF Update!Invariant, Update!Shape, Update!UnchangedIsFresh, Update!NoEmptyMerge,
          Update!ScheduledIsBehind, Update!ChangedIsPushed, Update!Behind, Update!Order
  <1>3. CASE head = sha /\ Update!Behind(head) /\ Update!Schedule
    <2>1. /\ UNCHANGED <<head, contains, base, conflict, closed>>
          /\ accepted' = accepted \cup {head}
          /\ branchChanged' \in {TRUE, branchChanged}
          /\ \/ pc' = "wait" /\ UNCHANGED result
             \/ pc' = "decide" /\ result' = "error"
      BY <1>3 DEF Update!Schedule, Update!github
    <2>2. Update!TypeOK'
      BY <1>0, <2>1 DEF Update!TypeOK
    <2>3. Update!Order'
      BY <1>0, <2>1 DEF Update!Order
    <2> QED
      BY <1>0, <1>3, <2>1, <2>2, <2>3
      DEF Update!Invariant, Update!Shape, Update!UnchangedIsFresh, Update!NoEmptyMerge,
          Update!ScheduledIsBehind, Update!ChangedIsPushed, Update!Behind
  <1>4. CASE /\ head = sha /\ Update!NewHead(contains[head] \cup base)
             /\ branchChanged' = TRUE /\ pc' = "decide" /\ result' = "changed"
             /\ UNCHANGED <<base, conflict, closed, accepted>>
    <2>1. /\ head' = head + 1 /\ head' \in Update!Commit
          /\ contains' \in [Update!Commit -> SUBSET BaseCommit]
          /\ \A c \in Update!Commit : c <= head => contains'[c] = contains[c]
      BY <1>0, <1>4, UpdateNewHead DEF Update!TypeOK
    <2>2. Update!TypeOK'
      BY <1>0, <1>4, <2>1 DEF Update!TypeOK
    <2>3. Update!Order'
      BY <1>0, <1>4, <2>1 DEF Update!Order, Update!TypeOK, Update!Commit
    <2>4. Update!UnchangedIsFresh'
      BY <1>4 DEF Update!UnchangedIsFresh
    <2>5. \A h \in accepted : h \in Nat /\ h <= head
      BY <1>0 DEF Update!Order, Update!TypeOK, Update!Commit
    <2>6. (Update!NoEmptyMerge /\ Update!ScheduledIsBehind /\ Update!ChangedIsPushed)'
      BY <1>0, <1>4, <2>1, <2>5
      DEF Update!NoEmptyMerge, Update!ScheduledIsBehind, Update!ChangedIsPushed
    <2> QED
      BY <2>2, <2>3, <2>4, <2>6 DEF Update!Invariant, Update!Shape
  <1> QED
    BY <1>1, <1>2, <1>3, <1>4 DEF Update!Update, Update!github

LEMMA UpdateStep ==
    ASSUME Update!Invariant, [Update!Next]_updateVars
    PROVE  Update!Invariant'
  <1>1. CASE UNCHANGED updateVars
    BY <1>1
    DEF updateVars, Update!Invariant, Update!Shape, Update!TypeOK, Update!Order, Update!Behind,
        Update!UnchangedIsFresh, Update!NoEmptyMerge, Update!ScheduledIsBehind,
        Update!ChangedIsPushed
  <1>2. CASE Update!Next
    BY <1>2, UpdateEnvironment, UpdateWorker, UpdateRequest DEF Update!Next, Update!Work
  <1> QED
    BY <1>1, <1>2

LEMMA UpdateInvariantHolds == SafetySpec => []Update!Invariant
  <1>1. WorkerInit => Update!Invariant
    BY InstanceAssumption, UpdateInit DEF WorkerInit
  <1>2. [WorkerNext]_allVars => [Update!Next]_updateVars
    BY DEF WorkerNext, allVars
  <1> QED
    BY <1>1, <1>2, UpdateStep, PTL DEF SafetySpec

(* NoEmptyMerge: no update is requested that would be an empty merge commit,    *)
(* whatever the author and GitHub do between the requests, unless the base     *)
(* branch is reset.                                                            *)
THEOREM NoEmptyMergeIsRequested == ~BaseShrinks => (SafetySpec => []NoEmptyMerge)
  <1> SUFFICES ASSUME ~BaseShrinks PROVE SafetySpec => []NoEmptyMerge
    OBVIOUS
  <1>1. Update!Invariant => NoEmptyMerge
    BY DEF Update!Invariant, Update!Shape, NoEmptyMerge
  <1> QED
    BY <1>1, UpdateInvariantHolds, PTL

(* UpdateIsTrue: what the evaluation goes on with after the update.  That a     *)
(* changed branch has a new head needs a base branch that only grows.          *)
THEOREM UpdateResultIsTrue == ~BaseShrinks => (SafetySpec => []UpdateIsTrue)
  <1> SUFFICES ASSUME ~BaseShrinks PROVE SafetySpec => []UpdateIsTrue
    OBVIOUS
  <1>1. Update!Invariant => UpdateIsTrue
    BY DEF Update!Invariant, UpdateIsTrue
  <1> QED
    BY <1>1, UpdateInvariantHolds, PTL

(* The other half of it holds even if the base branch is reset: a branch that   *)
(* was not changed has all that its base branch had all the while.             *)
THEOREM UnchangedHasItsBase == SafetySpec => []Update!UnchangedIsFresh
  <1>1. Update!Invariant => Update!UnchangedIsFresh
    BY DEF Update!Invariant
  <1> QED
    BY <1>1, UpdateInvariantHolds, PTL

-----------------------------------------------------------------------------
(* The pages of the roll-up: ReadyForMerge *)

(* A nonempty set of naturals has a least element. *)
LEMMA Least ==
    ASSUME NEW T \in SUBSET Nat, T # {}
    PROVE  \E x \in T : \A y \in T : x <= y
  <1> DEFINE R == OpToRel(<, Nat)
  <1>1. IsWellFoundedOn(R, Nat)
    BY NatLessThanWellFounded
  <1>2. \A x, y \in Nat : y < x => <<y, x>> \in R
    BY DEF OpToRel
  <1> HIDE DEF R
  <1>3. PICK x \in T : \A y \in T : ~ (<<y, x>> \in R)
    BY <1>1, WFMin
  <1>4. \A y \in T : x \in Nat /\ y \in Nat /\ ~(y < x)
    BY <1>2, <1>3
  <1>5. \A y \in T : x <= y
    BY <1>4
  <1> QED
    BY <1>5

LEMMA Greatest ==
    ASSUME NEW n \in Nat, NEW S \in SUBSET (1..n), S # {}
    PROVE  \E x \in S : \A y \in S : y <= x
  <1> DEFINE T == {k \in 0..n : n - k \in S}
  <1>1. T \in SUBSET Nat
    OBVIOUS
  <1>2. \A y \in S : y \in 1..n /\ n - y \in 0..n /\ n - (n - y) = y
    OBVIOUS
  <1>3. \A y \in S : n - y \in T
    BY <1>2
  <1>4. PICK t \in T : \A u \in T : t <= u
    <2>1. T # {}
      BY <1>3
    <2> HIDE DEF T
    <2> QED
      BY <1>1, <2>1, Least
  <1>5. n - t \in S /\ t \in 0..n
    OBVIOUS
  <1>6. \A y \in S : t <= n - y
    BY <1>3, <1>4
  <1>7. \A y \in S : y <= n - t
    BY <1>2, <1>5, <1>6
  <1> QED
    BY <1>5, <1>7

PageContext == [context : Context, state : {"pending"} \cup Ends, commit : Pages!Commit]

ReadyStatus ==
    [CIStatus : Pages!CIStatus, statuses : [Name -> Pages!CIStatus \cup {"absent"}],
     commit : {Pages!NoCommit} \cup Pages!Commit]

(* The status that is condensed for a name is that of a collected context,     *)
(* unless there is none.                                                       *)
LEMMA JobStatus ==
    ASSUME NEW list \in Seq(PageContext), NEW n \in Name, NEW s, s = Pages!CIJobStatus(list, n)
    PROVE  \/ /\ s \in {"expected", "absent"}
              /\ s = "expected" <=> n \in Required
              /\ \A i \in DOMAIN list : list[i].context.name # n
           \/ \E i \in DOMAIN list : list[i].context.name = n /\ s = list[i].state
  <1> DEFINE of(kind) == {i \in DOMAIN list : list[i].context = [kind |-> kind, name |-> n]}
             max(S) == CHOOSE i \in S : \A j \in S : j <= i
  <1>0. /\ Len(list) \in Nat /\ DOMAIN list = 1..Len(list)
        /\ \A i \in DOMAIN list : list[i] \in PageContext
    BY LenProperties
  <1>1. ASSUME NEW S \in SUBSET DOMAIN list, S # {}
        PROVE  max(S) \in S
    <2>1. \E i \in S : \A j \in S : j <= i
      BY <1>0, <1>1, Greatest
    <2> QED
      BY <2>1
  <1>2. s = IF of("status") # {} THEN list[max(of("status"))].state
            ELSE IF of("run") # {} THEN list[max(of("run"))].state
            ELSE IF n \in Required THEN "expected" ELSE "absent"
    BY DEF Pages!CIJobStatus
  <1>3. \A kind : /\ of(kind) \in SUBSET DOMAIN list
                  /\ \A i \in of(kind) : list[i].context.name = n
    OBVIOUS
  <1>4. \A i \in DOMAIN list : list[i].context.name = n => i \in of("status") \cup of("run")
    <2>1. \A x \in Context : x \in [kind : {"run", "status"}, name : Name]
      BY InstanceAssumption DEF Pages!ReadyAssumption
    <2>2. \A i \in DOMAIN list : list[i].context \in Context
      BY <1>0 DEF PageContext
    <2> QED
      BY <2>1, <2>2
  <1> HIDE DEF of, max
  <1>5. CASE of("status") # {}
    <2>1. max(of("status")) \in of("status")
      BY <1>1, <1>3, <1>5
    <2> QED
      BY <1>2, <1>3, <1>5, <2>1
  <1>6. CASE of("status") = {} /\ of("run") # {}
    <2>1. max(of("run")) \in of("run")
      BY <1>1, <1>3, <1>6
    <2> QED
      BY <1>2, <1>3, <1>6, <2>1
  <1>7. CASE of("status") = {} /\ of("run") = {}
    <2>1. \A i \in DOMAIN list : list[i].context.name # n
      BY <1>4, <1>7
    <2> QED
      BY <1>2, <1>7, <2>1
  <1> QED
    BY <1>5, <1>6, <1>7

(* What the statuses are condensed to. *)
LEMMA OverallStatus ==
    ASSUME NEW list \in Seq(PageContext), NEW rollup, NEW statuses, NEW s,
           statuses = Pages!toCIJobStatuses(list),
           s = Pages!overallCIStatus(statuses, rollup)
    PROVE  /\ statuses \in [Name -> Pages!CIStatus \cup {"absent"}]
           /\ s \in Pages!CIStatus
           /\ s = "success" => rollup # "pending"
           /\ s = "success" =>
                \A n \in Required : \E i \in DOMAIN list :
                    list[i].context.name = n /\ list[i].state = "success"
           /\ \A n \in Required : statuses[n] = "expected" =>
                \A i \in DOMAIN list : list[i].context.name # n
  <1>0. Required \subseteq Name /\ Ends \subseteq {"success", "failure"}
    BY InstanceAssumption DEF Pages!ReadyAssumption
  <1>1. statuses = [n \in Name |-> Pages!CIJobStatus(list, n)]
    BY DEF Pages!toCIJobStatuses
  <1>2. ASSUME NEW n \in Name
        PROVE  \/ /\ statuses[n] \in {"expected", "absent"}
                  /\ statuses[n] = "expected" <=> n \in Required
                  /\ \A i \in DOMAIN list : list[i].context.name # n
               \/ \E i \in DOMAIN list :
                    list[i].context.name = n /\ statuses[n] = list[i].state
    BY <1>1, JobStatus
  <1>3. \A i \in DOMAIN list : list[i].state \in {"pending", "success", "failure"}
    <2>1. \A i \in DOMAIN list : list[i] \in PageContext
      BY LenProperties
    <2> QED
      BY <1>0, <2>1 DEF PageContext
  <1>4. \A n \in Name : statuses[n] \in {"expected", "absent", "pending", "success", "failure"}
    BY <1>2, <1>3
  <1>5. statuses \in [Name -> Pages!CIStatus \cup {"absent"}]
    BY <1>1, <1>4 DEF Pages!CIStatus
  <1>6. Pages!requiredCIStatus(statuses) \in Pages!CIStatus
    BY DEF Pages!requiredCIStatus, Pages!CIStatus
  <1>7. s \in Pages!CIStatus /\ (s = "success" => rollup # "pending")
    BY <1>6 DEF Pages!overallCIStatus, Pages!CIStatus
  <1>8. ASSUME s = "success", NEW n \in Required
        PROVE  \E i \in DOMAIN list : list[i].context.name = n /\ list[i].state = "success"
    <2>1. Pages!requiredCIStatus(statuses) = "success"
      BY <1>8 DEF Pages!overallCIStatus
    <2>2. statuses[n] \notin {"failure", "expected", "pending"}
      BY <2>1 DEF Pages!requiredCIStatus
    <2>3. n \in Name
      BY <1>0
    <2>4. statuses[n] \in {"absent", "success"}
      BY <1>4, <2>2, <2>3
    <2>5. \E i \in DOMAIN list : list[i].context.name = n /\ statuses[n] = list[i].state
      BY <1>2, <2>3, <2>4
    <2>6. PICK i \in DOMAIN list : list[i].context.name = n /\ statuses[n] = list[i].state
      BY <2>5
    <2>7. list[i].state \in {"pending", "success", "failure"}
      BY <1>3
    <2> QED
      BY <2>4, <2>6, <2>7
  <1>9. ASSUME NEW n \in Required, statuses[n] = "expected"
        PROVE  \A i \in DOMAIN list : list[i].context.name # n
    BY <1>0, <1>2, <1>3, <1>9
  <1> QED
    BY <1>5, <1>7, <1>8, <1>9

(* A page has a context of the list at each of its places. *)
LEMMA PageType ==
    ASSUME Pages!Invariant, NEW end \in Nat, contextsAfter <= end, end <= Len(contexts),
           NEW page,
           page = [i \in 1..(end - contextsAfter) |->
                    [context |-> contexts[contextsAfter + i].context,
                     state |-> contexts[contextsAfter + i].state,
                     commit |-> prHead]]
    PROVE  /\ page \in Seq(PageContext)
           /\ Len(page) = end - contextsAfter
           /\ \A i \in 1..Len(page) : page[i].context = contexts[contextsAfter + i].context
  <1>1. /\ contextsAfter \in Nat /\ prHead \in Pages!Commit
        /\ contexts \in Seq([context : Context, state : {"pending"} \cup Ends])
    BY DEF Pages!Invariant, Pages!TypeOK, Pages!Lists
  <1>2. end - contextsAfter \in Nat
    BY <1>1
  <1>3. /\ Len(contexts) \in Nat
        /\ \A i \in 1..Len(contexts) :
              contexts[i] \in [context : Context, state : {"pending"} \cup Ends]
    BY <1>1, LenProperties, ElementOfSeq
  <1>4. ASSUME NEW i \in 1..(end - contextsAfter)
        PROVE  page[i] \in PageContext
    <2>1. contextsAfter + i \in 1..Len(contexts)
      BY <1>1, <1>2, <1>3
    <2>2. contexts[contextsAfter + i] \in [context : Context, state : {"pending"} \cup Ends]
      BY <1>3, <2>1
    <2> QED
      BY <1>1, <2>2 DEF PageContext
  <1>5. page \in [1..(end - contextsAfter) -> PageContext]
    BY <1>4
  <1>6. page \in Seq(PageContext)
    BY <1>2, <1>5, SeqDef
  <1>7. Len(page) \in Nat /\ DOMAIN page = 1..Len(page)
    BY <1>6, LenProperties
  <1>8. 1..Len(page) = 1..(end - contextsAfter)
    BY <1>5, <1>7
  <1>9. Len(page) = end - contextsAfter
    BY <1>2, <1>7, <1>8
  <1> QED
    BY <1>6, <1>9

(* What it is added to has all contexts up to its end. *)
LEMMA PageAdds ==
    ASSUME Pages!Invariant, Pages!SameHead, query = "query",
           NEW page \in Seq(PageContext),
           \A i \in 1..Len(page) : page[i].context = contexts[contextsAfter + i].context
    PROVE  /\ collected \o page \in Seq(PageContext)
           /\ \A i \in 1..(contextsAfter + Len(page)) : \E j \in DOMAIN (collected \o page) :
                (collected \o page)[j].context = contexts[i].context
  <1>1. /\ contextsAfter \in Nat /\ collected \in Seq(PageContext)
        /\ \A i \in 1..contextsAfter : \E j \in DOMAIN collected :
              collected[j].context = contexts[i].context
    BY DEF Pages!Invariant, Pages!TypeOK, Pages!Lists, Pages!PagesAreCollected, PageContext
  <1>2. Len(page) \in Nat /\ Len(collected) \in Nat /\ DOMAIN collected = 1..Len(collected)
    BY <1>1, LenProperties
  <1> DEFINE list == collected \o page
  <1>3. /\ list \in Seq(PageContext)
        /\ Len(list) = Len(collected) + Len(page)
        /\ \A i \in 1..Len(collected) + Len(page) :
              list[i] = IF i <= Len(collected) THEN collected[i] ELSE page[i - Len(collected)]
    BY <1>1, ConcatProperties
  <1>4. DOMAIN list = 1..Len(list)
    BY <1>3, LenProperties
  <1> HIDE DEF list
  <1>5. ASSUME NEW i \in 1..(contextsAfter + Len(page))
        PROVE  \E j \in 1..Len(list) : list[j].context = contexts[i].context
    <2>1. CASE i <= contextsAfter
      <3>1. i \in 1..contextsAfter
        BY <1>1, <2>1
      <3>2. PICK j \in 1..Len(collected) : collected[j].context = contexts[i].context
        BY <1>1, <1>2, <3>1
      <3>3. j \in 1..Len(list) /\ list[j] = collected[j]
        BY <1>2, <1>3
      <3> QED
        BY <3>2, <3>3
    <2>2. CASE i > contextsAfter
      <3>1. PICK k \in 1..Len(page) : contextsAfter + k = i
        <4>1. i - contextsAfter \in 1..Len(page)
          BY <1>1, <1>2, <2>2
        <4>2. contextsAfter + (i - contextsAfter) = i
          BY <1>1, <1>2
        <4> QED
          BY <4>1, <4>2
      <3>2. Len(collected) + k \in 1..Len(list) /\ list[Len(collected) + k] = page[k]
        <4> DEFINE j == Len(collected) + k
        <4>1. j \in 1..Len(collected) + Len(page) /\ ~(j <= Len(collected))
              /\ j - Len(collected) = k
          BY <1>2
        <4> HIDE DEF j
        <4>2. j \in 1..Len(list) /\ list[j] = page[k]
          BY <1>3, <4>1
        <4> QED
          BY <4>2 DEF j
      <3> QED
        BY <3>1, <3>2
    <2> QED
      BY <1>1, <1>2, <2>1, <2>2
  <1> QED
    BY <1>3, <1>4, <1>5 DEF list

LEMMA PagesInit == Pages!Init => Pages!Invariant
  <1> SUFFICES ASSUME Pages!Init PROVE Pages!Invariant
    OBVIOUS
  <1>0. 1 \in Pages!Commit /\ \A S : << >> \in Seq(S) /\ Len(<< >>) = 0
    BY InstanceAssumption DEF Pages!ReadyAssumption, Pages!Commit
  <1>1. Pages!NotReady \in ReadyStatus /\ Pages!NotReady.CIStatus = "expected"
    BY DEF Pages!NotReady, Pages!CIStatus, ReadyStatus
  <1>2. Pages!TypeOK
    BY <1>0, <1>1 DEF Pages!Init, Pages!TypeOK, ReadyStatus
  <1> QED
    BY <1>0, <1>1, <1>2
    DEF Pages!Init, Pages!Invariant, Pages!Lists, Pages!PagesAreCollected, Pages!SuccessWasSeen,
        Pages!Commit, Pages!NoCommit

(* GitHub adds contexts at the end, or begins a new list with a new head. *)
LEMMA PagesGitHub ==
    ASSUME Pages!Invariant,
           \/ Pages!Push
           \/ \E x \in Context : Pages!Report(x)
           \/ \E i \in DOMAIN contexts : \E state \in {"pending"} \cup Ends : Pages!Change(i, state)
    PROVE  Pages!Invariant'
  <1> DEFINE Reported == [context : Context, state : {"pending"} \cup Ends]
  <1>0. /\ Pages!TypeOK /\ Pages!Lists /\ Pages!PagesAreCollected
        /\ contexts \in Seq(Reported) /\ Len(contexts) \in Nat
        /\ DOMAIN contexts = 1..Len(contexts)
        /\ \A i \in 1..Len(contexts) : contexts[i] \in Reported
    <2>1. Pages!TypeOK /\ Pages!Lists /\ Pages!PagesAreCollected
      BY DEF Pages!Invariant
    <2>2. contexts \in Seq(Reported)
      BY <2>1 DEF Pages!Lists
    <2> QED
      BY <2>1, <2>2, LenProperties
  <1>1. UNCHANGED Pages!client /\ query = "query"
    BY DEF Pages!Push, Pages!Report, Pages!Change
  <1>2. /\ prHead' \in Pages!Commit /\ contexts' \in Seq(Reported)
        /\ \/ prHead' = prHead + 1
           \/ /\ prHead' = prHead /\ Len(contexts) <= Len(contexts')
              /\ \A i \in 1..Len(contexts) : contexts'[i].context = contexts[i].context
    <2>1. CASE Pages!Push
      BY <1>0, <2>1, EmptySeq, InstanceAssumption
      DEF Pages!Push, Pages!TypeOK, Pages!Commit, Pages!ReadyAssumption
    <2>2. ASSUME NEW x \in Context, Pages!Report(x)
          PROVE  /\ prHead' = prHead /\ contexts' \in Seq(Reported)
                 /\ Len(contexts) <= Len(contexts')
                 /\ \A i \in 1..Len(contexts) : contexts'[i].context = contexts[i].context
      <3> DEFINE c == [context |-> x, state |-> "pending"]
      <3>1. c \in Reported /\ contexts' = Append(contexts, c) /\ prHead' = prHead
        BY <2>2 DEF Pages!Report
      <3> HIDE DEF c, Reported
      <3>2. /\ contexts' \in Seq(Reported) /\ Len(contexts') = Len(contexts) + 1
            /\ \A i \in 1..Len(contexts) : contexts'[i] = contexts[i]
        BY <1>0, <3>1, AppendProperties
      <3> QED
        BY <1>0, <3>1, <3>2
    <2>3. ASSUME NEW i \in DOMAIN contexts, NEW state \in {"pending"} \cup Ends,
                 Pages!Change(i, state)
          PROVE  /\ prHead' = prHead /\ contexts' \in Seq(Reported)
                 /\ Len(contexts) <= Len(contexts')
                 /\ \A k \in 1..Len(contexts) : contexts'[k].context = contexts[k].context
      <3> DEFINE c == [contexts[i] EXCEPT !.state = state]
      <3>1. /\ c \in Reported /\ c.context = contexts[i].context
            /\ contexts' = [contexts EXCEPT ![i] = c] /\ prHead' = prHead
        BY <1>0, <2>3 DEF Pages!Change
      <3> HIDE DEF c, Reported
      <3>2. /\ contexts' \in Seq(Reported) /\ Len(contexts') = Len(contexts)
            /\ \A k \in 1..Len(contexts) : contexts'[k] = IF k = i THEN c ELSE contexts[k]
        BY <1>0, <3>1, ExceptSeq
      <3> QED
        BY <1>0, <3>1, <3>2
    <2>4. prHead \in Pages!Commit
      BY <1>0 DEF Pages!TypeOK
    <2> QED
      BY <2>1, <2>2, <2>3, <2>4
  <1>3. Pages!TypeOK' /\ Pages!Lists'
    <2>1. /\ DOMAIN contexts' = 1..Len(contexts')
          /\ \A i \in 1..Len(contexts') : contexts'[i] \in Reported
      BY <1>2, LenProperties
    <2>2. UNCHANGED <<query, prHEADCommitID, contextsAfter, collected, ready>>
      BY <1>1 DEF Pages!client
    <2> QED
      BY <1>0, <1>2, <2>1, <2>2 DEF Pages!TypeOK, Pages!Lists
  <1>4. Pages!PagesAreCollected'
    <2>1. /\ prHead \in Nat /\ prHEADCommitID \in Nat /\ contextsAfter \in Nat
          /\ UNCHANGED <<query, prHEADCommitID, contextsAfter, collected>>
          /\ Len(contexts') \in Nat
      BY <1>0, <1>1, <1>2, LenProperties
      DEF Pages!TypeOK, Pages!client, Pages!Commit, Pages!NoCommit
    <2>2. CASE prHead' = prHead + 1
      <3>1. prHEADCommitID' <= prHead' /\ (prHEADCommitID' = Pages!NoCommit => contextsAfter' = 0)
            /\ (Pages!SameHead' => contextsAfter' = 0)
        BY <1>0, <2>1, <2>2 DEF Pages!PagesAreCollected, Pages!SameHead, Pages!NoCommit
      <3> QED
        BY <2>1, <3>1 DEF Pages!PagesAreCollected
    <2>3. CASE /\ prHead' = prHead /\ Len(contexts) <= Len(contexts')
               /\ \A i \in 1..Len(contexts) : contexts'[i].context = contexts[i].context
      <3>1. prHEADCommitID' <= prHead' /\ (prHEADCommitID' = Pages!NoCommit => contextsAfter' = 0)
        BY <1>0, <2>1, <2>3 DEF Pages!PagesAreCollected
      <3>2. ASSUME Pages!SameHead'
            PROVE  /\ contextsAfter' <= Len(contexts)'
                   /\ \A i \in 1..contextsAfter : \E j \in DOMAIN collected :
                        collected[j].context = contexts'[i].context
        <4>1. /\ contextsAfter <= Len(contexts)
              /\ \A i \in 1..contextsAfter : \E j \in DOMAIN collected :
                        collected[j].context = contexts[i].context
          BY <1>0, <1>1, <2>1, <2>3, <3>2 DEF Pages!PagesAreCollected, Pages!SameHead
        <4>2. \A i \in 1..contextsAfter : i \in 1..Len(contexts)
          BY <1>0, <2>1, <4>1
        <4> QED
          BY <1>0, <2>1, <2>3, <4>1, <4>2
      <3> QED
        BY <2>1, <3>1, <3>2 DEF Pages!PagesAreCollected
    <2> QED
      BY <1>2, <2>2, <2>3
  <1> QED
    BY <1>1, <1>3, <1>4 DEF Pages!client, Pages!Invariant, Pages!SuccessWasSeen, Pages!Mixed

(* What the client returns with the last page. *)
LEMMA PagesReturn ==
    ASSUME Pages!Invariant, Pages!LastPage
    PROVE  /\ collected' \in Seq(PageContext)
           /\ UNCHANGED <<prHead, contexts, contextsAfter>> /\ query' = "idle"
           /\ prHEADCommitID' = prHead
           /\ ready' \in ReadyStatus
           /\ ready'.commit = prHead
           /\ ready'.CIStatus = "success" =>
                 /\ Pages!Rollup # "pending"
                 /\ \A n \in Required : \E i \in DOMAIN collected' :
                      collected'[i].context.name = n /\ collected'[i].state = "success"
           /\ \A n \in Required : ready'.statuses[n] = "expected" =>
                 \A i \in 1..Len(contexts) : contexts[i].context.name # n
  <1>0. /\ Pages!SameHead /\ query = "query" /\ ~Pages!HasNextPage
        /\ prHead \in Pages!Commit /\ contextsAfter \in Nat /\ Len(contexts) \in Nat
        /\ contextsAfter <= Len(contexts)
    <2>1. Pages!SameHead /\ query = "query" /\ ~Pages!HasNextPage
      BY DEF Pages!LastPage
    <2>2. Len(contexts) \in Nat
      BY LenProperties DEF Pages!Invariant, Pages!Lists
    <2> QED
      BY <2>1, <2>2 DEF Pages!Invariant, Pages!TypeOK, Pages!PagesAreCollected
  <1> DEFINE list == collected \o Pages!Page
             statuses == Pages!toCIJobStatuses(list)
             s == Pages!overallCIStatus(statuses, Pages!Rollup)
  <1>1. /\ Pages!Page \in Seq(PageContext) /\ Len(Pages!Page) = Len(contexts) - contextsAfter
        /\ \A i \in 1..Len(Pages!Page) :
                Pages!Page[i].context = contexts[contextsAfter + i].context
    <2> DEFINE end == Len(contexts)
    <2>1. Pages!Page = [i \in 1..(end - contextsAfter) |->
                          [context |-> contexts[contextsAfter + i].context,
                           state |-> contexts[contextsAfter + i].state,
                           commit |-> prHead]]
      BY <1>0 DEF Pages!Page
    <2>2. end \in Nat /\ contextsAfter <= end /\ end <= Len(contexts)
      BY <1>0
    <2> HIDE DEF end
    <2>3. /\ Pages!Page \in Seq(PageContext) /\ Len(Pages!Page) = end - contextsAfter
          /\ \A i \in 1..Len(Pages!Page) :
                Pages!Page[i].context = contexts[contextsAfter + i].context
      BY <2>1, <2>2, PageType
    <2> QED
      BY <2>3 DEF end
  <1>2. /\ list \in Seq(PageContext)
        /\ \A i \in 1..Len(contexts) : \E j \in DOMAIN list : list[j].context = contexts[i].context
    <2>1. contextsAfter + Len(Pages!Page) = Len(contexts)
      BY <1>0, <1>1
    <2> QED
      BY <1>0, <1>1, <2>1, PageAdds
  <1>3. /\ collected' = list /\ query' = "idle" /\ prHEADCommitID' = Pages!PageCommit
        /\ ready' = [CIStatus |-> s, statuses |-> statuses, commit |-> Pages!PageCommit]
        /\ UNCHANGED <<prHead, contexts, contextsAfter>>
    BY DEF Pages!LastPage, Pages!github
  <1>4. Pages!PageCommit = prHead
    BY <1>0 DEF Pages!PageCommit, Pages!SameHead
  <1> HIDE DEF list
  <1>5. /\ statuses \in [Name -> Pages!CIStatus \cup {"absent"}]
        /\ s \in Pages!CIStatus
        /\ s = "success" => Pages!Rollup # "pending"
        /\ s = "success" =>
             \A n \in Required : \E i \in DOMAIN list :
                 list[i].context.name = n /\ list[i].state = "success"
        /\ \A n \in Required : statuses[n] = "expected" =>
             \A i \in DOMAIN list : list[i].context.name # n
    BY <1>2, OverallStatus
  <1> HIDE DEF statuses, s
  <1> QED
    BY <1>0, <1>2, <1>3, <1>4, <1>5 DEF ReadyStatus

LEMMA PagesClient ==
    ASSUME Pages!Invariant, Pages!Begin \/ Pages!Query \/ Pages!Fail
    PROVE  Pages!Invariant'
  <1>0. Pages!TypeOK /\ Pages!Lists /\ Pages!PagesAreCollected /\ Pages!SuccessWasSeen
        /\ prHead \in Nat
    BY DEF Pages!Invariant, Pages!TypeOK, Pages!Commit
  <1>1. CASE Pages!Begin
    <2>1. UNCHANGED <<prHead, contexts>> /\ query' = "query" /\ prHEADCommitID' = 0
          /\ contextsAfter' = 0 /\ collected' = << >> /\ ready' = Pages!NotReady
      BY <1>1 DEF Pages!Begin, Pages!github, Pages!NoCommit
    <2>2. Pages!NotReady \in ReadyStatus /\ Pages!NotReady.CIStatus = "expected"
      BY DEF Pages!NotReady, Pages!CIStatus, ReadyStatus
    <2>3. Len(contexts) \in Nat
      BY <1>0, LenProperties DEF Pages!Lists
    <2>4. Pages!TypeOK' /\ Pages!Lists'
      BY <1>0, <2>1, <2>2, EmptySeq DEF Pages!TypeOK, Pages!Lists, Pages!NoCommit, ReadyStatus
    <2>5. Pages!PagesAreCollected'
      BY <1>0, <2>1, <2>3 DEF Pages!PagesAreCollected, Pages!NoCommit
    <2> QED
      BY <2>1, <2>2, <2>4, <2>5 DEF Pages!Invariant, Pages!SuccessWasSeen
  <1>2. CASE Pages!Restart
    <2>1. /\ UNCHANGED <<prHead, contexts, query, collected, ready>>
          /\ contextsAfter' = 0 /\ prHEADCommitID' = 0 /\ query = "query"
      BY <1>2 DEF Pages!Restart, Pages!github, Pages!NoCommit
    <2>2. Pages!TypeOK' /\ Pages!Lists'
      BY <1>0, <2>1 DEF Pages!TypeOK, Pages!Lists, Pages!NoCommit
    <2>3. Len(contexts) \in Nat
      BY <1>0, LenProperties DEF Pages!Lists
    <2>4. Pages!PagesAreCollected'
      BY <1>0, <2>1, <2>3 DEF Pages!PagesAreCollected, Pages!NoCommit
    <2> QED
      BY <2>1, <2>2, <2>4 DEF Pages!Invariant, Pages!SuccessWasSeen
  <1>3. CASE Pages!NextPage
    <2>0. /\ Pages!SameHead /\ query = "query" /\ Pages!HasNextPage
          /\ contextsAfter \in Nat /\ Len(contexts) \in Nat /\ PageSize \in Nat
          /\ contextsAfter + PageSize < Len(contexts)
          /\ UNCHANGED <<prHead, contexts, query, ready>>
          /\ prHEADCommitID' = prHead /\ contextsAfter' = contextsAfter + PageSize
          /\ collected' = collected \o Pages!Page
      <3>1. Len(contexts) \in Nat
        BY <1>0, LenProperties DEF Pages!Lists
      <3> QED
        BY <1>0, <1>3, <3>1, InstanceAssumption
        DEF Pages!NextPage, Pages!HasNextPage, Pages!github, Pages!PageCommit, Pages!SameHead,
            Pages!TypeOK, Pages!ReadyAssumption
    <2>1. /\ Pages!Page \in Seq(PageContext) /\ Len(Pages!Page) = PageSize
          /\ \A i \in 1..Len(Pages!Page) :
                Pages!Page[i].context = contexts[contextsAfter + i].context
      <3> DEFINE end == contextsAfter + PageSize
      <3>1. Pages!Page = [i \in 1..(end - contextsAfter) |->
                            [context |-> contexts[contextsAfter + i].context,
                             state |-> contexts[contextsAfter + i].state,
                             commit |-> prHead]]
        BY <2>0 DEF Pages!Page
      <3>2. /\ end \in Nat /\ contextsAfter <= end /\ end <= Len(contexts)
            /\ end - contextsAfter = PageSize
        BY <2>0
      <3> HIDE DEF end
      <3> QED
        BY <3>1, <3>2, PageType
    <2>2. /\ collected' \in Seq(PageContext)
          /\ \A i \in 1..contextsAfter' : \E j \in DOMAIN collected' :
                collected'[j].context = contexts[i].context
      BY <2>0, <2>1, PageAdds
    <2>3. /\ DOMAIN collected' = 1..Len(collected')
          /\ \A i \in 1..Len(collected') : collected'[i] \in PageContext
      BY <2>2, LenProperties, ElementOfSeq
    <2>4. Pages!TypeOK' /\ Pages!Lists'
      BY <1>0, <2>0, <2>2, <2>3 DEF Pages!TypeOK, Pages!Lists, PageContext
    <2>5. prHead # Pages!NoCommit
      BY <1>0 DEF Pages!TypeOK, Pages!Commit, Pages!NoCommit
    <2>6. Pages!PagesAreCollected'
      BY <1>0, <2>0, <2>2, <2>5 DEF Pages!PagesAreCollected
    <2> QED
      BY <2>0, <2>4, <2>6 DEF Pages!Invariant, Pages!SuccessWasSeen
  <1>4. CASE Pages!LastPage
    <2>1. Pages!TypeOK' /\ Pages!Lists' /\ Pages!SuccessWasSeen' /\ query' = "idle"
      <3>1. /\ DOMAIN collected' = 1..Len(collected')
            /\ \A i \in 1..Len(collected') : collected'[i] \in PageContext
        BY <1>4, PagesReturn, LenProperties, ElementOfSeq
      <3>2. Pages!TypeOK' /\ Pages!Lists'
        BY <1>0, <1>4, <3>1, PagesReturn
        DEF Pages!TypeOK, Pages!Lists, PageContext, ReadyStatus
      <3> QED
        BY <1>4, <3>2, PagesReturn DEF Pages!SuccessWasSeen
    <2>2. Pages!PagesAreCollected'
      <3>1. prHead # Pages!NoCommit
        BY <1>0 DEF Pages!TypeOK, Pages!Commit, Pages!NoCommit
      <3> QED
        BY <1>0, <1>4, <3>1, PagesReturn DEF Pages!PagesAreCollected
    <2> QED
      BY <2>1, <2>2 DEF Pages!Invariant
  <1>5. CASE Pages!Fail
    <2>1. /\ UNCHANGED <<prHead, contexts, prHEADCommitID, contextsAfter, collected, ready>>
          /\ query' = "idle" /\ ready = Pages!NotReady
      BY <1>5 DEF Pages!Fail, Pages!github, Pages!Invariant
    <2>2. Pages!TypeOK' /\ Pages!Lists' /\ Pages!PagesAreCollected'
      BY <1>0, <2>1 DEF Pages!TypeOK, Pages!Lists, Pages!PagesAreCollected
    <2>3. Pages!SuccessWasSeen'
      BY <2>1 DEF Pages!SuccessWasSeen, Pages!NotReady
    <2> QED
      BY <2>1, <2>2, <2>3 DEF Pages!Invariant
  <1> QED
    BY <1>1, <1>2, <1>3, <1>4, <1>5 DEF Pages!Query

LEMMA PagesStep ==
    ASSUME Pages!Invariant, [Pages!Next]_pagesVars
    PROVE  Pages!Invariant'
  <1>1. CASE UNCHANGED pagesVars
    BY <1>1
    DEF pagesVars, Pages!Invariant, Pages!TypeOK, Pages!Lists, Pages!PagesAreCollected,
        Pages!SameHead, Pages!SuccessWasSeen, Pages!Mixed
  <1>2. CASE Pages!Next
    BY <1>2, PagesGitHub, PagesClient DEF Pages!Next
  <1> QED
    BY <1>1, <1>2

(* A step with which the client returns is that of the last page. *)
LEMMA PagesReturns ==
    ASSUME Pages!Invariant, [Pages!Next]_pagesVars, Pages!Returns
    PROVE  /\ \A n \in Required :
                 ready'.statuses[n] = "expected" => n \notin {x.name : x \in Pages!Reported}
           /\ ready'.commit = prHead
           /\ ready'.CIStatus = "success" =>
                 \/ "failure" \in Pages!States
                 \/ \A i \in DOMAIN contexts : contexts[i].state # "pending"
  <1>1. ready = Pages!NotReady /\ query = "query" /\ query' = "idle" /\ ready' # Pages!NotReady
    BY DEF Pages!Returns, Pages!Invariant
  <1>2. Pages!LastPage
    BY <1>1
    DEF Pages!Next, Pages!Push, Pages!Report, Pages!Change, Pages!Begin, Pages!Query,
        Pages!Restart, Pages!NextPage, Pages!Fail, Pages!client, Pages!github, pagesVars
  <1>3. Len(contexts) \in Nat /\ DOMAIN contexts = 1..Len(contexts)
    BY LenProperties DEF Pages!Invariant, Pages!Lists
  <1>4. ASSUME NEW n \in Required, ready'.statuses[n] = "expected"
        PROVE  n \notin {x.name : x \in Pages!Reported}
    BY <1>2, <1>3, <1>4, PagesReturn DEF Pages!Reported
  <1>5. Pages!Rollup # "pending" =>
          \/ "failure" \in Pages!States
          \/ \A i \in DOMAIN contexts : contexts[i].state # "pending"
    BY DEF Pages!Rollup, Pages!States
  <1> QED
    BY <1>2, <1>4, <1>5, PagesReturn

(* RollUpIsTrue: for any names, page size and order of what happens between    *)
(* the requests; success excepts the runs of checks beside a failed one        *)
(* (readyformergestatus.go:91-96).                                             *)
THEOREM RollUpAmountsToTruth == SafetySpec => RollUpIsTrue
  <1>1. WorkerInit => Pages!Invariant
    BY PagesInit DEF WorkerInit
  <1>2. [WorkerNext]_allVars => [Pages!Next]_pagesVars
    BY DEF WorkerNext, allVars
  <1>3. Pages!Invariant /\ [Pages!Next]_pagesVars => Pages!Invariant'
    BY PagesStep
  <1>4. Pages!Invariant => Pages!TypeOK /\ Pages!SuccessWasSeen
    BY DEF Pages!Invariant
  <1>5. Pages!Invariant /\ [Pages!Next]_pagesVars =>
          [Pages!Returns => \A n \in Required : ready'.statuses[n] = "expected" =>
                n \notin {x.name : x \in Pages!Reported}]_(Pages!vars)
    BY PagesReturns
  <1>6. Pages!Invariant /\ [Pages!Next]_pagesVars =>
          [Pages!Returns => ready'.commit = prHead]_(Pages!vars)
    BY PagesReturns
  <1>7. Pages!Invariant /\ [Pages!Next]_pagesVars =>
          [Pages!Returns /\ ready'.CIStatus = "success" =>
                \/ "failure" \in Pages!States
                \/ \A i \in DOMAIN contexts : contexts[i].state # "pending"]_(Pages!vars)
    BY PagesReturns
  <1> QED
    BY <1>1, <1>2, <1>3, <1>4, <1>5, <1>6, <1>7, PTL
    DEF SafetySpec, RollUpIsTrue, Pages!ExpectedIsMissing, Pages!CommitIsHead,
        Pages!SuccessIsNotPending

-----------------------------------------------------------------------------
(* How long nothing happened: Staleness *)

USE StalenessAssumption DEF MaxAge, Age

LEMMA InitInvariant == Init => Invariant
  <1> SUFFICES ASSUME Init PROVE Invariant
    OBVIOUS
  <1>1. MaxAge \in Age /\ 0 \in Age
    OBVIOUS
  <1>2. TypeOK
    BY <1>1 DEF Init, TypeOK, Idle
  <1>3. SinceIsRecent
    BY DEF Init, SinceIsRecent, Recent
  <1> QED
    BY <1>2, <1>3 DEF Init, Invariant, Idle

(* A timestamp never gets older than it is. *)
LEMMA OlderAge ==
    ASSUME NEW a \in Age \cup {Zero}
    PROVE  /\ Older(a) \in Age \cup {Zero}
           /\ Older(a) = Zero <=> a = Zero
           /\ a # Zero => Older(a) \in Age
           /\ a # Zero /\ a # MaxAge => Older(a) = a + 1
           /\ a # Zero /\ a = MaxAge => Older(a) = a
  BY DEF Older

LEMMA NewerAge ==
    ASSUME NEW a \in Age \cup {Zero}, NEW t \in 0..Latency
    PROVE  /\ IfNewer(a, t) \in Age
           /\ IfNewer(a, t) <= t
           /\ a # Zero => IfNewer(a, t) <= a
  BY DEF IfNewer

LEMMA TickInvariant ==
    ASSUME Invariant, Tick
    PROVE  Invariant'
  <1> USE DEF Invariant
  <1>1. /\ \A p \in PR : since'[p] = Older(since[p])
        /\ \A p \in PR : changed'[p] = Older(changed[p])
        /\ \A p \in PR : resumed'[p] = Older(resumed[p])
        /\ firstFor' = Older(firstFor)
        /\ UNCHANGED <<place, first, tasks, worker, paused, resuming>>
    BY DEF Tick, queue, http, TypeOK
  <1>2. TypeOK'
    <2>1. /\ \A p \in PR : /\ Older(since[p]) \in Age \cup {Zero}
                            /\ Older(changed[p]) \in Age /\ Older(resumed[p]) \in Age
          /\ Older(firstFor) \in Age
      <3>1. /\ \A p \in PR : /\ since[p] \in Age \cup {Zero}
                              /\ changed[p] \in Age /\ resumed[p] \in Age
            /\ firstFor \in Age
            /\ \A a \in Age : a # Zero
        BY DEF TypeOK
      <3> HIDE DEF Age
      <3> QED
        BY <3>1, OlderAge
    <2>2. /\ since' \in [PR -> Age \cup {Zero}]
          /\ changed' \in [PR -> Age]
          /\ resumed' \in [PR -> Age]
          /\ firstFor' \in Age
      BY <1>1, <2>1 DEF Tick
    <2> QED
      BY <1>1, <2>2 DEF TypeOK
  <1>3. ASSUME NEW p \in PR
        PROVE  Recent(p)'
    <2>1. /\ since[p] \in Age \cup {Zero} /\ changed[p] \in Age /\ resumed[p] \in Age
          /\ MaxAge \in Nat /\ Recent(p) /\ \A a \in Age : a # Zero
      BY DEF TypeOK, SinceIsRecent
    <2>2. CASE since[p] = Zero
      BY <1>1, <2>1, <2>2 DEF Older, Recent
    <2>3. CASE since[p] # Zero
      <3>1. /\ since'[p] = IF since[p] = MaxAge THEN MaxAge ELSE since[p] + 1
            /\ changed'[p] = IF changed[p] = MaxAge THEN MaxAge ELSE changed[p] + 1
            /\ resumed'[p] = IF resumed[p] = MaxAge THEN MaxAge ELSE resumed[p] + 1
        BY <1>1, <2>1, <2>3 DEF Older
      <3>2. since[p] \in Nat /\ changed[p] \in Nat /\ resumed[p] \in Nat
            /\ since[p] <= MaxAge /\ changed[p] <= MaxAge /\ resumed[p] <= MaxAge
            /\ since[p] <= changed[p] /\ since[p] <= resumed[p] + Latency
        BY <2>1, <2>3 DEF Recent
      <3>3. since'[p] <= changed'[p] /\ since'[p] <= resumed'[p] + Latency /\ since'[p] \in Nat
        BY <3>1, <3>2
      <3> QED
        BY <3>3 DEF Recent
    <2> QED
      BY <2>2, <2>3
  <1> QED
    BY <1>1, <1>2, <1>3 DEF SinceIsRecent

(* A change is noticed at the age that is reported, or was noticed before. *)
LEMMA ChangeInvariant ==
    ASSUME Invariant, NEW p \in PR, NEW t \in 0..Latency, Change(p, t)
    PROVE  /\ since' \in [PR -> Age \cup {Zero}]
           /\ changed' \in [PR -> Age]
           /\ resumed' \in [PR -> Age] /\ firstFor' \in Age
           /\ SinceIsRecent'
  <1> USE DEF Invariant
  <1>0. since[p] \in Age \cup {Zero} /\ t \in Age
    BY DEF TypeOK
  <1>1. /\ \A q \in PR : since'[q] = IF q = p THEN IfNewer(since[p], t) ELSE since[q]
        /\ \A q \in PR : changed'[q] = IF q = p /\ t < changed[p] THEN t ELSE changed[q]
        /\ UNCHANGED <<resumed, firstFor>>
        /\ IfNewer(since[p], t) \in Age
        /\ t \in Age
    <2>1. IfNewer(since[p], t) \in Age
      <3> HIDE DEF Age
      <3> QED
        BY <1>0, NewerAge
    <2> QED
      BY <1>0, <2>1 DEF Change, TypeOK
  <1>2. since' \in [PR -> Age \cup {Zero}] /\ changed' \in [PR -> Age]
    BY <1>1, NewerAge DEF Change, TypeOK
  <1>3. ASSUME NEW q \in PR
        PROVE  Recent(q)'
    <2>1. CASE q = p
      <3>1. /\ since[p] \in Age \cup {Zero} /\ changed[p] \in Age /\ resumed[p] \in Age
            /\ MaxAge \in Nat /\ Recent(p) /\ \A a \in Age : a # Zero
        BY DEF TypeOK, SinceIsRecent
      <3>2. /\ changed'[p] = IF t < changed[p] THEN t ELSE changed[p]
            /\ since'[p] = IfNewer(since[p], t) /\ resumed'[p] = resumed[p]
        BY <1>1
      <3>3. CASE since[p] = Zero
        <4>1. since'[p] = t /\ changed[p] = MaxAge /\ t <= Latency /\ t \in Nat
          BY <3>1, <3>2, <3>3 DEF IfNewer, Recent
        <4>2. changed'[p] = t /\ t <= resumed'[p] + Latency
          <5>1. changed[p] \in Nat /\ resumed[p] \in Nat /\ t <= Latency /\ Latency <= Timeout
            BY <3>1, <4>1
          <5>2. t < changed[p]
            BY <4>1, <5>1
          <5> QED
            BY <3>2, <5>1, <5>2
        <4> QED
          BY <2>1, <4>1, <4>2 DEF Recent
      <3>4. CASE since[p] # Zero
        <4>1. since'[p] = IF t < since[p] THEN t ELSE since[p]
          BY <3>2, <3>4 DEF IfNewer
        <4>2. /\ since[p] \in Nat /\ changed[p] \in Nat /\ resumed[p] \in Nat
              /\ since[p] <= changed[p] /\ since[p] <= resumed[p] + Latency
          BY <3>1, <3>4 DEF Recent
        <4>. t \in Nat
          OBVIOUS
        <4>3. since'[p] <= changed'[p] /\ since'[p] <= resumed'[p] + Latency
              /\ since'[p] \in Nat
          BY <3>2, <4>1, <4>2
        <4> QED
          BY <2>1, <4>3 DEF Recent
      <3> QED
        BY <2>1, <3>3, <3>4
    <2>2. CASE q # p
      BY <1>1, <2>2 DEF SinceIsRecent, Recent
    <2> QED
      BY <2>1, <2>2
  <1> QED
    BY <1>1, <1>2, <1>3 DEF TypeOK, SinceIsRecent

(* A timestamp that is reset is the zero time. *)
LEMMA LeaveInvariant ==
    ASSUME Invariant, NEW p \in PR, NEW to \in {"suspended", "out"}, Leave(p, to)
    PROVE  /\ place' \in [PR -> {"new", "active", "suspended", "out"}]
           /\ first' \in PR \cup {None} /\ tasks' \in SUBSET PR
           /\ since' \in [PR -> Age \cup {Zero}]
           /\ changed' \in [PR -> Age] /\ resumed' \in [PR -> Age] /\ firstFor' \in Age
           /\ SinceIsRecent'
  <1> USE DEF Invariant
  <1>1. /\ \A q \in PR : since'[q] = IF q = p THEN Zero ELSE since[q]
        /\ \A q \in PR : changed'[q] = IF q = p THEN MaxAge ELSE changed[q]
        /\ \A q \in PR \ {p} : resumed'[q] = resumed[q]
    BY DEF Leave, TypeOK
  <1>2. MaxAge \in Age /\ 0 \in Age
    OBVIOUS
  <1>3. /\ place' \in [PR -> {"new", "active", "suspended", "out"}]
        /\ since' \in [PR -> Age \cup {Zero}]
        /\ changed' \in [PR -> Age] /\ resumed' \in [PR -> Age]
    BY <1>2 DEF Leave, TypeOK
  <1>4. PICK n \in PR \cup {None} : BecomesFirst(n)
    BY DEF Leave, TypeOK, Active
  <1>5. first' \in PR \cup {None} /\ tasks' \in SUBSET PR /\ firstFor' \in Age
    BY <1>2, <1>4 DEF BecomesFirst, TypeOK
  <1>6. SinceIsRecent'
    BY <1>1 DEF SinceIsRecent, Recent
  <1> QED
    BY <1>3, <1>5, <1>6

LEMMA EnqueueInvariant ==
    ASSUME Invariant, NEW p \in PR, EnqueueActive(p)
    PROVE  Invariant'
  <1> USE DEF Invariant
  <1>1. 0 \in Age
    OBVIOUS
  <1>2. PICK n \in PR \cup {None} : BecomesFirst(n)
    BY DEF EnqueueActive, TypeOK
  <1>3. first' \in PR \cup {None} /\ tasks' \in SUBSET PR /\ firstFor' \in Age
    BY <1>1, <1>2 DEF BecomesFirst, TypeOK
  <1>4. TypeOK'
    BY <1>3 DEF EnqueueActive, TypeOK, http
  <1> QED
    BY <1>4 DEF EnqueueActive, SinceIsRecent, Recent

(* What leaves timestamps and history alone. *)
LEMMA OtherInvariant ==
    ASSUME Invariant, TypeOK', UNCHANGED <<since, changed, resumed>>,
           worker' = worker \/ worker'.pr = worker.pr \/ worker'.pc = "idle",
           worker.pc = "idle" => worker' = worker
    PROVE  Invariant'
  BY DEF Invariant, SinceIsRecent, Recent

LEMMA StepInvariant ==
    ASSUME Invariant, [Next]_vars
    PROVE  Invariant'
  <1> USE DEF queue, http, history
  <1>0. TypeOK /\ SinceIsRecent /\ 0 \in Age /\ MaxAge \in Age
    BY DEF Invariant
  <1>1. CASE Tick
    BY <1>1, TickInvariant
  <1>2. ASSUME NEW p \in PR, Enqueue(p) \/ ResumePR(p)
        PROVE  Invariant'
    BY <1>2, EnqueueInvariant DEF Enqueue, ResumePR
  <1>3. ASSUME NEW p \in PR, Dequeue(p)
        PROVE  Invariant'
    BY <1>3, LeaveInvariant DEF Dequeue, Invariant, TypeOK
  <1>4. ASSUME NEW p \in PR, DequeueSuspended(p)
        PROVE  Invariant'
    <2>1. /\ \A q \in PR : since'[q] = IF q = p THEN Zero ELSE since[q]
          /\ \A q \in PR : changed'[q] = IF q = p THEN MaxAge ELSE changed[q]
          /\ UNCHANGED resumed
      BY <1>0, <1>4 DEF DequeueSuspended, TypeOK
    <2>2. TypeOK'
      BY <1>0, <1>4 DEF DequeueSuspended, TypeOK
    <2>3. SinceIsRecent'
      BY <1>0, <2>1 DEF SinceIsRecent, Recent
    <2> QED
      BY <1>4, <2>2, <2>3 DEF DequeueSuspended, Invariant
  <1>5. ASSUME NEW p \in PR, StatusEvent(p)
        PROVE  Invariant'
    <2>1. PICK t \in 0..Latency : Change(p, t)
      BY <1>5 DEF StatusEvent
    <2> QED
      BY <1>5, <2>1, ChangeInvariant DEF StatusEvent, Invariant, TypeOK
  <1>6. CASE Schedule \/ Pause \/ ResumeUnpause
    <2>1. TypeOK' /\ UNCHANGED <<since, changed, resumed, worker>>
      BY <1>0, <1>6 DEF Schedule, Pause, ResumeUnpause, TypeOK
    <2> QED
      BY <2>1, OtherInvariant
  <1>7. CASE ResumeReset
    <2>1. /\ \A q \in PR : since'[q] = IF place[q] = "active" THEN Zero ELSE since[q]
          /\ \A q \in PR : changed'[q] = IF place[q] = "active" THEN MaxAge ELSE changed[q]
          /\ \A q \in PR : place[q] # "active" => resumed'[q] = resumed[q]
      BY <1>7 DEF ResumeReset
    <2>2. TypeOK'
      BY <1>0, <1>7 DEF ResumeReset, TypeOK
    <2>3. SinceIsRecent'
      BY <1>0, <2>1 DEF SinceIsRecent, Recent
    <2> QED
      BY <1>7, <2>2, <2>3 DEF ResumeReset, Invariant
  <1>8. ASSUME NEW p \in PR, Process(p)
        PROVE  Invariant'
    <2>1. CASE SkipPaused(p)
      <3>1. TypeOK' /\ UNCHANGED <<since, changed, resumed, worker>>
        BY <1>0, <2>1 DEF SkipPaused, TypeOK
      <3> QED
        BY <3>1, OtherInvariant
    <2>2. CASE ProcessPR(p)
      <3>1. /\ \A q \in PR : since'[q] = IF q = p /\ since[q] = Zero THEN 0 ELSE since[q]
            /\ UNCHANGED <<changed, resumed>>
        BY <1>0, <2>2 DEF ProcessPR, TypeOK, IfZero
      <3>2. IfZero(since[p]) \in Age \cup {Zero}
        BY <1>0 DEF IfZero, TypeOK
      <3>3. TypeOK'
        BY <1>0, <2>2, <3>2 DEF ProcessPR, TypeOK
      <3>4. SinceIsRecent'
        <4>1. \A q \in PR : changed[q] \in Nat /\ resumed[q] \in Nat /\ Latency \in Nat
          BY <1>0 DEF TypeOK
        <4> QED
          BY <1>0, <3>1, <4>1 DEF SinceIsRecent, Recent
      <3> QED
        BY <2>2, <3>3, <3>4 DEF ProcessPR, Invariant
    <2>3. CASE \/ isFirstActive(p) \/ Interrupted(p) \/ CannotBeMerged(p) \/ Stale(p)
               \/ NotStale(p) \/ RunCI(p) \/ CIFails(p)
      <3>1. /\ UNCHANGED <<place, first, tasks, since, paused, resuming, changed, resumed, firstFor>>
            /\ \/ worker' = Idle
               \/ \E next \in {"eval", "stale", "suspend", "ci"} :
                    worker' = [worker EXCEPT !.pc = next]
            /\ worker.pc # "idle"
        BY <2>3 DEF isFirstActive, Interrupted, CannotBeMerged, Stale, NotStale, RunCI, CIFails,
                    Worker, Goes
      <3>2. worker' \in [pc : {"idle", "check", "eval", "ci", "stale", "suspend"}, pr : PR \cup {None}]
            /\ (worker'.pr = worker.pr \/ worker'.pc = "idle")
        BY <1>0, <3>1 DEF TypeOK, Idle
      <3>3. TypeOK'
        BY <1>0, <3>1, <3>2 DEF TypeOK
      <3> QED
        BY <3>1, <3>2, <3>3, OtherInvariant
    <2>4. CASE BranchUpdated(p) \/ CITriggered(p)
      <3>1. /\ Change(p, 0) /\ 0 \in 0..Latency
            /\ worker' = Idle /\ UNCHANGED <<place, first, tasks, paused, resuming>>
        BY <2>4 DEF BranchUpdated, CITriggered
      <3> QED
        BY <1>0, <3>1, ChangeInvariant DEF Invariant, TypeOK, Idle
    <2>5. CASE Suspend(p)
      <3>1. CASE place[p] = "active"
        <4>1. Leave(p, "suspended") /\ worker' = Idle /\ UNCHANGED <<paused, resuming>>
          BY <2>5, <3>1 DEF Suspend
        <4> QED
          BY <1>0, <4>1, LeaveInvariant DEF Invariant, TypeOK, Idle
      <3>2. CASE place[p] # "active"
        <4>1. /\ worker' = Idle
              /\ UNCHANGED <<place, first, tasks, since, paused, resuming, changed, resumed, firstFor>>
          BY <2>5, <3>2 DEF Suspend
        <4> QED
          BY <1>0, <4>1 DEF Invariant, TypeOK, Idle, SinceIsRecent, Recent
      <3> QED
        BY <3>1, <3>2
    <2> QED
      BY <1>8, <2>1, <2>2, <2>3, <2>4, <2>5 DEF Process
  <1>9. CASE UNCHANGED vars
    BY <1>9 DEF vars, Invariant, TypeOK, SinceIsRecent, Recent
  <1> QED
    BY <1>1, <1>2, <1>3, <1>4, <1>5, <1>6, <1>7, <1>8, <1>9 DEF Next

THEOREM InvariantHolds == Spec => []Invariant
  BY InitInvariant, StepInvariant, PTL DEF Spec

(* TypeOK: ages stay within their bound. *)
THEOREM TypeCorrect == Spec => []TypeOK
  BY InvariantHolds, PTL DEF Invariant

(* The two reasons for which a PR is not stale, for any timeout. *)
LEMMA StaleStep ==
    ASSUME Invariant, [Next]_vars, NEW p \in PR, DecidesStale(p)
    PROVE  changed[p] > Timeout /\ resumed[p] + Latency > Timeout
  <1>1. worker.pc = "eval" /\ worker.pr = p /\ worker'.pc = "stale"
    BY DEF DecidesStale, Worker
  <1>2. isPRStale(p)
    <2>1. PICK q \in PR : Process(q) /\ worker' # worker
      BY <1>1 DEF Next, vars, Tick, Enqueue, ResumePR, EnqueueActive, Dequeue, DequeueSuspended,
                  StatusEvent, Schedule, Pause, ResumeReset, ResumeUnpause, http
    <2>2. Stale(q) /\ q = p
      BY <1>1, <2>1 DEF Process, SkipPaused, ProcessPR, isFirstActive, Interrupted,
                        BranchUpdated, CannotBeMerged, Stale, NotStale, RunCI, CITriggered,
                        CIFails, Suspend, Worker, Goes, Idle, Invariant, TypeOK
    <2> QED
      BY <2>2 DEF Stale
  <1>3. /\ since[p] # Zero /\ since[p] > Timeout
        /\ since[p] \in Nat /\ changed[p] \in Nat /\ resumed[p] \in Nat /\ Recent(p)
    BY <1>2 DEF isPRStale, Invariant, TypeOK, SinceIsRecent
  <1> QED
    BY <1>3 DEF Recent

(* A PR is called stale only if no change was reported for the timeout. *)
THEOREM ChangedIsNotStale == Spec => StaleIsUnchanged
  <1>1. Invariant /\ [Next]_vars =>
          [\A p \in PR : DecidesStale(p) => changed[p] > Timeout]_vars
    BY StaleStep
  <1> QED
    BY <1>1, InvariantHolds, PTL DEF Spec, StaleIsUnchanged

(* The time that a queue was paused does not count. *)
THEOREM ResumedIsNotStale == Spec => PauseDoesNotCount
  <1>1. Invariant /\ [Next]_vars =>
          [\A p \in PR : DecidesStale(p) => resumed[p] + Latency > Timeout]_vars
    BY StaleStep
  <1> QED
    BY <1>1, InvariantHolds, PTL DEF Spec, PauseDoesNotCount

(* StaleIsJustified: both, with the other parts of an evaluation beside it. *)
THEOREM StalenessIsJustified == SafetySpec => StaleIsJustified
  <1>1. WorkerInit => Invariant
    BY InitInvariant DEF WorkerInit
  <1>2. [WorkerNext]_allVars => [Next]_vars
    BY DEF WorkerNext, allVars
  <1>3. Invariant /\ [Next]_vars => Invariant'
    BY StepInvariant
  <1>4. Invariant /\ [Next]_vars =>
          [\A p \in PR : DecidesStale(p) => changed[p] > Timeout]_vars
    BY StaleStep
  <1>5. Invariant /\ [Next]_vars =>
          [\A p \in PR : DecidesStale(p) => resumed[p] + Latency > Timeout]_vars
    BY StaleStep
  <1> QED
    BY <1>1, <1>2, <1>3, <1>4, <1>5, PTL
    DEF SafetySpec, StaleIsJustified, StaleIsUnchanged, PauseDoesNotCount

=============================================================================
