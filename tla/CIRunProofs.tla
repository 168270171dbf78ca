----------------------------- MODULE CIRunProofs -----------------------------
(***************************************************************************)
(* Theorems about CIRun, for any jobs and bounds.  Shape, Invariant and    *)
(* Budget are the inductive invariants.                                    *)
(***************************************************************************)
EXTENDS CIRun, SequenceTheorems, TLAPS

USE CIAssumption DEF Nil

Counted == {"started", "pending", "success", "failure"}

-----------------------------------------------------------------------------
(* How the builds change. *)

LEMMA OneBuildChanges ==
    ASSUME builds \in [Job -> Seq(Build)],
           NEW j \in Job, NEW n \in DOMAIN builds[j], NEW b \in Build,
           builds' = [builds EXCEPT ![j][n] = b]
    PROVE  /\ builds' \in [Job -> Seq(Build)]
           /\ \A k \in Job : DOMAIN builds'[k] = DOMAIN builds[k]
           /\ \A k \in Job : \A m \in DOMAIN builds[k] :
                 builds'[k][m] = IF k = j /\ m = n THEN b ELSE builds[k][m]
  <1> DEFINE s == [builds[j] EXCEPT ![n] = b]
  <1>1. builds' = [builds EXCEPT ![j] = s]
    OBVIOUS
  <1>2. builds[j] \in Seq(Build) /\ n \in 1..Len(builds[j])
    OBVIOUS
  <1>3. /\ s \in Seq(Build)
        /\ Len(s) = Len(builds[j])
        /\ \A m \in 1..Len(builds[j]) : s[m] = IF m = n THEN b ELSE builds[j][m]
    BY <1>2, ExceptSeq
  <1> HIDE DEF s
  <1>4. DOMAIN s = DOMAIN builds[j] /\ DOMAIN builds[j] = 1..Len(builds[j])
    BY <1>2, <1>3
  <1>5. builds' \in [Job -> Seq(Build)]
    BY <1>1, <1>3
  <1>6. \A k \in Job : builds'[k] = IF k = j THEN s ELSE builds[k]
    BY <1>1
  <1> QED
    BY <1>3, <1>4, <1>5, <1>6

LEMMA AcceptAdds ==
    ASSUME builds \in [Job -> Seq(Build)],
           NEW j \in Job, NEW n, Accept(j, n)
    PROVE  /\ builds' \in [Job -> Seq(Build)]
           /\ \A k \in Job : \A m \in DOMAIN builds[k] :
                 m \in DOMAIN builds'[k] /\ builds'[k][m] = builds[k][m]
           /\ n \in DOMAIN builds'[j]
           /\ builds'[j][n] = "queued"
  <1>1. CASE n \in InQueue(j) /\ UNCHANGED builds
    BY <1>1 DEF InQueue, InState
  <1>2. CASE n = Len(builds[j]) + 1 /\ builds' = [builds EXCEPT ![j] = Append(@, "queued")]
    <2> DEFINE s == Append(builds[j], "queued")
    <2>1. builds[j] \in Seq(Build) /\ "queued" \in Build
      BY DEF Build
    <2>2. /\ s \in Seq(Build)
          /\ Len(s) = Len(builds[j]) + 1
          /\ \A m \in 1..Len(builds[j]) : s[m] = builds[j][m]
          /\ s[Len(builds[j]) + 1] = "queued"
      BY <2>1, AppendProperties
    <2> HIDE DEF s
    <2>3. DOMAIN s = 1..(Len(builds[j]) + 1) /\ DOMAIN builds[j] = 1..Len(builds[j])
      BY <2>1, <2>2
    <2>4. Len(builds[j]) \in Nat
      BY <2>1
    <2>5. builds' = [builds EXCEPT ![j] = s]
      BY <1>2 DEF s
    <2>6. \A k \in Job : builds'[k] = IF k = j THEN s ELSE builds[k]
      BY <2>5
    <2>7. builds' \in [Job -> Seq(Build)]
      BY <2>2, <2>5
    <2>8. n \in DOMAIN s /\ \A m \in DOMAIN builds[j] : m \in DOMAIN s /\ s[m] = builds[j][m]
      BY <1>2, <2>2, <2>3, <2>4
    <2> QED
      BY <1>2, <2>2, <2>6, <2>7, <2>8
  <1> QED
    BY <1>1, <1>2 DEF Accept

LEMMA NewHeadKeepsItems ==
    ASSUME builds \in [Job -> Seq(Build)], NewHead
    PROVE  /\ builds' \in [Job -> Seq(Build)]
           /\ \A k \in Job : DOMAIN builds'[k] = DOMAIN builds[k]
  <1>1. ASSUME NEW k \in Job
        PROVE  builds'[k] \in Seq(Build) /\ DOMAIN builds'[k] = DOMAIN builds[k]
    <2>1. builds'[k] = [n \in DOMAIN builds[k] |->
                           IF builds[k][n] = "queued" THEN "queued" ELSE "past"]
      BY DEF NewHead
    <2>2. builds[k] \in Seq(Build) /\ DOMAIN builds[k] = 1..Len(builds[k])
          /\ Len(builds[k]) \in Nat
      OBVIOUS
    <2>3. builds'[k] \in [1..Len(builds[k]) -> Build]
      BY <2>1, <2>2 DEF Build
    <2> QED
      BY <2>1, <2>2, <2>3
  <1>2. builds' = [k \in Job |-> builds'[k]]
    BY DEF NewHead
  <1> QED
    BY <1>1, <1>2

(* Builds of the head stay builds of the head as long as the head does. *)
LEMMA HasBuildStays ==
    ASSUME NEW j \in Job, HasBuild(j),
           \A m \in DOMAIN builds[j] : builds[j][m] \in Counted =>
               m \in DOMAIN builds'[j] /\ builds'[j][m] \in Counted
    PROVE  HasBuild(j)'
  BY DEF HasBuild, InState, Counted

-----------------------------------------------------------------------------
(* Types and shapes. *)

LEMMA InitShape == Init => Shape
  <1> SUFFICES ASSUME Init PROVE Shape
    OBVIOUS
  <1>1. << >> \in Seq(Build)
    BY EmptySeq
  <1>2. builds \in [Job -> Seq(Build)]
    BY <1>1 DEF Init
  <1>3. Missing \in CIJobStatus /\ NotRunning \in JobRun
    BY DEF Missing, NotRunning, CIJobStatus, JobRun
  <1>4. ready \in [Job -> CIJobStatus] /\ run \in [Job -> JobRun]
    BY <1>3 DEF Init
  <1>5. TypeOK
    BY <1>2, <1>4 DEF Init, TypeOK, Commits
  <1>6. RoomForUpdate /\ ShownReported /\ FetchHasItem
    BY DEF Init, RoomForUpdate, ShownReported, FetchHasItem, NotRunning
  <1> QED
    BY <1>5, <1>6 DEF Shape

LEMMA StatusesType ==
    ASSUME TypeOK, ShownReported
    PROVE  Statuses \in [Job -> CIJobStatus]
  <1>1. ASSUME NEW j \in Job
        PROVE  Statuses[j] \in CIJobStatus
    <2>1. CASE shown[j] = Nil
      BY <2>1 DEF Statuses, Missing, CIJobStatus
    <2>2. CASE shown[j] # Nil
      <3>1. builds[j][shown[j]] \in {"pending", "success", "failure"} /\ shown[j] \in Nat
        BY <2>2 DEF TypeOK, ShownReported, InState
      <3> QED
        BY <2>2, <3>1 DEF Statuses, CIJobStatus
    <2> QED
      BY <2>1, <2>2
  <1> QED
    BY <1>1 DEF Statuses

LEMMA ReturnType ==
    ASSUME Return
    PROVE  /\ pc' = "idle"
           /\ ready' \in [Job -> CIJobStatus]
           /\ updated' \in Commits \cup {Nil}
           /\ run' \in [Job -> JobRun]
           /\ \A j \in Job : run'[j].step = "off"
  <1>1. Missing \in CIJobStatus /\ NotRunning \in JobRun
    BY DEF Missing, NotRunning, CIJobStatus, JobRun
  <1> QED
    BY <1>1 DEF Return, NotRunning

LEMMA FailedType == Failed \in JobRun /\ Failed.step = "failed"
  BY DEF Failed, JobRun

LEMMA SetbackType ==
    ASSUME TypeOK, Setback
    PROVE  setbacks' \in 0..MaxSetbacks
  BY DEF TypeOK, Setback

LEMMA NewHeadShape ==
    ASSUME Shape, NewHead, head < MaxCommit
    PROVE  /\ head' \in Commits
           /\ shown' \in [Job -> Nat]
           /\ builds' \in [Job -> Seq(Build)]
           /\ \A j \in Job : DOMAIN builds'[j] = DOMAIN builds[j]
           /\ ShownReported'
  <1>1. builds \in [Job -> Seq(Build)]
    BY DEF Shape, TypeOK
  <1>2. /\ builds' \in [Job -> Seq(Build)]
        /\ \A j \in Job : DOMAIN builds'[j] = DOMAIN builds[j]
    BY <1>1, NewHeadKeepsItems
  <1>3. head' \in Commits
    BY DEF NewHead, Shape, TypeOK, Commits
  <1>4. shown' \in [Job -> Nat] /\ ShownReported'
    BY DEF NewHead, ShownReported
  <1> QED
    BY <1>2, <1>3, <1>4

(* The steps of GitHub, Jenkins and the event loop. *)
LEMMA EnvironmentKeepsShape ==
    ASSUME Shape,
           \/ AuthorPush \/ BasePush
           \/ ResumeByEvent \/ ResumeIfPositive \/ Pause
           \/ \E j \in Job : StartBuild(j) \/ ReportPending(j) \/ ReportResult(j)
    PROVE  Shape'
  <1>1. TypeOK /\ RoomForUpdate /\ ShownReported /\ FetchHasItem
    BY DEF Shape
  <1>2. CASE AuthorPush
    <2>1. head < MaxCommit /\ (behind => head + 1 < MaxCommit)
      BY <1>1, <1>2 DEF AuthorPush, TypeOK, Commits
    <2>2. NewHead
      BY <1>2 DEF AuthorPush
    <2>3. /\ head' \in Commits
          /\ shown' \in [Job -> Nat]
          /\ builds' \in [Job -> Seq(Build)]
          /\ \A j \in Job : DOMAIN builds'[j] = DOMAIN builds[j]
          /\ ShownReported'
      BY <2>1, <2>2, NewHeadShape
    <2>4. TypeOK'
      BY <1>1, <1>2, <2>3 DEF AuthorPush, worker, fields, TypeOK
    <2>5. RoomForUpdate'
      BY <1>2, <2>1, <2>2 DEF AuthorPush, NewHead, RoomForUpdate
    <2>6. FetchHasItem'
      BY <1>1, <1>2, <2>3 DEF AuthorPush, worker, FetchHasItem
    <2> QED
      BY <2>3, <2>4, <2>5, <2>6 DEF Shape
  <1>3. CASE BasePush
    <2>1. TypeOK'
      BY <1>1, <1>3 DEF BasePush, worker, fields, TypeOK
    <2>2. RoomForUpdate' /\ ShownReported' /\ FetchHasItem'
      BY <1>1, <1>3 DEF BasePush, worker, RoomForUpdate, ShownReported, FetchHasItem, InState
    <2> QED
      BY <2>1, <2>2 DEF Shape
  <1>4. CASE ResumeByEvent \/ ResumeIfPositive
    <2>1. /\ pr' = "active" /\ setbacks' \in 0..MaxSetbacks
          /\ UNCHANGED <<head, behind, shown, builds, pc, ready, updated, run,
                         triggered, lastStarted>>
      BY <1>1, <1>4, SetbackType
         DEF ResumeByEvent, ResumeIfPositive, Resume, github, worker, fields
    <2>2. TypeOK'
      BY <1>1, <2>1 DEF TypeOK
    <2>3. RoomForUpdate' /\ ShownReported' /\ FetchHasItem'
      BY <1>1, <2>1 DEF RoomForUpdate, ShownReported, FetchHasItem, InState
    <2> QED
      BY <2>2, <2>3 DEF Shape
  <1>5. CASE Pause
    <2>1. /\ UNCHANGED <<head, behind, shown, builds, lastStarted>>
          /\ Cancel
          /\ pr' \in {"active", "suspended"}
          /\ triggered' \in Commits \cup {Nil}
          /\ setbacks' \in 0..MaxSetbacks
      BY <1>1, <1>5, SetbackType DEF Pause, github, fields, TypeOK
    <2>2. /\ pc' \in {"idle", "update", "run"}
          /\ ready' \in [Job -> CIJobStatus]
          /\ updated' \in Commits \cup {Nil}
          /\ run' \in [Job -> JobRun]
          /\ \A j \in Job : run'[j].step = "fetch" => run'[j] = run[j]
      <3>1. CASE Return
        BY <3>1, ReturnType
      <3>2. CASE /\ run' = [j \in Job |-> IF run[j].step \in {"build", "fetch"}
                                          THEN Failed ELSE run[j]]
                 /\ UNCHANGED <<pc, ready, updated>>
        <4>1. run' \in [Job -> JobRun]
              /\ \A j \in Job : run'[j].step = "fetch" => run'[j] = run[j]
          BY <1>1, <3>2, FailedType DEF TypeOK
        <4> QED
          BY <1>1, <3>2, <4>1 DEF TypeOK
      <3> QED
        BY <2>1, <3>1, <3>2 DEF Cancel
    <2>3. TypeOK'
      BY <1>1, <2>1, <2>2 DEF TypeOK
    <2>4. RoomForUpdate' /\ ShownReported'
      BY <1>1, <2>1 DEF RoomForUpdate, ShownReported, InState
    <2>5. FetchHasItem'
      BY <1>1, <2>1, <2>2 DEF FetchHasItem
    <2> QED
      BY <2>3, <2>4, <2>5 DEF Shape
  <1>6. ASSUME NEW j \in Job, StartBuild(j)
        PROVE  Shape'
    <2>1. PICK n \in InQueue(j) : builds' = [builds EXCEPT ![j][n] = "started"]
      BY <1>6 DEF StartBuild
    <2>2. n \in DOMAIN builds[j] /\ builds[j][n] = "queued" /\ "started" \in Build
      BY DEF InQueue, InState, Build
    <2>3. builds \in [Job -> Seq(Build)]
      BY <1>1 DEF TypeOK
    <2>4. /\ builds' \in [Job -> Seq(Build)]
          /\ \A k \in Job : DOMAIN builds'[k] = DOMAIN builds[k]
          /\ \A k \in Job : \A m \in DOMAIN builds[k] :
                builds'[k][m] = IF k = j /\ m = n THEN "started" ELSE builds[k][m]
      BY <2>1, <2>2, <2>3, OneBuildChanges
    <2>5. UNCHANGED <<pr, head, behind, shown, pc, ready, updated, run,
                      triggered, lastStarted, setbacks>>
      BY <1>6 DEF StartBuild, github, worker, fields
    <2>6. TypeOK'
      BY <1>1, <2>4, <2>5 DEF TypeOK
    <2>7. ShownReported'
      BY <1>1, <2>2, <2>4, <2>5 DEF ShownReported, InState
    <2>8. RoomForUpdate' /\ FetchHasItem'
      BY <1>1, <2>4, <2>5 DEF RoomForUpdate, FetchHasItem
    <2> QED
      BY <2>6, <2>7, <2>8 DEF Shape
  <1>7. ASSUME NEW j \in Job, NEW n \in InState(j, {"started", "pending"}),
               NEW state \in {"pending", "success", "failure"}, Report(j, n, state)
        PROVE  Shape'
    <2>1. builds' = [builds EXCEPT ![j][n] = state] /\ shown' = [shown EXCEPT ![j] = n]
      BY <1>7 DEF Report
    <2>2. n \in DOMAIN builds[j] /\ state \in Build
      BY DEF InState, Build
    <2>3. builds \in [Job -> Seq(Build)] /\ shown \in [Job -> Nat]
      BY <1>1 DEF TypeOK
    <2>4. /\ builds' \in [Job -> Seq(Build)]
          /\ \A k \in Job : DOMAIN builds'[k] = DOMAIN builds[k]
          /\ \A k \in Job : \A m \in DOMAIN builds[k] :
                builds'[k][m] = IF k = j /\ m = n THEN state ELSE builds[k][m]
      BY <2>1, <2>2, <2>3, OneBuildChanges
    <2>5. UNCHANGED <<pr, head, behind, pc, ready, updated, run,
                      triggered, lastStarted, setbacks>>
      BY <1>7 DEF Report, worker, fields
    <2>6. n \in Nat
      <3>1. builds[j] \in Seq(Build)
        BY <2>3
      <3> QED
        BY <2>2, <3>1
    <2>7. shown' \in [Job -> Nat] /\ \A k \in Job : shown'[k] = IF k = j THEN n ELSE shown[k]
      BY <2>1, <2>3, <2>6
    <2>8. TypeOK'
      BY <1>1, <2>4, <2>5, <2>7 DEF TypeOK
    <2>9. ShownReported'
      BY <1>1, <2>2, <2>4, <2>7 DEF ShownReported, InState
    <2>10. RoomForUpdate' /\ FetchHasItem'
      BY <1>1, <2>4, <2>5 DEF RoomForUpdate, FetchHasItem
    <2> QED
      BY <2>8, <2>9, <2>10 DEF Shape
  <1>8. ASSUME NEW j \in Job, ReportPending(j) \/ ReportResult(j)
        PROVE  Shape'
    BY <1>7, <1>8 DEF ReportPending, ReportResult, InState
  <1> QED
    BY <1>2, <1>3, <1>4, <1>5, <1>6, <1>8

(* The steps of the evaluation and of CI.Run() itself. *)
LEMMA EvaluationKeepsShape ==
    ASSUME Shape, ProcessPR \/ SuspendOtherwise
    PROVE  Shape'
  <1>1. TypeOK /\ RoomForUpdate /\ ShownReported /\ FetchHasItem
    BY DEF Shape
  <1>2. CASE FetchStatus
    <2>1. ready' \in [Job -> CIJobStatus]
      BY <1>1, <1>2, StatusesType DEF FetchStatus
    <2>2. TypeOK'
      BY <1>1, <1>2, <2>1 DEF FetchStatus, github, fields, TypeOK
    <2>3. RoomForUpdate' /\ ShownReported' /\ FetchHasItem'
      BY <1>1, <1>2 DEF FetchStatus, github, RoomForUpdate, ShownReported, FetchHasItem, InState
    <2> QED
      BY <2>2, <2>3 DEF Shape
  <1>3. CASE UpdateBranch
    <2>1. head < MaxCommit /\ NewHead /\ Return
      BY <1>1, <1>3 DEF UpdateBranch, RoomForUpdate
    <2>2. /\ head' \in Commits
          /\ shown' \in [Job -> Nat]
          /\ builds' \in [Job -> Seq(Build)]
          /\ ShownReported'
      BY <2>1, NewHeadShape
    <2>3. /\ pc' = "idle"
          /\ ready' \in [Job -> CIJobStatus]
          /\ updated' \in Commits \cup {Nil}
          /\ run' \in [Job -> JobRun]
          /\ \A j \in Job : run'[j].step = "off"
      BY <2>1, ReturnType
    <2>4. TypeOK'
      BY <1>1, <1>3, <2>2, <2>3 DEF UpdateBranch, fields, TypeOK
    <2>5. RoomForUpdate' /\ FetchHasItem'
      BY <1>3, <2>3 DEF UpdateBranch, RoomForUpdate, FetchHasItem
    <2> QED
      BY <2>2, <2>4, <2>5 DEF Shape
  <1>4. CASE NothingToDo \/ SuspendFailed \/ SuspendOtherwise
    <2>1. /\ Return
          /\ pr' \in {"active", "suspended"}
          /\ triggered' \in Commits \cup {Nil}
          /\ UNCHANGED <<head, behind, shown, builds, lastStarted, setbacks>>
      BY <1>1, <1>4
         DEF NothingToDo, SuspendFailed, SuspendOtherwise, Suspend, github, fields, TypeOK
    <2>2. /\ pc' = "idle"
          /\ ready' \in [Job -> CIJobStatus]
          /\ updated' \in Commits \cup {Nil}
          /\ run' \in [Job -> JobRun]
          /\ \A j \in Job : run'[j].step = "off"
      BY <2>1, ReturnType
    <2>3. TypeOK'
      BY <1>1, <2>1, <2>2 DEF TypeOK
    <2>4. RoomForUpdate' /\ ShownReported' /\ FetchHasItem'
      BY <1>1, <2>1, <2>2 DEF RoomForUpdate, ShownReported, FetchHasItem, InState
    <2> QED
      BY <2>3, <2>4 DEF Shape
  <1>5. CASE TriggerCI
    <2>1. /\ [step |-> "build", item |-> Nil] \in JobRun
          /\ NotRunning \in JobRun /\ Missing \in CIJobStatus
          /\ NotRunning.step = "off"
      BY DEF JobRun, NotRunning, Missing, CIJobStatus
    <2>2. /\ run' \in [Job -> JobRun]
          /\ ready' \in [Job -> CIJobStatus]
          /\ \A j \in Job : run'[j].step # "fetch"
      BY <1>5, <2>1 DEF TriggerCI
    <2>3. TypeOK'
      BY <1>1, <1>5, <2>2 DEF TriggerCI, github, fields, TypeOK
    <2>4. RoomForUpdate' /\ ShownReported' /\ FetchHasItem'
      BY <1>1, <1>5, <2>2 DEF TriggerCI, github, RoomForUpdate, ShownReported, FetchHasItem, InState
    <2> QED
      BY <2>3, <2>4 DEF Shape
  <1>6. CASE RunReturns
    <2>1. /\ pc' = "idle"
          /\ ready' \in [Job -> CIJobStatus]
          /\ updated' \in Commits \cup {Nil}
          /\ run' \in [Job -> JobRun]
          /\ \A j \in Job : run'[j].step = "off"
      BY <1>6, ReturnType DEF RunReturns
    <2>2. \A j \in Job : run[j].item \in Nat
      BY <1>1 DEF TypeOK, JobRun
    <2>3. lastStarted' \in [Job -> Nat] /\ triggered' \in Commits \cup {Nil}
      BY <1>1, <1>6, <2>2 DEF RunReturns, TypeOK
    <2>4. TypeOK'
      BY <1>1, <1>6, <2>1, <2>3 DEF RunReturns, github, TypeOK
    <2>5. RoomForUpdate' /\ ShownReported' /\ FetchHasItem'
      BY <1>1, <1>6, <2>1 DEF RunReturns, github, RoomForUpdate, ShownReported, FetchHasItem, InState
    <2> QED
      BY <2>4, <2>5 DEF Shape
  <1> QED
    BY <1>2, <1>3, <1>4, <1>5, <1>6 DEF ProcessPR

(* The steps of the go-routine for job j. *)
LEMMA JobKeepsShape ==
    ASSUME Shape, NEW j \in Job,
           \/ BuildAccepted(j) \/ BuildFetched(j) \/ ItemCancelled(j)
           \/ ResponseLost(j) \/ RequestFails(j)
    PROVE  Shape'
  <1>1. TypeOK /\ RoomForUpdate /\ ShownReported /\ FetchHasItem
    BY DEF Shape
  <1>2. builds \in [Job -> Seq(Build)] /\ run \in [Job -> JobRun]
    BY <1>1 DEF TypeOK
  <1>3. UNCHANGED <<pr, head, behind, shown, pc, ready, updated, triggered, lastStarted>>
    BY DEF BuildAccepted, BuildFetched, ItemCancelled, ResponseLost, RequestFails,
           github, fields
  <1>4. setbacks' \in 0..MaxSetbacks
    BY <1>1, SetbackType
       DEF BuildAccepted, BuildFetched, ItemCancelled, ResponseLost, RequestFails, TypeOK
  <1>5. /\ builds' \in [Job -> Seq(Build)]
        /\ \A k \in Job : \A m \in DOMAIN builds[k] :
              /\ m \in DOMAIN builds'[k]
              /\ builds[k][m] # "queued" => builds'[k][m] = builds[k][m]
    <2>1. CASE UNCHANGED builds
      BY <1>2, <2>1
    <2>2. ASSUME NEW n, Accept(j, n)
          PROVE  /\ builds' \in [Job -> Seq(Build)]
                 /\ \A k \in Job : \A m \in DOMAIN builds[k] :
                       /\ m \in DOMAIN builds'[k]
                       /\ builds[k][m] # "queued" => builds'[k][m] = builds[k][m]
      BY <1>2, <2>2, AcceptAdds
    <2>3. CASE ItemCancelled(j)
      <3>1. /\ run[j].item \in DOMAIN builds[j]
            /\ builds[j][run[j].item] = "queued"
            /\ builds' = [builds EXCEPT ![j][run[j].item] = "past"]
            /\ "past" \in Build
        BY <1>1, <2>3 DEF ItemCancelled, FetchHasItem, Build
      <3>2. /\ builds' \in [Job -> Seq(Build)]
            /\ \A k \in Job : DOMAIN builds'[k] = DOMAIN builds[k]
            /\ \A k \in Job : \A m \in DOMAIN builds[k] :
                  builds'[k][m] = IF k = j /\ m = run[j].item THEN "past" ELSE builds[k][m]
        BY <1>2, <3>1, OneBuildChanges
      <3> QED
        BY <3>1, <3>2
    <2> QED
      BY <2>1, <2>2, <2>3 DEF BuildAccepted, BuildFetched, ResponseLost, RequestFails
  <1>6. run' \in [Job -> JobRun] /\ FetchHasItem'
    <2>1. CASE UNCHANGED run
      BY <1>1, <1>2, <1>5, <2>1 DEF FetchHasItem
    <2>2. CASE run' = [run EXCEPT ![j] = Failed]
      <3>1. run' \in [Job -> JobRun]
            /\ \A k \in Job : run'[k] = IF k = j THEN Failed ELSE run[k]
        BY <1>2, <2>2, FailedType
      <3> QED
        BY <1>1, <1>5, <3>1, FailedType DEF FetchHasItem
    <2>3. CASE run' = [run EXCEPT ![j].step = "done"]
      <3> DEFINE r == [run[j] EXCEPT !.step = "done"]
      <3>1. run[j] \in JobRun
        BY <1>2
      <3>2. r \in JobRun /\ r.step = "done"
        BY <3>1 DEF JobRun
      <3>3. run' = [run EXCEPT ![j] = r]
        BY <2>3
      <3> HIDE DEF r
      <3>4. run' \in [Job -> JobRun]
            /\ \A k \in Job : run'[k] = IF k = j THEN r ELSE run[k]
        BY <1>2, <3>2, <3>3
      <3> QED
        BY <1>1, <1>5, <3>2, <3>4 DEF FetchHasItem
    <2>4. CASE BuildAccepted(j)
      <3>1. PICK n \in 1..(Len(builds[j]) + 1) :
                /\ Accept(j, n)
                /\ run' = [run EXCEPT ![j] = [step |-> "fetch", item |-> n]]
        BY <2>4 DEF BuildAccepted
      <3> DEFINE r == [step |-> "fetch", item |-> n]
      <3>2. r \in JobRun /\ r.item = n
        BY DEF JobRun
      <3>3. run' = [run EXCEPT ![j] = r]
        BY <3>1
      <3> HIDE DEF r
      <3>4. run' \in [Job -> JobRun]
            /\ \A k \in Job : run'[k] = IF k = j THEN r ELSE run[k]
        BY <1>2, <3>2, <3>3
      <3>5. n \in DOMAIN builds'[j]
        BY <1>2, <3>1, AcceptAdds
      <3> QED
        BY <1>1, <1>5, <3>2, <3>4, <3>5 DEF FetchHasItem
    <2> QED
      BY <2>1, <2>2, <2>3, <2>4
         DEF BuildFetched, ItemCancelled, ResponseLost, RequestFails
  <1>7. TypeOK'
    BY <1>1, <1>3, <1>4, <1>5, <1>6 DEF TypeOK
  <1>8. RoomForUpdate'
    BY <1>1, <1>3 DEF RoomForUpdate
  <1>9. ShownReported'
    BY <1>1, <1>3, <1>5 DEF ShownReported, InState
  <1> QED
    BY <1>6, <1>7, <1>8, <1>9 DEF Shape

LEMMA StepKeepsShape == Shape /\ [Next]_vars => Shape'
  <1> SUFFICES ASSUME Shape, [Next]_vars
               PROVE  Shape'
    OBVIOUS
  <1>1. CASE UNCHANGED vars
    BY <1>1 DEF vars, github, worker, fields, Shape, TypeOK, RoomForUpdate,
                ShownReported, FetchHasItem, InState
  <1>2. CASE Rest
    BY <1>1, <1>2 DEF Rest
  <1> QED
    BY <1>1, <1>2, EnvironmentKeepsShape, EvaluationKeepsShape, JobKeepsShape DEF Next

(* The types, for any jobs and any number of commits and setbacks, whether or not *)
(* anybody pushes during an evaluation.  The statuses that an evaluation reads    *)
(* and the items that it asks Jenkins for exist.                                  *)
THEOREM TypeCorrect == SafetySpec => []TypeOK
  <1>1. Shape => TypeOK
    BY DEF Shape
  <1> QED
    BY <1>1, InitShape, StepKeepsShape, PTL DEF SafetySpec

-----------------------------------------------------------------------------
(* What is recorded is true of the head, if nobody pushes during an evaluation. *)

Recorded == ReadyIsOfHead /\ RunIsOfHead /\ triggered <= head /\ HeadHasBuilds

LEMMA NewHeadKeepsRecorded ==
    ASSUME Invariant, NewHead, triggered' = triggered,
           \/ pc' = "idle"
           \/ pc' # "update" /\ UNCHANGED <<pc, updated, run>>
    PROVE  Recorded'
  <1>1. head \in Nat /\ triggered \in Nat /\ updated \in Nat /\ head' = head + 1
    BY DEF NewHead, Invariant, Shape, TypeOK, Commits
  <1>2. ReadyIsOfHead'
    BY DEF ReadyIsOfHead
  <1>3. triggered' <= head' /\ HeadHasBuilds'
    BY <1>1 DEF Invariant, HeadHasBuilds
  <1>4. RunIsOfHead'
    BY <1>1 DEF Invariant, RunIsOfHead
  <1> QED
    BY <1>2, <1>3, <1>4 DEF Recorded

(* The head stays, its builds too, and each go-routine gets on or fails. *)
LEMMA SameHeadKeepsRecorded ==
    ASSUME Invariant,
           UNCHANGED <<head, pc, ready, updated>>,
           triggered' \in {triggered, Nil},
           \A k \in Job : HasBuild(k) => HasBuild(k)',
           \A k \in Job :
              \/ run'[k].step \in {"build", "failed"}
              \/ run'[k].step \in {"off", "done"} /\ run'[k].step = run[k].step
              \/ run'[k].step = "done" /\ (pc = "run" /\ updated = head => HasBuild(k))
              \/ run'[k].step = "fetch" /\ run'[k].item \in InQueue(k)'
              \/ /\ run'[k].step = "fetch" /\ run'[k] = run[k]
                 /\ run[k].item \in InQueue(k) =>
                       run[k].item \in InQueue(k)' \/ HasBuild(k)'
    PROVE  Recorded'
  <1>1. ReadyIsOfHead'
    BY DEF Invariant, ReadyIsOfHead
  <1>2. head \in Nat \ {0}
    BY DEF Invariant, Shape, TypeOK, Commits
  <1>3. triggered' <= head' /\ HeadHasBuilds'
    BY <1>2 DEF Invariant, HeadHasBuilds
  <1>4. RunIsOfHead'
    BY DEF Invariant, RunIsOfHead
  <1> QED
    BY <1>1, <1>3, <1>4 DEF Recorded

(* An evaluation ends without a result. *)
LEMMA ReturnKeepsRecorded ==
    ASSUME Invariant, UNCHANGED <<head, builds>>, pc' = "idle",
           triggered' \in {triggered, Nil}
    PROVE  Recorded'
  <1>1. head \in Nat \ {0}
    BY DEF Invariant, Shape, TypeOK, Commits
  <1> QED
    BY <1>1 DEF Invariant, Recorded, ReadyIsOfHead, RunIsOfHead, HeadHasBuilds,
                HasBuild, InState

LEMMA EnvironmentKeepsRecorded ==
    ASSUME ~PushDuringEvaluation, Invariant,
           \/ AuthorPush \/ BasePush
           \/ ResumeByEvent \/ ResumeIfPositive \/ Pause
           \/ \E j \in Job : StartBuild(j) \/ ReportPending(j) \/ ReportResult(j)
    PROVE  Recorded'
  <1>1. builds \in [Job -> Seq(Build)] /\ run \in [Job -> JobRun]
    BY DEF Invariant, Shape, TypeOK
  <1>2. \A k \in Job : run[k].step \in {"off", "build", "fetch", "done", "failed"}
    BY <1>1 DEF JobRun
  <1>3. CASE AuthorPush
    BY <1>3, NewHeadKeepsRecorded DEF AuthorPush, worker, fields
  <1>4. CASE BasePush \/ ResumeByEvent \/ ResumeIfPositive
    <2>1. UNCHANGED <<head, builds, triggered, pc, ready, updated, run>>
      BY <1>4 DEF BasePush, ResumeByEvent, ResumeIfPositive, github, worker, fields
    <2> QED
      BY <1>2, <2>1, SameHeadKeepsRecorded DEF HasBuild, InQueue, InState
  <1>5. CASE Pause
    <2>1. UNCHANGED <<head, builds>> /\ triggered' \in {triggered, Nil} /\ Cancel
      BY <1>5 DEF Pause, github, fields
    <2>2. CASE Return
      BY <2>1, <2>2, ReturnKeepsRecorded DEF Return
    <2>3. CASE /\ run' = [j \in Job |-> IF run[j].step \in {"build", "fetch"}
                                        THEN Failed ELSE run[j]]
               /\ UNCHANGED <<pc, ready, updated>>
      <3>1. ASSUME NEW k \in Job
            PROVE  \/ run'[k].step = "failed"
                   \/ run'[k].step \in {"off", "done"} /\ run'[k] = run[k]
        <4>1. CASE run[k].step \in {"build", "fetch"}
          <5>1. run'[k] = Failed
            BY <2>3, <4>1
          <5> QED
            BY <5>1, FailedType
        <4>2. CASE run[k].step \notin {"build", "fetch"}
          <5>1. run'[k] = run[k]
            BY <2>3, <4>2
          <5> QED
            BY <1>2, <4>2, <5>1
        <4> QED
          BY <4>1, <4>2
      <3> QED
        BY <2>1, <2>3, <3>1, SameHeadKeepsRecorded DEF HasBuild, InState
    <2> QED
      BY <2>1, <2>2, <2>3 DEF Cancel
  <1>6. ASSUME NEW j \in Job, NEW n \in DOMAIN builds[j], NEW b \in Counted,
               builds' = [builds EXCEPT ![j][n] = b],
               UNCHANGED <<head, triggered, pc, ready, updated, run>>
        PROVE  Recorded'
    <2>1. b \in Build
      BY DEF Counted, Build
    <2>2. /\ \A k \in Job : DOMAIN builds'[k] = DOMAIN builds[k]
          /\ \A k \in Job : \A m \in DOMAIN builds[k] :
                builds'[k][m] = IF k = j /\ m = n THEN b ELSE builds[k][m]
      BY <1>1, <1>6, <2>1, OneBuildChanges
    <2>3. \A k \in Job : HasBuild(k) => HasBuild(k)'
      BY <2>2, HasBuildStays
    <2>4. ASSUME NEW k \in Job, run[k].item \in InQueue(k)
          PROVE  run[k].item \in InQueue(k)' \/ HasBuild(k)'
      BY <2>2, <2>4 DEF InQueue, InState, HasBuild, Counted
    <2>5. \A k \in Job : run'[k] = run[k]
      BY <1>6
    <2> QED
      BY <1>2, <1>6, <2>3, <2>4, <2>5, SameHeadKeepsRecorded
  <1>7. ASSUME NEW j \in Job, StartBuild(j)
        PROVE  Recorded'
    <2>1. PICK n \in InQueue(j) : builds' = [builds EXCEPT ![j][n] = "started"]
      BY <1>7 DEF StartBuild
    <2>2. n \in DOMAIN builds[j] /\ "started" \in Counted
      BY DEF InQueue, InState, Counted
    <2>3. UNCHANGED <<head, triggered, pc, ready, updated, run>>
      BY <1>7 DEF StartBuild, github, worker, fields
    <2> QED
      BY <1>6, <2>1, <2>2, <2>3
  <1>8. ASSUME NEW j \in Job, ReportPending(j) \/ ReportResult(j)
        PROVE  Recorded'
    <2>1. PICK n \in DOMAIN builds[j], state \in Counted : Report(j, n, state)
      BY <1>8 DEF ReportPending, ReportResult, InState, Counted
    <2>2. /\ builds' = [builds EXCEPT ![j][n] = state]
          /\ UNCHANGED <<head, triggered, pc, ready, updated, run>>
      BY <2>1 DEF Report, worker, fields
    <2> QED
      BY <1>6, <2>2
  <1> QED
    BY <1>3, <1>4, <1>5, <1>7, <1>8

LEMMA EvaluationKeepsRecorded ==
    ASSUME Invariant, ProcessPR \/ SuspendOtherwise
    PROVE  Recorded'
  <1>1. CASE FetchStatus
    <2>1. UNCHANGED <<head, builds, triggered>> /\ ready' = Statuses /\ pc' = "update"
      BY <1>1 DEF FetchStatus, github, fields
    <2>2. ASSUME NEW j \in Job
          PROVE  Statuses[j].state = "expected" \/ HasBuild(j)
      BY DEF Statuses, Missing, HasBuild, InState, Invariant, Shape, ShownReported
    <2>3. ReadyIsOfHead'
      BY <2>1, <2>2 DEF ReadyIsOfHead, HasBuild, InState
    <2> QED
      BY <2>1, <2>3 DEF Recorded, RunIsOfHead, Invariant, HeadHasBuilds, HasBuild, InState
  <1>2. CASE UpdateBranch
    BY <1>2, NewHeadKeepsRecorded DEF UpdateBranch, Return, fields
  <1>3. CASE NothingToDo \/ SuspendFailed \/ SuspendOtherwise
    BY <1>3, ReturnKeepsRecorded
       DEF NothingToDo, SuspendFailed, SuspendOtherwise, Suspend, Return, github, fields
  <1>4. CASE TriggerCI
    <2>1. /\ UNCHANGED <<head, builds, triggered>> /\ pc = "update" /\ pc' = "run"
          /\ updated' = head /\ head \in Nat \ {0}
      BY <1>4 DEF TriggerCI, UpToDate, github, fields, Invariant, Shape, TypeOK, Commits
    <2>2. ASSUME NEW j \in Job
          PROVE  \/ run'[j].step = "build"
                 \/ run'[j].step = "off" /\ HasBuild(j)
      BY <1>4, <2>1 DEF TriggerCI, Jobs, NotRunning, Invariant, ReadyIsOfHead
    <2>3. RunIsOfHead'
      BY <2>1, <2>2 DEF RunIsOfHead, HasBuild, InState
    <2> QED
      BY <2>1, <2>3 DEF Recorded, ReadyIsOfHead, Invariant, HeadHasBuilds, HasBuild, InState
  <1>5. CASE RunReturns
    <2>1. UNCHANGED <<head, builds>> /\ pc = "run" /\ pc' = "idle"
      BY <1>5 DEF RunReturns, Return, github
    <2>2. CASE \E j \in Job : run[j].step = "failed"
      BY <1>5, <2>1, <2>2, ReturnKeepsRecorded DEF RunReturns
    <2>3. CASE \A j \in Job : run[j].step # "failed"
      <3>1. triggered' = updated /\ \A j \in Job : run[j].step \in {"off", "done"}
        BY <1>5, <2>3 DEF RunReturns
      <3>2. updated \in 1..head /\ (updated = head => \A j \in Job : HasBuild(j))
        BY <2>1, <3>1 DEF Invariant, RunIsOfHead
      <3>3. head \in Nat
        BY DEF Invariant, Shape, TypeOK, Commits
      <3> QED
        BY <2>1, <3>1, <3>2, <3>3
           DEF Recorded, ReadyIsOfHead, RunIsOfHead, HeadHasBuilds, HasBuild, InState
    <2> QED
      BY <2>2, <2>3
  <1> QED
    BY <1>1, <1>2, <1>3, <1>4, <1>5 DEF ProcessPR

LEMMA JobKeepsRecorded ==
    ASSUME Invariant, NEW j \in Job,
           \/ BuildAccepted(j) \/ BuildFetched(j) \/ ItemCancelled(j)
           \/ ResponseLost(j) \/ RequestFails(j)
    PROVE  Recorded'
  <1>1. builds \in [Job -> Seq(Build)] /\ run \in [Job -> JobRun]
    BY DEF Invariant, Shape, TypeOK
  <1>2. \A k \in Job : run[k].step \in {"off", "build", "fetch", "done", "failed"}
    BY <1>1 DEF JobRun
  <1>3. UNCHANGED <<head, triggered, pc, ready, updated>> /\ pc = "run"
    BY DEF BuildAccepted, BuildFetched, ItemCancelled, ResponseLost, RequestFails,
           github, fields
  <1>4. \A k \in Job \ {j} : run'[k] = run[k]
    BY <1>1 DEF BuildAccepted, BuildFetched, ItemCancelled, ResponseLost, RequestFails
  (* Only the item of this go-routine may be cancelled. *)
  <1>5. ASSUME NEW k \in Job, NEW m \in DOMAIN builds[k]
        PROVE  /\ m \in DOMAIN builds'[k]
               /\ \/ builds'[k][m] = builds[k][m]
                  \/ k = j /\ builds[k][m] = "queued" /\ ItemCancelled(j)
    <2>1. CASE UNCHANGED builds
      BY <2>1
    <2>2. ASSUME NEW n, Accept(j, n)
          PROVE  m \in DOMAIN builds'[k] /\ builds'[k][m] = builds[k][m]
      BY <1>1, <2>2, AcceptAdds
    <2>3. CASE ItemCancelled(j)
      <3>1. /\ run[j].item \in DOMAIN builds[j]
            /\ builds[j][run[j].item] = "queued"
            /\ builds' = [builds EXCEPT ![j][run[j].item] = "past"]
            /\ "past" \in Build
        BY <2>3 DEF ItemCancelled, Invariant, Shape, FetchHasItem, Build
      <3>2. /\ DOMAIN builds'[k] = DOMAIN builds[k]
            /\ builds'[k][m] = IF k = j /\ m = run[j].item THEN "past" ELSE builds[k][m]
        BY <1>1, <3>1, OneBuildChanges
      <3> QED
        BY <2>3, <3>1, <3>2
    <2> QED
      BY <2>1, <2>2, <2>3 DEF BuildAccepted, BuildFetched, ResponseLost, RequestFails
  <1>6. \A k \in Job : HasBuild(k) => HasBuild(k)'
    BY <1>5, HasBuildStays DEF Counted
  <1>7. \A k \in Job \ {j} : run[k].item \in InQueue(k) => run[k].item \in InQueue(k)'
    BY <1>5 DEF InQueue, InState
  <1>8. CASE BuildAccepted(j)
    <2>1. PICK n \in 1..(Len(builds[j]) + 1) :
              Accept(j, n) /\ run' = [run EXCEPT ![j] = [step |-> "fetch", item |-> n]]
      BY <1>8 DEF BuildAccepted
    <2>2. n \in InQueue(j)'
      BY <1>1, <2>1, AcceptAdds DEF InQueue, InState
    <2>3. run'[j] = [step |-> "fetch", item |-> n]
      BY <1>1, <2>1
    <2> QED
      BY <1>2, <1>3, <1>4, <1>6, <1>7, <2>2, <2>3, SameHeadKeepsRecorded
  <1>9. CASE BuildFetched(j)
    <2>1. run'[j].step = "done" /\ run[j].step = "fetch" /\ run[j].item \notin InQueue(j)
      BY <1>1, <1>9 DEF BuildFetched, InQueue, InState
    <2>2. updated = head => HasBuild(j)
      BY <1>3, <2>1 DEF Invariant, RunIsOfHead
    <2> QED
      BY <1>2, <1>3, <1>4, <1>6, <1>7, <2>1, <2>2, SameHeadKeepsRecorded
  <1>10. CASE run' = [run EXCEPT ![j] = Failed]
    <2>1. run'[j].step = "failed"
      BY <1>1, <1>10, FailedType
    <2> QED
      BY <1>2, <1>3, <1>4, <1>6, <1>7, <2>1, SameHeadKeepsRecorded
  <1>11. CASE ResponseLost(j) /\ UNCHANGED run
    <2>1. run'[j].step = "build"
      BY <1>11 DEF ResponseLost
    <2> QED
      BY <1>2, <1>3, <1>4, <1>6, <1>7, <2>1, SameHeadKeepsRecorded
  <1> QED
    BY <1>8, <1>9, <1>10, <1>11 DEF ItemCancelled, ResponseLost, RequestFails

LEMMA StepKeepsInvariant ==
    ASSUME ~PushDuringEvaluation
    PROVE  Invariant /\ [Next]_vars => Invariant'
  <1> SUFFICES ASSUME Invariant, [Next]_vars
               PROVE  Invariant'
    OBVIOUS
  <1>1. Shape'
    BY StepKeepsShape DEF Invariant
  <1>2. Recorded'
    <2>1. CASE UNCHANGED vars
      BY <2>1 DEF vars, github, worker, fields, Invariant, Recorded, ReadyIsOfHead,
                  RunIsOfHead, HeadHasBuilds, HasBuild, InQueue, InState
    <2>2. CASE Rest
      BY <2>1, <2>2 DEF Rest
    <2> QED
      BY <2>1, <2>2, EnvironmentKeepsRecorded, EvaluationKeepsRecorded, JobKeepsRecorded
         DEF Next
  <1> QED
    BY <1>1, <1>2 DEF Invariant, Recorded

(* If nobody pushes between the two requests of an evaluation that read the     *)
(* status and the head commit, then each required job has a build of the head   *)
(* whenever CI is recorded as triggered for it: whatever the jobs, the order of *)
(* their steps, the number of commits and of setbacks.                          *)
THEOREM RecordedHeadHasBuilds ==
    ASSUME ~PushDuringEvaluation
    PROVE  SafetySpec => []HeadHasBuilds
  <1>1. Init => Invariant
    <2> SUFFICES ASSUME Init
                 PROVE  Invariant
      OBVIOUS
    <2>1. Shape
      BY InitShape
    <2>2. ReadyIsOfHead /\ RunIsOfHead /\ triggered <= head /\ HeadHasBuilds
      BY DEF Init, ReadyIsOfHead, RunIsOfHead, HeadHasBuilds
    <2> QED
      BY <2>1, <2>2 DEF Invariant
  <1>2. Invariant /\ [Next]_vars => Invariant'
    BY StepKeepsInvariant
  <1>3. Invariant => HeadHasBuilds
    BY DEF Invariant
  <1> QED
    BY <1>1, <1>2, <1>3, PTL DEF SafetySpec

-----------------------------------------------------------------------------
(* How many builds there are. *)

(* The lengths that the actions leave alone. *)
LEMMA SameLength ==
    ASSUME builds \in [Job -> Seq(Build)], builds' \in [Job -> Seq(Build)],
           NEW j \in Job, DOMAIN builds'[j] = DOMAIN builds[j]
    PROVE  Len(builds'[j]) = Len(builds[j])
  <1>1. builds[j] \in Seq(Build) /\ builds'[j] \in Seq(Build)
    OBVIOUS
  <1>2. Len(builds[j]) \in Nat /\ Len(builds'[j]) \in Nat /\ 1..Len(builds'[j]) = 1..Len(builds[j])
    BY <1>1, LenProperties
  <1> QED
    BY <1>2

LEMMA AcceptLength ==
    ASSUME builds \in [Job -> Seq(Build)], NEW j \in Job, NEW n, Accept(j, n), NEW k \in Job
    PROVE  Len(builds'[k]) = Len(builds[k]) \/ (k = j /\ Len(builds'[k]) = Len(builds[k]) + 1)
  <1>1. CASE UNCHANGED builds
    BY <1>1
  <1>2. CASE builds' = [builds EXCEPT ![j] = Append(@, "queued")]
    <2>1. builds[j] \in Seq(Build) /\ "queued" \in Build
      BY DEF Build
    <2>2. Len(Append(builds[j], "queued")) = Len(builds[j]) + 1
      BY <2>1, AppendProperties
    <2>3. builds'[k] = IF k = j THEN Append(builds[j], "queued") ELSE builds[k]
      BY <1>2
    <2> QED
      BY <2>2, <2>3
  <1> QED
    BY <1>1, <1>2 DEF Accept

(* What is counted are numbers. *)
LEMMA Numbers ==
    ASSUME TypeOK
    PROVE  /\ head \in Nat /\ setbacks \in Nat /\ setbacks + 1 \in Nat /\ head + 1 \in Nat
           /\ \A j \in Job : Len(builds[j]) \in Nat
           /\ \A j \in Job : run[j] \in JobRun
  <1>1. \A j \in Job : builds[j] \in Seq(Build) /\ run[j] \in JobRun
    BY DEF TypeOK
  <1> QED
    BY <1>1, LenProperties DEF TypeOK, Commits

LEMMA DueIs ==
    ASSUME NEW j
    PROVE  /\ Due(j) \in 0..2 /\ Due(j)' \in 0..2
           /\ ~Asks(j) => Due(j) \in 0..1 /\ (~RunsAgain => Due(j) = 0) /\ (RunsAgain => Due(j) = 1)
           /\ ~Asks(j)' => Due(j)' \in 0..1 /\ (~RunsAgain' => Due(j)' = 0) /\ (RunsAgain' => Due(j)' = 1)
           /\ Asks(j) => Due(j) \in 1..2 /\ (~RunsAgain => Due(j) = 1) /\ (RunsAgain => Due(j) = 2)
           /\ Asks(j)' => Due(j)' \in 1..2 /\ (~RunsAgain' => Due(j)' = 1) /\ (RunsAgain' => Due(j)' = 2)
  BY DEF Due

Suspensions == pr = "suspended" => pc # "update" /\ \A j \in Job : ~Asks(j)

(* The budget is kept if what is due grows by no more than the commits and setbacks do. *)
LEMMA BudgetIsKept ==
    ASSUME TypeOK, Budget, Suspensions',
           \A j \in Job : \/ /\ Len(builds'[j]) = Len(builds[j]) /\ Due(j)' <= Due(j)
                             /\ head' = head /\ setbacks' = setbacks
                          \/ /\ Len(builds'[j]) = Len(builds[j]) /\ Due(j)' <= Due(j) + 1
                             /\ \/ head' = head + 1 /\ setbacks' = setbacks
                                \/ head' = head /\ setbacks' = setbacks + 1
                          \/ /\ Len(builds'[j]) = Len(builds[j]) + 1 /\ Due(j)' + 1 <= Due(j)
                             /\ head' = head /\ setbacks' = setbacks
                          \/ /\ Len(builds'[j]) = Len(builds[j]) + 1 /\ Due(j)' <= Due(j)
                             /\ head' = head /\ setbacks' = setbacks + 1
    PROVE  Budget'
  <1>1. ASSUME NEW j \in Job
        PROVE  Len(builds'[j]) + Due(j)' <= head' + setbacks'
    <2>1. /\ Len(builds[j]) \in Nat /\ head \in Nat /\ setbacks \in Nat
          /\ Due(j) \in 0..2 /\ Due(j)' \in 0..2
          /\ Len(builds[j]) + Due(j) <= head + setbacks
      BY Numbers, DueIs DEF Budget
    <2> DEFINE d == Due(j)
               e == Due(j)'
               l == Len(builds[j])
               k == Len(builds'[j])
    <2>2. \/ k = l /\ e <= d /\ head' = head /\ setbacks' = setbacks
          \/ k = l /\ e <= d + 1 /\ head' = head + 1 /\ setbacks' = setbacks
          \/ k = l /\ e <= d + 1 /\ head' = head /\ setbacks' = setbacks + 1
          \/ k = l + 1 /\ e + 1 <= d /\ head' = head /\ setbacks' = setbacks
          \/ k = l + 1 /\ e <= d /\ head' = head /\ setbacks' = setbacks + 1
      OBVIOUS
    <2>3. l \in Nat /\ head \in Nat /\ setbacks \in Nat /\ d \in 0..2 /\ e \in 0..2 /\ l + d <= head + setbacks
      BY <2>1
    <2> HIDE DEF d, e, l, k
    <2>4. k + e <= head' + setbacks'
      BY <2>2, <2>3
    <2> QED
      BY <2>4 DEF d, e, l, k
  <1> QED
    BY <1>1 DEF Budget, Suspensions

LEMMA EnvironmentKeepsBudget ==
    ASSUME Shape, Shape', Budget,
           AuthorPush \/ BasePush \/ ResumeByEvent \/ ResumeIfPositive \/ Pause
    PROVE  Budget'
  <1>0. /\ TypeOK /\ TypeOK' /\ builds \in [Job -> Seq(Build)] /\ builds' \in [Job -> Seq(Build)]
        /\ run \in [Job -> JobRun]
    BY DEF Shape, TypeOK
  <1>1. CASE AuthorPush
    <2>1. \A j \in Job : Len(builds'[j]) = Len(builds[j])
      BY <1>0, <1>1, NewHeadKeepsItems, SameLength DEF AuthorPush
    <2>2. head' = head + 1 /\ UNCHANGED <<pr, pc, run, updated, triggered, setbacks>>
      BY <1>1 DEF AuthorPush, NewHead, worker, fields
    <2>3. Suspensions'
      BY <2>2 DEF Budget, Suspensions, Asks
    <2>4. \A j \in Job : Due(j)' <= Due(j) + 1
      <3>1. \A j \in Job : Asks(j)' <=> Asks(j)
        BY <2>2 DEF Asks
      <3> QED
        BY <3>1, DueIs
    <2> QED
      BY <1>0, <2>1, <2>2, <2>3, <2>4, BudgetIsKept
  <1>2. CASE BasePush
    <2>1. UNCHANGED <<pr, head, builds, pc, run, updated, triggered, setbacks>>
      BY <1>2 DEF BasePush, worker, fields
    <2>2. Suspensions'
      BY <2>1 DEF Budget, Suspensions, Asks
    <2>3. \A j \in Job : Due(j)' = Due(j)
      BY <2>1 DEF Due, Asks, RunsAgain
    <2>4. \A j \in Job : Due(j)' <= Due(j)
      BY <2>3, DueIs
    <2> QED
      BY <1>0, <2>1, <2>2, <2>4, BudgetIsKept
  <1>3. CASE ResumeByEvent \/ ResumeIfPositive
    <2>1. /\ pr = "suspended" /\ pr' = "active" /\ setbacks' = setbacks + 1
          /\ UNCHANGED <<head, builds, pc, run, updated, triggered>>
      BY <1>3 DEF ResumeByEvent, ResumeIfPositive, Resume, Setback, github, worker, fields
    <2>2. Suspensions'
      BY <2>1 DEF Suspensions
    <2>3. \A j \in Job : Due(j)' <= Due(j) + 1
      <3>1. \A j \in Job : Asks(j)' <=> Asks(j)
        BY <2>1 DEF Asks
      <3> QED
        BY <3>1, DueIs
    <2> QED
      BY <1>0, <2>1, <2>2, <2>3, BudgetIsKept
  <1>4. ASSUME Cancel
        PROVE  pc' # "update" /\ \A j \in Job : ~Asks(j)'
    <2>1. CASE pc # "run" /\ Return
      BY <2>1 DEF Return, Asks
    <2>2. CASE /\ pc = "run"
               /\ run' = [j \in Job |-> IF run[j].step \in {"build", "fetch"}
                                        THEN Failed ELSE run[j]]
               /\ UNCHANGED <<pc, ready, updated>>
      BY <2>2, FailedType DEF Asks
    <2> QED
      BY <1>4, <2>1, <2>2 DEF Cancel
  <1>5. CASE Pause
    <2>1. setbacks' = setbacks + 1 /\ UNCHANGED <<pr, head, builds>> /\ Cancel
      BY <1>5 DEF Pause, Setback, github
    <2>2. Suspensions' /\ \A j \in Job : ~Asks(j)'
      BY <1>4, <2>1 DEF Suspensions
    <2>3. \A j \in Job : Due(j)' <= Due(j) + 1
      BY <2>2, DueIs
    <2> QED
      BY <1>0, <2>1, <2>2, <2>3, BudgetIsKept
  <1> QED
    BY <1>1, <1>2, <1>3, <1>5

LEMMA EvaluationKeepsBudget ==
    ASSUME Shape, Shape', Budget,
           \/ FetchStatus \/ UpdateBranch \/ NothingToDo \/ SuspendFailed \/ SuspendOtherwise
           \/ TriggerCI \/ RunReturns
    PROVE  Budget'
  <1>0. /\ TypeOK /\ TypeOK' /\ builds \in [Job -> Seq(Build)] /\ builds' \in [Job -> Seq(Build)]
        /\ run \in [Job -> JobRun]
    BY DEF Shape, TypeOK
  <1>1. ASSUME Return
        PROVE  Suspensions' /\ \A j \in Job : ~Asks(j)'
    BY <1>1 DEF Return, Suspensions, Asks
  <1>2. CASE FetchStatus
    <2>1. /\ pr = "active" /\ pc = "idle" /\ pc' = "update"
          /\ UNCHANGED <<pr, head, builds, run, updated, triggered, setbacks>>
      BY <1>2 DEF FetchStatus, github, fields
    <2>2. Suspensions'
      BY <2>1 DEF Suspensions
    <2>3. \A j \in Job : Due(j)' = Due(j)
      BY <2>1 DEF Due, Asks, RunsAgain
    <2>4. \A j \in Job : Due(j)' <= Due(j)
      BY <2>3, DueIs
    <2> QED
      BY <1>0, <2>1, <2>2, <2>4, BudgetIsKept
  <1>3. CASE UpdateBranch
    <2>1. /\ \A j \in Job : Len(builds'[j]) = Len(builds[j])
          /\ head' = head + 1 /\ setbacks' = setbacks
          /\ Suspensions' /\ \A j \in Job : ~Asks(j)'
      BY <1>0, <1>1, <1>3, NewHeadKeepsItems, SameLength DEF UpdateBranch, NewHead
    <2>2. \A j \in Job : Due(j)' <= Due(j) + 1
      BY <2>1, DueIs
    <2> QED
      BY <1>0, <2>1, <2>2, BudgetIsKept
  <1>4. CASE NothingToDo
    <2>1. /\ UNCHANGED <<pr, head, builds, triggered, setbacks>>
          /\ pc = "update" /\ pc' = "idle"
          /\ Suspensions' /\ \A j \in Job : ~Asks(j)'
      BY <1>1, <1>4 DEF NothingToDo, UpToDate, Return, github, fields
    <2>2. RunsAgain' => RunsAgain
      BY <2>1 DEF RunsAgain
    <2>3. \A j \in Job : Due(j)' <= Due(j)
      BY <2>1, <2>2, DueIs
    <2> QED
      BY <1>0, <2>1, <2>3, BudgetIsKept
  <1>5. CASE SuspendFailed \/ SuspendOtherwise
    <2>1. /\ UNCHANGED <<head, builds, setbacks>> /\ pr' = "suspended"
          /\ Suspensions' /\ \A j \in Job : ~Asks(j)'
      BY <1>1, <1>5 DEF SuspendFailed, SuspendOtherwise, Suspend, github
    <2>2. ~RunsAgain'
      BY <2>1 DEF RunsAgain
    <2>3. \A j \in Job : Due(j)' <= Due(j)
      BY <2>1, <2>2, DueIs
    <2> QED
      BY <1>0, <2>1, <2>3, BudgetIsKept
  <1>6. CASE TriggerCI
    <2>1. /\ pc = "update" /\ pc' = "run" /\ head # triggered
          /\ updated' = head
          /\ \A j \in Job : run'[j].step # "failed"
          /\ UNCHANGED <<pr, head, builds, setbacks>>
      BY <1>6 DEF TriggerCI, UpToDate, ciTriggerNeeded, NotRunning, github
    <2>2. pr = "active"
      BY <1>0, <2>1 DEF Budget, TypeOK
    <2>3. Suspensions'
      BY <2>1, <2>2 DEF Suspensions
    <2>4. RunsAgain /\ ~RunsAgain'
      BY <2>1, <2>2 DEF RunsAgain
    <2>5. \A j \in Job : ~Asks(j)
      BY <2>1 DEF Asks
    <2>6. ASSUME NEW j \in Job
          PROVE  Due(j)' <= Due(j)
      <3>1. Due(j) = 1
        BY <2>4, <2>5, DueIs
      <3>2. CASE Asks(j)'
        BY <2>4, <3>1, <3>2, DueIs
      <3>3. CASE ~Asks(j)'
        BY <2>4, <3>1, <3>3, DueIs
      <3> QED
        BY <3>2, <3>3
    <2> QED
      BY <1>0, <2>1, <2>3, <2>6, BudgetIsKept
  <1>7. CASE RunReturns
    <2>1. /\ UNCHANGED <<pr, head, builds, setbacks>>
          /\ pc = "run" /\ pc' = "idle"
          /\ triggered' = IF \E j \in Job : run[j].step = "failed" THEN triggered ELSE updated
          /\ Suspensions' /\ \A j \in Job : ~Asks(j)'
      BY <1>1, <1>7 DEF RunReturns, Return, github
    <2>2. RunsAgain' => RunsAgain
      BY <2>1 DEF RunsAgain
    <2>3. \A j \in Job : Due(j)' <= Due(j)
      BY <2>1, <2>2, DueIs
    <2> QED
      BY <1>0, <2>1, <2>3, BudgetIsKept
  <1> QED
    BY <1>2, <1>3, <1>4, <1>5, <1>6, <1>7

LEMMA JobKeepsBudget ==
    ASSUME Shape, Shape', Budget, NEW j \in Job,
           \/ StartBuild(j) \/ ReportPending(j) \/ ReportResult(j)
           \/ BuildAccepted(j) \/ BuildFetched(j) \/ ItemCancelled(j)
           \/ ResponseLost(j) \/ RequestFails(j)
    PROVE  Budget'
  <1>0. /\ TypeOK /\ TypeOK' /\ builds \in [Job -> Seq(Build)] /\ builds' \in [Job -> Seq(Build)]
        /\ run \in [Job -> JobRun] /\ run[j] \in JobRun
    BY DEF Shape, TypeOK
  <1>1. ASSUME NEW n \in DOMAIN builds[j], NEW b \in Build, builds' = [builds EXCEPT ![j][n] = b]
        PROVE  \A k \in Job : Len(builds'[k]) = Len(builds[k])
    BY <1>0, <1>1, OneBuildChanges, SameLength
  <1>2. CASE StartBuild(j) \/ ReportPending(j) \/ ReportResult(j)
    <2>1. \E n \in DOMAIN builds[j], b \in Build : builds' = [builds EXCEPT ![j][n] = b]
      BY <1>2 DEF StartBuild, ReportPending, ReportResult, Report, InQueue, InState, Build
    <2>2. UNCHANGED <<pr, head, pc, run, updated, triggered, setbacks>>
      BY <1>2 DEF StartBuild, ReportPending, ReportResult, Report, github, worker, fields
    <2>3. Suspensions'
      BY <2>2 DEF Budget, Suspensions, Asks
    <2>4. \A k \in Job : Due(k)' = Due(k)
      BY <2>2 DEF Due, Asks, RunsAgain
    <2>5. \A k \in Job : Due(k)' <= Due(k)
      BY <2>4, DueIs
    <2> QED
      BY <1>0, <1>1, <2>1, <2>2, <2>3, <2>5, BudgetIsKept
  <1>3. CASE BuildAccepted(j)
    <2>1. PICK n : /\ Accept(j, n)
                   /\ run' = [run EXCEPT ![j] = [step |-> "fetch", item |-> n]]
      BY <1>3 DEF BuildAccepted
    <2>2. /\ pc = "run" /\ run[j].step = "build"
          /\ UNCHANGED <<pr, head, pc, updated, triggered, setbacks>>
      BY <1>3 DEF BuildAccepted, github, fields
    <2>3. /\ run'[j].step = "fetch" /\ \A k \in Job \ {j} : run'[k] = run[k]
      BY <1>0, <2>1
    <2>4. /\ Asks(j) /\ ~Asks(j)' /\ \A k \in Job \ {j} : Asks(k)' <=> Asks(k)
      BY <2>2, <2>3 DEF Asks
    <2>5. RunsAgain' <=> RunsAgain
      BY <2>2, <2>3 DEF RunsAgain
    <2>6. Suspensions'
      BY <2>2, <2>4 DEF Budget, Suspensions
    <2>7. Due(j)' + 1 <= Due(j) /\ Due(j)' <= Due(j)
      <3>1. CASE RunsAgain
        BY <2>4, <2>5, <3>1, DueIs
      <3>2. CASE ~RunsAgain
        BY <2>4, <2>5, <3>2, DueIs
      <3> QED
        BY <3>1, <3>2
    <2>8. \A k \in Job \ {j} : Due(k)' = Due(k)
      BY <2>4, <2>5 DEF Due
    <2>9. \A k \in Job \ {j} : Due(k)' <= Due(k)
      BY <2>8, DueIs
    <2>10. \A k \in Job : \/ Len(builds'[k]) = Len(builds[k])
                          \/ k = j /\ Len(builds'[k]) = Len(builds[k]) + 1
      BY <1>0, <2>1, AcceptLength
    <2> QED
      BY <1>0, <2>2, <2>6, <2>7, <2>9, <2>10, BudgetIsKept
  <1>4. CASE BuildFetched(j)
    <2>1. /\ run' = [run EXCEPT ![j].step = "done"] /\ run[j].step = "fetch"
          /\ UNCHANGED <<pr, head, builds, pc, updated, triggered, setbacks>>
      BY <1>4 DEF BuildFetched, github, fields
    <2>2. run'[j].step = "done" /\ \A k \in Job \ {j} : run'[k] = run[k]
      BY <1>0, <2>1 DEF JobRun
    <2>3. \A k \in Job : Asks(k)' <=> Asks(k)
      BY <2>1, <2>2 DEF Asks
    <2>4. RunsAgain' <=> RunsAgain
      BY <2>1, <2>2 DEF RunsAgain
    <2>5. Suspensions'
      BY <2>1, <2>3 DEF Budget, Suspensions
    <2>6. \A k \in Job : Due(k)' = Due(k)
      BY <2>3, <2>4 DEF Due
    <2>7. \A k \in Job : Due(k)' <= Due(k)
      BY <2>6, DueIs
    <2> QED
      BY <1>0, <2>1, <2>5, <2>7, BudgetIsKept
  <1>5. CASE ItemCancelled(j) \/ RequestFails(j)
    <2>1. /\ run' = [run EXCEPT ![j] = Failed]
          /\ setbacks' = setbacks + 1
          /\ UNCHANGED <<pr, head, pc, updated, triggered>>
      BY <1>5 DEF ItemCancelled, RequestFails, Setback, github, fields
    <2>2. \A k \in Job : Len(builds'[k]) = Len(builds[k])
      <3>1. CASE ItemCancelled(j)
        <4>1. /\ builds' = [builds EXCEPT ![j][run[j].item] = "past"] /\ "past" \in Build
              /\ run[j].step = "fetch"
          BY <3>1 DEF ItemCancelled, Build
        <4>2. run[j].item \in DOMAIN builds[j]
          BY <4>1 DEF Shape, FetchHasItem
        <4> QED
          BY <1>1, <4>1, <4>2
      <3>2. CASE RequestFails(j)
        BY <3>2 DEF RequestFails
      <3> QED
        BY <1>5, <3>1, <3>2
    <2>3. run'[j].step = "failed" /\ \A k \in Job \ {j} : run'[k] = run[k]
      BY <1>0, <2>1, FailedType
    <2>4. \A k \in Job : Asks(k)' => Asks(k)
      BY <2>1, <2>3 DEF Asks
    <2>5. Suspensions'
      BY <2>1, <2>4 DEF Budget, Suspensions
    <2>6. ASSUME NEW k \in Job
          PROVE  Due(k)' <= Due(k) + 1
      <3>1. CASE Asks(k)
        BY <3>1, DueIs
      <3>2. CASE ~Asks(k)
        BY <2>4, <3>2, DueIs
      <3> QED
        BY <3>1, <3>2
    <2> QED
      BY <1>0, <2>1, <2>2, <2>5, <2>6, BudgetIsKept
  <1>6. CASE ResponseLost(j)
    <2>1. /\ pc = "run" /\ run[j].step = "build"
          /\ UNCHANGED run \/ run' = [run EXCEPT ![j] = Failed]
          /\ setbacks' = setbacks + 1
          /\ UNCHANGED <<pr, head, pc, updated, triggered>>
      BY <1>6 DEF ResponseLost, Setback, github, fields
    <2>2. \A k \in Job : \/ Len(builds'[k]) = Len(builds[k])
                         \/ k = j /\ Len(builds'[k]) = Len(builds[k]) + 1
      BY <1>0, <1>6, AcceptLength DEF ResponseLost
    <2>3. Asks(j)
      BY <2>1 DEF Asks
    <2>4. CASE UNCHANGED run
      <3>1. Suspensions'
        BY <2>1, <2>4 DEF Budget, Suspensions, Asks
      <3>2. \A k \in Job : Due(k)' = Due(k)
        BY <2>1, <2>4 DEF Due, Asks, RunsAgain
      <3>3. \A k \in Job : Due(k)' <= Due(k) /\ Due(k)' <= Due(k) + 1
        BY <3>2, DueIs
      <3> QED
        BY <1>0, <2>1, <2>2, <3>1, <3>3, BudgetIsKept
    <2>5. CASE run' = [run EXCEPT ![j] = Failed]
      <3>1. run'[j].step = "failed" /\ \A k \in Job \ {j} : run'[k] = run[k]
        BY <1>0, <2>5, FailedType
      <3>2. ~Asks(j)' /\ \A k \in Job : Asks(k)' => Asks(k)
        BY <2>1, <3>1 DEF Asks
      <3>3. Suspensions'
        BY <2>1, <3>2 DEF Budget, Suspensions
      <3>4. ASSUME NEW k \in Job
            PROVE  Due(k)' <= Due(k) + 1
        <4>1. CASE Asks(k)
          BY <4>1, DueIs
        <4>2. CASE ~Asks(k)
          BY <3>2, <4>2, DueIs
        <4> QED
          BY <4>1, <4>2
      <3>5. Due(j)' <= Due(j)
        <4>1. Due(j)' \in 0..1 /\ Due(j) \in 1..2
          BY <2>3, <3>2, DueIs
        <4> QED
          BY <4>1
      <3> QED
        BY <1>0, <2>1, <2>2, <3>3, <3>4, <3>5, BudgetIsKept
    <2> QED
      BY <2>1, <2>4, <2>5
  <1> QED
    BY <1>2, <1>3, <1>4, <1>5, <1>6

LEMMA StepKeepsBudget == Shape /\ Budget /\ [Next]_vars => Budget'
  <1> SUFFICES ASSUME Shape, Budget, [Next]_vars
               PROVE  Budget'
    OBVIOUS
  <1>1. Shape'
    BY StepKeepsShape
  <1>2. CASE UNCHANGED vars
    BY <1>2 DEF vars, github, worker, fields, Budget, Due, Asks, RunsAgain
  <1>3. CASE Rest
    BY <1>2, <1>3 DEF Rest
  <1> QED
    BY <1>1, <1>2, <1>3, EnvironmentKeepsBudget, EvaluationKeepsBudget, JobKeepsBudget
       DEF Next, ProcessPR

(* A job is started at most once per commit and setback, for any jobs, commits, *)
(* setbacks and pushes: also if users push during an evaluation, and however    *)
(* builds, statuses, failed requests, pauses and resumptions interleave.        *)
THEOREM BuildsArePaidFor == SafetySpec => []OncePerCommit
  <1>1. Init => Shape /\ Budget
    <2> SUFFICES ASSUME Init PROVE Shape /\ Budget
      OBVIOUS
    <2>1. Shape
      BY InitShape
    <2>2. \A j \in Job : Len(builds[j]) = 0 /\ ~Asks(j)
      BY EmptySeq DEF Init, Asks
    <2>3. ASSUME NEW j \in Job
          PROVE  Len(builds[j]) + Due(j) <= head + setbacks
      <3>1. Due(j) \in 0..1 /\ head = 1 /\ setbacks = 0
        BY <2>2, DueIs DEF Init
      <3> QED
        BY <2>2, <3>1
    <2>4. Budget
      BY <2>2, <2>3 DEF Budget, Init
    <2> QED
      BY <2>1, <2>4
  <1>2. Shape /\ Budget /\ [Next]_vars => Shape' /\ Budget'
    BY StepKeepsShape, StepKeepsBudget
  <1>3. Shape /\ Budget => OncePerCommit
    <2> SUFFICES ASSUME Shape, Budget, NEW j \in Job
                 PROVE  Len(builds[j]) <= head + setbacks
      BY DEF OncePerCommit
    <2>1. Len(builds[j]) \in Nat /\ head \in Nat /\ setbacks \in Nat /\ Due(j) \in 0..2
      BY Numbers, DueIs DEF Shape
    <2>2. Len(builds[j]) + Due(j) <= head + setbacks
      BY DEF Budget
    <2> QED
      BY <2>1, <2>2
  <1> QED
    BY <1>1, <1>2, <1>3, PTL DEF SafetySpec

=============================================================================
