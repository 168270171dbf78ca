-------------------------- MODULE HeadReportingProofs --------------------------
(***************************************************************************)
(* Theorems about HeadReporting, for any PRs, commits and setbacks.  The   *)
(* inductive invariants are LabelInvariant, StatusInvariant and, with the  *)
(* latter, LeftInvariant.                                                  *)
(***************************************************************************)
EXTENDS HeadReporting, SequenceTheorems, TLAPS

USE ReportingAssumption

-----------------------------------------------------------------------------
(* Steps. *)

(* Steps that do not name a commit. *)
Unnamed == {s \in FormedStep : s.commit = None}

LEMMA StepKinds ==
    ASSUME NEW p \in PR
    PROVE  /\ CancelAction(p) \in Unnamed
           /\ \A bg \in BOOLEAN : AddLabel(p, bg) \in Unnamed
           /\ RemoveLabel(p) \in Unnamed
           /\ Pending(p) \in Unnamed
           /\ \A c \in Commit : Success(p, c) \in FormedStep
  BY DEF CancelAction, AddLabel, RemoveLabel, Pending, Success, Unnamed, FormedStep, Step,
         OnStatus

LEMMA Sequences ==
    ASSUME NEW S, NEW s \in Seq(S), NEW t \in Seq(S)
    PROVE  s \o t \in Seq(S)
  BY ConcatProperties

LEMMA ShortSequences ==
    ASSUME NEW S, NEW x \in S, NEW y \in S
    PROVE  << >> \in Seq(S) /\ <<x>> \in Seq(S) /\ <<x, y>> \in Seq(S)
  OBVIOUS

LEMMA AfterDequeueSteps ==
    ASSUME NEW p \in PR, NEW pending \in BOOLEAN, NEW n \in PR \cup {None}
    PROVE  AfterDequeue(p, pending, n) \in Seq(Unnamed)
  <1> DEFINE s == <<CancelAction(p), RemoveLabel(p)>>
             t == IF pending THEN <<Pending(p)>> ELSE << >>
             u == IF n \notin {first, None} THEN <<AddLabel(n, TRUE)>> ELSE << >>
  <1>1. s \in Seq(Unnamed)
    <2>1. CancelAction(p) \in Unnamed /\ RemoveLabel(p) \in Unnamed
      BY StepKinds
    <2> QED
      BY <2>1, ShortSequences, Zenon
  <1>2. t \in Seq(Unnamed)
    <2>1. Pending(p) \in Unnamed
      BY StepKinds
    <2>2. <<Pending(p)>> \in Seq(Unnamed) /\ << >> \in Seq(Unnamed)
      BY <2>1, ShortSequences, Zenon
    <2> QED
      BY <2>2
  <1>3. u \in Seq(Unnamed)
    <2>1. CASE n \notin {first, None}
      <3>1. AddLabel(n, TRUE) \in Unnamed
        BY <2>1, StepKinds
      <3>2. <<AddLabel(n, TRUE)>> \in Seq(Unnamed)
        BY <3>1, ShortSequences, Zenon
      <3> QED
        BY <2>1, <3>2
    <2>2. CASE n \in {first, None}
      BY <2>2
    <2> QED
      BY <2>1, <2>2
  <1>4. AfterDequeue(p, pending, n) = s \o t \o u
    BY DEF AfterDequeue
  <1> HIDE DEF s, t, u
  <1>5. s \o t \in Seq(Unnamed)
    BY <1>1, <1>2, Sequences
  <1> QED
    BY <1>3, <1>4, <1>5, Sequences

LEMMA Subsequences == Seq(Unnamed) \subseteq Seq(FormedStep) /\ Seq(FormedStep) \subseteq Seq(Step)
  BY DEF Unnamed, FormedStep

(* How todo changes. *)
LEMMA DropSteps ==
    ASSUME NEW S, NEW a \in Actor, todo \in [Actor -> Seq(S)], todo[a] # << >>, Drop(a)
    PROVE  /\ todo' \in [Actor -> Seq(S)]
           /\ \A b \in Actor \ {a} : todo'[b] = todo[b]
           /\ \A i \in DOMAIN todo'[a] : /\ i + 1 \in DOMAIN todo[a]
                                         /\ todo'[a][i] = todo[a][i + 1]
  <1>1. todo[a] \in Seq(S) /\ Tail(todo[a]) \in Seq(S)
    OBVIOUS
  <1>2. todo' = [todo EXCEPT ![a] = Tail(todo[a])]
    BY DEF Drop
  <1>3. Len(todo[a]) \in Nat \ {0} /\ DOMAIN todo[a] = 1..Len(todo[a])
    BY <1>1, EmptySeq
  <1>4. \A i \in DOMAIN Tail(todo[a]) : /\ i + 1 \in DOMAIN todo[a]
                                        /\ Tail(todo[a])[i] = todo[a][i + 1]
    BY <1>1, <1>3
  <1> QED
    BY <1>1, <1>2, <1>4

LEMMA CommitChanges ==
    ASSUME todo \in [Actor -> Seq(Step)], NEW a \in Actor, todo[a] # << >>,
           NEW c \in Commit \cup {None},
           todo' = [todo EXCEPT ![a][1].commit = c]
    PROVE  /\ \A b \in Actor \ {a} : todo'[b] = todo[b]
           /\ todo'[a] # << >>
           /\ DOMAIN todo'[a] = DOMAIN todo[a]
           /\ Head(todo[a]) = todo[a][1] /\ Head(todo[a]) \in Step
           /\ Head(todo'[a]) = [Head(todo[a]) EXCEPT !.commit = c]
           /\ todo'[a] = [todo[a] EXCEPT ![1] = Head(todo'[a])]
           /\ todo' \in [Actor -> Seq(Step)]
  <1> DEFINE h == [todo[a][1] EXCEPT !.commit = c]
             s == [todo[a] EXCEPT ![1] = h]
  <1>1. todo[a] \in Seq(Step) /\ Len(todo[a]) \in Nat \ {0} /\ 1 \in 1..Len(todo[a])
    BY EmptySeq
  <1>2. Head(todo[a]) = todo[a][1] /\ todo[a][1] \in Step
    BY <1>1
  <1>3. h \in Step
    BY <1>2 DEF Step
  <1>4. todo' = [todo EXCEPT ![a] = s]
    OBVIOUS
  <1>5. h = [Head(todo[a]) EXCEPT !.commit = c]
    BY <1>2
  <1> HIDE DEF h
  <1>6. /\ s \in Seq(Step)
        /\ Len(s) = Len(todo[a])
        /\ \A i \in 1..Len(todo[a]) : s[i] = IF i = 1 THEN h ELSE todo[a][i]
    BY <1>1, <1>3, ExceptSeq
  <1>7. DOMAIN s = DOMAIN todo[a] /\ s[1] = h /\ s # << >> /\ Head(s) = h
    BY <1>1, <1>6
  <1>8. s = [todo[a] EXCEPT ![1] = h]
    OBVIOUS
  <1> HIDE DEF s
  <1>9. /\ todo'[a] = s
        /\ \A b \in Actor \ {a} : todo'[b] = todo[b]
        /\ todo' \in [Actor -> Seq(Step)]
    BY <1>4, <1>6
  <1> QED
    BY <1>2, <1>5, <1>7, <1>8, <1>9

-----------------------------------------------------------------------------
(* Types and shapes. *)

LEMMA InitShape == Init => Shape
  <1> SUFFICES ASSUME Init PROVE Shape
    OBVIOUS
  <1>1. \A S : << >> \in Seq(S)
    BY EmptySeq
  <1>2. TypeOK
    BY <1>1 DEF Init, TypeOK, WorkerIdle, NeverReported, Actor
  <1>3. StepsAreFormed
    BY <1>1 DEF Init, StepsAreFormed
  <1> QED
    BY <1>2, <1>3 DEF Init, Shape, RequestsAreFormed, WorkerState, Exclusive, WorkerIdle, Actor

(* What go-routine a has to do is new, or changes while it has no request. *)
LEMMA NewSteps ==
    ASSUME Shape, NEW a \in Actor, todo[a] = << >>, NEW s \in Seq(FormedStep),
           todo' = [todo EXCEPT ![a] = s], UNCHANGED request
    PROVE  /\ todo' \in [Actor -> Seq(Step)]
           /\ request[a] = "none"
           /\ StepsAreFormed'
           /\ RequestsAreFormed'
           /\ Exclusive'
  <1>1. s \in Seq(Step)
    BY Subsequences
  <1>2. request[a] = "none"
    BY DEF Shape, RequestsAreFormed
  <1>3. \A b \in Actor : todo'[b] = IF b = a THEN s ELSE todo[b]
    BY DEF Shape, TypeOK
  <1>4. todo' \in [Actor -> Seq(Step)]
    BY <1>1 DEF Shape, TypeOK
  <1> QED
    BY <1>2, <1>3, <1>4 DEF Shape, StepsAreFormed, RequestsAreFormed, Exclusive

(* The first step of go-routine a is done, or nothing is sent for it. *)
LEMMA StepDone ==
    ASSUME Shape, NEW a \in Actor, todo[a] # << >>, Drop(a)
    PROVE  /\ todo' \in [Actor -> Seq(Step)]
           /\ request' \in [Actor -> {"none", "lookup", "sent", "executed"}]
           /\ StepsAreFormed'
           /\ RequestsAreFormed'
           /\ Exclusive'
           /\ \A b \in Actor : request'[b] # "none" =>
                 request[b] = request'[b] /\ todo'[b] = todo[b]
  <1>1. /\ todo' \in [Actor -> Seq(Step)]
        /\ \A b \in Actor \ {a} : todo'[b] = todo[b]
    BY DropSteps DEF Shape, TypeOK
  <1>2. todo \in [Actor -> Seq(FormedStep)]
    BY DEF Shape, TypeOK, StepsAreFormed
  <1>3. todo' \in [Actor -> Seq(FormedStep)]
    BY <1>2, DropSteps
  <1>4. \A b \in Actor : request'[b] = IF b = a THEN "none" ELSE request[b]
    BY DEF Drop, Shape, TypeOK
  <1>5. request' \in [Actor -> {"none", "lookup", "sent", "executed"}]
    BY DEF Drop, Shape, TypeOK
  <1> QED
    BY <1>1, <1>3, <1>4, <1>5 DEF Shape, StepsAreFormed, RequestsAreFormed, Exclusive

(* The request for the first step of go-routine a advances; only the commit that *)
(* the step names may change.                                                    *)
LEMMA RequestAdvances ==
    ASSUME Shape, NEW a \in Actor, NEW r \in {"lookup", "sent", "executed"},
           todo[a] # << >>,
           \/ request[a] # "none"
           \/ NextRequest(a),
           request' = [request EXCEPT ![a] = r],
           NEW c \in Commit \cup {None},
           \/ UNCHANGED todo /\ c = Head(todo[a]).commit
           \/ Head(todo[a]).state = "pending" /\ todo' = [todo EXCEPT ![a][1].commit = c],
           r = "lookup" => Head(todo[a]).state = "pending",
           r # "lookup" /\ OnStatus(Head(todo[a])) => c # None
    PROVE  /\ todo' \in [Actor -> Seq(Step)]
           /\ request' \in [Actor -> {"none", "lookup", "sent", "executed"}]
           /\ StepsAreFormed'
           /\ RequestsAreFormed'
           /\ Exclusive'
           /\ \A b \in Actor \ {a} : request'[b] = request[b] /\ todo'[b] = todo[b]
           /\ Head(todo[a]) \in FormedStep
           /\ Head(todo'[a]) = [Head(todo[a]) EXCEPT !.commit = c]
           /\ todo'[a] # << >>
           /\ request'[a] = r
  <1> DEFINE h == [Head(todo[a]) EXCEPT !.commit = c]
  <1>1. Head(todo[a]) \in FormedStep /\ Head(todo[a]) \in Step
    <2>1. todo[a] \in Seq(FormedStep) /\ todo[a] # << >>
      BY DEF Shape, StepsAreFormed
    <2> QED
      BY <2>1 DEF FormedStep
  <1>2. /\ Head(todo'[a]) = h
        /\ todo' \in [Actor -> Seq(Step)]
        /\ \A b \in Actor \ {a} : todo'[b] = todo[b]
        /\ todo'[a] # << >>
        /\ todo'[a] \in Seq(FormedStep)
    <2>1. CASE UNCHANGED todo /\ c = Head(todo[a]).commit
      <3>1. h = Head(todo[a])
        BY <1>1, <2>1 DEF Step
      <3> QED
        BY <2>1, <3>1 DEF Shape, TypeOK, StepsAreFormed
    <2>2. CASE /\ Head(todo[a]).state = "pending"
               /\ todo' = [todo EXCEPT ![a][1].commit = c]
      <3>1. h \in FormedStep
        BY <1>1, <2>2 DEF FormedStep, Step, OnStatus
      <3>2. /\ \A b \in Actor \ {a} : todo'[b] = todo[b]
            /\ todo'[a] # << >>
            /\ Head(todo'[a]) = h
            /\ todo'[a] = [todo[a] EXCEPT ![1] = h]
            /\ todo' \in [Actor -> Seq(Step)]
        BY <2>2, CommitChanges DEF Shape, TypeOK
      <3>3. todo[a] \in Seq(FormedStep) /\ 1 \in 1..Len(todo[a])
        BY EmptySeq DEF Shape, StepsAreFormed
      <3> HIDE DEF h
      <3>4. todo'[a] \in Seq(FormedStep)
        BY <3>1, <3>2, <3>3, ExceptSeq
      <3> QED
        BY <3>2, <3>4
    <2> QED
      BY <2>1, <2>2
  <1>3. \A b \in Actor : request'[b] = IF b = a THEN r ELSE request[b]
    BY DEF Shape, TypeOK
  <1>4. request' \in [Actor -> {"none", "lookup", "sent", "executed"}]
    BY DEF Shape, TypeOK
  <1>5. h.op = Head(todo[a]).op /\ h.pr = Head(todo[a]).pr /\ h.state = Head(todo[a]).state
        /\ h.commit = c /\ (OnStatus(h) <=> OnStatus(Head(todo[a])))
    BY <1>1 DEF Step, OnStatus
  <1> HIDE DEF h
  <1>6. StepsAreFormed'
    BY <1>2 DEF Shape, StepsAreFormed
  <1>7. Head(todo[a]).op # "cancel"
    BY DEF Shape, RequestsAreFormed, NextRequest
  <1>8. RequestsAreFormed'
    BY <1>2, <1>3, <1>5, <1>7 DEF Shape, RequestsAreFormed
  <1>9. \A b \in Actor \ {a} : request[b] # "none" =>
          \/ Head(todo[b]).pr # Head(todo[a]).pr
          \/ OnStatus(Head(todo[b])) # OnStatus(Head(todo[a]))
    BY DEF Shape, Exclusive, NextRequest, LockFree
  <1>10. Exclusive'
    <2> SUFFICES ASSUME NEW x \in Actor, NEW y \in Actor,
                        x # y, request'[x] # "none", request'[y] # "none"
                 PROVE  \/ Head(todo'[x]).pr # Head(todo'[y]).pr
                        \/ OnStatus(Head(todo'[x])) # OnStatus(Head(todo'[y]))
      BY DEF Exclusive, OnStatus
    <2>1. CASE x = a
      BY <1>2, <1>3, <1>5, <1>9, <2>1 DEF OnStatus
    <2>2. CASE y = a
      BY <1>2, <1>3, <1>5, <1>9, <2>2 DEF OnStatus
    <2>3. CASE x # a /\ y # a
      BY <1>2, <1>3, <2>3 DEF Shape, Exclusive
    <2> QED
      BY <2>1, <2>2, <2>3
  <1> QED
    BY <1>1, <1>2, <1>3, <1>4, <1>6, <1>8, <1>10 DEF h

(* Each action keeps the shape. *)
LEMMA StepShape ==
    ASSUME Shape, [Next]_vars
    PROVE  Shape'
  <1> USE DEF Actor
  <1> DEFINE Frame == /\ UNCHANGED <<todo, request>>
                      /\ WorkerState'
                      /\ TypeOK'
  <1>f. ASSUME Frame PROVE Shape'
    BY <1>f DEF Shape, StepsAreFormed, RequestsAreFormed, Exclusive
  <1>1. ASSUME NEW p \in PR, Enqueue(p) PROVE Shape'
    <2>1. Frame
      BY <1>1 DEF Enqueue, Shape, TypeOK, WorkerState, caches, github, branches
    <2> QED
      BY <2>1, <1>f
  <1>2. ASSUME NEW p \in PR, Resume(p) PROVE Shape'
    <2>1. Frame
      BY <1>2 DEF Resume, Shape, TypeOK, WorkerState, caches, github, branches
    <2> QED
      BY <2>1, <1>f
  <1>3. ASSUME NEW p \in PR, Push(p) PROVE Shape'
    <2>1. Frame
      BY <1>3 DEF Push, Shape, TypeOK, WorkerState, caches, github, queue
    <2> QED
      BY <2>1, <1>f
  <1>4. ASSUME NEW p \in PR, NEW pending \in BOOLEAN, LoopDequeueSuspended(p, pending)
        PROVE  Shape'
    <2>1. Frame
      BY <1>4 DEF LoopDequeueSuspended, Shape, TypeOK, WorkerState, caches, github, branches
    <2> QED
      BY <2>1, <1>f
  <1>5. ASSUME CheckFirst PROVE Shape'
    <2>1. Frame
      BY <1>5 DEF CheckFirst, Shape, TypeOK, WorkerState, caches, github, branches, queue
    <2> QED
      BY <2>1, <1>f
  <1>6. ASSUME Interrupt PROVE Shape'
    <2>1. Frame
      <3>1. setbacks' \in 0..MaxSetbacks
        BY <1>6 DEF Interrupt, Setback, Shape, TypeOK
      <3>2. /\ worker'.pc = worker.pc /\ worker'.pr = worker.pr
            /\ worker' \in [pc : {"idle", "fetch", "act", "suspend"}, pr : PR \cup {None},
                            cancelled : BOOLEAN]
        BY <1>6 DEF Interrupt, Shape, TypeOK
      <3> QED
        BY <1>6, <3>1, <3>2 DEF Interrupt, Shape, TypeOK, WorkerState, caches, github, branches, queue
    <2> QED
      BY <2>1, <1>f
  <1>7. ASSUME Return PROVE Shape'
    <2>1. Frame
      BY <1>7 DEF Return, WorkerIdle, Shape, TypeOK, WorkerState, caches, github, branches, queue
    <2> QED
      BY <2>1, <1>f
  <1>8. ASSUME NEW p \in PR, NEW pending \in BOOLEAN, LoopDequeue(p, pending) PROVE Shape'
    <2>1. PICK n \in PR \cup {None} :
             /\ DequeueActive(p, IF pending THEN "out" ELSE "merged", n)
             /\ todo' = [todo EXCEPT !["loop"] = AfterDequeue(p, pending, n)]
      BY <1>8 DEF LoopDequeue
    <2> DEFINE s == AfterDequeue(p, pending, n)
    <2>2. s \in Seq(FormedStep) /\ todo' = [todo EXCEPT !["loop"] = s]
      BY <2>1, AfterDequeueSteps, Subsequences
    <2> HIDE DEF s
    <2>3. todo["loop"] = << >> /\ UNCHANGED request
      BY <1>8 DEF LoopDequeue, LoopIdle
    <2>4. /\ todo' \in [Actor -> Seq(Step)]
          /\ StepsAreFormed' /\ RequestsAreFormed' /\ Exclusive'
      BY <2>2, <2>3, NewSteps
    <2>5. TypeOK'
      BY <1>8, <2>1, <2>4 DEF LoopDequeue, DequeueActive, Shape, TypeOK, caches, github, branches
    <2>6. WorkerState'
      BY <1>8, <2>2 DEF LoopDequeue, Shape, TypeOK, WorkerState
    <2> QED
      BY <2>4, <2>5, <2>6 DEF Shape
  <1>9. ASSUME NEW s \in Seq(FormedStep), worker.pc = "fetch", Act(s) PROVE Shape'
    <2>1. todo["worker"] = << >> /\ todo' = [todo EXCEPT !["worker"] = s] /\ UNCHANGED request
      BY <1>9 DEF Act, Shape, WorkerState
    <2>2. /\ todo' \in [Actor -> Seq(Step)]
          /\ StepsAreFormed' /\ RequestsAreFormed' /\ Exclusive'
      BY <2>1, NewSteps
    <2>3. TypeOK' /\ WorkerState'
      BY <1>9, <2>2 DEF Act, Shape, TypeOK, WorkerState, caches, github, branches, queue
    <2> QED
      BY <2>2, <2>3 DEF Shape
  <1>10. ASSUME NEW p \in PR, CIRuns(p) PROVE Shape'
    <2>1. /\ AddLabel(p, FALSE) \in FormedStep
          /\ Success(p, branch[p]) \in FormedStep
      BY StepKinds DEF Shape, TypeOK, Unnamed
    <2>2. <<AddLabel(p, FALSE), Success(p, branch[p])>> \in Seq(FormedStep)
      BY <2>1, ShortSequences, Zenon
    <2> QED
      BY <1>9, <1>10, <2>2 DEF CIRuns
  <1>11. ASSUME NEW p \in PR, CIPassed(p) PROVE Shape'
    <2>1. Success(p, branch[p]) \in FormedStep
      BY StepKinds DEF Shape, TypeOK
    <2>2. <<Success(p, branch[p])>> \in Seq(FormedStep)
      BY <2>1, ShortSequences, Zenon
    <2> QED
      BY <1>9, <1>11, <2>2 DEF CIPassed
  <1>12. ASSUME NoAction PROVE Shape'
    BY <1>9, <1>12, EmptySeq DEF NoAction
  <1>13. ASSUME WorkerDequeue PROVE Shape'
    <2>1. PICK n \in PR \cup {None} :
             /\ DequeueActive(worker.pr, "merged", n)
             /\ todo' = [todo EXCEPT !["worker"] = AfterDequeue(worker.pr, FALSE, n)]
      BY <1>13 DEF WorkerDequeue
    <2> DEFINE s == AfterDequeue(worker.pr, FALSE, n)
    <2>2. worker.pr \in PR
      BY <1>13 DEF WorkerDequeue, Shape, WorkerState
    <2>3. s \in Seq(FormedStep) /\ todo' = [todo EXCEPT !["worker"] = s]
      BY <2>1, <2>2, AfterDequeueSteps, Subsequences
    <2> HIDE DEF s
    <2>4. todo["worker"] = << >> /\ UNCHANGED request
      BY <1>13 DEF WorkerDequeue, Shape, WorkerState
    <2>5. /\ todo' \in [Actor -> Seq(Step)]
          /\ StepsAreFormed' /\ RequestsAreFormed' /\ Exclusive'
      BY <2>3, <2>4, NewSteps
    <2>6. TypeOK' /\ WorkerState'
      BY <1>13, <2>1, <2>2, <2>5 DEF WorkerDequeue, DequeueActive, Shape, TypeOK, WorkerState,
         caches, github, branches
    <2> QED
      BY <2>5, <2>6 DEF Shape
  <1>14. ASSUME Suspend PROVE Shape'
    <2> DEFINE s == <<RemoveLabel(worker.pr), Pending(worker.pr)>>
    <2>1. worker.pr \in PR
      BY <1>14 DEF Suspend, Shape, WorkerState
    <2>2. RemoveLabel(worker.pr) \in FormedStep /\ Pending(worker.pr) \in FormedStep
      BY <2>1, StepKinds DEF Unnamed
    <2>3. s \in Seq(FormedStep) /\ todo' = [todo EXCEPT !["worker"] = s]
      BY <1>14, <2>2, ShortSequences, Zenon DEF Suspend
    <2> HIDE DEF s
    <2>4. todo["worker"] = << >> /\ UNCHANGED request
      BY <1>14 DEF Suspend, Shape, WorkerState
    <2>5. /\ todo' \in [Actor -> Seq(Step)]
          /\ StepsAreFormed' /\ RequestsAreFormed' /\ Exclusive'
      BY <2>3, <2>4, NewSteps
    <2>6. TypeOK' /\ WorkerState'
      BY <1>14, <2>1, <2>5 DEF Suspend, DequeueActive, Shape, TypeOK, WorkerState,
         caches, github, branches
    <2> QED
      BY <2>5, <2>6 DEF Shape
  <1>15. ASSUME NEW a \in Actor, CancelActionForPR(a) PROVE Shape'
    <2>1. /\ todo' \in [Actor -> Seq(Step)]
          /\ request' \in [Actor -> {"none", "lookup", "sent", "executed"}]
          /\ StepsAreFormed' /\ RequestsAreFormed' /\ Exclusive'
      BY <1>15, StepDone DEF CancelActionForPR
    <2>2. TypeOK' /\ worker'.pc = worker.pc /\ worker'.pr = worker.pr
      BY <1>15, <2>1 DEF CancelActionForPR, Shape, TypeOK, caches, github, branches, queue
    <2>3. WorkerState'
      BY <1>15, <2>2, DropSteps DEF CancelActionForPR, Shape, TypeOK, WorkerState
    <2> QED
      BY <2>1, <2>2, <2>3 DEF Shape
  <1>16. ASSUME NEW a \in Actor, Skip(a) PROVE Shape'
    <2>1. /\ todo' \in [Actor -> Seq(Step)]
          /\ request' \in [Actor -> {"none", "lookup", "sent", "executed"}]
          /\ StepsAreFormed' /\ RequestsAreFormed' /\ Exclusive'
      BY <1>16, StepDone DEF Skip, NextRequest
    <2>2. TypeOK'
      BY <1>16, <2>1 DEF Skip, Shape, TypeOK, caches, github, branches, queue
    <2>3. WorkerState'
      BY <1>16, DropSteps DEF Skip, NextRequest, Shape, TypeOK, WorkerState
    <2> QED
      BY <2>1, <2>2, <2>3 DEF Shape
  <1>17. ASSUME NEW a \in Actor, Report(a), ~CancelActionForPR(a), ~Skip(a) PROVE Shape'
    <2>1. todo[a] # << >> /\ Head(todo[a]) \in FormedStep /\ Head(todo[a]) \in Step
      <3>1. todo[a] # << >>
        BY <1>17 DEF Report, Send, LookupHead, Execute, Succeed, Fail, NextRequest, Shape,
           RequestsAreFormed
      <3>2. todo[a] \in Seq(FormedStep)
        BY DEF Shape, StepsAreFormed
      <3> QED
        BY <3>1, <3>2 DEF FormedStep
    <2> DEFINE Kept == /\ todo' \in [Actor -> Seq(Step)]
                       /\ request' \in [Actor -> {"none", "lookup", "sent", "executed"}]
                       /\ StepsAreFormed' /\ RequestsAreFormed' /\ Exclusive'
    <2>2. CASE Send(a)
      <3>1. Start(Head(todo[a])) \in {"lookup", "sent", "executed"}
        BY DEF Start
      <3>2. Head(todo[a]).commit \in Commit \cup {None}
        BY <2>1 DEF Step
      <3>3. /\ Start(Head(todo[a])) = "lookup" => Head(todo[a]).state = "pending"
            /\ Start(Head(todo[a])) # "lookup" /\ OnStatus(Head(todo[a])) =>
                 Head(todo[a]).commit # None
        BY <2>1 DEF Start, FormedStep, Step, OnStatus
      <3>4. NextRequest(a) /\ UNCHANGED todo
            /\ request' = [request EXCEPT ![a] = Start(Head(todo[a]))]
        BY <2>2 DEF Send
      <3> HIDE DEF Kept
      <3>5. Kept
        BY <2>1, <3>1, <3>2, <3>3, <3>4, RequestAdvances DEF Kept
      <3>6. TypeOK' /\ WorkerState'
        BY <2>2, <3>5 DEF Kept, Send, Shape, TypeOK, WorkerState, github, branches, queue
      <3> QED
        BY <3>5, <3>6 DEF Shape, Kept
    <2>3. CASE LookupHead(a)
      <3>1. Head(todo[a]).state = "pending" /\ Head(todo[a]) = todo[a][1]
        BY <2>1, <2>3 DEF LookupHead, Shape, RequestsAreFormed
      <3>2. branch[Head(todo[a]).pr] \in Commit
        BY <2>1 DEF Step, Shape, TypeOK
      <3>3. /\ request[a] # "none"
            /\ request' = [request EXCEPT ![a] = "sent"]
            /\ todo' = [todo EXCEPT ![a][1].commit = branch[Head(todo[a]).pr]]
        BY <2>3, <3>1 DEF LookupHead
      <3> HIDE DEF Kept
      <3>4. Kept /\ todo'[a] # << >> /\ \A b \in Actor \ {a} : todo'[b] = todo[b]
        BY <2>1, <3>1, <3>2, <3>3, RequestAdvances DEF Kept
      <3>5. TypeOK' /\ WorkerState'
        BY <2>1, <2>3, <3>4 DEF Kept, LookupHead, Shape, TypeOK, WorkerState, caches, github, branches, queue
      <3> QED
        BY <3>4, <3>5 DEF Shape, Kept
    <2>4. CASE Execute(a)
      <3>1. OnStatus(Head(todo[a])) => Head(todo[a]).commit # None
        BY <2>4 DEF Execute, Shape, RequestsAreFormed
      <3>2. Head(todo[a]).commit \in Commit \cup {None} /\ Head(todo[a]).pr \in PR
            /\ Head(todo[a]).state \in {"none", "pending", "success"}
        BY <2>1 DEF Step
      <3>3. request[a] # "none" /\ UNCHANGED todo
            /\ request' = [request EXCEPT ![a] = "executed"]
        BY <2>4 DEF Execute
      <3> HIDE DEF Kept
      <3>4. Kept
        BY <2>1, <3>1, <3>2, <3>3, RequestAdvances DEF Kept
      <3>5. label' \in SUBSET PR /\ status' \in [Commit -> {"none", "pending", "success"}]
        BY <2>4, <3>2 DEF Execute, Shape, TypeOK
      <3>6. TypeOK' /\ WorkerState'
        BY <2>4, <3>4, <3>5 DEF Kept, Execute, Shape, TypeOK, WorkerState, caches, branches, queue
      <3> QED
        BY <3>4, <3>6 DEF Shape, Kept
    <2>5. CASE Succeed(a)
      <3> HIDE DEF Kept
      <3>1. Kept
        BY <2>1, <2>5, StepDone DEF Succeed, Kept
      <3>2. /\ hasHeadLabel' \in [PR -> BOOLEAN]
            /\ reported' \in [PR -> [commit : Commit \cup {None},
                                     state : {"none", "pending", "success"}]]
        BY <2>1, <2>5 DEF Succeed, Shape, TypeOK, Step
      <3>3. TypeOK'
        BY <2>5, <3>1, <3>2 DEF Kept, Succeed, Shape, TypeOK, branches, queue, github
      <3>4. WorkerState'
        BY <2>1, <2>5, DropSteps DEF Succeed, Shape, TypeOK, WorkerState
      <3> QED
        BY <3>1, <3>3, <3>4 DEF Shape, Kept
    <2>6. CASE Fail(a)
      <3> HIDE DEF Kept
      <3>1. CASE Drop(a)
        <4>1. Kept
          BY <2>1, <3>1, StepDone DEF Kept
        <4>2. TypeOK'
          BY <2>6, <4>1 DEF Kept, Fail, Setback, Shape, TypeOK, branches, queue, github, caches
        <4>3. WorkerState'
          BY <2>1, <2>6, <3>1, DropSteps DEF Fail, Shape, TypeOK, WorkerState
        <4> QED
          BY <4>1, <4>2, <4>3 DEF Shape, Kept
      <3>2. CASE ~Drop(a)
        <4>1. /\ Setback
              /\ request' = [request EXCEPT ![a] = Start(Head(todo[a]))]
              /\ todo' = IF Head(todo[a]).state = "pending"
                         THEN [todo EXCEPT ![a][1].commit = None] ELSE todo
              /\ request[a] # "none"
          BY <2>6, <3>2 DEF Fail
        <4>2. Start(Head(todo[a])) \in {"lookup", "sent", "executed"}
          BY DEF Start
        <4> DEFINE c == IF Head(todo[a]).state = "pending" THEN None ELSE Head(todo[a]).commit
        <4>3. c \in Commit \cup {None}
          BY <2>1 DEF Step
        <4>4. /\ Start(Head(todo[a])) = "lookup" => Head(todo[a]).state = "pending"
              /\ Start(Head(todo[a])) # "lookup" /\ OnStatus(Head(todo[a])) => c # None
          BY <2>1 DEF Start, FormedStep, Step, OnStatus
        <4>5. \/ UNCHANGED todo /\ c = Head(todo[a]).commit
              \/ /\ Head(todo[a]).state = "pending"
                 /\ todo' = [todo EXCEPT ![a][1].commit = c]
          BY <4>1
        <4> HIDE DEF c
        <4>6. Kept /\ todo'[a] # << >> /\ \A b \in Actor \ {a} : todo'[b] = todo[b]
          BY <2>1, <4>1, <4>2, <4>3, <4>4, <4>5, RequestAdvances DEF Kept
        <4>7. TypeOK'
          BY <2>6, <4>1, <4>6 DEF Kept, Fail, Setback, Shape, TypeOK, branches, queue, github, caches
        <4>8. WorkerState'
          BY <2>1, <2>6, <4>6 DEF Fail, Shape, WorkerState
        <4> QED
          BY <4>6, <4>7, <4>8 DEF Shape, Kept
      <3> QED
        BY <3>1, <3>2
    <2> QED
      BY <1>17, <2>2, <2>3, <2>4, <2>5, <2>6 DEF Report
  <1>18. ASSUME Rest \/ UNCHANGED vars PROVE Shape'
    <2>1. Frame
      BY <1>18 DEF Rest, vars, Shape, TypeOK, WorkerState, caches, github, branches, queue
    <2> QED
      BY <2>1, <1>f
  <1> QED
    BY <1>1, <1>2, <1>3, <1>4, <1>5, <1>6, <1>7, <1>8, <1>10, <1>11, <1>12, <1>13, <1>14,
       <1>15, <1>16, <1>17, <1>18 DEF Next

(* Every reachable state is of the declared types. *)
THEOREM TypeCorrect == SafetySpec => []TypeOK
  <1>1. Shape => TypeOK
    BY DEF Shape
  <1> QED
    BY InitShape, StepShape, <1>1, PTL DEF SafetySpec

-----------------------------------------------------------------------------
(* Labels. *)

LEMMA InitLabels == Init => LabelInvariant
  BY InitShape DEF Init, LabelInvariant, LabelRequests, CachedLabelIsReal

(* The steps of go-routines that have a request stay the same. *)
LEMMA OtherSteps ==
    ASSUME Shape, NEW a \in Actor, todo[a] = << >>, NEW s, todo' = [todo EXCEPT ![a] = s],
           UNCHANGED request
    PROVE  \A b \in Actor : request[b] # "none" => todo'[b] = todo[b]
  BY DEF Shape, TypeOK, RequestsAreFormed

(* Actions other than those of a request leave requests, caches and labels alone. *)
LEMMA NotReporting ==
    ASSUME Shape, [Next]_vars,
           \A a \in Actor : ~(Send(a) \/ LookupHead(a) \/ Execute(a) \/ Succeed(a) \/ Fail(a))
    PROVE  /\ UNCHANGED <<caches, github, request>>
           /\ \A b \in Actor : request[b] # "none" => todo'[b] = todo[b]
  <1> USE DEF Actor
  <1>1. ASSUME NEW p \in PR, Enqueue(p) \/ Resume(p) \/ Push(p) \/ \E pending \in BOOLEAN :
                                LoopDequeueSuspended(p, pending)
        PROVE  UNCHANGED <<caches, github, todo, request>>
    BY <1>1 DEF Enqueue, Resume, Push, LoopDequeueSuspended
  <1>2. ASSUME CheckFirst \/ Interrupt \/ Return \/ Rest \/ UNCHANGED vars
        PROVE  UNCHANGED <<caches, github, todo, request>>
    BY <1>2 DEF CheckFirst, Interrupt, Return, Rest, vars
  <1>3. ASSUME NEW p \in PR, NEW pending \in BOOLEAN, LoopDequeue(p, pending)
        PROVE  /\ UNCHANGED <<caches, github, request>>
               /\ todo["loop"] = << >>
               /\ \E s : todo' = [todo EXCEPT !["loop"] = s]
    BY <1>3 DEF LoopDequeue, LoopIdle
  <1>4. ASSUME \/ \E p \in PR : CIRuns(p) \/ CIPassed(p)
               \/ NoAction \/ WorkerDequeue \/ Suspend
        PROVE  /\ UNCHANGED <<caches, github, request>>
               /\ todo["worker"] = << >>
               /\ \E s : todo' = [todo EXCEPT !["worker"] = s]
    BY <1>4 DEF CIRuns, CIPassed, NoAction, WorkerDequeue, Suspend, Act, Shape, WorkerState
  <1>5. ASSUME NEW a \in Actor, CancelActionForPR(a) \/ Skip(a)
        PROVE  /\ UNCHANGED <<caches, github, request>>
               /\ request[a] = "none" /\ Drop(a)
    <2>1. request[a] = "none"
      BY <1>5 DEF CancelActionForPR, Skip, NextRequest, Shape, RequestsAreFormed
    <2> QED
      BY <1>5, <2>1 DEF CancelActionForPR, Skip, Drop, Shape, TypeOK
  <1>6. \/ \E p \in PR : \/ Enqueue(p) \/ Resume(p) \/ Push(p)
                        \/ \E pending \in BOOLEAN : LoopDequeueSuspended(p, pending)
        \/ CheckFirst \/ Interrupt \/ Return \/ Rest \/ UNCHANGED vars
        \/ \E p \in PR : \E pending \in BOOLEAN : LoopDequeue(p, pending)
        \/ \E p \in PR : CIRuns(p) \/ CIPassed(p)
        \/ NoAction \/ WorkerDequeue \/ Suspend
        \/ \E a \in Actor : CancelActionForPR(a) \/ Skip(a)
    BY DEF Next, Report
  <1> QED
    BY <1>1, <1>2, <1>3, <1>4, <1>5, <1>6, OtherSteps DEF Drop, Shape, TypeOK

LEMMA StepLabels ==
    ASSUME LabelInvariant, [Next]_vars
    PROVE  LabelInvariant'
  <1> USE DEF LabelInvariant
  <1>1. Shape'
    BY StepShape
  <1>2. CASE \A a \in Actor : ~(Send(a) \/ LookupHead(a) \/ Execute(a) \/ Succeed(a) \/ Fail(a))
    <2>1. /\ UNCHANGED <<hasHeadLabel, label, request>>
          /\ \A b \in Actor : request[b] # "none" => todo'[b] = todo[b]
      BY <1>2, NotReporting DEF caches, github
    <2> QED
      BY <1>1, <2>1 DEF LabelRequests, CachedLabelIsReal
  <1>3. ASSUME NEW a \in Actor, Send(a) \/ LookupHead(a) \/ Execute(a) \/ Succeed(a) \/ Fail(a)
        PROVE  LabelInvariant'
    <2>1. todo[a] # << >>
      BY <1>3 DEF Send, NextRequest, LookupHead, Execute, Succeed, Fail, Shape, RequestsAreFormed
    <2>2. /\ Head(todo[a]) \in Step
          /\ Head(todo[a]).op \in {"cancel", "add", "remove", "status"}
          /\ Head(todo[a]).pr \in PR
      <3>1. todo[a] \in Seq(Step) /\ todo[a] # << >>
        BY <2>1 DEF Shape, TypeOK
      <3>2. Head(todo[a]) \in Step
        BY <3>1
      <3> QED
        BY <3>2 DEF Step
    <2> DEFINE s == Head(todo[a])
    <2>3. ASSUME NEW b \in Actor, b # a, request[b] # "none",
                 s.op # "status",
                 request[a] # "none" \/ NextRequest(a),
                 Head(todo[b]).op \in {"add", "remove"}
          PROVE  Head(todo[b]).pr # s.pr
      BY <2>3 DEF Shape, Exclusive, NextRequest, LockFree, OnStatus
    <2>4. CASE Send(a)
      <3>1. /\ \A b \in Actor : request'[b] = IF b = a THEN Start(s) ELSE request[b]
            /\ NextRequest(a) /\ UNCHANGED <<todo, label>>
            /\ Start(s) # "executed"
        BY <2>2, <2>4 DEF Send, Shape, TypeOK, Start, github
      <3>4. \A p \in PR : hasHeadLabel'[p] = (IF s.op = "remove" /\ p = s.pr THEN FALSE
                                            ELSE hasHeadLabel[p])
        BY <2>2, <2>4 DEF Send, Shape, TypeOK
      <3>2. LabelRequests'
        <4> SUFFICES ASSUME NEW b \in Actor, request'[b] # "none"
                     PROVE  LET t == Head(todo'[b]) IN
                            /\ t.op = "remove" => ~hasHeadLabel'[t.pr]
                            /\ t.op = "add" /\ request'[b] = "executed" => t.pr \in label'
          BY DEF LabelRequests
        <4>1. CASE b = a
          BY <2>2, <3>1, <3>4, <4>1
        <4>2. CASE b # a
          <5>1. Head(todo[b]).pr \in PR
            <6>1. todo[b] \in Seq(Step) /\ todo[b] # << >>
              BY <3>1, <4>2 DEF Shape, TypeOK, RequestsAreFormed
            <6>2. Head(todo[b]) \in Step
              BY <6>1
            <6> QED
              BY <6>2 DEF Step
          <5> QED
            BY <3>1, <3>4, <4>2, <5>1 DEF LabelRequests
        <4> QED
          BY <4>1, <4>2
      <3>3. CachedLabelIsReal'
        BY <3>1, <3>4 DEF CachedLabelIsReal
      <3> QED
        BY <1>1, <3>2, <3>3
    <2>5. CASE LookupHead(a)
      <3>1. s.state = "pending" /\ s.op = "status" /\ s = todo[a][1]
        <4>1. todo[a] \in Seq(FormedStep) /\ s \in FormedStep
          BY <2>1 DEF Shape, StepsAreFormed
        <4> QED
          BY <2>1, <2>5, <4>1 DEF LookupHead, Shape, RequestsAreFormed, FormedStep, OnStatus
      <3>2. /\ \A b \in Actor \ {a} : todo'[b] = todo[b]
            /\ Head(todo'[a]) = [s EXCEPT !.commit = branch[s.pr]]
        <4>1. branch[s.pr] \in Commit
          BY <2>2 DEF Shape, TypeOK
        <4>2. todo' = [todo EXCEPT ![a][1].commit = branch[s.pr]]
          BY <2>5, <3>1 DEF LookupHead
        <4> QED
          BY <2>1, <4>1, <4>2, CommitChanges DEF Shape, TypeOK
      <3>3. Head(todo'[a]).op = "status"
        BY <2>2, <3>1, <3>2 DEF Step
      <3>4. /\ UNCHANGED <<label, hasHeadLabel>>
            /\ \A b \in Actor \ {a} : request'[b] = request[b]
        BY <2>5 DEF LookupHead, caches, github, Shape, TypeOK
      <3> QED
        BY <1>1, <3>2, <3>3, <3>4 DEF LabelRequests, CachedLabelIsReal
    <2>6. CASE Execute(a)
      <3>1. /\ \A b \in Actor : request'[b] = IF b = a THEN "executed" ELSE request[b]
            /\ UNCHANGED <<todo, hasHeadLabel>>
            /\ request[a] # "none"
            /\ label' = IF s.op = "add" THEN label \cup {s.pr}
                        ELSE IF s.op = "remove" THEN label \ {s.pr} ELSE label
        BY <2>6 DEF Execute, Shape, TypeOK, caches
      <3>2. LabelRequests'
        BY <2>2, <2>3, <3>1 DEF LabelRequests, Shape, TypeOK, Step
      <3>3. s.op = "remove" => ~hasHeadLabel[s.pr]
        BY <3>1 DEF LabelRequests
      <3>4. CachedLabelIsReal'
        BY <3>1, <3>3 DEF CachedLabelIsReal
      <3> QED
        BY <1>1, <3>2, <3>4
    <2>7. CASE Succeed(a)
      <3>1. /\ \A b \in Actor : request'[b] # "none" =>
                  b # a /\ request'[b] = request[b] /\ todo'[b] = todo[b]
            /\ request[a] = "executed"
            /\ UNCHANGED label
            /\ hasHeadLabel' = IF s.op = "add" THEN [hasHeadLabel EXCEPT ![s.pr] = TRUE]
                               ELSE hasHeadLabel
        BY <2>1, <2>7, StepDone DEF Succeed, Drop, Shape, TypeOK, github
      <3>2. \A p \in PR : hasHeadLabel'[p] = (IF s.op = "add" /\ p = s.pr THEN TRUE
                                            ELSE hasHeadLabel[p])
        BY <2>2, <3>1 DEF Shape, TypeOK
      <3>3. LabelRequests'
        BY <2>2, <2>3, <3>1, <3>2 DEF LabelRequests, Shape, TypeOK, Step
      <3>4. s.op = "add" => s.pr \in label
        BY <3>1 DEF LabelRequests
      <3>5. CachedLabelIsReal'
        BY <3>1, <3>2, <3>4 DEF CachedLabelIsReal
      <3> QED
        BY <1>1, <3>3, <3>5
    <2>8. CASE Fail(a)
      <3>1. UNCHANGED <<label, hasHeadLabel>>
        BY <2>8 DEF Fail, caches, github
      <3>2. CASE Drop(a)
        <4>1. \A b \in Actor : request'[b] # "none" =>
                  b # a /\ request'[b] = request[b] /\ todo'[b] = todo[b]
          BY <2>1, <3>2, StepDone DEF Drop, Shape, TypeOK
        <4> QED
          BY <1>1, <3>1, <4>1 DEF LabelRequests, CachedLabelIsReal
      <3>3. CASE ~Drop(a)
        <4>1. /\ request' = [request EXCEPT ![a] = Start(s)]
              /\ todo' = IF s.state = "pending"
                         THEN [todo EXCEPT ![a][1].commit = None] ELSE todo
              /\ request[a] # "none"
          BY <2>8, <3>3 DEF Fail
        <4>2. /\ \A b \in Actor \ {a} : todo'[b] = todo[b] /\ request'[b] = request[b]
              /\ Head(todo'[a]).op = s.op /\ Head(todo'[a]).pr = s.pr
          <5>1. CASE s.state = "pending"
            <6>1. /\ \A b \in Actor \ {a} : todo'[b] = todo[b]
                  /\ Head(todo'[a]) = [s EXCEPT !.commit = None]
              BY <2>1, <4>1, <5>1, CommitChanges DEF Shape, TypeOK
            <6> QED
              BY <2>2, <4>1, <6>1 DEF Step, Shape, TypeOK
          <5>2. CASE s.state # "pending"
            BY <4>1, <5>2 DEF Shape, TypeOK
          <5> QED
            BY <5>1, <5>2
        <4>3. request'[a] # "executed"
          BY <4>1 DEF Start, Shape, TypeOK
        <4> QED
          BY <1>1, <3>1, <4>1, <4>2, <4>3 DEF LabelRequests, CachedLabelIsReal
      <3> QED
        BY <3>2, <3>3
    <2> QED
      BY <1>3, <2>4, <2>5, <2>6, <2>7, <2>8
  <1> QED
    BY <1>2, <1>3

(* A PR that is remembered as labelled is labelled (queue.go:778), whatever fails. *)
THEOREM LabelCacheIsTrue == SafetySpec => []CachedLabelIsReal
  <1>1. LabelInvariant => CachedLabelIsReal
    BY DEF LabelInvariant
  <1> QED
    BY InitLabels, StepLabels, <1>1, PTL DEF SafetySpec

-----------------------------------------------------------------------------
(* Statuses. *)

LEMMA InitStatuses == Init /\ ~SharedCommits => StatusInvariant
  <1> SUFFICES ASSUME Init, ~SharedCommits PROVE StatusInvariant
    OBVIOUS
  <1>1. \A a \in Actor : todo[a] = << >> /\ DOMAIN todo[a] = {}
    BY DEF Init
  <1>2. \A p \in PR : \A c \in Commit : Refers(p, c) => c = branch[p]
    BY <1>1 DEF Init, Refers, NeverReported
  <1>3. OwnCommits
    BY <1>2 DEF Init, OwnCommits
  <1>4. StatusRequests /\ \A p \in PR : StatusIsReal(p)
    BY DEF Init, StatusRequests, StatusIsReal, NeverReported
  <1> QED
    BY <1>3, <1>4, InitShape DEF StatusInvariant

(* PRs refer to no more commits than before. *)
LEMMA FewerCommits ==
    ASSUME OwnCommits, UNCHANGED used,
           \A p \in PR : \A c \in Commit : Refers(p, c)' => Refers(p, c),
           \A c \in Commit \ used : status'[c] = status[c]
    PROVE  OwnCommits'
  BY DEF OwnCommits

(* So it is when the steps refer to no more. *)
LEMMA FewerReferences ==
    ASSUME UNCHANGED <<branch, reported>>,
           \A a \in Actor : \A i \in DOMAIN todo'[a] :
              \/ todo'[a][i].commit = None
              \/ todo'[a][i].commit = branch[todo'[a][i].pr]
              \/ \E j \in DOMAIN todo[a] : todo'[a][i] = todo[a][j]
    PROVE  \A p \in PR : \A c \in Commit : Refers(p, c)' => Refers(p, c)
  BY DEF Refers

(* The elements of a sequence of steps that name no commit. *)
LEMMA UnnamedElements ==
    ASSUME NEW s \in Seq(Unnamed), NEW i \in DOMAIN s
    PROVE  s[i].commit = None
  <1>1. s[i] \in Unnamed
    BY ElementOfSeq
  <1> QED
    BY <1>1 DEF Unnamed

LEMMA NewStepsRefer ==
    ASSUME Shape, NEW a \in Actor, NEW s,
           todo' = [todo EXCEPT ![a] = s], UNCHANGED <<branch, reported>>,
           \A i \in DOMAIN s : s[i].commit = None \/ s[i].commit = branch[s[i].pr]
    PROVE  \A p \in PR : \A c \in Commit : Refers(p, c)' => Refers(p, c)
  <1>1. \A b \in Actor : todo'[b] = IF b = a THEN s ELSE todo[b]
    BY DEF Shape, TypeOK
  <1> QED
    BY <1>1, FewerReferences

(* Actions that are not about requests. *)
LEMMA NotReportingRefers ==
    ASSUME Shape, [Next]_vars,
           \A a \in Actor : ~(Send(a) \/ LookupHead(a) \/ Execute(a) \/ Succeed(a) \/ Fail(a)),
           \A p \in PR : ~Push(p)
    PROVE  /\ UNCHANGED <<branch, used, reported>>
           /\ \A p \in PR : \A c \in Commit : Refers(p, c)' => Refers(p, c)
  <1> USE DEF Actor, branches, caches
  <1>1. ASSUME NEW p \in PR, Enqueue(p) \/ Resume(p) \/ \E pending \in BOOLEAN :
                                LoopDequeueSuspended(p, pending)
        PROVE  UNCHANGED <<branch, used, reported, todo>>
    BY <1>1 DEF Enqueue, Resume, LoopDequeueSuspended
  <1>2. ASSUME CheckFirst \/ Interrupt \/ Return \/ Rest \/ UNCHANGED vars
        PROVE  UNCHANGED <<branch, used, reported, todo>>
    BY <1>2 DEF CheckFirst, Interrupt, Return, Rest, vars
  <1>3. ASSUME UNCHANGED <<branch, used, reported, todo>>
        PROVE  \A p \in PR : \A c \in Commit : Refers(p, c)' => Refers(p, c)
    BY <1>3 DEF Refers
  <1>4. ASSUME NEW p \in PR, NEW pending \in BOOLEAN, LoopDequeue(p, pending)
        PROVE  /\ UNCHANGED <<branch, used, reported>>
               /\ \A q \in PR : \A c \in Commit : Refers(q, c)' => Refers(q, c)
    <2>1. PICK n \in PR \cup {None} : todo' = [todo EXCEPT !["loop"] = AfterDequeue(p, pending, n)]
      BY <1>4 DEF LoopDequeue
    <2>2. AfterDequeue(p, pending, n) \in Seq(Unnamed)
      BY AfterDequeueSteps
    <2>3. UNCHANGED <<branch, used, reported>>
      BY <1>4 DEF LoopDequeue
    <2> QED
      BY <2>1, <2>2, <2>3, UnnamedElements, NewStepsRefer
  <1>5. ASSUME WorkerDequeue
        PROVE  /\ UNCHANGED <<branch, used, reported>>
               /\ \A q \in PR : \A c \in Commit : Refers(q, c)' => Refers(q, c)
    <2>1. PICK n \in PR \cup {None} :
             todo' = [todo EXCEPT !["worker"] = AfterDequeue(worker.pr, FALSE, n)]
      BY <1>5 DEF WorkerDequeue
    <2>2. worker.pr \in PR
      BY <1>5 DEF WorkerDequeue, Shape, WorkerState
    <2>3. AfterDequeue(worker.pr, FALSE, n) \in Seq(Unnamed)
      BY <2>2, AfterDequeueSteps
    <2>4. UNCHANGED <<branch, used, reported>>
      BY <1>5 DEF WorkerDequeue
    <2> QED
      BY <2>1, <2>3, <2>4, UnnamedElements, NewStepsRefer
  <1>6. ASSUME Suspend
        PROVE  /\ UNCHANGED <<branch, used, reported>>
               /\ \A q \in PR : \A c \in Commit : Refers(q, c)' => Refers(q, c)
    <2> DEFINE s == <<RemoveLabel(worker.pr), Pending(worker.pr)>>
    <2>1. todo' = [todo EXCEPT !["worker"] = s] /\ UNCHANGED <<branch, used, reported>>
      BY <1>6 DEF Suspend
    <2>2. \A i \in DOMAIN s : s[i].commit = None
      BY DEF RemoveLabel, Pending
    <2> HIDE DEF s
    <2> QED
      BY <2>1, <2>2, NewStepsRefer
  <1>7. ASSUME (\E p \in PR : CIRuns(p) \/ CIPassed(p)) \/ NoAction
        PROVE  /\ UNCHANGED <<branch, used, reported>>
               /\ \A q \in PR : \A c \in Commit : Refers(q, c)' => Refers(q, c)
    <2>1. ASSUME NEW s, Act(s),
                 \A i \in DOMAIN s : s[i].commit = None \/ s[i].commit = branch[s[i].pr]
          PROVE  /\ UNCHANGED <<branch, used, reported>>
                 /\ \A q \in PR : \A c \in Commit : Refers(q, c)' => Refers(q, c)
      <3>1. todo' = [todo EXCEPT !["worker"] = s] /\ UNCHANGED <<branch, used, reported>>
        BY <2>1 DEF Act
      <3> QED
        BY <2>1, <3>1, NewStepsRefer
    <2>2. ASSUME NEW p \in PR, CIRuns(p)
          PROVE  /\ UNCHANGED <<branch, used, reported>>
                 /\ \A q \in PR : \A c \in Commit : Refers(q, c)' => Refers(q, c)
      <3> DEFINE s == <<AddLabel(p, FALSE), Success(p, branch[p])>>
      <3>1. \A i \in DOMAIN s : s[i].commit = None \/ s[i].commit = branch[s[i].pr]
        BY DEF AddLabel, Success
      <3>2. Act(s)
        BY <2>2 DEF CIRuns
      <3> HIDE DEF s
      <3> QED
        BY <2>1, <3>1, <3>2
    <2>3. ASSUME NEW p \in PR, CIPassed(p)
          PROVE  /\ UNCHANGED <<branch, used, reported>>
                 /\ \A q \in PR : \A c \in Commit : Refers(q, c)' => Refers(q, c)
      <3> DEFINE s == <<Success(p, branch[p])>>
      <3>1. \A i \in DOMAIN s : s[i].commit = None \/ s[i].commit = branch[s[i].pr]
        BY DEF Success
      <3>2. Act(s)
        BY <2>3 DEF CIPassed
      <3> HIDE DEF s
      <3> QED
        BY <2>1, <3>1, <3>2
    <2>4. CASE NoAction
      <3>1. Act(<< >>) /\ DOMAIN << >> = {}
        BY <2>4 DEF NoAction
      <3> QED
        BY <2>1, <3>1
    <2> QED
      BY <1>7, <2>2, <2>3, <2>4
  <1>8. ASSUME NEW a \in Actor, CancelActionForPR(a) \/ Skip(a)
        PROVE  /\ UNCHANGED <<branch, used, reported>>
               /\ \A q \in PR : \A c \in Commit : Refers(q, c)' => Refers(q, c)
    <2>1. todo[a] # << >> /\ Drop(a) /\ UNCHANGED <<branch, used, reported>>
      BY <1>8 DEF CancelActionForPR, Skip, NextRequest
    <2>2. \A b \in Actor : \A i \in DOMAIN todo'[b] :
             \E j \in DOMAIN todo[b] : todo'[b][i] = todo[b][j]
      BY <2>1, DropSteps DEF Shape, TypeOK
    <2> QED
      BY <2>1, <2>2, FewerReferences
  <1>9. \/ \E p \in PR : \/ Enqueue(p) \/ Resume(p)
                        \/ \E pending \in BOOLEAN : LoopDequeueSuspended(p, pending)
        \/ CheckFirst \/ Interrupt \/ Return \/ Rest \/ UNCHANGED vars
        \/ \E p \in PR : \E pending \in BOOLEAN : LoopDequeue(p, pending)
        \/ (\E p \in PR : CIRuns(p) \/ CIPassed(p)) \/ NoAction
        \/ WorkerDequeue \/ Suspend
        \/ \E a \in Actor : CancelActionForPR(a) \/ Skip(a)
    BY DEF Next, Report
  <1> QED
    BY <1>1, <1>2, <1>3, <1>4, <1>5, <1>6, <1>7, <1>8, <1>9

(* The step that a request is for. *)
LEMMA RequestStep ==
    ASSUME Shape, NEW a \in Actor, request[a] # "none"
    PROVE  LET s == Head(todo[a]) IN
           /\ todo[a] # << >> /\ 1 \in DOMAIN todo[a] /\ s = todo[a][1]
           /\ s \in FormedStep
           /\ s.pr \in PR
           /\ s.commit \in Commit \cup {None}
           /\ s.state \in {"none", "pending", "success"}
           /\ OnStatus(s) <=> s.state # "none"
           /\ s.commit # None => Refers(s.pr, s.commit)
  <1>1. todo[a] \in Seq(FormedStep) /\ todo[a] # << >>
    BY DEF Shape, StepsAreFormed, RequestsAreFormed
  <1>2. 1 \in DOMAIN todo[a] /\ Head(todo[a]) = todo[a][1] /\ todo[a][1] \in FormedStep
    BY <1>1, EmptySeq
  <1> QED
    BY <1>1, <1>2 DEF FormedStep, Step, Refers

(* A new commit has no status. *)
LEMMA PushStatuses ==
    ASSUME StatusInvariant, Shape', NEW p \in PR, Push(p)
    PROVE  StatusInvariant'
  <1> USE DEF StatusInvariant, branches, caches, github, queue
  <1>1. PICK c \in Commit \ used : /\ branch' = [branch EXCEPT ![p] = c]
                                   /\ used' = used \cup {c}
                                   /\ UNCHANGED <<todo, request, reported, status>>
    BY DEF Push
  <1>2. /\ status[c] = "none"
        /\ \A q \in PR : ~Refers(q, c)
        /\ \A q \in PR : branch'[q] = IF q = p THEN c ELSE branch[q]
    BY <1>1 DEF OwnCommits, Shape, TypeOK
  <1>3. \A q \in PR : \A d \in Commit : Refers(q, d)' => Refers(q, d) \/ (q = p /\ d = c)
    BY <1>1, <1>2 DEF Refers
  <1>4. OwnCommits'
    BY <1>1, <1>2, <1>3 DEF OwnCommits
  <1>5. StatusRequests'
    <2> SUFFICES ASSUME NEW a \in Actor, request[a] \in {"sent", "executed"},
                        OnStatus(Head(todo[a]))
                 PROVE  LET s == Head(todo[a]) IN
                        /\ request[a] = "executed" => status[s.commit] = s.state
                        /\ s.state = "pending" => \/ branch'[s.pr] = s.commit
                                                  \/ status[branch'[s.pr]] # "success"
      BY <1>1 DEF StatusRequests
    <2>1. Head(todo[a]).pr \in PR
      BY RequestStep
    <2> QED
      BY <1>2, <2>1 DEF StatusRequests
  <1>6. ASSUME NEW q \in PR, ~ExecutedFor(q)'
        PROVE  StatusIsReal(q)'
    BY <1>1, <1>2, <1>6 DEF ExecutedFor, StatusIsReal
  <1> QED
    BY <1>4, <1>5, <1>6

(* Sending, and looking up the head, change no status. *)
LEMMA SendStatuses ==
    ASSUME StatusInvariant, Shape', NEW a \in Actor, Send(a) \/ LookupHead(a)
    PROVE  StatusInvariant'
  <1> USE DEF StatusInvariant, branches, caches, github, queue
  <1>1. /\ UNCHANGED <<branch, used, reported, status>>
        /\ \A b \in Actor \ {a} : request'[b] = request[b]
        /\ request[a] # "executed" /\ request'[a] \in {"lookup", "sent"}
    BY DEF Send, NextRequest, LookupHead, Start, Shape, TypeOK
  <1>2. /\ \A p \in PR : \A c \in Commit : Refers(p, c)' => Refers(p, c)
        /\ \A b \in Actor \ {a} : todo'[b] = todo[b]
        /\ request'[a] = "sent" /\ Head(todo'[a]).state = "pending" =>
              Head(todo'[a]).commit = branch[Head(todo'[a]).pr]
    <2>1. CASE Send(a)
      <3>1. UNCHANGED todo /\ request'[a] = Start(Head(todo[a]))
        BY <2>1 DEF Send, Shape, TypeOK
      <3> QED
        BY <1>1, <3>1 DEF Refers, Start
    <2>2. CASE LookupHead(a)
      <3> DEFINE s == Head(todo[a])
      <3>1. /\ todo[a] # << >> /\ s = todo[a][1] /\ s.pr \in PR
            /\ todo \in [Actor -> Seq(Step)] /\ branch[s.pr] \in Commit
        <4>1. request[a] # "none"
          BY <2>2 DEF LookupHead
        <4> QED
          BY <4>1, RequestStep DEF Shape, TypeOK
      <3>2. todo' = [todo EXCEPT ![a][1].commit = branch[s.pr]]
        BY <2>2, <3>1 DEF LookupHead
      <3>3. /\ \A b \in Actor \ {a} : todo'[b] = todo[b]
            /\ DOMAIN todo'[a] = DOMAIN todo[a]
            /\ s \in Step
            /\ Head(todo'[a]) = [s EXCEPT !.commit = branch[s.pr]]
            /\ todo'[a] = [todo[a] EXCEPT ![1] = Head(todo'[a])]
        BY <3>1, <3>2, CommitChanges
      <3>4. Head(todo'[a]).pr = s.pr /\ Head(todo'[a]).commit = branch[s.pr]
        BY <3>3 DEF Step
      <3>5. \A i \in DOMAIN todo'[a] : todo'[a][i] = IF i = 1 THEN Head(todo'[a]) ELSE todo[a][i]
        BY <3>3
      <3>6. \A b \in Actor : \A i \in DOMAIN todo'[b] :
              \/ todo'[b][i].commit = branch[todo'[b][i].pr]
              \/ \E j \in DOMAIN todo[b] : todo'[b][i] = todo[b][j]
        BY <3>3, <3>4, <3>5
      <3> QED
        BY <1>1, <3>3, <3>4, <3>6, FewerReferences
    <2> QED
      BY <2>1, <2>2
  <1>3. OwnCommits'
    BY <1>1, <1>2, FewerCommits
  <1>4. StatusRequests'
    <2> SUFFICES ASSUME NEW b \in Actor, request'[b] \in {"sent", "executed"},
                        OnStatus(Head(todo'[b]))
                 PROVE  LET s == Head(todo'[b]) IN
                        /\ request'[b] = "executed" => status[s.commit] = s.state
                        /\ s.state = "pending" => \/ branch[s.pr] = s.commit
                                                  \/ status[branch[s.pr]] # "success"
      BY <1>1 DEF StatusRequests
    <2>1. CASE b = a
      BY <1>1, <1>2, <2>1
    <2>2. CASE b # a
      BY <1>1, <1>2, <2>2 DEF StatusRequests
    <2> QED
      BY <2>1, <2>2
  <1>5. ASSUME NEW p \in PR
        PROVE  (ExecutedFor(p) => ExecutedFor(p)') /\ (StatusIsReal(p) => StatusIsReal(p)')
    BY <1>1, <1>2 DEF ExecutedFor, StatusIsReal
  <1> QED
    BY <1>3, <1>4, <1>5

(* The status of a commit that is no other PR's. *)
LEMMA ExecuteStatuses ==
    ASSUME StatusInvariant, Shape', NEW a \in Actor, Execute(a)
    PROVE  StatusInvariant'
  <1> USE DEF StatusInvariant, branches, caches, queue
  <1> DEFINE s == Head(todo[a])
  <1>1. /\ UNCHANGED <<branch, used, reported, todo>>
        /\ \A b \in Actor : request'[b] = IF b = a THEN "executed" ELSE request[b]
        /\ request[a] = "sent"
        /\ status' = IF OnStatus(s) THEN [status EXCEPT ![s.commit] = s.state] ELSE status
    BY DEF Execute, Shape, TypeOK
  <1>2. /\ s.pr \in PR /\ s.state \in {"none", "pending", "success"}
        /\ OnStatus(s) <=> s.state # "none"
        /\ OnStatus(s) => s.commit \in Commit /\ Refers(s.pr, s.commit)
    BY <1>1, RequestStep DEF Shape, RequestsAreFormed
  <1>3. /\ OnStatus(s) => \A c \in Commit : status'[c] = IF c = s.commit THEN s.state ELSE status[c]
        /\ ~OnStatus(s) => status' = status
    BY <1>1, <1>2 DEF Shape, TypeOK
  <1>4. \A p \in PR : \A c \in Commit : Refers(p, c)' <=> Refers(p, c)
    BY <1>1 DEF Refers
  <1>5. ASSUME NEW p \in PR, p # s.pr, NEW c \in Commit, Refers(p, c)
        PROVE  status'[c] = status[c]
    BY <1>2, <1>3, <1>5 DEF OwnCommits
  <1>6. OwnCommits'
    <2>1. OnStatus(s) => s.commit \in used
      BY <1>2 DEF OwnCommits
    <2> QED
      BY <1>1, <1>3, <1>4, <2>1, FewerCommits
  <1>7. StatusRequests'
    <2> SUFFICES ASSUME NEW b \in Actor, request'[b] \in {"sent", "executed"},
                        OnStatus(Head(todo[b]))
                 PROVE  LET t == Head(todo[b]) IN
                        /\ request'[b] = "executed" => status'[t.commit] = t.state
                        /\ t.state = "pending" => \/ branch[t.pr] = t.commit
                                                  \/ status'[branch[t.pr]] # "success"
      BY <1>1 DEF StatusRequests
    <2> DEFINE t == Head(todo[b])
    <2>1. /\ request[b] # "none" /\ t.pr \in PR /\ t.commit \in Commit
          /\ Refers(t.pr, t.commit)
      <3>1. request[b] # "none" /\ request[b] # "lookup"
        BY <1>1
      <3> QED
        BY <3>1, RequestStep DEF Shape, RequestsAreFormed
    <2>2. branch[t.pr] \in Commit /\ Refers(t.pr, branch[t.pr])
      BY <2>1 DEF Refers, Shape, TypeOK
    <2>3. CASE b = a
      BY <1>1, <1>2, <1>3, <2>2, <2>3 DEF StatusRequests
    <2>4. CASE b # a /\ OnStatus(s)
      <3>1. t.pr # s.pr
        BY <1>1, <2>1, <2>4 DEF Shape, Exclusive
      <3>2. status'[t.commit] = status[t.commit] /\ status'[branch[t.pr]] = status[branch[t.pr]]
        BY <1>5, <2>1, <2>2, <3>1
      <3> QED
        BY <1>1, <2>4, <3>2 DEF StatusRequests
    <2>5. CASE b # a /\ ~OnStatus(s)
      BY <1>1, <1>3, <2>5 DEF StatusRequests
    <2> QED
      BY <2>3, <2>4, <2>5
  <1>8. ASSUME NEW p \in PR
        PROVE  ExecutedFor(p)' \/ StatusIsReal(p)'
    <2>1. ExecutedFor(p) => ExecutedFor(p)'
      BY <1>1 DEF ExecutedFor
    <2>2. CASE OnStatus(s) /\ p = s.pr
      BY <1>1, <2>2 DEF ExecutedFor
    <2>3. CASE OnStatus(s) /\ p # s.pr
      <3>1. branch[p] \in Commit /\ Refers(p, branch[p])
        BY DEF Refers, Shape, TypeOK
      <3>2. reported[p].commit \in Commit => Refers(p, reported[p].commit)
        BY DEF Refers
      <3> QED
        BY <1>1, <1>5, <2>1, <2>3, <3>1, <3>2 DEF StatusIsReal
    <2>4. CASE ~OnStatus(s)
      BY <1>1, <1>3, <2>1, <2>4 DEF StatusIsReal
    <2> QED
      BY <2>2, <2>3, <2>4
  <1> QED
    BY <1>6, <1>7, <1>8

(* Dropping a step leaves those of the other requests. *)
LEMMA DropStatuses ==
    ASSUME StatusInvariant, NEW a \in Actor, request[a] # "none", Drop(a)
    PROVE  /\ \A b \in Actor : \A i \in DOMAIN todo'[b] :
                 \E j \in DOMAIN todo[b] : todo'[b][i] = todo[b][j]
           /\ \A b \in Actor : request'[b] # "none" =>
                 b # a /\ request'[b] = request[b] /\ todo'[b] = todo[b]
           /\ \A b \in Actor \ {a} : request'[b] = request[b] /\ todo'[b] = todo[b]
  <1>1. todo[a] # << >> /\ todo \in [Actor -> Seq(Step)]
    BY DEF StatusInvariant, Shape, TypeOK, RequestsAreFormed
  <1>2. \A b \in Actor : request'[b] = IF b = a THEN "none" ELSE request[b]
    BY DEF Drop, StatusInvariant, Shape, TypeOK
  <1> QED
    BY <1>1, <1>2, DropSteps

LEMMA SucceedStatuses ==
    ASSUME StatusInvariant, Shape', NEW a \in Actor, Succeed(a)
    PROVE  StatusInvariant'
  <1> USE DEF StatusInvariant, branches, github, queue
  <1> DEFINE s == Head(todo[a])
             r == [commit |-> IF s.state = "pending" THEN None ELSE s.commit, state |-> s.state]
  <1>1. /\ UNCHANGED <<branch, used, status>>
        /\ request[a] = "executed" /\ Drop(a)
        /\ reported' = IF OnStatus(s) THEN [reported EXCEPT ![s.pr] = r] ELSE reported
    BY DEF Succeed
  <1>2. /\ s.pr \in PR /\ s.state \in {"none", "pending", "success"}
        /\ OnStatus(s) <=> s.state # "none"
        /\ OnStatus(s) => s.commit \in Commit /\ Refers(s.pr, s.commit)
    BY <1>1, RequestStep DEF Shape, RequestsAreFormed
  <1>3. /\ \A b \in Actor : \A i \in DOMAIN todo'[b] :
              \E j \in DOMAIN todo[b] : todo'[b][i] = todo[b][j]
        /\ \A b \in Actor : request'[b] # "none" =>
              b # a /\ request'[b] = request[b] /\ todo'[b] = todo[b]
        /\ \A b \in Actor \ {a} : request'[b] = request[b] /\ todo'[b] = todo[b]
    <2>1. request[a] # "none" /\ Drop(a)
      BY <1>1
    <2> QED
      BY <2>1, DropStatuses
  <1>4. \A p \in PR : reported'[p] = IF OnStatus(s) /\ p = s.pr THEN r ELSE reported[p]
    BY <1>1, <1>2 DEF Shape, TypeOK
  <1>5. \A p \in PR : \A c \in Commit : Refers(p, c)' => Refers(p, c)
    <2> SUFFICES ASSUME NEW p \in PR, NEW c \in Commit, Refers(p, c)'
                 PROVE  Refers(p, c)
      OBVIOUS
    <2>1. CASE c = branch'[p]
      BY <1>1, <2>1 DEF Refers
    <2>2. CASE c = reported'[p].commit
      BY <1>2, <1>4, <2>2, ReportingAssumption DEF Refers
    <2>3. CASE \E b \in Actor : \E i \in DOMAIN todo'[b] :
                 todo'[b][i].pr = p /\ todo'[b][i].commit = c
      BY <1>3, <2>3 DEF Refers
    <2> QED
      BY <2>1, <2>2, <2>3 DEF Refers
  <1>6. OwnCommits'
    BY <1>1, <1>5, FewerCommits
  <1>7. StatusRequests'
    BY <1>1, <1>3 DEF StatusRequests
  <1>8. ASSUME NEW p \in PR
        PROVE  ExecutedFor(p)' \/ StatusIsReal(p)'
    <2>1. CASE OnStatus(s) /\ p = s.pr
      <3>1. /\ status[s.commit] = s.state
            /\ s.state = "pending" => status[branch[p]] # "success"
        BY <1>1, <1>2, <2>1 DEF StatusRequests
      <3>2. reported'[p] = r
        BY <1>4, <2>1
      <3> QED
        BY <1>1, <1>2, <2>1, <3>1, <3>2 DEF StatusIsReal
    <2>2. CASE ~(OnStatus(s) /\ p = s.pr)
      <3>1. ExecutedFor(p) => ExecutedFor(p)'
        BY <1>3, <2>2 DEF ExecutedFor
      <3> QED
        BY <1>1, <1>4, <2>2, <3>1 DEF StatusIsReal
    <2> QED
      BY <2>1, <2>2
  <1> QED
    BY <1>6, <1>7, <1>8

(* A request that fails had no effect. *)
LEMMA FailStatuses ==
    ASSUME StatusInvariant, Shape', ~Lossy, NEW a \in Actor, Fail(a)
    PROVE  StatusInvariant'
  <1> USE DEF StatusInvariant, branches, caches, github, queue
  <1> DEFINE s == Head(todo[a])
  <1>1. /\ UNCHANGED <<branch, used, reported, status>>
        /\ request[a] \in {"lookup", "sent"}
    BY DEF Fail
  <1>2. s.pr \in PR /\ todo[a] # << >> /\ s = todo[a][1]
    BY <1>1, RequestStep
  <1>3. /\ \A b \in Actor : \A i \in DOMAIN todo'[b] :
              \/ todo'[b][i].commit = None
              \/ \E j \in DOMAIN todo[b] : todo'[b][i] = todo[b][j]
        /\ \A b \in Actor \ {a} : todo'[b] = todo[b] /\ request'[b] = request[b]
        /\ request'[a] \in {"sent", "executed"} =>
              request'[a] = "sent" /\ Head(todo'[a]).state # "pending"
    <2>1. CASE Drop(a)
      <3>1. /\ \A b \in Actor : \A i \in DOMAIN todo'[b] :
                  \E j \in DOMAIN todo[b] : todo'[b][i] = todo[b][j]
            /\ \A b \in Actor : request'[b] # "none" => b # a
            /\ \A b \in Actor \ {a} : todo'[b] = todo[b] /\ request'[b] = request[b]
        <4>1. request[a] # "none"
          BY <1>1
        <4> QED
          BY <2>1, <4>1, DropStatuses
      <3>2. request'[a] \notin {"sent", "executed"}
        BY <3>1
      <3> QED
        BY <3>1, <3>2
    <2>2. CASE ~Drop(a)
      <3>1. /\ request' = [request EXCEPT ![a] = Start(s)]
            /\ todo' = IF s.state = "pending"
                       THEN [todo EXCEPT ![a][1].commit = None] ELSE todo
        BY <2>2 DEF Fail
      <3>2. \A b \in Actor : request'[b] = IF b = a THEN Start(s) ELSE request[b]
        BY <3>1 DEF Shape, TypeOK
      <3>3. CASE s.state = "pending"
        <4>1. /\ \A b \in Actor \ {a} : todo'[b] = todo[b]
              /\ DOMAIN todo'[a] = DOMAIN todo[a]
              /\ s \in Step
              /\ Head(todo'[a]) = [s EXCEPT !.commit = None]
              /\ todo'[a] = [todo[a] EXCEPT ![1] = Head(todo'[a])]
          <5>1. todo \in [Actor -> Seq(Step)]
            BY DEF Shape, TypeOK
          <5>2. todo' = [todo EXCEPT ![a][1].commit = None]
            BY <3>1, <3>3
          <5> QED
            BY ONLY <1>2, <5>1, <5>2, CommitChanges DEF s
        <4>2. Head(todo'[a]).commit = None
          BY <4>1 DEF Step
        <4>3. \A i \in DOMAIN todo'[a] :
                 todo'[a][i] = IF i = 1 THEN Head(todo'[a]) ELSE todo[a][i]
          BY <4>1
        <4> QED
          BY <3>2, <3>3, <4>1, <4>2, <4>3 DEF Start
      <3>4. CASE s.state # "pending"
        BY <3>1, <3>2, <3>4 DEF Start
      <3> QED
        BY <3>3, <3>4
    <2> QED
      BY <2>1, <2>2
  <1>4. OwnCommits'
    <2>1. \A p \in PR : \A c \in Commit : Refers(p, c)' => Refers(p, c)
      BY <1>1, <1>3, FewerReferences
    <2> QED
      BY <1>1, <2>1, FewerCommits
  <1>5. StatusRequests'
    <2> SUFFICES ASSUME NEW b \in Actor, request'[b] \in {"sent", "executed"},
                        OnStatus(Head(todo'[b]))
                 PROVE  LET t == Head(todo'[b]) IN
                        /\ request'[b] = "executed" => status[t.commit] = t.state
                        /\ t.state = "pending" => \/ branch[t.pr] = t.commit
                                                  \/ status[branch[t.pr]] # "success"
      BY <1>1 DEF StatusRequests
    <2>1. CASE b = a
      BY <1>3, <2>1
    <2>2. CASE b # a
      BY <1>3, <2>2 DEF StatusRequests
    <2> QED
      BY <2>1, <2>2
  <1>6. ASSUME NEW p \in PR
        PROVE  (ExecutedFor(p) => ExecutedFor(p)') /\ (StatusIsReal(p) => StatusIsReal(p)')
    BY <1>1, <1>3 DEF ExecutedFor, StatusIsReal
  <1> QED
    BY <1>4, <1>5, <1>6

LEMMA StepStatuses ==
    ASSUME StatusInvariant, ~Lossy, [Next]_vars
    PROVE  StatusInvariant'
  <1>1. Shape /\ Shape'
    BY StepShape DEF StatusInvariant
  <1>2. CASE \E p \in PR : Push(p)
    BY <1>1, <1>2, PushStatuses
  <1>3. CASE \E a \in Actor : Send(a) \/ LookupHead(a) \/ Execute(a) \/ Succeed(a) \/ Fail(a)
    BY <1>1, <1>3, SendStatuses, ExecuteStatuses, SucceedStatuses, FailStatuses
  <1>4. CASE /\ \A p \in PR : ~Push(p)
             /\ \A a \in Actor : ~(Send(a) \/ LookupHead(a) \/ Execute(a) \/ Succeed(a) \/ Fail(a))
    <2>1. /\ UNCHANGED <<status, request>>
          /\ \A b \in Actor : request[b] # "none" => todo'[b] = todo[b]
      BY <1>1, <1>4, NotReporting DEF github
    <2>2. /\ UNCHANGED <<branch, used, reported>>
          /\ \A p \in PR : \A c \in Commit : Refers(p, c)' => Refers(p, c)
      BY <1>1, <1>4, NotReportingRefers
    <2>3. OwnCommits'
      BY <2>1, <2>2, FewerCommits DEF StatusInvariant
    <2>4. StatusRequests'
      BY <2>1, <2>2 DEF StatusInvariant, StatusRequests
    <2>5. ASSUME NEW p \in PR
          PROVE  (ExecutedFor(p) => ExecutedFor(p)') /\ (StatusIsReal(p) => StatusIsReal(p)')
      BY <2>1, <2>2 DEF ExecutedFor, StatusIsReal
    <2> QED
      BY <1>1, <2>3, <2>4, <2>5 DEF StatusInvariant
  <1> QED
    BY <1>2, <1>3, <1>4

(* The remembered status is the one that GitHub shows (queue.go:893), unless   *)
(* two branches have the same head, or the answer to a request gets lost.      *)
THEOREM StatusCacheIsTrue ==
    ASSUME ~SharedCommits, ~Lossy
    PROVE  SafetySpec => []CachedStatusIsReal
  <1>1. Init => StatusInvariant
    BY InitStatuses
  <1>2. StatusInvariant /\ [Next]_vars => StatusInvariant'
    BY StepStatuses
  <1>3. StatusInvariant => CachedStatusIsReal
    BY DEF StatusInvariant, CachedStatusIsReal, StatusRequestOf, ExecutedFor, StatusIsReal
  <1> QED
    BY <1>1, <1>2, <1>3, PTL DEF SafetySpec

(* What TLC checks as Invariant, for any PRs and commits. *)
THEOREM InvariantHolds ==
    ASSUME ~SharedCommits, ~Lossy
    PROVE  SafetySpec => []Invariant
  <1>1. Init => Invariant
    BY InitLabels, InitStatuses DEF Invariant
  <1>2. Invariant /\ [Next]_vars => Invariant'
    BY StepLabels, StepStatuses DEF Invariant
  <1> QED
    BY <1>1, <1>2, PTL DEF SafetySpec

-----------------------------------------------------------------------------
(* Pull requests that left. *)

LEMMA InitLeft == Init => LeftInvariant
  BY DEF Init, LeftInvariant, FirstIsActive, SuccessIsWorkers, CancelsComeFirst, Actor

LEMMA OneMore ==
    ASSUME NEW S, NEW t \in Seq(S), NEW x \in S
    PROVE  /\ t \o <<x>> \in Seq(S)
           /\ Len(t \o <<x>>) = Len(t) + 1
           /\ \A i \in 1..Len(t) : (t \o <<x>>)[i] = t[i]
           /\ (t \o <<x>>)[Len(t) + 1] = x
  <1>1. <<x>> \in Seq(S) /\ Len(<<x>>) = 1 /\ <<x>>[1] = x
    OBVIOUS
  <1> QED
    BY <1>1, ConcatProperties

LEMMA SequencesWithNothing ==
    ASSUME NEW c, NEW r, NEW w
    PROVE  /\ <<c, r>> \o << >> = <<c, r>>
           /\ <<c, r>> \o <<w>> \o << >> = <<c, r>> \o <<w>>
  <1> DEFINE S == {c, r, w}
  <1>1. <<c, r>> \in Seq(S) /\ <<w>> \in Seq(S)
    OBVIOUS
  <1>2. <<c, r>> \o <<w>> \in Seq(S)
    BY <1>1, Sequences
  <1> HIDE DEF S
  <1> QED
    BY <1>1, <1>2, ConcatEmptySeq

(* The steps after a PR was dequeued: it is cancelled first. *)
LEMMA AfterDequeueElements ==
    ASSUME NEW p \in PR, NEW pending \in BOOLEAN, NEW n \in PR \cup {None}
    PROVE  LET s == AfterDequeue(p, pending, n) IN
           /\ \A i \in DOMAIN s : /\ s[i].state # "success"
                                  /\ s[i].op = "cancel" => i = 1 /\ s[i].pr = p
           /\ \E i \in DOMAIN s : s[i].pr = p /\ s[i].op = "cancel"
           /\ pending => \E i \in DOMAIN s : s[i].pr = p /\ s[i].state = "pending"
  <1> DEFINE s == AfterDequeue(p, pending, n)
             c == CancelAction(p)
             r == RemoveLabel(p)
             w == Pending(p)
             l == AddLabel(n, TRUE)
  <1>1. /\ c.state = "none" /\ c.op = "cancel" /\ c.pr = p
        /\ r.state = "none" /\ r.op # "cancel"
        /\ w.state = "pending" /\ w.op # "cancel" /\ w.pr = p
        /\ l.state = "none" /\ l.op # "cancel"
    BY DEF CancelAction, RemoveLabel, Pending, AddLabel
  <1> DEFINE Fine(t) == /\ t \in Seq({c, r, w, l})
                        /\ Len(t) >= 2 /\ t[1] = c
                        /\ \A i \in DOMAIN t : /\ t[i].state # "success"
                                               /\ t[i].op = "cancel" => i = 1
             t1 == <<c, r>>
             t2 == IF pending THEN t1 \o <<w>> ELSE t1
             t3 == IF n \notin {first, None} THEN t2 \o <<l>> ELSE t2
  <1> HIDE DEF c, r, w, l
  <1>2. s = t3
    BY SequencesWithNothing DEF AfterDequeue, c, r, w, l
  <1>3. Fine(t1) /\ DOMAIN t1 = 1..2
    BY <1>1
  <1>4. ASSUME NEW t, Fine(t), NEW x \in {c, r, w, l}, x.state # "success", x.op # "cancel"
        PROVE  Fine(t \o <<x>>) /\ (t \o <<x>>)[Len(t) + 1] = x
               /\ Len(t \o <<x>>) = Len(t) + 1
               /\ \A i \in 1..Len(t) : (t \o <<x>>)[i] = t[i]
    <2>1. /\ t \o <<x>> \in Seq({c, r, w, l})
          /\ Len(t \o <<x>>) = Len(t) + 1
          /\ \A i \in 1..Len(t) : (t \o <<x>>)[i] = t[i]
          /\ (t \o <<x>>)[Len(t) + 1] = x
      BY <1>4, OneMore
    <2>2. DOMAIN t = 1..Len(t) /\ DOMAIN (t \o <<x>>) = 1..Len(t) + 1 /\ Len(t) \in Nat
      BY <1>4, <2>1, LenProperties
    <2> HIDE DEF Fine
    <2>3. Fine(t \o <<x>>)
      BY <1>4, <2>1, <2>2 DEF Fine
    <2> QED
      BY <2>1, <2>3
  <1> HIDE DEF Fine, t1
  <1>5. Fine(t2) /\ (pending => Len(t2) = 3 /\ t2[3] = w) /\ Len(t2) \in 2..3
    <2>1. Len(t1) = 2
      BY DEF t1
    <2>2. CASE pending
      <3>1. w.state # "success" /\ w.op # "cancel" /\ w \in {c, r, w, l}
        BY <1>1
      <3>2. Fine(t1 \o <<w>>) /\ (t1 \o <<w>>)[Len(t1) + 1] = w
            /\ Len(t1 \o <<w>>) = Len(t1) + 1
        BY <1>3, <1>4, <3>1
      <3>3. t2 = t1 \o <<w>>
        BY <2>2
      <3> QED
        BY <2>1, <3>2, <3>3
    <2>3. CASE ~pending
      BY <1>3, <2>1, <2>3
    <2> QED
      BY <2>2, <2>3
  <1> HIDE DEF t2
  <1>6. Fine(t3) /\ (pending => Len(t3) >= 3 /\ t3[3] = w)
    <2>1. CASE n \notin {first, None}
      BY <1>1, <1>4, <1>5, <2>1
    <2>2. CASE n \in {first, None}
      BY <1>5, <2>2
    <2> QED
      BY <2>1, <2>2
  <1> HIDE DEF t3
  <1>7. /\ \A i \in DOMAIN t3 : /\ t3[i].state # "success"
                                /\ t3[i].op = "cancel" => i = 1
        /\ 1 \in DOMAIN t3 /\ t3[1] = c
        /\ pending => 3 \in DOMAIN t3 /\ t3[3] = w
    BY <1>6 DEF Fine
  <1>8. /\ \A i \in DOMAIN s : /\ s[i].state # "success"
                               /\ s[i].op = "cancel" => i = 1 /\ s[i].pr = p
        /\ \E i \in DOMAIN s : s[i].pr = p /\ s[i].op = "cancel"
        /\ pending => \E i \in DOMAIN s : s[i].pr = p /\ s[i].state = "pending"
    BY <1>1, <1>2, <1>7
  <1> QED
    BY <1>8 DEF s

LEMMA StepsOfPRs ==
    ASSUME Shape
    PROVE  \A a \in Actor : \A i \in DOMAIN todo[a] : todo[a][i].pr \in PR
  <1> SUFFICES ASSUME NEW a \in Actor, NEW i \in DOMAIN todo[a] PROVE todo[a][i].pr \in PR
    OBVIOUS
  <1>1. todo[a] \in Seq(Step)
    BY DEF Shape, TypeOK
  <1>2. todo[a][i] \in Step
    BY <1>1, ElementOfSeq
  <1> QED
    BY <1>2 DEF Step

(* Go-routine a has new steps to take. *)
LEMMA NewStepsLeft ==
    ASSUME Shape, NEW a \in Actor, todo[a] = << >>, NEW s,
           todo' = [todo EXCEPT ![a] = s], UNCHANGED request
    PROVE  /\ \A b \in Actor : todo'[b] = IF b = a THEN s ELSE todo[b]
           /\ \A p \in PR : /\ SuccessRequestOf(p)' <=> SuccessRequestOf(p)
                            /\ CancelFor(p) => CancelFor(p)'
                            /\ \A b \in Actor : SetsPending(b, p) => SetsPending(b, p)'
  <1>1. /\ \A b \in Actor : todo'[b] = IF b = a THEN s ELSE todo[b]
        /\ DOMAIN todo[a] = {}
        /\ \A b \in Actor : request[b] # "none" => b # a /\ todo'[b] = todo[b]
    BY DEF Shape, TypeOK, RequestsAreFormed
  <1> QED
    BY <1>1 DEF SuccessRequestOf, CancelFor, SetsPending

(* The first step of go-routine a is done, or nothing is sent for it. *)
LEMMA DropLeft ==
    ASSUME Shape, CancelsComeFirst, SuccessIsWorkers, UNCHANGED place,
           NEW a \in Actor, todo[a] # << >>, Drop(a),
           worker'.pc = worker.pc, worker'.pr = worker.pr
    PROVE  /\ SuccessIsWorkers'
           /\ CancelsComeFirst'
           /\ \A p \in PR :
                 /\ SuccessRequestOf(p)' => SuccessRequestOf(p)
                 /\ CancelFor(p) => \/ CancelFor(p)'
                                    \/ Head(todo[a]).op = "cancel" /\ Head(todo[a]).pr = p
                 /\ \A b \in Actor : SetsPending(b, p) =>
                       \/ SetsPending(b, p)'
                       \/ /\ Head(todo[a]).pr = p /\ Head(todo[a]).state = "pending"
  <1>1. /\ \A b \in Actor \ {a} : todo'[b] = todo[b]
        /\ \A i \in DOMAIN todo'[a] : i + 1 \in DOMAIN todo[a] /\ todo'[a][i] = todo[a][i + 1]
    BY DropSteps DEF Shape, TypeOK
  <1>2. /\ todo'[a] = Tail(todo[a]) /\ todo[a] \in Seq(Step)
        /\ \A b \in Actor : request'[b] = IF b = a THEN "none" ELSE request[b]
    BY DEF Drop, Shape, TypeOK
  <1>3. /\ Head(todo[a]) = todo[a][1]
        /\ \A j \in DOMAIN todo[a] : j = 1 \/ (j - 1 \in DOMAIN todo'[a] /\ todo'[a][j - 1] = todo[a][j])
        /\ \A i \in DOMAIN todo'[a] : i \in Nat \ {0}
    BY <1>2, EmptySeq
  <1>4. SuccessIsWorkers'
    BY <1>1 DEF SuccessIsWorkers
  <1>5. \A i \in DOMAIN todo'[a] : todo'[a][i].op # "cancel"
    <2> SUFFICES ASSUME NEW i \in DOMAIN todo'[a], todo'[a][i].op = "cancel" PROVE FALSE
      OBVIOUS
    <2>1. i + 1 = 1
      BY <1>1, StepsOfPRs DEF CancelsComeFirst
    <2> QED
      BY <1>3, <2>1
  <1>6. CancelsComeFirst'
    BY <1>1, <1>5 DEF CancelsComeFirst, SetsPending
  <1>7. ASSUME NEW p \in PR
        PROVE  /\ SuccessRequestOf(p)' => SuccessRequestOf(p)
               /\ CancelFor(p) => \/ CancelFor(p)'
                                  \/ Head(todo[a]).op = "cancel" /\ Head(todo[a]).pr = p
               /\ \A b \in Actor : SetsPending(b, p) =>
                     \/ SetsPending(b, p)'
                     \/ Head(todo[a]).pr = p /\ Head(todo[a]).state = "pending"
    <2>1. SuccessRequestOf(p)' => SuccessRequestOf(p)
      BY <1>1, <1>2 DEF SuccessRequestOf
    <2>2. ASSUME NEW b \in Actor, NEW j \in DOMAIN todo[b]
          PROVE  \/ b = a /\ todo[b][j] = Head(todo[a])
                 \/ \E i \in DOMAIN todo'[b] : todo'[b][i] = todo[b][j]
      BY <1>1, <1>3
    <2> QED
      BY <2>1, <2>2 DEF CancelFor, SetsPending
  <1> QED
    BY <1>4, <1>6, <1>7

(* What keeps the withdrawal of a PR that left. *)
LEMMA WithdrawnKept ==
    ASSUME NEW p \in PR, Withdrawn(p), place[p] # "merged",
           CancelFor(p) => CancelFor(p)',
           worker'.pc # "idle" /\ worker'.pr = p =>
              worker.pc # "idle" /\ worker.pr = p /\ (worker.cancelled => worker'.cancelled),
           \A a \in Actor : SetsPending(a, p) => \E b \in Actor : SetsPending(b, p)',
           SuccessRequestOf(p)' => SuccessRequestOf(p),
           status'[branch'[p]] = "success" => status[branch[p]] = "success"
    PROVE  Withdrawn(p)'
  BY DEF Withdrawn

(* Actions that change neither the steps nor the requests. *)
LEMMA FrameLeft ==
    ASSUME Shape, LeftInvariant, UNCHANGED <<todo, request>>,
           NEW p \in PR, Withdrawn(p), place[p] # "merged",
           worker'.pc # "idle" /\ worker'.pr = p =>
              worker.pc # "idle" /\ worker.pr = p /\ (worker.cancelled => worker'.cancelled),
           status'[branch'[p]] = "success" => status[branch[p]] = "success"
    PROVE  Withdrawn(p)'
  <1>1. /\ CancelFor(p) => CancelFor(p)'
        /\ \A a \in Actor : SetsPending(a, p) => SetsPending(a, p)'
        /\ SuccessRequestOf(p)' => SuccessRequestOf(p)
    BY DEF CancelFor, SetsPending, SuccessRequestOf
  <1> QED
    BY <1>1, WithdrawnKept

LEMMA QueueLeft ==
    ASSUME Shape, LeftInvariant,
           \/ \E p \in PR : \/ Enqueue(p) \/ Resume(p)
                            \/ \E pending \in BOOLEAN : LoopDequeueSuspended(p, pending)
    PROVE  LeftInvariant'
  <1> USE DEF LeftInvariant, Shape, TypeOK, Actor
  <1>1. UNCHANGED <<worker, todo, request, caches, github, branches, setbacks>>
    BY DEF Enqueue, Resume, LoopDequeueSuspended
  <1>2. PICK q \in PR, to \in {"active", "out", "merged"} :
           /\ place[q] \in {"new", "suspended"}
           /\ place' = [place EXCEPT ![q] = to]
           /\ to = "out" => place[q] = "suspended"
           /\ first' = first \/ (first' = q /\ to = "active")
    <2>1. ASSUME NEW p \in PR, Enqueue(p) \/ Resume(p)
          PROVE  /\ place[p] \in {"new", "suspended"}
                 /\ place' = [place EXCEPT ![p] = "active"]
                 /\ first' = first \/ first' = p
      BY <2>1 DEF Enqueue, Resume
    <2>2. ASSUME NEW p \in PR, NEW pending \in BOOLEAN, LoopDequeueSuspended(p, pending)
          PROVE  /\ place[p] = "suspended" /\ first' = first
                 /\ \/ place' = [place EXCEPT ![p] = "out"]
                    \/ place' = [place EXCEPT ![p] = "merged"]
      <3>1. CASE pending
        BY <2>2, <3>1 DEF LoopDequeueSuspended
      <3>2. CASE ~pending
        BY <2>2, <3>2 DEF LoopDequeueSuspended
      <3> QED
        BY <3>1, <3>2
    <2>3. ASSUME NEW p \in PR, Enqueue(p) \/ Resume(p)
          PROVE  \E q \in PR, to \in {"active", "out", "merged"} :
                    /\ place[q] \in {"new", "suspended"}
                    /\ place' = [place EXCEPT ![q] = to]
                    /\ to = "out" => place[q] = "suspended"
                    /\ first' = first \/ (first' = q /\ to = "active")
      BY <2>1, <2>3
    <2>4. ASSUME NEW p \in PR, NEW pending \in BOOLEAN, LoopDequeueSuspended(p, pending)
          PROVE  \E q \in PR, to \in {"active", "out", "merged"} :
                    /\ place[q] \in {"new", "suspended"}
                    /\ place' = [place EXCEPT ![q] = to]
                    /\ to = "out" => place[q] = "suspended"
                    /\ first' = first \/ (first' = q /\ to = "active")
      <3>1. /\ place[p] = "suspended" /\ first' = first
            /\ \/ place' = [place EXCEPT ![p] = "out"]
               \/ place' = [place EXCEPT ![p] = "merged"]
        BY <2>2, <2>4
      <3>2. CASE place' = [place EXCEPT ![p] = "out"]
        <4> WITNESS p \in PR, "out" \in {"active", "out", "merged"}
        <4> QED
          BY <3>1, <3>2
      <3>3. CASE place' = [place EXCEPT ![p] = "merged"]
        <4> WITNESS p \in PR, "merged" \in {"active", "out", "merged"}
        <4> QED
          BY <3>1, <3>3
      <3> QED
        BY <3>1, <3>2, <3>3
    <2> QED
      BY <2>3, <2>4
  <1>3. FirstIsActive'
    BY <1>2 DEF FirstIsActive
  <1>4. SuccessIsWorkers'
    BY <1>1 DEF SuccessIsWorkers
  <1>5. CancelsComeFirst'
    <2>1. \A a \in Actor : \A p \in PR : SetsPending(a, p) => SetsPending(a, p)'
      BY <1>1 DEF SetsPending
    <2>2. \A a \in Actor : \A i \in DOMAIN todo[a] : todo[a][i].pr \in PR
      BY StepsOfPRs
    <2> QED
      BY <1>1, <1>2, <2>1, <2>2 DEF CancelsComeFirst
  <1>6. ASSUME setbacks = 0, NEW p \in PR, place'[p] \in {"suspended", "out"}
        PROVE  Withdrawn(p)'
    <2>1. place[p] \in {"suspended", "out"}
      BY <1>2, <1>6
    <2> QED
      BY <1>1, <1>6, <2>1, FrameLeft DEF github, branches
  <1> QED
    BY <1>1, <1>3, <1>4, <1>5, <1>6

LEMMA WorkerLeft ==
    ASSUME StatusInvariant, Shape', LeftInvariant,
           \/ CheckFirst \/ Return \/ Interrupt \/ Rest \/ UNCHANGED vars
           \/ \E p \in PR : Push(p)
    PROVE  LeftInvariant'
  <1> USE DEF LeftInvariant, Shape, TypeOK, Actor, StatusInvariant
  <1>1. UNCHANGED <<place, first, todo, request, status>>
    BY DEF CheckFirst, Return, Interrupt, Rest, vars, queue, github, Push
  <1>2. FirstIsActive' /\ CancelsComeFirst'
    BY <1>1 DEF FirstIsActive, CancelsComeFirst, SetsPending
  <1>3. SuccessIsWorkers'
    <2>1. CASE CheckFirst \/ Return
      <3>1. todo["worker"] = << >>
        BY <2>1 DEF CheckFirst, Return, WorkerState
      <3> QED
        BY <1>1, <3>1 DEF SuccessIsWorkers
    <2>2. CASE Interrupt
      BY <1>1, <2>2 DEF Interrupt, SuccessIsWorkers
    <2>3. CASE UNCHANGED worker
      BY <1>1, <2>3 DEF SuccessIsWorkers
    <2> QED
      BY <2>1, <2>2, <2>3 DEF Rest, vars, Push
  <1>4. ASSUME setbacks' = 0, NEW p \in PR, place'[p] \in {"suspended", "out"}
        PROVE  Withdrawn(p)'
    <2>1. ~Interrupt
      BY <1>4 DEF Interrupt, Setback
    <2>2. setbacks = 0
      BY <1>4, <2>1 DEF CheckFirst, Return, Rest, vars, Push
    <2>3. place[p] \in {"suspended", "out"} /\ Withdrawn(p)
      BY <1>1, <1>4, <2>2
    <2>4. CASE CheckFirst
      <3>1. worker'.pr # p /\ UNCHANGED branch
        BY <2>3, <2>4 DEF CheckFirst, FirstIsActive, branches
      <3> QED
        BY <1>1, <2>3, <3>1, FrameLeft
    <2>5. CASE Return
      <3>1. worker'.pc = "idle" /\ UNCHANGED branch
        BY <2>5 DEF Return, WorkerIdle, branches
      <3> QED
        BY <1>1, <2>3, <3>1, FrameLeft
    <2>6. CASE Rest \/ UNCHANGED vars
      <3>1. UNCHANGED <<worker, branch>>
        BY <2>6 DEF Rest, vars, branches
      <3> QED
        BY <1>1, <2>3, <3>1, FrameLeft
    <2>7. ASSUME NEW q \in PR, Push(q)
          PROVE  Withdrawn(p)'
      <3>1. PICK c \in Commit \ used : branch' = [branch EXCEPT ![q] = c]
        BY <2>7 DEF Push
      <3>2. status[c] = "none" /\ UNCHANGED worker
        BY <2>7 DEF Push, OwnCommits
      <3>3. status'[branch'[p]] = "success" => status[branch[p]] = "success"
        BY <1>1, <3>1, <3>2
      <3> QED
        BY <1>1, <2>3, <3>2, <3>3, FrameLeft
    <2> QED
      BY <2>1, <2>4, <2>5, <2>6, <2>7
  <1> QED
    BY <1>2, <1>3, <1>4

(* The steps after a dequeuing withdraw the PR, and no other is disturbed. *)
LEMMA DequeueLeft ==
    ASSUME Shape, LeftInvariant, NEW a \in Actor, NEW q \in PR, NEW pending \in BOOLEAN,
           NEW n \in PR \cup {None},
           todo[a] = << >>,
           place[q] = "active",
           place' = [place EXCEPT ![q] = IF pending THEN "out" ELSE "merged"],
           IF q # first THEN n = first
           ELSE IF Active = {q} THEN n = None ELSE n \in Active \ {q},
           first' = n,
           todo' = [todo EXCEPT ![a] = AfterDequeue(q, pending, n)],
           worker' = [worker EXCEPT !.pc = IF a = "worker" THEN "act" ELSE @],
           a = "worker" => worker.pc = "fetch" /\ worker.pr = q /\ ~pending,
           UNCHANGED <<request, status, branch, setbacks>>
    PROVE  LeftInvariant'
  <1> DEFINE s == AfterDequeue(q, pending, n)
  <1>1. /\ \A i \in DOMAIN s : /\ s[i].state # "success"
                               /\ s[i].op = "cancel" => i = 1 /\ s[i].pr = q
        /\ \E i \in DOMAIN s : s[i].pr = q /\ s[i].op = "cancel"
        /\ pending => \E i \in DOMAIN s : s[i].pr = q /\ s[i].state = "pending"
    BY AfterDequeueElements
  <1>2. todo' = [todo EXCEPT ![a] = s]
    OBVIOUS
  <1> HIDE DEF s
  <1>3. /\ \A b \in Actor : todo'[b] = IF b = a THEN s ELSE todo[b]
        /\ \A p \in PR : /\ SuccessRequestOf(p)' <=> SuccessRequestOf(p)
                         /\ CancelFor(p) => CancelFor(p)'
                         /\ \A b \in Actor : SetsPending(b, p) => SetsPending(b, p)'
    BY <1>2, NewStepsLeft
  <1>4. /\ worker'.pr = worker.pr /\ worker'.cancelled = worker.cancelled
        /\ worker'.pc # "idle" => worker.pc # "idle"
        /\ worker.pc # "idle" => worker'.pc # "idle"
    BY DEF Shape, TypeOK
  <1>5. \A p \in PR : place'[p] = IF p = q THEN IF pending THEN "out" ELSE "merged"
                                  ELSE place[p]
    BY DEF Shape, TypeOK
  <1>0. CancelFor(q)' /\ (pending => SetsPending(a, q)')
    <2>1. todo'[a] = s
      BY <1>3
    <2>2. CancelFor(q)'
      BY <1>1, <2>1 DEF CancelFor
    <2>3. pending => SetsPending(a, q)'
      BY <1>1, <2>1 DEF SetsPending
    <2> QED
      BY <2>2, <2>3
  <1>6. FirstIsActive'
    <2>1. first' # None => first' \in PR /\ first' # q /\ place[first'] = "active"
      BY DEF Active, LeftInvariant, FirstIsActive, Shape, TypeOK
    <2> QED
      BY <1>5, <2>1 DEF FirstIsActive
  <1>7. SuccessIsWorkers'
    BY <1>1, <1>3, <1>4 DEF LeftInvariant, SuccessIsWorkers
  <1>8. CancelsComeFirst'
    <2> SUFFICES ASSUME NEW b \in Actor, NEW p \in PR, NEW i \in DOMAIN todo'[b],
                        todo'[b][i].pr = p, todo'[b][i].op = "cancel"
                 PROVE  /\ i = 1
                        /\ place'[p] = "merged" \/ (place'[p] = "out" /\ SetsPending(b, p)')
      BY DEF CancelsComeFirst
    <2>1. CASE b = a
      <3>1. i = 1 /\ p = q
        BY <1>1, <1>3, <2>1
      <3>2. pending => SetsPending(b, q)'
        BY <1>0, <2>1
      <3> QED
        BY <1>5, <3>1, <3>2
    <2>2. CASE b # a
      <3>1. /\ i = 1
            /\ place[p] = "merged" \/ (place[p] = "out" /\ SetsPending(b, p))
        BY <1>3, <2>2 DEF LeftInvariant, CancelsComeFirst
      <3> QED
        BY <1>3, <1>5, <3>1
    <2> QED
      BY <2>1, <2>2
  <1>9. ASSUME setbacks' = 0, NEW p \in PR, place'[p] \in {"suspended", "out"}
        PROVE  Withdrawn(p)'
    <2>1. CASE p = q
      <3>1. pending
        BY <1>5, <1>9, <2>1
      <3>2. CancelFor(q)' /\ SetsPending(a, q)'
        BY <1>0, <3>1
      <3> QED
        BY <2>1, <3>2 DEF Withdrawn
    <2>2. CASE p # q
      <3>1. place[p] \in {"suspended", "out"} /\ Withdrawn(p)
        BY <1>5, <1>9, <2>2 DEF LeftInvariant
      <3> QED
        BY <1>3, <1>4, <3>1, WithdrawnKept
    <2> QED
      BY <2>1, <2>2
  <1> QED
    BY <1>6, <1>7, <1>8, <1>9 DEF LeftInvariant

(* Steps of the worker for the PR that it works on. *)
LEMMA ActLeft ==
    ASSUME Shape, LeftInvariant, worker.pc = "fetch", NEW s,
           \A i \in DOMAIN s : /\ s[i].op # "cancel"
                               /\ s[i].state = "success" => s[i].pr = worker.pr /\ ~s[i].background,
           todo' = [todo EXCEPT !["worker"] = s],
           worker' \in [pc : {"act", "suspend"}, pr : {worker.pr},
                        cancelled : {worker.cancelled, TRUE}],
           UNCHANGED <<request, status, branch, setbacks>>,
           \/ UNCHANGED <<place, first>>
           \/ /\ place[worker.pr] = "active"
              /\ place' = [place EXCEPT ![worker.pr] = "suspended"]
              /\ \/ first' = first /\ first # worker.pr
                 \/ first' = None
                 \/ first' \in Active \ {worker.pr}
              /\ worker'.cancelled
              /\ \E i \in DOMAIN s : s[i].pr = worker.pr /\ s[i].state = "pending"
    PROVE  LeftInvariant'
  <1>1. todo["worker"] = << >> /\ "worker" \in Actor /\ worker.pr \in PR
    BY DEF Shape, WorkerState, Actor
  <1>2. /\ \A b \in Actor : todo'[b] = IF b = "worker" THEN s ELSE todo[b]
        /\ \A p \in PR : /\ SuccessRequestOf(p)' <=> SuccessRequestOf(p)
                         /\ CancelFor(p) => CancelFor(p)'
                         /\ \A b \in Actor : SetsPending(b, p) => SetsPending(b, p)'
    BY <1>1, NewStepsLeft
  <1>3. /\ worker'.pr = worker.pr /\ (worker.cancelled => worker'.cancelled)
        /\ worker'.pc # "idle"
    BY DEF Shape, TypeOK
  <1>4. FirstIsActive'
    BY <1>1 DEF LeftInvariant, FirstIsActive, Active, Shape, TypeOK
  <1>5. SuccessIsWorkers'
    BY <1>2, <1>3 DEF LeftInvariant, SuccessIsWorkers
  <1>6. \A p \in PR : \/ place'[p] = place[p]
                      \/ p = worker.pr /\ place[p] = "active" /\ place'[p] = "suspended"
    BY <1>1 DEF Shape, TypeOK
  <1>7. CancelsComeFirst'
    <2> SUFFICES ASSUME NEW b \in Actor, NEW p \in PR, NEW i \in DOMAIN todo'[b],
                        todo'[b][i].pr = p, todo'[b][i].op = "cancel"
                 PROVE  /\ i = 1
                        /\ place'[p] = "merged" \/ (place'[p] = "out" /\ SetsPending(b, p)')
      BY DEF CancelsComeFirst
    <2>1. b # "worker" /\ todo'[b] = todo[b]
      BY <1>2
    <2>2. /\ i = 1
          /\ place[p] = "merged" \/ (place[p] = "out" /\ SetsPending(b, p))
      BY <2>1 DEF LeftInvariant, CancelsComeFirst
    <2> QED
      BY <1>2, <1>6, <2>2
  <1>8. ASSUME setbacks' = 0, NEW p \in PR, place'[p] \in {"suspended", "out"}
        PROVE  Withdrawn(p)'
    <2>1. CASE place'[p] = place[p]
      <3>1. Withdrawn(p) /\ place[p] # "merged"
        BY <1>8, <2>1 DEF LeftInvariant
      <3> QED
        BY <1>2, <1>3, <3>1, WithdrawnKept
    <2>2. CASE place'[p] # place[p]
      <3>1. p = worker.pr /\ place' # place
        BY <1>6, <2>2
      <3>2. worker'.cancelled /\ SetsPending("worker", p)'
        BY <1>1, <1>2, <3>1 DEF SetsPending
      <3> QED
        BY <1>1, <3>2 DEF Withdrawn
    <2> QED
      BY <2>1, <2>2
  <1> QED
    BY <1>4, <1>5, <1>7, <1>8 DEF LeftInvariant

(* A step is done: a pending status only if the PR is not shown as successful. *)
LEMMA DoneLeft ==
    ASSUME Shape, LeftInvariant, NEW a \in Actor, todo[a] # << >>, Drop(a),
           UNCHANGED <<place, first, status, branch>>,
           worker'.pc = worker.pc, worker'.pr = worker.pr,
           worker.cancelled => worker'.cancelled,
           Head(todo[a]).op = "cancel" /\ worker.pc # "idle" /\ worker.pr = Head(todo[a]).pr =>
              worker'.cancelled,
           setbacks' = 0 => setbacks = 0,
           setbacks' = 0 /\ Head(todo[a]).state = "pending" =>
              \A p \in PR : p = Head(todo[a]).pr =>
                 ~SuccessRequestOf(p) /\ status[branch[p]] # "success"
    PROVE  LeftInvariant'
  <1> DEFINE s == Head(todo[a])
  <1>1. /\ SuccessIsWorkers'
        /\ CancelsComeFirst'
        /\ \A p \in PR :
              /\ SuccessRequestOf(p)' => SuccessRequestOf(p)
              /\ CancelFor(p) => CancelFor(p)' \/ (s.op = "cancel" /\ s.pr = p)
              /\ \A b \in Actor : SetsPending(b, p) =>
                    SetsPending(b, p)' \/ (s.pr = p /\ s.state = "pending")
    BY DropLeft DEF LeftInvariant
  <1>2. FirstIsActive'
    BY DEF LeftInvariant, FirstIsActive
  <1>3. ASSUME setbacks' = 0, NEW p \in PR, place'[p] \in {"suspended", "out"}
        PROVE  Withdrawn(p)'
    <2>1. Withdrawn(p)
      BY <1>3 DEF LeftInvariant
    <2>2. ~CancelFor(p)' /\ worker'.pc # "idle" /\ worker'.pr = p => worker'.cancelled
      BY <1>1, <2>1 DEF Withdrawn
    <2>3. CASE s.pr = p /\ s.state = "pending"
      <3>1. ~SuccessRequestOf(p) /\ status[branch[p]] # "success"
        BY <1>3, <2>3
      <3> QED
        BY <1>1, <2>2, <3>1 DEF Withdrawn
    <2>4. CASE ~(s.pr = p /\ s.state = "pending")
      <3>1. \A b \in Actor : SetsPending(b, p) => SetsPending(b, p)'
        BY <1>1, <2>4
      <3> QED
        BY <1>1, <2>1, <2>2, <3>1 DEF Withdrawn
    <2> QED
      BY <2>3, <2>4
  <1> QED
    BY <1>1, <1>2, <1>3 DEF LeftInvariant

LEMMA StepHead ==
    ASSUME Shape, NEW a \in Actor, todo[a] # << >>
    PROVE  LET s == Head(todo[a]) IN
           /\ s = todo[a][1] /\ 1 \in DOMAIN todo[a] /\ s.pr \in PR
           /\ OnStatus(s) <=> s.state # "none"
           /\ s.op = "cancel" => s.state = "none"
           /\ s.state = "pending" => s.background
  <1>1. todo[a] \in Seq(FormedStep)
    BY DEF Shape, StepsAreFormed
  <1>2. 1 \in DOMAIN todo[a] /\ Head(todo[a]) = todo[a][1] /\ todo[a][1] \in FormedStep
    BY <1>1, EmptySeq
  <1> QED
    BY <1>2 DEF FormedStep, Step, OnStatus

LEMMA CancelLeft ==
    ASSUME Shape, LeftInvariant, NEW a \in Actor, CancelActionForPR(a)
    PROVE  LeftInvariant'
  <1> DEFINE s == Head(todo[a])
  <1>1. /\ todo[a] # << >> /\ s.op = "cancel" /\ Drop(a)
        /\ worker' = [worker EXCEPT !.cancelled = @ \/ (worker.pc # "idle" /\ worker.pr = s.pr)]
        /\ UNCHANGED <<place, first, status, branch, setbacks>>
    BY DEF CancelActionForPR, queue, github, branches
  <1>2. s.state # "pending"
    BY <1>1, StepHead
  <1>3. /\ worker'.pc = worker.pc /\ worker'.pr = worker.pr
        /\ worker'.cancelled <=> worker.cancelled \/ (worker.pc # "idle" /\ worker.pr = s.pr)
    BY <1>1 DEF Shape, TypeOK
  <1> QED
    BY <1>1, <1>2, <1>3, DoneLeft

(* A pending status that GitHub knows, by the cache. *)
LEMMA SkipLeft ==
    ASSUME StatusInvariant, LeftInvariant, NEW a \in Actor, Skip(a)
    PROVE  LeftInvariant'
  <1> USE DEF StatusInvariant
  <1> DEFINE s == Head(todo[a])
  <1>1. /\ todo[a] # << >> /\ s.op # "cancel" /\ Drop(a)
        /\ IsCancelled(s) \/ Known(s)
        /\ LockFree(s) /\ request[a] = "none"
        /\ UNCHANGED <<worker, place, first, status, branch, setbacks>>
    BY DEF Skip, NextRequest, queue, github, branches
  <1>2. ASSUME s.state = "pending", NEW p \in PR, p = s.pr
        PROVE  ~SuccessRequestOf(p) /\ status[branch[p]] # "success"
    <2>1. OnStatus(s) /\ s.background
      BY <1>1, <1>2, StepHead
    <2>2. reported[p].state = "pending"
      BY <1>1, <1>2, <2>1 DEF IsCancelled, Known, OnStatus
    <2>3. \A b \in Actor : request[b] # "none" /\ OnStatus(Head(todo[b])) => Head(todo[b]).pr # p
      BY <1>1, <1>2, <2>1 DEF LockFree, OnStatus
    <2>4. ~ExecutedFor(p)
      BY <2>3 DEF ExecutedFor
    <2>5. ~SuccessRequestOf(p)
      <3>1. \A b \in Actor : request[b] # "none" /\ Head(todo[b]).state = "success" =>
               OnStatus(Head(todo[b]))
        BY RequestStep
      <3> QED
        BY <2>3, <3>1 DEF SuccessRequestOf
    <2> QED
      BY <2>2, <2>4, <2>5 DEF StatusIsReal
  <1> QED
    BY <1>1, <1>2, DoneLeft

LEMMA SucceedLeft ==
    ASSUME StatusInvariant, LeftInvariant, NEW a \in Actor, Succeed(a)
    PROVE  LeftInvariant'
  <1> USE DEF StatusInvariant
  <1> DEFINE s == Head(todo[a])
  <1>1. /\ request[a] = "executed" /\ Drop(a)
        /\ UNCHANGED <<worker, place, first, status, branch, setbacks>>
    BY DEF Succeed, queue, github, branches
  <1>2. /\ todo[a] # << >> /\ s.op # "cancel"
    BY <1>1 DEF Shape, RequestsAreFormed
  <1>3. ASSUME s.state = "pending", NEW p \in PR, p = s.pr
        PROVE  ~SuccessRequestOf(p) /\ status[branch[p]] # "success"
    <2>1. OnStatus(s)
      BY <1>2, <1>3, StepHead
    <2>2. status[branch[p]] # "success"
      BY <1>1, <1>3, <2>1 DEF StatusRequests
    <2>3. \A b \in Actor : request[b] # "none" /\ Head(todo[b]).state = "success" =>
             b # a /\ OnStatus(Head(todo[b]))
      BY <1>3, RequestStep
    <2>4. ~SuccessRequestOf(p)
      BY <1>1, <1>3, <2>1, <2>3 DEF SuccessRequestOf, Shape, Exclusive
    <2> QED
      BY <2>2, <2>4
  <1> QED
    BY <1>1, <1>2, <1>3, DoneLeft

(* A cancelled worker sends no success. *)
LEMMA SendLeft ==
    ASSUME Shape, LeftInvariant, NEW a \in Actor, Send(a)
    PROVE  LeftInvariant'
  <1> DEFINE s == Head(todo[a])
  <1>1. /\ todo[a] # << >>
        /\ ~IsCancelled(s)
        /\ request' = [request EXCEPT ![a] = Start(s)]
        /\ UNCHANGED <<place, first, worker, todo, status, branch, setbacks>>
    BY DEF Send, NextRequest, queue, github, branches
  <1>2. FirstIsActive' /\ SuccessIsWorkers' /\ CancelsComeFirst'
    BY <1>1 DEF LeftInvariant, FirstIsActive, SuccessIsWorkers, CancelsComeFirst, SetsPending
  <1>3. s = todo[a][1] /\ 1 \in DOMAIN todo[a]
    BY <1>1, StepHead
  <1>4. ASSUME setbacks' = 0, NEW p \in PR, place'[p] \in {"suspended", "out"}
        PROVE  Withdrawn(p)'
    <2>1. Withdrawn(p) /\ place[p] # "merged"
      BY <1>1, <1>4 DEF LeftInvariant
    <2>2. /\ CancelFor(p)' <=> CancelFor(p)
          /\ \A b \in Actor : SetsPending(b, p)' <=> SetsPending(b, p)
      BY <1>1 DEF CancelFor, SetsPending
    <2>3. CASE \E b \in Actor : SetsPending(b, p)
      BY <1>1, <2>1, <2>2, <2>3 DEF Withdrawn
    <2>4. CASE ~\E b \in Actor : SetsPending(b, p)
      <3>1. ~CancelFor(p)
        BY <2>1, <2>4 DEF LeftInvariant, CancelsComeFirst, CancelFor
      <3>2. ~(s.pr = p /\ s.state = "success")
        BY <1>1, <1>3, <2>1, <3>1 DEF Withdrawn, IsCancelled, LeftInvariant, SuccessIsWorkers
      <3>3. \A b \in Actor : request'[b] # "none" => b = a \/ request[b] # "none"
        BY <1>1 DEF Shape, TypeOK
      <3>4. SuccessRequestOf(p)' => SuccessRequestOf(p)
        BY <1>1, <3>2, <3>3 DEF SuccessRequestOf
      <3> QED
        BY <1>1, <2>1, <2>2, <3>4, WithdrawnKept
    <2> QED
      BY <2>3, <2>4
  <1> QED
    BY <1>2, <1>4 DEF LeftInvariant

(* Only the commit that the first step names changes. *)
LEMMA CommitLeft ==
    ASSUME Shape, LeftInvariant, NEW a \in Actor, todo[a] # << >>,
           NEW c \in Commit \cup {None}, todo' = [todo EXCEPT ![a][1].commit = c],
           UNCHANGED <<place, first, worker>>
    PROVE  /\ FirstIsActive' /\ SuccessIsWorkers' /\ CancelsComeFirst'
           /\ \A p \in PR : /\ CancelFor(p)' <=> CancelFor(p)
                            /\ \A b \in Actor : SetsPending(b, p)' <=> SetsPending(b, p)
           /\ \A b \in Actor : /\ Head(todo'[b]).pr = Head(todo[b]).pr
                               /\ Head(todo'[b]).state = Head(todo[b]).state
  <1> DEFINE s == Head(todo[a])
  <1>1. todo \in [Actor -> Seq(Step)]
    BY DEF Shape, TypeOK
  <1>2. /\ \A b \in Actor \ {a} : todo'[b] = todo[b]
        /\ DOMAIN todo'[a] = DOMAIN todo[a]
        /\ s = todo[a][1] /\ s \in Step
        /\ Head(todo'[a]) = [s EXCEPT !.commit = c]
        /\ todo'[a] = [todo[a] EXCEPT ![1] = Head(todo'[a])]
    BY <1>1, CommitChanges
  <1>3. /\ Head(todo'[a]).pr = s.pr /\ Head(todo'[a]).op = s.op
        /\ Head(todo'[a]).state = s.state /\ Head(todo'[a]).background = s.background
    BY <1>2 DEF Step
  <1> HIDE DEF s
  <1>4. \A i \in DOMAIN todo'[a] : todo'[a][i] = IF i = 1 THEN Head(todo'[a]) ELSE todo[a][i]
    BY <1>2
  <1>5. \A b \in Actor : /\ DOMAIN todo'[b] = DOMAIN todo[b]
                         /\ \A i \in DOMAIN todo[b] :
                               /\ todo'[b][i].pr = todo[b][i].pr
                               /\ todo'[b][i].op = todo[b][i].op
                               /\ todo'[b][i].state = todo[b][i].state
                               /\ todo'[b][i].background = todo[b][i].background
    BY <1>2, <1>3, <1>4
  <1>6. FirstIsActive' /\ SuccessIsWorkers'
    BY <1>5 DEF LeftInvariant, FirstIsActive, SuccessIsWorkers
  <1>7. \A p \in PR : /\ CancelFor(p)' <=> CancelFor(p)
                      /\ \A b \in Actor : SetsPending(b, p)' <=> SetsPending(b, p)
    BY <1>5 DEF CancelFor, SetsPending
  <1>8. CancelsComeFirst'
    BY <1>5, <1>7 DEF LeftInvariant, CancelsComeFirst
  <1> QED
    BY <1>2, <1>3, <1>6, <1>7, <1>8 DEF s

(* Looking up the head changes no status. *)
LEMMA LookupLeft ==
    ASSUME Shape, LeftInvariant, NEW a \in Actor, LookupHead(a)
    PROVE  LeftInvariant'
  <1> DEFINE s == Head(todo[a])
  <1>1. /\ request[a] = "lookup"
        /\ request' = [request EXCEPT ![a] = "sent"]
        /\ UNCHANGED <<place, first, worker, status, branch, setbacks>>
    BY DEF LookupHead, queue, caches, github, branches
  <1>2. todo[a] # << >> /\ s = todo[a][1] /\ branch[s.pr] \in Commit
    BY <1>1, RequestStep DEF Shape, TypeOK
  <1>3. todo' = [todo EXCEPT ![a][1].commit = branch[s.pr]]
    BY <1>2 DEF LookupHead
  <1>4. /\ FirstIsActive' /\ SuccessIsWorkers' /\ CancelsComeFirst'
        /\ \A p \in PR : /\ CancelFor(p)' <=> CancelFor(p)
                         /\ \A b \in Actor : SetsPending(b, p)' <=> SetsPending(b, p)
        /\ \A b \in Actor : /\ Head(todo'[b]).pr = Head(todo[b]).pr
                            /\ Head(todo'[b]).state = Head(todo[b]).state
    BY <1>1, <1>2, <1>3, CommitLeft
  <1>5. \A p \in PR : SuccessRequestOf(p)' => SuccessRequestOf(p)
    <2>1. \A b \in Actor : request'[b] # "none" => request[b] # "none"
      BY <1>1 DEF Shape, TypeOK
    <2> QED
      BY <1>4, <2>1 DEF SuccessRequestOf
  <1>6. ASSUME setbacks' = 0, NEW p \in PR, place'[p] \in {"suspended", "out"}
        PROVE  Withdrawn(p)'
    <2>1. Withdrawn(p) /\ place[p] # "merged"
      BY <1>1, <1>6 DEF LeftInvariant
    <2> QED
      BY <1>1, <1>4, <1>5, <2>1, WithdrawnKept
  <1> QED
    BY <1>4, <1>6 DEF LeftInvariant

(* A success that is set is that of another PR, with other commits. *)
LEMMA ExecuteLeft ==
    ASSUME StatusInvariant, LeftInvariant, NEW a \in Actor, Execute(a)
    PROVE  LeftInvariant'
  <1> USE DEF StatusInvariant
  <1> DEFINE s == Head(todo[a])
  <1>1. /\ request[a] = "sent"
        /\ request' = [request EXCEPT ![a] = "executed"]
        /\ status' = IF OnStatus(s) THEN [status EXCEPT ![s.commit] = s.state] ELSE status
        /\ UNCHANGED <<place, first, worker, todo, branch, setbacks>>
    BY DEF Execute, queue, branches
  <1>2. /\ s.pr \in PR /\ s.state \in {"none", "pending", "success"}
        /\ s = todo[a][1] /\ 1 \in DOMAIN todo[a]
        /\ OnStatus(s) => s.commit \in Commit /\ Refers(s.pr, s.commit)
    BY <1>1, RequestStep DEF Shape, RequestsAreFormed
  <1>3. FirstIsActive' /\ SuccessIsWorkers' /\ CancelsComeFirst'
    BY <1>1 DEF LeftInvariant, FirstIsActive, SuccessIsWorkers, CancelsComeFirst, SetsPending
  <1>4. ASSUME setbacks' = 0, NEW p \in PR, place'[p] \in {"suspended", "out"}
        PROVE  Withdrawn(p)'
    <2>1. Withdrawn(p)
      BY <1>1, <1>4 DEF LeftInvariant
    <2>2. /\ CancelFor(p)' <=> CancelFor(p)
          /\ \A b \in Actor : SetsPending(b, p)' <=> SetsPending(b, p)
      BY <1>1 DEF CancelFor, SetsPending
    <2>3. CASE \E b \in Actor : SetsPending(b, p)
      BY <1>1, <2>1, <2>2, <2>3 DEF Withdrawn
    <2>4. CASE ~\E b \in Actor : SetsPending(b, p)
      <3>1. ~SuccessRequestOf(p) /\ status[branch[p]] # "success"
        BY <2>1, <2>4 DEF Withdrawn
      <3>2. \A b \in Actor : request'[b] # "none" <=> request[b] # "none"
        BY <1>1 DEF Shape, TypeOK
      <3>3. ~SuccessRequestOf(p)'
        BY <1>1, <3>1, <3>2 DEF SuccessRequestOf
      <3>4. s.pr = p => s.state # "success"
        BY <1>1, <3>1 DEF SuccessRequestOf
      <3>5. branch[p] \in Commit /\ Refers(p, branch[p])
        BY DEF Refers, Shape, TypeOK
      <3>6. OnStatus(s) /\ s.pr # p => s.commit # branch[p]
        BY <1>2, <3>5 DEF OwnCommits
      <3>7. status'[branch'[p]] # "success"
        BY <1>1, <1>2, <3>1, <3>4, <3>5, <3>6 DEF Shape, TypeOK
      <3> QED
        BY <1>1, <2>1, <2>2, <3>3, <3>7 DEF Withdrawn
    <2> QED
      BY <2>3, <2>4
  <1> QED
    BY <1>3, <1>4 DEF LeftInvariant

(* Without a setback only what the cancelled worker reports is given up. *)
LEMMA FailLeft ==
    ASSUME StatusInvariant, Shape', ~Lossy, LeftInvariant, NEW a \in Actor, Fail(a)
    PROVE  LeftInvariant'
  <1> USE DEF StatusInvariant
  <1> DEFINE s == Head(todo[a])
  <1>1. /\ request[a] # "none"
        /\ UNCHANGED <<worker, place, first, status, branch>>
        /\ \/ IsCancelled(s) /\ Drop(a) /\ UNCHANGED setbacks
           \/ Setback /\ Drop(a)
           \/ /\ Setback
              /\ UNCHANGED todo \/ (s.state = "pending" /\ todo' = [todo EXCEPT ![a][1].commit = None])
    BY DEF Fail, queue, caches, github, branches
  <1>2. todo[a] # << >> /\ s.op # "cancel"
    BY <1>1 DEF Shape, RequestsAreFormed
  <1>3. CASE Drop(a)
    <2>1. setbacks' = 0 => setbacks = 0 /\ IsCancelled(s)
      BY <1>1, <1>3 DEF Setback, Shape, TypeOK, Fail
    <2>2. setbacks' = 0 => s.state # "pending"
      BY <1>2, <2>1, StepHead DEF IsCancelled
    <2> QED
      BY <1>1, <1>2, <1>3, <2>1, <2>2, DoneLeft
  <1>4. CASE ~Drop(a)
    <2>1. setbacks' # 0
      BY <1>1, <1>4 DEF Setback, Shape, TypeOK
    <2>2. FirstIsActive' /\ SuccessIsWorkers' /\ CancelsComeFirst'
      <3>1. CASE UNCHANGED todo
        BY <1>1, <3>1 DEF LeftInvariant, FirstIsActive, SuccessIsWorkers, CancelsComeFirst,
           SetsPending
      <3>2. CASE todo' = [todo EXCEPT ![a][1].commit = None]
        BY <1>1, <1>2, <3>2, CommitLeft
      <3> QED
        BY <1>1, <1>4, <3>1, <3>2
    <2> QED
      BY <2>1, <2>2 DEF LeftInvariant
  <1> QED
    BY <1>3, <1>4

(* Actions of the queue and of the worker give steps to take. *)
LEMMA NewLeft ==
    ASSUME Shape, LeftInvariant,
           \/ \E p \in PR, pending \in BOOLEAN : LoopDequeue(p, pending)
           \/ \E p \in PR : CIRuns(p) \/ CIPassed(p)
           \/ NoAction \/ WorkerDequeue \/ Suspend
    PROVE  LeftInvariant'
  <1>1. ASSUME NEW p \in PR, NEW pending \in BOOLEAN, LoopDequeue(p, pending)
        PROVE  LeftInvariant'
    <2>1. PICK n \in PR \cup {None} :
             /\ DequeueActive(p, IF pending THEN "out" ELSE "merged", n)
             /\ todo' = [todo EXCEPT !["loop"] = AfterDequeue(p, pending, n)]
      BY <1>1 DEF LoopDequeue
    <2>2. /\ todo["loop"] = << >> /\ "loop" \in Actor /\ "loop" # "worker"
          /\ UNCHANGED <<worker, request, status, branch, setbacks>>
      BY <1>1 DEF LoopDequeue, LoopIdle, Actor, github, branches
    <2>3. worker' = [worker EXCEPT !.pc = IF "loop" = "worker" THEN "act" ELSE @]
      BY <2>2 DEF Shape, TypeOK
    <2> QED
      BY <2>1, <2>2, <2>3, DequeueLeft DEF DequeueActive
  <1>2. ASSUME WorkerDequeue
        PROVE  LeftInvariant'
    <2>1. PICK n \in PR \cup {None} :
             /\ DequeueActive(worker.pr, "merged", n)
             /\ todo' = [todo EXCEPT !["worker"] = AfterDequeue(worker.pr, FALSE, n)]
      BY <1>2 DEF WorkerDequeue
    <2>2. /\ worker.pc = "fetch" /\ worker.pr \in PR /\ todo["worker"] = << >>
          /\ "worker" \in Actor
          /\ worker' = [worker EXCEPT !.pc = IF "worker" = "worker" THEN "act" ELSE @]
          /\ UNCHANGED <<request, status, branch, setbacks>>
      BY <1>2 DEF WorkerDequeue, Shape, WorkerState, Actor, github, branches
    <2>3. place' = [place EXCEPT ![worker.pr] = IF FALSE THEN "out" ELSE "merged"]
      BY <2>1 DEF DequeueActive
    <2> QED
      BY <2>1, <2>2, <2>3, DequeueLeft DEF DequeueActive
  <1>3. ASSUME NEW s, worker.pc = "fetch", Act(s),
               \A i \in DOMAIN s : /\ s[i].op # "cancel"
                                   /\ s[i].state = "success" => s[i].pr = worker.pr /\ ~s[i].background
        PROVE  LeftInvariant'
    <2>1. /\ todo' = [todo EXCEPT !["worker"] = s]
          /\ worker' = [worker EXCEPT !.pc = "act"]
          /\ UNCHANGED <<request, status, branch, setbacks, place, first>>
      BY <1>3 DEF Act, github, branches, queue
    <2>2. worker' \in [pc : {"act", "suspend"}, pr : {worker.pr},
                       cancelled : {worker.cancelled, TRUE}]
      BY <2>1 DEF Shape, TypeOK
    <2> QED
      BY <1>3, <2>1, <2>2, ActLeft
  <1>4. ASSUME NEW p \in PR, CIRuns(p)
        PROVE  LeftInvariant'
    <2> DEFINE s == <<AddLabel(p, FALSE), Success(p, branch[p])>>
    <2>1. \A i \in DOMAIN s : /\ s[i].op # "cancel"
                              /\ s[i].state = "success" => s[i].pr = p /\ ~s[i].background
      BY DEF AddLabel, Success
    <2>2. worker.pc = "fetch" /\ worker.pr = p /\ Act(s)
      BY <1>4 DEF CIRuns
    <2> HIDE DEF s
    <2> QED
      BY <1>3, <2>1, <2>2
  <1>5. ASSUME NEW p \in PR, CIPassed(p)
        PROVE  LeftInvariant'
    <2> DEFINE s == <<Success(p, branch[p])>>
    <2>1. \A i \in DOMAIN s : /\ s[i].op # "cancel"
                              /\ s[i].state = "success" => s[i].pr = p /\ ~s[i].background
      BY DEF Success
    <2>2. worker.pc = "fetch" /\ worker.pr = p /\ Act(s)
      BY <1>5 DEF CIPassed
    <2> HIDE DEF s
    <2> QED
      BY <1>3, <2>1, <2>2
  <1>6. CASE NoAction
    <2>1. worker.pc = "fetch" /\ Act(<< >>) /\ DOMAIN << >> = {}
      BY <1>6 DEF NoAction
    <2> QED
      BY <1>3, <2>1
  <1>7. CASE Suspend
    <2> DEFINE s == <<RemoveLabel(worker.pr), Pending(worker.pr)>>
    <2>1. /\ \A i \in DOMAIN s : s[i].op # "cancel" /\ s[i].state # "success"
          /\ \E i \in DOMAIN s : s[i].pr = worker.pr /\ s[i].state = "pending"
      <3>1. /\ DOMAIN s = 1..2 /\ s[1] = RemoveLabel(worker.pr) /\ s[2] = Pending(worker.pr)
        OBVIOUS
      <3> HIDE DEF s
      <3> QED
        BY <3>1 DEF RemoveLabel, Pending
    <2>2. /\ worker.pc = "fetch"
          /\ todo' = [todo EXCEPT !["worker"] = s]
          /\ worker' = [worker EXCEPT !.pc = "suspend", !.cancelled = TRUE]
          /\ UNCHANGED <<request, status, branch, setbacks>>
      BY <1>7 DEF Suspend, github, branches
    <2>3. PICK n \in PR \cup {None} : DequeueActive(worker.pr, "suspended", n)
      BY <1>7 DEF Suspend
    <2> HIDE DEF s
    <2>4. /\ worker' \in [pc : {"act", "suspend"}, pr : {worker.pr},
                          cancelled : {worker.cancelled, TRUE}]
          /\ worker'.cancelled
      BY <2>2 DEF Shape, TypeOK
    <2>5. /\ place[worker.pr] = "active"
          /\ place' = [place EXCEPT ![worker.pr] = "suspended"]
          /\ \/ first' = first /\ first # worker.pr
             \/ first' = None
             \/ first' \in Active \ {worker.pr}
      BY <2>3 DEF DequeueActive
    <2>6. \A i \in DOMAIN s :
             /\ s[i].op # "cancel"
             /\ s[i].state = "success" => s[i].pr = worker.pr /\ ~s[i].background
      BY <2>1
    <2>7. \/ UNCHANGED <<place, first>>
          \/ /\ place[worker.pr] = "active"
             /\ place' = [place EXCEPT ![worker.pr] = "suspended"]
             /\ \/ first' = first /\ first # worker.pr
                \/ first' = None
                \/ first' \in Active \ {worker.pr}
             /\ worker'.cancelled
             /\ \E i \in DOMAIN s : s[i].pr = worker.pr /\ s[i].state = "pending"
      BY <2>1, <2>4, <2>5
    <2> QED
      BY <2>2, <2>4, <2>6, <2>7, ActLeft
  <1> QED
    BY <1>1, <1>2, <1>4, <1>5, <1>6, <1>7

LEMMA StepLeft ==
    ASSUME StatusInvariant, ~Lossy, LeftInvariant, [Next]_vars
    PROVE  LeftInvariant'
  <1>1. Shape /\ Shape'
    BY StepShape DEF StatusInvariant
  <1>2. \/ \E p \in PR : \/ Enqueue(p) \/ Resume(p) \/ Push(p) \/ CIRuns(p) \/ CIPassed(p)
                         \/ \E pending \in BOOLEAN : \/ LoopDequeue(p, pending)
                                                     \/ LoopDequeueSuspended(p, pending)
        \/ CheckFirst \/ NoAction \/ WorkerDequeue \/ Suspend \/ Return
        \/ Interrupt \/ Rest \/ UNCHANGED vars
        \/ \E a \in Actor : \/ CancelActionForPR(a) \/ Skip(a) \/ Send(a) \/ LookupHead(a)
                            \/ Execute(a) \/ Succeed(a) \/ Fail(a)
    BY DEF Next, Report
  <1>3. CASE \E p \in PR : \/ Enqueue(p) \/ Resume(p)
                           \/ \E pending \in BOOLEAN : LoopDequeueSuspended(p, pending)
    BY <1>1, <1>3, QueueLeft
  <1>4. CASE \/ CheckFirst \/ Return \/ Interrupt \/ Rest \/ UNCHANGED vars
             \/ \E p \in PR : Push(p)
    BY <1>1, <1>4, WorkerLeft
  <1>5. CASE \/ \E p \in PR, pending \in BOOLEAN : LoopDequeue(p, pending)
             \/ \E p \in PR : CIRuns(p) \/ CIPassed(p)
             \/ NoAction \/ WorkerDequeue \/ Suspend
    BY <1>1, <1>5, NewLeft
  <1>6. ASSUME NEW a \in Actor,
               \/ CancelActionForPR(a) \/ Skip(a) \/ Send(a) \/ LookupHead(a)
               \/ Execute(a) \/ Succeed(a) \/ Fail(a)
        PROVE  LeftInvariant'
    BY <1>1, <1>6, CancelLeft, SkipLeft, SendLeft, LookupLeft, ExecuteLeft, SucceedLeft, FailLeft
  <1> QED
    BY <1>2, <1>3, <1>4, <1>5, <1>6

(* When every request for a PR that was suspended, or dequeued unmerged, is    *)
(* done, its head is not shown as successful, although the worker may have     *)
(* been reporting success for it (queue.go:338, 388): if no request fails for  *)
(* good or loses its answer, the worker is not interrupted, and no other       *)
(* branch has the same head.                                                   *)
THEOREM LeftPRsAreWithdrawn ==
    ASSUME ~SharedCommits, ~Lossy
    PROVE  SafetySpec => []LeftIsNotSuccessful
  <1> DEFINE I == StatusInvariant /\ LeftInvariant
  <1>1. Init => I
    BY InitStatuses, InitLeft
  <1>2. I /\ [Next]_vars => I'
    BY StepStatuses, StepLeft
  <1>3. I => LeftIsNotSuccessful
    BY DEF LeftInvariant, LeftIsNotSuccessful, Withdrawn, SetsPending, Outstanding
  <1> QED
    BY <1>1, <1>2, <1>3, PTL DEF SafetySpec

(* "Therefore we always set the pending status state" (queue.go:859): what the *)
(* code comment claims holds when no two branches have the same head; run      *)
(* PendingSkipped shows that it does not if they have.                         *)
THEOREM PendingIsAlwaysSet ==
    ASSUME ~SharedCommits, ~Lossy
    PROVE  SafetySpec => PendingIsSet
  <1> DEFINE I == StatusInvariant /\ LeftInvariant
             Kept == \A p \in PR :
                        (/\ setbacks = 0 /\ setbacks' = 0
                         /\ place[p] \in {"suspended", "out"}
                         /\ Outstanding(p) /\ ~Outstanding(p)') => status'[branch'[p]] # "success"
  <1>1. Init => I
    BY InitStatuses, InitLeft
  <1>2. I /\ [Next]_vars => I'
    BY StepStatuses, StepLeft
  <1>3. I /\ [Next]_vars => Kept
    <2> SUFFICES ASSUME I, I', [Next]_vars, NEW p \in PR, setbacks' = 0,
                        place[p] \in {"suspended", "out"}, Outstanding(p), ~Outstanding(p)'
                 PROVE  status'[branch'[p]] # "success"
      BY <1>2
    <2>1. todo' # todo
      BY DEF Outstanding
    <2>2. place[p] # "active" /\ place \in [PR -> {"new", "active", "suspended", "out", "merged"}]
      BY DEF StatusInvariant, Shape, TypeOK
    <2>3. ASSUME NEW q \in PR, NEW to, NEW n, DequeueActive(q, to, n)
          PROVE  place'[p] = place[p]
      BY <2>2, <2>3 DEF DequeueActive
    <2>4. place'[p] = place[p]
      <3>1. ASSUME NEW q \in PR, \/ Enqueue(q) \/ Resume(q) \/ Push(q)
                                 \/ \E pending \in BOOLEAN : LoopDequeueSuspended(q, pending)
            PROVE  FALSE
        BY <2>1, <3>1 DEF Enqueue, Resume, Push, LoopDequeueSuspended
      <3>2. CASE CheckFirst \/ Return \/ Interrupt \/ Rest \/ UNCHANGED vars
        BY <2>1, <3>2 DEF CheckFirst, Return, Interrupt, Rest, vars
      <3>3. CASE NoAction \/ \E q \in PR : CIRuns(q) \/ CIPassed(q)
        BY <3>3 DEF NoAction, CIRuns, CIPassed, Act, queue
      <3>4. CASE \E a \in Actor : Report(a)
        BY <3>4 DEF Report, CancelActionForPR, Skip, Send, LookupHead, Execute, Succeed, Fail, queue
      <3>5. CASE WorkerDequeue \/ Suspend
        <4>1. worker.pr \in PR
          BY <3>5 DEF WorkerDequeue, Suspend, StatusInvariant, Shape, WorkerState
        <4> QED
          BY <2>3, <3>5, <4>1 DEF WorkerDequeue, Suspend
      <3>6. CASE \E q \in PR, pending \in BOOLEAN : LoopDequeue(q, pending)
        BY <2>3, <3>6 DEF LoopDequeue
      <3> QED
        BY <3>1, <3>2, <3>3, <3>4, <3>5, <3>6 DEF Next
    <2>5. Withdrawn(p)'
      BY <2>4 DEF LeftInvariant
    <2>6. ~\E a \in Actor : SetsPending(a, p)'
      BY DEF SetsPending, Outstanding
    <2> QED
      BY <2>5, <2>6 DEF Withdrawn
  <1>4. SafetySpec => [][Kept]_vars
    BY <1>1, <1>2, <1>3, PTL DEF SafetySpec
  <1> QED
    BY <1>4 DEF PendingIsSet

=============================================================================
