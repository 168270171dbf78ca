---------------------------- MODULE ReadyForMerge ----------------------------
(***************************************************************************)
(* Client.ReadyForMerge() (readyformergestatus.go): the status checks of   *)
(* the head commit of a PR are fetched page by page, merged by their name  *)
(* and condensed to one CI status.                                         *)
(*                                                                         *)
(* Between the requests for two pages authors push, and jobs start, finish *)
(* and are run again.  When the head changed the code starts over with the *)
(* first page.                                                             *)
(*                                                                         *)
(* GitHub appends a new context to the list of its commit.  Its roll-up is *)
(* a failure if one context failed, else pending if one is pending.  The   *)
(* many results of check runs are pending, success or failure here; the    *)
(* state EXPECTED of a status or of a roll-up, which the code passes on as *)
(* it is, is left out.                                                     *)
(***************************************************************************)
EXTENDS Integers, Sequences

CONSTANTS
    Name,       \* names of checks
    Required,   \* RequiredStatusCheckContexts of the base branch
    Context,    \* what can be reported: [kind : {"run", "status"}, name : Name]
    PageSize,   \* contexts per page
    MaxCommit,  \* head commits of the PR (bound)
    Ends        \* how checks end: a subset of {"success", "failure"}

ReadyAssumption ==
    /\ Required \subseteq Name
    /\ Context \subseteq [kind : {"run", "status"}, name : Name]
    /\ PageSize \in Nat \ {0}
    /\ MaxCommit \in Nat \ {0}
    /\ Ends \subseteq {"success", "failure"}

VARIABLES
    head,           \* GitHub: head commit of the PR
    contexts,       \* GitHub: the list of the head's contexts
    pc,             \* reviewAndCIStatus(): "idle", "query"
    prHEADCommitID,
    contextsAfter,  \* the cursor: contexts of former pages
    collected,      \* result.CheckRuns and result.StatusContext in one list; each
                    \* element keeps the commit it is of, which the code does not
    ready           \* the ReadyForMergeStatus that was returned last

github == <<head, contexts>>
client == <<pc, prHEADCommitID, contextsAfter, collected, ready>>
vars == <<github, client>>

Commit == 1..MaxCommit
NoCommit == 0
CIStatus == {"expected", "pending", "success", "failure"}
NotReady == [CIStatus |-> "expected", statuses |-> [n \in Name |-> "absent"], commit |-> NoCommit]

TypeOK ==
    /\ head \in Commit
    /\ \A i \in DOMAIN contexts :
          contexts[i] \in [context : Context, state : {"pending"} \cup Ends]
    /\ pc \in {"idle", "query"}
    /\ prHEADCommitID \in {NoCommit} \cup Commit
    /\ contextsAfter \in Nat
    /\ \A i \in DOMAIN collected :
          collected[i] \in [context : Context, state : {"pending"} \cup Ends, commit : Commit]
    /\ ready \in [CIStatus : CIStatus, statuses : [Name -> CIStatus \cup {"absent"}],
                  commit : {NoCommit} \cup Commit]

Init ==
    /\ head = 1
    /\ contexts = << >>
    /\ pc = "idle"
    /\ prHEADCommitID = NoCommit
    /\ contextsAfter = 0
    /\ collected = << >>
    /\ ready = NotReady

-----------------------------------------------------------------------------
(* GitHub and the jobs.  What happens between two calls of ReadyForMerge() could *)
(* as well happen after the second one began.                                    *)

Push ==
    /\ pc = "query"
    /\ head < MaxCommit
    /\ head' = head + 1
    /\ contexts' = << >>
    /\ UNCHANGED client

Reported == {contexts[i].context : i \in DOMAIN contexts}

Report(x) ==
    /\ pc = "query"
    /\ x \notin Reported
    /\ contexts' = Append(contexts, [context |-> x, state |-> "pending"])
    /\ UNCHANGED <<head, client>>

(* A check ends, or is run again. *)
Change(i, state) ==
    /\ pc = "query"
    /\ i \in DOMAIN contexts
    /\ (contexts[i].state = "pending") # (state = "pending")
    /\ contexts' = [contexts EXCEPT ![i].state = state]
    /\ UNCHANGED <<head, client>>

States == {contexts[i].state : i \in DOMAIN contexts}

Rollup ==
    IF States = {} THEN "none"
    ELSE IF "failure" \in States THEN "failure"
    ELSE IF "pending" \in States THEN "pending" ELSE "success"

-----------------------------------------------------------------------------
(* Merging. *)

(* A status wins over a check run with the same name, a later one over a former *)
(* one; nothing but a required check can be expected.                           *)
CIJobStatus(list, n) ==
    LET of(kind) == {i \in DOMAIN list : list[i].context = [kind |-> kind, name |-> n]}
        last(S) == list[CHOOSE i \in S : \A j \in S : j <= i].state
    IN  IF of("status") # {} THEN last(of("status"))
        ELSE IF of("run") # {} THEN last(of("run"))
        ELSE IF n \in Required THEN "expected" ELSE "absent"

toCIJobStatuses(list) == [n \in Name |-> CIJobStatus(list, n)]

(* Faulty variant: a missing check is none. *)
requiredIgnoringMissing(statuses) ==
    LET S == {statuses[n] : n \in Required} IN
    IF "failure" \in S THEN "failure" ELSE IF "pending" \in S THEN "pending" ELSE "success"

requiredCIStatus(statuses) ==
    LET S == {statuses[n] : n \in Required} IN
    IF "failure" \in S THEN "failure"
    ELSE IF "expected" \in S THEN "expected"
    ELSE IF "pending" \in S THEN "pending" ELSE "success"

(* Faulty variant: the roll-up is not looked at. *)
overallWithoutRollup(statuses, rollup) == requiredCIStatus(statuses)

(* Faulty variant: unless a check is missing the roll-up decides, also an empty one. *)
overallByRollup(statuses, rollup) ==
    IF requiredCIStatus(statuses) = "expected" THEN "expected" ELSE rollup

overallCIStatus(statuses, rollup) ==
    IF requiredCIStatus(statuses) # "expected" /\ rollup = "pending" THEN "pending"
    ELSE requiredCIStatus(statuses)

-----------------------------------------------------------------------------
(* The requests. *)

Begin ==
    /\ pc = "idle"
    /\ pc' = "query"
    /\ prHEADCommitID' = NoCommit
    /\ contextsAfter' = 0
    /\ collected' = << >>
    /\ ready' = NotReady
    /\ UNCHANGED github

(* Faulty variant: the pages of two commits are not told apart. *)
SameHeadAlways == TRUE

(* The response is about the commit of the former pages. *)
SameHead == prHEADCommitID \in {NoCommit, head}

(* Faulty variant: the commit is not forgotten. *)
RestartKeepingHead ==
    /\ pc = "query" /\ ~SameHead
    /\ contextsAfter' = 0
    /\ UNCHANGED <<github, pc, prHEADCommitID, collected, ready>>

(* Faulty variant: the cursor stays. *)
RestartKeepingCursor ==
    /\ pc = "query" /\ ~SameHead
    /\ prHEADCommitID' = NoCommit
    /\ UNCHANGED <<github, pc, contextsAfter, collected, ready>>

(* Start over; what was collected stays. *)
Restart ==
    /\ pc = "query" /\ ~SameHead
    /\ contextsAfter' = 0
    /\ prHEADCommitID' = NoCommit
    /\ UNCHANGED <<github, pc, collected, ready>>

HasNextPage == contextsAfter + PageSize < Len(contexts)

PageCommit == IF prHEADCommitID = NoCommit THEN head ELSE prHEADCommitID

(* The page after the cursor. *)
Page ==
    LET end == IF HasNextPage THEN contextsAfter + PageSize ELSE Len(contexts)
    IN  [i \in 1..(end - contextsAfter) |->
            [context |-> contexts[contextsAfter + i].context,
             state |-> contexts[contextsAfter + i].state,
             commit |-> head]]

NextPage ==
    /\ pc = "query" /\ SameHead
    /\ HasNextPage
    /\ prHEADCommitID' = PageCommit
    /\ collected' = collected \o Page
    /\ contextsAfter' = contextsAfter + PageSize
    /\ UNCHANGED <<github, pc, ready>>

LastPage ==
    LET list == collected \o Page
        statuses == toCIJobStatuses(list)
    IN  /\ pc = "query" /\ SameHead
        /\ ~HasNextPage
        /\ prHEADCommitID' = PageCommit
        /\ collected' = list
        /\ ready' = [CIStatus |-> overallCIStatus(statuses, Rollup), statuses |-> statuses,
                     commit |-> PageCommit]
        /\ pc' = "idle"
        /\ UNCHANGED <<github, contextsAfter>>

(* A request fails; the retryer may begin again. *)
Fail ==
    /\ pc = "query"
    /\ pc' = "idle"
    /\ UNCHANGED <<github, prHEADCommitID, contextsAfter, collected, ready>>

Query == Restart \/ NextPage \/ LastPage

Next ==
    \/ Push
    \/ \E x \in Context : Report(x)
    \/ \E i \in DOMAIN contexts : \E state \in {"pending"} \cup Ends : Change(i, state)
    \/ Begin \/ Query \/ Fail

(* The client works, and each request gets a response. *)
Spec == Init /\ [][Next]_vars /\ WF_vars(Query)

-----------------------------------------------------------------------------
Returns == pc = "query" /\ ready' # NotReady /\ pc' = "idle"

Mixed(list) == \E i \in DOMAIN list : list[i].commit # ready.commit

(* A required check is called missing only if it is missing: else evalPRAction() *)
(* would start it once more.  No page is left out, however often the head        *)
(* changed (readyformergestatus.go:313-319, 343-359).                            *)
ExpectedIsMissing ==
    [][Returns => \A n \in Required :
          ready'.statuses[n] = "expected" => n \notin {x.name : x \in Reported}]_vars

(* The commit that CI is started for is the head, and the commit that the last   *)
(* page and the roll-up are of (readyformergestatus.go:315, 346).                *)
CommitIsHead == [][Returns => ready'.commit = head]_vars

(* Success is not claimed while a required check runs, though it may have been   *)
(* started anew after its page was fetched; unless another check failed, which   *)
(* the roll-up shows instead (readyformergestatus.go:91-96).                     *)
SuccessIsNotPending ==
    [][Returns /\ ready'.CIStatus = "success" =>
          \/ "failure" \in States
          \/ \A i \in DOMAIN contexts : contexts[i].state # "pending"]_vars

(* Success is claimed only if each required check was seen to succeed, as long   *)
(* as the pages are of one commit.                                               *)
SuccessWasSeen ==
    ready.CIStatus = "success" /\ pc = "idle" /\ ~Mixed(collected) =>
        \A n \in Required : \E i \in DOMAIN collected :
            collected[i].context.name = n /\ collected[i].state = "success"

(* The requests come to an end when the pushes do (readyformergestatus.go:300).  *)
Terminates == (pc = "query") ~> (pc = "idle")

(* "If a check or status has not started yet but is required, it is              *)
(* [CIStatusExpected]." (readyformergestatus.go:55)                              *)
MissingIsExpected ==
    [][Returns => \A n \in Required :
          n \notin {x.name : x \in Reported} =>
              ready'.CIStatus \in {"expected", "failure"}]_vars

(* "If a required check failed the returned [ReadyForMerge.CIStatus] is          *)
(* [CIStatusFailure]." (readyformergestatus.go:53-54)                            *)
FailureIsFailure ==
    pc = "idle" /\ ready # NotReady /\ ~Mixed(collected)
    /\ (\E i \in DOMAIN collected : /\ collected[i].context.name \in Required
                                    /\ collected[i].state = "failure")
        => ready.CIStatus = "failure"

-----------------------------------------------------------------------------
(* The inductive invariant that the four follow from. *)

Lists ==
    /\ contexts \in Seq([context : Context, state : {"pending"} \cup Ends])
    /\ collected \in Seq([context : Context, state : {"pending"} \cup Ends, commit : Commit])

(* The pages before the cursor were collected, though their contexts may have  *)
(* changed since; the cursor belongs to the commit that is remembered.         *)
PagesAreCollected ==
    /\ prHEADCommitID <= head
    /\ prHEADCommitID = NoCommit => contextsAfter = 0
    /\ pc = "query" /\ SameHead =>
          /\ contextsAfter <= Len(contexts)
          /\ \A i \in 1..contextsAfter : \E j \in DOMAIN collected :
                collected[j].context = contexts[i].context

Invariant ==
    /\ TypeOK /\ Lists
    /\ pc = "query" => ready = NotReady
    /\ PagesAreCollected
    /\ SuccessWasSeen

=============================================================================
