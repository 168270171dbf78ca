------------------------------- MODULE Retryer -------------------------------
(***************************************************************************)
(* Retryer (retryer.go): Run() calls a function until it succeeds, fails   *)
(* for good, its context ends or Stop() is called.  Between two calls it   *)
(* waits for a timer in a select, which takes any of its ready branches.   *)
(*                                                                         *)
(* Times are kept as what is left of them.  The back-off is the one of     *)
(* github.com/cenkalti/backoff, of which NewExponentialBackOff() ends with *)
(* Reset().                                                                *)
(***************************************************************************)
EXTENDS Naturals

CONSTANTS
    Caller,     \* go-routines that call Run()
    Off,        \* a timer that does not run
    DefTimeout, \* the timeout if the context has no deadline
    MaxAfter,   \* longest time until RetryableError.After (bound)
    LibraryInterval, \* the first interval when a back-off is constructed
    InitialInterval, \* backoffInitialInterval: set afterwards, and never read
    MaxInterval \* backoffMaxInterval

ASSUME RetryerAssumption ==
    /\ Off \notin Nat
    /\ DefTimeout \in Nat \ {0}
    /\ MaxAfter \in Nat
    /\ MaxInterval \in Nat
    /\ LibraryInterval \in 1..MaxInterval
    /\ InitialInterval \in 1..MaxInterval

VARIABLES
    pc,         \* "idle", "select", "call"
    timer,      \* time until retryTimer fires
    deadline,   \* time until the deadline of the context
    cancelled,  \* the context was cancelled
    after,      \* time until After of the last RetryableError
    interval,   \* currentInterval of the back-off
    closed,     \* shutdownChan is closed
    stopped,    \* history: Stop() was called
    more        \* history: calls of fn since the context ended or Stop() was called

context == <<deadline, cancelled>>
vars == <<pc, timer, context, after, interval, closed, stopped, more>>

(* NextBackOff(): half to one and a half of the interval. *)
BackOff(i) == (i - (i \div 2))..(i + (i \div 2))

Longer(i) == IF 3 * i >= 2 * MaxInterval THEN MaxInterval ELSE (3 * i) \div 2

Wait == BackOff(MaxInterval) \cup 0..MaxInterval \cup 0..MaxAfter

TypeOK ==
    /\ pc \in [Caller -> {"idle", "select", "call"}]
    /\ timer \in [Caller -> Wait \cup {Off}]
    /\ deadline \in [Caller -> 0..DefTimeout]
    /\ cancelled \in [Caller -> BOOLEAN]
    /\ after \in [Caller -> 0..MaxAfter]
    /\ interval \in [Caller -> 1..MaxInterval]
    /\ closed \in BOOLEAN /\ stopped \in BOOLEAN
    /\ more \in [Caller -> Nat]

Init ==
    /\ pc = [r \in Caller |-> "idle"]
    /\ timer = [r \in Caller |-> Off]
    /\ deadline = [r \in Caller |-> 0]
    /\ cancelled = [r \in Caller |-> FALSE]
    /\ after = [r \in Caller |-> 0]
    /\ interval = [r \in Caller |-> LibraryInterval]
    /\ closed = FALSE /\ stopped = FALSE
    /\ more = [r \in Caller |-> 0]

-----------------------------------------------------------------------------
Done(r) == cancelled[r] \/ deadline[r] = 0

Ready(r) == timer[r] = 0 \/ Done(r) \/ closed

Ended(r) == Done(r) \/ stopped

(* The context has a deadline, or gets one. *)
Run(r) ==
    /\ pc[r] = "idle"
    /\ pc' = [pc EXCEPT ![r] = "select"]
    /\ timer' = [timer EXCEPT ![r] = 0]
    /\ \E left \in 0..DefTimeout : deadline' = [deadline EXCEPT ![r] = left]
    /\ cancelled' = [cancelled EXCEPT ![r] = FALSE]
    /\ after' = [after EXCEPT ![r] = 0]
    /\ interval' = [interval EXCEPT ![r] = LibraryInterval]
    /\ more' = [more EXCEPT ![r] = 0]
    /\ UNCHANGED <<closed, stopped>>

(* case <-retryTimer.C *)
TimerFires(r) ==
    /\ pc[r] = "select" /\ timer[r] = 0
    /\ pc' = [pc EXCEPT ![r] = "call"]
    /\ timer' = [timer EXCEPT ![r] = Off]
    /\ more' = [more EXCEPT ![r] = IF Ended(r) THEN @ + 1 ELSE @]
    /\ UNCHANGED <<context, after, interval, closed, stopped>>

Return(r) ==
    /\ pc' = [pc EXCEPT ![r] = "idle"]
    /\ timer' = [timer EXCEPT ![r] = Off]
    /\ UNCHANGED <<context, after, interval, stopped, more>>

(* Faulty variant: deadlines are not looked at. *)
ContextCancelled(r) ==
    /\ pc[r] = "select" /\ cancelled[r]
    /\ Return(r)
    /\ UNCHANGED closed

(* case <-ctx.Done() *)
ContextDone(r) ==
    /\ pc[r] = "select" /\ Done(r)
    /\ Return(r)
    /\ UNCHANGED closed

(* Faulty variant: Stop() sends one message. *)
ShutdownReceived(r) ==
    /\ pc[r] = "select" /\ closed
    /\ Return(r)
    /\ closed' = FALSE

(* case <-r.shutdownChan *)
Shutdown(r) ==
    /\ pc[r] = "select" /\ closed
    /\ Return(r)
    /\ UNCHANGED closed

(* fn() succeeds, or fails for good. *)
FnReturns(r) ==
    /\ pc[r] = "call"
    /\ Return(r)
    /\ UNCHANGED closed

RetryableError(r, t) ==
    /\ pc[r] = "call"
    /\ pc' = [pc EXCEPT ![r] = "select"]
    /\ after' = [after EXCEPT ![r] = t]
    /\ UNCHANGED <<context, closed, stopped, more>>

NextBackOff(r) ==
    /\ interval' = [interval EXCEPT ![r] = Longer(@)]
    /\ \E b \in BackOff(interval[r]) : timer' = [timer EXCEPT ![r] = b]

(* Faulty variant: After is not looked at. *)
RetryAnytime(r) ==
    \E t \in 0..MaxAfter : RetryableError(r, t) /\ NextBackOff(r)

(* Faulty variant: the back-off is added. *)
RetryLater(r) ==
    \E t \in 0..MaxAfter : \E b \in BackOff(interval[r]) :
        /\ RetryableError(r, t)
        /\ timer' = [timer EXCEPT ![r] = t + b]
        /\ UNCHANGED interval

(* fn() fails with a RetryableError. *)
Retry(r) ==
    \/ \E t \in 1..MaxAfter : /\ RetryableError(r, t)
                              /\ timer' = [timer EXCEPT ![r] = t]
                              /\ UNCHANGED interval
    \/ RetryableError(r, 0) /\ NextBackOff(r)

Cancel(r) ==
    /\ pc[r] # "idle" /\ ~cancelled[r]
    /\ cancelled' = [cancelled EXCEPT ![r] = TRUE]
    /\ UNCHANGED <<pc, timer, deadline, after, interval, closed, stopped, more>>

Stop ==
    /\ ~stopped
    /\ closed' = TRUE /\ stopped' = TRUE
    /\ UNCHANGED <<pc, timer, context, after, interval, more>>

Sooner(t) == IF t = Off \/ t = 0 THEN t ELSE t - 1

(* Time passes; a select of which a branch is ready takes none. *)
Tick ==
    /\ \A r \in Caller : pc[r] = "select" => ~Ready(r)
    /\ timer' = [r \in Caller |-> Sooner(timer[r])]
    /\ deadline' = [r \in Caller |-> Sooner(deadline[r])]
    /\ after' = [r \in Caller |-> Sooner(after[r])]
    /\ UNCHANGED <<pc, cancelled, interval, closed, stopped, more>>

-----------------------------------------------------------------------------
Step(r) ==
    \/ TimerFires(r) \/ ContextDone(r) \/ Shutdown(r) \/ FnReturns(r) \/ Retry(r)

Next ==
    \/ \E r \in Caller : Run(r) \/ Step(r) \/ Cancel(r)
    \/ Stop
    \/ Tick

(* Go-routines run, fn() returns when its context ended, and time passes. *)
Spec ==
    /\ Init /\ [][Next]_vars
    /\ SF_vars(Tick) /\ \A r \in Caller : WF_vars(Step(r))

-----------------------------------------------------------------------------
(* A request is not repeated before GitHub's rate limit allows it              *)
(* (retryer.go:109, RetryableError.After).  It rests on Tick: a select that    *)
(* has a ready branch lets no time pass, so that the timer of a wait until     *)
(* After does not fire before the select is reached.  For an After that is     *)
(* only just in the future the code itself gives no lower bound.               *)
NotBeforeAfter ==
    [][\A r \in Caller : pc[r] = "select" /\ pc'[r] = "call" => after[r] = 0]_vars

(* When the timer, the end of the context and Stop() race, fn() may be called  *)
(* after the end; but only once, and for every go-routine (retryer.go:78).     *)
OnceMore == \A r \in Caller : more[r] <= 1

(* "require.GreaterOrEqualf(t, d, minInterval(r)" (retryer_test.go:67, 103-105): *)
(* a retry that may happen at any time waits for half of the configured        *)
(* interval at least.                                                          *)
FirstWaitIsConfigured ==
    [][\A r \in Caller : Retry(r) /\ after'[r] = 0 =>
          timer'[r] >= InitialInterval \div 2]_vars

(* Run() returns, even if fn() could be retried for ever (retryer.go:55-62).   *)
RunReturns == \A r \in Caller : pc[r] # "idle" ~> pc[r] = "idle"

(* The inductive invariant that the first two follow from. *)
Invariant ==
    /\ TypeOK
    /\ closed = stopped
    /\ \A r \in Caller :
          /\ pc[r] = "select" => timer[r] # Off /\ timer[r] >= after[r]
          /\ more[r] > 0 => /\ Ended(r) /\ more[r] = 1
                            /\ pc[r] = "select" => timer[r] # 0

=============================================================================
