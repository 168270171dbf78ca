------------------------------ MODULE WorkQueue ------------------------------
(***************************************************************************)
(* What routines.Pool promises to its users (the doc comments of           *)
(* src/internal/routines/pool.go): submitted work is started in submission *)
(* order by one of a fixed number of routines, everything submitted is     *)
(* executed, and the pool stops only after all of it is done.              *)
(* Pool implements this specification.                                     *)
(***************************************************************************)
EXTENDS Naturals, Sequences

CONSTANTS
    Work,       \* the functions that can be submitted
    Routine     \* the go-routines that execute them

VARIABLES
    pending,    \* submitted and not yet started, oldest first
    running,    \* what each routine executes: {} or one function
    executed,   \* the functions that have returned
    mode        \* "open", "draining" once no more work is accepted, "stopped"

vars == <<pending, running, executed, mode>>

Init ==
    /\ pending = <<>>
    /\ running = [r \in Routine |-> {}]
    /\ executed = {}
    /\ mode = "open"

Submit(x) ==
    /\ mode = "open"
    /\ pending' = Append(pending, x)
    /\ UNCHANGED <<running, executed, mode>>

Start(r) ==
    /\ pending # <<>>
    /\ running[r] = {}
    /\ running' = [running EXCEPT ![r] = {Head(pending)}]
    /\ pending' = Tail(pending)
    /\ UNCHANGED <<executed, mode>>

Finish(r) ==
    /\ running[r] # {}
    /\ executed' = executed \union running[r]
    /\ running' = [running EXCEPT ![r] = {}]
    /\ UNCHANGED <<pending, mode>>

Drain ==
    /\ mode = "open"
    /\ mode' = "draining"
    /\ UNCHANGED <<pending, running, executed>>

Stop ==
    /\ mode = "draining"
    /\ pending = <<>>
    /\ \A r \in Routine : running[r] = {}
    /\ mode' = "stopped"
    /\ UNCHANGED <<pending, running, executed>>

Next ==
    \/ \E x \in Work : Submit(x)
    \/ \E r \in Routine : Start(r) \/ Finish(r)
    \/ Drain
    \/ Stop

Fairness ==
    /\ WF_vars(\E r \in Routine : Start(r))
    /\ \A r \in Routine : WF_vars(Finish(r))
    /\ WF_vars(Stop)

SafetySpec == Init /\ [][Next]_vars

Spec == SafetySpec /\ Fairness
=============================================================================
