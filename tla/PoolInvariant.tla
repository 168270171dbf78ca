--------------------------- MODULE PoolInvariant ---------------------------
(* The inductive invariant that carries the safety properties of Pool.     *)
EXTENDS Pool

Elements(s) == {s[i] : i \in 1 .. Len(s)}

\* The scheduler holds a function exactly while it sends it, and it stops only on
\* an empty queue that accepts no more work, after closing workChan.
SchedulerState ==
    /\ held = NoWork <=> scheduler # "send"
    /\ closed <=> scheduler = "stopped"
    /\ closed => terminate /\ wq = <<>>

\* A worker has a function exactly between receiving it and finishing it, and it
\* leaves only when the closed workChan is empty.
WorkerState ==
    \A w \in Worker :
        /\ job[w] = NoWork <=> worker[w] \notin {"notify", "run"}
        /\ worker[w] = "stopped" => closed /\ workChan = <<>>

\* The progress of wait().
WaitState ==
    /\ waitStep # "new" <=> terminate
    /\ waitStep = "done" => AllStopped
    /\ returned # {} => waitStep = "done"

\* Where an accepted function is before it was executed.
NoneDropped ==
    queued \ refused \subseteq
        Elements(wq) \union {held} \union Elements(workChan)
            \union {job[w] : w \in Worker} \union executed

Invariant ==
    /\ TypeOK
    /\ SchedulerState
    /\ WorkerState
    /\ WaitState
    /\ NoLostWakeUp
    /\ NoneDropped
=============================================================================
