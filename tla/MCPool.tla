------------------------------- MODULE MCPool -------------------------------
(* Instances of Pool for TLC: two workers, so that workChan buffers more   *)
(* than one function and hand-overs overlap.                               *)
EXTENDS PoolInvariant, TLC

Symmetry == Permutations(Work) \union Permutations(Caller)
=============================================================================
