--------------------------- MODULE MCHeadReporting ---------------------------
(* Instances of HeadReporting for TLC. *)
EXTENDS HeadReporting, TLC

Symmetry == Permutations(PR) \cup Permutations(Commit)

=============================================================================
