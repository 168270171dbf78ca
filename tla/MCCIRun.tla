------------------------------- MODULE MCCIRun -------------------------------
(* Instances of CIRun for TLC. *)
EXTENDS CIRun, TLC

Symmetry == Permutations(Job)

=============================================================================
