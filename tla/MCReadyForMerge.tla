--------------------------- MODULE MCReadyForMerge ---------------------------
(* The instance of ReadyForMerge for StalePages.cfg and SameName.cfg. *)
EXTENDS ReadyForMerge

(* A required check run, and another check that is reported as a run or as a status. *)
TwoNames == [kind : {"run"}, name : {"build"}] \cup [kind : {"run", "status"}, name : {"lint"}]

=============================================================================
