--------------------------- MODULE MCReconcileCursor ---------------------------
(* Instances of ReconcileCursor for TLC.                                       *)
EXTENDS ReconcileCursor, TLC

RunSymmetry == Permutations(Run)

================================================================================
