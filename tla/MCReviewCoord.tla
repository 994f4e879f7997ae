--------------------------- MODULE MCReviewCoord ---------------------------
(* Model-checking instance of ReviewCoord.  No definition tells one process from
   another, so the runs of safety properties may permute them. *)
EXTENDS ReviewCoord, TLC

Symmetry == Permutations(Procs)
=============================================================================
