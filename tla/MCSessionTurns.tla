-------------------------- MODULE MCSessionTurns --------------------------
(* Model-checking instance of SessionTurns.  Tasks are interchangeable, so   *)
(* the safety runs use symmetry.                                             *)
EXTENDS SessionTurns, TLC

Symmetry == Permutations(Tasks)
=============================================================================
