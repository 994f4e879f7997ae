---------------------------- MODULE MCReadiness ----------------------------
(* Model-checking instance of Readiness: the tasks are model values given by  *)
(* the configurations.                                                       *)
EXTENDS Readiness
=============================================================================
