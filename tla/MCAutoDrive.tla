---------------------------- MODULE MCAutoDrive ----------------------------
(* Model-checking instance of AutoDrive. *)
EXTENDS AutoDrive
============================================================================
