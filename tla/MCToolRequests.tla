--------------------------- MODULE MCToolRequests ---------------------------
(* Model-checking instance of ToolRequests. *)
EXTENDS ToolRequests
=============================================================================
