-------------------------- MODULE MCAgentManager --------------------------
(* Model-checking instance of AgentManager. *)
EXTENDS AgentManager
===========================================================================
