---------------------------- MODULE MCAgentTasks ----------------------------
(***************************************************************************)
(* A small instance of AgentTasks for TLC.  The run checks a liveness      *)
(* property too, so it uses neither symmetry nor a view.                   *)
(***************************************************************************)
EXTENDS AgentTasks

=============================================================================
