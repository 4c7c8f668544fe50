---------------------------- MODULE MCAgentRuns ----------------------------
(* A small instance of AgentRuns. *)
EXTENDS AgentRuns

=============================================================================
