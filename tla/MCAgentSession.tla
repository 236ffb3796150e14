--------------------------- MODULE MCAgentSession ---------------------------
(* AgentSession with the constants of the .cfg files. *)
EXTENDS AgentSession
=============================================================================
