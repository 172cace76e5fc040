--------------------------- MODULE MCAgentSession ---------------------------
(* AgentSession for TLC. *)
EXTENDS AgentSessionProperties
=============================================================================
