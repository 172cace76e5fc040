----------------------------- MODULE MCHarness -----------------------------
(* AgentHarness for TLC. *)
EXTENDS HarnessProperties

\* The drain modes: the defaults of the harness.
OneAtATime == [lane \in {"steer", "followUp"} |-> {"one-at-a-time"}]
=============================================================================
