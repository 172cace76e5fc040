------------------------------ MODULE MCAgent ------------------------------
(* Agent for TLC. *)
EXTENDS AgentProperties

\* The configurations: both kinds of batch, or Agent(toolExecution="sequential").
SequentialOnly == {"sequential"}
ParallelOnly == {"parallel"}
BothModes == {"sequential", "parallel"}

\* A bound: of a listener that raises and an abort that a run has not forgotten, one.
OneDisturbance == raises = 0 \/ ~aborted
=============================================================================
