---------------------------- MODULE MCAgentTools ----------------------------
(* Agent with its tools, beside a shell command that one of them may run     *)
(* (Shell) and a client that commands the agent over lines (Rpc). In a       *)
(* behaviour only the part moves that which names; the others stay as they   *)
(* begin.                                                                    *)
EXTENDS AgentProperties

CONSTANTS Commands, Callers, Limit, MaxChunks, MaxFails,
          RpcModes, LineKinds, MaxLines

VARIABLES
  which,
  cmds, procs, outs, controller, fails,
  rpcMode, input, tasks, dialogs, served, listens, output, answered, ending

Running == INSTANCE Shell
Serving == INSTANCE Rpc WITH Modes <- RpcModes, Kinds <- LineKinds, mode <- rpcMode, pending <- dialogs, run <- served

shellVars == <<cmds, procs, outs, controller, fails>>
rpcVars == <<rpcMode, input, tasks, dialogs, served, listens, output, answered, ending>>
allVars == <<which, vars, shellVars, rpcVars>>

AllInit ==
  /\ Init /\ Running!Init /\ Serving!Init
  /\ which \in {"agent", "shell", "rpc"}
  /\ which # "rpc" => rpcMode = CHOOSE m \in RpcModes : TRUE

OfAgent(A) == which = "agent" /\ A /\ UNCHANGED <<which, shellVars, rpcVars>>
OfShell(A) == which = "shell" /\ A /\ UNCHANGED <<which, vars, rpcVars>>
OfRpc(A) == which = "rpc" /\ A /\ UNCHANGED <<which, vars, shellVars>>
AllNext ==
  \/ OfAgent(LoopStep) \/ OfAgent(Prepare) \/ OfAgent(ClientStep) \/ OfAgent(Failing)
  \/ OfAgent(ProviderStart) \/ OfAgent(ProviderDelta) \/ OfAgent(ProviderEnds)
  \/ (\E c \in Calls : OfAgent(ToolUpdates(c)) \/ OfAgent(ToolStep(c)))
  \/ OfShell(Running!Next) \/ OfRpc(Serving!Next)

(* Tasks, tools and threads go on, as each module says of its own.           *)
AllFairness ==
  /\ WF_allVars(OfAgent(LoopStep)) /\ WF_allVars(OfAgent(Prepare)) /\ SF_allVars(OfAgent(ProviderEnds))
  /\ \A c \in Calls : WF_allVars(OfAgent(ToolStep(c)))
  /\ \A c \in Commands : WF_allVars(OfShell(Running!Step(c)))
  /\ \A t \in Serving!Tasks : WF_allVars(OfRpc(Serving!TaskStep(t))) /\ WF_allVars(OfRpc(Serving!Answer(t)))
  /\ WF_allVars(OfRpc(Serving!WriteStep)) /\ WF_allVars(OfRpc(Serving!ProcessStep))

AllSpec == AllInit /\ [][AllNext]_allVars /\ AllFairness

-----------------------------------------------------------------------------
(* The file a result names has all of a command's output.                    *)
(* (executeShellWithCapture, execute_bash_with_operations)                   *)
LogIsWhole == Running!LogIsWhole

(* A command that is aborted or runs out of time does end.                   *)
(* (LocalExecutionEnv.exec, LocalBashOperations.exec)                        *)
StoppedCommandsEnd == Running!StoppedCommandsEnd

(* Every command of an embedding program gets its response while the program *)
(* keeps its side open. (RpcMode.handle_input_line)                          *)
CommandsAnswered == rpcMode = "embedded" => Serving!CommandsAnswered

(* The events of a run reach the client once each, until the mode shuts down.*)
(* (RpcMode._rebind_session)                                                 *)
EventsToldOnce == Serving!EventsToldOnce
=============================================================================
