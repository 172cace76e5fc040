-------------------------------- MODULE Rpc ---------------------------------
(* The RPC mode (coding_agent/modes/rpc): lines of commands that come in, a  *)
(* task for each, and the lines that go out, each by a task and a thread of  *)
(* its own (core/output_guard.py). The program reads its stdin, a pipe; an   *)
(* embedding program calls handle_input_line for every line.                 *)
EXTENDS Naturals, FiniteSets

CONSTANTS
  Modes,       \* of {"piped", "embedded"}
  Kinds,       \* of commands, among AllKinds
  MaxLines     \* bound: the commands a client sends

VARIABLES
  mode,
  input,       \* lines in the pipe, and closed; blocked: the event loop is in read1;
               \*   sent: all lines there were
  tasks,       \* 0: run(); n: the task of line n, and for a prompt then the task it
               \*   created: kind; at; ours, whether the handler binds the session again;
               \*   asked: the length of the output with its dialog, 0 for none
  pending,     \* _pending_extension_requests: the tasks whose dialogs are in it
  run,         \* the task whose run the session is in, or 0
  listens,     \* handle: _unsubscribe is set; listeners: how often output is among the
               \*   session's listeners
  output,      \* all: the number of lines; begun, written: how many were
  answered,    \* the lines that were answered
  ending       \* "no", "flushes", "exits"

vars == <<mode, input, tasks, pending, run, listens, output, answered, ending>>

(* "sync" stands for the commands that are answered at once, an error among  *)
(* them; "await" for bash, compact, export_html; "replace" for new_session,  *)
(* fork, clone, switch_session; "command" for a prompt that is an extension's*)
(* command, which replaces the session.                                      *)
AllKinds == {"sync", "await", "prompt", "command", "replace"}
Lines == 1..MaxLines
Tasks == 0..MaxLines
NoTask == [kind |-> "none", at |-> "none", ours |-> FALSE, asked |-> 0]
Live == ending # "exits" /\ ~input.blocked      \* the event loop runs
At(t, at) == Live /\ tasks[t].at = at
Goes(t, at) == tasks' = [tasks EXCEPT ![t].at = at]
Tells(n) == output' = [output EXCEPT !.all = @ + n]

Init ==
  /\ mode \in Modes /\ pending = {} /\ run = 0 /\ answered = {} /\ ending = "no"
  /\ input = [piped |-> {}, closed |-> FALSE, blocked |-> FALSE, sent |-> 0]
  /\ tasks = [t \in Tasks |-> IF t = 0 THEN [NoTask EXCEPT !.kind = "run", !.at = "binds"] ELSE NoTask]
  /\ output = [all |-> 0, begun |-> 0, written |-> 0]
  /\ listens = [handle |-> FALSE, listeners |-> 0]

-----------------------------------------------------------------------------
(* Lines come in.                                                            *)
Taken(lines) ==          \* a task for each
  [t \in Tasks |-> IF t \in lines THEN [tasks[t] EXCEPT !.at = "line"] ELSE tasks[t]]
Send(kind) ==
  /\ input.sent < MaxLines /\ ~input.closed /\ ending # "exits"
  /\ LET n == input.sent + 1
         new == [tasks EXCEPT ![n] = [NoTask EXCEPT !.kind = kind,
                                                    !.at = IF mode = "piped" THEN "none" ELSE "line"]]
     IN /\ tasks' = new
        /\ input' = [input EXCEPT !.sent = n, !.piped = IF mode = "piped" THEN @ \cup {n} ELSE @]
  /\ UNCHANGED <<mode, listens, pending, run, output, answered, ending>>
Close ==                 \* the client ends its side
  /\ mode = "piped" /\ ~input.closed /\ input' = [input EXCEPT !.closed = TRUE]
  /\ UNCHANGED <<mode, listens, tasks, pending, run, output, answered, ending>>

(* on_stdin_ready reads until the pipe's end, in the event loop.             *)
ReadsPipe ==
  /\ At(0, "loop") /\ mode = "piped" /\ ending = "no" /\ (input.closed \/ input.piped # {})
  /\ input' = [input EXCEPT !.blocked = TRUE]
  /\ UNCHANGED <<mode, listens, tasks, pending, run, output, answered, ending>>

(* shutdown: a session that is disposed has no listeners, and hears nothing  *)
(* more of the agent.                                                        *)
ShutsDown == ending' = "flushes" /\ listens' = [listens EXCEPT !.listeners = 0]
PipeEnds ==              \* run() takes every chunk from the queue, and the end, in one go
  /\ input.blocked /\ input.closed /\ ending = "no"
  /\ input' = [input EXCEPT !.blocked = FALSE, !.piped = {}]
  /\ tasks' = [Taken(input.piped) EXCEPT ![0].at = "over"]
  /\ ShutsDown /\ UNCHANGED <<mode, pending, run, output, answered>>

Signal(term) ==          \* its task; a second signal, or SIGTERM without a flush, ends the process
  /\ Live /\ mode = "piped"
  /\ IF ending = "no" /\ ~term THEN ShutsDown
     ELSE ending' = "exits" /\ UNCHANGED listens
  /\ UNCHANGED <<mode, input, tasks, pending, run, output, answered>>
Exit ==                  \* flush_raw_stdout ended
  /\ Live /\ ending = "flushes" /\ output.written = output.all
  /\ ending' = "exits" /\ UNCHANGED <<mode, listens, input, tasks, pending, run, output, answered>>

-----------------------------------------------------------------------------
(* Lines go out: each a task, then a thread, and the threads in any order.   *)
WriteBegins ==
  /\ Live /\ output.begun < output.all
  /\ output' = [output EXCEPT !.begun = @ + 1]
  /\ UNCHANGED <<mode, listens, input, tasks, pending, run, answered, ending>>
WriteEnds ==             \* the executor is waited for when the process exits
  /\ output.written < output.begun /\ output' = [output EXCEPT !.written = @ + 1]
  /\ UNCHANGED <<mode, listens, input, tasks, pending, run, answered, ending>>
WriteFails ==            \* not with EAGAIN, which is tried again: SystemExit, in the event loop
  /\ Live /\ output.written < output.begun /\ ending' = "exits"
  /\ UNCHANGED <<mode, listens, input, tasks, pending, run, output, answered>>

(* A response, then wait_for_raw_stdout_backpressure.                        *)
Responds(t) ==
  /\ Tells(1) /\ answered' = answered \cup {t} /\ Goes(t, "drains")
Drains(t) ==
  /\ At(t, "drains") /\ output.written = output.all /\ Goes(t, "over")
  /\ UNCHANGED <<mode, listens, input, pending, run, output, answered, ending>>

-----------------------------------------------------------------------------
(* Commands.                                                                 *)
Handle(t) ==             \* handle_command, up to where it waits
  /\ At(t, "line")
  /\ CASE tasks[t].kind = "sync" -> Responds(t)
       [] tasks[t].kind = "await" -> Goes(t, "works") /\ UNCHANGED <<output, answered>>
       [] tasks[t].kind \in {"prompt", "command"} ->
            Goes(t, "prompts") /\ UNCHANGED <<output, answered>>
       [] tasks[t].kind = "replace" -> Goes(t, "replaces") /\ UNCHANGED <<output, answered>>
  /\ UNCHANGED <<mode, listens, input, pending, run, ending>>

Works(t) ==              \* its result, or what it raised
  /\ At(t, "works") /\ Responds(t) /\ UNCHANGED <<mode, listens, input, pending, run, ending>>

Prompts(t) ==            \* session.prompt, in the task that _run_prompt is
  /\ At(t, "prompts")
  /\ CASE tasks[t].kind = "command" ->
            Goes(t, "replaces") /\ UNCHANGED <<output, answered, run>>
       [] tasks[t].kind = "prompt" /\ run # 0 -> Responds(t) /\ UNCHANGED run
       [] OTHER -> Goes(t, "runs") /\ run' = t /\ UNCHANGED <<output, answered>>
  /\ UNCHANGED <<mode, listens, input, pending, ending>>
RunEnds(t) ==            \* its last event is told before the response
  /\ At(t, "runs") /\ run' = 0 /\ answered' = answered \cup {t} /\ Goes(t, "drains")
  /\ Tells(IF ending = "no" THEN listens.listeners + 1 ELSE 1) /\ UNCHANGED <<mode, listens, input, pending, ending>>

Replaces(t) ==           \* AgentSessionRuntime.new_session: reload, and rebind; or it raises
  /\ At(t, "replaces")
  /\ \/ Responds(t)
     \/ tasks' = [tasks EXCEPT ![t].at = "binds", ![t].ours = (tasks[t].kind = "replace")]
        /\ UNCHANGED <<output, answered>>
  /\ UNCHANGED <<mode, listens, input, pending, run, ending>>

(* _rebind_session: bind_extensions emits session_start, whose handlers may  *)
(* ask the client something.                                                 *)
Asks(t) ==
  /\ At(t, "binds") /\ tasks[t].asked = 0 /\ pending' = pending \cup {t} /\ Tells(1)
  /\ tasks' = [tasks EXCEPT ![t].at = "asks", ![t].asked = output.all + 1]
  /\ UNCHANGED <<mode, listens, input, run, answered, ending>>
Mut_Resolved(t) ==       \* the future is forgotten
  pending' = pending \ {t} /\ UNCHANGED tasks
Resolved(t) ==
  pending' = pending \ {t} /\ Goes(t, "binds")
Answer(t) ==             \* a line of the client, who may have read the request
  /\ Live /\ mode = "embedded" /\ t \in pending /\ tasks[t].asked <= output.begun /\ Resolved(t)
  /\ UNCHANGED <<mode, listens, input, run, output, answered, ending>>
TimesOut(t) ==           \* of a dialog that has a timeout
  /\ At(t, "asks") /\ Resolved(t)
  /\ UNCHANGED <<mode, listens, input, run, output, answered, ending>>
Mut_Subscribed(l) ==     \* the listener of before is left, as a new session would not have it
  [handle |-> TRUE, listeners |-> l.listeners + 1]
Subscribed(l) ==         \* after what is subscribed by then is unsubscribed
  [handle |-> TRUE,
   listeners |-> IF l.handle /\ l.listeners > 0 THEN l.listeners ELSE l.listeners + 1]
Bound(t) ==              \* new_session's own binding is followed by the handler's
  /\ At(t, "binds") /\ listens' = Subscribed(listens)
  /\ IF t = 0 THEN Goes(t, "loop") /\ UNCHANGED <<output, answered>>
     ELSE IF tasks[t].ours
     THEN /\ tasks' = [tasks EXCEPT ![t].ours = FALSE, ![t].asked = 0] /\ UNCHANGED <<output, answered>>
     ELSE Responds(t)
  /\ UNCHANGED <<mode, input, pending, run, ending>>

TaskStep(t) ==
  \/ Handle(t) \/ Works(t) \/ Prompts(t) \/ RunEnds(t) \/ Replaces(t) \/ Bound(t) \/ Drains(t)
WriteStep == WriteBegins \/ WriteEnds
ProcessStep == ReadsPipe \/ PipeEnds \/ Exit
Next ==
  \/ \E kind \in Kinds : Send(kind)
  \/ Close \/ ProcessStep \/ WriteStep \/ WriteFails
  \/ \E term \in BOOLEAN : Signal(term)
  \/ \E t \in Tasks : TaskStep(t) \/ Asks(t) \/ Answer(t) \/ TimesOut(t)

(* Tasks, the writing thread and the reading of the pipe go on; a client     *)
(* answers the dialogs it has read.                                          *)
Fairness ==
  /\ \A t \in Tasks : WF_vars(TaskStep(t)) /\ WF_vars(Answer(t))
  /\ WF_vars(WriteStep) /\ WF_vars(ProcessStep)
Spec == Init /\ [][Next]_vars /\ Fairness

-----------------------------------------------------------------------------
(* Every command gets its response while the client keeps its side open:     *)
(* again and again, all there were have theirs. (RpcMode.handle_input_line)  *)
CommandsAnswered == []<>(1..input.sent \subseteq answered \/ ending # "no" \/ input.closed)

(* The events of a run reach the client once each, however many tasks bind   *)
(* the session again while it goes on: the last of them and the response are *)
(* what its end tells. (_rebind_session; until the mode shuts down)          *)
EventsToldOnce ==
  [][run # 0 /\ run' = 0 /\ listens.handle /\ ending = "no"
       => output'.all = output.all + 2]_vars
=============================================================================
