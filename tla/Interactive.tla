----------------------------- MODULE Interactive -----------------------------
(* The interactive mode: coding_agent/modes/interactive/interactive_mode.py, *)
(* between the lines that are typed, the events of its AgentSession, which   *)
(* it handles at once, and what the chat and the status line show. The       *)
(* session's runs are what it hears of them; Agent and AgentSession have the *)
(* rest.                                                                     *)
EXTENDS Naturals, Sequences, FiniteSets

CONSTANTS
  MaxTyped, MaxSaid, MaxCalls, MaxText, MaxClears, MaxRetries,  \* bounds: lines, messages,
    \* tool calls, updates of a message, clearings of the chat, retries,
  MaxSum     \* and the first three together

VARIABLES
  screen,    \* parts: the components that were made; chat: the numbers of those in
             \*   _chat_container; streaming: _streaming_component, 0 for None; pending:
             \*   _pending_tools; loader, retryLoader: whether one of them runs
  lines,     \* what was submitted: kind, where it is, and how often it was handled
  loop,      \* of run(): "waiting" for _input_waiter, "woken", "busy" or "returned"
  stopped,   \* of the UI: stop() has unsubscribed and the session is disposed of
  run,       \* the agent's: the line it is for; at; the stop reason; aborted
  retrying,  \* the lines whose prompt() sleeps before a retry
  sleeper,   \* the one that abort_retry() would wake, or 0: _retry_abort_controller
  retries,
  replied,   \* continue_run would raise: the transcript is empty or ends in a reply
  moved,     \* history: the transcript was replaced during a retry's backoff
  said,      \* history: the messages, with their text so far, the epoch of the chat in
             \*   which they started, and whether they ended
  calls,     \* history: tool calls, with the epoch in which their component was made, 0
             \*   before, and "open", "running", "result" or "error"
  epoch      \* history: the number of clearings

retryVars == <<retrying, sleeper, retries, replied, moved>>
sessionVars == <<run, retryVars, said, calls>>
vars == <<screen, lines, loop, stopped, sessionVars, epoch>>

NoRun == [line |-> 0, at |-> "none", stop |-> "none", aborted |-> FALSE]
Init ==
  /\ screen = [parts |-> <<>>, chat |-> <<>>, streaming |-> 0, pending |-> {},
               loader |-> FALSE, retryLoader |-> FALSE]
  /\ lines = <<>> /\ loop = "waiting" /\ stopped = FALSE
  /\ run = NoRun /\ retrying = {} /\ sleeper = 0 /\ retries = 0 /\ replied = TRUE /\ moved = FALSE
  /\ said = <<>> /\ calls = <<>> /\ epoch = 1

-----------------------------------------------------------------------------
(* What the components show.                                                 *)
Add(s, part) ==
  [s EXCEPT !.parts = Append(@, part), !.chat = Append(@, Len(s.parts) + 1)]
User(m) == [what |-> "user", of |-> m, shows |-> 1]
Assistant(m, text) == [what |-> "assistant", of |-> m, shows |-> text]
Tool(c) == [what |-> "tool", of |-> c, shows |-> "partial"]
Set(s, p, part) == [s EXCEPT !.parts[p] = part]

(* _start_streaming_assistant: a component that still streams gets the new   *)
(* message's content too, before it is let go.                               *)
Starts(s, m, text) ==
  LET old == IF s.streaming = 0 THEN s ELSE Set(s, s.streaming, Assistant(m, text))
  IN [Add(old, Assistant(m, text)) EXCEPT !.streaming = Len(old.parts) + 1]

(* _update_streaming_assistant                                               *)
Updates(s, m, text) ==
  IF s.streaming = 0 THEN Starts(s, m, text) ELSE Set(s, s.streaming, Assistant(m, text))

\* Mutant: the component that streamed is not let go of.
Mut_Finishes(s, m, text) ==
  IF s.streaming # 0 THEN Set(s, s.streaming, Assistant(m, text))
  ELSE IF text > 0 THEN Add(s, Assistant(m, text)) ELSE s

(* _finish_streaming_assistant                                               *)
Finishes(s, m, text) ==
  IF s.streaming # 0
  THEN [Set(s, s.streaming, Assistant(m, text)) EXCEPT !.streaming = 0]
  ELSE IF text > 0 THEN Add(s, Assistant(m, text)) ELSE s

(* _pending_tools[id], if there is one.                                      *)
PendingOf(s, c) == {p \in s.pending : s.parts[p].of = c}
AddTool(s, c) ==
  IF PendingOf(s, c) # {} THEN s
  ELSE [Add(s, Tool(c)) EXCEPT !.pending = @ \cup {Len(s.parts) + 1}]
Shows(s, c, result) ==
  [s EXCEPT !.parts = [p \in DOMAIN @ |-> IF p \in PendingOf(s, c)
                                          THEN [@[p] EXCEPT !.shows = result] ELSE @[p]]]
EndTool(s, c, result) == [Shows(s, c, result) EXCEPT !.pending = @ \ PendingOf(s, c)]

(* An aborted or failed message ends every call that is pending.             *)
EndPending(s) ==
  [s EXCEPT !.parts = [p \in DOMAIN @ |-> IF p \in s.pending
                                          THEN [@[p] EXCEPT !.shows = "error"] ELSE @[p]],
            !.pending = {}]

(* agent_start and agent_end                                                 *)
AgentStart(s) == [s EXCEPT !.retryLoader = FALSE, !.loader = TRUE]
AgentEnd(s) ==
  [s EXCEPT !.loader = FALSE, !.retryLoader = FALSE, !.pending = {}, !.streaming = 0,
            !.chat = SelectSeq(@, LAMBDA p : p # s.streaming)]

(* _handle_auto_retry_start and _handle_auto_retry_end                       *)
RetryStart(s) == [s EXCEPT !.loader = FALSE, !.retryLoader = TRUE]
RetryEnd(s) == [s EXCEPT !.retryLoader = FALSE]

(* The chat is cleared by /new, /clone, resuming and navigating, and not     *)
(* filled again.                                                             *)
Cleared(s) == [s EXCEPT !.chat = <<>>]

(* _handle_session_event, unless stop() has unsubscribed.                    *)
Hear(s) == screen' = IF stopped THEN screen ELSE s

-----------------------------------------------------------------------------
(* The session's events.                                                     *)
Same == UNCHANGED <<lines, loop, stopped, retryVars, epoch>>
Now == Len(said)
Room == Len(lines) + Len(said) + Len(calls) < MaxSum
Says(m) == Len(said) < MaxSaid /\ Room /\ said' = Append(said, m)

(* A user's message, which is not shown if it has no text.                   *)
UserSaid ==
  /\ run.at = "between"
  /\ \E text \in 0..1 :
       /\ Says([role |-> "user", text |-> text, epoch |-> epoch, ended |-> TRUE])
       /\ Hear(IF text = 1 THEN Add(screen, User(Now + 1)) ELSE screen)
  /\ UNCHANGED <<run, calls>> /\ Same

AssistantStarts ==
  /\ run.at \in {"between", "failing"}
  /\ \E text \in 0..1 :
       /\ Says([role |-> "assistant", text |-> text, epoch |-> epoch, ended |-> FALSE])
       /\ Hear(Starts(screen, Now + 1, text))
  /\ run' = [run EXCEPT !.at = IF @ = "failing" THEN "failed" ELSE "streaming"]
  /\ UNCHANGED calls /\ Same

(* message_update: more text, or a tool call.                                *)
MoreText ==
  /\ run.at = "streaming" /\ said[Now].text < MaxText
  /\ said' = [said EXCEPT ![Now].text = @ + 1]
  /\ Hear(Updates(screen, Now, said[Now].text + 1))
  /\ UNCHANGED <<run, calls>> /\ Same
AsksFor(shown) ==
  /\ run.at = "streaming" /\ Len(calls) < MaxCalls /\ Room
  /\ calls' = Append(calls, [epoch |-> IF shown THEN epoch ELSE 0, at |-> "open"])
  /\ Hear(IF shown THEN AddTool(Updates(screen, Now, said[Now].text), Len(calls) + 1) ELSE screen)
  /\ UNCHANGED <<run, said>> /\ Same

InProgress(c) == calls[c].at \in {"open", "running"}

(* message_end; on error the agent retries or gives up, and so it does after *)
(* an abort. handleRunFailure makes such a message too.                      *)
AssistantEnds(stop) ==
  /\ run.at \in {"streaming", "failed"} /\ (run.at = "failed" => stop \in {"error", "aborted"})
  /\ stop = "aborted" => run.aborted
  /\ said' = [said EXCEPT ![Now].ended = TRUE]
  /\ LET shown == Finishes(screen, Now, said[Now].text)
         failed == stop \in {"error", "aborted"}
     IN /\ Hear(IF failed THEN EndPending(shown) ELSE shown)
        /\ calls' = [c \in DOMAIN calls |->
                       IF failed /\ PendingOf(screen, c) # {}
                       THEN [calls[c] EXCEPT !.at = "error"] ELSE calls[c]]
        /\ run' = [run EXCEPT !.stop = stop, !.at =
                     IF ~failed /\ \E c \in DOMAIN calls : InProgress(c) THEN "tools"
                     ELSE "replied"]
  /\ Same

ToolStarts(c) ==
  /\ run.at = "tools" /\ calls[c].at = "open"
  /\ Hear(AddTool(screen, c))
  /\ calls' = [calls EXCEPT ![c] = [at |-> "running", epoch |-> IF @.epoch = 0 THEN epoch ELSE @.epoch]]
  /\ UNCHANGED <<run, said>> /\ Same
ToolUpdates(c) ==
  /\ run.at = "tools" /\ calls[c].at = "running" /\ Hear(Shows(screen, c, "partial"))
  /\ UNCHANGED <<run, said, calls>> /\ Same
ToolEnds(c, result) ==
  /\ run.at = "tools" /\ calls[c].at = "running"
  /\ Hear(EndTool(screen, c, result)) /\ calls' = [calls EXCEPT ![c].at = result]
  /\ UNCHANGED <<run, said>> /\ Same

(* The batch is over, after an abort without some of its calls; a hook or a  *)
(* listener that raises ends the run with a message that says so.            *)
ToolsEnd ==
  /\ run.at = "tools" /\ \A c \in DOMAIN calls : calls[c].at # "running"
  /\ run.aborted \/ \A c \in DOMAIN calls : ~InProgress(c)
  /\ run' = [run EXCEPT !.at = "between"] /\ UNCHANGED <<screen, said, calls>> /\ Same
RunFails ==
  /\ run.at \in {"between", "tools"} /\ run' = [run EXCEPT !.at = "failing"]
  /\ UNCHANGED <<screen, said, calls>> /\ Same

(* Steering and follow-ups go on where a reply would end the run.            *)
GoesOn ==
  /\ run.at = "replied" /\ run.stop = "stop" /\ run' = [run EXCEPT !.at = "between"]
  /\ UNCHANGED <<screen, said, calls>> /\ Same
Ends ==
  /\ run.at = "replied" /\ run' = [run EXCEPT !.at = "ended"]
  /\ Hear(AgentEnd(screen)) /\ UNCHANGED <<said, calls>> /\ Same

-----------------------------------------------------------------------------
(* The lines.                                                                *)
Kinds == {"prompt", "new", "compact", "exit"}   \* and the commands that fail, like /compact
Put(n, at) == lines' = [lines EXCEPT ![n].at = at]

(* The prompt() of a line returns or raises: to run(), if it waits for it.   *)
Over(n) ==
  /\ Put(n, "over") /\ loop' = IF lines[n].at = "in run" THEN "next" ELSE loop

(* finishRun, and _handle_post_agent_run: a retry, which drops the failed     *)
(* reply and sleeps, though another line's may sleep already, or prompt()    *)
(* returns.                                                                  *)
Finish ==
  /\ run.at = "ended" /\ run' = NoRun
  /\ \/ /\ run.stop = "error" /\ retries < MaxRetries /\ retries' = retries + 1
        /\ retrying' = retrying \cup {run.line} /\ sleeper' = run.line
        /\ replied' = FALSE /\ moved' = (moved /\ retrying # {})
        /\ Hear(RetryStart(screen)) /\ UNCHANGED <<lines, loop>>
     \/ Over(run.line) /\ replied' = TRUE /\ UNCHANGED <<screen, retrying, sleeper, retries, moved>>
  /\ UNCHANGED <<stopped, said, calls, epoch>>

Begins(n) == run' = [NoRun EXCEPT !.line = n, !.at = "between"] /\ Hear(AgentStart(screen))

(* The backoff of a line is over: continue_run, which raises while another   *)
(* run is there and when the transcript is empty or ends in a reply.         *)
Wakes(n) ==
  /\ n \in retrying /\ retrying' = retrying \ {n} /\ sleeper' = 0
  /\ UNCHANGED <<stopped, retries, replied, moved, said, calls, epoch>>
RetryGoesOn(n) ==
  /\ Wakes(n) /\ run.at = "none" /\ ~replied /\ Begins(n) /\ UNCHANGED <<lines, loop>>
RetryRaises(n) ==
  /\ Wakes(n) /\ (run.at # "none" \/ replied)
  /\ Over(n) /\ UNCHANGED <<screen, run>>
(* abort_retry(), by the key app.interrupt; _abortable_sleep raises.         *)
RetryCancelled(n) ==
  /\ Wakes(n) /\ n = sleeper /\ Over(n) /\ Hear(RetryEnd(screen)) /\ UNCHANGED run

(* app.interrupt and ctrl+c while the agent streams.                         *)
Interrupt ==
  /\ run.at # "none" /\ ~stopped /\ run' = [run EXCEPT !.aborted = TRUE]
  /\ UNCHANGED <<screen, lines, loop, stopped, retryVars, said, calls, epoch>>

(* on_submit makes a task of the editor's text.                              *)
Submit(kind) ==
  /\ ~stopped /\ Len(lines) < MaxTyped /\ Room
  /\ lines' = Append(lines, [kind |-> kind, at |-> "task", times |-> 0])
  /\ UNCHANGED <<screen, loop, stopped, sessionVars, epoch>>

(* stop() and dispose(), at once: by /exit, by the keys and signals that     *)
(* make a task of _shutdown, and by run_interactive_mode.                    *)
Stops == stopped' = TRUE /\ screen' = [screen EXCEPT !.loader = FALSE]

(* _handle_user_input, in run() or in the line's own task. An exception of a *)
(* command ends run(), and with it the program, or nobody hears of it.       *)
Handles(n, at) ==
  LET kind == lines[n].kind
      counted == [lines EXCEPT ![n].times = @ + 1]
      next == IF at = "in run" THEN "next" ELSE loop
  IN CASE kind = "prompt" /\ run.at = "none" ->
            /\ lines' = [counted EXCEPT ![n].at = at] /\ Begins(n)
            /\ loop' = IF at = "in run" THEN "busy" ELSE loop
            /\ UNCHANGED <<stopped, retryVars, said, calls, epoch>>
       [] kind = "new" ->
            /\ lines' = [counted EXCEPT ![n].at = at]
            /\ loop' = IF at = "in run" THEN "busy" ELSE loop
            /\ UNCHANGED <<screen, stopped, sessionVars, epoch>>
       [] kind = "compact" /\ at = "in run" ->
            /\ lines' = [counted EXCEPT ![n].at = "over"] /\ loop' = "returned" /\ Stops
            /\ UNCHANGED <<sessionVars, epoch>>
       [] kind = "exit" ->
            /\ lines' = [counted EXCEPT ![n].at = "over"] /\ loop' = next
            /\ IF stopped THEN UNCHANGED <<screen, stopped>> ELSE Stops
            /\ UNCHANGED <<sessionVars, epoch>>
       [] OTHER ->   \* a prompt is refused, while the agent streams
            /\ lines' = [counted EXCEPT ![n].at = "over"] /\ loop' = next
            /\ UNCHANGED <<screen, stopped, sessionVars, epoch>>

(* _submit_editor_text: to run(), if it waits and was not woken before.      *)
Submitted(n) ==
  /\ lines[n].at = "task"
  /\ IF loop = "waiting"
     THEN /\ Put(n, "waiter") /\ loop' = "woken"
          /\ UNCHANGED <<screen, stopped, sessionVars, epoch>>
     ELSE Handles(n, "in task")

Woken(n) ==
  /\ loop = "woken" /\ lines[n].at = "waiter"
  /\ IF stopped THEN loop' = "returned" /\ UNCHANGED <<screen, lines, stopped, sessionVars, epoch>>
     ELSE Handles(n, "in run")

(* run() waits for the next line, unless the program is shutting down.       *)
Waits ==
  /\ loop = "next" /\ loop' = IF stopped THEN "returned" ELSE "waiting"
  /\ UNCHANGED <<screen, lines, stopped, sessionVars, epoch>>

(* new_session() is done, whatever the session's run does meanwhile.         *)
Renewed(n) ==
  /\ lines[n].kind = "new" /\ lines[n].at \in {"in run", "in task"} /\ epoch <= MaxClears
  /\ Over(n) /\ epoch' = epoch + 1 /\ screen' = Cleared(screen)
  /\ moved' = (moved \/ retrying # {}) /\ replied' \in BOOLEAN
  /\ UNCHANGED <<stopped, run, retrying, sleeper, retries, said, calls>>

(* _shutdown, by ctrl+c twice, ctrl+d or a signal. run() is not woken.       *)
Shutdown ==
  /\ ~stopped /\ Stops /\ UNCHANGED <<lines, loop, sessionVars, epoch>>

Next ==
  \/ UserSaid \/ AssistantStarts \/ MoreText \/ ToolsEnd \/ RunFails \/ GoesOn \/ Ends
  \/ \E shown \in BOOLEAN : AsksFor(shown)
  \/ \E stop \in {"stop", "error", "aborted"} : AssistantEnds(stop)
  \/ \E c \in DOMAIN calls :
       ToolStarts(c) \/ ToolUpdates(c) \/ \E result \in {"result", "error"} : ToolEnds(c, result)
  \/ Finish \/ Interrupt \/ \E n \in retrying : RetryGoesOn(n) \/ RetryRaises(n) \/ RetryCancelled(n)
  \/ \E kind \in Kinds : Submit(kind)
  \/ \E n \in DOMAIN lines : Submitted(n) \/ Woken(n) \/ Renewed(n)
  \/ Waits \/ Shutdown

Spec == Init /\ [][Next]_vars

-----------------------------------------------------------------------------
(* The chat shows the conversation since it was last cleared: each message   *)
(* that started then, with its text so far, and each tool call with what     *)
(* became of it, once, in order. (_handle_session_event)                     *)
PartsOf(what, of) ==
  {i \in DOMAIN screen.chat : /\ screen.parts[screen.chat[i]].what = what
                              /\ screen.parts[screen.chat[i]].of = of}
ShowsOnce(what, of, shows) ==
  \E i \in DOMAIN screen.chat : /\ PartsOf(what, of) = {i}
                                /\ screen.parts[screen.chat[i]].shows = shows
InOrder ==
  \A i, j \in DOMAIN screen.chat :
    LET a == screen.parts[screen.chat[i]]  b == screen.parts[screen.chat[j]]
    IN i < j /\ a.what # "tool" /\ b.what # "tool" => a.of < b.of
ChatShowsConversation ==
  ~stopped =>
    /\ \A m \in DOMAIN said : said[m].epoch = epoch /\ (said[m].role = "user" => said[m].text > 0)
         => ShowsOnce(said[m].role, m, said[m].text)
    /\ \A c \in DOMAIN calls : calls[c].epoch = epoch /\ ~InProgress(c)
         => ShowsOnce("tool", c, calls[c].at)
    /\ InOrder

(* "Working..." and the retry's countdown are never there together, and not  *)
(* without a run or a retry: but for a retry that found the transcript       *)
(* replaced, whose countdown nobody stops.                                   *)
StatusTells ==
  ~stopped =>
    /\ ~(screen.loader /\ screen.retryLoader)
    /\ run.at = "none" => ~screen.loader
    /\ run.at = "none" /\ retrying = {} /\ ~moved => ~screen.retryLoader

(* A line is handled once, by run() or by itself, or it waits for one of     *)
(* them; the UI is stopped when run() returns.                               *)
LinesAreHandled ==
  /\ \A n \in DOMAIN lines :
       /\ lines[n].times = (IF lines[n].at \in {"task", "waiter"} THEN 0 ELSE 1)
       /\ lines[n].at = "waiter" => loop \in {"woken", "returned"}
       /\ lines[n].at = "waiter" /\ loop = "woken" => \A k \in DOMAIN lines : lines[k].at = "waiter" => k = n
  /\ loop = "returned" => stopped
=============================================================================
