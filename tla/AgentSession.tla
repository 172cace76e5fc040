---------------------------- MODULE AgentSession ----------------------------
(***************************************************************************)
(* AgentSession and its runtime host: src/pi_mono/coding_agent/core/       *)
(* agent_session.py, between an Agent, a session and the clients (RPC      *)
(* commands, keys, extensions), each of which is a task of its own.        *)
(*                                                                         *)
(* The agent's run is what the session sees of it (Agent has the rest):    *)
(* each event costs a turn of the event loop, in which clients run.  The   *)
(* session is its current branch.                                          *)
(***************************************************************************)
EXTENDS Naturals, Sequences, FiniteSetsExt, Selections

CONSTANTS
  Texts,        \* what users write
  MaxRetries,   \* retry.maxRetries
  MaxPrompts, MaxQueued, MaxTools, MaxOps,   \* bounds: calls of prompt(), queued
                \* messages, replies that call tools, other calls of clients,
  MaxCalls      \* and the last three together

Prompts == 1..MaxPrompts

ASSUME RetriesAssumption == MaxRetries \in Nat
ASSUME SessionBounds ==
  /\ MaxPrompts \in Nat /\ MaxQueued \in Nat /\ MaxTools \in Nat /\ MaxOps \in Nat
  /\ MaxCalls \in Nat

VARIABLES
  session,      \* the entries of the branch
  messages,     \* agent.state.messages
  queue,        \* the agent's queues, by lane
  shown,        \* _steering_messages and _follow_up_messages, by lane
  run,          \* the agent's active run
  task,         \* the calls of prompt()
  attempt,      \* _retry_attempt
  retryOf,      \* the call _retry_abort_controller belongs to, 0 for None
  cancelled,    \* calls whose retry was cancelled
  retry,        \* retry.enabled
  reloading,    \* a session replacement or reload() awaits its resources
  bashes,       \* commands of execute_bash() in progress
  disturbed,    \* history: the transcript was replaced under a prompt() in progress, or
                \* a message came into it that could not be stored
  lost,         \* history: a run failed with messages it had drained
  spent         \* of the bounds

retryVars == <<attempt, retryOf, cancelled, retry>>
opVars == <<reloading, bashes>>
vars == <<session, messages, queue, shown, run, task, retryVars, opVars, disturbed, lost, spent>>

Lanes == {"steer", "followUp"}
User(t) == [role |-> "user", text |-> t]
Reply(failed) == [role |-> "assistant", failed |-> failed]
ToolResult == [role |-> "toolResult"]
Bash == [role |-> "bashExecution"]
Summary == [role |-> "summary"]
Compaction(keep) == [role |-> "compaction", keep |-> keep]
Message ==
  [role : {"user"}, text : Texts] \cup [role : {"assistant"}, failed : BOOLEAN]
  \cup [role : {"toolResult", "bashExecution", "summary"}]
Entry == Message \cup [role : {"compaction"}, keep : Nat \ {0}]

NoRun == [owner |-> 0, at |-> "none", todo |-> <<>>, first |-> FALSE, stop |-> "none",
          aborted |-> FALSE]
NewRun(p, todo, first) ==
  [NoRun EXCEPT !.owner = p, !.at = "delivering", !.todo = todo, !.first = first]

(* build_session_context: with a compaction, its summary, what it kept and what came
   after it. *)
build_session_context(s) ==
  LET cuts == {i \in DOMAIN s : s[i].role = "compaction"}
      c == Max(cuts)
  IN IF cuts = {} THEN s
     ELSE <<Summary>> \o Chosen(SubSeq(s, s[c].keep, c - 1), Message)
          \o SubSeq(s, c + 1, Len(s))

(* A new session, or one that is resumed, which another program has compacted. *)
Resumed == {<<User(t), Reply(FALSE), Compaction(2)>> : t \in Texts}
Init ==
  /\ session \in {<<>>} \cup Resumed /\ messages = build_session_context(session)
  /\ queue = [l \in Lanes |-> <<>>] /\ shown = [l \in Lanes |-> <<>>]
  /\ run = NoRun /\ task = [p \in Prompts |-> "new"]
  /\ attempt = 0 /\ retryOf = 0 /\ cancelled = {} /\ retry = TRUE
  /\ reloading = FALSE /\ bashes = 0 /\ disturbed = FALSE /\ lost = FALSE
  /\ spent = [queued |-> 0, tools |-> 0, ops |-> 0]

Spend(what, max) ==
  /\ spent[what] < max /\ spent.queued + spent.tools + spent.ops < MaxCalls
  /\ spent' = [spent EXCEPT ![what] = @ + 1]
InProgress == {p \in Prompts : task[p] \in {"running", "sleeping"}}
is_streaming == run.at # "none"

(* _handle_agent_event on message_end: users' and assistants' messages are stored; tool
   results are not. *)
Record(m) == messages' = Append(messages, m) /\ session' = Append(session, m)

(* _remove_delivered_queue_message: the first text of that content, steering before
   follow-up, whoever queued it. *)
Without(s, t) ==
  LET i == Min({j \in DOMAIN s : s[j] = t}) IN SubSeq(s, 1, i - 1) \o SubSeq(s, i + 1, Len(s))
Has(s, t) == \E i \in DOMAIN s : s[i] = t
\* Mutant: follow-ups are not looked for.
Mut_RemoveDelivered(t) ==
  shown' = IF Has(shown["steer"], t) THEN [shown EXCEPT !["steer"] = Without(@, t)] ELSE shown
RemoveDelivered(t) ==
  shown' = IF Has(shown["steer"], t) THEN [shown EXCEPT !["steer"] = Without(@, t)]
           ELSE IF Has(shown["followUp"], t) THEN [shown EXCEPT !["followUp"] = Without(@, t)]
           ELSE shown

\* The run drains one message of a lane, or all of them, as the mode is now.
Drain(lane, r) ==
  /\ queue[lane] # <<>>
  /\ \E n \in {1, Len(queue[lane])} :
       /\ queue' = [queue EXCEPT ![lane] = SubSeq(@, n + 1, Len(@))]
       /\ run' = [r EXCEPT !.todo = SubSeq(queue[lane], 1, n)]
\* The same, or the run goes on without.
DrainOr(lane, r, other) ==
  IF queue[lane] # <<>> THEN Drain(lane, r) ELSE run' = other /\ UNCHANGED queue

-----------------------------------------------------------------------------
(* Agent.continue_run, called when the transcript is "messages". *)
ContinueRun(p, busy) ==
  LET last == messages[Len(messages)].role
      raises ==
        busy \/ messages = <<>> \/ (last = "assistant" /\ \A l \in Lanes : queue[l] = <<>>)
  IN IF raises
     THEN /\ task' = [task EXCEPT ![p] = "raised"] /\ UNCHANGED queue
          /\ run' = IF busy THEN run ELSE NoRun
     ELSE /\ task' = [task EXCEPT ![p] = "running"]
          /\ IF last # "assistant" THEN run' = NewRun(p, <<>>, TRUE) /\ UNCHANGED queue
             ELSE IF queue["steer"] # <<>> THEN Drain("steer", NewRun(p, <<>>, FALSE))
             ELSE Drain("followUp", NewRun(p, <<>>, TRUE))

(* The end of _handle_post_agent_run, and of the loop in _run_agent_prompt. *)
ContinueOrReturn(p) ==
  IF \E l \in Lanes : queue[l] # <<>>
  THEN ContinueRun(p, is_streaming /\ run.owner # p)
  ELSE /\ task' = [task EXCEPT ![p] = "returned"] /\ UNCHANGED queue
       /\ run' = IF run.owner = p THEN NoRun ELSE run

(* prompt(): refused while the agent streams. *)
Prompt(p) ==
  /\ task[p] = "new" /\ \A q \in Prompts : q < p => task[q] # "new"
  /\ IF is_streaming THEN task' = [task EXCEPT ![p] = "raised"] /\ UNCHANGED run
     ELSE /\ task' = [task EXCEPT ![p] = "running"]
          /\ \E t \in Texts : run' = NewRun(p, <<t>>, TRUE)
  /\ UNCHANGED <<session, messages, queue, shown, retryVars, opVars, disturbed, lost, spent>>

(* message_end of a prompt or of a queued message. *)
Deliver ==
  /\ run.at = "delivering" /\ run.todo # <<>>
  /\ Record(User(Head(run.todo))) /\ RemoveDelivered(Head(run.todo))
  /\ run' = [run EXCEPT !.todo = Tail(@)]
  /\ UNCHANGED <<queue, task, retryVars, opVars, disturbed, lost, spent>>

(* The loop's first poll, unless the run began with drained steering; the request. *)
Ask ==
  /\ run.at = "delivering" /\ run.todo = <<>>
  /\ IF run.first THEN DrainOr("steer", [run EXCEPT !.first = FALSE], [run EXCEPT !.at = "asking"])
     ELSE run' = [run EXCEPT !.at = "asking"] /\ UNCHANGED queue
  /\ UNCHANGED <<session, messages, shown, task, retryVars, opVars, disturbed, lost, spent>>

Stops ==
  {"stop", "toolUse", "transient", "fatal"} \cup IF run.aborted THEN {"aborted"} ELSE {}
IsError(stop) == stop \in {"transient", "fatal"}

(* message_end of the reply: a retry succeeded unless it is an error again.  A run that
   a listener failed has its failure for a reply. *)
Replies ==
  /\ run.at \in {"asking", "failing"}
  /\ \E stop \in Stops :
       /\ run.at = "failing" => IF run.aborted THEN stop = "aborted" ELSE IsError(stop)
       /\ IF stop = "toolUse" THEN Spend("tools", MaxTools) ELSE UNCHANGED spent
       /\ Record(Reply(IsError(stop))) /\ run' = [run EXCEPT !.at = "replied", !.stop = stop]
       /\ attempt' = IF IsError(stop) THEN attempt ELSE 0
  /\ UNCHANGED <<queue, shown, task, retryOf, cancelled, retry, opVars, disturbed, lost>>

(* turn_end, and the polls after it; agent_end. *)
PollFollowUp == DrainOr("followUp", [run EXCEPT !.at = "delivering"], [run EXCEPT !.at = "ending"])
AfterReply ==
  /\ run.at = "replied"
  /\ CASE run.stop = "toolUse" -> run' = [run EXCEPT !.at = "tools"] /\ UNCHANGED queue
       [] run.stop = "stop" ->
            IF queue["steer"] # <<>> THEN Drain("steer", [run EXCEPT !.at = "delivering"])
            ELSE PollFollowUp
       [] OTHER -> run' = [run EXCEPT !.at = "ending"] /\ UNCHANGED queue
  /\ UNCHANGED <<session, messages, shown, task, retryVars, opVars, disturbed, lost, spent>>

(* The results reach the transcript, not the session. *)
ToolsEnd ==
  /\ run.at = "tools" /\ messages' = Append(messages, ToolResult)
  /\ DrainOr("steer", [run EXCEPT !.at = "delivering"], [run EXCEPT !.at = "asking"])
  /\ UNCHANGED <<session, shown, task, retryVars, opVars, disturbed, lost, spent>>

(* A listener of the session raises, the session's own among them: at a message_end,
   where the transcript has the message already, before it is stored or when storing it
   fails, which leaves it in memory (_handle_agent_event); or at another event.  The run
   fails, and with it what it had drained. *)
Due ==
  CASE run.at = "delivering" /\ run.todo # <<>> -> {<<User(Head(run.todo))>>}
    [] run.at = "asking" -> {<<Reply(failed)>> : failed \in BOOLEAN}
    [] run.at = "tools" -> {<<ToolResult>>}
    [] OTHER -> {}
ListenerRaises ==
  /\ is_streaming /\ run.at # "failing" /\ Spend("ops", MaxOps)
  /\ \E ended \in {<<>>} \cup Due :
       /\ messages' = messages \o ended
       /\ \E stored \in {<<>>, ended} :
            /\ session' = session \o stored /\ (run.at = "tools" => stored = <<>>)
            /\ disturbed' = (disturbed \/ (stored # ended /\ run.at # "tools"))
       /\ attempt' \in IF ended = <<Reply(FALSE)>> THEN {attempt, 0} ELSE {attempt}
  /\ lost' = (lost \/ run.todo # <<>>)
  /\ run' = [run EXCEPT !.at = "failing", !.todo = <<>>]
  /\ UNCHANGED <<queue, shown, task, retryOf, cancelled, retry, opVars>>

(* So does one at an event of the failure's report: agent.prompt() raises. *)
ReportRaises ==
  /\ run.at = "failing" /\ Spend("ops", MaxOps)
  /\ \E ended \in {<<>>, <<Reply(~run.aborted)>>} :
       /\ messages' = messages \o ended
       /\ \E stored \in {<<>>, ended} :
            session' = session \o stored /\ disturbed' = (disturbed \/ stored # ended)
  /\ run' = NoRun /\ task' = [task EXCEPT ![run.owner] = "raised"]
  /\ UNCHANGED <<queue, shown, retryVars, opVars, lost>>

(* _handle_post_agent_run without a retry: an error ends the attempts. *)
GiveUp(p) == attempt' = (IF IsError(run.stop) THEN 0 ELSE attempt) /\ ContinueOrReturn(p)

(* _prepare_retry: the failed reply leaves the transcript, if it is the last. *)
Sleep(p) ==
  /\ attempt' = attempt + 1 /\ retryOf' = p /\ task' = [task EXCEPT ![p] = "sleeping"]
  /\ messages' = IF messages # <<>> /\ messages[Len(messages)].role = "assistant"
                 THEN SubSeq(messages, 1, Len(messages) - 1) ELSE messages
  /\ run' = NoRun /\ UNCHANGED queue

(* finishRun, and what the prompt() that awaits it does next, at once. *)
Finish ==
  /\ run.at = "ending"
  /\ IF run.stop = "transient" /\ retry /\ attempt < MaxRetries THEN Sleep(run.owner)
     ELSE GiveUp(run.owner) /\ UNCHANGED <<messages, retryOf>>
  /\ UNCHANGED <<session, shown, cancelled, retry, opVars, disturbed, lost, spent>>

(* The backoff is over: continue_run raises if another prompt() is running by now, or
   if the transcript ends with a reply. *)
Wake(p) ==
  /\ task[p] = "sleeping" /\ p \notin cancelled
  /\ retryOf' = 0 /\ ContinueRun(p, is_streaming)
  /\ UNCHANGED <<session, messages, shown, attempt, cancelled, retry, opVars, disturbed, lost, spent>>

\* Mutant: a cancelled backoff looks for its controller where another may be by now.
Mut_WakeCancelled(p) ==
  /\ task[p] = "sleeping" /\ p \in cancelled /\ retryOf = p
  /\ retryOf' = 0 /\ attempt' = 0 /\ cancelled' = cancelled \ {p} /\ ContinueOrReturn(p)
  /\ UNCHANGED <<session, messages, shown, retry, opVars, disturbed, lost, spent>>

(* _abortable_sleep raises: the attempts are over. *)
WakeCancelled(p) ==
  /\ task[p] = "sleeping" /\ p \in cancelled
  /\ retryOf' = 0 /\ attempt' = 0 /\ cancelled' = cancelled \ {p} /\ ContinueOrReturn(p)
  /\ UNCHANGED <<session, messages, shown, retry, opVars, disturbed, lost, spent>>

-----------------------------------------------------------------------------
(* steer() and follow_up(), at any time. *)
Queue(lane, t) ==
  /\ Spend("queued", MaxQueued)
  /\ shown' = [shown EXCEPT ![lane] = Append(@, t)]
  /\ queue' = [queue EXCEPT ![lane] = Append(@, t)]
  /\ UNCHANGED <<session, messages, run, task, retryVars, opVars, disturbed, lost>>

Op == Spend("ops", MaxOps)

clear_queue ==
  /\ Op /\ shown' = [l \in Lanes |-> <<>>] /\ queue' = [l \in Lanes |-> <<>>]
  /\ UNCHANGED <<session, messages, run, task, retryVars, opVars, disturbed, lost>>

(* abort(): the signal of the run there is. compact() does no more: prepare_compaction
   reads attributes of the session's entries, which are dicts, and raises. *)
abort ==
  /\ Op /\ run' = IF is_streaming THEN [run EXCEPT !.aborted = TRUE] ELSE run
  /\ UNCHANGED <<session, messages, queue, shown, task, retryVars, opVars, disturbed, lost>>

(* abort_retry() *)
abort_retry ==
  /\ retryOf # 0 /\ Op /\ cancelled' = cancelled \cup {retryOf}
  /\ UNCHANGED <<session, messages, queue, shown, run, task, attempt, retryOf, retry, opVars,
                 disturbed, lost>>

set_auto_retry ==
  /\ Op /\ retry' = ~retry
  /\ UNCHANGED <<session, messages, queue, shown, run, task, attempt, retryOf, cancelled, opVars,
                 disturbed, lost>>

(* execute_bash(); its result is recorded when it ends, whatever runs by then. *)
execute_bash ==
  /\ Op /\ bashes' = bashes + 1
  /\ UNCHANGED <<session, messages, queue, shown, run, task, retryVars, reloading, disturbed, lost>>
record_bash_result ==
  /\ bashes > 0 /\ bashes' = bashes - 1 /\ Record(Bash)
  /\ UNCHANGED <<queue, shown, run, task, retryVars, reloading, disturbed, lost, spent>>

-----------------------------------------------------------------------------
\* Mutant: the transcript is rebuilt before the leaf has moved.
Mut_Rebuild(s) ==
  /\ session' = s /\ messages' = build_session_context(session)
  /\ disturbed' = (disturbed \/ InProgress # {})

\* The transcript becomes what the session has, also under a prompt() in progress.
Rebuild(s) ==
  /\ session' = s /\ messages' = build_session_context(s)
  /\ disturbed' = (disturbed \/ InProgress # {})

(* navigate_tree(): the leaf moves back, or to the parent of a user's message. *)
navigate_tree ==
  /\ Op /\ \E n \in 0..Len(session) : n < Len(session) /\ Rebuild(SubSeq(session, 1, n))
  /\ UNCHANGED <<queue, shown, run, task, retryVars, reloading, bashes, lost>>

(* new_session(), switch_session() and fork() of the runtime host, which makes no new
   AgentSession: another session, empty or with a part of this one, takes its place, and
   the transcript follows when reload() has its resources. *)
ReplaceSession ==
  /\ ~reloading /\ Op /\ reloading' = TRUE
  /\ \E n \in 0..Len(session) : session' = SubSeq(session, 1, n)
  /\ UNCHANGED <<messages, queue, shown, run, task, retryVars, bashes, disturbed, lost>>
Reloaded ==
  /\ reloading /\ reloading' = FALSE /\ Rebuild(session)
  /\ UNCHANGED <<queue, shown, run, task, retryVars, bashes, lost, spent>>

-----------------------------------------------------------------------------
RunStep == Deliver \/ Ask \/ Replies \/ AfterReply \/ ToolsEnd \/ Finish
TaskStep(p) == Wake(p) \/ WakeCancelled(p)
OpStep == record_bash_result \/ Reloaded
ClientStep ==
  \/ \E p \in Prompts : Prompt(p)
  \/ \E lane \in Lanes, t \in Texts : Queue(lane, t)
  \/ clear_queue \/ abort \/ abort_retry \/ set_auto_retry \/ execute_bash \/ navigate_tree
  \/ ReplaceSession \/ ListenerRaises \/ ReportRaises

Next == RunStep \/ (\E p \in Prompts : TaskStep(p)) \/ OpStep \/ ClientStep

Spec == Init /\ [][Next]_vars

(* Providers and tools answer, and timers expire. *)
Fairness == WF_vars(RunStep) /\ \A p \in Prompts : WF_vars(TaskStep(p))
FairSpec == Spec /\ Fairness
=============================================================================
