------------------------------- MODULE Agent -------------------------------
(***************************************************************************)
(* The Agent and its loop: src/pi_mono/agent/agent.py and agent_loop.py.   *)
(*                                                                         *)
(* asyncio runs everything on one thread, so other code runs only while    *)
(* the run is suspended.  Every event the loop emits suspends it: Agent.   *)
(* processEvents applies the event to the state and then awaits the        *)
(* listeners (AgentSession always subscribes one).  "pc" names what the    *)
(* run is suspended on, which is the event whose listeners are running,    *)
(* the provider's stream, or a batch of tools; each action is the code     *)
(* from one suspension to the next.                                        *)
(*                                                                         *)
(* Tool calls are numbered in the order the provider asked for them, user  *)
(* messages in the order they were accepted.  A message keeps only its     *)
(* role, its identity, the lane it came by and how it ended.               *)
(***************************************************************************)
EXTENDS Naturals, Sequences

CONSTANTS
  Modes,            \* execution modes a batch may take; {"sequential"} if so configured
  SteeringMode,     \* "all" or "one-at-a-time", as FollowUpMode
  FollowUpMode,
  ClientCalls,      \* bound: what clients call besides prompt() and continue_run()
  MaxMessages,      \* bound: user messages accepted
  MaxCalls,         \* bound: tool calls the provider asks for
  MaxBatch,         \* bound: tool calls in one assistant message
  MaxRuns,          \* bound: runs started
  MaxRaises         \* bound: exceptions raised by listeners

ASSUME ModesAssumption == Modes \subseteq {"sequential", "parallel"}
ASSUME BoundsAssumption ==
  /\ MaxMessages \in Nat /\ MaxCalls \in Nat /\ MaxBatch \in Nat
  /\ MaxRuns \in Nat /\ MaxRaises \in Nat

VARIABLES
  pc,            \* what the run is suspended on; "idle" when active_run is None
  aborted,       \* the run's abort controller has fired
  isStreaming, streaming, pendingCalls, msgs,   \* AgentState
  steering, followUp,                           \* the two PendingMessageQueues
  skip,          \* skip_initial_steering_poll of this run
  ctx,           \* current_context["messages"] of the run
  prompts,       \* prompts the run has yet to announce
  pending,       \* pending_messages of run_loop
  batch,         \* tool calls of the assistant message being executed
  mode,          \* how this batch is executed
  started,       \* how many of them were started
  tool,          \* [call -> where its execution stands]
  allTerminate,  \* every finalized call of the batch asked to terminate
  results,       \* result messages of the batch, in emission order
  failure,       \* handleRunFailure's failure_message
  accepted, asked, runs, raises,  \* counters for the bounds
  discarded,     \* messages dropped by clear*Queue or reset
  base,          \* Len(ctx) when the run began
  intact,        \* no reset hit a run and left its transcript torn
  orphanEvents   \* orphaned tools' events that met no active run

agentState == <<isStreaming, streaming, pendingCalls, msgs>>
queues == <<steering, followUp, accepted, discarded>>
toolVars == <<tool, allTerminate, orphanEvents>>
batchVars == <<batch, mode, started, asked>>
runVars == <<runs, skip, base, intact, failure>>
vars == <<pc, aborted, agentState, queues, ctx, prompts, pending,
          batchVars, toolVars, results, runVars, raises>>

Lanes == {"prompt", "steer", "followUp"}
Stops == {"stop", "toolUse", "error", "aborted"}
Calls == 1..MaxCalls
Ids == 1..MaxMessages

UserMessage == [role : {"user"}, id : Ids, via : Lanes]
Assistant == [role : {"assistant"}, stop : Stops \cup {"partial"}, calls : Seq(Calls)]
ToolResult == [role : {"toolResult"}, call : Calls]
Message == UserMessage \cup Assistant \cup ToolResult

User(n, lane) == [role |-> "user", id |-> n, via |-> lane]
Reply(stop, calls) == [role |-> "assistant", stop |-> stop, calls |-> calls]
ResultOf(c) == [role |-> "toolResult", call |-> c]
Partial == Reply("partial", <<>>)

None == [role |-> "none"]
LastOf(s) == s[Len(s)]
Elems(s) == {s[i] : i \in 1..Len(s)}
ReplaceLast(s, m) == [s EXCEPT ![Len(s)] = m]

\* Suspended on the listeners of an event of this run, not of its tools.
HandlingFailure == {"hf_start", "hf_end", "hf_turn_end", "hf_agent_end"}
Announcing ==
  {"agent_start", "first_turn_start", "prompt_start", "prompt_end",
   "turn_start", "inject_start", "inject_end",
   "partial_start", "update", "final_start", "assistant_end",
   "tool_start", "immediate_end", "result_start", "result_end",
   "turn_end", "fail_turn_end", "agent_end"}
Streaming == {"provider", "provider_more"}
Suspensions == Announcing \cup Streaming \cup HandlingFailure \cup {"tool_wait", "idle"}

Live == {"running", "updating", "ending"}
Stages == {"new", "started", "prepared", "done", "dead"} \cup Live

\* agent.py active_run, and run_loop's has_more_tool_calls
Active == pc # "idle"
HasMore == started > 0 /\ ~allTerminate

Init ==
  /\ pc = "idle" /\ aborted = FALSE
  /\ isStreaming = FALSE /\ streaming = None /\ pendingCalls = {} /\ msgs = <<>>
  /\ steering = <<>> /\ followUp = <<>> /\ skip = FALSE
  /\ ctx = <<>> /\ prompts = <<>> /\ pending = <<>>
  /\ batch = <<>> /\ mode = "none" /\ started = 0
  /\ tool = [c \in Calls |-> "new"] /\ allTerminate = TRUE /\ results = <<>>
  /\ accepted = 0 /\ asked = 0 /\ runs = 0 /\ raises = 0
  /\ discarded = {} /\ failure = None /\ base = 0 /\ intact = TRUE /\ orphanEvents = 0

-----------------------------------------------------------------------------
\* Mutant: one-at-a-time takes the newest message.
Mut_Drained(qmode, queue) ==
  IF qmode = "all" \/ queue = <<>> THEN queue ELSE <<LastOf(queue)>>

(* PendingMessageQueue.drain *)
Drained(qmode, queue) ==
  IF qmode = "all" \/ queue = <<>> THEN queue ELSE <<Head(queue)>>
Rest(qmode, queue) ==
  IF qmode = "all" \/ queue = <<>> THEN <<>> ELSE Tail(queue)

(* Starting a run: runWithLifecycle, createContextSnapshot, agent_start. *)
StartRun(ps, skipPoll) ==
  /\ runs < MaxRuns /\ runs' = runs + 1
  /\ aborted' = FALSE /\ isStreaming' = TRUE /\ streaming' = None
  /\ ctx' = msgs \o ps /\ prompts' = ps /\ base' = Len(msgs)
  /\ skip' = skipPoll /\ failure' = None
  /\ pending' = <<>> /\ batch' = <<>> /\ started' = 0 /\ results' = <<>>
  /\ allTerminate' = TRUE /\ mode' = "none"
  /\ pc' = "agent_start"
  /\ UNCHANGED <<pendingCalls, msgs, tool, orphanEvents, asked, intact, raises>>

(* prompt() raises while a run is active; here it is accepted. *)
Prompt ==
  /\ ~Active /\ accepted < MaxMessages
  /\ StartRun(<<User(accepted + 1, "prompt")>>, FALSE)
  /\ accepted' = accepted + 1
  /\ UNCHANGED <<steering, followUp, discarded>>

(* continue_run() after an assistant message: the queues become prompts. *)
ContinueQueued ==
  /\ ~Active /\ msgs # <<>> /\ LastOf(msgs).role = "assistant"
  /\ \/ /\ steering # <<>>
        /\ StartRun(Drained(SteeringMode, steering), TRUE)
        /\ steering' = Rest(SteeringMode, steering)
        /\ UNCHANGED followUp
     \/ /\ steering = <<>> /\ followUp # <<>>
        /\ StartRun(Drained(FollowUpMode, followUp), FALSE)
        /\ followUp' = Rest(FollowUpMode, followUp)
        /\ UNCHANGED steering
  /\ UNCHANGED <<accepted, discarded>>

(* continue_run() after any other message: runContinuation. *)
Continue ==
  /\ ~Active /\ msgs # <<>> /\ LastOf(msgs).role # "assistant"
  /\ StartRun(<<>>, FALSE)
  /\ UNCHANGED queues

-----------------------------------------------------------------------------
(* Calls that other code makes at any suspension. *)
Steer ==
  /\ "steer" \in ClientCalls
  /\ accepted < MaxMessages /\ accepted' = accepted + 1
  /\ steering' = Append(steering, User(accepted + 1, "steer"))
  /\ UNCHANGED <<pc, aborted, agentState, followUp, discarded, ctx, prompts, pending,
                 batchVars, toolVars, results, runVars, raises>>

FollowUp ==
  /\ "followUp" \in ClientCalls
  /\ accepted < MaxMessages /\ accepted' = accepted + 1
  /\ followUp' = Append(followUp, User(accepted + 1, "followUp"))
  /\ UNCHANGED <<pc, aborted, agentState, steering, discarded, ctx, prompts, pending,
                 batchVars, toolVars, results, runVars, raises>>

(* clearSteeringQueue, clearFollowUpQueue; clearAllQueues is both at once. *)
ClearQueues ==
  /\ "clear" \in ClientCalls
  /\ \E qs \in SUBSET {"steer", "followUp"} :
       LET gone == (IF "steer" \in qs THEN Elems(steering) ELSE {})
                   \cup (IF "followUp" \in qs THEN Elems(followUp) ELSE {})
       IN /\ gone # {}
          /\ steering' = IF "steer" \in qs THEN <<>> ELSE steering
          /\ followUp' = IF "followUp" \in qs THEN <<>> ELSE followUp
          /\ discarded' = discarded \cup {m.id : m \in gone}
  /\ UNCHANGED <<pc, aborted, agentState, accepted, ctx, prompts, pending,
                 batchVars, toolVars, results, runVars, raises>>

Abort ==
  /\ "abort" \in ClientCalls
  /\ Active /\ ~aborted /\ aborted' = TRUE
  /\ UNCHANGED <<pc, agentState, queues, ctx, prompts, pending,
                 batchVars, toolVars, results, runVars, raises>>

(* reset() does not look at active_run: the run goes on with its own context. *)
Reset ==
  /\ "reset" \in ClientCalls
  /\ msgs' = <<>> /\ isStreaming' = FALSE /\ streaming' = None /\ pendingCalls' = {}
  /\ steering' = <<>> /\ followUp' = <<>>
  /\ discarded' = discarded \cup {m.id : m \in Elems(steering) \cup Elems(followUp)}
                  \cup {m.id : m \in {x \in Elems(msgs) : x.role = "user"}}
  /\ intact' = (pc = "idle")
  /\ UNCHANGED <<pc, aborted, accepted, ctx, prompts, pending,
                 batchVars, toolVars, results, runs, skip, base, failure, raises>>

-----------------------------------------------------------------------------
(* processEvents on the message events. *)
MessageStart(m) == streaming' = m /\ UNCHANGED <<msgs, isStreaming, pendingCalls>>
MessageEnd(m) ==
  /\ streaming' = None /\ msgs' = Append(msgs, m)
  /\ UNCHANGED <<isStreaming, pendingCalls>>

(* The head of run_loop's inner while: inject the next pending message, or ask
   the provider.  "p" is pending_messages from here on. *)
InjectOrStream(p) ==
  /\ pending' = p
  /\ IF p # <<>>
     THEN MessageStart(Head(p)) /\ pc' = "inject_start"
     ELSE UNCHANGED agentState /\ pc' = "provider"

(* run_loop's first poll of the steering queue. *)
EnterLoop ==
  IF skip
  THEN /\ skip' = FALSE /\ InjectOrStream(<<>>) /\ UNCHANGED steering
  ELSE /\ InjectOrStream(Drained(SteeringMode, steering))
       /\ steering' = Rest(SteeringMode, steering)
       /\ UNCHANGED skip

AfterAgentStart ==
  /\ pc = "agent_start" /\ pc' = "first_turn_start"
  /\ UNCHANGED <<aborted, agentState, queues, ctx, prompts, pending,
                 batchVars, toolVars, results, runVars, raises>>

(* run_agent_loop's prompt loop, then run_loop. *)
NextPrompt(rest) ==
  /\ prompts' = rest
  /\ IF rest # <<>>
     THEN /\ MessageStart(Head(rest)) /\ pc' = "prompt_start"
          /\ UNCHANGED <<pending, steering, skip>>
     ELSE EnterLoop

AfterFirstTurnStart ==
  /\ pc = "first_turn_start" /\ NextPrompt(prompts)
  /\ UNCHANGED <<aborted, followUp, accepted, discarded, ctx,
                 batchVars, toolVars, results, runs, base, intact, failure, raises>>

AfterPromptStart ==
  /\ pc = "prompt_start" /\ pc' = "prompt_end" /\ MessageEnd(Head(prompts))
  /\ UNCHANGED <<aborted, queues, ctx, prompts, pending,
                 batchVars, toolVars, results, runVars, raises>>

AfterPromptEnd ==
  /\ pc = "prompt_end" /\ NextPrompt(Tail(prompts))
  /\ UNCHANGED <<aborted, followUp, accepted, discarded, ctx,
                 batchVars, toolVars, results, runs, base, intact, failure, raises>>

AfterTurnStart ==
  /\ pc = "turn_start" /\ InjectOrStream(pending)
  /\ UNCHANGED <<aborted, queues, ctx, prompts, batchVars, toolVars, results,
                 runVars, raises>>

AfterInjectStart ==
  /\ pc = "inject_start" /\ pc' = "inject_end" /\ MessageEnd(Head(pending))
  /\ UNCHANGED <<aborted, queues, ctx, prompts, pending,
                 batchVars, toolVars, results, runVars, raises>>

\* Mutant: the injected message is announced but not added to the context.
Mut_AfterInjectEnd ==
  /\ pc = "inject_end" /\ InjectOrStream(Tail(pending))
  /\ UNCHANGED <<aborted, queues, ctx, prompts, batchVars, toolVars, results, runVars, raises>>

AfterInjectEnd ==
  /\ pc = "inject_end"
  /\ ctx' = Append(ctx, Head(pending))
  /\ InjectOrStream(Tail(pending))
  /\ UNCHANGED <<aborted, queues, prompts, batchVars, toolVars, results, runVars, raises>>

-----------------------------------------------------------------------------
(* stream_assistant_response.  The provider is outside: it may send a partial
   message, update it, and end with any stop reason ("aborted" only once the
   signal fired; "toolUse", not "stop", if there are calls, and calls also under
   "error" and "aborted"); an exception of its own is ProviderRaises. *)
ProviderStart ==
  /\ pc = "provider" /\ pc' = "partial_start"
  /\ ctx' = Append(ctx, Partial) /\ MessageStart(Partial)
  /\ UNCHANGED <<aborted, queues, prompts, pending, batchVars, toolVars, results,
                 runVars, raises>>

AfterPartial ==
  /\ pc \in {"partial_start", "update"} /\ pc' = "provider_more"
  /\ UNCHANGED <<aborted, agentState, queues, ctx, prompts, pending,
                 batchVars, toolVars, results, runVars, raises>>

ProviderDelta ==
  /\ pc = "provider_more" /\ pc' = "update"
  /\ ctx' = ReplaceLast(ctx, Partial) /\ MessageStart(Partial)
  /\ UNCHANGED <<aborted, queues, prompts, pending, batchVars, toolVars, results,
                 runVars, raises>>

(* The final message replaces the partial one, or is announced first. *)
ProviderEnds ==
  /\ pc \in Streaming
  /\ \E stop \in Stops, k \in 0..MaxBatch :
       LET final == Reply(stop, [i \in 1..k |-> asked + i])
       IN /\ stop = "aborted" => aborted
          /\ IF k > 0 THEN stop # "stop" ELSE stop # "toolUse"
          /\ asked + k <= MaxCalls /\ asked' = asked + k
          /\ \/ /\ pc = "provider_more" /\ pc' = "assistant_end"
                /\ ctx' = ReplaceLast(ctx, final) /\ MessageEnd(final)
             \/ /\ pc = "provider" /\ pc' = "final_start"
                /\ ctx' = Append(ctx, final) /\ MessageStart(final)
  /\ UNCHANGED <<aborted, queues, prompts, pending, batch, mode, started, toolVars, results,
                 runVars, raises>>

AfterFinalStart ==
  /\ pc = "final_start" /\ pc' = "assistant_end" /\ MessageEnd(LastOf(ctx))
  /\ UNCHANGED <<aborted, queues, ctx, prompts, pending, batchVars, toolVars, results,
                 runVars, raises>>

-----------------------------------------------------------------------------
(* tool_execution_start of call number i of the batch "cs". *)
ToolStart(cs, i) ==
  /\ pc' = "tool_start" /\ started' = i
  /\ pendingCalls' = pendingCalls \cup {cs[i]}
  /\ UNCHANGED <<isStreaming, streaming, msgs>>

(* run_loop after message_end of the assistant message. *)
AfterAssistantEnd ==
  /\ pc = "assistant_end"
  /\ LET m == LastOf(ctx)
     IN \/ /\ m.stop \in {"error", "aborted"}
           /\ pc' = "fail_turn_end" /\ batch' = <<>> /\ started' = 0
           /\ UNCHANGED <<agentState, mode, tool, allTerminate>>
        \/ /\ m.stop \notin {"error", "aborted"} /\ m.calls = <<>>
           /\ pc' = "turn_end" /\ batch' = <<>> /\ started' = 0
           /\ UNCHANGED <<agentState, mode, tool, allTerminate>>
        \/ /\ m.stop \notin {"error", "aborted"} /\ m.calls # <<>>
           /\ batch' = m.calls /\ mode' \in Modes /\ allTerminate' = TRUE
           /\ ToolStart(m.calls, 1)
           /\ tool' = [tool EXCEPT ![m.calls[1]] = "started"]
  /\ results' = <<>>
  /\ UNCHANGED <<aborted, queues, ctx, prompts, pending, asked, orphanEvents,
                 runVars, raises>>

\* Mutant: an immediate error result ends the starting loop.
Mut_StartNextOrLaunch(t) ==
  LET go == started < Len(batch) /\ ~aborted /\ t[batch[started]] = "prepared"
  IN IF go
     THEN /\ tool' = [t EXCEPT ![batch[started + 1]] = "started"]
          /\ ToolStart(batch, started + 1)
     ELSE /\ tool' = [c \in Calls |-> IF t[c] = "prepared" /\ c \in Elems(batch)
                                      THEN "running" ELSE t[c]]
          /\ pc' = "tool_wait" /\ UNCHANGED <<agentState, started>>

(* The starting loop of a parallel batch: start the next call or, after the last
   one or an abort, launch.  "t" is "tool" with the current call's new stage. *)
StartNextOrLaunch(t) ==
  LET go == started < Len(batch) /\ ~aborted
      next == batch[started + 1]
  IN IF go
     THEN /\ tool' = [t EXCEPT ![next] = "started"] /\ ToolStart(batch, started + 1)
     ELSE \* gather() starts every prepared call, aborted or not
          /\ tool' = [c \in Calls |-> IF t[c] = "prepared" /\ c \in Elems(batch)
                                      THEN "running" ELSE t[c]]
          /\ pc' = "tool_wait"
          /\ UNCHANGED <<agentState, started>>

(* prepare_tool_call: an unknown tool, bad arguments, a blocking or raising hook
   or an abort make an immediate error result. *)
PrepareImmediate ==
  /\ pc = "tool_start" /\ pc' = "immediate_end"
  /\ tool' = [tool EXCEPT ![batch[started]] = "ending"]
  /\ pendingCalls' = pendingCalls \ {batch[started]}
  /\ allTerminate' = FALSE
  /\ UNCHANGED <<aborted, isStreaming, streaming, msgs, queues, ctx, prompts, pending,
                 batchVars, orphanEvents, results, runVars, raises>>

PrepareOk ==
  /\ pc = "tool_start" /\ ~aborted
  /\ \/ /\ mode = "sequential" /\ pc' = "tool_wait"
        /\ tool' = [tool EXCEPT ![batch[started]] = "running"]
        /\ UNCHANGED <<agentState, started>>
     \/ /\ mode = "parallel"
        /\ StartNextOrLaunch([tool EXCEPT ![batch[started]] = "prepared"])
  /\ UNCHANGED <<aborted, queues, ctx, prompts, pending, batch, mode, asked,
                 allTerminate, orphanEvents, results, runVars, raises>>

(* emit_tool_result_message for the next call in source order. *)
EmitResult ==
  /\ MessageStart(ResultOf(batch[Len(results) + 1])) /\ pc' = "result_start"

AfterImmediateEnd ==
  /\ pc = "immediate_end"
  /\ LET t == [tool EXCEPT ![batch[started]] = "done"]
     IN \/ /\ mode = "sequential" /\ EmitResult /\ tool' = t
           /\ UNCHANGED started
        \/ mode = "parallel" /\ StartNextOrLaunch(t)
  /\ UNCHANGED <<aborted, queues, ctx, prompts, pending, batch, mode, asked,
                 allTerminate, orphanEvents, results, runVars, raises>>

-----------------------------------------------------------------------------
(* execute_prepared_tool_call and run_one, for calls of the batch and for the
   orphans of an earlier one.  processEvents updates the state, then raises
   when no run is active: the orphan's task ends there. *)
EmitFromTool(c, stage) ==
  IF Active
  THEN tool' = [tool EXCEPT ![c] = stage] /\ UNCHANGED orphanEvents
  ELSE tool' = [tool EXCEPT ![c] = "dead"] /\ orphanEvents' = orphanEvents + 1

(* The tool returned and its queued update events are emitted. *)
ToolUpdates(c) ==
  /\ tool[c] = "running" /\ EmitFromTool(c, "updating")
  /\ UNCHANGED <<pc, aborted, agentState, queues, ctx, prompts, pending, batchVars,
                 allTerminate, results, runVars, raises>>

(* Result and after hook are in: tool_execution_end. *)
ToolEnds(c) ==
  /\ tool[c] \in {"running", "updating"} /\ EmitFromTool(c, "ending")
  /\ pendingCalls' = pendingCalls \ {c}
  /\ \E terminate \in BOOLEAN :
       allTerminate' = IF c \in Elems(batch) THEN allTerminate /\ terminate
                       ELSE allTerminate
  /\ UNCHANGED <<pc, aborted, isStreaming, streaming, msgs, queues, ctx, prompts, pending,
                 batchVars, results, runVars, raises>>

(* The listeners of tool_execution_end are done.  An immediate error ends in
   AfterImmediateEnd instead. *)
ToolEndHandled(c) ==
  /\ tool[c] = "ending" /\ ~(pc = "immediate_end" /\ c = batch[started])
  /\ tool' = [tool EXCEPT ![c] = "done"]
  /\ UNCHANGED <<pc, aborted, agentState, queues, ctx, prompts, pending, batchVars,
                 allTerminate, orphanEvents, results, runVars, raises>>

(* gather() has the results of every call started so far. *)
AfterTools ==
  /\ pc = "tool_wait" /\ \A i \in 1..started : tool[batch[i]] = "done"
  /\ EmitResult
  /\ UNCHANGED <<aborted, queues, ctx, prompts, pending, batchVars, toolVars, results,
                 runVars, raises>>

\* Mutant: the result message is bound to the loop's last call.
Mut_AfterResultStart ==
  /\ pc = "result_start" /\ pc' = "result_end" /\ MessageEnd(ResultOf(batch[started]))
  /\ UNCHANGED <<aborted, queues, ctx, prompts, pending, batchVars, toolVars, results,
                 runVars, raises>>

AfterResultStart ==
  /\ pc = "result_start" /\ pc' = "result_end"
  /\ MessageEnd(ResultOf(batch[Len(results) + 1]))
  /\ UNCHANGED <<aborted, queues, ctx, prompts, pending, batchVars, toolVars, results,
                 runVars, raises>>

(* After a result: the next one of a parallel batch, the next call of a
   sequential batch unless the run was aborted, or turn_end. *)
Answered == Append(results, ResultOf(batch[Len(results) + 1]))
MoreCalls == mode = "sequential" /\ started < Len(batch) /\ ~aborted
AfterResultEnd ==
  /\ pc = "result_end"
  /\ \/ /\ Len(Answered) < started
        /\ results' = Answered /\ pc' = "result_start"
        /\ MessageStart(ResultOf(batch[Len(Answered) + 1]))
        /\ UNCHANGED <<ctx, tool, started>>
     \/ /\ Len(Answered) = started /\ MoreCalls
        /\ results' = Answered /\ ToolStart(batch, started + 1)
        /\ tool' = [tool EXCEPT ![batch[started + 1]] = "started"]
        /\ UNCHANGED ctx
     \/ /\ Len(Answered) = started /\ ~MoreCalls
        /\ ctx' = ctx \o Answered /\ results' = <<>> /\ pc' = "turn_end"
        /\ UNCHANGED <<agentState, tool, started>>
  /\ UNCHANGED <<aborted, queues, prompts, pending, batch, mode, asked,
                 allTerminate, orphanEvents, runVars, raises>>

-----------------------------------------------------------------------------
(* run_loop after turn_end: poll the steering queue, then, with nothing left to
   do, the follow-up queue. *)
AfterTurnEnd ==
  /\ pc = "turn_end"
  /\ LET steers == Drained(SteeringMode, steering)
         busy == HasMore \/ steers # <<>>
     IN /\ steering' = Rest(SteeringMode, steering)
        /\ \/ /\ busy /\ pending' = steers /\ pc' = "turn_start"
              /\ UNCHANGED <<followUp, agentState>>
           \/ /\ ~busy /\ followUp # <<>> /\ pc' = "turn_start"
              /\ pending' = Drained(FollowUpMode, followUp)
              /\ followUp' = Rest(FollowUpMode, followUp)
              /\ UNCHANGED agentState
           \/ /\ ~busy /\ followUp = <<>> /\ pc' = "agent_end"
              /\ streaming' = None
              /\ UNCHANGED <<pending, followUp, isStreaming, pendingCalls, msgs>>
  /\ UNCHANGED <<aborted, accepted, discarded, ctx, prompts, batchVars, toolVars, results,
                 runVars, raises>>

\* Mutant: the error path polls the steering queue as well, for nothing.
Mut_AfterFailTurnEnd ==
  /\ pc = "fail_turn_end" /\ pc' = "agent_end" /\ streaming' = None
  /\ steering' = Rest(SteeringMode, steering)
  /\ UNCHANGED <<aborted, isStreaming, pendingCalls, msgs, followUp, accepted, discarded,
                 ctx, prompts, pending, batchVars, toolVars, results, runVars, raises>>

AfterFailTurnEnd ==
  /\ pc = "fail_turn_end" /\ pc' = "agent_end" /\ streaming' = None
  /\ UNCHANGED <<aborted, isStreaming, pendingCalls, msgs, queues, ctx, prompts, pending,
                 batchVars, toolVars, results, runVars, raises>>

\* Mutant: finishRun leaves the pending calls of a failed batch behind.
Mut_FinishRun ==
  /\ pc' = "idle" /\ isStreaming' = FALSE /\ streaming' = None
  /\ ctx' = <<>> /\ prompts' = <<>> /\ pending' = <<>> /\ batch' = <<>>
  /\ started' = 0 /\ results' = <<>> /\ mode' = "none" /\ allTerminate' = TRUE
  /\ aborted' = FALSE /\ skip' = FALSE /\ failure' = None /\ base' = 0
  /\ UNCHANGED <<pendingCalls, msgs, queues, asked, tool, orphanEvents, runs, intact>>

(* finishRun: the run's local variables are gone with it. *)
FinishRun ==
  /\ pc' = "idle" /\ isStreaming' = FALSE /\ streaming' = None /\ pendingCalls' = {}
  /\ ctx' = <<>> /\ prompts' = <<>> /\ pending' = <<>> /\ batch' = <<>>
  /\ started' = 0 /\ results' = <<>> /\ mode' = "none" /\ allTerminate' = TRUE
  /\ aborted' = FALSE /\ skip' = FALSE /\ failure' = None /\ base' = 0
  /\ UNCHANGED <<msgs, queues, asked, tool, orphanEvents, runs, intact>>

AfterAgentEnd ==
  /\ pc \in {"agent_end", "hf_agent_end"} /\ FinishRun /\ UNCHANGED raises

-----------------------------------------------------------------------------
(* handleRunFailure's failure_message *)
Failure == Reply(IF aborted THEN "aborted" ELSE "error", <<>>)

(* An exception leaves the loop: handleRunFailure announces a failure message.
   The loop's local variables are gone, the prompts and pending messages they
   held included; prepared calls are never launched, running ones go on. *)
RunFails ==
  /\ pc' = "hf_start" /\ failure' = Failure /\ streaming' = Failure
  /\ ctx' = <<>> /\ prompts' = <<>> /\ pending' = <<>> /\ batch' = <<>>
  /\ started' = 0 /\ results' = <<>>
  /\ UNCHANGED <<aborted, isStreaming, pendingCalls, msgs, queues, mode, asked,
                 allTerminate, orphanEvents, runs, skip, base, intact>>

ProviderRaises ==
  /\ pc \in Streaming /\ RunFails /\ UNCHANGED <<tool, raises>>

(* A listener of one of the run's own events raises. *)
ListenerRaises ==
  /\ pc \in Announcing /\ raises < MaxRaises /\ raises' = raises + 1
  /\ RunFails
  /\ tool' = [c \in Calls |->
                IF c \in Elems(batch) /\ tool[c] \in {"started", "prepared", "ending"}
                THEN "dead" ELSE tool[c]]

\* Mutant: the batch's gather() swallows the exception.
Mut_ToolListenerRaises(c) ==
  /\ tool[c] \in {"updating", "ending"} /\ ~(pc = "immediate_end" /\ c \in Elems(batch))
  /\ raises < MaxRaises /\ raises' = raises + 1
  /\ tool' = [tool EXCEPT ![c] = "dead"]
  /\ UNCHANGED <<pc, aborted, agentState, queues, ctx, prompts, pending, batchVars,
                 allTerminate, orphanEvents, results, runVars>>

(* A listener of a tool's event raises.  In a batch, gather() raises at once and
   leaves the other calls running; an orphan's exception goes nowhere. *)
ToolListenerRaises(c) ==
  /\ tool[c] \in {"updating", "ending"} /\ ~(pc = "immediate_end" /\ c \in Elems(batch))
  /\ raises < MaxRaises /\ raises' = raises + 1
  /\ tool' = [tool EXCEPT ![c] = "dead"]
  /\ IF c \in Elems(batch)
     THEN RunFails
     ELSE UNCHANGED <<pc, aborted, agentState, queues, ctx, prompts, pending, batchVars,
                      allTerminate, orphanEvents, results, runVars>>

AfterFailureStart ==
  /\ pc = "hf_start" /\ pc' = "hf_end" /\ MessageEnd(failure)
  /\ UNCHANGED <<aborted, queues, ctx, prompts, pending, batchVars, toolVars, results,
                 runVars, raises>>

AfterFailureEnd ==
  /\ pc = "hf_end" /\ pc' = "hf_turn_end"
  /\ UNCHANGED <<aborted, agentState, queues, ctx, prompts, pending, batchVars, toolVars,
                 results, runVars, raises>>

AfterFailureTurnEnd ==
  /\ pc = "hf_turn_end" /\ pc' = "hf_agent_end" /\ streaming' = None
  /\ UNCHANGED <<aborted, isStreaming, pendingCalls, msgs, queues, ctx, prompts, pending,
                 batchVars, toolVars, results, runVars, raises>>

(* A listener raising during handleRunFailure escapes to the caller of prompt();
   the finally clause still finishes the run. *)
FailureListenerRaises ==
  /\ pc \in HandlingFailure /\ raises < MaxRaises /\ raises' = raises + 1
  /\ FinishRun

-----------------------------------------------------------------------------
LoopStep ==
  \/ AfterAgentStart \/ AfterFirstTurnStart \/ AfterPromptStart \/ AfterPromptEnd
  \/ AfterTurnStart \/ AfterInjectStart \/ AfterInjectEnd
  \/ AfterPartial \/ AfterFinalStart \/ AfterAssistantEnd
  \/ AfterImmediateEnd \/ AfterTools \/ AfterResultStart \/ AfterResultEnd
  \/ AfterTurnEnd \/ AfterFailTurnEnd \/ AfterAgentEnd
  \/ AfterFailureStart \/ AfterFailureEnd \/ AfterFailureTurnEnd
Prepare == PrepareImmediate \/ PrepareOk
ToolStep(c) == ToolEnds(c) \/ ToolEndHandled(c)
ClientStep ==
  \/ Prompt \/ ContinueQueued \/ Continue
  \/ Steer \/ FollowUp \/ ClearQueues \/ Abort \/ Reset
Failing ==
  \/ ProviderRaises \/ ListenerRaises \/ FailureListenerRaises
  \/ \E c \in Calls : ToolListenerRaises(c)

Next ==
  \/ LoopStep \/ Prepare \/ ClientStep \/ Failing
  \/ ProviderStart \/ ProviderDelta \/ ProviderEnds
  \/ \E c \in Calls : ToolUpdates(c) \/ ToolStep(c)

Spec == Init /\ [][Next]_vars

(* asyncio resumes a task whose awaited listeners are done; a provider ends its
   stream, a tool returns and a hook answers.  A provider that keeps sending
   deltas still ends, hence strong fairness. *)
Fairness ==
  /\ WF_vars(LoopStep) /\ WF_vars(Prepare) /\ SF_vars(ProviderEnds)
  /\ \A c \in Calls : WF_vars(ToolStep(c))

FairSpec == Spec /\ Fairness
=============================================================================
