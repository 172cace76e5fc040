-------------------------- MODULE AgentProperties --------------------------
(* What Agent promises to the code around it. *)
EXTENDS Agent, Selections

(* Every variable has its type. *)
FlagsOK ==
  /\ aborted \in BOOLEAN /\ isStreaming \in BOOLEAN /\ allTerminate \in BOOLEAN
  /\ skip \in BOOLEAN /\ intact \in BOOLEAN
CountersOK ==
  /\ accepted \in 0..MaxMessages /\ asked \in 0..MaxCalls
  /\ runs \in 0..MaxRuns /\ raises \in 0..MaxRaises
  /\ started \in 0..Len(batch) /\ base \in Nat /\ orphanEvents \in Nat
AgentStateOK ==
  /\ streaming \in Message \cup {None} /\ pendingCalls \subseteq Calls /\ msgs \in Seq(Message)
QueuesOK ==
  steering \in Seq(UserMessage) /\ followUp \in Seq(UserMessage) /\ discarded \subseteq Ids
LoopOK ==
  /\ pc \in Suspensions /\ ctx \in Seq(Message) /\ failure \in Assistant \cup {None}
  /\ prompts \in Seq(UserMessage) /\ pending \in Seq(UserMessage)
ToolsOK ==
  /\ batch \in Seq(Calls) /\ mode \in Modes \cup {"none"}
  /\ tool \in [Calls -> Stages] /\ results \in Seq(ToolResult)
TypeOK == FlagsOK /\ CountersOK /\ AgentStateOK /\ QueuesOK /\ LoopOK /\ ToolsOK

(* What the code before each suspension leaves in the locals; with TypeOK and
   ContextMirrorsTranscript it is inductive. *)
LocalsFit ==
  /\ pc \in {"prompt_start", "prompt_end"} => prompts # <<>>
  /\ pc \in {"inject_start", "inject_end"} => pending # <<>>
  /\ pc \in {"partial_start", "update", "provider_more"} => ctx # <<>>
  /\ pc \in {"final_start", "assistant_end"} => ctx # <<>> /\ LastOf(ctx) \in Assistant
  /\ pc \in {"tool_start", "immediate_end", "tool_wait", "result_start", "result_end"} =>
       Len(results) < started
  /\ pc = "hf_start" => failure \in Assistant

(* The model is shown the conversation the session keeps: at every suspension
   the run's own context and state.messages agree, up to the messages that are
   announced but not yet in one of them.  In particular they are equal whenever
   the provider is called.  run_loop appends to the one, processEvents to the
   other, on opposite sides of an await. *)
Mirrored ==
  /\ pc \in {"agent_start", "first_turn_start", "prompt_start"} => ctx = msgs \o prompts
  /\ pc = "prompt_end" => ctx = msgs \o Tail(prompts)
  /\ pc = "inject_end" => msgs = Append(ctx, Head(pending))
  /\ pc \in {"partial_start", "update", "provider_more", "final_start"} =>
       ctx # <<>> /\ ctx = Append(msgs, LastOf(ctx))
  /\ pc \in {"provider", "inject_start", "turn_start", "assistant_end", "turn_end",
             "fail_turn_end", "agent_end"} => ctx = msgs
  /\ pc \in {"tool_start", "immediate_end", "tool_wait", "result_start"} =>
       msgs = ctx \o results
  /\ pc = "result_end" => msgs = ctx \o Answered
ContextMirrorsTranscript == intact => Mirrored

-----------------------------------------------------------------------------
\* A message stays in prompts or pending for the listeners of its message_end.
Undelivered ==
  (IF pc = "prompt_end" THEN Tail(prompts) ELSE prompts)
  \o (IF pc = "inject_end" THEN Tail(pending) ELSE pending)
NumbersOf(ms) == {m.id : m \in {x \in ms : x.role = "user"}}

(* An accepted message is in the transcript, in flight, queued, or was cleared;
   only a listener's exception can lose it, since RunFails then drops what the
   loop had drained: not an abort, an error reply, a provider's exception, or a
   reset() during the run. *)
NoMessageLost ==
  raises = 0 =>
    1..accepted =
      discarded \cup NumbersOf(Elems(msgs) \cup Elems(Undelivered)
                               \cup Elems(steering) \cup Elems(followUp))

-----------------------------------------------------------------------------
\* The results that directly follow message number i of s.
ResultsAfter(s, i) ==
  {j \in i + 1..Len(s) : \A k \in i + 1..j : s[k].role = "toolResult"}
IsReply(m) == m.role = "assistant"

(* The results that follow an assistant message answer its calls in source order,
   from the first one, although parallel tools finish in any order and a batch may
   be cut short; and no result stands anywhere else. *)
ResultsFollowCalls ==
  intact => \A i \in 1..Len(msgs) :
    /\ IsReply(msgs[i]) =>
         \A j \in ResultsAfter(msgs, i) :
           j - i <= Len(msgs[i].calls) /\ msgs[j].call = msgs[i].calls[j - i]
    /\ msgs[i].role = "toolResult" =>
         i > 1 /\ (IsReply(msgs[i - 1]) \/ msgs[i - 1].role = "toolResult")

(* Providers reject a request in which a tool call has no result.  Unless the run
   was aborted, every call this run made is answered when the provider is asked
   again. *)
CallsAnsweredBeforeRequest ==
  pc = "provider" /\ ~aborted =>
    \A i \in base + 1..Len(ctx) :
      IsReply(ctx[i]) =>
        \A n \in 1..Len(ctx[i].calls) :
          i + n <= Len(ctx) /\ ctx[i + n] = ResultOf(ctx[i].calls[n])

(* A settled agent shows nothing of a run, and a run that nobody reset shows that
   it is streaming: AgentSession decides on it whether a prompt is queued. *)
SettledStateIsClean ==
  /\ ~Active => ~isStreaming /\ streaming = None /\ pendingCalls = {}
  /\ Active /\ intact => isStreaming

(* Every run settles: finishRun is reached, so waitForIdle returns, whatever
   fails, is aborted or is queued on the way. *)
RunSettles == Active ~> ~Active

(* processEvents asserts that listeners run inside a run ("Agent listener invoked
   outside active run").  Tools whose batch failed break it. *)
ListenersRunInsideRun == orphanEvents = 0
-----------------------------------------------------------------------------
\* The refinement mapping: what MessageDelivery sees of the agent.
Numbers(s) == [i \in 1..Len(s) |-> s[i].id]
Queue(lane) ==
  CASE lane = "steer" -> steering
    [] lane = "followUp" -> followUp
    [] OTHER -> <<>>
\* What is in flight was taken from one lane.
InFlight(lane) ==
  IF Undelivered # <<>> /\ Head(Undelivered).via = lane THEN Undelivered ELSE <<>>
Waiting(lane) == Numbers(InFlight(lane) \o Queue(lane))

Delivery == INSTANCE MessageDelivery WITH
  waiting <- [lane \in Lanes |-> Waiting(lane)],
  delivered <- Numbers(Chosen(msgs, UserMessage))

(* The loop implements MessageDelivery, even when reset() tears a run: each step
   accepts a message, delivers the oldest one of a lane, drops one end of what
   waits, or does nothing a caller can tell; none comes back, changes its lane or
   appears twice, although the loop moves messages from queues to locals, to the
   transcript and to its own context in separate steps. *)
ImplementsDelivery == Delivery!Spec
=============================================================================
