---------------------------- MODULE AgentProofs ----------------------------
(* Type correctness of Agent, the theorems that the context given to the provider
   mirrors the transcript and that a settled agent is clean; and those about tool
   results: they follow their calls in the transcript, and a provider is asked again
   only when every call has one. *)
EXTENDS AgentProperties, SequenceTheorems, TLAPS

-----------------------------------------------------------------------------
(* Sequences. *)
LEMMA ConcatShift ==
  ASSUME NEW S, NEW s \in Seq(S), NEW t \in Seq(S), t # <<>>
  PROVE  s \o t = Append(s, Head(t)) \o Tail(t)
  OBVIOUS

LEMMA ConcatNothing ==
  ASSUME NEW S, NEW s \in Seq(S)
  PROVE  s \o <<>> = s
  OBVIOUS

LEMMA AppendConcat ==
  ASSUME NEW S, NEW s \in Seq(S), NEW t \in Seq(S), NEW e \in S
  PROVE  Append(s \o t, e) = s \o Append(t, e)
  OBVIOUS

LEMMA ReplaceLastType ==
  ASSUME NEW S, NEW s \in Seq(S), s # <<>>, NEW e \in S
  PROVE  /\ ReplaceLast(s, e) \in Seq(S) /\ ReplaceLast(s, e) # <<>>
         /\ LastOf(ReplaceLast(s, e)) = e
  BY DEF ReplaceLast, LastOf

LEMMA ReplaceLastAppend ==
  ASSUME NEW S, NEW s \in Seq(S), NEW d \in S, NEW e \in S
  PROVE  ReplaceLast(Append(s, d), e) = Append(s, e)
<1> DEFINE b == Append(s, d)
<1>1. /\ b \in Seq(S) /\ b # <<>> /\ Append(s, e) \in Seq(S)
      /\ Len(b) = Len(s) + 1 /\ Len(Append(s, e)) = Len(s) + 1
  BY AppendProperties
<1>2. \A i \in 1..Len(s) : b[i] = s[i] /\ Append(s, e)[i] = s[i]
  BY AppendProperties
<1>3. Append(s, e)[Len(s) + 1] = e
  BY AppendProperties
<1> HIDE DEF b
<1>4. Len(b) \in 1..Len(b) /\ ReplaceLast(b, e) = [b EXCEPT ![Len(b)] = e]
  BY <1>1 DEF ReplaceLast
<1>5. /\ ReplaceLast(b, e) \in Seq(S) /\ Len(ReplaceLast(b, e)) = Len(b)
      /\ \A i \in 1..Len(b) : ReplaceLast(b, e)[i] = IF i = Len(b) THEN e ELSE b[i]
  BY <1>1, <1>4, ExceptSeq
<1>6. \A i \in 1..Len(b) : ReplaceLast(b, e)[i] = Append(s, e)[i]
  BY <1>1, <1>2, <1>3, <1>5
<1>7. ReplaceLast(b, e) = Append(s, e)
  BY <1>1, <1>5, <1>6, SeqEqual
<1> QED
  BY <1>7 DEF b

LEMMA AppendLast ==
  ASSUME NEW S, NEW s \in Seq(S), NEW e \in S
  PROVE  /\ Append(s, e) \in Seq(S) /\ Append(s, e) # <<>>
         /\ LastOf(Append(s, e)) = e
  BY DEF LastOf

LEMMA DrainType ==
  ASSUME NEW S, NEW q \in Seq(S), NEW qmode
  PROVE  Drained(qmode, q) \in Seq(S) /\ Rest(qmode, q) \in Seq(S)
  BY DEF Drained, Rest

-----------------------------------------------------------------------------
(* Messages. *)
LEMMA Kinds ==
  /\ UserMessage \subseteq Message /\ Assistant \subseteq Message /\ ToolResult \subseteq Message
  /\ \A n \in Ids, lane \in Lanes : User(n, lane) \in UserMessage
  /\ \A c \in Calls : ResultOf(c) \in ToolResult
  /\ Partial \in Assistant /\ Failure \in Assistant
  /\ \A m \in UserMessage : m.id \in Ids /\ m.role = "user"
  /\ \A m \in Message : m.role = "user" => m.id \in Ids
  /\ \A m \in Assistant : m.calls \in Seq(Calls) /\ m.stop \in Stops \cup {"partial"}
BY DEF Message, UserMessage, Assistant, ToolResult, User, ResultOf, Partial, Failure, Reply,
       Stops

LEMMA WiderSeq ==
  ASSUME NEW s, s \in Seq(UserMessage) \/ s \in Seq(ToolResult)
  PROVE  s \in Seq(Message)
BY Kinds, SeqMonotonic

LEMMA ElemsType ==
  ASSUME NEW S, NEW s \in Seq(S)
  PROVE  Elems(s) \subseteq S
BY DEF Elems

LEMMA FreshCalls ==
  ASSUME NEW k \in Nat, asked \in Nat, asked + k <= MaxCalls
  PROVE  [i \in 1..k |-> asked + i] \in Seq(Calls)
<1>1. \A i \in 1..k : asked + i \in Calls
  BY BoundsAssumption DEF Calls
<1> QED
  BY <1>1

LEMMA NewUser ==
  ASSUME CountersOK, accepted < MaxMessages, NEW lane \in Lanes
  PROVE  User(accepted + 1, lane) \in UserMessage
<1>1. accepted + 1 \in Ids
  BY BoundsAssumption DEF CountersOK, Ids
<1> QED
  BY <1>1, Kinds

LEMMA StartTypes ==
  ASSUME NEW ps \in Seq(UserMessage), NEW b, StartRun(ps, b)
  PROVE  /\ AgentStateOK => LoopOK' /\ AgentStateOK'
         /\ ToolsOK => ToolsOK'
         /\ LocalsFit'
<1>1. AgentStateOK => LoopOK' /\ AgentStateOK'
  BY WiderSeq, ConcatProperties
  DEF StartRun, LoopOK, AgentStateOK, Suspensions, Announcing
<1>2. ToolsOK => ToolsOK'
  BY DEF StartRun, ToolsOK
<1>3. LocalsFit'
  BY DEF StartRun, LocalsFit
<1> QED
  BY <1>1, <1>2, <1>3

LEMMA InjectTypes ==
  ASSUME AgentStateOK, NEW p \in Seq(UserMessage), InjectOrStream(p)
  PROVE  AgentStateOK' /\ pending' = p /\ pc' \in {"inject_start", "provider"}
BY Kinds DEF AgentStateOK, InjectOrStream, MessageStart, agentState

LEMMA NextPromptTypes ==
  ASSUME AgentStateOK, QueuesOK, pending \in Seq(UserMessage),
         NEW rest \in Seq(UserMessage), NextPrompt(rest)
  PROVE  /\ AgentStateOK' /\ pending' \in Seq(UserMessage)
         /\ prompts' = rest /\ pc' \in {"prompt_start", "inject_start", "provider"}
<1>1. CASE rest # <<>>
  BY <1>1, Kinds DEF NextPrompt, MessageStart, AgentStateOK
<1>2. CASE rest = <<>>
  <2>1. PICK p \in Seq(UserMessage) : InjectOrStream(p)
    BY <1>2, DrainType DEF NextPrompt, EnterLoop, QueuesOK
  <2> QED
    BY <1>2, <2>1, InjectTypes DEF NextPrompt
<1> QED
  BY <1>1, <1>2

LEMMA FailTypes ==
  ASSUME RunFails
  PROVE  LoopOK' /\ LocalsFit'
BY Kinds DEF RunFails, LoopOK, LocalsFit, Suspensions, HandlingFailure

LEMMA PromptStarts ==
  ASSUME CountersOK, Prompt
  PROVE  \E ps \in Seq(UserMessage), b \in BOOLEAN : StartRun(ps, b)
<1>1. User(accepted + 1, "prompt") \in UserMessage
  BY NewUser DEF Prompt, Lanes
<1>2. <<User(accepted + 1, "prompt")>> \in Seq(UserMessage)
  BY <1>1
<1>3. StartRun(<<User(accepted + 1, "prompt")>>, FALSE)
  BY DEF Prompt
<1> QED
  BY <1>2, <1>3

\* The provider's final message, and what is done with it.
LEMMA FinalTypes ==
  ASSUME CountersOK, ProviderEnds
  PROVE  \E final \in Assistant :
           \/ /\ pc = "provider_more" /\ pc' = "assistant_end"
              /\ ctx' = ReplaceLast(ctx, final) /\ MessageEnd(final)
           \/ /\ pc = "provider" /\ pc' = "final_start"
              /\ ctx' = Append(ctx, final) /\ MessageStart(final)
<1>1. PICK stop \in Stops, k \in 0..MaxBatch :
        /\ asked + k <= MaxCalls
        /\ LET final == Reply(stop, [i \in 1..k |-> asked + i])
           IN \/ /\ pc = "provider_more" /\ pc' = "assistant_end"
                 /\ ctx' = ReplaceLast(ctx, final) /\ MessageEnd(final)
              \/ /\ pc = "provider" /\ pc' = "final_start"
                 /\ ctx' = Append(ctx, final) /\ MessageStart(final)
  BY DEF ProviderEnds
<1>2. k \in Nat /\ asked \in Nat
  BY BoundsAssumption DEF CountersOK
<1>3. [i \in 1..k |-> asked + i] \in Seq(Calls)
  BY <1>1, <1>2, FreshCalls
<1>4. \A cs \in Seq(Calls) : Reply(stop, cs) \in Assistant
  BY DEF Reply, Assistant
<1> QED
  BY <1>1, <1>3, <1>4

\* The results announced once the listeners of the current one are done.
LEMMA AnsweredTypes ==
  ASSUME CountersOK, ToolsOK, LocalsFit, pc = "result_end"
  PROVE  /\ ResultOf(batch[Len(results) + 1]) \in ToolResult
         /\ Answered \in Seq(ToolResult) /\ Len(Answered) = Len(results) + 1
         /\ Len(Answered) < started => ResultOf(batch[Len(Answered) + 1]) \in ToolResult
<1>1. /\ Len(results) \in Nat /\ Len(results) < started /\ started \in Nat
      /\ started <= Len(batch)
  BY DEF CountersOK, ToolsOK, LocalsFit
<1>2. batch[Len(results) + 1] \in Calls
  BY <1>1 DEF ToolsOK
<1>3. ResultOf(batch[Len(results) + 1]) \in ToolResult
  BY <1>2, Kinds
<1>4. Answered \in Seq(ToolResult) /\ Len(Answered) = Len(results) + 1
  BY <1>3, AppendProperties DEF Answered, ToolsOK
<1>5. ASSUME Len(Answered) < started
      PROVE  ResultOf(batch[Len(Answered) + 1]) \in ToolResult
  <2>1. batch[Len(Answered) + 1] \in Calls
    BY <1>1, <1>4, <1>5 DEF ToolsOK
  <2> QED
    BY <2>1, Kinds
<1> QED
  BY <1>3, <1>4, <1>5
-----------------------------------------------------------------------------
(* Type correctness is preserved, one conjunct of TypeOK at a time. *)
LEMMA FlagsNext ==
  ASSUME FlagsOK, [Next]_vars
  PROVE  FlagsOK'
<1> USE DEF FlagsOK
<1>1. CASE Prompt \/ ContinueQueued \/ Continue \/ Steer \/ FollowUp \/ ClearQueues \/ Abort \/
      Reset \/ AfterAgentStart \/ AfterFirstTurnStart \/ AfterPromptStart \/ AfterPromptEnd \/
      AfterTurnStart \/ AfterInjectStart
  BY <1>1 DEF Prompt, ContinueQueued, Continue, Steer, FollowUp, ClearQueues, Abort, Reset,
  AfterAgentStart, AfterFirstTurnStart, AfterPromptStart, AfterPromptEnd, AfterTurnStart,
  AfterInjectStart, StartRun, MessageStart, MessageEnd, InjectOrStream, EnterLoop, NextPrompt,
  agentState, queues, toolVars, batchVars, runVars
<1>2. CASE AfterInjectEnd \/ ProviderStart \/ AfterPartial \/ ProviderDelta \/ ProviderEnds \/
      AfterFinalStart \/ AfterAssistantEnd \/ PrepareImmediate \/ PrepareOk \/ AfterImmediateEnd \/
      AfterTools \/ AfterResultStart \/ AfterResultEnd \/ AfterTurnEnd
  BY ZenonT(30), <1>2 DEF AfterInjectEnd, ProviderStart, AfterPartial, ProviderDelta, ProviderEnds,
  AfterFinalStart, AfterAssistantEnd, PrepareImmediate, PrepareOk, AfterImmediateEnd, AfterTools,
  AfterResultStart, AfterResultEnd, AfterTurnEnd, MessageStart, MessageEnd, InjectOrStream,
  ToolStart, StartNextOrLaunch, EmitResult, MoreCalls, agentState, queues, toolVars, batchVars,
  runVars
<1>3. CASE AfterFailTurnEnd \/ AfterAgentEnd \/ ProviderRaises \/ ListenerRaises \/
      AfterFailureStart \/ AfterFailureEnd \/ AfterFailureTurnEnd \/ FailureListenerRaises \/ (\E c \in
      Calls : ToolUpdates(c)) \/ (\E c \in Calls : ToolEnds(c)) \/ (\E c \in Calls : ToolEndHandled(c)) \/
      (\E c \in Calls : ToolListenerRaises(c))
  BY ZenonT(30), <1>3 DEF AfterFailTurnEnd, AfterAgentEnd, ProviderRaises, ListenerRaises, AfterFailureStart,
  AfterFailureEnd, AfterFailureTurnEnd, FailureListenerRaises, ToolUpdates, ToolEnds,
  ToolEndHandled, ToolListenerRaises, MessageEnd, EmitFromTool, FinishRun, RunFails, agentState,
  queues, toolVars, batchVars, runVars
<1>4. CASE UNCHANGED vars
  BY <1>4 DEF vars, agentState, queues, toolVars, batchVars, runVars
<1> QED
  BY <1>1, <1>2, <1>3, <1>4 DEF Next, LoopStep, Prepare, ToolStep, ClientStep, Failing

LEMMA CountersNext ==
  ASSUME CountersOK, ToolsOK, [Next]_vars
  PROVE  CountersOK'
<1> USE BoundsAssumption DEF CountersOK, ToolsOK
<1>1. CASE Prompt
  BY <1>1 DEF Prompt, StartRun
<1>2. CASE ContinueQueued
  BY SMTT(30), <1>2 DEF ContinueQueued, StartRun
<1>3. CASE Continue
  BY <1>3 DEF Continue, StartRun, queues
<1>4. CASE Steer
  BY <1>4 DEF Steer, agentState, toolVars, batchVars, runVars
<1>5. CASE FollowUp
  BY <1>5 DEF FollowUp, agentState, toolVars, batchVars, runVars
<1>6. CASE AfterAssistantEnd
  BY <1>6 DEF AfterAssistantEnd, ToolStart, agentState, queues, runVars
<1>7. CASE PrepareOk
  BY <1>7 DEF PrepareOk, ToolStart, StartNextOrLaunch, agentState, queues, runVars
<1>8. CASE AfterImmediateEnd
  BY <1>8 DEF AfterImmediateEnd, MessageStart, ToolStart, StartNextOrLaunch, EmitResult, agentState,
  queues, runVars
<1>9. CASE AfterResultEnd
  BY <1>9 DEF AfterResultEnd, MessageStart, ToolStart, MoreCalls, agentState, queues, runVars
<1>10. CASE ProviderEnds
  BY <1>10 DEF ProviderEnds, MessageStart, MessageEnd, queues, toolVars, runVars
<1>11. CASE ListenerRaises
  BY <1>11 DEF ListenerRaises, RunFails, queues
<1>12. CASE FailureListenerRaises
  BY <1>12 DEF FailureListenerRaises, FinishRun, queues
<1>13. ASSUME NEW c \in Calls, ToolUpdates(c)
      PROVE  CountersOK'
  BY <1>13 DEF ToolUpdates, EmitFromTool, agentState, queues, batchVars, runVars
<1>14. ASSUME NEW c \in Calls, ToolEnds(c)
      PROVE  CountersOK'
  BY <1>14 DEF ToolEnds, EmitFromTool, queues, batchVars, runVars
<1>15. ASSUME NEW c \in Calls, ToolListenerRaises(c)
      PROVE  CountersOK'
  BY <1>15 DEF ToolListenerRaises, RunFails, agentState, queues, batchVars, runVars
<1>16. CASE ClearQueues \/ Abort \/ Reset \/ AfterAgentStart \/ AfterFirstTurnStart
  BY <1>16 DEF ClearQueues, Abort, Reset, AfterAgentStart, AfterFirstTurnStart, MessageStart,
  InjectOrStream, EnterLoop, NextPrompt, agentState, queues, toolVars, batchVars, runVars
<1>17. CASE AfterPromptStart \/ AfterPromptEnd \/ AfterTurnStart \/ AfterInjectStart \/
      AfterInjectEnd
  BY <1>17 DEF AfterPromptStart, AfterPromptEnd, AfterTurnStart, AfterInjectStart, AfterInjectEnd,
  MessageStart, MessageEnd, InjectOrStream, EnterLoop, NextPrompt, agentState, queues, toolVars,
  batchVars, runVars
<1>18. CASE ProviderStart \/ AfterPartial \/ ProviderDelta \/ AfterFinalStart \/ PrepareImmediate
  BY <1>18 DEF ProviderStart, AfterPartial, ProviderDelta, AfterFinalStart, PrepareImmediate,
  MessageStart, MessageEnd, agentState, queues, toolVars, batchVars, runVars
<1>19. CASE AfterTools \/ AfterResultStart \/ AfterTurnEnd \/ AfterFailTurnEnd
  BY <1>19 DEF AfterTools, AfterResultStart, AfterTurnEnd, AfterFailTurnEnd,
  MessageStart, MessageEnd, EmitResult, agentState, queues, toolVars, batchVars, runVars
<1>20. CASE AfterAgentEnd
  BY <1>20 DEF AfterAgentEnd, FinishRun, queues
<1>21. CASE ProviderRaises \/ AfterFailureStart \/ AfterFailureEnd \/ AfterFailureTurnEnd \/ (\E c
      \in Calls : ToolEndHandled(c))
  BY SMTT(30), <1>21 DEF ProviderRaises, AfterFailureStart, AfterFailureEnd, AfterFailureTurnEnd,
  ToolEndHandled, MessageEnd, RunFails, agentState, queues, toolVars, batchVars, runVars
<1>22. CASE UNCHANGED vars
  BY <1>22 DEF vars, agentState, queues, toolVars, batchVars, runVars
<1> QED
  BY <1>1, <1>2, <1>3, <1>4, <1>5, <1>6, <1>7, <1>8, <1>9, <1>10, <1>11, <1>12, <1>13, <1>14, <1>15,
  <1>16, <1>17, <1>18, <1>19, <1>20, <1>21, <1>22 DEF Next, LoopStep, Prepare, ToolStep, ClientStep,
  Failing

LEMMA QueuesNext ==
  ASSUME CountersOK, QueuesOK, AgentStateOK, [Next]_vars
  PROVE  QueuesOK'
<1> USE DEF QueuesOK
<1>1. CASE Steer
  <2>1. User(accepted + 1, "steer") \in UserMessage
    BY <1>1, NewUser DEF Steer, Lanes
  <2> QED
    BY <1>1, <2>1 DEF Steer, agentState, toolVars, batchVars, runVars
<1>2. CASE FollowUp
  <2>1. User(accepted + 1, "followUp") \in UserMessage
    BY <1>2, NewUser DEF FollowUp, Lanes
  <2> QED
    BY <1>2, <2>1 DEF FollowUp, agentState, toolVars, batchVars, runVars
<1>3. CASE ClearQueues
  <2>1. /\ {m.id : m \in Elems(steering)} \subseteq Ids
        /\ {m.id : m \in Elems(followUp)} \subseteq Ids
    BY ElemsType, Kinds
  <2>2. PICK qs \in SUBSET {"steer", "followUp"} :
          /\ steering' = IF "steer" \in qs THEN <<>> ELSE steering
          /\ followUp' = IF "followUp" \in qs THEN <<>> ELSE followUp
          /\ discarded' = discarded \cup {m.id : m \in (IF "steer" \in qs THEN Elems(steering) ELSE {})
                                               \cup (IF "followUp" \in qs THEN Elems(followUp) ELSE {})}
    BY <1>3 DEF ClearQueues
  <2> QED
    BY <2>1, <2>2
<1>4. CASE Reset
  <2>1. /\ Elems(steering) \cup Elems(followUp) \subseteq UserMessage
        /\ Elems(msgs) \subseteq Message
    BY ElemsType DEF AgentStateOK
  <2>2. /\ {m.id : m \in Elems(steering) \cup Elems(followUp)} \subseteq Ids
        /\ {m.id : m \in {x \in Elems(msgs) : x.role = "user"}} \subseteq Ids
    BY <2>1, Kinds
  <2> QED
    BY <1>4, <2>2 DEF Reset, toolVars, batchVars
<1>5. CASE Prompt
  BY <1>5, DrainType DEF Prompt, StartRun
<1>6. CASE ContinueQueued
  BY <1>6, DrainType DEF ContinueQueued, StartRun
<1>7. CASE AfterFirstTurnStart
  BY <1>7, DrainType DEF AfterFirstTurnStart, MessageStart, InjectOrStream, EnterLoop, NextPrompt,
  agentState, toolVars, batchVars
<1>8. CASE AfterPromptEnd
  BY <1>8, DrainType DEF AfterPromptEnd, MessageStart, InjectOrStream, EnterLoop, NextPrompt,
  agentState, toolVars, batchVars
<1>9. CASE AfterTurnEnd
  BY <1>9, DrainType DEF AfterTurnEnd, agentState, toolVars, batchVars, runVars
<1>10. CASE Continue \/ Abort \/ AfterAgentStart \/ AfterPromptStart \/ AfterTurnStart \/
      AfterInjectStart \/ AfterInjectEnd \/ ProviderStart \/ AfterPartial \/ ProviderDelta \/ ProviderEnds
  BY <1>10 DEF Continue, Abort, AfterAgentStart, AfterPromptStart, AfterTurnStart, AfterInjectStart,
  AfterInjectEnd, ProviderStart, AfterPartial, ProviderDelta, ProviderEnds, StartRun, MessageStart,
  MessageEnd, InjectOrStream, agentState, queues, toolVars, batchVars, runVars
<1>11. CASE AfterFinalStart \/ AfterAssistantEnd \/ PrepareImmediate \/ PrepareOk \/
      AfterImmediateEnd \/ AfterTools \/ AfterResultStart \/ AfterResultEnd \/ AfterFailTurnEnd \/
      AfterAgentEnd \/ ProviderRaises
  BY <1>11 DEF AfterFinalStart, AfterAssistantEnd, PrepareImmediate, PrepareOk, AfterImmediateEnd,
  AfterTools, AfterResultStart, AfterResultEnd, AfterFailTurnEnd, AfterAgentEnd, ProviderRaises,
  MessageStart, MessageEnd, ToolStart, StartNextOrLaunch, EmitResult, MoreCalls, FinishRun,
  RunFails, agentState, queues, toolVars, batchVars, runVars
<1>12. CASE ListenerRaises \/ AfterFailureStart \/ AfterFailureEnd \/ AfterFailureTurnEnd \/
      FailureListenerRaises \/ (\E c \in Calls : ToolUpdates(c)) \/ (\E c \in Calls : ToolEnds(c)) \/ (\E
      c \in Calls : ToolEndHandled(c)) \/ (\E c \in Calls : ToolListenerRaises(c))
  BY <1>12 DEF ListenerRaises, AfterFailureStart, AfterFailureEnd, AfterFailureTurnEnd,
  FailureListenerRaises, ToolUpdates, ToolEnds, ToolEndHandled, ToolListenerRaises, MessageEnd,
  EmitFromTool, FinishRun, RunFails, agentState, queues, toolVars, batchVars, runVars
<1>13. CASE UNCHANGED vars
  BY <1>13 DEF vars, agentState, queues, toolVars, batchVars, runVars
<1> QED
  BY <1>1, <1>2, <1>3, <1>4, <1>5, <1>6, <1>7, <1>8, <1>9, <1>10, <1>11, <1>12, <1>13 DEF Next,
  LoopStep, Prepare, ToolStep, ClientStep, Failing

LEMMA ToolsNext ==
  ASSUME CountersOK, QueuesOK, ToolsOK, LoopOK, LocalsFit, [Next]_vars
  PROVE  ToolsOK'
<1> USE DEF ToolsOK, CountersOK, LocalsFit, LoopOK, Stages, Live
<1>1. CASE Prompt
  <2>1. PICK ps \in Seq(UserMessage), b \in BOOLEAN : StartRun(ps, b)
    BY <1>1, PromptStarts
  <2> QED
    BY <2>1, StartTypes
<1>2. CASE ContinueQueued
  <2>1. PICK ps \in Seq(UserMessage), b \in BOOLEAN : StartRun(ps, b)
    BY <1>2, DrainType DEF ContinueQueued, QueuesOK
  <2> QED
    BY <2>1, StartTypes
<1>3. CASE Continue
  <2>1. PICK ps \in Seq(UserMessage), b \in BOOLEAN : StartRun(ps, b)
    BY <1>3, EmptySeq DEF Continue
  <2> QED
    BY <2>1, StartTypes
<1>4. CASE AfterAssistantEnd
  <2>1. LastOf(ctx).calls \in Seq(Calls)
    BY <1>4, Kinds DEF AfterAssistantEnd
  <2>2. (batch' = LastOf(ctx).calls \/ batch' = <<>>) /\ results' = <<>>
    BY <1>4 DEF AfterAssistantEnd
  <2>3. tool' \in [Calls -> Stages] /\ mode' \in Modes \cup {"none"}
    BY <1>4 DEF AfterAssistantEnd
  <2> HIDE DEF ToolsOK, CountersOK, LocalsFit, LoopOK
  <2>4. batch' \in Seq(Calls) /\ results' \in Seq(ToolResult)
    BY <2>1, <2>2, EmptySeq
  <2> QED
    BY <2>3, <2>4 DEF ToolsOK
<1>5. CASE PrepareImmediate
  BY <1>5 DEF PrepareImmediate, queues, batchVars, runVars
<1>6. CASE PrepareOk
  BY <1>6 DEF PrepareOk, ToolStart, StartNextOrLaunch, agentState, queues, runVars
<1>7. CASE AfterImmediateEnd
  BY <1>7 DEF AfterImmediateEnd, MessageStart, ToolStart, StartNextOrLaunch, EmitResult, agentState,
  queues, runVars
<1>8. CASE AfterResultEnd
  <2>1. pc = "result_end"
    BY <1>8 DEF AfterResultEnd
  <2>2. Answered \in Seq(ToolResult)
    BY <2>1, AnsweredTypes
  <2>3. results' = Answered \/ results' = <<>>
    BY <1>8 DEF AfterResultEnd
  <2>4. batch' \in Seq(Calls) /\ mode' \in Modes \cup {"none"} /\ tool' \in [Calls -> Stages]
    BY <1>8 DEF AfterResultEnd
  <2> HIDE DEF ToolsOK, CountersOK, LocalsFit, LoopOK
  <2> QED
    BY <2>2, <2>3, <2>4, EmptySeq DEF ToolsOK
<1>9. CASE AfterAgentEnd
  BY <1>9 DEF AfterAgentEnd, FinishRun, queues
<1>10. CASE FailureListenerRaises
  BY <1>10 DEF FailureListenerRaises, FinishRun, queues
<1>11. CASE ProviderRaises
  BY <1>11 DEF ProviderRaises, RunFails, queues
<1>12. CASE ListenerRaises
  BY <1>12 DEF ListenerRaises, RunFails, queues
<1>13. ASSUME NEW c \in Calls, ToolUpdates(c)
      PROVE  ToolsOK'
  BY <1>13 DEF ToolUpdates, EmitFromTool, agentState, queues, batchVars, runVars
<1>14. ASSUME NEW c \in Calls, ToolEnds(c)
      PROVE  ToolsOK'
  BY <1>14 DEF ToolEnds, EmitFromTool, queues, batchVars, runVars
<1>15. ASSUME NEW c \in Calls, ToolEndHandled(c)
      PROVE  ToolsOK'
  BY <1>15 DEF ToolEndHandled, agentState, queues, batchVars, runVars
<1>16. ASSUME NEW c \in Calls, ToolListenerRaises(c)
      PROVE  ToolsOK'
  <2>1. tool' \in [Calls -> Stages] /\ UNCHANGED mode
    BY <1>16 DEF ToolListenerRaises, RunFails, agentState, queues, batchVars, runVars
  <2>2. CASE c \in Elems(batch)
    BY <1>16, <2>1, <2>2 DEF ToolListenerRaises, RunFails
  <2>3. CASE c \notin Elems(batch)
    BY <1>16, <2>1, <2>3 DEF ToolListenerRaises, batchVars
  <2> QED
    BY <2>2, <2>3
<1>17. CASE Steer \/ FollowUp \/ ClearQueues \/ Abort \/ Reset \/ AfterAgentStart
  BY <1>17 DEF Steer, FollowUp, ClearQueues, Abort, Reset, AfterAgentStart, agentState, queues,
  toolVars, batchVars, runVars
<1>18. CASE AfterFirstTurnStart \/ AfterPromptStart \/ AfterPromptEnd \/ AfterTurnStart \/
      AfterInjectStart \/ AfterInjectEnd
  BY <1>18 DEF AfterFirstTurnStart, AfterPromptStart, AfterPromptEnd, AfterTurnStart,
  AfterInjectStart, AfterInjectEnd, MessageStart, MessageEnd, InjectOrStream, EnterLoop, NextPrompt,
  agentState, queues, toolVars, batchVars, runVars
<1>19. CASE ProviderStart \/ AfterPartial \/ ProviderDelta \/ ProviderEnds \/ AfterFinalStart \/
      AfterTools
  BY <1>19 DEF ProviderStart, AfterPartial, ProviderDelta, ProviderEnds, AfterFinalStart,
  AfterTools, MessageStart, MessageEnd, EmitResult, agentState, queues, toolVars, batchVars, runVars
<1>20. CASE AfterResultStart \/ AfterTurnEnd \/ AfterFailTurnEnd \/ AfterFailureStart \/
      AfterFailureEnd \/ AfterFailureTurnEnd
  BY <1>20 DEF AfterResultStart, AfterTurnEnd, AfterFailTurnEnd, AfterFailureStart, AfterFailureEnd,
  AfterFailureTurnEnd, MessageEnd, agentState, queues, toolVars, batchVars, runVars
<1>21. CASE UNCHANGED vars
  BY <1>21 DEF vars, agentState, queues, toolVars, batchVars, runVars
<1> QED
  BY <1>1, <1>2, <1>3, <1>4, <1>5, <1>6, <1>7, <1>8, <1>9, <1>10, <1>11, <1>12, <1>13, <1>14, <1>15,
  <1>16, <1>17, <1>18, <1>19, <1>20, <1>21 DEF Next, LoopStep, Prepare, ToolStep, ClientStep,
  Failing

LEMMA LoopNext ==
  ASSUME AgentStateOK, QueuesOK, CountersOK, ToolsOK, LoopOK, LocalsFit, [Next]_vars
  PROVE  LoopOK'
<1> USE DEF LoopOK, QueuesOK, LocalsFit, Suspensions, Announcing, Streaming, HandlingFailure
<1>1. CASE Prompt
  <2>1. PICK ps \in Seq(UserMessage), b \in BOOLEAN : StartRun(ps, b)
    BY <1>1, PromptStarts
  <2> QED
    BY <2>1, StartTypes
<1>2. CASE ContinueQueued
  <2>1. PICK ps \in Seq(UserMessage), b \in BOOLEAN : StartRun(ps, b)
    BY <1>2, DrainType DEF ContinueQueued, QueuesOK
  <2> QED
    BY <2>1, StartTypes
<1>3. CASE Continue
  <2>1. PICK ps \in Seq(UserMessage), b \in BOOLEAN : StartRun(ps, b)
    BY <1>3, EmptySeq DEF Continue
  <2> QED
    BY <2>1, StartTypes
<1>4. CASE AfterFirstTurnStart
  <2>1. prompts \in Seq(UserMessage) /\ NextPrompt(prompts)
    BY <1>4 DEF AfterFirstTurnStart
  <2> QED
    BY <1>4, <2>1, NextPromptTypes DEF AfterFirstTurnStart
<1>5. CASE AfterPromptEnd
  <2>1. Tail(prompts) \in Seq(UserMessage) /\ NextPrompt(Tail(prompts))
    BY <1>5 DEF AfterPromptEnd
  <2> QED
    BY <1>5, <2>1, NextPromptTypes DEF AfterPromptEnd
<1>6. CASE AfterTurnStart
  BY <1>6 DEF AfterTurnStart, MessageStart, InjectOrStream, agentState, queues, toolVars, batchVars,
  runVars
<1>7. CASE AfterTurnEnd
  BY <1>7, DrainType DEF AfterTurnEnd, agentState, toolVars, batchVars, runVars
<1>8. CASE AfterInjectEnd
  BY <1>8, Kinds DEF AfterInjectEnd, MessageStart, InjectOrStream, agentState, queues, toolVars,
  batchVars, runVars
<1>9. CASE ProviderStart
  BY <1>9, Kinds DEF ProviderStart, MessageStart, queues, toolVars, batchVars, runVars
<1>10. CASE ProviderDelta
  BY <1>10, Kinds, ReplaceLastType DEF ProviderDelta, MessageStart, queues, toolVars, batchVars,
  runVars
<1>11. CASE ProviderEnds
  <2>1. PICK final \in Assistant :
          \/ /\ pc = "provider_more" /\ pc' = "assistant_end"
             /\ ctx' = ReplaceLast(ctx, final) /\ MessageEnd(final)
          \/ /\ pc = "provider" /\ pc' = "final_start"
             /\ ctx' = Append(ctx, final) /\ MessageStart(final)
    BY <1>11, FinalTypes
  <2>2. final \in Message
    BY Kinds
  <2>3. ctx' \in Seq(Message)
    <3>1. CASE pc = "provider_more"
      BY <2>1, <2>2, <3>1, ReplaceLastType
    <3>2. CASE pc = "provider"
      <4>1. ctx \in Seq(Message) /\ ctx' = Append(ctx, final)
        BY <2>1, <3>2
      <4> HIDE DEF LoopOK, LocalsFit
      <4> QED
        BY <2>2, <4>1, AppendLast
    <3> QED
      BY <2>1, <3>1, <3>2
  <2> QED
    BY <1>11, <2>1, <2>3 DEF ProviderEnds, runVars
<1>12. CASE AfterResultEnd
  <2>1. pc = "result_end"
    BY <1>12 DEF AfterResultEnd
  <2>2. Answered \in Seq(Message)
    BY <2>1, AnsweredTypes, WiderSeq
  <2>3. ctx \o Answered \in Seq(Message)
    BY <2>2, ConcatProperties
  <2> QED
    BY <1>12, <2>3 DEF AfterResultEnd, MessageStart, ToolStart, MoreCalls, agentState, queues, runVars
<1>13. CASE ProviderRaises
  <2>1. RunFails
    BY <1>13 DEF ProviderRaises
  <2> QED
    BY <2>1, FailTypes
<1>14. CASE ListenerRaises
  <2>1. RunFails
    BY <1>14 DEF ListenerRaises
  <2> QED
    BY <2>1, FailTypes
<1>15. ASSUME NEW c \in Calls, ToolListenerRaises(c)
      PROVE  LoopOK'
  <2>1. CASE c \in Elems(batch)
    BY <1>15, <2>1, FailTypes DEF ToolListenerRaises
  <2>2. CASE c \notin Elems(batch)
    BY <1>15, <2>2 DEF ToolListenerRaises, queues, batchVars, runVars
  <2> QED
    BY <2>1, <2>2
<1>16. CASE AfterResultStart
  BY <1>16 DEF AfterResultStart, MessageEnd, queues, toolVars, batchVars, runVars
<1>17. CASE AfterFailTurnEnd
  BY <1>17 DEF AfterFailTurnEnd, queues, toolVars, batchVars, runVars
<1>18. CASE AfterAgentEnd
  BY <1>18 DEF AfterAgentEnd, FinishRun, queues
<1>19. CASE AfterFailureStart
  BY <1>19 DEF AfterFailureStart, MessageEnd, queues, toolVars, batchVars, runVars
<1>20. CASE AfterFailureEnd
  BY <1>20 DEF AfterFailureEnd, agentState, queues, toolVars, batchVars, runVars
<1>21. CASE AfterFailureTurnEnd
  BY <1>21 DEF AfterFailureTurnEnd, queues, toolVars, batchVars, runVars
<1>22. CASE FailureListenerRaises
  BY <1>22 DEF FailureListenerRaises, FinishRun, queues
<1>23. ASSUME NEW c \in Calls, ToolUpdates(c)
      PROVE  LoopOK'
  BY <1>23 DEF ToolUpdates, EmitFromTool, agentState, queues, batchVars, runVars
<1>24. ASSUME NEW c \in Calls, ToolEnds(c)
      PROVE  LoopOK'
  BY <1>24 DEF ToolEnds, EmitFromTool, queues, batchVars, runVars
<1>25. ASSUME NEW c \in Calls, ToolEndHandled(c)
      PROVE  LoopOK'
  BY <1>25 DEF ToolEndHandled, agentState, queues, batchVars, runVars
<1>26. CASE Steer \/ FollowUp \/ ClearQueues \/ Abort
  BY <1>26 DEF Steer, FollowUp, ClearQueues, Abort, agentState, queues, toolVars, batchVars, runVars
<1>27. CASE Reset \/ AfterAgentStart \/ AfterPromptStart \/ AfterInjectStart
  BY <1>27 DEF Reset, AfterAgentStart, AfterPromptStart, AfterInjectStart, MessageEnd, agentState,
  queues, toolVars, batchVars, runVars
<1>28. CASE AfterPartial \/ AfterFinalStart \/ AfterAssistantEnd \/ PrepareImmediate
  BY <1>28 DEF AfterPartial, AfterFinalStart, AfterAssistantEnd, PrepareImmediate, MessageEnd,
  ToolStart, agentState, queues, toolVars, batchVars, runVars
<1>29. CASE PrepareOk \/ AfterImmediateEnd \/ AfterTools
  BY <1>29 DEF PrepareOk, AfterImmediateEnd, AfterTools, MessageStart, ToolStart, StartNextOrLaunch,
  EmitResult, agentState, queues, toolVars, batchVars, runVars
<1>30. CASE UNCHANGED vars
  BY <1>30 DEF vars, agentState, queues, toolVars, batchVars, runVars
<1> QED
  BY <1>1, <1>2, <1>3, <1>4, <1>5, <1>6, <1>7, <1>8, <1>9, <1>10, <1>11, <1>12, <1>13, <1>14, <1>15,
  <1>16, <1>17, <1>18, <1>19, <1>20, <1>21, <1>22, <1>23, <1>24, <1>25, <1>26, <1>27, <1>28, <1>29,
  <1>30 DEF Next, LoopStep, Prepare, ToolStep, ClientStep, Failing

LEMMA AgentStateNext ==
  ASSUME AgentStateOK, QueuesOK, LoopOK, ToolsOK, CountersOK, LocalsFit, [Next]_vars
  PROVE  AgentStateOK'
<1> USE DEF AgentStateOK, LoopOK, LocalsFit, ToolsOK, CountersOK
<1>1. CASE Prompt
  <2>1. PICK ps \in Seq(UserMessage), b \in BOOLEAN : StartRun(ps, b)
    BY <1>1, PromptStarts
  <2> QED
    BY <2>1, StartTypes
<1>2. CASE ContinueQueued
  <2>1. PICK ps \in Seq(UserMessage), b \in BOOLEAN : StartRun(ps, b)
    BY <1>2, DrainType DEF ContinueQueued, QueuesOK
  <2> QED
    BY <2>1, StartTypes
<1>3. CASE Continue
  <2>1. PICK ps \in Seq(UserMessage), b \in BOOLEAN : StartRun(ps, b)
    BY <1>3, EmptySeq DEF Continue
  <2> QED
    BY <2>1, StartTypes
<1>4. CASE AfterFirstTurnStart
  <2>1. prompts \in Seq(UserMessage) /\ NextPrompt(prompts)
    BY <1>4 DEF AfterFirstTurnStart
  <2> QED
    BY <1>4, <2>1, NextPromptTypes DEF AfterFirstTurnStart
<1>5. CASE AfterPromptEnd
  <2>1. Tail(prompts) \in Seq(UserMessage) /\ NextPrompt(Tail(prompts))
    BY <1>5 DEF AfterPromptEnd
  <2> QED
    BY <1>5, <2>1, NextPromptTypes DEF AfterPromptEnd
<1>6. CASE AfterPromptStart
  BY <1>6, Kinds DEF AfterPromptStart, MessageEnd, queues, toolVars, batchVars, runVars
<1>7. CASE AfterTurnStart
  BY <1>7, Kinds DEF AfterTurnStart, MessageStart, InjectOrStream, agentState, queues, toolVars,
  batchVars, runVars
<1>8. CASE AfterInjectStart
  BY <1>8, Kinds DEF AfterInjectStart, MessageEnd, queues, toolVars, batchVars, runVars
<1>9. CASE AfterInjectEnd
  BY SMTT(30), <1>9, Kinds DEF AfterInjectEnd, MessageStart, InjectOrStream, agentState, queues, toolVars,
  batchVars, runVars
<1>10. CASE ProviderStart
  BY <1>10, Kinds DEF ProviderStart, MessageStart, queues, toolVars, batchVars, runVars
<1>11. CASE ProviderDelta
  BY <1>11, Kinds DEF ProviderDelta, MessageStart, queues, toolVars, batchVars, runVars
<1>12. CASE AfterFinalStart
  BY <1>12, Kinds DEF AfterFinalStart, MessageEnd, queues, toolVars, batchVars, runVars
<1>13. CASE AfterFailureStart
  BY <1>13, Kinds DEF AfterFailureStart, MessageEnd, queues, toolVars, batchVars, runVars
<1>14. CASE AfterAssistantEnd
  BY SMTT(30), <1>14, Kinds DEF AfterAssistantEnd, ToolStart, agentState, queues, runVars
<1>15. CASE PrepareOk
  BY <1>15, Kinds DEF PrepareOk, ToolStart, StartNextOrLaunch, agentState, queues, runVars
<1>16. CASE AfterImmediateEnd
  BY SMTT(30), <1>16, Kinds DEF AfterImmediateEnd, MessageStart, ToolStart, StartNextOrLaunch, EmitResult,
  agentState, queues, runVars
<1>17. CASE AfterTools
  BY <1>17, Kinds DEF AfterTools, MessageStart, EmitResult, queues, toolVars, batchVars, runVars
<1>18. CASE AfterResultStart
  BY <1>18, Kinds DEF AfterResultStart, MessageEnd, queues, toolVars, batchVars, runVars
<1>19. CASE ProviderRaises
  BY <1>19, Kinds DEF ProviderRaises, RunFails, queues
<1>20. CASE ListenerRaises
  BY <1>20, Kinds DEF ListenerRaises, RunFails, queues
<1>21. ASSUME NEW c \in Calls, ToolListenerRaises(c)
      PROVE  AgentStateOK'
  BY <1>21, Kinds DEF ToolListenerRaises, RunFails, agentState, queues, batchVars, runVars
<1>22. CASE AfterResultEnd
  <2>1. pc = "result_end"
    BY <1>22 DEF AfterResultEnd
  <2> QED
    BY SMTT(30), <1>22, <2>1, AnsweredTypes, Kinds DEF AfterResultEnd, MessageStart, ToolStart, MoreCalls, agentState, queues, runVars
<1>23. CASE Reset
  BY <1>23 DEF Reset, toolVars, batchVars
<1>24. CASE PrepareImmediate
  BY <1>24 DEF PrepareImmediate, queues, batchVars, runVars
<1>25. CASE AfterTurnEnd
  BY <1>25 DEF AfterTurnEnd, agentState, toolVars, batchVars, runVars
<1>26. CASE AfterFailTurnEnd
  BY <1>26 DEF AfterFailTurnEnd, queues, toolVars, batchVars, runVars
<1>27. CASE AfterAgentEnd
  BY <1>27 DEF AfterAgentEnd, FinishRun, queues
<1>28. CASE AfterFailureTurnEnd
  BY <1>28 DEF AfterFailureTurnEnd, queues, toolVars, batchVars, runVars
<1>29. CASE FailureListenerRaises
  BY <1>29 DEF FailureListenerRaises, FinishRun, queues
<1>30. ASSUME NEW c \in Calls, ToolUpdates(c)
      PROVE  AgentStateOK'
  BY <1>30 DEF ToolUpdates, EmitFromTool, agentState, queues, batchVars, runVars
<1>31. ASSUME NEW c \in Calls, ToolEnds(c)
      PROVE  AgentStateOK'
  BY <1>31 DEF ToolEnds, EmitFromTool, queues, batchVars, runVars
<1>32. ASSUME NEW c \in Calls, ToolEndHandled(c)
      PROVE  AgentStateOK'
  BY <1>32 DEF ToolEndHandled, agentState, queues, batchVars, runVars
<1>33. CASE ProviderEnds
  <2>1. PICK final \in Assistant :
          \/ /\ pc = "provider_more" /\ pc' = "assistant_end"
             /\ ctx' = ReplaceLast(ctx, final) /\ MessageEnd(final)
          \/ /\ pc = "provider" /\ pc' = "final_start"
             /\ ctx' = Append(ctx, final) /\ MessageStart(final)
    BY <1>33, FinalTypes
  <2>2. final \in Message
    BY Kinds
  <2>3. CASE MessageEnd(final)
    BY <2>2, <2>3, AppendLast DEF MessageEnd
  <2>4. CASE MessageStart(final)
    BY <2>2, <2>4 DEF MessageStart
  <2> QED
    BY <2>1, <2>3, <2>4
<1>34. CASE Steer \/ FollowUp \/ ClearQueues
  BY <1>34 DEF Steer, FollowUp, ClearQueues, agentState, toolVars, batchVars, runVars
<1>35. CASE Abort \/ AfterAgentStart \/ AfterPartial
  BY <1>35 DEF Abort, AfterAgentStart, AfterPartial, agentState, queues, toolVars, batchVars,
  runVars
<1>36. CASE AfterFailureEnd
  BY <1>36 DEF AfterFailureEnd, agentState, queues, toolVars, batchVars, runVars
<1>37. CASE UNCHANGED vars
  BY <1>37 DEF vars, agentState, queues, toolVars, batchVars, runVars
<1> QED
  BY <1>1, <1>2, <1>3, <1>4, <1>5, <1>6, <1>7, <1>8, <1>9, <1>10, <1>11, <1>12, <1>13, <1>14, <1>15,
  <1>16, <1>17, <1>18, <1>19, <1>20, <1>21, <1>22, <1>23, <1>24, <1>25, <1>26, <1>27, <1>28, <1>29,
  <1>30, <1>31, <1>32, <1>33, <1>34, <1>35, <1>36, <1>37 DEF Next, LoopStep, Prepare, ToolStep,
  ClientStep, Failing

LEMMA LocalsNext ==
  ASSUME CountersOK, QueuesOK, LoopOK, ToolsOK, AgentStateOK, LocalsFit, [Next]_vars
  PROVE  LocalsFit'
<1> USE DEF CountersOK, LoopOK, ToolsOK, LocalsFit
<1>1. CASE Prompt
  <2>1. PICK ps \in Seq(UserMessage), b \in BOOLEAN : StartRun(ps, b)
    BY <1>1, PromptStarts
  <2> QED
    BY <2>1, StartTypes
<1>2. CASE ContinueQueued
  <2>1. PICK ps \in Seq(UserMessage), b \in BOOLEAN : StartRun(ps, b)
    BY <1>2, DrainType DEF ContinueQueued, QueuesOK
  <2> QED
    BY <2>1, StartTypes
<1>3. CASE Continue
  <2>1. PICK ps \in Seq(UserMessage), b \in BOOLEAN : StartRun(ps, b)
    BY <1>3, EmptySeq DEF Continue
  <2> QED
    BY <2>1, StartTypes
<1>4. CASE ProviderStart
  BY SMTT(30), <1>4, Kinds DEF ProviderStart, MessageStart, queues, toolVars, batchVars, runVars
<1>5. CASE ProviderDelta
  BY <1>5, Kinds, ReplaceLastType DEF ProviderDelta, MessageStart, queues, toolVars, batchVars,
  runVars
<1>6. CASE ProviderEnds
  <2>1. PICK final \in Assistant :
          \/ /\ pc = "provider_more" /\ pc' = "assistant_end"
             /\ ctx' = ReplaceLast(ctx, final) /\ MessageEnd(final)
          \/ /\ pc = "provider" /\ pc' = "final_start"
             /\ ctx' = Append(ctx, final) /\ MessageStart(final)
    BY <1>6, FinalTypes
  <2>2. final \in Message
    BY Kinds
  <2>3. CASE pc = "provider_more"
    <3>1. /\ ctx' = ReplaceLast(ctx, final) /\ ctx # <<>> /\ pc' = "assistant_end"
      BY <2>1, <2>3
    <3>2. LastOf(ctx') = final /\ ctx' # <<>>
      BY <2>2, <3>1, ReplaceLastType
    <3> QED
      BY <3>1, <3>2
  <2>4. CASE pc = "provider"
    <3>1. /\ ctx' = Append(ctx, final) /\ pc' = "final_start"
      BY <2>1, <2>4
    <3>2. ctx \in Seq(Message)
      OBVIOUS
    <3> HIDE DEF LoopOK, ToolsOK, CountersOK, LocalsFit
    <3>3. LastOf(ctx') = final /\ ctx' # <<>>
      BY <2>2, <3>1, <3>2, AppendLast
    <3> QED
      BY <3>1, <3>3 DEF LocalsFit
  <2> QED
    BY <2>1, <2>3, <2>4
<1>7. CASE AfterInjectEnd
  BY <1>7 DEF AfterInjectEnd, MessageStart, InjectOrStream, agentState, queues, toolVars, batchVars,
  runVars
<1>8. CASE AfterAssistantEnd
  <2>1. pc' = "tool_start" => started' = 1 /\ results' = <<>>
    BY <1>8 DEF AfterAssistantEnd, ToolStart
  <2>2. pc' \in {"fail_turn_end", "turn_end", "tool_start"}
    BY <1>8 DEF AfterAssistantEnd, ToolStart
  <2> QED
    BY <2>1, <2>2
<1>9. CASE PrepareOk
  BY SMTT(30), <1>9 DEF PrepareOk, ToolStart, StartNextOrLaunch, agentState, queues, runVars
<1>10. CASE AfterImmediateEnd
  <2>1. /\ Len(results) < started /\ started \in Nat /\ Len(results) \in Nat
        /\ results' = results /\ pc' \in {"result_start", "tool_start", "tool_wait"}
    BY <1>10 DEF AfterImmediateEnd, EmitResult, StartNextOrLaunch, ToolStart
  <2>2. started' = started \/ started' = started + 1
    BY <1>10 DEF AfterImmediateEnd, EmitResult, StartNextOrLaunch, ToolStart, agentState
  <2> QED
    BY <2>1, <2>2
<1>11. CASE AfterResultEnd
  <2>1. pc = "result_end"
    BY <1>11 DEF AfterResultEnd
  <2>2. Len(Answered) \in Nat /\ started \in Nat
    BY <2>1, AnsweredTypes
  <2>3. \/ pc' = "turn_end"
        \/ pc' = "result_start" /\ results' = Answered /\ Len(Answered) < started
           /\ started' = started
        \/ pc' = "tool_start" /\ results' = Answered /\ Len(Answered) = started
           /\ started' = started + 1
    BY <1>11 DEF AfterResultEnd, ToolStart
  <2> QED
    BY <2>2, <2>3
<1>12. CASE ProviderRaises
  <2>1. RunFails
    BY <1>12 DEF ProviderRaises
  <2> QED
    BY <2>1, FailTypes
<1>13. CASE ListenerRaises
  <2>1. RunFails
    BY <1>13 DEF ListenerRaises
  <2> QED
    BY <2>1, FailTypes
<1>14. ASSUME NEW c \in Calls, ToolListenerRaises(c)
      PROVE  LocalsFit'
  <2>1. CASE c \in Elems(batch)
    BY <1>14, <2>1, FailTypes DEF ToolListenerRaises
  <2>2. CASE c \notin Elems(batch)
    BY <1>14, <2>2 DEF ToolListenerRaises, queues, batchVars, runVars
  <2> QED
    BY <2>1, <2>2
<1>15. CASE Steer \/ FollowUp \/ ClearQueues \/ Abort \/ Reset \/ AfterAgentStart
  BY <1>15 DEF Steer, FollowUp, ClearQueues, Abort, Reset, AfterAgentStart, agentState, queues,
  toolVars, batchVars, runVars
<1>16. CASE AfterFirstTurnStart \/ AfterPromptStart \/ AfterPromptEnd \/ AfterTurnStart \/
      AfterInjectStart \/ AfterPartial
  BY <1>16 DEF AfterFirstTurnStart, AfterPromptStart, AfterPromptEnd, AfterTurnStart,
  AfterInjectStart, AfterPartial, MessageStart, MessageEnd, InjectOrStream, EnterLoop, NextPrompt,
  agentState, queues, toolVars, batchVars, runVars
<1>17. CASE AfterFinalStart \/ PrepareImmediate \/ AfterTools \/ AfterResultStart \/ AfterTurnEnd \/
      AfterFailTurnEnd
  BY <1>17 DEF AfterFinalStart, PrepareImmediate, AfterTools, AfterResultStart, AfterTurnEnd,
  AfterFailTurnEnd, MessageStart, MessageEnd, EmitResult, agentState, queues, toolVars, batchVars,
  runVars
<1>18. CASE AfterAgentEnd \/ AfterFailureStart \/ AfterFailureEnd \/ AfterFailureTurnEnd \/
      FailureListenerRaises \/ (\E c \in Calls : ToolUpdates(c))
  BY <1>18 DEF AfterAgentEnd, AfterFailureStart, AfterFailureEnd, AfterFailureTurnEnd,
  FailureListenerRaises, ToolUpdates, MessageEnd, EmitFromTool, FinishRun, agentState, queues,
  toolVars, batchVars, runVars
<1>19. CASE (\E c \in Calls : ToolEnds(c)) \/ (\E c \in Calls : ToolEndHandled(c))
  BY <1>19 DEF ToolEnds, ToolEndHandled, EmitFromTool, agentState, queues, batchVars, runVars
<1>20. CASE UNCHANGED vars
  BY <1>20 DEF vars, agentState, queues, toolVars, batchVars, runVars
<1> QED
  BY <1>1, <1>2, <1>3, <1>4, <1>5, <1>6, <1>7, <1>8, <1>9, <1>10, <1>11, <1>12, <1>13, <1>14, <1>15,
  <1>16, <1>17, <1>18, <1>19, <1>20 DEF Next, LoopStep, Prepare, ToolStep, ClientStep, Failing

LEMMA TypeInit == Init => TypeOK /\ LocalsFit
<1> SUFFICES ASSUME Init
             PROVE  TypeOK /\ LocalsFit
  OBVIOUS
<1>1. FlagsOK
  BY DEF Init, FlagsOK
<1>2. CountersOK
  BY BoundsAssumption DEF Init, CountersOK
<1>3. AgentStateOK /\ QueuesOK /\ ToolsOK
  BY DEF Init, AgentStateOK, QueuesOK, ToolsOK, Stages
<1>4. LoopOK
  BY DEF Init, LoopOK, Suspensions
<1>5. LocalsFit
  <2>1. pc = "idle"
    BY DEF Init
  <2> QED
    BY <2>1 DEF LocalsFit
<1> QED
  BY <1>1, <1>2, <1>3, <1>4, <1>5 DEF TypeOK

(* Every state has well-typed variables, for all bounds, modes and batches. *)
THEOREM TypeCorrect == Spec => [](TypeOK /\ LocalsFit)
<1>1. Init => TypeOK /\ LocalsFit
  BY TypeInit
<1>2. TypeOK /\ LocalsFit /\ [Next]_vars => (TypeOK /\ LocalsFit)'
  BY FlagsNext, CountersNext, QueuesNext, ToolsNext, LoopNext, AgentStateNext, LocalsNext
  DEF TypeOK
<1> QED
  BY <1>1, <1>2, PTL DEF Spec

-----------------------------------------------------------------------------
(* The context mirrors the transcript. *)
LEMMA StartMirrors ==
  ASSUME NEW ps, NEW b, StartRun(ps, b)
  PROVE  Mirrored' /\ intact' = intact
BY DEF StartRun, Mirrored

LEMMA InjectMirrors ==
  ASSUME NEW p, InjectOrStream(p), ctx' = msgs
  PROVE  Mirrored'
BY DEF InjectOrStream, MessageStart, agentState, Mirrored

LEMMA NextPromptMirrors ==
  ASSUME AgentStateOK, NEW rest, NextPrompt(rest), ctx = msgs \o rest, ctx' = ctx
  PROVE  Mirrored'
<1>1. CASE rest # <<>>
  BY <1>1 DEF NextPrompt, MessageStart, Mirrored
<1>2. CASE rest = <<>>
  <2>1. ctx' = msgs
    BY <1>2, ConcatNothing DEF AgentStateOK
  <2>2. PICK p : InjectOrStream(p)
    BY <1>2 DEF NextPrompt, EnterLoop
  <2> QED
    BY <2>1, <2>2, InjectMirrors
<1> QED
  BY <1>1, <1>2

LEMMA MirrorStep ==
  ASSUME TypeOK, LocalsFit, Mirrored, [Next]_vars, ~Reset
  PROVE  Mirrored'
<1> USE DEF TypeOK
<1>1. CASE Prompt \/ ContinueQueued \/ Continue
  BY <1>1, StartMirrors DEF Prompt, ContinueQueued, Continue
<1>2. CASE AfterFirstTurnStart
  BY <1>2, NextPromptMirrors DEF AfterFirstTurnStart, Mirrored
<1>3. CASE AfterPromptStart
  <2>1. /\ ctx = msgs \o prompts /\ msgs \in Seq(Message) /\ prompts \in Seq(Message)
        /\ prompts # <<>>
    BY <1>3, WiderSeq DEF AfterPromptStart, Mirrored, LocalsFit, AgentStateOK, LoopOK
  <2>2. ctx = Append(msgs, Head(prompts)) \o Tail(prompts)
    BY <2>1, ConcatShift
  <2> QED
    BY <1>3, <2>2 DEF AfterPromptStart, MessageEnd, Mirrored
<1>4. CASE AfterPromptEnd
  BY <1>4, NextPromptMirrors DEF AfterPromptEnd, Mirrored
<1>5. CASE AfterTurnStart
  BY <1>5, InjectMirrors DEF AfterTurnStart, Mirrored
<1>6. CASE AfterInjectStart
  BY <1>6 DEF AfterInjectStart, MessageEnd, Mirrored
<1>7. CASE AfterInjectEnd
  BY <1>7, InjectMirrors DEF AfterInjectEnd, Mirrored
<1>8. CASE ProviderStart
  BY <1>8, Kinds, AppendLast DEF ProviderStart, MessageStart, Mirrored, AgentStateOK
<1>9. CASE ProviderDelta
  <2>1. /\ ctx = Append(msgs, LastOf(ctx)) /\ msgs \in Seq(Message)
        /\ LastOf(ctx) \in Message /\ Partial \in Message
    BY <1>9, Kinds DEF ProviderDelta, Mirrored, AgentStateOK, LoopOK, LastOf
  <2>2. ctx' = Append(msgs, Partial)
    BY <1>9, <2>1, ReplaceLastAppend DEF ProviderDelta
  <2> QED
    BY <1>9, <2>1, <2>2, AppendLast DEF ProviderDelta, MessageStart, Mirrored
<1>10. CASE ProviderEnds
  <2>1. PICK final \in Assistant :
          \/ /\ pc = "provider_more" /\ pc' = "assistant_end"
             /\ ctx' = ReplaceLast(ctx, final) /\ MessageEnd(final)
          \/ /\ pc = "provider" /\ pc' = "final_start"
             /\ ctx' = Append(ctx, final) /\ MessageStart(final)
    BY <1>10, FinalTypes
  <2>2. final \in Message /\ msgs \in Seq(Message)
    BY Kinds DEF AgentStateOK
  <2>3. CASE pc = "provider_more"
    <3>1. ctx = Append(msgs, LastOf(ctx)) /\ LastOf(ctx) \in Message
      BY <2>3 DEF Mirrored, LoopOK, LastOf
    <3>2. ctx' = Append(msgs, final)
      BY ZenonT(30), <2>1, <2>2, <2>3, <3>1, ReplaceLastAppend
    <3> QED
      BY <2>1, <2>3, <3>2 DEF MessageEnd, Mirrored
  <2>4. CASE pc = "provider"
    <3>1. ctx' = Append(msgs, final) /\ msgs' = msgs /\ pc' = "final_start"
      BY <2>1, <2>4 DEF MessageStart, Mirrored
    <3>2. Append(msgs, final) # <<>> /\ LastOf(Append(msgs, final)) = final
      BY <2>2, AppendLast
    <3> QED
      BY <3>1, <3>2 DEF Mirrored
  <2> QED
    BY <2>1, <2>3, <2>4
<1>11. CASE AfterFinalStart
  BY <1>11 DEF AfterFinalStart, MessageEnd, Mirrored
<1>12. CASE AfterAssistantEnd
  <2>1. msgs = ctx /\ ctx \o <<>> = ctx
    BY <1>12, ConcatNothing DEF AfterAssistantEnd, Mirrored, LoopOK
  <2> QED
    BY <1>12, <2>1 DEF AfterAssistantEnd, ToolStart, agentState, Mirrored
<1>13. CASE PrepareImmediate \/ PrepareOk \/ AfterImmediateEnd \/ AfterTools
  BY <1>13 DEF PrepareImmediate, PrepareOk, AfterImmediateEnd, AfterTools, StartNextOrLaunch,
     ToolStart, EmitResult, MessageStart, agentState, Mirrored
<1>14. CASE AfterResultStart
  <2>1. /\ msgs = ctx \o results /\ ctx \in Seq(Message) /\ results \in Seq(Message)
    BY <1>14, WiderSeq DEF AfterResultStart, Mirrored, LoopOK, ToolsOK
  <2>2. ResultOf(batch[Len(results) + 1]) \in Message
    <3>1. Len(results) < started /\ started \in 0..Len(batch) /\ Len(results) \in Nat
      BY <1>14 DEF AfterResultStart, LocalsFit, CountersOK, ToolsOK
    <3>2. batch[Len(results) + 1] \in Calls
      BY <3>1 DEF ToolsOK
    <3> QED
      BY <3>2, Kinds
  <2> DEFINE answer == ResultOf(batch[Len(results) + 1])
  <2>3. Append(msgs, answer) = ctx \o Answered
    <3>1. answer \in Message /\ ctx \in Seq(Message) /\ results \in Seq(Message)
      BY <2>1, <2>2
    <3>2. Append(ctx \o results, answer) = ctx \o Append(results, answer)
      <4> HIDE DEF answer
      <4> QED
        BY <3>1
    <3> QED
      BY <2>1, <3>2 DEF Answered
  <2>4. /\ pc' = "result_end" /\ ctx' = ctx /\ Answered' = Answered
        /\ msgs' = Append(msgs, answer)
    BY <1>14 DEF AfterResultStart, MessageEnd, batchVars, Answered
  <2> QED
    BY <2>3, <2>4 DEF Mirrored
<1>15. CASE AfterResultEnd
  BY <1>15 DEF AfterResultEnd, ToolStart, MessageStart, agentState, Mirrored
<1>16. CASE AfterTurnEnd \/ AfterFailTurnEnd \/ AfterAgentStart \/ AfterPartial
  BY <1>16 DEF AfterTurnEnd, AfterFailTurnEnd, AfterAgentStart, AfterPartial, agentState, Mirrored
<1>17. CASE AfterAgentEnd \/ FailureListenerRaises
  BY <1>17 DEF AfterAgentEnd, FailureListenerRaises, FinishRun, Mirrored
<1>18. CASE ProviderRaises \/ ListenerRaises
  BY <1>18 DEF ProviderRaises, ListenerRaises, RunFails, Mirrored
<1>19. CASE AfterFailureStart \/ AfterFailureEnd \/ AfterFailureTurnEnd
  BY <1>19 DEF AfterFailureStart, AfterFailureEnd, AfterFailureTurnEnd, Mirrored
<1>20. CASE Steer \/ FollowUp \/ ClearQueues \/ Abort \/ UNCHANGED vars
  BY <1>20 DEF Steer, FollowUp, ClearQueues, Abort, vars, agentState, batchVars, Mirrored, Answered
<1>21. ASSUME NEW c \in Calls, ToolUpdates(c) \/ ToolStep(c)
       PROVE  Mirrored'
  BY <1>21 DEF ToolUpdates, ToolStep, ToolEnds, ToolEndHandled, agentState, batchVars, Mirrored,
     Answered
<1>22. ASSUME NEW c \in Calls, ToolListenerRaises(c)
       PROVE  Mirrored'
  <2>1. CASE c \in Elems(batch)
    BY <1>22, <2>1 DEF ToolListenerRaises, RunFails, Mirrored
  <2>2. CASE c \notin Elems(batch)
    BY <1>22, <2>2 DEF ToolListenerRaises, agentState, batchVars, Mirrored, Answered
  <2> QED
    BY <2>1, <2>2
<1> QED
  BY <1>1, <1>2, <1>3, <1>4, <1>5, <1>6, <1>7, <1>8, <1>9, <1>10, <1>11, <1>12, <1>13, <1>14,
     <1>15, <1>16, <1>17, <1>18, <1>19, <1>20, <1>21, <1>22
  DEF Next, LoopStep, Prepare, ClientStep, Failing

\* Only reset() tears the transcript of a run; every other step keeps "intact".
LEMMA IntactKept ==
  ASSUME [Next]_vars, ~Reset
  PROVE  intact' = intact
<1>1. CASE Prompt \/ ContinueQueued \/ Continue
  BY <1>1, StartMirrors DEF Prompt, ContinueQueued, Continue
<1>2. CASE ClientStep /\ ~Prompt /\ ~ContinueQueued /\ ~Continue
  BY <1>2 DEF ClientStep, Steer, FollowUp, ClearQueues, Abort, runVars
<1>3. CASE LoopStep
  BY <1>3 DEF LoopStep, AfterAgentStart, AfterFirstTurnStart, AfterPromptStart, AfterPromptEnd,
     AfterTurnStart, AfterInjectStart, AfterInjectEnd, AfterPartial, AfterFinalStart,
     AfterAssistantEnd, AfterImmediateEnd, AfterTools, AfterResultStart, AfterResultEnd,
     AfterTurnEnd, AfterFailTurnEnd, AfterAgentEnd, AfterFailureStart, AfterFailureEnd,
     AfterFailureTurnEnd, FinishRun, runVars
<1>4. CASE Prepare \/ ProviderStart \/ ProviderDelta \/ ProviderEnds \/ UNCHANGED vars
  BY <1>4 DEF Prepare, PrepareImmediate, PrepareOk, ProviderStart, ProviderDelta, ProviderEnds,
     runVars, vars
<1>5. CASE ProviderRaises \/ ListenerRaises \/ FailureListenerRaises
  BY <1>5 DEF ProviderRaises, ListenerRaises, FailureListenerRaises, RunFails, FinishRun
<1>6. ASSUME NEW c \in Calls, ToolUpdates(c) \/ ToolStep(c)
      PROVE  intact' = intact
  BY <1>6 DEF ToolUpdates, ToolStep, ToolEnds, ToolEndHandled, runVars
<1>7. ASSUME NEW c \in Calls, ToolListenerRaises(c)
      PROVE  intact' = intact
  <2>1. CASE c \in Elems(batch)
    BY <1>7, <2>1 DEF ToolListenerRaises, RunFails
  <2>2. CASE c \notin Elems(batch)
    BY <1>7, <2>2 DEF ToolListenerRaises, runVars
  <2> QED
    BY <2>1, <2>2
<1> QED
  BY <1>1, <1>2, <1>3, <1>4, <1>5, <1>6, <1>7 DEF Next, ClientStep, Failing

(* The context a run gives the provider is the transcript the session keeps. *)
THEOREM ContextIsTranscript == Spec => []ContextMirrorsTranscript
<1>1. Init => ContextMirrorsTranscript
  BY DEF Init, ContextMirrorsTranscript, Mirrored
<1>2. TypeOK /\ LocalsFit /\ ContextMirrorsTranscript /\ [Next]_vars => ContextMirrorsTranscript'
  <2> SUFFICES ASSUME TypeOK, LocalsFit, ContextMirrorsTranscript, [Next]_vars
               PROVE  ContextMirrorsTranscript'
    OBVIOUS
  <2>1. CASE Reset
    BY <2>1 DEF Reset, ContextMirrorsTranscript, Mirrored
  <2>2. CASE ~Reset
    BY <2>2, MirrorStep, IntactKept DEF ContextMirrorsTranscript
  <2> QED
    BY <2>1, <2>2
<1> QED
  BY <1>1, <1>2, TypeCorrect, PTL DEF Spec

-----------------------------------------------------------------------------
(* A settled agent runs no batch: the tools that outlive their run are orphans,
   and their exceptions cannot start a failure. *)
NoBatchWhenIdle == ~Active => batch = <<>>

LEMMA SettledStep ==
  ASSUME SettledStateIsClean, NoBatchWhenIdle, [Next]_vars
  PROVE  SettledStateIsClean' /\ NoBatchWhenIdle'
<1> USE DEF SettledStateIsClean, NoBatchWhenIdle, Active
<1>1. CASE Prompt \/ ContinueQueued \/ Continue
  BY <1>1 DEF Prompt, ContinueQueued, Continue, StartRun
<1>2. CASE Steer \/ FollowUp \/ ClearQueues \/ Abort \/ UNCHANGED vars
  BY <1>2 DEF Steer, FollowUp, ClearQueues, Abort, vars, agentState, batchVars, runVars
<1>3. CASE Reset
  BY <1>3 DEF Reset, batchVars
<1>4. CASE AfterFirstTurnStart \/ AfterPromptEnd \/ AfterTurnStart \/ AfterInjectEnd
  BY <1>4 DEF AfterFirstTurnStart, AfterPromptEnd, AfterTurnStart, AfterInjectEnd, NextPrompt,
     EnterLoop, InjectOrStream, MessageStart, agentState, runVars
<1>5. CASE AfterAgentStart \/ AfterPromptStart \/ AfterInjectStart \/ AfterPartial
           \/ AfterFinalStart
  BY <1>5 DEF AfterAgentStart, AfterPromptStart, AfterInjectStart, AfterPartial, AfterFinalStart,
     MessageEnd, agentState, runVars
<1>6. CASE ProviderStart \/ ProviderDelta
  BY <1>6 DEF ProviderStart, ProviderDelta, MessageStart, runVars
<1>7. CASE ProviderEnds
  BY <1>7 DEF ProviderEnds, MessageStart, MessageEnd, Streaming, runVars
<1>8. CASE AfterAssistantEnd \/ Prepare \/ AfterImmediateEnd
  BY <1>8 DEF AfterAssistantEnd, Prepare, PrepareImmediate, PrepareOk, AfterImmediateEnd,
     StartNextOrLaunch, ToolStart, EmitResult, MessageStart, agentState, runVars
<1>9. CASE AfterTools \/ AfterResultStart \/ AfterResultEnd
  BY <1>9 DEF AfterTools, AfterResultStart, AfterResultEnd, EmitResult, ToolStart, MessageStart,
     MessageEnd, agentState, runVars
<1>10. CASE AfterTurnEnd \/ AfterFailTurnEnd
  BY <1>10 DEF AfterTurnEnd, AfterFailTurnEnd, agentState, runVars
<1>11. CASE AfterAgentEnd \/ FailureListenerRaises
  BY <1>11 DEF AfterAgentEnd, FailureListenerRaises, FinishRun
<1>12. CASE ProviderRaises \/ ListenerRaises
  BY <1>12 DEF ProviderRaises, ListenerRaises, RunFails, Streaming, Announcing
<1>13. CASE AfterFailureStart \/ AfterFailureEnd \/ AfterFailureTurnEnd
  BY <1>13 DEF AfterFailureStart, AfterFailureEnd, AfterFailureTurnEnd, MessageEnd, agentState,
     runVars
<1>14. ASSUME NEW c \in Calls, ToolUpdates(c) \/ ToolStep(c)
       PROVE  SettledStateIsClean' /\ NoBatchWhenIdle'
  BY <1>14 DEF ToolUpdates, ToolStep, ToolEnds, ToolEndHandled, agentState, batchVars, runVars
<1>15. ASSUME NEW c \in Calls, ToolListenerRaises(c)
       PROVE  SettledStateIsClean' /\ NoBatchWhenIdle'
  <2>1. CASE c \in Elems(batch)
    <3>1. Active
      BY <2>1 DEF Elems
    <3> QED
      BY <1>15, <2>1, <3>1 DEF ToolListenerRaises, RunFails
  <2>2. CASE c \notin Elems(batch)
    BY <1>15, <2>2 DEF ToolListenerRaises, agentState, batchVars, runVars
  <2> QED
    BY <2>1, <2>2
<1> QED
  BY <1>1, <1>2, <1>3, <1>4, <1>5, <1>6, <1>7, <1>8, <1>9, <1>10, <1>11, <1>12, <1>13, <1>14,
     <1>15
  DEF Next, LoopStep, ClientStep, Failing

(* A settled agent shows nothing of a run, and a run shows that it is streaming,
   unless reset() tore it: what AgentSession decides on. *)
THEOREM SettledIsClean == Spec => []SettledStateIsClean
<1>1. Init => SettledStateIsClean /\ NoBatchWhenIdle
  BY DEF Init, SettledStateIsClean, NoBatchWhenIdle, Active
<1> QED
  BY <1>1, SettledStep, PTL DEF Spec

-----------------------------------------------------------------------------
(* The two properties, of any list of messages. *)

\* ResultsFollowCalls
InCallOrder(s) ==
  \A i \in 1..Len(s) :
    /\ IsReply(s[i]) =>
         \A j \in ResultsAfter(s, i) :
           j - i <= Len(s[i].calls) /\ s[j].call = s[i].calls[j - i]
    /\ s[i].role = "toolResult" =>
         i > 1 /\ (IsReply(s[i - 1]) \/ s[i - 1].role = "toolResult")

\* CallsAnsweredBeforeRequest, of the messages after "from" up to "to"
Whole(s, from, to) ==
  \A i \in from + 1..to :
    IsReply(s[i]) =>
      \A n \in 1..Len(s[i].calls) : i + n <= to /\ s[i + n] = ResultOf(s[i].calls[n])

LEMMA Roles ==
  /\ \A m \in UserMessage : ~IsReply(m) /\ m.role # "toolResult"
  /\ \A m \in Assistant : IsReply(m) /\ m.role # "toolResult"
  /\ \A m \in ToolResult : ~IsReply(m) /\ m.role = "toolResult"
  /\ \A m \in Message : IsReply(m) => m \in Assistant
  /\ \A c : ResultOf(c).call = c
BY DEF UserMessage, Assistant, ToolResult, Message, IsReply, ResultOf

(* A place in a sequence of n + 1 is the last, or one of the n before. *)
LEMMA LastOrEarlier == \A n \in Nat : \A i \in 1..n + 1 : i \in 1..n \/ i = n + 1
OBVIOUS

LEMMA Offset ==
  ASSUME NEW m \in Nat, NEW n \in Nat, NEW i \in m + 1..m + n
  PROVE  i - m \in 1..n /\ m + (i - m) = i
  OBVIOUS

LEMMA Appended ==
  ASSUME NEW s \in Seq(Message), NEW m \in Message
  PROVE  /\ Append(s, m) \in Seq(Message) /\ Len(Append(s, m)) = Len(s) + 1
         /\ \A i \in 1..Len(s) : Append(s, m)[i] = s[i]
         /\ Append(s, m)[Len(s) + 1] = m
  BY AppendProperties

LEMMA Joined ==
  ASSUME NEW s \in Seq(Message), NEW t \in Seq(Message)
  PROVE  /\ s \o t \in Seq(Message) /\ Len(s \o t) = Len(s) + Len(t)
         /\ \A i \in 1..Len(s) : (s \o t)[i] = s[i]
         /\ \A i \in 1..Len(t) : (s \o t)[Len(s) + i] = t[i]
  BY ConcatProperties

(* A user or assistant message after the others moves no result. *)
LEMMA FollowsMessage ==
  ASSUME NEW s \in Seq(Message), InCallOrder(s), NEW m \in UserMessage \cup Assistant
  PROVE  InCallOrder(Append(s, m))
<1> DEFINE a == Append(s, m)
<1>1. m \in Message /\ m.role # "toolResult"
  BY Kinds, Roles
<1>2. /\ a \in Seq(Message) /\ Len(a) = Len(s) + 1 /\ Len(s) \in Nat
      /\ \A i \in 1..Len(s) : a[i] = s[i]
      /\ a[Len(s) + 1] = m
  BY <1>1, Appended
<1> HIDE DEF a
<1>3. ASSUME NEW i \in 1..Len(a), IsReply(a[i]), NEW j \in ResultsAfter(a, i)
      PROVE  j - i <= Len(a[i].calls) /\ a[j].call = a[i].calls[j - i]
  <2>1. j \in i + 1..Len(a) /\ \A k \in i + 1..j : a[k].role = "toolResult"
    BY <1>3 DEF ResultsAfter
  <2>2. j # Len(s) + 1
    BY <1>1, <1>2, <2>1
  <2>3. i \in 1..Len(s) /\ j \in i + 1..Len(s)
    BY <1>2, <2>1, <2>2
  <2>4. j \in ResultsAfter(s, i) /\ a[i] = s[i] /\ a[j] = s[j]
    BY <1>2, <2>1, <2>3 DEF ResultsAfter
  <2> QED
    BY <1>3, <2>3, <2>4 DEF InCallOrder
<1>4. ASSUME NEW i \in 1..Len(a), a[i].role = "toolResult"
      PROVE  i > 1 /\ (IsReply(a[i - 1]) \/ a[i - 1].role = "toolResult")
  <2>1. i \in 1..Len(s)
    BY <1>1, <1>2, <1>4
  <2>2. i > 1 /\ (IsReply(s[i - 1]) \/ s[i - 1].role = "toolResult")
    BY <1>2, <1>4, <2>1 DEF InCallOrder
  <2> QED
    BY <1>2, <2>1, <2>2
<1> QED
  BY <1>3, <1>4 DEF InCallOrder, a

(* Neither does the next result of the last reply. *)
LEMMA FollowsResult ==
  ASSUME NEW s \in Seq(Message), NEW r \in Seq(ToolResult), NEW cs \in Seq(Calls),
         s # <<>>, IsReply(LastOf(s)), LastOf(s).calls = cs,
         Len(r) < Len(cs), \A n \in 1..Len(r) : r[n] = ResultOf(cs[n]),
         InCallOrder(s \o r)
  PROVE  InCallOrder(Append(s \o r, ResultOf(cs[Len(r) + 1])))
<1> DEFINE t == s \o r
           m == ResultOf(cs[Len(r) + 1])
           a == Append(t, m)
<1>1. cs[Len(r) + 1] \in Calls /\ m \in ToolResult /\ m.call = cs[Len(r) + 1] /\ m \in Message
  <2>1. cs[Len(r) + 1] \in Calls
    OBVIOUS
  <2> QED
    BY <2>1, Kinds, Roles
<1>2. /\ r \in Seq(Message) /\ t \in Seq(Message) /\ Len(t) = Len(s) + Len(r)
      /\ \A i \in 1..Len(s) : t[i] = s[i]
      /\ \A i \in 1..Len(r) : t[Len(s) + i] = r[i]
  BY WiderSeq, Joined
<1> HIDE DEF t, m
<1>3. /\ a \in Seq(Message) /\ Len(a) = Len(t) + 1 /\ a[Len(t) + 1] = m
      /\ \A i \in 1..Len(t) : a[i] = t[i]
  BY <1>1, <1>2, Appended
<1> HIDE DEF a
<1>4. /\ Len(s) \in Nat \ {0} /\ Len(r) \in Nat
      /\ Len(t) = Len(s) + Len(r) /\ Len(a) = Len(s) + Len(r) + 1
  BY <1>2, <1>3
<1>5. IsReply(a[Len(s)]) /\ a[Len(s)].calls = cs
  BY SMTT(30), <1>2, <1>3, <1>4 DEF LastOf
<1>6. \A i \in Len(s) + 1..Len(a) :
        a[i] = ResultOf(cs[i - Len(s)]) /\ a[i].role = "toolResult" /\ ~IsReply(a[i])
  <2> SUFFICES ASSUME NEW i \in Len(s) + 1..Len(a)
               PROVE  a[i] = ResultOf(cs[i - Len(s)])
    BY DEF ResultOf, IsReply
  <2>1. CASE i = Len(a)
    BY <1>2, <1>3, <1>4, <2>1 DEF m
  <2>2. CASE i <= Len(s) + Len(r)
    <3>1. i \in Len(s) + 1..Len(s) + Len(r) /\ i \in 1..Len(t)
      BY <1>4, <2>2
    <3>2. i - Len(s) \in 1..Len(r) /\ Len(s) + (i - Len(s)) = i
      BY <1>4, <3>1, Offset
    <3> QED
      BY <1>2, <1>3, <3>1, <3>2
  <2> QED
    BY <1>4, <2>1, <2>2
<1>7. ASSUME NEW i \in 1..Len(a), IsReply(a[i]), NEW j \in ResultsAfter(a, i)
      PROVE  j - i <= Len(a[i].calls) /\ a[j].call = a[i].calls[j - i]
  <2>1. j \in i + 1..Len(a) /\ \A k \in i + 1..j : a[k].role = "toolResult"
    BY <1>7 DEF ResultsAfter
  <2>2. i \in 1..Len(s)
    BY <1>4, <1>6, <1>7
  <2>3. CASE i = Len(s)
    BY <1>2, <1>3, <1>4, <1>5, <1>6, <2>1, <2>3, Roles
  <2>4. CASE i # Len(s)
    <3>1. Len(s) \notin i + 1..j
      BY <1>5, <2>1 DEF IsReply
    <3>2. i \in 1..Len(t) /\ j \in i + 1..Len(t)
      BY <1>2, <1>4, <2>1, <2>2, <2>4, <3>1
    <3>3. j \in ResultsAfter(t, i) /\ a[i] = t[i] /\ a[j] = t[j]
      BY SMTT(30), <1>3, <2>1, <3>2 DEF ResultsAfter
    <3> QED
      BY <1>7, <3>2, <3>3 DEF InCallOrder, t
  <2> QED
    BY <2>3, <2>4
<1>8. ASSUME NEW i \in 1..Len(a), a[i].role = "toolResult"
      PROVE  i > 1 /\ (IsReply(a[i - 1]) \/ a[i - 1].role = "toolResult")
  <2>1. CASE i \in 1..Len(t)
    <3>1. i > 1 /\ (IsReply(t[i - 1]) \/ t[i - 1].role = "toolResult")
      BY <1>3, <1>8, <2>1 DEF InCallOrder, t
    <3> QED
      BY SMTT(30), <1>2, <1>3, <2>1, <3>1
  <2>2. CASE i = Len(t) + 1
    <3>1. i > 1 /\ (i - 1 = Len(s) \/ i - 1 \in Len(s) + 1..Len(a))
      BY <1>4, <2>2
    <3>2. IsReply(a[i - 1]) \/ a[i - 1].role = "toolResult"
      BY <1>5, <1>6, <3>1
    <3> QED
      BY <3>1, <3>2
  <2>3. i \in 1..Len(t) \/ i = Len(t) + 1
    <3>1. Len(t) \in Nat /\ Len(a) = Len(t) + 1
      BY <1>4
    <3> QED
      BY <3>1, LastOrEarlier
  <2> QED
    BY <2>1, <2>2, <2>3
<1> QED
  BY <1>7, <1>8 DEF InCallOrder, a, m, t

-----------------------------------------------------------------------------
(* Whole lists stay whole. *)
LEMMA WholeStart ==
  ASSUME NEW s \in Seq(Message), NEW t \in Seq(UserMessage)
  PROVE  Whole(s \o t, Len(s), Len(s \o t))
<1>1. t \in Seq(Message)
  BY WiderSeq
<1>2. ASSUME NEW i \in Len(s) + 1..Len(s \o t)
      PROVE  ~IsReply((s \o t)[i])
  <2>1. i - Len(s) \in 1..Len(t) /\ Len(s) + (i - Len(s)) = i
    BY <1>1, Joined
  <2>2. (s \o t)[i] = t[i - Len(s)] /\ t[i - Len(s)] \in UserMessage
    BY <1>1, <2>1, Joined
  <2> QED
    BY <2>2, Roles
<1> QED
  BY <1>2 DEF Whole

LEMMA WholeBefore ==
  ASSUME NEW s \in Seq(Message), NEW b \in Nat, NEW m \in Message, Whole(s, b, Len(s))
  PROVE  Whole(Append(s, m), b, Len(s))
<1>1. \A i \in 1..Len(s) : Append(s, m)[i] = s[i]
  BY Appended
<1>2. \A i \in b + 1..Len(s) : i \in 1..Len(s)
  OBVIOUS
<1> DEFINE a == Append(s, m)
<1>3. ASSUME NEW i \in b + 1..Len(s), IsReply(a[i]), NEW n \in 1..Len(a[i].calls)
      PROVE  i + n <= Len(s) /\ a[i + n] = ResultOf(a[i].calls[n])
  <2>1. a[i] = s[i] /\ i \in 1..Len(s)
    BY <1>1, <1>2
  <2>2. i + n <= Len(s) /\ s[i + n] = ResultOf(s[i].calls[n])
    BY <1>3, <2>1 DEF Whole
  <2>3. i + n \in 1..Len(s)
    BY <2>1, <2>2
  <2> QED
    BY <1>1, <2>1, <2>2, <2>3
<1> QED
  BY <1>3 DEF Whole

LEMMA WholeReplace ==
  ASSUME NEW s \in Seq(Message), s # <<>>, NEW b \in Nat, NEW m \in Message,
         Whole(s, b, Len(s) - 1)
  PROVE  Whole(ReplaceLast(s, m), b, Len(ReplaceLast(s, m)) - 1)
<1> DEFINE a == ReplaceLast(s, m)
<1>1. Len(s) \in Nat \ {0} /\ Len(a) = Len(s) /\ \A i \in 1..Len(s) - 1 : a[i] = s[i]
  BY DEF ReplaceLast
<1> HIDE DEF a
<1>2. ASSUME NEW i \in b + 1..Len(s) - 1, IsReply(a[i]), NEW n \in 1..Len(a[i].calls)
      PROVE  i + n <= Len(s) - 1 /\ a[i + n] = ResultOf(a[i].calls[n])
  <2>1. a[i] = s[i] /\ i \in 1..Len(s) - 1
    BY <1>1
  <2>2. i + n <= Len(s) - 1 /\ s[i + n] = ResultOf(s[i].calls[n])
    BY <1>2, <2>1 DEF Whole
  <2>3. i + n \in 1..Len(s) - 1
    BY <1>1, <2>1, <2>2
  <2> QED
    BY <1>1, <2>1, <2>2, <2>3
<1> QED
  BY <1>1, <1>2 DEF Whole, a

(* The results of its calls make a list whole that ends with a reply. *)
LEMMA WholeAnswered ==
  ASSUME NEW s \in Seq(Message), s # <<>>, NEW b \in Nat, Whole(s, b, Len(s) - 1),
         NEW t \in Seq(Message), Len(t) = Len(LastOf(s).calls), LastOf(s).calls \in Seq(Calls),
         \A n \in 1..Len(t) : t[n] = ResultOf(LastOf(s).calls[n])
  PROVE  Whole(s \o t, b, Len(s \o t))
<1> DEFINE a == s \o t
<1>1. /\ Len(a) = Len(s) + Len(t) /\ Len(s) \in Nat \ {0} /\ Len(t) \in Nat
      /\ \A i \in 1..Len(s) : a[i] = s[i]
      /\ \A n \in 1..Len(t) : a[Len(s) + n] = t[n]
  <2>1. Len(s) \in Nat \ {0} /\ Len(t) \in Nat
    OBVIOUS
  <2> QED
    BY <2>1, Joined
<1> HIDE DEF a
<1>2. ASSUME NEW i \in b + 1..Len(a), IsReply(a[i]), NEW n \in 1..Len(a[i].calls)
      PROVE  i + n <= Len(a) /\ a[i + n] = ResultOf(a[i].calls[n])
  <2>1. CASE i \in 1..Len(s) - 1
    <3>1. a[i] = s[i] /\ i \in b + 1..Len(s) - 1
      BY <1>1, <2>1
    <3>2. i + n <= Len(s) - 1 /\ s[i + n] = ResultOf(s[i].calls[n])
      BY <1>2, <3>1 DEF Whole
    <3>3. i + n \in 1..Len(s)
      BY <1>1, <2>1, <3>2
    <3> QED
      BY <1>1, <3>1, <3>2, <3>3
  <2>2. CASE i = Len(s)
    <3>1. a[i] = LastOf(s)
      BY <1>1, <2>2 DEF LastOf
    <3>2. n \in 1..Len(t)
      BY <1>2, <3>1
    <3> QED
      BY <1>1, <2>2, <3>1, <3>2
  <2>3. CASE i > Len(s)
    <3>1. i - Len(s) \in 1..Len(t) /\ Len(s) + (i - Len(s)) = i
      BY <1>1, <2>3
    <3>2. a[i] = ResultOf(LastOf(s).calls[i - Len(s)])
      BY <1>1, <3>1
    <3> QED
      BY <1>2, <3>2 DEF ResultOf, IsReply
  <2> QED
    BY <1>1, <2>1, <2>2, <2>3
<1> QED
  BY <1>2 DEF Whole, a

LEMMA WholeLast ==
  ASSUME NEW s \in Seq(Message), s # <<>>, NEW b \in Nat, Whole(s, b, Len(s) - 1),
         IsReply(LastOf(s)) => LastOf(s).calls = <<>>
  PROVE  Whole(s, b, Len(s))
<1>1. Len(s) \in Nat \ {0}
  OBVIOUS
<1>2. ASSUME NEW i \in b + 1..Len(s), IsReply(s[i]), NEW n \in 1..Len(s[i].calls)
      PROVE  i + n <= Len(s) /\ s[i + n] = ResultOf(s[i].calls[n])
  <2>1. CASE i = Len(s)
    BY <1>2, <2>1 DEF LastOf
  <2>2. CASE i # Len(s)
    <3>1. i \in b + 1..Len(s) - 1
      BY <1>1, <2>2
    <3>2. i + n <= Len(s) - 1 /\ s[i + n] = ResultOf(s[i].calls[n])
      BY <1>2, <3>1 DEF Whole
    <3>3. Len(s[i].calls) \in Nat
      <4>1. i \in 1..Len(s) /\ s[i] \in Message
        BY <3>1
      <4>2. s[i].calls \in Seq(Calls)
        BY <1>2, <4>1, Roles, Kinds
      <4> QED
        BY <4>2
    <3> QED
      BY <1>1, <3>1, <3>2, <3>3
  <2> QED
    BY <2>1, <2>2
<1> QED
  BY <1>2 DEF Whole

LEMMA WholeMessage ==
  ASSUME NEW s \in Seq(Message), NEW b \in Nat, NEW m \in Message, Whole(s, b, Len(s)),
         IsReply(m) => m.calls = <<>>
  PROVE  Whole(Append(s, m), b, Len(Append(s, m)))
<1>1. Whole(Append(s, m), b, Len(Append(s, m)) - 1)
  BY WholeBefore, Appended
<1>2. Append(s, m) \in Seq(Message) /\ Append(s, m) # <<>> /\ LastOf(Append(s, m)) = m
  BY AppendLast
<1> QED
  BY <1>1, <1>2, WholeLast

-----------------------------------------------------------------------------
(* A batch of calls and its results. *)
Unanswered == {"partial_start", "update", "provider_more", "final_start", "assistant_end"}
Batch == {"tool_start", "immediate_end", "tool_wait", "result_start", "result_end"}
Between ==
  {"agent_start", "first_turn_start", "prompt_start", "prompt_end", "turn_start",
   "inject_start", "inject_end", "provider", "turn_end"}

(* While a batch is executed the context ends with the reply that asked for it, its
   results are in the order of its calls, and a parallel batch that nobody aborted is
   waited for when all of its calls were started. *)
BatchFits ==
  pc \in Batch =>
    /\ ctx # <<>> /\ LastOf(ctx) \in Assistant /\ LastOf(ctx).calls = batch
    /\ mode \in {"sequential", "parallel"}
    /\ \A n \in 1..Len(results) : results[n] = ResultOf(batch[n])
    /\ pc \in {"tool_wait", "result_start", "result_end"} /\ mode = "parallel" /\ ~aborted =>
         started = Len(batch)

(* Until it is aborted, what the run added to its context is whole, but for the reply
   that streams or whose calls are executed. *)
RequestFits ==
  ~aborted =>
    /\ pc \in Between => Whole(ctx, base, Len(ctx))
    /\ pc \in Unanswered \cup Batch => Whole(ctx, base, Len(ctx) - 1)

TranscriptInv == BatchFits /\ RequestFits /\ ResultsFollowCalls

-----------------------------------------------------------------------------
\* What the steps in which the run is not in a batch, and does not enter one, do.
Elsewhere ==
  \/ Prompt \/ ContinueQueued \/ Continue
  \/ AfterAgentStart \/ AfterFirstTurnStart \/ AfterPromptStart \/ AfterPromptEnd
  \/ AfterTurnStart \/ AfterInjectStart \/ AfterInjectEnd
  \/ ProviderStart \/ AfterPartial \/ ProviderDelta \/ ProviderEnds \/ AfterFinalStart
  \/ AfterTurnEnd \/ AfterFailTurnEnd \/ AfterAgentEnd
  \/ ProviderRaises \/ ListenerRaises \/ FailureListenerRaises
  \/ AfterFailureStart \/ AfterFailureEnd \/ AfterFailureTurnEnd

\* What other code and the tools do beside the run.
BatchBeside ==
  \/ Steer \/ FollowUp \/ ClearQueues \/ Abort \/ Reset \/ UNCHANGED vars
  \/ \E c \in Calls : ToolUpdates(c) \/ ToolStep(c) \/ (ToolListenerRaises(c) /\ c \notin Elems(batch))

LEMMA ElsewhereLeaves == ASSUME Elsewhere PROVE pc' \notin Batch
<1> USE DEF Batch
<1>1. CASE Prompt \/ ContinueQueued \/ Continue
  BY <1>1 DEF Prompt, ContinueQueued, Continue, StartRun
<1>2. CASE AfterAgentStart \/ AfterFirstTurnStart \/ AfterPromptStart \/ AfterPromptEnd
           \/ AfterTurnStart \/ AfterInjectStart \/ AfterInjectEnd
  BY <1>2 DEF AfterAgentStart, AfterFirstTurnStart, AfterPromptStart, AfterPromptEnd,
     AfterTurnStart, AfterInjectStart, AfterInjectEnd, NextPrompt, EnterLoop, InjectOrStream
<1>3. CASE ProviderStart \/ AfterPartial \/ ProviderDelta \/ ProviderEnds \/ AfterFinalStart
  BY <1>3 DEF ProviderStart, AfterPartial, ProviderDelta, ProviderEnds, AfterFinalStart
<1>4. CASE AfterTurnEnd \/ AfterFailTurnEnd \/ AfterAgentEnd
  BY <1>4 DEF AfterTurnEnd, AfterFailTurnEnd, AfterAgentEnd, FinishRun
<1>5. CASE ProviderRaises \/ ListenerRaises \/ FailureListenerRaises
  BY <1>5 DEF ProviderRaises, ListenerRaises, FailureListenerRaises, RunFails, FinishRun
<1>6. CASE AfterFailureStart \/ AfterFailureEnd \/ AfterFailureTurnEnd
  BY <1>6 DEF AfterFailureStart, AfterFailureEnd, AfterFailureTurnEnd
<1> QED
  BY <1>1, <1>2, <1>3, <1>4, <1>5, <1>6 DEF Elsewhere

LEMMA BesideLeaves ==
  ASSUME TypeOK, BatchBeside
  PROVE  /\ UNCHANGED <<pc, ctx, batch, mode, started, results, base>>
         /\ ~aborted' => ~aborted
<1> USE DEF TypeOK, FlagsOK
<1>1. CASE Steer \/ FollowUp \/ ClearQueues \/ Abort \/ Reset \/ UNCHANGED vars
  BY <1>1 DEF Steer, FollowUp, ClearQueues, Abort, Reset, batchVars, runVars, vars
<1>2. ASSUME NEW c \in Calls, ToolUpdates(c) \/ ToolStep(c)
      PROVE  UNCHANGED <<pc, ctx, batch, mode, started, results, base, aborted>>
  BY <1>2 DEF ToolUpdates, ToolStep, ToolEnds, ToolEndHandled, batchVars, runVars
<1>3. ASSUME NEW c \in Calls, ToolListenerRaises(c), c \notin Elems(batch)
      PROVE  UNCHANGED <<pc, ctx, batch, mode, started, results, base, aborted>>
  BY <1>3 DEF ToolListenerRaises, batchVars, runVars
<1> QED
  BY <1>1, <1>2, <1>3 DEF BatchBeside

(* The batch's own steps; the exception of one of its tools ends it. *)
LEMMA AllSteps ==
  ASSUME [Next]_vars
  PROVE  \/ Elsewhere \/ BatchBeside \/ AfterAssistantEnd \/ PrepareImmediate \/ PrepareOk
         \/ AfterImmediateEnd \/ AfterTools \/ AfterResultStart \/ AfterResultEnd
         \/ \E c \in Calls : ToolListenerRaises(c) /\ c \in Elems(batch)
  BY DEF Next, LoopStep, Prepare, ClientStep, Failing, Elsewhere, BatchBeside

LEMMA ToolFails ==
  ASSUME NEW c \in Calls, ToolListenerRaises(c), c \in Elems(batch)
  PROVE  RunFails
  BY DEF ToolListenerRaises

\* One more result is still in order.
LEMMA AnsweredOrder ==
  ASSUME CountersOK, ToolsOK, LocalsFit, BatchFits, pc = "result_end"
  PROVE  \A n \in 1..Len(Answered) : Answered[n] = ResultOf(batch[n])
<1>1. /\ Answered \in Seq(ToolResult) /\ Len(Answered) = Len(results) + 1
      /\ results \in Seq(ToolResult) /\ ResultOf(batch[Len(results) + 1]) \in ToolResult
  BY AnsweredTypes DEF ToolsOK
<1>2. \A n \in 1..Len(results) : Answered[n] = results[n]
  BY <1>1, AppendProperties DEF Answered
<1>3. Answered[Len(results) + 1] = ResultOf(batch[Len(results) + 1])
  BY <1>1, AppendProperties DEF Answered
<1>4. \A n \in 1..Len(results) : results[n] = ResultOf(batch[n])
  BY DEF BatchFits, Batch
<1> QED
  BY <1>1, <1>2, <1>3, <1>4

LEMMA BatchNext ==
  ASSUME TypeOK, LocalsFit, BatchFits, [Next]_vars
  PROVE  BatchFits'
<1> USE DEF TypeOK
<1>1. CASE Elsewhere
  BY <1>1, ElsewhereLeaves DEF BatchFits
<1>2. CASE BatchBeside
  BY <1>2, BesideLeaves DEF BatchFits
<1>3. CASE \E c \in Calls : ToolListenerRaises(c) /\ c \in Elems(batch)
  BY <1>3, ToolFails DEF RunFails, BatchFits, Batch
<1>4. CASE AfterAssistantEnd
  <2>1. ctx # <<>> /\ LastOf(ctx) \in Assistant /\ ctx' = ctx /\ results' = <<>>
    BY <1>4 DEF AfterAssistantEnd, LocalsFit
  <2>2. CASE pc' \notin Batch
    BY <2>2 DEF BatchFits
  <2>3. CASE pc' \in Batch
    <3>1. batch' = LastOf(ctx).calls /\ mode' \in Modes /\ pc' = "tool_start"
      BY <1>4, <2>3 DEF AfterAssistantEnd, ToolStart, Batch
    <3>2. mode' \in {"sequential", "parallel"}
      BY <3>1, ModesAssumption
    <3> QED
      BY <2>1, <3>1, <3>2 DEF BatchFits
  <2> QED
    BY <2>2, <2>3
<1>5. CASE PrepareImmediate
  BY <1>5 DEF PrepareImmediate, BatchFits, Batch, batchVars
<1>6. CASE PrepareOk \/ AfterImmediateEnd
  <2>1. /\ UNCHANGED <<ctx, batch, mode, results, aborted>> /\ pc \in Batch
        /\ started \in 0..Len(batch) /\ Len(batch) \in Nat
    BY <1>6 DEF PrepareOk, AfterImmediateEnd, Batch, CountersOK, ToolsOK
  <2>2. pc' \in {"tool_wait", "result_start", "result_end"} /\ mode = "parallel" /\ ~aborted =>
          started' = started /\ started >= Len(batch)
    <3>1. ASSUME NEW t, mode = "parallel", ~aborted, StartNextOrLaunch(t)
          PROVE  pc' = "tool_start" \/ (started' = started /\ started >= Len(batch))
      BY <2>1, <3>1 DEF StartNextOrLaunch, ToolStart
    <3>2. mode = "parallel" => \E t : StartNextOrLaunch(t)
      BY <1>6 DEF PrepareOk, AfterImmediateEnd
    <3> QED
      BY <3>1, <3>2
  <2>3. pc' \in {"tool_wait", "result_start", "result_end"} /\ mode = "parallel" /\ ~aborted =>
          started' = Len(batch)
    BY <2>1, <2>2
  <2> QED
    BY <2>1, <2>3 DEF BatchFits
<1>7. CASE AfterTools
  BY <1>7 DEF AfterTools, EmitResult, BatchFits, Batch, batchVars
<1>8. CASE AfterResultStart
  BY <1>8 DEF AfterResultStart, BatchFits, Batch, batchVars
<1>9. CASE AfterResultEnd
  <2>1. CASE pc' \notin Batch
    BY <2>1 DEF BatchFits
  <2>2. CASE pc' \in Batch
    <3>1. /\ results' = Answered /\ UNCHANGED <<ctx, batch, mode, aborted>> /\ pc = "result_end"
      BY <1>9, <2>2 DEF AfterResultEnd, Batch
    <3>3. \A n \in 1..Len(Answered) : Answered[n] = ResultOf(batch[n])
      BY <3>1, AnsweredOrder
    <3>4. (pc' = "result_start" /\ UNCHANGED started) \/ pc' = "tool_start"
      BY <1>9, <2>2 DEF AfterResultEnd, ToolStart, Batch
    <3> QED
      BY <3>1, <3>3, <3>4 DEF BatchFits, Batch
  <2> QED
    BY <2>1, <2>2
<1> QED
  BY <1>1, <1>2, <1>3, <1>4, <1>5, <1>6, <1>7, <1>8, <1>9, AllSteps

-----------------------------------------------------------------------------
(* How the transcript grows. *)
LEMMA MessageIsNew ==
  ASSUME TypeOK, LocalsFit, [Next]_vars
  PROVE  \/ msgs' = msgs \/ msgs' = <<>>
         \/ \E m \in UserMessage \cup Assistant : msgs' = Append(msgs, m)
         \/ pc = "result_start" /\ msgs' = Append(msgs, ResultOf(batch[Len(results) + 1]))
<1> USE DEF TypeOK, LoopOK
<1>1. CASE Prompt \/ ContinueQueued \/ Continue
  BY <1>1 DEF Prompt, ContinueQueued, Continue, StartRun
<1>2. CASE AfterPromptStart
  <2>1. Head(prompts) \in UserMessage
    BY <1>2 DEF AfterPromptStart, LocalsFit
  <2> QED
    BY <1>2, <2>1 DEF AfterPromptStart, MessageEnd
<1>3. CASE AfterInjectStart
  <2>1. Head(pending) \in UserMessage
    BY <1>3 DEF AfterInjectStart, LocalsFit
  <2> QED
    BY <1>3, <2>1 DEF AfterInjectStart, MessageEnd
<1>4. CASE AfterAgentStart \/ AfterFirstTurnStart \/ AfterPromptEnd \/ AfterTurnStart
           \/ AfterInjectEnd \/ AfterTurnEnd \/ AfterFailTurnEnd
  BY <1>4 DEF AfterAgentStart, AfterFirstTurnStart, AfterPromptEnd, AfterTurnStart, AfterInjectEnd,
     AfterTurnEnd, AfterFailTurnEnd, NextPrompt, EnterLoop, InjectOrStream, MessageStart, agentState
<1>5. CASE ProviderEnds
  BY <1>5, FinalTypes DEF MessageStart, MessageEnd
<1>6. CASE AfterFinalStart
  BY <1>6 DEF AfterFinalStart, MessageEnd, LocalsFit
<1>7. CASE ProviderStart \/ AfterPartial \/ ProviderDelta
  BY <1>7 DEF ProviderStart, AfterPartial, ProviderDelta, MessageStart, agentState
<1>8. CASE AfterAgentEnd \/ FailureListenerRaises
  BY <1>8 DEF AfterAgentEnd, FailureListenerRaises, FinishRun
<1>9. CASE ProviderRaises \/ ListenerRaises
  BY <1>9 DEF ProviderRaises, ListenerRaises, RunFails
<1>10. CASE AfterFailureStart
  BY <1>10 DEF AfterFailureStart, MessageEnd, LocalsFit
<1>11. CASE AfterFailureEnd \/ AfterFailureTurnEnd
  BY <1>11 DEF AfterFailureEnd, AfterFailureTurnEnd, agentState
<1>12. CASE BatchBeside
  <2>1. CASE Steer \/ FollowUp \/ ClearQueues \/ Abort \/ Reset \/ UNCHANGED vars
    BY <2>1 DEF Steer, FollowUp, ClearQueues, Abort, Reset, agentState, vars
  <2>2. ASSUME NEW c \in Calls, ToolUpdates(c) \/ ToolStep(c)
        PROVE  msgs' = msgs
    BY <2>2 DEF ToolUpdates, ToolStep, ToolEnds, ToolEndHandled, agentState
  <2>3. ASSUME NEW c \in Calls, ToolListenerRaises(c), c \notin Elems(batch)
        PROVE  msgs' = msgs
    BY <2>3 DEF ToolListenerRaises, agentState
  <2> QED
    BY <1>12, <2>1, <2>2, <2>3 DEF BatchBeside
<1>13. CASE \E c \in Calls : ToolListenerRaises(c) /\ c \in Elems(batch)
  BY <1>13, ToolFails DEF RunFails
<1>14. CASE AfterAssistantEnd \/ PrepareImmediate \/ PrepareOk \/ AfterImmediateEnd \/ AfterTools
            \/ AfterResultEnd
  BY <1>14 DEF AfterAssistantEnd, PrepareImmediate, PrepareOk, AfterImmediateEnd, AfterTools,
     AfterResultEnd, StartNextOrLaunch, ToolStart, EmitResult, MessageStart, agentState
<1>15. CASE AfterResultStart
  BY <1>15 DEF AfterResultStart, MessageEnd
<1> QED
  BY <1>1, <1>2, <1>3, <1>4, <1>5, <1>6, <1>7, <1>8, <1>9, <1>10, <1>11, <1>12, <1>13, <1>14,
     <1>15, AllSteps DEF Elsewhere

LEMMA FollowsNext ==
  ASSUME TypeOK, LocalsFit, BatchFits, ContextMirrorsTranscript, ResultsFollowCalls, [Next]_vars
  PROVE  ResultsFollowCalls'
<1> USE DEF TypeOK
<1>1. CASE msgs' = <<>>
  BY <1>1 DEF ResultsFollowCalls
<1>2. CASE ~intact'
  BY <1>2 DEF ResultsFollowCalls
<1>3. CASE intact' /\ msgs' # <<>>
  <2>1. ~Reset
    BY <1>3 DEF Reset
  <2>2. intact /\ InCallOrder(msgs) /\ Mirrored
    BY <1>3, <2>1, IntactKept DEF ResultsFollowCalls, InCallOrder, ContextMirrorsTranscript
  <2>3. InCallOrder(msgs')
    <3>1. CASE msgs' = msgs
      BY <2>2, <3>1
    <3>2. CASE \E m \in UserMessage \cup Assistant : msgs' = Append(msgs, m)
      BY <2>2, <3>2, FollowsMessage DEF AgentStateOK
    <3>3. CASE pc = "result_start" /\ msgs' = Append(msgs, ResultOf(batch[Len(results) + 1]))
      <4>1. /\ msgs = ctx \o results /\ ctx \in Seq(Message) /\ ctx # <<>>
            /\ results \in Seq(ToolResult) /\ batch \in Seq(Calls)
            /\ LastOf(ctx) \in Assistant /\ LastOf(ctx).calls = batch
            /\ \A n \in 1..Len(results) : results[n] = ResultOf(batch[n])
        BY <2>2, <3>3 DEF Mirrored, LoopOK, ToolsOK, BatchFits, Batch
      <4>2. Len(results) < Len(batch) /\ IsReply(LastOf(ctx))
        BY <3>3, <4>1, Roles DEF LocalsFit, CountersOK
      <4> QED
        BY <2>2, <3>3, <4>1, <4>2, FollowsResult
    <3> QED
      BY <1>3, <3>1, <3>2, <3>3, MessageIsNew
  <2> QED
    BY <2>3 DEF ResultsFollowCalls, InCallOrder
<1> QED
  BY <1>1, <1>2, <1>3

-----------------------------------------------------------------------------
(* The request stays whole. *)
LEMMA InjectGoes ==
  ASSUME NEW p, InjectOrStream(p)
  PROVE  pc' \in {"inject_start", "provider"}
  BY DEF InjectOrStream

LEMMA PromptGoes ==
  ASSUME NEW rest, NextPrompt(rest)
  PROVE  pc' \in {"prompt_start", "inject_start", "provider"}
  BY InjectGoes DEF NextPrompt, EnterLoop

LEMMA StartRequest ==
  ASSUME TypeOK, Prompt \/ ContinueQueued \/ Continue
  PROVE  RequestFits'
<1>1. PICK ps \in Seq(UserMessage), b \in BOOLEAN : StartRun(ps, b)
  <2>1. CASE Prompt
    BY <2>1, PromptStarts DEF TypeOK
  <2>2. CASE ContinueQueued
    BY <2>2, DrainType DEF ContinueQueued, TypeOK, QueuesOK
  <2>3. CASE Continue
    BY <2>3, EmptySeq DEF Continue
  <2> QED
    BY <2>1, <2>2, <2>3
<1>2. ctx' = msgs \o ps /\ base' = Len(msgs) /\ pc' = "agent_start" /\ msgs \in Seq(Message)
  BY <1>1 DEF StartRun, TypeOK, AgentStateOK
<1>3. Whole(ctx', base', Len(ctx'))
  BY <1>2, WholeStart
<1> QED
  BY <1>2, <1>3 DEF RequestFits, Unanswered, Batch

LEMMA RequestNext ==
  ASSUME TypeOK, LocalsFit, BatchFits, RequestFits, [Next]_vars
  PROVE  RequestFits'
<1> USE DEF TypeOK, LoopOK
<1>a. ctx \in Seq(Message) /\ base \in Nat
  BY DEF CountersOK
<1>b. ASSUME ~aborted, pc \in Between PROVE Whole(ctx, base, Len(ctx))
  BY <1>b DEF RequestFits
<1>c. ASSUME ~aborted, pc \in Unanswered \cup Batch PROVE Whole(ctx, base, Len(ctx) - 1)
  BY <1>c DEF RequestFits
<1>d. CASE pc' \notin Between \cup Unanswered \cup Batch
  BY <1>d DEF RequestFits
<1>e. CASE aborted'
  BY <1>e DEF RequestFits
<1>1. CASE Prompt \/ ContinueQueued \/ Continue
  BY <1>1, StartRequest
<1>2. CASE AfterAgentStart \/ AfterPromptStart \/ AfterInjectStart \/ AfterTurnEnd
  BY <1>2, <1>b DEF AfterAgentStart, AfterPromptStart, AfterInjectStart, AfterTurnEnd,
     RequestFits, Between, Unanswered, Batch, runVars
<1>3. CASE AfterFirstTurnStart \/ AfterPromptEnd
  <2>1. pc' \in {"prompt_start", "inject_start", "provider"}
    BY <1>3, PromptGoes DEF AfterFirstTurnStart, AfterPromptEnd
  <2> QED
    BY <1>3, <1>b, <2>1 DEF AfterFirstTurnStart, AfterPromptEnd, RequestFits, Between,
       Unanswered, Batch
<1>4. CASE AfterTurnStart
  <2>1. pc' \in {"inject_start", "provider"}
    BY <1>4, InjectGoes DEF AfterTurnStart
  <2> QED
    BY <1>4, <1>b, <2>1 DEF AfterTurnStart, RequestFits, Between, Unanswered, Batch, runVars
<1>5. CASE AfterInjectEnd
  <2>1. /\ pc' \in {"inject_start", "provider"} /\ pc \in Between
        /\ ctx' = Append(ctx, Head(pending)) /\ UNCHANGED <<aborted, base>>
    BY <1>5, InjectGoes DEF AfterInjectEnd, runVars, Between
  <2>2. Head(pending) \in UserMessage
    BY <1>5 DEF AfterInjectEnd, LocalsFit
  <2>3. Head(pending) \in Message /\ ~IsReply(Head(pending))
    BY <2>2, Kinds, Roles
  <2>4. ~aborted => Whole(ctx', base, Len(ctx'))
    BY <1>a, <1>b, <2>1, <2>3, WholeMessage
  <2> QED
    BY <2>1, <2>4 DEF RequestFits, Between, Unanswered, Batch
<1>6. CASE ProviderStart
  <2>1. /\ ctx' = Append(ctx, Partial) /\ UNCHANGED <<aborted, base>> /\ pc' = "partial_start"
        /\ pc \in Between /\ Partial \in Message
    BY <1>6, Kinds DEF ProviderStart, runVars, Between
  <2>2. ~aborted => Whole(ctx', base, Len(ctx') - 1)
    BY <1>a, <1>b, <2>1, WholeBefore, Appended
  <2> QED
    BY <2>1, <2>2 DEF RequestFits, Between, Unanswered, Batch
<1>7. CASE AfterPartial \/ AfterFinalStart
  BY <1>7, <1>c DEF AfterPartial, AfterFinalStart, RequestFits, Between, Unanswered, Batch, runVars
<1>8. CASE ProviderDelta
  <2>1. /\ ctx' = ReplaceLast(ctx, Partial) /\ UNCHANGED <<aborted, base>> /\ pc' = "update"
        /\ pc \in Unanswered /\ Partial \in Message /\ ctx # <<>>
    BY <1>8, Kinds DEF ProviderDelta, runVars, Unanswered, LocalsFit
  <2>2. ~aborted => Whole(ctx', base, Len(ctx') - 1)
    BY <1>a, <1>c, <2>1, WholeReplace
  <2> QED
    BY <2>1, <2>2 DEF RequestFits, Between, Unanswered, Batch
<1>9. CASE ProviderEnds
  <2>1. PICK final \in Assistant :
          \/ /\ pc = "provider_more" /\ pc' = "assistant_end"
             /\ ctx' = ReplaceLast(ctx, final) /\ MessageEnd(final)
          \/ /\ pc = "provider" /\ pc' = "final_start"
             /\ ctx' = Append(ctx, final) /\ MessageStart(final)
    BY <1>9, FinalTypes
  <2>2. final \in Message /\ UNCHANGED <<aborted, base>>
    BY <1>9, Kinds DEF ProviderEnds, runVars
  <2>3. ~aborted => Whole(ctx', base, Len(ctx') - 1)
    <3>1. CASE pc = "provider_more"
      <4>1. ctx' = ReplaceLast(ctx, final) /\ ctx # <<>> /\ pc \in Unanswered
        BY <2>1, <3>1 DEF LocalsFit, Unanswered
      <4> QED
        BY <1>a, <1>c, <2>2, <4>1, WholeReplace
    <3>2. CASE pc = "provider"
      <4>1. ctx' = Append(ctx, final) /\ pc \in Between
        BY <2>1, <3>2 DEF Between
      <4> QED
        BY <1>a, <1>b, <2>2, <4>1, WholeBefore, Appended
    <3> QED
      BY <2>1, <3>1, <3>2
  <2> QED
    BY <2>1, <2>2, <2>3 DEF RequestFits, Between, Unanswered, Batch
<1>10. CASE AfterAssistantEnd
  <2>1. /\ ctx # <<>> /\ LastOf(ctx) \in Assistant /\ pc \in Unanswered
        /\ UNCHANGED <<ctx, aborted, base>>
    BY <1>10 DEF AfterAssistantEnd, LocalsFit, runVars, Unanswered
  <2>2. \/ pc' = "fail_turn_end"
        \/ pc' = "turn_end" /\ LastOf(ctx).calls = <<>>
        \/ pc' = "tool_start"
    BY <1>10 DEF AfterAssistantEnd, ToolStart
  <2>3. ~aborted /\ LastOf(ctx).calls = <<>> => Whole(ctx, base, Len(ctx))
    BY <1>a, <1>c, <2>1, WholeLast
  <2> QED
    BY <1>c, <2>1, <2>2, <2>3 DEF RequestFits, Between, Unanswered, Batch
<1>11. CASE PrepareImmediate \/ PrepareOk \/ AfterImmediateEnd \/ AfterTools \/ AfterResultStart
  <2>1. pc \in Batch /\ pc' \in Batch /\ UNCHANGED <<ctx, aborted, base>>
    BY <1>11 DEF PrepareImmediate, PrepareOk, AfterImmediateEnd, AfterTools, AfterResultStart,
       StartNextOrLaunch, ToolStart, EmitResult, runVars, Batch
  <2> QED
    BY <1>c, <2>1 DEF RequestFits, Between, Unanswered, Batch
<1>12. CASE AfterResultEnd
  <2>1. pc = "result_end" /\ UNCHANGED <<aborted, base>>
    BY <1>12 DEF AfterResultEnd, runVars
  <2>2. CASE pc' # "turn_end"
    <3>1. pc' \in Batch /\ ctx' = ctx
      BY <1>12, <2>2 DEF AfterResultEnd, ToolStart, Batch
    <3> QED
      BY <1>c, <2>1, <3>1 DEF RequestFits, Between, Unanswered, Batch
  <2>3. CASE pc' = "turn_end"
    <3>1. ctx' = ctx \o Answered /\ Len(Answered) = started /\ ~MoreCalls
      BY <1>12, <2>3 DEF AfterResultEnd, ToolStart
    <3>2. Answered \in Seq(ToolResult)
      BY <2>1, AnsweredTypes
    <3>3. /\ ctx # <<>> /\ LastOf(ctx) \in Assistant /\ LastOf(ctx).calls = batch
          /\ mode \in {"sequential", "parallel"}
          /\ mode = "parallel" /\ ~aborted => started = Len(batch)
      BY <2>1 DEF BatchFits, Batch
    <3>4. batch \in Seq(Calls) /\ started \in 0..Len(batch) /\ Len(batch) \in Nat
      BY DEF ToolsOK, CountersOK
    <3>5. ~aborted => Len(Answered) = Len(batch)
      BY <3>1, <3>3, <3>4 DEF MoreCalls
    <3>6. \A n \in 1..Len(Answered) : Answered[n] = ResultOf(batch[n])
      BY <2>1, AnsweredOrder
    <3>7. Answered \in Seq(Message)
      BY <3>2, WiderSeq
    <3>8. ~aborted => Whole(ctx', base, Len(ctx'))
      <4>1. ~aborted => Whole(ctx, base, Len(ctx) - 1)
        BY <1>c, <2>1 DEF Batch
      <4> HIDE DEF TypeOK, LoopOK
      <4> QED
        BY <1>a, <3>1, <3>3, <3>4, <3>5, <3>6, <3>7, <4>1, WholeAnswered
    <3> QED
      BY <2>1, <2>3, <3>8 DEF RequestFits, Between, Unanswered, Batch
  <2> QED
    BY <2>2, <2>3
<1>13. CASE BatchBeside
  <2>1. UNCHANGED <<pc, ctx, base>> /\ (~aborted' => ~aborted)
    BY <1>13, BesideLeaves
  <2> QED
    BY <2>1 DEF RequestFits
<1>14. CASE AfterFailTurnEnd \/ AfterAgentEnd \/ FailureListenerRaises \/ AfterFailureStart
            \/ AfterFailureEnd \/ AfterFailureTurnEnd
  BY <1>14, <1>d DEF AfterFailTurnEnd, AfterAgentEnd, FailureListenerRaises, AfterFailureStart,
     AfterFailureEnd, AfterFailureTurnEnd, FinishRun, Between, Unanswered, Batch
<1>15. CASE ProviderRaises \/ ListenerRaises \/ \E c \in Calls : ToolListenerRaises(c) /\ c \in Elems(batch)
  <2>1. RunFails
    BY <1>15, ToolFails DEF ProviderRaises, ListenerRaises
  <2> QED
    BY <1>d, <2>1 DEF RunFails, Between, Unanswered, Batch
<1> QED
  BY <1>1, <1>2, <1>3, <1>4, <1>5, <1>6, <1>7, <1>8, <1>9, <1>10, <1>11, <1>12, <1>13, <1>14,
     <1>15, AllSteps DEF Elsewhere

-----------------------------------------------------------------------------
LEMMA TranscriptInit == Init => BatchFits /\ RequestFits /\ ResultsFollowCalls
  BY DEF Init, BatchFits, RequestFits, ResultsFollowCalls, Between, Unanswered, Batch

LEMMA TranscriptNext ==
  TypeOK /\ LocalsFit /\ ContextMirrorsTranscript /\ TranscriptInv /\ [Next]_vars => TranscriptInv'
  BY BatchNext, RequestNext, FollowsNext DEF TranscriptInv

(* The results in the transcript answer the calls of the reply before them in source
   order, whatever order parallel tools finish in, and stand nowhere else. *)
THEOREM ResultsAreOrdered == Spec => []ResultsFollowCalls
<1>1. TranscriptInv => ResultsFollowCalls
  BY DEF TranscriptInv
<1>2. Init => TranscriptInv
  BY TranscriptInit DEF TranscriptInv
<1> QED
  BY <1>1, <1>2, TranscriptNext, TypeCorrect, ContextIsTranscript, PTL DEF Spec

(* Unless the run was aborted, every call it made has its result when the provider
   is asked again. *)
THEOREM CallsAreAnswered == Spec => []CallsAnsweredBeforeRequest
<1>1. TypeOK /\ TranscriptInv => CallsAnsweredBeforeRequest
  <2> SUFFICES ASSUME TranscriptInv, pc = "provider", ~aborted
               PROVE  CallsAnsweredBeforeRequest
    BY DEF CallsAnsweredBeforeRequest
  <2>1. Whole(ctx, base, Len(ctx))
    BY DEF TranscriptInv, RequestFits, Between
  <2> QED
    BY <2>1 DEF Whole, CallsAnsweredBeforeRequest
<1>2. Init => TranscriptInv
  BY TranscriptInit DEF TranscriptInv
<1> QED
  BY <1>1, <1>2, TranscriptNext, TypeCorrect, ContextIsTranscript, PTL DEF Spec
=============================================================================
