---------------------------- MODULE AgentHarness ----------------------------
(***************************************************************************)
(* The harness around the agent loop: src/pi_mono/agent/harness/           *)
(* agent_harness.py, with run_agent_loop (agent/agent_loop.py) as its      *)
(* prompt() drives it: tools one after another, a context rebuilt from the *)
(* session after each turn.                                                *)
(*                                                                         *)
(* A run is suspended on listeners, a hook, the provider or a tool; "at"   *)
(* names what.  Suspensions with no change of state between them are one.  *)
(* The repository's session storages never suspend (they write with plain  *)
(* file calls), so an append and a flush are one step.                     *)
(***************************************************************************)
EXTENDS Naturals, Sequences, Selections

CONSTANTS
  Modes,          \* [steer, followUp -> the drain modes the setters may have chosen]
  Overlapping,    \* clients start a run as soon as the phase is idle; otherwise they
                  \* wait for the previous prompt() to return
  MaxRuns, MaxMessages, MaxWrites, MaxTools, MaxOps, MaxRaises,   \* bounds
  MaxCalls       \* bound of what other code calls or causes, all together

Runs == 1..MaxRuns
QueueLanes == {"steer", "followUp", "nextTurn"}
Lanes == QueueLanes \cup {"prompt", "hook"}

ASSUME ModesAssumption ==
  Modes \in [{"steer", "followUp"} -> SUBSET {"all", "one-at-a-time"}]
ASSUME HarnessBounds ==
  /\ MaxRuns \in Nat /\ MaxMessages \in Nat /\ MaxWrites \in Nat /\ MaxTools \in Nat
  /\ MaxOps \in Nat /\ MaxRaises \in Nat /\ MaxCalls \in Nat /\ Overlapping \in BOOLEAN

VARIABLES
  phase,        \* "idle", "turn", "compaction" or "branch_summary"
  controller,   \* the run that set run_abort_controller, 0 for None
  promise,      \* the run whose future run_promise is, 0 for None
  writes,       \* pending_session_writes
  queue,        \* steer_queue, follow_up_queue, next_turn_queue
  log,          \* the session's entries, all on one branch
  at,           \* what each run is suspended on
  op,           \* compact() or navigate_tree() in progress, or "none"
  todo,         \* the list of messages a run took to announce
  shared,       \* the queue that list is the same object as, or "none"
  pos, cur,     \* the loop over that list: how far it is, and the message in hand
  ctx,          \* the loop's current_context["messages"]
  more,         \* has_more_tool_calls
  waiter,       \* a client in abort() or wait_for_idle()
  counts        \* what was spent of the bounds

lists == <<todo, shared, pos, cur>>
runVars == <<at, lists, ctx, more>>
clientVars == <<op, waiter, counts>>
vars == <<phase, controller, promise, writes, queue, log, runVars, clientVars>>

User(n, lane) == [kind |-> "user", id |-> n, lane |-> lane]
Reply(stop) == [kind |-> "reply", stop |-> stop]
Result == [kind |-> "result"]
Write(n, kind) == [kind |-> kind, id |-> n]
WriteKinds == {"message", "setting"}

Users == [kind : {"user"}, id : Nat, lane : Lanes]
Writes == [kind : WriteKinds, id : Nat]
Entries == Users \cup [kind : {"reply"}, stop : {"stop", "toolUse", "error"}] \cup {Result} \cup Writes
(* build_context: the messages of the branch; settings are kept beside them. *)
Messages(entries) == Chosen(entries, {e \in Entries : e.kind # "setting"})

Setup == {"turn_state", "next_update", "before_start"}
Working ==
  {"prompt_start", "prompt_end", "turn_start", "inject_start", "inject_end", "provider",
   "replied", "tool", "resulted", "turn_end", "save_point", "prepare", "first_drain",
   "drain_steer", "drain_followUp", "fail_turn_end", "fail_save_point"}
HandlingFailure == {"hf_start", "hf_end", "hf_turn_end", "hf_save_point"}
Ending == {"agent_end", "hf_agent_end"}
Active(r) == at[r] \notin {"new", "done"}
None == [kind |-> "none"]
Nobody == [at |-> "none", on |-> 0, runs |-> {}]

Init ==
  /\ phase = "idle" /\ controller = 0 /\ promise = 0 /\ writes = <<>> /\ log = <<>>
  /\ queue = [l \in QueueLanes |-> <<>>]
  /\ at = [r \in Runs |-> "new"] /\ todo = [r \in Runs |-> <<>>]
  /\ pos = [r \in Runs |-> 0] /\ cur = [r \in Runs |-> None] /\ op = "none"
  /\ shared = [r \in Runs |-> "none"] /\ ctx = [r \in Runs |-> <<>>]
  /\ more = [r \in Runs |-> FALSE]
  /\ waiter = Nobody
  /\ counts = [messages |-> 0, writes |-> 0, tools |-> 0, ops |-> 0, raises |-> 0]

Calls ==
  counts.messages + counts.writes + counts.tools + counts.ops + counts.raises
  + IF waiter = Nobody THEN 0 ELSE 1
Spend(what, max) ==
  /\ counts[what] < max /\ Calls < MaxCalls
  /\ counts' = [counts EXCEPT ![what] = @ + 1]
Goto(r, pc) == at' = [at EXCEPT ![r] = pc]
NextId == counts.messages + 1

(* _flush_pending_session_writes: one step, since the session's append does not give
   way to other code in the storages there are (memory_storage.py). *)
Flush == log' = log \o writes /\ writes' = <<>>

-----------------------------------------------------------------------------
(* prompt(), skill() and prompt_from_template() are busy unless idle; then the phase
   and the promise are set. *)
Start(r) ==
  /\ phase = "idle" /\ at[r] = "new" /\ \A s \in Runs : s < r => at[s] # "new"
  /\ Overlapping \/ \A s \in Runs : ~Active(s)
  /\ phase' = "turn" /\ promise' = r

(* prompt(): the context is read from the session before the callback that makes the
   system prompt is awaited. *)
Prompt(r) ==
  /\ Start(r) /\ Spend("messages", MaxMessages) /\ Goto(r, "turn_state")
  /\ ctx' = [ctx EXCEPT ![r] = Messages(log)]
  /\ todo' = [todo EXCEPT ![r] = <<User(NextId, "prompt")>>]
  /\ UNCHANGED <<controller, writes, queue, log, shared, pos, cur, more, op, waiter>>

(* skill() and prompt_from_template() ask the turn state, a dict, for an attribute:
   they fail as soon as it is made. *)
Invoke(r) ==
  /\ Start(r) /\ Spend("ops", MaxOps) /\ Goto(r, "invoke")
  /\ UNCHANGED <<controller, writes, queue, log, lists, ctx, more, op, waiter>>

(* An exception before the loop runs: prompt()'s except and finally clauses. *)
Quit(r) == phase' = "idle" /\ promise' = 0 /\ Goto(r, "done")

AfterInvoke(r) ==
  /\ at[r] = "invoke" /\ Quit(r)
  /\ UNCHANGED <<controller, writes, queue, log, lists, ctx, more, clientVars>>

(* _execute_turn takes the messages queued for this turn, if any. *)
AfterTurnState(r) ==
  /\ at[r] = "turn_state"
  /\ IF queue["nextTurn"] # <<>>
     THEN /\ todo' = [todo EXCEPT ![r] = queue["nextTurn"] \o @]
          /\ queue' = [queue EXCEPT !["nextTurn"] = <<>>]
          /\ Goto(r, "next_update")
     ELSE Goto(r, "before_start") /\ UNCHANGED <<todo, queue>>
  /\ UNCHANGED <<phase, controller, promise, writes, log, shared, pos, cur, ctx, more,
                 clientVars>>

AfterNextUpdate(r) ==
  /\ at[r] = "next_update" /\ Goto(r, "before_start")
  /\ UNCHANGED <<phase, controller, promise, writes, queue, log, lists, ctx, more,
                 clientVars>>

\* The loop over a run's list goes on at position i, or the run leaves it for "pc".
List(r) == IF shared[r] = "none" THEN todo[r] ELSE queue[shared[r]]
Announce(r, i, start) ==
  /\ i <= Len(List(r)) /\ Goto(r, start)
  /\ pos' = [pos EXCEPT ![r] = i] /\ cur' = [cur EXCEPT ![r] = List(r)[i]]
NoList(r) ==
  /\ todo' = [todo EXCEPT ![r] = <<>>] /\ shared' = [shared EXCEPT ![r] = "none"]
  /\ pos' = [pos EXCEPT ![r] = 0] /\ cur' = [cur EXCEPT ![r] = None]

(* The before_agent_start hook may add a message; run_agent_loop begins with all of
   them in its context. *)
AfterBeforeStart(r) ==
  /\ at[r] = "before_start" /\ Goto(r, "prompt_start")
  /\ \/ UNCHANGED <<todo, counts>>
     \/ /\ Spend("messages", MaxMessages)
        /\ todo' = [todo EXCEPT ![r] = Append(@, User(NextId, "hook"))]
  /\ ctx' = [ctx EXCEPT ![r] = @ \o todo'[r]]
  /\ pos' = [pos EXCEPT ![r] = 1] /\ cur' = [cur EXCEPT ![r] = todo'[r][1]]
  /\ controller' = r
  /\ UNCHANGED <<phase, promise, writes, queue, log, shared, more, op, waiter>>

(* message_end: the session has the message before the listeners see it. *)
AfterPromptStart(r) ==
  /\ at[r] = "prompt_start" /\ Goto(r, "prompt_end") /\ log' = Append(log, cur[r])
  /\ UNCHANGED <<phase, controller, promise, writes, queue, lists, ctx, more,
                 clientVars>>

-----------------------------------------------------------------------------
(* _drain_queued_messages.  In mode "all" the messages are the queue itself: the
   slice assignment that empties the queue empties them too, and what is queued while
   the listeners of queue_update run is in both. *)
Take(r, lane, pc) ==
  /\ queue[lane] # <<>> /\ Goto(r, pc)
  /\ \E mode \in Modes[lane] :
       IF mode = "all"
       THEN /\ queue' = [queue EXCEPT ![lane] = <<>>]
            /\ shared' = [shared EXCEPT ![r] = lane] /\ todo' = [todo EXCEPT ![r] = <<>>]
       ELSE /\ queue' = [queue EXCEPT ![lane] = Tail(@)]
            /\ shared' = [shared EXCEPT ![r] = "none"]
            /\ todo' = [todo EXCEPT ![r] = <<Head(queue[lane])>>]
  /\ pos' = [pos EXCEPT ![r] = 0] /\ cur' = [cur EXCEPT ![r] = None]

(* Nothing is queued: no listener is called, but "all" still returns the queue. *)
TakeNothing(r, lane) ==
  /\ queue[lane] = <<>>
  /\ \E mode \in Modes[lane] :
       shared' = [shared EXCEPT ![r] = IF mode = "all" THEN lane ELSE "none"]
  /\ todo' = [todo EXCEPT ![r] = <<>>]
  /\ pos' = [pos EXCEPT ![r] = 0] /\ cur' = [cur EXCEPT ![r] = None]
  /\ UNCHANGED queue

(* agent_end: pending writes are stored, the phase is idle, then listeners run. *)
End(r) == Flush /\ phase' = "idle" /\ Goto(r, "agent_end")

(* The follow-up poll, and the end of the loop. *)
PollFollowUp(r) ==
  \/ Take(r, "followUp", "drain_followUp") /\ UNCHANGED <<phase, log, writes>>
  \/ TakeNothing(r, "followUp") /\ End(r)

(* The poll after a turn: more tool calls or steering start another turn. *)
PollSteer(r) ==
  \/ Take(r, "steer", "drain_steer") /\ UNCHANGED <<phase, log, writes>>
  \/ /\ more[r] /\ TakeNothing(r, "steer") /\ Goto(r, "turn_start")
     /\ UNCHANGED <<phase, log, writes>>
  \/ ~more[r] /\ queue["steer"] = <<>> /\ PollFollowUp(r)

(* After the prompts: run_loop's first poll, and its first turn. *)
AfterPromptEnd(r) ==
  /\ at[r] = "prompt_end"
  /\ \/ Announce(r, pos[r] + 1, "prompt_start") /\ UNCHANGED <<queue, todo, shared>>
     \/ pos[r] = Len(todo[r]) /\ Take(r, "steer", "first_drain")
     \/ pos[r] = Len(todo[r]) /\ TakeNothing(r, "steer") /\ Goto(r, "provider")
  /\ UNCHANGED <<phase, controller, promise, writes, log, ctx, more, clientVars>>

(* The head of the inner loop: announce the list, if it is not empty by now, or ask
   the provider. *)
AfterTurnStart(r) ==
  /\ at[r] \in {"turn_start", "first_drain"}
  /\ \/ Announce(r, 1, "inject_start") /\ UNCHANGED <<todo, shared>>
     \/ List(r) = <<>> /\ Goto(r, "provider") /\ UNCHANGED lists
  /\ UNCHANGED <<phase, controller, promise, writes, queue, log, ctx, more, clientVars>>

AfterInjectStart(r) ==
  /\ at[r] = "inject_start" /\ Goto(r, "inject_end") /\ log' = Append(log, cur[r])
  /\ UNCHANGED <<phase, controller, promise, writes, queue, lists, ctx, more,
                 clientVars>>

\* Mutant: an injected message is not added to the context.
Mut_AfterInjectEnd(r) ==
  /\ at[r] = "inject_end"
  /\ \/ Announce(r, pos[r] + 1, "inject_start") /\ UNCHANGED <<todo, shared>>
     \/ pos[r] >= Len(List(r)) /\ NoList(r) /\ Goto(r, "provider")
  /\ UNCHANGED <<phase, controller, promise, writes, queue, log, ctx, more, clientVars>>

AfterInjectEnd(r) ==
  /\ at[r] = "inject_end" /\ ctx' = [ctx EXCEPT ![r] = Append(@, cur[r])]
  /\ \/ Announce(r, pos[r] + 1, "inject_start") /\ UNCHANGED <<todo, shared>>
     \/ pos[r] >= Len(List(r)) /\ NoList(r) /\ Goto(r, "provider")
  /\ UNCHANGED <<phase, controller, promise, writes, queue, log, more, clientVars>>

(* The context and request hooks, the provider's stream, and message_end of its
   reply; an aborted stream ends as an error reply does. *)
Replies(r) ==
  /\ at[r] = "provider" /\ Goto(r, "replied")
  /\ \E stop \in {"stop", "toolUse", "error"} :
       /\ IF stop = "toolUse" THEN Spend("tools", MaxTools) ELSE UNCHANGED counts
       /\ log' = Append(log, Reply(stop)) /\ ctx' = [ctx EXCEPT ![r] = Append(@, Reply(stop))]
       /\ more' = [more EXCEPT ![r] = stop = "toolUse"]
  /\ UNCHANGED <<phase, controller, promise, writes, queue, lists, op, waiter>>

AfterReply(r) ==
  /\ at[r] = "replied"
  /\ Goto(r, CASE ctx[r][Len(ctx[r])].stop = "error" -> "fail_turn_end"
               [] ctx[r][Len(ctx[r])].stop = "toolUse" -> "tool"
               [] OTHER -> "turn_end")
  /\ UNCHANGED <<phase, controller, promise, writes, queue, log, lists, ctx, more,
                 clientVars>>

(* One call of the batch, or an error in its place, and message_end of its result.
   The tool may end the run (terminate). *)
ToolEnds(r) ==
  /\ at[r] = "tool" /\ Goto(r, "resulted") /\ log' = Append(log, Result)
  /\ \E terminate \in BOOLEAN : more' = [more EXCEPT ![r] = ~terminate]
  /\ UNCHANGED <<phase, controller, promise, writes, queue, lists, ctx, clientVars>>

AfterResult(r) ==
  /\ at[r] = "resulted" /\ Goto(r, "turn_end") /\ ctx' = [ctx EXCEPT ![r] = Append(@, Result)]
  /\ UNCHANGED <<phase, controller, promise, writes, queue, log, lists, more, clientVars>>

-----------------------------------------------------------------------------
(* _handle_agent_event on turn_end: after the listeners the pending writes are stored
   and the save point is announced. *)
SavePointOf(pc) ==
  CASE pc = "turn_end" -> "save_point"
    [] pc = "fail_turn_end" -> "fail_save_point"
    [] pc = "hf_turn_end" -> "hf_save_point"
AfterTurnEnd(r) ==
  /\ at[r] \in {"turn_end", "fail_turn_end", "hf_turn_end"}
  /\ Flush /\ Goto(r, SavePointOf(at[r]))
  /\ UNCHANGED <<phase, controller, promise, queue, lists, ctx, more, clientVars>>

(* prepare_next_turn: the next request starts from what the session has now. *)
AfterSavePoint(r) ==
  /\ at[r] = "save_point" /\ Goto(r, "prepare")
  /\ Flush /\ ctx' = [ctx EXCEPT ![r] = Messages(log')]
  /\ UNCHANGED <<phase, controller, promise, queue, lists, more, clientVars>>

AfterPrepare(r) ==
  /\ at[r] = "prepare" /\ PollSteer(r)
  /\ UNCHANGED <<controller, promise, ctx, more, clientVars>>

AfterDrain(r) ==
  /\ at[r] \in {"drain_steer", "drain_followUp"}
  /\ IF List(r) # <<>> \/ (at[r] = "drain_steer" /\ more[r])
     THEN Goto(r, "turn_start") /\ UNCHANGED <<phase, log, writes, queue, lists>>
     ELSE IF at[r] = "drain_steer" THEN PollFollowUp(r)
     ELSE End(r) /\ UNCHANGED <<queue, lists>>
  /\ UNCHANGED <<controller, promise, ctx, more, clientVars>>

AfterFailSavePoint(r) ==
  /\ at[r] = "fail_save_point" /\ End(r)
  /\ UNCHANGED <<controller, promise, queue, lists, ctx, more, clientVars>>

(* _execute_turn's and prompt()'s finally clauses; finish() sets run_promise to None,
   whoever's it is. *)
Settle(r) == Flush /\ controller' = 0 /\ promise' = 0 /\ Goto(r, "done")

AfterAgentEnd(r) ==
  /\ at[r] \in Ending /\ Settle(r) /\ NoList(r) /\ ctx' = [ctx EXCEPT ![r] = <<>>]
  /\ UNCHANGED <<phase, queue, more, clientVars>>

-----------------------------------------------------------------------------
(* An exception before the loop.  The messages of next_turn() are put back when the
   listeners of queue_update raise, and gone when the hook does. *)
SetupRaises(r) ==
  /\ at[r] \in Setup /\ Spend("raises", MaxRaises) /\ Quit(r) /\ NoList(r)
  /\ queue' = [queue EXCEPT !["nextTurn"] =
                 IF at[r] = "next_update" THEN SubSeq(todo[r], 1, Len(todo[r]) - 1) \o @ ELSE @]
  /\ ctx' = [ctx EXCEPT ![r] = <<>>]
  /\ UNCHANGED <<controller, writes, log, more, op, waiter>>

\* Mutant: the messages go back behind those queued in the meantime.
Mut_PutBack(r) ==
  CASE at[r] \in {"first_drain", "drain_steer"} ->
         queue' = [queue EXCEPT !["steer"] = @ \o List(r)]
    [] at[r] = "drain_followUp" -> queue' = [queue EXCEPT !["followUp"] = @ \o List(r)]
    [] OTHER -> UNCHANGED queue

(* What an exception does on its way out of the loop: messages being drained go back
   to the front of their queue, turn_end still stores the pending writes. *)
PutBack(r) ==
  CASE at[r] \in {"first_drain", "drain_steer"} ->
         queue' = [queue EXCEPT !["steer"] = List(r) \o @]
    [] at[r] = "drain_followUp" -> queue' = [queue EXCEPT !["followUp"] = List(r) \o @]
    [] OTHER -> UNCHANGED queue

(* A listener, a hook, the provider or a tool's listener raises: _emit_run_failure. *)
RunRaises(r) ==
  /\ at[r] \in Working \cup {"agent_end"} /\ Spend("raises", MaxRaises)
  /\ PutBack(r) /\ NoList(r) /\ Goto(r, "hf_start")
  /\ IF at[r] \in {"turn_end", "fail_turn_end"} THEN Flush ELSE UNCHANGED <<log, writes>>
  /\ UNCHANGED <<phase, controller, promise, ctx, more, op, waiter>>

AfterFailureStart(r) ==
  /\ at[r] = "hf_start" /\ Goto(r, "hf_end") /\ log' = Append(log, Reply("error"))
  /\ UNCHANGED <<phase, controller, promise, writes, queue, lists, ctx, more,
                 clientVars>>

AfterFailureEnd(r) ==
  /\ at[r] = "hf_end" /\ Goto(r, "hf_turn_end")
  /\ UNCHANGED <<phase, controller, promise, writes, queue, log, lists, ctx, more,
                 clientVars>>

AfterFailureSavePoint(r) ==
  /\ at[r] = "hf_save_point" /\ Flush /\ phase' = "idle" /\ Goto(r, "hf_agent_end")
  /\ UNCHANGED <<controller, promise, queue, lists, ctx, more, clientVars>>

(* Reporting the failure fails as well: the exception leaves prompt(). *)
FailureRaises(r) ==
  /\ at[r] \in HandlingFailure \cup {"hf_agent_end"} /\ Spend("raises", MaxRaises)
  /\ Settle(r) /\ phase' = "idle" /\ ctx' = [ctx EXCEPT ![r] = <<>>]
  /\ UNCHANGED <<queue, lists, more, op, waiter>>

-----------------------------------------------------------------------------
(* What other code calls at any suspension. *)
Queue(lane) ==
  /\ lane \in {"steer", "followUp"} => phase # "idle"
  /\ Spend("messages", MaxMessages)
  /\ queue' = [queue EXCEPT ![lane] = Append(@, User(NextId, lane))]
  /\ UNCHANGED <<phase, controller, promise, writes, log, runVars, op, waiter>>

(* append_message, set_model, set_thinking_level, set_tools, set_active_tools: into
   the session when idle, else after the running turn. *)
WriteEntry(kind) ==
  /\ Spend("writes", MaxWrites)
  /\ LET w == Write(counts.writes + 1, kind)
     IN IF phase = "idle"
        THEN log' = Append(log, w) /\ UNCHANGED writes
        ELSE writes' = Append(writes, w) /\ UNCHANGED log
  /\ UNCHANGED <<phase, controller, promise, queue, runVars, op, waiter>>

(* compact() and navigate_tree() hold the phase while they await.  As they are, both
   raise before they change the session: the one awaits what prepare_compaction
   returns, which is no coroutine; the other does not await get_entry. *)
BeginOp(name) ==
  /\ phase = "idle" /\ op = "none" /\ Spend("ops", MaxOps)
  /\ Overlapping \/ \A r \in Runs : ~Active(r)
  /\ phase' = name /\ op' = name
  /\ UNCHANGED <<controller, promise, writes, queue, log, runVars, waiter>>
EndOp ==
  /\ op # "none" /\ op' = "none" /\ phase' = "idle"
  /\ UNCHANGED <<controller, promise, writes, queue, log, runVars, waiter, counts>>

(* wait_for_idle() awaits the promise there is now. *)
WaitOnPromise(runs) ==
  waiter' = [at |-> IF promise = 0 THEN "returned" ELSE "waiting", on |-> promise, runs |-> runs]
ActiveRuns == {r \in Runs : Active(r)}

WaitForIdle ==
  /\ waiter = Nobody /\ Calls < MaxCalls /\ WaitOnPromise(ActiveRuns)
  /\ UNCHANGED <<phase, controller, promise, writes, queue, log, runVars, op, counts>>

(* abort(): clears two queues, fires the signal of the run that has a controller by
   now, and after the listeners of queue_update waits. *)
Abort ==
  /\ waiter = Nobody /\ Calls < MaxCalls
  /\ waiter' = [at |-> "update", on |-> 0, runs |-> ActiveRuns]
  /\ queue' = [queue EXCEPT !["steer"] = <<>>, !["followUp"] = <<>>]
  /\ UNCHANGED <<phase, controller, promise, writes, log, runVars, op, counts>>

\* Mutants: it waits for the phase instead; it misses a promise that is gone.
Mut_WaitForPhase ==
  /\ \/ waiter.at = "update" /\ WaitOnPromise(waiter.runs)
     \/ waiter.at = "waiting" /\ phase = "idle" /\ waiter' = [waiter EXCEPT !.at = "returned"]
  /\ UNCHANGED <<phase, controller, promise, writes, queue, log, runVars, op, counts>>
Mut_WaitMissed ==
  /\ \/ waiter.at = "update" /\ WaitOnPromise(waiter.runs)
     \/ waiter.at = "waiting" /\ promise = waiter.on /\ at[waiter.on] = "done"
        /\ waiter' = [waiter EXCEPT !.at = "returned"]
  /\ UNCHANGED <<phase, controller, promise, writes, queue, log, runVars, op, counts>>

WaitStep ==
  /\ \/ waiter.at = "update" /\ WaitOnPromise(waiter.runs)
     \/ waiter.at = "waiting" /\ at[waiter.on] = "done"
        /\ waiter' = [waiter EXCEPT !.at = "returned"]
  /\ UNCHANGED <<phase, controller, promise, writes, queue, log, runVars, op, counts>>

-----------------------------------------------------------------------------
RunStep(r) ==
  \/ AfterInvoke(r) \/ AfterTurnState(r) \/ AfterNextUpdate(r) \/ AfterBeforeStart(r)
  \/ AfterPromptStart(r) \/ AfterPromptEnd(r) \/ AfterTurnStart(r)
  \/ AfterInjectStart(r) \/ AfterInjectEnd(r) \/ Replies(r) \/ AfterReply(r)
  \/ ToolEnds(r) \/ AfterResult(r) \/ AfterTurnEnd(r) \/ AfterSavePoint(r)
  \/ AfterPrepare(r) \/ AfterDrain(r) \/ AfterFailSavePoint(r) \/ AfterAgentEnd(r)
  \/ AfterFailureStart(r) \/ AfterFailureEnd(r) \/ AfterFailureSavePoint(r)
RunStarts(r) == Prompt(r) \/ Invoke(r)
Raises(r) == SetupRaises(r) \/ RunRaises(r) \/ FailureRaises(r)
ClientStep ==
  \/ \E lane \in QueueLanes : Queue(lane)
  \/ \E kind \in WriteKinds : WriteEntry(kind)
  \/ \E name \in {"compaction", "branch_summary"} : BeginOp(name)
  \/ EndOp \/ WaitForIdle \/ Abort

Next ==
  \/ \E r \in Runs : RunStep(r) \/ RunStarts(r) \/ Raises(r)
  \/ ClientStep \/ WaitStep

Spec == Init /\ [][Next]_vars

(* Listeners, hooks and the provider return, and asyncio resumes who awaits them. *)
Fairness == WF_vars(WaitStep) /\ WF_vars(EndOp) /\ \A r \in Runs : WF_vars(RunStep(r))
FairSpec == Spec /\ Fairness
=============================================================================
