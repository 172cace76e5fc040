------------------------- MODULE HarnessProperties -------------------------
(* What the harness promises to its clients. *)
EXTENDS AgentHarness

(* The model is asked with the conversation the session keeps: messages reach the
   session in _handle_agent_event and the context in the loop, on opposite sides of
   the listeners, and writes of other code are stored between the turns. *)
RequestShowsSession ==
  \A r \in Runs : at[r] = "provider" => ctx[r] = Messages(log)

(* Every entry other code asked for is stored once or still pending, whatever raises
   between the request and the save point. *)
WritesStoredOnce ==
  LET own == Chosen(log \o writes, Writes)
  IN /\ Len(own) = counts.writes
     /\ \A i, j \in 1..Len(own) : i # j => own[i].id # own[j].id

(* What the provider is shown and what the session is to keep agree, and nothing is
   written twice or lost on the way. *)
SessionIsTrue == RequestShowsSession /\ WritesStoredOnce

(* When waitForIdle() or abort() returns, the runs that went on when it was called
   have settled, awaited listeners included. *)
WaitEndsAfterRuns ==
  waiter.at = "returned" => \A r \in waiter.runs : at[r] = "done"

(* abort() and waitForIdle() return. *)
WaitReturns == waiter.at \in {"update", "waiting"} ~> waiter.at = "returned"

-----------------------------------------------------------------------------
\* The refinement mapping.  A message in hand is delivered once it is in the session.
Numbers(s) == [i \in 1..Len(s) |-> s[i].id]
InHand(r) ==
  SubSeq(todo[r], IF at[r] \in {"prompt_end", "inject_end"} THEN pos[r] + 1
                  ELSE IF pos[r] = 0 THEN 1 ELSE pos[r], Len(todo[r]))
Current == IF ActiveRuns = {} THEN <<>> ELSE InHand(CHOOSE r \in Runs : Active(r))
UsersOf(lane) == {m \in Users : m.lane = lane}
Waits(inHand, queues) ==
  [lane \in Lanes |-> Numbers(Chosen(inHand, UsersOf(lane)))
                      \o IF lane \in QueueLanes THEN Numbers(queues[lane]) ELSE <<>>]

Delivery == INSTANCE MessageDelivery WITH
  accepted <- counts.messages,
  waiting <- Waits(Current, queue),
  delivered <- Numbers(Chosen(log, Users))

(* The harness implements the same MessageDelivery as Agent does, with its own
   queues: put back when listeners raise, cleared by abort(), or taken by a turn, a
   message reaches the session once and in the order of its lane. *)
ImplementsDelivery == Delivery!Spec
=============================================================================
