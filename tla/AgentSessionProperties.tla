----------------------- MODULE AgentSessionProperties -----------------------
(* What AgentSession promises to the modes that run it. *)
EXTENDS AgentSession

(* The conversation survives a reload: what build_session_context makes of the session
   is what the agent has, but for tool results, which the session never stores, and
   failed replies, which a retry takes back from the transcript only.  Messages are
   stored while bash commands, retries and moves change either side; only a move to
   another branch or session under a prompt can part them: the retry then takes back
   a reply of that branch. *)
Kept == {m \in Message : m.role # "toolResult" /\ (m.role = "assistant" => ~m.failed)}
ConversationKept ==
  ~reloading /\ ~disturbed =>
    Chosen(messages, Kept) = Chosen(build_session_context(session), Kept)

(* No text is shown as pending that the agent will not deliver: the session's lists of
   steering and follow-up texts are taken off when messages end, cleared and added to
   beside the agent's queues, from which runs of several prompts drain, and hold no
   text more often than the queues and what was drained.  A run that fails with
   messages it had drained leaves theirs shown. *)
Times(s, t) == Len(Chosen(s, {t}))
ShownIsPending ==
  ~lost => \A t \in Texts :
    Times(shown["steer"], t) + Times(shown["followUp"], t)
      <= Times(queue["steer"], t) + Times(queue["followUp"], t) + Times(run.todo, t)

(* Every prompt() returns or raises: retries, steering and follow-ups come to an end. *)
PromptReturns ==
  \A p \in Prompts : task[p] \in {"running", "sleeping"} ~> task[p] \in {"returned", "raised"}
=============================================================================
