------------------------------ MODULE Requests ------------------------------
(* What of a session reaches the model: the branch of a harness session       *)
(* (agent/harness/session), the part of it a compaction replaces by a summary *)
(* (agent/harness/compaction), and the provider's request built from the rest *)
(* (ai/providers/transform_messages.py and the convert_messages of each).     *)
(*                                                                            *)
(* The harness appends a run's messages in the order of the loop and keeps    *)
(* everything else pending until the turn is over (AgentHarness); the         *)
(* application may compact, append and move the leaf while no run is going    *)
(* on: with the functions of the library, as tests/harness/test_compaction.py *)
(* does, for AgentHarness.compact and AgentSession.compact call               *)
(* prepare_compaction in forms that raise.                                    *)
(* Left out: images, thinking, a tool call id used twice in a session.        *)
EXTENDS Naturals, Sequences, FiniteSets, FiniteSetsExt

CONSTANTS Apis,         \* the providers a session is continued with, one model each
          KeepRecent,   \* settings.keepRecentTokens
          MaxEntries,   \* bound on the length of the branch
          MaxCalls,     \* bound on the tool calls of a reply
          MaxCompactions, MaxMoves  \* bounds on these operations

VARIABLES branch,   \* the path from the root of the session to its leaf
          model,    \* the harness's model
          phase,    \* of the run: "idle", "asked", "tools", "between" turns
          moves     \* moves of the leaf so far

vars == <<branch, model, phase, moves>>

-----------------------------------------------------------------------------
(* Entries. A message entry carries its message; the estimate of a message's *)
(* tokens is its size. A call is known by the position of its reply and its  *)
(* own place in it, and written in the form of the api that made it up.      *)
Message(role, size) == [type |-> "message", role |-> role, size |-> size]
User == Message("user", 1)
Bash == Message("bashExecution", 1)
Call(at, k, form) == [at |-> at, k |-> k, form |-> form]
Reply(api, calls, text, failed) ==
  [type |-> "message", role |-> "assistant", size |-> IF calls = <<>> /\ ~text THEN 0 ELSE 1,
   api |-> api, calls |-> calls, text |-> text, failed |-> failed]
Result(call) == [type |-> "message", role |-> "toolResult", size |-> 1, call |-> call]
Setting == [type |-> "model_change"]
Note(type) == [type |-> type]   \* "custom_message" or "branch_summary"
Notes == {"custom_message", "branch_summary"}

Positions(path) == 1..Len(path)
IsMessage(e) == e.type = "message"
IsRole(e, role) == IsMessage(e) /\ e.role = role
HasText(e) == IsMessage(e) \/ e.type \in Notes
Compactions(path) == {i \in Positions(path) : path[i].type = "compaction"}
Texts(path, from, to) == {i \in from..to : HasText(path[i])}

(* build_session_context: the last compaction stands for what is before the first
   entry it keeps. *)
Summary == [type |-> "message", role |-> "compactionSummary", size |-> 1]
Shown(path) ==
  LET c == Max(Compactions(path))
  IN SelectSeq(IF Compactions(path) = {} THEN path
               ELSE <<Summary>> \o SubSeq(path, path[c].first, c - 1)
                    \o SubSeq(path, c + 1, Len(path)), HasText)

-----------------------------------------------------------------------------
(* Where a compaction cuts. *)

\* Mutant: a tool result is a cut point too.
Mut_CutPoints(path, start) == {i \in start..Len(path) : IsMessage(path[i])}
CutPoints(path, start) ==
  {i \in start..Len(path) : IsMessage(path[i]) /\ path[i].role # "toolResult"}

(* The entry that begins the turn an entry belongs to, 0 for none. *)
TurnStart(path, at, start) ==
  Max({0} \cup {i \in start..at : \/ path[i].type \in Notes
                                  \/ IsMessage(path[i]) /\ path[i].role \in {"user", "bashExecution"}})

(* find_cut_point: the first cut point of the last messages that make up
   KeepRecent, or of all; then left over the entries that are no messages. *)
Tokens(path, from) ==
  MapThenSumSet(LAMBDA i : path[i].size, {i \in from..Len(path) : IsMessage(path[i])})
FirstKept(path, start) ==
  LET points == CutPoints(path, start)
      full == {i \in start..Len(path) : IsMessage(path[i]) /\ Tokens(path, i) >= KeepRecent}
      after == {c \in points : full # {} /\ c >= Max(full)}
      cut == IF after = {} THEN Min(points) ELSE Min(after)
  IN IF points = {} THEN start
     ELSE Max({i \in start..cut : i = start \/ path[i - 1].type \in {"message", "compaction"}})
SplitsTurn(path, first, start) ==
  /\ CutPoints(path, start) # {} /\ ~IsRole(path[first], "user")
  /\ TurnStart(path, first, start) # 0

(* prepare_compaction and compact. "covers" are the entries the summary was made
   from, "lost" those an earlier summary was made from that this one was not. *)
NothingBefore == [first |-> 1, covers |-> {}, lost |-> {}]
Preparation(path) ==
  LET previous == IF Compactions(path) = {} THEN NothingBefore ELSE path[Max(Compactions(path))]
      start == previous.first
      first == FirstKept(path, start)
      split == SplitsTurn(path, first, start)
      turn == IF split THEN TurnStart(path, first, start) ELSE first
  IN [first |-> first, split |-> split, previous |-> previous,
      history |-> Texts(path, start, turn - 1), prefix |-> Texts(path, turn, first - 1)]

Compacted(p) ==
  LET forgets == p.split /\ p.prefix # {} /\ p.history = {}   \* "No prior history."
  IN [type |-> "compaction", first |-> p.first,
      covers |-> p.history \cup p.prefix \cup (IF forgets THEN {} ELSE p.previous.covers),
      lost |-> p.previous.lost \cup (IF forgets THEN p.previous.covers ELSE {})]

-----------------------------------------------------------------------------
(* From the context to the request. *)

(* convert_to_llm: what is neither a reply nor a result is the user's. *)
AsUser == [role |-> "user"]
ToLlm(e) ==
  IF IsMessage(e) /\ e.role \in {"assistant", "toolResult"} THEN e ELSE AsUser
convert_to_llm(es) == [i \in DOMAIN es |-> ToLlm(es[i])]

(* The identifiers an api takes as they are; it rewrites the others. Those of the
   responses api are two joined by a bar, those of mistral nine characters. *)
Takes(api, form) ==
  \/ api = form
  \/ api \in {"anthropic", "bedrock", "completions"} /\ form # "responses"
  \/ api = "google"
Normalized(api, call) == IF Takes(api, call.form) THEN call ELSE [call EXCEPT !.form = api]

(* The first pass of transform_messages: the calls of another model's replies are
   renamed, and the results of those renamed so far. *)
Renamed(api, ms) ==
  LET Foreign(m) == m.role = "assistant" /\ m.api # api
      OfForeign(i) == \E j \in 1..i - 1 :
                        Foreign(ms[j]) /\ \E k \in DOMAIN ms[j].calls : ms[j].calls[k] = ms[i].call
  IN [i \in DOMAIN ms |->
       IF Foreign(ms[i])
       THEN [ms[i] EXCEPT !.calls = [k \in DOMAIN ms[i].calls |-> Normalized(api, ms[i].calls[k])]]
       ELSE IF ms[i].role = "toolResult" /\ OfForeign(i)
       THEN [ms[i] EXCEPT !.call = Normalized(api, ms[i].call)]
       ELSE ms[i]]

(* The second pass: before the next reply or user message, and at the end, a
   result is made up for the calls of the last reply that have none. Replies that
   failed are left out. *)
NoResult(call) == [role |-> "toolResult", call |-> call]
Answered(ms) ==
  LET pending[i \in 0..Len(ms)] ==   \* the calls of the last reply before i that have no result
        IF i = 0 THEN <<>>
        ELSE IF ms[i].role = "assistant" /\ ~ms[i].failed THEN ms[i].calls
        ELSE IF ms[i].role = "toolResult"
        THEN SelectSeq(pending[i - 1], LAMBDA c : c # ms[i].call)
        ELSE <<>>
      made(i) == [k \in DOMAIN pending[i] |-> NoResult(pending[i][k])]
      out[i \in 0..Len(ms)] ==
        IF i = 0 THEN <<>>
        ELSE IF ms[i].role = "toolResult" THEN Append(out[i - 1], ms[i])
        ELSE out[i - 1] \o made(i - 1)
             \o (IF ms[i].role = "assistant" /\ ms[i].failed THEN <<>> ELSE <<ms[i]>>)
  IN out[Len(ms)] \o made(Len(ms))
transform_messages(api, ms) == Answered(Renamed(api, ms))

(* The providers. A request is a sequence of the user's texts, replies and groups of
   results; a reply without text and calls is left out. *)
Said(ms) == SelectSeq(ms, LAMBDA m : m.role # "assistant" \/ m.text \/ m.calls # <<>>)
Turn(m) == IF m.role = "toolResult" THEN [role |-> "results", calls |-> <<m.call>>]
           ELSE IF m.role = "assistant" THEN [role |-> "assistant", calls |-> m.calls]
           ELSE [role |-> "user", calls |-> <<>>]
OneByOne(ms) == [i \in DOMAIN ms |-> Turn(ms[i])]
Grouped(ms) ==
  LET g[i \in 0..Len(ms)] ==
        IF i = 0 THEN <<>>
        ELSE IF i > 1 /\ ms[i].role = "toolResult" /\ ms[i - 1].role = "toolResult"
        THEN [g[i - 1] EXCEPT ![Len(g[i - 1])].calls = Append(@, ms[i].call)]
        ELSE Append(g[i - 1], Turn(ms[i]))
  IN g[Len(ms)]
anthropic(ms) == Grouped(Said(ms))
bedrock(ms) == Grouped(Said(ms))
google(ms) == Grouped(Said(ms))
completions(ms) == OneByOne(Said(ms))
mistral(ms) == OneByOne(Said(ms))
responses(ms) == OneByOne(ms)

(* _normalize_tool_call_id of the responses api reads model.provider of a dict, which
   raises, for every call of another model: there is no request then. *)
Refused(api, ms) ==
  api = "responses"
    /\ \E i \in DOMAIN ms : ms[i].role = "assistant" /\ ms[i].api # api /\ ms[i].calls # <<>>
Request(api, path) ==
  LET ms == convert_to_llm(Shown(path))
      sent == transform_messages(api, ms)
  IN CASE Refused(api, ms) -> <<>>
       [] api = "anthropic" -> anthropic(sent)
       [] api = "bedrock" -> bedrock(sent)
       [] api = "google" -> google(sent)
       [] api = "completions" -> completions(sent)
       [] api = "mistral" -> mistral(sent)
       [] OTHER -> responses(sent)

-----------------------------------------------------------------------------
Init == branch = <<>> /\ model \in Apis /\ phase = "idle" /\ moves = 0

Add(e) == Len(branch) < MaxEntries /\ branch' = Append(branch, e)
Quiet == phase \in {"idle", "between"}

(* prompt(): the turn state is read from the session, the prompt stored. *)
Prompt == phase = "idle" /\ Add(User) /\ phase' = "asked" /\ UNCHANGED <<model, moves>>

(* The reply is stored when it ends. The run goes on if it has calls and did not fail. *)
ReplyEnds ==
  /\ phase = "asked"
  /\ \E n \in 0..MaxCalls, failed \in BOOLEAN : \E text \in {TRUE, n > 0} :
       LET calls == [k \in 1..n |-> Call(Len(branch) + 1, k, model)]
       IN /\ Add(Reply(model, calls, text, failed))
          /\ phase' = IF n > 0 /\ ~failed THEN "tools" ELSE "idle"
  /\ UNCHANGED <<model, moves>>

(* The results are stored in the order of the calls. *)
Unanswered ==
  LET last == Max({i \in Positions(branch) : IsRole(branch[i], "assistant")})
  IN SubSeq(branch[last].calls, Len(branch) - last + 1, Len(branch[last].calls))
ToolEnds ==
  /\ phase = "tools" /\ Add(Result(Head(Unanswered)))
  /\ phase' = IF Len(Unanswered) = 1 THEN "between" ELSE "tools"
  /\ UNCHANGED <<model, moves>>
NextTurn == phase = "between" /\ phase' = "asked" /\ UNCHANGED <<branch, model, moves>>

(* _emit_run_failure: what raises in a run ends it with a failed reply. *)
RunFails ==
  /\ phase \in {"tools", "between"} /\ Add(Reply(model, <<>>, FALSE, TRUE))
  /\ phase' = "idle" /\ UNCHANGED <<model, moves>>

(* append_message and the entries of settings: at once while idle, else when the
   turn is over. *)
AppendMessage == Quiet /\ \E e \in {User, Bash} : Add(e) /\ UNCHANGED <<model, phase, moves>>
SetModel ==
  Quiet /\ Add(Setting) /\ model' \in Apis \ {model} /\ UNCHANGED <<phase, moves>>
AppendNote ==
  phase = "idle" /\ Add(Note("custom_message")) /\ UNCHANGED <<model, phase, moves>>

(* move_to, with a summary of what is left behind or without. *)
MoveTo ==
  /\ phase = "idle" /\ moves < MaxMoves /\ moves' = moves + 1
  /\ \E n \in 0..Len(branch) - 1, summary \in BOOLEAN :
       branch' = SubSeq(branch, 1, n) \o (IF summary THEN <<Note("branch_summary")>> ELSE <<>>)
  /\ UNCHANGED <<model, phase>>

(* prepare_compaction, compact and append_compaction; nothing to do on an empty
   branch and right after another compaction. *)
Compact ==
  /\ phase = "idle" /\ branch # <<>> /\ branch[Len(branch)].type # "compaction"
  /\ Cardinality(Compactions(branch)) < MaxCompactions
  /\ Add(Compacted(Preparation(branch))) /\ UNCHANGED <<model, phase, moves>>

Next ==
  \/ Prompt \/ ReplyEnds \/ ToolEnds \/ NextTurn \/ RunFails
  \/ AppendMessage \/ SetModel \/ AppendNote \/ MoveTo \/ Compact

Spec == Init /\ [][Next]_vars

-----------------------------------------------------------------------------
(* Every text of the branch is in the request or in what its summary was made of,
   never in both. The exception is the code's: a cut inside the first turn the last
   compaction kept replaces that one's summary by "No prior history.". *)
NothingForgotten ==
  Compactions(branch) # {} =>
    LET c == Max(Compactions(branch))
    IN /\ Texts(branch, 1, branch[c].first - 1) = branch[c].covers \cup branch[c].lost
       /\ branch[c].first < c

(* Whatever happened to the branch (an interrupted run, a move to the middle of a
   turn, a cut, a change of model), the request answers every call exactly once,
   right behind the reply that made it, and holds no other result. *)
CallsOf(r, i) == {r[i].calls[k] : k \in DOMAIN r[i].calls}
CallsAnswered ==
  phase = "asked" =>
    LET r == Request(model, branch)
        \* the result turns between the reply i and whatever comes next
        Behind(i) == {j \in i + 1..Len(r) : \A l \in i + 1..j : r[l].role = "results"}
    IN \A i \in DOMAIN r :
         /\ r[i].role = "assistant" =>
              /\ CallsOf(r, i) = UNION {CallsOf(r, j) : j \in Behind(i)}
              /\ Len(r[i].calls) = MapThenSumSet(LAMBDA j : Len(r[j].calls), Behind(i))
         /\ r[i].role = "results" => \E j \in 1..i - 1 : i \in Behind(j) /\ r[j].role = "assistant"
=============================================================================
