------------------------------ MODULE Streams ------------------------------
(* The event streams through which a provider answers: the event stream of   *)
(* utils/event_stream.py (ai/utils/event_stream.py does the same for one     *)
(* consumer), the code of ai/providers/ that turns what the wire brings into *)
(* events, the proxy client of agent/proxy.py, and the agent loop that       *)
(* consumes them.                                                            *)
(*                                                                           *)
(* One behaviour is one response through one of Apis. A block is its type,   *)
(* the key the wire knows it by, and whether it is still open (it has its    *)
(* "index" or partial arguments, or is the current block). Contents are left *)
(* out: an event is its type, the kind of its block and the content index.   *)
EXTENDS Naturals, Sequences, SequencesExt

CONSTANTS Apis,     \* the providers a behaviour may use
          Keys,     \* the indexes by which the wire names blocks
          MaxWire   \* bound on what the wire of each api brings

ResponsesApis == {"responses", "azure", "codex"}

VARIABLES api,        \* the provider in use
          signalled,  \* the options hold a signal, or None in its place
          aborted,    \* ... which has been aborted
          wire,       \* "opening", "open", "closed" by the other side or "broken"
          brought,    \* what the wire has brought, for the bound
          blocks,     \* output["content"]
          current,    \* the responses API: current_block is the last of them
          stop,       \* output["stopReason"]: "stop" or "error"
          finished,   \* has_finish_reason of the completions API
          running,    \* the producer's task
          events,     \* everything pushed that was not refused
          taken,      \* how many of them the consumer has taken
          done,       \* EventStream._done
          result,     \* the final result: "none", "done" or "error"
          reader      \* the consumer: "reading", "waiting" for the result, "ended"

vars == <<api, signalled, aborted, wire, brought, blocks, current, stop, finished, running,
          events, taken, done, result, reader>>
producer == <<wire, brought, blocks, current, stop, finished, running>>

Kinds == {"text", "thinking", "toolCall"}
Block(t, k) == [type |-> t, key |-> k, open |-> TRUE]
Event(e, t, i) == [event |-> e, kind |-> t, at |-> i]
Begin(t, i) == Event("begin", t, i)
Delta(t, i) == Event("delta", t, i)
End(t, i) == Event("end", t, i)
Mark(e) == Event(e, "none", 0)
Terminal(e) == e.event \in {"done", "error"}

Init ==
  /\ api \in Apis
  /\ signalled \in BOOLEAN
  /\ aborted = FALSE
  /\ wire = "opening" /\ brought = 0
  /\ blocks = <<>> /\ current = FALSE /\ stop = "stop" /\ finished = FALSE
  /\ running = TRUE
  /\ events = <<>> /\ taken = 0 /\ done = FALSE /\ result = "none"
  /\ reader = "reading"

-----------------------------------------------------------------------------
(* EventStream.push, for a sequence of events with at most one terminal one, *)
(* which is the last.                                                        *)
Push(es) ==
  IF done
    THEN UNCHANGED <<events, done, result>>
    ELSE /\ events' = events \o es
         /\ IF es # <<>> /\ Terminal(Last(es))
              THEN done' = TRUE /\ result' = Last(es).event
              ELSE UNCHANGED <<done, result>>

(* EventStream.end(): without a result and before a terminal event the       *)
(* result is never set.                                                      *)
EndStream == done' = TRUE /\ UNCHANGED <<events, result>>

(* The wire brings something to the producer of the given API, or of one     *)
(* that shares its handlers.                                                 *)
BringsOne(A) ==
  /\ api \in A /\ running /\ wire = "open" /\ brought < MaxWire[api]
  /\ brought' = brought + 1
  /\ UNCHANGED <<api, signalled, aborted, wire, running, taken, reader>>

Brings(a) == BringsOne({a})

(* A handler that only tells what it appends, pushes, or closes.             *)
Keeps == UNCHANGED <<current, stop, finished>>
NothingHappens == UNCHANGED <<blocks, events, done, result>>

Here == Len(blocks)
AppendBlock(t, k, es) ==
  /\ blocks' = Append(blocks, Block(t, k))
  /\ Push(es)
CloseBlock(i) == blocks' = [blocks EXCEPT ![i].open = FALSE]

(* The first block that still has the index.                                 *)
OpenAt(k) == {i \in 1..Here : blocks[i].open /\ blocks[i].key = k}
FirstOf(S) == CHOOSE i \in S : \A j \in S : i <= j

(* The request is answered: the first event is pushed. Bedrock waits for     *)
(* messageStart, and the proxied stream brings its own. (Codex and faux open *)
(* in their own ways, and openai_responses.py never, below.)                 *)
Opens ==
  /\ running /\ wire = "opening" /\ api \notin {"codex", "faux", "responses"}
  /\ wire' = "open"
  /\ IF api \in {"bedrock", "proxy"} THEN UNCHANGED <<events, done, result>> ELSE Push(<<Mark("start")>>)
  /\ UNCHANGED <<api, signalled, aborted, brought, blocks, current, stop, finished, running,
                 taken, reader>>

(* openai_codex_responses.py asks the signal before each of its requests, as *)
(* if it were a dict: given a signal it dies before the first. A request     *)
(* that is refused is made again; retries leave nothing behind.              *)
CodexOpens ==
  /\ api = "codex" /\ running /\ wire = "opening"
  /\ wire' = IF signalled THEN "broken" ELSE "open"
  /\ IF signalled THEN UNCHANGED <<events, done, result>> ELSE Push(<<Mark("start")>>)
  /\ UNCHANGED <<api, signalled, aborted, brought, blocks, current, stop, finished, running,
                 taken, reader>>

(* openai_responses.py puts the options into an object of its own, which has *)
(* neither the cache_retention nor the get() that _build_params asks it for: *)
(* no request is ever sent.                                                  *)
ResponsesFails ==
  /\ api = "responses" /\ running /\ wire = "opening"
  /\ wire' = "broken"
  /\ UNCHANGED <<api, signalled, aborted, brought, blocks, current, stop, finished, running, events,
                 taken, done, result, reader>>

(* faux.py answers with a message its user has queued, as one event after    *)
(* the other, and looks at the signal before it starts.                      *)
FauxOpens ==
  /\ api = "faux" /\ running /\ wire = "opening"
  /\ IF aborted
       THEN wire' = "closed" /\ running' = FALSE /\ Push(<<Mark("error")>>)
       ELSE wire' = "open" /\ UNCHANGED running /\ Push(<<Mark("start")>>)
  /\ UNCHANGED <<api, signalled, aborted, brought, blocks, current, stop, finished, taken, reader>>

(* The wire announces each block once, by a new key, messageStart before it. *)
New(k) == \A i \in 1..Here : blocks[i].key # k
Started == Len(events) > 0

-----------------------------------------------------------------------------
(* anthropic.py: content_block_start, _delta and _stop, message_delta.       *)
AnthropicBlockStart(k, t) ==
  /\ Brings("anthropic") /\ Keeps
  /\ New(k)
  /\ AppendBlock(t, k, <<Begin(t, Here + 1)>>)

AnthropicBlockDelta(k, t) ==
  /\ Brings("anthropic") /\ Keeps
  /\ UNCHANGED blocks
  /\ IF OpenAt(k) # {} /\ blocks[FirstOf(OpenAt(k))].type = t
       THEN Push(<<Delta(t, FirstOf(OpenAt(k)))>>)
       ELSE UNCHANGED <<events, done, result>>

(* Stopping a block takes its index away, so that nothing reaches it again.  *)
Mut_BlockStop(k) ==
  IF OpenAt(k) = {}
    THEN NothingHappens
    ELSE LET i == FirstOf(OpenAt(k)) IN
         UNCHANGED blocks /\ Push(<<End(blocks[i].type, i)>>)

BlockStop(k) ==
  IF OpenAt(k) = {}
    THEN NothingHappens
    ELSE LET i == FirstOf(OpenAt(k)) IN
         CloseBlock(i) /\ Push(<<End(blocks[i].type, i)>>)

AnthropicBlockStop(k) == Brings("anthropic") /\ Keeps /\ BlockStop(k)

AnthropicMessageDelta(s) ==
  Brings("anthropic") /\ stop' = s /\ UNCHANGED <<current, finished>> /\ NothingHappens

(* amazon_bedrock.py: only tool calls are announced, a delta may open text   *)
(* or thinking.                                                              *)
BedrockMessageStart ==
  Brings("bedrock") /\ Keeps /\ ~Started /\ UNCHANGED blocks /\ Push(<<Mark("start")>>)

BedrockBlockStart(k) ==
  /\ Brings("bedrock") /\ Keeps
  /\ Started /\ New(k)
  /\ AppendBlock("toolCall", k, <<Begin("toolCall", Here + 1)>>)

BedrockBlockDelta(k, t) ==
  /\ Brings("bedrock") /\ Keeps
  /\ Started
  /\ IF OpenAt(k) # {}
       THEN /\ UNCHANGED blocks
            /\ Push(IF blocks[FirstOf(OpenAt(k))].type = t
                      THEN <<Delta(t, FirstOf(OpenAt(k)))>> ELSE <<>>)
       ELSE IF t = "toolCall"
              THEN NothingHappens
              ELSE AppendBlock(t, k, <<Begin(t, Here + 1), Delta(t, Here + 1)>>)

BedrockBlockStop(k) == Brings("bedrock") /\ Keeps /\ BlockStop(k)

BedrockMessageStop(s) ==
  Brings("bedrock") /\ stop' = s /\ UNCHANGED <<current, finished>> /\ NothingHappens

-----------------------------------------------------------------------------
(* openai_completions.py: one text and one thinking block per message, tool  *)
(* calls by their stream index, all of them open until the stream ends.      *)
CompletionsBlock(t, k) ==
  {i \in 1..Here : blocks[i].type = t /\ (t = "toolCall" => blocks[i].key = k)}

CompletionsDelta(t, k) ==
  /\ Brings("completions") /\ Keeps
  /\ IF CompletionsBlock(t, k) = {}
       THEN AppendBlock(t, k, <<Begin(t, Here + 1), Delta(t, Here + 1)>>)
       ELSE UNCHANGED blocks /\ Push(<<Delta(t, FirstOf(CompletionsBlock(t, k)))>>)

CompletionsFinishReason(s) ==
  Brings("completions") /\ stop' = s /\ finished' = TRUE /\ UNCHANGED current /\ NothingHappens

(* openai_responses_shared.py: an item that is added becomes the current one,*)
(* though the one before it may not be done.                                 *)
ResponsesItemAdded(t) ==
  /\ BringsOne(ResponsesApis) /\ UNCHANGED <<stop, finished>>
  /\ current' = TRUE
  /\ AppendBlock(t, 0, <<Begin(t, Here + 1)>>)

ResponsesDelta(t) ==
  /\ BringsOne(ResponsesApis) /\ Keeps
  /\ UNCHANGED blocks
  /\ Push(IF current /\ blocks[Here].type = t THEN <<Delta(t, Here)>> ELSE <<>>)

(* An item that is done ends the current block if that is of its type; a     *)
(* function call is told to have ended even if it is not: at the last block, *)
(* or at no block's place, and then no block is current.                     *)
ResponsesItemDone(t) ==
  LET its == current /\ blocks[Here].type = t IN
  /\ BringsOne(ResponsesApis) /\ UNCHANGED <<stop, finished>>
  /\ IF its THEN CloseBlock(Here) ELSE UNCHANGED blocks
  /\ IF its \/ t = "toolCall"
       THEN current' = FALSE /\ Push(<<End(t, Here)>>)
       ELSE UNCHANGED <<current, events, done, result>>

ResponsesCompleted(s) ==
  BringsOne({"responses", "azure"}) /\ stop' = s /\ UNCHANGED <<current, finished>> /\ NothingHappens

(* openai_codex_responses.py reads nothing after the event that completes    *)
(* the response, and turns an event that reports a failure into an exception.*)
CodexCompleted(s) ==
  /\ api = "codex" /\ running /\ wire = "open"
  /\ wire' = "closed" /\ stop' = s
  /\ UNCHANGED <<api, signalled, aborted, brought, blocks, current, finished, running, events,
                 taken, done, result, reader>>

CodexFailed ==
  /\ api = "codex" /\ running /\ wire = "open"
  /\ wire' = "broken"
  /\ UNCHANGED <<api, signalled, aborted, brought, blocks, current, stop, finished, running, events,
                 taken, done, result, reader>>

-----------------------------------------------------------------------------
(* google.py and mistral.py: text and thinking go to the current block, the  *)
(* last one, which ends when the other kind, or a tool call, comes. (faux.py *)
(* has one block open at a time.)                                            *)
Current == {i \in 1..Here : i = Here /\ blocks[i].open}
CurrentEnds == IF Current = {} \/ blocks[Here].type = "toolCall" THEN <<>>
               ELSE <<End(blocks[Here].type, Here)>>
CloseCurrent == IF CurrentEnds = <<>> THEN blocks ELSE [blocks EXCEPT ![Here].open = FALSE]

PartDelta(t) ==
  IF CurrentEnds # <<>> /\ blocks[Here].type = t
    THEN UNCHANGED blocks /\ Push(<<Delta(t, Here)>>)
    ELSE /\ blocks' = Append(CloseCurrent, Block(t, 0))
         /\ Push(CurrentEnds \o <<Begin(t, Here + 1), Delta(t, Here + 1)>>)

GooglePart(t) == Brings("google") /\ Keeps /\ t # "toolCall" /\ PartDelta(t)

(* A function call comes whole.                                              *)
GoogleFunctionCall(k) ==
  /\ Brings("google") /\ Keeps
  /\ blocks' = Append(CloseCurrent, [Block("toolCall", k) EXCEPT !.open = FALSE])
  /\ Push(CurrentEnds \o <<Begin("toolCall", Here + 1), Delta("toolCall", Here + 1),
                            End("toolCall", Here + 1)>>)

GoogleFinishReason(s) ==
  Brings("google") /\ UNCHANGED <<current, finished>> /\ NothingHappens
  /\ stop' = IF \E i \in 1..Here : blocks[i].type = "toolCall" THEN "stop" ELSE s

(* google_vertex.py has its own copy of these handlers.                      *)
VertexPart(t) == Brings("vertex") /\ Keeps /\ t # "toolCall" /\ PartDelta(t)

VertexFunctionCall(k) ==
  /\ Brings("vertex") /\ Keeps
  /\ blocks' = Append(CloseCurrent, [Block("toolCall", k) EXCEPT !.open = FALSE])
  /\ Push(CurrentEnds \o <<Begin("toolCall", Here + 1), Delta("toolCall", Here + 1),
                            End("toolCall", Here + 1)>>)

VertexFinishReason(s) ==
  Brings("vertex") /\ UNCHANGED <<current, finished>> /\ NothingHappens
  /\ stop' = IF \E i \in 1..Here : blocks[i].type = "toolCall" THEN "stop" ELSE s

MistralContent(t) ==
  Brings("mistral") /\ ~aborted /\ Keeps /\ t # "toolCall" /\ PartDelta(t)

MistralBlock(k) == {i \in 1..Here : blocks[i].type = "toolCall" /\ blocks[i].key = k}

MistralToolCall(k) ==
  /\ Brings("mistral") /\ ~aborted /\ Keeps
  /\ IF MistralBlock(k) # {}
       THEN /\ blocks' = CloseCurrent
            /\ Push(CurrentEnds \o <<Delta("toolCall", FirstOf(MistralBlock(k)))>>)
       ELSE /\ blocks' = Append(CloseCurrent, Block("toolCall", k))
            /\ Push(CurrentEnds \o <<Begin("toolCall", Here + 1), Delta("toolCall", Here + 1)>>)

MistralFinishReason(s) ==
  Brings("mistral") /\ ~aborted /\ stop' = s /\ UNCHANGED <<current, finished>> /\ NothingHappens

(* Mistral looks at the signal whenever something comes, and stops reading.  *)
MistralSeesAbort ==
  /\ api = "mistral" /\ running /\ wire = "open" /\ aborted
  /\ wire' = "closed" /\ stop' = "error"
  /\ UNCHANGED <<api, signalled, aborted, brought, blocks, current, finished, running, events,
                 taken, done, result, reader>>

-----------------------------------------------------------------------------
(* cursor_agent: a command line program whose lines hold text. All of it is  *)
(* one block, which is never ended; the signal is not looked at.             *)
CursorText ==
  /\ Brings("cursor") /\ Keeps
  /\ IF blocks = <<>>
       THEN AppendBlock("text", 0, <<Begin("text", 1), Delta("text", 1)>>)
       ELSE UNCHANGED blocks /\ Push(<<Delta("text", 1)>>)

(* The program ends with an exit code that says it failed.                   *)
CursorFailed ==
  /\ api = "cursor" /\ running /\ wire = "open"
  /\ wire' = "closed" /\ stop' = "error"
  /\ UNCHANGED <<api, signalled, aborted, brought, blocks, current, finished, running, events,
                 taken, done, result, reader>>

(* faux.py: one block after the other, and one chunk of it after the other,  *)
(* which it waits for; then it looks at the signal.                          *)
FauxBlock(t) ==
  /\ Brings("faux") /\ ~aborted /\ Keeps
  /\ Current = {}
  /\ AppendBlock(t, 0, <<Begin(t, Here + 1)>>)

FauxChunk ==
  /\ Brings("faux") /\ ~aborted /\ Keeps
  /\ Current # {}
  /\ UNCHANGED blocks /\ Push(<<Delta(blocks[Here].type, Here)>>)

FauxBlockEnd ==
  /\ Brings("faux") /\ ~aborted /\ Keeps
  /\ Current # {}
  /\ CloseBlock(Here) /\ Push(<<End(blocks[Here].type, Here)>>)

FauxSeesAbort ==
  /\ api = "faux" /\ running /\ wire = "open" /\ aborted /\ Current # {}
  /\ running' = FALSE /\ wire' = "closed"
  /\ Push(<<Mark("error")>>)
  /\ UNCHANGED <<api, signalled, aborted, brought, blocks, current, stop, finished, taken, reader>>

(* The queued message says how it stopped.                                   *)
FauxStops(s) ==
  /\ api = "faux" /\ running /\ wire = "open" /\ Current = {}
  /\ wire' = "closed" /\ stop' = s
  /\ UNCHANGED <<api, signalled, aborted, brought, blocks, current, finished, running, events,
                 taken, done, result, reader>>

-----------------------------------------------------------------------------
(* proxy.py: the client rebuilds the message from another program's events,  *)
(* of which the terminal one is the last.                                    *)
Proxied == Brings("proxy") /\ ~aborted /\ ~done

ProxyStart ==
  Proxied /\ Keeps /\ ~Started /\ UNCHANGED blocks /\ Push(<<Mark("start")>>)

ProxyBlockStart(t, k) ==
  /\ Proxied /\ Keeps
  /\ Started /\ New(k)
  /\ AppendBlock(t, k, <<Begin(t, Here + 1)>>)

(* A delta for a block of another type raises.                               *)
ProxyDelta(i, t) ==
  /\ api = "proxy" /\ running /\ wire = "open" /\ ~aborted /\ ~done /\ brought < MaxWire[api]
  /\ i \in 1..Here /\ blocks[i].open
  /\ brought' = brought + 1
  /\ IF blocks[i].type = t
       THEN Push(<<Delta(t, i)>>) /\ UNCHANGED wire
       ELSE wire' = "broken" /\ UNCHANGED <<events, done, result>>
  /\ UNCHANGED <<api, signalled, aborted, blocks, current, stop, finished, running, taken, reader>>

ProxyBlockEnd(i) ==
  /\ Proxied /\ Keeps
  /\ i \in 1..Here /\ blocks[i].open
  /\ CloseBlock(i) /\ Push(<<End(blocks[i].type, i)>>)

ProxyTerminal(e) ==
  /\ Proxied /\ UNCHANGED <<blocks, current, finished>>
  /\ Started
  /\ stop' = IF e = "error" THEN "error" ELSE "stop"
  /\ Push(<<Mark(e)>>)

-----------------------------------------------------------------------------
(* How a response ends. The wire ends or breaks, at any time: while the      *)
(* request is opened too.                                                    *)
WireEnds ==
  /\ running /\ \/ wire = "opening" /\ api # "responses" /\ wire' = "broken"
                \/ wire = "open" /\ api # "faux" /\ wire' \in {"closed", "broken"}
  /\ UNCHANGED <<api, signalled, aborted, brought, blocks, current, stop, finished, running,
                 events, taken, done, result, reader>>

Abort ==
  /\ signalled /\ ~aborted
  /\ aborted' = TRUE
  /\ UNCHANGED <<api, signalled, wire, brought, blocks, current, stop, finished, running, events,
                 taken, done, result, reader>>

(* What is pushed for the blocks that are open when the wire ends.           *)
ToolEnds ==
  LET tools == SelectSeq([i \in 1..Here |-> i], LAMBDA i : blocks[i].type = "toolCall")
  IN  [j \in 1..Len(tools) |-> End("toolCall", tools[j])]

LastEnds ==
  CASE api = "completions" -> [i \in 1..Here |-> End(blocks[i].type, i)]
    [] api \in {"google", "vertex"} -> CurrentEnds
    [] api = "mistral" -> CurrentEnds \o ToolEnds
    [] OTHER -> <<>>

(* The three that speak the responses API ask the signal of the options as   *)
(* if it were a dict, when they finish and again in the handler of that      *)
(* failure: their task dies.                                                 *)
Silent == api \in ResponsesApis /\ signalled

(* Codex does not look at the status, cursor and faux not at the signal.     *)
Refused ==
  \/ aborted /\ api \notin {"cursor", "faux"}
  \/ stop = "error" /\ api # "codex"
  \/ api = "completions" /\ ~finished

Finish ==
  /\ running /\ wire = "closed" /\ api # "proxy"
  /\ running' = FALSE
  /\ IF Silent
       THEN UNCHANGED <<events, done, result>>
       ELSE Push(Append(LastEnds, Mark(IF Refused THEN "error" ELSE "done")))
  /\ UNCHANGED <<api, signalled, aborted, wire, brought, blocks, current, stop, finished, taken, reader>>

(* The response of the proxy ends; nothing says that "done" was in it.       *)
ProxyFinish ==
  /\ running /\ wire = "closed" /\ api = "proxy"
  /\ running' = FALSE
  /\ IF aborted THEN Push(<<Mark("error")>>) ELSE EndStream
  /\ UNCHANGED <<api, signalled, aborted, wire, brought, blocks, current, stop, finished, taken, reader>>

(* except Exception: the stream ends with an error. The proxy also gets here *)
(* when it sees the abort at the next line.                                  *)
Mut_Fails ==
  /\ running /\ \/ wire = "broken"
                \/ api = "proxy" /\ wire = "open" /\ aborted
  /\ running' = FALSE
  /\ IF Silent \/ api = "bedrock" THEN UNCHANGED <<events, done, result>> ELSE Push(<<Mark("error")>>)
  /\ UNCHANGED <<api, signalled, aborted, wire, brought, blocks, current, stop, finished, taken, reader>>

Fails ==
  /\ running /\ \/ wire = "broken"
                \/ api = "proxy" /\ wire = "open" /\ aborted
  /\ running' = FALSE
  /\ IF Silent THEN UNCHANGED <<events, done, result>> ELSE Push(<<Mark("error")>>)
  /\ UNCHANGED <<api, signalled, aborted, wire, brought, blocks, current, stop, finished, taken, reader>>

-----------------------------------------------------------------------------
(* stream_assistant_response: takes events until the terminal one, whose     *)
(* result it reads, or the end of the stream, after which it waits for one.  *)
TakesEvent ==
  /\ reader = "reading" /\ taken < Len(events)
  /\ taken' = taken + 1
  /\ reader' = IF Terminal(events[taken + 1]) THEN "waiting" ELSE "reading"
  /\ UNCHANGED <<api, signalled, aborted, producer, events, done, result>>

TakesEnd ==
  /\ reader = "reading" /\ taken = Len(events) /\ done
  /\ reader' = "waiting"
  /\ UNCHANGED <<api, signalled, aborted, producer, events, taken, done, result>>

TakesResult ==
  /\ reader = "waiting" /\ result # "none"
  /\ reader' = "ended"
  /\ UNCHANGED <<api, signalled, aborted, producer, events, taken, done, result>>

Wire ==
  \/ \E k \in Keys, t \in Kinds :
       \/ AnthropicBlockStart(k, t) \/ AnthropicBlockDelta(k, t)
       \/ BedrockBlockDelta(k, t)
       \/ CompletionsDelta(t, k) \/ ProxyBlockStart(t, k)
  \/ \E k \in Keys :
       \/ AnthropicBlockStop(k) \/ BedrockBlockStart(k) \/ BedrockBlockStop(k)
       \/ GoogleFunctionCall(k) \/ MistralToolCall(k)
       \/ VertexFunctionCall(k)
  \/ \E t \in Kinds : \/ ResponsesItemAdded(t) \/ ResponsesDelta(t) \/ ResponsesItemDone(t)
                      \/ GooglePart(t) \/ VertexPart(t)
                      \/ MistralContent(t) \/ FauxBlock(t)
  \/ \E s \in {"stop", "error"} :
       \/ AnthropicMessageDelta(s) \/ BedrockMessageStop(s) \/ CompletionsFinishReason(s)
       \/ ResponsesCompleted(s) \/ GoogleFinishReason(s) \/ MistralFinishReason(s)
       \/ CodexCompleted(s) \/ VertexFinishReason(s) \/ FauxStops(s)
  \/ CodexFailed \/ CursorText \/ CursorFailed
  \/ FauxChunk \/ FauxBlockEnd \/ FauxSeesAbort
  \/ BedrockMessageStart \/ MistralSeesAbort \/ ProxyStart
  \/ \E i \in 1..Here : ProxyBlockEnd(i) \/ \E t \in Kinds : ProxyDelta(i, t)
  \/ \E e \in {"done", "error"} : ProxyTerminal(e)

Settles == Finish \/ ProxyFinish \/ Fails
Reads == TakesEvent \/ TakesEnd \/ TakesResult

Next == Opens \/ CodexOpens \/ ResponsesFails \/ FauxOpens \/ Wire \/ WireEnds \/ Abort \/ Settles \/ Reads

Spec == Init /\ [][Next]_vars
FairSpec == Spec /\ WF_vars(Settles) /\ WF_vars(Reads)
=============================================================================
