------------------------- MODULE StreamProperties -------------------------
(* What a consumer of Streams may rely on, whichever provider answers.       *)
EXTENDS Streams

Positions(S) == {j \in 1..Len(events) : events[j] \in S}
Begins(i) == Positions({Begin(t, i) : t \in Kinds})
Ends(i) == Positions({End(t, i) : t \in Kinds})

(* The responses API tells the end of a tool call even if none is current:   *)
(* at the last block, whatever it is and though it may have ended, or at -1. *)
Strays ==
  {j \in 1..Len(events) :
     LET e == events[j] IN
     /\ api \in ResponsesApis /\ e.event = "end" /\ e.kind = "toolCall"
     /\ \/ e.at = 0 \/ blocks[e.at].type # "toolCall"
        \/ \E f \in 1..(j - 1) : events[f] = e}
Told == (1..Len(events)) \ Strays

(* The events of a response tell one story, in whatever order the wire       *)
(* brings the pieces of blocks: it starts once, first, unless it ends        *)
(* before; a block begins once, as a block of that type at that place of the *)
(* message, before its deltas; nothing of it comes after its end; nothing at *)
(* all after the terminal event. Excepted are the Strays: a consumer that    *)
(* believes them closes another call or none. (A wire announces a key once;  *)
(* the responses API, whose items have none, announces them at any time.)    *)
(* The agent loop and the user interfaces keep one message by these events.  *)
(* (the stream functions of ai/providers, proxy.py)                          *)
EventsTellOneStory ==
  /\ \A j \in Told :
       /\ events[j].event = "start" <=> j = 1 /\ ~Terminal(events[j])
       /\ Terminal(events[j]) => j = Len(events)
       /\ events[j].event \in {"delta", "end"} =>
            \E b \in 1..(j - 1) : events[b] = Begin(events[j].kind, events[j].at)
  /\ \A i \in 1..Here :
       /\ Begins(i) # {} /\ \A b \in Begins(i) : events[b].kind = blocks[i].type
       /\ \A b, c \in Begins(i) : b = c
       /\ \A e \in Ends(i) : \A j \in Told : j > e => events[j].at # i

(* A message reported as done holds no half of a block: everything begun was *)
(* ended, tool calls with it, which the agent loop runs next. The exception  *)
(* are the protocols that delimit blocks on the wire, when one of them was   *)
(* not ended there (it closed inside, or another item came before): none of  *)
(* them asks for the end of the message; and cursor, which ends no block.    *)
(* Nor did the provider say that it failed, which codex overlooks.           *)
(* (Finish of each API)                                                      *)
DelimitedOnWire == {"anthropic", "bedrock", "proxy"} \cup ResponsesApis
Truncated == api \in DelimitedOnWire /\ \E i \in 1..Here : blocks[i].open

DoneIsFinished ==
  result = "done" =>
    /\ ~Truncated /\ api # "cursor" => \A i \in 1..Here : Ends(i) # {}
    /\ api # "codex" => stop # "error"

(* Whoever waits for a response hears of its end: once the wire has closed   *)
(* or broken the consumer gets a result. Two ways to end in silence are the  *)
(* exceptions: a proxied response without "done" or "error", and those of    *)
(* the responses API when they are given a signal. (EventStream.result)             *)
EndsInSilence == Silent \/ (api = "proxy" /\ wire = "closed" /\ result = "none")

ResultArrives ==
  wire \in {"closed", "broken"} ~> (reader = "ended" \/ EndsInSilence)
=============================================================================
