----------------------------- MODULE MCAnswers ------------------------------
(* What a provider answers: the stream of events (Streams) and the arguments *)
(* of a tool call in it (PartialJson). A behaviour is one of the part that   *)
(* which names, and the other stands still.                                  *)
EXTENDS Integers, Sequences

CONSTANTS Apis, Keys, MaxWire, ShortWires

VARIABLES
  which,
  api, signalled, aborted, wire, brought, blocks, current, stop, finished, running, events, taken, done, result, reader,
  value, strict, text, came

streamVars == <<api, signalled, aborted, wire, brought, blocks, current, stop, finished, running,
                events, taken, done, result, reader>>
jsonVars == <<value, strict, text, came>>
vars == <<which, streamVars, jsonVars>>

-----------------------------------------------------------------------------
(* Arguments with two members: strings with all kinds of escapes, numbers,   *)
(* arrays and inner objects of them.                                         *)
Obj(members) == [obj |-> members]
Atoms ==
  {[str |-> v] : v \in {<<>>, <<"a", "backslash">>, <<"newline", "a">>, <<"quote">>, <<"unicode", "a">>}}
    \cup {[num |-> v] : v \in {<<"1", "1">>, <<"-", "1", ".", "1">>, <<"1", "e", "1">>}}
    \cup {[true |-> <<>>]}
Nested ==
  {[arr |-> <<x, y>>] : x \in Atoms, y \in {[true |-> <<>>], [str |-> <<"quote">>]}}
    \cup {[arr |-> <<>>], Obj(<<>>)} \cup {Obj(<< << <<"a">>, x>> >>) : x \in Atoms}
SomeObjects ==
  {Obj(<<>>)} \cup
  {Obj(<< <<k, x>>, << <<"b">>, y>> >>) : k \in {<<"e">>, <<"backslash">>}, x \in Atoms \cup Nested, y \in Atoms}

(* The providers that tell nothing of where a block ends say as much in fewer *)
(* pieces.                                                                   *)
WireBounds == [a \in Apis |-> IF a \in ShortWires THEN MaxWire - 1 ELSE MaxWire]

Answering == INSTANCE StreamProperties WITH MaxWire <- WireBounds
Parsing == INSTANCE PartialJson WITH Objects <- SomeObjects

NoStream ==
  /\ api = 0 /\ signalled = 0 /\ aborted = 0 /\ wire = 0 /\ brought = 0 /\ blocks = 0 /\ current = 0 /\ stop = 0
  /\ finished = 0 /\ running = 0 /\ events = 0 /\ taken = 0 /\ done = 0 /\ result = 0 /\ reader = 0
NoJson == value = 0 /\ strict = 0 /\ text = 0 /\ came = 0

Init ==
  \/ which = "stream" /\ Answering!Init /\ NoJson
  \/ which = "json" /\ NoStream /\ Parsing!Init

OfStream(A) == which = "stream" /\ A /\ UNCHANGED <<which, jsonVars>>
OfJson(A) == which = "json" /\ A /\ UNCHANGED <<which, streamVars>>
Next == OfStream(Answering!Next) \/ OfJson(Parsing!Piece)

Spec == Init /\ [][Next]_vars

(* The producer's task and the consumer go on.                               *)
FairSpec == Spec /\ WF_vars(OfStream(Answering!Settles)) /\ WF_vars(OfStream(Answering!Reads))

-----------------------------------------------------------------------------
(* The events of a response tell one message from its beginning to its end,  *)
(* and one that is reported as done is whole. (the stream functions of       *)
(* ai/providers, proxy.py)                                                   *)
EventsTellOneStory == which = "stream" => Answering!EventsTellOneStory /\ Answering!DoneIsFinished

(* Whoever waits for a response hears of its end. (EventStream.result)       *)
ResultArrives ==
  which = "stream" /\ wire \in {"closed", "broken"}
    ~> which = "stream" /\ (reader = "ended" \/ Answering!EndsInSilence)

(* The arguments that are shown while they come in are a beginning of those  *)
(* the model writes, and at the end they are all of them.                    *)
(* (parse_streaming_json)                                                    *)
ArgumentsGrow == which = "json" => Parsing!ArgumentsGrow
=============================================================================
