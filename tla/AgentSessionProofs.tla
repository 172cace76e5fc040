------------------------- MODULE AgentSessionProofs -------------------------
(* AgentSession keeps the conversation, and shows nothing as pending that is not, for
   all texts, retries and bounds. *)
EXTENDS AgentSessionProperties, SelectionProofs

-----------------------------------------------------------------------------
(* build_session_context. *)
LEMMA MaxIs ==
  ASSUME NEW n \in Nat, NEW S \in SUBSET (1..n), S # {}
  PROVE  Max(S) \in S /\ \A y \in S : Max(S) >= y
<1> DEFINE A == {k \in Nat : \A R \in SUBSET (1..k) :
                              R # {} => \E x \in R : \A y \in R : x >= y}
<1>1. 0 \in A
  <2>1. 1..0 = {}
    OBVIOUS
  <2>2. \A R \in SUBSET (1..0) : R = {}
    BY <2>1
  <2> QED
    BY <2>2
<1>2. ASSUME NEW k \in A PROVE k + 1 \in A
  <2>1. ASSUME NEW R \in SUBSET (1..k + 1), R # {} PROVE \E x \in R : \A y \in R : x >= y
    <3>1. CASE k + 1 \in R
      <4>1. \A y \in R : k + 1 >= y
        OBVIOUS
      <4> QED
        BY <3>1, <4>1
    <3>2. CASE k + 1 \notin R
      <4>1. R \in SUBSET (1..k)
        BY <3>2
      <4> QED
        BY <2>1, <4>1
    <3> QED
      BY <3>1, <3>2
  <2> QED
    BY <2>1
<1>3. A = Nat
  <2>1. A \in SUBSET Nat
    OBVIOUS
  <2> HIDE DEF A
  <2> QED
    BY <1>1, <1>2, <2>1, Induction
<1>4. \E x \in S : \A y \in S : x >= y
  BY <1>3
<1> QED
  BY <1>4 DEF Max

Cuts(s) == {i \in DOMAIN s : s[i].role = "compaction"}
LastCut(s) == Max(Cuts(s))
KeptPart(s) == Chosen(SubSeq(s, s[LastCut(s)].keep, LastCut(s) - 1), Message)
LaterPart(s) == SubSeq(s, LastCut(s) + 1, Len(s))

LEMMA Built ==
  ASSUME NEW s
  PROVE  build_session_context(s)
           = IF Cuts(s) = {} THEN s ELSE <<Summary>> \o KeptPart(s) \o LaterPart(s)
BY DEF build_session_context, Cuts, LastCut, KeptPart, LaterPart

LEMMA CutIs ==
  ASSUME NEW s \in Seq(Entry), Cuts(s) # {}
  PROVE  /\ LastCut(s) \in 1..Len(s) /\ s[LastCut(s)].keep \in Nat \ {0}
         /\ \A i \in 1..Len(s) : i > LastCut(s) => s[i] \in Message
<1>1. Cuts(s) \in SUBSET (1..Len(s)) /\ Len(s) \in Nat
  BY DEF Cuts
<1>2. LastCut(s) \in Cuts(s) /\ \A y \in Cuts(s) : LastCut(s) >= y
  BY <1>1, MaxIs DEF LastCut
<1>3. \A i \in 1..Len(s) : s[i] \in Entry
  OBVIOUS
<1>4. LastCut(s) \in 1..Len(s) /\ s[LastCut(s)].role = "compaction"
  BY <1>1, <1>2 DEF Cuts
<1>5. s[LastCut(s)].keep \in Nat \ {0}
  BY <1>3, <1>4 DEF Entry, Message
<1>6. ASSUME NEW i \in 1..Len(s), i > LastCut(s) PROVE s[i] \in Message
  <2>1. i \notin Cuts(s)
    BY <1>1, <1>2, <1>4, <1>6
  <2>2. s[i].role # "compaction"
    BY <2>1 DEF Cuts
  <2> QED
    BY <1>3, <2>2 DEF Entry
<1> QED
  BY <1>4, <1>5, <1>6

LEMMA PartTypes ==
  ASSUME NEW s \in Seq(Entry), Cuts(s) # {}
  PROVE  KeptPart(s) \in Seq(Message) /\ LaterPart(s) \in Seq(Message)
<1>1. /\ LastCut(s) \in 1..Len(s) /\ s[LastCut(s)].keep \in Nat \ {0} /\ Len(s) \in Nat
      /\ \A i \in 1..Len(s) : i > LastCut(s) => s[i] \in Message
  BY CutIs
<1>2. KeptPart(s) \in Seq(Message)
  <2> DEFINE b == SubSeq(s, s[LastCut(s)].keep, LastCut(s) - 1)
  <2>1. b \in Seq(Entry)
    BY <1>1
  <2>2. Message \cap Entry = Message
    BY DEF Entry
  <2>3. Chosen(b, Message) \in Seq(Entry \cap Message)
    <3> HIDE DEF b
    <3> QED
      BY <2>1, ChosenType
  <2> QED
    BY <2>2, <2>3 DEF KeptPart
<1>3. LaterPart(s) \in Seq(Message)
  <2>1. ASSUME NEW i \in 1..Len(s) - LastCut(s) PROVE s[i + LastCut(s)] \in Message
    <3>1. i + LastCut(s) \in 1..Len(s) /\ i + LastCut(s) > LastCut(s)
      BY <1>1
    <3> QED
      BY <1>1, <3>1
  <2> QED
    BY <1>1, <2>1 DEF LaterPart
<1> QED
  BY <1>2, <1>3

LEMMA BuiltType ==
  ASSUME NEW s \in Seq(Entry) PROVE build_session_context(s) \in Seq(Message)
<1>1. CASE Cuts(s) = {}
  <2>1. \A i \in 1..Len(s) : s[i] \in Message
    BY <1>1 DEF Cuts, Entry
  <2>2. s \in Seq(Message)
    BY <2>1
  <2> QED
    BY <1>1, <2>2, Built
<1>2. CASE Cuts(s) # {}
  <2>1. KeptPart(s) \in Seq(Message) /\ LaterPart(s) \in Seq(Message)
    BY <1>2, PartTypes
  <2>2. <<Summary>> \in Seq(Message)
    BY DEF Summary, Message
  <2>3. <<Summary>> \o KeptPart(s) \o LaterPart(s) \in Seq(Message)
    BY <2>1, <2>2, ConcatProperties
  <2> QED
    BY <1>2, <2>3, Built
<1> QED
  BY <1>1, <1>2

(* A message that is stored is added to what is built from the session. *)
LEMMA BuiltAppend ==
  ASSUME NEW s \in Seq(Entry), NEW m \in Message
  PROVE  build_session_context(Append(s, m)) = Append(build_session_context(s), m)
<1> DEFINE t == Append(s, m)
           N == Len(s)
<1>1. /\ t \in Seq(Entry) /\ Len(t) = N + 1 /\ N \in Nat
      /\ \A i \in 1..N : t[i] = s[i]
      /\ t[N + 1] = m
  BY DEF Entry
<1>2. m.role # "compaction"
  BY DEF Message
<1> HIDE DEF t
<1>3. DOMAIN t = 1..N + 1 /\ DOMAIN s = 1..N
  BY <1>1
<1>4. Cuts(t) = Cuts(s)
  BY <1>1, <1>2, <1>3 DEF Cuts
<1>5. CASE Cuts(s) = {}
  BY <1>4, <1>5, Built DEF t
<1>6. CASE Cuts(s) # {}
  <2> DEFINE c == LastCut(s)
  <2>1. c \in 1..N /\ s[c].keep \in Nat \ {0}
    BY <1>6, CutIs
  <2>2. LastCut(t) = c /\ t[c] = s[c]
    BY <1>1, <1>4, <2>1 DEF LastCut
  <2> HIDE DEF c
  <2>3. KeptPart(t) = KeptPart(s)
    <3>1. ASSUME NEW k \in Nat \ {0} PROVE SubSeq(t, k, c - 1) = SubSeq(s, k, c - 1)
      BY <1>1, <2>1
    <3> QED
      BY <2>1, <2>2, <3>1 DEF KeptPart, c
  <2>4. LaterPart(t) = Append(LaterPart(s), m)
    <3> DEFINE a == SubSeq(t, c + 1, N + 1)
               b == SubSeq(s, c + 1, N)
    <3>2. /\ N - c \in Nat /\ Len(a) = N - c + 1 /\ Len(b) = N - c
          /\ a \in Seq(Entry) /\ b \in Seq(Entry)
      BY <1>1, <2>1
    <3>3. \A i \in 1..N - c : a[i] = t[i + c] /\ b[i] = s[i + c] /\ i + c \in 1..N
      BY <1>1, <2>1
    <3>4. a[N - c + 1] = m
      BY <1>1, <2>1
    <3> HIDE DEF a, b
    <3>5. a = Append(b, a[N - c + 1])
      BY <1>1, <3>2, <3>3, AppendsLast
    <3>1. SubSeq(t, c + 1, N + 1) = Append(SubSeq(s, c + 1, N), m)
      BY <3>4, <3>5 DEF a, b
    <3> QED
      BY <1>1, <2>2, <3>1 DEF LaterPart, c
  <2>5. KeptPart(s) \in Seq(Message) /\ LaterPart(s) \in Seq(Message) /\ <<Summary>> \in Seq(Message)
    BY <1>6, PartTypes DEF Summary, Message
  <2>6. ASSUME NEW a \in Seq(Message), NEW b \in Seq(Message), NEW d \in Seq(Message)
        PROVE  a \o b \o Append(d, m) = Append(a \o b \o d, m)
    <3>1. \A e \in Seq(Message) : e \o Append(d, m) = Append(e \o d, m)
      OBVIOUS
    <3>2. a \o b \in Seq(Message)
      BY ConcatProperties
    <3> QED
      BY <3>1, <3>2
  <2>7. <<Summary>> \o KeptPart(s) \o Append(LaterPart(s), m) = Append(<<Summary>> \o KeptPart(s) \o LaterPart(s), m)
    BY <2>5, <2>6
  <2> QED
    BY <1>4, <1>6, <2>3, <2>4, <2>7, Built DEF t
<1> QED
  BY <1>5, <1>6

-----------------------------------------------------------------------------
(* Every variable these properties are about has its type; an active run is one that a
   prompt() awaits. *)
RunType ==
  [owner : Nat, at : {"none", "delivering", "asking", "replied", "tools", "ending",
                         "failing"},
   todo : Seq(Texts), first : BOOLEAN,
   stop : {"none", "stop", "toolUse", "transient", "fatal", "aborted"}, aborted : BOOLEAN]
Typed ==
  /\ session \in Seq(Entry) /\ messages \in Seq(Message)
  /\ queue \in [Lanes -> Seq(Texts)] /\ run \in RunType
  /\ task \in [Prompts -> {"new", "running", "sleeping", "returned", "raised"}]
OwnerRuns == run.at # "none" => run.owner \in Prompts /\ task[run.owner] = "running"

(* When a run failed, the reply that a retry takes back is that failure: nothing else
   adds a reply, and who replaces the transcript disturbs the run. *)
FailureIsLast ==
  ~disturbed /\ run.at \in {"replied", "ending"} /\ IsError(run.stop) /\ messages # <<>> =>
    LET last == messages[Len(messages)] IN last.role = "assistant" => last.failed

ConvInv == Typed /\ OwnerRuns /\ FailureIsLast /\ ConversationKept

LEMMA NewRunType ==
  ASSUME NEW p \in Prompts, NEW todo \in Seq(Texts), NEW first \in BOOLEAN
  PROVE  /\ NewRun(p, todo, first) \in RunType /\ NewRun(p, todo, first).owner = p
         /\ NewRun(p, todo, first).at = "delivering" /\ NoRun \in RunType
<1>1. NoRun \in RunType
  BY EmptySeq DEF NoRun, RunType
<1>2. p \in Nat
  BY SessionBounds DEF Prompts
<1>3. ASSUME NEW r \in RunType
      PROVE  LET n == [r EXCEPT !.owner = p, !.at = "delivering", !.todo = todo, !.first = first]
             IN n \in RunType /\ n.owner = p /\ n.at = "delivering"
  BY <1>2 DEF RunType
<1> QED
  BY <1>1, <1>3 DEF NewRun

LEMMA DrainType ==
  ASSUME NEW lane \in Lanes, NEW r \in RunType, queue \in [Lanes -> Seq(Texts)], Drain(lane, r)
  PROVE  /\ queue' \in [Lanes -> Seq(Texts)] /\ run' \in RunType
         /\ run'.owner = r.owner /\ run'.at = r.at /\ run'.stop = r.stop
<1> DEFINE q == queue[lane]
<1>1. q \in Seq(Texts) /\ q # <<>>
  BY DEF Drain
<1>2. PICK n \in {1, Len(q)} :
        /\ queue' = [queue EXCEPT ![lane] = SubSeq(q, n + 1, Len(q))]
        /\ run' = [r EXCEPT !.todo = SubSeq(q, 1, n)]
  BY DEF Drain
<1> HIDE DEF q
<1>3. Len(q) \in Nat \ {0}
  BY <1>1
<1>4. SubSeq(q, n + 1, Len(q)) \in Seq(Texts) /\ SubSeq(q, 1, n) \in Seq(Texts)
  BY <1>1, <1>3
<1> QED
  BY <1>2, <1>4 DEF RunType

\* What continue_run leaves of the run and of the call p that awaits it.
Continues(p) ==
  /\ queue' \in [Lanes -> Seq(Texts)] /\ run' \in RunType
  /\ \/ /\ task' = [task EXCEPT ![p] = "running"]
        /\ run'.owner = p /\ run'.at = "delivering"
     \/ /\ \E end \in {"raised", "returned"} : task' = [task EXCEPT ![p] = end]
        /\ \/ run' = NoRun
           \/ run' = run /\ (run.at = "none" \/ run.owner # p)

LEMMA ContinueRunContinues ==
  ASSUME Typed, NEW p \in Prompts, NEW busy \in BOOLEAN, ContinueRun(p, busy),
         busy => run.at # "none" /\ run.owner # p
  PROVE  Continues(p)
<1>1. CASE task' = [task EXCEPT ![p] = "raised"] /\ UNCHANGED queue
           /\ run' = IF busy THEN run ELSE NoRun
  <2>1. NoRun \in RunType
    BY NewRunType, EmptySeq
  <2> QED
    BY <1>1, <2>1 DEF Continues, Typed
<1>2. CASE /\ task' = [task EXCEPT ![p] = "running"]
           /\ \/ run' = NewRun(p, <<>>, TRUE) /\ UNCHANGED queue
              \/ Drain("steer", NewRun(p, <<>>, FALSE))
              \/ Drain("followUp", NewRun(p, <<>>, TRUE))
  <2>1. \A first \in BOOLEAN :
          /\ NewRun(p, <<>>, first) \in RunType /\ NewRun(p, <<>>, first).owner = p
          /\ NewRun(p, <<>>, first).at = "delivering"
    BY NewRunType, EmptySeq
  <2>2. CASE run' = NewRun(p, <<>>, TRUE) /\ UNCHANGED queue
    BY <1>2, <2>1, <2>2 DEF Continues, Typed
  <2>3. CASE Drain("steer", NewRun(p, <<>>, FALSE))
    <3>1. /\ queue' \in [Lanes -> Seq(Texts)] /\ run' \in RunType
          /\ run'.owner = p /\ run'.at = "delivering"
      BY <2>1, <2>3, DrainType DEF Lanes, Typed
    <3> QED
      BY <1>2, <3>1 DEF Continues
  <2>4. CASE Drain("followUp", NewRun(p, <<>>, TRUE))
    <3>1. /\ queue' \in [Lanes -> Seq(Texts)] /\ run' \in RunType
          /\ run'.owner = p /\ run'.at = "delivering"
      BY <2>1, <2>4, DrainType DEF Lanes, Typed
    <3> QED
      BY <1>2, <3>1 DEF Continues
  <2> QED
    BY <1>2, <2>2, <2>3, <2>4
<1>3. \/ /\ task' = [task EXCEPT ![p] = "raised"] /\ UNCHANGED queue
         /\ run' = IF busy THEN run ELSE NoRun
      \/ /\ task' = [task EXCEPT ![p] = "running"]
         /\ \/ run' = NewRun(p, <<>>, TRUE) /\ UNCHANGED queue
            \/ Drain("steer", NewRun(p, <<>>, FALSE))
            \/ Drain("followUp", NewRun(p, <<>>, TRUE))
  BY DEF ContinueRun
<1> QED
  BY <1>1, <1>2, <1>3

LEMMA ContinueOrReturnContinues ==
  ASSUME Typed, NEW p \in Prompts, ContinueOrReturn(p)
  PROVE  Continues(p)
<1>1. CASE \E l \in Lanes : queue[l] # <<>>
  <2>1. ContinueRun(p, is_streaming /\ run.owner # p)
    BY <1>1 DEF ContinueOrReturn
  <2> QED
    BY <2>1, ContinueRunContinues, (is_streaming /\ run.owner # p) \in BOOLEAN DEF is_streaming
<1>2. CASE ~\E l \in Lanes : queue[l] # <<>>
  <2>1. /\ task' = [task EXCEPT ![p] = "returned"] /\ UNCHANGED queue
        /\ run' = IF run.owner = p THEN NoRun ELSE run
    BY <1>2 DEF ContinueOrReturn
  <2>2. NoRun \in RunType
    BY NewRunType, EmptySeq
  <2> QED
    BY <2>1, <2>2 DEF Continues, Typed
<1> QED
  BY <1>1, <1>2

(* A run that goes on leaves the rest to its owner; one that is continued has another. *)
LEMMA ContinuesKeeps ==
  ASSUME Typed, OwnerRuns, NEW p \in Prompts, Continues(p)
  PROVE  /\ OwnerRuns' /\ queue' \in [Lanes -> Seq(Texts)] /\ run' \in RunType
         /\ task' \in [Prompts -> {"new", "running", "sleeping", "returned", "raised"}]
         /\ run' = run \/ run'.at \in {"none", "delivering"}
<1>1. NoRun.at = "none"
  BY DEF NoRun
<1> QED
  BY <1>1 DEF Typed, OwnerRuns, Continues

-----------------------------------------------------------------------------
(* What the steps do to the transcript and the session. *)
Unmoved == UNCHANGED <<session, messages, reloading>> /\ (disturbed => disturbed')
Records ==
  UNCHANGED reloading /\ (disturbed => disturbed') /\ \E m \in Message : Record(m)

LEMMA UnmovedKeeps == ASSUME ConversationKept, Unmoved PROVE ConversationKept'
BY DEF Unmoved, ConversationKept

LEMMA RecordsKeep ==
  ASSUME Typed, ConversationKept, Records
  PROVE  session' \in Seq(Entry) /\ messages' \in Seq(Message) /\ ConversationKept'
<1>1. PICK m \in Message : Record(m)
  BY DEF Records
<1>2. /\ messages' = Append(messages, m) /\ session' = Append(session, m)
      /\ messages \in Seq(Message) /\ session \in Seq(Entry) /\ m \in Entry
  BY <1>1 DEF Record, Typed, Entry
<1>3. session' \in Seq(Entry) /\ messages' \in Seq(Message)
  BY <1>2
<1>4. build_session_context(session') = Append(build_session_context(session), m)
  BY <1>2, BuiltAppend
<1>5. build_session_context(session) \in Seq(Message)
  BY <1>2, BuiltType
<1>6. ASSUME NEW a \in Seq(Message), NEW b \in Seq(Message), Chosen(a, Kept) = Chosen(b, Kept)
      PROVE  Chosen(Append(a, m), Kept) = Chosen(Append(b, m), Kept)
  <2>1. Chosen(Append(a, m), Kept)
          = IF m \in Kept THEN Append(Chosen(a, Kept), m) ELSE Chosen(a, Kept)
    BY ChosenAppend
  <2>2. Chosen(Append(b, m), Kept)
          = IF m \in Kept THEN Append(Chosen(b, Kept), m) ELSE Chosen(b, Kept)
    BY ChosenAppend
  <2> QED
    BY <1>6, <2>1, <2>2
<1>7. ConversationKept'
  BY <1>2, <1>4, <1>5, <1>6 DEF ConversationKept, Records
<1> QED
  BY <1>3, <1>7

LEMMA RebuildKeeps ==
  ASSUME Typed, NEW s \in Seq(Entry), Rebuild(s)
  PROVE  session' \in Seq(Entry) /\ messages' \in Seq(Message) /\ ConversationKept'
BY BuiltType DEF Rebuild, ConversationKept

(* A reply is taken back: it is not of the conversation that is kept. *)
LEMMA TakenBack ==
  ASSUME NEW ms \in Seq(Message), ms # <<>>, ms[Len(ms)] \notin Kept
  PROVE  /\ SubSeq(ms, 1, Len(ms) - 1) \in Seq(Message)
         /\ Chosen(SubSeq(ms, 1, Len(ms) - 1), Kept) = Chosen(ms, Kept)
<1> DEFINE n == Len(ms) - 1
           t == SubSeq(ms, 1, n)
<1>1. n \in Nat /\ Len(ms) = n + 1 /\ ms[n + 1] \in Message
  OBVIOUS
<1>2. t \in Seq(Message) /\ Len(t) = n /\ \A i \in 1..n : t[i] = ms[i]
  BY <1>1
<1> HIDE DEF n, t
<1>3. ms = Append(t, ms[n + 1])
  BY <1>1, <1>2, AppendsLast
<1>4. Chosen(Append(t, ms[n + 1]), Kept) = Chosen(t, Kept)
  BY <1>1, <1>2, ChosenAppend
<1> QED
  BY <1>2, <1>3, <1>4 DEF n, t

LEMMA SleepKeeps ==
  ASSUME ConvInv, NEW p, Sleep(p), UNCHANGED <<session, reloading, disturbed>>,
         run.at = "ending", run.stop = "transient"
  PROVE  messages' \in Seq(Message) /\ ConversationKept'
<1>1. CASE messages' = messages
  BY <1>1 DEF ConvInv, Typed, ConversationKept
<1>2. CASE messages' # messages
  <2>1. /\ messages # <<>> /\ messages[Len(messages)].role = "assistant"
        /\ messages' = SubSeq(messages, 1, Len(messages) - 1)
    BY <1>2 DEF Sleep
  <2>2. messages \in Seq(Message)
    BY DEF ConvInv, Typed
  <2>3. CASE disturbed
    <3>1. messages' \in Seq(Message)
      BY <2>1, <2>2
    <3> QED
      BY <2>3, <3>1 DEF ConversationKept
  <2>4. CASE ~disturbed
    <3>1. messages[Len(messages)].failed
      BY <2>1, <2>4 DEF ConvInv, FailureIsLast, IsError
    <3>2. messages[Len(messages)] \notin Kept
      BY <2>1, <3>1 DEF Kept
    <3>3. messages' \in Seq(Message) /\ Chosen(messages', Kept) = Chosen(messages, Kept)
      BY <2>1, <2>2, <3>2, TakenBack
    <3> QED
      BY <3>3 DEF ConvInv, ConversationKept
  <2> QED
    BY <2>3, <2>4
<1> QED
  BY <1>1, <1>2

LEMMA ToolsEndKeeps ==
  ASSUME Typed, ConversationKept, ToolsEnd
  PROVE  messages' \in Seq(Message) /\ ConversationKept'
<1>1. ToolResult \in Message /\ ToolResult \notin Kept
  BY DEF ToolResult, Message, Kept
<1>2. messages' = Append(messages, ToolResult) /\ messages \in Seq(Message)
  BY DEF ToolsEnd, Typed
<1>3. Chosen(messages', Kept) = Chosen(messages, Kept)
  BY <1>1, <1>2, ChosenAppend
<1> QED
  BY <1>1, <1>2, <1>3 DEF ToolsEnd, opVars, ConversationKept

-----------------------------------------------------------------------------
(* The invariant, one action at a time. *)
RestTyped ==
  /\ queue \in [Lanes -> Seq(Texts)] /\ run \in RunType
  /\ task \in [Prompts -> {"new", "running", "sleeping", "returned", "raised"}]
Stories == session \in Seq(Entry) /\ messages \in Seq(Message) /\ ConversationKept

LEMMA UnmovedStories == ASSUME ConvInv, Unmoved PROVE Stories'
BY UnmovedKeeps DEF ConvInv, Unmoved, Typed, Stories

LEMMA RecordsStories == ASSUME ConvInv, Records PROVE Stories'
BY RecordsKeep DEF ConvInv, Stories

LEMMA Together ==
  ASSUME RestTyped', Stories', OwnerRuns', FailureIsLast' PROVE ConvInv'
BY DEF RestTyped, Stories, ConvInv, Typed

\* The run is where no failure is, or neither it nor what it left has changed.
LEMMA FailureElsewhere ==
  ASSUME FailureIsLast,
         \/ run'.at \notin {"replied", "ending"} \/ ~IsError(run'.stop)
         \/ UNCHANGED messages /\ (disturbed => disturbed') /\ run'.stop = run.stop
            /\ run.at \in {"replied", "ending"}
  PROVE  FailureIsLast'
BY DEF FailureIsLast, IsError

(* A message_end at which a listener raises: the message is stored too, or the run is
   disturbed, or it is a tool result. *)
LEMMA EndedStories ==
  ASSUME ConvInv, NEW ended \in {<<>>} \cup {<<m>> : m \in Message}, NEW stored \in {<<>>, ended},
         messages' = messages \o ended, session' = session \o stored,
         UNCHANGED reloading, disturbed => disturbed',
         disturbed' \/ stored = ended \/ (ended = <<ToolResult>> /\ stored = <<>>)
  PROVE  Stories'
<1>1. messages \in Seq(Message) /\ session \in Seq(Entry) /\ Message \in SUBSET Entry
  BY DEF ConvInv, Typed, Entry
<1>2. CASE ended = <<>>
  <2>1. stored = <<>> /\ messages' = messages /\ session' = session
    BY <1>1, <1>2, ConcatEmptySeq
  <2> QED
    BY <2>1, UnmovedStories DEF Unmoved
<1>3. ASSUME NEW m \in Message, ended = <<m>> PROVE Stories'
  <2>1. messages' = Append(messages, m)
    BY <1>1, <1>3
  <2>2. CASE stored = ended
    <3>1. session' = Append(session, m)
      BY <1>1, <1>3, <2>2
    <3> QED
      BY <2>1, <3>1, RecordsStories DEF Records, Record
  <2>3. CASE stored = <<>>
    <3>1. session' = session /\ messages' \in Seq(Message)
      BY <1>1, <2>1, <2>3, ConcatEmptySeq
    <3>2. CASE disturbed'
      BY <1>1, <3>1, <3>2 DEF Stories, ConversationKept
    <3>3. CASE m = ToolResult
      <4>1. m \notin Kept
        BY <3>3 DEF ToolResult, Kept
      <4>2. Chosen(messages', Kept) = Chosen(messages, Kept)
        BY <1>1, <2>1, <4>1, ChosenAppend
      <4> QED
        BY <1>1, <3>1, <4>2 DEF ConvInv, Stories, ConversationKept
    <3>4. <<m>> # <<>> /\ (<<m>> = <<ToolResult>> => m = ToolResult)
      OBVIOUS
    <3> QED
      BY <1>3, <2>3, <3>2, <3>3, <3>4
  <2> QED
    BY <2>2, <2>3
<1> QED
  BY <1>2, <1>3

LEMMA ListenerSteps == ASSUME ConvInv, ListenerRaises \/ ReportRaises PROVE ConvInv'
<1> USE DEF ConvInv
<1>1. CASE ListenerRaises
  <2>0. PICK ended \in {<<>>} \cup Due :
          /\ messages' = messages \o ended
          /\ \E stored \in {<<>>, ended} :
               /\ session' = session \o stored /\ (run.at = "tools" => stored = <<>>)
               /\ disturbed' = (disturbed \/ (stored # ended /\ run.at # "tools"))
    BY <1>1 DEF ListenerRaises
  <2>1. PICK stored \in {<<>>, ended} :
          /\ messages' = messages \o ended /\ session' = session \o stored
          /\ (run.at = "tools" => stored = <<>>)
          /\ disturbed' = (disturbed \/ (stored # ended /\ run.at # "tools"))
    BY <2>0
  <2>2. /\ ended \in {<<>>} \cup {<<m>> : m \in Message}
        /\ (run.at = "tools" /\ ended # <<>> => ended = <<ToolResult>>)
    <3>1. run.at = "delivering" /\ run.todo # <<>> => User(Head(run.todo)) \in Message
      BY DEF Typed, RunType, User, Message
    <3>2. ToolResult \in Message /\ \A failed \in BOOLEAN : Reply(failed) \in Message
      BY DEF ToolResult, Reply, Message
    <3> QED
      BY <3>1, <3>2 DEF Due
  <2>3. UNCHANGED reloading
    BY <1>1 DEF ListenerRaises, opVars
  <2>4. disturbed' \/ stored = ended \/ (ended = <<ToolResult>> /\ stored = <<>>)
    BY <2>1, <2>2
  <2>5. Stories'
    BY <2>1, <2>2, <2>3, <2>4, EndedStories
  <2>6. run' \in RunType /\ run'.at = "failing" /\ run'.owner = run.owner
    BY <1>1, EmptySeq DEF ListenerRaises, Typed, RunType
  <2>7. RestTyped' /\ OwnerRuns'
    BY <1>1, <2>6 DEF ListenerRaises, is_streaming, RestTyped, Typed, OwnerRuns
  <2> QED
    BY <2>5, <2>6, <2>7, FailureElsewhere, Together
<1>2. CASE ReportRaises
  <2>0. PICK ended \in {<<>>, <<Reply(~run.aborted)>>} :
          /\ messages' = messages \o ended
          /\ \E stored \in {<<>>, ended} :
               session' = session \o stored /\ disturbed' = (disturbed \/ stored # ended)
    BY <1>2 DEF ReportRaises
  <2>1. PICK stored \in {<<>>, ended} :
          /\ messages' = messages \o ended /\ session' = session \o stored
          /\ disturbed' = (disturbed \/ stored # ended)
    BY <2>0
  <2>2. ended \in {<<>>} \cup {<<m>> : m \in Message}
    <3>1. Reply(~run.aborted) \in Message
      BY DEF Typed, RunType, Reply, Message
    <3> QED
      BY <3>1
  <2>3. UNCHANGED reloading
    BY <1>2 DEF ReportRaises, opVars
  <2>4. Stories'
    BY <2>1, <2>2, <2>3, EndedStories
  <2>5. run.owner \in Prompts /\ NoRun \in RunType /\ NoRun.at = "none"
    BY <1>2, NewRunType, EmptySeq DEF ReportRaises, OwnerRuns, NoRun
  <2>6. RestTyped' /\ OwnerRuns' /\ run'.at = "none"
    BY <1>2, <2>5 DEF ReportRaises, RestTyped, Typed, OwnerRuns
  <2> QED
    BY <2>4, <2>6, FailureElsewhere, Together
<1> QED
  BY <1>1, <1>2

LEMMA RunSteps ==
  ASSUME ConvInv, Deliver \/ Ask \/ Replies \/ AfterReply \/ ToolsEnd PROVE ConvInv'
<1> USE DEF ConvInv
<1>1. CASE Deliver
  <2>1. Head(run.todo) \in Texts /\ Tail(run.todo) \in Seq(Texts)
    BY <1>1 DEF Deliver, Typed, RunType
  <2>2. Records
    BY <1>1, <2>1 DEF Deliver, Records, opVars, User, Message
  <2>3. run' \in RunType /\ run'.at = "delivering" /\ run'.owner = run.owner
    BY <1>1, <2>1 DEF Deliver, Typed, RunType
  <2>4. RestTyped' /\ OwnerRuns'
    BY <1>1, <2>3 DEF Deliver, RestTyped, Typed, OwnerRuns
  <2> QED
    BY <2>2, <2>3, <2>4, RecordsStories, FailureElsewhere, Together
<1>2. CASE Ask
  <2>1. Unmoved /\ task' = task
    BY <1>2 DEF Ask, Unmoved, opVars
  <2>2. /\ run' \in RunType /\ run'.at \in {"delivering", "asking"} /\ run'.owner = run.owner
        /\ queue' \in [Lanes -> Seq(Texts)]
    <3>1. [run EXCEPT !.first = FALSE] \in RunType /\ [run EXCEPT !.at = "asking"] \in RunType
      BY DEF Typed, RunType
    <3>2. CASE Drain("steer", [run EXCEPT !.first = FALSE])
      BY <1>2, <3>1, <3>2, DrainType DEF Ask, Typed, Lanes, RunType
    <3>3. CASE run' = [run EXCEPT !.at = "asking"] /\ UNCHANGED queue
      BY <3>1, <3>3 DEF Typed, RunType
    <3> QED
      BY <1>2, <3>2, <3>3 DEF Ask, DrainOr
  <2>3. RestTyped' /\ OwnerRuns'
    BY <1>2, <2>1, <2>2 DEF Ask, RestTyped, Typed, OwnerRuns
  <2> QED
    BY <2>1, <2>2, <2>3, UnmovedStories, FailureElsewhere, Together
<1>3. CASE Replies
  <2>1. PICK stop \in Stops :
          /\ Record(Reply(IsError(stop))) /\ run' = [run EXCEPT !.at = "replied", !.stop = stop]
    BY <1>3 DEF Replies
  <2>2. /\ Reply(IsError(stop)) \in Message /\ Reply(IsError(stop)).failed = IsError(stop)
        /\ stop \in {"stop", "toolUse", "transient", "fatal", "aborted"}
    BY DEF Reply, Message, IsError, Stops
  <2>3. Records
    BY <1>3, <2>1, <2>2 DEF Replies, Records, opVars
  <2>4. run' \in RunType /\ run'.owner = run.owner /\ run'.stop = stop
    BY <2>1, <2>2 DEF Typed, RunType
  <2>5. RestTyped' /\ OwnerRuns'
    BY <1>3, <2>4 DEF Replies, RestTyped, Typed, OwnerRuns
  <2>6. FailureIsLast'
    <3>1. messages' # <<>> /\ messages'[Len(messages')] = Reply(IsError(stop))
      BY <2>1, <2>2 DEF Record, Typed
    <3> QED
      BY <2>2, <2>4, <3>1 DEF FailureIsLast
  <2> QED
    BY <2>3, <2>5, <2>6, RecordsStories, Together
<1>4. CASE AfterReply
  <2>1. Unmoved /\ task' = task
    BY <1>4 DEF AfterReply, Unmoved, opVars
  <2>2. /\ run' \in RunType /\ run'.owner = run.owner /\ run'.stop = run.stop
        /\ queue' \in [Lanes -> Seq(Texts)]
    <3>1. \A pc \in {"delivering", "ending", "tools"} :
            LET r == [run EXCEPT !.at = pc]
            IN r \in RunType /\ r.owner = run.owner /\ r.stop = run.stop
      BY DEF Typed, RunType
    <3>2. CASE \E lane \in Lanes : Drain(lane, [run EXCEPT !.at = "delivering"])
      BY <3>1, <3>2, DrainType DEF Typed
    <3>3. CASE (\E pc \in {"ending", "tools"} : run' = [run EXCEPT !.at = pc]) /\ UNCHANGED queue
      BY <3>1, <3>3 DEF Typed
    <3> QED
      BY <1>4, <3>2, <3>3 DEF AfterReply, PollFollowUp, DrainOr, Lanes
  <2>3. RestTyped' /\ OwnerRuns'
    BY <1>4, <2>1, <2>2 DEF AfterReply, RestTyped, Typed, OwnerRuns
  <2>4. FailureIsLast'
    BY <1>4, <2>1, <2>2, FailureElsewhere DEF AfterReply, Unmoved
  <2> QED
    BY <2>1, <2>3, <2>4, UnmovedStories, Together
<1>5. CASE ToolsEnd
  <2>1. /\ run' \in RunType /\ run'.at \in {"delivering", "asking"} /\ run'.owner = run.owner
        /\ queue' \in [Lanes -> Seq(Texts)]
    <3>1. \A pc \in {"delivering", "asking"} :
            LET r == [run EXCEPT !.at = pc]
            IN r \in RunType /\ r.owner = run.owner /\ r.at = pc
      BY DEF Typed, RunType
    <3>2. CASE Drain("steer", [run EXCEPT !.at = "delivering"])
      BY <3>1, <3>2, DrainType DEF Typed, Lanes
    <3>3. CASE run' = [run EXCEPT !.at = "asking"] /\ UNCHANGED queue
      BY <3>1, <3>3 DEF Typed
    <3> QED
      BY <1>5, <3>2, <3>3 DEF ToolsEnd, DrainOr
  <2>2. RestTyped' /\ OwnerRuns'
    BY <1>5, <2>1 DEF ToolsEnd, RestTyped, Typed, OwnerRuns
  <2>3. Stories'
    BY <1>5, ToolsEndKeeps DEF Stories, ToolsEnd, Typed
  <2> QED
    BY <2>1, <2>2, <2>3, FailureElsewhere, Together
<1> QED
  BY <1>1, <1>2, <1>3, <1>4, <1>5

\* What continue_run and the return of a prompt() do to the invariant.
LEMMA ContinuesInv ==
  ASSUME ConvInv, Unmoved, NEW p \in Prompts, Continues(p) PROVE ConvInv'
<1>1. OwnerRuns' /\ RestTyped' /\ (run' = run \/ run'.at \in {"none", "delivering"})
  BY ContinuesKeeps DEF ConvInv, RestTyped
<1>2. FailureIsLast'
  <2>1. CASE run' = run
    BY <2>1 DEF ConvInv, FailureIsLast, Unmoved
  <2>2. CASE run'.at \in {"none", "delivering"}
    BY <2>2, FailureElsewhere DEF ConvInv
  <2> QED
    BY <1>1, <2>1, <2>2
<1> QED
  BY <1>1, <1>2, UnmovedStories, Together

\* The queues and the run stay: only the transcript and the session have moved.
LEMMA MovedInv ==
  ASSUME ConvInv, Stories', FailureIsLast', UNCHANGED <<queue, run, task>> PROVE ConvInv'
<1>1. RestTyped' /\ OwnerRuns'
  BY DEF ConvInv, Typed, RestTyped, OwnerRuns
<1> QED
  BY <1>1, Together

LEMMA TaskSteps ==
  ASSUME ConvInv, Finish \/ \E p \in Prompts : Prompt(p) \/ TaskStep(p) PROVE ConvInv'
<1> USE DEF ConvInv
<1>1. CASE Finish
  <2>1. run.owner \in Prompts
    BY <1>1 DEF Finish, OwnerRuns
  <2>2. CASE Sleep(run.owner) /\ run.stop = "transient"
    <3>1. run' = NoRun /\ UNCHANGED <<session, reloading, disturbed>>
          /\ UNCHANGED queue /\ task' = [task EXCEPT ![run.owner] = "sleeping"]
      BY <1>1, <2>2 DEF Finish, Sleep, opVars
    <3>2. Stories'
      BY <1>1, <2>2, <3>1, SleepKeeps DEF Stories, Typed, Finish
    <3>3. NoRun \in RunType /\ NoRun.at = "none"
      BY <2>1, NewRunType, EmptySeq DEF NoRun
    <3>4. RestTyped' /\ OwnerRuns'
      BY <2>1, <3>1, <3>3 DEF RestTyped, Typed, OwnerRuns
    <3> QED
      BY <3>1, <3>2, <3>3, <3>4, FailureElsewhere, Together
  <2>3. CASE GiveUp(run.owner) /\ UNCHANGED messages
    <3>1. Unmoved /\ Continues(run.owner)
      BY <1>1, <2>1, <2>3, ContinueOrReturnContinues DEF Finish, GiveUp, Unmoved, opVars
    <3> QED
      BY <2>1, <3>1, ContinuesInv
  <2> QED
    BY <1>1, <2>2, <2>3 DEF Finish
<1>2. ASSUME NEW p \in Prompts, Prompt(p) PROVE ConvInv'
  <2>1. Unmoved /\ UNCHANGED queue /\ task[p] = "new"
    BY <1>2 DEF Prompt, Unmoved, opVars
  <2>2. RestTyped' /\ OwnerRuns' /\ (run' = run \/ run'.at = "delivering")
    <3>1. CASE is_streaming /\ task' = [task EXCEPT ![p] = "raised"] /\ UNCHANGED run
      BY <2>1, <3>1 DEF RestTyped, Typed, OwnerRuns
    <3>2. CASE task' = [task EXCEPT ![p] = "running"] /\ \E t \in Texts : run' = NewRun(p, <<t>>, TRUE)
      <4>1. \A t \in Texts : <<t>> \in Seq(Texts)
        OBVIOUS
      <4>2. \A t \in Texts : /\ NewRun(p, <<t>>, TRUE) \in RunType
                             /\ NewRun(p, <<t>>, TRUE).owner = p
                             /\ NewRun(p, <<t>>, TRUE).at = "delivering"
        BY <4>1, NewRunType
      <4>3. run' \in RunType /\ run'.owner = p /\ run'.at = "delivering"
        BY <3>2, <4>2
      <4> QED
        BY <2>1, <3>2, <4>3 DEF RestTyped, Typed, OwnerRuns
    <3> QED
      BY <1>2, <3>1, <3>2 DEF Prompt
  <2>3. FailureIsLast'
    <3>1. CASE run' = run
      BY <2>1, <3>1 DEF FailureIsLast, Unmoved
    <3>2. CASE run'.at = "delivering"
      BY <3>2, FailureElsewhere
    <3> QED
      BY <2>2, <3>1, <3>2
  <2> QED
    BY <2>1, <2>2, <2>3, UnmovedStories, Together
<1>3. ASSUME NEW p \in Prompts, Wake(p) PROVE ConvInv'
  <2>1. Unmoved /\ task[p] = "sleeping" /\ ContinueRun(p, is_streaming)
    BY <1>3 DEF Wake, Unmoved, opVars
  <2>2. is_streaming \in BOOLEAN /\ (is_streaming => run.at # "none" /\ run.owner # p)
    BY <2>1 DEF is_streaming, OwnerRuns
  <2>3. Continues(p)
    BY <2>1, <2>2, ContinueRunContinues
  <2> QED
    BY <2>1, <2>3, ContinuesInv
<1>4. ASSUME NEW p \in Prompts, WakeCancelled(p) PROVE ConvInv'
  <2>1. Unmoved /\ ContinueOrReturn(p)
    BY <1>4 DEF WakeCancelled, Unmoved, opVars
  <2> QED
    BY <2>1, ContinueOrReturnContinues, ContinuesInv
<1> QED
  BY <1>1, <1>2, <1>3, <1>4 DEF TaskStep

LEMMA ClientSteps ==
  ASSUME ConvInv,
         \/ \E lane \in Lanes, t \in Texts : Queue(lane, t)
         \/ clear_queue \/ abort \/ abort_retry \/ set_auto_retry \/ execute_bash
         \/ record_bash_result \/ UNCHANGED vars
  PROVE  ConvInv'
<1> USE DEF ConvInv
\* Only the queues change, if they do, or the run's signal.
<1> DEFINE Aside ==
      /\ Unmoved /\ UNCHANGED task /\ queue' \in [Lanes -> Seq(Texts)]
      /\ run' \in RunType /\ run'.owner = run.owner /\ run'.at = run.at /\ run'.stop = run.stop
<1>1. ASSUME Aside PROVE ConvInv'
  <2>1. RestTyped' /\ OwnerRuns' /\ FailureIsLast'
    BY <1>1 DEF RestTyped, Typed, OwnerRuns, FailureIsLast, Unmoved
  <2> QED
    BY <1>1, <2>1, UnmovedStories, Together
<1>2. ASSUME NEW lane \in Lanes, NEW t \in Texts, Queue(lane, t) PROVE ConvInv'
  <2>1. queue' = [queue EXCEPT ![lane] = Append(queue[lane], t)] /\ UNCHANGED <<run, task>>
    BY <1>2 DEF Queue
  <2>2. Append(queue[lane], t) \in Seq(Texts)
    BY DEF Typed
  <2>3. Aside
    BY <1>2, <2>1, <2>2 DEF Queue, Typed, Unmoved, opVars
  <2> QED
    BY <1>1, <2>3
<1>3. CASE clear_queue
  <2>1. Aside
    BY <1>3, EmptySeq DEF clear_queue, Typed, Unmoved, opVars
  <2> QED
    BY <1>1, <2>1
<1>4. CASE abort
  <2>1. run' \in RunType /\ run'.owner = run.owner /\ run'.at = run.at /\ run'.stop = run.stop
    BY <1>4 DEF abort, Typed, RunType
  <2>2. Aside
    BY <1>4, <2>1 DEF abort, Typed, Unmoved, opVars
  <2> QED
    BY <1>1, <2>2
<1>5. CASE abort_retry \/ set_auto_retry \/ execute_bash \/ UNCHANGED vars
  <2>1. Aside
    BY <1>5 DEF abort_retry, set_auto_retry, execute_bash, vars, opVars, Typed, Unmoved
  <2> QED
    BY <1>1, <2>1
<1>6. CASE record_bash_result
  <2>1. Bash \in Message /\ Bash.role = "bashExecution"
    BY DEF Bash, Message
  <2>2. Record(Bash) /\ UNCHANGED <<queue, run, task, reloading, disturbed>>
    BY <1>6 DEF record_bash_result
  <2>3. Records
    BY <2>1, <2>2 DEF Records
  <2>4. messages'[Len(messages')] = Bash
    BY <2>1, <2>2 DEF Record, Typed
  <2>5. FailureIsLast'
    BY <2>1, <2>4 DEF FailureIsLast
  <2> QED
    BY <2>2, <2>3, <2>5, RecordsStories, MovedInv
<1> QED
  BY <1>2, <1>3, <1>4, <1>5, <1>6

LEMMA MoveSteps ==
  ASSUME ConvInv, navigate_tree \/ ReplaceSession \/ Reloaded PROVE ConvInv'
<1> USE DEF ConvInv
<1>1. \A n \in 0..Len(session) : SubSeq(session, 1, n) \in Seq(Entry)
  BY DEF Typed
<1>2. ASSUME NEW s \in Seq(Entry), Rebuild(s), UNCHANGED <<queue, run, task>> PROVE ConvInv'
  <2>1. Stories'
    BY <1>2, RebuildKeeps DEF Stories
  \* A run under which the transcript is replaced is disturbed.
  <2>2. FailureIsLast'
    <3>1. run.at # "none" => run.owner \in InProgress
      BY DEF OwnerRuns, InProgress
    <3> QED
      BY <1>2, <3>1 DEF FailureIsLast, Rebuild
  <2> QED
    BY <1>2, <2>1, <2>2, MovedInv
<1>3. CASE navigate_tree
  BY <1>1, <1>2, <1>3 DEF navigate_tree
<1>4. CASE Reloaded
  BY <1>2, <1>4 DEF Reloaded, Typed
<1>5. CASE ReplaceSession
  <2>1. session' \in Seq(Entry) /\ reloading' = TRUE /\ UNCHANGED <<messages, queue, run, task, disturbed>>
    BY <1>1, <1>5 DEF ReplaceSession
  <2>2. Stories' /\ FailureIsLast'
    BY <2>1 DEF Stories, Typed, ConversationKept, FailureIsLast
  <2> QED
    BY <2>1, <2>2, MovedInv
<1> QED
  BY <1>3, <1>4, <1>5

(* The invariant: types, the run's owner, the failure a retry takes back, the
   conversation. *)
THEOREM ConvInvariant == Spec => []ConvInv
<1>1. Init => ConvInv
  <2> SUFFICES ASSUME Init PROVE ConvInv
    OBVIOUS
  <2>1. session \in Seq(Entry)
    <3>1. \A t \in Texts : /\ User(t) \in Entry /\ Reply(FALSE) \in Entry
                           /\ Compaction(2) \in Entry
      BY DEF User, Reply, Compaction, Message, Entry
    <3>2. \A a, b, c \in Entry : <<a, b, c>> \in Seq(Entry)
      OBVIOUS
    <3>3. \A t \in Texts : <<User(t), Reply(FALSE), Compaction(2)>> \in Seq(Entry)
      BY <3>1, <3>2
    <3> QED
      BY <3>3, EmptySeq DEF Init, Resumed
  <2>2. messages = build_session_context(session) /\ run = NoRun
    BY DEF Init
  <2>3. Stories
    BY <2>1, <2>2, BuiltType DEF Stories, ConversationKept
  <2>4. NoRun \in RunType /\ NoRun.at = "none"
    BY EmptySeq DEF NoRun, RunType
  <2>5. RestTyped /\ OwnerRuns /\ FailureIsLast
    BY <2>2, <2>4, EmptySeq DEF Init, RestTyped, OwnerRuns, FailureIsLast
  <2> QED
    BY <2>3, <2>5 DEF ConvInv, Typed, Stories, RestTyped
<1>2. ConvInv /\ [Next]_vars => ConvInv'
  BY RunSteps, TaskSteps, ClientSteps, MoveSteps, ListenerSteps DEF Next, RunStep, OpStep, ClientStep
<1> QED
  BY <1>1, <1>2, PTL DEF Spec

(* Whatever the clients do and however often a run fails and is tried again, what
   build_session_context makes of the session is the agent's conversation. *)
THEOREM ConversationIsKept == Spec => []ConversationKept
<1>1. ConvInv => ConversationKept
  BY DEF ConvInv
<1> QED
  BY <1>1, ConvInvariant, PTL

-----------------------------------------------------------------------------
(* How often a text is in a sequence. *)
One(e, t) == IF e = t THEN 1 ELSE 0

LEMMA TimesAppend ==
  ASSUME NEW s \in Seq(Texts), NEW e \in Texts, NEW t \in Texts
  PROVE  Times(s, t) \in Nat /\ Times(Append(s, e), t) = Times(s, t) + One(e, t)
<1>1. Chosen(s, {t}) \in Seq(Texts)
  BY ChosenType
<1>2. Chosen(Append(s, e), {t}) = IF e \in {t} THEN Append(Chosen(s, {t}), e) ELSE Chosen(s, {t})
  BY ChosenAppend
<1>3. CASE e = t
  BY <1>1, <1>2, <1>3 DEF Times, One
<1>4. CASE e # t
  BY <1>1, <1>2, <1>4 DEF Times, One
<1> QED
  BY <1>3, <1>4

LEMMA TimesNat ==
  ASSUME NEW s \in Seq(Texts), NEW t \in Texts
  PROVE  Times(s, t) \in Nat /\ Times(<<>>, t) = 0
<1>1. Chosen(s, {t}) \in Seq(Texts)
  BY ChosenType
<1> QED
  BY <1>1, ChosenNothing DEF Times

LEMMA TimesConcat ==
  ASSUME NEW a \in Seq(Texts), NEW b \in Seq(Texts), NEW t \in Texts
  PROVE  Times(a \o b, t) = Times(a, t) + Times(b, t)
<1>1. Chosen(a, {t}) \in Seq(Texts) /\ Chosen(b, {t}) \in Seq(Texts)
  BY ChosenType
<1>2. Chosen(a \o b, {t}) = Chosen(a, {t}) \o Chosen(b, {t})
  BY ChosenConcat
<1> QED
  BY <1>1, <1>2 DEF Times

LEMMA TimesCut ==
  ASSUME NEW s \in Seq(Texts), NEW n \in 0..Len(s), NEW t \in Texts
  PROVE  Times(SubSeq(s, 1, n), t) + Times(SubSeq(s, n + 1, Len(s)), t) = Times(s, t)
<1> DEFINE a == SubSeq(s, 1, n)
           b == SubSeq(s, n + 1, Len(s))
<1>1. /\ a \in Seq(Texts) /\ Len(a) = n /\ \A i \in 1..n : a[i] = s[i]
      /\ b \in Seq(Texts) /\ Len(b) = Len(s) - n /\ \A i \in 1..Len(s) - n : b[i] = s[n + i]
  OBVIOUS
<1> HIDE DEF a, b
<1>2. a \o b = s
  <2>1. a \o b \in Seq(Texts) /\ Len(a \o b) = Len(s)
    BY <1>1
  <2>2. ASSUME NEW i \in 1..Len(s) PROVE (a \o b)[i] = s[i]
    <3>1. CASE i \in 1..n
      BY <1>1, <3>1
    <3>2. CASE i - n \in 1..Len(s) - n
      <4>1. (a \o b)[n + (i - n)] = b[i - n] /\ b[i - n] = s[n + (i - n)] /\ n + (i - n) = i
        BY <1>1, <3>2
      <4> QED
        BY <4>1
    <3>3. i \in 1..n \/ i - n \in 1..Len(s) - n
      OBVIOUS
    <3> QED
      BY <3>1, <3>2, <3>3
  <2> QED
    BY <2>1, <2>2, SeqEqual
<1> QED
  BY <1>1, <1>2, TimesConcat DEF a, b

LEMMA TimesOne ==
  ASSUME NEW e \in Texts, NEW t \in Texts PROVE Times(<<e>>, t) = One(e, t)
<1>1. <<>> \in Seq(Texts) /\ Append(<<>>, e) = <<e>>
  BY EmptySeq
<1>2. Times(Append(<<>>, e), t) = Times(<<>>, t) + One(e, t)
  BY <1>1, TimesAppend
<1>3. Times(<<>>, t) = 0
  BY <1>1, TimesNat
<1> QED
  BY <1>1, <1>2, <1>3 DEF One

LEMMA TimesHead ==
  ASSUME NEW s \in Seq(Texts), s # <<>>, NEW t \in Texts
  PROVE  /\ Head(s) \in Texts /\ Tail(s) \in Seq(Texts)
         /\ Times(s, t) = One(Head(s), t) + Times(Tail(s), t)
<1>1. Head(s) \in Texts /\ Tail(s) \in Seq(Texts) /\ s = <<Head(s)>> \o Tail(s)
  OBVIOUS
<1>2. <<Head(s)>> \in Seq(Texts)
  BY <1>1
<1> QED
  BY <1>1, <1>2, TimesConcat, TimesOne

(* A text that is taken off was there, and one is taken. *)
LEMMA TimesWithout ==
  ASSUME NEW s \in Seq(Texts), NEW e \in Texts, Has(s, e), NEW t \in Texts
  PROVE  /\ Without(s, e) \in Seq(Texts)
         /\ Times(s, t) = Times(Without(s, e), t) + One(e, t)
<1> DEFINE P == {j \in DOMAIN s : s[j] = e}
           i == Min(P)
           a == SubSeq(s, 1, i - 1)
           b == SubSeq(s, i + 1, Len(s))
           c == SubSeq(s, i, Len(s))
<1>1. i \in P
  <2>1. P \in SUBSET Nat /\ P # {}
    BY DEF Has
  <2> HIDE DEF P
  <2>2. PICK x \in P : \A y \in P : ~(<<y, x>> \in OpToRel(<, Nat))
    BY <2>1, WFMin, NatLessThanWellFounded
  <2>3. ASSUME NEW y \in P PROVE x <= y
    <3>1. x \in Nat /\ y \in Nat
      BY <2>1
    <3>2. ~(<<y, x>> \in OpToRel(<, Nat))
      BY <2>2
    <3>3. ~(y < x)
      BY <3>1, <3>2 DEF OpToRel
    <3> QED
      BY <3>1, <3>3
  <2> QED
    BY <2>3 DEF Min
<1>2. i \in 1..Len(s) /\ s[i] = e
  BY <1>1
<1> HIDE DEF i
<1>3. a \in Seq(Texts) /\ b \in Seq(Texts) /\ c \in Seq(Texts) /\ i - 1 \in 0..Len(s)
  <2>1. i - 1 \in 0..Len(s) /\ Len(s) \in Nat
    BY <1>2
  <2>2. a \in Seq(Texts)
    BY <1>2, <2>1
  <2>3. b \in Seq(Texts)
    BY <1>2, <2>1
  <2>4. c \in Seq(Texts)
    BY <1>2, <2>1
  <2> QED
    BY <2>1, <2>2, <2>3, <2>4
<1>4. c # <<>> /\ Head(c) = e /\ Tail(c) = b
  <2>1. Len(c) = Len(s) - i + 1 /\ \A j \in 1..Len(s) - i + 1 : c[j] = s[i + j - 1]
    BY <1>2
  <2>2. Len(b) = Len(s) - i /\ \A j \in 1..Len(s) - i : b[j] = s[i + j]
    BY <1>2
  <2> HIDE DEF a, b, c
  <2>3. c # <<>> /\ Head(c) = e
    BY <1>2, <1>3, <2>1
  <2>4. Tail(c) \in Seq(Texts) /\ Len(Tail(c)) = Len(s) - i
        /\ \A j \in 1..Len(s) - i : Tail(c)[j] = c[j + 1]
    BY <1>2, <1>3, <2>1
  <2>5. \A j \in 1..Len(s) - i : Tail(c)[j] = b[j]
    BY <1>2, <2>1, <2>2, <2>4
  <2>6. Tail(c) = b
    BY <1>2, <1>3, <2>2, <2>4, <2>5, SeqEqual
  <2> QED
    BY <2>3, <2>6
<1>5. Times(c, t) = One(e, t) + Times(b, t)
  BY <1>3, <1>4, TimesHead
<1>6. Times(s, t) = Times(a, t) + Times(c, t)
  <2>1. Times(SubSeq(s, 1, i - 1), t) + Times(SubSeq(s, (i - 1) + 1, Len(s)), t) = Times(s, t)
    BY <1>3, TimesCut
  <2>2. (i - 1) + 1 = i
    BY <1>2
  <2> QED
    BY <2>1, <2>2
<1>7. Without(s, e) = a \o b
  BY DEF Without, i
<1>8. Times(a, t) \in Nat /\ Times(b, t) \in Nat /\ One(e, t) \in Nat
  BY <1>3, TimesNat DEF One
<1> HIDE DEF a, b, c
<1>9. Times(a \o b, t) = Times(a, t) + Times(b, t) /\ a \o b \in Seq(Texts)
  BY <1>3, TimesConcat
<1> QED
  BY <1>5, <1>6, <1>7, <1>8, <1>9

LEMMA TimesHas ==
  ASSUME NEW s \in Seq(Texts), NEW t \in Texts, ~Has(s, t) PROVE Times(s, t) = 0
<1>1. \A i \in 1..Len(s) : s[i] \in Texts \ {t}
  BY DEF Has
<1>2. s \in Seq(Texts \ {t})
  BY <1>1
<1>3. (Texts \ {t}) \cap {t} = {}
  OBVIOUS
<1>4. Chosen(s, {t}) = <<>>
  BY <1>2, <1>3, ChosenNone
<1> QED
  BY <1>4 DEF Times

-----------------------------------------------------------------------------
(* What is shown as pending, and what is. *)
Showing(t) == Times(shown["steer"], t) + Times(shown["followUp"], t)
Pending(t) == Times(queue["steer"], t) + Times(queue["followUp"], t) + Times(run.todo, t)
ShownType == shown \in [Lanes -> Seq(Texts)]
\* Drained messages are with a run that delivers them.
TodoDelivered == run.at # "delivering" => run.todo = <<>>
PendInv == ShownType /\ TodoDelivered /\ ShownIsPending

LEMMA SumsAreNat ==
  ASSUME Typed, ShownType, NEW t \in Texts
  PROVE  Showing(t) \in Nat /\ Pending(t) \in Nat
<1>1. \A l \in Lanes : queue[l] \in Seq(Texts) /\ shown[l] \in Seq(Texts)
  BY DEF Typed, ShownType
<1>2. run.todo \in Seq(Texts)
  BY DEF Typed, RunType
<1>3. \A s \in Seq(Texts) : Times(s, t) \in Nat
  BY TimesNat
<1>4. "steer" \in Lanes /\ "followUp" \in Lanes
  BY DEF Lanes
<1> QED
  BY <1>1, <1>2, <1>3, <1>4 DEF Showing, Pending

LEMMA DrainKeepsPending ==
  ASSUME Typed, NEW lane \in Lanes, NEW r \in RunType, Drain(lane, r), run.todo = <<>>,
         NEW t \in Texts
  PROVE  Pending(t)' = Pending(t)
<1> DEFINE q == queue[lane]
<1>1. q \in Seq(Texts) /\ q # <<>> /\ queue \in [Lanes -> Seq(Texts)]
  BY DEF Drain, Typed
<1>2. PICK n \in {1, Len(q)} :
        /\ queue' = [queue EXCEPT ![lane] = SubSeq(q, n + 1, Len(q))]
        /\ run' = [r EXCEPT !.todo = SubSeq(q, 1, n)]
  BY DEF Drain
<1> HIDE DEF q
<1>3. Len(q) \in Nat \ {0} /\ n \in 0..Len(q)
  BY <1>1
<1>4. Times(SubSeq(q, 1, n), t) + Times(SubSeq(q, n + 1, Len(q)), t) = Times(q, t)
  BY <1>1, <1>3, TimesCut
<1>5. SubSeq(q, 1, n) \in Seq(Texts) /\ SubSeq(q, n + 1, Len(q)) \in Seq(Texts)
  BY <1>1, <1>3
<1>6. run'.todo = SubSeq(q, 1, n)
  BY <1>2 DEF RunType
<1>7. Times(run.todo, t) = 0
  BY TimesNat, EmptySeq
<1>8. ASSUME NEW other \in Lanes, other # lane
      PROVE  Times(queue'[lane], t) + Times(queue'[other], t) + Times(run'.todo, t)
               = Times(queue[lane], t) + Times(queue[other], t) + Times(run.todo, t)
  <2>1. queue'[lane] = SubSeq(q, n + 1, Len(q)) /\ queue'[other] = queue[other]
    BY <1>1, <1>2, <1>8
  <2>2. Times(queue[other], t) \in Nat /\ Times(SubSeq(q, 1, n), t) \in Nat
        /\ Times(SubSeq(q, n + 1, Len(q)), t) \in Nat
    BY <1>1, <1>5, TimesNat
  <2> QED
    BY <1>4, <1>6, <1>7, <2>1, <2>2 DEF q
<1>9. ASSUME NEW a \in Lanes, NEW b \in Lanes
      PROVE  Times(queue[a], t) \in Nat /\ Times(queue'[a], t) \in Nat
  <2>1. queue' \in [Lanes -> Seq(Texts)]
    BY <1>1, <1>2, <1>5
  <2> QED
    BY <1>1, <2>1, TimesNat
<1>10. Lanes = {"steer", "followUp"} /\ "steer" # "followUp"
  BY DEF Lanes
<1>11. CASE lane = "steer"
  BY <1>8, <1>10, <1>11 DEF Pending
<1>12. CASE lane = "followUp"
  <2>1. Times(queue'["followUp"], t) + Times(queue'["steer"], t) + Times(run'.todo, t)
          = Times(queue["followUp"], t) + Times(queue["steer"], t) + Times(run.todo, t)
    BY <1>8, <1>10, <1>12
  <2> QED
    BY <1>9, <1>10, <2>1 DEF Pending
<1> QED
  BY <1>10, <1>11, <1>12

(* What is shown stays and what is pending does not lose: nothing more is shown. *)
LEMMA PendingStays ==
  ASSUME PendInv, Typed, Typed', UNCHANGED shown, lost => lost', TodoDelivered',
         \A t \in Texts : Pending(t)' >= Pending(t)
  PROVE  PendInv'
<1>1. ShownType'
  BY DEF PendInv, ShownType
<1>2. \A t \in Texts : Showing(t)' = Showing(t)
  BY DEF Showing
<1>3. \A t \in Texts : Showing(t) \in Nat /\ Pending(t) \in Nat
  BY SumsAreNat DEF PendInv
<1>4. \A t \in Texts : Pending(t)' \in Nat
  <2> SUFFICES ASSUME NEW t \in Texts PROVE Pending(t)' \in Nat
    OBVIOUS
  <2>1. \A l \in Lanes : queue'[l] \in Seq(Texts)
    BY DEF Typed
  <2>2. run'.todo \in Seq(Texts)
    BY DEF Typed, RunType
  <2>3. \A s \in Seq(Texts) : Times(s, t) \in Nat
    BY TimesNat
  <2> QED
    BY <2>1, <2>2, <2>3 DEF Pending, Lanes
<1>5. ShownIsPending'
  <2>1. ~lost' => \A t \in Texts : Showing(t) <= Pending(t)
    BY DEF PendInv, ShownIsPending, Showing, Pending
  <2>2. ~lost' => \A t \in Texts : Showing(t)' <= Pending(t)'
    BY <1>2, <1>3, <1>4, <2>1
  <2> QED
    BY <2>2 DEF ShownIsPending, Showing, Pending
<1> QED
  BY <1>1, <1>5 DEF PendInv

LEMMA PendingSame ==
  ASSUME Typed, UNCHANGED <<queue, run>>
  PROVE  \A t \in Texts : Pending(t)' = Pending(t)
BY DEF Pending

(* continue_run drains or leaves, and starts when no run has drained. *)
LEMMA ContinueRunPending ==
  ASSUME Typed, TodoDelivered, NEW p \in Prompts, NEW busy \in BOOLEAN, ContinueRun(p, busy),
         ~busy => run.todo = <<>>
  PROVE  TodoDelivered' /\ \A t \in Texts : Pending(t)' = Pending(t)
<1>1. NoRun \in RunType /\ NoRun.todo = <<>>
  BY NewRunType, EmptySeq DEF NoRun
<1>2. \A first \in BOOLEAN :
        /\ NewRun(p, <<>>, first) \in RunType /\ NewRun(p, <<>>, first).at = "delivering"
        /\ NewRun(p, <<>>, first).todo = <<>>
  BY NewRunType, EmptySeq DEF NewRun, NoRun
<1>3. CASE UNCHANGED queue /\ run' = run
  BY <1>3 DEF TodoDelivered, Pending
<1>4. CASE run.todo = <<>> /\ UNCHANGED queue /\ run'.todo = <<>>
  BY <1>4 DEF TodoDelivered, Pending
<1>5. ASSUME run.todo = <<>>, NEW lane \in Lanes, NEW first \in BOOLEAN,
             Drain(lane, NewRun(p, <<>>, first))
      PROVE  TodoDelivered' /\ \A t \in Texts : Pending(t)' = Pending(t)
  <2>1. run'.at = "delivering"
    BY <1>2, <1>5, DrainType DEF Typed
  <2> QED
    BY <1>2, <1>5, <2>1, DrainKeepsPending DEF TodoDelivered
<1>6. \/ UNCHANGED queue /\ run' = IF busy THEN run ELSE NoRun
      \/ /\ ~busy
         /\ \/ run' = NewRun(p, <<>>, TRUE) /\ UNCHANGED queue
            \/ Drain("steer", NewRun(p, <<>>, FALSE))
            \/ Drain("followUp", NewRun(p, <<>>, TRUE))
  BY DEF ContinueRun
<1>7. "steer" \in Lanes /\ "followUp" \in Lanes
  BY DEF Lanes
<1> QED
  BY <1>1, <1>2, <1>3, <1>4, <1>5, <1>6, <1>7

(* A message that is delivered is drained no more, and one of its text shown no more. *)
LEMMA DeliverPending ==
  ASSUME Typed, Typed', PendInv, Deliver PROVE PendInv'
<1> DEFINE e == Head(run.todo)
<1>1. /\ run.at = "delivering" /\ run.todo \in Seq(Texts) /\ run.todo # <<>>
      /\ RemoveDelivered(e) /\ run' = [run EXCEPT !.todo = Tail(@)]
      /\ UNCHANGED <<queue, lost>>
  BY DEF Deliver, Typed, RunType
<1>2. e \in Texts /\ \A t \in Texts : Times(run.todo, t) = One(e, t) + Times(Tail(run.todo), t)
  BY <1>1, TimesHead
<1>3. run'.todo = Tail(run.todo) /\ run'.at = "delivering"
  BY <1>1 DEF Typed, RunType
<1> HIDE DEF e
<1>4. \A l \in Lanes : shown[l] \in Seq(Texts)
  BY DEF PendInv, ShownType
<1>5. "steer" \in Lanes /\ "followUp" \in Lanes /\ "steer" # "followUp"
  BY DEF Lanes
<1>6. ASSUME NEW t \in Texts
      PROVE  /\ Showing(t) \in Nat /\ Pending(t) \in Nat /\ Pending(t)' \in Nat
             /\ Pending(t) = Pending(t)' + One(e, t) /\ One(e, t) \in Nat
  <2>1. Showing(t) \in Nat /\ Pending(t) \in Nat
    BY SumsAreNat DEF PendInv
  <2>2. \A l \in Lanes : queue[l] \in Seq(Texts)
    BY DEF Typed
  <2>3. Tail(run.todo) \in Seq(Texts)
    BY <1>1
  <2>4. /\ Times(queue["steer"], t) \in Nat /\ Times(queue["followUp"], t) \in Nat
        /\ Times(Tail(run.todo), t) \in Nat
    BY <1>5, <2>2, <2>3, TimesNat
  <2>5. One(e, t) \in Nat
    BY DEF One
  <2>6. /\ Pending(t)' = Times(queue["steer"], t) + Times(queue["followUp"], t) + Times(Tail(run.todo), t)
        /\ Pending(t) = Times(queue["steer"], t) + Times(queue["followUp"], t) + Times(run.todo, t)
    BY <1>1, <1>3 DEF Pending
  <2> QED
    BY <1>2, <2>1, <2>4, <2>5, <2>6
<1>7. ASSUME NEW l \in Lanes, Has(shown[l], e), shown' = [shown EXCEPT ![l] = Without(@, e)]
      PROVE  ShownType' /\ \A t \in Texts : Showing(t) = Showing(t)' + One(e, t) /\ Showing(t)' \in Nat
  <2>1. /\ Without(shown[l], e) \in Seq(Texts)
        /\ \A t \in Texts : Times(shown[l], t) = Times(Without(shown[l], e), t) + One(e, t)
    BY <1>2, <1>4, <1>7, TimesWithout
  <2>2. ShownType'
    BY <1>7, <2>1 DEF PendInv, ShownType
  <2>3. ASSUME NEW t \in Texts PROVE Showing(t) = Showing(t)' + One(e, t) /\ Showing(t)' \in Nat
    <3>1. \A k \in Lanes : Times(shown[k], t) \in Nat /\ Times(shown'[k], t) \in Nat
      BY <1>4, <2>2, TimesNat DEF ShownType
    <3>2. /\ Times(shown[l], t) = Times(shown'[l], t) + One(e, t)
          /\ \A k \in Lanes : k # l => shown'[k] = shown[k]
      BY <1>7, <2>1 DEF PendInv, ShownType
    <3>3. CASE l = "steer"
      <4>1. Times(shown'["followUp"], t) = Times(shown["followUp"], t)
        BY <1>5, <3>2, <3>3
      <4> QED
        BY <1>5, <1>6, <3>1, <3>2, <3>3, <4>1 DEF Showing
    <3>4. CASE l = "followUp"
      <4>1. Times(shown'["steer"], t) = Times(shown["steer"], t)
        BY <1>5, <3>2, <3>4
      <4> QED
        BY <1>5, <1>6, <3>1, <3>2, <3>4, <4>1 DEF Showing
    <3> QED
      BY <3>3, <3>4 DEF Lanes
  <2> QED
    BY <2>2, <2>3
<1>8. CASE UNCHANGED shown /\ \A l \in Lanes : ~Has(shown[l], e)
  <2>1. Showing(e) = 0
    BY <1>2, <1>4, <1>5, <1>8, TimesHas DEF Showing
  <2>2. \A t \in Texts : Showing(t)' = Showing(t)
    BY <1>8 DEF Showing
  <2>3. ShownType'
    BY <1>8 DEF PendInv, ShownType
  <2>4. ~lost => \A t \in Texts : Showing(t) <= Pending(t)
    BY DEF PendInv, ShownIsPending, Showing, Pending
  <2>5. ASSUME ~lost, NEW t \in Texts PROVE Showing(t)' <= Pending(t)'
    <3>1. CASE t = e
      BY <1>6, <2>1, <2>2, <3>1
    <3>2. CASE t # e
      <4>1. One(e, t) = 0
        BY <3>2 DEF One
      <4> QED
        BY <1>6, <2>2, <2>4, <2>5, <4>1
    <3> QED
      BY <3>1, <3>2
  <2> QED
    BY <1>1, <1>3, <2>3, <2>5 DEF PendInv, TodoDelivered, ShownIsPending, Showing, Pending
<1>9. CASE \E l \in Lanes : Has(shown[l], e) /\ shown' = [shown EXCEPT ![l] = Without(@, e)]
  <2>1. ShownType' /\ \A t \in Texts : Showing(t) = Showing(t)' + One(e, t) /\ Showing(t)' \in Nat
    BY <1>7, <1>9
  <2>2. ~lost => \A t \in Texts : Showing(t) <= Pending(t)
    BY DEF PendInv, ShownIsPending, Showing, Pending
  <2>3. ~lost => \A t \in Texts : Showing(t)' <= Pending(t)'
    BY <1>6, <2>1, <2>2
  <2> QED
    BY <1>1, <1>3, <2>1, <2>3 DEF PendInv, TodoDelivered, ShownIsPending, Showing, Pending
<1> QED
  BY <1>1, <1>5, <1>8, <1>9 DEF RemoveDelivered, Lanes

(* The other steps of a run: what is shown stays, what is drained stays pending. *)
LEMMA RunPending ==
  ASSUME Typed, Typed', PendInv, Ask \/ Replies \/ AfterReply \/ ToolsEnd PROVE PendInv'
<1> DEFINE Keeps == TodoDelivered' /\ \A t \in Texts : Pending(t)' = Pending(t)
<1>1. UNCHANGED shown /\ lost' = lost /\ run.todo = <<>>
  <2>1. run.todo = <<>>
    BY DEF Ask, Replies, AfterReply, ToolsEnd, PendInv, TodoDelivered
  <2>2. UNCHANGED shown /\ lost' = lost
    BY DEF Ask, Replies, AfterReply, ToolsEnd
  <2> QED
    BY <2>1, <2>2
<1>2. ASSUME NEW lane \in Lanes, NEW r \in RunType, r.at = "delivering", Drain(lane, r) PROVE Keeps
  <2>1. run'.at = "delivering"
    BY <1>2, DrainType DEF Typed
  <2> QED
    BY <1>1, <1>2, <2>1, DrainKeepsPending DEF TodoDelivered
<1>3. ASSUME UNCHANGED queue, run'.todo = run.todo PROVE Keeps
  BY <1>1, <1>3 DEF TodoDelivered, Pending
<1> HIDE DEF Keeps
<1>4. \A pc : [run EXCEPT !.at = pc].todo = run.todo
  BY DEF Typed, RunType
<1>5. /\ [run EXCEPT !.at = "delivering"] \in RunType
      /\ [run EXCEPT !.at = "delivering"].at = "delivering"
      /\ run.at = "delivering" =>
           [run EXCEPT !.first = FALSE] \in RunType /\ [run EXCEPT !.first = FALSE].at = "delivering"
  BY DEF Typed, RunType
<1>6. "steer" \in Lanes /\ "followUp" \in Lanes
  BY DEF Lanes
<1>7. ASSUME Ask PROVE Keeps
  BY <1>2, <1>3, <1>4, <1>5, <1>6, <1>7 DEF Ask, DrainOr
<1>8. ASSUME Replies PROVE Keeps
  <2>1. UNCHANGED queue /\ run'.todo = run.todo
    BY <1>8 DEF Replies, Typed, RunType
  <2> QED
    BY <1>3, <2>1
<1>9. ASSUME AfterReply PROVE Keeps
  <2>1. \/ Drain("steer", [run EXCEPT !.at = "delivering"])
        \/ Drain("followUp", [run EXCEPT !.at = "delivering"])
        \/ UNCHANGED queue /\ \E pc \in {"tools", "ending"} : run' = [run EXCEPT !.at = pc]
    BY <1>9 DEF AfterReply, PollFollowUp, DrainOr
  <2> QED
    BY <1>2, <1>3, <1>4, <1>5, <1>6, <2>1
<1>10. ASSUME ToolsEnd PROVE Keeps
  BY <1>2, <1>3, <1>4, <1>5, <1>6, <1>10 DEF ToolsEnd, DrainOr
<1>11. Keeps
  BY <1>7, <1>8, <1>9, <1>10
<1>12. \A t \in Texts : Pending(t)' >= Pending(t)
  BY <1>11, SumsAreNat DEF PendInv, Keeps
<1> QED
  BY <1>1, <1>11, <1>12, PendingStays DEF Keeps

(* A prompt() that begins, continues or returns. *)
LEMMA TaskPending ==
  ASSUME Typed, Typed', OwnerRuns, PendInv, Finish \/ \E p \in Prompts : Prompt(p) \/ TaskStep(p)
  PROVE  PendInv'
<1>1. UNCHANGED shown /\ lost' = lost /\ TodoDelivered
  BY DEF Finish, Prompt, TaskStep, Wake, WakeCancelled, PendInv
<1>2. ASSUME TodoDelivered', \A t \in Texts : Pending(t)' = Pending(t) PROVE PendInv'
  <2>1. \A t \in Texts : Pending(t)' >= Pending(t)
    BY <1>2, SumsAreNat DEF PendInv
  <2> QED
    BY <1>1, <1>2, <2>1, PendingStays
<1>3. NoRun.todo = <<>> /\ NoRun.at = "none"
  BY DEF NoRun
<1>4. ASSUME UNCHANGED queue, run' \in {run, NoRun}, run' # run => run.todo = <<>> PROVE PendInv'
  <2>1. TodoDelivered' /\ \A t \in Texts : Pending(t)' = Pending(t)
    <3>1. CASE run' = run
      BY <1>1, <1>4, <3>1 DEF TodoDelivered, Pending
    <3>2. CASE run' = NoRun /\ run.todo = <<>>
      BY <1>3, <1>4, <3>2 DEF TodoDelivered, Pending
    <3> QED
      BY <1>4, <3>1, <3>2
  <2> QED
    BY <1>2, <2>1
<1>5. ASSUME NEW p \in Prompts, ContinueOrReturn(p),
             run.at # "none" /\ run.owner = p => run.todo = <<>>
      PROVE  PendInv'
  <2>1. run.at = "none" => run.todo = <<>>
    BY <1>1 DEF TodoDelivered
  <2>2. CASE \E l \in Lanes : queue[l] # <<>>
    <3>1. ContinueRun(p, is_streaming /\ run.owner # p)
      BY <1>5, <2>2 DEF ContinueOrReturn
    <3>2. (is_streaming /\ run.owner # p) \in BOOLEAN
          /\ (~(is_streaming /\ run.owner # p) => run.todo = <<>>)
      BY <1>5, <2>1 DEF is_streaming
    <3> QED
      BY <1>1, <1>2, <3>1, <3>2, ContinueRunPending
  <2>3. CASE ~\E l \in Lanes : queue[l] # <<>>
    BY <1>4, <1>5, <2>1, <2>3 DEF ContinueOrReturn
  <2> QED
    BY <2>2, <2>3
<1>6. CASE Finish
  <2>1. run.owner \in Prompts /\ run.todo = <<>>
    BY <1>1, <1>6 DEF Finish, OwnerRuns, TodoDelivered
  <2>2. CASE Sleep(run.owner)
    BY <1>4, <2>1, <2>2 DEF Sleep
  <2>3. CASE GiveUp(run.owner)
    BY <1>5, <2>1, <2>3 DEF GiveUp
  <2> QED
    BY <1>6, <2>2, <2>3 DEF Finish
<1>7. ASSUME NEW p \in Prompts, Prompt(p) PROVE PendInv'
  <2>1. CASE UNCHANGED run
    BY <1>4, <1>7, <2>1 DEF Prompt
  <2>2. CASE ~is_streaming /\ \E t \in Texts : run' = NewRun(p, <<t>>, TRUE)
    <3>1. run.todo = <<>> /\ UNCHANGED queue
      BY <1>1, <1>7, <2>2 DEF is_streaming, TodoDelivered, Prompt
    <3>2. PICK u \in Texts : run' = NewRun(p, <<u>>, TRUE)
      BY <2>2
    <3>3. <<u>> \in Seq(Texts)
      OBVIOUS
    <3>4. run'.at = "delivering" /\ run'.todo \in Seq(Texts)
      <4>1. run' \in RunType /\ run'.at = "delivering"
        BY <3>2, <3>3, NewRunType
      <4> QED
        BY <4>1 DEF RunType
    <3>5. \A t \in Texts : Pending(t)' >= Pending(t)
      <4> SUFFICES ASSUME NEW t \in Texts PROVE Pending(t)' >= Pending(t)
        OBVIOUS
      <4>1. Times(run.todo, t) = 0 /\ Times(run'.todo, t) \in Nat
        BY <3>1, <3>4, TimesNat
      <4>2. Times(queue["steer"], t) \in Nat /\ Times(queue["followUp"], t) \in Nat
        BY TimesNat DEF Typed, Lanes
      <4> QED
        BY <3>1, <4>1, <4>2 DEF Pending
    <3>6. TodoDelivered'
      BY <3>4 DEF TodoDelivered
    <3> QED
      BY <1>1, <3>5, <3>6, PendingStays
  <2> QED
    BY <1>7, <2>1, <2>2 DEF Prompt
<1>8. ASSUME NEW p \in Prompts, Wake(p) PROVE PendInv'
  <2>1. /\ ContinueRun(p, is_streaming) /\ is_streaming \in BOOLEAN
        /\ (~is_streaming => run.todo = <<>>)
    BY <1>1, <1>8 DEF Wake, is_streaming, TodoDelivered
  <2> QED
    BY <1>1, <1>2, <2>1, ContinueRunPending
<1>9. ASSUME NEW p \in Prompts, WakeCancelled(p) PROVE PendInv'
  <2>1. ContinueOrReturn(p) /\ ~(run.at # "none" /\ run.owner = p)
    BY <1>9 DEF WakeCancelled, OwnerRuns
  <2> QED
    BY <1>5, <2>1
<1> QED
  BY <1>6, <1>7, <1>8, <1>9 DEF TaskStep

(* Clients queue, clear and abort; a listener raises. *)
LEMMA ClientPending ==
  ASSUME Typed, Typed', PendInv, ClientStep \/ OpStep \/ UNCHANGED vars,
         ~\E p \in Prompts : Prompt(p)
  PROVE  PendInv'
<1>1. ShownType /\ TodoDelivered /\ ShownIsPending
  BY DEF PendInv
<1>2. \A t \in Texts : Showing(t) \in Nat /\ Pending(t) \in Nat
  BY <1>1, SumsAreNat
<1>3. ASSUME NEW lane \in Lanes, NEW u \in Texts, Queue(lane, u) PROVE PendInv'
  <2>1. /\ shown' = [shown EXCEPT ![lane] = Append(shown[lane], u)]
        /\ queue' = [queue EXCEPT ![lane] = Append(queue[lane], u)] /\ UNCHANGED <<run, lost>>
    BY <1>3 DEF Queue
  <2>2. /\ shown \in [Lanes -> Seq(Texts)] /\ queue \in [Lanes -> Seq(Texts)]
        /\ Append(shown[lane], u) \in Seq(Texts) /\ Append(queue[lane], u) \in Seq(Texts)
    BY <1>1 DEF ShownType, Typed
  <2>3. ShownType' /\ TodoDelivered'
    BY <1>1, <2>1, <2>2 DEF ShownType, TodoDelivered
  <2>4. ASSUME NEW t \in Texts
        PROVE  /\ Showing(t)' = Showing(t) + One(u, t) /\ Pending(t)' = Pending(t) + One(u, t)
               /\ One(u, t) \in Nat
    <3>1. /\ Times(shown'[lane], t) = Times(shown[lane], t) + One(u, t)
          /\ Times(queue'[lane], t) = Times(queue[lane], t) + One(u, t)
          /\ \A l \in Lanes : l # lane => shown'[l] = shown[l] /\ queue'[l] = queue[l]
      BY <2>1, <2>2, TimesAppend
    <3>2. \A l \in Lanes : Times(shown[l], t) \in Nat /\ Times(queue[l], t) \in Nat
      BY <2>2, TimesNat
    <3>3. One(u, t) \in Nat /\ Times(run.todo, t) \in Nat
      BY TimesNat DEF One, Typed, RunType
    <3>4. "steer" \in Lanes /\ "followUp" \in Lanes /\ "steer" # "followUp"
      BY DEF Lanes
    <3>5. CASE lane = "steer"
      <4>1. shown'["followUp"] = shown["followUp"] /\ queue'["followUp"] = queue["followUp"]
        BY <3>1, <3>4, <3>5
      <4> QED
        BY <2>1, <3>1, <3>2, <3>3, <3>4, <3>5, <4>1 DEF Showing, Pending
    <3>6. CASE lane = "followUp"
      <4>1. shown'["steer"] = shown["steer"] /\ queue'["steer"] = queue["steer"]
        BY <3>1, <3>4, <3>6
      <4> QED
        BY <2>1, <3>1, <3>2, <3>3, <3>4, <3>6, <4>1 DEF Showing, Pending
    <3> QED
      BY <3>5, <3>6 DEF Lanes
  <2>5. ~lost => \A t \in Texts : Showing(t) <= Pending(t)
    BY <1>1 DEF ShownIsPending, Showing, Pending
  <2>6. ~lost' => \A t \in Texts : Showing(t)' <= Pending(t)'
    BY <1>2, <2>1, <2>4, <2>5
  <2> QED
    BY <2>3, <2>6 DEF PendInv, ShownIsPending, Showing, Pending
<1>4. CASE clear_queue
  <2>1. shown' = [l \in Lanes |-> <<>>] /\ UNCHANGED run
    BY <1>4 DEF clear_queue
  <2>2. ShownType' /\ TodoDelivered'
    BY <1>1, <2>1, EmptySeq DEF ShownType, TodoDelivered
  <2>3. \A t \in Texts : Showing(t)' = 0 /\ Pending(t)' \in Nat
    <3> SUFFICES ASSUME NEW t \in Texts PROVE Showing(t)' = 0 /\ Pending(t)' \in Nat
      OBVIOUS
    <3>1. shown'["steer"] = <<>> /\ shown'["followUp"] = <<>>
      BY <2>1 DEF Lanes
    <3>2. Times(<<>>, t) = 0
      BY EmptySeq, TimesNat
    <3>3. Showing(t)' = 0
      BY <3>1, <3>2 DEF Showing
    <3>4. \A l \in Lanes : queue'[l] \in Seq(Texts)
      BY DEF Typed
    <3>5. run'.todo \in Seq(Texts)
      BY DEF Typed, RunType
    <3>6. \A s \in Seq(Texts) : Times(s, t) \in Nat
      BY TimesNat
    <3> QED
      BY <3>3, <3>4, <3>5, <3>6 DEF Pending, Lanes
  <2>4. \A t \in Texts : Showing(t)' <= Pending(t)'
    BY <2>3
  <2> QED
    BY <2>2, <2>4 DEF PendInv, ShownIsPending, Showing, Pending
<1>5. ASSUME UNCHANGED <<shown, queue>>, lost => lost', run'.todo = run.todo, run'.at = run.at
      PROVE  PendInv'
  BY <1>1, <1>5 DEF PendInv, ShownType, TodoDelivered, ShownIsPending
<1>6. CASE abort
  <2>1. run'.todo = run.todo /\ run'.at = run.at
    BY <1>6 DEF abort, Typed, RunType
  <2> QED
    BY <1>5, <1>6, <2>1 DEF abort
<1>7. CASE \/ abort_retry \/ set_auto_retry \/ execute_bash \/ navigate_tree \/ ReplaceSession
           \/ OpStep \/ UNCHANGED vars
  BY <1>5, <1>7 DEF abort_retry, set_auto_retry, execute_bash, navigate_tree, ReplaceSession,
                    OpStep, record_bash_result, Reloaded, vars
\* A run that fails with drained messages has lost them; another had drained none.
<1>8. ASSUME UNCHANGED <<shown, queue>>, lost' = (lost \/ run.todo # <<>>), run'.todo = <<>>
      PROVE  PendInv'
  BY <1>1, <1>8 DEF PendInv, ShownType, TodoDelivered, ShownIsPending
<1>9. CASE ListenerRaises
  <2>1. run'.todo = <<>>
    BY <1>9 DEF ListenerRaises, Typed, RunType
  <2> QED
    BY <1>8, <1>9, <2>1 DEF ListenerRaises
<1>10. CASE ReportRaises
  <2>1. run.todo = <<>> /\ run'.todo = <<>> /\ UNCHANGED <<shown, queue, lost>>
    BY <1>1, <1>10 DEF ReportRaises, TodoDelivered, NoRun
  <2> QED
    BY <1>1, <2>1 DEF PendInv, ShownType, TodoDelivered, ShownIsPending
<1> QED
  BY <1>3, <1>4, <1>6, <1>7, <1>9, <1>10 DEF ClientStep

(* Whichever prompt()'s run drains, whatever is queued, cleared and delivered between,
   and whichever run fails with nothing drained: no text is shown as pending more often
   than it is. *)
THEOREM ShownArePending == Spec => []ShownIsPending
<1>1. Init => PendInv
  <2> SUFFICES ASSUME Init PROVE PendInv
    OBVIOUS
  <2>1. shown = [l \in Lanes |-> <<>>] /\ queue = [l \in Lanes |-> <<>>] /\ run.todo = <<>>
    BY DEF Init, NoRun
  <2>2. \A t \in Texts : Times(<<>>, t) = 0
    BY EmptySeq, TimesNat
  <2>3. ShownIsPending
    BY <2>1, <2>2 DEF ShownIsPending, Lanes
  <2> QED
    BY <2>1, <2>3, EmptySeq DEF PendInv, ShownType, TodoDelivered
<1>2. ConvInv /\ ConvInv' /\ PendInv /\ [Next]_vars => PendInv'
  <2> SUFFICES ASSUME ConvInv, ConvInv', PendInv, [Next]_vars PROVE PendInv'
    OBVIOUS
  <2>1. Typed /\ Typed' /\ OwnerRuns
    BY DEF ConvInv
  <2> QED
    BY <2>1, DeliverPending, RunPending, TaskPending, ClientPending DEF Next, RunStep, ClientStep
<1>3. PendInv => ShownIsPending
  BY DEF PendInv
<1> QED
  BY <1>1, <1>2, <1>3, ConvInvariant, PTL DEF Spec
=============================================================================
