--------------------------- MODULE DeliveryProofs ---------------------------
(* Agent implements MessageDelivery, and loses no message unless a listener raises:
   proved by the kinds of steps that the queues, the loop's locals and the
   transcript take together. *)
EXTENDS AgentProofs, SelectionProofs

OfLane(l) == {m \in UserMessage : m.via = l}

-----------------------------------------------------------------------------
(* The numbers of messages. *)
LEMMA NumbersType ==
  ASSUME NEW s \in Seq(UserMessage)
  PROVE  Numbers(s) \in Seq(Ids) /\ Len(Numbers(s)) = Len(s)
BY Kinds DEF Numbers

LEMMA NumbersAppend ==
  ASSUME NEW s \in Seq(UserMessage), NEW m \in UserMessage
  PROVE  Numbers(Append(s, m)) = Append(Numbers(s), m.id)
<1>1. Append(s, m) \in Seq(UserMessage) /\ m.id \in Ids
  BY Kinds
<1>2. Numbers(s) \in Seq(Ids) /\ Numbers(Append(s, m)) \in Seq(Ids)
  BY <1>1, NumbersType
<1>3. Len(Numbers(Append(s, m))) = Len(s) + 1 /\ Len(Append(Numbers(s), m.id)) = Len(s) + 1
  <2>1. Len(Append(s, m)) = Len(s) + 1
    OBVIOUS
  <2>2. Len(Append(Numbers(s), m.id)) = Len(Numbers(s)) + 1
    BY <1>1, <1>2, AppendProperties
  <2> QED
    BY <1>1, <2>1, <2>2, NumbersType
<1>4. \A i \in 1..Len(s) + 1 : Numbers(Append(s, m))[i] = Append(Numbers(s), m.id)[i]
  BY <1>1 DEF Numbers
<1>5. Append(Numbers(s), m.id) \in Seq(Ids)
  BY <1>1, <1>2, AppendProperties
<1> QED
  BY <1>2, <1>3, <1>4, <1>5, SeqEqual

LEMMA NumbersConcat ==
  ASSUME NEW s \in Seq(UserMessage), NEW t \in Seq(UserMessage)
  PROVE  Numbers(s \o t) = Numbers(s) \o Numbers(t)
<1>1. s \o t \in Seq(UserMessage)
  OBVIOUS
<1>2. Numbers(s) \in Seq(Ids) /\ Numbers(t) \in Seq(Ids) /\ Numbers(s \o t) \in Seq(Ids)
  BY <1>1, NumbersType
<1>3. /\ Len(Numbers(s \o t)) = Len(s) + Len(t)
      /\ Len(Numbers(s) \o Numbers(t)) = Len(s) + Len(t)
  <2>1. Len(s \o t) = Len(s) + Len(t)
    OBVIOUS
  <2>2. Len(Numbers(s) \o Numbers(t)) = Len(Numbers(s)) + Len(Numbers(t))
    BY <1>2, ConcatProperties
  <2> QED
    BY <1>1, <2>1, <2>2, NumbersType
<1>4. \A i \in 1..Len(s) + Len(t) : Numbers(s \o t)[i] = (Numbers(s) \o Numbers(t))[i]
  BY <1>1 DEF Numbers
<1>5. Numbers(s) \o Numbers(t) \in Seq(Ids)
  BY <1>2, ConcatProperties
<1> QED
  BY <1>2, <1>3, <1>4, <1>5, SeqEqual

LEMMA NumbersNothing == Numbers(<<>>) = <<>>
BY DEF Numbers

LEMMA NumbersTail ==
  ASSUME NEW s \in Seq(UserMessage), s # <<>>
  PROVE  /\ Numbers(s) # <<>> /\ Head(Numbers(s)) = Head(s).id
         /\ Numbers(Tail(s)) = Tail(Numbers(s))
<1>1. Tail(s) \in Seq(UserMessage) /\ Len(s) \in Nat \ {0} /\ Len(Tail(s)) = Len(s) - 1
  OBVIOUS
<1>2. /\ Numbers(s) \in Seq(Ids) /\ Len(Numbers(s)) = Len(s)
      /\ Numbers(Tail(s)) \in Seq(Ids) /\ Len(Numbers(Tail(s))) = Len(s) - 1
  BY <1>1, NumbersType
<1>3. Numbers(s) # <<>>
  BY <1>1, <1>2
<1>4. Tail(Numbers(s)) \in Seq(Ids) /\ Len(Tail(Numbers(s))) = Len(s) - 1
  BY <1>2, <1>3
<1>5. \A i \in 1..Len(s) - 1 : Numbers(Tail(s))[i] = Tail(Numbers(s))[i]
  BY <1>1 DEF Numbers
<1>6. Head(Numbers(s)) = Head(s).id
  BY <1>1 DEF Numbers
<1> QED
  BY <1>2, <1>3, <1>4, <1>5, <1>6, SeqEqual

-----------------------------------------------------------------------------
(* What waits, for messages u in flight and the two queues. *)
Part(l, u, st, fu) ==
  (IF u # <<>> /\ Head(u).via = l THEN u ELSE <<>>)
  \o (CASE l = "steer" -> st [] l = "followUp" -> fu [] OTHER -> <<>>)
Waits(u, st, fu) == [l \in Lanes |-> Numbers(Part(l, u, st, fu))]

\* Message n is added to what lane k has waiting, or the first one there leaves.
Added(w, k, n) == [w EXCEPT ![k] = Append(@, n)]
Served(w, k) == [w EXCEPT ![k] = Tail(@)]

(* Messages are queued by lane, and those in flight came by one. *)
Sorted(u, st, fu) ==
  /\ st \in Seq(OfLane("steer")) /\ fu \in Seq(OfLane("followUp"))
  /\ \E k \in Lanes : u \in Seq(OfLane(k))

LEMMA OfLaneSeq ==
  ASSUME NEW l, NEW s \in Seq(OfLane(l))
  PROVE  s \in Seq(UserMessage) /\ (s # <<>> => Head(s) \in OfLane(l) /\ Head(s).via = l)
<1>1. OfLane(l) \subseteq UserMessage
  BY DEF OfLane
<1>2. s # <<>> => Head(s) \in OfLane(l)
  OBVIOUS
<1> QED
  BY <1>1, <1>2, SeqMonotonic DEF OfLane

LEMMA PartType ==
  ASSUME NEW u, NEW st, NEW fu, Sorted(u, st, fu), NEW l \in Lanes
  PROVE  Part(l, u, st, fu) \in Seq(UserMessage)
<1>1. u \in Seq(UserMessage) /\ st \in Seq(UserMessage) /\ fu \in Seq(UserMessage)
  BY OfLaneSeq DEF Sorted
<1> DEFINE a == IF u # <<>> /\ Head(u).via = l THEN u ELSE <<>>
           b == CASE l = "steer" -> st [] l = "followUp" -> fu [] OTHER -> <<>>
<1>2. a \in Seq(UserMessage) /\ b \in Seq(UserMessage)
  BY <1>1
<1>3. a \o b \in Seq(UserMessage)
  <2> HIDE DEF a, b
  <2> QED
    BY <1>2, ConcatProperties
<1> QED
  BY <1>3 DEF Part

(* With nothing in flight, the queues wait. *)
LEMMA PartNothing ==
  ASSUME NEW st, NEW fu, Sorted(<<>>, st, fu)
  PROVE  /\ Part("prompt", <<>>, st, fu) = <<>>
         /\ Part("steer", <<>>, st, fu) = st /\ Part("followUp", <<>>, st, fu) = fu
<1>1. st \in Seq(UserMessage) /\ fu \in Seq(UserMessage)
  BY OfLaneSeq DEF Sorted
<1> QED
  BY <1>1, ConcatNothing DEF Part

(* The lane of what is in flight has it before its queue, the others do not see it. *)
LEMMA PartSome ==
  ASSUME NEW u, NEW st, NEW fu, Sorted(u, st, fu), u # <<>>, NEW k \in Lanes, Head(u).via = k
  PROVE  /\ Part(k, u, st, fu) = u \o Part(k, <<>>, st, fu)
         /\ \A l \in Lanes \ {k} : Part(l, u, st, fu) = Part(l, <<>>, st, fu)
<1>1. st \in Seq(UserMessage) /\ fu \in Seq(UserMessage) /\ u \in Seq(UserMessage)
  BY OfLaneSeq DEF Sorted
<1> DEFINE b(l) == CASE l = "steer" -> st [] l = "followUp" -> fu [] OTHER -> <<>>
<1>2. \A l \in Lanes : b(l) \in Seq(UserMessage)
  BY <1>1
<1>3. \A l \in Lanes : Part(l, <<>>, st, fu) = <<>> \o b(l)
  BY DEF Part
<1>4. Part(k, u, st, fu) = u \o b(k) /\ \A l \in Lanes \ {k} : Part(l, u, st, fu) = <<>> \o b(l)
  BY DEF Part
<1> HIDE DEF b
<1>5. \A l \in Lanes : <<>> \o b(l) = b(l)
  BY <1>2
<1> QED
  BY <1>3, <1>4, <1>5

LEMMA SortedNothing ==
  ASSUME NEW u, NEW st, NEW fu, Sorted(u, st, fu) PROVE Sorted(<<>>, st, fu)
BY EmptySeq DEF Sorted, Lanes

LEMMA PartOfLane ==
  ASSUME NEW u, NEW st, NEW fu, Sorted(u, st, fu), NEW k \in Lanes, u \in Seq(OfLane(k))
  PROVE  /\ Part(k, u, st, fu) = u \o Part(k, <<>>, st, fu)
         /\ \A l \in Lanes \ {k} : Part(l, u, st, fu) = Part(l, <<>>, st, fu)
<1>1. CASE u = <<>>
  <2>1. Part(k, <<>>, st, fu) \in Seq(UserMessage)
    BY SortedNothing, PartType
  <2>2. <<>> \o Part(k, <<>>, st, fu) = Part(k, <<>>, st, fu)
    BY <2>1, ConcatNothing
  <2> QED
    BY <1>1, <2>2
<1>2. CASE u # <<>>
  <2>1. Head(u).via = k
    BY <1>2, OfLaneSeq
  <2>2. Part(k, u, st, fu) = u \o Part(k, <<>>, st, fu)
    BY SMTT(30), <1>2, <2>1, PartSome
  <2>3. \A l \in Lanes \ {k} : Part(l, u, st, fu) = Part(l, <<>>, st, fu)
    BY <1>2, <2>1, PartSome
  <2> QED
    BY <2>2, <2>3
<1> QED
  BY <1>1, <1>2

(* A drained queue waits as it did. *)
LEMMA DrainedSteers ==
  ASSUME NEW st, NEW fu, Sorted(<<>>, st, fu), NEW u \in Seq(OfLane("steer")),
         NEW rest \in Seq(OfLane("steer"))
  PROVE  /\ Sorted(u, rest, fu)
         /\ u \o rest = st => Waits(u, rest, fu) = Waits(<<>>, st, fu)
<1>1. Sorted(u, rest, fu) /\ Sorted(<<>>, rest, fu) /\ "steer" \in Lanes
  BY SortedNothing DEF Sorted, Lanes
<1>2. /\ Part("steer", u, rest, fu) = u \o Part("steer", <<>>, rest, fu)
      /\ \A l \in Lanes \ {"steer"} : Part(l, u, rest, fu) = Part(l, <<>>, rest, fu)
  BY <1>1, PartOfLane
<1>3. /\ Part("prompt", <<>>, rest, fu) = <<>> /\ Part("prompt", <<>>, st, fu) = <<>>
      /\ Part("steer", <<>>, rest, fu) = rest /\ Part("steer", <<>>, st, fu) = st
      /\ Part("followUp", <<>>, rest, fu) = fu /\ Part("followUp", <<>>, st, fu) = fu
  BY <1>1, PartNothing
<1>4. ASSUME u \o rest = st
      PROVE  \A l \in Lanes : Part(l, u, rest, fu) = Part(l, <<>>, st, fu)
  BY <1>2, <1>3, <1>4 DEF Lanes
<1> QED
  BY <1>1, <1>4 DEF Waits

LEMMA DrainedFollows ==
  ASSUME NEW st, NEW fu, Sorted(<<>>, st, fu), NEW u \in Seq(OfLane("followUp")),
         NEW rest \in Seq(OfLane("followUp"))
  PROVE  /\ Sorted(u, st, rest)
         /\ u \o rest = fu => Waits(u, st, rest) = Waits(<<>>, st, fu)
<1>1. Sorted(u, st, rest) /\ Sorted(<<>>, st, rest) /\ "followUp" \in Lanes
  BY SortedNothing DEF Sorted, Lanes
<1>2. /\ Part("followUp", u, st, rest) = u \o Part("followUp", <<>>, st, rest)
      /\ \A l \in Lanes \ {"followUp"} : Part(l, u, st, rest) = Part(l, <<>>, st, rest)
  BY <1>1, PartOfLane
<1>3. /\ Part("prompt", <<>>, st, rest) = <<>> /\ Part("prompt", <<>>, st, fu) = <<>>
      /\ Part("steer", <<>>, st, rest) = st /\ Part("steer", <<>>, st, fu) = st
      /\ Part("followUp", <<>>, st, rest) = rest /\ Part("followUp", <<>>, st, fu) = fu
  BY <1>1, PartNothing
<1>4. ASSUME u \o rest = fu
      PROVE  \A l \in Lanes : Part(l, u, st, rest) = Part(l, <<>>, st, fu)
  BY <1>2, <1>3, <1>4 DEF Lanes
<1> QED
  BY <1>1, <1>4 DEF Waits

(* The oldest message in flight is delivered. *)
LEMMA DeliveredWaits ==
  ASSUME NEW u, NEW st, NEW fu, Sorted(u, st, fu), u # <<>>
  PROVE  /\ Head(u) \in UserMessage /\ Sorted(Tail(u), st, fu)
         /\ \E k \in Lanes :
              /\ Waits(u, st, fu)[k] # <<>> /\ Head(Waits(u, st, fu)[k]) = Head(u).id
              /\ Waits(Tail(u), st, fu) = Served(Waits(u, st, fu), k)
<1>1. PICK k \in Lanes : u \in Seq(OfLane(k))
  BY DEF Sorted
<1>2. /\ u \in Seq(UserMessage) /\ Head(u) \in OfLane(k) /\ Head(u).via = k
      /\ Tail(u) \in Seq(OfLane(k))
  BY <1>1, OfLaneSeq
<1>3. Sorted(Tail(u), st, fu) /\ Head(u) \in UserMessage
  BY <1>2 DEF Sorted, OfLane
<1> DEFINE b == Part(k, <<>>, st, fu)
<1>4. b \in Seq(UserMessage) /\ Part(k, u, st, fu) = u \o b
  <2>1. Sorted(<<>>, st, fu)
    BY SortedNothing
  <2>2. b \in Seq(UserMessage)
    BY <2>1, PartType
  <2>3. Part(k, u, st, fu) = u \o b
    BY <1>2, PartSome
  <2> QED
    BY <2>2, <2>3
<1> DEFINE v == Tail(u)
<1>11. v \in Seq(OfLane(k)) /\ Sorted(v, st, fu) /\ (v # <<>> => Head(v).via = k)
  <2>1. v \in Seq(OfLane(k))
    BY <1>2
  <2> HIDE DEF v
  <2> QED
    BY <1>3, <2>1, OfLaneSeq DEF v
<1> HIDE DEF v
<1>5. Part(k, v, st, fu) = v \o b
  <2>1. CASE v = <<>>
    <3> HIDE DEF b
    <3>1. <<>> \o b = b
      BY <1>4
    <3> QED
      BY <2>1, <3>1 DEF b
  <2>2. CASE v # <<>>
    BY <1>11, <2>2, PartSome
  <2> QED
    BY <2>1, <2>2
<1>6. \A l \in Lanes \ {k} : Part(l, v, st, fu) = Part(l, u, st, fu)
  <2>1. \A l \in Lanes \ {k} : Part(l, u, st, fu) = Part(l, <<>>, st, fu)
    BY <1>2, PartSome
  <2>2. CASE v = <<>>
    BY <2>1, <2>2
  <2>3. CASE v # <<>>
    <3>1. \A l \in Lanes \ {k} : Part(l, v, st, fu) = Part(l, <<>>, st, fu)
      BY <1>11, <2>3, PartSome
    <3> QED
      BY <2>1, <3>1
  <2> QED
    BY <2>2, <2>3
<1> HIDE DEF b
<1>7. u \o b # <<>> /\ Head(u \o b) = Head(u) /\ Tail(u \o b) = v \o b
      /\ u \o b \in Seq(UserMessage)
  BY <1>2, <1>4 DEF v
<1>8. /\ Numbers(u \o b) # <<>> /\ Head(Numbers(u \o b)) = Head(u).id
      /\ Numbers(v \o b) = Tail(Numbers(u \o b))
  BY <1>7, NumbersTail
<1>9. Waits(u, st, fu)[k] = Numbers(u \o b) /\ Waits(v, st, fu)[k] = Tail(Numbers(u \o b))
  BY <1>4, <1>5, <1>8 DEF Waits
<1>10. Waits(v, st, fu) = Served(Waits(u, st, fu), k)
  BY <1>6, <1>9 DEF Waits, Served
<1> QED
  BY <1>3, <1>8, <1>9, <1>10 DEF v

(* A message is accepted: into flight by prompt(), or into a queue. *)
LEMMA PromptedWaits ==
  ASSUME NEW st, NEW fu, Sorted(<<>>, st, fu), NEW m \in OfLane("prompt")
  PROVE  /\ Sorted(<<m>>, st, fu)
         /\ Waits(<<m>>, st, fu) = Added(Waits(<<>>, st, fu), "prompt", m.id)
<1>1. /\ Sorted(<<m>>, st, fu) /\ m \in UserMessage /\ <<m>> # <<>> /\ Head(<<m>>).via = "prompt"
      /\ "prompt" \in Lanes
  BY DEF Sorted, OfLane, Lanes
<1>2. /\ Part("prompt", <<m>>, st, fu) = Append(<<>>, m)
      /\ \A l \in Lanes \ {"prompt"} : Part(l, <<m>>, st, fu) = Part(l, <<>>, st, fu)
  BY <1>1, PartSome, PartNothing
<1>3. Numbers(Append(<<>>, m)) = Append(Numbers(<<>>), m.id)
  BY <1>1, NumbersAppend, EmptySeq
<1>4. Part("prompt", <<>>, st, fu) = <<>>
  BY PartNothing
<1>5. Waits(<<m>>, st, fu)["prompt"] = Append(Waits(<<>>, st, fu)["prompt"], m.id)
  BY <1>1, <1>2, <1>3, <1>4 DEF Waits
<1>6. \A l \in Lanes \ {"prompt"} : Waits(<<m>>, st, fu)[l] = Waits(<<>>, st, fu)[l]
  BY <1>2 DEF Waits
<1>7. Waits(<<m>>, st, fu) = Added(Waits(<<>>, st, fu), "prompt", m.id)
  BY <1>5, <1>6 DEF Waits, Added
<1> QED
  BY <1>1, <1>7

LEMMA QueuedWaits ==
  ASSUME NEW u, NEW st, NEW fu, Sorted(u, st, fu), NEW m
  PROVE  /\ m \in OfLane("steer") =>
              /\ Sorted(u, Append(st, m), fu)
              /\ Waits(u, Append(st, m), fu) = Added(Waits(u, st, fu), "steer", m.id)
         /\ m \in OfLane("followUp") =>
              /\ Sorted(u, st, Append(fu, m))
              /\ Waits(u, st, Append(fu, m)) = Added(Waits(u, st, fu), "followUp", m.id)
<1> DEFINE a(l) == IF u # <<>> /\ Head(u).via = l THEN u ELSE <<>>
<1>1. /\ \A l \in Lanes : a(l) \in Seq(UserMessage)
      /\ st \in Seq(UserMessage) /\ fu \in Seq(UserMessage)
  BY OfLaneSeq DEF Sorted
<1>2. ASSUME NEW s, NEW t
      PROVE  /\ Part("prompt", u, s, t) = a("prompt") \o <<>>
             /\ Part("steer", u, s, t) = a("steer") \o s /\ Part("followUp", u, s, t) = a("followUp") \o t
  BY DEF Part
<1> HIDE DEF a
<1>3. "steer" \in Lanes /\ "followUp" \in Lanes
  BY DEF Lanes
<1>4. ASSUME NEW l \in Lanes, NEW q \in Seq(UserMessage), m \in UserMessage
      PROVE  Numbers(a(l) \o Append(q, m)) = Append(Numbers(a(l) \o q), m.id)
  <2>1. a(l) \o q \in Seq(UserMessage)
    BY <1>1, ConcatProperties
  <2>2. a(l) \o Append(q, m) = Append(a(l) \o q, m)
    BY <1>1, <1>4, AppendConcat
  <2> QED
    BY <1>4, <2>1, <2>2, NumbersAppend
<1>5. ASSUME m \in OfLane("steer")
      PROVE  /\ Sorted(u, Append(st, m), fu)
             /\ Waits(u, Append(st, m), fu) = Added(Waits(u, st, fu), "steer", m.id)
  <2>1. m \in UserMessage /\ Sorted(u, Append(st, m), fu)
    BY <1>5 DEF OfLane, Sorted
  <2>2. Numbers(a("steer") \o Append(st, m)) = Append(Numbers(a("steer") \o st), m.id)
    BY <1>1, <1>3, <1>4, <2>1
  <2>3. Waits(u, Append(st, m), fu)["steer"] = Append(Waits(u, st, fu)["steer"], m.id)
    BY <1>2, <1>3, <2>2 DEF Waits
  <2>4. \A l \in Lanes \ {"steer"} : Waits(u, Append(st, m), fu)[l] = Waits(u, st, fu)[l]
    <3>1. \A l \in Lanes \ {"steer"} : Part(l, u, Append(st, m), fu) = Part(l, u, st, fu)
      BY DEF Part
    <3> QED
      BY <3>1 DEF Waits
  <2>5. Waits(u, Append(st, m), fu) = Added(Waits(u, st, fu), "steer", m.id)
    BY <2>3, <2>4 DEF Waits, Added
  <2> QED
    BY <2>1, <2>5
<1>6. ASSUME m \in OfLane("followUp")
      PROVE  /\ Sorted(u, st, Append(fu, m))
             /\ Waits(u, st, Append(fu, m)) = Added(Waits(u, st, fu), "followUp", m.id)
  <2>1. m \in UserMessage /\ Sorted(u, st, Append(fu, m))
    BY <1>6 DEF OfLane, Sorted
  <2>2. Numbers(a("followUp") \o Append(fu, m)) = Append(Numbers(a("followUp") \o fu), m.id)
    BY <1>1, <1>3, <1>4, <2>1
  <2>3. Waits(u, st, Append(fu, m))["followUp"] = Append(Waits(u, st, fu)["followUp"], m.id)
    BY <1>2, <1>3, <2>2 DEF Waits
  <2>4. \A l \in Lanes \ {"followUp"} : Waits(u, st, Append(fu, m))[l] = Waits(u, st, fu)[l]
    <3>1. \A l \in Lanes \ {"followUp"} : Part(l, u, st, Append(fu, m)) = Part(l, u, st, fu)
      BY DEF Part
    <3> QED
      BY <3>1 DEF Waits
  <2>5. Waits(u, st, Append(fu, m)) = Added(Waits(u, st, fu), "followUp", m.id)
    BY <2>3, <2>4 DEF Waits, Added
  <2> QED
    BY <2>1, <2>5
<1> QED
  BY <1>5, <1>6

(* What is in flight, or what is queued, is dropped: an end of what waits. *)
LEMMA DroppedWaits ==
  ASSUME NEW u, NEW st, NEW fu, Sorted(u, st, fu)
  PROVE  \A l \in Lanes : EndOf(Waits(u, st, fu)[l], Waits(<<>>, st, fu)[l])
<1> SUFFICES ASSUME NEW l \in Lanes PROVE EndOf(Waits(u, st, fu)[l], Waits(<<>>, st, fu)[l])
  OBVIOUS
<1> DEFINE b == Part(l, <<>>, st, fu)
<1>1. b \in Seq(UserMessage) /\ u \in Seq(UserMessage)
  BY SortedNothing, PartType, OfLaneSeq DEF Sorted
<1>2. Part(l, u, st, fu) = u \o b \/ Part(l, u, st, fu) = b
  <2>1. CASE u = <<>>
    BY <2>1
  <2>2. CASE u # <<>>
    <3>1. PICK k \in Lanes : Head(u).via = k
      BY <2>2, OfLaneSeq DEF Sorted
    <3> QED
      BY <2>2, <3>1, PartSome
  <2> QED
    BY <2>1, <2>2
<1> HIDE DEF b
<1>3. /\ Numbers(u \o b) = Numbers(u) \o Numbers(b)
      /\ Numbers(u) \in Seq(Ids) /\ Numbers(b) \in Seq(Ids)
  BY <1>1, NumbersConcat, NumbersType
<1>4. EndOf(Numbers(u \o b), Numbers(b)) /\ EndOf(Numbers(b), Numbers(b))
  BY <1>3, EndsOf
<1> QED
  BY <1>2, <1>4 DEF Waits, b

LEMMA ClearedWaits ==
  ASSUME NEW u, NEW st, NEW fu, Sorted(u, st, fu), NEW st2, NEW fu2,
         st2 \in {st, <<>>}, fu2 \in {fu, <<>>}
  PROVE  /\ Sorted(u, st2, fu2)
         /\ \A l \in Lanes : EndOf(Waits(u, st, fu)[l], Waits(u, st2, fu2)[l])
<1>1. Sorted(u, st2, fu2)
  BY EmptySeq DEF Sorted
<1> SUFFICES ASSUME NEW l \in Lanes PROVE EndOf(Waits(u, st, fu)[l], Waits(u, st2, fu2)[l])
  BY <1>1
<1> DEFINE a == IF u # <<>> /\ Head(u).via = l THEN u ELSE <<>>
           b(s, t) == CASE l = "steer" -> s [] l = "followUp" -> t [] OTHER -> <<>>
<1>2. /\ a \in Seq(UserMessage) /\ b(st, fu) \in Seq(UserMessage)
      /\ b(st2, fu2) = b(st, fu) \/ b(st2, fu2) = <<>>
  BY OfLaneSeq DEF Sorted
<1>3. Part(l, u, st, fu) = a \o b(st, fu) /\ Part(l, u, st2, fu2) = a \o b(st2, fu2)
  BY DEF Part
<1> HIDE DEF a, b
<1>4. Part(l, u, st2, fu2) = Part(l, u, st, fu) \/ Part(l, u, st2, fu2) = a
  BY <1>2, <1>3, ConcatNothing
<1>5. /\ Numbers(a \o b(st, fu)) = Numbers(a) \o Numbers(b(st, fu))
      /\ Numbers(a) \in Seq(Ids) /\ Numbers(b(st, fu)) \in Seq(Ids)
      /\ Numbers(a \o b(st, fu)) \in Seq(Ids)
  BY <1>2, NumbersConcat, NumbersType, ConcatProperties
<1>6. /\ EndOf(Numbers(a \o b(st, fu)), Numbers(a))
      /\ EndOf(Numbers(a \o b(st, fu)), Numbers(a \o b(st, fu)))
  BY <1>5, EndsOf
<1> QED
  BY <1>3, <1>4, <1>6 DEF Waits

-----------------------------------------------------------------------------
(* The loop's locals hold messages only where the loop announces them. *)
Carried ==
  /\ prompts # <<>> => pc \in {"agent_start", "first_turn_start", "prompt_start", "prompt_end"}
  /\ pending # <<>> => pc \in {"turn_start", "inject_start", "inject_end"}

DInv == TypeOK /\ LocalsFit /\ Carried /\ Sorted(Undelivered, steering, followUp)

(* The kinds of steps: nothing happens to user messages; a queue is drained into the
   locals; the oldest message in flight is added to the transcript; a message is
   accepted; what is in flight is dropped. *)
Calm == raises' = 0 => raises = 0
Keeps ==
  /\ Calm /\ Undelivered' = Undelivered /\ UNCHANGED queues
  /\ msgs' = msgs \/ \E m \in Assistant \cup ToolResult : msgs' = Append(msgs, m)
Drains ==
  /\ Calm /\ Undelivered = <<>> /\ UNCHANGED <<msgs, accepted, discarded>>
  /\ \/ /\ Undelivered' \in Seq(OfLane("steer")) /\ steering' \in Seq(OfLane("steer"))
        /\ steering = Undelivered' \o steering' /\ followUp' = followUp
     \/ /\ Undelivered' \in Seq(OfLane("followUp")) /\ followUp' \in Seq(OfLane("followUp"))
        /\ followUp = Undelivered' \o followUp' /\ steering' = steering
Delivers ==
  /\ Calm /\ Undelivered # <<>> /\ UNCHANGED queues
  /\ Undelivered' = Tail(Undelivered) /\ msgs' = Append(msgs, Head(Undelivered))
Prompts ==
  /\ Calm /\ Undelivered = <<>> /\ Undelivered' = <<User(accepted + 1, "prompt")>>
  /\ accepted < MaxMessages /\ accepted' = accepted + 1
  /\ UNCHANGED <<msgs, steering, followUp, discarded>>
Drops ==
  /\ raises \in Nat /\ Undelivered' = <<>> /\ UNCHANGED <<msgs, queues>>
  /\ IF Undelivered = <<>> THEN raises' = 0 => raises = 0 ELSE raises' # 0
Beside ==
  /\ Undelivered' = Undelivered /\ raises' = raises /\ (pc = "idle" => Undelivered = <<>>)
  /\ Steer \/ FollowUp \/ ClearQueues \/ Reset
OfKind == Keeps \/ Drains \/ Delivers \/ Prompts \/ Drops \/ Beside

LEMMA NotCarrying ==
  ASSUME Carried, pc \notin {"agent_start", "first_turn_start", "prompt_start", "prompt_end",
                            "turn_start", "inject_start", "inject_end"}
  PROVE  prompts = <<>> /\ pending = <<>> /\ Undelivered = <<>>
BY DEF Carried, Undelivered

LEMMA DrainedQueue ==
  ASSUME NEW l, NEW q \in Seq(OfLane(l)), NEW qmode
  PROVE  /\ Drained(qmode, q) \in Seq(OfLane(l)) /\ Rest(qmode, q) \in Seq(OfLane(l))
         /\ q = Drained(qmode, q) \o Rest(qmode, q)
<1>1. CASE qmode = "all" \/ q = <<>>
  BY <1>1, ConcatNothing DEF Drained, Rest
<1>2. CASE ~(qmode = "all" \/ q = <<>>)
  <2>1. <<Head(q)>> \in Seq(OfLane(l)) /\ Tail(q) \in Seq(OfLane(l)) /\ q = <<Head(q)>> \o Tail(q)
    BY <1>2
  <2> QED
    BY <1>2, <2>1 DEF Drained, Rest
<1> QED
  BY <1>1, <1>2

(* run_loop's first poll of the steering queue, with nothing in flight. *)
LEMMA EnterLoopDrains ==
  ASSUME Sorted(Undelivered, steering, followUp), Undelivered = <<>>,
         EnterLoop, prompts' = <<>>, Calm, UNCHANGED <<followUp, accepted, discarded>>
  PROVE  Carried' /\ (Keeps \/ Drains)
<1>1. CASE skip
  <2>1. InjectOrStream(<<>>) /\ steering' = steering
    BY <1>1 DEF EnterLoop
  <2>2. pending' = <<>> /\ pc' = "provider" /\ msgs' = msgs
    BY <2>1 DEF InjectOrStream, agentState
  <2>3. Undelivered' = <<>> \o <<>> /\ <<>> \o <<>> = <<>>
    BY <2>2, ConcatNothing, EmptySeq DEF Undelivered
  <2> QED
    BY <2>1, <2>2, <2>3 DEF Carried, Keeps, queues
<1>2. CASE ~skip
  <2>1. InjectOrStream(Drained(SteeringMode, steering)) /\ steering' = Rest(SteeringMode, steering)
    BY <1>2 DEF EnterLoop
  <2>2. /\ pending' = Drained(SteeringMode, steering) /\ msgs' = msgs
        /\ pc' = IF pending' # <<>> THEN "inject_start" ELSE "provider"
    BY <2>1 DEF InjectOrStream, MessageStart, agentState
  <2>3. Undelivered' = pending' /\ Carried'
    <3>1. pc' # "inject_end" /\ pc' # "prompt_end" /\ Undelivered' = <<>> \o pending'
      BY <2>2 DEF Undelivered
    <3>2. pending' \in Seq(OfLane("steer"))
      BY <2>2, DrainedQueue DEF Sorted
    <3> QED
      BY <2>2, <3>1, <3>2 DEF Carried
  <2>4. /\ pending' \in Seq(OfLane("steer")) /\ steering' \in Seq(OfLane("steer"))
        /\ steering = pending' \o steering'
    BY <2>1, <2>2, DrainedQueue DEF Sorted
  <2> QED
    BY <2>2, <2>3, <2>4 DEF Drains
<1> QED
  BY <1>1, <1>2

(* The prompts that are left are announced, or the loop is entered. *)
LEMMA NextPromptKeeps ==
  ASSUME DInv, NextPrompt(Undelivered), Undelivered = <<>> \/ pending = <<>>,
         prompts # <<>> \/ pending = <<>>,
         pc \in {"first_turn_start", "prompt_end"}, Calm,
         UNCHANGED <<followUp, accepted, discarded>>
  PROVE  Carried' /\ (Keeps \/ Drains)
<1>1. CASE Undelivered # <<>>
  <2>1. /\ prompts' = Undelivered /\ pc' = "prompt_start" /\ pending' = <<>> /\ steering' = steering
        /\ msgs' = msgs
    BY <1>1 DEF NextPrompt, MessageStart
  <2>2. Undelivered \in Seq(UserMessage)
    BY OfLaneSeq DEF DInv, Sorted
  <2>3. Undelivered' = Undelivered
    <3>1. Undelivered' = prompts' \o <<>>
      BY <2>1 DEF Undelivered
    <3> QED
      BY <2>1, <2>2, <3>1, ConcatNothing
  <2> QED
    BY <2>1, <2>3 DEF Carried, Keeps, queues
<1>2. CASE Undelivered = <<>>
  BY <1>2, EnterLoopDrains DEF NextPrompt, DInv
<1> QED
  BY <1>1, <1>2

-----------------------------------------------------------------------------
(* The steps of each action, as kinds. *)
LEMMA StillEmpty ==
  ASSUME Carried,
         pc \notin {"agent_start", "first_turn_start", "prompt_start", "prompt_end",
                   "turn_start", "inject_start", "inject_end"},
         prompts' \in {prompts, <<>>}, pending' \in {pending, <<>>},
         pc' \notin {"prompt_end", "inject_end"}
  PROVE  Carried' /\ Undelivered = <<>> /\ Undelivered' = <<>>
<1>1. prompts' = <<>> /\ pending' = <<>> /\ Undelivered = <<>>
  BY NotCarrying
<1>2. Undelivered' = <<>> \o <<>> /\ <<>> \o <<>> = <<>>
  BY <1>1, ConcatNothing, EmptySeq DEF Undelivered
<1> QED
  BY <1>1, <1>2 DEF Carried

LEMMA StreamKinds ==
  ASSUME DInv, \/ ProviderStart \/ AfterPartial \/ ProviderDelta \/ ProviderEnds
               \/ AfterFinalStart \/ AfterAssistantEnd
  PROVE  Carried' /\ Keeps
<1> USE DEF DInv
<1>1. /\ pc \in {"provider", "provider_more", "partial_start", "update", "final_start", "assistant_end"}
      /\ UNCHANGED <<prompts, pending, queues, intact, raises>>
      /\ pc' \notin {"prompt_end", "inject_end"}
  BY DEF ProviderStart, AfterPartial, ProviderDelta, ProviderEnds, AfterFinalStart,
     AfterAssistantEnd, ToolStart, Streaming, runVars, queues
<1>2. msgs' = msgs \/ \E m \in Assistant \cup ToolResult : msgs' = Append(msgs, m)
  <2>1. CASE ProviderEnds
    <3>1. PICK final \in Assistant : MessageEnd(final) \/ MessageStart(final)
      BY <2>1, FinalTypes DEF TypeOK
    <3> QED
      BY <3>1 DEF MessageEnd, MessageStart
  <2>2. CASE AfterFinalStart
    BY <2>2 DEF AfterFinalStart, MessageEnd, LocalsFit
  <2>3. CASE ProviderStart \/ AfterPartial \/ ProviderDelta \/ AfterAssistantEnd
    BY <2>3 DEF ProviderStart, AfterPartial, ProviderDelta, AfterAssistantEnd, MessageStart,
       ToolStart, agentState
  <2> QED
    BY <2>1, <2>2, <2>3
<1> QED
  BY <1>1, <1>2, StillEmpty DEF Keeps, Calm

LEMMA BatchKinds ==
  ASSUME DInv, \/ PrepareImmediate \/ PrepareOk \/ AfterImmediateEnd \/ AfterTools
               \/ AfterResultStart \/ AfterResultEnd
  PROVE  Carried' /\ Keeps
<1> USE DEF DInv
<1>1. /\ pc \in {"tool_start", "immediate_end", "tool_wait", "result_start", "result_end"}
      /\ UNCHANGED <<prompts, pending, queues, intact, raises>>
      /\ pc' \notin {"prompt_end", "inject_end"}
  BY DEF PrepareImmediate, PrepareOk, AfterImmediateEnd, AfterTools, AfterResultStart,
     AfterResultEnd, StartNextOrLaunch, ToolStart, EmitResult, runVars, queues
<1>2. msgs' = msgs \/ \E m \in Assistant \cup ToolResult : msgs' = Append(msgs, m)
  <2>1. CASE AfterResultStart
    <3>1. Len(results) + 1 \in 1..Len(batch)
      BY <2>1 DEF AfterResultStart, TypeOK, CountersOK, ToolsOK, LocalsFit
    <3>2. ResultOf(batch[Len(results) + 1]) \in ToolResult
      BY <3>1, Kinds DEF TypeOK, ToolsOK
    <3> QED
      BY <2>1, <3>2 DEF AfterResultStart, MessageEnd
  <2>2. CASE PrepareImmediate \/ PrepareOk \/ AfterImmediateEnd \/ AfterTools \/ AfterResultEnd
    BY <2>2 DEF PrepareImmediate, PrepareOk, AfterImmediateEnd, AfterTools, AfterResultEnd,
       MessageStart, StartNextOrLaunch, ToolStart, EmitResult, agentState
  <2> QED
    BY <2>1, <2>2
<1> QED
  BY <1>1, <1>2, StillEmpty DEF Keeps, Calm

LEMMA EndKinds ==
  ASSUME DInv, \/ AfterFailTurnEnd \/ AfterAgentEnd \/ AfterFailureStart \/ AfterFailureEnd
               \/ AfterFailureTurnEnd \/ ProviderRaises \/ FailureListenerRaises
  PROVE  Carried' /\ Keeps
<1> USE DEF DInv
<1>1. /\ pc \in {"fail_turn_end", "agent_end", "provider", "provider_more"} \cup HandlingFailure
      /\ prompts' \in {prompts, <<>>} /\ pending' \in {pending, <<>>}
      /\ UNCHANGED <<queues, intact>> /\ pc' \notin {"prompt_end", "inject_end"}
  BY DEF AfterFailTurnEnd, AfterAgentEnd, AfterFailureStart, AfterFailureEnd, AfterFailureTurnEnd,
     ProviderRaises, FailureListenerRaises, FinishRun, RunFails, Streaming, HandlingFailure,
     runVars, queues
<1>2. raises' = 0 => raises = 0
  BY DEF AfterFailTurnEnd, AfterAgentEnd, AfterFailureStart, AfterFailureEnd, AfterFailureTurnEnd,
     ProviderRaises, FailureListenerRaises, FinishRun, RunFails, TypeOK, CountersOK
<1>3. msgs' = msgs \/ \E m \in Assistant \cup ToolResult : msgs' = Append(msgs, m)
  BY DEF AfterFailTurnEnd, AfterAgentEnd, AfterFailureStart, AfterFailureEnd, AfterFailureTurnEnd,
     ProviderRaises, FailureListenerRaises, FinishRun, RunFails, MessageEnd, LocalsFit, agentState
<1> QED
  BY <1>1, <1>2, <1>3, StillEmpty DEF Keeps, Calm, HandlingFailure

LEMMA ElsewhereKinds ==
  ASSUME DInv, Abort \/ \E c \in Calls : ToolUpdates(c) \/ ToolEnds(c) \/ ToolEndHandled(c)
  PROVE  Carried' /\ Keeps
<1>1. UNCHANGED <<pc, prompts, pending, msgs, queues, intact, raises>>
  BY DEF Abort, ToolUpdates, ToolEnds, ToolEndHandled, agentState, runVars, queues
<1> QED
  BY <1>1 DEF DInv, Carried, Undelivered, Keeps, Calm

LEMMA AnnounceKinds ==
  ASSUME DInv, \/ AfterAgentStart \/ AfterTurnStart \/ AfterInjectStart \/ AfterInjectEnd
               \/ AfterPromptStart
  PROVE  Carried' /\ (Keeps \/ Delivers)
<1> USE DEF DInv
<1>1. prompts \in Seq(UserMessage) /\ pending \in Seq(UserMessage)
  BY DEF TypeOK, LoopOK
<1>2. CASE AfterAgentStart
  BY <1>2 DEF AfterAgentStart, agentState, runVars, Carried, Undelivered, Keeps, Calm
<1>3. CASE AfterTurnStart
  BY <1>3 DEF AfterTurnStart, InjectOrStream, MessageStart, agentState, runVars, queues, Carried,
     Undelivered, Keeps, Calm
<1>4. CASE AfterInjectEnd
  BY <1>4 DEF AfterInjectEnd, InjectOrStream, MessageStart, agentState, runVars, queues, Carried,
     Undelivered, Keeps, Calm
<1>5. CASE AfterInjectStart
  <2>1. /\ pc = "inject_start" /\ pc' = "inject_end" /\ prompts = <<>> /\ pending # <<>>
        /\ UNCHANGED <<prompts, pending, queues, intact, raises>>
        /\ msgs' = Append(msgs, Head(pending))
    BY <1>5 DEF AfterInjectStart, MessageEnd, runVars, Carried, LocalsFit
  <2>2. Undelivered = <<>> \o pending /\ Undelivered' = <<>> \o Tail(pending)
    BY <2>1 DEF Undelivered
  <2>3. Undelivered = pending /\ Undelivered' = Tail(pending)
    BY <1>1, <2>1, <2>2
  <2> QED
    BY <2>1, <2>3 DEF Carried, Delivers, Calm
<1>6. CASE AfterPromptStart
  <2>1. /\ pc = "prompt_start" /\ pc' = "prompt_end" /\ pending = <<>> /\ prompts # <<>>
        /\ UNCHANGED <<prompts, pending, queues, intact, raises>>
        /\ msgs' = Append(msgs, Head(prompts))
    BY <1>6 DEF AfterPromptStart, MessageEnd, runVars, Carried, LocalsFit
  <2>2. Undelivered = prompts \o <<>> /\ Undelivered' = Tail(prompts) \o <<>>
    BY <2>1 DEF Undelivered
  <2>3. Undelivered = prompts /\ Undelivered' = Tail(prompts)
    BY <1>1, <2>1, <2>2
  <2> QED
    BY <2>1, <2>3 DEF Carried, Delivers, Calm
<1> QED
  BY <1>2, <1>3, <1>4, <1>5, <1>6

LEMMA PromptKinds ==
  ASSUME DInv, AfterFirstTurnStart \/ AfterPromptEnd
  PROVE  Carried' /\ (Keeps \/ Drains)
<1> USE DEF DInv
<1>1. prompts \in Seq(UserMessage) /\ pending = <<>>
  BY DEF TypeOK, LoopOK, AfterFirstTurnStart, AfterPromptEnd, Carried
<1>2. Calm /\ UNCHANGED <<followUp, accepted, discarded>> /\ pc \in {"first_turn_start", "prompt_end"}
  BY DEF AfterFirstTurnStart, AfterPromptEnd, Calm
<1>3. CASE AfterFirstTurnStart
  <2>1. Undelivered = prompts \o <<>>
    BY <1>1, <1>3 DEF AfterFirstTurnStart, Undelivered
  <2>2. Undelivered = prompts
    BY <1>1, <2>1
  <2> QED
    BY <1>1, <1>2, <1>3, <2>2, NextPromptKeeps DEF AfterFirstTurnStart
<1>4. CASE AfterPromptEnd
  <2>1. Undelivered = Tail(prompts) \o <<>> /\ prompts # <<>>
    BY <1>1, <1>4 DEF AfterPromptEnd, Undelivered, LocalsFit
  <2>2. Undelivered = Tail(prompts)
    BY <1>1, <2>1
  <2> QED
    BY <1>1, <1>2, <1>4, <2>2, NextPromptKeeps DEF AfterPromptEnd
<1> QED
  BY <1>3, <1>4

(* The polls after a turn, with nothing in flight. *)
LEMMA TurnEndKinds ==
  ASSUME DInv, AfterTurnEnd PROVE Carried' /\ Drains
<1> DEFINE st == Drained(SteeringMode, steering)
           fu == Drained(FollowUpMode, followUp)
<1>1. prompts = <<>> /\ pending = <<>> /\ Undelivered = <<>>
  BY NotCarrying DEF DInv, AfterTurnEnd
<1>2. /\ prompts' = <<>> /\ pc' \in {"turn_start", "agent_end"} /\ msgs' = msgs
      /\ UNCHANGED <<accepted, discarded, intact, raises>>
      /\ steering' = Rest(SteeringMode, steering)
  BY <1>1 DEF AfterTurnEnd, agentState, runVars
<1>3. /\ st \in Seq(OfLane("steer")) /\ steering' \in Seq(OfLane("steer"))
      /\ steering = st \o steering'
  BY <1>2, DrainedQueue DEF DInv, Sorted
<1>4. /\ fu \in Seq(OfLane("followUp")) /\ Rest(FollowUpMode, followUp) \in Seq(OfLane("followUp"))
      /\ followUp = fu \o Rest(FollowUpMode, followUp)
  BY DrainedQueue DEF DInv, Sorted
<1>5. \/ pending' = st /\ pc' = "turn_start" /\ followUp' = followUp
      \/ /\ pending' = fu /\ pc' = "turn_start" /\ st = <<>>
         /\ followUp' = Rest(FollowUpMode, followUp)
      \/ pending' = <<>> /\ st = <<>> /\ followUp' = followUp
  BY <1>1 DEF AfterTurnEnd
<1> HIDE DEF st, fu
<1>6. pending' \in Seq(OfLane("steer")) \/ pending' \in Seq(OfLane("followUp"))
  BY <1>3, <1>4, <1>5, EmptySeq
<1>7. Undelivered' = pending'
  <2>1. Undelivered' = <<>> \o pending'
    BY <1>2 DEF Undelivered
  <2> QED
    BY <1>6, <2>1
<1>8. st = <<>> => steering' = steering
  BY <1>3
<1>9. Carried'
  BY <1>1, <1>2, <1>5 DEF Carried
<1>10. \/ /\ Undelivered' \in Seq(OfLane("steer")) /\ steering' \in Seq(OfLane("steer"))
          /\ steering = Undelivered' \o steering' /\ followUp' = followUp
       \/ /\ Undelivered' \in Seq(OfLane("followUp")) /\ followUp' \in Seq(OfLane("followUp"))
          /\ followUp = Undelivered' \o followUp' /\ steering' = steering
  BY <1>3, <1>4, <1>5, <1>7, <1>8, EmptySeq
<1> QED
  BY <1>1, <1>2, <1>9, <1>10 DEF Drains, Calm

(* A run is started, from nothing in flight. *)
LEMMA StartKinds ==
  ASSUME DInv, Prompt \/ ContinueQueued \/ Continue PROVE Carried' /\ OfKind
<1>1. prompts = <<>> /\ pending = <<>> /\ Undelivered = <<>>
  BY NotCarrying DEF DInv, Prompt, ContinueQueued, Continue, Active
<1>2. ASSUME NEW ps \in Seq(UserMessage), NEW b, StartRun(ps, b)
      PROVE  Carried' /\ Undelivered' = ps /\ Calm /\ msgs' = msgs
  <2>1. Undelivered' = ps \o <<>>
    BY <1>2 DEF StartRun, Undelivered
  <2> QED
    BY <1>2, <2>1, ConcatNothing DEF StartRun, Carried, Calm
<1>3. CASE Prompt
  <2>1. User(accepted + 1, "prompt") \in UserMessage
    BY <1>3, NewUser DEF DInv, TypeOK, Prompt, Lanes
  <2>2. <<User(accepted + 1, "prompt")>> \in Seq(UserMessage)
    BY <2>1
  <2>3. Carried' /\ Undelivered' = <<User(accepted + 1, "prompt")>> /\ Calm /\ msgs' = msgs
    BY <1>2, <1>3, <2>2 DEF Prompt
  <2> QED
    BY <1>1, <1>3, <2>3 DEF Prompt, Prompts, OfKind
<1>4. CASE ContinueQueued
  <2>1. CASE steering # <<>>
    <3>1. /\ Drained(SteeringMode, steering) \in Seq(OfLane("steer"))
          /\ Rest(SteeringMode, steering) \in Seq(OfLane("steer"))
          /\ steering = Drained(SteeringMode, steering) \o Rest(SteeringMode, steering)
      BY DrainedQueue DEF DInv, Sorted
    <3>2. /\ Carried' /\ Undelivered' = Drained(SteeringMode, steering) /\ Calm
          /\ msgs' = msgs
      BY <1>2, <1>4, <2>1, <3>1, OfLaneSeq DEF ContinueQueued
    <3> QED
      BY <1>1, <1>4, <2>1, <3>1, <3>2 DEF ContinueQueued, Drains, OfKind
  <2>2. CASE steering = <<>>
    <3>1. /\ Drained(FollowUpMode, followUp) \in Seq(OfLane("followUp"))
          /\ Rest(FollowUpMode, followUp) \in Seq(OfLane("followUp"))
          /\ followUp = Drained(FollowUpMode, followUp) \o Rest(FollowUpMode, followUp)
      BY DrainedQueue DEF DInv, Sorted
    <3>2. /\ Carried' /\ Undelivered' = Drained(FollowUpMode, followUp) /\ Calm
          /\ msgs' = msgs
      BY <1>2, <1>4, <2>2, <3>1, OfLaneSeq DEF ContinueQueued
    <3> QED
      BY <1>1, <1>4, <2>2, <3>1, <3>2 DEF ContinueQueued, Drains, OfKind
  <2> QED
    BY <2>1, <2>2
<1>5. CASE Continue
  <2>1. Carried' /\ Undelivered' = <<>> /\ Calm /\ msgs' = msgs
    BY <1>2, <1>5, EmptySeq DEF Continue
  <2> QED
    BY <1>1, <1>5, <2>1 DEF Continue, Keeps, OfKind, queues
<1> QED
  BY <1>3, <1>4, <1>5

LEMMA BesideKinds ==
  ASSUME DInv, Steer \/ FollowUp \/ ClearQueues \/ Reset PROVE Carried' /\ Beside
<1>1. UNCHANGED <<pc, prompts, pending, raises>>
  BY DEF Steer, FollowUp, ClearQueues, Reset, runVars
<1>2. pc = "idle" => Undelivered = <<>>
  BY NotCarrying DEF DInv
<1> QED
  BY <1>1, <1>2 DEF DInv, Carried, Undelivered, Beside

(* A listener raises: what is in flight is dropped, unless the exception goes nowhere. *)
LEMMA FailureKinds ==
  ASSUME DInv, ListenerRaises \/ \E c \in Calls : ToolListenerRaises(c)
  PROVE  Carried' /\ (Keeps \/ Drops)
<1>1. raises \in Nat /\ raises' = raises + 1
  BY DEF DInv, TypeOK, CountersOK, ListenerRaises, ToolListenerRaises
<1>2. raises' # 0
  BY <1>1
<1>3. CASE RunFails
  <2>1. /\ prompts' = <<>> /\ pending' = <<>> /\ pc' = "hf_start"
        /\ UNCHANGED <<msgs, queues, intact>>
    BY <1>3 DEF RunFails
  <2>2. Undelivered' = <<>> \o <<>> /\ <<>> \o <<>> = <<>>
    BY <2>1, ConcatNothing, EmptySeq DEF Undelivered
  <2> QED
    BY <1>1, <1>2, <2>1, <2>2 DEF Carried, Drops
<1>4. CASE ~RunFails
  <2>1. UNCHANGED <<pc, prompts, pending, msgs, queues, intact>>
    BY <1>4 DEF ListenerRaises, ToolListenerRaises, agentState, runVars, queues
  <2> QED
    BY <1>2, <2>1 DEF DInv, Carried, Undelivered, Keeps, Calm
<1> QED
  BY <1>3, <1>4

LEMMA Classified == ASSUME DInv, [Next]_vars PROVE Carried' /\ OfKind
<1>1. CASE UNCHANGED vars
  BY <1>1 DEF vars, agentState, runVars, DInv, Carried, Undelivered, Keeps, Calm, OfKind
<1>2. CASE LoopStep
  BY <1>2, StreamKinds, BatchKinds, EndKinds, AnnounceKinds, PromptKinds, TurnEndKinds
  DEF LoopStep, OfKind
<1>3. CASE Prepare
  BY <1>3, BatchKinds DEF Prepare, OfKind
<1>4. CASE ClientStep
  BY <1>4, StartKinds, BesideKinds, ElsewhereKinds DEF ClientStep, OfKind
<1>5. CASE Failing
  BY <1>5, EndKinds, FailureKinds DEF Failing, OfKind
<1>6. CASE ProviderStart \/ ProviderDelta \/ ProviderEnds
  BY <1>6, StreamKinds DEF OfKind
<1>7. CASE \E c \in Calls : ToolUpdates(c) \/ ToolStep(c)
  BY <1>7, ElsewhereKinds DEF ToolStep, OfKind
<1> QED
  BY <1>1, <1>2, <1>3, <1>4, <1>5, <1>6, <1>7 DEF Next

-----------------------------------------------------------------------------
(* What is in flight is sorted by lane, and the steps are those of MessageDelivery. *)
Wait == Waits(Undelivered, steering, followUp)

LEMMA MappedWait ==
  [lane \in Lanes |-> Waiting(lane)] = Wait /\ [lane \in Lanes |-> Waiting(lane)]' = Wait'
<1>1. \A l \in Lanes : Waiting(l) = Wait[l]
  BY DEF Wait, Waits, Waiting, InFlight, Queue, Part
<1>2. \A l \in Lanes : Waiting(l)' = Wait'[l]
  BY DEF Wait, Waits, Waiting, InFlight, Queue, Part
<1>3. Wait = [l \in Lanes |-> Wait[l]] /\ Wait' = [l \in Lanes |-> Wait'[l]]
  BY DEF Wait, Waits
<1> QED
  BY <1>1, <1>2, <1>3

LEMMA TranscriptGrows ==
  ASSUME AgentStateOK, NEW m \in Message
  PROVE  Numbers(Chosen(Append(msgs, m), UserMessage))
           = IF m \in UserMessage THEN Append(Numbers(Chosen(msgs, UserMessage)), m.id)
             ELSE Numbers(Chosen(msgs, UserMessage))
<1>1. msgs \in Seq(Message)
  BY DEF AgentStateOK
<1>2. Chosen(Append(msgs, m), UserMessage)
        = IF m \in UserMessage THEN Append(Chosen(msgs, UserMessage), m)
          ELSE Chosen(msgs, UserMessage)
  BY <1>1, ChosenAppend
<1>3. Chosen(msgs, UserMessage) \in Seq(UserMessage)
  <2>1. Chosen(msgs, UserMessage) \in Seq(Message \cap UserMessage)
    BY <1>1, ChosenType
  <2>2. Message \cap UserMessage = UserMessage
    BY Kinds
  <2> QED
    BY <2>1, <2>2
<1>4. CASE m \in UserMessage
  BY <1>2, <1>3, <1>4, NumbersAppend
<1>5. CASE m \notin UserMessage
  BY <1>2, <1>5
<1> QED
  BY <1>4, <1>5

\* The abstract step of each kind.
MapsTo == Sorted(Undelivered, steering, followUp)' /\ [Delivery!Next]_Delivery!vars

LEMMA KeepsMaps == ASSUME DInv, Keeps PROVE MapsTo
<1>1. Wait' = Wait /\ Sorted(Undelivered, steering, followUp)' /\ accepted' = accepted
  BY DEF DInv, Keeps, Wait, queues
<1>2. Numbers(Chosen(msgs, UserMessage))' = Numbers(Chosen(msgs, UserMessage))
  <2>1. CASE msgs' = msgs
    BY <2>1
  <2>2. CASE \E m \in Assistant \cup ToolResult : msgs' = Append(msgs, m)
    <3>1. PICK m \in Assistant \cup ToolResult : msgs' = Append(msgs, m)
      BY <2>2
    <3>2. m \in Message /\ m \notin UserMessage
      BY DEF Message, UserMessage, Assistant, ToolResult
    <3>3. Numbers(Chosen(Append(msgs, m), UserMessage)) = Numbers(Chosen(msgs, UserMessage))
      BY <3>2, TranscriptGrows DEF DInv, TypeOK
    <3> QED
      BY <3>1, <3>3
  <2> QED
    BY <2>1, <2>2 DEF Keeps
<1>3. UNCHANGED Delivery!vars
  BY <1>1, <1>2, MappedWait DEF Delivery!vars
<1> QED
  BY <1>1, <1>3 DEF MapsTo

LEMMA DrainsMaps == ASSUME DInv, Drains PROVE MapsTo
<1>1. Sorted(<<>>, steering, followUp) /\ Wait = Waits(<<>>, steering, followUp)
  BY DEF DInv, Drains, Wait
<1>2. /\ Sorted(Undelivered', steering', followUp')
      /\ Waits(Undelivered', steering', followUp') = Waits(<<>>, steering, followUp)
  <2>1. CASE /\ Undelivered' \in Seq(OfLane("steer")) /\ steering' \in Seq(OfLane("steer"))
             /\ steering = Undelivered' \o steering' /\ followUp' = followUp
    <3>1. /\ Sorted(Undelivered', steering', followUp)
          /\ Waits(Undelivered', steering', followUp) = Waits(<<>>, steering, followUp)
      BY <1>1, <2>1, DrainedSteers
    <3> QED
      BY <2>1, <3>1
  <2>2. CASE /\ Undelivered' \in Seq(OfLane("followUp")) /\ followUp' \in Seq(OfLane("followUp"))
             /\ followUp = Undelivered' \o followUp' /\ steering' = steering
    <3>1. /\ Sorted(Undelivered', steering, followUp')
          /\ Waits(Undelivered', steering, followUp') = Waits(<<>>, steering, followUp)
      BY <1>1, <2>2, DrainedFollows
    <3> QED
      BY <2>2, <3>1
  <2> QED
    BY <2>1, <2>2 DEF Drains
<1>3. UNCHANGED Delivery!vars
  BY <1>1, <1>2, MappedWait DEF Drains, Wait, Delivery!vars
<1> QED
  BY <1>2, <1>3 DEF MapsTo

LEMMA DeliversMaps == ASSUME DInv, Delivers PROVE MapsTo
<1>1. PICK k \in Lanes :
        /\ Wait[k] # <<>> /\ Head(Wait[k]) = Head(Undelivered).id
        /\ Waits(Tail(Undelivered), steering, followUp) = Served(Wait, k)
  <2>1. Sorted(Undelivered, steering, followUp) /\ Undelivered # <<>>
    BY DEF DInv, Delivers
  <2>2. \E k \in Lanes :
          /\ Waits(Undelivered, steering, followUp)[k] # <<>>
          /\ Head(Waits(Undelivered, steering, followUp)[k]) = Head(Undelivered).id
          /\ Waits(Tail(Undelivered), steering, followUp)
               = Served(Waits(Undelivered, steering, followUp), k)
    BY <2>1, DeliveredWaits
  <2> QED
    BY <2>2 DEF Wait
<1>2. Head(Undelivered) \in UserMessage /\ Sorted(Tail(Undelivered), steering, followUp)
  BY DeliveredWaits DEF DInv, Delivers
<1>3. Wait' = Served(Wait, k) /\ Sorted(Undelivered, steering, followUp)'
  BY <1>1, <1>2 DEF Delivers, Wait, queues
<1>4. Numbers(Chosen(msgs, UserMessage))'
        = Append(Numbers(Chosen(msgs, UserMessage)), Head(Wait[k]))
  <2>1. Numbers(Chosen(Append(msgs, Head(Undelivered)), UserMessage))
          = Append(Numbers(Chosen(msgs, UserMessage)), Head(Undelivered).id)
    BY <1>2, TranscriptGrows, Kinds DEF DInv, TypeOK
  <2> QED
    BY <1>1, <2>1 DEF Delivers
<1>5. Delivery!Deliver(k)
  BY <1>1, <1>3, <1>4, MappedWait DEF Delivers, queues, Delivery!Deliver, Served
<1> QED
  BY <1>3, <1>5 DEF MapsTo, Delivery!Next

LEMMA AcceptMaps ==
  ASSUME NEW l \in Lanes, Sorted(Undelivered, steering, followUp)',
         accepted' = accepted + 1, msgs' = msgs,
         Wait' = Added(Wait, l, accepted + 1)
  PROVE  MapsTo
<1>1. Delivery!Accept(l)
  BY MappedWait DEF Delivery!Accept, Added
<1> QED
  BY <1>1 DEF MapsTo, Delivery!Next

LEMMA Accepted ==
  ASSUME DInv, accepted < MaxMessages, NEW l \in Lanes
  PROVE  User(accepted + 1, l) \in OfLane(l) /\ User(accepted + 1, l).id = accepted + 1
<1>1. User(accepted + 1, l) \in UserMessage
  BY NewUser DEF DInv, TypeOK
<1> QED
  BY <1>1 DEF OfLane, User

LEMMA PromptsMaps == ASSUME DInv, Prompts PROVE MapsTo
<1> DEFINE m == User(accepted + 1, "prompt")
<1>1. m \in OfLane("prompt") /\ m.id = accepted + 1 /\ "prompt" \in Lanes
  BY Accepted DEF Prompts, Lanes
<1>4. Undelivered' = <<m>> /\ steering' = steering /\ followUp' = followUp
  BY DEF Prompts
<1> HIDE DEF m
<1>2. Sorted(<<>>, steering, followUp) /\ Wait = Waits(<<>>, steering, followUp)
  BY DEF DInv, Prompts, Wait
<1>3. /\ Sorted(<<m>>, steering, followUp)
      /\ Waits(<<m>>, steering, followUp)
           = Added(Waits(<<>>, steering, followUp), "prompt", m.id)
  BY <1>1, <1>2, PromptedWaits
<1>5. Sorted(Undelivered, steering, followUp)' /\ Wait' = Added(Wait, "prompt", accepted + 1)
  BY <1>1, <1>2, <1>3, <1>4 DEF Wait
<1> QED
  BY <1>1, <1>5, AcceptMaps DEF Prompts

LEMMA DropMaps ==
  ASSUME Sorted(Undelivered, steering, followUp)', UNCHANGED accepted,
         \A l \in Lanes : EndOf(Wait[l], Wait'[l]),
         msgs' = msgs \/ msgs' = <<>>
  PROVE  MapsTo
<1>1. DOMAIN Wait' = Lanes
  BY DEF Wait, Waits
<1>2. ASSUME Wait' # Wait PROVE Delivery!Shortened
  <2>1. \A l \in Lanes : \E i \in 1..Len(Wait[l]) + 1, j \in 0..Len(Wait[l]) :
          Wait'[l] = SubSeq(Wait[l], i, j)
    BY DEF EndOf
  <2> DEFINE W == [lane \in Lanes |-> Waiting(lane)]
  <2>2. W = Wait /\ W' = Wait'
    BY MappedWait
  <2> HIDE DEF W
  <2>3. /\ W' # W /\ DOMAIN W' = Lanes
        /\ \A l \in Lanes : \E i \in 1..Len(W[l]) + 1, j \in 0..Len(W[l]) :
             W'[l] = SubSeq(W[l], i, j)
    BY <1>1, <1>2, <2>1, <2>2
  <2> QED
    BY <2>3 DEF Delivery!Shortened, W
<1>3. CASE msgs' = msgs
  <2>1. CASE Wait' = Wait
    BY <1>3, <2>1, MappedWait DEF MapsTo, Delivery!vars
  <2>2. CASE Delivery!Shortened
    BY <1>3, <2>2 DEF MapsTo, Delivery!Drop, Delivery!Next
  <2> QED
    BY <1>2, <2>1, <2>2
<1>4. CASE msgs' = <<>>
  <2>1. Numbers(Chosen(msgs, UserMessage))' = <<>>
    BY <1>4, ChosenNothing, NumbersNothing
  <2>2. Delivery!Forget
    BY <1>2, <2>1, MappedWait DEF Delivery!Forget
  <2> QED
    BY <2>2 DEF MapsTo, Delivery!Next
<1> QED
  BY <1>3, <1>4

LEMMA DropsMaps == ASSUME DInv, Drops PROVE MapsTo
<1>1. Sorted(<<>>, steering, followUp) /\ \A l \in Lanes : EndOf(Wait[l], Waits(<<>>, steering, followUp)[l])
  BY SortedNothing, DroppedWaits DEF DInv, Wait
<1>2. Undelivered' = <<>> /\ UNCHANGED <<msgs, steering, followUp, accepted>>
  BY DEF Drops, queues
<1>3. Sorted(Undelivered, steering, followUp)' /\ Wait' = Waits(<<>>, steering, followUp)
  BY <1>1, <1>2 DEF Wait
<1> QED
  BY <1>1, <1>2, <1>3, DropMaps

LEMMA BesideMaps == ASSUME DInv, Beside PROVE MapsTo
<1>1. Sorted(Undelivered, steering, followUp) /\ Undelivered' = Undelivered
  BY DEF DInv, Beside
<1>2. "steer" \in Lanes /\ "followUp" \in Lanes
  BY DEF Lanes
<1>3. CASE Steer
  <2> DEFINE m == User(accepted + 1, "steer")
  <2>1. m \in OfLane("steer") /\ m.id = accepted + 1
    BY <1>2, <1>3, Accepted DEF Steer
  <2>2. /\ steering' = Append(steering, m) /\ followUp' = followUp
        /\ accepted' = accepted + 1 /\ msgs' = msgs
    BY <1>3 DEF Steer, agentState
  <2> HIDE DEF m
  <2>3. /\ Sorted(Undelivered, Append(steering, m), followUp)
        /\ Waits(Undelivered, Append(steering, m), followUp) = Added(Wait, "steer", m.id)
    BY <1>1, <2>1, QueuedWaits DEF Wait
  <2>4. /\ Sorted(Undelivered, steering, followUp)'
        /\ Wait' = Added(Wait, "steer", accepted + 1)
    BY <1>1, <2>1, <2>2, <2>3 DEF Wait
  <2> QED
    BY <1>2, <2>2, <2>4, AcceptMaps
<1>4. CASE FollowUp
  <2> DEFINE m == User(accepted + 1, "followUp")
  <2>1. m \in OfLane("followUp") /\ m.id = accepted + 1
    BY <1>2, <1>4, Accepted DEF FollowUp
  <2>2. /\ followUp' = Append(followUp, m) /\ steering' = steering
        /\ accepted' = accepted + 1 /\ msgs' = msgs
    BY <1>4 DEF FollowUp, agentState
  <2> HIDE DEF m
  <2>3. /\ Sorted(Undelivered, steering, Append(followUp, m))
        /\ Waits(Undelivered, steering, Append(followUp, m)) = Added(Wait, "followUp", m.id)
    BY <1>1, <2>1, QueuedWaits DEF Wait
  <2>4. /\ Sorted(Undelivered, steering, followUp)'
        /\ Wait' = Added(Wait, "followUp", accepted + 1)
    BY <1>1, <2>1, <2>2, <2>3 DEF Wait
  <2> QED
    BY <1>2, <2>2, <2>4, AcceptMaps
<1>5. CASE ClearQueues \/ Reset
  <2>1. /\ steering' \in {steering, <<>>} /\ followUp' \in {followUp, <<>>}
        /\ accepted' = accepted /\ (msgs' = msgs \/ msgs' = <<>>)
    BY <1>5 DEF ClearQueues, Reset, agentState
  <2>2. /\ Sorted(Undelivered, steering', followUp')
        /\ \A l \in Lanes : EndOf(Wait[l], Waits(Undelivered, steering', followUp')[l])
    BY <1>1, <2>1, ClearedWaits DEF Wait
  <2>3. Sorted(Undelivered, steering, followUp)' /\ \A l \in Lanes : EndOf(Wait[l], Wait'[l])
    BY <1>1, <2>2 DEF Wait
  <2> QED
    BY <2>1, <2>3, DropMaps
<1> QED
  BY <1>3, <1>4, <1>5 DEF Beside

LEMMA StepMaps == ASSUME DInv, [Next]_vars PROVE DInv' /\ [Delivery!Next]_Delivery!vars
<1>1. MapsTo /\ Carried'
  BY Classified, KeepsMaps, DrainsMaps, DeliversMaps, PromptsMaps, DropsMaps, BesideMaps DEF OfKind
<1>2. TypeOK' /\ LocalsFit'
  BY FlagsNext, CountersNext, QueuesNext, ToolsNext, LoopNext, AgentStateNext, LocalsNext
  DEF DInv, TypeOK
<1> QED
  BY <1>1, <1>2 DEF MapsTo, DInv

LEMMA InitMaps == Init => DInv /\ Delivery!Init
<1> SUFFICES ASSUME Init PROVE DInv /\ Delivery!Init
  OBVIOUS
<1>1. Undelivered = <<>>
  <2>1. Undelivered = <<>> \o <<>>
    BY DEF Init, Undelivered
  <2> QED
    BY <2>1, ConcatNothing, EmptySeq
<1>2. Sorted(<<>>, <<>>, <<>>)
  BY EmptySeq DEF Sorted, Lanes
<1>3. Sorted(Undelivered, steering, followUp)
  BY <1>1, <1>2 DEF Init
<1>4. DInv
  BY <1>3, TypeInit DEF Init, DInv, Carried
<1>5. Wait = [l \in Lanes |-> <<>>]
  <2>1. Wait = Waits(<<>>, <<>>, <<>>)
    BY <1>1 DEF Init, Wait
  <2>2. \A l \in Lanes : Part(l, <<>>, <<>>, <<>>) = <<>>
    BY <1>2, PartNothing DEF Lanes
  <2> QED
    BY <2>1, <2>2, NumbersNothing DEF Waits
<1>6. Numbers(Chosen(msgs, UserMessage)) = <<>>
  BY ChosenNothing, NumbersNothing DEF Init
<1>7. Delivery!Init
  BY <1>5, <1>6, MappedWait DEF Init, Delivery!Init
<1> QED
  BY <1>4, <1>7

(* Each step of the loop, of its callers and of its failures is one step of
   MessageDelivery or none, for all bounds and drain modes. *)
THEOREM AgentDelivers == Spec => ImplementsDelivery
<1>1. DInv /\ [Next]_vars => DInv' /\ [Delivery!Next]_Delivery!vars
  BY StepMaps
<1>2. Init => DInv /\ Delivery!Init
  BY InitMaps
<1> QED
  BY <1>1, <1>2, PTL DEF Spec, ImplementsDelivery, Delivery!Spec

-----------------------------------------------------------------------------
(* No message is lost. *)
LEMMA ElemsAppend ==
  ASSUME NEW S, NEW s \in Seq(S), NEW e \in S PROVE Elems(Append(s, e)) = Elems(s) \cup {e}
<1> DEFINE t == Append(s, e)
<1>1. /\ Len(t) = Len(s) + 1 /\ Len(s) \in Nat
      /\ \A i \in 1..Len(s) : t[i] = s[i]
      /\ t[Len(s) + 1] = e
  OBVIOUS
<1> HIDE DEF t
<1>2. 1..Len(t) = 1..Len(s) \cup {Len(s) + 1}
  BY <1>1
<1>3. Elems(t) = Elems(s) \cup {e}
  BY <1>1, <1>2 DEF Elems
<1> QED
  BY <1>3 DEF t

LEMMA ElemsConcat ==
  ASSUME NEW S, NEW s \in Seq(S), NEW t \in Seq(S) PROVE Elems(s \o t) = Elems(s) \cup Elems(t)
<1> DEFINE w == s \o t
<1>1. /\ Len(w) = Len(s) + Len(t) /\ Len(s) \in Nat /\ Len(t) \in Nat
      /\ \A i \in 1..Len(s) : w[i] = s[i]
      /\ \A i \in 1..Len(t) : w[Len(s) + i] = t[i]
  OBVIOUS
<1> HIDE DEF w
<1>2. ASSUME NEW i \in 1..Len(w) PROVE i \in 1..Len(s) \/ i - Len(s) \in 1..Len(t)
  BY <1>1
<1>3. ASSUME NEW i \in 1..Len(w) PROVE w[i] \in Elems(s) \cup Elems(t)
  <2>1. CASE i \in 1..Len(s)
    BY <1>1, <2>1 DEF Elems
  <2>2. CASE i - Len(s) \in 1..Len(t)
    <3>1. w[Len(s) + (i - Len(s))] = t[i - Len(s)] /\ Len(s) + (i - Len(s)) = i
      BY <1>1, <2>2
    <3> QED
      BY <2>2, <3>1 DEF Elems
  <2> QED
    BY <1>2, <2>1, <2>2
<1>4. ASSUME NEW i \in 1..Len(s) PROVE s[i] \in Elems(w)
  <2>1. i \in 1..Len(w)
    BY <1>1
  <2> QED
    BY <1>1, <2>1 DEF Elems
<1>5. ASSUME NEW i \in 1..Len(t) PROVE t[i] \in Elems(w)
  <2>1. Len(s) + i \in 1..Len(w)
    BY <1>1
  <2> QED
    BY <1>1, <2>1 DEF Elems
<1>6. Elems(w) \subseteq Elems(s) \cup Elems(t)
  BY <1>3 DEF Elems
<1>7. Elems(s) \subseteq Elems(w) /\ Elems(t) \subseteq Elems(w)
  BY <1>4, <1>5 DEF Elems
<1> QED
  BY <1>6, <1>7 DEF w

LEMMA ElemsHead ==
  ASSUME NEW S, NEW s \in Seq(S), s # <<>> PROVE Elems(s) = {Head(s)} \cup Elems(Tail(s))
<1>1. /\ Head(s) \in S /\ Tail(s) \in Seq(S) /\ <<Head(s)>> \in Seq(S)
      /\ s = <<Head(s)>> \o Tail(s)
  OBVIOUS
<1>2. Elems(s) = Elems(<<Head(s)>>) \cup Elems(Tail(s))
  <2>1. \A a \in Seq(S), b \in Seq(S) : s = a \o b => Elems(s) = Elems(a) \cup Elems(b)
    BY ElemsConcat
  <2> QED
    BY <1>1, <2>1
<1>3. Elems(<<Head(s)>>) = {Head(s)}
  BY DEF Elems
<1> QED
  BY <1>2, <1>3

LEMMA ElemsNothing == Elems(<<>>) = {}
BY DEF Elems

LEMMA NumbersOfUnion ==
  ASSUME NEW A, NEW B PROVE NumbersOf(A \cup B) = NumbersOf(A) \cup NumbersOf(B)
BY DEF NumbersOf

LEMMA NumbersOfMore ==
  ASSUME NEW A, NEW m
  PROVE  NumbersOf(A \cup {m}) = IF m.role = "user" THEN NumbersOf(A) \cup {m.id} ELSE NumbersOf(A)
BY DEF NumbersOf

\* The accepted messages that are somewhere, and the two ways a step may change them.
Kept == Elems(msgs) \cup Elems(Undelivered) \cup Elems(steering) \cup Elems(followUp)
Same == NumbersOf(Kept)' = NumbersOf(Kept) /\ UNCHANGED <<accepted, discarded>>
Grows ==
  /\ NumbersOf(Kept)' = NumbersOf(Kept) \cup {accepted + 1}
  /\ accepted' = accepted + 1 /\ discarded' = discarded

LEMMA SeqsOfMessages ==
  ASSUME DInv
  PROVE  /\ msgs \in Seq(Message) /\ Undelivered \in Seq(UserMessage)
         /\ steering \in Seq(UserMessage) /\ followUp \in Seq(UserMessage)
BY OfLaneSeq DEF DInv, Sorted, TypeOK, AgentStateOK

LEMMA KeepsSame == ASSUME DInv, Keeps PROVE Same
<1>1. CASE msgs' = msgs
  BY <1>1 DEF Keeps, queues, Kept, Same
<1>2. CASE \E m \in Assistant \cup ToolResult : msgs' = Append(msgs, m)
  <2>1. PICK m \in Assistant \cup ToolResult : msgs' = Append(msgs, m)
    BY <1>2
  <2>2. m \in Message /\ m.role # "user"
    BY DEF Message, UserMessage, Assistant, ToolResult
  <2>3. Elems(msgs') = Elems(msgs) \cup {m}
    BY <2>1, <2>2, SeqsOfMessages, ElemsAppend
  <2>4. Kept' = Kept \cup {m}
    BY <2>3 DEF Kept, Keeps, queues
  <2>5. NumbersOf(Kept \cup {m}) = NumbersOf(Kept)
    BY <2>2, NumbersOfMore
  <2> QED
    BY <2>4, <2>5 DEF Same, Keeps, queues
<1> QED
  BY <1>1, <1>2 DEF Keeps

LEMMA DrainsSame == ASSUME DInv, Drains PROVE Same
<1>1. Elems(Undelivered) = {}
  BY ElemsNothing DEF Drains
<1>2. CASE /\ Undelivered' \in Seq(OfLane("steer")) /\ steering' \in Seq(OfLane("steer"))
           /\ steering = Undelivered' \o steering' /\ followUp' = followUp
  <2>1. Elems(steering) = Elems(Undelivered') \cup Elems(steering')
    BY <1>2, ElemsConcat
  <2> QED
    BY <1>1, <1>2, <2>1 DEF Kept, Same, Drains
<1>3. CASE /\ Undelivered' \in Seq(OfLane("followUp")) /\ followUp' \in Seq(OfLane("followUp"))
           /\ followUp = Undelivered' \o followUp' /\ steering' = steering
  <2>1. Elems(followUp) = Elems(Undelivered') \cup Elems(followUp')
    BY <1>3, ElemsConcat
  <2> QED
    BY <1>1, <1>3, <2>1 DEF Kept, Same, Drains
<1> QED
  BY <1>2, <1>3 DEF Drains

LEMMA DeliversSame == ASSUME DInv, Delivers PROVE Same
<1>1. Elems(Undelivered) = {Head(Undelivered)} \cup Elems(Undelivered')
  <2>1. Elems(Undelivered) = {Head(Undelivered)} \cup Elems(Tail(Undelivered))
    BY SeqsOfMessages, ElemsHead DEF Delivers
  <2> QED
    BY <2>1 DEF Delivers
<1>2. Elems(msgs') = Elems(msgs) \cup {Head(Undelivered)}
  <2>1. Head(Undelivered) \in Message
    <3>1. Undelivered \in Seq(UserMessage) /\ Undelivered # <<>>
      BY SeqsOfMessages DEF Delivers
    <3>2. Head(Undelivered) \in UserMessage
      BY <3>1
    <3> QED
      BY <3>2, Kinds
  <2> QED
    BY <2>1, SeqsOfMessages, ElemsAppend DEF Delivers
<1> QED
  BY <1>1, <1>2 DEF Kept, Same, Delivers, queues

LEMMA OneMore ==
  ASSUME DInv, NEW l \in Lanes, accepted < MaxMessages, accepted' = accepted + 1,
         discarded' = discarded, Kept' = Kept \cup {User(accepted + 1, l)}
  PROVE  Grows
<1>1. User(accepted + 1, l).role = "user" /\ User(accepted + 1, l).id = accepted + 1
  BY DEF User
<1>2. NumbersOf(Kept \cup {User(accepted + 1, l)}) = NumbersOf(Kept) \cup {accepted + 1}
  BY <1>1, NumbersOfMore
<1> QED
  BY <1>2 DEF Grows

LEMMA PromptsGrow == ASSUME DInv, Prompts PROVE Grows
<1> DEFINE m == User(accepted + 1, "prompt")
<1>1. Elems(Undelivered) = {} /\ Elems(<<m>>) = {m}
  BY ElemsNothing DEF Prompts, Elems
<1>2. Undelivered' = <<m>>
  BY DEF Prompts
<1> HIDE DEF m
<1>3. Kept' = Kept \cup {m}
  BY <1>1, <1>2 DEF Kept, Prompts
<1> QED
  BY <1>3, OneMore DEF Prompts, Lanes, m

LEMMA QueuedGrow ==
  ASSUME DInv, Steer \/ FollowUp, Undelivered' = Undelivered PROVE Grows
<1>1. CASE Steer
  <2> DEFINE m == User(accepted + 1, "steer")
  <2>1. m \in UserMessage
    BY <1>1, NewUser DEF DInv, TypeOK, Steer, Lanes
  <2>2. steering' = Append(steering, m) /\ UNCHANGED <<msgs, followUp>>
    BY <1>1 DEF Steer, agentState
  <2> HIDE DEF m
  <2>3. Elems(steering') = Elems(steering) \cup {m}
    BY <2>1, <2>2, SeqsOfMessages, ElemsAppend
  <2>4. Kept' = Kept \cup {m}
    BY <2>2, <2>3 DEF Kept
  <2> QED
    BY <1>1, <2>4, OneMore DEF Steer, Lanes, m
<1>2. CASE FollowUp
  <2> DEFINE m == User(accepted + 1, "followUp")
  <2>1. m \in UserMessage
    BY <1>2, NewUser DEF DInv, TypeOK, FollowUp, Lanes
  <2>2. followUp' = Append(followUp, m) /\ UNCHANGED <<msgs, steering>>
    BY <1>2 DEF FollowUp, agentState
  <2> HIDE DEF m
  <2>3. Elems(followUp') = Elems(followUp) \cup {m}
    BY <2>1, <2>2, SeqsOfMessages, ElemsAppend
  <2>4. Kept' = Kept \cup {m}
    BY <2>2, <2>3 DEF Kept
  <2> QED
    BY <1>2, <2>4, OneMore DEF FollowUp, Lanes, m
<1> QED
  BY <1>1, <1>2

(* What clearing takes from the queues and the transcript is counted as discarded. *)
LEMMA Cleared ==
  ASSUME DInv, ClearQueues \/ Reset, Undelivered' = Undelivered
  PROVE  /\ accepted' = accepted
         /\ discarded' \cup NumbersOf(Kept)' = discarded \cup NumbersOf(Kept)
<1>1. /\ \A m \in Elems(steering) \cup Elems(followUp) : m.role = "user"
      /\ \A m \in Elems(Undelivered) : m.role = "user"
  <2>1. /\ Elems(steering) \subseteq UserMessage /\ Elems(followUp) \subseteq UserMessage
        /\ Elems(Undelivered) \subseteq UserMessage
    BY SeqsOfMessages, ElemsType
  <2> QED
    BY <2>1, Kinds
<1>2. CASE ClearQueues
  <2>1. PICK gone \in SUBSET (Elems(steering) \cup Elems(followUp)) :
          /\ discarded' = discarded \cup {m.id : m \in gone}
          /\ Elems(steering) \cup Elems(followUp) = gone \cup Elems(steering') \cup Elems(followUp')
    <3>1. PICK qs \in SUBSET {"steer", "followUp"} :
            /\ steering' = IF "steer" \in qs THEN <<>> ELSE steering
            /\ followUp' = IF "followUp" \in qs THEN <<>> ELSE followUp
            /\ discarded' = discarded \cup {m.id : m \in
                 (IF "steer" \in qs THEN Elems(steering) ELSE {})
                 \cup (IF "followUp" \in qs THEN Elems(followUp) ELSE {})}
      BY <1>2 DEF ClearQueues
    <3> DEFINE gone == (IF "steer" \in qs THEN Elems(steering) ELSE {})
                       \cup (IF "followUp" \in qs THEN Elems(followUp) ELSE {})
    <3>2. gone \in SUBSET (Elems(steering) \cup Elems(followUp))
      OBVIOUS
    <3>3. Elems(steering) \cup Elems(followUp) = gone \cup Elems(steering') \cup Elems(followUp')
      BY <3>1, ElemsNothing
    <3>4. discarded' = discarded \cup {m.id : m \in gone}
      BY <3>1
    <3> HIDE DEF gone
    <3> QED
      BY <3>2, <3>3, <3>4
  <2>2. NumbersOf(gone) = {m.id : m \in gone}
    BY <1>1 DEF NumbersOf
  <2>3. msgs' = msgs /\ accepted' = accepted
    BY <1>2 DEF ClearQueues, agentState
  <2>4. Kept = Kept' \cup gone
    BY <2>1, <2>3 DEF Kept
  <2>5. NumbersOf(Kept) = NumbersOf(Kept') \cup NumbersOf(gone)
    BY <2>4, NumbersOfUnion
  <2> QED
    BY <2>1, <2>2, <2>3, <2>5
<1>3. CASE Reset
  <2> DEFINE gone == Elems(steering) \cup Elems(followUp)
  <2>1. /\ accepted' = accepted /\ msgs' = <<>> /\ steering' = <<>> /\ followUp' = <<>>
        /\ discarded' = discarded \cup {m.id : m \in gone} \cup NumbersOf(Elems(msgs))
    BY <1>3 DEF Reset, NumbersOf
  <2>2. NumbersOf(gone) = {m.id : m \in gone}
    BY <1>1 DEF NumbersOf
  <2>3. Kept' = Elems(Undelivered)
    BY <2>1, ElemsNothing DEF Kept
  <2>4. Kept = Kept' \cup (gone \cup Elems(msgs))
    BY <2>3 DEF Kept
  <2> HIDE DEF gone
  <2>5. NumbersOf(Kept) = NumbersOf(Kept') \cup NumbersOf(gone \cup Elems(msgs))
    BY <2>4, NumbersOfUnion
  <2>6. NumbersOf(gone \cup Elems(msgs)) = NumbersOf(gone) \cup NumbersOf(Elems(msgs))
    BY NumbersOfUnion
  <2> QED
    BY <2>1, <2>2, <2>5, <2>6
<1> QED
  BY <1>2, <1>3

LEMMA LostStep ==
  ASSUME DInv, NoMessageLost, [Next]_vars PROVE NoMessageLost'
<1> SUFFICES ASSUME raises' = 0 PROVE 1..accepted' = discarded' \cup NumbersOf(Kept)'
  BY DEF NoMessageLost, Kept
<1>1. raises = 0 => 1..accepted = discarded \cup NumbersOf(Kept)
  BY DEF NoMessageLost, Kept
<1>2. OfKind
  BY Classified
<1>3. ASSUME raises = 0, Same PROVE 1..accepted' = discarded' \cup NumbersOf(Kept)'
  BY <1>1, <1>3 DEF Same
<1>4. ASSUME raises = 0, Grows PROVE 1..accepted' = discarded' \cup NumbersOf(Kept)'
  <2>1. 1..accepted + 1 = 1..accepted \cup {accepted + 1}
    BY DEF DInv, TypeOK, CountersOK
  <2> QED
    BY <1>1, <1>4, <2>1 DEF Grows
<1>5. CASE Keeps
  BY <1>3, <1>5, KeepsSame DEF Keeps, Calm
<1>6. CASE Drains
  BY <1>3, <1>6, DrainsSame DEF Drains, Calm
<1>7. CASE Delivers
  BY <1>3, <1>7, DeliversSame DEF Delivers, Calm
<1>8. CASE Prompts
  BY <1>4, <1>8, PromptsGrow DEF Prompts, Calm
<1>9. CASE Drops
  <2>1. Undelivered = <<>> /\ raises = 0
    BY <1>9 DEF Drops
  <2>2. Same
    BY <1>9, <2>1 DEF Drops, Same, Kept, queues
  <2> QED
    BY <1>3, <2>1, <2>2
<1>10. CASE Beside
  <2>1. raises = 0 /\ Undelivered' = Undelivered
    BY <1>10 DEF Beside
  <2>2. CASE Steer \/ FollowUp
    BY <1>4, <2>1, <2>2, QueuedGrow
  <2>3. CASE ClearQueues \/ Reset
    BY <1>1, <2>1, <2>3, Cleared
  <2> QED
    BY <1>10, <2>2, <2>3 DEF Beside
<1> QED
  BY <1>2, <1>5, <1>6, <1>7, <1>8, <1>9, <1>10 DEF OfKind

(* Only a listener's exception loses a message, for all bounds and drain modes: not an
   abort, a failed reply, an exception of the provider, or a reset during a run. *)
THEOREM NothingLost == Spec => []NoMessageLost
<1>1. Init => DInv /\ NoMessageLost
  <2> SUFFICES ASSUME Init PROVE NoMessageLost
    BY InitMaps
  <2>1. Undelivered = <<>>
    <3>1. Undelivered = <<>> \o <<>>
      BY DEF Init, Undelivered
    <3> QED
      BY <3>1, ConcatNothing, EmptySeq
  <2>2. 1..0 = {}
    OBVIOUS
  <2> QED
    BY <2>1, <2>2, ElemsNothing DEF Init, NoMessageLost, NumbersOf
<1>2. DInv /\ NoMessageLost /\ [Next]_vars => (DInv /\ NoMessageLost)'
  BY StepMaps, LostStep
<1> QED
  BY <1>1, <1>2, PTL DEF Spec
=============================================================================
