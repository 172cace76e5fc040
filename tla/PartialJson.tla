---------------------------- MODULE PartialJson -----------------------------
(* The arguments of a tool call while they stream in: after every piece the  *)
(* providers parse all the text there is by now with parse_streaming_json    *)
(* (utils/json_parse.py), which makes an object of the beginning of one.     *)
(* A text is a sequence of symbols, of which some stand for several          *)
(* characters: "tr" and "ue", and an "h" for two hexadecimal digits.         *)
EXTENDS Integers, Sequences, SequencesExt

CONSTANT Objects   \* the arguments

VARIABLES
  value,           \* what the model says, an object
  strict,          \* how that is written in JSON
  text,            \* how the model writes it
  came             \* how much of it has come

vars == <<value, strict, text, came>>

(* Values: an object's members in order, each a key and a value; strings are *)
(* decoded, numbers kept as they are written.                                *)
Str(v) == [str |-> v]
Num(v) == [num |-> v]
True == [true |-> <<>>]
Arr(v) == [arr |-> v]
Obj(v) == [obj |-> v]
Is(x) == CHOOSE is \in DOMAIN x : TRUE

(* json.dumps, of the model: with blanks, or without.                        *)
Escapes == [newline |-> <<"\\", "n">>, quote |-> <<"\\", "\"">>, backslash |-> <<"\\", "\\">>,
            unicode |-> <<"\\", "u", "h", "h">>]
Encoded(v) ==
  <<"\"">> \o FlattenSeq([i \in 1..Len(v) |-> IF v[i] \in DOMAIN Escapes THEN Escapes[v[i]] ELSE <<v[i]>>])
    \o <<"\"">>
Joined(parts, blank) ==
  FlattenSeq([i \in 1..Len(parts) |-> IF i = 1 THEN parts[i] ELSE <<",">> \o blank \o parts[i]])
RECURSIVE Written(_, _)
Written(x, blank) ==
  CASE Is(x) = "str" -> Encoded(x.str)
    [] Is(x) = "num" -> x.num
    [] Is(x) = "true" -> <<"tr", "ue">>
    [] Is(x) = "arr" -> <<"[">> \o Joined([i \in 1..Len(x.arr) |-> Written(x.arr[i], blank)], blank) \o <<"]">>
    [] Is(x) = "obj" ->
         LET member(m) == Encoded(m[1]) \o <<":">> \o blank \o Written(m[2], blank)
         IN <<"{">> \o Joined([i \in 1..Len(x.obj) |-> member(x.obj[i])], blank) \o <<"}">>

(* Models also write line breaks, and backslashes that escape nothing, as     *)
(* they are: here those whose strings are in no array and no inner object.   *)
Flat(x) == \A i \in 1..Len(x.obj) : Is(x.obj[i][2]) \notin {"arr", "obj"}
RECURSIVE Raw(_)
Raw(s) ==
  IF s = <<>> THEN <<>>
  ELSE IF IsPrefix(Escapes["newline"], s) THEN <<"\n">> \o Raw(SubSeq(s, 3, Len(s)))
  ELSE IF IsPrefix(<<"\\", "\\", "a">>, s) THEN <<"\\", "a">> \o Raw(SubSeq(s, 4, Len(s)))
  ELSE IF s[1] = "\\" THEN <<s[1], s[2]>> \o Raw(SubSeq(s, 3, Len(s)))
  ELSE <<s[1]>> \o Raw(Tail(s))

Init ==
  /\ value \in Objects /\ came = 0
  /\ \E blank \in {<<>>, <<" ">>}: strict = Written(value, blank)
  /\ text \in {strict} \cup IF Flat(value) THEN {Raw(strict)} ELSE {}

(* A piece comes: block["partialArgs"] += delta.                             *)
Piece == came < Len(text) /\ came' = came + 1 /\ UNCHANGED <<value, strict, text>>

Spec == Init /\ [][Piece]_vars

-----------------------------------------------------------------------------
(* parse_json, with everything allowed to be partial. Each returns whether   *)
(* it raised, what it parsed, and the index it left.                         *)
Got(v, i) == [ok |-> TRUE, v |-> v, i |-> i]
Raised(i) == [ok |-> FALSE, v |-> <<>>, i |-> i]
After(s, i) ==                        \* skip_blank
  IF \E j \in i..Len(s) : s[j] # " " THEN CHOOSE j \in i..Len(s) : s[j] # " " /\ \A k \in i..j - 1 : s[k] = " "
                                     ELSE Len(s) + 1
At(s, i, symbol) == i <= Len(s) /\ s[i] = symbol

(* json.loads of the inside of a string.                                     *)
RECURSIVE Decoded(_)
Decoded(c) ==
  IF c = <<>> THEN [ok |-> TRUE, v |-> <<>>]
  ELSE LET escape == {e \in DOMAIN Escapes : IsPrefix(Escapes[e], c)}
           size == IF c[1] # "\\" THEN 1 ELSE Len(Escapes[CHOOSE e \in escape : TRUE])
           rest == Decoded(SubSeq(c, size + 1, Len(c)))
       IN IF c[1] = "\n" \/ (c[1] = "\\" /\ escape = {}) THEN [ok |-> FALSE, v |-> <<>>]
          ELSE [rest EXCEPT !.v = <<IF c[1] = "\\" THEN CHOOSE e \in escape : TRUE ELSE c[1]>> \o @]

Mut_Escaping(s, from, j) == j > from /\ s[j] = "\\"   \* though it is escaped itself

(* A backslash that no backslash before it escapes.                          *)
Escaping(s, from, j) ==
  \E k \in from + 1..j : /\ \A b \in k..j : s[b] = "\\"
                         /\ k = from + 1 \/ s[k - 1] # "\\"
                         /\ (j - k) % 2 = 0
ParseStr(s, i) ==                     \* s[i] is the quote
  LET ends == {j \in i + 1..Len(s) : s[j] = "\"" /\ ~Escaping(s, i, j - 1)}
      first == CHOOSE j \in ends : \A k \in ends : j <= k
      all == SubSeq(s, i + 1, IF Escaping(s, i, Len(s)) THEN Len(s) - 1 ELSE Len(s))
      last == CHOOSE j \in i + 1..Len(s) : s[j] = "\\" /\ \A k \in j + 1..Len(s) : s[k] # "\\"
      whole == Decoded(IF ends # {} THEN SubSeq(s, i + 1, first - 1) ELSE all)
  IN IF ends # {} THEN IF whole.ok THEN Got(Str(whole.v), first + 1) ELSE Raised(first + 1)
     ELSE IF whole.ok THEN Got(Str(whole.v), Len(s) + 1)
     ELSE IF \A j \in i + 1..Len(s) : s[j] # "\\" THEN Raised(Len(s) + 1)
     ELSE Got(Str(Decoded(SubSeq(s, i + 1, last - 1)).v), Len(s) + 1)

(* json.loads of a number; else what is before the last "e" of the text.     *)
Digits(v) == v # <<>> /\ \A i \in 1..Len(v) : v[i] = "1"
IsNum(v) ==
  LET unsigned == IF v # <<>> /\ v[1] = "-" THEN Tail(v) ELSE v
  IN \/ Digits(unsigned)
     \/ \E j \in 1..Len(unsigned) :
          /\ unsigned[j] \in {".", "e"}
          /\ Digits(SubSeq(unsigned, 1, j - 1)) /\ Digits(SubSeq(unsigned, j + 1, Len(unsigned)))
ParseNum(s, i) ==
  LET stops == {j \in i..Len(s) : s[j] \in {",", "]", "}"}}
      end == IF stops = {} THEN Len(s) + 1 ELSE CHOOSE j \in stops : \A k \in stops : j <= k
      es == {j \in i..Len(s) : s[j] = "e"}
      beforeE == SubSeq(s, i, (CHOOSE j \in es : \A k \in es : k <= j) - 1)
      sub == SubSeq(s, i, end - 1)
  IN IF IsNum(sub) THEN Got(Num(sub), end)
     ELSE IF es # {} /\ IsNum(beforeE) THEN Got(Num(beforeE), end)
     ELSE Raised(end)

RECURSIVE ParseAny(_, _), ParseObj(_, _, _), ParseArr(_, _, _)
ParseAny(s, from) ==
  LET i == After(s, from)
  IN IF i > Len(s) THEN Raised(i)
     ELSE CASE s[i] = "\"" -> ParseStr(s, i)
            [] s[i] = "{" -> ParseObj(s, After(s, i + 1), <<>>)
            [] s[i] = "[" -> ParseArr(s, After(s, i + 1), <<>>)
            [] s[i] = "tr" -> Got(True, i + 2)     \* also at the end, where the rest is missing
            [] OTHER -> ParseNum(s, i)
AfterComma(s, i) == IF At(s, After(s, i), ",") THEN After(s, i) + 1 ELSE After(s, i)
ParseObj(s, from, members) ==
  IF from > Len(s) \/ At(s, from, "}") THEN Got(Obj(members), from + 1)
  ELSE LET i == After(s, from)
           key == ParseStr(s, i)
           x == ParseAny(s, After(s, key.i) + 1)   \* after the colon
       IN IF i > Len(s) \/ ~key.ok THEN Got(Obj(members), i)
          ELSE IF ~x.ok THEN Got(Obj(members), x.i)
          ELSE ParseObj(s, AfterComma(s, x.i), Append(members, <<key.v.str, x.v>>))
ParseArr(s, from, items) ==
  IF from > Len(s) \/ At(s, from, "]") THEN Got(Arr(items), from + 1)
  ELSE LET x == ParseAny(s, from)
       IN IF ~x.ok THEN Got(Arr(items), x.i)
          ELSE ParseArr(s, AfterComma(s, x.i), Append(items, x.v))

(* repair_json: in strings, what is no JSON is escaped.                      *)
RECURSIVE RepairedFrom(_, _)
RepairedFrom(s, inside) ==
  IF s = <<>> THEN <<>>
  ELSE IF s[1] = "\"" THEN <<s[1]>> \o RepairedFrom(Tail(s), ~inside)
  ELSE IF ~inside THEN <<s[1]>> \o RepairedFrom(Tail(s), FALSE)
  ELSE IF s[1] = "\n" THEN Escapes["newline"] \o RepairedFrom(Tail(s), TRUE)
  ELSE IF s[1] # "\\" THEN <<s[1]>> \o RepairedFrom(Tail(s), TRUE)
  ELSE IF \E e \in DOMAIN Escapes : IsPrefix(Escapes[e], s)
       THEN <<s[1], s[2]>> \o RepairedFrom(SubSeq(s, 3, Len(s)), TRUE)
       ELSE <<"\\", "\\">> \o RepairedFrom(Tail(s), TRUE)
Repaired(s) == RepairedFrom(s, FALSE)

(* parse_streaming_json: nothing yet is {}, and what json.loads takes, as it *)
(* is or repaired, is not parsed again. The end of a text is trimmed.        *)
Trimmed(s) == IF s # <<>> /\ s[Len(s)] = " " THEN SubSeq(s, 1, Len(s) - 1) ELSE s
Arguments(s) ==
  IF Trimmed(s) = <<>> THEN Obj(<<>>)
  ELSE IF strict \in {s, Repaired(s)} THEN value ELSE ParseAny(Trimmed(s), 1).v

-----------------------------------------------------------------------------
(* Whatever has come, the arguments shown are the beginning of those that    *)
(* the model writes: no member it will not have, every value but the last    *)
(* one whole, and the last one a beginning. And none is missing whose text   *)
(* has come: of the whole text the parser of partial text makes what         *)
(* json.loads does. (parse_streaming_json, parse_json)                       *)
RECURSIVE Begins(_, _)
Begins(x, y) ==
  /\ Is(x) = Is(y)
  /\ LET v == x[Is(x)]
         w == y[Is(y)]
         n == Len(v)
     IN /\ n <= Len(w)
        /\ IF Is(x) \notin {"arr", "obj"} \/ n = 0 THEN IsPrefix(v, w)
           ELSE /\ SubSeq(v, 1, n - 1) = SubSeq(w, 1, n - 1)
                /\ IF Is(x) = "arr" THEN Begins(v[n], w[n])
                   ELSE v[n][1] = w[n][1] /\ Begins(v[n][2], w[n][2])
ArgumentsGrow ==
  /\ Begins(Arguments(SubSeq(text, 1, came)), value)
  /\ came = Len(text) =>
       Arguments(text) = value /\ ParseAny(strict, 1) = Got(value, Len(strict) + 1)
=============================================================================
