--------------------------- MODULE TerminalInput ---------------------------
(* What is typed on its way to the TUI: tui/stdin_buffer.py cuts what is     *)
(* read into key sequences and pastes, and tui/terminal.py takes the         *)
(* terminal's answers to its keyboard protocol queries out of them.          *)
(*                                                                           *)
(* Characters are tokens: "E" is the escape character, "200" and "201" are   *)
(* the numbers of the paste brackets, "97" that of the key a, and "?1" and   *)
(* "?62" the parameters of the two answers. "wide" is a character of two     *)
(* bytes, and "FFFD" what is put in the place of a byte that is none.        *)
EXTENDS Integers, Sequences, SequencesExt

CONSTANTS MaxTyped  \* bound on the keys and pastes typed

Final == {"a", "A", "u", "c", "~", "["}   \* 0x40 to 0x7E, where a CSI sequence ends

Esc == <<"E">>
AltBracket == <<"E", "[">>
Ambiguous == {Esc, AltBracket}    \* keys that other sequences begin with
PasteStart == <<"E", "[", "200", "~">>
PasteEnd == <<"E", "[", "201", "~">>
Content == <<"E", "wide">>
KittyA == <<"E", "[", "97", "u">>
Keys == Ambiguous \cup {<<"a">>, <<"E", "[", "A">>, <<"E", "a">>,
         KittyA \o <<"a">>,     \* some terminals send a key both ways
         PasteStart \o Content \o PasteEnd}
KittyAnswer == <<"E", "[", "?1", "u">>
Attributes == <<"E", "[", "?62", "c">>

VARIABLES
  typed,     \* history: the keys and pastes typed
  answers,   \* what the terminal has yet to answer
  wire,      \* tokens not read yet, each with what it is of and if it is its last
  inside,    \* what the last token read was in the middle of, if anything
  broken,    \* history: a read has cut a "character", or a timer a "key"
  stdin,     \* StdinBuffer: buffer, paste_mode and paste_buffer, pending codepoint
  neg,       \* the negotiation is "pending", its answer "late", or it is "off"
  held,      \* keyboard_protocol_negotiation_buffer
  timers,    \* those that are set, of "stdin", "fallback" and "flush"
  flags,     \* keyboard_protocol_pushed, _kitty_protocol_active, _modify_other_keys_active
  depth,     \* history: keyboard modes pushed to the terminal and not popped
  modify,    \* history: the terminal has the other mode on
  handler,   \* the input handler: "tui", "drain" or "none"
  received   \* what the TUI was given

vars == <<typed, answers, wire, inside, broken, stdin, neg, held, timers, flags, depth, modify,
          handler, received>>

-----------------------------------------------------------------------------
(* is_complete_sequence, of a string that begins with an escape.             *)
Complete(d) ==
  /\ Len(d) >= 2
  /\ d[2] = "[" => Len(d) >= 3 /\ Last(d) \in Final

(* extract_complete_sequences: the sequences, and the remainder at the end.  *)
Sequences(d) ==
  LET n == Len(d)
      Ends(p) == {e \in p..n : Complete(SubSeq(d, p, e))}
      cut[p \in 1..(n + 1)] ==
        IF p > n THEN <<<<>>>>
        ELSE IF d[p] # "E" THEN <<SubSeq(d, p, p)>> \o cut[p + 1]
        ELSE IF Ends(p) = {} THEN <<SubSeq(d, p, n)>>
        ELSE LET e == CHOOSE x \in Ends(p) : \A y \in Ends(p) : x <= y IN
             IF SubSeq(d, p, e) = <<"E", "E">> /\ e < n /\ d[e + 1] = "["
               THEN <<Esc>> \o cut[p + 1]
               ELSE <<SubSeq(d, p, e)>> \o cut[e + 1]
  IN  cut[1]

Find(d, s) == {i \in 1..(Len(d) - Len(s) + 1) : SubSeq(d, i, i + Len(s) - 1) = s}
First(S) == CHOOSE i \in S : \A j \in S : i <= j
After(d, i) == SubSeq(d, i, Len(d))

(* base, changed by op for one element of seq after the other.               *)
Through(op(_, _), base, seq) ==
  LET upto[i \in 0..Len(seq)] == IF i = 0 THEN base ELSE op(upto[i - 1], seq[i])
  IN  upto[Len(seq)]

(* _emit_data_sequence: a key that was also sent as a kitty sequence is      *)
(* dropped. st is the buffer with what it has emitted.                       *)
Emit(st, s) ==
  IF s = <<"a">> /\ st.twice THEN [st EXCEPT !.twice = FALSE]
  ELSE [st EXCEPT !.twice = (s = KittyA), !.out = Append(@, s)]

(* process, in paste mode and out of it.                                     *)
RECURSIVE Mut_Process(_, _)
Mut_Process(st, data) ==
  LET buffer == st.buffer \o data
      EndPaste(text) ==
        IF Find(text, PasteEnd) = {} THEN [st EXCEPT !.buffer = <<>>, !.paste = <<text>>]
        ELSE LET i == First(Find(text, PasteEnd))
                 pasted == [st EXCEPT !.buffer = <<>>, !.paste = <<>>, !.twice = FALSE,
                              !.out = Append(@, PasteStart \o SubSeq(text, 1, i - 1) \o PasteEnd)]
             IN  IF i + 4 <= Len(text) THEN Mut_Process(pasted, After(text, i + 4)) ELSE pasted
      keys == Sequences(buffer)
  IN  IF st.paste # <<>> THEN EndPaste(buffer)
      ELSE IF IsPrefix(PasteStart, buffer) THEN EndPaste(After(buffer, 5))
      ELSE [Through(Emit, st, Front(keys)) EXCEPT !.buffer = Last(keys)]

RECURSIVE Process(_, _)
Process(st, data) ==
  LET EndPaste(before, text) ==
        IF Find(text, PasteEnd) = {} THEN [before EXCEPT !.buffer = <<>>, !.paste = <<text>>]
        ELSE LET i == First(Find(text, PasteEnd))
                 pasted == [before EXCEPT !.buffer = <<>>, !.paste = <<>>, !.twice = FALSE,
                              !.out = Append(@, PasteStart \o SubSeq(text, 1, i - 1) \o PasteEnd)]
             IN  IF i + 4 <= Len(text) THEN Process(pasted, After(text, i + 4)) ELSE pasted
      buffer == st.buffer \o data
      starts == Find(buffer, PasteStart)
      keys == Sequences(IF starts = {} THEN buffer ELSE SubSeq(buffer, 1, First(starts) - 1))
      told == Through(Emit, st, Front(keys))
  IN  IF st.paste # <<>> THEN EndPaste(st, st.paste[1] \o buffer)
      ELSE IF starts # {} THEN EndPaste([told EXCEPT !.twice = FALSE], After(buffer, First(starts) + 4))
      ELSE [told EXCEPT !.buffer = Last(keys)]

-----------------------------------------------------------------------------
(* The terminal: the handling of one sequence from the buffer changes t, the *)
(* record of neg, held, timers, flags, depth, modify and what is received.   *)
Now == [neg |-> neg, held |-> held, timers |-> timers, flags |-> flags, modify |-> modify,
        received |-> received]

Forward(t, s) == IF handler = "tui" THEN [t EXCEPT !.received = Append(@, s)] ELSE t

(* is_keyboard_protocol_negotiation_sequence_prefix                          *)
AnswerPrefix(s, bareEscape) ==
  s \in {<<"E", "[">>, <<"E", "[", "?1">>, <<"E", "[", "?62">>} \/ (bareEscape /\ s = Esc)

Hold(t, s) == [t EXCEPT !.held = s, !.timers = @ \ {"flush"}]
FlushHeld(t) == IF t.held = <<>> THEN t ELSE Forward(Hold(t, <<>>), t.held)

(* schedule_keyboard_protocol_negotiation_buffer_flush                       *)
Schedule(t) == IF t.held = <<>> THEN t ELSE [t EXCEPT !.timers = @ \cup {"flush"}]

(* enable_modify_other_keys                                                  *)
EnableModify(t) ==
  IF {"kitty", "modify"} \cap t.flags # {} THEN t
  ELSE [t EXCEPT !.flags = @ \cup {"modify"}, !.modify = TRUE]

(* handle_keyboard_protocol_negotiation_sequence                             *)
Answered(t, s) ==
  LET settled == [Hold(t, <<>>) EXCEPT !.neg = "late", !.timers = @ \ {"fallback"}]
  IN  IF s = Attributes THEN EnableModify(settled)
      ELSE IF "kitty" \in t.flags THEN t
      ELSE [settled EXCEPT !.flags = @ \cup {"kitty"}]

(* _on_buffer_data and read_keyboard_protocol_negotiation_sequence.          *)
Data(t, s) ==
  LET both == t.held \o s
      bare == t.neg = "pending"
      flushed == FlushHeld(t)
      Held(u, x) == IF bare THEN Hold(u, x) ELSE Schedule(Hold(u, x))
  IN  IF t.neg = "off" THEN Forward(t, s)
      ELSE IF t.held # <<>> /\ both \in {KittyAnswer, Attributes} THEN Answered(Hold(t, <<>>), both)
      ELSE IF t.held # <<>> /\ AnswerPrefix(both, bare) THEN Held(t, both)
      ELSE IF s \in {KittyAnswer, Attributes} THEN Answered(flushed, s)
      ELSE IF AnswerPrefix(s, bare) THEN Held(flushed, s)
      ELSE Forward(flushed, s)

(* Pastes go past the negotiation.                                           *)
Event(t, s) == IF IsPrefix(PasteStart, s) THEN Forward(t, s) ELSE Data(t, s)

Becomes(t) ==
  /\ neg' = t.neg /\ held' = t.held /\ flags' = t.flags /\ modify' = t.modify
  /\ received' = t.received

-----------------------------------------------------------------------------
(* start() has put the terminal in raw mode and asked: a kitty terminal      *)
(* answers both queries, another one the second, some none at all.           *)
Init ==
  /\ typed = <<>>
  /\ answers \in {<<KittyAnswer, Attributes>>, <<Attributes>>, <<>>}
  /\ wire = <<>> /\ inside = "nothing" /\ broken = {}
  /\ stdin = [buffer |-> <<>>, paste |-> <<>>, twice |-> FALSE, out |-> <<>>]
  /\ neg = "pending" /\ held = <<>> /\ timers = {"fallback"} /\ flags = {"pushed"}
  /\ depth = 1 /\ modify = FALSE
  /\ handler = "tui" /\ received = <<>>

Lead == "lead"      \* the bytes of the wide character
Trail == "trail"

Encode(s) ==
  FlattenSeq([i \in 1..Len(s) |-> IF s[i] = "wide" THEN <<Lead, Trail>> ELSE <<s[i]>>])

(* Each read is decoded by itself.                                           *)
Decode(bytes) ==
  LET WideAt(i) == SubSeq(bytes, i, i + 1) = <<Lead, Trail>>
      Char(i) == CASE i < Len(bytes) /\ WideAt(i) -> "wide"
                   [] i > 1 /\ WideAt(i - 1) -> "none"
                   [] OTHER -> IF bytes[i] \in {Lead, Trail} THEN "FFFD" ELSE bytes[i]
  IN  SelectSeq([i \in 1..Len(bytes) |-> Char(i)], LAMBDA c : c # "none")

Tokens(s, of) ==
  LET bytes == Encode(s) IN
  [i \in 1..Len(bytes) |-> [token |-> bytes[i], of |-> of, last |-> i = Len(bytes)]]

(* After such a key the user is slower than the 10 ms by which it is told    *)
(* from the sequences that begin with it, and so is the terminal after Alt-[.*)
Apart(keys) == typed # <<>> /\ Last(typed) \in keys => wire = <<>> /\ stdin.buffer = <<>>

(* A key or a paste is typed.                                                *)
Type(k) ==
  /\ handler = "tui" /\ Len(typed) < MaxTyped
  /\ Apart(Ambiguous)
  /\ typed' = Append(typed, k) /\ wire' = wire \o Tokens(k, "key")
  /\ UNCHANGED <<answers, inside, broken, stdin, neg, held, timers, flags, depth, modify, handler, received>>

Answer ==
  /\ answers # <<>> /\ Apart({AltBracket})
  /\ answers' = Tail(answers) /\ wire' = wire \o Tokens(Head(answers), "answer")
  /\ UNCHANGED <<typed, inside, broken, stdin, neg, held, timers, flags, depth, modify, handler, received>>

(* _on_readable: some of what is there is read, up to any byte. It is not    *)
(* cut right after two escapes, where the second would be taken for the end  *)
(* of a key.                                                                 *)
Read(n) ==
  LET bytes == [i \in 1..n |-> wire[i].token]
      data == Decode(bytes)
      st == Process([stdin EXCEPT !.out = <<>>], data)
  IN  /\ handler # "none" /\ n \in 1..Len(wire)
      /\ ~(n < Len(wire) /\ IsSuffix(<<"E", "E">>, stdin.buffer \o data))
      /\ wire' = After(wire, n + 1)
      /\ inside' = IF wire[n].last THEN "nothing" ELSE wire[n].of
      /\ broken' = IF Last(bytes) = Lead THEN broken \cup {"character"} ELSE broken
      /\ stdin' = [st EXCEPT !.out = <<>>]
      /\ LET t == Through(Event, [Now EXCEPT !.timers = @ \ {"stdin"}], st.out) IN
           /\ Becomes(t)
           /\ timers' = IF st.buffer # <<>> /\ st.paste = <<>> THEN t.timers \cup {"stdin"} ELSE t.timers
      /\ UNCHANGED <<typed, answers, depth, handler>>

(* _on_timeout: what is in the buffer is a key, or the part that has been    *)
(* read of one, or of an answer: these come in pieces, but not after their   *)
(* first escape. At most one key of a behaviour is cut so.                   *)
StdinTimeout ==
  /\ "stdin" \in timers /\ ~(inside = "answer" /\ stdin.buffer = Esc)
  /\ ~(inside = "key" /\ "key" \in broken)
  /\ broken' = IF inside = "key" THEN broken \cup {"key"} ELSE broken
  /\ stdin' = [stdin EXCEPT !.buffer = <<>>, !.twice = stdin.buffer = KittyA]
  /\ LET t == Data([Now EXCEPT !.timers = @ \ {"stdin"}], stdin.buffer)
     IN  Becomes(t) /\ timers' = t.timers
  /\ UNCHANGED <<typed, answers, wire, inside, depth, handler>>

(* _on_keyboard_protocol_fallback                                            *)
Fallback ==
  /\ "fallback" \in timers
  /\ LET late == [Now EXCEPT !.neg = "late", !.timers = @ \ {"fallback"}]
         t == EnableModify(IF held = Esc THEN FlushHeld(late) ELSE Schedule(late))
     IN  Becomes(t) /\ timers' = t.timers
  /\ UNCHANGED <<typed, answers, wire, inside, broken, stdin, depth, handler>>

(* The rest of an answer comes within 150 ms.                                *)
FlushTimeout ==
  /\ "flush" \in timers /\ inside # "answer"
  /\ LET t == FlushHeld([Now EXCEPT !.timers = @ \ {"flush"}]) IN Becomes(t) /\ timers' = t.timers
  /\ UNCHANGED <<typed, answers, wire, inside, broken, stdin, depth, handler>>

(* What drainInput and stop do to the keyboard modes.                        *)
DisableModes ==
  /\ neg' = "off" /\ held' = <<>>
  /\ depth' = IF {"pushed", "kitty"} \cap flags # {} \/ neg = "pending" THEN depth - 1 ELSE depth
  /\ flags' = {}
  /\ modify' = (modify /\ "modify" \notin flags)

(* drainInput: what is read from now on is dropped. The terminal is stopped  *)
(* when it ends, before anything is read with the handler it puts back.      *)
Drain ==
  /\ handler = "tui"
  /\ handler' = "drain"
  /\ DisableModes
  /\ timers' = timers \ {"flush", "fallback"}
  /\ UNCHANGED <<typed, answers, wire, inside, broken, stdin, received>>

(* stop: the buffer is destroyed, with its timer.                            *)
Stop ==
  /\ handler # "none"
  /\ handler' = "none"
  /\ DisableModes
  /\ timers' = {}
  /\ stdin' = [buffer |-> <<>>, paste |-> <<>>, twice |-> FALSE, out |-> <<>>]
  /\ UNCHANGED <<typed, answers, wire, inside, broken, received>>

Next ==
  \/ \E k \in Keys : Type(k)
  \/ \E n \in 1..Len(wire) : Read(n)
  \/ Answer \/ StdinTimeout \/ Fallback \/ FlushTimeout \/ Drain \/ Stop

Spec == Init /\ [][Next]_vars

-----------------------------------------------------------------------------
(* Wherever the reads cut what is typed, and whenever the terminal answers,  *)
(* and in how many pieces: the TUI is given the keys and the pastes that     *)
(* were typed, whole and once, and the answers never; once nothing is under  *)
(* way it has been given them all. They come in the order they were typed in *)
(* but for an Escape or Alt-[, which a paste may pass: the paste does not    *)
(* wait for what the negotiation holds. A character that a read cuts is lost,*)
(* and nothing else of what it is in: two replacement characters come in its *)
(* place. When the 10 ms of the buffer end within a key or the beginning of a*)
(* paste, its pieces come as keys: still all of them, and nothing else.      *)
(* (StdinBuffer.process, ProcessTerminal._on_buffer_data, _on_buffer_paste,  *)
(* _on_readable)                                                             *)
Meant(k) == IF IsPrefix(KittyA, k) THEN KittyA ELSE k
Expected == [i \in 1..Len(typed) |-> Meant(typed[i])]
Quiet == handler = "tui" /\ wire = <<>> /\ stdin.buffer = <<>> /\ stdin.paste = <<>> /\ held = <<>>
Arrived(given, meant) == IsPrefix(given, meant) /\ (Quiet => given = meant)

Blur(text) ==
  FlattenSeq([i \in 1..Len(text) |-> IF text[i] = "wide" THEN <<"FFFD", "FFFD">> ELSE <<text[i]>>])
BlurKeys(s) ==
  FlattenSeq([i \in 1..Len(s) |->
    IF s[i] = <<"wide">> THEN << <<"FFFD">>, <<"FFFD">> >> ELSE << Blur(s[i]) >>])

KeysArrive ==
  \A some \in {Ambiguous, {PasteStart \o Content \o PasteEnd, PasteStart \o Blur(Content) \o PasteEnd}} :
    LET But(s) == SelectSeq(s, LAMBDA k : k \notin some)
    IN  CASE broken = {} -> Arrived(But(received), But(Expected))
          [] broken = {"character"} -> Arrived(BlurKeys(But(received)), BlurKeys(But(Expected)))
          [] OTHER -> TRUE

(* The pieces of a cut key. Of one that is sent both ways both may come.     *)
HasTyped(keys) == \E i \in 1..Len(typed) : typed[i] \in keys
Plain == /\ ~HasTyped({KittyA \o <<"a">>})
         /\ ~(HasTyped(Ambiguous) /\ HasTyped({PasteStart \o Content \o PasteEnd}))

PiecesArrive ==
  "key" \in broken /\ Plain => Arrived(Blur(FlattenSeq(received)), Blur(FlattenSeq(typed)))

(* A terminal is left as it was found: whatever was under way when it was    *)
(* stopped, each keyboard mode that was turned on is turned off, and once.   *)
(* (drainInput, stop)                                                        *)
ModesUndone == handler = "none" => depth = 0 /\ ~modify
=============================================================================
