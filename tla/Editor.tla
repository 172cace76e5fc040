------------------------------- MODULE Editor -------------------------------
(* The line editor of the terminal UI, tui/components/editor.py, with its    *)
(* kill ring, its undo stack and the completions of tui/autocomplete.py,     *)
(* which may be found only after the text went on changing. A character is   *)
(* a grapheme cluster. Nothing calls add_to_history, so the history is empty.*)
EXTENDS Integers, Sequences, FiniteSets, FiniteSetsExt

CONSTANTS
  Typed,     \* characters that are typed, and
  Pasted,    \*   texts that are pasted, as sequences of lines
  Drafts,    \* texts put in by set_text(), as sequences of lines
  MaxKeys,   \* bound: keys and calls that reach the editor
  MaxAsked   \* bound: requests for completions

VARIABLES
  text,      \* _state: the lines, the row and the column of the cursor
  undos,     \* _undo_stack
  ring,      \* _kill_ring, the newest last
  last,      \* _last_action
  jump,      \* whether _jump_mode is set
  list,      \* the completions that show: prefix, number of items, the selected one,
             \*   history: of, the text they were found for, and touched, whether keys
             \*   that leave the list alone changed the text or the cursor since,
  requests,  \* tasks of _request_autocomplete: token, force, how far, and text asked for
  token, current,  \* _autocomplete_start_token, and the text of _autocomplete_request_id
  before,    \* history: the text before the kills, or the yanks, that are the latest
             \*   changes, with nothing else in between
  keys       \* history: the number of keys and calls

vars == <<text, undos, ring, last, jump, list, requests, token, current, before, keys>>

NoList == [open |-> FALSE]
None == [of |-> "none"]
At(lines, row, col) == [lines |-> lines, row |-> row, col |-> col]

Full(d) == At(d, Len(d), Len(d[Len(d)]))       \* set_text: the cursor at the end
Init ==
  /\ text \in {Full(d) : d \in Drafts} /\ undos = <<>> /\ ring = <<>> /\ last = "none"
  /\ jump = FALSE /\ list = NoList /\ requests = {} /\ token = 0 /\ current = 0
  /\ before = None /\ keys = 0

-----------------------------------------------------------------------------
(* Texts. Slices are Python's: a negative end counts from the line's end.    *)
Upto(line, n) == SubSeq(line, 1, IF n >= 0 THEN n ELSE Len(line) + n)
From(line, n) == SubSeq(line, n + 1, Len(line))
Line == text.lines[text.row]
WithLine(t, line, col) == [t EXCEPT !.lines[t.row] = line, !.col = col]

(* Lines put in at the cursor: _insert_yanked_text and _handle_paste.        *)
Inserted(t, new) ==
  LET line == t.lines[t.row] n == Len(new)
      head == Upto(line, t.col) tail == From(line, t.col)
      middle == IF n = 1 THEN << head \o new[1] \o tail >>
                ELSE << head \o new[1] >> \o SubSeq(new, 2, n - 1) \o << new[n] \o tail >>
  IN At(SubSeq(t.lines, 1, t.row - 1) \o middle \o From(t.lines, t.row),
        t.row + n - 1, IF n = 1 THEN t.col + Len(new[1]) ELSE Len(new[n]))

(* The text with a row joined to the next one.                               *)
Joined(t, row) ==
  At(SubSeq(t.lines, 1, row - 1) \o << t.lines[row] \o t.lines[row + 1] >>
       \o From(t.lines, row + 1), row, Len(t.lines[row]))

(* _delete_yanked_text: as much as was yanked, before the cursor.            *)
WithoutYanked(t, yanked) ==
  LET n == Len(yanked) line == t.lines[t.row]
      start == t.row - (n - 1)
      col == Len(t.lines[start]) - Len(yanked[1])
  IN IF n = 1
     THEN WithLine(t, Upto(line, t.col - Len(yanked[1])) \o From(line, t.col),
                   t.col - Len(yanked[1]))
     ELSE At(SubSeq(t.lines, 1, start - 1)
               \o << Upto(t.lines[start], col) \o From(line, t.col) >>
               \o From(t.lines, t.row), start, col)

CanRemove(t, yanked) ==
  IF Len(yanked) = 1 THEN t.col >= Len(yanked[1])
  ELSE /\ t.row >= Len(yanked)
       /\ Len(t.lines[t.row - (Len(yanked) - 1)]) >= Len(yanked[1])

(* find_word_backward and find_word_forward: blanks, then a run of letters   *)
(* or of marks.                                                              *)
Kind(c) == IF c = " " THEN "blank" ELSE IF c \in {"@", "/"} THEN "mark" ELSE "letter"
Run(line, a, b) == \A k \in a..b : Kind(line[k]) = Kind(line[a])
WordBack(line, col) ==
  LET end == Max({0} \cup {k \in 1..col : line[k] # " "})
  IN Min({end} \cup {k \in 0..(end - 1) : Run(line, k + 1, end)})
WordForward(line, col) ==
  LET start == Min({Len(line)} \cup {k \in col..(Len(line) - 1) : line[k + 1] # " "})
  IN Max({start} \cup {k \in (start + 1)..Len(line) : Run(line, start + 1, k)})

-----------------------------------------------------------------------------
(* Completions: tui/autocomplete.py. Only @-prefixes are searched by another *)
(* process (fd); the slash commands and the directory are read at once.      *)
Token(line) == From(line, Max({0} \cup {k \in DOMAIN line : line[k] = " "}))
Starts(s, c) == s # <<>> /\ s[1] = c

(* The prefix that get_suggestions completes, or "none".                     *)
Prefix(line, force) ==
  CASE Starts(Token(line), "@") -> [of |-> Token(line)]
    [] ~Starts(Token(line), "@") /\ ~force /\ Starts(line, "/") ->
         IF \E k \in DOMAIN line : line[k] = " " THEN None ELSE [of |-> line]
    [] OTHER ->
         IF \/ force \/ \E k \in DOMAIN Token(line) : Token(line)[k] = "/"
            \/ Token(line) = <<>> /\ line # <<>>
         THEN [of |-> Token(line)] ELSE None

(* How many items there are, of the fuzzy search, of the directory or of the *)
(* commands, and which is selected: the one whose value is the prefix.       *)
Searched == 0..2
Listed(prefix) == IF prefix = None THEN {0} ELSE 0..2
Value(item) == IF item = 1 THEN <<"b">> ELSE <<"c">>
Best(prefix, n) == IF n = 2 /\ prefix \in {Value(2), <<"@">> \o Value(2)} THEN 2 ELSE 1

(* apply_completion, with the value of the item that was chosen.             *)
Completed(t, prefix, item) ==
  LET line == t.lines[t.row]
      head == Upto(line, t.col - Len(prefix))
      command == /\ Starts(prefix, "/") /\ \A k \in DOMAIN head : head[k] = " "
                 /\ \A k \in 2..Len(prefix) : prefix[k] # "/"
      new == head \o (IF command THEN <<"/">> \o Value(item) \o <<" ">>
                      ELSE IF Starts(prefix, "@") THEN <<"@">> \o Value(item) \o <<" ">>
                      ELSE Value(item))
  IN WithLine(t, new \o From(line, t.col), Len(new))

(* cancel_autocomplete: the debounce task of the latest request is cancelled;*)
(* one that has started is not.                                              *)
Cancelled == {r \in requests : r.at = "sleeps"}

(* _request_autocomplete, for a text: what shows and what is to be asked.    *)
Asks(t, force) ==
  LET line == Upto(t.lines[t.row], t.col)
      at == IF ~force /\ Starts(Token(line), "@") THEN "sleeps" ELSE "starts"
  IN /\ list' = NoList /\ token' = token + 1
     /\ requests' = (requests \ Cancelled)
          \cup {[token |-> token + 1, force |-> force, at |-> at, of |-> None]}
     /\ UNCHANGED current
Untouched == UNCHANGED <<list, requests, token, current>>

(* should_trigger_file_completion: not in the name of a slash command.       *)
InCommand(t) ==
  LET line == Upto(t.lines[t.row], t.col)
      word == From(line, Max({0} \cup {k \in DOMAIN line : \A j \in 1..k : line[j] = " "}))
  IN Starts(word, "/") /\ \A k \in DOMAIN word :
       word[k] = " " => \A j \in k..Len(word) : word[j] = " "

-----------------------------------------------------------------------------
(* Keys.                                                                     *)
Key == keys < MaxKeys /\ keys' = keys + 1
Pushes == undos' = Append(undos, text)
Keeps == UNCHANGED <<undos, ring, last, jump>>
Beside(t) ==            \* what leaves the list alone may leave it about another text
  /\ list' = IF list.open /\ t # text THEN [list EXCEPT !.touched = TRUE] ELSE list
  /\ UNCHANGED <<requests, token, current>>

Ready == Key /\ ~jump

Type(c) ==              \* _insert_text
  LET new == WithLine(text, Upto(Line, text.col) \o <<c>> \o From(Line, text.col), text.col + 1)
  IN /\ Ready /\ token < MaxAsked
     /\ Pushes /\ last' = "type" /\ text' = new /\ before' = None
     /\ Asks(new, FALSE) /\ UNCHANGED <<ring, jump>>

Paste(p) ==             \* _handle_paste
  /\ Ready /\ Pushes /\ last' = "none" /\ text' = Inserted(text, p) /\ before' = None
  /\ list' = NoList /\ requests' = requests \ Cancelled
  /\ UNCHANGED <<ring, jump, token, current>>

Move(t) ==              \* the movements: nothing but the cursor
  /\ Ready /\ t # text /\ text' = t /\ before' = None /\ Beside(t) /\ Keeps
MoveLeft == text.col > 0 /\ Move([text EXCEPT !.col = @ - 1])
MoveRight == text.col < Len(Line) /\ Move([text EXCEPT !.col = @ + 1])
MoveStart == Move([text EXCEPT !.col = 0])
MoveEnd == Move([text EXCEPT !.col = Len(Line)])
MoveWordLeft == text.col > 0 /\ Move([text EXCEPT !.col = WordBack(Line, @)])
MoveWordRight == text.col < Len(Line) /\ Move([text EXCEPT !.col = WordForward(Line, @)])
ToRow(row) == At(text.lines, row, Min({text.col, Len(text.lines[row])}))

(* Up and Down choose in the list and move the cursor too: the list's answer,*)
(* None, does not end the handling of the key.                               *)
UpOrDown(d) ==
  LET t == IF text.row + d \in DOMAIN text.lines THEN ToRow(text.row + d) ELSE text
  IN /\ Ready /\ (t # text \/ list.open)
     /\ text' = t /\ before' = (IF t = text THEN before ELSE None) /\ Keeps
     /\ list' = IF list.open
                THEN [list EXCEPT !.selected = 1 + ((@ - 1 + d + list.items) % list.items),
                                  !.touched = @ \/ t # text]
                ELSE list
     /\ UNCHANGED <<requests, token, current>>

(* The jump mode is cleared before its direction is read: always backwards.  *)
JumpMode == Ready /\ jump' = TRUE /\ UNCHANGED <<text, undos, ring, last, before>> /\ Untouched
JumpTo(c) ==
  LET found == {k \in 1..text.col : Line[k] = c}
      t == IF found = {} THEN text ELSE [text EXCEPT !.col = Max(found) - 1]
  IN /\ Key /\ jump /\ jump' = FALSE /\ text' = t
     /\ before' = (IF t = text THEN before ELSE None)
     /\ Beside(t) /\ UNCHANGED <<undos, ring, last>>

JumpEnds ==             \* another key, which is then handled as ever
  /\ jump /\ jump' = FALSE
  /\ UNCHANGED <<text, undos, ring, last, before, keys>> /\ Untouched

Delete(t) ==            \* the deletions: undone, but no kill and no action of their own
  /\ Ready /\ Pushes /\ text' = t /\ before' = None /\ Beside(t)
  /\ UNCHANGED <<ring, last, jump>>
Backspace ==
  \/ text.col > 0 /\ Delete(WithLine(text, Upto(Line, text.col - 1) \o From(Line, text.col),
                                     text.col - 1))
  \/ text.col = 0 /\ text.row > 1 /\ Delete(Joined(text, text.row - 1))
DeleteForward ==
  \/ text.col < Len(Line)
     /\ Delete(WithLine(text, Upto(Line, text.col) \o From(Line, text.col + 1), text.col))
  \/ text.col = Len(Line) /\ text.row < Len(text.lines) /\ Delete(Joined(text, text.row))
DeleteWordBackward ==
  /\ text.col > 0 \/ text.row > 1
  /\ LET pos == WordBack(Line, text.col)
     IN Delete(WithLine(text, Upto(Line, pos) \o From(Line, text.col), pos))
DeleteWordForward ==
  /\ text.col < Len(Line)
  /\ Delete(WithLine(text, Upto(Line, text.col) \o From(Line, WordForward(Line, text.col)),
                     text.col))

(* KillRing.push: a kill after a kill goes to the same entry, before it or   *)
(* after it.                                                                 *)
Mut_Pushed(cut, prepend, accumulate) ==   \* prepend is forgotten
  IF accumulate /\ ring # <<>>
  THEN LET top == ring[Len(ring)]
       IN Append(SubSeq(ring, 1, Len(ring) - 1),
                 SubSeq(top, 1, Len(top) - 1) \o << top[Len(top)] \o cut[1] >> \o From(cut, 1))
  ELSE Append(ring, cut)
Pushed(cut, prepend, accumulate) ==
  IF accumulate /\ ring # <<>>
  THEN LET top == ring[Len(ring)] a == IF prepend THEN cut ELSE top
           b == IF prepend THEN top ELSE cut
       IN Append(SubSeq(ring, 1, Len(ring) - 1),
                 SubSeq(a, 1, Len(a) - 1) \o << a[Len(a)] \o b[1] >> \o From(b, 1))
  ELSE Append(ring, cut)
Kill(cut, prepend, t) ==
  /\ Ready /\ Pushes /\ last' = "kill" /\ text' = t
  /\ ring' = Pushed(cut, prepend, last = "kill")
  /\ before' = IF last # "kill" THEN [of |-> text, by |-> "kill"] ELSE before
  /\ Beside(t) /\ UNCHANGED jump
NewLine == << <<>>, <<>> >>
KillToStart ==
  \/ text.col > 0
     /\ Kill(<< Upto(Line, text.col) >>, TRUE, WithLine(text, From(Line, text.col), 0))
  \/ text.col = 0 /\ text.row > 1 /\ Kill(NewLine, TRUE, Joined(text, text.row - 1))
KillToEnd ==
  \/ text.col < Len(Line)
     /\ Kill(<< From(Line, text.col) >>, FALSE, WithLine(text, Upto(Line, text.col), text.col))
  \/ text.col = Len(Line) /\ text.row < Len(text.lines)
     /\ Kill(NewLine, FALSE, Joined(text, text.row))

Top == ring[Len(ring)]
Yank ==
  /\ Ready /\ ring # <<>> /\ Pushes /\ text' = Inserted(text, Top) /\ last' = "yank"
  /\ before' = [of |-> text, by |-> "yank"] /\ Beside(text') /\ UNCHANGED <<ring, jump>>
YankPop ==              \* rotate: the newest becomes the oldest
  /\ Ready /\ last = "yank" /\ Len(ring) > 1 /\ Pushes
  /\ CanRemove(text, Top)  \* else the column gets negative: not modelled
  /\ ring' = << Top >> \o SubSeq(ring, 1, Len(ring) - 1)
  /\ text' = Inserted(WithoutYanked(text, Top), ring[Len(ring) - 1])
  /\ UNCHANGED <<last, before, jump>> /\ Beside(text')

Undo ==
  /\ Ready /\ undos # <<>> /\ text' = undos[Len(undos)]
  /\ undos' = SubSeq(undos, 1, Len(undos) - 1) /\ last' = "none" /\ before' = None
  /\ Beside(text') /\ UNCHANGED <<ring, jump>>

SetText(d) ==           \* set_text, of a draft or of "" after a submission or ctrl+c
  LET t == Full(d)
  IN Key /\ t # text /\ text' = t /\ before' = None /\ Beside(t) /\ Keeps

Submit ==               \* with a list it completes; else on_submit takes the text
  \/ /\ Ready /\ list.open /\ Pushes
     /\ text' = Completed(text, list.prefix, list.selected)
     /\ list' = NoList /\ requests' = requests \ Cancelled /\ before' = None
     /\ UNCHANGED <<ring, last, jump, token, current>>
  \/ Ready /\ ~list.open /\ text # At(<< <<>> >>, 1, 0)
     /\ text' = At(<< <<>> >>, 1, 0) /\ before' = None /\ Untouched /\ Keeps

Tab ==
  /\ Ready /\ ~InCommand(text) /\ token < MaxAsked /\ Asks(text, TRUE)
  /\ UNCHANGED <<text, before>> /\ Keeps
Escape ==               \* or the focus goes elsewhere
  /\ Key /\ (list.open \/ Cancelled # {})
  /\ list' = NoList /\ requests' = requests \ Cancelled
  /\ UNCHANGED <<text, undos, ring, last, jump, token, current, before>>

-----------------------------------------------------------------------------
(* The tasks. Beyond the keys, each is one step to its next await.           *)
DebounceEnds(r) ==
  /\ r.at = "sleeps" /\ requests' = (requests \ {r}) \cup {[r EXCEPT !.at = "starts"]}
  /\ UNCHANGED <<text, undos, ring, last, jump, list, token, current, before, keys>>

(* What the suggestions do, when they come.                                  *)
Shown(r, prefix, n) ==
  CASE n = 0 -> list' = NoList /\ UNCHANGED <<text, undos, last, before>>
    [] n = 1 /\ r.force ->       \* the only match of an explicit Tab
         /\ Pushes /\ last' = "none" /\ before' = None
         /\ text' = Completed(text, prefix, 1)
         /\ list' = IF list.open THEN [list EXCEPT !.touched = TRUE] ELSE list
    [] OTHER ->
         /\ list' = [open |-> TRUE, prefix |-> prefix, items |-> n,
                     selected |-> Best(prefix, n), of |-> r.of, touched |-> FALSE]
         /\ UNCHANGED <<text, undos, last, before>>

Start(r) ==             \* _start_autocomplete_request, to the search or to its end
  LET line == Upto(Line, text.col)
      prefix == Prefix(line, r.force)
      asked == [r EXCEPT !.at = "asked", !.of = text]
  IN /\ r.at = "starts"
     /\ IF r.token # token
        THEN /\ requests' = requests \ {r}
             /\ UNCHANGED <<text, undos, last, list, before, current>>
        ELSE /\ current' = r.token
             /\ IF Starts(Token(line), "@")
                THEN /\ requests' = (requests \ {r}) \cup {asked}
                     /\ UNCHANGED <<text, undos, last, list, before>>
                ELSE /\ requests' = requests \ ({r} \cup Cancelled)
                     /\ \E n \in Listed(prefix) : Shown(asked, prefix.of, n)
     /\ UNCHANGED <<ring, jump, token, keys>>

Answer(r, n) ==         \* after the await
  /\ r.at = "asked"
  /\ IF r.token = current /\ r.of = text
     THEN /\ Shown(r, Token(Upto(r.of.lines[r.of.row], r.of.col)), n)
          /\ requests' = requests \ ({r} \cup IF n = 0 THEN Cancelled ELSE {})
     ELSE requests' = requests \ {r} /\ UNCHANGED <<text, undos, last, list, before>>
  /\ UNCHANGED <<ring, jump, token, current, keys>>

Next ==
  \/ \E c \in Typed : Type(c) \/ JumpTo(c)
  \/ \E p \in Pasted : Paste(p)
  \/ MoveLeft \/ MoveRight \/ MoveStart \/ MoveEnd \/ MoveWordLeft \/ MoveWordRight
  \/ UpOrDown(1) \/ UpOrDown(-1) \/ JumpMode \/ JumpEnds
  \/ Backspace \/ DeleteForward \/ DeleteWordBackward \/ DeleteWordForward
  \/ KillToStart \/ KillToEnd \/ Yank \/ YankPop \/ Undo
  \/ \E d \in Drafts : SetText(d)
  \/ Submit \/ Tab \/ Escape
  \/ \E r \in requests : DebounceEnds(r) \/ Start(r) \/ \E n \in Searched : Answer(r, n)
Spec == Init /\ [][Next]_vars

-----------------------------------------------------------------------------
(* What kills cut comes back: right after a run of kills, however many and   *)
(* in either direction, one yank makes the text what it was before the run;  *)
(* and while yanks follow each other, the text is the one before the first   *)
(* of them with the newest entry of the ring in it (_yank_pop takes out just *)
(* what the yank had put in).                                                *)
KilledTextComesBack ==
  before # None =>
    IF before.by = "kill" THEN Inserted(text, Top).lines = before.of.lines
    ELSE text = Inserted(before.of, Top)

(* The completions that show are those of the text and the cursor as they    *)
(* are, unless keys that leave the list open changed them since: an answer   *)
(* that comes late, for a text that has changed, is dropped.                 *)
ListIsOfText == list.open /\ ~list.touched => list.of = text
=============================================================================
