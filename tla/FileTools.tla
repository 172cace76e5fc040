----------------------------- MODULE FileTools ------------------------------
(* The edit and write tools on one file: coding_agent/core/tools/edit.py,    *)
(* edit_diff.py and write.py, queued by file_mutation_queue.py. Their        *)
(* operations may be replaced by ones that take their time (EditOperations), *)
(* so each of their calls is an await. A text is its words, its byte order    *)
(* mark and the endings of its lines.                                        *)
EXTENDS Naturals, Sequences, FiniteSets, SequencesExt

CONSTANTS
  ToolCalls, \* the calls of the tools
  Texts,     \* texts that are written: records words, bom, ends (of "lf", "crlf")
  Edits      \* lists of replacements: sequences of records old, new

VARIABLES
  file,      \* the content, or "none"
  queue,     \* the lock of with_file_mutation_queue: who has it, then who waits
  tools      \* per call: tool; at; edits or text; aborted; read, the content it read;
             \*   result

vars == <<file, queue, tools>>
Idle == [tool |-> "none", at |-> "idle"]
NoFile == [words |-> <<"none">>, bom |-> FALSE, ends |-> <<>>]
Init == file \in Texts \cup {NoFile} /\ queue = <<>> /\ tools = [c \in ToolCalls |-> Idle]

(* apply_edits_to_normalized_content: one replacement after the other, each  *)
(* of a text that is there once, or none of them.                            *)
Failed == <<"failed">>
Places(words, word) == {k \in DOMAIN words : words[k] = word}
Replaced(words, e) ==
  IF words = Failed \/ Cardinality(Places(words, e.old)) # 1 THEN Failed
  ELSE [k \in DOMAIN words |-> IF words[k] = e.old THEN e.new ELSE words[k]]
Replaces(text, edits) == FoldLeft(Replaced, text.words, edits)

(* strip_bom, normalize_to_lf, restore_line_endings: the mark is gone, and   *)
(* every line ends as the first one did.                                     *)
Normal(text) ==
  [text EXCEPT !.bom = FALSE, !.ends = [k \in DOMAIN @ |-> @[1]]]
Applied(text, edits) == [Normal(text) EXCEPT !.words = Replaces(text, edits)]

-----------------------------------------------------------------------------
Calling(c, call) ==      \* execute_edit, execute_write, to the lock
  /\ tools[c] = Idle /\ queue' = Append(queue, c)
  /\ tools' = [tools EXCEPT ![c] = call] /\ UNCHANGED file
CallEdit(c, edits) ==
  Calling(c, [tool |-> "edit", at |-> "queued", edits |-> edits, aborted |-> FALSE,
              read |-> NoFile, result |-> "none"])
CallWrite(c, text) ==
  Calling(c, [tool |-> "write", at |-> "queued", text |-> text, aborted |-> FALSE,
              result |-> "none"])
Abort(c) ==              \* the run's signal
  /\ tools[c] # Idle /\ tools[c].at # "ended" /\ ~tools[c].aborted
  /\ tools' = [tools EXCEPT ![c].aborted = TRUE] /\ UNCHANGED <<file, queue>>

Mut_Has(c) == c \in Range(queue)   \* the calls are not queued
Has(c) == queue # <<>> /\ Head(queue) = c
Ends(c, result) ==       \* the lock is released, to the next
  /\ tools' = [tools EXCEPT ![c].at = "ended", ![c].result = result]
  /\ queue' = Tail(queue)
Goes(c, from, to) ==
  /\ tools' = [tools EXCEPT ![c].at = to] /\ UNCHANGED <<file, queue>>

Locked(c) ==             \* run() looks at the signal, then calls access or mkdir
  /\ Has(c) /\ tools[c].at = "queued"
  /\ IF tools[c].aborted THEN Ends(c, "aborted") /\ UNCHANGED file
     ELSE Goes(c, "queued", "accessing")
Accessed(c) ==
  /\ tools[c].at = "accessing" /\ tools[c].tool = "edit"
  /\ IF file = NoFile THEN Ends(c, "error") /\ UNCHANGED file
     ELSE Goes(c, "accessing", "reading")
DirectoryMade(c) ==      \* the write tool looks at the signal again
  /\ tools[c].at = "accessing" /\ tools[c].tool = "write"
  /\ IF tools[c].aborted THEN Ends(c, "aborted") /\ UNCHANGED file
     ELSE Goes(c, "accessing", "writing")
Read(c) ==               \* the file as it is, and all of the edits, or an error
  /\ tools[c].at = "reading"
  /\ IF Replaces(file, tools[c].edits) = Failed THEN Ends(c, "error") /\ UNCHANGED file
     ELSE /\ tools' = [tools EXCEPT ![c].at = "writing", ![c].read = file]
          /\ UNCHANGED <<file, queue>>
Writes(c) ==
  IF tools[c].tool = "edit" THEN Applied(tools[c].read, tools[c].edits) ELSE tools[c].text
Written(c) ==
  /\ tools[c].at = "writing"
  /\ file' = Writes(c)
  /\ Ends(c, "ok")

(* The file cannot be opened, or it was emptied by that and not all of the   *)
(* text gets into it.                                                        *)
Part(text, k) == [words |-> SubSeq(text.words, 1, k), bom |-> text.bom /\ k > 0,
                  ends |-> SubSeq(text.ends, 1, k)]
Parts(text) == {Part(text, k) : k \in 0..Len(text.words)}
WriteFails(c) ==
  /\ tools[c].at = "writing"
  /\ file' \in {file} \cup Parts(Writes(c))
  /\ Ends(c, "error")

Next == \E c \in ToolCalls :
  \/ \E edits \in Edits : CallEdit(c, edits)
  \/ \E text \in Texts : CallWrite(c, text)
  \/ Abort(c) \/ Locked(c) \/ Accessed(c) \/ DirectoryMade(c) \/ Read(c) \/ Written(c)
  \/ WriteFails(c)
Spec == Init /\ [][Next]_vars

-----------------------------------------------------------------------------
(* An edit that succeeds changes the file as it was before, and nothing that *)
(* was written since the edit read the file is lost; one that cannot be      *)
(* made, or a call that is aborted, changes nothing. A write that fails      *)
(* leaves the file as it was, or a part of what would have been written,     *)
(* the rest of which, others' edits with it, is lost. (execute_edit and      *)
(* execute_write under with_file_mutation_queue)                             *)
Meant(c) ==
  IF tools[c].tool = "edit" THEN Applied(file, tools[c].edits) ELSE tools[c].text
EditKeepsOthers ==
  \A c \in ToolCalls : tools[c].at # "ended" /\ tools'[c].at = "ended" =>
    IF tools'[c].result = "ok" THEN file' = Meant(c)
    ELSE file' = file \/ (tools[c].at = "writing" /\ file' \in Parts(Meant(c)))
NoEditLost == [][EditKeepsOthers]_vars
=============================================================================
