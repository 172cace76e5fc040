--------------------------- MODULE HarnessStorage ---------------------------
(* The session storages of agent/harness/session: JSONL files that several   *)
(* storages may have open, each with its memory of the entries, the leaf and *)
(* the labels (jsonl_storage.py; memory_storage.py keeps the same without a  *)
(* file), and the repository that creates, opens and forks them              *)
(* (jsonl_repo.py, repo_utils.py). A storage does nothing else while it      *)
(* reads or writes: the environment's file operations do not suspend.        *)
(*                                                                           *)
(* An entry is its id, its type, its parent and the entry it is about; the   *)
(* other types of entries are stored as messages are. 0 is no entry.         *)
EXTENDS Naturals, Sequences, FiniteSets, SequencesExt

CONSTANTS Clients,    \* each has a storage, on one session at a time
          Sessions,   \* the session files
          MaxEntries, \* bound on entries made
          MaxFaults   \* bound on failed writes and crashes

VARIABLES
  files,   \* per session: was it made, its entry lines, and is the last line cut short
  at,      \* the session a client's storage is of; "none" without a storage
  mem,     \* entries, current_leaf_id and labels_by_id of each storage
  next,    \* the next entry id
  faults,  \* how many faults there were
  stale    \* history: the storages whose file another one has written to since

vars == <<files, at, mem, next, faults, stale>>

Garbage == [id |-> 0, type |-> "garbage", parent |-> 0, target |-> 0, set |-> FALSE]
NoFile == [made |-> FALSE, lines |-> <<>>, cut |-> FALSE]
Nothing == [entries |-> <<>>, leaf |-> 0, labels |-> {}]

Init ==
  /\ files = [s \in Sessions |-> NoFile]
  /\ at = [c \in Clients |-> "none"]
  /\ mem = [c \in Clients |-> Nothing]
  /\ next = 1 /\ faults = 0
  /\ stale = {}

Ids(entries) == {entries[i].id : i \in 1..Len(entries)}
ById(entries, id) == entries[CHOOSE i \in 1..Len(entries) : entries[i].id = id]

(* What a user moves to or forks from is never a leaf entry.                 *)
IsTreeEntry(entries, id) == id \in Ids(entries) /\ ById(entries, id).type # "leaf"

(* _leaf_id_after_entry                                                      *)
LeafAfter(e) == IF e.type = "leaf" THEN e.target ELSE e.id

(* _update_label_cache: a label is set on, or taken from, its target.        *)
LabelsAfter(labels, e) ==
  IF e.type # "label" THEN labels
  ELSE IF e.set THEN labels \cup {e.target} ELSE labels \ {e.target}

(* _build_labels_by_id: the entries are replayed.                            *)
LabelsOf(entries) ==
  LET after[n \in 0..Len(entries)] ==
        IF n = 0 THEN {} ELSE LabelsAfter(after[n - 1], entries[n])
  IN  after[Len(entries)]

(* What append_entry does to the memory, and to an empty one, entry by entry.*)
Remember(m, e) ==
  [entries |-> Append(m.entries, e), leaf |-> LeafAfter(e), labels |-> LabelsAfter(m.labels, e)]
Remembered(entries) ==
  LET after[n \in 0..Len(entries)] ==
        IF n = 0 THEN Nothing ELSE Remember(after[n - 1], entries[n])
  IN  after[Len(entries)]

(* open(): the lines are parsed one by one; one that is no entry fails it.   *)
Opened(lines) ==
  [entries |-> lines, leaf |-> IF lines = <<>> THEN 0 ELSE LeafAfter(Last(lines)),
   labels |-> LabelsOf(lines)]

Opens(f) == f.made /\ ~f.cut /\ Garbage \notin Range(f.lines)

(* append_file: a line that was cut short swallows the next one.             *)
Line(f, e) ==
  [f EXCEPT !.lines = Append(@, IF f.cut THEN Garbage ELSE e), !.cut = FALSE]

(* get_path_to_root                                                          *)
PathIds(entries, leaf) ==
  LET up[i \in 0..Len(entries)] ==
        IF i = 0 THEN <<>>
        ELSE LET e == entries[i] IN
             Append(up[IF e.parent \in Ids(SubSeq(entries, 1, i - 1))
                         THEN CHOOSE j \in 1..(i - 1) : entries[j].id = e.parent ELSE 0], e.id)
  IN  IF leaf \in Ids(entries) THEN up[CHOOSE i \in 1..Len(entries) : entries[i].id = leaf] ELSE <<>>

-----------------------------------------------------------------------------
Others(c, s) == {d \in Clients : d # c /\ at[d] = s}

(* JsonlSessionRepo.create                                                   *)
Create(c, s) ==
  /\ at[c] = "none" /\ ~files[s].made
  /\ files' = [files EXCEPT ![s] = [NoFile EXCEPT !.made = TRUE]]
  /\ at' = [at EXCEPT ![c] = s] /\ mem' = [mem EXCEPT ![c] = Nothing]
  /\ stale' = stale \ {c}
  /\ UNCHANGED <<next, faults>>

(* JsonlSessionRepo.open: a file that does not parse is not opened.          *)
Open(c, s) ==
  /\ Opens(files[s])
  /\ at' = [at EXCEPT ![c] = s] /\ mem' = [mem EXCEPT ![c] = Opened(files[s].lines)]
  /\ stale' = stale \ {c}
  /\ UNCHANGED <<files, next, faults>>

(* JsonlSessionRepo.delete, of a session nobody has open.                    *)
Delete(s) ==
  /\ files[s].made /\ \A c \in Clients : at[c] # s
  /\ files' = [files EXCEPT ![s] = NoFile]
  /\ UNCHANGED <<at, mem, next, faults, stale>>

(* append_entry and set_leaf_id: the file first, then the memory, and the    *)
(* memory only if the file was written.                                      *)
Mut_Store(c, e) ==
  /\ files' = [files EXCEPT ![at[c]] = Line(@, e)]
  /\ mem' = [mem EXCEPT ![c] = [Remember(mem[c], e) EXCEPT !.labels = mem[c].labels]]
  /\ stale' = stale \cup Others(c, at[c])

Store(c, e) ==
  /\ files' = [files EXCEPT ![at[c]] = Line(@, e)]
  /\ mem' = [mem EXCEPT ![c] = Remember(mem[c], e)]
  /\ stale' = stale \cup Others(c, at[c])

Made(c) == at[c] # "none" /\ next <= MaxEntries /\ next' = next + 1 /\ UNCHANGED <<at, faults>>
Entry(c, type, target, set) ==
  [id |-> next, type |-> type, parent |-> mem[c].leaf, target |-> target, set |-> set]

(* Session.append_message of a user or of the assistant, and the others.     *)
AppendMessage(c, type) == Made(c) /\ Store(c, Entry(c, type, 0, FALSE))

AppendLabel(c, target, set) ==
  /\ Made(c) /\ target \in Ids(mem[c].entries)
  /\ Store(c, Entry(c, "label", target, set))

(* Session.move_to without a summary.                                        *)
SetLeaf(c, target) ==
  /\ Made(c)
  /\ target = 0 \/ IsTreeEntry(mem[c].entries, target)
  /\ Store(c, Entry(c, "leaf", target, FALSE))

(* append_file fails: nothing of the line is in the file, or a part of it.   *)
(* The caller gets an error, and the memory stays as it is.                  *)
AppendFails(c) ==
  /\ at[c] # "none" /\ faults < MaxFaults
  /\ faults' = faults + 1
  /\ \E part \in BOOLEAN : files' = [files EXCEPT ![at[c]].cut = @ \/ part]
  /\ UNCHANGED <<at, mem, next, stale>>

(* The process ends, or dies while it appends.                               *)
Crash(c) ==
  /\ at[c] # "none" /\ faults < MaxFaults
  /\ faults' = faults + 1
  /\ \E part \in BOOLEAN : files' = [files EXCEPT ![at[c]].cut = @ \/ part]
  /\ at' = [at EXCEPT ![c] = "none"] /\ mem' = [mem EXCEPT ![c] = Nothing]
  /\ stale' = stale \ {c}
  /\ UNCHANGED next

(* get_entries_to_fork: everything, or the path to an entry or to the parent *)
(* of a message of the user.                                                 *)
ToFork(m, entry, position) ==
  IF entry = 0 THEN m.entries
  ELSE LET e == ById(m.entries, entry)
           path == PathIds(m.entries, IF position = "at" THEN e.id ELSE e.parent)
       IN  [i \in 1..Len(path) |-> ById(m.entries, path[i])]

(* JsonlSessionRepo.fork: the source is opened, the new file made, and the   *)
(* entries appended to it one by one; all of them, unless the process dies.  *)
Fork(c, s, t, entry, position) ==
  LET source == Opened(files[s].lines)
      copies == ToFork(source, entry, position)
  IN  /\ Opens(files[s]) /\ ~files[t].made /\ at[c] = "none"
      /\ entry = 0 \/ /\ IsTreeEntry(source.entries, entry)
                      /\ position = "at" \/ ById(source.entries, entry).type = "user"
      /\ \/ /\ files' = [files EXCEPT ![t] = [made |-> TRUE, lines |-> copies, cut |-> FALSE]]
            /\ at' = [at EXCEPT ![c] = t]
            /\ mem' = [mem EXCEPT ![c] = Remembered(copies)]
            /\ stale' = stale \ {c}
            /\ UNCHANGED faults
         \/ /\ faults < MaxFaults /\ faults' = faults + 1
            /\ \E n \in 0..Len(copies), part \in BOOLEAN :
                 files' = [files EXCEPT ![t] =
                             [made |-> TRUE, lines |-> SubSeq(copies, 1, n), cut |-> part]]
            /\ UNCHANGED <<at, mem, stale>>
      /\ UNCHANGED next

Next ==
  \/ \E c \in Clients, s \in Sessions :
       \/ Create(c, s) \/ Open(c, s)
       \/ \E t \in Sessions, entry \in 0..MaxEntries, position \in {"at", "before"} :
            Fork(c, s, t, entry, position)
  \/ \E s \in Sessions : Delete(s)
  \/ \E c \in Clients :
       \/ \E type \in {"user", "assistant"} : AppendMessage(c, type)
       \/ \E target \in 1..MaxEntries, set \in BOOLEAN : AppendLabel(c, target, set)
       \/ \E target \in 0..MaxEntries : SetLeaf(c, target)
       \/ AppendFails(c) \/ Crash(c)

Spec == Init /\ [][Next]_vars

-----------------------------------------------------------------------------
(* A storage remembers what a reader of its file would find: entries, leaf   *)
(* and labels, though it keeps the latter two up to date entry by entry.     *)
(* Without this a session is another one after it was reopened. Others that  *)
(* write to the file, and a write that failed half way, are the exceptions.  *)
(* (open, append_entry, set_leaf_id; repo fork)                              *)
MemoryIsFile ==
  \A c \in Clients :
    at[c] # "none" /\ c \notin stale /\ Opens(files[at[c]]) =>
      mem[c] = Opened(files[at[c]].lines)

(* A fork shows the conversation of its source up to the point it was asked  *)
(* for, in the file and in the memory of the one who made it. (fork)         *)
Forked(c, s, t, entry, position) ==
  LET source == Opened(files[s].lines)
      point == IF entry = 0 THEN source.leaf
               ELSE IF position = "at" THEN entry ELSE ById(source.entries, entry).parent
  IN  PathIds(mem'[c].entries, mem'[c].leaf) = PathIds(source.entries, point)

Forks ==
  \A c \in Clients, t \in Sessions :
    at[c] = "none" /\ at'[c] = t /\ ~files[t].made =>
      \A s \in Sessions, entry \in 0..MaxEntries, position \in {"at", "before"} :
        Fork(c, s, t, entry, position) => Forked(c, s, t, entry, position)

ForkShowsSource == [][Forks]_vars
=============================================================================
