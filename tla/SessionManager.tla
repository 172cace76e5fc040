--------------------------- MODULE SessionManager ---------------------------
(***************************************************************************)
(* The session log: src/pi_mono/core/session_manager.py.                   *)
(*                                                                         *)
(* A session is a tree of entries kept by a SessionManager in memory and   *)
(* appended, one JSON line per entry, to a .jsonl file.  Several processes *)
(* may have the same file open (pi --continue in two terminals), and a     *)
(* process may die between two writes or in the middle of one.             *)
(*                                                                         *)
(* An entry keeps its identity, its parent, its kind and the entry it      *)
(* refers to.  Entries that carry neither text nor labels (model,          *)
(* thinking-level, session-info and custom entries) are of kind "meta".    *)
(***************************************************************************)
EXTENDS Naturals, Sequences, FiniteSets

CONSTANTS
  Procs,         \* processes, each with at most one SessionManager
  Paths,         \* session files
  Kinds,         \* kinds of entries the run appends, of "user", "assistant", "meta",
                 \*   "compaction", "summary", "label" and "unlabel"
  InitialFiles,  \* what a session file may hold before the first run
  MaxEntries,    \* bound: entries ever created
  MaxSessions,   \* bound: session ids ever created
  MaxTorn        \* bound: writes that stop half-way

VARIABLES
  files,       \* [path -> exists, lines, open]; "open": the last line has no newline yet
  mgr,         \* [process -> its SessionManager, or Down]
  entryCount,  \* entries created: generate_id never returns an id twice
  sessionCount,\* session ids created
  acked,       \* <<path, id>> of every entry whose write returned
  tornAppends, \* one-line appends that stopped half-way
  tornFiles    \* writes of a whole file that stopped half-way

vars == <<files, mgr, entryCount, sessionCount, acked, tornAppends, tornFiles>>

EntryIds == 1..MaxEntries
NoId == 0        \* no parent, no leaf, nothing referred to; a line of version 1 has no id
Entry(id, parent, kind, ref) == [id |-> id, parent |-> parent, kind |-> kind, ref |-> ref]
CURRENT_SESSION_VERSION == 3
Header(sid, version) == [kind |-> "session", id |-> sid, version |-> version]
Junk == [kind |-> "junk"]   \* a line json.loads rejects

Elems(s) == {s[i] : i \in 1..Len(s)}
IdsOf(es) == {e.id : e \in Elems(es)}
ById(es, id) == CHOOSE e \in Elems(es) : e.id = id
LastId(es) == IF es = <<>> THEN NoId ELSE es[Len(es)].id
IsLabel(e) == e.kind \in {"label", "unlabel"}
HasAssistant(es) == \E e \in Elems(es) : e.kind = "assistant"

Absent == [exists |-> FALSE, lines |-> <<>>, open |-> FALSE]
Empty == [exists |-> TRUE, lines |-> <<>>, open |-> FALSE]
Down == [up |-> FALSE]

-----------------------------------------------------------------------------
(* Reading the tree. *)

(* get_branch: from an entry up to a root, or to a parent that is missing.  A
   parent is always an older entry. *)
Branch(es, from) ==
  LET path[id \in 0..MaxEntries] ==
        IF id = NoId \/ id \notin IdsOf(es) THEN <<>>
        ELSE Append(path[ById(es, id).parent], ById(es, id))
  IN path[from]

(* build_session_context: the last compaction of the branch stands for what is
   before the first entry it keeps.  Model and thinking level are those of the
   last entry that carries one. *)
Said(path) == SelectSeq(path, LAMBDA e : e.kind \in {"user", "assistant", "summary"})
Compactions(path) == {i \in 1..Len(path) : path[i].kind = "compaction"}
Kept(path, c) == {i \in 1..c - 1 : \E j \in 1..i : path[j].id = path[c].ref}
Context(es, leaf) ==
  LET path == Branch(es, leaf)
      c == CHOOSE i \in Compactions(path) : \A j \in Compactions(path) : j <= i
      first == CHOOSE i \in Kept(path, c) : \A j \in Kept(path, c) : i <= j
  IN [settings |-> LastId(SelectSeq(path, LAMBDA e : e.kind \in {"meta", "assistant"})),
      messages |->
        IF Compactions(path) = {} THEN Said(path)
        ELSE <<path[c]>>
             \o (IF Kept(path, c) = {} THEN <<>> ELSE Said(SubSeq(path, first, c - 1)))
             \o Said(SubSeq(path, c + 1, Len(path)))]

(* _build_index: the labels a replay of the entries leaves. *)
LabelsOf(es) ==
  {t \in EntryIds : \E i \in 1..Len(es) :
     /\ es[i].kind = "label" /\ es[i].ref = t
     /\ \A j \in i + 1..Len(es) : ~(es[j].kind = "unlabel" /\ es[j].ref = t)}

(* load_entries_from_file: unreadable lines are skipped; without a header first
   the file counts as empty. *)
Readable(f) == SelectSeq(f.lines, LAMBDA l : l.kind # "junk")
Valid(f) == Readable(f) # <<>> /\ Head(Readable(f)).kind = "session"
HeaderOf(f) == Head(Readable(f))
Loaded(f) == IF Valid(f) THEN Tail(Readable(f)) ELSE <<>>

(* migrate_to_current_version: version 1 is a list; it becomes a chain of new
   entries, and a compaction's index into the file the id of that entry. *)
MigratesIds(f) == Valid(f) /\ HeaderOf(f).version = 1
Migrated(es, n) ==
  [i \in 1..Len(es) |->
     Entry(n + i, IF i = 1 THEN NoId ELSE n + i - 1, es[i].kind,
           IF es[i].ref = NoId THEN NoId ELSE n + es[i].ref)]

-----------------------------------------------------------------------------
(* Writing.  A write of several lines may stop after any of them, or inside one.
   Such a line may be readable or not; what is appended next ends up on it. *)
Extend(f, ls) ==
  [exists |-> TRUE, open |-> f.open /\ ls = <<>>,
   lines |-> IF f.open /\ ls # <<>>
             THEN SubSeq(f.lines, 1, Len(f.lines) - 1) \o <<Junk>> \o Tail(ls)
             ELSE f.lines \o ls]
Partial(f, ls) ==
  {Extend(f, SubSeq(ls, 1, k)) : k \in 0..Len(ls) - 1}
  \cup UNION {{[Extend(f, Append(SubSeq(ls, 1, k - 1), l)) EXCEPT !.open = TRUE] :
                 l \in {ls[k], Junk}} : k \in 1..Len(ls)}

(* A process writes the entries or lines "ls" after "base" (Empty when it
   truncates or creates the file) and goes on with manager "done".  If the write
   stops half-way the process is gone, or goes on with "failed": an OSError
   leaves the memory as it was when the write began. *)
Stored(p, path, base, ls, done, failed) ==
  \/ /\ files' = [files EXCEPT ![path] = Extend(base, ls)]
     /\ mgr' = [mgr EXCEPT ![p] = done]
     /\ acked' = acked \cup {<<path, l.id>> : l \in {x \in Elems(ls) : x.kind # "session"}}
     /\ UNCHANGED <<tornAppends, tornFiles>>
  \/ /\ tornAppends + tornFiles < MaxTorn
     /\ \E torn \in Partial(base, ls) : files' = [files EXCEPT ![path] = torn]
     /\ \E m \in {Down, failed} : mgr' = [mgr EXCEPT ![p] = m]
     /\ IF base = files[path] /\ base.exists /\ Len(ls) = 1
        THEN tornAppends' = tornAppends + 1 /\ UNCHANGED tornFiles
        ELSE tornFiles' = tornFiles + 1 /\ UNCHANGED tornAppends
     /\ UNCHANGED acked
Unstored(p, m) ==
  /\ mgr' = [mgr EXCEPT ![p] = m]
  /\ UNCHANGED <<files, acked, tornAppends, tornFiles>>

\* Mutant: the first flush writes only the current entry.
Mut_LinesToWrite(m, e, f) ==
  IF m.flushed \/ f.exists THEN <<e>>
  ELSE IF HasAssistant(m.entries) THEN <<Header(m.sid, CURRENT_SESSION_VERSION), e>>
  ELSE <<>>

(* _persist: nothing is written before the first assistant message; that one
   creates the file with every entry so far, and if somebody else created it in
   the meantime only the current entry is appended. *)
LinesToWrite(m, e, f) ==
  IF m.flushed \/ (HasAssistant(m.entries) /\ f.exists) THEN <<e>>
  ELSE IF HasAssistant(m.entries) THEN <<Header(m.sid, CURRENT_SESSION_VERSION)>> \o m.entries
  ELSE <<>>

\* Mutant: the first flush truncates a file it finds (no O_EXCL).
Mut_BaseOf(m, f) == IF m.flushed THEN f ELSE Empty
BaseOf(m, f) == IF f.exists THEN f ELSE Empty

Persist(p, m, e, labels) ==
  LET f == files[m.path]
      ls == LinesToWrite(m, e, f)
      done == [m EXCEPT !.flushed = @ \/ HasAssistant(m.entries), !.labels = labels]
  IN IF ls = <<>> THEN Unstored(p, done) ELSE Stored(p, m.path, BaseOf(m, f), ls, done, m)

\* Mutant: taking a label off an entry leaves it in the index.
Mut_LabelsAfter(labels, e) == IF e.kind = "label" THEN labels \cup {e.ref} ELSE labels
LabelsAfter(labels, e) ==
  CASE e.kind = "label" -> labels \cup {e.ref}
    [] e.kind = "unlabel" -> labels \ {e.ref}
    [] OTHER -> labels

(* _append_entry: memory first, then the file. *)
AppendEntry(p, m, kind, ref) ==
  LET e == Entry(entryCount + 1, m.leaf, kind, ref)
  IN /\ kind \in Kinds
     /\ entryCount < MaxEntries
     /\ entryCount' = entryCount + 1
     /\ Persist(p, [m EXCEPT !.entries = Append(@, e), !.leaf = e.id], e,
                LabelsAfter(m.labels, e))
     /\ UNCHANGED sessionCount

-----------------------------------------------------------------------------
(* Operations of a live manager. *)

Opened(path, sid, es, flushed) ==
  [up |-> TRUE, path |-> path, sid |-> sid, entries |-> es, leaf |-> LastId(es),
   labels |-> LabelsOf(es), flushed |-> flushed]

(* append_message, append_custom_message_entry; append_model_change,
   append_thinking_level_change, append_session_info, append_custom_entry. *)
AppendMessage(p, kind) ==
  mgr[p].up /\ kind \in {"user", "assistant", "meta"} /\ AppendEntry(p, mgr[p], kind, NoId)

AppendCompaction(p, firstKept) ==
  /\ mgr[p].up
  /\ firstKept \in IdsOf(Branch(mgr[p].entries, mgr[p].leaf))
  /\ AppendEntry(p, mgr[p], "compaction", firstKept)

AppendLabelChange(p, kind, target) ==
  /\ mgr[p].up
  /\ kind \in {"label", "unlabel"}
  /\ target \in IdsOf(mgr[p].entries)
  /\ AppendEntry(p, mgr[p], kind, target)

(* branch and reset_leaf move the leaf in memory only. *)
BranchTo(p, id) ==
  /\ mgr[p].up
  /\ id \in IdsOf(mgr[p].entries) \cup {NoId}
  /\ Unstored(p, [mgr[p] EXCEPT !.leaf = id])
  /\ UNCHANGED <<entryCount, sessionCount>>

BranchWithSummary(p, from) ==
  /\ mgr[p].up
  /\ from \in IdsOf(mgr[p].entries) \cup {NoId}
  /\ AppendEntry(p, [mgr[p] EXCEPT !.leaf = from], "summary", from)

(* A session file name holds a new session id: nobody uses it. *)
Unused(path) == ~files[path].exists /\ \A q \in Procs : mgr[q].up => mgr[q].path # path
NewSessionId == sessionCount < MaxSessions /\ sessionCount' = sessionCount + 1

Ascending(S) ==
  [i \in 1..Cardinality(S) |-> CHOOSE x \in S : Cardinality({y \in S : y < x}) = i - 1]

(* create_branched_session: the branch without its label entries, whose children
   keep the parent they had, then the labels still in force as a chain. *)
Forked(m, id, n) ==
  LET kept == SelectSeq(Branch(m.entries, id), LAMBDA e : ~IsLabel(e))
      targets == Ascending(m.labels \cap IdsOf(kept))
      Parent(i) == IF i = 1 THEN LastId(kept) ELSE n + i - 1
  IN kept \o [i \in 1..Len(targets) |-> Entry(n + i, Parent(i), "label", targets[i])]

CreateBranchedSession(p, id, path) ==
  LET m == mgr[p]
      es == Forked(m, id, entryCount)
      new == Opened(path, sessionCount + 1, es, FALSE)
      labels == Cardinality({e \in Elems(es) : e.id > entryCount})
  IN /\ m.up /\ id \in IdsOf(m.entries)
     /\ Unused(path) /\ NewSessionId
     /\ entryCount + labels <= MaxEntries
     /\ entryCount' = entryCount + labels
     /\ IF HasAssistant(es)
        THEN Stored(p, path, Empty, <<Header(new.sid, CURRENT_SESSION_VERSION)>> \o es,
                    [new EXCEPT !.flushed = TRUE], [new EXCEPT !.flushed = m.flushed])
        ELSE Unstored(p, new)

-----------------------------------------------------------------------------
(* Making a manager: SessionManager.create, open, continue_recent, fork_from, and
   new_session.  One that raises leaves the process without. *)

OpenNew(p, path) ==
  /\ ~files[path].exists
  /\ NewSessionId
  /\ Unstored(p, Opened(path, sessionCount + 1, <<>>, FALSE))
  /\ UNCHANGED entryCount

\* A file that exists but cannot be read is started over.
OpenUnreadable(p, path) ==
  /\ files[path].exists /\ ~Valid(files[path])
  /\ NewSessionId
  /\ LET new == Opened(path, sessionCount + 1, <<>>, TRUE)
     IN Stored(p, path, Empty, <<Header(new.sid, CURRENT_SESSION_VERSION)>>, new, Down)
  /\ UNCHANGED entryCount

OpenOld(p, path) ==
  LET f == files[path]
      es == IF MigratesIds(f) THEN Migrated(Loaded(f), entryCount) ELSE Loaded(f)
      created == IF MigratesIds(f) THEN Len(es) ELSE 0
  IN /\ Valid(f) /\ HeaderOf(f).version < CURRENT_SESSION_VERSION
     /\ entryCount + created <= MaxEntries
     /\ entryCount' = entryCount + created
     /\ Stored(p, path, Empty, <<Header(HeaderOf(f).id, CURRENT_SESSION_VERSION)>> \o es,
               Opened(path, HeaderOf(f).id, es, TRUE), Down)
     /\ UNCHANGED sessionCount

\* _build_index raises on an entry without an id.
Indexed(es) == NoId \notin IdsOf(es)
OpenSaved(p, path) ==
  LET f == files[path]
  IN /\ Valid(f) /\ HeaderOf(f).version = CURRENT_SESSION_VERSION
     /\ Unstored(p, IF Indexed(Loaded(f))
                    THEN Opened(path, HeaderOf(f).id, Loaded(f), TRUE) ELSE Down)
     /\ UNCHANGED <<entryCount, sessionCount>>

\* fork_from copies the lines as they are, whatever the version they are in.
ForkFrom(p, source, path) ==
  LET es == Loaded(files[source])
      sid == sessionCount + 1
  IN /\ Valid(files[source])
     /\ Unused(path) /\ NewSessionId
     /\ Stored(p, path, Empty, <<Header(sid, CURRENT_SESSION_VERSION)>> \o es,
               IF Indexed(es) THEN Opened(path, sid, es, TRUE) ELSE Down, Down)
     /\ UNCHANGED entryCount

Exit(p) ==
  /\ mgr[p].up
  /\ Unstored(p, Down)
  /\ UNCHANGED <<entryCount, sessionCount>>

-----------------------------------------------------------------------------
Init ==
  /\ files \in [Paths -> InitialFiles]
  /\ mgr = [p \in Procs |-> Down]
  /\ entryCount = 0
  /\ sessionCount = 0
  /\ acked = {}
  /\ tornAppends = 0
  /\ tornFiles = 0

Step(p) ==
  \/ \E kind \in Kinds : AppendMessage(p, kind)
  \/ \E id \in EntryIds : AppendCompaction(p, id)
  \/ \E kind \in Kinds, id \in EntryIds : AppendLabelChange(p, kind, id)
  \/ \E id \in EntryIds \cup {NoId} : BranchTo(p, id)
  \/ \E id \in EntryIds \cup {NoId} : BranchWithSummary(p, id)
  \/ \E id \in EntryIds, path \in Paths : CreateBranchedSession(p, id, path)
  \/ \E path \in Paths : OpenNew(p, path)
  \/ \E path \in Paths : OpenUnreadable(p, path)
  \/ \E path \in Paths : OpenOld(p, path)
  \/ \E path \in Paths : OpenSaved(p, path)
  \/ \E source \in Paths, path \in Paths : ForkFrom(p, source, path)
  \/ Exit(p)

Next == \E p \in Procs : Step(p)
Spec == Init /\ [][Next]_vars

-----------------------------------------------------------------------------
(* Properties. *)

NothingTorn == tornAppends = 0 /\ tornFiles = 0

(* Once an assistant message was said (_persist creates the file then) the file
   holds, for every entry of the session, the conversation that memory holds:
   whoever opens it, and at whichever entry, continues where this process is.
   Excepted is a process that lost the race to create the file: the session in it
   is another. *)
DiskMatchesMemory ==
  NothingTorn =>
    \A p \in Procs : LET m == mgr[p] IN
      m.up /\ (m.flushed \/ HasAssistant(m.entries)) =>
        /\ Valid(files[m.path])
        /\ HeaderOf(files[m.path]).id = m.sid =>
             \A id \in IdsOf(m.entries) :
               Context(Loaded(files[m.path]), id) = Context(m.entries, id)

(* A one-line append that stops half-way takes at most one other written entry
   with it: the one the next process appends to the unfinished line. *)
LossIsBounded ==
  tornFiles = 0 =>
    Cardinality({a \in acked : a[2] \notin IdsOf(Loaded(files[a[1]]))}) <= tornAppends

(* The label index is what replaying the entries gives, so that reopening or
   forking a session shows the labels it had. *)
LabelIndexIsReplay ==
  NothingTorn => \A p \in Procs : mgr[p].up => mgr[p].labels = LabelsOf(mgr[p].entries)

(* Forking at an entry keeps its conversation, compaction included, when no label
   entry lies on the way (create_branched_session drops those, and with them the
   link from their children to what came before). *)
ForkKeepsConversation ==
  \A p \in Procs : mgr[p].up =>
    \A id \in IdsOf(mgr[p].entries) :
      LET m == mgr[p]
      IN (\A e \in Elems(Branch(m.entries, id)) : ~IsLabel(e)) =>
           Context(Forked(m, id, entryCount), id) = Context(m.entries, id)

(* Unless a write stops half-way no process, however many share the file, takes a
   line out of it or changes one; migrating an old file gives its entries ids and
   keeps their number and kinds. *)
KeepsLines ==
  (tornAppends' = 0 /\ tornFiles' = 0) =>
    \A path \in Paths :
      LET old == Loaded(files[path])
          new == Loaded(files'[path])
      IN /\ Len(old) <= Len(new)
         /\ \A i \in 1..Len(old) :
              IF MigratesIds(files[path]) THEN old[i].kind = new[i].kind ELSE old[i] = new[i]
=============================================================================
