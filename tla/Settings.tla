------------------------------ MODULE Settings ------------------------------
(* The settings of core/settings_manager.py: a SettingsManager per process,  *)
(* over the global and the project settings.json. A setter changes the       *)
(* memory, marks the field, and queues a write that merges the marked fields *)
(* into what the file holds by then; reload() waits for the writes queued so *)
(* far and reads both files again.                                           *)
(*                                                                           *)
(* A field is a setting or, for the settings that are dicts, one of their    *)
(* keys: the manager marks and merges those one by one. Values are numbered  *)
(* by the order in which they were set; 0 is a field that is not there.      *)
EXTENDS Naturals, Sequences, FiniteSets

CONSTANTS Managers,  \* the processes, each with its SettingsManager
          Scopes,    \* the files: "global" and "project"
          Fields,
          MaxSets,   \* bound on calls of setters
          MaxOther   \* bound on reloads, crashes, failing writes and edits by hand

VARIABLES
  files,     \* per scope: is it "none", "good" (an empty one too), "bad" (no JSON) or "cut"
             \*   (truncated, before the content is written: then locked, and nobody reads it),
             \*   and its fields, or those it had; history: who wrote each
  locks,     \* per scope: who made the lock directory, {} if nobody
  mem,       \* global_settings and project_settings of each manager
  marks,     \* modified_fields and modified_project_fields
  failed,    \* the scopes whose last load failed
  queue,     \* the writes of _enqueue_write that have not begun: scope, snapshot, fields
  job,       \* the write under way, with the content it read; <<>> if none
  awaits,    \* how many writes reload() still waits for, in a set; {} outside reload()
  told,      \* the scopes for which an error was recorded
  alive,     \* the process runs
  sets,      \* how many setters were called
  others,    \* how many reloads, crashes, failing writes and edits there were
  lastSet    \* history: the last value each manager set

vars == <<files, locks, mem, marks, failed, queue, job, awaits, told, alive, sets, others, lastSet>>
disk == <<files, locks>>

Empty == [f \in Fields |-> 0]

(* The file is looked at, the lock taken and the content read: without a     *)
(* file there is no lock, and with one that somebody else has, or that was   *)
(* left behind, there is only an error.                                      *)
Readable(s) == files[s].is = "none" \/ (files[s].is = "good" /\ locks[s] = {})
Content(s) == IF files[s].is = "good" THEN files[s].has ELSE Empty

(* try_load_from_storage for both scopes: a scope that cannot be loaded      *)
(* keeps what the manager had.                                               *)
Loads(m, kept) ==
  /\ mem' = [mem EXCEPT ![m] = [s \in Scopes |-> IF Readable(s) THEN Content(s) ELSE kept[s]]]
  /\ failed' = [failed EXCEPT ![m] = {s \in Scopes : ~Readable(s)}]
  /\ told' = [told EXCEPT ![m] = @ \cup {s \in Scopes : ~Readable(s)}]
  /\ marks' = [marks EXCEPT ![m] = [s \in Scopes |-> {}]]

Init ==
  /\ files \in [Scopes -> [is : {"none", "good"}, has : {Empty}, by : {[f \in Fields |-> {}]}]]
  /\ locks = [s \in Scopes |-> {}]
  /\ mem = [m \in Managers |-> [s \in Scopes |-> Empty]]
  /\ marks = [m \in Managers |-> [s \in Scopes |-> {}]]
  /\ failed = [m \in Managers |-> {}]
  /\ queue = [m \in Managers |-> <<>>]
  /\ job = [m \in Managers |-> <<>>]
  /\ awaits = [m \in Managers |-> {}]
  /\ told = [m \in Managers |-> {}]
  /\ alive = [m \in Managers |-> TRUE]
  /\ sets = 0 /\ others = 0
  /\ lastSet = mem

-----------------------------------------------------------------------------
(* _mark_modified, _mark_project_modified                                    *)
Marked(m, s, f) == [marks EXCEPT ![m][s] = @ \cup {f}]

(* save and save_project_settings: what is queued of a scope with its memory *)
(* and its marks. Nothing is, of a scope that could not be loaded.           *)
Saved(m, s, has, fields) ==
  IF s \in failed[m] THEN <<>> ELSE <<[scope |-> s, snapshot |-> has, fields |-> fields]>>

(* set_<field>, or set_project_<field>. A write blocks its process, so that  *)
(* nothing else of the process runs until it ends.                           *)
Mut_Set(m, s, f) ==
  /\ alive[m] /\ job[m] = <<>> /\ sets < MaxSets
  /\ sets' = sets + 1
  /\ mem' = [mem EXCEPT ![m][s][f] = sets']
  /\ lastSet' = [lastSet EXCEPT ![m][s][f] = sets']
  /\ marks' = Marked(m, s, f)
  /\ queue' = [queue EXCEPT ![m] = Saved(m, s, mem'[m][s], marks'[m][s]) \o @]
  /\ UNCHANGED <<disk, failed, job, awaits, told, alive, others>>

Set(m, s, f) ==
  /\ alive[m] /\ job[m] = <<>> /\ sets < MaxSets
  /\ sets' = sets + 1
  /\ mem' = [mem EXCEPT ![m][s][f] = sets']
  /\ lastSet' = [lastSet EXCEPT ![m][s][f] = sets']
  /\ marks' = Marked(m, s, f)
  /\ queue' = [queue EXCEPT ![m] = @ \o Saved(m, s, mem'[m][s], marks'[m][s])]
  /\ UNCHANGED <<disk, failed, job, awaits, told, alive, others>>

(* with_lock: the first queued write looks whether there is a file.          *)
WriteBegins(m) ==
  /\ alive[m] /\ job[m] = <<>> /\ queue[m] # <<>>
  /\ LET w == Head(queue[m]) IN
       job' = [job EXCEPT ![m] = <<[w |-> w, at |-> "looked", saw |-> files[w.scope].is # "none",
                                    read |-> Empty]>>]
  /\ queue' = [queue EXCEPT ![m] = Tail(@)]
  /\ UNCHANGED <<disk, mem, marks, failed, awaits, told, alive, sets, others, lastSet>>

At(m, step) == alive[m] /\ job[m] # <<>> /\ job[m][1].at = step
Job(m) == job[m][1]
Target(m) == Job(m).w.scope

(* The fields of the write replace, or remove, those of the file.            *)
Merged(w, content) == [f \in Fields |-> IF f \in w.fields THEN w.snapshot[f] ELSE content[f]]

(* The write is over: the marks are cleared if it was done, an error is      *)
(* recorded if not. reload() has one write less to wait for.                 *)
WriteEnds(m, ok) ==
  /\ job' = [job EXCEPT ![m] = <<>>]
  /\ marks' = IF ok THEN [marks EXCEPT ![m][Target(m)] = {}] ELSE marks
  /\ told' = IF ok THEN told ELSE [told EXCEPT ![m] = @ \cup {Target(m)}]
  /\ awaits' = [awaits EXCEPT ![m] = {IF n = 0 THEN 0 ELSE n - 1 : n \in @}]

(* The lock directory is made. Whoever saw a file reads it now; whoever saw  *)
(* none has merged with nothing already.                                     *)
Locks(m) ==
  /\ At(m, "looked") /\ locks[Target(m)] = {}
  /\ IF Job(m).saw /\ files[Target(m)].is = "bad"
       THEN WriteEnds(m, FALSE) /\ UNCHANGED locks
       ELSE /\ locks' = [locks EXCEPT ![Target(m)] = {m}]
            /\ job' = [job EXCEPT ![m][1].at = "locked",
                         ![m][1].read = IF Job(m).saw THEN Content(Target(m)) ELSE Empty]
            /\ UNCHANGED <<marks, told, awaits>>
  /\ UNCHANGED <<files, mem, failed, queue, alive, sets, others, lastSet>>

(* Ten attempts to make the lock directory have failed.                      *)
LockTimesOut(m) ==
  /\ At(m, "looked") /\ locks[Target(m)] # {}
  /\ WriteEnds(m, FALSE)
  /\ UNCHANGED <<disk, mem, failed, queue, alive, sets, others, lastSet>>

(* open(path, "w") cuts the file.                                            *)
Truncates(m) ==
  /\ At(m, "locked")
  /\ files' = [files EXCEPT ![Target(m)].is = "cut"]
  /\ job' = [job EXCEPT ![m][1].at = "opened"]
  /\ UNCHANGED <<locks, mem, marks, failed, queue, awaits, told, alive, sets, others, lastSet>>

(* The content is written and the lock released.                             *)
Writes(m) ==
  /\ At(m, "opened")
  /\ LET replaced == IF Job(m).saw THEN Job(m).w.fields ELSE Fields IN
       files' = [files EXCEPT ![Target(m)] =
                   [is |-> "good", has |-> Merged(Job(m).w, Job(m).read),
                    by |-> [f \in Fields |-> IF f \in replaced THEN {m} ELSE @.by[f]]]]
  /\ locks' = [locks EXCEPT ![Target(m)] = {}]
  /\ WriteEnds(m, TRUE)
  /\ UNCHANGED <<mem, failed, queue, alive, sets, others, lastSet>>

(* An OSError: the lock is released over an empty file, or over a part of    *)
(* the content.                                                              *)
WriteFails(m) ==
  /\ At(m, "opened") /\ others < MaxOther
  /\ others' = others + 1
  /\ \E is \in {"good", "bad"} :
       files' = [files EXCEPT ![Target(m)] = [is |-> is, has |-> Empty, by |-> [f \in Fields |-> {m}]]]
  /\ locks' = [locks EXCEPT ![Target(m)] = {}]
  /\ WriteEnds(m, FALSE)
  /\ UNCHANGED <<mem, failed, queue, alive, sets, lastSet>>

-----------------------------------------------------------------------------
(* reload(): flush() takes the writes there are, and others may be queued    *)
(* while it waits for them.                                                  *)
Reload(m) ==
  /\ alive[m] /\ job[m] = <<>> /\ awaits[m] = {} /\ others < MaxOther
  /\ others' = others + 1
  /\ awaits' = [awaits EXCEPT ![m] = {Len(queue[m])}]
  /\ UNCHANGED <<disk, mem, marks, failed, queue, job, told, alive, sets, lastSet>>

ReloadReads(m) ==
  /\ alive[m] /\ job[m] = <<>> /\ awaits[m] = {0}
  /\ awaits' = [awaits EXCEPT ![m] = {}]
  /\ Loads(m, mem[m])
  /\ UNCHANGED <<disk, queue, job, alive, sets, others, lastSet>>

(* The process dies, wherever it is: a lock directory it made stays.         *)
Crash(m) ==
  /\ alive[m] /\ others < MaxOther
  /\ others' = others + 1
  /\ alive' = [alive EXCEPT ![m] = FALSE]
  /\ queue' = [queue EXCEPT ![m] = <<>>] /\ job' = [job EXCEPT ![m] = <<>>]
  /\ awaits' = [awaits EXCEPT ![m] = {}]
  /\ lastSet' = [lastSet EXCEPT ![m] = [s \in Scopes |-> Empty]]
  /\ UNCHANGED <<disk, mem, marks, failed, told, sets>>

(* SettingsManager.create, in a new process.                                 *)
Start(m) ==
  /\ ~alive[m]
  /\ alive' = [alive EXCEPT ![m] = TRUE]
  /\ Loads(m, [s \in Scopes |-> Empty])
  /\ UNCHANGED <<disk, queue, job, awaits, sets, others, lastSet>>

(* The user saves a file that is no JSON, while nothing is being written.    *)
Breaks(s) ==
  /\ files[s].is = "good" /\ locks[s] = {} /\ others < MaxOther
  /\ others' = others + 1
  /\ files' = [files EXCEPT ![s].is = "bad"]
  /\ UNCHANGED <<locks, mem, marks, failed, queue, job, awaits, told, alive, sets, lastSet>>

Next ==
  \/ \E m \in Managers :
       \/ \E s \in Scopes, f \in Fields : Set(m, s, f)
       \/ WriteBegins(m) \/ Locks(m) \/ LockTimesOut(m) \/ Truncates(m) \/ Writes(m) \/ WriteFails(m)
       \/ Reload(m) \/ ReloadReads(m) \/ Crash(m) \/ Start(m)
  \/ \E s \in Scopes : Breaks(s)

Spec == Init /\ [][Next]_vars

-----------------------------------------------------------------------------
(* Processes that share a file do not undo each other's settings: a write    *)
(* changes the fields that were set in its process, whatever the others      *)
(* wrote since it was loaded, and a file that is no JSON is never            *)
(* overwritten. The exceptions: a write that saw no file, and merges with    *)
(* nothing although there is one by now; and one that fails once the file is *)
(* truncated, of which its own process is told.                              *)
(* (with_lock, _persist_scoped_settings)                                     *)
Blind(m, s) == job[m] # <<>> /\ Target(m) = s /\ ~Job(m).saw
Broken(m, s) == job[m] # <<>> /\ Target(m) = s /\ Job(m).at = "opened" /\ s \in told'[m]

OwnWrites ==
  \A s \in Scopes :
    \/ /\ \A f \in Fields : files'[s].has[f] # files[s].has[f] =>
              \E m \in Managers : job[m] # <<>> /\ Target(m) = s /\ f \in Job(m).w.fields
       /\ files[s].is = "bad" => files'[s].is = "bad"
    \/ \E m \in Managers : Blind(m, s) \/ (Broken(m, s) /\ files'[s].has = Empty)

WritesOnlyItsOwn == [][OwnWrites]_vars

(* What was set is stored once the writes of its process are done, in the    *)
(* order in which it was set, unless another process has written that field  *)
(* since, or emptied the file when its write failed, or the user has been    *)
(* told of an error. (_enqueue_write)                                        *)
Settled(m, s) ==
  /\ alive[m] /\ job[m] = <<>> /\ files[s].is = "good"
  /\ \A i \in 1..Len(queue[m]) : queue[m][i].scope # s

SetIsStored ==
  \A m \in Managers, s \in Scopes, f \in Fields :
    Settled(m, s) /\ s \notin told[m] /\ lastSet[m][s][f] # 0 =>
      files[s].has[f] = lastSet[m][s][f] \/ files[s].by[f] # {m}
=============================================================================
