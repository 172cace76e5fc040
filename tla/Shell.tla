------------------------------- MODULE Shell --------------------------------
(* Shell commands and what they print: LocalExecutionEnv.exec under          *)
(* executeShellWithCapture (agent/harness/env/local.py,                      *)
(* harness/utils/shell_output.py), and LocalBashOperations under the session,*)
(* through execute_bash_with_operations, or under the bash tool              *)
(* (coding_agent/core/tools/bash.py, coding_agent/core/bash_executor.py).    *)
(* Output comes in chunks of equal size, numbered as they are read; exec     *)
(* reads all that is in a pipe as one.                                       *)
EXTENDS Naturals, Sequences, FiniteSets, SequencesExt

CONSTANTS
  Commands,    \* commands that may run, two of them at once
  Callers,     \* of {"env", "session", "tool"}: who runs commands
  Limit,       \* DEFAULT_MAX_BYTES, in chunks
  MaxChunks,   \* bound: what a command prints
  MaxFails     \* bound: log files that cannot be made or written

VARIABLES
  cmds,        \* per command: by; at; aborted, its signal; limited, whether it has a
               \*   timeout; late, whether that ran out; result; history: killed, while its shell ran
  procs,       \* per command: the shell, a background process of it that holds its pipes,
               \*   and the chunks in them
  outs,        \* per command: read, the number of chunks; kept, how many of the last of
               \*   them; logged: the chunks in the log; named: the log has a path; failed:
               \*   captureError, or an exception; tasks: writes that were scheduled;
               \*   history: missed, the chunks read while the log was being made
  controller,  \* _bash_abort_controller of the session: the command it is for, or 0
  fails        \* history: the number of failures to write

vars == <<cmds, procs, outs, controller, fails>>
env == "env"

NoCommand == [by |-> "none", at |-> "idle", aborted |-> FALSE, limited |-> FALSE,
              late |-> FALSE, result |-> "none", killed |-> FALSE]
NoProc == [shell |-> "none", child |-> FALSE, pipes |-> [out |-> 0, err |-> 0]]
NoOut == [read |-> 0, kept |-> 0, logged |-> <<>>, named |-> FALSE, failed |-> FALSE,
          tasks |-> <<>>, missed |-> {}]
Init ==
  /\ cmds = [c \in Commands |-> NoCommand] /\ procs = [c \in Commands |-> NoProc]
  /\ outs = [c \in Commands |-> NoOut] /\ controller = 0 /\ fails = 0

-----------------------------------------------------------------------------
(* The output of a command.                                                  *)
Chunks(a, b) == [k \in 1..(IF b < a THEN 0 ELSE b - a + 1) |-> a + k - 1]
Kept(o) == Chunks(o.read - o.kept + 1, o.read)

(* output_chunks, with one chunk more: at most two limits.                   *)
Keeps(o) == [o EXCEPT !.read = @ + 1, !.kept = IF @ = 2 * Limit THEN @ ELSE @ + 1]

(* createTempFile and appendFile: write what they are given, or fail; the    *)
(* append, but not the creation, is refused to a command that was aborted.   *)
Creates(o, content, ok, aborted) ==
  IF o.named \/ o.failed THEN o
  ELSE IF ~ok THEN [o EXCEPT !.failed = TRUE]
  ELSE [o EXCEPT !.named = TRUE, !.failed = aborted,
                 !.logged = IF aborted THEN @ ELSE content]
Appends(o, content, ok, aborted) ==
  IF ~o.named \/ o.failed THEN o
  ELSE IF ok /\ ~aborted THEN [o EXCEPT !.logged = @ \o content]
  ELSE [o EXCEPT !.failed = TRUE]

(* onChunk of executeShellWithCapture: the log is made and written by tasks, *)
(* and every chunk before it has a path schedules one that would make it.    *)
BeingMade(o) == \E k \in DOMAIN o.tasks : o.tasks[k].kind = "create"
Captured(o, s) ==
  LET kind == IF o.read + 1 > Limit /\ ~o.named THEN "create" ELSE "append"
      task == [kind |-> kind, by |-> s,
               content |-> IF kind = "create" THEN Append(Kept(o), o.read + 1)
                           ELSE <<o.read + 1>>]
  IN [Keeps(o) EXCEPT !.tasks = IF kind = "append" /\ ~o.named THEN @ ELSE Append(@, task),
        !.missed = IF BeingMade(o) /\ ~o.named THEN @ \cup {o.read + 1} ELSE @]
CapturedAll(o, s, n) == FoldLeft(LAMBDA x, k : Captured(x, s), o, Chunks(1, n))

(* on_data of execute_bash_with_operations: at once; the tool has no log.    *)
Mut_Logged(o) ==         \* the log starts with the chunk for which it is made
  LET made == IF o.read + 1 > Limit /\ ~o.named THEN [o EXCEPT !.named = TRUE] ELSE o
  IN Keeps(IF made.named THEN [made EXCEPT !.logged = Append(@, o.read + 1)] ELSE made)
Logged(o) ==
  LET made == IF o.read + 1 > Limit /\ ~o.named
              THEN [o EXCEPT !.named = TRUE, !.logged = Kept(o)] ELSE o
  IN Keeps(IF made.named THEN [made EXCEPT !.logged = Append(@, o.read + 1)] ELSE made)

MustCreate(o) == o.read + 1 > Limit /\ ~o.named
LoggedAll(o, n) == FoldLeft(LAMBDA x, k : Logged(x), o, Chunks(1, n))

-----------------------------------------------------------------------------
(* Starting and stopping.                                                    *)
At(c, at) == cmds[c].at = at
Running == {c \in Commands : cmds[c].at \in {"spawning", "running"}}
Ends(c, result) == [cmds EXCEPT ![c].at = "ended", ![c].result = result]
Frees(c) == IF cmds[c].by = "session" THEN 0 ELSE controller   \* the finally

Start(c, by, limited, aborted) ==      \* to the await of the process
  /\ At(c, "idle") /\ by \in Callers /\ Cardinality(Running) < 2
  /\ by = "session" => ~limited /\ ~aborted
  /\ cmds' = [cmds EXCEPT ![c] =
       [by |-> by, at |-> IF aborted THEN "ended" ELSE "spawning", aborted |-> aborted,
        limited |-> limited, late |-> FALSE, killed |-> FALSE,
        result |-> IF aborted THEN "aborted" ELSE "none"]]
  /\ controller' = IF by = "session" THEN c ELSE controller
  /\ UNCHANGED <<procs, outs, fails>>

Spawned(c) ==            \* the operations look at the signal before the first read
  /\ At(c, "spawning")
  /\ IF cmds[c].aborted /\ cmds[c].by # env
     THEN /\ cmds' = Ends(c, "aborted") /\ controller' = Frees(c)
          /\ UNCHANGED procs
     ELSE /\ cmds' = [cmds EXCEPT ![c].at = "running"]
          /\ procs' = [procs EXCEPT ![c].shell = "alive"] /\ UNCHANGED controller
  /\ UNCHANGED <<outs, fails>>
SpawnFails(c) ==
  /\ At(c, "spawning") /\ cmds' = Ends(c, IF cmds[c].aborted /\ cmds[c].by = "session"
                                          THEN "aborted" ELSE "error")
  /\ controller' = Frees(c) /\ UNCHANGED <<procs, outs, fails>>

(* kill_proc: the whole process group, while the shell has not ended. Before *)
(* there is a process, the listener finds none, and it is gone afterwards.   *)
Mut_Group(p) == [p EXCEPT !.shell = "dead"]   \* the background processes are left
Group(p) == [p EXCEPT !.shell = "dead", !.child = FALSE]
Killed(p) == IF p.shell = "alive" THEN Group(p) ELSE p

Kills(c) == cmds[c].by = env /\ procs[c].shell = "alive"
Signals(c) ==            \* AbortController.abort: the listener of exec, if there is one
  /\ c \in Running /\ ~cmds[c].aborted
  /\ cmds' = [cmds EXCEPT ![c].aborted = TRUE, ![c].killed = @ \/ Kills(c)]
  /\ procs' = IF cmds[c].by = env THEN [procs EXCEPT ![c] = Killed(@)] ELSE procs
  /\ UNCHANGED <<outs, controller, fails>>
Abort(c) == cmds[c].by # "session" /\ Signals(c)
AbortBash == \E c \in Commands : c = controller /\ Signals(c)

(* wait_for of the process in exec; of each read in the operations, which    *)
(* kill the shell only.                                                      *)
TimesOut(c) ==
  /\ At(c, "running") /\ cmds[c].limited /\ ~cmds[c].late
  /\ IF cmds[c].by = env
     THEN /\ procs[c].shell = "alive"
          /\ cmds' = [cmds EXCEPT ![c].late = TRUE, ![c].killed = TRUE]
          /\ procs' = [procs EXCEPT ![c] = Killed(@)]
     ELSE /\ procs[c].pipes.out = 0
          /\ cmds' = Ends(c, "timeout") /\ procs' = [procs EXCEPT ![c].shell = "dead"]
  /\ UNCHANGED <<outs, controller, fails>>

-----------------------------------------------------------------------------
(* The processes.                                                            *)
Writes(c, s) ==          \* the operations have one pipe for both
  /\ procs[c].shell = "alive" \/ procs[c].child
  /\ s = "err" => cmds[c].by = env
  /\ outs[c].read + procs[c].pipes.out + procs[c].pipes.err < MaxChunks
  /\ procs' = [procs EXCEPT ![c].pipes[s] = @ + 1]
  /\ UNCHANGED <<cmds, outs, controller, fails>>
Forks(c) ==
  /\ procs[c].shell = "alive" /\ ~procs[c].child /\ procs' = [procs EXCEPT ![c].child = TRUE]
  /\ UNCHANGED <<cmds, outs, controller, fails>>
ShellExits(c) ==
  /\ procs[c].shell = "alive" /\ procs' = [procs EXCEPT ![c].shell = "dead"]
  /\ UNCHANGED <<cmds, outs, controller, fails>>
ChildExits(c) ==
  /\ procs[c].child /\ procs' = [procs EXCEPT ![c].child = FALSE]
  /\ UNCHANGED <<cmds, outs, controller, fails>>
Closed(c) == procs[c].shell = "dead" /\ ~procs[c].child

-----------------------------------------------------------------------------
(* exec with capture: two readers, the tasks they make, and the end.         *)
Reads(c, s, n) ==        \* read_stream wakes: a read of what is buffered does not suspend,
                         \* so that only what it scheduled in an earlier wake has run
  /\ At(c, "running") /\ cmds[c].by = env /\ n \in 1..procs[c].pipes[s]
  /\ \A k \in DOMAIN outs[c].tasks : outs[c].tasks[k].by # s
  /\ outs' = [outs EXCEPT ![c] = CapturedAll(@, s, n)]
  /\ procs' = [procs EXCEPT ![c].pipes[s] = @ - n]
  /\ UNCHANGED <<cmds, controller, fails>>

RunsTask(c, ok) ==       \* ensureFullOutputFile or appendFullOutput
  LET o == outs[c] task == Head(o.tasks) rest == [o EXCEPT !.tasks = Tail(@)]
  IN /\ o.tasks # <<>> /\ (~ok => fails < MaxFails)
     /\ outs' = [outs EXCEPT ![c] =
          IF task.kind = "create" THEN Creates(rest, task.content, ok, cmds[c].aborted)
          ELSE Appends(rest, task.content, ok, cmds[c].aborted)]
     /\ fails' = IF ok THEN fails ELSE fails + 1
     /\ UNCHANGED <<cmds, procs, controller>>

(* The tail is truncated when it is long, or has many lines.                 *)
Truncates(o, lines) == o.kept > Limit \/ lines
EnvEnds(c, lines, ok) ==
  LET o == outs[c]
      saved == IF Truncates(o, lines) THEN Creates(o, Kept(o), ok, cmds[c].aborted) ELSE o
  IN /\ At(c, "running") /\ cmds[c].by = env /\ Closed(c)
     /\ procs[c].pipes = [out |-> 0, err |-> 0] /\ o.tasks = <<>>
     /\ (lines => o.kept > 0) /\ (~ok => fails < MaxFails /\ saved # o)
     /\ outs' = [outs EXCEPT ![c] = saved] /\ fails' = IF ok THEN fails ELSE fails + 1
     /\ cmds' = Ends(c, IF saved.failed THEN "error"
                        ELSE IF cmds[c].late /\ ~cmds[c].aborted THEN "timeout"
                        ELSE IF cmds[c].aborted THEN "aborted" ELSE "done")
     /\ UNCHANGED <<procs, controller>>

-----------------------------------------------------------------------------
(* The operations: one reader, which looks at the signal between two reads.  *)
(* At its end the log may still have to be made, and it is closed: if either *)
(* fails (ok is FALSE), the command ends with that error.                    *)
WithLog(c, o, lines) ==
  IF cmds[c].by = "session" /\ Truncates(o, lines) /\ ~o.named
  THEN [o EXCEPT !.named = TRUE, !.logged = Kept(o)] ELSE o
Finishes(c, o, result, ok) ==
  /\ ok \/ (o.named /\ fails < MaxFails)
  /\ cmds' = Ends(c, IF ok THEN result ELSE "error") /\ controller' = Frees(c)
  /\ outs' = [outs EXCEPT ![c] = IF ok THEN o ELSE [o EXCEPT !.failed = TRUE]]
  /\ fails' = IF ok THEN fails ELSE fails + 1

OpsReads(c, lines, ok) ==
  LET p == procs[c] n == p.pipes.out o == outs[c]
      read == IF cmds[c].by = "session" THEN LoggedAll(o, n) ELSE [o EXCEPT !.read = @ + n]
      first == IF cmds[c].by = "session" THEN Logged(o) ELSE [o EXCEPT !.read = @ + 1]
  IN /\ At(c, "running") /\ cmds[c].by # env /\ n > 0
     /\ IF cmds[c].aborted
        THEN /\ procs' = [procs EXCEPT ![c].pipes.out = @ - 1, ![c].shell = "dead"]
             /\ Finishes(c, WithLog(c, first, lines), "aborted", ok)
        ELSE /\ outs' = [outs EXCEPT ![c] = read] /\ ~lines /\ ok
             /\ procs' = [procs EXCEPT ![c].pipes.out = 0]
             /\ UNCHANGED <<cmds, controller, fails>>

(* on_data raises at the k-th chunk, for the log cannot be opened, by then it*)
(* has its path, or cannot be written. The shell is left alone. A command    *)
(* that was aborted still has its result, unless closing the log raises too. *)
LogFails(c, k) ==
  LET before == LoggedAll(outs[c], k - 1)
  IN /\ At(c, "running") /\ cmds[c].by = "session" /\ k \in 1..procs[c].pipes.out
     /\ (cmds[c].aborted => k = 1) /\ (MustCreate(before) \/ before.named)
     /\ fails < MaxFails /\ fails' = fails + 1
     /\ \E result \in {"aborted", "error"} :
          /\ result = "aborted" => cmds[c].aborted
          /\ cmds' = Ends(c, result)
     /\ outs' = [outs EXCEPT ![c] = [before EXCEPT !.named = TRUE, !.failed = TRUE]]
     /\ procs' = [procs EXCEPT ![c].pipes.out = @ - k] /\ controller' = Frees(c)
OpsEnd(c, lines, ok) ==  \* the end of the output, then of the shell
  /\ At(c, "running") /\ cmds[c].by # env /\ Closed(c) /\ procs[c].pipes.out = 0
  /\ (lines => outs[c].kept > 0)
  /\ Finishes(c, WithLog(c, outs[c], lines), IF cmds[c].aborted THEN "aborted" ELSE "done", ok)
  /\ UNCHANGED procs

Step(c) ==
  \/ Spawned(c) \/ SpawnFails(c) \/ RunsTask(c, TRUE)
  \/ \E s \in {"out", "err"}, n \in 1..MaxChunks : Reads(c, s, n)
  \/ \E lines \in BOOLEAN :
       EnvEnds(c, lines, TRUE) \/ OpsReads(c, lines, TRUE) \/ OpsEnd(c, lines, TRUE)
Next ==
  \/ \E c \in Commands :
       \/ \E by \in Callers, limited, aborted \in BOOLEAN : Start(c, by, limited, aborted)
       \/ Abort(c) \/ TimesOut(c) \/ Step(c)
       \/ \E s \in {"out", "err"} : Writes(c, s)
       \/ Forks(c) \/ ShellExits(c) \/ ChildExits(c) \/ RunsTask(c, FALSE)
       \/ \E k \in 1..MaxChunks : LogFails(c, k)
       \/ \E lines \in BOOLEAN :
            EnvEnds(c, lines, FALSE) \/ OpsReads(c, lines, FALSE) \/ OpsEnd(c, lines, FALSE)
  \/ AbortBash
Fairness == \A c \in Commands : WF_vars(Step(c))
Spec == Init /\ [][Next]_vars /\ Fairness

-----------------------------------------------------------------------------
(* Where a result says "Full output: ..." (core/messages.py), the file has   *)
(* every chunk that was read, in order; under exec, all but those that were  *)
(* read while it was being made (onChunk); under the session, unless it could*)
(* not be made or written before an aborted command ended, whose result names*)
(* it all the same (execute_bash_with_operations).                           *)
LogIsWhole ==
  \A c \in Commands : cmds[c].result \in {"done", "aborted"} /\ outs[c].named =>
    \/ outs[c].logged = SelectSeq(Chunks(1, outs[c].read), LAMBDA k : k \notin outs[c].missed)
    \/ cmds[c].by = "session" /\ cmds[c].result = "aborted" /\ outs[c].failed

(* A command that is aborted or runs out of time while its shell runs does   *)
(* end, under exec, even if the shell has background processes that hold the *)
(* pipes; under the operations, if it prints anything more.                  *)
Stopped(c) ==
  \/ cmds[c].killed
  \/ cmds[c].aborted /\ cmds[c].by # env /\ procs[c].pipes.out > 0
StoppedCommandsEnd == \A c \in Commands : Stopped(c) ~> At(c, "ended")
=============================================================================
