------------------------------ MODULE MCStorage ------------------------------
(* What is kept of sessions, and what is sent of one: a behaviour is one of  *)
(* the component that which names, and the others stand still. HarnessStorage*)
(* is extended, the others are instances.                                    *)
EXTENDS HarnessStorage, Integers, TLC

CONSTANTS Procs, Paths, Kinds, MaxLog, MaxSessions, MaxTorn,
          TreeProcs, TreePaths, TreeKinds, MaxTree,
          Apis, KeepRecent, MaxBranch, MaxCalls, MaxCompactions, MaxMoves

VARIABLES
  which,
  logs, mgr, entryCount, sessionCount, acked, tornAppends, tornFiles,
  branch, model, phase, moves

(* No file, one that is no session, and a session of version 1, whose        *)
(* entries have no ids.                                                      *)
OldLine(kind) == [id |-> 0, parent |-> 0, kind |-> kind, ref |-> 0]
OldLogs ==
  {[exists |-> FALSE, open |-> FALSE, lines |-> <<>>],
   [exists |-> TRUE, open |-> FALSE, lines |-> <<[kind |-> "junk"]>>],
   [exists |-> TRUE, open |-> FALSE,
    lines |-> <<[kind |-> "session", id |-> 0, version |-> 1],
                OldLine("user"), OldLine("assistant")>>]}

\* ... or with a compaction, which refers to the entry by its index.
TreeFiles ==
  {[exists |-> FALSE, open |-> FALSE, lines |-> <<>>],
   [exists |-> TRUE, open |-> FALSE,
    lines |-> <<[kind |-> "session", id |-> 0, version |-> 1],
                OldLine("user"), [OldLine("compaction") EXCEPT !.ref = 1]>>]}

Logging == INSTANCE SessionManager
             WITH files <- logs, MaxEntries <- MaxLog, InitialFiles <- OldLogs
Branching == INSTANCE SessionManager
               WITH files <- logs, Procs <- TreeProcs, Paths <- TreePaths, Kinds <- TreeKinds,
                    MaxEntries <- MaxTree, MaxSessions <- 1, MaxTorn <- 0, InitialFiles <- TreeFiles
Asking == INSTANCE Requests WITH MaxEntries <- MaxBranch

logVars == <<logs, mgr, entryCount, sessionCount, acked, tornAppends, tornFiles>>
requestVars == <<branch, model, phase, moves>>
allVars == <<which, logVars, vars, requestVars>>

NoLogs ==
  /\ logs = 0 /\ mgr = 0 /\ entryCount = 0 /\ sessionCount = 0 /\ acked = 0
  /\ tornAppends = 0 /\ tornFiles = 0
NoRequests == branch = 0 /\ model = 0 /\ phase = 0 /\ moves = 0

AllInit ==
  /\ Init
  /\ \/ which = "log" /\ Logging!Init /\ NoRequests
     \/ which = "tree" /\ Branching!Init /\ NoRequests
     \/ which = "storage" /\ NoLogs /\ NoRequests
     \/ which = "requests" /\ NoLogs /\ Asking!Init

LogStep == which = "log" /\ Logging!Next /\ UNCHANGED <<which, vars, requestVars>>
TreeStep == which = "tree" /\ Branching!Next /\ UNCHANGED <<which, vars, requestVars>>
StorageStep == which = "storage" /\ Next /\ UNCHANGED <<which, logVars, requestVars>>
RequestStep == which = "requests" /\ Asking!Next /\ UNCHANGED <<which, logVars, vars>>

AllNext == LogStep \/ TreeStep \/ StorageStep \/ RequestStep

AllSpec == AllInit /\ [][AllNext]_allVars

Symmetry == Permutations(Procs) \cup Permutations(TreePaths)

(* A file holds the conversation that the process that writes it remembers,  *)
(* and an append that stops half-way takes at most one other entry with it.  *)
(* (SessionManager._persist, load_entries_from_file)                         *)
LogIsKept == which = "log" => Logging!DiskMatchesMemory /\ Logging!LossIsBounded

(* No process takes a written line out of a file, and a fork shows the       *)
(* conversation of its source up to where it was forked.                     *)
(* (SessionManager._rewrite_file, JsonlSessionRepo.fork)                     *)
HistoryKept ==
  /\ [][which = "log" => Logging!KeepsLines]_allVars
  /\ [][which = "storage" => Forks]_allVars

(* The label index of a session with branches is what replaying its entries  *)
(* gives, and a fork of it keeps the conversation it was forked at.          *)
(* (SessionManager._build_index, create_branched_session)                    *)
TreeIsKept == which = "tree" => Branching!LabelIndexIsReplay /\ Branching!ForkKeepsConversation

(* Every text of a session's branch is in the request or in a summary, and   *)
(* never in both; and a request answers every tool call right after it, and  *)
(* once. (compact, build_session_context, transform_messages,                *)
(* convert_messages)                                                         *)
RequestIsWhole == which = "requests" => Asking!NothingForgotten /\ Asking!CallsAnswered
=============================================================================
