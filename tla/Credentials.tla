---------------------------- MODULE Credentials ----------------------------
(* core/auth_storage.py: the credentials of every provider in one JSON file *)
(* that several processes share under a lock file.                          *)
(*                                                                          *)
(* A process is one thread, its event loop. The lock is taken by sleeping    *)
(* in it, so whatever waits for the lock blocks everything else of that      *)
(* process; only the token refresh is awaited, with the lock held and the    *)
(* thread free. A credential is a version, 0 is none.                        *)
EXTENDS Naturals, FiniteSets

CONSTANTS Procs, Providers, NoProc, NoProvider,
          MaxVersion,   \* bound on the credentials ever made
          MaxJobs,      \* bound on the operations ever begun
          MaxFaults     \* bound on the processes killed, the writes that fail
                        \* and the refreshes that fail with the token traded

ASSUME CredentialsAssumption ==
  /\ NoProc \notin Procs /\ NoProvider \notin Providers
  /\ IsFiniteSet(Providers) /\ Cardinality(Providers) <= MaxVersion
  /\ MaxVersion \in Nat /\ MaxJobs \in Nat /\ MaxFaults \in Nat

VARIABLES exists,      \* the file is there
          file,        \* what it holds
          lock,        \* the process whose lock file is there
          alive,
          thread,      \* where the event loop of a process is in with_lock
          job,         \* the operation it is in
          refreshing,  \* the provider whose new token is awaited, with the lock
          merged,      \* what update_fn or lock_fn is going to write
          data,        \* AuthStorage.data
          loadError,
          expired,     \* the versions whose time has passed
          spent,       \* the versions traded for a new one by the provider
          fresh,       \* versions handed out
          jobs,        \* operations begun
          faults,      \* what went wrong of it
          committed,   \* history: the last completed update of every provider
          erased,      \* history: _ensure_file_exists emptied a file in use, or a
                       \* write that failed
          wasted       \* history: the versions whose trade failed

vars == <<exists, file, lock, alive, thread, job, refreshing, merged, data,
          loadError, expired, spent, fresh, jobs, faults, committed, erased, wasted>>

Versions == 0..MaxVersion
Contents == [Providers -> Versions]
Empty == [r \in Providers |-> 0]
Kinds == {"set", "reload", "refresh"}
Jobs == [kind : Kinds, provider : Providers \cup {NoProvider}, version : Versions]
Loading == [kind |-> "reload", provider |-> NoProvider, version |-> 0]
Steps == {"idle", "create", "acquire", "read", "write", "close"}

TypeOK ==
  /\ exists \in BOOLEAN
  /\ file \in Contents /\ committed \in Contents
  /\ lock \in Procs \cup {NoProc}
  /\ alive \subseteq Procs
  /\ thread \in [Procs -> Steps]
  /\ job \in [Procs -> Jobs]
  /\ refreshing \in [Procs -> Providers \cup {NoProvider}]
  /\ merged \in [Procs -> Contents]
  /\ data \in [Procs -> Contents]
  /\ loadError \in [Procs -> BOOLEAN]
  /\ expired \subseteq Versions /\ spent \subseteq Versions /\ wasted \subseteq Versions
  /\ fresh \in Versions
  /\ jobs \in 0..MaxJobs /\ faults \in 0..MaxFaults
  /\ erased \in BOOLEAN

(* Every process has loaded the same file, or found none.                   *)
Init ==
  /\ exists \in BOOLEAN
  /\ \E c \in Contents :
       /\ \A r, s \in Providers : c[r] = c[s] /\ c[r] # 0 => r = s
       /\ \A r \in Providers : c[r] <= Cardinality(Providers)
       /\ exists \/ c = Empty
       /\ file = c /\ committed = c
       /\ data = [p \in Procs |-> c] /\ merged = [p \in Procs |-> c]
  /\ lock = NoProc
  /\ alive = Procs
  /\ thread = [p \in Procs |-> "idle"]
  /\ job = [p \in Procs |-> Loading]
  /\ refreshing = [p \in Procs |-> NoProvider]
  /\ loadError = [p \in Procs |-> FALSE]
  /\ expired = {} /\ spent = {} /\ wasted = {}
  /\ fresh = Cardinality(Providers)
  /\ jobs = 0 /\ faults = 0
  /\ erased = FALSE

-----------------------------------------------------------------------------
(* with_lock up to the lock: a missing file is found before it is taken.     *)
WithLock(p, j) ==
  /\ job' = [job EXCEPT ![p] = j]
  /\ thread' = [thread EXCEPT ![p] = IF exists THEN "acquire" ELSE "create"]

Calls(p) == p \in alive /\ thread[p] = "idle" /\ jobs < MaxJobs /\ jobs' = jobs + 1

Release == lock' = NoProc
Fault == faults < MaxFaults /\ faults' = faults + 1
Return(p) == thread' = [thread EXCEPT ![p] = "idle"]

(* set(), the end of login(), and with no credential remove() and logout():  *)
(* the memory first, then the file unless it could not be loaded.            *)
Set(p, r, v) ==
  /\ Calls(p)
  /\ v \in {0, fresh + 1} /\ v <= MaxVersion
  /\ fresh' = IF v = 0 THEN fresh ELSE v
  /\ data' = [data EXCEPT ![p][r] = v]
  /\ IF loadError[p]
       THEN UNCHANGED <<job, thread>>
       ELSE WithLock(p, [kind |-> "set", provider |-> r, version |-> v])
  /\ UNCHANGED <<exists, file, lock, alive, refreshing, merged, loadError,
                 expired, spent, committed, erased, wasted, faults>>

(* reload() *)
Reload(p) ==
  /\ Calls(p)
  /\ WithLock(p, Loading)
  /\ UNCHANGED <<exists, file, lock, alive, refreshing, merged, data,
                 loadError, expired, spent, fresh, faults, committed, erased,
                 wasted>>

(* get_api_key() of a provider whose token, as far as memory knows, expired. *)
GetExpiredKey(p, r) ==
  /\ Calls(p)
  /\ data[p][r] \in expired
  /\ WithLock(p, [kind |-> "refresh", provider |-> r, version |-> 0])
  /\ UNCHANGED <<exists, file, lock, alive, refreshing, merged, data,
                 loadError, expired, spent, fresh, faults, committed, erased,
                 wasted>>

(* _ensure_file_exists: opened for writing, outside the lock, on the         *)
(* strength of a check that may be old.                                      *)
CreateFile(p) ==
  /\ p \in alive /\ thread[p] = "create"
  /\ exists' = TRUE /\ file' = Empty
  /\ erased' = (erased \/ file # Empty)
  /\ thread' = [thread EXCEPT ![p] = "acquire"]
  /\ UNCHANGED <<lock, alive, job, refreshing, merged, data, loadError,
                 expired, spent, fresh, jobs, faults, committed, wasted>>

(* FileLock.acquire: the lock file is created exclusively.                   *)
Acquire(p) ==
  /\ p \in alive /\ thread[p] = "acquire"
  /\ lock = NoProc
  /\ lock' = p
  /\ thread' = [thread EXCEPT ![p] = "read"]
  /\ UNCHANGED <<exists, file, alive, job, refreshing, merged, data,
                 loadError, expired, spent, fresh, jobs, faults, committed,
                 erased, wasted>>

(* It gives up after its timeout, whoever holds the lock. A set is recorded  *)
(* as an error, a reload leaves load_error, and a refresh reloads.           *)
Mut_Timeout(p) ==
  /\ p \in alive /\ thread[p] = "acquire"
  /\ lock \in alive \ {p}
  /\ IF job[p].kind = "refresh"
       THEN WithLock(p, Loading)
       ELSE Return(p) /\ UNCHANGED job
  /\ loadError' = [loadError EXCEPT ![p] = @ \/ job[p].kind = "reload"]
  /\ UNCHANGED <<exists, file, lock, alive, refreshing, merged, data, expired,
                 spent, fresh, jobs, faults, committed, erased, wasted>>

Timeout(p) ==
  /\ p \in alive /\ thread[p] = "acquire"
  /\ lock # NoProc
  /\ IF job[p].kind = "refresh"
       THEN WithLock(p, Loading)
       ELSE Return(p) /\ UNCHANGED job
  /\ loadError' = [loadError EXCEPT ![p] = @ \/ job[p].kind = "reload"]
  /\ UNCHANGED <<exists, file, lock, alive, refreshing, merged, data, expired,
                 spent, fresh, jobs, faults, committed, erased, wasted>>

-----------------------------------------------------------------------------
(* With the lock: the file is read and fn called.                            *)
Reading(p, kind) ==
  p \in alive /\ thread[p] = "read" /\ job[p].kind = kind

Loaded(p) ==
  /\ data' = [data EXCEPT ![p] = file]
  /\ loadError' = [loadError EXCEPT ![p] = FALSE]

ReadForReload(p) ==
  /\ Reading(p, "reload")
  /\ Loaded(p) /\ Release /\ Return(p)
  /\ UNCHANGED <<exists, file, alive, job, refreshing, merged, expired, spent,
                 fresh, jobs, faults, committed, erased, wasted>>

(* update_fn: only the provider concerned changes.                           *)
Mut_ReadForSet(p) ==
  /\ Reading(p, "set")
  /\ merged' = [merged EXCEPT ![p] = data[p]]
  /\ thread' = [thread EXCEPT ![p] = "write"]
  /\ UNCHANGED <<exists, file, lock, alive, job, refreshing, data, loadError,
                 expired, spent, fresh, jobs, faults, committed, erased,
                 wasted>>

ReadForSet(p) ==
  /\ Reading(p, "set")
  /\ merged' = [merged EXCEPT ![p] = [file EXCEPT ![job[p].provider] = job[p].version]]
  /\ thread' = [thread EXCEPT ![p] = "write"]
  /\ UNCHANGED <<exists, file, lock, alive, job, refreshing, data, loadError,
                 expired, spent, fresh, jobs, faults, committed, erased,
                 wasted>>

(* lock_fn: somebody else may have logged out or refreshed the token.        *)
ReadCurrentToken(p) ==
  /\ Reading(p, "refresh")
  /\ file[job[p].provider] \notin expired
  /\ Loaded(p) /\ Release /\ Return(p)
  /\ UNCHANGED <<exists, file, alive, job, refreshing, merged, expired, spent,
                 fresh, jobs, faults, committed, erased, wasted>>

Mut_ReadExpiredToken(p) ==
  /\ Reading(p, "refresh")
  /\ data[p][job[p].provider] \in expired
  /\ Loaded(p) /\ Return(p)
  /\ merged' = [merged EXCEPT ![p] = data[p]]
  /\ refreshing' = [refreshing EXCEPT ![p] = job[p].provider]
  /\ UNCHANGED <<exists, file, lock, alive, job, expired, spent, fresh, jobs,
                 faults, committed, erased, wasted>>

ReadExpiredToken(p) ==
  /\ Reading(p, "refresh")
  /\ file[job[p].provider] \in expired
  /\ Loaded(p) /\ Return(p)
  /\ merged' = [merged EXCEPT ![p] = file]
  /\ refreshing' = [refreshing EXCEPT ![p] = job[p].provider]
  /\ UNCHANGED <<exists, file, lock, alive, job, expired, spent, fresh, jobs,
                 faults, committed, erased, wasted>>

(* get_oauth_api_key answers when the event loop is free: the provider has   *)
(* replaced the token, and the memory is set to what will be written, over   *)
(* what set() put there meanwhile.                                           *)
TokenRefreshed(p) ==
  /\ p \in alive /\ thread[p] = "idle" /\ refreshing[p] # NoProvider
  /\ fresh < MaxVersion
  /\ fresh' = fresh + 1
  /\ spent' = spent \cup {merged[p][refreshing[p]]}
  /\ merged' = [merged EXCEPT ![p][refreshing[p]] = fresh + 1]
  /\ data' = [data EXCEPT ![p] = [merged[p] EXCEPT ![refreshing[p]] = fresh + 1]]
  /\ loadError' = [loadError EXCEPT ![p] = FALSE]
  /\ refreshing' = [refreshing EXCEPT ![p] = NoProvider]
  /\ job' = [job EXCEPT ![p] = [kind |-> "refresh", provider |-> refreshing[p],
                                version |-> fresh + 1]]
  /\ thread' = [thread EXCEPT ![p] = "write"]
  /\ UNCHANGED <<exists, file, lock, alive, expired, jobs, faults, committed,
                 erased, wasted>>

(* It answers with nothing, or raises: then the file is loaded again. The    *)
(* provider may have traded the token by then, the answer being lost or not  *)
(* what it should be: the file keeps the old one.                            *)
RefreshFails(p) ==
  /\ p \in alive /\ thread[p] = "idle" /\ refreshing[p] # NoProvider
  /\ refreshing' = [refreshing EXCEPT ![p] = NoProvider]
  /\ Release
  /\ \/ UNCHANGED <<spent, wasted, faults>>
     \/ /\ Fault
        /\ spent' = spent \cup {merged[p][refreshing[p]]}
        /\ wasted' = wasted \cup {merged[p][refreshing[p]]}
  /\ \/ UNCHANGED <<job, thread>>
     \/ WithLock(p, Loading)
  /\ UNCHANGED <<exists, file, alive, merged, data, loadError, expired, fresh,
                 jobs, committed, erased>>

(* open(path, "w") empties the file ...                                      *)
Truncate(p) ==
  /\ p \in alive /\ thread[p] = "write"
  /\ exists' = TRUE /\ file' = Empty
  /\ thread' = [thread EXCEPT ![p] = "close"]
  /\ UNCHANGED <<lock, alive, job, refreshing, merged, data, loadError,
                 expired, spent, fresh, jobs, faults, committed, erased,
                 wasted>>

(* ... and closing it writes what was buffered; the lock file is removed.    *)
Close(p) ==
  /\ p \in alive /\ thread[p] = "close"
  /\ file' = merged[p]
  /\ committed' = [committed EXCEPT ![job[p].provider] = job[p].version]
  /\ Release /\ Return(p)
  /\ UNCHANGED <<exists, alive, job, refreshing, merged, data, loadError,
                 expired, spent, fresh, jobs, faults, erased, wasted>>

(* Either fails: the lock is released, over the file as it was or over what   *)
(* nobody can parse. A set is recorded as an error and a refresh loads the    *)
(* file again, which still has the token that was traded.                     *)
WriteFails(p) ==
  /\ p \in alive /\ thread[p] \in {"write", "close"} /\ Fault
  /\ IF thread[p] = "write" THEN UNCHANGED <<file, erased>>
     ELSE file' = Empty /\ erased' = (erased \/ committed # Empty)
  /\ Release
  /\ IF job[p].kind = "refresh"
       THEN /\ WithLock(p, Loading)
            /\ wasted' = wasted \cup {file[job[p].provider]}
       ELSE Return(p) /\ UNCHANGED <<job, wasted>>
  /\ UNCHANGED <<exists, alive, refreshing, merged, data, loadError, expired,
                 spent, fresh, jobs, committed>>

-----------------------------------------------------------------------------
(* A token's time passes.                                                    *)
Expire(v) ==
  /\ v \in 1..fresh /\ v \notin expired
  /\ expired' = expired \cup {v}
  /\ UNCHANGED <<exists, file, lock, alive, thread, job, refreshing, merged,
                 data, loadError, spent, fresh, jobs, faults, committed,
                 erased, wasted>>

(* A process is killed; its lock file stays. A request on its way may still  *)
(* reach the provider.                                                       *)
Crash(p) ==
  /\ p \in alive /\ Fault
  /\ alive' = alive \ {p}
  /\ \/ UNCHANGED spent
     \/ /\ refreshing[p] # NoProvider
        /\ spent' = spent \cup {merged[p][refreshing[p]]}
  /\ UNCHANGED <<exists, file, lock, thread, job, refreshing, merged, data,
                 loadError, expired, fresh, jobs, committed, erased,
                 wasted>>

Client(p) ==
  \/ \E r \in Providers, v \in Versions : Set(p, r, v)
  \/ Reload(p)
  \/ \E r \in Providers : GetExpiredKey(p, r)

(* What a process does without being called: its blocking code.              *)
Runs(p) ==
  \/ CreateFile(p) \/ Acquire(p) \/ Timeout(p)
  \/ ReadForReload(p) \/ ReadForSet(p) \/ ReadCurrentToken(p) \/ ReadExpiredToken(p)
  \/ Truncate(p) \/ Close(p)

Next ==
  \/ \E p \in Procs : Client(p) \/ Runs(p) \/ TokenRefreshed(p) \/ RefreshFails(p)
                    \/ WriteFails(p) \/ Crash(p)
  \/ \E v \in Versions : Expire(v)

Spec == Init /\ [][Next]_vars
FairSpec == Spec /\ \A p \in Procs : WF_vars(Runs(p))

-----------------------------------------------------------------------------
(* No update is lost to another process: whenever no lock file is there, the *)
(* file holds every provider's last completed update, though each of them    *)
(* read, changed and rewrote all of it, and some failed to open it. The      *)
(* exceptions lose everyone's: _ensure_file_exists, which empties a file     *)
(* that appeared after its check, and a write that fails. (with_lock)        *)
CommittedKept == lock = NoProc /\ ~erased => file = committed

(* A refresh token, which a provider accepts once, is never sent again after *)
(* it was traded, nor by two processes at a time, crashes included: the      *)
(* expiry is read again with the lock and the lock is held over the await    *)
(* and the write. Only a token whose trade came to nothing here, because the *)
(* refresh or the write after it failed, is still in the file and sent       *)
(* again. (_refresh_oauth_token_with_lock)                                   *)
TokenSpentOnce ==
  \A p \in alive : refreshing[p] # NoProvider =>
    /\ merged[p][refreshing[p]] \notin spent \ wasted
    /\ \A q \in alive \ {p} : refreshing[q] # refreshing[p]

(* Every operation returns unless its process is killed: not even a lock     *)
(* left by the dead, or held by the caller's own refresh, blocks the event   *)
(* loop for ever. (FileLock.acquire, get_api_key)                            *)
OperationsEnd ==
  \A p \in Procs : thread[p] # "idle" ~> (thread[p] = "idle" \/ p \notin alive)
=============================================================================
