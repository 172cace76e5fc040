-------------------------- MODULE CredentialsProofs --------------------------
(* That the lock of Credentials keeps processes apart and no update is lost, *)
(* for any number of processes, providers, operations and crashes.           *)
EXTENDS Credentials, FiniteSetTheorems, TLAPS

(* The code between reading the file and removing the lock file, the await  *)
(* of a new token included.                                                  *)
Inside(p) == thread[p] \in {"read", "write", "close"} \/ refreshing[p] # NoProvider

(* Whoever is inside has the lock, and a refresh waits with a free thread    *)
(* or one that waits for that lock.                                          *)
Exclusive ==
  \A p \in Procs :
    /\ Inside(p) => lock = p
    /\ thread[p] \in {"read", "write", "close"} => refreshing[p] = NoProvider

(* What p is going to write is the last update of every provider, with its   *)
(* own.                                                                      *)
Prepared(p) ==
  merged[p] = [committed EXCEPT ![job[p].provider] = job[p].version]

(* CommittedKept and what it takes inside the lock.                          *)
Kept ==
  ~erased =>
    /\ lock = NoProc => file = committed
    /\ \A p \in Procs :
         /\ thread[p] = "read" => file = committed
         /\ refreshing[p] # NoProvider => merged[p] = committed /\ file = committed
         /\ thread[p] = "write" => Prepared(p) /\ file = committed
         /\ thread[p] = "close" => Prepared(p)

(* Only reloads have no provider.                                            *)
JobsNamed ==
  \A p \in Procs : job[p].kind # "reload" => job[p].provider \in Providers

IInv == TypeOK /\ Exclusive /\ Kept /\ JobsNamed

(* Versions are handed out once: nothing is above the last one, and a token  *)
(* that is refreshed is one of them.                                         *)
Made ==
  /\ expired \subseteq 1..fresh /\ spent \subseteq 1..fresh
  /\ \A r \in Providers : file[r] <= fresh
  /\ \A p \in Procs : job[p].version <= fresh /\ \A r \in Providers : merged[p][r] <= fresh
  /\ \A p \in Procs : refreshing[p] # NoProvider => merged[p][refreshing[p]] # 0

(* Over the await of a new token the file is what was read, or was emptied.  *)
ReadStands == \A p \in Procs : refreshing[p] # NoProvider => file \in {merged[p], Empty}

(* p is going to write what it merged; a set of p waits for the lock with a  *)
(* credential that only it has.                                              *)
Holds(p) == thread[p] \in {"write", "close"} \/ refreshing[p] # NoProvider
Waiting(p) ==
  /\ thread[p] \in {"create", "acquire", "read"}
  /\ job[p].kind = "set" /\ job[p].version # 0

(* No credential belongs to two providers, to the file and to a set that     *)
(* waits, or to two of those.                                                *)
Distinct(c) == \A r, s \in Providers : c[r] = c[s] /\ c[r] # 0 => r = s
Apart ==
  /\ Distinct(file)
  /\ \A p \in Procs : Holds(p) => Distinct(merged[p])
  /\ \A q \in Procs : Waiting(q) =>
       /\ \A r \in Providers : file[r] # job[q].version
       /\ \A p \in Procs : Holds(p) => \A r \in Providers : merged[p][r] # job[q].version
       /\ \A p \in Procs \ {q} : Waiting(p) => job[p].version # job[q].version

(* The token in the file may be spent, and its trade not have failed, while  *)
(* the new one is not written yet, or when the process died that asked for   *)
(* it, and at no other time; what is going to be written is not.             *)
Gone == spent \ wasted
Traded(p) == thread[p] \in {"write", "close"} \/ (refreshing[p] # NoProvider /\ p \notin alive)
Unspent ==
  /\ (\A p \in Procs : ~Traded(p)) => \A r \in Providers : file[r] \notin Gone
  /\ \A p \in Procs :
       thread[p] \in {"write", "close"} \/ (refreshing[p] # NoProvider /\ p \in alive)
         => \A r \in Providers : merged[p][r] \notin Gone
  /\ \A p \in Procs : thread[p] = "write" =>
       \A r \in Providers : file[r] \in Gone => job[p].kind = "refresh" /\ r = job[p].provider
  /\ \A p \in Procs : Waiting(p) => job[p].version \notin spent

SInv == IInv /\ Made /\ ReadStands /\ Apart /\ Unspent

(* A job is a record of its fields.                                          *)
LEMMA JobFields ==
  ASSUME NEW k \in Kinds, NEW r \in Providers \cup {NoProvider}, NEW v \in Versions
  PROVE  /\ [kind |-> k, provider |-> r, version |-> v] \in Jobs
         /\ Loading \in Jobs
BY CredentialsAssumption DEF Jobs, Loading, Kinds, Versions

(* The state variables have their types initially.                           *)
LEMMA InitTypeOK == Init => TypeOK
<1> SUFFICES ASSUME Init PROVE TypeOK
  OBVIOUS
<1>1. Cardinality(Providers) \in Versions
  BY CredentialsAssumption, FS_CardinalityType DEF Versions
<1>2. job \in [Procs -> Jobs]
  BY CredentialsAssumption DEF Init, Jobs, Loading, Kinds, Versions
<1>3. PICK c \in Contents : /\ file = c /\ committed = c
                            /\ data = [p \in Procs |-> c] /\ merged = [p \in Procs |-> c]
  BY DEF Init
<1>4. fresh \in Versions /\ jobs \in 0..MaxJobs /\ faults \in 0..MaxFaults
  BY <1>1, CredentialsAssumption DEF Init
<1> QED
  BY <1>2, <1>3, <1>4 DEF Init, TypeOK, Steps

LEMMA InitIInv == Init => IInv
<1> SUFFICES ASSUME Init PROVE IInv
  OBVIOUS
<1>1. TypeOK
  BY InitTypeOK
<1>2. Exclusive
  BY DEF Init, Exclusive, Inside
<1>3. Kept
  BY DEF Init, Kept
<1>4. JobsNamed
  BY DEF Init, JobsNamed, Loading
<1> QED
  BY <1>1, <1>2, <1>3, <1>4 DEF IInv

LEMMA Faults == ASSUME faults \in 0..MaxFaults, Fault PROVE faults' \in 0..MaxFaults
BY CredentialsAssumption DEF Fault

-----------------------------------------------------------------------------
(* Every step keeps the types.                                               *)
LEMMA NextTypeOK == TypeOK /\ JobsNamed /\ [Next]_vars => TypeOK'
<1> SUFFICES ASSUME TypeOK, JobsNamed, [Next]_vars PROVE TypeOK'
  OBVIOUS
<1> USE CredentialsAssumption DEF TypeOK, Contents, Versions, Steps, Empty, WithLock,
        Release, Return, Loaded, Reading
<1>1. ASSUME NEW p \in Procs, NEW r \in Providers, NEW v \in Versions, Set(p, r, v)
      PROVE  TypeOK'
  <2>1. [kind |-> "set", provider |-> r, version |-> v] \in Jobs
    BY JobFields DEF Kinds
  <2>2. fresh' \in Versions /\ jobs' \in 0..MaxJobs /\ data' \in [Procs -> Contents]
    BY <1>1 DEF Set, Calls
  <2>3. job' \in [Procs -> Jobs] /\ thread' \in [Procs -> Steps]
    BY ZenonT(40), <1>1, <2>1 DEF Set, Calls
  <2> QED
    BY <1>1, <2>2, <2>3 DEF Set
<1>2. ASSUME NEW p \in Procs, Reload(p) PROVE TypeOK'
  <2>1. Loading \in Jobs
    BY DEF Jobs, Loading, Kinds
  <2> QED
    BY <1>2, <2>1 DEF Reload, Calls
<1>3. ASSUME NEW p \in Procs, NEW r \in Providers, GetExpiredKey(p, r) PROVE TypeOK'
  <2>1. [kind |-> "refresh", provider |-> r, version |-> 0] \in Jobs
    BY JobFields DEF Kinds
  <2> QED
    BY <1>3, <2>1 DEF GetExpiredKey, Calls
<1>4. ASSUME NEW p \in Procs, CreateFile(p) PROVE TypeOK'
  BY <1>4 DEF CreateFile
<1>5. ASSUME NEW p \in Procs, Acquire(p) PROVE TypeOK'
  BY <1>5 DEF Acquire
<1>6. ASSUME NEW p \in Procs, Timeout(p) PROVE TypeOK'
  <2>1. Loading \in Jobs
    BY DEF Jobs, Loading, Kinds
  <2> QED
    BY ZenonT(40), <1>6, <2>1 DEF Timeout
<1>7. ASSUME NEW p \in Procs, ReadForReload(p) PROVE TypeOK'
  BY <1>7 DEF ReadForReload
<1>8. ASSUME NEW p \in Procs, ReadForSet(p) PROVE TypeOK'
  <2>1. job[p].version \in Versions
    BY DEF Jobs
  <2>2. merged' \in [Procs -> Contents]
    BY <1>8, <2>1 DEF ReadForSet
  <2> QED
    BY <1>8, <2>2 DEF ReadForSet
<1>9. ASSUME NEW p \in Procs, ReadCurrentToken(p) PROVE TypeOK'
  BY <1>9 DEF ReadCurrentToken
<1>10. ASSUME NEW p \in Procs, ReadExpiredToken(p) PROVE TypeOK'
  <2>1. job[p].provider \in Providers
    BY <1>10 DEF ReadExpiredToken, JobsNamed
  <2> QED
    BY <1>10, <2>1 DEF ReadExpiredToken
<1>11. ASSUME NEW p \in Procs, TokenRefreshed(p) PROVE TypeOK'
  <2>1. refreshing[p] \in Providers /\ fresh + 1 \in Versions
    BY <1>11 DEF TokenRefreshed
  <2>2. [kind |-> "refresh", provider |-> refreshing[p], version |-> fresh + 1] \in Jobs
    BY <2>1, JobFields DEF Kinds
  <2>3. merged' \in [Procs -> Contents] /\ data' \in [Procs -> Contents]
    BY <1>11, <2>1 DEF TokenRefreshed
  <2>4. merged[p][refreshing[p]] \in Versions
    BY <2>1
  <2>7. spent' \subseteq Versions
    BY <1>11, <2>4 DEF TokenRefreshed
  <2>5. job' \in [Procs -> Jobs] /\ thread' \in [Procs -> Steps]
    BY <1>11, <2>2 DEF TokenRefreshed
  <2>6. refreshing' \in [Procs -> Providers \cup {NoProvider}] /\ fresh' \in Versions
    BY <1>11, <2>1 DEF TokenRefreshed
  <2> QED
    BY <1>11, <2>3, <2>5, <2>6, <2>7 DEF TokenRefreshed
<1>12. ASSUME NEW p \in Procs, RefreshFails(p) PROVE TypeOK'
  <2>1. Loading \in Jobs
    BY DEF Jobs, Loading, Kinds
  <2>2. job' \in [Procs -> Jobs] /\ thread' \in [Procs -> Steps]
    <3>1. CASE UNCHANGED <<job, thread>>
      BY <3>1
    <3>2. CASE WithLock(p, Loading)
      BY <2>1, <3>2
    <3> QED
      BY <1>12, <3>1, <3>2 DEF RefreshFails
  <2>3. refreshing' \in [Procs -> Providers \cup {NoProvider}] /\ lock' \in Procs \cup {NoProc}
    BY <1>12 DEF RefreshFails
  <2>4. merged[p][refreshing[p]] \in Versions
    BY <1>12 DEF RefreshFails
  <2>5. spent' \subseteq Versions /\ wasted' \subseteq Versions
    BY <1>12, <2>4 DEF RefreshFails
  <2>6. faults' \in 0..MaxFaults
    BY <1>12, Faults DEF RefreshFails
  <2> QED
    BY <1>12, <2>2, <2>3, <2>5, <2>6 DEF RefreshFails
<1>13. ASSUME NEW p \in Procs, Truncate(p) PROVE TypeOK'
  BY <1>13 DEF Truncate
<1>14. ASSUME NEW p \in Procs, Close(p) PROVE TypeOK'
  <2>1. job[p].version \in Versions
    BY DEF Jobs
  <2>2. committed' \in Contents
    BY <1>14, <2>1 DEF Close
  <2> QED
    BY <1>14, <2>2 DEF Close
<1>15. ASSUME NEW p \in Procs, Crash(p) PROVE TypeOK'
  <2>1. refreshing[p] # NoProvider => merged[p][refreshing[p]] \in Versions
    OBVIOUS
  <2>2. spent' \subseteq Versions
    BY <1>15, <2>1 DEF Crash
  <2>3. faults' \in 0..MaxFaults
    BY <1>15, Faults DEF Crash
  <2> QED
    BY <1>15, <2>2, <2>3 DEF Crash
<1>16. ASSUME NEW v \in Versions, Expire(v) PROVE TypeOK'
  BY <1>16 DEF Expire
<1>18. ASSUME NEW p \in Procs, WriteFails(p) PROVE TypeOK'
  <2>1. Loading \in Jobs
    BY DEF Jobs, Loading, Kinds
  <2>2. job' \in [Procs -> Jobs] /\ thread' \in [Procs -> Steps]
    <3>1. CASE WithLock(p, Loading)
      BY <2>1, <3>1
    <3>2. CASE Return(p) /\ UNCHANGED job
      BY <3>2
    <3> QED
      BY <1>18, <3>1, <3>2 DEF WriteFails
  <2>3. job[p].kind = "refresh" => file[job[p].provider] \in Versions
    BY DEF JobsNamed
  <2>4. wasted' \subseteq Versions
    BY <1>18, <2>3 DEF WriteFails
  <2>5. faults' \in 0..MaxFaults
    BY <1>18, Faults DEF WriteFails
  <2>6. file' \in Contents
    BY <1>18 DEF WriteFails
  <2>7. erased' \in BOOLEAN
    <3>1. erased' = erased \/ erased' = (erased \/ committed # Empty)
      BY <1>18 DEF WriteFails
    <3> QED
      BY <3>1
  <2>8. lock' \in Procs \cup {NoProc}
    BY <1>18 DEF WriteFails
  <2> QED
    BY <1>18, <2>2, <2>4, <2>5, <2>6, <2>7, <2>8 DEF WriteFails
<1>17. CASE UNCHANGED vars
  BY <1>17 DEF vars
<1> QED
  BY <1>1, <1>2, <1>3, <1>4, <1>5, <1>6, <1>7, <1>8, <1>9, <1>10, <1>11, <1>12, <1>13,
     <1>14, <1>15, <1>16, <1>17, <1>18
  DEF Next, Client, Runs

(* Every step keeps the jobs named.                                           *)
LEMMA NextJobsNamed == TypeOK /\ JobsNamed /\ [Next]_vars => JobsNamed'
<1> SUFFICES ASSUME TypeOK, JobsNamed, [Next]_vars PROVE JobsNamed'
  OBVIOUS
<1> USE CredentialsAssumption DEF TypeOK, JobsNamed
<1>1. ASSUME NEW p \in Procs, NEW r \in Providers, NEW v \in Versions, Set(p, r, v) PROVE JobsNamed'
  BY <1>1 DEF Set, Calls, WithLock
<1>2. ASSUME NEW p \in Procs, Reload(p) PROVE JobsNamed'
  BY <1>2 DEF Reload, Calls, WithLock, Loading
<1>3. ASSUME NEW p \in Procs, NEW r \in Providers, GetExpiredKey(p, r) PROVE JobsNamed'
  BY <1>3 DEF GetExpiredKey, Calls, WithLock
<1>4. ASSUME NEW p \in Procs, CreateFile(p) PROVE JobsNamed'
  BY <1>4 DEF CreateFile
<1>5. ASSUME NEW p \in Procs, Acquire(p) PROVE JobsNamed'
  BY <1>5 DEF Acquire
<1>6. ASSUME NEW p \in Procs, Timeout(p) PROVE JobsNamed'
  BY <1>6 DEF Timeout, WithLock, Return, Loading
<1>7. ASSUME NEW p \in Procs, ReadForReload(p) PROVE JobsNamed'
  BY <1>7 DEF ReadForReload, Return, Release, Reading
<1>8. ASSUME NEW p \in Procs, ReadForSet(p) PROVE JobsNamed'
  BY <1>8 DEF ReadForSet, Reading
<1>9. ASSUME NEW p \in Procs, ReadCurrentToken(p) PROVE JobsNamed'
  BY <1>9 DEF ReadCurrentToken, Return, Release, Reading
<1>10. ASSUME NEW p \in Procs, ReadExpiredToken(p) PROVE JobsNamed'
  BY <1>10 DEF ReadExpiredToken, Return, Reading
<1>11. ASSUME NEW p \in Procs, TokenRefreshed(p) PROVE JobsNamed'
  BY <1>11 DEF TokenRefreshed
<1>12. ASSUME NEW p \in Procs, RefreshFails(p) PROVE JobsNamed'
  BY <1>12 DEF RefreshFails, WithLock, Release, Loading
<1>13. ASSUME NEW p \in Procs, Truncate(p) PROVE JobsNamed'
  BY <1>13 DEF Truncate
<1>14. ASSUME NEW p \in Procs, Close(p) PROVE JobsNamed'
  BY <1>14 DEF Close, Return, Release
<1>15. ASSUME NEW p \in Procs, Crash(p) PROVE JobsNamed'
  BY <1>15 DEF Crash
<1>16. ASSUME NEW v \in Versions, Expire(v) PROVE JobsNamed'
  BY <1>16 DEF Expire
<1>18. ASSUME NEW p \in Procs, WriteFails(p) PROVE JobsNamed'
  BY <1>18 DEF WriteFails, WithLock, Return, Release, Loading
<1>17. CASE UNCHANGED vars
  BY <1>17 DEF vars
<1> QED
  BY <1>1, <1>2, <1>3, <1>4, <1>5, <1>6, <1>7, <1>8, <1>9,
     <1>10, <1>11, <1>12, <1>13, <1>14, <1>15, <1>16, <1>17, <1>18
  DEF Next, Client, Runs

(* Every step keeps processes apart.                                          *)
LEMMA NextExclusive == TypeOK /\ Exclusive /\ [Next]_vars => Exclusive'
<1> SUFFICES ASSUME TypeOK, Exclusive, [Next]_vars PROVE Exclusive'
  OBVIOUS
<1> USE CredentialsAssumption DEF TypeOK, Exclusive, Inside
<1>1. ASSUME NEW p \in Procs, NEW r \in Providers, NEW v \in Versions, Set(p, r, v) PROVE Exclusive'
  BY <1>1 DEF Set, Calls, WithLock
<1>2. ASSUME NEW p \in Procs, Reload(p) PROVE Exclusive'
  BY <1>2 DEF Reload, Calls, WithLock, Loading
<1>3. ASSUME NEW p \in Procs, NEW r \in Providers, GetExpiredKey(p, r) PROVE Exclusive'
  BY <1>3 DEF GetExpiredKey, Calls, WithLock
<1>4. ASSUME NEW p \in Procs, CreateFile(p) PROVE Exclusive'
  BY <1>4 DEF CreateFile
<1>5. ASSUME NEW p \in Procs, Acquire(p) PROVE Exclusive'
  BY <1>5 DEF Acquire
<1>6. ASSUME NEW p \in Procs, Timeout(p) PROVE Exclusive'
  BY <1>6 DEF Timeout, WithLock, Return, Loading
<1>7. ASSUME NEW p \in Procs, ReadForReload(p) PROVE Exclusive'
  BY <1>7 DEF ReadForReload, Return, Release, Reading
<1>8. ASSUME NEW p \in Procs, ReadForSet(p) PROVE Exclusive'
  BY <1>8 DEF ReadForSet, Reading
<1>9. ASSUME NEW p \in Procs, ReadCurrentToken(p) PROVE Exclusive'
  BY <1>9 DEF ReadCurrentToken, Return, Release, Reading
<1>10. ASSUME NEW p \in Procs, ReadExpiredToken(p) PROVE Exclusive'
  BY <1>10 DEF ReadExpiredToken, Return, Reading
<1>11. ASSUME NEW p \in Procs, TokenRefreshed(p) PROVE Exclusive'
  BY <1>11 DEF TokenRefreshed
<1>12. ASSUME NEW p \in Procs, RefreshFails(p) PROVE Exclusive'
  BY <1>12 DEF RefreshFails, WithLock, Release, Loading
<1>13. ASSUME NEW p \in Procs, Truncate(p) PROVE Exclusive'
  BY <1>13 DEF Truncate
<1>14. ASSUME NEW p \in Procs, Close(p) PROVE Exclusive'
  BY <1>14 DEF Close, Return, Release
<1>15. ASSUME NEW p \in Procs, Crash(p) PROVE Exclusive'
  BY <1>15 DEF Crash
<1>16. ASSUME NEW v \in Versions, Expire(v) PROVE Exclusive'
  BY <1>16 DEF Expire
<1>18. ASSUME NEW p \in Procs, WriteFails(p) PROVE Exclusive'
  BY <1>18 DEF WriteFails, WithLock, Return, Release, Loading
<1>17. CASE UNCHANGED vars
  BY <1>17 DEF vars
<1> QED
  BY <1>1, <1>2, <1>3, <1>4, <1>5, <1>6, <1>7, <1>8, <1>9,
     <1>10, <1>11, <1>12, <1>13, <1>14, <1>15, <1>16, <1>17, <1>18
  DEF Next, Client, Runs

(* Every step keeps what was committed.                                       *)
LEMMA NextKept == TypeOK /\ JobsNamed /\ Exclusive /\ Kept /\ [Next]_vars => Kept'
<1> SUFFICES ASSUME TypeOK, JobsNamed, Exclusive, Kept, [Next]_vars PROVE Kept'
  OBVIOUS
<1> USE CredentialsAssumption DEF TypeOK, Exclusive, Inside, Kept, Prepared
<1>1. ASSUME NEW p \in Procs, NEW r \in Providers, NEW v \in Versions, Set(p, r, v) PROVE Kept'
  BY <1>1 DEF Set, Calls, WithLock
<1>2. ASSUME NEW p \in Procs, Reload(p) PROVE Kept'
  BY <1>2 DEF Reload, Calls, WithLock, Loading
<1>3. ASSUME NEW p \in Procs, NEW r \in Providers, GetExpiredKey(p, r) PROVE Kept'
  BY <1>3 DEF GetExpiredKey, Calls, WithLock
<1>4. ASSUME NEW p \in Procs, CreateFile(p) PROVE Kept'
  BY <1>4 DEF CreateFile
<1>5. ASSUME NEW p \in Procs, Acquire(p) PROVE Kept'
  BY <1>5 DEF Acquire
<1>6. ASSUME NEW p \in Procs, Timeout(p) PROVE Kept'
  BY <1>6 DEF Timeout, WithLock, Return, Loading
<1>7. ASSUME NEW p \in Procs, ReadForReload(p) PROVE Kept'
  BY <1>7 DEF ReadForReload, Return, Release, Reading
<1>8. ASSUME NEW p \in Procs, ReadForSet(p) PROVE Kept'
  BY <1>8 DEF ReadForSet, Reading
<1>9. ASSUME NEW p \in Procs, ReadCurrentToken(p) PROVE Kept'
  BY <1>9 DEF ReadCurrentToken, Return, Release, Reading
<1>10. ASSUME NEW p \in Procs, ReadExpiredToken(p) PROVE Kept'
  BY <1>10 DEF ReadExpiredToken, Return, Reading
<1>11. ASSUME NEW p \in Procs, TokenRefreshed(p) PROVE Kept'
  BY <1>11 DEF TokenRefreshed
<1>12. ASSUME NEW p \in Procs, RefreshFails(p) PROVE Kept'
  BY <1>12 DEF RefreshFails, WithLock, Release, Loading
<1>13. ASSUME NEW p \in Procs, Truncate(p) PROVE Kept'
  BY <1>13 DEF Truncate
<1>14. ASSUME NEW p \in Procs, Close(p) PROVE Kept'
  BY <1>14 DEF Close, Return, Release
<1>15. ASSUME NEW p \in Procs, Crash(p) PROVE Kept'
  BY <1>15 DEF Crash
<1>16. ASSUME NEW v \in Versions, Expire(v) PROVE Kept'
  BY <1>16 DEF Expire
<1>18. ASSUME NEW p \in Procs, WriteFails(p) PROVE Kept'
  BY <1>18 DEF WriteFails, WithLock, Return, Release, Loading, Empty
<1>17. CASE UNCHANGED vars
  BY <1>17 DEF vars
<1> QED
  BY <1>1, <1>2, <1>3, <1>4, <1>5, <1>6, <1>7, <1>8, <1>9,
     <1>10, <1>11, <1>12, <1>13, <1>14, <1>15, <1>16, <1>17, <1>18
  DEF Next, Client, Runs

(* Every step keeps the order of the versions.                               *)
LEMMA NextMade == TypeOK /\ JobsNamed /\ Exclusive /\ Made /\ [Next]_vars => Made'
<1> SUFFICES ASSUME TypeOK, JobsNamed, Exclusive, Made, [Next]_vars PROVE Made'
  OBVIOUS
<1> USE CredentialsAssumption DEF TypeOK, Exclusive, Inside, Made, Versions, Contents, Jobs
<1>1. ASSUME NEW p \in Procs, NEW r \in Providers, NEW v \in Versions, Set(p, r, v) PROVE Made'
  <2>1. fresh' \in Nat /\ fresh \in Nat /\ fresh' >= fresh
    BY <1>1 DEF Set
  <2>2. 1..fresh \subseteq 1..fresh'
    BY <2>1
  <2>3. job'[p].version <= fresh'
    BY <1>1, <2>1 DEF Set, WithLock
  <2>4. \A q \in Procs \ {p} : job'[q] = job[q]
    BY <1>1 DEF Set, WithLock
  <2>5. UNCHANGED <<file, merged, expired, spent>>
    BY <1>1 DEF Set
  <2>6. \A q \in Procs : /\ job[q].version \in Nat /\ job[q].version <= fresh
                         /\ \A s \in Providers : merged[q][s] \in Nat /\ merged[q][s] <= fresh
    OBVIOUS
  <2>7. \A s \in Providers : file[s] \in Nat
    OBVIOUS
  <2>8. ASSUME NEW q \in Procs PROVE job'[q].version <= fresh'
    <3>1. CASE q = p
      BY <2>3, <3>1
    <3>2. CASE q # p
      <4>1. job'[q].version = job[q].version
        BY <2>4, <3>2
      <4> QED
        BY <2>1, <2>6, <4>1
    <3> QED
      BY <3>1, <3>2
  <2>9. \A s \in Providers : file'[s] <= fresh'
    BY <2>1, <2>5, <2>7
  <2>10. \A q \in Procs : \A s \in Providers : merged'[q][s] <= fresh'
    BY <2>1, <2>5, <2>6
  <2>11. UNCHANGED refreshing
    BY <1>1 DEF Set
  <2> QED
    BY <2>2, <2>5, <2>8, <2>9, <2>10, <2>11
<1>2. ASSUME NEW p \in Procs, Reload(p) PROVE Made'
  BY <1>2 DEF Reload, Calls, WithLock, Loading
<1>3. ASSUME NEW p \in Procs, NEW r \in Providers, GetExpiredKey(p, r) PROVE Made'
  BY <1>3 DEF GetExpiredKey, Calls, WithLock
<1>4. ASSUME NEW p \in Procs, CreateFile(p) PROVE Made'
  BY <1>4 DEF CreateFile, Empty
<1>5. ASSUME NEW p \in Procs, Acquire(p) PROVE Made'
  BY <1>5 DEF Acquire
<1>6. ASSUME NEW p \in Procs, Timeout(p) PROVE Made'
  <2>1. UNCHANGED <<file, merged, refreshing, fresh, expired, spent>>
    BY <1>6 DEF Timeout
  <2>2. job'[p] = job[p] \/ job'[p] = Loading
    BY <1>6 DEF Timeout, WithLock
  <2>3. \A q \in Procs \ {p} : job'[q] = job[q]
    BY <1>6 DEF Timeout, WithLock
  <2>4. Loading.version = 0 /\ fresh \in Nat
    BY DEF Loading
  <2>5. ASSUME NEW q \in Procs PROVE job'[q].version <= fresh
    <3>1. CASE job'[q] = Loading
      BY <2>4, <3>1
    <3>2. CASE job'[q] = job[q]
      BY <3>2
    <3> QED
      BY <2>2, <2>3, <3>1, <3>2
  <2> QED
    BY <2>1, <2>5
<1>7. ASSUME NEW p \in Procs, ReadForReload(p) PROVE Made'
  BY <1>7 DEF ReadForReload, Return, Release, Reading
<1>8. ASSUME NEW p \in Procs, ReadForSet(p) PROVE Made'
  BY <1>8 DEF ReadForSet, Reading
<1>9. ASSUME NEW p \in Procs, ReadCurrentToken(p) PROVE Made'
  BY <1>9 DEF ReadCurrentToken, Return, Release, Reading
<1>10. ASSUME NEW p \in Procs, ReadExpiredToken(p) PROVE Made'
  BY <1>10 DEF ReadExpiredToken, Return, Reading
<1>11. ASSUME NEW p \in Procs, TokenRefreshed(p) PROVE Made'
  <2> DEFINE r == refreshing[p]
  <2>1. fresh \in Nat /\ fresh' = fresh + 1 /\ r \in Providers
    BY <1>11 DEF TokenRefreshed
  <2>2. 1..fresh \subseteq 1..fresh'
    BY <2>1
  <2>3. merged[p][r] \in 1..fresh
    BY <1>11, <2>1 DEF TokenRefreshed
  <2>4. spent' \subseteq 1..fresh' /\ expired' \subseteq 1..fresh'
    BY <1>11, <2>2, <2>3 DEF TokenRefreshed
  <2>5. job'[p].version = fresh' /\ \A q \in Procs \ {p} : job'[q] = job[q]
    BY <1>11, <2>1 DEF TokenRefreshed
  <2>6. \A q \in Procs : /\ job[q].version \in Nat /\ job[q].version <= fresh
                         /\ \A s \in Providers : merged[q][s] \in Nat /\ merged[q][s] <= fresh
    OBVIOUS
  <2>7. ASSUME NEW q \in Procs PROVE job'[q].version <= fresh'
    <3>1. CASE q = p
      BY <2>1, <2>5, <3>1
    <3>2. CASE q # p
      <4>1. job'[q].version = job[q].version
        BY <2>5, <3>2
      <4> QED
        BY <2>1, <2>6, <4>1
    <3> QED
      BY <3>1, <3>2
  <2>8. \A s \in Providers : file[s] \in Nat /\ file'[s] = file[s]
    BY <1>11 DEF TokenRefreshed
  <2>9. \A s \in Providers : file'[s] <= fresh'
    BY <2>1, <2>8
  <2>10. \A q \in Procs, s \in Providers :
           merged'[q][s] = IF q = p /\ s = r THEN fresh + 1 ELSE merged[q][s]
    BY <1>11, <2>1 DEF TokenRefreshed
  <2>11. ASSUME NEW q \in Procs, NEW s \in Providers PROVE merged'[q][s] <= fresh'
    <3>1. CASE q = p /\ s = r
      BY <2>1, <2>10, <3>1
    <3>2. CASE ~(q = p /\ s = r)
      <4>1. merged'[q][s] = merged[q][s]
        BY <2>10, <3>2
      <4> QED
        BY <2>1, <2>6, <4>1
    <3> QED
      BY <3>1, <3>2
  <2>12. \A q \in Procs : refreshing'[q] # NoProvider => q # p /\ refreshing'[q] = refreshing[q]
    BY <1>11 DEF TokenRefreshed
  <2>13. \A q \in Procs : refreshing'[q] # NoProvider => merged'[q][refreshing'[q]] # 0
    BY <2>10, <2>12
  <2> QED
    BY <2>4, <2>7, <2>9, <2>11, <2>13
<1>12. ASSUME NEW p \in Procs, RefreshFails(p) PROVE Made'
  <2>1. UNCHANGED <<file, merged, fresh, expired>> /\ spent' \subseteq 1..fresh
    <3>1. merged[p][refreshing[p]] \in 1..fresh
      BY <1>12 DEF RefreshFails
    <3> QED
      BY <1>12, <3>1 DEF RefreshFails
  <2>2. \A q \in Procs : refreshing'[q] # NoProvider => refreshing'[q] = refreshing[q]
    BY <1>12 DEF RefreshFails
  <2>3. Loading.version = 0 /\ fresh \in Nat
    BY DEF Loading
  <2>4. \A q \in Procs : job'[q] = job[q] \/ job'[q] = Loading
    BY <1>12 DEF RefreshFails, WithLock
  <2>5. ASSUME NEW q \in Procs PROVE job'[q].version <= fresh
    <3>1. CASE job'[q] = Loading
      BY <2>3, <3>1
    <3>2. CASE job'[q] = job[q]
      BY <3>2
    <3> QED
      BY <2>4, <3>1, <3>2
  <2> QED
    BY <2>1, <2>2, <2>5
<1>13. ASSUME NEW p \in Procs, Truncate(p) PROVE Made'
  BY <1>13 DEF Truncate, Empty
<1>14. ASSUME NEW p \in Procs, Close(p) PROVE Made'
  BY <1>14 DEF Close, Return, Release
<1>15. ASSUME NEW p \in Procs, Crash(p) PROVE Made'
  <2>1. UNCHANGED <<file, merged, refreshing, job, fresh, expired>>
    BY <1>15 DEF Crash
  <2>2. refreshing[p] # NoProvider => merged[p][refreshing[p]] \in 1..fresh
    OBVIOUS
  <2>3. spent' \subseteq 1..fresh
    BY <1>15, <2>2 DEF Crash
  <2> QED
    BY <2>1, <2>3
<1>16. ASSUME NEW v \in Versions, Expire(v) PROVE Made'
  BY <1>16 DEF Expire
<1>18. ASSUME NEW p \in Procs, WriteFails(p) PROVE Made'
  <2>1. UNCHANGED <<merged, refreshing, fresh, expired, spent>>
    BY <1>18 DEF WriteFails
  <2>2. Loading.version = 0 /\ fresh \in Nat
    BY DEF Loading
  <2>3. \A q \in Procs : job'[q] = job[q] \/ job'[q] = Loading
    BY <1>18 DEF WriteFails, WithLock
  <2>4. ASSUME NEW q \in Procs PROVE job'[q].version <= fresh
    <3>1. CASE job'[q] = Loading
      BY <2>2, <3>1
    <3>2. CASE job'[q] = job[q]
      BY <3>2
    <3> QED
      BY <2>3, <3>1, <3>2
  <2>5. \A r \in Providers : file'[r] <= fresh
    BY <1>18, <2>2 DEF WriteFails, Empty
  <2> QED
    BY <2>1, <2>4, <2>5
<1>17. CASE UNCHANGED vars
  BY <1>17 DEF vars
<1> QED
  BY <1>1, <1>2, <1>3, <1>4, <1>5, <1>6, <1>7, <1>8, <1>9,
     <1>10, <1>11, <1>12, <1>13, <1>14, <1>15, <1>16, <1>17, <1>18
  DEF Next, Client, Runs

(* What a refresh has read stands until it has the lock no more.             *)
LEMMA NextReadStands ==
  TypeOK /\ Exclusive /\ ReadStands /\ [Next]_vars => ReadStands'
<1> SUFFICES ASSUME TypeOK, Exclusive, ReadStands, [Next]_vars,
                    NEW q \in Procs, refreshing'[q] # NoProvider
             PROVE  file' \in {merged'[q], Empty}
  BY DEF ReadStands
<1> USE DEF TypeOK, Exclusive, Inside, ReadStands
<1>1. CASE UNCHANGED <<file, merged, refreshing>>
  BY <1>1
<1>2. ASSUME NEW p \in Procs, CreateFile(p) PROVE file' \in {merged'[q], Empty}
  BY <1>2 DEF CreateFile
<1>3. ASSUME NEW p \in Procs, ReadForSet(p) PROVE file' \in {merged'[q], Empty}
  BY <1>3 DEF ReadForSet, Reading
<1>4. ASSUME NEW p \in Procs, ReadExpiredToken(p) PROVE file' \in {merged'[q], Empty}
  BY <1>4 DEF ReadExpiredToken, Reading
<1>5. ASSUME NEW p \in Procs, TokenRefreshed(p) \/ RefreshFails(p)
      PROVE  file' \in {merged'[q], Empty}
  BY <1>5 DEF TokenRefreshed, RefreshFails
<1>6. ASSUME NEW p \in Procs, Truncate(p) \/ Close(p) \/ WriteFails(p)
      PROVE  file' \in {merged'[q], Empty}
  BY <1>6 DEF Truncate, Close, WriteFails
<1>7. ASSUME NEW p \in Procs,
             \/ Client(p) \/ Acquire(p) \/ Timeout(p) \/ ReadForReload(p)
             \/ ReadCurrentToken(p) \/ Crash(p)
      PROVE  UNCHANGED <<file, merged, refreshing>>
  BY <1>7 DEF Client, Set, Reload, GetExpiredKey, Acquire, Timeout, ReadForReload,
              ReadCurrentToken, Crash
<1>8. CASE (\E v \in Versions : Expire(v)) \/ UNCHANGED vars
  BY <1>1, <1>8 DEF Expire, vars
<1> QED
  BY <1>1, <1>2, <1>3, <1>4, <1>5, <1>6, <1>7, <1>8 DEF Next, Runs

(* Every step keeps the credentials apart.                                   *)
LEMMA NextApart == TypeOK /\ JobsNamed /\ Exclusive /\ Made /\ Apart /\ [Next]_vars => Apart'
<1> SUFFICES ASSUME TypeOK, JobsNamed, Exclusive, Made, Apart, [Next]_vars PROVE Apart'
  OBVIOUS
<1> USE CredentialsAssumption DEF TypeOK, Exclusive, Inside, Made, Apart, Holds, Waiting, Distinct, Versions, Contents
<1>1. ASSUME NEW p \in Procs, NEW r \in Providers, NEW v \in Versions, Set(p, r, v) PROVE Apart'
  BY <1>1 DEF Set, Calls, WithLock
<1>2. ASSUME NEW p \in Procs, Reload(p) PROVE Apart'
  BY <1>2 DEF Reload, Calls, WithLock, Loading
<1>3. ASSUME NEW p \in Procs, NEW r \in Providers, GetExpiredKey(p, r) PROVE Apart'
  BY <1>3 DEF GetExpiredKey, Calls, WithLock
<1>4. ASSUME NEW p \in Procs, CreateFile(p) PROVE Apart'
  BY <1>4 DEF CreateFile, Empty
<1>5. ASSUME NEW p \in Procs, Acquire(p) PROVE Apart'
  BY <1>5 DEF Acquire
<1>6. ASSUME NEW p \in Procs, Timeout(p) PROVE Apart'
  <2>1. UNCHANGED <<file, merged, refreshing, spent, alive>>
    BY <1>6 DEF Timeout
  <2>2. \/ UNCHANGED job /\ thread' = [thread EXCEPT ![p] = "idle"]
        \/ /\ job' = [job EXCEPT ![p] = Loading]
           /\ thread' \in {[thread EXCEPT ![p] = "acquire"], [thread EXCEPT ![p] = "create"]}
    BY <1>6 DEF Timeout, WithLock, Return
  <2>3. thread[p] = "acquire"
    BY <1>6 DEF Timeout
  <2>4. CASE UNCHANGED job /\ thread' = [thread EXCEPT ![p] = "idle"]
    BY <2>1, <2>3, <2>4
  <2>5. CASE /\ job' = [job EXCEPT ![p] = Loading]
             /\ thread' \in {[thread EXCEPT ![p] = "acquire"], [thread EXCEPT ![p] = "create"]}
    <3>1. ~Waiting(p)'
      BY <2>5 DEF Loading
    <3>2. \A q \in Procs \ {p} : job'[q] = job[q] /\ thread'[q] = thread[q]
      BY <2>5
    <3>3. thread'[p] \notin {"write", "close"}
      BY <2>5
    <3>4. \A q \in Procs : Waiting(q)' => q # p /\ Waiting(q) /\ job'[q] = job[q]
      BY <3>1, <3>2
    <3>5. \A q \in Procs : Holds(q)' => Holds(q) /\ merged'[q] = merged[q]
      BY <2>1, <3>2, <3>3
    <3> HIDE DEF Waiting, Holds
    <3> QED
      BY <2>1, <2>3, <3>2, <3>3, <3>4, <3>5
  <2> QED
    BY <2>2, <2>4, <2>5
<1>7. ASSUME NEW p \in Procs, ReadForReload(p) PROVE Apart'
  BY <1>7 DEF ReadForReload, Return, Release, Reading
<1>8. ASSUME NEW p \in Procs, ReadForSet(p) PROVE Apart'
  BY <1>8 DEF ReadForSet, Reading
<1>9. ASSUME NEW p \in Procs, ReadCurrentToken(p) PROVE Apart'
  BY <1>9 DEF ReadCurrentToken, Return, Release, Reading
<1>10. ASSUME NEW p \in Procs, ReadExpiredToken(p) PROVE Apart'
  BY <1>10 DEF ReadExpiredToken, Return, Reading
<1>11. ASSUME NEW p \in Procs, TokenRefreshed(p) PROVE Apart'
  BY <1>11 DEF TokenRefreshed
<1>12. ASSUME NEW p \in Procs, RefreshFails(p) PROVE Apart'
  <2>1. UNCHANGED <<file, merged>> /\ refreshing' = [refreshing EXCEPT ![p] = NoProvider]
    BY <1>12 DEF RefreshFails
  <2>2. thread[p] = "idle"
    BY <1>12 DEF RefreshFails
  <2>3. CASE UNCHANGED <<job, thread>>
    BY <2>1, <2>2, <2>3
  <2>4. CASE WithLock(p, Loading)
    <3>1. ~Waiting(p)'
      BY <2>4 DEF WithLock, Loading
    <3>2. \A q \in Procs \ {p} : job'[q] = job[q] /\ thread'[q] = thread[q]
      BY <2>4 DEF WithLock
    <3>3. thread'[p] \notin {"write", "close"}
      BY <2>4 DEF WithLock
    <3>4. \A q \in Procs : Waiting(q)' => q # p /\ Waiting(q) /\ job'[q] = job[q]
      BY <3>1, <3>2
    <3>5. \A q \in Procs : Holds(q)' => Holds(q) /\ merged'[q] = merged[q]
      BY <2>1, <3>2, <3>3
    <3> HIDE DEF Waiting, Holds
    <3> QED
      BY <2>1, <3>4, <3>5
  <2> QED
    BY <1>12, <2>3, <2>4 DEF RefreshFails
<1>13. ASSUME NEW p \in Procs, Truncate(p) PROVE Apart'
  BY <1>13 DEF Truncate, Empty
<1>14. ASSUME NEW p \in Procs, Close(p) PROVE Apart'
  BY <1>14 DEF Close, Return, Release
<1>15. ASSUME NEW p \in Procs, Crash(p) PROVE Apart'
  BY <1>15 DEF Crash
<1>16. ASSUME NEW v \in Versions, Expire(v) PROVE Apart'
  BY <1>16 DEF Expire
<1>18. ASSUME NEW p \in Procs, WriteFails(p) PROVE Apart'
  <2>1. UNCHANGED <<merged, refreshing, fresh>> /\ file' \in {file, Empty}
    BY <1>18 DEF WriteFails
  <2>2. \A q \in Procs \ {p} : job'[q] = job[q] /\ thread'[q] = thread[q]
    BY <1>18 DEF WriteFails, WithLock, Return
  <2>3. thread'[p] \notin {"write", "close"} /\ ~Waiting(p)'
    BY <1>18 DEF WriteFails, WithLock, Return, Loading
  <2>4. \A q \in Procs : Waiting(q)' => q # p /\ Waiting(q) /\ job'[q] = job[q]
    BY <2>2, <2>3
  <2>5. \A q \in Procs : Holds(q)' => Holds(q) /\ merged'[q] = merged[q]
    BY <2>1, <2>2, <2>3
  <2>6. \A r \in Providers : Empty[r] = 0
    BY DEF Empty
  <2>7. \A q \in Procs : Waiting(q) => job[q].version # 0
    OBVIOUS
  <2> HIDE DEF Waiting, Holds
  <2>8. CASE file' = file
    BY <2>1, <2>4, <2>5, <2>8
  <2>9. CASE file' = Empty
    BY <2>1, <2>4, <2>5, <2>6, <2>7, <2>9
  <2> QED
    BY <2>1, <2>8, <2>9
<1>17. CASE UNCHANGED vars
  BY <1>17 DEF vars
<1> QED
  BY <1>1, <1>2, <1>3, <1>4, <1>5, <1>6, <1>7, <1>8, <1>9,
     <1>10, <1>11, <1>12, <1>13, <1>14, <1>15, <1>16, <1>17, <1>18
  DEF Next, Client, Runs

(* Every step keeps the tokens to be written unspent.                        *)
LEMMA NextUnspent ==
  TypeOK /\ JobsNamed /\ Exclusive /\ Made /\ ReadStands /\ Apart /\ Unspent /\ [Next]_vars
    => Unspent'
<1> SUFFICES ASSUME TypeOK, JobsNamed, Exclusive, Made, ReadStands, Apart, Unspent, [Next]_vars PROVE Unspent'
  OBVIOUS
<1> USE CredentialsAssumption DEF TypeOK, Exclusive, Inside, Made, Apart, Unspent, Holds, Waiting, Traded, Gone, Distinct, Versions, Contents
<1>1. ASSUME NEW p \in Procs, NEW r \in Providers, NEW v \in Versions, Set(p, r, v) PROVE Unspent'
  <2>1. UNCHANGED <<file, merged, refreshing, spent, wasted, alive>> /\ thread[p] = "idle" /\ fresh \in Nat
    BY <1>1 DEF Set, Calls
  <2>2. \A q \in Procs \ {p} : job'[q] = job[q] /\ thread'[q] = thread[q]
    BY <1>1 DEF Set, WithLock
  <2>3. thread'[p] \notin {"write", "close"}
    BY <1>1, <2>1 DEF Set, WithLock
  <2>4. Waiting(p)' => job'[p].version = fresh + 1
    <3>1. CASE loadError[p]
      BY <1>1, <2>1, <3>1 DEF Set
    <3>2. CASE ~loadError[p]
      <4>1. job'[p] = [kind |-> "set", provider |-> r, version |-> v]
        BY <1>1, <3>2 DEF Set, WithLock
      <4>2. v \in {0, fresh + 1}
        BY <1>1 DEF Set
      <4> QED
        BY <4>1, <4>2
    <3> QED
      BY <3>1, <3>2
  <2>5. Waiting(p)' => job'[p].version \notin spent
    BY <2>1, <2>4
  <2>6. \A q \in Procs \ {p} : Waiting(q)' => Waiting(q)
    BY <2>2
  <2>7. \A q \in Procs : Traded(q)' <=> Traded(q)
    BY <2>1, <2>2, <2>3
  <2>8. Gone' = Gone
    BY <2>1
  <2>9. \A q \in Procs : thread'[q] = "write" => thread[q] = "write" /\ job'[q] = job[q]
    BY <2>2, <2>3
  <2> HIDE DEF Waiting, Traded, Gone
  <2> QED
    BY <2>1, <2>2, <2>3, <2>5, <2>6, <2>7, <2>8, <2>9
<1>2. ASSUME NEW p \in Procs, Reload(p) PROVE Unspent'
  BY <1>2 DEF Reload, Calls, WithLock, Loading
<1>3. ASSUME NEW p \in Procs, NEW r \in Providers, GetExpiredKey(p, r) PROVE Unspent'
  BY <1>3 DEF GetExpiredKey, Calls, WithLock
<1>4. ASSUME NEW p \in Procs, CreateFile(p) PROVE Unspent'
  BY <1>4 DEF CreateFile, Empty
<1>5. ASSUME NEW p \in Procs, Acquire(p) PROVE Unspent'
  BY <1>5 DEF Acquire
<1>6. ASSUME NEW p \in Procs, Timeout(p) PROVE Unspent'
  <2>1. UNCHANGED <<file, merged, refreshing, spent, wasted, alive>>
    BY <1>6 DEF Timeout
  <2>2. \/ UNCHANGED job /\ thread' = [thread EXCEPT ![p] = "idle"]
        \/ /\ job' = [job EXCEPT ![p] = Loading]
           /\ thread' \in {[thread EXCEPT ![p] = "acquire"], [thread EXCEPT ![p] = "create"]}
    BY <1>6 DEF Timeout, WithLock, Return
  <2>3. thread[p] = "acquire"
    BY <1>6 DEF Timeout
  <2>4. CASE UNCHANGED job /\ thread' = [thread EXCEPT ![p] = "idle"]
    BY <2>1, <2>3, <2>4
  <2>5. CASE /\ job' = [job EXCEPT ![p] = Loading]
             /\ thread' \in {[thread EXCEPT ![p] = "acquire"], [thread EXCEPT ![p] = "create"]}
    <3>1. ~Waiting(p)'
      BY <2>5 DEF Loading
    <3>2. \A q \in Procs \ {p} : job'[q] = job[q] /\ thread'[q] = thread[q]
      BY <2>5
    <3>3. thread'[p] \notin {"write", "close"}
      BY <2>5
    <3>4. \A q \in Procs : Waiting(q)' => q # p /\ Waiting(q) /\ job'[q] = job[q]
      BY <3>1, <3>2
    <3>5. \A q \in Procs : Holds(q)' => Holds(q) /\ merged'[q] = merged[q]
      BY <2>1, <3>2, <3>3
    <3>6. \A q \in Procs : Traded(q)' <=> Traded(q)
      BY <2>1, <2>3, <3>2, <3>3
    <3>7. Gone' = Gone
      BY <2>1
    <3>8. \A q \in Procs : thread'[q] = "write" => thread[q] = "write" /\ job'[q] = job[q]
      BY <3>2, <3>3
    <3> HIDE DEF Waiting, Holds, Traded, Gone
    <3> QED
      BY <2>1, <2>3, <3>2, <3>3, <3>4, <3>5, <3>6, <3>7, <3>8
  <2> QED
    BY <2>2, <2>4, <2>5
<1>7. ASSUME NEW p \in Procs, ReadForReload(p) PROVE Unspent'
  BY <1>7 DEF ReadForReload, Return, Release, Reading
<1>8. ASSUME NEW p \in Procs, ReadForSet(p) PROVE Unspent'
  BY <1>8 DEF ReadForSet, Reading
<1>9. ASSUME NEW p \in Procs, ReadCurrentToken(p) PROVE Unspent'
  BY <1>9 DEF ReadCurrentToken, Return, Release, Reading
<1>10. ASSUME NEW p \in Procs, ReadExpiredToken(p) PROVE Unspent'
  BY <1>10 DEF ReadExpiredToken, Return, Reading
<1>11. ASSUME NEW p \in Procs, TokenRefreshed(p) PROVE Unspent'
  <2> DEFINE rp == refreshing[p]
             old == merged[p][rp]
  <2>1. /\ rp \in Providers /\ p \in alive /\ thread[p] = "idle" /\ fresh \in Nat
        /\ UNCHANGED <<file, alive, wasted>> /\ spent' = spent \cup {old}
        /\ refreshing' = [refreshing EXCEPT ![p] = NoProvider]
        /\ thread' = [thread EXCEPT ![p] = "write"]
        /\ job' = [job EXCEPT ![p] = [kind |-> "refresh", provider |-> rp, version |-> fresh + 1]]
        /\ merged' = [merged EXCEPT ![p] = [@ EXCEPT ![rp] = fresh + 1]]
    BY <1>11 DEF TokenRefreshed
  <2>0. rp # NoProvider
    BY <2>1
  <2>2. /\ old # 0 /\ Gone' \subseteq Gone \cup {old} /\ 0 \notin Gone /\ fresh + 1 \notin Gone'
        /\ \A q \in Procs \ {p} : ~Inside(q)
    <3>1. old # 0 /\ old \in Nat /\ old <= fresh
      BY <2>0, <2>1
    <3>2. lock = p
      BY <2>0
    <3>3. \A q \in Procs \ {p} : ~Inside(q)
      BY <3>2
    <3>4. spent' \subseteq 1..fresh /\ 0 \notin spent
      <4>1. spent \subseteq 1..fresh
        OBVIOUS
      <4> HIDE DEF old
      <4>2. old \in 1..fresh
        BY <2>1, <3>1
      <4> QED
        BY <2>1, <4>1, <4>2
    <3>5. Gone' \subseteq spent' /\ Gone' \subseteq Gone \cup {old} /\ Gone \subseteq spent
      BY <2>1
    <3> HIDE DEF Gone, Inside, old
    <3> QED
      BY <2>1, <3>1, <3>3, <3>4, <3>5
  <2>3. \A r \in Providers : r # rp => merged[p][r] # old
    <3>1. Distinct(merged[p])
      BY <2>0
    <3> QED
      BY <2>1, <2>2, <3>1
  <2>4. \A r \in Providers : merged[p][r] \notin Gone
    BY <2>1
  <2>5. \A r \in Providers : merged'[p][r] \notin Gone'
    <3>1. \A r \in Providers : merged'[p][r] = IF r = rp THEN fresh + 1 ELSE merged[p][r]
      BY <2>1
    <3> QED
      BY <2>2, <2>3, <2>4, <3>1
  <2>6. \A r \in Providers : file'[r] \in Gone' => r = rp
    <3>1. \A r \in Providers : file[r] = 0 \/ file[r] = merged[p][r]
      BY <2>0 DEF ReadStands, Empty
    <3> HIDE DEF Gone, old, rp
    <3> QED
      BY <2>1, <2>2, <2>3, <2>4, <3>1
  <2>7. \A q \in Procs \ {p} : Waiting(q)' => job'[q].version \notin spent'
    <3>1. ASSUME NEW q \in Procs \ {p}, Waiting(q)' PROVE job'[q].version \notin spent'
      <4>1. Waiting(q) /\ job'[q] = job[q]
        BY <2>1, <3>1
      <4>2. job[q].version # old
        BY <2>0, <2>1, <4>1
      <4>3. job[q].version \notin spent
        BY <4>1
      <4> HIDE DEF Gone, Waiting, old, rp
      <4> QED
        BY <2>1, <4>1, <4>2, <4>3
    <3> QED
      BY <3>1
  <2>8. Traded(p)' /\ ~Waiting(p)' /\ job'[p].kind = "refresh" /\ job'[p].provider = rp
    BY <2>1
  <2>9. \A q \in Procs \ {p} : /\ thread'[q] \notin {"write", "close"}
                               /\ refreshing'[q] = NoProvider
    BY <2>1, <2>2
  <2> HIDE DEF Gone, Waiting, Traded, rp, old
  <2> QED
    BY <2>5, <2>6, <2>7, <2>8, <2>9
<1>12. ASSUME NEW p \in Procs, RefreshFails(p) PROVE Unspent'
  BY <1>12 DEF RefreshFails, WithLock, Release, Loading
<1>13. ASSUME NEW p \in Procs, Truncate(p) PROVE Unspent'
  BY <1>13 DEF Truncate, Empty
<1>14. ASSUME NEW p \in Procs, Close(p) PROVE Unspent'
  BY <1>14 DEF Close, Return, Release
<1>15. ASSUME NEW p \in Procs, Crash(p) PROVE Unspent'
  BY <1>15 DEF Crash
<1>16. ASSUME NEW v \in Versions, Expire(v) PROVE Unspent'
  BY <1>16 DEF Expire
<1>18. ASSUME NEW p \in Procs, WriteFails(p) PROVE Unspent'
  <2>1. /\ UNCHANGED <<merged, refreshing, alive, spent>> /\ thread[p] \in {"write", "close"}
        /\ \A q \in Procs \ {p} : job'[q] = job[q] /\ thread'[q] = thread[q]
        /\ thread'[p] \notin {"write", "close"} /\ ~Waiting(p)'
    BY <1>18 DEF WriteFails, WithLock, Return, Loading
  <2>2. wasted \subseteq wasted' /\ Gone' \subseteq Gone /\ 0 \notin Gone
    <3>1. wasted \subseteq wasted'
      BY <1>18 DEF WriteFails
    <3>2. 0 \notin spent
      OBVIOUS
    <3> QED
      BY <2>1, <3>1, <3>2
  <2>3. \A q \in Procs \ {p} : /\ thread[q] \notin {"write", "close"}
                               /\ refreshing[q] = NoProvider
    BY <2>1
  <2>4. \A r \in Providers : file'[r] \notin Gone'
    <3>1. CASE thread[p] = "write"
      <4>1. file' = file
        BY <1>18, <3>1 DEF WriteFails
      <4>2. ASSUME NEW r \in Providers, file[r] \in Gone PROVE file[r] \in wasted'
        <5>1. job[p].kind = "refresh" /\ r = job[p].provider
          BY <3>1, <4>2
        <5> QED
          BY <1>18, <5>1 DEF WriteFails
      <4> QED
        BY <2>2, <4>1, <4>2
    <3>2. CASE thread[p] # "write"
      <4>1. \A r \in Providers : file'[r] = 0
        BY <1>18, <3>2 DEF WriteFails, Empty
      <4> QED
        BY <2>2, <4>1
    <3> QED
      BY <3>1, <3>2
  <2>5. \A q \in Procs : Waiting(q)' => q # p /\ Waiting(q) /\ job'[q] = job[q]
    BY <2>1
  <2>6. \A q \in Procs : thread'[q] \notin {"write", "close"}
    BY <2>1, <2>3
  <2>7. \A q \in Procs : refreshing'[q] = NoProvider
    BY <2>1, <2>3
  <2> HIDE DEF Gone, Waiting, Traded
  <2> QED
    BY <2>1, <2>4, <2>5, <2>6, <2>7
<1>17. CASE UNCHANGED vars
  BY <1>17 DEF vars
<1> QED
  BY <1>1, <1>2, <1>3, <1>4, <1>5, <1>6, <1>7, <1>8, <1>9,
     <1>10, <1>11, <1>12, <1>13, <1>14, <1>15, <1>16, <1>17, <1>18
  DEF Next, Client, Runs

(* The credentials that are there initially are apart, and none is spent.    *)
LEMMA InitSInv == Init => SInv
<1> SUFFICES ASSUME Init PROVE SInv
  OBVIOUS
<1>1. IInv
  BY InitIInv
<1>2. PICK c \in Contents : /\ file = c /\ merged = [p \in Procs |-> c] /\ Distinct(c)
                            /\ \A r \in Providers : c[r] <= fresh
  BY DEF Init, Distinct
<1>3. fresh \in Nat
  BY CredentialsAssumption, FS_CardinalityType DEF Init
<1>4. Made
  BY <1>2, <1>3 DEF Init, Made, Loading
<1>5. Apart
  BY <1>2 DEF Init, Apart, Holds, Waiting
<1>6. Unspent
  BY DEF Init, Unspent, Gone, Waiting
<1>7. ReadStands
  BY DEF Init, ReadStands
<1> QED
  BY <1>1, <1>4, <1>5, <1>6, <1>7 DEF SInv

-----------------------------------------------------------------------------
(* The inductive invariant holds in every reachable state.                   *)
LEMMA SpecIInv == Spec => []IInv
<1>1. Init => IInv
  BY InitIInv
<1>2. IInv /\ [Next]_vars => IInv'
  BY NextTypeOK, NextJobsNamed, NextExclusive, NextKept DEF IInv
<1> QED
  BY <1>1, <1>2, PTL DEF Spec

(* with_lock and with_lock_async always leave every state variable, files,  *)
(* lock and memory, with a value of its type.                                *)
THEOREM CredentialsTypeOK == Spec => []TypeOK
BY SpecIInv, PTL DEF IInv

(* No two processes are between reading the file and removing the lock file, *)
(* however many die there: FileLock excludes them, over awaits too.          *)
THEOREM LockExcludes ==
  Spec => [](\A p, q \in Procs : Inside(p) /\ Inside(q) => p = q)
<1>1. IInv => \A p, q \in Procs : Inside(p) /\ Inside(q) => p = q
  BY DEF IInv, Exclusive
<1> QED
  BY <1>1, SpecIInv, PTL

(* No set(), remove() or refresh of one process undoes another's, nor one    *)
(* that fails to open the file: with no lock file about, the file holds the  *)
(* last completed update of every provider, unless _ensure_file_exists or a  *)
(* write that failed emptied it.                                             *)
THEOREM NoUpdateLost == Spec => []CommittedKept
<1>1. IInv => CommittedKept
  BY DEF IInv, Kept, CommittedKept
<1> QED
  BY <1>1, SpecIInv, PTL

(* A refresh token is never sent to its provider twice, nor by two processes *)
(* at a time, crashes between the answer and the file included: what a       *)
(* process reads under the lock was not traded, and the trade is written, or *)
(* the lock is never released, or the refresh or the write failed, the one   *)
(* exception (_refresh_oauth_token_with_lock).                               *)
THEOREM TokensSpentOnce == Spec => []TokenSpentOnce
<1>1. Init => SInv
  BY InitSInv
<1>2. SInv /\ [Next]_vars => SInv'
  BY NextTypeOK, NextJobsNamed, NextExclusive, NextKept, NextMade, NextReadStands,
     NextApart, NextUnspent
  DEF SInv, IInv
<1>3. SInv => TokenSpentOnce
  <2> SUFFICES ASSUME SInv, NEW p \in alive, refreshing[p] # NoProvider
               PROVE  /\ merged[p][refreshing[p]] \notin spent \ wasted
                      /\ \A q \in alive \ {p} : refreshing[q] # refreshing[p]
    BY DEF TokenSpentOnce
  <2>1. p \in Procs /\ alive \subseteq Procs /\ refreshing[p] \in Providers
    BY DEF SInv, IInv, TypeOK
  <2>2. merged[p][refreshing[p]] \notin spent \ wasted
    BY <2>1 DEF SInv, Unspent, Gone
  <2>3. \A q \in alive \ {p} : refreshing[q] = NoProvider
    BY <2>1 DEF SInv, IInv, Exclusive, Inside
  <2> QED
    BY <2>2, <2>3
<1> QED
  BY <1>1, <1>2, <1>3, PTL DEF Spec
=============================================================================
