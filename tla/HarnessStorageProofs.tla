------------------------ MODULE HarnessStorageProofs ------------------------
(* That a storage remembers what a reader of its session's file would find,  *)
(* for any clients, sessions and bounds: that keeping the leaf and the labels*)
(* up to date entry by entry comes to the same as replaying the entries.     *)
EXTENDS HarnessStorage, SelectionProofs

Types == {"user", "assistant", "label", "leaf", "garbage"}
Entries == [id : Nat, type : Types, parent : Nat, target : Nat, set : BOOLEAN]
Memories == [entries : Seq(Entries), leaf : Nat, labels : SUBSET Nat]
Files == [made : BOOLEAN, lines : Seq(Entries), cut : BOOLEAN]

Shapes ==
  /\ files \in [Sessions -> Files]
  /\ at \in [Clients -> Sessions \cup {"none"}]
  /\ mem \in [Clients -> Memories]
  /\ next \in Nat

(* A client's session has its file; and a storage whose file nobody else     *)
(* wrote to and every line of which is an entry has the memory of a reader,  *)
(* also while the last line is cut short: the next one makes it garbage.     *)
Kept(c) ==
  at[c] # "none" =>
    /\ files[at[c]].made
    /\ c \notin stale /\ Garbage \notin Range(files[at[c]].lines) =>
         mem[c] = Opened(files[at[c]].lines)
FilesAreKept == \A c \in Clients : Kept(c)

IInv == Shapes /\ FilesAreKept

-----------------------------------------------------------------------------
(* A list of entries has a label on what its last label entry about it sets. *)
About(e, t) == e.type = "label" /\ e.target = t
Labelled(s, n, t) ==
  \E i \in 1..n : /\ About(s[i], t) /\ s[i].set
                  /\ \A j \in i + 1..n : ~About(s[j], t)
LabelledOf(s, n) == {t \in Nat : Labelled(s, n, t)}

LEMMA LabelledNext ==
  ASSUME NEW s \in Seq(Entries), NEW n \in 1..Len(s)
  PROVE  LabelledOf(s, n) = LabelsAfter(LabelledOf(s, n - 1), s[n])
<1> DEFINE e == s[n]
<1>1. /\ e \in Entries /\ n \in Nat /\ n - 1 \in Nat
      /\ \A i \in 1..n : i = n \/ i \in 1..n - 1
      /\ \A i \in 1..n - 1 : i \in 1..n /\ n \in i + 1..n /\ \A j \in i + 1..n : j = n \/ j \in i + 1..n - 1
      /\ \A i \in 1..n - 1 : \A j \in i + 1..n - 1 : j \in i + 1..n
      /\ n \in 1..n /\ \A j \in n + 1..n : FALSE
  OBVIOUS
<1>2. ASSUME NEW t \in Nat, About(e, t) PROVE Labelled(s, n, t) <=> e.set
  BY <1>1, <1>2 DEF Labelled
<1>3. ASSUME NEW t \in Nat, ~About(e, t) PROVE Labelled(s, n, t) <=> Labelled(s, n - 1, t)
  BY <1>1, <1>3 DEF Labelled
<1>4. CASE e.type # "label"
  BY <1>3, <1>4 DEF LabelledOf, LabelsAfter, About
<1>5. CASE e.type = "label"
  <2>1. e.target \in Nat /\ e.set \in BOOLEAN
    BY <1>1 DEF Entries
  <2>2. \A t \in Nat : About(e, t) <=> t = e.target
    BY <1>5 DEF About
  <2>3. \A t \in Nat : Labelled(s, n, t) <=> IF t = e.target THEN e.set ELSE Labelled(s, n - 1, t)
    BY <1>2, <1>3, <2>2
  <2> HIDE DEF e
  <2>4. LabelledOf(s, n) = LabelsAfter(LabelledOf(s, n - 1), e)
    BY <1>5, <2>1, <2>3 DEF LabelledOf, LabelsAfter
  <2> QED
    BY <2>4 DEF e
<1> QED
  BY <1>4, <1>5

(* The replay of the labels is a recursive function: it exists, for these    *)
(* are its values, and has no others.                                        *)
LEMMA LabelsAreLast ==
  ASSUME NEW s \in Seq(Entries)
  PROVE  LabelsOf(s) = LabelledOf(s, Len(s))
<1> DEFINE N == Len(s)
           F == CHOOSE f : f = [n \in 0..N |-> IF n = 0 THEN {} ELSE LabelsAfter(f[n - 1], s[n])]
           g == [n \in 0..N |-> LabelledOf(s, n)]
<1>1. N \in Nat
  OBVIOUS
<1>2. LabelledOf(s, 0) = {}
  BY DEF LabelledOf, Labelled
<1>3. \A n \in 1..N : n - 1 \in 0..N /\ n # 0 /\ n \in 0..N
  BY <1>1
<1>4. g = [n \in 0..N |-> IF n = 0 THEN {} ELSE LabelsAfter(g[n - 1], s[n])]
  <2>1. ASSUME NEW n \in 0..N PROVE g[n] = IF n = 0 THEN {} ELSE LabelsAfter(g[n - 1], s[n])
    <3>1. n = 0 \/ n \in 1..N
      BY <1>1
    <3> QED
      BY <1>2, <1>3, <3>1, LabelledNext
  <2> QED
    BY <2>1
<1> HIDE DEF g
<1>5. F = [n \in 0..N |-> IF n = 0 THEN {} ELSE LabelsAfter(F[n - 1], s[n])]
  BY <1>4
<1> HIDE DEF F
<1> DEFINE A == {n \in Nat : n <= N => F[n] = LabelledOf(s, n)}
<1>6. 0 \in A
  <2>1. 0 \in 0..N
    BY <1>1
  <2> QED
    BY <1>2, <1>5, <2>1
<1>7. ASSUME NEW n \in A PROVE n + 1 \in A
  <2> SUFFICES ASSUME n + 1 <= N PROVE F[n + 1] = LabelledOf(s, n + 1)
    OBVIOUS
  <2>1. n \in Nat /\ n <= N /\ n + 1 \in 0..N /\ n + 1 \in 1..N /\ n + 1 # 0 /\ (n + 1) - 1 = n
    BY <1>1
  <2>2. F[n + 1] = LabelsAfter(F[n], s[n + 1])
    BY <1>5, <2>1
  <2> QED
    BY <2>1, <2>2, LabelledNext
<1>8. A = Nat
  <2>1. A \in SUBSET Nat
    OBVIOUS
  <2> HIDE DEF A
  <2> QED
    BY <1>6, <1>7, <2>1, Induction
<1>9. F[N] = LabelledOf(s, N)
  BY <1>1, <1>8
<1> QED
  BY <1>9 DEF LabelsOf, F

LEMMA LabelsAppend ==
  ASSUME NEW s \in Seq(Entries), NEW e \in Entries
  PROVE  LabelsOf(Append(s, e)) = LabelsAfter(LabelsOf(s), e)
<1> DEFINE t == Append(s, e)
           n == Len(s)
<1>1. /\ t \in Seq(Entries) /\ Len(t) = n + 1 /\ n \in Nat /\ t[n + 1] = e
      /\ \A i \in 1..n : t[i] = s[i]
      /\ n + 1 \in 1..Len(t) /\ (n + 1) - 1 = n
  BY AppendProperties
<1> HIDE DEF t, n
<1>2. LabelledOf(t, n) = LabelledOf(s, n)
  <2>1. \A i \in 1..n : \A j \in i + 1..n : j \in 1..n
    BY <1>1
  <2> QED
    BY <1>1, <2>1 DEF LabelledOf, Labelled
<1>3. LabelledOf(t, n + 1) = LabelsAfter(LabelledOf(t, n), e)
  BY <1>1, LabelledNext
<1> QED
  BY <1>1, <1>2, <1>3, LabelsAreLast DEF t, n

(* The memory of a reader, entry by entry.                                   *)
LEMMA OpenedNothing == Opened(<<>>) = Nothing
<1>1. <<>> \in Seq(Entries) /\ Len(<<>>) = 0
  OBVIOUS
<1>2. LabelledOf(<<>>, 0) = {}
  BY DEF LabelledOf, Labelled
<1> QED
  BY <1>1, <1>2, LabelsAreLast DEF Opened, Nothing

LEMMA OpenedAppend ==
  ASSUME NEW s \in Seq(Entries), NEW e \in Entries
  PROVE  Opened(Append(s, e)) = Remember(Opened(s), e)
<1>1. Append(s, e) # <<>> /\ Last(Append(s, e)) = e
  BY AppendProperties DEF Last
<1> QED
  BY <1>1, LabelsAppend DEF Opened, Remember

LEMMA OpenedType == ASSUME NEW s \in Seq(Entries) PROVE Opened(s) \in Memories
<1>1. LabelsOf(s) \in SUBSET Nat
  BY LabelsAreLast DEF LabelledOf
<1>2. s # <<>> => Last(s) \in Entries
  BY DEF Last
<1>3. s # <<>> => LeafAfter(Last(s)) \in Nat
  BY <1>2 DEF LeafAfter, Entries
<1> QED
  BY <1>1, <1>3 DEF Opened, Memories

(* Who appends entries to an empty memory, one by one, has that of a reader. *)
LEMMA RememberedIsOpened ==
  ASSUME NEW s \in Seq(Entries)
  PROVE  Remembered(s) = Opened(s)
<1> DEFINE N == Len(s)
           F == CHOOSE f : f = [n \in 0..N |-> IF n = 0 THEN Nothing ELSE Remember(f[n - 1], s[n])]
           g == [n \in 0..N |-> Opened(SubSeq(s, 1, n))]
<1>1. N \in Nat /\ SubSeq(s, 1, N) = s /\ SubSeq(s, 1, 0) = <<>>
  OBVIOUS
<1>2. \A n \in 1..N : n - 1 \in 0..N /\ n # 0 /\ n \in 0..N
  BY <1>1
<1>3. ASSUME NEW n \in 1..N
      PROVE  Opened(SubSeq(s, 1, n)) = Remember(Opened(SubSeq(s, 1, n - 1)), s[n])
  <2> DEFINE a == SubSeq(s, 1, n)
             b == SubSeq(s, 1, n - 1)
  <2>1. /\ n - 1 \in Nat /\ (n - 1) + 1 = n /\ s[n] \in Entries
        /\ a \in Seq(Entries) /\ Len(a) = n /\ b \in Seq(Entries) /\ Len(b) = n - 1
        /\ a[n] = s[n] /\ \A i \in 1..n - 1 : b[i] = a[i]
    BY <1>1
  <2> HIDE DEF a, b
  <2>2. a = Append(b, s[n])
    BY <2>1, AppendsLast
  <2>3. Opened(a) = Remember(Opened(b), s[n])
    BY <2>1, <2>2, OpenedAppend
  <2> QED
    BY <2>3 DEF a, b
<1>4. g = [n \in 0..N |-> IF n = 0 THEN Nothing ELSE Remember(g[n - 1], s[n])]
  <2>1. ASSUME NEW n \in 0..N PROVE g[n] = IF n = 0 THEN Nothing ELSE Remember(g[n - 1], s[n])
    <3>1. n = 0 \/ n \in 1..N
      BY <1>1
    <3>2. CASE n = 0
      BY <1>1, <3>2, OpenedNothing
    <3>3. CASE n \in 1..N
      BY <1>2, <1>3, <3>3
    <3> QED
      BY <3>1, <3>2, <3>3
  <2> QED
    BY <2>1
<1> HIDE DEF g
<1>5. F = [n \in 0..N |-> IF n = 0 THEN Nothing ELSE Remember(F[n - 1], s[n])]
  BY <1>4
<1> HIDE DEF F
<1> DEFINE A == {n \in Nat : n <= N => F[n] = Opened(SubSeq(s, 1, n))}
<1>6. 0 \in A
  <2>1. 0 \in 0..N
    BY <1>1
  <2> QED
    BY <1>1, <1>5, <2>1, OpenedNothing
<1>7. ASSUME NEW n \in A PROVE n + 1 \in A
  <2> SUFFICES ASSUME n + 1 <= N PROVE F[n + 1] = Opened(SubSeq(s, 1, n + 1))
    OBVIOUS
  <2>1. n \in Nat /\ n <= N /\ n + 1 \in 0..N /\ n + 1 \in 1..N /\ n + 1 # 0 /\ (n + 1) - 1 = n
    BY <1>1
  <2>2. F[n + 1] = Remember(F[n], s[n + 1])
    BY <1>5, <2>1
  <2> QED
    BY <1>3, <2>1, <2>2
<1>8. A = Nat
  <2>1. A \in SUBSET Nat
    OBVIOUS
  <2> HIDE DEF A
  <2> QED
    BY <1>6, <1>7, <2>1, Induction
<1>9. F[N] = Opened(s)
  <2>1. N \in A /\ N <= N
    BY <1>1, <1>8
  <2>2. F[N] = Opened(SubSeq(s, 1, N))
    BY <2>1
  <2> QED
    BY <1>1, <2>2
<1> QED
  BY <1>9 DEF Remembered, F

-----------------------------------------------------------------------------
(* The path to the root is a list of the entries' ids.                       *)
ParentAt(s, i) ==
  IF s[i].parent \in Ids(SubSeq(s, 1, i - 1))
    THEN CHOOSE j \in 1..(i - 1) : s[j].id = s[i].parent ELSE 0

LEMMA ParentIsBefore ==
  ASSUME NEW s \in Seq(Entries), NEW i \in 1..Len(s)
  PROVE  ParentAt(s, i) \in 0..(i - 1)
<1> DEFINE t == SubSeq(s, 1, i - 1)
<1>1. Len(t) = i - 1 /\ \A j \in 1..(i - 1) : t[j] = s[j]
  OBVIOUS
<1> HIDE DEF t
<1>2. s[i].parent \in Ids(t) => \E j \in 1..(i - 1) : s[j].id = s[i].parent
  BY <1>1 DEF Ids
<1> DEFINE p == CHOOSE j \in 1..(i - 1) : s[j].id = s[i].parent
<1>3. s[i].parent \in Ids(t) => p \in 1..(i - 1)
  BY <1>2
<1> HIDE DEF p
<1>4. (IF s[i].parent \in Ids(t) THEN p ELSE 0) \in 0..(i - 1)
  BY <1>3
<1> QED
  BY <1>4 DEF ParentAt, t, p

UpTo(s, f, n) ==
  f = [i \in 0..n |-> IF i = 0 THEN <<>> ELSE Append(f[ParentAt(s, i)], s[i].id)]

LEMMA PathsExist ==
  ASSUME NEW s \in Seq(Entries)
  PROVE  \A n \in Nat : n <= Len(s) => \E f : UpTo(s, f, n)
<1> DEFINE A == {n \in Nat : n <= Len(s) => \E f : UpTo(s, f, n)}
<1>1. 0 \in A
  <2> DEFINE f == [i \in 0..0 |-> <<>>]
  <2>1. UpTo(s, f, 0)
    BY DEF UpTo
  <2> QED
    BY <2>1
<1>2. ASSUME NEW n \in A PROVE n + 1 \in A
  <2> SUFFICES ASSUME n + 1 <= Len(s) PROVE \E f : UpTo(s, f, n + 1)
    OBVIOUS
  <2>1. n \in Nat /\ n <= Len(s) /\ n + 1 \in 1..Len(s) /\ (n + 1) - 1 = n /\ n + 1 # 0
    OBVIOUS
  <2>2. PICK f : UpTo(s, f, n)
    BY <2>1
  <2> DEFINE new == Append(f[ParentAt(s, n + 1)], s[n + 1].id)
             h == [i \in 0..(n + 1) |-> IF i = n + 1 THEN new ELSE f[i]]
  <2>3. /\ \A i \in 0..n : h[i] = f[i] /\ i \in 0..(n + 1)
        /\ \A i \in 0..(n + 1) : i = n + 1 \/ i \in 0..n
        /\ h[n + 1] = new
    BY <2>1
  <2>4. h = [i \in 0..(n + 1) |-> h[i]]
    OBVIOUS
  <2> HIDE DEF h
  <2>5. ASSUME NEW i \in 0..(n + 1)
        PROVE  h[i] = IF i = 0 THEN <<>> ELSE Append(h[ParentAt(s, i)], s[i].id)
    <3>1. ASSUME i # 0 PROVE ParentAt(s, i) \in 0..n /\ h[ParentAt(s, i)] = f[ParentAt(s, i)]
      <4>1. i \in 1..Len(s) /\ i - 1 <= n
        BY <2>1, <3>1
      <4>2. ParentAt(s, i) \in 0..(i - 1)
        BY <4>1, ParentIsBefore
      <4>3. ParentAt(s, i) \in 0..n
        BY <2>1, <4>1, <4>2
      <4> QED
        BY <2>3, <4>3
    <3>2. CASE i = n + 1
      BY <2>1, <2>3, <3>1, <3>2
    <3>3. CASE i \in 0..n
      <4>1. f[i] = IF i = 0 THEN <<>> ELSE Append(f[ParentAt(s, i)], s[i].id)
        BY <2>2, <3>3 DEF UpTo
      <4> QED
        BY <2>3, <3>1, <3>3, <4>1
    <3> QED
      BY <2>3, <3>2, <3>3
  <2>6. UpTo(s, h, n + 1)
    BY <2>4, <2>5 DEF UpTo
  <2> QED
    BY <2>6
<1>3. A = Nat
  <2>1. A \in SUBSET Nat
    OBVIOUS
  <2> HIDE DEF A
  <2> QED
    BY <1>1, <1>2, <2>1, Induction
<1> QED
  BY <1>3

LEMMA PathsType ==
  ASSUME NEW s \in Seq(Entries), NEW f, UpTo(s, f, Len(s))
  PROVE  \A i \in 0..Len(s) : f[i] \in Seq(Ids(s))
<1> DEFINE A == {n \in Nat : \A i \in 0..n : i <= Len(s) => f[i] \in Seq(Ids(s))}
<1>0. /\ Len(s) \in Nat
      /\ \A i \in 0..Len(s) : f[i] = IF i = 0 THEN <<>> ELSE Append(f[ParentAt(s, i)], s[i].id)
  <2> DEFINE v(i) == IF i = 0 THEN <<>> ELSE Append(f[ParentAt(s, i)], s[i].id)
  <2>1. f = [i \in 0..Len(s) |-> v(i)]
    BY DEF UpTo
  <2> HIDE DEF v
  <2>2. \A i \in 0..Len(s) : f[i] = v(i)
    BY <2>1
  <2> QED
    BY <2>2 DEF v
<1>1. 0 \in A
  <2>1. 0 \in 0..Len(s) /\ \A i \in 0..0 : i = 0
    BY <1>0
  <2>2. f[0] = <<>>
    BY <1>0, <2>1
  <2>3. <<>> \in Seq(Ids(s))
    OBVIOUS
  <2> QED
    BY <2>1, <2>2, <2>3
<1>2. ASSUME NEW n \in A PROVE n + 1 \in A
  <2>1. n \in Nat /\ \A i \in 0..(n + 1) : i \in 0..n \/ i = n + 1
    OBVIOUS
  <2> SUFFICES ASSUME n + 1 <= Len(s) PROVE f[n + 1] \in Seq(Ids(s))
    BY <2>1
  <2>2. n + 1 \in 0..Len(s) /\ n + 1 \in 1..Len(s) /\ n + 1 # 0 /\ (n + 1) - 1 = n
    BY <1>0, <2>1
  <2>3. ParentAt(s, n + 1) \in 0..n
    BY <2>2, ParentIsBefore
  <2>4. f[ParentAt(s, n + 1)] \in Seq(Ids(s))
    BY <1>0, <2>1, <2>2, <2>3
  <2>5. s[n + 1].id \in Ids(s)
    BY <2>2 DEF Ids
  <2>6. Append(f[ParentAt(s, n + 1)], s[n + 1].id) \in Seq(Ids(s))
    BY <2>4, <2>5
  <2> QED
    BY <1>0, <2>2, <2>6
<1>3. A = Nat
  <2>1. A \in SUBSET Nat
    OBVIOUS
  <2> HIDE DEF A
  <2> QED
    BY <1>1, <1>2, <2>1, Induction
<1>4. \A i \in 0..Len(s) : i \in 0..Len(s) /\ i <= Len(s)
  BY <1>0
<1> QED
  BY <1>0, <1>3, <1>4

LEMMA PathIdsType ==
  ASSUME NEW s \in Seq(Entries), NEW leaf
  PROVE  PathIds(s, leaf) \in Seq(Ids(s))
<1> DEFINE F == CHOOSE f : UpTo(s, f, Len(s))
           i == CHOOSE i \in 1..Len(s) : s[i].id = leaf
<1>1. UpTo(s, F, Len(s))
  <2>1. Len(s) \in Nat /\ Len(s) <= Len(s)
    OBVIOUS
  <2>2. \E f : UpTo(s, f, Len(s))
    BY <2>1, PathsExist
  <2> QED
    BY <2>2
<1>2. PathIds(s, leaf) = IF leaf \in Ids(s) THEN F[i] ELSE <<>>
  BY DEF PathIds, UpTo, ParentAt
<1>3. ASSUME leaf \in Ids(s) PROVE i \in 0..Len(s)
  <2>1. \E j \in 1..Len(s) : s[j].id = leaf
    BY <1>3 DEF Ids
  <2>2. i \in 1..Len(s)
    BY <2>1
  <2> QED
    BY <2>2
<1> HIDE DEF F, i
<1>4. leaf \in Ids(s) => F[i] \in Seq(Ids(s))
  BY <1>1, <1>3, PathsType
<1>5. <<>> \in Seq(Ids(s))
  OBVIOUS
<1> QED
  BY <1>2, <1>4, <1>5

LEMMA ByIdType ==
  ASSUME NEW s \in Seq(Entries), NEW id \in Ids(s)
  PROVE  ById(s, id) \in Entries
<1> DEFINE i == CHOOSE i \in 1..Len(s) : s[i].id = id
<1>1. \E j \in 1..Len(s) : s[j].id = id
  BY DEF Ids
<1>2. i \in 1..Len(s)
  BY <1>1
<1> HIDE DEF i
<1>3. s[i] \in Entries
  BY <1>2
<1> QED
  BY <1>3 DEF ById, i

LEMMA ToForkType ==
  ASSUME NEW s \in Seq(Entries), NEW entry, NEW position
  PROVE  ToFork(Opened(s), entry, position) \in Seq(Entries)
<1>1. Opened(s).entries = s
  BY DEF Opened
<1> DEFINE e == ById(s, entry)
           path == PathIds(s, IF position = "at" THEN e.id ELSE e.parent)
<1>2. path \in Seq(Ids(s))
  BY PathIdsType
<1>3. ToFork(Opened(s), entry, position)
        = IF entry = 0 THEN s ELSE [i \in 1..Len(path) |-> ById(s, path[i])]
  BY <1>1 DEF ToFork
<1> HIDE DEF path
<1>4. Len(path) \in Nat /\ \A i \in 1..Len(path) : path[i] \in Ids(s)
  BY <1>2
<1>5. \A i \in 1..Len(path) : ById(s, path[i]) \in Entries
  BY <1>4, ByIdType
<1>6. [i \in 1..Len(path) |-> ById(s, path[i])] \in Seq(Entries)
  BY <1>4, <1>5
<1> QED
  BY <1>3, <1>6

-----------------------------------------------------------------------------
LEMMA GarbageIsRead == Garbage \in Entries /\ NoFile \in Files /\ Nothing \in Memories
BY DEF Garbage, NoFile, Nothing, Entries, Files, Memories, Types

LEMMA RangeAppend ==
  ASSUME NEW s \in Seq(Entries), NEW e \in Entries
  PROVE  Range(Append(s, e)) = Range(s) \cup {e}
<1> DEFINE t == Append(s, e)
           n == Len(s)
<1>1. /\ DOMAIN t = 1..n + 1 /\ DOMAIN s = 1..n /\ n \in Nat /\ t[n + 1] = e
      /\ \A i \in 1..n : t[i] = s[i]
  OBVIOUS
<1>2. n + 1 \in 1..n + 1 /\ (\A i \in 1..n + 1 : i = n + 1 \/ i \in 1..n) /\ \A i \in 1..n : i \in 1..n + 1
  BY <1>1
<1> HIDE DEF t, n
<1>3. Range(t) = Range(s) \cup {e}
  BY <1>1, <1>2 DEF Range
<1> QED
  BY <1>3 DEF t

LEMMA RememberType ==
  ASSUME NEW m \in Memories, NEW e \in Entries
  PROVE  Remember(m, e) \in Memories
<1>1. /\ m.entries \in Seq(Entries) /\ m.leaf \in Nat /\ m.labels \in SUBSET Nat
      /\ e.id \in Nat /\ e.target \in Nat
  BY DEF Memories, Entries
<1>2. Append(m.entries, e) \in Seq(Entries)
  BY <1>1
<1>3. LeafAfter(e) \in Nat /\ LabelsAfter(m.labels, e) \in SUBSET Nat
  BY <1>1 DEF LeafAfter, LabelsAfter
<1> QED
  BY <1>2, <1>3 DEF Remember, Memories

(* Where a client's storage, memory and file stand still, nothing is lost.   *)
LEMMA StillKept ==
  ASSUME NEW d \in Clients, Kept(d), at'[d] = at[d], mem'[d] = mem[d],
         d \in stale => d \in stale',
         at[d] # "none" => /\ files'[at[d]].made = files[at[d]].made
                           /\ files'[at[d]].lines = files[at[d]].lines
  PROVE  Kept(d)'
BY DEF Kept

(* A file that nobody has open may change.                                   *)
LEMMA OthersFile ==
  ASSUME IInv, NEW d \in Clients, NEW s \in Sessions,
         at'[d] = at[d], mem'[d] = mem[d], d \in stale => d \in stale',
         \A r \in Sessions \ {s} : files'[r] = files[r],
         at[d] # s
  PROVE  Kept(d)'
<1>1. Kept(d)
  BY DEF IInv, FilesAreKept
<1>2. at[d] # "none" => at[d] \in Sessions \ {s}
  BY DEF IInv, Shapes
<1> QED
  BY <1>1, <1>2, StillKept

-----------------------------------------------------------------------------
LEMMA InitIInv == Init => IInv
<1> SUFFICES ASSUME Init PROVE IInv
  OBVIOUS
<1>1. Shapes
  BY GarbageIsRead DEF Init, Shapes
<1>2. FilesAreKept
  BY DEF Init, FilesAreKept, Kept
<1> QED
  BY <1>1, <1>2 DEF IInv

LEMMA CreateIInv ==
  ASSUME IInv, NEW c \in Clients, NEW s \in Sessions, Create(c, s)
  PROVE  IInv'
<1> USE DEF IInv, Create
<1>1. [NoFile EXCEPT !.made = TRUE] \in Files
  BY GarbageIsRead DEF NoFile, Files
<1>2. Shapes'
  BY <1>1, GarbageIsRead DEF Shapes
<1>3. /\ files'[s].made /\ files'[s].lines = <<>> /\ at'[c] = s /\ mem'[c] = Nothing
      /\ \A r \in Sessions \ {s} : files'[r] = files[r]
      /\ \A d \in Clients \ {c} : at'[d] = at[d] /\ mem'[d] = mem[d]
  BY DEF Shapes, NoFile
<1>4. ASSUME NEW d \in Clients PROVE Kept(d)'
  <2>1. CASE d = c
    BY <1>3, <2>1, OpenedNothing DEF Kept
  <2>2. CASE d # c /\ at[d] # s
    BY <1>3, <2>2, OthersFile
  <2>3. CASE d # c /\ at[d] = s
    <3>1. Kept(d) /\ at'[d] = "none"
      BY <1>3, <2>3 DEF FilesAreKept, Kept
    <3> QED
      BY <3>1 DEF Kept
  <2> QED
    BY <2>1, <2>2, <2>3
<1> QED
  BY <1>2, <1>4 DEF FilesAreKept

LEMMA OpenIInv ==
  ASSUME IInv, NEW c \in Clients, NEW s \in Sessions, Open(c, s)
  PROVE  IInv'
<1> USE DEF IInv, Open
<1>1. Opened(files[s].lines) \in Memories
  BY OpenedType DEF Shapes, Files
<1>2. Shapes'
  BY <1>1 DEF Shapes
<1>3. /\ at'[c] = s /\ mem'[c] = Opened(files[s].lines) /\ files[s].made
      /\ \A d \in Clients \ {c} : at'[d] = at[d] /\ mem'[d] = mem[d]
  BY DEF Shapes, Opens
<1>4. ASSUME NEW d \in Clients PROVE Kept(d)'
  <2>1. CASE d = c
    BY <1>3, <2>1 DEF Kept
  <2>2. CASE d # c
    BY <1>3, <2>2, StillKept DEF FilesAreKept
  <2> QED
    BY <2>1, <2>2
<1> QED
  BY <1>2, <1>4 DEF FilesAreKept

LEMMA DeleteIInv ==
  ASSUME IInv, NEW s \in Sessions, Delete(s)
  PROVE  IInv'
<1> USE DEF IInv, Delete
<1>1. Shapes'
  BY GarbageIsRead DEF Shapes
<1>2. \A r \in Sessions \ {s} : files'[r] = files[r]
  BY DEF Shapes
<1>3. ASSUME NEW d \in Clients PROVE Kept(d)'
  BY <1>2, OthersFile
<1> QED
  BY <1>1, <1>3 DEF FilesAreKept

(* The file first, and then the memory: both get the same entry.             *)
LEMMA StoreIInv ==
  ASSUME IInv, NEW c \in Clients, Made(c), NEW e \in Entries, Store(c, e)
  PROVE  IInv'
<1> USE DEF IInv, Store
<1> DEFINE s == at[c]
           f == files[s]
           line == IF f.cut THEN Garbage ELSE e
<1>1. s \in Sessions /\ f \in Files /\ mem[c] \in Memories /\ at' = at /\ next' = next + 1
  BY DEF Shapes, Made
<1>2. line \in Entries /\ f.lines \in Seq(Entries) /\ f.made \in BOOLEAN /\ f.cut \in BOOLEAN
  BY <1>1, GarbageIsRead DEF Files
<1>3. /\ Line(f, e) \in Files
      /\ Line(f, e).lines = Append(f.lines, line) /\ Line(f, e).made = f.made
  <2>1. Append(f.lines, line) \in Seq(Entries)
    BY <1>2
  <2>2. Line(f, e) = [[f EXCEPT !.lines = Append(f.lines, line)] EXCEPT !.cut = FALSE]
    BY <1>1 DEF Line, Files
  <2> HIDE DEF line
  <2> QED
    BY <1>1, <1>2, <2>1, <2>2 DEF Files
<1>4. /\ files'[s] = Line(f, e) /\ mem'[c] = Remember(mem[c], e)
      /\ \A r \in Sessions \ {s} : files'[r] = files[r]
      /\ \A d \in Clients \ {c} : mem'[d] = mem[d]
  BY <1>1 DEF Shapes
<1>5. Shapes'
  BY <1>1, <1>3, RememberType DEF Shapes
<1>6. Kept(c)'
  <2>1. Kept(c) /\ f.made
    BY DEF FilesAreKept, Kept, Made
  <2> SUFFICES ASSUME c \notin stale', Garbage \notin Range(files'[s].lines)
               PROVE  mem'[c] = Opened(files'[s].lines)
    BY <1>1, <1>3, <1>4, <2>1 DEF Kept
  <2>2. Range(files'[s].lines) = Range(f.lines) \cup {line}
    <3> HIDE DEF line, f, s
    <3>1. files'[s].lines = Append(f.lines, line)
      BY <1>3, <1>4
    <3> QED
      BY <1>2, <3>1, RangeAppend
  <2>3. line = e /\ Garbage \notin Range(f.lines) /\ c \notin stale
    BY <2>2
  <2>4. mem[c] = Opened(f.lines)
    BY <2>1, <2>3 DEF Kept, Made
  <2>5. files'[s].lines = Append(f.lines, e)
    BY <1>3, <1>4, <2>3
  <2> HIDE DEF line, f, s
  <2> QED
    BY <1>2, <1>4, <2>4, <2>5, OpenedAppend
<1>7. ASSUME NEW d \in Clients \ {c} PROVE Kept(d)'
  <2>1. CASE at[d] # s
    BY <1>1, <1>4, <2>1, OthersFile
  <2>2. CASE at[d] = s
    <3>1. d \in stale'
      BY <2>2 DEF Others
    <3>2. files'[s].made
      BY <1>3, <1>4 DEF FilesAreKept, Kept, Made
    <3> QED
      BY <1>1, <2>2, <3>1, <3>2 DEF Kept
  <2> QED
    BY <2>1, <2>2
<1> QED
  BY <1>5, <1>6, <1>7 DEF FilesAreKept

LEMMA EntryType ==
  ASSUME IInv, NEW c \in Clients, NEW type \in Types, NEW target \in Nat, NEW set \in BOOLEAN
  PROVE  Entry(c, type, target, set) \in Entries
<1>1. mem[c].leaf \in Nat /\ next \in Nat
  BY DEF IInv, Shapes, Memories
<1> QED
  BY <1>1 DEF Entry, Entries

LEMMA AppendMessageIInv ==
  ASSUME IInv, NEW c \in Clients, NEW type \in {"user", "assistant"}, AppendMessage(c, type)
  PROVE  IInv'
<1>1. type \in Types /\ 0 \in Nat /\ FALSE \in BOOLEAN
  BY DEF Types
<1>2. Entry(c, type, 0, FALSE) \in Entries
  BY <1>1, EntryType
<1> QED
  BY <1>2, StoreIInv DEF AppendMessage

LEMMA AppendLabelIInv ==
  ASSUME IInv, NEW c \in Clients, NEW target \in 1..MaxEntries, NEW set \in BOOLEAN,
         AppendLabel(c, target, set)
  PROVE  IInv'
<1>1. "label" \in Types /\ target \in Nat
  BY DEF Types
<1>2. Entry(c, "label", target, set) \in Entries
  BY <1>1, EntryType
<1> QED
  BY <1>2, StoreIInv DEF AppendLabel

LEMMA SetLeafIInv ==
  ASSUME IInv, NEW c \in Clients, NEW target \in 0..MaxEntries, SetLeaf(c, target)
  PROVE  IInv'
<1>1. "leaf" \in Types /\ target \in Nat /\ FALSE \in BOOLEAN
  BY DEF Types
<1>2. Entry(c, "leaf", target, FALSE) \in Entries
  BY <1>1, EntryType
<1> QED
  BY <1>2, StoreIInv DEF SetLeaf

(* A write that fails leaves the lines there were.                           *)
LEMMA CutFile ==
  ASSUME IInv, NEW c \in Clients, at[c] # "none", NEW part \in BOOLEAN,
         files' = [files EXCEPT ![at[c]].cut = @ \/ part]
  PROVE  /\ files' \in [Sessions -> Files]
         /\ \A s \in Sessions : files'[s].made = files[s].made /\ files'[s].lines = files[s].lines
<1>1. /\ at[c] \in Sessions /\ files \in [Sessions -> Files] /\ files[at[c]] \in Files
      /\ (files[at[c]].cut \/ part) \in BOOLEAN
  BY DEF IInv, Shapes
<1>2. files' = [files EXCEPT ![at[c]] = [files[at[c]] EXCEPT !.cut = files[at[c]].cut \/ part]]
  OBVIOUS
<1>3. [files[at[c]] EXCEPT !.cut = files[at[c]].cut \/ part] \in Files
  BY <1>1 DEF Files
<1>4. files' \in [Sessions -> Files]
  BY <1>1, <1>2, <1>3
<1>5. ASSUME NEW s \in Sessions
      PROVE  files'[s].made = files[s].made /\ files'[s].lines = files[s].lines
  BY <1>1, <1>2 DEF Files
<1> QED
  BY <1>4, <1>5

LEMMA AppendFailsIInv ==
  ASSUME IInv, NEW c \in Clients, AppendFails(c)
  PROVE  IInv'
<1>1. PICK part \in BOOLEAN : files' = [files EXCEPT ![at[c]].cut = @ \/ part]
  BY DEF AppendFails
<1>2. /\ files' \in [Sessions -> Files]
      /\ \A s \in Sessions : files'[s].made = files[s].made /\ files'[s].lines = files[s].lines
  BY <1>1, CutFile DEF AppendFails
<1>3. Shapes'
  BY <1>2 DEF IInv, Shapes, AppendFails
<1>4. ASSUME NEW d \in Clients PROVE Kept(d)'
  BY <1>2, StillKept DEF IInv, Shapes, FilesAreKept, AppendFails
<1> QED
  BY <1>3, <1>4 DEF IInv, FilesAreKept

LEMMA CrashIInv ==
  ASSUME IInv, NEW c \in Clients, Crash(c)
  PROVE  IInv'
<1>1. PICK part \in BOOLEAN : files' = [files EXCEPT ![at[c]].cut = @ \/ part]
  BY DEF Crash
<1>2. /\ files' \in [Sessions -> Files]
      /\ \A s \in Sessions : files'[s].made = files[s].made /\ files'[s].lines = files[s].lines
  BY <1>1, CutFile DEF Crash
<1>3. Shapes'
  BY <1>2, GarbageIsRead DEF IInv, Shapes, Crash
<1>4. at'[c] = "none" /\ \A d \in Clients \ {c} : at'[d] = at[d] /\ mem'[d] = mem[d]
  BY DEF IInv, Shapes, Crash
<1>5. Kept(c)'
  BY <1>4 DEF Kept
<1>6. ASSUME NEW d \in Clients \ {c} PROVE Kept(d)'
  <2>1. d \in stale => d \in stale'
    BY DEF Crash
  <2>2. at[d] # "none" => at[d] \in Sessions
    BY DEF IInv, Shapes
  <2> QED
    BY <1>2, <1>4, <2>1, <2>2, StillKept DEF IInv, FilesAreKept
<1> QED
  BY <1>3, <1>5, <1>6 DEF IInv, FilesAreKept

(* A fork that is done has the memory of a reader of the file that it made;  *)
(* one that the process dies in leaves a file that nobody has open.          *)
LEMMA ForkIInv ==
  ASSUME IInv, NEW c \in Clients, NEW s \in Sessions, NEW t \in Sessions,
         NEW entry, NEW position, Fork(c, s, t, entry, position)
  PROVE  IInv'
<1> DEFINE copies == ToFork(Opened(files[s].lines), entry, position)
           done == [made |-> TRUE, lines |-> copies, cut |-> FALSE]
<1>1. files[s].lines \in Seq(Entries) /\ Shapes /\ \A d \in Clients : Kept(d)
  BY DEF IInv, Shapes, FilesAreKept, Files
<1>2. copies \in Seq(Entries)
  BY <1>1, ToForkType
<1>3. ~files[t].made /\ at[c] = "none" /\ next' = next
  BY DEF Fork
<1>4. \A d \in Clients : at[d] # t \/ at[d] = "none"
  BY <1>1, <1>3 DEF Kept
<1>5. \/ /\ files' = [files EXCEPT ![t] = done]
         /\ at' = [at EXCEPT ![c] = t]
         /\ mem' = [mem EXCEPT ![c] = Remembered(copies)]
         /\ stale' = stale \ {c}
      \/ \E n \in 0..Len(copies), part \in BOOLEAN :
           /\ files' = [files EXCEPT ![t] = [made |-> TRUE, lines |-> SubSeq(copies, 1, n), cut |-> part]]
           /\ UNCHANGED <<at, mem, stale>>
  BY DEF Fork
<1> HIDE DEF copies
<1>6. ASSUME NEW d \in Clients, at'[d] = at[d], mem'[d] = mem[d], d \in stale => d \in stale',
             \A r \in Sessions \ {t} : files'[r] = files[r]
      PROVE  Kept(d)'
  <2>1. CASE at[d] = "none"
    BY <1>6, <2>1 DEF Kept
  <2>2. CASE at[d] # t
    BY <1>6, <2>2, OthersFile
  <2> QED
    BY <1>4, <2>1, <2>2
<1>7. CASE /\ files' = [files EXCEPT ![t] = done]
           /\ at' = [at EXCEPT ![c] = t]
           /\ mem' = [mem EXCEPT ![c] = Remembered(copies)]
           /\ stale' = stale \ {c}
  <2>1. done \in Files /\ Remembered(copies) = Opened(copies) /\ Opened(copies) \in Memories
    BY <1>2, RememberedIsOpened, OpenedType DEF Files
  <2>2. Shapes'
    BY <1>1, <1>3, <1>7, <2>1 DEF Shapes
  <2>3. /\ at'[c] = t /\ files'[t] = done /\ mem'[c] = Opened(copies)
        /\ \A d \in Clients \ {c} : at'[d] = at[d] /\ mem'[d] = mem[d]
        /\ \A r \in Sessions \ {t} : files'[r] = files[r]
    BY <1>1, <1>7, <2>1 DEF Shapes
  <2>4. Kept(c)'
    BY <2>3 DEF Kept
  <2>5. ASSUME NEW d \in Clients \ {c} PROVE Kept(d)'
    BY <1>6, <1>7, <2>3
  <2> QED
    BY <2>2, <2>4, <2>5 DEF IInv, FilesAreKept
<1>8. CASE \E n \in 0..Len(copies), part \in BOOLEAN :
             /\ files' = [files EXCEPT ![t] = [made |-> TRUE, lines |-> SubSeq(copies, 1, n), cut |-> part]]
             /\ UNCHANGED <<at, mem, stale>>
  <2>1. PICK n \in 0..Len(copies), part \in BOOLEAN :
          /\ files' = [files EXCEPT ![t] = [made |-> TRUE, lines |-> SubSeq(copies, 1, n), cut |-> part]]
          /\ UNCHANGED <<at, mem, stale>>
    BY <1>8
  <2>2. SubSeq(copies, 1, n) \in Seq(Entries)
    BY <1>2
  <2>3. Shapes'
    BY <1>1, <1>3, <2>1, <2>2 DEF Shapes, Files
  <2>4. ASSUME NEW d \in Clients PROVE Kept(d)'
    BY <1>1, <1>6, <2>1 DEF Shapes
  <2> QED
    BY <2>3, <2>4 DEF IInv, FilesAreKept
<1> QED
  BY <1>5, <1>7, <1>8

LEMMA NextIInv == IInv /\ [Next]_vars => IInv'
<1> SUFFICES ASSUME IInv, [Next]_vars PROVE IInv'
  OBVIOUS
<1>1. CASE UNCHANGED vars
  <2>1. Shapes'
    BY <1>1 DEF IInv, Shapes, vars
  <2>2. FilesAreKept'
    BY <1>1 DEF IInv, FilesAreKept, Kept, vars
  <2> QED
    BY <2>1, <2>2 DEF IInv
<1>2. ASSUME NEW c \in Clients, NEW s \in Sessions,
             \/ Create(c, s) \/ Open(c, s)
             \/ \E t \in Sessions, entry \in 0..MaxEntries, position \in {"at", "before"} :
                  Fork(c, s, t, entry, position)
      PROVE  IInv'
  BY <1>2, CreateIInv, OpenIInv, ForkIInv
<1>3. ASSUME NEW s \in Sessions, Delete(s) PROVE IInv'
  BY <1>3, DeleteIInv
<1>4. ASSUME NEW c \in Clients,
             \/ \E type \in {"user", "assistant"} : AppendMessage(c, type)
             \/ \E target \in 1..MaxEntries, set \in BOOLEAN : AppendLabel(c, target, set)
             \/ \E target \in 0..MaxEntries : SetLeaf(c, target)
             \/ AppendFails(c) \/ Crash(c)
      PROVE  IInv'
  BY <1>4, AppendMessageIInv, AppendLabelIInv, SetLeafIInv, AppendFailsIInv, CrashIInv
<1> QED
  BY <1>1, <1>2, <1>3, <1>4 DEF Next

LEMMA IInvKeepsMemory == IInv => MemoryIsFile
BY DEF IInv, FilesAreKept, Kept, MemoryIsFile, Opens

(* A storage remembers what a reader of its session's file would find, unless*)
(* another one has written to the file or a write has failed half way.       *)
(* (JsonlSessionStorage.open, append_entry, set_leaf_id; JsonlSessionRepo.fork) *)
THEOREM MemoryIsKept == Spec => []MemoryIsFile
<1>1. Spec => []IInv
  BY InitIInv, NextIInv, PTL DEF Spec
<1> QED
  BY <1>1, IInvKeepsMemory, PTL
=============================================================================
