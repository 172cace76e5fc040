-------------------------- MODULE SelectionProofs ---------------------------
(* What choosing the elements of a set from a sequence does to a sequence that is
   appended to, or all of whose elements are in the set or none.  Recursion over the
   natural numbers is justified here once, by the least counterexample. *)
EXTENDS Selections, SequenceTheorems, WellFoundedInduction, TLAPS

LEMMA Induction ==
  ASSUME NEW T \in SUBSET Nat, 0 \in T, \A n \in T : n + 1 \in T
  PROVE  T = Nat
<1> SUFFICES ASSUME Nat \ T # {} PROVE FALSE
  OBVIOUS
<1>1. PICK x \in Nat \ T : \A y \in Nat \ T : ~(<<y, x>> \in OpToRel(<, Nat))
  BY WFMin, NatLessThanWellFounded
<1>2. x # 0 /\ x - 1 \in Nat /\ x - 1 < x /\ (x - 1) + 1 = x
  OBVIOUS
<1>3. x - 1 \notin T
  BY <1>2
<1> QED
  BY <1>1, <1>2, <1>3 DEF OpToRel

(* One step of the choice, and a function that follows it up to N. *)
Step(s, T, g, n) ==
  IF n = 0 THEN <<>> ELSE IF s[n] \in T THEN Append(g[n - 1], s[n]) ELSE g[n - 1]
Follows(s, T, g, N) == \A n \in 0..N : g[n] = Step(s, T, g, n)
Reaches(s, T, g, N) == DOMAIN g = 0..N /\ Follows(s, T, g, N)

(* Two such functions agree as far as both go, if the sequences do. *)
LEMMA Agree ==
  ASSUME NEW s, NEW t, NEW T, NEW g, NEW h, NEW N \in Nat,
         \A n \in 1..N : s[n] = t[n],
         Follows(s, T, g, N), Follows(t, T, h, N)
  PROVE  \A n \in 0..N : g[n] = h[n]
<1> DEFINE A == {n \in Nat : n <= N => g[n] = h[n]}
<1>1. 0 \in A
  <2>1. 0 \in 0..N
    OBVIOUS
  <2> QED
    BY <2>1 DEF Follows, Step
<1>2. ASSUME NEW n \in A PROVE n + 1 \in A
  <2> SUFFICES ASSUME n + 1 <= N PROVE g[n + 1] = h[n + 1]
    OBVIOUS
  <2>1. n \in Nat /\ n <= N /\ n + 1 \in 0..N /\ n + 1 \in 1..N /\ n + 1 # 0 /\ (n + 1) - 1 = n
    OBVIOUS
  <2>2. g[n] = h[n] /\ s[n + 1] = t[n + 1]
    BY <2>1
  <2>3. g[n + 1] = Step(s, T, g, n + 1) /\ h[n + 1] = Step(t, T, h, n + 1)
    BY <2>1 DEF Follows
  <2> QED
    BY <2>1, <2>2, <2>3 DEF Step
<1> HIDE DEF A
<1>3. A = Nat
  <2>1. A \in SUBSET Nat
    BY DEF A
  <2> QED
    BY <1>1, <1>2, <2>1, Induction
<1> QED
  BY <1>3 DEF A

(* There is one up to every N. *)
LEMMA Exists == ASSUME NEW s, NEW T PROVE \A N \in Nat : \E g : Reaches(s, T, g, N)
<1> DEFINE A == {N \in Nat : \E g : Reaches(s, T, g, N)}
<1>1. 0 \in A
  <2> DEFINE g == [n \in 0..0 |-> <<>>]
  <2>1. Reaches(s, T, g, 0)
    BY DEF Reaches, Follows, Step
  <2> QED
    BY <2>1
<1>2. ASSUME NEW N \in A PROVE N + 1 \in A
  <2>1. PICK g : Reaches(s, T, g, N)
    OBVIOUS
  <2> DEFINE h == [n \in 0..(N + 1) |-> IF n = N + 1 THEN Step(s, T, g, N + 1) ELSE g[n]]
  <2>2. \A n \in 0..N : h[n] = g[n] /\ n \in 0..(N + 1)
    OBVIOUS
  <2>3. h[N + 1] = Step(s, T, g, N + 1)
    OBVIOUS
  <2>4. DOMAIN h = 0..(N + 1)
    OBVIOUS
  <2> HIDE DEF h
  <2>5. ASSUME NEW n \in 0..(N + 1) PROVE h[n] = Step(s, T, h, n)
    <3>1. n = 0 \/ (n - 1 \in 0..N /\ h[n - 1] = g[n - 1])
      BY <2>2
    <3>2. CASE n = N + 1
      BY <2>3, <3>1, <3>2 DEF Step
    <3>3. CASE n # N + 1
      <4>1. n \in 0..N
        BY <3>3
      <4>2. h[n] = g[n] /\ g[n] = Step(s, T, g, n)
        BY <2>1, <2>2, <4>1 DEF Reaches, Follows
      <4> QED
        BY <3>1, <4>2 DEF Step
    <3> QED
      BY <3>2, <3>3
  <2>6. Reaches(s, T, h, N + 1)
    BY <2>4, <2>5 DEF Reaches, Follows
  <2> QED
    BY <2>6
<1> HIDE DEF A
<1>3. A = Nat
  <2>1. A \in SUBSET Nat
    BY DEF A
  <2> QED
    BY <1>1, <1>2, <2>1, Induction
<1> QED
  BY <1>3 DEF A

(* The recursive function of Chosen exists and follows the steps. *)
Before(s, T) ==
  CHOOSE f : f = [n \in Nat |-> IF n = 0 THEN <<>>
                                ELSE IF s[n] \in T THEN Append(f[n - 1], s[n]) ELSE f[n - 1]]

LEMMA BeforeFollows ==
  ASSUME NEW s, NEW T, NEW N \in Nat PROVE Follows(s, T, Before(s, T), N)
<1> DEFINE g == [M \in Nat |-> CHOOSE g : Reaches(s, T, g, M)]
           f == [n \in Nat |-> g[n][n]]
<1>1. \A M \in Nat : Reaches(s, T, g[M], M)
  BY Exists
<1> HIDE DEF g
<1>2. \A n \in Nat : f[n] = g[n][n]
  OBVIOUS
<1>3. ASSUME NEW n \in Nat PROVE f[n] = Step(s, T, f, n)
  <2>1. g[n][n] = Step(s, T, g[n], n)
    BY <1>1 DEF Reaches, Follows
  <2>2. ASSUME n # 0 PROVE g[n][n - 1] = g[n - 1][n - 1]
    <3>1. n - 1 \in Nat /\ n - 1 \in 0..(n - 1) /\ \A m \in 0..(n - 1) : m \in 0..n
      BY <2>2
    <3>2. Follows(s, T, g[n], n - 1) /\ Follows(s, T, g[n - 1], n - 1)
      BY <1>1, <3>1 DEF Reaches, Follows
    <3> HIDE DEF f
    <3> QED
      BY <3>1, <3>2, Agree
  <2>3. n # 0 => n - 1 \in Nat
    OBVIOUS
  <2> QED
    BY <1>2, <2>1, <2>2, <2>3 DEF Step
<1>4. f = [n \in Nat |-> IF n = 0 THEN <<>>
                         ELSE IF s[n] \in T THEN Append(f[n - 1], s[n]) ELSE f[n - 1]]
  BY <1>3 DEF Step
<1> HIDE DEF f
<1>5. Before(s, T) = [n \in Nat |-> IF n = 0 THEN <<>>
                        ELSE IF s[n] \in T THEN Append(Before(s, T)[n - 1], s[n])
                        ELSE Before(s, T)[n - 1]]
  BY <1>4 DEF Before
<1> HIDE DEF Before
<1>6. \A n \in 0..N : n \in Nat
  OBVIOUS
<1> QED
  BY <1>5, <1>6 DEF Follows, Step

LEMMA ChosenIs == ASSUME NEW s, NEW T PROVE Chosen(s, T) = Before(s, T)[Len(s)]
  BY DEF Chosen, Before

-----------------------------------------------------------------------------
LEMMA ChosenNothing == ASSUME NEW T PROVE Chosen(<<>>, T) = <<>>
<1>1. Before(<<>>, T)[0] = <<>>
  BY BeforeFollows, 0 \in Nat, 0 \in 0..0 DEF Follows, Step
<1> QED
  BY <1>1, ChosenIs, Len(<<>>) = 0

LEMMA ChosenAppend ==
  ASSUME NEW S, NEW T, NEW s \in Seq(S), NEW e \in S
  PROVE  Chosen(Append(s, e), T)
           = IF e \in T THEN Append(Chosen(s, T), e) ELSE Chosen(s, T)
<1> DEFINE t == Append(s, e)
           N == Len(s)
<1>1. /\ N \in Nat /\ Len(t) = N + 1 /\ t[N + 1] = e
      /\ \A n \in 1..N : s[n] = t[n]
  BY AppendProperties
<1> HIDE DEF t, N
<1>2. Follows(s, T, Before(s, T), N) /\ Follows(t, T, Before(t, T), N + 1)
  BY <1>1, BeforeFollows
<1>3. /\ Follows(t, T, Before(t, T), N)
      /\ N + 1 \in 0..(N + 1) /\ N + 1 # 0 /\ (N + 1) - 1 = N /\ N \in 0..N
  BY <1>1, <1>2 DEF Follows
<1>4. Before(t, T)[N] = Before(s, T)[N]
  BY <1>1, <1>2, <1>3, Agree
<1>5. Before(t, T)[N + 1] = Step(t, T, Before(t, T), N + 1)
  BY <1>2, <1>3 DEF Follows
<1>6. Before(t, T)[N + 1] = IF e \in T THEN Append(Before(t, T)[N], e) ELSE Before(t, T)[N]
  BY <1>1, <1>3, <1>5 DEF Step
<1>7. Chosen(t, T) = Before(t, T)[N + 1] /\ Chosen(s, T) = Before(s, T)[N]
  BY <1>1, ChosenIs DEF N
<1> QED
  BY <1>4, <1>6, <1>7 DEF t

-----------------------------------------------------------------------------
LEMMA AppendsLast ==
  ASSUME NEW S, NEW s \in Seq(S), NEW n \in Nat, Len(s) = n + 1,
         NEW t \in Seq(S), Len(t) = n, \A i \in 1..n : t[i] = s[i]
  PROVE  s = Append(t, s[n + 1])
<1>1. ASSUME NEW e \in S, e = s[n + 1] PROVE s = Append(t, e)
  <2> DEFINE u == Append(t, e)
  <2>1. u \in Seq(S) /\ Len(u) = n + 1
    OBVIOUS
  <2>2. u[n + 1] = e
    OBVIOUS
  <2>3. \A i \in 1..n : u[i] = t[i]
    OBVIOUS
  <2> HIDE DEF u
  <2>4. \A i \in 1..n + 1 : u[i] = s[i]
    <3>1. \A i \in 1..n + 1 : i = n + 1 \/ i \in 1..n
      OBVIOUS
    <3> QED
      BY <1>1, <2>2, <2>3, <3>1
  <2> QED
    BY <2>1, <2>4, SeqEqual DEF u
<1> QED
  BY <1>1, ElementOfSeq

(* Sequences are built by appending. *)
LEMMA BuiltByAppending ==
  ASSUME NEW S, NEW A \in SUBSET Seq(S), <<>> \in A,
         \A s \in A, e \in S : Append(s, e) \in A
  PROVE  A = Seq(S)
<1> DEFINE B == {n \in Nat : \A s \in Seq(S) : Len(s) = n => s \in A}
<1>1. 0 \in B
  <2>1. \A s \in Seq(S) : Len(s) = 0 => s = <<>>
    BY EmptySeq
  <2> QED
    BY <2>1
<1>2. ASSUME NEW n \in B PROVE n + 1 \in B
  <2> SUFFICES ASSUME NEW s \in Seq(S), Len(s) = n + 1 PROVE s \in A
    OBVIOUS
  <2> DEFINE t == SubSeq(s, 1, n)
  <2>1. n \in Nat /\ s[n + 1] \in S
    OBVIOUS
  <2>2. t \in Seq(S) /\ Len(t) = n /\ \A i \in 1..n : t[i] = s[i]
    BY <2>1
  <2>3. t \in A
    BY <2>2
  <2> HIDE DEF t
  <2>4. s = Append(t, s[n + 1])
    BY <2>1, <2>2, AppendsLast
  <2> QED
    BY <2>1, <2>3, <2>4
<1> HIDE DEF B
<1>3. B = Nat
  <2>1. B \in SUBSET Nat
    BY DEF B
  <2> QED
    BY <1>1, <1>2, <2>1, Induction
<1>4. \A s \in Seq(S) : Len(s) \in Nat
  OBVIOUS
<1> QED
  BY <1>3, <1>4 DEF B

LEMMA ChosenType ==
  ASSUME NEW S, NEW T
  PROVE  \A s \in Seq(S) : Chosen(s, T) \in Seq(S \cap T) /\ Chosen(s, T) \in Seq(S)
<1> DEFINE A == {s \in Seq(S) : Chosen(s, T) \in Seq(S \cap T)}
<1>1. <<>> \in A
  BY ChosenNothing, EmptySeq
<1>2. ASSUME NEW s \in A, NEW e \in S PROVE Append(s, e) \in A
  <2>1. Append(s, e) \in Seq(S)
    OBVIOUS
  <2>2. e \in T => Append(Chosen(s, T), e) \in Seq(S \cap T)
    OBVIOUS
  <2> QED
    BY <2>1, <2>2, ChosenAppend
<1> HIDE DEF A
<1>3. A = Seq(S)
  <2>1. A \in SUBSET Seq(S)
    BY DEF A
  <2> QED
    BY <1>1, <1>2, <2>1, BuiltByAppending
<1>4. \A s \in Seq(S \cap T) : s \in Seq(S)
  BY SeqMonotonic
<1> QED
  BY <1>3, <1>4 DEF A

LEMMA ChosenAll ==
  ASSUME NEW T PROVE \A s \in Seq(T) : Chosen(s, T) = s
<1> DEFINE A == {s \in Seq(T) : Chosen(s, T) = s}
<1>1. <<>> \in A
  BY ChosenNothing
<1>2. ASSUME NEW s \in A, NEW e \in T PROVE Append(s, e) \in A
  BY ChosenAppend
<1> HIDE DEF A
<1>3. A = Seq(T)
  <2>1. A \in SUBSET Seq(T)
    BY DEF A
  <2> QED
    BY <1>1, <1>2, <2>1, BuiltByAppending
<1> QED
  BY <1>3 DEF A

LEMMA ChosenNone ==
  ASSUME NEW S, NEW T, S \cap T = {} PROVE \A s \in Seq(S) : Chosen(s, T) = <<>>
<1> DEFINE A == {s \in Seq(S) : Chosen(s, T) = <<>>}
<1>1. <<>> \in A
  BY ChosenNothing
<1>2. ASSUME NEW s \in A, NEW e \in S PROVE Append(s, e) \in A
  BY ChosenAppend
<1> HIDE DEF A
<1>3. A = Seq(S)
  <2>1. A \in SUBSET Seq(S)
    BY DEF A
  <2> QED
    BY <1>1, <1>2, <2>1, BuiltByAppending
<1> QED
  BY <1>3 DEF A

LEMMA ChosenConcat ==
  ASSUME NEW S, NEW T, NEW s \in Seq(S)
  PROVE  \A t \in Seq(S) : Chosen(s \o t, T) = Chosen(s, T) \o Chosen(t, T)
<1> DEFINE A == {t \in Seq(S) : Chosen(s \o t, T) = Chosen(s, T) \o Chosen(t, T)}
<1>0. Chosen(s, T) \in Seq(S)
  BY ChosenType
<1>1. <<>> \in A
  BY <1>0, ChosenNothing
<1>2. ASSUME NEW t \in A, NEW e \in S PROVE Append(t, e) \in A
  <2>1. /\ t \in Seq(S) /\ s \o t \in Seq(S) /\ Append(t, e) \in Seq(S)
        /\ s \o Append(t, e) = Append(s \o t, e)
    OBVIOUS
  <2>2. Chosen(t, T) \in Seq(S)
    BY <2>1, ChosenType
  <2>3. Chosen(s, T) \o Append(Chosen(t, T), e) = Append(Chosen(s, T) \o Chosen(t, T), e)
    BY <1>0, <2>2
  <2>4. Chosen(s \o t, T) = Chosen(s, T) \o Chosen(t, T)
    OBVIOUS
  <2>5. Chosen(s \o Append(t, e), T) = Chosen(s, T) \o Chosen(Append(t, e), T)
    <3>1. CASE e \in T
      BY <2>1, <2>3, <2>4, <3>1, ChosenAppend
    <3>2. CASE e \notin T
      <4>1. ASSUME NEW u \in Seq(S) PROVE Chosen(Append(u, e), T) = Chosen(u, T)
        BY <3>2, ChosenAppend
      <4> QED
        BY <2>1, <2>4, <4>1
    <3> QED
      BY <3>1, <3>2
  <2> QED
    BY <2>1, <2>5
<1> HIDE DEF A
<1>3. A = Seq(S)
  <2>1. A \in SUBSET Seq(S)
    BY DEF A
  <2> QED
    BY <1>1, <1>2, <2>1, BuiltByAppending
<1> QED
  BY <1>3 DEF A

-----------------------------------------------------------------------------
(* What is left of a sequence from which its beginning or its end is dropped. *)
EndOf(w, v) == \E i \in 1..Len(w) + 1, j \in 0..Len(w) : v = SubSeq(w, i, j)

LEMMA EndsOf ==
  ASSUME NEW S, NEW s \in Seq(S), NEW t \in Seq(S)
  PROVE  EndOf(s \o t, s) /\ EndOf(s \o t, t) /\ EndOf(s, s) /\ EndOf(s, <<>>)
<1> DEFINE w == s \o t
<1>1. /\ w \in Seq(S) /\ Len(w) = Len(s) + Len(t) /\ Len(s) \in Nat /\ Len(t) \in Nat
      /\ \A i \in 1..Len(s) : w[i] = s[i]
      /\ \A i \in 1..Len(t) : w[Len(s) + i] = t[i]
  OBVIOUS
<1> HIDE DEF w
<1>2. SubSeq(w, 1, Len(s)) = s /\ 1 \in 1..Len(w) + 1 /\ Len(s) \in 0..Len(w)
  <2>1. 1 \in 1..Len(w) + 1 /\ Len(s) \in 0..Len(w)
    BY <1>1
  <2> QED
    BY <1>1, <2>1
<1>3. SubSeq(w, Len(s) + 1, Len(w)) = t /\ Len(s) + 1 \in 1..Len(w) + 1 /\ Len(w) \in 0..Len(w)
  <2>1. Len(s) + 1 \in 1..Len(w) + 1 /\ Len(w) \in 0..Len(w)
    BY <1>1
  <2> QED
    BY <1>1, <2>1
<1>4. SubSeq(s, 1, Len(s)) = s /\ 1 \in 1..Len(s) + 1 /\ Len(s) \in 0..Len(s)
  OBVIOUS
<1>5. SubSeq(s, 1, 0) = <<>> /\ 0 \in 0..Len(s) /\ 1 \in 1..Len(s) + 1
  BY <1>1
<1>6. EndOf(w, s) /\ EndOf(w, t)
  BY <1>2, <1>3 DEF EndOf
<1>7. EndOf(s, s) /\ EndOf(s, <<>>)
  BY <1>4, <1>5 DEF EndOf
<1> QED
  BY <1>6, <1>7 DEF w
=============================================================================
