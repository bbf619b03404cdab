---------------------------- MODULE InductionLemmas ----------------------------
(***************************************************************************)
(* Induction over the natural numbers, stated with sets: the library's     *)
(* theorem that < is well founded gives every set of naturals a least      *)
(* member, and with it the theorems on recursive functions, one function   *)
(* at a time: here FlattenSeq of SequencesExt.                             *)
(***************************************************************************)
EXTENDS Integers, Sequences, SequencesExt, SequenceTheorems, WellFoundedInduction, TLAPS

--------------------------------------------------------------------------------
(* The natural numbers *)

LEMMA LeastNumber ==
  ASSUME NEW T, T \subseteq Nat, T # {}
  PROVE  \E m \in T : \A k \in T : m <= k
<1>. DEFINE R == OpToRel(<, Nat)
<1>1. IsWellFoundedOn(R, Nat)
  BY NatLessThanWellFounded
<1>2. \A x, y \in Nat : << x, y >> \in R <=> x < y
  BY DEF OpToRel
<1>. HIDE DEF R
<1>3. PICK m \in T : \A k \in T : ~ << k, m >> \in R
  BY <1>1, WFMin
<1>4. m \in Nat
  OBVIOUS
<1>5. \A k \in T : ~ k < m
  BY <1>2, <1>3, <1>4, Zenon
<1>. QED
  BY <1>4, <1>5

LEMMA Induction ==
  ASSUME NEW S, S \subseteq Nat, 0 \in S, \A n \in S : n + 1 \in S
  PROVE  S = Nat
<1>. DEFINE T == Nat \ S
<1>1. ASSUME T # {} PROVE FALSE
  <2>1. PICK m \in T : \A k \in T : m <= k
    BY <1>1, LeastNumber
  <2>2. m # 0 /\ m - 1 \in Nat /\ m - 1 \notin T
    BY <2>1
  <2>. QED
    BY <2>1, <2>2
<1>. QED
  BY <1>1

\* f begins with b, and each of its values is what a step makes of the one before.
Follows(f, b, step) == f[0] = b /\ \A k \in Nat : f[k + 1] = step[<< k, f[k] >>]

\* Recursion: there is such a function for every step that is given as one.
LEMMA Recursion ==
  ASSUME NEW S, NEW b \in S, NEW step \in [Nat \X S -> S]
  PROVE  \E f \in [Nat -> S] : Follows(f, b, step)
<1>. DEFINE Upto(g, n) == g[0] = b /\ \A k \in 0 .. n - 1 : g[k + 1] = step[<< k, g[k] >>]
            T == {n \in Nat : \E g \in [0 .. n -> S] : Upto(g, n)}
<1>1. 0 \in T
  <2>. DEFINE g == [k \in 0 .. 0 |-> b]
  <2>1. g \in [0 .. 0 -> S] /\ g[0] = b
    OBVIOUS
  <2>2. Upto(g, 0)
    BY <2>1
  <2>. QED
    BY <2>1, <2>2
<1>2. ASSUME NEW n \in T PROVE n + 1 \in T
  <2>1. PICK g \in [0 .. n -> S] : Upto(g, n)
    OBVIOUS
  <2>. DEFINE h == [k \in 0 .. n + 1 |-> IF k = n + 1 THEN step[<< n, g[n] >>] ELSE g[k]]
  <2>2. n \in Nat /\ g[n] \in S /\ << n, g[n] >> \in Nat \X S
    OBVIOUS
  <2>3. step[<< n, g[n] >>] \in S
    BY <2>2
  <2>4. h \in [0 .. n + 1 -> S]
    BY <2>2, <2>3
  <2>5. \A k \in 0 .. n : h[k] = g[k] /\ h[n + 1] = step[<< n, g[n] >>]
    BY <2>2
  <2>6. Upto(h, n + 1)
    <3>. HIDE DEF h
    <3>1. \A k \in 0 .. n : h[k + 1] = step[<< k, h[k] >>]
      <4>. TAKE k \in 0 .. n
      <4>1. CASE k = n
        BY <2>2, <2>5, <4>1
      <4>2. CASE k # n
        <5>1. k \in 0 .. n - 1 /\ k + 1 \in 0 .. n
          BY <2>2, <4>2
        <5>. QED
          BY <2>1, <2>5, <5>1
      <4>. QED
        BY <4>1, <4>2
    <3>2. h[0] = b
      BY <2>1, <2>2, <2>5
    <3>. QED
      BY <2>2, <3>1, <3>2
  <2>. HIDE DEF h, Upto
  <2>7. n + 1 \in Nat /\ \E d \in [0 .. n + 1 -> S] : Upto(d, n + 1)
    BY <2>2, <2>4, <2>6
  <2>. QED
    BY <2>7
<1>3. T = Nat
  <2>1. T \subseteq Nat
    OBVIOUS
  <2>. HIDE DEF T
  <2>. QED
    BY <1>1, <1>2, <2>1, Induction
<1>4. \E G : \A n \in Nat : G[n] \in [0 .. n -> S] /\ Upto(G[n], n)
  <2>. DEFINE G == [n \in Nat |-> CHOOSE g \in [0 .. n -> S] : Upto(g, n)]
  <2>1. \A n \in Nat : \E g \in [0 .. n -> S] : Upto(g, n)
    BY <1>3
  <2>. HIDE DEF Upto
  <2>2. \A n \in Nat : G[n] \in [0 .. n -> S] /\ Upto(G[n], n)
    BY <2>1
  <2>. QED
    BY <2>2
<1>5. PICK G : \A n \in Nat : G[n] \in [0 .. n -> S] /\ Upto(G[n], n)
  <2>. HIDE DEF Upto
  <2>. QED
    BY <1>4
<1>. DEFINE f == [n \in Nat |-> G[n][n]]
<1>6. \A n \in Nat : \A k \in 0 .. n : G[n + 1][k] = G[n][k]
  <2>. TAKE n \in Nat
  <2>. DEFINE p == G[n]
              q == G[n + 1]
              E == {k \in Nat : k \in 0 .. n => q[k] = p[k]}
  <2>1. Upto(p, n) /\ Upto(q, n + 1)
    BY <1>5
  <2>. HIDE DEF p, q
  <2>2. 0 \in E
    BY <2>1
  <2>3. ASSUME NEW k \in E PROVE k + 1 \in E
    <3>. SUFFICES ASSUME k + 1 \in 0 .. n PROVE q[k + 1] = p[k + 1]
      OBVIOUS
    <3>1. k \in 0 .. n - 1 /\ k \in 0 .. n /\ k \in 0 .. (n + 1) - 1
      OBVIOUS
    <3>2. p[k + 1] = step[<< k, p[k] >>] /\ q[k + 1] = step[<< k, q[k] >>]
      BY <2>1, <3>1
    <3>. QED
      BY <3>1, <3>2
  <2>4. E = Nat
    <3>1. E \subseteq Nat
      OBVIOUS
    <3>. HIDE DEF E
    <3>. QED
      BY <2>2, <2>3, <3>1, Induction
  <2>. QED
    BY <2>4 DEF p, q
<1>7. f \in [Nat -> S]
  <2>1. \A n \in Nat : G[n][n] \in S
    <3>. TAKE n \in Nat
    <3>. HIDE DEF Upto
    <3>1. G[n] \in [0 .. n -> S] /\ n \in 0 .. n
      BY <1>5
    <3>. QED
      BY <3>1
  <2>. QED
    BY <2>1
<1>8. f[0] = b
  BY <1>5
<1>9. \A k \in Nat : f[k + 1] = step[<< k, f[k] >>]
  <2>. TAKE k \in Nat
  <2>1. f[k + 1] = G[k + 1][k + 1] /\ f[k] = G[k][k] /\ k + 1 \in Nat
    OBVIOUS
  <2>2. G[k + 1][k + 1] = step[<< k, G[k + 1][k] >>]
    <3>1. Upto(G[k + 1], k + 1)
      <4>. HIDE DEF Upto
      <4>. QED
        BY <1>5
    <3>. QED
      BY <3>1
  <2>3. G[k + 1][k] = G[k][k]
    BY <1>6
  <2>. HIDE DEF f
  <2>. QED
    BY <2>1, <2>2, <2>3
<1>. HIDE DEF f
<1>. QED
  BY <1>7, <1>8, <1>9 DEF Follows

--------------------------------------------------------------------------------
(* FlattenSeq *)

\* The recursive function in FlattenSeq.
IsFlatten(f, s) ==
  f = [i \in 1 .. Len(s) |-> IF i = 1 THEN s[i] ELSE f[i-1] \o s[i]]

LEMMA FlattenValue ==
  ASSUME NEW s, NEW f, IsFlatten(f, s), NEW i \in 1 .. Len(s)
  PROVE  f[i] = IF i = 1 THEN s[i] ELSE f[i-1] \o s[i]
<1>. DEFINE e(j) == IF j = 1 THEN s[j] ELSE f[j-1] \o s[j]
<1>1. f = [j \in 1 .. Len(s) |-> e(j)]
  BY Zenon DEF IsFlatten
<1>2. f[i] = e(i)
  <2>. HIDE DEF e
  <2>. QED
    BY <1>1
<1>. QED
  BY <1>2

LEMMA FlattenUnique ==
  ASSUME NEW s, NEW t, NEW f, NEW g, IsFlatten(f, s), IsFlatten(g, t),
         Len(s) \in Nat, Len(t) \in Nat,
         NEW n \in Nat, n <= Len(s), n <= Len(t), \A i \in 1 .. n : s[i] = t[i]
  PROVE  \A i \in 1 .. n : f[i] = g[i]
<1>. DEFINE S == {k \in Nat : k \in 1 .. n => f[k] = g[k]}
<1>1. 0 \in S
  OBVIOUS
<1>2. ASSUME NEW k \in S PROVE k + 1 \in S
  <2>. DEFINE i == k + 1
  <2>1. CASE i \in 1 .. n /\ k = 0
    <3>1. i = 1 /\ 1 \in 1 .. Len(s) /\ 1 \in 1 .. Len(t) /\ s[1] = t[1]
      BY <2>1
    <3>2. f[1] = s[1] /\ g[1] = t[1]
      BY <3>1, FlattenValue
    <3>. QED
      BY <3>1, <3>2
  <2>2. CASE i \in 1 .. n /\ k # 0
    <3>1. i \in 1 .. Len(s) /\ i \in 1 .. Len(t) /\ i # 1 /\ i - 1 = k /\ s[i] = t[i]
      BY <2>2
    <3>2. f[i] = f[k] \o s[i] /\ g[i] = g[k] \o t[i]
      <4>. HIDE DEF i
      <4>1. i \in 1 .. Len(s) /\ i \in 1 .. Len(t) /\ i # 1
        BY <3>1
      <4>2. f[i] = IF i = 1 THEN s[i] ELSE f[i - 1] \o s[i]
        BY <4>1, FlattenValue
      <4>3. g[i] = IF i = 1 THEN t[i] ELSE g[i - 1] \o t[i]
        BY <4>1, FlattenValue
      <4>4. f[i] = f[i - 1] \o s[i] /\ g[i] = g[i - 1] \o t[i]
        BY ONLY <4>1, <4>2, <4>3, Zenon
      <4>5. i - 1 = k
        BY <3>1
      <4>. QED
        BY ONLY <4>4, <4>5, Zenon
    <3>3. f[k] = g[k]
      BY <2>2
    <3>4. f[i] = g[i]
      <4>. HIDE DEF i
      <4>. QED
        BY <3>1, <3>2, <3>3, Zenon
    <3>. QED
      BY <3>4
  <2>. QED
    BY <2>1, <2>2
<1>3. S = Nat
  <2>. HIDE DEF S
  <2>1. S \subseteq Nat
    BY DEF S
  <2>. QED
    BY <1>1, <1>2, <2>1, Induction
<1>. QED
  BY <1>3

LEMMA FlattenExists ==
  ASSUME NEW s, Len(s) \in Nat
  PROVE  \E f : IsFlatten(f, s)
<1>. DEFINE Upto(f, k) ==
       f = [i \in 1 .. k |-> IF i = 1 THEN s[i] ELSE f[i-1] \o s[i]]
            S == {k \in Nat : \E f : Upto(f, k)}
<1>1. 0 \in S
  <2>. DEFINE f == [i \in 1 .. 0 |-> s]
  <2>1. Upto(f, 0)
    OBVIOUS
  <2>. QED
    BY <2>1
<1>2. ASSUME NEW k \in S PROVE k + 1 \in S
  <2>1. PICK f : Upto(f, k)
    OBVIOUS
  <2>. DEFINE e == IF k = 0 THEN s[1] ELSE f[k] \o s[k + 1]
              g == [i \in 1 .. k + 1 |-> IF i = k + 1 THEN e ELSE f[i]]
  <2>2. \A i \in 1 .. k + 1 : g[i] = IF i = 1 THEN s[i] ELSE g[i-1] \o s[i]
    <3>. TAKE i \in 1 .. k + 1
    <3>1. CASE i = k + 1
      BY <3>1
    <3>2. CASE i # k + 1
      <4>1. i \in 1 .. k /\ g[i] = f[i] /\ (i # 1 => g[i - 1] = f[i - 1])
        BY <3>2
      <4>2. f[i] = IF i = 1 THEN s[i] ELSE f[i-1] \o s[i]
        BY <2>1, <4>1
      <4>. QED
        BY <4>1, <4>2
    <3>. QED
      BY <3>1, <3>2
  <2>3. Upto(g, k + 1)
    BY <2>2
  <2>. HIDE DEF Upto, g
  <2>. QED
    BY <2>3
<1>3. S = Nat
  <2>. HIDE DEF S
  <2>1. S \subseteq Nat
    BY DEF S
  <2>. QED
    BY <1>1, <1>2, <2>1, Induction
<1>4. \E f : Upto(f, Len(s))
  BY <1>3
<1>. QED
  BY <1>4 DEF IsFlatten

\* FlattenSeq returns the last value of that function.
LEMMA FlattenIs ==
  ASSUME NEW s, Len(s) \in Nat, Len(s) # 0
  PROVE  \E f : IsFlatten(f, s) /\ FlattenSeq(s) = f[Len(s)]
<1>. DEFINE f == CHOOSE f : f = [i \in 1 .. Len(s) |-> IF i = 1 THEN s[i] ELSE f[i-1] \o s[i]]
<1>1. IsFlatten(f, s)
  BY FlattenExists DEF IsFlatten
<1>2. FlattenSeq(s) = f[Len(s)]
  BY DEF FlattenSeq
<1>. QED
  BY <1>1, <1>2
LEMMA FlattenType ==
  ASSUME NEW X, NEW s \in Seq(Seq(X))
  PROVE  FlattenSeq(s) \in Seq(X)
<1>1. CASE Len(s) = 0
  <2>1. s = << >>
    BY <1>1, EmptySeq
  <2>2. FlattenSeq(s) = s
    BY <1>1, Zenon DEF FlattenSeq
  <2>. QED
    BY <2>1, <2>2, EmptySeq, Zenon
<1>2. CASE Len(s) # 0
  <2>1. Len(s) \in Nat
    OBVIOUS
  <2>2. PICK f : IsFlatten(f, s) /\ FlattenSeq(s) = f[Len(s)]
    BY <1>2, <2>1, FlattenIs
  <2>. DEFINE S == {k \in Nat : k \in 1 .. Len(s) => f[k] \in Seq(X)}
  <2>3. 0 \in S
    OBVIOUS
  <2>4. ASSUME NEW k \in S PROVE k + 1 \in S
    <3>. DEFINE i == k + 1
    <3>1. CASE i \in 1 .. Len(s) /\ k = 0
      BY <2>2, <3>1, FlattenValue
    <3>2. CASE i \in 1 .. Len(s) /\ k # 0
      <4>1. i # 1 /\ i - 1 = k /\ f[k] \in Seq(X) /\ s[i] \in Seq(X)
        BY <3>2, <2>1
      <4>2. f[i] = f[i - 1] \o s[i]
        BY <2>2, <3>2, <4>1, FlattenValue
      <4>3. f[i] = f[k] \o s[i]
        BY <4>1, <4>2
      <4>4. f[k] \o s[i] \in Seq(X)
        BY <4>1, ConcatProperties
      <4>5. f[i] \in Seq(X)
        <5>. HIDE DEF i
        <5>. QED
          BY <4>3, <4>4, Zenon
      <4>. QED
        BY <4>5
    <3>. QED
      BY <3>1, <3>2
  <2>5. S = Nat
    <3>. HIDE DEF S
    <3>1. S \subseteq Nat
      BY DEF S
    <3>. QED
      BY <2>3, <2>4, <3>1, Induction
  <2>. QED
    BY <1>2, <2>1, <2>2, <2>5
<1>. QED
  BY <1>1, <1>2

LEMMA FlattenEmpty == FlattenSeq(<< >>) = << >>
BY DEF FlattenSeq

LEMMA FlattenOne ==
  ASSUME NEW t, Len(t) = 1
  PROVE  FlattenSeq(t) = t[1]
<1>1. PICK g : IsFlatten(g, t) /\ FlattenSeq(t) = g[Len(t)]
  <2>1. Len(t) \in Nat /\ Len(t) # 0
    OBVIOUS
  <2>. QED
    BY <2>1, FlattenIs
<1>2. g[1] = t[1]
  BY <1>1, FlattenValue
<1>. QED
  BY <1>1, <1>2

\* A sequence more at the end.
LEMMA FlattenLonger ==
  ASSUME NEW s, NEW t, NEW n \in Nat, n # 0, Len(s) = n, Len(t) = n + 1,
         \A i \in 1 .. n : s[i] = t[i]
  PROVE  FlattenSeq(t) = FlattenSeq(s) \o t[n + 1]
<1>. DEFINE m == n + 1
<1>1. m \in Nat /\ Len(t) = m /\ m # 0 /\ m # 1 /\ m - 1 = n /\ m \in 1 .. Len(t)
  OBVIOUS
<1>. HIDE DEF m
<1>2. PICK f : IsFlatten(f, s) /\ FlattenSeq(s) = f[n]
  BY FlattenIs
<1>3. PICK g : IsFlatten(g, t) /\ FlattenSeq(t) = g[m]
  BY <1>1, FlattenIs
<1>4. g[m] = g[m - 1] \o t[m]
  BY <1>1, <1>3, FlattenValue
<1>5. \A i \in 1 .. n : f[i] = g[i]
  <2>1. n <= Len(s) /\ n <= Len(t) /\ Len(s) \in Nat /\ Len(t) \in Nat
    BY <1>1
  <2>. QED
    BY <1>2, <1>3, <2>1, FlattenUnique
<1>6. f[n] = g[n]
  BY <1>5
<1>. QED
  BY <1>1, <1>2, <1>3, <1>4, <1>6 DEF m

LEMMA FlattenAppend ==
  ASSUME NEW X, NEW s \in Seq(Seq(X)), NEW e \in Seq(X)
  PROVE  FlattenSeq(Append(s, e)) = FlattenSeq(s) \o e
<1>. DEFINE t == Append(s, e)
            n == Len(s)
<1>1. /\ n \in Nat /\ t \in Seq(Seq(X)) /\ Len(t) = n + 1 /\ t[n + 1] = e
      /\ \A i \in 1 .. n : t[i] = s[i]
  BY AppendProperties
<1>2. CASE n = 0
  <2>1. s = << >> /\ FlattenSeq(s) = << >>
    BY <1>2, EmptySeq, FlattenEmpty
  <2>2. FlattenSeq(t) = e
    <3>1. Len(t) = 1 /\ t[1] = e
      BY <1>1, <1>2
    <3>. HIDE DEF t
    <3>. QED
      BY <3>1, FlattenOne
  <2>. QED
    BY <2>1, <2>2, ConcatEmptySeq
<1>3. CASE n # 0
  <2>. HIDE DEF n, t
  <2>1. Len(s) = n /\ \A i \in 1 .. n : s[i] = t[i]
    BY <1>1 DEF n
  <2>2. FlattenSeq(t) = FlattenSeq(s) \o t[n + 1]
    BY <1>1, <1>3, <2>1, FlattenLonger
  <2>. QED
    BY <1>1, <2>2 DEF t
<1>. QED
  BY <1>2, <1>3

\* A sequence more at the front.
LEMMA FlattenHead ==
  ASSUME NEW X, NEW s \in Seq(Seq(X)), s # << >>
  PROVE  FlattenSeq(s) = Head(s) \o FlattenSeq(Tail(s))
<1>. DEFINE Holds(t) == FlattenSeq(t) = Head(t) \o FlattenSeq(Tail(t))
            S == {k \in Nat : \A t \in Seq(Seq(X)) : Len(t) = k + 1 => Holds(t)}
<1>0. \A a, b, c \in Seq(X) : (a \o b) \o c = a \o (b \o c)
  BY ConcatAssociative, SMTT(30)
<1>1. 0 \in S
  <2>. SUFFICES ASSUME NEW t \in Seq(Seq(X)), Len(t) = 1 PROVE Holds(t)
    OBVIOUS
  <2>1. t # << >>
    <3>1. Len(t) # Len(<< >>)
      BY EmptySeq
    <3>. QED
      BY <3>1, Zenon
  <2>2. PICK u \in Seq(Seq(X)), e \in Seq(X) : t = Append(u, e)
    <3>. HIDE DEF S, Holds
    <3>. QED
      BY <2>1, SequenceEmptyOrAppend
  <2>3. Len(u) + 1 = Len(t) /\ Len(u) \in Nat
    BY <2>2, AppendProperties
  <2>4. u = << >>
    BY <2>3, EmptySeq
  <2>5. Head(t) = e /\ Tail(t) = << >>
    BY <2>2, <2>4, HeadTailAppend
  <2>6. FlattenSeq(t) = << >> \o e
    <3>1. FlattenSeq(t) = FlattenSeq(u) \o e
      BY <2>2, FlattenAppend
    <3>. QED
      BY <2>4, <3>1, FlattenEmpty
  <2>7. << >> \o e = e /\ e \o << >> = e
    BY ConcatEmptySeq
  <2>. QED
    BY <2>5, <2>6, <2>7, FlattenEmpty, Zenon
<1>2. ASSUME NEW k \in S PROVE k + 1 \in S
  <2>. SUFFICES ASSUME NEW t \in Seq(Seq(X)), Len(t) = (k + 1) + 1 PROVE Holds(t)
    OBVIOUS
  <2>0. t # << >>
    BY EmptySeq
  <2>1. PICK u \in Seq(Seq(X)), e \in Seq(X) : t = Append(u, e)
    <3>. HIDE DEF S, Holds
    <3>. QED
      BY <2>0, SequenceEmptyOrAppend
  <2>2. Len(u) = k + 1 /\ u # << >> /\ Len(u) \in Nat
    BY <2>1
  <2>3. FlattenSeq(u) = Head(u) \o FlattenSeq(Tail(u))
    BY <2>2
  <2>4. Head(t) = Head(u) /\ Tail(t) = Append(Tail(u), e)
    BY <2>1, <2>2
  <2>5. Head(u) \in Seq(X) /\ Tail(u) \in Seq(Seq(X))
    BY <2>2
  <2>6. FlattenSeq(t) = FlattenSeq(u) \o e /\ FlattenSeq(Tail(t)) = FlattenSeq(Tail(u)) \o e
    BY <2>1, <2>4, <2>5, FlattenAppend
  <2>7. FlattenSeq(Tail(u)) \in Seq(X)
    BY <2>5, FlattenType
  <2>. HIDE DEF S
  <2>8. (Head(u) \o FlattenSeq(Tail(u))) \o e = Head(u) \o (FlattenSeq(Tail(u)) \o e)
    BY <1>0, <2>5, <2>7, Zenon
  <2>. QED
    BY <2>3, <2>4, <2>6, <2>8, Zenon
<1>3. S = Nat
  <2>. HIDE DEF S
  <2>1. S \subseteq Nat
    BY DEF S
  <2>. QED
    BY <1>1, <1>2, <2>1, Induction
<1>4. Len(s) - 1 \in Nat /\ Len(s) = (Len(s) - 1) + 1
  BY EmptySeq
<1>5. Holds(s)
  <2>. HIDE DEF Holds
  <2>. QED
    BY <1>3, <1>4
<1>. QED
  BY <1>5

\* Two sequences of sequences, one after the other.
LEMMA FlattenConcat ==
  ASSUME NEW X, NEW s \in Seq(Seq(X))
  PROVE  \A t \in Seq(Seq(X)) : FlattenSeq(s \o t) = FlattenSeq(s) \o FlattenSeq(t)
<1>0. \A a, b, c \in Seq(X) : (a \o b) \o c = a \o (b \o c)
  BY ConcatAssociative, SMTT(30)
<1>. DEFINE Holds(u) == FlattenSeq(s \o u) = FlattenSeq(s) \o FlattenSeq(u)
            S == {k \in Nat : \A u \in Seq(Seq(X)) : Len(u) = k => Holds(u)}
<1>1. 0 \in S
  <2>. SUFFICES ASSUME NEW u \in Seq(Seq(X)), Len(u) = 0 PROVE Holds(u)
    OBVIOUS
  <2>1. u = << >> /\ FlattenSeq(s) \in Seq(X)
    BY EmptySeq, FlattenType
  <2>2. s \o << >> = s /\ FlattenSeq(s) \o << >> = FlattenSeq(s)
    BY <2>1, ConcatEmptySeq
  <2>. QED
    BY <2>1, <2>2, FlattenEmpty, Zenon
<1>2. ASSUME NEW k \in S PROVE k + 1 \in S
  <2>. SUFFICES ASSUME NEW u \in Seq(Seq(X)), Len(u) = k + 1 PROVE Holds(u)
    OBVIOUS
  <2>0. u # << >>
    BY EmptySeq
  <2>1. PICK v \in Seq(Seq(X)), e \in Seq(X) : u = Append(v, e)
    <3>. HIDE DEF S, Holds
    <3>. QED
      BY <2>0, SequenceEmptyOrAppend
  <2>2. Len(v) = k
    BY <2>1
  <2>3. FlattenSeq(s \o v) = FlattenSeq(s) \o FlattenSeq(v)
    BY <2>2
  <2>4. s \o u = Append(s \o v, e) /\ s \o v \in Seq(Seq(X))
    BY <2>1
  <2>5. FlattenSeq(s) \in Seq(X) /\ FlattenSeq(v) \in Seq(X)
    BY FlattenType
  <2>6. FlattenSeq(s \o u) = FlattenSeq(s \o v) \o e /\ FlattenSeq(u) = FlattenSeq(v) \o e
    BY <2>1, <2>4, FlattenAppend
  <2>. HIDE DEF S
  <2>7. (FlattenSeq(s) \o FlattenSeq(v)) \o e = FlattenSeq(s) \o (FlattenSeq(v) \o e)
    BY <1>0, <2>5, Zenon
  <2>. QED
    BY <2>3, <2>6, <2>7, Zenon
<1>3. S = Nat
  <2>. HIDE DEF S
  <2>1. S \subseteq Nat
    BY DEF S
  <2>. QED
    BY <1>1, <1>2, <2>1, Induction
<1>4. \A t \in Seq(Seq(X)) : Len(t) \in Nat
  OBVIOUS
<1>5. \A t \in Seq(Seq(X)) : Holds(t)
  <2>. HIDE DEF Holds
  <2>. QED
    BY <1>3, <1>4
<1>. QED
  BY <1>5
================================================================================
