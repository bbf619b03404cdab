---------------------------- MODULE LuaTableProofs ----------------------------
(***************************************************************************)
(* Proofs about LuaTable: a table is a map whatever was done to it, and    *)
(* traversals of it are complete; and about MetaTables: accesses through   *)
(* tag methods end where they should.                                      *)
(***************************************************************************)
EXTENDS LuaTable, MetaTables, FiniteSetTheorems, InductionLemmas

--------------------------------------------------------------------------------
(* Tables and their chains *)

NodeType == [key : Keys \cup {nil}, tt : {"live", "dead"}, val : {value, nil}, next : Nat]
TableType == [array : Seq({value, nil}), node : Seq(NodeType), lastfree : Nat]

Nodes(t) == 1 .. Len(t.node)

\* The links of the nodes lead from keys to keys.
Links(t) ==
  \A i \in Nodes(t) :
    /\ t.node[i].next \in 0 .. Len(t.node)
    /\ t.node[i].next # 0 => t.node[i].key # nil /\ t.node[t.node[i].next].key # nil

\* No two nodes have the same successor.
OneBefore(t) ==
  \A i, j \in Nodes(t) : t.node[i].next = t.node[j].next /\ t.node[i].next # 0 => i = j

\* No chain comes back.
Ranked(t, r) == \A i \in Nodes(t) : t.node[i].next # 0 => r[i] < r[t.node[i].next]
Acyclic(t) == \E r \in [Nodes(t) -> Int] : Ranked(t, r)

\* Node j is on the chain that begins at node i: in every set that holds i and the
\* successors of its members.
Closed(t, S) == \A i \in S : t.node[i].next # 0 => t.node[i].next \in S
Reaches(t, i, j) == \A S \in SUBSET Nodes(t) : i \in S /\ Closed(t, S) => j \in S

\* A node without a key is empty.
EmptyNodes(t) ==
  \A i \in Nodes(t) : t.node[i].key = nil => t.node[i].val = nil /\ t.node[i].tt = "live"

\* A key has no place in the array and is on the chain of its main position, and a
\* key of that chain is there.
InPlace(t) ==
  \A i \in Nodes(t) : t.node[i].key # nil =>
    LET m == mainposition(t, t.node[i].key) IN
      /\ ~InArray(t, t.node[i].key)
      /\ t.node[m].key # nil /\ mainposition(t, t.node[m].key) = m
      /\ Reaches(t, m, i)

\* Only collectable keys of empty nodes are dead.
DeadNodes(t) ==
  \A i \in Nodes(t) : t.node[i].tt = "dead" => t.node[i].val = nil /\ t.node[i].key \in Strings

\* No key is there twice, but for dead ones.
KeysOnce(t) ==
  \A i, j \in Nodes(t) :
    /\ t.node[i].key = t.node[j].key /\ t.node[i].key # nil
    /\ t.node[i].tt = "live" /\ t.node[j].tt = "live"
    => i = j

\* A key comes before dead ones that were the same.
LiveFirst(t) ==
  \A i, j \in Nodes(t) :
    t.node[i].key = t.node[j].key /\ t.node[i].tt = "live" /\ t.node[j].tt = "dead"
    => Reaches(t, i, j)

\* Free nodes are below lastfree.
FreeBelow(t) ==
  /\ t.lastfree \in 1 .. Len(t.node) + 1
  /\ \A i \in Nodes(t) : i >= t.lastfree => t.node[i].key # nil

\* The array part holds nothing above the integers that are keys.
ArrayFits(t) == \A i \in 1 .. Len(t.array) : i > MaxIndex => t.array[i] = nil

Linked(t) == Links(t) /\ OneBefore(t) /\ Acyclic(t)

Sound(t) ==
  /\ t \in TableType
  /\ Linked(t) /\ EmptyNodes(t) /\ InPlace(t) /\ DeadNodes(t) /\ KeysOnce(t) /\ LiveFirst(t)
  /\ FreeBelow(t) /\ ArrayFits(t)

--------------------------------------------------------------------------------

LEMMA KeysDiffer ==
  ASSUME LuaTableAssumption
  PROVE  /\ Ints \subseteq Nat \ {0} /\ Strings \cap Ints = {} /\ nil \notin Keys /\ nil # value
         /\ Hash \in [Keys -> Nat] /\ MaxIndex \in Nat /\ Keys = Ints \cup Strings
BY DEF LuaTableAssumption, Ints, Keys

LEMMA NodeFields ==
  ASSUME NEW t \in TableType
  PROVE  /\ t = [array |-> t.array, node |-> t.node, lastfree |-> t.lastfree]
         /\ t.array \in Seq({value, nil}) /\ t.node \in Seq(NodeType) /\ t.lastfree \in Nat
         /\ Len(t.node) \in Nat /\ Len(t.array) \in Nat
         /\ DOMAIN t.node = Nodes(t)
         /\ \A i \in Nodes(t) :
              /\ t.node[i] \in NodeType
              /\ t.node[i].key \in Keys \cup {nil} /\ t.node[i].tt \in {"live", "dead"}
              /\ t.node[i].val \in {value, nil} /\ t.node[i].next \in Nat
<1>1. /\ t = [array |-> t.array, node |-> t.node, lastfree |-> t.lastfree]
      /\ t.array \in Seq({value, nil}) /\ t.node \in Seq(NodeType) /\ t.lastfree \in Nat
  BY DEF TableType
<1>2. /\ Len(t.node) \in Nat /\ Len(t.array) \in Nat /\ DOMAIN t.node = Nodes(t)
  BY <1>1 DEF Nodes
<1>3. \A i \in Nodes(t) : t.node[i] \in NodeType
  BY <1>1, <1>2 DEF Nodes
<1>4. \A e \in NodeType : /\ e.key \in Keys \cup {nil} /\ e.tt \in {"live", "dead"}
                          /\ e.val \in {value, nil} /\ e.next \in Nat
  BY DEF NodeType
<1>. QED
  BY <1>1, <1>2, <1>3, <1>4

\* The main position is a node, and it depends on the number of nodes only.
LEMMA MainIsNode ==
  ASSUME LuaTableAssumption, NEW t, Len(t.node) \in Nat, Len(t.node) # 0, NEW k \in Keys
  PROVE  mainposition(t, k) \in Nodes(t)
<1>. DEFINE n == Len(t.node)
            d == IF n = 1 THEN 1 ELSE n - 1
<1>1. Hash[k] \in Nat
  BY KeysDiffer
<1>2. n \in Nat \ {0} /\ d \in Nat \ {0} /\ d <= n
  OBVIOUS
<1>3. \A h \in Nat : \A m \in Nat \ {0} : h % m \in 0 .. m - 1
  OBVIOUS
<1>4. Hash[k] % n \in 0 .. n - 1 /\ Hash[k] % d \in 0 .. d - 1
  <2>. HIDE DEF n, d
  <2>. QED
    BY <1>1, <1>2, <1>3
<1>5. mainposition(t, k) = 1 + (IF k \in Strings THEN Hash[k] % n ELSE Hash[k] % d)
  BY DEF mainposition
<1>. HIDE DEF d
<1>6. mainposition(t, k) \in 1 .. n
  <2>. HIDE DEF n
  <2>. QED
    BY <1>2, <1>4, <1>5
<1>. QED
  BY <1>6 DEF Nodes

LEMMA SameMain ==
  ASSUME NEW t, NEW u, NEW k, Len(u.node) = Len(t.node)
  PROVE  mainposition(u, k) = mainposition(t, k)
BY DEF mainposition

--------------------------------------------------------------------------------
(* The chain as a function of turns *)

LEMMA ChainIs ==
  ASSUME NEW t, Len(t.node) \in Nat, NEW i \in Nodes(t), Links(t)
  PROVE  /\ Chain(t, i) \in [0 .. Len(t.node) -> 0 .. Len(t.node)]
         /\ Chain(t, i)[0] = i
         /\ \A k \in 1 .. Len(t.node) :
              Chain(t, i)[k] = IF Chain(t, i)[k - 1] = 0 THEN 0 ELSE t.node[Chain(t, i)[k - 1]].next
<1>. DEFINE n == Len(t.node)
            After(x) == IF x = 0 THEN 0 ELSE t.node[x].next
            step == [p \in Nat \X (0 .. n) |-> After(p[2])]
            g == CHOOSE g : g = [k \in 0 .. n |-> IF k = 0 THEN i
                                                  ELSE IF g[k - 1] = 0 THEN 0 ELSE t.node[g[k - 1]].next]
<1>1. \A x \in 0 .. n : After(x) \in 0 .. n
  BY DEF Links, Nodes
<1>2. i \in 0 .. n /\ n \in Nat
  BY DEF Nodes
<1>. HIDE DEF n
<1>3. PICK f \in [Nat -> 0 .. n] : Follows(f, i, step)
  <2>1. step \in [Nat \X (0 .. n) -> 0 .. n]
    BY <1>1
  <2>. HIDE DEF step
  <2>. QED
    BY <1>2, <2>1, Recursion
<1>4. f[0] = i /\ \A k \in Nat : f[k + 1] = After(f[k])
  <2>1. f[0] = i
    BY <1>3 DEF Follows
  <2>2. ASSUME NEW k \in Nat PROVE f[k + 1] = After(f[k])
    <3>1. << k, f[k] >> \in Nat \X (0 .. n)
      BY <1>3
    <3>2. f[k + 1] = step[<< k, f[k] >>]
      BY <1>3 DEF Follows
    <3>. QED
      BY <3>1, <3>2
  <2>. QED
    BY <2>1, <2>2
<1>. HIDE DEF step
<1>5. \E h : h = [k \in 0 .. n |-> IF k = 0 THEN i ELSE IF h[k - 1] = 0 THEN 0 ELSE t.node[h[k - 1]].next]
  <2>. DEFINE h == [k \in 0 .. n |-> f[k]]
  <2>1. \A k \in 0 .. n : f[k] = IF k = 0 THEN i ELSE After(f[k - 1])
    <3>. TAKE k \in 0 .. n
    <3>1. CASE k = 0
      BY <1>4, <3>1
    <3>2. CASE k # 0
      <4>1. k - 1 \in Nat /\ k = (k - 1) + 1
        BY <1>2, <3>2
      <4>. QED
        BY <1>4, <3>2, <4>1
    <3>. QED
      BY <3>1, <3>2
  <2>2. \A k \in 0 .. n : k # 0 => h[k - 1] = f[k - 1]
    BY <1>2
  <2>3. h = [k \in 0 .. n |-> IF k = 0 THEN i ELSE IF h[k - 1] = 0 THEN 0 ELSE t.node[h[k - 1]].next]
    BY <2>1, <2>2
  <2>. HIDE DEF h
  <2>. QED
    BY <2>3
<1>6. g = [k \in 0 .. n |-> IF k = 0 THEN i ELSE IF g[k - 1] = 0 THEN 0 ELSE t.node[g[k - 1]].next]
  BY <1>5
<1>7. Chain(t, i) = g
  BY Zenon DEF Chain, n
<1>. HIDE DEF g
<1>8. g[0] = i /\ \A k \in 1 .. n : g[k] = After(g[k - 1])
  <2>1. 0 \in 0 .. n /\ \A k \in 1 .. n : k \in 0 .. n /\ k # 0
    BY <1>2
  <2>. QED
    BY <1>6, <2>1
<1>9. \A k \in 0 .. n : g[k] = f[k]
  <2>. DEFINE T == {k \in Nat : k <= n => g[k] = f[k]}
  <2>1. 0 \in T
    BY <1>4, <1>8
  <2>2. ASSUME NEW k \in T PROVE k + 1 \in T
    <3>. SUFFICES ASSUME k + 1 <= n PROVE g[k + 1] = f[k + 1]
      OBVIOUS
    <3>1. k + 1 \in 1 .. n /\ (k + 1) - 1 = k /\ k <= n
      BY <1>2
    <3>. QED
      BY <1>4, <1>8, <3>1
  <2>3. T = Nat
    <3>1. T \subseteq Nat
      OBVIOUS
    <3>. HIDE DEF T
    <3>. QED
      BY <2>1, <2>2, <3>1, Induction
  <2>4. ASSUME NEW k \in 0 .. n PROVE g[k] = f[k]
    <3>1. k \in Nat /\ k <= n
      BY <1>2
    <3>2. k \in T
      <4>. HIDE DEF T
      <4>. QED
        BY <2>3, <3>1
    <3>. QED
      BY <3>1, <3>2
  <2>. QED
    BY <2>4
<1>10. g \in [0 .. n -> 0 .. n]
  <2>1. \A k \in 0 .. n : g[k] \in 0 .. n
    BY <1>3, <1>9, SMTT(30)
  <2>2. DOMAIN g = 0 .. n /\ g = [k \in DOMAIN g |-> g[k]]
    BY <1>6
  <2>. QED
    BY <2>1, <2>2
<1>. QED
  BY <1>7, <1>8, <1>10 DEF n
\* What a chain is to the proofs: it starts at i, follows the links and ends.
Walks(w, t, i) ==
  /\ w \in [0 .. Len(t.node) -> 0 .. Len(t.node)]
  /\ w[0] = i
  /\ \A k \in 1 .. Len(t.node) : w[k] = IF w[k - 1] = 0 THEN 0 ELSE t.node[w[k - 1]].next

\* A chain leaves no set that is closed.
LEMMA WalkStays ==
  ASSUME NEW t, NEW n \in Nat, Len(t.node) = n, NEW i, NEW w, Walks(w, t, i),
         NEW S \in SUBSET Nodes(t), Closed(t, S), NEW q \in 0 .. n, w[q] \in S
  PROVE  \A l \in q .. n : w[l] # 0 => w[l] \in S
<1>. DEFINE T == {l \in Nat : q <= l /\ l <= n /\ w[l] # 0 => w[l] \in S}
<1>1. 0 \in T
  OBVIOUS
<1>2. ASSUME NEW l \in T PROVE l + 1 \in T
  <2>. SUFFICES ASSUME q <= l + 1, l + 1 <= n, w[l + 1] # 0 PROVE w[l + 1] \in S
    OBVIOUS
  <2>1. CASE q = l + 1
    BY <2>1
  <2>2. CASE q # l + 1
    <3>1. l + 1 \in 1 .. n /\ (l + 1) - 1 = l /\ q <= l /\ l <= n
      BY <2>2
    <3>2. w[l + 1] = IF w[l] = 0 THEN 0 ELSE t.node[w[l]].next
      BY <3>1 DEF Walks
    <3>3. w[l] # 0 /\ w[l] \in S
      BY <3>1, <3>2
    <3>. QED
      BY <3>2, <3>3 DEF Closed
  <2>. QED
    BY <2>1, <2>2
<1>3. T = Nat
  <2>1. T \subseteq Nat
    OBVIOUS
  <2>. HIDE DEF T
  <2>. QED
    BY <1>1, <1>2, <2>1, Induction
<1>. QED
  BY <1>3

\* What ended stays at its end.
LEMMA WalkEnded ==
  ASSUME NEW t, NEW n \in Nat, Len(t.node) = n, NEW i, NEW w, Walks(w, t, i),
         NEW q \in 0 .. n, w[q] = 0
  PROVE  \A l \in q .. n : w[l] = 0
<1>. DEFINE T == {l \in Nat : q <= l /\ l <= n => w[l] = 0}
<1>1. 0 \in T
  OBVIOUS
<1>2. ASSUME NEW l \in T PROVE l + 1 \in T
  <2>. SUFFICES ASSUME q <= l + 1, l + 1 <= n PROVE w[l + 1] = 0
    OBVIOUS
  <2>1. CASE q = l + 1
    BY <2>1
  <2>2. CASE q # l + 1
    <3>1. l + 1 \in 1 .. n /\ (l + 1) - 1 = l /\ q <= l /\ l <= n
      BY <2>2
    <3>. QED
      BY <3>1 DEF Walks
  <2>. QED
    BY <2>1, <2>2
<1>3. T = Nat
  <2>1. T \subseteq Nat
    OBVIOUS
  <2>. HIDE DEF T
  <2>. QED
    BY <1>1, <1>2, <2>1, Induction
<1>. QED
  BY <1>3

\* A chain without a cycle ends: there are not more nodes than there are.
LEMMA WalkEnds ==
  ASSUME NEW t, NEW n \in Nat, Len(t.node) = n, NEW i, NEW w, Walks(w, t, i), Links(t), Acyclic(t)
  PROVE  w[n] = 0
<1>. SUFFICES ASSUME w[n] # 0 PROVE FALSE
  OBVIOUS
<1>1. \A k \in 0 .. n : w[k] \in Nodes(t)
  <2>. TAKE k \in 0 .. n
  <2>1. w[k] = 0 => w[n] = 0
    BY WalkEnded
  <2>. QED
    BY <2>1 DEF Walks, Nodes
<1>2. PICK r \in [Nodes(t) -> Int] : Ranked(t, r)
  BY DEF Acyclic
<1>3. \A k \in 1 .. n : r[w[k - 1]] < r[w[k]]
  <2>. TAKE k \in 1 .. n
  <2>1. k - 1 \in 0 .. n /\ k \in 0 .. n
    OBVIOUS
  <2>2. w[k - 1] \in Nodes(t) /\ w[k] \in Nodes(t)
    BY <1>1, <2>1
  <2>3. 0 \notin Nodes(t)
    BY DEF Nodes
  <2>4. w[k] = t.node[w[k - 1]].next /\ w[k] # 0
    BY <2>2, <2>3 DEF Walks
  <2>. QED
    BY <1>2, <2>2, <2>4 DEF Ranked
<1>. DEFINE T == {l \in Nat : l <= n => \A k \in 0 .. l : k # l => r[w[k]] < r[w[l]]}
<1>4. 0 \in T
  OBVIOUS
<1>5. ASSUME NEW l \in T PROVE l + 1 \in T
  <2>. SUFFICES ASSUME l + 1 <= n, NEW k \in 0 .. l + 1, k # l + 1 PROVE r[w[k]] < r[w[l + 1]]
    OBVIOUS
  <2>1. l \in 0 .. n /\ l + 1 \in 1 .. n /\ (l + 1) - 1 = l /\ k \in 0 .. l /\ k \in 0 .. n
        /\ l + 1 \in 0 .. n
    OBVIOUS
  <2>2. r[w[l]] < r[w[l + 1]]
    BY <1>3, <2>1
  <2>3. k # l => r[w[k]] < r[w[l]]
    BY <2>1
  <2>4. r[w[k]] \in Int /\ r[w[l]] \in Int /\ r[w[l + 1]] \in Int
    BY <1>1, <1>2, <2>1
  <2>. QED
    BY <2>2, <2>3, <2>4
<1>6. T = Nat
  <2>1. T \subseteq Nat
    OBVIOUS
  <2>. HIDE DEF T
  <2>. QED
    BY <1>4, <1>5, <2>1, Induction
<1>7. \A k, l \in 0 .. n : k < l => r[w[k]] < r[w[l]]
  <2>. TAKE k, l \in 0 .. n
  <2>1. l \in T /\ l <= n
    BY <1>6
  <2>2. \A j \in 0 .. l : j # l => r[w[j]] < r[w[l]]
    BY <2>1
  <2>. QED
    BY <2>2
<1>8. \A k, l \in 0 .. n : w[k] = w[l] => k = l
  <2>. TAKE k, l \in 0 .. n
  <2>1. r[w[k]] \in Int
    BY <1>1, <1>2
  <2>2. k < l \/ l < k \/ k = l
    OBVIOUS
  <2>. QED
    BY <1>7, <2>1, <2>2
<1>. DEFINE f == [k \in 0 .. n |-> w[k]]
<1>9. f \in [0 .. n -> 1 .. n] /\ \A k, l \in 0 .. n : f[k] = f[l] => k = l
  <2>1. \A k \in 0 .. n : w[k] \in 1 .. n
    BY <1>1 DEF Nodes
  <2>2. \A k \in 0 .. n : f[k] = w[k]
    OBVIOUS
  <2>3. f \in [0 .. n -> 1 .. n]
    BY <2>1
  <2>. HIDE DEF f
  <2>. QED
    BY <1>8, <2>2, <2>3
<1>10. /\ IsFiniteSet(0 .. n) /\ Cardinality(0 .. n) = n + 1
       /\ IsFiniteSet(1 .. n) /\ Cardinality(1 .. n) = n
  <2>1. 0 \in Int /\ 1 \in Int /\ n \in Int
    OBVIOUS
  <2>2. IsFiniteSet(0 .. n) /\ Cardinality(0 .. n) = IF 0 > n THEN 0 ELSE n - 0 + 1
    BY <2>1, FS_Interval
  <2>3. IsFiniteSet(1 .. n) /\ Cardinality(1 .. n) = IF 1 > n THEN 0 ELSE n - 1 + 1
    BY <2>1, FS_Interval
  <2>. QED
    BY <2>2, <2>3
<1>. HIDE DEF f
<1>11. Cardinality(1 .. n) < Cardinality(0 .. n)
  BY <1>10
<1>12. \E x, y \in 0 .. n : x # y /\ f[x] = f[y]
  BY <1>9, <1>10, <1>11, FS_PigeonHole, SMTT(30)
<1>. QED
  BY <1>9, <1>12

\* The first of these nodes on a chain: there is none only when none of them is
\* on the chain, and otherwise the chain goes on from it to all the others.
LEMMA FirstNodeIs ==
  ASSUME NEW t, NEW n \in Nat, Len(t.node) = n, NEW i \in Nodes(t), Links(t), Acyclic(t),
         NEW M \in SUBSET Nodes(t)
  PROVE  /\ FirstNode(t, i, M) = 0 => \A j \in M : ~Reaches(t, i, j)
         /\ FirstNode(t, i, M) # 0 => /\ FirstNode(t, i, M) \in M
                                      /\ \A j \in M : Reaches(t, i, j) => Reaches(t, FirstNode(t, i, M), j)
<1>. DEFINE w == Chain(t, i)
            hits == {k \in 0 .. n - 1 : w[k] \in M}
            V == {w[k] : k \in 0 .. n - 1} \ {0}
<1>1. Walks(w, t, i)
  BY ChainIs, SMTT(30) DEF Walks
<1>2. FirstNode(t, i, M) = IF hits = {} THEN 0 ELSE w[Min(hits)]
  BY Zenon DEF FirstNode
<1>. HIDE DEF w
<1>3. w[n] = 0
  BY <1>1, WalkEnds
<1>4. 0 \notin Nodes(t) /\ \A x \in 0 .. n : x # 0 => x \in Nodes(t)
  BY DEF Nodes
<1>5. V \in SUBSET Nodes(t) /\ i \in V /\ Closed(t, V)
  <2>1. V \in SUBSET Nodes(t)
    BY <1>1, <1>4, SMTT(30) DEF Walks
  <2>2. i \in V
    BY <1>1, <1>4 DEF Walks, Nodes
  <2>3. ASSUME NEW x \in V, t.node[x].next # 0 PROVE t.node[x].next \in V
    <3>1. PICK k \in 0 .. n - 1 : x = w[k]
      OBVIOUS
    <3>2. k + 1 \in 1 .. n /\ (k + 1) - 1 = k
      OBVIOUS
    <3>3. w[k + 1] = t.node[x].next
      BY <1>1, <3>1, <3>2 DEF Walks
    <3>4. k + 1 \in 0 .. n - 1
      BY <1>3, <2>3, <3>2, <3>3
    <3>. QED
      BY <2>3, <3>3, <3>4
  <2>. QED
    BY <2>1, <2>2, <2>3 DEF Closed
<1>6. \A j \in M : Reaches(t, i, j) => \E k \in 0 .. n - 1 : w[k] = j
  <2>. TAKE j \in M
  <2>1. Reaches(t, i, j) => j \in V
    BY <1>5 DEF Reaches
  <2>. QED
    BY <2>1
<1>7. CASE hits = {}
  BY <1>2, <1>6, <1>7
<1>8. CASE hits # {}
  <2>. DEFINE q == Min(hits)
  <2>1. q \in hits /\ \A k \in hits : q <= k
    <3>1. hits \subseteq Nat
      OBVIOUS
    <3>2. \E x \in hits : \A y \in hits : x <= y
      <4>. HIDE DEF hits
      <4>. QED
        BY <1>8, <3>1, LeastNumber
    <3>. HIDE DEF hits
    <3>. QED
      BY <3>2 DEF Min
  <2>. HIDE DEF q
  <2>2. w[q] \in M /\ q \in 0 .. n - 1 /\ w[q] # 0
    BY <1>4, <2>1
  <2>3. FirstNode(t, i, M) = w[q]
    BY <1>2, <1>8 DEF q
  <2>4. ASSUME NEW j \in M, Reaches(t, i, j) PROVE Reaches(t, w[q], j)
    <3>1. PICK k \in 0 .. n - 1 : w[k] = j
      BY <1>6, <2>4
    <3>2. q <= k /\ k \in q .. n /\ q \in 0 .. n
      BY <2>1, <2>2, <3>1
    <3>3. j # 0
      BY <1>4
    <3>. SUFFICES ASSUME NEW S \in SUBSET Nodes(t), w[q] \in S, Closed(t, S) PROVE j \in S
      BY DEF Reaches
    <3>4. \A l \in q .. n : w[l] # 0 => w[l] \in S
      BY <1>1, <3>2, WalkStays
    <3>. QED
      BY <3>1, <3>2, <3>3, <3>4
  <2>. QED
    BY <2>2, <2>3, <2>4
<1>. QED
  BY <1>7, <1>8
--------------------------------------------------------------------------------
(* What is found in a table *)

IsAt(t, k, i) == i \in Nodes(t) /\ t.node[i].key = k

\* A key is looked for from its main position, where it is in place.
LEMMA KeyOnChain ==
  ASSUME LuaTableAssumption, NEW t, Sound(t), NEW k \in Keys, NEW i, IsAt(t, k, i)
  PROVE  /\ Len(t.node) \in Nat \ {0} /\ mainposition(t, k) \in Nodes(t)
         /\ Reaches(t, mainposition(t, k), i) /\ ~InArray(t, k)
<1>1. Len(t.node) \in Nat
  BY NodeFields DEF Sound
<1>2. Len(t.node) # 0
  BY <1>1 DEF IsAt, Nodes
<1>3. k # nil
  BY KeysDiffer
<1>. QED
  BY <1>1, <1>2, <1>3, MainIsNode DEF Sound, InPlace, IsAt

\* NodeOf is the live node of a key, if there is one.
LEMMA NodeOfIs ==
  ASSUME LuaTableAssumption, NEW t, Sound(t), NEW k \in Keys
  PROVE  /\ NodeOf(t, k) = 0 => \A i \in Nodes(t) : t.node[i].key = k => t.node[i].tt = "dead"
         /\ NodeOf(t, k) # 0 => /\ IsAt(t, k, NodeOf(t, k)) /\ t.node[NodeOf(t, k)].tt = "live"
                                /\ ~InArray(t, k)
         /\ \A i \in Nodes(t) : t.node[i].key = k /\ t.node[i].tt = "live" => NodeOf(t, k) = i
<1>. DEFINE M == WithKey(t, k) \cap Live(t)
            m == mainposition(t, k)
<1>0. t \in TableType /\ Len(t.node) \in Nat /\ k # nil
  BY NodeFields, KeysDiffer DEF Sound
<1>1. M = {i \in Nodes(t) : t.node[i].key = k /\ t.node[i].tt = "live"}
  BY <1>0, NodeFields DEF WithKey, Live
<1>2. NodeOf(t, k) = FirstNode(t, m, M)
  BY DEF NodeOf
<1>3. \A i \in Nodes(t) : t.node[i].tt # "live" => t.node[i].tt = "dead"
  BY <1>0, NodeFields
<1>4. CASE Len(t.node) = 0
  <2>1. Nodes(t) = {} /\ 0 .. Len(t.node) - 1 = {}
    BY <1>4 DEF Nodes
  <2>2. NodeOf(t, k) = 0
    BY <1>2, <2>1 DEF FirstNode
  <2>. QED
    BY <2>1, <2>2
<1>5. CASE Len(t.node) # 0
  <2>1. m \in Nodes(t)
    BY <1>0, <1>5, MainIsNode
  <2>2. Links(t) /\ Acyclic(t)
    BY DEF Sound, Linked
  <2>3. M \in SUBSET Nodes(t)
    BY <1>1
  <2>. HIDE DEF M, m
  <2>4. /\ NodeOf(t, k) = 0 => \A j \in M : ~Reaches(t, m, j)
        /\ NodeOf(t, k) # 0 => NodeOf(t, k) \in M
    BY <1>0, <1>2, <2>1, <2>2, <2>3, FirstNodeIs
  <2>5. \A j \in M : Reaches(t, m, j) /\ ~InArray(t, k)
    BY <1>1, KeyOnChain DEF IsAt, m
  <2>6. \A i, j \in M : i = j
    BY <1>0, <1>1 DEF Sound, KeysOnce
  <2>7. 0 \notin Nodes(t)
    BY DEF Nodes
  <2>8. CASE NodeOf(t, k) = 0
    <3>1. M = {}
      BY <2>4, <2>5, <2>8
    <3>. QED
      BY <1>1, <1>3, <2>8, <3>1
  <2>9. CASE NodeOf(t, k) # 0
    <3>1. NodeOf(t, k) \in M /\ ~InArray(t, k)
      BY <2>4, <2>5, <2>9
    <3>2. \A i \in Nodes(t) : t.node[i].key = k /\ t.node[i].tt = "live" => i \in M
      BY <1>1
    <3>. QED
      BY <1>1, <2>6, <2>9, <3>1, <3>2 DEF IsAt
  <2>. QED
    BY <2>8, <2>9
<1>. QED
  BY <1>0, <1>4, <1>5

\* What luaH_get returns.
LEMMA GetIs ==
  ASSUME LuaTableAssumption, NEW t, Sound(t), NEW k \in Keys
  PROVE  /\ InArray(t, k) => Get(t, k) = t.array[k]
         /\ \A i \in Nodes(t) : t.node[i].key = k /\ t.node[i].tt = "live" => Get(t, k) = t.node[i].val
         /\ ~InArray(t, k) /\ (\A i \in Nodes(t) : t.node[i].key = k => t.node[i].tt = "dead")
              => Get(t, k) = nil
         /\ Get(t, k) \in {value, nil}
<1>1. InArray(t, k) => Get(t, k) = t.array[k] /\ t.array[k] \in {value, nil}
  <2>1. t.array \in Seq({value, nil})
    BY NodeFields DEF Sound
  <2>. QED
    BY <2>1 DEF Get, InArray, Ints
<1>2. ASSUME NEW i \in Nodes(t), t.node[i].key = k, t.node[i].tt = "live"
      PROVE  Get(t, k) = t.node[i].val
  <2>1. NodeOf(t, k) = i /\ i # 0
    BY <1>2, NodeOfIs DEF Nodes
  <2>2. ~InArray(t, k)
    BY <2>1, NodeOfIs
  <2>. QED
    BY <2>1, <2>2 DEF Get
<1>3. ASSUME ~InArray(t, k), \A i \in Nodes(t) : t.node[i].key = k => t.node[i].tt = "dead"
      PROVE  Get(t, k) = nil
  <2>1. NodeOf(t, k) = 0
    BY <1>3, NodeOfIs DEF IsAt
  <2>. QED
    BY <1>3, <2>1 DEF Get
<1>4. \A i \in Nodes(t) : t.node[i].tt # "live" => t.node[i].tt = "dead"
  BY NodeFields DEF Sound
<1>5. \A i \in Nodes(t) : t.node[i].val \in {value, nil}
  BY NodeFields DEF Sound
<1>6. Get(t, k) \in {value, nil}
  BY <1>1, <1>2, <1>3, <1>4, <1>5
<1>. QED
  BY <1>1, <1>2, <1>3, <1>6

\* What is there has a place.
LEMMA ThereIs ==
  ASSUME LuaTableAssumption, NEW t, Sound(t), NEW k \in Keys, Get(t, k) # nil
  PROVE  \/ InArray(t, k) /\ t.array[k] = Get(t, k)
         \/ ~InArray(t, k) /\ \E i \in Nodes(t) : t.node[i].key = k /\ t.node[i].tt = "live"
                                                  /\ t.node[i].val = Get(t, k)
<1>1. \A i \in Nodes(t) : t.node[i].tt # "live" => t.node[i].tt = "dead"
  BY NodeFields DEF Sound
<1>. QED
  BY <1>1, GetIs

\* A traversal finds a live key where it is.
LEMMA KeyAtLive ==
  ASSUME LuaTableAssumption, NEW t, Sound(t), NEW i \in Nodes(t), t.node[i].key # nil,
         t.node[i].tt = "live"
  PROVE  KeyAt(t, t.node[i].key) = i
<1>. DEFINE k == t.node[i].key
            M == WithKey(t, k)
            m == mainposition(t, k)
            a == KeyAt(t, k)
<1>0. t \in TableType /\ Len(t.node) \in Nat /\ k \in Keys
  BY NodeFields DEF Sound
<1>1. M = {j \in Nodes(t) : t.node[j].key = k}
  BY <1>0, NodeFields DEF WithKey
<1>2. a = FirstNode(t, m, M)
  BY DEF KeyAt
<1>3. m \in Nodes(t) /\ Reaches(t, m, i)
  BY <1>0, KeyOnChain DEF IsAt
<1>4. Links(t) /\ Acyclic(t) /\ OneBefore(t)
  BY DEF Sound, Linked
<1>5. M \in SUBSET Nodes(t) /\ i \in M
  BY <1>1
<1>. HIDE DEF M, m, a
<1>6. a \in M /\ Reaches(t, a, i)
  <2>1. /\ a = 0 => \A j \in M : ~Reaches(t, m, j)
        /\ a # 0 => a \in M /\ \A j \in M : Reaches(t, m, j) => Reaches(t, a, j)
    BY <1>0, <1>2, <1>3, <1>4, <1>5, FirstNodeIs
  <2>. QED
    BY <1>3, <1>5, <2>1
<1>7. a \in Nodes(t) /\ t.node[a].key = k
  BY <1>1, <1>6
<1>8. CASE t.node[a].tt = "live"
  BY <1>7, <1>8 DEF Sound, KeysOnce, a
<1>9. CASE t.node[a].tt # "live"
  <2>1. t.node[a].tt = "dead"
    BY <1>0, <1>7, <1>9, NodeFields
  <2>2. Reaches(t, i, a)
    BY <1>7, <2>1 DEF Sound, LiveFirst
  <2>3. PICK r \in [Nodes(t) -> Int] : Ranked(t, r)
    BY <1>4 DEF Acyclic
  <2>4. \A x, y \in Nodes(t) : Reaches(t, x, y) => r[x] <= r[y]
    <3>. TAKE x, y \in Nodes(t)
    <3>. DEFINE S == {z \in Nodes(t) : r[x] <= r[z]}
    <3>1. x \in S /\ S \in SUBSET Nodes(t)
      BY <2>3
    <3>2. Closed(t, S)
      <4>. SUFFICES ASSUME NEW z \in S, t.node[z].next # 0 PROVE t.node[z].next \in S
        BY DEF Closed
      <4>1. t.node[z].next \in Nodes(t)
        BY <1>0, <1>4 DEF Links, Nodes
      <4>2. r[z] < r[t.node[z].next] /\ r[z] \in Int /\ r[x] \in Int /\ r[t.node[z].next] \in Int
        BY <2>3, <4>1 DEF Ranked
      <4>. QED
        BY <4>1, <4>2
    <3>. QED
      BY <3>1, <3>2 DEF Reaches
  <2>5. r[i] = r[a]
    <3>1. r[i] <= r[a] /\ r[a] <= r[i] /\ r[a] \in Int /\ r[i] \in Int
      BY <1>6, <1>7, <2>2, <2>3, <2>4
    <3>. QED
      BY <3>1
  <2>6. Reaches(t, i, a) /\ i # a => \E z \in Nodes(t) : z = t.node[i].next /\ z # 0 /\ Reaches(t, z, a)
    <3>. SUFFICES ASSUME i # a PROVE t.node[i].next \in Nodes(t) /\ Reaches(t, t.node[i].next, a)
      BY <1>0 DEF Nodes
    <3>1. t.node[i].next # 0
      <4>1. Closed(t, {i}) \/ t.node[i].next # 0
        BY DEF Closed
      <4>. QED
        BY <2>2, <4>1 DEF Reaches
    <3>2. t.node[i].next \in Nodes(t)
      BY <1>0, <1>4, <3>1 DEF Links, Nodes
    <3>3. ASSUME NEW S \in SUBSET Nodes(t), t.node[i].next \in S, Closed(t, S) PROVE a \in S
      <4>1. Closed(t, S \cup {i}) /\ S \cup {i} \in SUBSET Nodes(t)
        BY <3>3 DEF Closed
      <4>2. a \in S \cup {i}
        BY <2>2, <4>1 DEF Reaches
      <4>. QED
        BY <4>2
    <3>. QED
      BY <3>2, <3>3 DEF Reaches
  <2>7. i = a
    <3>. SUFFICES ASSUME i # a PROVE FALSE
      OBVIOUS
    <3>1. PICK z \in Nodes(t) : z = t.node[i].next /\ z # 0 /\ Reaches(t, z, a)
      BY <2>2, <2>6
    <3>2. r[i] < r[z] /\ r[z] <= r[a] /\ r[z] \in Int /\ r[i] \in Int /\ r[a] \in Int
      BY <1>7, <2>3, <2>4, <3>1 DEF Ranked
    <3>. QED
      BY <2>5, <3>2
  <2>. QED
    BY <1>9, <2>7
<1>. QED
  BY <1>8, <1>9 DEF a
--------------------------------------------------------------------------------
(* Stores that find the key *)

LEMMA ReachesFrom ==
  ASSUME NEW t, NEW u, Len(u.node) = Len(t.node),
         \A i \in Nodes(t) : u.node[i].next = t.node[i].next,
         NEW i, NEW j
  PROVE  Reaches(u, i, j) <=> Reaches(t, i, j)
<1>1. Nodes(u) = Nodes(t)
  BY DEF Nodes
<1>2. \A S \in SUBSET Nodes(t) : Closed(u, S) <=> Closed(t, S)
  BY DEF Closed
<1>. QED
  BY <1>1, <1>2 DEF Reaches

\* What may change while every key stays where it is: values, and the marks on dead
\* keys.
SameKeys(t, u) ==
  /\ Len(u.node) = Len(t.node) /\ Len(u.array) = Len(t.array) /\ u.lastfree = t.lastfree
  /\ \A i \in Nodes(t) :
       /\ u.node[i].key = t.node[i].key /\ u.node[i].next = t.node[i].next
       /\ u.node[i].tt = "live" => t.node[i].tt = "live"
       /\ u.node[i].tt = "dead" => u.node[i].val = nil /\ u.node[i].key \in Strings
       /\ u.node[i].key = nil => u.node[i].val = nil /\ u.node[i].tt = "live"

LEMMA SameKeysSound ==
  ASSUME LuaTableAssumption, NEW t, Sound(t), NEW u \in TableType, SameKeys(t, u), ArrayFits(u)
  PROVE  Sound(u)
<1>1. Nodes(u) = Nodes(t)
  BY DEF SameKeys, Nodes
<1>2. \A i \in Nodes(t) : u.node[i].key = t.node[i].key /\ u.node[i].next = t.node[i].next
  BY DEF SameKeys
<1>3. \A i, j : Reaches(u, i, j) <=> Reaches(t, i, j)
  BY <1>2, ReachesFrom DEF SameKeys
<1>4. \A k : (InArray(u, k) <=> InArray(t, k)) /\ mainposition(u, k) = mainposition(t, k)
  BY SameMain DEF SameKeys, InArray
<1>5. Links(u)
  <2>. SUFFICES ASSUME NEW i \in Nodes(t)
                PROVE  /\ u.node[i].next \in 0 .. Len(u.node)
                       /\ u.node[i].next # 0 => u.node[i].key # nil /\ u.node[u.node[i].next].key # nil
    BY <1>1 DEF Links
  <2>1. t.node[i].next \in 0 .. Len(t.node)
        /\ (t.node[i].next # 0 => t.node[i].key # nil /\ t.node[t.node[i].next].key # nil)
    BY DEF Sound, Linked, Links
  <2>2. t.node[i].next # 0 => t.node[i].next \in Nodes(t)
    BY <2>1, NodeFields DEF Sound, Nodes
  <2>. QED
    BY <1>2, <2>1, <2>2 DEF SameKeys
<1>6. OneBefore(u) /\ Acyclic(u)
  BY <1>1, <1>2 DEF Sound, Linked, OneBefore, Acyclic, Ranked
<1>7. EmptyNodes(u) /\ DeadNodes(u)
  BY <1>1 DEF SameKeys, EmptyNodes, DeadNodes
<1>8. InPlace(u)
  <2>. SUFFICES ASSUME NEW i \in Nodes(t), t.node[i].key # nil
                PROVE  LET m == mainposition(t, t.node[i].key) IN
                         /\ ~InArray(t, t.node[i].key)
                         /\ u.node[m].key # nil /\ mainposition(t, u.node[m].key) = m
                         /\ Reaches(t, m, i)
    BY <1>1, <1>2, <1>3, <1>4 DEF InPlace
  <2>1. t.node[i].key \in Keys
    BY NodeFields DEF Sound
  <2>2. mainposition(t, t.node[i].key) \in Nodes(t)
    BY <2>1, KeyOnChain DEF IsAt
  <2>. QED
    BY <1>2, <2>2 DEF Sound, InPlace
<1>9. KeysOnce(u)
  BY <1>1, <1>2 DEF Sound, KeysOnce, SameKeys
<1>10. LiveFirst(u)
  <2>. SUFFICES ASSUME NEW i \in Nodes(t), NEW j \in Nodes(t), t.node[i].key = t.node[j].key,
                       u.node[i].tt = "live", u.node[j].tt = "dead"
                PROVE  Reaches(t, i, j)
    BY <1>1, <1>2, <1>3 DEF LiveFirst
  <2>1. t.node[i].tt = "live" /\ t.node[j].key \in Strings /\ t.node[j].key # nil
    BY <1>2, KeysDiffer DEF SameKeys
  <2>2. i # j
    OBVIOUS
  <2>3. t.node[j].tt = "dead"
    BY <2>1, <2>2, NodeFields DEF Sound, KeysOnce
  <2>. QED
    BY <2>1, <2>3 DEF Sound, LiveFirst
<1>11. FreeBelow(u)
  BY <1>1, <1>2 DEF Sound, FreeBelow, SameKeys
<1>. QED
  BY <1>5, <1>6, <1>7, <1>8, <1>9, <1>10, <1>11 DEF Sound, Linked

\* A store to a place of the array part.
LEMMA StoreInArray ==
  ASSUME LuaTableAssumption, NEW t, Sound(t), NEW k \in Keys, InArray(t, k), NEW v \in {value, nil}
  PROVE  LET u == [t EXCEPT !.array[k] = v] IN
           /\ Sound(u) /\ SameKeys(t, u)
           /\ u.node = t.node
           /\ \A j \in Keys : Get(u, j) = IF j = k THEN v ELSE Get(t, j)
<1>. DEFINE u == [t EXCEPT !.array[k] = v]
            a == [t.array EXCEPT ![k] = v]
<1>0. t \in TableType
  BY DEF Sound
<1>1. k \in 1 .. Len(t.array) /\ k \in Ints
  BY KeysDiffer DEF InArray, Ints
<1>2. u = [array |-> a, node |-> t.node, lastfree |-> t.lastfree]
  <2>1. u = [t EXCEPT !.array = a]
    OBVIOUS
  <2>. HIDE DEF a, u
  <2>. QED
    BY <1>0, <2>1, NodeFields
<1>3. a \in Seq({value, nil}) /\ Len(a) = Len(t.array)
      /\ \A i \in 1 .. Len(t.array) : a[i] = IF i = k THEN v ELSE t.array[i]
  BY <1>0, <1>1, NodeFields
<1>. HIDE DEF u, a
<1>4. u.array = a /\ u.node = t.node /\ u.lastfree = t.lastfree /\ Nodes(u) = Nodes(t)
  BY <1>2 DEF Nodes
<1>5. u \in TableType
  BY <1>0, <1>2, <1>3, NodeFields DEF TableType
<1>6. SameKeys(t, u)
  BY <1>3, <1>4 DEF Sound, SameKeys, EmptyNodes, DeadNodes
<1>7. ArrayFits(u)
  BY <1>1, <1>3, <1>4, KeysDiffer DEF ArrayFits, Sound, Ints
<1>8. Sound(u)
  BY <1>5, <1>6, <1>7, SameKeysSound
<1>9. ASSUME NEW j \in Keys PROVE Get(u, j) = IF j = k THEN v ELSE Get(t, j)
  <2>0. InArray(u, j) <=> InArray(t, j)
    BY <1>3, <1>4 DEF InArray
  <2>1. CASE InArray(t, j)
    <3>1. j \in 1 .. Len(t.array)
      BY <2>1, KeysDiffer DEF InArray, Ints
    <3>. QED
      BY <1>3, <1>4, <1>8, <2>0, <2>1, <3>1, GetIs
  <2>2. CASE ~InArray(t, j)
    <3>1. j # k
      BY <2>2
    <3>2. \A i \in Nodes(t) : t.node[i].tt # "live" => t.node[i].tt = "dead"
      BY <1>0, NodeFields
    <3>3. CASE \E i \in Nodes(t) : t.node[i].key = j /\ t.node[i].tt = "live"
      BY <1>4, <1>8, <3>1, <3>3, GetIs
    <3>4. CASE ~\E i \in Nodes(t) : t.node[i].key = j /\ t.node[i].tt = "live"
      BY <1>4, <1>8, <2>0, <2>2, <3>1, <3>2, <3>4, GetIs
    <3>. QED
      BY <3>3, <3>4
  <2>. QED
    BY <2>1, <2>2
<1>. QED
  BY <1>4, <1>6, <1>8, <1>9 DEF u

\* A node of a table replaced.
Put(t, i, e) == [t EXCEPT !.node = [t.node EXCEPT ![i] = e]]

LEMMA PutFields ==
  ASSUME NEW t \in TableType, NEW i \in Nodes(t), NEW e \in NodeType
  PROVE  /\ Put(t, i, e) \in TableType
         /\ Put(t, i, e).array = t.array /\ Put(t, i, e).lastfree = t.lastfree
         /\ Len(Put(t, i, e).node) = Len(t.node) /\ Nodes(Put(t, i, e)) = Nodes(t)
         /\ \A j \in Nodes(t) : Put(t, i, e).node[j] = IF j = i THEN e ELSE t.node[j]
<1>. DEFINE m == [t.node EXCEPT ![i] = e]
<1>1. Put(t, i, e) = [array |-> t.array, node |-> m, lastfree |-> t.lastfree]
  BY NodeFields DEF Put
<1>2. /\ m \in Seq(NodeType) /\ Len(m) = Len(t.node)
      /\ \A j \in Nodes(t) : m[j] = IF j = i THEN e ELSE t.node[j]
  BY NodeFields DEF Nodes
<1>. HIDE DEF m
<1>. QED
  BY <1>1, <1>2, NodeFields DEF TableType, Nodes

LEMMA NodeIs ==
  ASSUME NEW k \in Keys \cup {nil}, NEW tt \in {"live", "dead"}, NEW v \in {value, nil}, NEW x \in Nat
  PROVE  [key |-> k, tt |-> tt, val |-> v, next |-> x] \in NodeType
BY DEF NodeType

LEMMA NodeIsFields ==
  ASSUME NEW e \in NodeType
  PROVE  e = [key |-> e.key, tt |-> e.tt, val |-> e.val, next |-> e.next]
BY DEF NodeType

\* A store to the node of a key.
LEMMA StoreInNode ==
  ASSUME LuaTableAssumption, NEW t, Sound(t), NEW k \in Keys, NodeOf(t, k) # 0, NEW v \in {value, nil}
  PROVE  LET u == [t EXCEPT !.node[NodeOf(t, k)].val = v] IN
           /\ Sound(u) /\ SameKeys(t, u)
           /\ \A i \in Nodes(t) : u.node[i].val = IF i = NodeOf(t, k) THEN v ELSE t.node[i].val
           /\ \A i \in Nodes(t) : u.node[i].tt = t.node[i].tt
           /\ u.array = t.array
           /\ \A j \in Keys : Get(u, j) = IF j = k THEN v ELSE Get(t, j)
<1>. DEFINE p == NodeOf(t, k)
            u == [t EXCEPT !.node[p].val = v]
            e == [key |-> t.node[p].key, tt |-> t.node[p].tt, val |-> v, next |-> t.node[p].next]
<1>0. t \in TableType
  BY DEF Sound
<1>1. p \in Nodes(t) /\ t.node[p].key = k /\ t.node[p].tt = "live" /\ ~InArray(t, k)
  BY NodeOfIs DEF IsAt
<1>2. k # nil
  BY KeysDiffer
<1>. HIDE DEF p
<1>3. e = [t.node[p] EXCEPT !.val = v]
  BY <1>0, <1>1, NodeFields, NodeIsFields
<1>4. u = Put(t, p, e)
  <2>1. u = [t EXCEPT !.node = [t.node EXCEPT ![p] = [t.node[p] EXCEPT !.val = v]]]
    BY <1>0, <1>1, NodeFields
  <2>. HIDE DEF u, e
  <2>. QED
    BY <1>3, <2>1 DEF Put
<1>5. e \in NodeType
  BY <1>0, <1>1, NodeFields, NodeIs
<1>6. e.key = t.node[p].key /\ e.tt = t.node[p].tt /\ e.val = v /\ e.next = t.node[p].next
  OBVIOUS
<1>. HIDE DEF u, e
<1>7. /\ u \in TableType /\ u.array = t.array /\ u.lastfree = t.lastfree
      /\ Len(u.node) = Len(t.node) /\ Nodes(u) = Nodes(t)
      /\ \A j \in Nodes(t) : u.node[j] = IF j = p THEN e ELSE t.node[j]
  BY <1>0, <1>1, <1>4, <1>5, PutFields
<1>8. \A i \in Nodes(t) : /\ u.node[i].key = t.node[i].key /\ u.node[i].tt = t.node[i].tt
                          /\ u.node[i].next = t.node[i].next
                          /\ u.node[i].val = IF i = p THEN v ELSE t.node[i].val
  BY <1>6, <1>7
<1>9. SameKeys(t, u)
  BY <1>1, <1>2, <1>7, <1>8 DEF SameKeys, Sound, DeadNodes, EmptyNodes
<1>10. ArrayFits(u)
  BY <1>7 DEF Sound, ArrayFits
<1>11. Sound(u)
  BY <1>7, <1>9, <1>10, SameKeysSound
<1>12. ASSUME NEW j \in Keys PROVE Get(u, j) = IF j = k THEN v ELSE Get(t, j)
  <2>0. InArray(u, j) <=> InArray(t, j)
    BY <1>7 DEF InArray
  <2>1. CASE InArray(t, j)
    BY <1>1, <1>7, <1>11, <2>0, <2>1, GetIs
  <2>2. CASE ~InArray(t, j)
    <3>1. \A i \in Nodes(t) : t.node[i].tt # "live" => t.node[i].tt = "dead"
      BY <1>0, NodeFields
    <3>2. CASE j = k
      BY <1>1, <1>7, <1>8, <1>11, <3>2, GetIs
    <3>3. ASSUME j # k, NEW i \in Nodes(t), t.node[i].key = j, t.node[i].tt = "live"
          PROVE  Get(u, j) = Get(t, j)
      <4>1. i # p
        BY <1>1, <3>3
      <4>2. Get(u, j) = u.node[i].val /\ Get(t, j) = t.node[i].val
        BY <1>7, <1>8, <1>11, <3>3, GetIs
      <4>. QED
        BY <1>8, <4>1, <4>2
    <3>4. CASE ~\E i \in Nodes(t) : t.node[i].key = j /\ t.node[i].tt = "live"
      <4>1. j # k
        BY <1>1, <3>4
      <4>2. Get(t, j) = nil
        BY <2>2, <3>1, <3>4, GetIs
      <4>3. \A i \in Nodes(u) : u.node[i].key = j => u.node[i].tt = "dead"
        BY <1>7, <1>8, <3>1, <3>4
      <4>4. Get(u, j) = nil
        BY <1>11, <2>0, <2>2, <4>3, GetIs
      <4>. QED
        BY <4>1, <4>2, <4>4
    <3>. QED
      BY <3>2, <3>3, <3>4
  <2>. QED
    BY <2>1, <2>2
<1>. QED
  BY <1>7, <1>8, <1>9, <1>11, <1>12 DEF u, p
--------------------------------------------------------------------------------
(* Stores of new keys *)

\* getfreepos finds the last free node, if there is one.
LEMMA FreePosIs ==
  ASSUME LuaTableAssumption, NEW t, Sound(t)
  PROVE  /\ getfreepos(t) # 0 => /\ getfreepos(t) \in Nodes(t) /\ t.node[getfreepos(t)].key = nil
                                 /\ \A i \in Nodes(t) : i > getfreepos(t) => t.node[i].key # nil
         /\ getfreepos(t) = 0 => \A i \in Nodes(t) : t.node[i].key # nil
<1>. DEFINE free == {i \in DOMAIN t.node : i < t.lastfree /\ t.node[i].key = nil}
<1>1. DOMAIN t.node = Nodes(t) /\ Len(t.node) \in Nat
  BY NodeFields DEF Sound
<1>2. getfreepos(t) = IF free = {} THEN 0 ELSE Max(free)
  BY DEF getfreepos
<1>3. \A i \in Nodes(t) : i \notin free => t.node[i].key # nil
  BY <1>1 DEF Sound, FreeBelow, Nodes
<1>4. free \subseteq Nodes(t) /\ 0 \notin Nodes(t)
  BY <1>1 DEF Nodes
<1>5. CASE free = {}
  BY <1>2, <1>3, <1>5
<1>6. CASE free # {}
  <2>1. \E x \in free : \A y \in free : x >= y
    <3>. DEFINE n == Len(t.node)
                B == {m \in Nat : \A y \in free : m >= y}
    <3>1. n \in B
      BY <1>1, <1>4 DEF Nodes
    <3>2. B \subseteq Nat /\ B # {}
      BY <3>1
    <3>. HIDE DEF B
    <3>3. PICK m \in B : \A k \in B : m <= k
      BY <3>2, LeastNumber
    <3>4. m \in Nat /\ \A y \in free : m >= y
      BY <3>3 DEF B
    <3>5. m \in free
      <4>. SUFFICES ASSUME m \notin free PROVE FALSE
        OBVIOUS
      <4>1. free \subseteq Nat /\ \A y \in free : y >= 1
        BY <1>1, <1>4 DEF Nodes
      <4>. HIDE DEF free
      <4>2. PICK y0 \in free : TRUE
        BY <1>6
      <4>3. m - 1 \in Nat
        BY <3>4, <4>1, <4>2
      <4>4. \A y \in free : m - 1 >= y
        BY <3>4, <4>1
      <4>5. m - 1 \in B
        BY <4>3, <4>4 DEF B
      <4>. QED
        BY <3>3, <3>4, <4>5
    <3>. QED
      BY <3>4, <3>5
  <2>. HIDE DEF free
  <2>2. Max(free) \in free /\ \A y \in free : Max(free) >= y
    BY <2>1 DEF Max
  <2>3. getfreepos(t) = Max(free) /\ Max(free) \in Nodes(t) /\ Max(free) # 0
    BY <1>2, <1>4, <1>6, <2>2
  <2>4. t.node[Max(free)].key = nil
    BY <2>2 DEF free
  <2>5. ASSUME NEW i \in Nodes(t), i > Max(free) PROVE t.node[i].key # nil
    <3>1. i \in Nat /\ Max(free) \in Nat
      BY <1>1, <2>3 DEF Nodes
    <3>2. i \notin free
      BY <2>2, <2>5, <3>1
    <3>. QED
      BY <1>3, <3>2
  <2>. QED
    BY <2>3, <2>4, <2>5
<1>. QED
  BY <1>5, <1>6

\* A key that has no live node.
Absent(t, k) == ~InArray(t, k) /\ \A i \in Nodes(t) : t.node[i].key = k => t.node[i].tt = "dead"

SameSize(t, u) == u.array = t.array /\ Len(u.node) = Len(t.node)

\* The key goes to its main position, which is empty.
AtMain(t, u, k, v, mp) ==
  /\ SameSize(t, u) /\ u.lastfree = t.lastfree
  /\ t.node[mp].val = nil
  /\ u.node[mp] = [key |-> k, tt |-> "live", val |-> v, next |-> t.node[mp].next]
  /\ \A i \in Nodes(t) : i # mp => u.node[i] = t.node[i]

LEMMA AtMainSound ==
  ASSUME LuaTableAssumption, NEW t, Sound(t), NEW k \in Keys, Absent(t, k), NEW v \in {value, nil},
         Len(t.node) # 0, NEW u \in TableType, NEW mp, mp = mainposition(t, k), AtMain(t, u, k, v, mp)
  PROVE  Sound(u)
<1>0. /\ Nodes(u) = Nodes(t) /\ Len(u.node) = Len(t.node) /\ Len(u.array) = Len(t.array)
      /\ u.array = t.array /\ u.lastfree = t.lastfree /\ t \in TableType /\ Len(t.node) \in Nat
  BY NodeFields DEF AtMain, SameSize, Nodes, Sound
<1>1. mp \in Nodes(t) /\ k # nil
  BY <1>0, MainIsNode, KeysDiffer
<1>2. /\ u.node[mp].key = k /\ u.node[mp].tt = "live" /\ u.node[mp].val = v
      /\ \A i \in Nodes(t) : u.node[i].next = t.node[i].next
      /\ \A i \in Nodes(t) : i # mp => u.node[i] = t.node[i]
  BY DEF AtMain
<1>3. \A i, j : Reaches(u, i, j) <=> Reaches(t, i, j)
  BY <1>0, <1>2, ReachesFrom
<1>4. \A j : (InArray(u, j) <=> InArray(t, j)) /\ mainposition(u, j) = mainposition(t, j)
  BY <1>0, SameMain DEF InArray
<1>5. \A i \in Nodes(t) : t.node[i].key # nil => u.node[i].key # nil
  BY <1>1, <1>2
<1>6. Links(u)
  <2>. SUFFICES ASSUME NEW i \in Nodes(t)
                PROVE  /\ t.node[i].next \in 0 .. Len(t.node)
                       /\ t.node[i].next # 0 => u.node[i].key # nil /\ u.node[t.node[i].next].key # nil
    BY <1>0, <1>2 DEF Links
  <2>1. t.node[i].next \in 0 .. Len(t.node)
        /\ (t.node[i].next # 0 => t.node[i].key # nil /\ t.node[t.node[i].next].key # nil)
    BY DEF Sound, Linked, Links
  <2>2. t.node[i].next # 0 => t.node[i].next \in Nodes(t)
    BY <1>0, <2>1 DEF Nodes
  <2>. QED
    BY <1>5, <2>1, <2>2
<1>7. OneBefore(u) /\ Acyclic(u)
  BY <1>0, <1>2 DEF Sound, Linked, OneBefore, Acyclic, Ranked
<1>8. EmptyNodes(u) /\ DeadNodes(u)
  BY <1>0, <1>1, <1>2 DEF Sound, EmptyNodes, DeadNodes
<1>9. InPlace(u)
  <2>. SUFFICES ASSUME NEW i \in Nodes(t), u.node[i].key # nil
                PROVE  LET m == mainposition(t, u.node[i].key) IN
                         /\ ~InArray(t, u.node[i].key)
                         /\ u.node[m].key # nil /\ mainposition(t, u.node[m].key) = m
                         /\ Reaches(t, m, i)
    BY <1>0, <1>3, <1>4 DEF InPlace
  <2>1. CASE i = mp
    BY <1>1, <1>2, <2>1 DEF Absent, Reaches
  <2>2. CASE i # mp
    <3>. DEFINE m == mainposition(t, t.node[i].key)
    <3>1. u.node[i].key = t.node[i].key /\ t.node[i].key \in Keys
      BY <1>0, <1>2, <2>2, NodeFields
    <3>2. /\ ~InArray(t, t.node[i].key) /\ Reaches(t, m, i)
          /\ t.node[m].key # nil /\ mainposition(t, t.node[m].key) = m
      BY <3>1 DEF Sound, InPlace
    <3>3. m \in Nodes(t)
      BY <3>1, KeyOnChain DEF IsAt
    <3>. HIDE DEF m
    <3>4. u.node[m].key # nil /\ mainposition(t, u.node[m].key) = m
      <4>1. CASE m = mp
        BY <1>1, <1>2, <4>1
      <4>2. CASE m # mp
        BY <1>2, <3>2, <3>3, <4>2
      <4>. QED
        BY <4>1, <4>2
    <3>. QED
      BY <3>1, <3>2, <3>4 DEF m
  <2>. QED
    BY <2>1, <2>2
<1>10. KeysOnce(u)
  <2>. SUFFICES ASSUME NEW i \in Nodes(t), NEW j \in Nodes(t), u.node[i].key = u.node[j].key,
                       u.node[i].key # nil, u.node[i].tt = "live", u.node[j].tt = "live", i # j
                PROVE  FALSE
    BY <1>0 DEF KeysOnce
  <2>1. CASE i = mp
    BY <1>2, <2>1 DEF Absent
  <2>2. CASE j = mp
    BY <1>2, <2>2 DEF Absent
  <2>3. CASE i # mp /\ j # mp
    BY <1>2, <2>3 DEF Sound, KeysOnce
  <2>. QED
    BY <2>1, <2>2, <2>3
<1>11. LiveFirst(u)
  <2>. SUFFICES ASSUME NEW i \in Nodes(t), NEW j \in Nodes(t), u.node[i].key = u.node[j].key,
                       u.node[i].tt = "live", u.node[j].tt = "dead"
                PROVE  Reaches(t, i, j)
    BY <1>0, <1>3 DEF LiveFirst
  <2>1. j # mp /\ u.node[j] = t.node[j]
    BY <1>2
  <2>2. CASE i = mp
    BY <1>1, <1>2, <2>1, <2>2 DEF Sound, InPlace
  <2>3. CASE i # mp
    BY <1>2, <2>1, <2>3 DEF Sound, LiveFirst
  <2>. QED
    BY <2>2, <2>3
<1>12. FreeBelow(u)
  BY <1>0, <1>5 DEF Sound, FreeBelow
<1>13. ArrayFits(u)
  BY <1>0 DEF Sound, ArrayFits
<1>. QED
  BY <1>6, <1>7, <1>8, <1>9, <1>10, <1>11, <1>12, <1>13 DEF Sound, Linked

\* The main position holds a key of its own: the key goes to the free node f, which
\* comes after it.
InFree(t, u, k, v, mp, f) ==
  /\ SameSize(t, u) /\ u.lastfree = f
  /\ t.node[mp].val # nil /\ mainposition(t, t.node[mp].key) = mp
  /\ u.node[f] = [key |-> k, tt |-> "live", val |-> v, next |-> t.node[mp].next]
  /\ u.node[mp] = [key |-> t.node[mp].key, tt |-> t.node[mp].tt, val |-> t.node[mp].val, next |-> f]
  /\ \A i \in Nodes(t) \ {mp, f} : u.node[i] = t.node[i]

\* A free node.
FreeAt(t, f) ==
  /\ f \in Nodes(t) /\ t.node[f].key = nil
  /\ \A i \in Nodes(t) : i > f => t.node[i].key # nil

\* No chain meets a free node.
LEMMA FreeIsOff ==
  ASSUME LuaTableAssumption, NEW t, Sound(t), NEW f, FreeAt(t, f)
  PROVE  /\ t.node[f].next = 0 /\ \A i \in Nodes(t) : t.node[i].next # f
         /\ \A i \in Nodes(t) : t.node[i].next # 0 => t.node[i].next \in Nodes(t) \ {f}
<1>1. Len(t.node) \in Nat
  BY NodeFields DEF Sound
<1>2. \A i \in Nodes(t) : /\ t.node[i].next \in 0 .. Len(t.node)
                          /\ t.node[i].next # 0 => t.node[i].key # nil /\ t.node[t.node[i].next].key # nil
  BY DEF Sound, Linked, Links
<1>3. f # 0
  BY DEF FreeAt, Nodes
<1>. QED
  BY <1>1, <1>2, <1>3 DEF FreeAt, Nodes

\* A node in use is live.
LEMMA UsedIsLive ==
  ASSUME NEW t, Sound(t), NEW i \in Nodes(t), t.node[i].val # nil
  PROVE  t.node[i].key # nil /\ t.node[i].tt = "live" /\ t.node[i].key \in Keys
BY NodeFields DEF Sound, EmptyNodes, DeadNodes

LEMMA InFreeSound ==
  ASSUME LuaTableAssumption, NEW t, Sound(t), NEW k \in Keys, Absent(t, k), NEW v \in {value, nil},
         Len(t.node) # 0, NEW u \in TableType, NEW mp, mp = mainposition(t, k),
         NEW f, FreeAt(t, f), InFree(t, u, k, v, mp, f)
  PROVE  Sound(u)
<1>0. /\ Nodes(u) = Nodes(t) /\ Len(u.node) = Len(t.node) /\ Len(u.array) = Len(t.array)
      /\ u.array = t.array /\ u.lastfree = f /\ t \in TableType /\ Len(t.node) \in Nat
  BY NodeFields DEF InFree, SameSize, Nodes, Sound
<1>1. mp \in Nodes(t) /\ k # nil /\ f \in Nodes(t) /\ t.node[f].key = nil
  BY <1>0, MainIsNode, KeysDiffer DEF FreeAt
<1>2. /\ t.node[mp].key # nil /\ t.node[mp].tt = "live" /\ mp # f
      /\ mainposition(t, t.node[mp].key) = mp
  BY <1>1, UsedIsLive DEF InFree
<1>3. /\ t.node[f].next = 0 /\ \A i \in Nodes(t) : t.node[i].next # f
      /\ \A i \in Nodes(t) : t.node[i].next # 0 => t.node[i].next \in Nodes(t) \ {f}
  BY FreeIsOff
<1>4. /\ u.node[f].key = k /\ u.node[f].tt = "live" /\ u.node[f].val = v
      /\ u.node[f].next = t.node[mp].next /\ u.node[mp].next = f
      /\ \A i \in Nodes(t) \ {f} : /\ u.node[i].key = t.node[i].key /\ u.node[i].tt = t.node[i].tt
                                   /\ u.node[i].val = t.node[i].val
                                   /\ i # mp => u.node[i].next = t.node[i].next
  BY <1>2 DEF InFree
<1>5. \A j : (InArray(u, j) <=> InArray(t, j)) /\ mainposition(u, j) = mainposition(t, j)
  BY <1>0, SameMain DEF InArray
<1>6. \A i \in Nodes(t) : t.node[i].key # nil => i # f /\ u.node[i].key # nil
  BY <1>1, <1>4
<1>7. f \in 1 .. Len(t.node)
  BY <1>1 DEF Nodes
<1>8. Links(u)
  <2>. SUFFICES ASSUME NEW i \in Nodes(t)
                PROVE  /\ u.node[i].next \in 0 .. Len(t.node)
                       /\ u.node[i].next # 0 => u.node[i].key # nil /\ u.node[u.node[i].next].key # nil
    BY <1>0 DEF Links
  <2>1. \A j \in Nodes(t) : /\ t.node[j].next \in 0 .. Len(t.node)
                            /\ t.node[j].next # 0 => t.node[j].key # nil /\ t.node[t.node[j].next].key # nil
    BY DEF Sound, Linked, Links
  <2>2. CASE i = f
    BY <1>1, <1>3, <1>4, <1>6, <2>1, <2>2
  <2>3. CASE i = mp
    <3>1. u.node[i].next = f /\ u.node[i].key # nil
      BY <1>1, <1>2, <1>4, <1>6, <2>3
    <3>2. f \in 0 .. Len(t.node) /\ u.node[f].key # nil
      BY <1>0, <1>1, <1>4, <1>7
    <3>. QED
      BY <3>1, <3>2
  <2>4. CASE i # f /\ i # mp
    BY <1>3, <1>4, <1>6, <2>1, <2>4
  <2>. QED
    BY <2>2, <2>3, <2>4
<1>9. OneBefore(u)
  <2>. SUFFICES ASSUME NEW i \in Nodes(t), NEW j \in Nodes(t), u.node[i].next = u.node[j].next,
                       u.node[i].next # 0, i # j
                PROVE  FALSE
    BY <1>0 DEF OneBefore
  <2>1. \A x, y \in Nodes(t) : t.node[x].next = t.node[y].next /\ t.node[x].next # 0 => x = y
    BY DEF Sound, Linked, OneBefore
  <2>2. CASE i = mp \/ j = mp
    BY <1>1, <1>3, <1>4, <2>2
  <2>3. CASE i # mp /\ j # mp
    BY <1>1, <1>4, <2>1, <2>3
  <2>. QED
    BY <2>2, <2>3
<1>10. Acyclic(u)
  <2>1. PICK r \in [Nodes(t) -> Int] : Ranked(t, r)
    BY DEF Sound, Linked, Acyclic
  <2>. DEFINE s == [i \in Nodes(t) |-> IF i = f THEN 2 * r[mp] + 1 ELSE 2 * r[i]]
  <2>2. s \in [Nodes(t) -> Int] /\ \A i \in Nodes(t) : s[i] = IF i = f THEN 2 * r[mp] + 1 ELSE 2 * r[i]
    BY <1>1, <2>1
  <2>. HIDE DEF s
  <2>3. ASSUME NEW i \in Nodes(t), u.node[i].next # 0 PROVE s[i] < s[u.node[i].next]
    <3>1. \A x \in Nodes(t) : r[x] \in Int
      BY <2>1
    <3>2. CASE i = f
      <4>1. t.node[mp].next # 0 /\ t.node[mp].next \in Nodes(t) \ {f} /\ r[mp] < r[t.node[mp].next]
        BY <1>1, <1>3, <1>4, <2>1, <2>3, <3>2 DEF Ranked
      <4>2. s[f] = 2 * r[mp] + 1 /\ s[t.node[mp].next] = 2 * r[t.node[mp].next]
        BY <1>1, <2>2, <4>1
      <4>3. u.node[i].next = t.node[mp].next
        BY <1>1, <1>4, <3>2
      <4>. DEFINE a == r[mp]
                  b == r[t.node[mp].next]
      <4>4. a \in Int /\ b \in Int /\ a < b
        BY <1>1, <3>1, <4>1
      <4>5. s[i] = 2 * a + 1 /\ s[u.node[i].next] = 2 * b
        BY <3>2, <4>2, <4>3
      <4>. HIDE DEF a, b
      <4>. QED
        BY <4>4, <4>5
    <3>3. CASE i = mp
      <4>1. s[mp] = 2 * r[mp] /\ s[f] = 2 * r[mp] + 1 /\ r[mp] \in Int
        BY <1>1, <1>2, <2>2, <3>1
      <4>. QED
        BY <1>4, <3>3, <4>1
    <3>4. CASE i # f /\ i # mp
      <4>1. u.node[i].next = t.node[i].next /\ t.node[i].next \in Nodes(t) \ {f} /\ r[i] < r[t.node[i].next]
        BY <1>3, <1>4, <2>1, <2>3, <3>4 DEF Ranked
      <4>2. s[i] = 2 * r[i] /\ s[t.node[i].next] = 2 * r[t.node[i].next]
        BY <2>2, <3>4, <4>1
      <4>. QED
        BY <3>1, <4>1, <4>2
    <3>. QED
      BY <3>2, <3>3, <3>4
  <2>. QED
    BY <1>0, <2>2, <2>3 DEF Acyclic, Ranked
<1>11. EmptyNodes(u) /\ DeadNodes(u)
  <2>1. \A i \in Nodes(t) : i # f => /\ u.node[i].key = t.node[i].key /\ u.node[i].tt = t.node[i].tt
                                     /\ u.node[i].val = t.node[i].val
    BY <1>4
  <2>. QED
    BY <1>0, <1>1, <1>4, <2>1 DEF Sound, EmptyNodes, DeadNodes
<1>12. ASSUME NEW i \in Nodes(t) \ {f}, NEW j \in Nodes(t) \ {f}, Reaches(t, i, j)
       PROVE  Reaches(u, i, j)
  <2>. SUFFICES ASSUME NEW S \in SUBSET Nodes(t), i \in S, Closed(u, S) PROVE j \in S
    BY <1>0 DEF Reaches
  <2>1. Closed(t, S \ {f})
    <3>. SUFFICES ASSUME NEW x \in S \ {f}, t.node[x].next # 0 PROVE t.node[x].next \in S \ {f}
      BY DEF Closed
    <3>1. t.node[x].next # f
      BY <1>3
    <3>2. CASE x = mp
      <4>1. f \in S
        BY <1>1, <1>3, <1>4, <3>2 DEF Closed, Nodes
      <4>. QED
        BY <1>4, <3>1, <3>2, <4>1 DEF Closed
    <3>3. CASE x # mp
      BY <1>4, <3>1, <3>3 DEF Closed
    <3>. QED
      BY <3>2, <3>3
  <2>2. j \in S \ {f}
    BY <1>12, <2>1 DEF Reaches
  <2>. QED
    BY <2>2
<1>13. Reaches(u, mp, f)
  <2>. SUFFICES ASSUME NEW S \in SUBSET Nodes(t), mp \in S, Closed(u, S) PROVE f \in S
    BY <1>0 DEF Reaches
  <2>1. f # 0
    BY <1>7
  <2>. QED
    BY <1>4, <2>1 DEF Closed
<1>14. InPlace(u)
  <2>. SUFFICES ASSUME NEW i \in Nodes(t), u.node[i].key # nil
                PROVE  LET m == mainposition(t, u.node[i].key) IN
                         /\ ~InArray(t, u.node[i].key)
                         /\ u.node[m].key # nil /\ mainposition(t, u.node[m].key) = m
                         /\ Reaches(u, m, i)
    BY <1>0, <1>5 DEF InPlace
  <2>1. CASE i = f
    BY <1>1, <1>2, <1>4, <1>13, <2>1 DEF Absent
  <2>2. CASE i # f
    <3>. DEFINE m == mainposition(t, t.node[i].key)
    <3>1. u.node[i].key = t.node[i].key /\ t.node[i].key \in Keys
      BY <1>0, <1>4, <2>2, NodeFields
    <3>2. /\ ~InArray(t, t.node[i].key) /\ Reaches(t, m, i)
          /\ t.node[m].key # nil /\ mainposition(t, t.node[m].key) = m
      BY <3>1 DEF Sound, InPlace
    <3>3. m \in Nodes(t)
      BY <3>1, KeyOnChain DEF IsAt
    <3>. HIDE DEF m
    <3>4. m # f /\ u.node[m].key = t.node[m].key
      BY <1>4, <1>6, <3>2, <3>3
    <3>5. Reaches(u, m, i)
      BY <1>12, <2>2, <3>2, <3>3, <3>4
    <3>. QED
      BY <3>1, <3>2, <3>4, <3>5 DEF m
  <2>. QED
    BY <2>1, <2>2
<1>15. KeysOnce(u)
  <2>. SUFFICES ASSUME NEW i \in Nodes(t), NEW j \in Nodes(t), u.node[i].key = u.node[j].key,
                       u.node[i].key # nil, u.node[i].tt = "live", u.node[j].tt = "live", i # j
                PROVE  FALSE
    BY <1>0 DEF KeysOnce
  <2>1. CASE i = f
    BY <1>4, <2>1 DEF Absent
  <2>2. CASE j = f
    BY <1>4, <2>2 DEF Absent
  <2>3. CASE i # f /\ j # f
    BY <1>4, <2>3 DEF Sound, KeysOnce
  <2>. QED
    BY <2>1, <2>2, <2>3
<1>16. LiveFirst(u)
  <2>. SUFFICES ASSUME NEW i \in Nodes(t), NEW j \in Nodes(t), u.node[i].key = u.node[j].key,
                       u.node[i].tt = "live", u.node[j].tt = "dead"
                PROVE  Reaches(u, i, j)
    BY <1>0 DEF LiveFirst
  <2>1. j # f /\ j # mp /\ u.node[j].key = t.node[j].key /\ t.node[j].tt = "dead"
    BY <1>1, <1>2, <1>4
  <2>2. CASE i = f
    <3>1. Reaches(t, mp, j)
      BY <1>1, <1>4, <2>1, <2>2 DEF Sound, InPlace
    <3>. SUFFICES ASSUME NEW S \in SUBSET Nodes(t), f \in S, Closed(u, S) PROVE j \in S
      BY <1>0, <2>2 DEF Reaches
    <3>. DEFINE R == (S \ {f}) \cup {mp}
    <3>2. Closed(t, R)
      <4>. SUFFICES ASSUME NEW x \in R, t.node[x].next # 0 PROVE t.node[x].next \in R
        BY DEF Closed
      <4>1. x \in Nodes(t) /\ t.node[x].next # f
        BY <1>1, <1>3
      <4>2. CASE x = mp
        BY <1>4, <4>1, <4>2 DEF Closed
      <4>3. CASE x # mp
        BY <1>4, <4>1, <4>3 DEF Closed
      <4>. QED
        BY <4>2, <4>3
    <3>3. R \in SUBSET Nodes(t) /\ mp \in R
      BY <1>1
    <3>. HIDE DEF R
    <3>4. j \in R
      BY <3>1, <3>2, <3>3 DEF Reaches
    <3>. QED
      BY <2>1, <3>4 DEF R
  <2>3. CASE i # f
    <3>1. Reaches(t, i, j)
      BY <1>4, <2>1, <2>3 DEF Sound, LiveFirst
    <3>. QED
      BY <1>12, <2>1, <2>3, <3>1
  <2>. QED
    BY <2>2, <2>3
<1>17. FreeBelow(u)
  <2>1. f \in 1 .. Len(t.node) + 1
    BY <1>0, <1>7
  <2>2. ASSUME NEW i \in Nodes(t), i >= f PROVE u.node[i].key # nil
    <3>1. CASE i = f
      BY <1>1, <1>4, <3>1
    <3>2. CASE i # f
      <4>1. i > f
        BY <1>0, <1>7, <2>2, <3>2 DEF Nodes
      <4>. QED
        BY <1>6, <4>1 DEF FreeAt
    <3>. QED
      BY <3>1, <3>2
  <2>. QED
    BY <1>0, <2>1, <2>2 DEF FreeBelow
<1>18. ArrayFits(u)
  BY <1>0 DEF Sound, ArrayFits
<1>. QED
  BY <1>8, <1>9, <1>10, <1>11, <1>14, <1>15, <1>16, <1>17, <1>18 DEF Sound, Linked

\* The main position holds a key that is out of its own: that node, after p on its
\* chain, goes to the free node f, and the key takes its place.
Displaced(t, u, k, v, mp, f, p) ==
  /\ SameSize(t, u) /\ u.lastfree = f
  /\ t.node[mp].val # nil /\ mainposition(t, t.node[mp].key) # mp
  /\ p \in Nodes(t) /\ t.node[p].next = mp
  /\ u.node[mp] = [key |-> k, tt |-> "live", val |-> v, next |-> 0]
  /\ u.node[f] = t.node[mp]
  /\ u.node[p] = [key |-> t.node[p].key, tt |-> t.node[p].tt, val |-> t.node[p].val, next |-> f]
  /\ \A i \in Nodes(t) \ {mp, f, p} : u.node[i] = t.node[i]

LEMMA DisplacedSound ==
  ASSUME LuaTableAssumption, NEW t, Sound(t), NEW k \in Keys, Absent(t, k), NEW v \in {value, nil},
         Len(t.node) # 0, NEW u \in TableType, NEW mp, mp = mainposition(t, k),
         NEW f, FreeAt(t, f), NEW p, Displaced(t, u, k, v, mp, f, p)
  PROVE  Sound(u)
<1>0. /\ Nodes(u) = Nodes(t) /\ Len(u.node) = Len(t.node) /\ Len(u.array) = Len(t.array)
      /\ u.array = t.array /\ u.lastfree = f /\ t \in TableType /\ Len(t.node) \in Nat
  BY NodeFields DEF Displaced, SameSize, Nodes, Sound
<1>1. /\ mp \in Nodes(t) /\ k # nil /\ f \in Nodes(t) /\ t.node[f].key = nil /\ p \in Nodes(t)
      /\ t.node[p].next = mp /\ mp # 0 /\ f \in 1 .. Len(t.node)
  BY <1>0, MainIsNode, KeysDiffer DEF FreeAt, Displaced, Nodes
<1>2. /\ t.node[mp].key # nil /\ t.node[mp].tt = "live" /\ mp # f /\ t.node[mp].key \in Keys
      /\ mainposition(t, t.node[mp].key) # mp
  BY <1>1, UsedIsLive DEF Displaced
<1>3. /\ t.node[f].next = 0 /\ \A i \in Nodes(t) : t.node[i].next # f
      /\ \A i \in Nodes(t) : t.node[i].next # 0 => t.node[i].next \in Nodes(t) \ {f}
  BY FreeIsOff
<1>4. PICK r \in [Nodes(t) -> Int] : Ranked(t, r)
  BY DEF Sound, Linked, Acyclic
<1>5. p # mp /\ p # f
  <2>1. r[p] < r[mp] /\ r[mp] \in Int
    BY <1>1, <1>4 DEF Ranked
  <2>. QED
    BY <1>1, <1>3, <2>1
<1>6. \A i, j \in Nodes(t) : t.node[i].next = t.node[j].next /\ t.node[i].next # 0 => i = j
  BY DEF Sound, Linked, OneBefore
<1>7. \A i \in Nodes(t) : i # p => t.node[i].next # mp
  BY <1>1, <1>6
<1>8. /\ u.node[mp].key = k /\ u.node[mp].tt = "live" /\ u.node[mp].val = v /\ u.node[mp].next = 0
      /\ u.node[f] = t.node[mp]
      /\ u.node[p].next = f /\ u.node[p].key = t.node[p].key /\ u.node[p].tt = t.node[p].tt
      /\ u.node[p].val = t.node[p].val
      /\ \A i \in Nodes(t) : i # mp /\ i # f /\ i # p => u.node[i] = t.node[i]
  BY DEF Displaced
<1>9. \A i \in Nodes(t) : i # mp /\ i # f =>
        /\ u.node[i].key = t.node[i].key /\ u.node[i].tt = t.node[i].tt /\ u.node[i].val = t.node[i].val
  BY <1>8
<1>10. \A i \in Nodes(t) : t.node[i].key # nil => i # f /\ u.node[i].key # nil
  BY <1>1, <1>8, <1>9
<1>11. \A j : (InArray(u, j) <=> InArray(t, j)) /\ mainposition(u, j) = mainposition(t, j)
  BY <1>0, SameMain DEF InArray
\* The key has no node yet, not even a dead one.
<1>12. \A i \in Nodes(t) : t.node[i].key # k
  BY <1>1, <1>2 DEF Sound, InPlace
<1>13. \A i \in Nodes(t) : u.node[i].next # 0 => u.node[i].next \in Nodes(t) \ {mp}
  <2>. SUFFICES ASSUME NEW i \in Nodes(t), u.node[i].next # 0 PROVE u.node[i].next \in Nodes(t) \ {mp}
    OBVIOUS
  <2>1. CASE i = mp
    BY <1>8, <2>1
  <2>2. CASE i = f
    BY <1>1, <1>3, <1>5, <1>7, <1>8, <2>2
  <2>3. CASE i = p
    BY <1>1, <1>2, <1>8, <2>3
  <2>4. CASE i # mp /\ i # f /\ i # p
    BY <1>3, <1>7, <1>8, <2>4
  <2>. QED
    BY <2>1, <2>2, <2>3, <2>4
<1>14. Links(u)
  <2>. SUFFICES ASSUME NEW i \in Nodes(t)
                PROVE  /\ u.node[i].next \in 0 .. Len(t.node)
                       /\ u.node[i].next # 0 => u.node[i].key # nil /\ u.node[u.node[i].next].key # nil
    BY <1>0 DEF Links
  <2>1. \A j \in Nodes(t) : t.node[j].next # 0 => t.node[j].key # nil /\ t.node[t.node[j].next].key # nil
    BY DEF Sound, Linked, Links
  <2>2. u.node[i].next \in 0 .. Len(t.node)
    <3>1. \A x \in Nodes(t) : x \in 0 .. Len(t.node)
      BY <1>0 DEF Nodes
    <3>2. 0 \in 0 .. Len(t.node)
      BY <1>0
    <3>. QED
      BY <1>13, <3>1, <3>2
  <2>3. ASSUME u.node[i].next # 0 PROVE u.node[i].key # nil /\ u.node[u.node[i].next].key # nil
    <3>1. CASE i = mp
      BY <1>8, <2>3, <3>1
    <3>2. CASE i = f
      <4>1. t.node[mp].next # 0 /\ t.node[mp].next \in Nodes(t) /\ t.node[t.node[mp].next].key # nil
        BY <1>1, <1>3, <1>8, <2>1, <2>3, <3>2
      <4>. QED
        BY <1>2, <1>8, <1>10, <3>2, <4>1
    <3>3. CASE i = p
      <4>1. u.node[p].key # nil
        BY <1>1, <1>8, <2>1
      <4>. QED
        BY <1>2, <1>8, <3>3, <4>1
    <3>4. CASE i # mp /\ i # f /\ i # p
      <4>1. u.node[i] = t.node[i]
        BY <1>8, <3>4
      <4>. QED
        BY <1>3, <1>10, <2>1, <2>3, <4>1
    <3>. QED
      BY <3>1, <3>2, <3>3, <3>4
  <2>. QED
    BY <2>2, <2>3
<1>15. OneBefore(u)
  <2>. SUFFICES ASSUME NEW i \in Nodes(t), NEW j \in Nodes(t), u.node[i].next = u.node[j].next,
                       u.node[i].next # 0, i # j
                PROVE  FALSE
    BY <1>0 DEF OneBefore
  <2>1. i # mp /\ j # mp
    BY <1>8
  <2>2. CASE i = p \/ j = p
    <3>1. \A x \in Nodes(t) : x # p /\ x # mp => u.node[x].next # f
      BY <1>1, <1>3, <1>8, ZenonT(30)
    <3>. QED
      BY <1>8, <2>1, <2>2, <3>1
  <2>3. CASE i # p /\ j # p
    <3>1. CASE i = f
      BY <1>1, <1>6, <1>8, <2>1, <2>3, <3>1
    <3>2. CASE j = f
      BY <1>1, <1>6, <1>8, <2>1, <2>3, <3>2
    <3>3. CASE i # f /\ j # f
      BY <1>6, <1>8, <2>1, <2>3, <3>3
    <3>. QED
      BY <3>1, <3>2, <3>3
  <2>. QED
    BY <2>2, <2>3
<1>16. Acyclic(u)
  <2>. DEFINE s == [i \in Nodes(t) |-> IF i = f THEN r[mp] ELSE r[i]]
  <2>1. s \in [Nodes(t) -> Int] /\ \A i \in Nodes(t) : s[i] = IF i = f THEN r[mp] ELSE r[i]
    BY <1>1, <1>4
  <2>. HIDE DEF s
  <2>2. \A i \in Nodes(t) : t.node[i].next # 0 => r[i] < r[t.node[i].next]
    BY <1>4 DEF Ranked
  <2>3. ASSUME NEW i \in Nodes(t), u.node[i].next # 0 PROVE s[i] < s[u.node[i].next]
    <3>1. CASE i = mp
      BY <1>8, <2>3, <3>1
    <3>2. CASE i = f
      <4>1. u.node[i].next = t.node[mp].next /\ t.node[mp].next \in Nodes(t) \ {f} /\ r[mp] < r[t.node[mp].next]
        BY <1>1, <1>3, <1>8, <2>2, <2>3, <3>2
      <4>. QED
        BY <1>1, <2>1, <3>2, <4>1
    <3>3. CASE i = p
      <4>1. u.node[i].next = f /\ r[p] < r[mp]
        BY <1>1, <1>8, <2>2, <3>3
      <4>. QED
        BY <1>1, <1>5, <2>1, <3>3, <4>1
    <3>4. CASE i # mp /\ i # f /\ i # p
      <4>1. u.node[i].next = t.node[i].next /\ t.node[i].next \in Nodes(t) \ {f} /\ r[i] < r[t.node[i].next]
        BY <1>3, <1>8, <2>2, <2>3, <3>4
      <4>. QED
        BY <2>1, <3>4, <4>1
    <3>. QED
      BY <3>1, <3>2, <3>3, <3>4
  <2>. QED
    BY <1>0, <2>1, <2>3 DEF Acyclic, Ranked
<1>17. EmptyNodes(u) /\ DeadNodes(u)
  <2>. SUFFICES ASSUME NEW i \in Nodes(t)
                PROVE  /\ u.node[i].key = nil => u.node[i].val = nil /\ u.node[i].tt = "live"
                       /\ u.node[i].tt = "dead" => u.node[i].val = nil /\ u.node[i].key \in Strings
    BY <1>0 DEF EmptyNodes, DeadNodes
  <2>1. \A x \in Nodes(t) : /\ t.node[x].key = nil => t.node[x].val = nil /\ t.node[x].tt = "live"
                            /\ t.node[x].tt = "dead" => t.node[x].val = nil /\ t.node[x].key \in Strings
    BY DEF Sound, EmptyNodes, DeadNodes
  <2>. QED
    BY <1>1, <1>2, <1>8, <1>9, <2>1
\* What was on a chain still is, at its new place.
<1>. DEFINE moved(x) == IF x = mp THEN f ELSE x
<1>18. ASSUME NEW i \in Nodes(t) \ {f}, NEW j \in Nodes(t) \ {f}, Reaches(t, i, j)
       PROVE  Reaches(u, moved(i), moved(j))
  <2>. SUFFICES ASSUME NEW S \in SUBSET Nodes(t), moved(i) \in S, Closed(u, S) PROVE moved(j) \in S
    BY <1>0 DEF Reaches
  <2>. DEFINE R == (S \ {f, mp}) \cup (IF f \in S THEN {mp} ELSE {})
  <2>1. R \in SUBSET Nodes(t) /\ i \in R
    BY <1>1
  <2>2. Closed(t, R)
    <3>. SUFFICES ASSUME NEW x \in R, t.node[x].next # 0 PROVE t.node[x].next \in R
      BY DEF Closed
    <3>1. x \in Nodes(t) /\ t.node[x].next # f /\ x # f
      BY <1>2, <2>1, <1>3
    <3>2. CASE x = mp
      <4>1. f \in S
        BY <3>2
      <4>2. t.node[mp].next \in S
        BY <1>8, <3>2, <4>1 DEF Closed
      <4>3. t.node[mp].next # mp
        BY <1>1, <1>5, <1>7
      <4>. QED
        BY <3>1, <3>2, <4>2, <4>3
    <3>3. CASE x = p
      <4>1. f \in S
        <5>1. f # 0
          BY <1>1
        <5>. QED
          BY <1>5, <1>8, <3>3, <5>1 DEF Closed
      <4>. QED
        BY <1>1, <3>3, <4>1
    <3>4. CASE x # mp /\ x # p
      <4>1. x \in S /\ u.node[x].next = t.node[x].next
        BY <1>8, <3>1, <3>4
      <4>2. t.node[x].next \in S /\ t.node[x].next # mp
        BY <1>7, <3>1, <3>4, <4>1 DEF Closed
      <4>. QED
        BY <3>1, <4>2
    <3>. QED
      BY <3>2, <3>3, <3>4
  <2>. HIDE DEF R
  <2>3. j \in R
    BY <1>18, <2>1, <2>2 DEF Reaches
  <2>. QED
    BY <2>3 DEF R
<1>19. InPlace(u)
  <2>. SUFFICES ASSUME NEW i \in Nodes(t), u.node[i].key # nil
                PROVE  LET m == mainposition(t, u.node[i].key) IN
                         /\ ~InArray(t, u.node[i].key)
                         /\ u.node[m].key # nil /\ mainposition(t, u.node[m].key) = m
                         /\ Reaches(u, m, i)
    BY <1>0, <1>11 DEF InPlace
  <2>1. CASE i = mp
    BY <1>1, <1>8, <2>1 DEF Absent, Reaches
  <2>2. ASSUME i # mp, NEW x \in Nodes(t), i = moved(x), x # f, u.node[i].key = t.node[x].key
        PROVE  LET m == mainposition(t, u.node[i].key) IN
                 /\ ~InArray(t, u.node[i].key)
                 /\ u.node[m].key # nil /\ mainposition(t, u.node[m].key) = m
                 /\ Reaches(u, m, i)
    <3>. DEFINE m == mainposition(t, t.node[x].key)
    <3>1. t.node[x].key # nil /\ t.node[x].key \in Keys
      BY <1>0, <2>2, NodeFields
    <3>2. /\ ~InArray(t, t.node[x].key) /\ Reaches(t, m, x)
          /\ t.node[m].key # nil /\ mainposition(t, t.node[m].key) = m
      BY <3>1 DEF Sound, InPlace
    <3>3. m \in Nodes(t)
      BY <3>1, KeyOnChain DEF IsAt
    <3>. HIDE DEF m
    <3>4. m # f /\ m # mp /\ u.node[m].key = t.node[m].key
      BY <1>2, <1>9, <1>10, <3>2, <3>3
    <3>5. Reaches(u, m, i)
      BY <1>18, <2>2, <3>2, <3>3, <3>4
    <3>. QED
      BY <2>2, <3>2, <3>4, <3>5 DEF m
  <2>3. CASE i = f
    <3>1. i = moved(mp) /\ mp # f /\ u.node[i].key = t.node[mp].key /\ i # mp
      BY <1>2, <1>8, <2>3
    <3>. HIDE DEF moved
    <3>. QED
      BY <1>1, <2>2, <3>1
  <2>4. CASE i # f /\ i # mp
    <3>1. i = moved(i) /\ u.node[i].key = t.node[i].key
      BY <1>9, <2>4
    <3>. HIDE DEF moved
    <3>. QED
      BY <2>2, <2>4, <3>1
  <2>. QED
    BY <2>1, <2>3, <2>4
\* Where a node of u was.
<1>20. ASSUME NEW i \in Nodes(t), i # mp
       PROVE  \E x \in Nodes(t) \ {f} : /\ i = moved(x) /\ u.node[i].key = t.node[x].key
                                        /\ u.node[i].tt = t.node[x].tt
  <2>1. CASE i = f
    BY <1>1, <1>2, <1>8, <2>1
  <2>2. CASE i # f
    BY <1>9, <1>20, <2>2
  <2>. QED
    BY <2>1, <2>2
<1>21. \A i \in Nodes(t) : i # mp /\ u.node[i].key # nil => u.node[i].key # k
  <2>. TAKE i \in Nodes(t)
  <2>1. CASE i = f
    BY <1>1, <1>12, <1>8, <2>1
  <2>2. CASE i # f
    BY <1>1, <1>12, <1>8, <1>9, <2>2
  <2>. QED
    BY <2>1, <2>2
<1>22. KeysOnce(u)
  <2>. SUFFICES ASSUME NEW i \in Nodes(t), NEW j \in Nodes(t), u.node[i].key = u.node[j].key,
                       u.node[i].key # nil, u.node[i].tt = "live", u.node[j].tt = "live"
                PROVE  i = j
    BY <1>0 DEF KeysOnce
  <2>1. CASE i = mp \/ j = mp
    BY <1>8, <1>21, <2>1
  <2>2. CASE i # mp /\ j # mp
    <3>1. PICK x \in Nodes(t) \ {f} : /\ i = moved(x) /\ u.node[i].key = t.node[x].key
                                      /\ u.node[i].tt = t.node[x].tt
      BY <1>20, <2>2
    <3>2. PICK y \in Nodes(t) \ {f} : /\ j = moved(y) /\ u.node[j].key = t.node[y].key
                                      /\ u.node[j].tt = t.node[y].tt
      BY <1>20, <2>2
    <3>3. x = y
      BY <3>1, <3>2 DEF Sound, KeysOnce
    <3>. QED
      BY <3>1, <3>2, <3>3
  <2>. QED
    BY <2>1, <2>2
<1>23. LiveFirst(u)
  <2>. SUFFICES ASSUME NEW i \in Nodes(t), NEW j \in Nodes(t), u.node[i].key = u.node[j].key,
                       u.node[i].tt = "live", u.node[j].tt = "dead"
                PROVE  Reaches(u, i, j)
    BY <1>0 DEF LiveFirst
  <2>1. j # mp
    BY <1>8
  <2>2. i # mp
    <3>1. PICK y \in Nodes(t) \ {f} : u.node[j].key = t.node[y].key
      BY <1>20, <2>1
    <3>. QED
      BY <1>8, <1>12, <3>1
  <2>3. PICK x \in Nodes(t) \ {f} : /\ i = moved(x) /\ u.node[i].key = t.node[x].key
                                    /\ u.node[i].tt = t.node[x].tt
    BY <1>20, <2>2
  <2>4. PICK y \in Nodes(t) \ {f} : /\ j = moved(y) /\ u.node[j].key = t.node[y].key
                                    /\ u.node[j].tt = t.node[y].tt
    BY <1>20, <2>1
  <2>5. Reaches(t, x, y)
    BY <2>3, <2>4 DEF Sound, LiveFirst
  <2>. HIDE DEF moved
  <2>. QED
    BY <1>18, <2>3, <2>4, <2>5
<1>24. FreeBelow(u)
  <2>1. f \in 1 .. Len(t.node) + 1
    BY <1>0, <1>1
  <2>2. ASSUME NEW i \in Nodes(t), i >= f PROVE u.node[i].key # nil
    <3>1. CASE i = f
      BY <1>2, <1>8, <3>1
    <3>2. CASE i # f
      <4>1. i > f
        BY <1>0, <1>1, <2>2, <3>2 DEF Nodes
      <4>. QED
        BY <1>10, <4>1 DEF FreeAt
    <3>. QED
      BY <3>1, <3>2
  <2>. QED
    BY <1>0, <2>1, <2>2 DEF FreeBelow
<1>25. ArrayFits(u)
  BY <1>0 DEF Sound, ArrayFits
<1>. QED
  BY <1>14, <1>15, <1>16, <1>17, <1>19, <1>22, <1>23, <1>24, <1>25 DEF Sound, Linked

\* The tables that newkey makes, change by change.
Keyed(t, i, k, v) == [t EXCEPT !.node[i].key = k, !.node[i].tt = "live", !.node[i].val = v]
Followed(t, i, x) == [t EXCEPT !.node[i].next = x]
Replaced(t, i, e) == [t EXCEPT !.node[i] = e]
Taken(t, f) == [t EXCEPT !.lastfree = f]

LEMMA SetNext ==
  ASSUME NEW t \in TableType, NEW i \in Nodes(t), NEW x \in Nat
  PROVE  Followed(t, i, x)
           = Put(t, i, [key |-> t.node[i].key, tt |-> t.node[i].tt, val |-> t.node[i].val, next |-> x])
<1>. DEFINE e == [t.node[i] EXCEPT !.next = x]
<1>1. e = [key |-> t.node[i].key, tt |-> t.node[i].tt, val |-> t.node[i].val, next |-> x]
  BY NodeFields, NodeIsFields
<1>2. [t EXCEPT !.node[i].next = x] = [t EXCEPT !.node = [t.node EXCEPT ![i] = e]]
  BY NodeFields
<1>. HIDE DEF e
<1>. QED
  BY <1>1, <1>2 DEF Put, Followed

LEMMA SetKey ==
  ASSUME NEW t \in TableType, NEW i \in Nodes(t), NEW k \in Keys, NEW v \in {value, nil}
  PROVE  Keyed(t, i, k, v)
           = Put(t, i, [key |-> k, tt |-> "live", val |-> v, next |-> t.node[i].next])
<1>. DEFINE a == t.node[i].key
            b == t.node[i].tt
            c == t.node[i].val
            d == t.node[i].next
            e1 == [t.node[i] EXCEPT !.key = k]
            e2 == [e1 EXCEPT !.tt = "live"]
            e == [e2 EXCEPT !.val = v]
<1>1. [t EXCEPT !.node[i].key = k, !.node[i].tt = "live", !.node[i].val = v]
        = [t EXCEPT !.node = [t.node EXCEPT ![i] = e]]
  BY NodeFields
<1>2. t.node[i] = [key |-> a, tt |-> b, val |-> c, next |-> d]
  BY NodeFields, NodeIsFields
<1>3. e1 = [key |-> k, tt |-> b, val |-> c, next |-> d]
  <2>. HIDE DEF a, b, c, d
  <2>. QED
    BY <1>2
<1>. HIDE DEF a, b, c, d, e1
<1>4. e2 = [key |-> k, tt |-> "live", val |-> c, next |-> d]
  BY <1>3
<1>. HIDE DEF e2
<1>5. e = [key |-> k, tt |-> "live", val |-> v, next |-> d]
  BY <1>4
<1>. HIDE DEF e
<1>. QED
  BY <1>1, <1>5 DEF Put, Keyed, d

LEMMA SetLastfree ==
  ASSUME NEW t \in TableType, NEW f \in Nat, NEW s, s = [t EXCEPT !.lastfree = f]
  PROVE  s \in TableType /\ s.lastfree = f /\ s.node = t.node /\ s.array = t.array /\ Nodes(s) = Nodes(t)
<1>1. s = [array |-> t.array, node |-> t.node, lastfree |-> f]
  BY NodeFields
<1>. QED
  BY <1>1, NodeFields DEF TableType, Nodes

\* What is after i on its chain comes after a node.
LEMMA Predecessor ==
  ASSUME NEW t, Len(t.node) \in Nat, NEW i \in Nodes(t), NEW j \in Nodes(t), i # j, Reaches(t, i, j), Links(t)
  PROVE  \E p \in Nodes(t) : t.node[p].next = j /\ Reaches(t, i, p)
<1>. DEFINE S == {z \in Nodes(t) : Reaches(t, i, z)}
<1>1. SUFFICES ASSUME \A p \in S : t.node[p].next # j PROVE FALSE
  OBVIOUS
<1>2. i \in S \ {j} /\ S \ {j} \in SUBSET Nodes(t)
  BY DEF Reaches
<1>3. Closed(t, S \ {j})
  <2>. SUFFICES ASSUME NEW x \in S \ {j}, t.node[x].next # 0 PROVE t.node[x].next \in S \ {j}
    BY DEF Closed
  <2>1. t.node[x].next \in Nodes(t)
    BY DEF Links, Nodes
  <2>2. Reaches(t, i, t.node[x].next)
    <3>. SUFFICES ASSUME NEW R \in SUBSET Nodes(t), i \in R, Closed(t, R) PROVE t.node[x].next \in R
      BY DEF Reaches
    <3>1. x \in R
      BY DEF Reaches
    <3>. QED
      BY <3>1 DEF Closed
  <2>. QED
    BY <1>1, <2>1, <2>2
<1>4. j \in S \ {j}
  <2>. HIDE DEF S
  <2>. QED
    BY <1>2, <1>3 DEF Reaches
<1>. QED
  BY <1>4

\* Node i of the table changed, nothing else.
Changed(t, u, i, e) ==
  /\ u \in TableType /\ u.array = t.array /\ u.lastfree = t.lastfree /\ Len(u.node) = Len(t.node)
  /\ Nodes(u) = Nodes(t)
  /\ u.node[i] = e
  /\ \A j \in Nodes(t) : j # i => u.node[j] = t.node[j]

LEMMA NodeSet ==
  ASSUME NEW t \in TableType, NEW i \in Nodes(t), NEW e \in NodeType
  PROVE  Changed(t, Replaced(t, i, e), i, e) /\ Changed(t, Put(t, i, e), i, e)
<1>1. Replaced(t, i, e) = Put(t, i, e)
  BY NodeFields DEF Put, Replaced
<1>2. Changed(t, Put(t, i, e), i, e)
  BY PutFields DEF Changed
<1>. QED
  BY <1>1, <1>2

LEMMA KeySet ==
  ASSUME NEW t \in TableType, NEW i \in Nodes(t), NEW k \in Keys, NEW v \in {value, nil}
  PROVE  Changed(t, Keyed(t, i, k, v), i, [key |-> k, tt |-> "live", val |-> v, next |-> t.node[i].next])
<1>. DEFINE e == [key |-> k, tt |-> "live", val |-> v, next |-> t.node[i].next]
<1>1. Keyed(t, i, k, v) = Put(t, i, e)
  BY SetKey
<1>2. e \in NodeType
  BY NodeFields, NodeIs
<1>. HIDE DEF e
<1>3. Changed(t, Put(t, i, e), i, e)
  BY <1>2, NodeSet
<1>. QED
  BY <1>1, <1>3 DEF e

LEMMA NextSet ==
  ASSUME NEW t \in TableType, NEW i \in Nodes(t), NEW x \in Nat
  PROVE  Changed(t, Followed(t, i, x), i,
                 [key |-> t.node[i].key, tt |-> t.node[i].tt, val |-> t.node[i].val, next |-> x])
<1>. DEFINE e == [key |-> t.node[i].key, tt |-> t.node[i].tt, val |-> t.node[i].val, next |-> x]
<1>1. Followed(t, i, x) = Put(t, i, e)
  BY SetNext
<1>2. e \in NodeType
  BY NodeFields, NodeIs
<1>. HIDE DEF e
<1>3. Changed(t, Put(t, i, e), i, e)
  BY <1>2, NodeSet
<1>. QED
  BY <1>1, <1>3 DEF e

\* A new lastfree, two new links and a new key.
FreeUsed(t, mp, f, x, k, v) == Keyed(Followed(Followed(Taken(t, f), f, x), mp, f), f, k, v)

LEMMA FreeSet ==
  ASSUME NEW t \in TableType, NEW mp \in Nodes(t), NEW f \in Nodes(t), f # mp,
         NEW k \in Keys, NEW v \in {value, nil},
         t.node[mp].val # nil, mainposition(t, t.node[mp].key) = mp
  PROVE  LET u == FreeUsed(t, mp, f, t.node[mp].next, k, v) IN u \in TableType /\ InFree(t, u, k, v, mp, f)
<1>. DEFINE x == t.node[mp].next
            s == Taken(t, f)
            b == Followed(s, f, x)
            a == Followed(b, mp, f)
            u == Keyed(a, f, k, v)
            e1 == [key |-> t.node[f].key, tt |-> t.node[f].tt, val |-> t.node[f].val, next |-> x]
            e2 == [key |-> t.node[mp].key, tt |-> t.node[mp].tt, val |-> t.node[mp].val, next |-> f]
            e3 == [key |-> k, tt |-> "live", val |-> v, next |-> x]
<1>0. f \in Nat /\ Len(t.node) \in Nat /\ x \in Nat
  BY NodeFields DEF Nodes
<1>1. s \in TableType /\ s.lastfree = f /\ s.node = t.node /\ s.array = t.array /\ Nodes(s) = Nodes(t)
  BY <1>0, SetLastfree DEF Taken
<1>2. u = FreeUsed(t, mp, f, x, k, v)
  BY DEF FreeUsed
<1>. HIDE DEF x, s
<1>3. e1.next = x
  OBVIOUS
<1>4. Changed(s, b, f, e1)
  <2>1. Changed(s, b, f, [key |-> s.node[f].key, tt |-> s.node[f].tt, val |-> s.node[f].val, next |-> x])
    <3>. HIDE DEF e1
    <3>. QED
      BY <1>0, <1>1, NextSet
  <2>. HIDE DEF b
  <2>. QED
    BY <1>1, <2>1
<1>. HIDE DEF b, e1
<1>5. /\ b \in TableType /\ b.array = t.array /\ b.lastfree = f /\ Len(b.node) = Len(t.node)
      /\ Nodes(b) = Nodes(t) /\ b.node[f] = e1 /\ b.node[mp] = t.node[mp]
      /\ \A j \in Nodes(t) : j # f => b.node[j] = t.node[j]
  BY <1>1, <1>4 DEF Changed
<1>6. Changed(b, a, mp, e2)
  <2>1. Changed(b, a, mp, [key |-> b.node[mp].key, tt |-> b.node[mp].tt, val |-> b.node[mp].val, next |-> f])
    <3>. HIDE DEF e2
    <3>. QED
      BY <1>0, <1>5, NextSet
  <2>. HIDE DEF a
  <2>. QED
    BY <1>5, <2>1
<1>. HIDE DEF a, e2
<1>7. /\ a \in TableType /\ a.array = t.array /\ a.lastfree = f /\ Len(a.node) = Len(t.node)
      /\ Nodes(a) = Nodes(t) /\ a.node[mp] = e2 /\ a.node[f].next = x
      /\ \A j \in Nodes(t) : j # f /\ j # mp => a.node[j] = t.node[j]
  BY <1>3, <1>5, <1>6 DEF Changed
<1>8. Changed(a, u, f, e3)
  <2>1. Changed(a, u, f, [key |-> k, tt |-> "live", val |-> v, next |-> a.node[f].next])
    <3>. HIDE DEF e3
    <3>. QED
      BY <1>7, KeySet
  <2>. HIDE DEF u
  <2>. QED
    BY <1>7, <2>1
<1>. HIDE DEF u, e3
<1>9. /\ u \in TableType /\ u.array = t.array /\ u.lastfree = f /\ Len(u.node) = Len(t.node)
      /\ u.node[f] = e3 /\ u.node[mp] = e2
      /\ \A j \in Nodes(t) : j # f /\ j # mp => u.node[j] = t.node[j]
  BY <1>7, <1>8 DEF Changed
<1>10. InFree(t, u, k, v, mp, f)
  BY <1>9 DEF InFree, SameSize, e2, e3, x
<1>. QED
  BY <1>2, <1>9, <1>10 DEF x

\* A new lastfree, a node moved and a key in its place.
NodeMoved(t, mp, f, p, k, v) ==
  Keyed(Replaced(Replaced(Followed(Taken(t, f), p, f), f, t.node[mp]), mp, Free), mp, k, v)

LEMMA MovedSet ==
  ASSUME NEW t \in TableType, NEW mp \in Nodes(t), NEW f \in Nodes(t), NEW p \in Nodes(t),
         f # mp, f # p, p # mp, NEW k \in Keys, NEW v \in {value, nil},
         t.node[mp].val # nil, mainposition(t, t.node[mp].key) # mp, t.node[p].next = mp
  PROVE  LET u == NodeMoved(t, mp, f, p, k, v) IN u \in TableType /\ Displaced(t, u, k, v, mp, f, p)
<1>. DEFINE s == Taken(t, f)
            b == Followed(s, p, f)
            e == t.node[mp]
            c == Replaced(b, f, e)
            d == Replaced(c, mp, Free)
            u == Keyed(d, mp, k, v)
            e1 == [key |-> t.node[p].key, tt |-> t.node[p].tt, val |-> t.node[p].val, next |-> f]
            e4 == [key |-> k, tt |-> "live", val |-> v, next |-> 0]
<1>0. f \in Nat /\ Len(t.node) \in Nat /\ e \in NodeType /\ Free \in NodeType /\ Free.next = 0
  <2>1. 0 \in Nat
    OBVIOUS
  <2>2. Free \in NodeType /\ Free.next = 0
    BY <2>1, NodeIs DEF Free
  <2>3. f \in Nat /\ Len(t.node) \in Nat /\ e \in NodeType
    BY NodeFields DEF Nodes
  <2>. QED
    BY <2>2, <2>3
<1>1. s \in TableType /\ s.lastfree = f /\ s.node = t.node /\ s.array = t.array /\ Nodes(s) = Nodes(t)
  BY <1>0, SetLastfree DEF Taken
<1>2. u = NodeMoved(t, mp, f, p, k, v)
  BY DEF NodeMoved
<1>. HIDE DEF s
<1>3. Changed(s, b, p, e1)
  <2>1. Changed(s, b, p, [key |-> s.node[p].key, tt |-> s.node[p].tt, val |-> s.node[p].val, next |-> f])
    <3>. HIDE DEF e1
    <3>. QED
      BY <1>0, <1>1, NextSet
  <2>. HIDE DEF b
  <2>. QED
    BY <1>1, <2>1
<1>. HIDE DEF b, e1
<1>4. /\ b \in TableType /\ b.array = t.array /\ b.lastfree = f /\ Len(b.node) = Len(t.node)
      /\ Nodes(b) = Nodes(t) /\ b.node[p] = e1
      /\ \A j \in Nodes(t) : j # p => b.node[j] = t.node[j]
  BY <1>1, <1>3 DEF Changed
<1>5. Changed(b, c, f, e)
  <2>. HIDE DEF e
  <2>. QED
    BY <1>0, <1>4, NodeSet
<1>. HIDE DEF c
<1>6. /\ c \in TableType /\ c.array = t.array /\ c.lastfree = f /\ Len(c.node) = Len(t.node)
      /\ Nodes(c) = Nodes(t) /\ c.node[p] = e1 /\ c.node[f] = e
      /\ \A j \in Nodes(t) : j # f /\ j # p => c.node[j] = t.node[j]
  BY <1>4, <1>5 DEF Changed
<1>7. Changed(c, d, mp, Free)
  BY <1>0, <1>6, NodeSet
<1>. HIDE DEF d
<1>8. /\ d \in TableType /\ d.array = t.array /\ d.lastfree = f /\ Len(d.node) = Len(t.node)
      /\ Nodes(d) = Nodes(t) /\ d.node[p] = e1 /\ d.node[f] = e /\ d.node[mp].next = 0
      /\ \A j \in Nodes(t) : j # f /\ j # p /\ j # mp => d.node[j] = t.node[j]
  BY <1>0, <1>6, <1>7 DEF Changed
<1>9. Changed(d, u, mp, e4)
  <2>1. Changed(d, u, mp, [key |-> k, tt |-> "live", val |-> v, next |-> d.node[mp].next])
    <3>. HIDE DEF e4
    <3>. QED
      BY <1>8, KeySet
  <2>. HIDE DEF u
  <2>. QED
    BY <1>8, <2>1
<1>. HIDE DEF u, e4
<1>10. /\ u \in TableType /\ u.array = t.array /\ u.lastfree = f /\ Len(u.node) = Len(t.node)
       /\ u.node[mp] = e4 /\ u.node[p] = e1 /\ u.node[f] = e
       /\ \A j \in Nodes(t) : j # f /\ j # p /\ j # mp => u.node[j] = t.node[j]
  BY <1>8, <1>9 DEF Changed
<1>11. Displaced(t, u, k, v, mp, f, p)
  BY <1>10 DEF Displaced, SameSize, e1, e4
<1>. QED
  BY <1>2, <1>10, <1>11

\* newkey does one of three things.
LEMMA NewkeyIs ==
  ASSUME LuaTableAssumption, NEW t, Sound(t), NEW k \in Keys, HasRoom(t, k), NEW v \in {value, nil},
         NEW mp, mp = mainposition(t, k), NEW u, u = newkey(t, k, v)
  PROVE  /\ Len(t.node) # 0 /\ mp \in Nodes(t) /\ u \in TableType
         /\ \/ AtMain(t, u, k, v, mp)
            \/ \E f : FreeAt(t, f) /\ InFree(t, u, k, v, mp, f)
            \/ \E f, p : FreeAt(t, f) /\ Displaced(t, u, k, v, mp, f, p)
<1>. DEFINE f == getfreepos(t)
            othern == mainposition(t, t.node[mp].key)
            taken == Taken(t, f)
<1>0. t \in TableType /\ Len(t.node) \in Nat
  BY NodeFields DEF Sound
<1>1. Len(t.node) # 0
  BY <1>0, NodeFields DEF HasRoom
<1>2. mp \in Nodes(t)
  BY <1>0, <1>1, MainIsNode
<1>3. CASE t.node[mp].val = nil
  <2>1. u = Keyed(t, mp, k, v)
    BY <1>3 DEF newkey, Keyed
  <2>. DEFINE e == [key |-> k, tt |-> "live", val |-> v, next |-> t.node[mp].next]
  <2>2. Changed(t, u, mp, e)
    BY <1>0, <1>2, <2>1, KeySet
  <2>. HIDE DEF e
  <2>3. AtMain(t, u, k, v, mp)
    BY <1>3, <2>2 DEF AtMain, SameSize, Changed, e
  <2>. QED
    BY <1>1, <1>2, <2>2, <2>3 DEF Changed
<1>4. CASE t.node[mp].val # nil
  <2>1. FreeAt(t, f) /\ f \in Nodes(t) /\ f \in Nat /\ t.node[f].key = nil
    BY <1>0, <1>4, FreePosIs DEF HasRoom, FreeAt, Nodes
  <2>2. /\ t.node[mp].key # nil /\ t.node[mp].tt = "live" /\ t.node[mp].key \in Keys /\ f # mp
    BY <1>2, <1>4, <2>1, UsedIsLive
  <2>. HIDE DEF f
  <2>3. taken \in TableType /\ taken.lastfree = f /\ taken.node = t.node /\ taken.array = t.array
        /\ Nodes(taken) = Nodes(t)
    BY <1>0, <2>1, SetLastfree DEF Taken
  <2>4. CASE othern = mp
    <3>1. u = FreeUsed(t, mp, f, t.node[mp].next, k, v)
      BY <1>4, <2>4 DEF newkey, f, FreeUsed, Keyed, Followed, Taken
    <3>2. mainposition(t, t.node[mp].key) = mp
      BY <2>4
    <3>. HIDE DEF othern, taken
    <3>3. /\ FreeUsed(t, mp, f, t.node[mp].next, k, v) \in TableType
          /\ InFree(t, FreeUsed(t, mp, f, t.node[mp].next, k, v), k, v, mp, f)
      BY <1>0, <1>2, <1>4, <2>1, <2>2, <3>2, FreeSet
    <3>4. u \in TableType /\ InFree(t, u, k, v, mp, f)
      BY <3>1, <3>3
    <3>. QED
      BY <1>1, <1>2, <2>1, <3>4
  <2>5. CASE othern # mp
    <3>. DEFINE before == {i \in DOMAIN taken.node : taken.node[i].next = mp}
                p == FirstNode(taken, othern, before)
    <3>1. /\ Links(t) /\ Acyclic(t) /\ Links(taken) /\ Acyclic(taken) /\ Len(taken.node) = Len(t.node)
          /\ DOMAIN taken.node = Nodes(t)
      <4>1. Links(t) /\ Acyclic(t)
        BY DEF Sound, Linked
      <4>2. Links(taken)
        BY <2>3, <4>1 DEF Links
      <4>3. Acyclic(taken)
        BY <2>3, <4>1 DEF Acyclic, Ranked
      <4>. QED
        BY <1>0, <2>3, <4>1, <4>2, <4>3, NodeFields
    <3>2. othern \in Nodes(t) /\ Reaches(t, othern, mp)
      BY <1>2, <2>2, KeyOnChain DEF IsAt
    <3>3. u = Keyed(Moved(taken, mp, othern, f), mp, k, v)
      BY <1>4, <2>5 DEF newkey, f, Keyed, Taken
    <3>4. Moved(taken, mp, othern, f)
            = Replaced(Replaced(Followed(taken, p, f), f, t.node[mp]), mp, Free)
      BY <2>3 DEF Moved, Replaced, Followed
    <3>5. p \in Nodes(t) /\ t.node[p].next = mp
      <4>. HIDE DEF othern, taken
      <4>1. PICK q \in Nodes(t) : t.node[q].next = mp /\ Reaches(t, othern, q)
        BY <1>0, <1>2, <2>5, <3>1, <3>2, Predecessor
      <4>2. q \in before /\ before \in SUBSET Nodes(taken)
        BY <2>3, <3>1, <4>1
      <4>3. Reaches(taken, othern, q)
        BY <2>3, <4>1 DEF Reaches, Closed
      <4>4. p \in before
        <5>. HIDE DEF before, p
        <5>1. /\ FirstNode(taken, othern, before) = 0 => \A j \in before : ~Reaches(taken, othern, j)
              /\ FirstNode(taken, othern, before) # 0 => FirstNode(taken, othern, before) \in before
          BY <1>0, <2>3, <3>1, <3>2, <4>2, FirstNodeIs
        <5>. QED
          BY <4>2, <4>3, <5>1 DEF p
      <4>. QED
        BY <2>3, <3>1, <4>4
    <3>. HIDE DEF p, before
    <3>6. p # f /\ p # mp
      <4>1. t.node[f].next = 0
        BY <2>1, FreeIsOff
      <4>2. mp # 0
        BY <1>2 DEF Nodes
      <4>3. PICK r \in [Nodes(t) -> Int] : Ranked(t, r)
        BY <3>1 DEF Acyclic
      <4>4. r[p] < r[mp] /\ r[mp] \in Int
        BY <1>2, <3>5, <4>2, <4>3 DEF Ranked
      <4>. QED
        BY <3>5, <4>1, <4>2, <4>4
    <3>7. u = NodeMoved(t, mp, f, p, k, v)
      BY <3>3, <3>4 DEF NodeMoved
    <3>8. u \in TableType /\ Displaced(t, u, k, v, mp, f, p)
      BY <1>0, <1>2, <1>4, <2>1, <2>2, <2>5, <3>5, <3>6, <3>7, MovedSet, ZenonT(30)
    <3>. QED
      BY <1>1, <1>2, <2>1, <3>8
  <2>. QED
    BY <2>4, <2>5
<1>. QED
  BY <1>3, <1>4

\* A key has a node with a value.
Held(t, j) == \E i \in Nodes(t) : t.node[i].key = j /\ t.node[i].val # nil

LEMMA HeldIs ==
  ASSUME LuaTableAssumption, NEW t, Sound(t), NEW j \in Keys
  PROVE  /\ InArray(t, j) => Get(t, j) = t.array[j]
         /\ ~InArray(t, j) => Get(t, j) = IF Held(t, j) THEN value ELSE nil
<1>1. InArray(t, j) => Get(t, j) = t.array[j]
  BY GetIs
<1>2. ASSUME NEW i \in Nodes(t), t.node[i].key = j, t.node[i].val # nil PROVE Get(t, j) = value
  <2>1. t.node[i].tt = "live" /\ t.node[i].val \in {value, nil}
    BY <1>2, UsedIsLive, NodeFields DEF Sound
  <2>. QED
    BY <1>2, <2>1, GetIs
<1>3. ASSUME ~InArray(t, j), ~Held(t, j) PROVE Get(t, j) = nil
  <2>1. \A i \in Nodes(t) : t.node[i].tt # "live" => t.node[i].tt = "dead"
    BY NodeFields DEF Sound
  <2>2. CASE \E i \in Nodes(t) : t.node[i].key = j /\ t.node[i].tt = "live"
    BY <1>3, <2>2, GetIs DEF Held
  <2>3. CASE ~\E i \in Nodes(t) : t.node[i].key = j /\ t.node[i].tt = "live"
    BY <1>3, <2>1, <2>3, GetIs
  <2>. QED
    BY <2>2, <2>3
<1>. QED
  BY <1>1, <1>2, <1>3 DEF Held

\* Every key there has a value.
Fresh(t) == \A i \in Nodes(t) : t.node[i].key # nil => t.node[i].val # nil

\* The value was stored, and everything else is as it was.
Stored(t, u, k, v) ==
  /\ Sound(u) /\ Len(u.array) = Len(t.array) /\ Len(u.node) = Len(t.node)
  /\ \A j \in Keys : Get(u, j) = IF j = k THEN v ELSE Get(t, j)
  /\ Fresh(t) /\ v # nil => Fresh(u)

LEMMA NewkeySound ==
  ASSUME LuaTableAssumption, NEW t, Sound(t), NEW k \in Keys, Absent(t, k), HasRoom(t, k), NEW v \in {value, nil}
  PROVE  Stored(t, newkey(t, k, v), k, v)
<1>. DEFINE u == newkey(t, k, v)
            mp == mainposition(t, k)
<1>1. /\ Len(t.node) # 0 /\ mp \in Nodes(t) /\ u \in TableType
      /\ \/ AtMain(t, u, k, v, mp)
         \/ \E f : FreeAt(t, f) /\ InFree(t, u, k, v, mp, f)
         \/ \E f, p : FreeAt(t, f) /\ Displaced(t, u, k, v, mp, f, p)
  BY NewkeyIs
<1>. HIDE DEF u, mp
<1>2. /\ Sound(u) /\ SameSize(t, u)
      /\ \A j \in Keys : Held(u, j) <=> IF j = k THEN v # nil ELSE Held(t, j)
      /\ Fresh(t) /\ v # nil => Fresh(u)
  <2>0. k # nil /\ Len(t.node) \in Nat
    BY NodeFields, KeysDiffer DEF Sound
  <2>1. \A i \in Nodes(t) : t.node[i].val # nil => t.node[i].key # nil /\ t.node[i].key # k
    BY UsedIsLive DEF Absent
  <2>2. CASE AtMain(t, u, k, v, mp)
    <3>1. Sound(u) /\ Nodes(u) = Nodes(t)
      BY <1>1, <2>2, AtMainSound DEF mp, AtMain, SameSize, Nodes
    <3>2. /\ u.node[mp].key = k /\ u.node[mp].val = v /\ t.node[mp].val = nil
          /\ \A i \in Nodes(t) : i # mp => u.node[i] = t.node[i]
      BY <2>2 DEF AtMain
    <3>3. ASSUME NEW j \in Keys PROVE Held(u, j) <=> IF j = k THEN v # nil ELSE Held(t, j)
      BY <1>1, <2>1, <3>1, <3>2 DEF Held
    <3>4. Fresh(t) /\ v # nil => Fresh(u)
      BY <3>1, <3>2 DEF Fresh
    <3>. QED
      BY <2>2, <3>1, <3>3, <3>4 DEF AtMain
  <2>3. ASSUME NEW f, FreeAt(t, f), InFree(t, u, k, v, mp, f)
        PROVE  /\ Sound(u) /\ SameSize(t, u)
               /\ \A j \in Keys : Held(u, j) <=> IF j = k THEN v # nil ELSE Held(t, j)
               /\ Fresh(t) /\ v # nil => Fresh(u)
    <3>1. Sound(u) /\ Nodes(u) = Nodes(t)
      BY <1>1, <2>3, InFreeSound DEF mp, InFree, SameSize, Nodes
    <3>2. /\ f \in Nodes(t) /\ t.node[f].key = nil /\ t.node[f].val = nil
          /\ u.node[f].key = k /\ u.node[f].val = v
      BY <2>3 DEF InFree, FreeAt, Sound, EmptyNodes
    <3>3. \A i \in Nodes(t) : i # f => u.node[i].key = t.node[i].key /\ u.node[i].val = t.node[i].val
      BY <2>3 DEF InFree
    <3>4. ASSUME NEW j \in Keys PROVE Held(u, j) <=> IF j = k THEN v # nil ELSE Held(t, j)
      BY <2>1, <3>1, <3>2, <3>3 DEF Held
    <3>5. Fresh(t) /\ v # nil => Fresh(u)
      BY <3>1, <3>2, <3>3 DEF Fresh
    <3>. QED
      BY <2>3, <3>1, <3>4, <3>5 DEF InFree
  <2>4. ASSUME NEW f, NEW p, FreeAt(t, f), Displaced(t, u, k, v, mp, f, p)
        PROVE  /\ Sound(u) /\ SameSize(t, u)
               /\ \A j \in Keys : Held(u, j) <=> IF j = k THEN v # nil ELSE Held(t, j)
               /\ Fresh(t) /\ v # nil => Fresh(u)
    <3>1. Sound(u) /\ Nodes(u) = Nodes(t)
      <4>1. Sound(u)
        BY <1>1, <2>4, DisplacedSound DEF mp
      <4>. QED
        BY <2>4, <4>1 DEF Displaced, SameSize, Nodes
    <3>2. /\ f \in Nodes(t) /\ t.node[f].key = nil /\ t.node[f].val = nil /\ t.node[mp].val # nil
          /\ u.node[mp].key = k /\ u.node[mp].val = v /\ u.node[f] = t.node[mp] /\ f # mp
      BY <2>4 DEF Displaced, FreeAt, Sound, EmptyNodes
    <3>3. \A i \in Nodes(t) : i # f /\ i # mp => u.node[i].key = t.node[i].key /\ u.node[i].val = t.node[i].val
      BY <2>4 DEF Displaced
    <3>4. ASSUME NEW j \in Keys PROVE Held(u, j) <=> IF j = k THEN v # nil ELSE Held(t, j)
      <4>1. ASSUME NEW i \in Nodes(t), t.node[i].key = j, t.node[i].val # nil PROVE Held(u, j)
        <5>1. CASE i = mp
          BY <3>1, <3>2, <4>1, <5>1 DEF Held
        <5>2. CASE i # mp
          BY <3>1, <3>2, <3>3, <4>1, <5>2 DEF Held
        <5>. QED
          BY <5>1, <5>2
      <4>2. ASSUME NEW i \in Nodes(t), u.node[i].key = j, u.node[i].val # nil, i # mp PROVE Held(t, j) /\ j # k
        <5>1. CASE i = f
          BY <1>1, <2>1, <3>2, <4>2, <5>1 DEF Held
        <5>2. CASE i # f
          BY <2>1, <3>3, <4>2, <5>2 DEF Held
        <5>. QED
          BY <5>1, <5>2
      <4>3. ~Held(t, k)
        BY <2>1 DEF Held
      <4>. QED
        BY <1>1, <3>1, <3>2, <4>1, <4>2, <4>3 DEF Held
    <3>5. Fresh(t) /\ v # nil => Fresh(u)
      BY <1>1, <3>1, <3>2, <3>3 DEF Fresh
    <3>. QED
      BY <2>4, <3>1, <3>4, <3>5 DEF Displaced
  <2>. QED
    BY <1>1, <2>2, <2>3, <2>4
<1>3. ASSUME NEW j \in Keys PROVE Get(u, j) = IF j = k THEN v ELSE Get(t, j)
  <2>1. (InArray(u, j) <=> InArray(t, j)) /\ u.array = t.array
    BY <1>2 DEF SameSize, InArray
  <2>2. InArray(t, j) => j # k
    BY DEF Absent
  <2>3. Held(u, j) <=> IF j = k THEN v # nil ELSE Held(t, j)
    BY <1>2
  <2>4. CASE InArray(t, j)
    BY <1>2, <2>1, <2>2, <2>4, HeldIs
  <2>5. CASE ~InArray(t, j)
    <3>1. Get(t, j) = IF Held(t, j) THEN value ELSE nil
      BY <2>5, HeldIs
    <3>2. Get(u, j) = IF Held(u, j) THEN value ELSE nil
      BY <1>2, <2>1, <2>5, HeldIs
    <3>. QED
      BY <2>3, <3>1, <3>2
  <2>. QED
    BY <2>4, <2>5
<1>. QED
  BY <1>2, <1>3 DEF Stored, SameSize, u

\* Where there is a place for a key, luaH_set stores it.
LEMMA StoreIs ==
  ASSUME LuaTableAssumption, NEW t, Sound(t), NEW k \in Keys, NEW v \in {value, nil},
         InArray(t, k) \/ NodeOf(t, k) # 0 \/ HasRoom(t, k)
  PROVE  Stored(t, Store(t, k, v), k, v)
<1>1. CASE InArray(t, k)
  <2>. DEFINE u == [t EXCEPT !.array[k] = v]
  <2>1. /\ Sound(u) /\ SameKeys(t, u) /\ u.node = t.node
        /\ \A j \in Keys : Get(u, j) = IF j = k THEN v ELSE Get(t, j)
    BY <1>1, StoreInArray
  <2>2. Store(t, k, v) = u
    BY <1>1 DEF Store
  <2>. HIDE DEF u
  <2>. QED
    BY <2>1, <2>2 DEF Stored, SameKeys, Fresh, Nodes
<1>2. CASE ~InArray(t, k) /\ NodeOf(t, k) # 0
  <2>. DEFINE u == [t EXCEPT !.node[NodeOf(t, k)].val = v]
  <2>1. /\ Sound(u) /\ SameKeys(t, u)
        /\ \A i \in Nodes(t) : u.node[i].val = IF i = NodeOf(t, k) THEN v ELSE t.node[i].val
        /\ \A j \in Keys : Get(u, j) = IF j = k THEN v ELSE Get(t, j)
    BY <1>2, StoreInNode, ZenonT(30)
  <2>2. Store(t, k, v) = u
    BY <1>2 DEF Store
  <2>. HIDE DEF u
  <2>3. Nodes(u) = Nodes(t) /\ \A i \in Nodes(t) : u.node[i].key = t.node[i].key
    BY <2>1 DEF SameKeys, Nodes
  <2>4. Fresh(t) /\ v # nil => Fresh(u)
    BY <2>1, <2>3 DEF Fresh
  <2>. QED
    BY <2>1, <2>2, <2>4 DEF Stored, SameKeys
<1>3. CASE ~InArray(t, k) /\ NodeOf(t, k) = 0
  <2>1. Store(t, k, v) = newkey(t, k, v) /\ HasRoom(t, k)
    BY <1>3 DEF Store
  <2>2. Absent(t, k)
    BY <1>3, NodeOfIs DEF Absent
  <2>. QED
    BY <2>1, <2>2, NewkeySound
<1>. QED
  BY <1>1, <1>2, <1>3

\* The collector's work on a table.
Cleared(t) ==
  [t EXCEPT !.node = [i \in DOMAIN @ |-> IF @[i].val = nil /\ @[i].key \in Strings
                                         THEN [@[i] EXCEPT !.tt = "dead"] ELSE @[i]]]

LEMMA ClearedIs ==
  ASSUME LuaTableAssumption, NEW t, Sound(t)
  PROVE  /\ Sound(Cleared(t)) /\ SameKeys(t, Cleared(t)) /\ Cleared(t).array = t.array
         /\ \A i \in Nodes(t) : Cleared(t).node[i].val = t.node[i].val
         /\ \A j \in Keys : Get(Cleared(t), j) = Get(t, j)
<1>. DEFINE u == Cleared(t)
            mark(e) == IF e.val = nil /\ e.key \in Strings THEN [e EXCEPT !.tt = "dead"] ELSE e
            m == [i \in 1 .. Len(t.node) |-> mark(t.node[i])]
<1>0. t \in TableType /\ DOMAIN t.node = 1 .. Len(t.node) /\ Len(t.node) \in Nat
  BY NodeFields DEF Sound, Nodes
<1>1. u = [array |-> t.array, node |-> m, lastfree |-> t.lastfree]
  <2>1. u = [t EXCEPT !.node = m]
    BY <1>0 DEF Cleared
  <2>. HIDE DEF m, u
  <2>. QED
    BY <1>0, <2>1, NodeFields
<1>2. ASSUME NEW e \in NodeType
      PROVE  /\ mark(e) \in NodeType /\ mark(e).key = e.key /\ mark(e).val = e.val /\ mark(e).next = e.next
             /\ mark(e).tt = IF e.val = nil /\ e.key \in Strings THEN "dead" ELSE e.tt
  BY <1>2 DEF NodeType
<1>. HIDE DEF mark
<1>3. /\ m \in Seq(NodeType) /\ Len(m) = Len(t.node)
      /\ \A i \in Nodes(t) : m[i] = mark(t.node[i])
  <2>1. \A i \in 1 .. Len(t.node) : mark(t.node[i]) \in NodeType
    BY <1>0, <1>2, NodeFields DEF Nodes
  <2>. QED
    BY <1>0, <2>1 DEF Nodes
<1>. HIDE DEF m, u
<1>4. u \in TableType /\ u.array = t.array /\ u.lastfree = t.lastfree /\ Len(u.node) = Len(t.node)
      /\ Nodes(u) = Nodes(t)
  BY <1>0, <1>1, <1>3, NodeFields DEF TableType, Nodes
<1>5. ASSUME NEW i \in Nodes(t)
      PROVE  /\ u.node[i].key = t.node[i].key /\ u.node[i].val = t.node[i].val /\ u.node[i].next = t.node[i].next
             /\ u.node[i].tt = IF t.node[i].val = nil /\ t.node[i].key \in Strings THEN "dead" ELSE t.node[i].tt
  <2>1. u.node[i] = mark(t.node[i]) /\ t.node[i] \in NodeType
    BY <1>0, <1>1, <1>3, NodeFields
  <2>. QED
    BY <1>2, <2>1
<1>6. SameKeys(t, u)
  <2>. SUFFICES ASSUME NEW i \in Nodes(t)
                PROVE  /\ u.node[i].key = t.node[i].key /\ u.node[i].next = t.node[i].next
                       /\ u.node[i].tt = "live" => t.node[i].tt = "live"
                       /\ u.node[i].tt = "dead" => u.node[i].val = nil /\ u.node[i].key \in Strings
                       /\ u.node[i].key = nil => u.node[i].val = nil /\ u.node[i].tt = "live"
    BY <1>4 DEF SameKeys
  <2>1. nil \notin Strings
    BY KeysDiffer DEF Keys
  <2>2. /\ t.node[i].key = nil => t.node[i].val = nil /\ t.node[i].tt = "live"
        /\ t.node[i].tt = "dead" => t.node[i].val = nil /\ t.node[i].key \in Strings
    BY DEF Sound, EmptyNodes, DeadNodes
  <2>. QED
    BY <1>5, <2>1, <2>2
<1>7. Sound(u)
  <2>1. ArrayFits(u)
    BY <1>4 DEF Sound, ArrayFits
  <2>. QED
    BY <1>4, <1>6, <2>1, SameKeysSound
<1>8. ASSUME NEW j \in Keys PROVE Get(u, j) = Get(t, j)
  <2>1. (InArray(u, j) <=> InArray(t, j)) /\ (Held(u, j) <=> Held(t, j))
    BY <1>4, <1>5 DEF InArray, Held
  <2>2. CASE InArray(t, j)
    BY <1>4, <1>7, <2>1, <2>2, HeldIs
  <2>3. CASE ~InArray(t, j)
    <3>1. Get(t, j) = IF Held(t, j) THEN value ELSE nil
      BY <2>3, HeldIs
    <3>2. Get(u, j) = IF Held(u, j) THEN value ELSE nil
      BY <1>7, <2>1, <2>3, HeldIs
    <3>. QED
      BY <2>1, <3>1, <3>2
  <2>. QED
    BY <2>2, <2>3
<1>. QED
  BY <1>4, <1>5, <1>6, <1>7, <1>8 DEF u

--------------------------------------------------------------------------------
(* Powers of two and slices *)

LEMMA TwotoIs ==
  /\ twoto[0] = 1
  /\ \A s \in Nat : twoto[s] \in Nat \ {0} /\ twoto[s + 1] = 2 * twoto[s]
<1>. DEFINE step == [p \in Nat \X Nat |-> 2 * p[2]]
<1>1. PICK f \in [Nat -> Nat] : Follows(f, 1, step)
  <2>1. 1 \in Nat /\ step \in [Nat \X Nat -> Nat]
    OBVIOUS
  <2>. HIDE DEF step
  <2>. QED
    BY <2>1, Recursion
<1>2. f[0] = 1 /\ \A k \in Nat : f[k + 1] = 2 * f[k]
  <2>1. f[0] = 1 /\ \A k \in Nat : f[k + 1] = step[<< k, f[k] >>]
    BY <1>1 DEF Follows
  <2>2. \A k \in Nat : << k, f[k] >> \in Nat \X Nat
    BY <1>1
  <2>. QED
    BY <2>1, <2>2
<1>. HIDE DEF step
<1>3. f = [s \in Nat |-> IF s = 0 THEN 1 ELSE 2 * f[s - 1]]
  <2>1. \A s \in Nat : f[s] = IF s = 0 THEN 1 ELSE 2 * f[s - 1]
    <3>. TAKE s \in Nat
    <3>1. CASE s = 0
      BY <1>2, <3>1
    <3>2. CASE s # 0
      <4>1. s - 1 \in Nat /\ (s - 1) + 1 = s
        BY <3>2
      <4>. QED
        BY <1>2, <3>2, <4>1
    <3>. QED
      BY <3>1, <3>2
  <2>. QED
    BY <1>1, <2>1
<1>4. twoto = [s \in Nat |-> IF s = 0 THEN 1 ELSE 2 * twoto[s - 1]]
  BY <1>3 DEF twoto
<1>. DEFINE E == {s \in Nat : twoto[s] \in Nat \ {0}}
<1>5. twoto[0] = 1 /\ \A s \in Nat : twoto[s + 1] = 2 * twoto[s]
  <2>1. \A s \in Nat : s + 1 \in Nat /\ s + 1 # 0 /\ (s + 1) - 1 = s
    OBVIOUS
  <2>. QED
    BY <1>4, <2>1
<1>6. 0 \in E /\ \A s \in E : s + 1 \in E
  <2>1. \A s \in E : 2 * twoto[s] \in Nat \ {0}
    OBVIOUS
  <2>. QED
    BY <1>5, <2>1
<1>7. E = Nat
  <2>1. E \subseteq Nat
    OBVIOUS
  <2>. HIDE DEF E
  <2>. QED
    BY <1>6, <2>1, Induction
<1>8. \A s \in Nat : twoto[s] \in Nat \ {0}
  BY <1>7
<1>. HIDE DEF E
<1>. QED
  BY <1>5, <1>8

LEMMA TwotoGrows ==
  /\ \A s \in Nat : twoto[s] > s
  /\ \A q, s \in Nat : s <= q => twoto[s] <= twoto[q]
<1>. DEFINE E == {s \in Nat : twoto[s] > s}
<1>1. E = Nat
  <2>1. 0 \in E
    BY TwotoIs
  <2>2. ASSUME NEW s \in E PROVE s + 1 \in E
    <3>1. s \in Nat /\ twoto[s] \in Nat /\ twoto[s] > s /\ twoto[s + 1] = 2 * twoto[s]
      BY TwotoIs
    <3>. QED
      BY <3>1
  <2>3. E \subseteq Nat
    OBVIOUS
  <2>. HIDE DEF E
  <2>. QED
    BY <2>1, <2>2, <2>3, Induction
<1>. DEFINE G == {q \in Nat : \A s \in Nat : s <= q => twoto[s] <= twoto[q]}
<1>2. G = Nat
  <2>1. 0 \in G
    BY TwotoIs
  <2>2. ASSUME NEW q \in G PROVE q + 1 \in G
    <3>. SUFFICES ASSUME NEW s \in Nat, s <= q + 1 PROVE twoto[s] <= twoto[q + 1]
      OBVIOUS
    <3>1. twoto[q] \in Nat /\ twoto[q + 1] = 2 * twoto[q] /\ twoto[s] \in Nat
      BY TwotoIs
    <3>2. s = q + 1 \/ s <= q
      OBVIOUS
    <3>. QED
      BY <3>1, <3>2
  <2>3. G \subseteq Nat
    OBVIOUS
  <2>. HIDE DEF G
  <2>. QED
    BY <2>1, <2>2, <2>3, Induction
<1>. QED
  BY <1>1, <1>2

\* Slice s is above this number.
Below(s) == IF s = 0 THEN 0 ELSE twoto[s - 1]

LEMMA BelowIs ==
  /\ \A s \in Nat : Below(s) \in Nat /\ Below(s) < twoto[s] /\ Below(s + 1) = twoto[s] /\ twoto[s] <= 2 * Below(s) + 1
  /\ \A q, s \in Nat : s < q => twoto[s] <= Below(q)
<1>1. ASSUME NEW s \in Nat
      PROVE  Below(s) \in Nat /\ Below(s) < twoto[s] /\ Below(s + 1) = twoto[s] /\ twoto[s] <= 2 * Below(s) + 1
  <2>0. Below(s + 1) = twoto[s]
    BY DEF Below
  <2>1. CASE s = 0
    BY <2>0, <2>1, TwotoIs DEF Below
  <2>2. CASE s # 0
    <3>1. s - 1 \in Nat /\ (s - 1) + 1 = s
      BY <2>2
    <3>2. twoto[s - 1] \in Nat \ {0} /\ twoto[s] = 2 * twoto[s - 1]
      BY <3>1, TwotoIs
    <3>. QED
      BY <2>0, <2>2, <3>2 DEF Below
  <2>. QED
    BY <2>1, <2>2
<1>2. ASSUME NEW q \in Nat, NEW s \in Nat, s < q PROVE twoto[s] <= Below(q)
  <2>1. q - 1 \in Nat /\ s <= q - 1 /\ q # 0
    BY <1>2
  <2>. QED
    BY <2>1, TwotoGrows DEF Below
<1>. QED
  BY <1>1, <1>2

LEMMA SliceIs ==
  ASSUME NEW n \in Nat \ {0}
  PROVE  /\ ceillog2(n) \in 0 .. n /\ Below(ceillog2(n)) < n /\ n <= twoto[ceillog2(n)]
         /\ \A s \in Nat : Below(s) < n /\ n <= twoto[s] => s = ceillog2(n)
<1>. DEFINE E == {s \in Nat : twoto[s] >= n}
            c == ceillog2(n)
            In(s) == twoto[s] >= n /\ (s = 0 \/ twoto[s - 1] < n)
<1>1. n \in E
  BY TwotoIs, TwotoGrows
<1>2. PICK s \in E : \A k \in E : s <= k
  <2>1. E \subseteq Nat /\ E # {}
    BY <1>1
  <2>. HIDE DEF E
  <2>. QED
    BY <2>1, LeastNumber
<1>3. s \in 0 .. n /\ In(s)
  <2>1. s = 0 \/ twoto[s - 1] < n
    <3>. SUFFICES ASSUME s # 0 PROVE twoto[s - 1] < n
      OBVIOUS
    <3>1. s - 1 \in Nat /\ ~(s <= s - 1)
      OBVIOUS
    <3>2. s - 1 \notin E
      BY <1>2, <3>1
    <3>3. twoto[s - 1] \in Nat
      BY <3>1, TwotoIs
    <3>. QED
      BY <3>1, <3>2, <3>3
  <2>. QED
    BY <1>1, <1>2, <2>1
<1>4. c \in 0 .. n /\ In(c)
  BY <1>3 DEF ceillog2
<1>. HIDE DEF c
<1>5. Below(c) < n /\ n <= twoto[c]
  <2>1. c \in Nat /\ twoto[c] \in Nat
    BY <1>4, TwotoIs
  <2>. QED
    BY <1>4, <2>1 DEF Below
<1>6. ASSUME NEW q \in Nat, Below(q) < n, n <= twoto[q] PROVE q = c
  <2>1. c \in Nat /\ twoto[c] \in Nat /\ twoto[q] \in Nat /\ Below(c) \in Nat /\ Below(q) \in Nat
    <3>1. c \in Nat
      BY <1>4
    <3>. QED
      BY <3>1, TwotoIs, BelowIs
  <2>2. ~ q < c
    <3>1. q < c => twoto[q] <= Below(c)
      BY <2>1, BelowIs
    <3>. QED
      BY <1>5, <1>6, <2>1, <3>1
  <2>3. ~ c < q
    <3>1. c < q => twoto[c] <= Below(q)
      BY <2>1, BelowIs
    <3>. QED
      BY <1>5, <1>6, <2>1, <3>1
  <2>. QED
    BY <2>1, <2>2, <2>3
<1>. QED
  BY <1>4, <1>5, <1>6 DEF c

--------------------------------------------------------------------------------
(* computesizes *)

\* How many of the integers used are up to n.
UpTo(used, n) == Cardinality(used \cap 1 .. n)

SizesType == [a : Nat, n : Nat, na : Nat]

\* What the loop has found before slice s: an array part more than half of which is
\* used, and how many integers are below the slice, unless the slices are too large.
Counted(used, p, s) ==
  /\ p \in SizesType
  /\ p.na = UpTo(used, p.n) /\ (p.n # 0 => 2 * p.na > p.n)
  /\ p.a = UpTo(used, Below(s)) \/ Below(s) \div 2 >= Cardinality(used)

LEMMA IntsFinite ==
  ASSUME LuaTableAssumption, NEW used \in SUBSET Ints
  PROVE  /\ IsFiniteSet(used) /\ Cardinality(used) \in Nat
         /\ \A n \in Nat : UpTo(used, n) \in Nat /\ UpTo(used, n) <= Cardinality(used)
         /\ UpTo(used, 0) = 0
<1>1. IsFiniteSet(Ints)
  BY FS_Interval, KeysDiffer DEF Ints
<1>2. IsFiniteSet(used) /\ Cardinality(used) \in Nat
  BY <1>1, FS_Subset, FS_CardinalityType
<1>3. ASSUME NEW n \in Nat PROVE UpTo(used, n) \in Nat /\ UpTo(used, n) <= Cardinality(used)
  <2>1. used \cap 1 .. n \subseteq used
    OBVIOUS
  <2>. QED
    BY <1>2, <2>1, FS_Subset, FS_CardinalityType DEF UpTo
<1>4. used \cap 1 .. 0 = {}
  OBVIOUS
<1>. QED
  BY <1>2, <1>3, <1>4, FS_EmptySet DEF UpTo

\* The integers of a slice make the difference.
LEMMA SliceCounts ==
  ASSUME LuaTableAssumption, NEW used \in SUBSET Ints, NEW s \in Nat
  PROVE  /\ Cardinality({k \in used : ceillog2(k) = s}) \in Nat
         /\ UpTo(used, twoto[s]) = UpTo(used, Below(s)) + Cardinality({k \in used : ceillog2(k) = s})
<1>. DEFINE slice == {k \in used : ceillog2(k) = s}
            low == used \cap 1 .. Below(s)
            all == used \cap 1 .. twoto[s]
<1>0. /\ Below(s) \in Nat /\ twoto[s] \in Nat /\ Below(s) < twoto[s]
  BY BelowIs, TwotoIs
<1>1. \A k \in used : k \in Nat \ {0}
  BY KeysDiffer
<1>2. \A k \in used : ceillog2(k) = s <=> Below(s) < k /\ k <= twoto[s]
  BY <1>1, SliceIs
<1>3. all = low \cup slice /\ low \cap slice = {}
  <2>1. \A k \in used : k \in all <=> k <= twoto[s]
    BY <1>0, <1>1
  <2>2. \A k \in used : k \in low <=> k <= Below(s)
    BY <1>0, <1>1
  <2>3. \A k \in used : k \in slice <=> Below(s) < k /\ k <= twoto[s]
    BY <1>2
  <2>4. all \subseteq used /\ low \subseteq used /\ slice \subseteq used
    OBVIOUS
  <2>. HIDE DEF all, low, slice
  <2>5. \A k \in used : k \in all <=> k \in low \/ k \in slice
    BY <1>0, <1>1, <2>1, <2>2, <2>3
  <2>6. \A k \in used : ~(k \in low /\ k \in slice)
    BY <1>0, <1>1, <2>2, <2>3
  <2>. QED
    BY <2>4, <2>5, <2>6
<1>4. IsFiniteSet(low) /\ IsFiniteSet(slice)
  BY IntsFinite, FS_Subset
<1>. HIDE DEF low, slice, all
<1>5. Cardinality(low \cup slice) = Cardinality(low) + Cardinality(slice) - Cardinality(low \cap slice)
  BY <1>4, FS_Union
<1>6. Cardinality({}) = 0 /\ Cardinality(low) \in Nat /\ Cardinality(slice) \in Nat
  BY <1>4, FS_EmptySet, FS_CardinalityType
<1>7. Cardinality(all) = Cardinality(low) + Cardinality(slice) /\ Cardinality(slice) \in Nat
  <2>1. Cardinality(all) = Cardinality(low \cup slice) /\ Cardinality(low \cap slice) = 0
    BY <1>3, <1>6, Zenon
  <2>. QED
    BY <1>5, <1>6, <2>1
<1>8. UpTo(used, twoto[s]) = Cardinality(all) /\ UpTo(used, Below(s)) = Cardinality(low)
  BY DEF UpTo, low, all
<1>. QED
  BY <1>7, <1>8 DEF slice

LEMMA TurnCounts ==
  ASSUME LuaTableAssumption, NEW used \in SUBSET Ints, NEW s \in Nat, NEW p, Counted(used, p, s)
  PROVE  Counted(used, Turn(used, p, s), s + 1)
<1>. DEFINE nums == Cardinality({k \in used : ceillog2(k) = s})
            narray == Cardinality(used)
            b == Below(s)
            t == twoto[s]
            a == p.a + nums
<1>0. /\ b \in Nat /\ t \in Nat \ {0} /\ b < t /\ Below(s + 1) = t
  BY BelowIs, TwotoIs
<1>1. /\ narray \in Nat /\ nums \in Nat /\ UpTo(used, b) \in Nat /\ UpTo(used, t) \in Nat
      /\ UpTo(used, t) <= narray /\ UpTo(used, t) = UpTo(used, b) + nums
  BY <1>0, IntsFinite, SliceCounts
<1>2. /\ p \in SizesType /\ p.a \in Nat /\ p.n \in Nat /\ p.na \in Nat
      /\ p.na = UpTo(used, p.n) /\ (p.n # 0 => 2 * p.na > p.n)
      /\ p.a = UpTo(used, b) \/ b \div 2 >= narray
  BY DEF Counted, SizesType
<1>3. Turn(used, p, s) = IF t \div 2 >= narray \/ p.a = narray \/ nums = 0 THEN p
                         ELSE IF Worth(a, t) THEN [a |-> a, n |-> t, na |-> a]
                         ELSE [p EXCEPT !.a = a]
  BY DEF Turn
<1>. HIDE DEF nums, narray, b, t
<1>4. CASE t \div 2 >= narray
  <2>1. Turn(used, p, s) = p
    BY <1>3, <1>4
  <2>. QED
    BY <1>0, <1>2, <1>4, <2>1 DEF Counted, narray
<1>5. CASE ~(t \div 2 >= narray)
  <2>1. p.a = UpTo(used, b)
    <3>1. b \div 2 <= t \div 2 /\ b \div 2 \in Nat /\ t \div 2 \in Nat
      BY <1>0
    <3>2. ~(b \div 2 >= narray)
      BY <1>1, <1>5, <3>1
    <3>. QED
      BY <1>2, <3>2
  <2>2. CASE p.a = narray \/ nums = 0
    <3>1. p.a = UpTo(used, t)
      BY <1>1, <2>1, <2>2
    <3>. QED
      BY <1>0, <1>2, <1>3, <2>2, <3>1 DEF Counted
  <2>3. CASE ~(p.a = narray \/ nums = 0)
    <3>1. a = UpTo(used, t) /\ a \in Nat
      BY <1>1, <2>1
    <3>. HIDE DEF a
    <3>2. CASE Worth(a, t)
      <4>1. 2 * a > t
        BY <1>0, <3>1, <3>2 DEF Worth
      <4>. DEFINE q == [a |-> a, n |-> t, na |-> a]
      <4>2. q \in SizesType /\ q.a = a /\ q.n = t /\ q.na = a
        BY <1>0, <3>1 DEF SizesType
      <4>3. Turn(used, p, s) = q
        BY <1>3, <1>5, <2>3, <3>2
      <4>. HIDE DEF q
      <4>. QED
        BY <1>0, <3>1, <4>1, <4>2, <4>3 DEF Counted
    <3>3. CASE ~Worth(a, t)
      <4>. DEFINE q == [p EXCEPT !.a = a]
      <4>1. q \in SizesType /\ q.a = a /\ q.n = p.n /\ q.na = p.na
        BY <1>2, <3>1 DEF SizesType
      <4>2. Turn(used, p, s) = q
        BY <1>3, <1>5, <2>3, <3>3
      <4>. HIDE DEF q
      <4>. QED
        BY <1>0, <1>2, <3>1, <4>1, <4>2 DEF Counted
    <3>. QED
      BY <3>2, <3>3
  <2>. QED
    BY <2>2, <2>3
<1>. QED
  BY <1>4, <1>5

\* The array part that computesizes chooses is more than half used.
LEMMA ComputeSizesIs ==
  ASSUME LuaTableAssumption, NEW used \in SUBSET Ints
  PROVE  LET c == computesizes(used) IN
           /\ c.n \in Nat /\ c.na \in Nat
           /\ c.na = UpTo(used, c.n) /\ (c.n # 0 => 2 * c.na > c.n)
<1>. DEFINE n == MaxIndex + 1
            b == [a |-> 0, n |-> 0, na |-> 0]
            S == {q \in SizesType : \E s \in Nat : Counted(used, q, s)}
            step == [x \in Nat \X SizesType |->
                       IF Counted(used, x[2], x[1]) THEN Turn(used, x[2], x[1]) ELSE b]
            g == CHOOSE g : g = [k \in 0 .. n |-> IF k = 0 THEN b ELSE Turn(used, g[k - 1], k - 1)]
<1>0. n \in Nat /\ MaxIndex \in Nat
  BY KeysDiffer
<1>1. Counted(used, b, 0) /\ b \in SizesType
  <2>1. b \in SizesType /\ b.a = 0 /\ b.n = 0 /\ b.na = 0
    BY DEF SizesType
  <2>. HIDE DEF b
  <2>. QED
    BY <2>1, IntsFinite DEF Counted, Below
<1>. HIDE DEF b, n
<1>2. step \in [Nat \X SizesType -> SizesType]
  <2>1. ASSUME NEW x \in Nat \X SizesType, Counted(used, x[2], x[1]) PROVE Turn(used, x[2], x[1]) \in SizesType
    <3>1. x[1] \in Nat
      OBVIOUS
    <3>2. Counted(used, Turn(used, x[2], x[1]), x[1] + 1)
      BY <2>1, <3>1, TurnCounts
    <3>. QED
      BY <3>2 DEF Counted
  <2>. QED
    BY <1>1, <2>1
<1>. HIDE DEF step
<1>3. PICK f \in [Nat -> SizesType] : Follows(f, b, step)
  BY <1>1, <1>2, Recursion
<1>4. \A k \in Nat : /\ Counted(used, f[k], k)
                     /\ f[k + 1] = Turn(used, f[k], k)
  <2>0. ASSUME NEW k \in Nat, Counted(used, f[k], k) PROVE f[k + 1] = Turn(used, f[k], k)
    <3>1. << k, f[k] >> \in Nat \X SizesType
      BY <1>3
    <3>2. f[k + 1] = step[<< k, f[k] >>]
      BY <1>3 DEF Follows
    <3>. QED
      BY <2>0, <3>1, <3>2 DEF step
  <2>. DEFINE E == {k \in Nat : Counted(used, f[k], k)}
  <2>1. 0 \in E
    BY <1>1, <1>3 DEF Follows
  <2>2. ASSUME NEW k \in E PROVE k + 1 \in E
    BY <2>0, TurnCounts
  <2>3. E = Nat
    <3>1. E \subseteq Nat
      OBVIOUS
    <3>. HIDE DEF E
    <3>. QED
      BY <2>1, <2>2, <3>1, Induction
  <2>. QED
    BY <2>0, <2>3
<1>5. \E h : h = [k \in 0 .. n |-> IF k = 0 THEN b ELSE Turn(used, h[k - 1], k - 1)]
  <2>. DEFINE h == [k \in 0 .. n |-> f[k]]
  <2>1. \A k \in 0 .. n : f[k] = IF k = 0 THEN b ELSE Turn(used, f[k - 1], k - 1)
    <3>. TAKE k \in 0 .. n
    <3>1. CASE k = 0
      BY <1>3, <3>1 DEF Follows
    <3>2. CASE k # 0
      <4>1. k - 1 \in Nat /\ k = (k - 1) + 1
        BY <1>0, <3>2
      <4>. QED
        BY <1>4, <3>2, <4>1
    <3>. QED
      BY <3>1, <3>2
  <2>2. \A k \in 0 .. n : k # 0 => h[k - 1] = f[k - 1]
    BY <1>0
  <2>3. h = [k \in 0 .. n |-> IF k = 0 THEN b ELSE Turn(used, h[k - 1], k - 1)]
    BY <2>1, <2>2
  <2>. HIDE DEF h
  <2>. QED
    BY <2>3
<1>6. g = [k \in 0 .. n |-> IF k = 0 THEN b ELSE Turn(used, g[k - 1], k - 1)]
  BY <1>5
<1>7. computesizes(used) = g[n]
  BY Zenon DEF computesizes, n, b
<1>. HIDE DEF g
<1>8. g[0] = b /\ \A k \in 1 .. n : g[k] = Turn(used, g[k - 1], k - 1)
  <2>1. 0 \in 0 .. n /\ \A k \in 1 .. n : k \in 0 .. n /\ k # 0
    BY <1>0
  <2>. QED
    BY <1>6, <2>1
<1>. DEFINE E == {k \in Nat : k <= n => Counted(used, g[k], k)}
<1>9. 0 \in E
  BY <1>1, <1>8
<1>10. ASSUME NEW k \in E PROVE k + 1 \in E
  <2>. SUFFICES ASSUME k + 1 <= n PROVE Counted(used, g[k + 1], k + 1)
    OBVIOUS
  <2>1. k + 1 \in 1 .. n /\ (k + 1) - 1 = k /\ k <= n /\ k \in Nat
    BY <1>0
  <2>2. g[k + 1] = Turn(used, g[k], k)
    BY <1>8, <2>1
  <2>. QED
    BY <2>1, <2>2, TurnCounts
<1>11. E = Nat
  <2>1. E \subseteq Nat
    OBVIOUS
  <2>. HIDE DEF E
  <2>. QED
    BY <1>9, <1>10, <2>1, Induction
<1>12. Counted(used, g[n], n)
  BY <1>0, <1>11
<1>. QED
  BY <1>7, <1>12 DEF Counted, SizesType

--------------------------------------------------------------------------------
(* Room and resizing *)

\* The keys with a value that have no place in the array part are among these.
Outside(t, A) == \A j \in Keys : ~InArray(t, j) /\ Get(t, j) # nil => j \in A

\* A table without a place for a key has as many keys as nodes.
LEMMA RoomIs ==
  ASSUME LuaTableAssumption, NEW t, Sound(t), Fresh(t), NEW k \in Keys, ~InArray(t, k), NodeOf(t, k) = 0,
         NEW A, IsFiniteSet(A), k \in A, Outside(t, A), Cardinality(A) <= Len(t.node)
  PROVE  HasRoom(t, k)
<1>. DEFINE n == Len(t.node)
            mp == mainposition(t, k)
            B == A \ {k}
<1>0. t \in TableType /\ n \in Nat
  BY NodeFields DEF Sound
<1>1. /\ IsFiniteSet(B) /\ Cardinality(B) = Cardinality(A) - 1
      /\ Cardinality(A) \in Nat /\ Cardinality(B) \in Nat
  BY FS_RemoveElement, FS_CardinalityType
<1>2. n # 0
  BY <1>0, <1>1
<1>3. t.node # << >>
  BY <1>2
<1>4. mp \in Nodes(t)
  BY <1>0, <1>2, MainIsNode
<1>5. ASSUME t.node[mp].val # nil, getfreepos(t) = 0 PROVE FALSE
  <2>1. \A i \in Nodes(t) : t.node[i].key # nil
    BY <1>5, FreePosIs
  <2>2. ASSUME NEW i \in Nodes(t)
        PROVE  /\ t.node[i].val # nil /\ t.node[i].tt = "live" /\ t.node[i].key \in Keys
               /\ ~InArray(t, t.node[i].key)
    <3>1. t.node[i].val # nil
      BY <2>1 DEF Fresh
    <3>. QED
      BY <2>1, <3>1, UsedIsLive DEF Sound, InPlace
  <2>3. \A i \in Nodes(t) : t.node[i].key \in B
    <3>. TAKE i \in Nodes(t)
    <3>1. Get(t, t.node[i].key) # nil
      BY <2>2, GetIs
    <3>2. t.node[i].key \in A
      BY <2>2, <3>1 DEF Outside
    <3>3. t.node[i].key # k
      BY <2>2, NodeOfIs
    <3>. QED
      BY <3>2, <3>3
  <2>. DEFINE key == [i \in Nodes(t) |-> t.node[i].key]
  <2>4. key \in [Nodes(t) -> B]
    BY <2>3
  <2>5. \A i, j \in Nodes(t) : key[i] = key[j] => i = j
    BY <2>1, <2>2 DEF Sound, KeysOnce
  <2>6. IsFiniteSet(Nodes(t)) /\ Cardinality(Nodes(t)) = n
    BY <1>0, FS_Interval, SMTT(30) DEF Nodes
  <2>. HIDE DEF key, B
  <2>7. Cardinality(B) < Cardinality(Nodes(t))
    BY <1>0, <1>1, <2>6
  <2>8. \E x, y \in Nodes(t) : x # y /\ key[x] = key[y]
    BY <1>1, <2>4, <2>6, <2>7, FS_PigeonHole
  <2>. QED
    BY <2>5, <2>8
<1>. QED
  BY <1>3, <1>5 DEF HasRoom

\* How many nodes resize makes.
HashSize(nhsize) == IF nhsize = 0 THEN 0 ELSE twoto[ceillog2(nhsize)]

LEMMA HashSizeIs ==
  ASSUME NEW nhsize \in Nat
  PROVE  /\ HashSize(nhsize) \in Nat /\ nhsize <= HashSize(nhsize)
         /\ HashSize(nhsize) # 0 => HashSize(nhsize) < 2 * nhsize
<1>1. CASE nhsize = 0
  BY <1>1 DEF HashSize
<1>2. CASE nhsize # 0
  <2>. DEFINE s == ceillog2(nhsize)
  <2>1. s \in Nat /\ Below(s) < nhsize /\ nhsize <= twoto[s]
    BY <1>2, SliceIs
  <2>. HIDE DEF s
  <2>2. twoto[s] \in Nat /\ Below(s) \in Nat /\ twoto[s] <= 2 * Below(s) + 1
    BY <2>1, BelowIs, TwotoIs
  <2>3. HashSize(nhsize) = twoto[s]
    BY <1>2 DEF HashSize, s
  <2>. QED
    BY <1>2, <2>1, <2>2, <2>3
<1>. QED
  BY <1>1, <1>2

\* What resize begins with.
Begun(t, nasize, size) ==
  [array |-> [i \in 1 .. nasize |-> IF i <= Len(t.array) THEN t.array[i] ELSE nil],
   node |-> [i \in 1 .. size |-> Free],
   lastfree |-> size + 1]

\* The length of the array part that stays.
Kept(t, nasize) == IF nasize < Len(t.array) THEN nasize ELSE Len(t.array)

\* The key stayed, or is one of the first x that left.
Back(t, nasize, x, j) ==
  j \in 1 .. Kept(t, nasize) \/ \E y \in 1 .. x : Leaving(t, nasize)[y][1] = j /\ Leaving(t, nasize)[y][2] # nil

\* What the table is after so many elements.
Reinserted(t, nasize, size, x, u) ==
  /\ Sound(u) /\ Fresh(u) /\ Len(u.array) = nasize /\ Len(u.node) = size
  /\ \A j \in Keys : Get(u, j) = IF Back(t, nasize, x, j) THEN Get(t, j) ELSE nil

LEMMA BegunIs ==
  ASSUME LuaTableAssumption, NEW t, Sound(t), NEW nasize \in Nat, NEW size \in Nat
  PROVE  Reinserted(t, nasize, size, 0, Begun(t, nasize, size))
<1>. DEFINE u == Begun(t, nasize, size)
            a == [i \in 1 .. nasize |-> IF i <= Len(t.array) THEN t.array[i] ELSE nil]
            e == [i \in 1 .. size |-> Free]
<1>0. t.array \in Seq({value, nil}) /\ Len(t.array) \in Nat
  BY NodeFields DEF Sound
<1>1. u = [array |-> a, node |-> e, lastfree |-> size + 1]
  BY DEF Begun
<1>2. Free \in NodeType /\ Free.key = nil /\ Free.val = nil /\ Free.tt = "live" /\ Free.next = 0
  BY DEF Free, NodeType
<1>3. /\ a \in Seq({value, nil}) /\ Len(a) = nasize
      /\ \A i \in 1 .. nasize : a[i] = IF i <= Len(t.array) THEN t.array[i] ELSE nil
  <2>1. \A i \in 1 .. nasize : (IF i <= Len(t.array) THEN t.array[i] ELSE nil) \in {value, nil}
    BY <1>0
  <2>. QED
    BY <2>1
<1>4. e \in Seq(NodeType) /\ Len(e) = size /\ \A i \in 1 .. size : e[i] = Free
  BY <1>2
<1>. HIDE DEF a, e, u
<1>5. u \in TableType /\ u.array = a /\ u.node = e /\ u.lastfree = size + 1 /\ Nodes(u) = 1 .. size
  BY <1>1, <1>3, <1>4 DEF TableType, Nodes
<1>6. \A i \in Nodes(u) : u.node[i].key = nil /\ u.node[i].val = nil /\ u.node[i].tt = "live" /\ u.node[i].next = 0
  BY <1>2, <1>4, <1>5
<1>7. Sound(u) /\ Fresh(u)
  <2>1. Links(u) /\ OneBefore(u) /\ EmptyNodes(u) /\ InPlace(u) /\ DeadNodes(u) /\ KeysOnce(u)
        /\ LiveFirst(u) /\ Fresh(u)
    BY <1>6 DEF Links, OneBefore, EmptyNodes, InPlace, DeadNodes, KeysOnce, LiveFirst, Fresh
  <2>2. Acyclic(u)
    <3>. DEFINE r == [i \in Nodes(u) |-> 0]
    <3>1. r \in [Nodes(u) -> Int] /\ Ranked(u, r)
      BY <1>6 DEF Ranked
    <3>. HIDE DEF r
    <3>. QED
      BY <3>1 DEF Acyclic
  <2>3. FreeBelow(u)
    BY <1>4, <1>5 DEF FreeBelow
  <2>4. ArrayFits(u)
    <3>. SUFFICES ASSUME NEW i \in 1 .. nasize, i > MaxIndex PROVE a[i] = nil
      BY <1>3, <1>5 DEF ArrayFits
    <3>1. CASE i <= Len(t.array)
      BY <1>0, <1>3, <3>1 DEF Sound, ArrayFits
    <3>. QED
      BY <1>3, <3>1
  <2>. QED
    BY <1>5, <2>1, <2>2, <2>3, <2>4 DEF Sound, Linked
<1>8. ASSUME NEW j \in Keys
      PROVE  Get(u, j) = IF j \in 1 .. Kept(t, nasize) THEN Get(t, j) ELSE nil
  <2>1. \A i \in Ints : i \in Nat \ {0}
    BY KeysDiffer
  <2>2. j \in 1 .. Kept(t, nasize) => j \in Ints
    BY KeysDiffer, <1>0 DEF LuaTableAssumption, Kept
  <2>3. CASE InArray(u, j)
    <3>1. Get(u, j) = a[j] /\ j \in 1 .. nasize /\ j \in Ints
      BY <1>3, <1>5, <1>7, <2>1, <2>3, GetIs DEF InArray
    <3>2. CASE j <= Len(t.array)
      <4>1. InArray(t, j) /\ j \in 1 .. Kept(t, nasize)
        BY <1>0, <3>1, <3>2 DEF InArray, Kept
      <4>. QED
        BY <1>3, <3>1, <3>2, <4>1, GetIs
    <3>3. CASE ~(j <= Len(t.array))
      <4>1. j \notin 1 .. Kept(t, nasize)
        BY <1>0, <3>1, <3>3 DEF Kept
      <4>. QED
        BY <1>3, <3>1, <3>3, <4>1
    <3>. QED
      BY <3>2, <3>3
  <2>4. CASE ~InArray(u, j)
    <3>1. Get(u, j) = nil
      BY <1>6, <1>7, <2>4, HeldIs DEF Held
    <3>2. j \notin 1 .. Kept(t, nasize)
      BY <1>0, <1>3, <1>5, <2>2, <2>4 DEF InArray, Kept
    <3>. QED
      BY <3>1, <3>2
  <2>. QED
    BY <2>3, <2>4
<1>9. \A j \in Keys : Back(t, nasize, 0, j) <=> j \in 1 .. Kept(t, nasize)
  BY DEF Back
<1>10. Reinserted(t, nasize, size, 0, u)
  BY <1>3, <1>4, <1>5, <1>7, <1>8, <1>9 DEF Reinserted
<1>. QED
  BY <1>10 DEF u

--------------------------------------------------------------------------------
(* Elements by their numbers *)

LEMMA SizeIs ==
  ASSUME NEW t \in TableType
  PROVE  /\ Len(t.array) \in Nat /\ Len(t.node) \in Nat /\ Size(t) \in Nat
         /\ Size(t) = Len(t.array) + Len(t.node)
<1>. DEFINE a == Len(t.array)
            n == Len(t.node)
<1>1. a \in Nat /\ n \in Nat
  BY NodeFields
<1>2. Size(t) = a + n
  BY DEF Size
<1>. HIDE DEF a, n
<1>3. Size(t) \in Nat
  BY <1>1, <1>2
<1>. QED
  BY <1>1, <1>2, <1>3 DEF a, n

LEMMA ElementFields ==
  ASSUME NEW t \in TableType, NEW i \in 1 .. Size(t)
  PROVE  /\ i <= Len(t.array) => /\ i \in 1 .. Len(t.array)
                                 /\ Element(t, i)[1] = i /\ Element(t, i)[2] = t.array[i]
         /\ ~(i <= Len(t.array)) => /\ i - Len(t.array) \in Nodes(t)
                                    /\ Element(t, i)[1] = t.node[i - Len(t.array)].key
                                    /\ Element(t, i)[2] = t.node[i - Len(t.array)].val
<1>. DEFINE a == Len(t.array)
            m == Len(t.node)
<1>0. a \in Nat /\ m \in Nat /\ Size(t) = a + m /\ Nodes(t) = 1 .. m
  BY SizeIs DEF Nodes
<1>2. CASE i <= Len(t.array)
  <2>1. i \in 1 .. a
    <3>. HIDE DEF m
    <3>. QED
      BY <1>0, <1>2
  <2>. QED
    BY <1>2, <2>1 DEF Element
<1>3. CASE ~(i <= Len(t.array))
  <2>1. i - Len(t.array) \in Nodes(t)
    <3>1. ~(i <= a)
      BY <1>3
    <3>. HIDE DEF a, m
    <3>2. i - a \in 1 .. m
      BY <1>0, <3>1
    <3>. QED
      BY <1>0, <3>2 DEF a
  <2>. DEFINE e == t.node[i - Len(t.array)]
  <2>2. Element(t, i) = << e.key, e.val >>
    BY <1>3 DEF Element
  <2>. HIDE DEF e
  <2>3. Element(t, i)[1] = e.key /\ Element(t, i)[2] = e.val
    BY <2>2
  <2>. QED
    BY <1>3, <2>1, <2>3 DEF e
<1>. QED
  BY <1>2, <1>3

\* An element that is not empty is where its key is found.
LEMMA ElementIs ==
  ASSUME LuaTableAssumption, NEW t, Sound(t), NEW i \in 1 .. Size(t), Element(t, i)[2] # nil
  PROVE  /\ Element(t, i)[1] \in Keys /\ Element(t, i)[2] = Get(t, Element(t, i)[1])
         /\ findindex(t, Element(t, i)[1]) = i
         /\ InArray(t, Element(t, i)[1]) <=> i <= Len(t.array)
<1>. DEFINE k == Element(t, i)[1]
<1>0. t \in TableType /\ Len(t.array) \in Nat /\ i \in Nat /\ 0 \notin Nodes(t)
  BY SizeIs DEF Sound, Nodes
<1>1. CASE i <= Len(t.array)
  <2>1. i \in 1 .. Len(t.array) /\ k = i /\ Element(t, i)[2] = t.array[i]
    BY <1>0, <1>1, ElementFields
  <2>. HIDE DEF k
  <2>2. i <= MaxIndex
    BY <2>1, KeysDiffer DEF Sound, ArrayFits
  <2>3. k \in Keys /\ InArray(t, k) /\ k # nil
    <3>1. i \in Ints
      BY <2>1, <2>2, KeysDiffer DEF Ints
    <3>. QED
      BY <1>1, <2>1, <3>1, KeysDiffer DEF InArray
  <2>4. Get(t, k) = t.array[k]
    BY <2>3, GetIs
  <2>5. findindex(t, k) = i
    BY <2>1, <2>3 DEF findindex
  <2>. QED
    BY <1>1, <2>1, <2>3, <2>4, <2>5 DEF k
<1>2. CASE ~(i <= Len(t.array))
  <2>. DEFINE n == i - Len(t.array)
  <2>1. n \in Nodes(t) /\ k = t.node[n].key /\ Element(t, i)[2] = t.node[n].val
    BY <1>0, <1>2, ElementFields
  <2>2. i = Len(t.array) + n
    BY <1>0
  <2>. HIDE DEF n, k
  <2>3. k # nil /\ t.node[n].tt = "live" /\ k \in Keys
    BY <2>1, UsedIsLive
  <2>4. ~InArray(t, k) /\ Get(t, k) = t.node[n].val
    BY <2>1, <2>3, GetIs DEF Sound, InPlace
  <2>5. KeyAt(t, k) = n
    BY <2>1, <2>3, KeyAtLive
  <2>6. findindex(t, k) = i
    BY <1>0, <2>1, <2>2, <2>3, <2>4, <2>5 DEF findindex
  <2>. QED
    BY <1>2, <2>1, <2>3, <2>4, <2>6 DEF k
<1>. QED
  BY <1>1, <1>2

\* What is there is an element.
LEMMA IndexIs ==
  ASSUME LuaTableAssumption, NEW t, Sound(t), NEW k \in Keys, Get(t, k) # nil
  PROVE  /\ findindex(t, k) \in 1 .. Size(t)
         /\ Element(t, findindex(t, k))[1] = k /\ Element(t, findindex(t, k))[2] = Get(t, k)
<1>0. t \in TableType /\ Len(t.array) \in Nat /\ Len(t.node) \in Nat /\ Size(t) = Len(t.array) + Len(t.node)
  BY SizeIs DEF Sound
<1>1. \E i \in 1 .. Size(t) : Element(t, i)[1] = k /\ Element(t, i)[2] = Get(t, k)
  <2>1. CASE InArray(t, k)
    <3>1. k \in Nat \ {0} /\ k <= Len(t.array) /\ t.array[k] = Get(t, k)
      BY <2>1, GetIs, KeysDiffer DEF InArray
    <3>2. k \in 1 .. Size(t)
      <4>. DEFINE a == Len(t.array)
                  m == Len(t.node)
      <4>1. k \in Nat \ {0} /\ k <= a /\ a \in Nat /\ m \in Nat /\ Size(t) = a + m
        BY <1>0, <3>1
      <4>. HIDE DEF a, m
      <4>. QED
        BY <4>1
    <3>3. Element(t, k)[1] = k /\ Element(t, k)[2] = t.array[k]
      BY <1>0, <3>1, <3>2, ElementFields
    <3>. QED
      BY <3>1, <3>2, <3>3
  <2>2. CASE ~InArray(t, k)
    <3>1. PICK n \in Nodes(t) : t.node[n].key = k /\ t.node[n].val = Get(t, k)
      BY <2>2, ThereIs
    <3>. DEFINE a == Len(t.array)
                i == a + n
    <3>2. i \in 1 .. Size(t) /\ ~(i <= a) /\ i - a = n
      <4>. DEFINE m == Len(t.node)
      <4>1. a \in Nat /\ m \in Nat /\ Size(t) = a + m /\ n \in 1 .. m
        BY <1>0 DEF Nodes
      <4>. HIDE DEF a, m
      <4>. QED
        BY <4>1
    <3>3. Element(t, i)[1] = t.node[i - a].key /\ Element(t, i)[2] = t.node[i - a].val
      <4>. HIDE DEF i
      <4>. QED
        BY <1>0, <3>2, ElementFields
    <3>. HIDE DEF a, i
    <3>. QED
      BY <3>1, <3>2, <3>3
  <2>. QED
    BY <2>1, <2>2
<1>2. PICK i \in 1 .. Size(t) : Element(t, i)[1] = k /\ Element(t, i)[2] = Get(t, k)
  BY <1>1
<1>3. findindex(t, k) = i
  BY <1>2, ElementIs
<1>. QED
  BY <1>2, <1>3

--------------------------------------------------------------------------------
(* The elements that leave *)

LEMMA LeavingIs ==
  ASSUME LuaTableAssumption, NEW t, Sound(t), NEW nasize \in Nat
  PROVE  LET leaving == Leaving(t, nasize)
             left == 1 .. Len(leaving)
         IN /\ Len(leaving) \in Nat
            /\ \A x \in left : leaving[x][2] # nil =>
                 /\ leaving[x][1] \in Keys /\ leaving[x][1] \notin 1 .. Kept(t, nasize)
                 /\ leaving[x][2] = Get(t, leaving[x][1])
            /\ \A j \in Keys : Get(t, j) # nil /\ j \notin 1 .. Kept(t, nasize) =>
                 \E x \in left : leaving[x][1] = j /\ leaving[x][2] # nil
<1>. DEFINE kept == Kept(t, nasize)
            slice == Len(t.array) - kept
            s == Size(t)
            pos(x) == IF x <= slice THEN kept + x ELSE s + 1 + slice - x
            leaving == Leaving(t, nasize)
<1>0. t \in TableType /\ Len(t.array) \in Nat
  BY SizeIs DEF Sound
<1>. DEFINE a == Len(t.array)
            m == Len(t.node)
<1>01. a \in Nat /\ m \in Nat /\ s = a + m
  BY <1>0, SizeIs
<1>02. kept = (IF nasize < a THEN nasize ELSE a) /\ slice = a - kept
  BY DEF Kept
<1>2. leaving = [x \in 1 .. s - kept |-> Element(t, pos(x))]
  BY Zenon DEF Leaving, Kept
<1>. HIDE DEF a, m, s, kept, slice
<1>1. kept \in Nat /\ kept <= a /\ slice \in Nat /\ s - kept \in Nat /\ s \in Nat
  BY <1>01, <1>02
<1>3. Len(leaving) = s - kept /\ \A x \in 1 .. s - kept : leaving[x] = Element(t, pos(x))
  BY <1>1, <1>2
<1>. HIDE DEF leaving
<1>4. ASSUME NEW x \in 1 .. s - kept PROVE pos(x) \in kept + 1 .. s
  BY <1>01, <1>02, <1>1
<1>5. ASSUME NEW i \in kept + 1 .. s PROVE \E x \in 1 .. s - kept : pos(x) = i
  <2>1. CASE i <= a
    <3>1. i - kept \in 1 .. s - kept /\ pos(i - kept) = i
      BY <1>01, <1>02, <1>1, <2>1
    <3>. HIDE DEF pos
    <3>. QED
      BY <3>1
  <2>2. CASE ~(i <= a)
    <3>. DEFINE x == s + 1 + slice - i
    <3>1. x \in 1 .. s - kept /\ pos(x) = i
      BY <1>01, <1>02, <1>1, <2>2
    <3>. HIDE DEF pos, x
    <3>. QED
      BY <3>1
  <2>. QED
    BY <2>1, <2>2
<1>. HIDE DEF pos
<1>6. ASSUME NEW x \in 1 .. s - kept, leaving[x][2] # nil
      PROVE  /\ leaving[x][1] \in Keys /\ leaving[x][1] \notin 1 .. kept
             /\ leaving[x][2] = Get(t, leaving[x][1])
  <2>. DEFINE i == pos(x)
              k == leaving[x][1]
  <2>1. i \in 1 .. Size(t) /\ i > kept /\ i \in Nat
    BY <1>1, <1>4 DEF s
  <2>2. leaving[x] = Element(t, i)
    BY <1>3
  <2>. HIDE DEF i
  <2>3. k \in Keys /\ leaving[x][2] = Get(t, k) /\ (InArray(t, k) <=> i <= a)
    BY <1>6, <2>1, <2>2, ElementIs DEF a
  <2>4. CASE i <= a
    <3>1. k = i
      BY <1>0, <2>1, <2>2, <2>4, ElementFields DEF a
    <3>. QED
      BY <1>1, <2>1, <2>3, <3>1
  <2>5. CASE ~(i <= a)
    <3>1. k \notin 1 .. kept
      <4>. SUFFICES ASSUME k \in 1 .. kept PROVE FALSE
        OBVIOUS
      <4>1. k \in Int /\ k <= a
        BY <1>01, <1>1
      <4>2. k \in Ints
        BY <2>3, <4>1, KeysDiffer DEF LuaTableAssumption
      <4>. QED
        BY <2>3, <2>5, <4>1, <4>2 DEF InArray, a
    <3>. QED
      BY <2>3, <3>1
  <2>. QED
    BY <2>4, <2>5
<1>7. ASSUME NEW j \in Keys, Get(t, j) # nil, j \notin 1 .. kept
      PROVE  \E x \in 1 .. s - kept : leaving[x][1] = j /\ leaving[x][2] # nil
  <2>. DEFINE i == findindex(t, j)
  <2>1. i \in 1 .. s /\ Element(t, i)[1] = j /\ Element(t, i)[2] # nil
    BY <1>7, IndexIs DEF s
  <2>. HIDE DEF i
  <2>2. i > kept
    <3>1. CASE i <= a
      <4>1. i = j
        BY <1>0, <2>1, <3>1, ElementFields DEF s, a
      <4>. QED
        BY <1>1, <1>7, <2>1, <4>1
    <3>2. CASE ~(i <= a)
      BY <1>01, <1>1, <2>1, <3>2
    <3>. QED
      BY <3>1, <3>2
  <2>3. i \in kept + 1 .. s
    BY <1>01, <1>1, <2>1, <2>2
  <2>4. PICK x \in 1 .. s - kept : pos(x) = i
    BY <1>5, <2>3
  <2>. QED
    BY <1>3, <2>1, <2>4
<1>. QED
  BY <1>1, <1>3, <1>6, <1>7 DEF leaving, kept

--------------------------------------------------------------------------------
(* The elements come back *)

\* An element that resize inserts again.
Again(u, e) == IF e[2] = nil THEN u ELSE Store(u, e[1], e[2])

\* There is a node for every key that has no place in the array part.
Enough(t, nasize, size, A) ==
  /\ IsFiniteSet(A) /\ Cardinality(A) <= size
  /\ \A j \in Keys : Get(t, j) # nil /\ j \notin 1 .. nasize => j \in A

LEMMA InArrayIs ==
  ASSUME LuaTableAssumption, NEW t, Len(t.array) \in Nat, NEW k \in Keys
  PROVE  InArray(t, k) <=> k \in 1 .. Len(t.array)
<1>. DEFINE a == Len(t.array)
<1>1. a \in Nat /\ (InArray(t, k) <=> k \in Ints /\ k <= a)
  BY DEF InArray
<1>. HIDE DEF a
<1>2. k \in Ints => k \in Nat \ {0}
  BY KeysDiffer
<1>3. k \in 1 .. a => k \in Ints
  BY KeysDiffer, <1>1 DEF LuaTableAssumption
<1>4. InArray(t, k) <=> k \in 1 .. a
  BY <1>1, <1>2, <1>3
<1>. QED
  BY <1>4 DEF a

LEMMA AgainIs ==
  ASSUME LuaTableAssumption, NEW t, Sound(t), NEW nasize \in Nat, NEW size \in Nat, NEW A, Enough(t, nasize, size, A),
         NEW x \in Nat, x + 1 <= Len(Leaving(t, nasize)), NEW u, Reinserted(t, nasize, size, x, u)
  PROVE  Reinserted(t, nasize, size, x + 1, Again(u, Leaving(t, nasize)[x + 1]))
<1>. DEFINE leaving == Leaving(t, nasize)
            e == leaving[x + 1]
            k == e[1]
            v == e[2]
<1>0. /\ Sound(u) /\ Fresh(u) /\ Len(u.array) = nasize /\ Len(u.node) = size
      /\ \A j \in Keys : Get(u, j) = IF Back(t, nasize, x, j) THEN Get(t, j) ELSE nil
  BY DEF Reinserted
<1>1. x + 1 \in 1 .. Len(leaving) /\ Len(leaving) \in Nat
  BY LeavingIs
<1>2. 1 .. x + 1 = 1 .. x \cup {x + 1}
  OBVIOUS
<1>3. ASSUME NEW j \in Keys
      PROVE  Back(t, nasize, x + 1, j) <=> Back(t, nasize, x, j) \/ (j = k /\ v # nil)
  <2>. HIDE DEF e
  <2>1. (\E y \in 1 .. x + 1 : leaving[y][1] = j /\ leaving[y][2] # nil) <=>
        (\E y \in 1 .. x : leaving[y][1] = j /\ leaving[y][2] # nil) \/ (j = k /\ v # nil)
    BY <1>2, Zenon DEF e
  <2>. QED
    BY <2>1, Zenon DEF Back, leaving
<1>4. CASE v = nil
  <2>1. Again(u, e) = u
    BY <1>4 DEF Again
  <2>2. \A j \in Keys : Back(t, nasize, x + 1, j) <=> Back(t, nasize, x, j)
    BY <1>3, <1>4
  <2>. HIDE DEF e
  <2>3. Reinserted(t, nasize, size, x + 1, u)
    BY <1>0, <2>2 DEF Reinserted
  <2>. QED
    BY <2>1, <2>3 DEF e
<1>5. CASE v # nil
  <2>1. k \in Keys /\ k \notin 1 .. Kept(t, nasize) /\ v = Get(t, k)
    BY <1>1, <1>5, LeavingIs
  <2>. HIDE DEF e
  <2>2. v \in {value, nil}
    BY <2>1, GetIs
  <2>3. \A j \in Keys : InArray(u, j) <=> j \in 1 .. nasize
    BY <1>0, InArrayIs
  <2>4. InArray(u, k) \/ NodeOf(u, k) # 0 \/ HasRoom(u, k)
    <3>. SUFFICES ASSUME ~InArray(u, k), NodeOf(u, k) = 0 PROVE HasRoom(u, k)
      OBVIOUS
    <3>1. k \in A
      BY <1>5, <2>1, <2>3 DEF Enough
    <3>2. Outside(u, A)
      <4>. SUFFICES ASSUME NEW j \in Keys, ~InArray(u, j), Get(u, j) # nil PROVE j \in A
        BY DEF Outside
      <4>1. Get(t, j) # nil /\ j \notin 1 .. nasize
        BY <1>0, <2>3
      <4>. QED
        BY <4>1 DEF Enough
    <3>3. IsFiniteSet(A) /\ Cardinality(A) <= Len(u.node)
      BY <1>0 DEF Enough
    <3>. QED
      BY <1>0, <2>1, <3>1, <3>2, <3>3, RoomIs
  <2>5. Stored(u, Store(u, k, v), k, v)
    BY <1>0, <2>1, <2>2, <2>4, StoreIs
  <2>6. Again(u, e) = Store(u, k, v)
    BY <1>5 DEF Again
  <2>. DEFINE w == Store(u, k, v)
  <2>7. /\ Sound(w) /\ Fresh(w) /\ Len(w.array) = nasize /\ Len(w.node) = size
        /\ \A j \in Keys : Get(w, j) = IF j = k THEN v ELSE Get(u, j)
    BY <1>0, <1>5, <2>5 DEF Stored
  <2>. HIDE DEF w
  <2>8. \A j \in Keys : Get(w, j) = IF Back(t, nasize, x + 1, j) THEN Get(t, j) ELSE nil
    BY <1>0, <1>3, <1>5, <2>1, <2>7
  <2>9. Reinserted(t, nasize, size, x + 1, w)
    BY <2>7, <2>8 DEF Reinserted
  <2>. QED
    BY <2>6, <2>9 DEF e, w
<1>. QED
  BY <1>4, <1>5

\* A resize that has a node for every key that needs one loses nothing.
LEMMA ResizeIs ==
  ASSUME LuaTableAssumption, NEW t, Sound(t), NEW nasize \in Nat, NEW nhsize \in Nat,
         NEW A, Enough(t, nasize, HashSize(nhsize), A)
  PROVE  LET u == resize(t, nasize, nhsize) IN
           /\ Sound(u) /\ Fresh(u) /\ Len(u.array) = nasize /\ Len(u.node) = HashSize(nhsize)
           /\ \A j \in Keys : Get(u, j) = Get(t, j)
<1>. DEFINE size == HashSize(nhsize)
            leaving == Leaving(t, nasize)
            n == Len(leaving)
            b == Begun(t, nasize, size)
            S == {u \in TableType : Sound(u)}
            Is(x, u) == Reinserted(t, nasize, size, x, u)
            step == [x \in Nat \X S |-> IF Is(x[1], x[2]) /\ x[1] + 1 <= n THEN Again(x[2], leaving[x[1] + 1]) ELSE b]
            g == CHOOSE g : g = [k \in 0 .. n |->
                                   IF k = 0 THEN b
                                   ELSE IF leaving[k][2] = nil THEN g[k - 1]
                                   ELSE Store(g[k - 1], leaving[k][1], leaving[k][2])]
<1>0. n \in Nat /\ size \in Nat
  BY LeavingIs, HashSizeIs
<1>1. Is(0, b) /\ b \in S
  <2>1. Is(0, b)
    <3>. HIDE DEF size
    <3>. QED
      BY <1>0, BegunIs
  <2>. HIDE DEF b, size
  <2>. QED
    BY <2>1 DEF Reinserted, Sound
<1>2. ASSUME NEW x \in Nat, NEW u, Is(x, u), x + 1 <= n
      PROVE  Is(x + 1, Again(u, leaving[x + 1])) /\ Again(u, leaving[x + 1]) \in S
  <2>1. Is(x + 1, Again(u, leaving[x + 1]))
    BY <1>0, <1>2, AgainIs
  <2>. QED
    BY <2>1 DEF Reinserted, Sound
<1>3. resize(t, nasize, nhsize) = g[n]
  BY Zenon DEF resize, HashSize, Begun
<1>. HIDE DEF size, leaving, n, b, g, Is
<1>4. step \in [Nat \X S -> S]
  BY <1>1, <1>2
<1>. HIDE DEF step, S
<1>5. PICK f \in [Nat -> S] : Follows(f, b, step)
  BY <1>1, <1>4, Recursion
<1>6. ASSUME NEW k \in Nat, Is(k, f[k]), k + 1 <= n PROVE f[k + 1] = Again(f[k], leaving[k + 1])
  <2>1. << k, f[k] >> \in Nat \X S
    BY <1>5
  <2>2. f[k + 1] = step[<< k, f[k] >>]
    BY <1>5 DEF Follows
  <2>. QED
    BY <1>6, <2>1, <2>2 DEF step
<1>7. ASSUME NEW k \in Nat, k <= n PROVE Is(k, f[k])
  <2>. DEFINE E == {x \in Nat : x <= n => Is(x, f[x])}
  <2>1. 0 \in E
    BY <1>1, <1>5 DEF Follows
  <2>2. ASSUME NEW x \in E PROVE x + 1 \in E
    <3>. SUFFICES ASSUME x + 1 <= n PROVE Is(x + 1, f[x + 1])
      OBVIOUS
    <3>1. Is(x, f[x]) /\ x \in Nat
      BY <1>0
    <3>. QED
      BY <1>2, <1>6, <3>1
  <2>3. E = Nat
    <3>1. E \subseteq Nat
      OBVIOUS
    <3>. HIDE DEF E
    <3>. QED
      BY <2>1, <2>2, <3>1, Induction
  <2>. QED
    BY <1>7, <2>3
<1>8. \E h : h = [k \in 0 .. n |-> IF k = 0 THEN b
                                   ELSE IF leaving[k][2] = nil THEN h[k - 1]
                                   ELSE Store(h[k - 1], leaving[k][1], leaving[k][2])]
  <2>. DEFINE h == [k \in 0 .. n |-> f[k]]
  <2>1. \A k \in 0 .. n : f[k] = IF k = 0 THEN b ELSE Again(f[k - 1], leaving[k])
    <3>. TAKE k \in 0 .. n
    <3>1. CASE k = 0
      BY <1>5, <3>1 DEF Follows
    <3>2. CASE k # 0
      <4>1. k - 1 \in Nat /\ k = (k - 1) + 1 /\ k - 1 <= n /\ (k - 1) + 1 <= n
        BY <1>0, <3>2
      <4>2. f[(k - 1) + 1] = Again(f[k - 1], leaving[(k - 1) + 1])
        BY <1>6, <1>7, <4>1
      <4>. QED
        BY <3>2, <4>1, <4>2
    <3>. QED
      BY <3>1, <3>2
  <2>2. \A k \in 0 .. n : k # 0 => h[k - 1] = f[k - 1]
    BY <1>0
  <2>3. \A k \in 0 .. n : f[k] = IF k = 0 THEN b
                                 ELSE IF leaving[k][2] = nil THEN h[k - 1]
                                 ELSE Store(h[k - 1], leaving[k][1], leaving[k][2])
    BY <2>1, <2>2 DEF Again
  <2>4. h = [k \in 0 .. n |-> IF k = 0 THEN b
                              ELSE IF leaving[k][2] = nil THEN h[k - 1]
                              ELSE Store(h[k - 1], leaving[k][1], leaving[k][2])]
    BY <2>3
  <2>. HIDE DEF h
  <2>. QED
    BY <2>4
<1>9. g = [k \in 0 .. n |-> IF k = 0 THEN b
                            ELSE IF leaving[k][2] = nil THEN g[k - 1]
                            ELSE Store(g[k - 1], leaving[k][1], leaving[k][2])]
  BY <1>8 DEF g
<1>10. g[0] = b /\ \A k \in 1 .. n : g[k] = Again(g[k - 1], leaving[k])
  <2>1. 0 \in 0 .. n /\ \A k \in 1 .. n : k \in 0 .. n /\ k # 0
    BY <1>0
  <2>. QED
    BY <1>9, <2>1 DEF Again
<1>. DEFINE E == {k \in Nat : k <= n => Is(k, g[k])}
<1>11. 0 \in E
  BY <1>1, <1>10
<1>12. ASSUME NEW k \in E PROVE k + 1 \in E
  <2>. SUFFICES ASSUME k + 1 <= n PROVE Is(k + 1, g[k + 1])
    OBVIOUS
  <2>1. k + 1 \in 1 .. n /\ (k + 1) - 1 = k /\ k <= n /\ k \in Nat
    BY <1>0
  <2>2. g[k + 1] = Again(g[k], leaving[k + 1])
    BY <1>10, <2>1
  <2>. QED
    BY <1>2, <2>1, <2>2
<1>13. E = Nat
  <2>1. E \subseteq Nat
    OBVIOUS
  <2>. HIDE DEF E
  <2>. QED
    BY <1>11, <1>12, <2>1, Induction
<1>14. Is(n, g[n])
  BY <1>0, <1>13
<1>. DEFINE u == resize(t, nasize, nhsize)
<1>. HIDE DEF u
<1>15. /\ Sound(u) /\ Fresh(u) /\ Len(u.array) = nasize /\ Len(u.node) = size
       /\ \A j \in Keys : Get(u, j) = IF Back(t, nasize, n, j) THEN Get(t, j) ELSE nil
  BY <1>3, <1>14 DEF u, Is, Reinserted
<1>16. \A j \in Keys : Get(t, j) # nil => Back(t, nasize, n, j)
  BY LeavingIs DEF Back, n, leaving
<1>. QED
  BY <1>15, <1>16 DEF u, size

--------------------------------------------------------------------------------
(* The rehash *)

\* The keys that a rehash for key k counts.
Wanted(t, k) == {j \in Keys : Get(t, j) # nil} \cup {k}

\* More than half of both parts is wanted, and there are nodes for what the array
\* part does not take.
Sized(u, wanted) ==
  /\ Len(u.array) # 0 => 2 * Cardinality(wanted \cap 1 .. Len(u.array)) > Len(u.array)
  /\ Len(u.node) # 0 => 2 * Cardinality(wanted \ 1 .. Len(u.array)) > Len(u.node)
  /\ Cardinality(wanted \ 1 .. Len(u.array)) <= Len(u.node)

\* What rehash counts is the number of keys that go to the nodes.
LEMMA RehashCounts ==
  ASSUME LuaTableAssumption, NEW t, NEW k \in Keys, NEW n \in Nat
  PROVE  LET used == Used(t, k)
             others == {s \in Strings : Get(t, s) # nil \/ s = k}
             wanted == Wanted(t, k)
         IN /\ used \in SUBSET Ints /\ IsFiniteSet(wanted \ 1 .. n)
            /\ Cardinality(wanted \ 1 .. n) \in Nat
            /\ Cardinality(used) + Cardinality(others) - UpTo(used, n) = Cardinality(wanted \ 1 .. n)
            /\ UpTo(used, n) = Cardinality(wanted \cap 1 .. n)
<1>. DEFINE used == Used(t, k)
            others == {s \in Strings : Get(t, s) # nil \/ s = k}
            wanted == Wanted(t, k)
<1>1. used \in SUBSET Ints /\ others \in SUBSET Strings
  BY DEF Used
<1>2. wanted = used \cup others /\ used \cap others = {}
  <2>1. wanted = used \cup others
    BY KeysDiffer DEF Used, Wanted
  <2>. HIDE DEF used, others
  <2>. QED
    BY <1>1, <2>1, KeysDiffer
<1>3. used \cap 1 .. n = wanted \cap 1 .. n
  <2>1. Strings \cap 1 .. n = {}
    BY DEF LuaTableAssumption
  <2>. HIDE DEF used, others, wanted
  <2>. QED
    BY <1>1, <1>2, <2>1
<1>. HIDE DEF used, others, wanted
<1>4. IsFiniteSet(used) /\ IsFiniteSet(others)
  BY <1>1, IntsFinite, FS_Subset DEF LuaTableAssumption
<1>5. /\ IsFiniteSet(wanted)
      /\ Cardinality(wanted) = Cardinality(used) + Cardinality(others) - Cardinality(used \cap others)
  <2>1. IsFiniteSet(used \cup others)
        /\ Cardinality(used \cup others) = Cardinality(used) + Cardinality(others) - Cardinality(used \cap others)
    BY <1>4, FS_Union
  <2>. QED
    BY <1>2, <2>1, Zenon
<1>6. Cardinality(used \cap others) = 0 /\ Cardinality(used) \in Nat /\ Cardinality(others) \in Nat
  BY <1>2, <1>4, FS_EmptySet, FS_CardinalityType
<1>7. IsFiniteSet(wanted \ 1 .. n)
      /\ Cardinality(wanted \ 1 .. n) = Cardinality(wanted) - Cardinality(wanted \cap 1 .. n)
  BY <1>5, FS_Difference
<1>8. UpTo(used, n) = Cardinality(wanted \cap 1 .. n)
  BY <1>3, Zenon DEF UpTo
<1>9. Cardinality(wanted \ 1 .. n) \in Nat /\ UpTo(used, n) \in Nat
  BY <1>1, <1>7, FS_CardinalityType, IntsFinite
<1>10. Cardinality(used) + Cardinality(others) - UpTo(used, n) = Cardinality(wanted \ 1 .. n)
  <2>. DEFINE a == Cardinality(used)
              b == Cardinality(others)
              c == UpTo(used, n)
              d == Cardinality(wanted \ 1 .. n)
              w == Cardinality(wanted)
  <2>1. w = a + b - 0 /\ d = w - c /\ a \in Nat /\ b \in Nat /\ c \in Nat
    BY <1>5, <1>6, <1>7, <1>8, <1>9
  <2>. HIDE DEF a, b, c, d, w
  <2>2. a + b - c = d
    BY <2>1
  <2>. QED
    BY <2>2 DEF a, b, c, d
<1>. QED
  BY <1>1, <1>7, <1>8, <1>9, <1>10 DEF used, others, wanted

\* The rehash loses nothing, and leaves room for the key it is for.
Rehashed(t, u, k) ==
  /\ Sound(u) /\ Fresh(u) /\ \A j \in Keys : Get(u, j) = Get(t, j)
  /\ Sized(u, Wanted(t, k)) /\ IsFiniteSet(Wanted(t, k) \ 1 .. Len(u.array))

LEMMA RehashIs ==
  ASSUME LuaTableAssumption, NEW t, Sound(t), NEW k \in Keys
  PROVE  Rehashed(t, rehash(t, k), k)
<1>. DEFINE used == Used(t, k)
            others == {s \in Strings : Get(t, s) # nil \/ s = k}
            c == computesizes(used)
            wanted == Wanted(t, k)
            n == c.n
            nh == Cardinality(used) + Cardinality(others) - c.na
            A == wanted \ 1 .. n
            u == resize(t, n, nh)
<1>1. rehash(t, k) = u
  BY DEF rehash
<1>2. used \in SUBSET Ints
  BY DEF Used
<1>3. c.n \in Nat /\ c.na = UpTo(used, c.n) /\ (c.n # 0 => 2 * c.na > c.n)
  <2>. HIDE DEF used
  <2>. QED
    BY <1>2, ComputeSizesIs
<1>4. /\ IsFiniteSet(A) /\ Cardinality(A) \in Nat
      /\ Cardinality(used) + Cardinality(others) - UpTo(used, n) = Cardinality(A)
      /\ UpTo(used, n) = Cardinality(wanted \cap 1 .. n)
  <2>1. n \in Nat
    BY <1>3
  <2>. HIDE DEF n
  <2>2. /\ IsFiniteSet(wanted \ 1 .. n) /\ Cardinality(wanted \ 1 .. n) \in Nat
        /\ Cardinality(used) + Cardinality(others) - UpTo(used, n) = Cardinality(wanted \ 1 .. n)
        /\ UpTo(used, n) = Cardinality(wanted \cap 1 .. n)
    BY <2>1, RehashCounts
  <2>. QED
    BY <2>2 DEF n
<1>. HIDE DEF used, others, c, wanted
<1>5. nh = Cardinality(A) /\ nh \in Nat
  BY <1>3, <1>4
<1>. HIDE DEF nh
<1>6. HashSize(nh) \in Nat /\ nh <= HashSize(nh) /\ (HashSize(nh) # 0 => HashSize(nh) < 2 * nh)
  BY <1>5, HashSizeIs
<1>7. Enough(t, n, HashSize(nh), A)
  <2>1. \A j \in Keys : Get(t, j) # nil /\ j \notin 1 .. n => j \in A
    BY DEF wanted, Wanted
  <2>2. Cardinality(A) <= HashSize(nh)
    BY <1>5, <1>6
  <2>. HIDE DEF A
  <2>. QED
    BY <1>4, <2>1, <2>2 DEF Enough
<1>8. /\ Sound(u) /\ Fresh(u) /\ Len(u.array) = n /\ Len(u.node) = HashSize(nh)
      /\ \A j \in Keys : Get(u, j) = Get(t, j)
  <2>1. n \in Nat
    BY <1>3
  <2>. HIDE DEF n, A
  <2>2. Sound(u) /\ Fresh(u) /\ \A j \in Keys : Get(u, j) = Get(t, j)
    BY <1>5, <1>7, <2>1, ResizeIs
  <2>3. Len(u.array) = n
    BY <1>5, <1>7, <2>1, ResizeIs
  <2>4. Len(u.node) = HashSize(nh)
    BY <1>5, <1>7, <2>1, ResizeIs
  <2>. QED
    BY <2>2, <2>3, <2>4
<1>. HIDE DEF u, n
<1>9. Sized(u, wanted)
  <2>1. n # 0 => 2 * Cardinality(wanted \cap 1 .. n) > n
    BY <1>3, <1>4 DEF n
  <2>2. Cardinality(wanted \ 1 .. n) = nh
    BY <1>5 DEF n
  <2>. HIDE DEF A
  <2>3. HashSize(nh) # 0 => 2 * nh > HashSize(nh)
    BY <1>5, <1>6
  <2>. QED
    BY <1>6, <1>8, <2>1, <2>2, <2>3 DEF Sized
<1>10. IsFiniteSet(wanted \ 1 .. Len(u.array))
  BY <1>4, <1>8 DEF n
<1>. QED
  BY <1>1, <1>8, <1>9, <1>10 DEF Rehashed, wanted

\* luaH_set stores the value, whatever has to move for it.
LEMMA SetIs ==
  ASSUME LuaTableAssumption, NEW t, Sound(t), NEW k \in Keys, NEW v \in {value, nil}
  PROVE  LET w == luaH_set(t, k, v) IN
           /\ Sound(w) /\ \A j \in Keys : Get(w, j) = IF j = k THEN v ELSE Get(t, j)
           /\ Len(w.array) # Len(t.array) \/ Len(w.node) # Len(t.node) => Sized(w, Wanted(t, k))
<1>1. CASE InArray(t, k) \/ NodeOf(t, k) # 0 \/ HasRoom(t, k)
  <2>1. luaH_set(t, k, v) = Store(t, k, v)
    BY <1>1 DEF luaH_set
  <2>2. Stored(t, Store(t, k, v), k, v)
    BY <1>1, StoreIs
  <2>. QED
    BY <2>1, <2>2 DEF Stored
<1>2. CASE ~(InArray(t, k) \/ NodeOf(t, k) # 0 \/ HasRoom(t, k))
  <2>. DEFINE u == rehash(t, k)
              w == Store(u, k, v)
              A == Wanted(t, k) \ 1 .. Len(u.array)
  <2>1. luaH_set(t, k, v) = w
    BY <1>2 DEF luaH_set
  <2>2. Rehashed(t, u, k)
    BY RehashIs
  <2>. HIDE DEF u
  <2>3. Len(u.array) \in Nat /\ Len(u.node) \in Nat
    BY <2>2, NodeFields DEF Rehashed, Sound
  <2>4. \A j \in Keys : InArray(u, j) <=> j \in 1 .. Len(u.array)
    BY <2>3, InArrayIs
  <2>5. InArray(u, k) \/ NodeOf(u, k) # 0 \/ HasRoom(u, k)
    <3>. SUFFICES ASSUME ~InArray(u, k), NodeOf(u, k) = 0 PROVE HasRoom(u, k)
      OBVIOUS
    <3>1. k \in A
      BY <2>4 DEF Wanted
    <3>2. Outside(u, A)
      BY <2>2, <2>4 DEF Outside, Wanted, Rehashed
    <3>3. IsFiniteSet(A) /\ Cardinality(A) <= Len(u.node) /\ Sound(u) /\ Fresh(u)
      BY <2>2 DEF Rehashed, Sized
    <3>. HIDE DEF A
    <3>. QED
      BY <3>1, <3>2, <3>3, RoomIs
  <2>6. Stored(u, w, k, v)
    BY <2>2, <2>5, StoreIs DEF Rehashed
  <2>. HIDE DEF w
  <2>7. /\ Sound(w) /\ Len(w.array) = Len(u.array) /\ Len(w.node) = Len(u.node)
        /\ \A j \in Keys : Get(w, j) = IF j = k THEN v ELSE Get(t, j)
    BY <2>2, <2>6 DEF Rehashed, Stored
  <2>8. Sized(w, Wanted(t, k))
    BY <2>2, <2>7 DEF Rehashed, Sized
  <2>. QED
    BY <2>1, <2>7, <2>8
<1>. QED
  BY <1>1, <1>2

--------------------------------------------------------------------------------
(* The length *)

Range2 == [i : Nat, j : Nat]

\* Something is there at i, unless it is 0, and nothing at j.
Between(t, p) ==
  /\ p \in Range2 /\ p.i < p.j
  /\ p.i # 0 => luaH_getnum(t, p.i) # nil
  /\ luaH_getnum(t, p.j) = nil

\* There is something at n, unless it is 0, and nothing after it.
Boundary(t, n) ==
  /\ n \in Nat
  /\ n # 0 => luaH_getnum(t, n) # nil
  /\ luaH_getnum(t, n + 1) = nil

LEMMA HalvedIs ==
  ASSUME NEW t, NEW p \in Range2
  PROVE  /\ Halved(t, p) \in Range2
         /\ Between(t, p) => /\ Between(t, Halved(t, p))
                             /\ p.j - p.i <= 1 => Halved(t, p) = p
                             /\ p.j - p.i > 1 => Halved(t, p).j - Halved(t, p).i < p.j - p.i
<1>. DEFINE m == (p.i + p.j) \div 2
            q == Halved(t, p)
            h == [p EXCEPT !.j = m]
            l == [p EXCEPT !.i = m]
<1>0. p.i \in Nat /\ p.j \in Nat /\ p = [i |-> p.i, j |-> p.j]
  BY DEF Range2
<1>1. q = IF p.j - p.i <= 1 THEN p ELSE IF luaH_getnum(t, m) = nil THEN h ELSE l
  BY DEF Halved
<1>2. m \in Nat
  BY <1>0
<1>3. h \in Range2 /\ h.i = p.i /\ h.j = m /\ l \in Range2 /\ l.i = m /\ l.j = p.j
  <2>. HIDE DEF m
  <2>. QED
    BY <1>2 DEF Range2
<1>4. p.j - p.i > 1 => p.i < m /\ m < p.j
  BY <1>0
<1>. HIDE DEF m, q, h, l
<1>5. q \in Range2
  BY <1>1, <1>3
<1>6. ASSUME Between(t, p) PROVE Between(t, q) /\ (p.j - p.i <= 1 => q = p) /\ (p.j - p.i > 1 => q.j - q.i < p.j - p.i)
  <2>1. CASE p.j - p.i <= 1
    BY <1>0, <1>1, <1>6, <2>1
  <2>2. CASE ~(p.j - p.i <= 1) /\ luaH_getnum(t, m) = nil
    <3>1. p.i < m /\ m < p.j
      BY <1>0, <1>4, <2>2
    <3>2. q = h
      BY <1>1, <2>2
    <3>3. m - p.i < p.j - p.i
      BY <1>0, <1>2, <3>1
    <3>. QED
      BY <1>0, <1>2, <1>3, <1>6, <2>2, <3>1, <3>2, <3>3 DEF Between
  <2>3. CASE ~(p.j - p.i <= 1) /\ luaH_getnum(t, m) # nil
    <3>1. p.i < m /\ m < p.j
      BY <1>0, <1>4, <2>3
    <3>2. q = l
      BY <1>1, <2>3
    <3>3. p.j - m < p.j - p.i
      BY <1>0, <1>2, <3>1
    <3>. QED
      BY <1>0, <1>2, <1>3, <1>6, <2>3, <3>1, <3>2, <3>3 DEF Between
  <2>. QED
    BY <2>1, <2>2, <2>3
<1>. QED
  BY <1>5, <1>6 DEF q

\* The binary search ends at a boundary.
LEMMA BinarySearchIs ==
  ASSUME NEW t, NEW i \in Nat, NEW j \in Nat, Between(t, [i |-> i, j |-> j])
  PROVE  Boundary(t, BinarySearch(t, i, j))
<1>. DEFINE b == [i |-> i, j |-> j]
            step == [x \in Nat \X Range2 |-> Halved(t, x[2])]
            g == CHOOSE g : g = [k \in 0 .. j |-> IF k = 0 THEN b ELSE Halved(t, g[k - 1])]
<1>1. b \in Range2 /\ b.i = i /\ b.j = j
  BY DEF Range2
<1>2. step \in [Nat \X Range2 -> Range2]
  BY HalvedIs
<1>3. BinarySearch(t, i, j) = g[j].i
  BY Zenon DEF BinarySearch
<1>4. Between(t, b)
  OBVIOUS
<1>. HIDE DEF b, step, g
<1>5. PICK f \in [Nat -> Range2] : Follows(f, b, step)
  BY <1>1, <1>2, Recursion
<1>6. f[0] = b /\ \A k \in Nat : f[k + 1] = Halved(t, f[k])
  <2>1. \A k \in Nat : << k, f[k] >> \in Nat \X Range2
    BY <1>5
  <2>. QED
    BY <1>5, <2>1 DEF Follows, step
<1>7. \E h : h = [k \in 0 .. j |-> IF k = 0 THEN b ELSE Halved(t, h[k - 1])]
  <2>. DEFINE h == [k \in 0 .. j |-> f[k]]
  <2>1. \A k \in 0 .. j : f[k] = IF k = 0 THEN b ELSE Halved(t, f[k - 1])
    <3>. TAKE k \in 0 .. j
    <3>1. CASE k = 0
      BY <1>6, <3>1
    <3>2. CASE k # 0
      <4>1. k - 1 \in Nat /\ k = (k - 1) + 1
        BY <3>2
      <4>. QED
        BY <1>6, <3>2, <4>1
    <3>. QED
      BY <3>1, <3>2
  <2>2. \A k \in 0 .. j : k # 0 => h[k - 1] = f[k - 1]
    OBVIOUS
  <2>3. h = [k \in 0 .. j |-> IF k = 0 THEN b ELSE Halved(t, h[k - 1])]
    BY <2>1, <2>2
  <2>. HIDE DEF h
  <2>. QED
    BY <2>3
<1>8. g = [k \in 0 .. j |-> IF k = 0 THEN b ELSE Halved(t, g[k - 1])]
  BY <1>7 DEF g
<1>9. g[0] = b /\ \A k \in 1 .. j : g[k] = Halved(t, g[k - 1])
  <2>1. 0 \in 0 .. j /\ \A k \in 1 .. j : k \in 0 .. j /\ k # 0
    OBVIOUS
  <2>. QED
    BY <1>8, <2>1
<1>. DEFINE Shrunk(q, k) == Between(t, q) /\ (q.j - q.i <= 1 \/ q.j - q.i + k <= j)
            E == {k \in Nat : k <= j => Shrunk(g[k], k)}
<1>10. 0 \in E
  BY <1>1, <1>4, <1>9
<1>11. ASSUME NEW k \in E PROVE k + 1 \in E
  <2>. SUFFICES ASSUME k + 1 <= j PROVE Shrunk(g[k + 1], k + 1)
    OBVIOUS
  <2>1. k + 1 \in 1 .. j /\ (k + 1) - 1 = k /\ k <= j /\ k \in Nat
    OBVIOUS
  <2>. DEFINE p == g[k]
              q == g[k + 1]
  <2>2. q = Halved(t, p)
    BY <1>9, <2>1
  <2>3. Shrunk(p, k)
    BY <2>1
  <2>. HIDE DEF p, q
  <2>4. p \in Range2
    BY <2>3 DEF Between
  <2>5. /\ Between(t, q) /\ q \in Range2
        /\ p.j - p.i <= 1 => q = p
        /\ p.j - p.i > 1 => q.j - q.i < p.j - p.i
    BY <2>2, <2>3, <2>4, HalvedIs
  <2>6. p.i \in Nat /\ p.j \in Nat /\ q.i \in Nat /\ q.j \in Nat
    BY <2>4, <2>5 DEF Range2
  <2>7. q.j - q.i <= 1 \/ q.j - q.i + (k + 1) <= j
    BY <2>1, <2>3, <2>5, <2>6
  <2>. QED
    BY <2>5, <2>7 DEF q
<1>12. E = Nat
  <2>1. E \subseteq Nat
    OBVIOUS
  <2>. HIDE DEF E
  <2>. QED
    BY <1>10, <1>11, <2>1, Induction
<1>13. Shrunk(g[j], j)
  BY <1>12
<1>. DEFINE q == g[j]
<1>. HIDE DEF q
<1>14. q.i \in Nat /\ q.j \in Nat /\ Between(t, q) /\ (q.j - q.i <= 1 \/ q.j - q.i + j <= j) /\ q.i < q.j
  BY <1>13 DEF q, Between, Range2
<1>15. q.j = q.i + 1
  BY <1>14
<1>. QED
  BY <1>3, <1>14, <1>15 DEF Boundary, Between, q

\* The linear search finds the first boundary.
LEMMA LinearIs ==
  ASSUME LuaTableAssumption, NEW t
  PROVE  Boundary(t, Linear(t)) /\ Linear(t) <= MaxIndex
<1>0. MaxIndex \in Nat /\ Ints = 1 .. MaxIndex
  BY KeysDiffer DEF Ints
<1>. DEFINE T == {n \in Nat : n = MaxIndex \/ Get(t, n + 1) = nil}
            Is(n) == /\ \A k \in 1 .. n : Get(t, k) # nil
                     /\ n = MaxIndex \/ Get(t, n + 1) = nil
<1>1. PICK m \in T : \A k \in T : m <= k
  <2>1. MaxIndex \in T /\ T \subseteq Nat
    BY <1>0
  <2>. HIDE DEF T
  <2>. QED
    BY <2>1, LeastNumber
<1>2. m \in 0 .. MaxIndex /\ Is(m)
  <2>1. m <= MaxIndex /\ m \in Nat
    BY <1>0, <1>1
  <2>2. ASSUME NEW k \in 1 .. m PROVE Get(t, k) # nil
    <3>1. k - 1 \in Nat /\ ~(m <= k - 1) /\ k - 1 # MaxIndex /\ (k - 1) + 1 = k
      BY <1>0, <2>1
    <3>2. k - 1 \notin T
      BY <1>1, <3>1
    <3>. QED
      BY <3>1, <3>2
  <2>. QED
    BY <1>0, <1>1, <2>1, <2>2
<1>3. Linear(t) = CHOOSE n \in 0 .. MaxIndex : Is(n)
  BY DEF Linear
<1>. HIDE DEF Is
<1>4. Linear(t) \in 0 .. MaxIndex /\ Is(Linear(t))
  BY <1>2, <1>3
<1>. DEFINE n == Linear(t)
<1>. HIDE DEF n
<1>5. n \in Nat /\ n <= MaxIndex /\ Is(n)
  BY <1>0, <1>4 DEF n
<1>6. n # 0 => Get(t, n) # nil /\ n \in Ints
  BY <1>0, <1>5 DEF Is
<1>7. n + 1 \in Ints => n # MaxIndex
  BY <1>0, <1>5
<1>8. Boundary(t, n)
  BY <1>5, <1>6, <1>7 DEF Is, Boundary, luaH_getnum
<1>. QED
  BY <1>5, <1>8 DEF n

LEMMA DoubledIs ==
  ASSUME NEW t, NEW p \in Range2
  PROVE  /\ Doubled(t, p) \in Range2
         /\ p.i < p.j => Doubled(t, p).i < Doubled(t, p).j
         /\ (p.i # 0 => luaH_getnum(t, p.i) # nil) =>
              (Doubled(t, p).i # 0 => luaH_getnum(t, Doubled(t, p).i) # nil)
<1>. DEFINE q == [i |-> p.j, j |-> 2 * p.j]
<1>1. p.i \in Nat /\ p.j \in Nat
  BY DEF Range2
<1>2. q \in Range2 /\ q.i = p.j /\ q.j = 2 * p.j
  BY <1>1 DEF Range2
<1>3. Doubled(t, p) = IF luaH_getnum(t, p.j) = nil \/ 2 * p.j > MAX_INT THEN p ELSE q
  BY DEF Doubled
<1>. HIDE DEF q
<1>4. p.i < p.j => q.i < q.j
  BY <1>1, <1>2
<1>. QED
  BY <1>2, <1>3, <1>4

\* The search above the array part ends at a boundary.
LEMMA UnboundSearchIs ==
  ASSUME LuaTableAssumption, NEW t, NEW start \in Nat, start # 0 => luaH_getnum(t, start) # nil
  PROVE  Boundary(t, unbound_search(t, start))
<1>. DEFINE b == [i |-> start, j |-> start + 1]
            n == MAX_INT
            step == [x \in Nat \X Range2 |-> Doubled(t, x[2])]
            g == CHOOSE g : g = [k \in 0 .. n |-> IF k = 0 THEN b ELSE Doubled(t, g[k - 1])]
<1>0. n \in Nat
  BY DEF LuaTableAssumption
<1>1. b \in Range2 /\ b.i = start /\ b.j = start + 1 /\ b.i < b.j
  BY DEF Range2
<1>2. step \in [Nat \X Range2 -> Range2]
  BY DoubledIs
<1>3. unbound_search(t, start) =
        IF luaH_getnum(t, g[n].j) = nil THEN BinarySearch(t, g[n].i, g[n].j) ELSE Linear(t)
  BY Zenon DEF unbound_search
<1>. HIDE DEF b, step, g, n
<1>5. PICK f \in [Nat -> Range2] : Follows(f, b, step)
  BY <1>1, <1>2, Recursion
<1>6. f[0] = b /\ \A k \in Nat : f[k + 1] = Doubled(t, f[k])
  <2>1. \A k \in Nat : << k, f[k] >> \in Nat \X Range2
    BY <1>5
  <2>. QED
    BY <1>5, <2>1 DEF Follows, step
<1>7. \E h : h = [k \in 0 .. n |-> IF k = 0 THEN b ELSE Doubled(t, h[k - 1])]
  <2>. DEFINE h == [k \in 0 .. n |-> f[k]]
  <2>1. \A k \in 0 .. n : f[k] = IF k = 0 THEN b ELSE Doubled(t, f[k - 1])
    <3>. TAKE k \in 0 .. n
    <3>1. CASE k = 0
      BY <1>6, <3>1
    <3>2. CASE k # 0
      <4>1. k - 1 \in Nat /\ k = (k - 1) + 1
        BY <1>0, <3>2
      <4>. QED
        BY <1>6, <3>2, <4>1
    <3>. QED
      BY <3>1, <3>2
  <2>2. \A k \in 0 .. n : k # 0 => h[k - 1] = f[k - 1]
    BY <1>0
  <2>3. h = [k \in 0 .. n |-> IF k = 0 THEN b ELSE Doubled(t, h[k - 1])]
    BY <2>1, <2>2
  <2>. HIDE DEF h
  <2>. QED
    BY <2>3
<1>8. g = [k \in 0 .. n |-> IF k = 0 THEN b ELSE Doubled(t, g[k - 1])]
  BY <1>7 DEF g
<1>9. g[0] = b /\ \A k \in 1 .. n : g[k] = Doubled(t, g[k - 1])
  <2>1. 0 \in 0 .. n /\ \A k \in 1 .. n : k \in 0 .. n /\ k # 0
    BY <1>0
  <2>. QED
    BY <1>8, <2>1
<1>. DEFINE Searched(q) == q \in Range2 /\ q.i < q.j /\ (q.i # 0 => luaH_getnum(t, q.i) # nil)
            E == {k \in Nat : k <= n => Searched(g[k])}
<1>10. 0 \in E
  BY <1>1, <1>9
<1>11. ASSUME NEW k \in E PROVE k + 1 \in E
  <2>. SUFFICES ASSUME k + 1 <= n PROVE Searched(g[k + 1])
    OBVIOUS
  <2>1. k + 1 \in 1 .. n /\ (k + 1) - 1 = k /\ k <= n /\ k \in Nat
    BY <1>0
  <2>2. g[k + 1] = Doubled(t, g[k]) /\ Searched(g[k])
    BY <1>9, <2>1
  <2>. QED
    BY <2>2, DoubledIs
<1>12. E = Nat
  <2>1. E \subseteq Nat
    OBVIOUS
  <2>. HIDE DEF E
  <2>. QED
    BY <1>10, <1>11, <2>1, Induction
<1>. DEFINE p == g[n]
<1>13. Searched(p)
  BY <1>0, <1>12
<1>14. unbound_search(t, start) =
         IF luaH_getnum(t, p.j) = nil THEN BinarySearch(t, p.i, p.j) ELSE Linear(t)
  BY <1>3
<1>. HIDE DEF p
<1>15. ASSUME luaH_getnum(t, p.j) = nil PROVE Boundary(t, BinarySearch(t, p.i, p.j))
  <2>1. p.i \in Nat /\ p.j \in Nat /\ p = [i |-> p.i, j |-> p.j]
    BY <1>13 DEF Range2
  <2>2. Between(t, [i |-> p.i, j |-> p.j])
    BY <1>13, <1>15, <2>1 DEF Between
  <2>. QED
    BY <2>1, <2>2, BinarySearchIs
<1>. QED
  BY <1>14, <1>15, LinearIs

\* The length operator returns a boundary.
LEMMA LengthIs ==
  ASSUME LuaTableAssumption, NEW t, Sound(t)
  PROVE  Boundary(t, getn(t))
<1>. DEFINE j == Len(t.array)
<1>0. j \in Nat /\ t.array \in Seq({value, nil}) /\ Len(t.node) \in Nat
  BY NodeFields DEF Sound
<1>1. \A k \in Keys : InArray(t, k) <=> k \in 1 .. j
  BY <1>0, InArrayIs
<1>2. j # 0 => luaH_getnum(t, j) = t.array[j]
  <2>. SUFFICES ASSUME j # 0 PROVE luaH_getnum(t, j) = t.array[j]
    OBVIOUS
  <2>1. CASE j \in Ints
    <3>1. j \in Keys /\ InArray(t, j)
      BY <2>1, KeysDiffer DEF InArray
    <3>2. Get(t, j) = t.array[j]
      BY <3>1, GetIs
    <3>. QED
      BY <2>1, <3>2 DEF luaH_getnum
  <2>2. CASE j \notin Ints
    <3>1. j > MaxIndex /\ j \in 1 .. j
      BY <1>0, <2>2, KeysDiffer DEF Ints
    <3>2. t.array[j] = nil
      BY <3>1 DEF Sound, ArrayFits
    <3>. QED
      BY <2>2, <3>2 DEF luaH_getnum
  <2>. QED
    BY <2>1, <2>2
<1>. HIDE DEF j
<1>3. getn(t) = IF j > 0 /\ t.array[j] = nil THEN BinarySearch(t, 0, j)
                ELSE IF t.node = << >> THEN j ELSE unbound_search(t, j)
  BY DEF getn, j
<1>4. CASE j > 0 /\ t.array[j] = nil
  <2>1. Between(t, [i |-> 0, j |-> j])
    <3>. DEFINE p == [i |-> 0, j |-> j]
    <3>1. p \in Range2 /\ p.i = 0 /\ p.j = j
      BY <1>0 DEF Range2
    <3>. HIDE DEF p
    <3>2. Between(t, p)
      BY <1>0, <1>2, <1>4, <3>1 DEF Between
    <3>. QED
      BY <3>2 DEF p
  <2>2. Boundary(t, BinarySearch(t, 0, j))
    BY <1>0, <2>1, BinarySearchIs
  <2>. QED
    BY <1>3, <1>4, <2>2
<1>5. CASE ~(j > 0 /\ t.array[j] = nil)
  <2>1. j # 0 => luaH_getnum(t, j) # nil
    BY <1>0, <1>2, <1>5
  <2>2. CASE t.node = << >>
    <3>1. j + 1 \notin 1 .. j
      BY <1>0
    <3>2. Nodes(t) = {}
      BY <2>2 DEF Nodes
    <3>3. luaH_getnum(t, j + 1) = nil
      <4>1. CASE j + 1 \in Ints
        <5>1. j + 1 \in Keys /\ ~InArray(t, j + 1)
          BY <1>1, <3>1, <4>1, KeysDiffer
        <5>. QED
          BY <3>2, <4>1, <5>1, GetIs DEF luaH_getnum
      <4>2. CASE j + 1 \notin Ints
        BY <4>2 DEF luaH_getnum
      <4>. QED
        BY <4>1, <4>2
    <3>. QED
      BY <1>0, <1>3, <1>5, <2>1, <2>2, <3>3 DEF Boundary
  <2>3. CASE t.node # << >>
    BY <1>0, <1>3, <1>5, <2>1, <2>3, UnboundSearchIs
  <2>. QED
    BY <2>2, <2>3
<1>. QED
  BY <1>4, <1>5

--------------------------------------------------------------------------------
(* Traversals *)

LEMMA ChainSame ==
  ASSUME NEW t, NEW u, NEW n \in Nat, Len(t.node) = n, Len(u.node) = n, NEW i \in Nodes(t), Links(t), Links(u),
         \A x \in Nodes(t) : u.node[x].next = t.node[x].next
  PROVE  Chain(u, i) = Chain(t, i)
<1>. DEFINE w == Chain(t, i)
            v == Chain(u, i)
            E == {k \in Nat : k <= n => v[k] = w[k]}
<1>1. /\ w \in [0 .. n -> 0 .. n] /\ w[0] = i
      /\ \A k \in 1 .. n : w[k] = IF w[k - 1] = 0 THEN 0 ELSE t.node[w[k - 1]].next
  BY ChainIs, SMTT(30)
<1>2. /\ v \in [0 .. n -> 0 .. n] /\ v[0] = i
      /\ \A k \in 1 .. n : v[k] = IF v[k - 1] = 0 THEN 0 ELSE u.node[v[k - 1]].next
  <2>1. i \in Nodes(u) /\ Len(u.node) \in Nat
    BY DEF Nodes
  <2>2. /\ Chain(u, i) \in [0 .. Len(u.node) -> 0 .. Len(u.node)] /\ Chain(u, i)[0] = i
        /\ \A k \in 1 .. Len(u.node) :
             Chain(u, i)[k] = IF Chain(u, i)[k - 1] = 0 THEN 0 ELSE u.node[Chain(u, i)[k - 1]].next
    <3>1. Links(u)
      OBVIOUS
    <3>. QED
      BY ONLY <2>1, <3>1, ChainIs
  <2>. QED
    BY <2>2
<1>. HIDE DEF w, v
<1>3. 0 \in E
  BY <1>1, <1>2
<1>4. ASSUME NEW k \in E PROVE k + 1 \in E
  <2>. SUFFICES ASSUME k + 1 <= n PROVE v[k + 1] = w[k + 1]
    OBVIOUS
  <2>1. k + 1 \in 1 .. n /\ (k + 1) - 1 = k /\ k \in 0 .. n /\ v[k] = w[k]
    OBVIOUS
  <2>2. /\ v[k + 1] = IF v[k] = 0 THEN 0 ELSE u.node[v[k]].next
        /\ w[k + 1] = IF w[k] = 0 THEN 0 ELSE t.node[w[k]].next
    BY <1>1, <1>2, <2>1
  <2>3. w[k] # 0 => w[k] \in Nodes(t)
    BY <1>1, <2>1 DEF Nodes
  <2>. QED
    BY <2>1, <2>2, <2>3
<1>5. E = Nat
  <2>1. E \subseteq Nat
    OBVIOUS
  <2>. HIDE DEF E
  <2>. QED
    BY <1>3, <1>4, <2>1, Induction
<1>6. \A k \in 0 .. n : v[k] = w[k]
  BY <1>5
<1>7. v = w
  BY <1>1, <1>2, <1>6
<1>. QED
  BY <1>7 DEF v, w

\* Where every key stays, each is found where it was.
LEMMA IndexSame ==
  ASSUME LuaTableAssumption, NEW t, NEW u, Sound(t), Sound(u), SameKeys(t, u), NEW k \in Keys \cup {nil}
  PROVE  Size(u) = Size(t) /\ findindex(u, k) = findindex(t, k)
<1>. DEFINE n == Len(t.node)
            m == mainposition(t, k)
            M == WithKey(t, k)
<1>0. /\ n \in Nat /\ Len(u.node) = n /\ Len(u.array) = Len(t.array)
      /\ t \in TableType /\ u \in TableType /\ Nodes(u) = Nodes(t)
      /\ \A x \in Nodes(t) : u.node[x].key = t.node[x].key /\ u.node[x].next = t.node[x].next
  BY NodeFields DEF Sound, SameKeys, Nodes
<1>1. Size(u) = Size(t)
  BY <1>0 DEF Size
<1>2. CASE k \in Keys
  <2>1. mainposition(u, k) = m
    BY <1>0, SameMain
  <2>2. WithKey(u, k) = M /\ M = {x \in Nodes(t) : t.node[x].key = k}
    BY <1>0, NodeFields DEF WithKey
  <2>3. KeyAt(u, k) = FirstNode(u, m, M) /\ KeyAt(t, k) = FirstNode(t, m, M)
    BY <2>1, <2>2 DEF KeyAt
  <2>. HIDE DEF M
  <2>4. FirstNode(u, m, M) = FirstNode(t, m, M)
    <3>1. CASE n = 0
      <4>1. 0 .. n - 1 = {}
        BY <3>1
      <4>. QED
        BY <1>0, <4>1 DEF FirstNode
    <3>2. CASE n # 0
      <4>1. m \in Nodes(t)
        BY <1>0, <1>2, <3>2, MainIsNode
      <4>. HIDE DEF m
      <4>2. Chain(u, m) = Chain(t, m)
        BY <1>0, <4>1, ChainSame DEF Sound, Linked
      <4>. DEFINE w == Chain(t, m)
                  v == Chain(u, m)
                  First(x) == LET hits == {turns \in 0 .. n - 1 : x[turns] \in M}
                              IN IF hits = {} THEN 0 ELSE x[Min(hits)]
      <4>3. FirstNode(t, m, M) = First(w)
        BY Zenon DEF FirstNode
      <4>4. FirstNode(u, m, M) = First(v)
        <5>1. Len(u.node) = n
          BY <1>0
        <5>. HIDE DEF n
        <5>. QED
          BY <5>1, Zenon DEF FirstNode
      <4>. HIDE DEF First
      <4>. QED
        BY <4>2, <4>3, <4>4
    <3>. QED
      BY <3>1, <3>2
  <2>5. KeyAt(u, k) = KeyAt(t, k)
    BY <2>3, <2>4
  <2>6. InArray(u, k) <=> InArray(t, k)
    BY <1>0 DEF InArray
  <2>. QED
    BY <1>0, <1>1, <2>5, <2>6 DEF findindex
<1>3. CASE k = nil
  BY <1>1, <1>3 DEF findindex
<1>. QED
  BY <1>2, <1>3

\* The traversal has met what is there up to the element it is at, and nothing
\* that comes after it.
Met(t, seen, p) ==
  \A i \in 1 .. Size(t) : Element(t, i)[2] # nil => (i <= p <=> Element(t, i)[1] \in seen)

TraversalType == [key : Keys \cup {nil}, seen : SUBSET Keys, on : BOOLEAN]

Traversing(t, n) ==
  /\ n \in TraversalType
  /\ n.key = nil => n = NoTraversal
  /\ n.key # nil => n.on
  /\ findindex(t, n.key) \in 0 .. Size(t)
  /\ Met(t, n.seen, findindex(t, n.key))

LEMMA NotTraversing ==
  ASSUME LuaTableAssumption, NEW t, Sound(t)
  PROVE  Traversing(t, NoTraversal)
<1>1. /\ NoTraversal \in TraversalType /\ NoTraversal.key = nil /\ NoTraversal.seen = {}
  BY DEF NoTraversal, TraversalType
<1>2. findindex(t, nil) = 0 /\ Size(t) \in Nat
  BY SizeIs DEF findindex, Sound
<1>3. Met(t, {}, 0)
  BY DEF Met
<1>. QED
  BY <1>1, <1>2, <1>3 DEF Traversing

\* A traversal goes on where keys stay and nothing comes.
LEMMA TraversalStays ==
  ASSUME LuaTableAssumption, NEW t, NEW u, Sound(t), Sound(u), SameKeys(t, u),
         \A j \in Keys : Get(u, j) # nil => Get(t, j) # nil,
         NEW n, Traversing(t, n)
  PROVE  Traversing(u, n)
<1>1. n \in TraversalType /\ n.key \in Keys \cup {nil}
  BY DEF Traversing, TraversalType
<1>2. Size(u) = Size(t) /\ findindex(u, n.key) = findindex(t, n.key)
  BY <1>1, IndexSame
<1>3. ASSUME NEW i \in 1 .. Size(u), Element(u, i)[2] # nil
      PROVE  i <= findindex(t, n.key) <=> Element(u, i)[1] \in n.seen
  <2>. DEFINE k == Element(u, i)[1]
  <2>1. k \in Keys /\ Get(u, k) # nil /\ findindex(u, k) = i
    BY <1>3, ElementIs
  <2>. HIDE DEF k
  <2>2. Get(t, k) # nil /\ findindex(t, k) = i
    BY <2>1, IndexSame
  <2>3. i \in 1 .. Size(t) /\ Element(t, i)[1] = k /\ Element(t, i)[2] # nil
    BY <2>1, <2>2, IndexIs
  <2>. QED
    BY <2>3 DEF Traversing, Met, k
<1>. QED
  BY <1>1, <1>2, <1>3 DEF Traversing, Met

\* A step of the traversal meets the next element, or all have been met.
LEMMA NextIs ==
  ASSUME LuaTableAssumption, Sound(hashed), Traversing(hashed, next), luaH_next
  PROVE  /\ hashed' = hashed /\ content' = content
         /\ Traversing(hashed, next')
         /\ next'.on => next'.key \notin next.seen
         /\ ~next'.on => \A k \in Keys : Get(hashed, k) # nil => k \in next.seen
<1>. DEFINE t == hashed
            p == findindex(t, next.key)
            s == Size(t)
            rest == {i \in p + 1 .. s : Element(t, i)[2] # nil}
<1>1. /\ hashed' = hashed /\ content' = content
      /\ next' = IF rest = {} THEN NoTraversal
                 ELSE [key |-> Element(t, Min(rest))[1], seen |-> next.seen \cup {Element(t, Min(rest))[1]},
                       on |-> TRUE]
  BY DEF luaH_next
<1>2. p \in 0 .. s /\ s \in Nat /\ p \in Nat
  <2>1. p \in 0 .. s
    BY DEF Traversing
  <2>2. s \in Nat
    <3>1. t \in TableType
      BY DEF Sound
    <3>. HIDE DEF t
    <3>. QED
      BY <3>1, SizeIs
  <2>. HIDE DEF p, s
  <2>. QED
    BY <2>1, <2>2
<1>3. \A i \in 1 .. s : Element(t, i)[2] # nil => (i <= p <=> Element(t, i)[1] \in next.seen)
  BY DEF Traversing, Met
<1>4. next.seen \in SUBSET Keys
  BY DEF Traversing, TraversalType
<1>. HIDE DEF t, p, s
<1>5. CASE rest = {}
  <2>1. next' = NoTraversal
    BY <1>1, <1>5
  <2>2. ASSUME NEW k \in Keys, Get(t, k) # nil PROVE k \in next.seen
    <3>1. PICK i \in 1 .. s : Element(t, i)[1] = k /\ Element(t, i)[2] # nil
      BY <2>2, IndexIs DEF t, s
    <3>2. i <= p
      <4>1. i \notin rest
        BY <1>5
      <4>. QED
        BY <1>2, <3>1, <4>1
    <3>. QED
      BY <1>3, <3>1, <3>2
  <2>3. Traversing(t, NoTraversal) /\ ~NoTraversal.on
    BY NotTraversing DEF t, NoTraversal
  <2>. QED
    BY <1>1, <2>1, <2>2, <2>3 DEF t
<1>6. CASE rest # {}
  <2>1. PICK m \in rest : \A i \in rest : m <= i
    <3>1. rest \subseteq Nat
      BY <1>2
    <3>. HIDE DEF rest
    <3>. QED
      BY <1>6, <3>1, LeastNumber
  <2>2. Min(rest) = m
    <3>1. Min(rest) = CHOOSE x \in rest : \A y \in rest : x <= y
      BY DEF Min
    <3>2. rest \subseteq Nat
      BY <1>2
    <3>. HIDE DEF rest
    <3>3. Min(rest) \in rest /\ \A y \in rest : Min(rest) <= y
      BY <2>1, <3>1
    <3>4. Min(rest) <= m /\ m <= Min(rest) /\ m \in Nat /\ Min(rest) \in Nat
      BY <2>1, <3>2, <3>3
    <3>. QED
      BY <3>4
  <2>3. m \in 1 .. s /\ m > p /\ Element(t, m)[2] # nil
    BY <1>2
  <2>. DEFINE k == Element(t, m)[1]
              n == [key |-> k, seen |-> next.seen \cup {k}, on |-> TRUE]
  <2>4. next' = n
    BY <1>1, <1>6, <2>2
  <2>5. k \in Keys /\ findindex(t, k) = m /\ k # nil
    BY <2>3, ElementIs, KeysDiffer DEF t, s
  <2>6. k \notin next.seen
    BY <1>2, <1>3, <2>3
  <2>. HIDE DEF k
  <2>7. n \in TraversalType /\ n.key = k /\ n.seen = next.seen \cup {k} /\ n.on
    BY <1>4, <2>5 DEF TraversalType
  <2>. HIDE DEF n
  <2>8. ASSUME NEW i \in 1 .. s, Element(t, i)[2] # nil
        PROVE  i <= m <=> Element(t, i)[1] \in next.seen \cup {k}
    <3>1. CASE i <= p
      BY <1>2, <1>3, <2>3, <2>8, <3>1
    <3>2. CASE i = m
      BY <2>3, <3>2 DEF k
    <3>3. CASE ~(i <= p) /\ i # m
      <4>1. i \in rest
        BY <1>2, <2>8, <3>3
      <4>2. ~(i <= m)
        BY <1>2, <2>1, <2>3, <3>3, <4>1
      <4>3. findindex(t, Element(t, i)[1]) = i
        BY <2>8, ElementIs DEF t, s
      <4>. QED
        BY <1>3, <2>5, <2>8, <3>3, <4>2, <4>3
    <3>. QED
      BY <3>1, <3>2, <3>3
  <2>9. m \in 0 .. s
    BY <2>3
  <2>10. Traversing(t, n)
    BY <2>5, <2>7, <2>8, <2>9 DEF Traversing, Met, s
  <2>. QED
    BY <1>1, <2>4, <2>6, <2>7, <2>10 DEF t
<1>. QED
  BY <1>5, <1>6

\* A store to a key that is there moves nothing.
LEMMA SetThere ==
  ASSUME LuaTableAssumption, NEW t, Sound(t), NEW k \in Keys, Get(t, k) # nil, NEW v \in {value, nil}
  PROVE  SameKeys(t, luaH_set(t, k, v))
<1>1. InArray(t, k) \/ NodeOf(t, k) # 0
  BY DEF Get
<1>2. luaH_set(t, k, v) = Store(t, k, v)
  BY <1>1 DEF luaH_set
<1>3. CASE InArray(t, k)
  <2>. DEFINE u == [t EXCEPT !.array[k] = v]
  <2>1. SameKeys(t, u)
    BY <1>3, StoreInArray
  <2>2. Store(t, k, v) = u
    BY <1>3 DEF Store
  <2>. HIDE DEF u
  <2>. QED
    BY <1>2, <2>1, <2>2
<1>4. CASE ~InArray(t, k)
  <2>. DEFINE u == [t EXCEPT !.node[NodeOf(t, k)].val = v]
  <2>1. SameKeys(t, u)
    BY <1>1, <1>4, StoreInNode
  <2>2. Store(t, k, v) = u
    BY <1>1, <1>4 DEF Store
  <2>. HIDE DEF u
  <2>. QED
    BY <1>2, <2>1, <2>2
<1>. QED
  BY <1>3, <1>4

--------------------------------------------------------------------------------
(* The invariant *)

TableInv ==
  /\ Sound(hashed)
  /\ content \in [Keys -> {value, nil}]
  /\ \A k \in Keys : Get(hashed, k) = content[k]
  /\ Traversing(hashed, next)

LEMMA EmptySound ==
  ASSUME LuaTableAssumption
  PROVE  Sound(Empty) /\ \A j \in Keys : Get(Empty, j) = nil
<1>1. /\ Empty \in TableType /\ Empty.array = << >> /\ Empty.node = << >> /\ Empty.lastfree = 1
  BY DEF Empty, TableType
<1>2. Nodes(Empty) = {} /\ Len(Empty.node) = 0 /\ Len(Empty.array) = 0
  BY <1>1 DEF Nodes
<1>3. Links(Empty) /\ OneBefore(Empty) /\ EmptyNodes(Empty) /\ InPlace(Empty) /\ DeadNodes(Empty)
      /\ KeysOnce(Empty) /\ LiveFirst(Empty)
  BY <1>2 DEF Links, OneBefore, EmptyNodes, InPlace, DeadNodes, KeysOnce, LiveFirst
<1>4. Acyclic(Empty)
  <2>. DEFINE r == [i \in Nodes(Empty) |-> 0]
  <2>1. r \in [Nodes(Empty) -> Int] /\ Ranked(Empty, r)
    BY <1>2 DEF Ranked
  <2>. HIDE DEF r
  <2>. QED
    BY <2>1 DEF Acyclic
<1>5. FreeBelow(Empty) /\ ArrayFits(Empty)
  BY <1>1, <1>2 DEF FreeBelow, ArrayFits
<1>6. Sound(Empty)
  BY <1>1, <1>3, <1>4, <1>5 DEF Sound, Linked
<1>7. ASSUME NEW j \in Keys PROVE Get(Empty, j) = nil
  <2>1. ~InArray(Empty, j)
    BY <1>2, KeysDiffer DEF InArray
  <2>. QED
    BY <1>2, <1>6, <2>1, GetIs
<1>. QED
  BY <1>6, <1>7

LEMMA TableInvInit ==
  ASSUME LuaTableAssumption, TableInit
  PROVE  TableInv
<1>1. PICK narray, nhash \in 0 .. 2 : hashed = resize(Empty, narray, nhash)
  BY DEF TableInit
<1>2. narray \in Nat /\ nhash \in Nat
  OBVIOUS
<1>3. Enough(Empty, narray, HashSize(nhash), {})
  <2>1. IsFiniteSet({}) /\ Cardinality({}) = 0
    BY FS_EmptySet
  <2>2. HashSize(nhash) \in Nat
    BY <1>2, HashSizeIs
  <2>. QED
    BY <2>1, <2>2, EmptySound DEF Enough
<1>4. Sound(hashed) /\ \A j \in Keys : Get(hashed, j) = Get(Empty, j)
  BY <1>1, <1>2, <1>3, EmptySound, ResizeIs
<1>5. Traversing(hashed, next)
  BY <1>4, NotTraversing DEF TableInit
<1>. QED
  BY <1>4, <1>5, EmptySound DEF TableInv, TableInit

\* What a step does: it keeps the invariant, and the two action properties hold of it.
TableStep ==
  /\ findindex(hashed, next.key) # -1
  /\ next'.on /\ next' # next => next'.key \notin next.seen
  /\ next.on /\ ~next'.on => {k \in Keys : content[k] # nil} \subseteq next.seen
  /\ Len(hashed'.array) # Len(hashed.array) \/ Len(hashed'.node) # Len(hashed.node) =>
       \E k \in Keys : Sized(hashed', {j \in Keys : content[j] # nil} \cup {k})

LEMMA AssignSteps ==
  ASSUME LuaTableAssumption, TableInv, NEW k \in Keys, NEW v \in {value, nil}, Assign(k, v)
  PROVE  TableInv' /\ TableStep
<1>. DEFINE u == luaH_set(hashed, k, v)
<1>1. hashed' = u /\ content' = [content EXCEPT ![k] = v] /\ next' = next
  BY DEF Assign
<1>2. Sound(hashed) /\ Traversing(hashed, next) /\ \A j \in Keys : Get(hashed, j) = content[j]
  BY DEF TableInv
<1>3. /\ Sound(u) /\ \A j \in Keys : Get(u, j) = IF j = k THEN v ELSE Get(hashed, j)
      /\ Len(u.array) # Len(hashed.array) \/ Len(u.node) # Len(hashed.node) => Sized(u, Wanted(hashed, k))
  BY <1>2, SetIs
<1>4. content' \in [Keys -> {value, nil}] /\ \A j \in Keys : content'[j] = IF j = k THEN v ELSE content[j]
  BY <1>1 DEF TableInv
<1>5. Traversing(u, next)
  <2>1. CASE next.key = nil
    <3>1. next = NoTraversal
      BY <1>2, <2>1 DEF Traversing
    <3>. HIDE DEF u
    <3>. QED
      BY <1>3, <3>1, NotTraversing
  <2>2. CASE next.key # nil /\ next.on
    <3>1. Get(hashed, k) # nil
      BY <1>2, <2>2 DEF Assign
    <3>2. SameKeys(hashed, u)
      BY <1>2, <3>1, SetThere
    <3>3. \A j \in Keys : Get(u, j) # nil => Get(hashed, j) # nil
      BY <1>3, <3>1
    <3>. HIDE DEF u
    <3>. QED
      BY <1>2, <1>3, <3>2, <3>3, TraversalStays
  <2>3. next.key # nil => next.on
    BY <1>2 DEF Traversing
  <2>. QED
    BY <2>1, <2>2, <2>3
<1>6. TableInv'
  BY <1>1, <1>2, <1>3, <1>4, <1>5 DEF TableInv
<1>7. TableStep
  <2>1. findindex(hashed, next.key) # -1
    BY <1>2 DEF Traversing
  <2>2. Wanted(hashed, k) = {j \in Keys : content[j] # nil} \cup {k}
    BY <1>2 DEF Wanted
  <2>. HIDE DEF u
  <2>. QED
    BY <1>1, <1>3, <2>1, <2>2 DEF TableStep
<1>. QED
  BY <1>6, <1>7

LEMMA RemoveentrySteps ==
  ASSUME LuaTableAssumption, TableInv, removeentry
  PROVE  TableInv' /\ TableStep
<1>. DEFINE u == Cleared(hashed)
<1>1. hashed' = u /\ content' = content /\ next' = next
  BY DEF removeentry, Cleared
<1>2. Sound(hashed) /\ Traversing(hashed, next) /\ \A j \in Keys : Get(hashed, j) = content[j]
  BY DEF TableInv
<1>3. /\ Sound(u) /\ SameKeys(hashed, u) /\ \A j \in Keys : Get(u, j) = Get(hashed, j)
  BY <1>2, ClearedIs
<1>. HIDE DEF u
<1>4. Traversing(u, next)
  BY <1>2, <1>3, TraversalStays
<1>5. TableInv'
  BY <1>1, <1>2, <1>3, <1>4 DEF TableInv
<1>6. Len(u.array) = Len(hashed.array) /\ Len(u.node) = Len(hashed.node)
  BY <1>3 DEF SameKeys
<1>7. findindex(hashed, next.key) # -1
  BY <1>2 DEF Traversing
<1>. QED
  BY <1>1, <1>5, <1>6, <1>7 DEF TableStep

LEMMA NextSteps ==
  ASSUME LuaTableAssumption, TableInv, luaH_next
  PROVE  TableInv' /\ TableStep
<1>1. Sound(hashed) /\ Traversing(hashed, next) /\ \A j \in Keys : Get(hashed, j) = content[j]
  BY DEF TableInv
<1>2. /\ hashed' = hashed /\ content' = content
      /\ Traversing(hashed, next')
      /\ next'.on => next'.key \notin next.seen
      /\ ~next'.on => \A k \in Keys : Get(hashed, k) # nil => k \in next.seen
  BY <1>1, NextIs
<1>3. TableInv'
  BY <1>1, <1>2 DEF TableInv
<1>4. findindex(hashed, next.key) # -1
  BY <1>1 DEF Traversing
<1>. QED
  BY <1>1, <1>2, <1>3, <1>4 DEF TableStep

LEMMA TableSteps1 ==
  ASSUME LuaTableAssumption, TableInv, [TableNext]_tableVars
  PROVE  TableInv' /\ [TableStep]_tableVars
<1>1. CASE UNCHANGED tableVars
  BY <1>1 DEF tableVars, TableInv
<1>2. ASSUME NEW k \in Keys, NEW v \in {value, nil}, Assign(k, v) PROVE TableInv' /\ TableStep
  BY <1>2, AssignSteps
<1>3. CASE removeentry
  BY <1>3, RemoveentrySteps
<1>4. CASE luaH_next
  BY <1>4, NextSteps
<1>. QED
  BY <1>1, <1>2, <1>3, <1>4 DEF TableNext

--------------------------------------------------------------------------------
(* Theorems *)

LEMMA InvIsMap ==
  ASSUME LuaTableAssumption, TableInv
  PROVE  TablesAreMaps
<1>. DEFINE t == hashed
<1>0. Sound(t) /\ t \in TableType /\ \A k \in Keys : Get(t, k) = content[k]
  BY DEF TableInv, Sound
<1>1. IsTheMap
  <2>1. DOMAIN t.node = Nodes(t)
    BY <1>0, NodeFields
  <2>2. ASSUME NEW i \in Nodes(t), t.node[i].val # nil
        PROVE  /\ ~InArray(t, t.node[i].key) /\ t.node[i].key # nil /\ t.node[i].tt = "live"
    <3>1. t.node[i].key # nil /\ t.node[i].tt = "live"
      BY <1>0, <2>2, UsedIsLive
    <3>. QED
      BY <1>0, <3>1 DEF Sound, InPlace
  <2>3. ASSUME NEW i \in Nodes(t), NEW j \in Nodes(t), t.node[i].val # nil, t.node[j].val # nil, i # j
        PROVE  t.node[i].key # t.node[j].key
    BY <1>0, <2>2, <2>3 DEF Sound, KeysOnce
  <2>. QED
    BY <1>0, <2>1, <2>2, <2>3 DEF IsTheMap
<1>2. LengthIsBoundary
  <2>. DEFINE n == getn(t)
  <2>1. /\ n \in Nat
        /\ n # 0 => luaH_getnum(t, n) # nil
        /\ luaH_getnum(t, n + 1) = nil
    BY <1>0, LengthIs DEF Boundary
  <2>2. LengthIsBoundary <=> /\ n \in 0 .. MaxIndex
                             /\ n # 0 => content[n] # nil
                             /\ n < MaxIndex => content[n + 1] = nil
    BY DEF LengthIsBoundary
  <2>. HIDE DEF n
  <2>3. MaxIndex \in Nat /\ Ints = 1 .. MaxIndex /\ Ints \subseteq Keys
    BY KeysDiffer DEF Ints
  <2>4. n # 0 => n \in Ints
    BY <2>1 DEF luaH_getnum
  <2>5. n \in 0 .. MaxIndex
    BY <2>1, <2>3, <2>4
  <2>6. n # 0 => content[n] # nil
    BY <1>0, <2>1, <2>3, <2>4 DEF luaH_getnum
  <2>7. n < MaxIndex => n + 1 \in Ints
    BY <2>1, <2>3
  <2>8. n < MaxIndex => content[n + 1] = nil
    BY <1>0, <2>1, <2>3, <2>7 DEF luaH_getnum
  <2>. QED
    BY <2>2, <2>5, <2>6, <2>8
<1>. QED
  BY <1>1, <1>2 DEF TablesAreMaps

\* A table gives back what was put there and keeps no key twice, however keys
\* collide, move to free nodes, are marked dead and inserted again by rehashes, and
\* its length is a boundary, whatever the hash function (ltable.c: luaH_set, newkey,
\* rehash, luaH_getn).
THEOREM LuaTablesAreMaps ==
  ASSUME LuaTableAssumption
  PROVE  TableSpec => []TablesAreMaps
<1>1. TableInit => TableInv
  BY TableInvInit
<1>2. TableInv /\ [TableNext]_tableVars => TableInv'
  BY TableSteps1
<1>3. TableInv => TablesAreMaps
  BY InvIsMap
<1>. QED
  BY <1>1, <1>2, <1>3, PTL DEF TableSpec

\* A traversal in which fields change and the collector runs never fails, meets no
\* key twice, and has met all there are at its end (luaH_next, findindex); a rehash
\* leaves more than half of each part in use and a node for every key that needs one
\* (rehash, computesizes).
THEOREM LuaTableSteps ==
  ASSUME LuaTableAssumption
  PROVE  TableSpec => TableSteps
<1>. DEFINE Complete == /\ findindex(hashed, next.key) # -1
                        /\ next'.on /\ next' # next => next'.key \notin next.seen
                        /\ next.on /\ ~next'.on => {k \in Keys : content[k] # nil} \subseteq next.seen
            Fits == (Len(hashed'.array) # Len(hashed.array) \/ Len(hashed'.node) # Len(hashed.node)) =>
                      \E k \in Keys :
                        LET used == {j \in Keys : content[j] # nil} \cup {k}
                            n == Len(hashed'.array)
                            size == Len(hashed'.node)
                        IN /\ n # 0 => 2 * Cardinality(used \cap 1 .. n) > n
                           /\ size # 0 => 2 * Cardinality(used \ 1 .. n) > size
                           /\ Cardinality(used \ 1 .. n) <= size
<1>1. TableInit => TableInv
  BY TableInvInit
<1>2. TableInv /\ [TableNext]_tableVars => TableInv' /\ [TableStep]_tableVars
  BY TableSteps1
<1>3. [TableStep]_tableVars => [Complete]_tableVars
  BY DEF TableStep
<1>4. [TableStep]_tableVars => [Fits]_tableVars
  BY Zenon DEF TableStep, Sized
<1>5. TraversalComplete <=> [][Complete]_tableVars
  BY DEF TraversalComplete
<1>6. SizesFit <=> [][Fits]_tableVars
  BY DEF SizesFit
<1>. HIDE DEF Complete, Fits
<1>. QED
  BY <1>1, <1>2, <1>3, <1>4, <1>5, <1>6, PTL DEF TableSpec, TableSteps

--------------------------------------------------------------------------------
(* Tables with metatables *)

\* What is behind t on the course of an access.
Behind(t, k, e) == IF t \in Tables /\ raw[t][k] = none THEN TM(meta[t], e) ELSE none

\* The table where an access ends.
EndsHere(t, k, e) == raw[t][k] # none \/ TM(meta[t], e) = none

MetaTypeOK ==
  /\ raw \in [Tables -> [FieldNames -> Contents]]
  /\ meta \in [Tables -> Tables \cup {none}]
  /\ flags \in [Tables -> SUBSET Events]

\* A flag hides no tag method that is there.
FlagsRight == \A t \in Tables : \A e \in flags[t] : raw[t][e] = none

Getting == [do : {"get"}, table : Tables, key : FieldNames, at : Contents, loop : 1 .. MAXTAGLOOP]
Setting == [do : {"set"}, table : Tables, key : FieldNames, val : Contents, at : Contents,
            loop : 1 .. MAXTAGLOOP]

\* The way of the access in progress: the course from its table to where it is, on
\* which it ended nowhere.
OnCourse(f, n, t, at, k, e) ==
  /\ f[0] = t /\ f[n - 1] = at
  /\ \A i \in 1 .. n - 1 : /\ f[i - 1] \in Tables /\ ~ EndsHere(f[i - 1], k, e)
                           /\ f[i] = Behind(f[i - 1], k, e)

Way == \E f \in [Nat -> Contents] : 
         OnCourse(f, access.loop, access.table, access.at, access.key, Event)

MetaInv ==
  /\ MetaTypeOK /\ FlagsRight
  /\ Idle \/ (access \in Getting \cup Setting /\ Way)

LEMMA BehindIs ==
  ASSUME MetaTypeOK, NEW t \in Contents, NEW k \in FieldNames, NEW e \in Events
  PROVE  Behind(t, k, e) \in Contents
BY DEF MetaTypeOK, Behind, TM, Contents, FieldNames

\* The course of an access, turn by turn.
LEMMA CourseIs ==
  ASSUME MetaTypeOK, NEW t \in Tables, NEW k \in FieldNames, NEW e \in Events
  PROVE  /\ Course(t, k, e)[0] = t
         /\ \A n \in Nat \ {0} : Course(t, k, e)[n] = Behind(Course(t, k, e)[n - 1], k, e)
<1>. DEFINE step == [p \in Nat \X Contents |-> Behind(p[2], k, e)]
            g == CHOOSE g : g = [n \in Nat |->
                   IF n = 0 THEN t
                   ELSE IF g[n - 1] \in Tables /\ raw[g[n - 1]][k] = none
                        THEN TM(meta[g[n - 1]], e)
                        ELSE none]
<1>1. PICK f \in [Nat -> Contents] : Follows(f, t, step)
  <2>1. t \in Contents
    BY DEF Contents
  <2>2. step \in [Nat \X Contents -> Contents]
    BY BehindIs
  <2>. HIDE DEF step
  <2>. QED
    BY <2>1, <2>2, Recursion
<1>2. f[0] = t /\ \A n \in Nat : f[n + 1] = Behind(f[n], k, e)
  <2>1. f[0] = t
    BY <1>1 DEF Follows
  <2>2. ASSUME NEW n \in Nat PROVE f[n + 1] = Behind(f[n], k, e)
    <3>1. << n, f[n] >> \in Nat \X Contents
      BY <1>1
    <3>2. f[n + 1] = step[<< n, f[n] >>]
      BY <1>1 DEF Follows
    <3>. QED
      BY <3>1, <3>2
  <2>. QED
    BY <2>1, <2>2
<1>. HIDE DEF step
<1>3. \A n \in Nat \ {0} : f[n] = Behind(f[n - 1], k, e)
  <2>. TAKE n \in Nat \ {0}
  <2>1. n - 1 \in Nat /\ n = (n - 1) + 1
    OBVIOUS
  <2>. QED
    BY <1>2, <2>1
<1>4. \E h : h = [n \in Nat |->
                   IF n = 0 THEN t
                   ELSE IF h[n - 1] \in Tables /\ raw[h[n - 1]][k] = none
                        THEN TM(meta[h[n - 1]], e)
                        ELSE none]
  <2>1. f = [n \in Nat |-> IF n = 0 THEN t
                           ELSE IF f[n - 1] \in Tables /\ raw[f[n - 1]][k] = none
                                THEN TM(meta[f[n - 1]], e)
                                ELSE none]
    BY <1>1, <1>2, <1>3 DEF Behind
  <2>. QED
    BY <2>1
<1>5. g = [n \in Nat |->
                   IF n = 0 THEN t
                   ELSE IF g[n - 1] \in Tables /\ raw[g[n - 1]][k] = none
                        THEN TM(meta[g[n - 1]], e)
                        ELSE none]
  BY <1>4
<1>6. Course(t, k, e) = g
  BY Zenon DEF Course
<1>. HIDE DEF g
<1>7. g[0] = t /\ \A n \in Nat \ {0} : g[n] = Behind(g[n - 1], k, e)
  <2>1. 0 \in Nat /\ g[0] = t
    BY <1>5
  <2>2. ASSUME NEW n \in Nat \ {0} PROVE g[n] = Behind(g[n - 1], k, e)
    <3>1. n \in Nat /\ n # 0
      OBVIOUS
    <3>. QED
      BY <1>5, <3>1 DEF Behind
  <2>. QED
    BY <2>1, <2>2
<1>. QED
  BY <1>6, <1>7

\* The way of an access is the course.
LEMMA WayIsCourse ==
  ASSUME MetaTypeOK, NEW t \in Tables, NEW k \in FieldNames, NEW e \in Events,
         NEW n \in Nat \ {0}, NEW at, NEW f \in [Nat -> Contents], OnCourse(f, n, t, at, k, e)
  PROVE  \A i \in 0 .. n - 1 : Course(t, k, e)[i] = f[i]
<1>. DEFINE c == Course(t, k, e)
            P == {i \in Nat : i <= n - 1 => c[i] = f[i]}
<1>1. c[0] = t /\ \A i \in Nat \ {0} : c[i] = Behind(c[i - 1], k, e)
  BY CourseIs
<1>2. f[0] = t /\ \A i \in 1 .. n - 1 : f[i] = Behind(f[i - 1], k, e)
  BY DEF OnCourse
<1>. HIDE DEF c
<1>3. 0 \in P
  BY <1>1, <1>2
<1>4. ASSUME NEW i \in P PROVE i + 1 \in P
  <2>. SUFFICES ASSUME i + 1 <= n - 1 PROVE c[i + 1] = f[i + 1]
    OBVIOUS
  <2>1. i \in Nat /\ i + 1 \in Nat \ {0} /\ i + 1 \in 1 .. n - 1 /\ (i + 1) - 1 = i /\ i <= n - 1
    OBVIOUS
  <2>. QED
    BY <1>1, <1>2, <2>1
<1>5. P = Nat
  <2>1. P \subseteq Nat
    OBVIOUS
  <2>. HIDE DEF P
  <2>. QED
    BY <1>3, <1>4, <2>1, Induction
<1>. QED
  BY <1>5 DEF c

\* The course once it is at no table.
LEMMA CourseStays ==
  ASSUME MetaTablesAssumption, MetaTypeOK, NEW t \in Tables, NEW k \in FieldNames,
         NEW e \in Events, NEW m \in Nat, Course(t, k, e)[m] \notin Tables
  PROVE  \A n \in Nat : n >= m => Course(t, k, e)[n] \notin Tables
<1>. DEFINE c == Course(t, k, e)
            P == {n \in Nat : n >= m => c[n] \notin Tables}
<1>1. c[m] \notin Tables /\ \A i \in Nat \ {0} : c[i] = Behind(c[i - 1], k, e)
  BY CourseIs
<1>2. none \notin Tables
  BY DEF MetaTablesAssumption
<1>. HIDE DEF c
<1>3. 0 \in P
  BY <1>1
<1>4. ASSUME NEW i \in P PROVE i + 1 \in P
  <2>. SUFFICES ASSUME i + 1 >= m, i + 1 # m PROVE c[i + 1] \notin Tables
    BY <1>1
  <2>1. i \in Nat /\ i + 1 \in Nat \ {0} /\ (i + 1) - 1 = i /\ i >= m
    OBVIOUS
  <2>2. c[i] \notin Tables
    BY <2>1
  <2>3. c[i + 1] = Behind(c[i], k, e)
    BY <1>1, <2>1
  <2>. QED
    BY <1>2, <2>2, <2>3 DEF Behind
<1>5. P = Nat
  <2>1. P \subseteq Nat
    OBVIOUS
  <2>. HIDE DEF P
  <2>. QED
    BY <1>3, <1>4, <2>1, Induction
<1>. QED
  BY <1>5 DEF c

\* Where an access ends when it has come so far.
LEMMA EndsAre ==
  ASSUME MetaTablesAssumption, MetaTypeOK, NEW t \in Tables, NEW k \in FieldNames,
         NEW e \in Events, NEW n \in 1 .. MAXTAGLOOP, NEW at,
         NEW f \in [Nat -> Contents], OnCourse(f, n, t, at, k, e)
  PROVE  /\ at \in Tables /\ EndsHere(at, k, e) => Ends(t, k, e) = {at}
         /\ at \notin Tables => Ends(t, k, e) = {}
         /\ at \in Tables /\ ~ EndsHere(at, k, e)
              /\ (TM(meta[at], e) = function \/ n = MAXTAGLOOP) => Ends(t, k, e) = {}
<1>. DEFINE c == Course(t, k, e)
            Passed(u) == \E i \in 0 .. MAXTAGLOOP - 1 : c[i] = u
<1>1. /\ MAXTAGLOOP \in Nat \ {0} /\ n \in Nat \ {0} /\ n <= MAXTAGLOOP
      /\ none \notin Tables /\ function \notin Tables
  BY DEF MetaTablesAssumption
<1>2. \A i \in 0 .. n - 1 : c[i] = f[i]
  BY <1>1, WayIsCourse
<1>3. c[n - 1] = at /\ \A i \in 0 .. n - 2 : ~ EndsHere(c[i], k, e)
  <2>1. n - 1 \in 0 .. n - 1 /\ f[n - 1] = at
    BY <1>1 DEF OnCourse
  <2>2. ASSUME NEW i \in 0 .. n - 2 PROVE ~ EndsHere(c[i], k, e)
    <3>1. i + 1 \in 1 .. n - 1 /\ (i + 1) - 1 = i /\ i \in 0 .. n - 1
      BY <1>1
    <3>2. ~ EndsHere(f[i], k, e)
      BY <3>1 DEF OnCourse
    <3>. QED
      BY <1>2, <3>1, <3>2
  <2>. QED
    BY <1>2, <2>1, <2>2
<1>4. c[n] = Behind(at, k, e)
  BY <1>1, <1>3, CourseIs
<1>5. \A u : u \in Ends(t, k, e) <=> u \in Tables /\ Passed(u) /\ EndsHere(u, k, e)
  BY DEF Ends, EndsHere
<1>6. \A m \in Nat : c[m] \notin Tables => \A i \in Nat : i >= m => c[i] \notin Tables
  BY CourseStays
<1>. HIDE DEF c
<1>7. ASSUME at \in Tables, EndsHere(at, k, e) PROVE Ends(t, k, e) = {at}
  <2>1. c[n] \notin Tables
    BY <1>1, <1>4, <1>7 DEF EndsHere, Behind
  <2>2. n \in Nat /\ \A i \in Nat : i >= n => c[i] \notin Tables
    BY <1>1, <1>6, <2>1
  <2>3. ASSUME NEW u \in Tables, Passed(u), EndsHere(u, k, e) PROVE u = at
    <3>1. PICK i \in 0 .. MAXTAGLOOP - 1 : c[i] = u
      BY <2>3
    <3>2. ~ i \in 0 .. n - 2
      BY <1>3, <2>3, <3>1
    <3>3. ~ i >= n
      BY <1>1, <2>2, <3>1
    <3>4. i = n - 1
      BY <1>1, <3>2, <3>3
    <3>. QED
      BY <1>3, <3>1, <3>4
  <2>4. Passed(at)
    BY <1>1, <1>3
  <2>. QED
    BY <1>5, <1>7, <2>3, <2>4
<1>8. ASSUME at \notin Tables PROVE Ends(t, k, e) = {}
  <2>1. n - 1 \in Nat /\ \A i \in Nat : i >= n - 1 => c[i] \notin Tables
    BY <1>1, <1>3, <1>6, <1>8
  <2>2. ASSUME NEW u \in Tables, Passed(u), EndsHere(u, k, e) PROVE FALSE
    <3>1. PICK i \in 0 .. MAXTAGLOOP - 1 : c[i] = u
      BY <2>2
    <3>2. ~ i \in 0 .. n - 2
      BY <1>3, <2>2, <3>1
    <3>3. ~ i >= n - 1
      BY <1>1, <2>1, <3>1
    <3>. QED
      BY <1>1, <3>2, <3>3
  <2>. QED
    BY <1>5, <2>2
<1>9. ASSUME at \in Tables, ~ EndsHere(at, k, e), TM(meta[at], e) = function \/ n = MAXTAGLOOP
      PROVE Ends(t, k, e) = {}
  <2>1. TM(meta[at], e) = function => c[n] \notin Tables
    BY <1>1, <1>4, <1>9 DEF EndsHere, Behind
  <2>2. n = MAXTAGLOOP \/ \A i \in Nat : i >= n => c[i] \notin Tables
    BY <1>1, <1>6, <1>9, <2>1
  <2>3. ASSUME NEW u \in Tables, Passed(u), EndsHere(u, k, e) PROVE FALSE
    <3>1. PICK i \in 0 .. MAXTAGLOOP - 1 : c[i] = u
      BY <2>3
    <3>2. ~ i \in 0 .. n - 2
      BY <1>3, <2>3, <3>1
    <3>3. i # n - 1
      BY <1>3, <1>9, <2>3, <3>1
    <3>4. i >= n /\ i \in Nat /\ n # MAXTAGLOOP
      BY <1>1, <3>2, <3>3
    <3>. QED
      BY <2>2, <2>3, <3>1, <3>4
  <2>. QED
    BY <1>5, <2>3
<1>. QED
  BY <1>7, <1>8, <1>9

\* What the flags may say.
Right(fl) ==
  /\ fl \in [Tables -> SUBSET Events]
  /\ \A t \in Tables : \A e \in fl[t] : raw[t][e] = none

LEMMA FlagsAreRight ==
  ASSUME MetaTypeOK, FlagsRight
  PROVE  Right(flags) /\ \A t \in Tables : Right([flags EXCEPT ![t] = {}])
BY DEF MetaTypeOK, FlagsRight, Right

\* The search with the flags finds what there is, and remembers what there is not.
LEMMA Search ==
  ASSUME MetaTypeOK, NEW fl, Right(fl), NEW mt \in Tables \cup {none}, NEW e \in Events
  PROVE  fasttm(fl, mt, e) = TM(mt, e) /\ Right(Remember(fl, mt, e))
BY DEF MetaTypeOK, Right, fasttm, TM, Remember

\* What ChainFollowed says of a step.
StepFollowed ==
  /\ ~Idle' => access'.loop <= MAXTAGLOOP
  /\ ~Idle /\ Idle' =>
       LET ends == Ends(access.table, access.key, Event) IN
         /\ access'.kind \in {"got", "put"} <=> ends # {}
         /\ access'.kind = "got" => raw' = raw /\ \A t \in ends : access'.value = raw[t][access.key]
         /\ access'.kind = "put" =>
              \A t \in ends : raw' = [raw EXCEPT ![t][access.key] = access.val]
         /\ ends = {} => raw' = raw

\* An access that begins.
LEMMA AccessBegins ==
  ASSUME MetaTablesAssumption, MetaInv, NEW t \in Tables, NEW k \in FieldNames, NEW v \in Contents,
         lua_gettable(t, k) \/ lua_settable(t, k, v)
  PROVE  MetaInv' /\ StepFollowed
<1>1. /\ Idle /\ raw' = raw /\ meta' = meta /\ flags' = flags
      /\ access' \in {[do |-> "get", table |-> t, key |-> k, at |-> t, loop |-> 1],
                      [do |-> "set", table |-> t, key |-> k, val |-> v, at |-> t, loop |-> 1]}
  BY DEF lua_gettable, lua_settable, Begin
<1>2. MAXTAGLOOP \in Nat \ {0} /\ t \in Contents
  BY DEF MetaTablesAssumption, Contents
<1>3. access' \in Getting \cup Setting /\ access'.loop = 1 /\ access'.table = t /\ access'.at = t
  BY <1>1, <1>2 DEF Getting, Setting
<1>4. Way'
  <2>. DEFINE f == [n \in Nat |-> t]
  <2>1. f \in [Nat -> Contents] /\ f[0] = t
    BY <1>2
  <2>. HIDE DEF f
  <2>2. OnCourse(f, access.loop, access.table, access.at, access.key, Event)'
    BY <1>3, <2>1 DEF OnCourse
  <2>. QED
    BY <2>1, <2>2 DEF Way
<1>5. (MetaTypeOK /\ FlagsRight)'
  BY <1>1 DEF MetaInv, MetaTypeOK, FlagsRight
<1>6. StepFollowed
  BY <1>1, <1>2, <1>3 DEF StepFollowed, Idle
<1>. QED
  BY <1>3, <1>4, <1>5, <1>6 DEF MetaInv

\* A turn that goes on: the way is longer by one.
LEMMA TurnGoesOn ==
  ASSUME MetaTablesAssumption, MetaInv, ~ Idle, access.at \in Tables,
         ~ EndsHere(access.at, access.key, Event), access.loop # MAXTAGLOOP,
         access' = [access EXCEPT !.at = TM(meta[access.at], Event), !.loop = @ + 1],
         raw' = raw, meta' = meta, Right(flags')
  PROVE  MetaInv' /\ StepFollowed
<1>. DEFINE tm == TM(meta[access.at], Event)
<1>1. /\ access \in Getting \cup Setting /\ Way
      /\ MAXTAGLOOP \in Nat \ {0} /\ MetaTypeOK
  BY DEF MetaInv, MetaTablesAssumption
<1>2. /\ access.loop \in 1 .. MAXTAGLOOP /\ access.table \in Tables /\ access.key \in FieldNames
      /\ access.at \in Contents /\ Event \in Events
  BY <1>1 DEF Getting, Setting, Event, Events
<1>3. tm = Behind(access.at, access.key, Event) /\ tm \in Contents
  <2>1. tm = Behind(access.at, access.key, Event)
    BY DEF EndsHere, Behind
  <2>. QED
    BY <1>1, <1>2, <2>1, BehindIs
<1>. HIDE DEF tm
<1>4. /\ access' \in Getting \cup Setting
      /\ access'.loop = access.loop + 1 /\ access'.at = tm /\ access'.table = access.table
      /\ access'.key = access.key /\ access'.do = access.do
  <2>1. access.loop + 1 \in 1 .. MAXTAGLOOP
    BY <1>1, <1>2
  <2>2. access' = [access EXCEPT !.at = tm, !.loop = @ + 1]
    BY DEF tm
  <2>3. CASE access \in Getting
    BY <1>3, <2>1, <2>2, <2>3 DEF Getting
  <2>4. CASE access \in Setting
    BY <1>3, <2>1, <2>2, <2>4 DEF Setting
  <2>. QED
    BY <1>1, <2>3, <2>4
<1>5. Event' = Event
  BY <1>4 DEF Event
<1>6. Way'
  <2>. DEFINE n == access.loop
              e == Event
              k == access.key
  <2>1. PICK f \in [Nat -> Contents] : OnCourse(f, n, access.table, access.at, k, e)
    BY <1>1 DEF Way
  <2>2. n \in Nat \ {0}
    BY <1>1, <1>2
  <2>3. PICK g \in [Nat -> Contents] : g[n] = tm /\ \A i \in 0 .. n - 1 : g[i] = f[i]
    <3>. DEFINE h == [f EXCEPT ![n] = tm]
    <3>1. h \in [Nat -> Contents] /\ h[n] = tm /\ \A i \in 0 .. n - 1 : h[i] = f[i]
      BY <1>3, <2>2
    <3>. QED
      BY <3>1
  <2>. HIDE DEF n, e, k
  <2>4. ASSUME NEW i \in 1 .. n
        PROVE  g[i - 1] \in Tables /\ ~ EndsHere(g[i - 1], k, e) /\ g[i] = Behind(g[i - 1], k, e)
    <3>1. CASE i = n
      <4>1. n - 1 \in 0 .. n - 1
        BY <2>2
      <4>2. g[n - 1] = access.at
        BY <2>1, <2>3, <4>1 DEF OnCourse
      <4>. QED
        BY <1>3, <2>3, <3>1, <4>2 DEF e, k
    <3>2. CASE i # n
      <4>1. i \in 1 .. n - 1 /\ i - 1 \in 0 .. n - 1 /\ i \in 0 .. n - 1
        BY <2>2, <3>2
      <4>. QED
        BY <2>1, <2>3, <4>1 DEF OnCourse
    <3>. QED
      BY <3>1, <3>2
  <2>5. g[0] = access.table /\ g[(n + 1) - 1] = tm /\ (n + 1) - 1 = n
    <3>1. 0 \in 0 .. n - 1 /\ (n + 1) - 1 = n
      BY <2>2
    <3>. QED
      BY <2>1, <2>3, <3>1 DEF OnCourse
  <2>6. OnCourse(g, n + 1, access.table, tm, k, e)
    BY <2>4, <2>5 DEF OnCourse
  <2>7. OnCourse(g, access.loop, access.table, access.at, access.key, Event)'
    BY <1>4, <1>5, <2>6 DEF OnCourse, EndsHere, Behind, TM, n, e, k
  <2>. QED
    BY <2>3, <2>7 DEF Way
<1>7. (MetaTypeOK /\ FlagsRight)'
  BY <1>1 DEF MetaTypeOK, FlagsRight, Right
<1>8. StepFollowed
  <2>1. access'.do # "done" /\ access'.loop <= MAXTAGLOOP
    BY <1>1, <1>4 DEF Getting, Setting
  <2>. QED
    BY <2>1 DEF StepFollowed, Idle
<1>. QED
  BY <1>4, <1>6, <1>7, <1>8 DEF MetaInv

\* A turn that is the last.
LEMMA AccessEnds ==
  ASSUME MetaTablesAssumption, MetaInv, ~ Idle, NEW kind, NEW v, access' = Finished(kind, v),
         (MetaTypeOK /\ FlagsRight)',
         \/ /\ access.at \in Tables /\ EndsHere(access.at, access.key, Event)
            /\ \/ kind = "got" /\ v = raw[access.at][access.key] /\ raw' = raw
               \/ kind = "put" /\ raw' = [raw EXCEPT ![access.at][access.key] = access.val]
         \/ /\ kind \notin {"got", "put"} /\ raw' = raw
            /\ \/ access.at \notin Tables
               \/ /\ access.at \in Tables /\ ~ EndsHere(access.at, access.key, Event)
                  /\ TM(meta[access.at], Event) = function \/ access.loop = MAXTAGLOOP
  PROVE  MetaInv' /\ StepFollowed
<1>1. access \in Getting \cup Setting /\ Way /\ MetaTypeOK
  BY DEF MetaInv
<1>2. /\ access.loop \in 1 .. MAXTAGLOOP /\ access.table \in Tables /\ access.key \in FieldNames
      /\ Event \in Events
  BY <1>1 DEF Getting, Setting, Event, Events
<1>3. PICK f \in [Nat -> Contents] :
        OnCourse(f, access.loop, access.table, access.at, access.key, Event)
  BY <1>1 DEF Way
<1>. DEFINE ends == Ends(access.table, access.key, Event)
<1>4. /\ access.at \in Tables /\ EndsHere(access.at, access.key, Event) => ends = {access.at}
      /\ access.at \notin Tables => ends = {}
      /\ access.at \in Tables /\ ~ EndsHere(access.at, access.key, Event)
           /\ (TM(meta[access.at], Event) = function \/ access.loop = MAXTAGLOOP) => ends = {}
  BY <1>1, <1>2, <1>3, EndsAre
<1>5. access'.do = "done" /\ access'.kind = kind /\ access'.value = v
  BY DEF Finished
<1>. HIDE DEF ends
<1>6. /\ kind \in {"got", "put"} <=> ends # {}
      /\ kind = "got" => raw' = raw /\ \A t \in ends : v = raw[t][access.key]
      /\ kind = "put" => \A t \in ends : raw' = [raw EXCEPT ![t][access.key] = access.val]
      /\ ends = {} => raw' = raw
  BY <1>4
<1>7. StepFollowed
  BY <1>5, <1>6 DEF StepFollowed, Idle, ends
<1>. QED
  BY <1>5, <1>7 DEF MetaInv, Idle

\* A turn of luaV_gettable.
LEMMA GettableFollowed ==
  ASSUME MetaTablesAssumption, MetaInv, gettableTurn
  PROVE  MetaInv' /\ StepFollowed
<1>. DEFINE t == access.at
            tm == fasttm(flags, meta[t], "__index")
<1>1. /\ access.do = "get" /\ ~ Idle /\ access \in Getting /\ MetaTypeOK /\ FlagsRight
      /\ raw' = raw /\ meta' = meta /\ Event = "__index" /\ "__index" \in Events
  BY DEF gettableTurn, MetaInv, Idle, Getting, Setting, Event, Events
<1>2. CASE t \notin Tables
  <2>1. access' = Finished("typeerror", t) /\ flags' = flags
    BY <1>2 DEF gettableTurn, TypeError
  <2>2. (MetaTypeOK /\ FlagsRight)'
    BY <1>1, <2>1 DEF MetaTypeOK, FlagsRight
  <2>. QED
    BY <1>1, <1>2, <2>1, <2>2, AccessEnds
<1>3. CASE t \in Tables
  <2>1. meta[t] \in Tables \cup {none} /\ Right(flags)
    BY <1>1, <1>3, FlagsAreRight DEF MetaTypeOK
  <2>2. tm = TM(meta[t], "__index") /\ Right(Remember(flags, meta[t], "__index"))
    BY <1>1, <2>1, Search
  <2>3. flags' \in {flags, Remember(flags, meta[t], "__index")}
    BY <1>3 DEF gettableTurn
  <2>4. Right(flags')
    BY <2>1, <2>2, <2>3
  <2>5. (MetaTypeOK /\ FlagsRight)'
    BY <1>1, <2>4 DEF MetaTypeOK, FlagsRight, Right
  <2>6. /\ EndsHere(t, access.key, "__index") => access' = Finished("got", raw[t][access.key])
        /\ ~ EndsHere(t, access.key, "__index") => Follow(TM(meta[t], "__index"))
    BY <1>3, <2>2 DEF gettableTurn, EndsHere
  <2>7. CASE EndsHere(t, access.key, "__index")
    BY <1>1, <1>3, <2>5, <2>6, <2>7, AccessEnds
  <2>8. CASE ~ EndsHere(t, access.key, "__index")
    BY <1>1, <1>3, <2>4, <2>5, <2>6, <2>8, AccessEnds, TurnGoesOn DEF Follow
  <2>. QED
    BY <2>7, <2>8
<1>. QED
  BY <1>2, <1>3

\* A turn of luaV_settable.
LEMMA SettableFollowed ==
  ASSUME MetaTablesAssumption, MetaInv, settableTurn
  PROVE  MetaInv' /\ StepFollowed
<1>. DEFINE t == access.at
            cleared == [flags EXCEPT ![t] = {}]
            tm == fasttm(cleared, meta[t], "__newindex")
            searched == IF raw[t][access.key] # none THEN cleared
                        ELSE Remember(cleared, meta[t], "__newindex")
<1>1. /\ access.do = "set" /\ ~ Idle /\ access \in Setting /\ MetaTypeOK /\ FlagsRight
      /\ meta' = meta /\ Event = "__newindex" /\ "__newindex" \in Events
  BY DEF settableTurn, MetaInv, Idle, Getting, Setting, Event, Events
<1>2. CASE t \notin Tables
  <2>1. access' = Finished("typeerror", t) /\ flags' = flags /\ raw' = raw
    BY <1>2 DEF settableTurn, TypeError
  <2>2. (MetaTypeOK /\ FlagsRight)'
    BY <1>1, <2>1 DEF MetaTypeOK, FlagsRight
  <2>. QED
    BY <1>1, <1>2, <2>1, <2>2, AccessEnds
<1>3. CASE t \in Tables
  <2>1. meta[t] \in Tables \cup {none} /\ Right(cleared)
    BY <1>1, <1>3, FlagsAreRight DEF MetaTypeOK
  <2>. HIDE DEF cleared
  <2>2. tm = TM(meta[t], "__newindex") /\ Right(searched)
    BY <1>1, <2>1, Search
  <2>3. CASE EndsHere(t, access.key, "__newindex")
    <3>1. /\ access' = Finished("put", t)
          /\ raw' = [raw EXCEPT ![t][access.key] = access.val]
          /\ flags' = [searched EXCEPT ![t] = {}]
      BY <1>3, <2>2, <2>3 DEF settableTurn, EndsHere, FlagsStored, cleared
    <3>2. access.key \in FieldNames /\ access.val \in Contents
      BY <1>1 DEF Setting
    <3>3. raw' \in [Tables -> [FieldNames -> Contents]] /\ \A u \in Tables \ {t} : raw'[u] = raw[u]
      BY <1>1, <1>3, <3>1, <3>2 DEF MetaTypeOK
    <3>4. flags' \in [Tables -> SUBSET Events] /\ flags'[t] = {} /\ \A u \in Tables \ {t} : flags'[u] = searched[u]
      BY <1>3, <2>2, <3>1 DEF Right
    <3>5. MetaTypeOK'
      BY <1>1, <3>3, <3>4 DEF MetaTypeOK
    <3>6. FlagsRight'
      BY <2>2, <3>3, <3>4 DEF FlagsRight, Right
    <3>. QED
      BY <1>1, <1>3, <2>3, <3>1, <3>5, <3>6, AccessEnds
  <2>4. CASE ~ EndsHere(t, access.key, "__newindex")
    <3>1. Follow(TM(meta[t], "__newindex")) /\ flags' = searched /\ raw' = raw
      BY <1>3, <2>2, <2>4 DEF settableTurn, EndsHere, cleared
    <3>2. (MetaTypeOK /\ FlagsRight)' /\ Right(flags')
      BY <1>1, <2>2, <3>1 DEF MetaTypeOK, FlagsRight, Right
    <3>. QED
      BY <1>1, <1>3, <2>4, <3>1, <3>2, AccessEnds, TurnGoesOn DEF Follow
  <2>. QED
    BY <2>3, <2>4
<1>. QED
  BY <1>2, <1>3

\* Changes between accesses.
LEMMA RawsetFollowed ==
  ASSUME MetaInv, NEW t \in Tables, NEW k \in FieldNames, NEW v \in Contents, lua_rawset(t, k, v)
  PROVE  MetaInv' /\ StepFollowed
<1>1. /\ Idle /\ access' = access /\ MetaTypeOK /\ FlagsRight /\ meta' = meta
      /\ raw' = [raw EXCEPT ![t][k] = v] /\ flags' = [flags EXCEPT ![t] = {}]
  BY DEF lua_rawset, MetaInv
<1>2. raw' \in [Tables -> [FieldNames -> Contents]] /\ \A u \in Tables \ {t} : raw'[u] = raw[u]
  BY <1>1 DEF MetaTypeOK
<1>3. flags' \in [Tables -> SUBSET Events] /\ flags'[t] = {} /\ \A u \in Tables \ {t} : flags'[u] = flags[u]
  BY <1>1 DEF MetaTypeOK
<1>4. MetaTypeOK'
  BY <1>1, <1>2, <1>3 DEF MetaTypeOK
<1>5. FlagsRight'
  BY <1>1, <1>2, <1>3 DEF FlagsRight
<1>. QED
  BY <1>1, <1>4, <1>5 DEF MetaInv, StepFollowed, Idle

LEMMA SetmetatableFollowed ==
  ASSUME MetaInv, NEW t \in Tables, NEW mt \in Tables \cup {none}, lua_setmetatable(t, mt)
  PROVE  MetaInv' /\ StepFollowed
<1>1. /\ Idle /\ access' = access /\ MetaTypeOK /\ FlagsRight
      /\ meta' = [meta EXCEPT ![t] = mt] /\ raw' = raw /\ flags' = flags
  BY DEF lua_setmetatable, MetaInv
<1>2. (MetaTypeOK /\ FlagsRight)'
  BY <1>1 DEF MetaTypeOK, FlagsRight
<1>. QED
  BY <1>1, <1>2 DEF MetaInv, StepFollowed, Idle

LEMMA MetaStepFollowed ==
  ASSUME MetaTablesAssumption, MetaInv, [MetaNext]_metaVars
  PROVE  MetaInv' /\ [StepFollowed]_metaVars
<1>1. CASE MetaNext
  <2>1. ASSUME NEW t \in Tables, NEW k \in FieldNames,
               \/ k \in Ordinary /\ lua_gettable(t, k)
               \/ \E v \in Possible(k) : lua_settable(t, k, v) \/ lua_rawset(t, k, v)
        PROVE  MetaInv' /\ StepFollowed
    <3>1. none \in Contents /\ Possible(k) \subseteq Contents
      BY DEF Possible, Contents
    <3>2. CASE lua_gettable(t, k)
      BY <3>1, <3>2, AccessBegins
    <3>3. ASSUME NEW v \in Possible(k), lua_settable(t, k, v) \/ lua_rawset(t, k, v)
          PROVE  MetaInv' /\ StepFollowed
      BY <3>1, <3>3, AccessBegins, RawsetFollowed
    <3>. QED
      BY <2>1, <3>2, <3>3
  <2>2. ASSUME NEW t \in Tables, NEW mt \in Tables \cup {none}, lua_setmetatable(t, mt)
        PROVE  MetaInv' /\ StepFollowed
    BY <2>2, SetmetatableFollowed
  <2>. QED
    BY <1>1, <2>1, <2>2, GettableFollowed, SettableFollowed DEF MetaNext
<1>2. CASE UNCHANGED metaVars
  BY <1>2 DEF metaVars, MetaInv, MetaTypeOK, FlagsRight, Idle, Getting, Setting, Way, OnCourse, EndsHere,
              Behind, TM, Event
<1>. QED
  BY <1>1, <1>2

\* An access along a chain of tag methods ends at the table the manual names or in an
\* error, whatever the cached flags say and whichever tables are metatables of which
\* (luaV_gettable, luaV_settable).
THEOREM LuaChainFollowed ==
  ASSUME MetaTablesAssumption
  PROVE  MetaSpec => ChainFollowed
<1>1. MetaInit => MetaInv
  BY DEF MetaInit, MetaInv, MetaTypeOK, FlagsRight, Idle, Finished, Contents, FieldNames
<1>2. MetaInv /\ [MetaNext]_metaVars => MetaInv' /\ [StepFollowed]_metaVars
  BY MetaStepFollowed
<1>3. ChainFollowed <=> [][StepFollowed]_metaVars
  BY DEF ChainFollowed, StepFollowed
<1>. QED
  BY <1>1, <1>2, <1>3, PTL DEF MetaSpec
================================================================================
