------------------------------ MODULE LuaGCProofs ------------------------------
(***************************************************************************)
(* The collector for every heap: whatever the program does between its     *)
(* steps, nothing that the program can get at is freed, and a userdata is  *)
(* handed to its finalizer once.                                           *)
(***************************************************************************)
EXTENDS LuaGC, InductionLemmas, FiniteSetTheorems

--------------------------------------------------------------------------------
(* The inductive invariant *)

Colors == White \cup {"free", "gray", "black"}
MarkType == [gray : SUBSET Listed, grayagain : SUBSET (Listed \ Weak), weak : SUBSET Weak]

GTypes ==
  /\ color \in [All -> Colors]
  /\ entry \in [Tables -> SUBSET ((Objects \cup {number}) \X Objects)]
  /\ holds \in [All \ Tables -> SUBSET Objects]
  /\ open \in [Upvals -> Coroutines \cup {nil}]
  /\ marked \in MarkType
  /\ gcstate \in {"pause", "propagate", "sweep", "finalize"} /\ currentwhite \in White
  /\ sweepgc \subseteq All /\ tmudata \subseteq Udata /\ finalized \subseteq Udata
  /\ full \in {"no", "sweep", "mark", "called"}

\* Alive, and not left over from the last marking.
Good(o) == color[o] \notin {"free", otherwhite}

\* What is alive leads only to what is alive.
GoodClosed == Good(main) /\ \A o \in All : Good(o) => \A x \in Refs(o) : Good(x)

\* What is to be swept: the list, and the open upvalues of its threads.
OfSwept(o) == o \in Upvals /\ open[o] # nil /\ open[o] \in sweepgc
ToSweep(o) == gcstate = "sweep" /\ (o \in sweepgc \/ OfSwept(o))

\* Colors of an earlier phase are only on what is to be swept, or waits for a finalizer.
Leftovers ==
  /\ \A o \in All : color[o] = otherwhite => ToSweep(o) /\ (o \in Udata => o \in finalized)
  /\ gcstate # "propagate" =>
       \A o \in All : color[o] \in {"gray", "black"} => o \in tmudata \/ ToSweep(o)

Waiting == \A u \in tmudata : color[u] \in {"black", currentwhite} /\ u \notin sweepgc

\* Facts on the kinds of objects.
Kinds ==
  /\ \A t \in Tables : color[t] = "free" => entry[t] = {}
  /\ \A s \in Strings : holds[s] = {}
  /\ \A co \in Coroutines : \A x, y \in holds[co] : x = y
  /\ \A uv \in Upvals : open[uv] # nil =>
       color[uv] \notin {"free", "black"} /\ color[open[uv]] # "free" /\ uv \notin sweepgc
  /\ \A o \in Strings \cup Threads \cup Weak : color[o] # "black"
  /\ \A o \in sweepgc : color[o] # "free"

\* The lists, and while the collector marks what they are for.
InList(o) == o \in marked.gray \cup marked.grayagain \cup marked.weak
GrayLists ==
  /\ marked.gray \cap marked.grayagain = {} /\ marked.gray \cap marked.weak = {}
  /\ gcstate # "propagate" => marked.gray = {}
  /\ gcstate = "propagate" =>
       /\ color[main] = "gray"
       /\ \A o \in All : InList(o) => color[o] = "gray"
       /\ \A o \in All : color[o] = "gray" =>
            InList(o) \/ o \in Strings \/ (o \in Upvals /\ open[o] # nil)

GInv == GTypes /\ GoodClosed /\ Leftovers /\ Waiting /\ Kinds /\ GrayLists /\ BlackNotToWhite

--------------------------------------------------------------------------------
(* Closure: the least set that contains S and what it leads to *)

\* S and what one step leads to; the sets that no step leads out of.
Further(S, edges) == S \cup UNION {edges[o] : o \in S}
Closed(X, edges) == \A o \in X : edges[o] \subseteq X

IsFrom(from, edges) ==
  from = [X \in SUBSET All |->
           LET further == X \cup UNION {edges[o] : o \in X}
           IN IF further = X THEN X ELSE from[further]]

\* What every closed set that contains X has.
Least(X, edges) == {o \in All : \A Z \in SUBSET All : X \subseteq Z /\ Closed(Z, edges) => o \in Z}

LEMMA LeastFacts ==
  ASSUME NEW edges \in [All -> SUBSET All], NEW X \in SUBSET All
  PROVE  /\ Further(X, edges) \in SUBSET All
         /\ Further(X, edges) = X => Least(X, edges) = X
         /\ Least(X, edges) = Least(Further(X, edges), edges)
         /\ X \subseteq Least(X, edges) /\ Closed(Least(X, edges), edges)
         /\ Least(X, edges) \in SUBSET All
<1>1. Further(X, edges) \in SUBSET All /\ X \subseteq Further(X, edges)
  BY DEF Further
<1>2. Further(X, edges) = X => Closed(X, edges)
  BY DEF Further, Closed
<1>3. Further(X, edges) = X => Least(X, edges) = X
  BY <1>2 DEF Least
<1>4. \A Z \in SUBSET All : Closed(Z, edges) => (X \subseteq Z <=> Further(X, edges) \subseteq Z)
  BY DEF Further, Closed
<1>5. Least(X, edges) = Least(Further(X, edges), edges)
  BY <1>4 DEF Least
<1>6. X \subseteq Least(X, edges) /\ Least(X, edges) \in SUBSET All
  BY DEF Least
<1>7. Closed(Least(X, edges), edges)
  <2>. SUFFICES ASSUME NEW o \in Least(X, edges), NEW x \in edges[o], NEW Z \in SUBSET All,
                       X \subseteq Z, Closed(Z, edges)
                PROVE  x \in Z
    BY <1>6 DEF Closed, Least
  <2>1. o \in Z
    BY DEF Least
  <2>. QED
    BY <2>1 DEF Closed
<1>. QED
  BY <1>1, <1>3, <1>5, <1>6, <1>7

LEMMA FromExists ==
  ASSUME NEW edges \in [All -> SUBSET All]
  PROVE  \E from : IsFrom(from, edges)
<1>. DEFINE g == [X \in SUBSET All |-> Least(X, edges)]
<1>1. \A X \in SUBSET All :
        g[X] = IF Further(X, edges) = X THEN X ELSE g[Further(X, edges)]
  BY LeastFacts
<1>2. g = [X \in SUBSET All |-> IF Further(X, edges) = X THEN X ELSE g[Further(X, edges)]]
  BY <1>1
<1>3. IsFrom(g, edges)
  BY <1>2 DEF IsFrom, Further
<1>. QED
  BY <1>3

LEMMA HeapFinite == IsFiniteSet(All)
BY LuaGCAssumption, FS_AddElement DEF All

\* A function that grows its argument until nothing is new ends at the least closed
\* set: a set with the fewest objects left for which it did not would grow.
LEMMA FromIsLeast ==
  ASSUME NEW edges \in [All -> SUBSET All], NEW from, IsFrom(from, edges),
         NEW S \in SUBSET All
  PROVE  from[S] = Least(S, edges)
<1>. DEFINE Bad == {X \in SUBSET All : from[X] # Least(X, edges)}
            Left(X) == Cardinality(All \ X)
<1>1. \A X \in SUBSET All :
        from[X] = IF Further(X, edges) = X THEN X ELSE from[Further(X, edges)]
  BY DEF IsFrom, Further
<1>2. SUFFICES ASSUME Bad # {} PROVE FALSE
  OBVIOUS
<1>3. \A X \in SUBSET All : Left(X) \in Nat
  BY HeapFinite, FS_Difference, FS_CardinalityType
<1>4. PICK X \in Bad : \A Y \in Bad : Left(X) <= Left(Y)
  <2>. DEFINE T == {Left(Y) : Y \in Bad}
  <2>. HIDE DEF Left
  <2>1. T \subseteq Nat /\ T # {}
    BY <1>2, <1>3
  <2>2. PICK m \in T : \A k \in T : m <= k
    <3>. HIDE DEF T
    <3>. QED
      BY <2>1, LeastNumber
  <2>. QED
    BY <2>2
<1>. DEFINE Y == Further(X, edges)
<1>5. X \in SUBSET All /\ from[X] # Least(X, edges) /\ Y \in SUBSET All /\ X \subseteq Y
  BY <1>4, LeastFacts DEF Further
<1>6. Y # X
  BY <1>1, <1>5, LeastFacts
<1>7. from[Y] # Least(Y, edges)
  BY <1>1, <1>5, <1>6, LeastFacts
<1>8. Left(X) <= Left(Y)
  BY <1>4, <1>5, <1>7
<1>9. All \ Y \subseteq All \ X /\ All \ Y # All \ X
  BY <1>5, <1>6
<1>10. Left(Y) <= Left(X) /\ Left(Y) # Left(X)
  BY <1>9, HeapFinite, FS_Difference, FS_Subset
<1>11. Left(X) \in Nat /\ Left(Y) \in Nat
  BY <1>3, <1>5
<1>. HIDE DEF Left, Y
<1>. QED
  BY <1>8, <1>10, <1>11

\* What Closure is: it contains S and what it leads to, and nothing more.
LEMMA ClosureFacts ==
  ASSUME NEW S \in SUBSET All, NEW edges \in [All -> SUBSET All]
  PROVE  /\ Closure(S, edges) \in SUBSET All /\ S \subseteq Closure(S, edges)
         /\ \A o \in Closure(S, edges) : edges[o] \subseteq Closure(S, edges)
         /\ \A X \in SUBSET All :
              S \subseteq X /\ (\A o \in X : edges[o] \subseteq X) => Closure(S, edges) \subseteq X
<1>. DEFINE f == CHOOSE from :
              from = [X \in SUBSET All |->
                       LET further == X \cup UNION {edges[o] : o \in X}
                       IN IF further = X THEN X ELSE from[further]]
<1>1. IsFrom(f, edges)
  BY FromExists DEF IsFrom
<1>2. Closure(S, edges) = f[S]
  BY DEF Closure
<1>. HIDE DEF f
<1>3. Closure(S, edges) = Least(S, edges)
  BY <1>1, <1>2, FromIsLeast
<1>. QED
  BY <1>3, LeastFacts DEF Least, Closed

--------------------------------------------------------------------------------
(* Kinds of objects and what they refer to *)

LEMMA KindFacts ==
  /\ All = Objects \cup {main} /\ main \notin Objects /\ number \notin All /\ nil \notin All
  /\ Weak \subseteq Tables /\ Weak \cap Threads = {} /\ Weak \cap Strings = {}
  /\ Weak \cap (Udata \cup Upvals \cup Functions) = {}
  /\ Listed \subseteq All /\ Threads \subseteq Listed /\ Weak \subseteq Listed /\ Tables \subseteq Objects
  /\ Listed \cap (Strings \cup Upvals \cup Udata) = {} /\ Tables \cap Threads = {}
  /\ Strings \cap (Upvals \cup Udata \cup Tables \cup Threads \cup Functions) = {}
  /\ Upvals \cap (Udata \cup Tables \cup Threads \cup Functions) = {}
  /\ Udata \cap (Tables \cup Threads \cup Functions) = {}
  /\ Functions \cap (Tables \cup Threads) = {}
  /\ Strings \cup Upvals \cup Udata \cup Functions \cup Coroutines \subseteq Objects
  /\ Threads = Coroutines \cup {main} /\ Listed = Tables \cup Functions \cup Threads
  /\ All = Listed \cup Strings \cup Upvals \cup Udata
BY LuaGCAssumption DEF All, Objects, Threads, Weak, Listed

LEMMA OtherWhite ==
  ASSUME currentwhite \in White
  PROVE  otherwhite \in White /\ otherwhite # currentwhite /\ White = {currentwhite, otherwhite}
<1>1. \E w \in White : w # currentwhite
  BY DEF White
<1>2. otherwhite \in White /\ otherwhite # currentwhite
  BY <1>1 DEF otherwhite
<1>. QED
  BY <1>2 DEF White

\* A table that is not weak marks all it refers to; a weak one, or a string, less.
LEMMA MarksFacts ==
  ASSUME GTypes, NEW o \in All
  PROVE  /\ Refs(o) \in SUBSET Objects /\ Marks(o) \in SUBSET Objects /\ Marks(o) \subseteq Refs(o)
         /\ o \notin Weak \cup Strings => Marks(o) = Refs(o)
         /\ o \in Strings => Marks(o) = {}
<1>1. CASE o \in Tables
  <2>1. \A e \in entry[o] : /\ e = << e[1], e[2] >> /\ e[1] \in Objects \cup {number}
                           /\ e[2] \in Objects /\ e[2] # number
    <3>1. entry[o] \subseteq (Objects \cup {number}) \X Objects
      BY <1>1 DEF GTypes
    <3>. QED
      BY <3>1, KindFacts
  <2>2. Refs(o) = UNION {{e[1], e[2]} \ {number} : e \in entry[o]} /\ Marks(o) = Strong(o)
    <3>1. o \notin Strings /\ o \notin Upvals
      BY <1>1, KindFacts
    <3>. QED
      BY <1>1, <3>1 DEF Refs, Marks
  <2>3. Refs(o) \in SUBSET Objects
    BY <2>1, <2>2
  <2>4. \A x : x \in Strong(o) <=>
           \E e \in entry[o] : (o \notin WeakKey /\ x = e[1] /\ x # number)
                               \/ (o \notin WeakValue /\ x = e[2])
    BY DEF Strong
  <2>5. \A x : x \in Refs(o) <=> \E e \in entry[o] : (x = e[1] \/ x = e[2]) /\ x # number
    BY <2>2
  <2>6. Strong(o) \subseteq Refs(o)
    BY <2>1, <2>4, <2>5
  <2>7. o \notin Weak => Refs(o) \subseteq Strong(o)
    BY <2>1, <2>4, <2>5 DEF Weak
  <2>8. o \notin Strings
    BY <1>1, KindFacts
  <2>. QED
    BY <2>2, <2>3, <2>6, <2>7, <2>8
<1>2. CASE o \in Upvals
  <2>1. Refs(o) = Value(o) /\ Marks(o) = Value(o) /\ o \notin Strings
    BY <1>2, KindFacts DEF Refs, Marks
  <2>2. Value(o) \in SUBSET Objects
    <3>1. open[o] = nil \/ open[o] \in All \ Tables
      BY <1>2, KindFacts DEF GTypes
    <3>2. o \in All \ Tables
      BY <1>2, KindFacts
    <3>. QED
      BY <3>1, <3>2 DEF Value, GTypes
  <2>. QED
    BY <2>1, <2>2
<1>3. CASE o \notin Tables \cup Upvals
  <2>1. Refs(o) = holds[o] /\ holds[o] \in SUBSET Objects
    BY <1>3 DEF Refs, GTypes
  <2>2. IF o \in Strings THEN Marks(o) = {} ELSE Marks(o) = holds[o]
    BY <1>3 DEF Marks
  <2>. QED
    BY <2>1, <2>2
<1>. QED
  BY <1>1, <1>2, <1>3

--------------------------------------------------------------------------------
(* Marks *)

MT == [color : [All -> Colors], gray : SUBSET Listed, grayagain : SUBSET (Listed \ Weak),
       weak : SUBSET Weak]
Whites(m) == {o \in All : m.color[o] \in White}
Found(m, n) == Whites(m) \ Whites(n)

\* What marking does: white objects are found, and everything an object that is not
\* put into a list refers to.
Marking(m, n) ==
  /\ n \in MT /\ n.grayagain = m.grayagain /\ n.weak = m.weak
  /\ Whites(n) \subseteq Whites(m) /\ n.gray = m.gray \cup (Listed \cap Found(m, n))
  /\ \A o \in All : o \notin Found(m, n) => n.color[o] = m.color[o]
  /\ \A o \in Found(m, n) : n.color[o] = IF o \in Listed THEN "gray" ELSE Traversed(o)
  /\ \A o \in Found(m, n) \ Listed : Marks(o) \cap Whites(n) = {}

LEMMA TraversedColor == ASSUME NEW o PROVE Traversed(o) \in {"gray", "black"}
BY DEF Traversed

LEMMA MarkFacts ==
  ASSUME GTypes, NEW m \in MT, NEW S \in SUBSET All
  PROVE  Marking(m, mark(m, S)) /\ S \cap Whites(mark(m, S)) = {}
<1>. DEFINE white(X) == {o \in X : m.color[o] \in White}
            edges == [o \in All |-> IF o \in Listed THEN {} ELSE white(Marks(o))]
            new == Closure(white(S), edges)
            n == mark(m, S)
<1>1. n = [m EXCEPT !.color = [o \in All |-> IF o \notin new THEN @[o]
                                        ELSE IF o \in Listed THEN "gray" ELSE Traversed(o)],
                    !.gray = @ \cup (new \cap Listed)]
  BY DEF mark
<1>2. \A o \in All : Marks(o) \in SUBSET All
  BY MarksFacts, KindFacts
<1>3. edges \in [All -> SUBSET All] /\ white(S) \in SUBSET All
  BY <1>2
<1>4. \A o \in All : edges[o] \subseteq Whites(m)
  BY <1>2 DEF Whites
<1>5. /\ new \in SUBSET All /\ white(S) \subseteq new
      /\ \A o \in new : edges[o] \subseteq new /\ new \subseteq Whites(m)
  <2>1. white(S) \subseteq Whites(m) /\ Whites(m) \in SUBSET All
    BY DEF Whites
  <2>. HIDE DEF edges, white
  <2>. QED
    BY <1>3, <1>4, <2>1, ClosureFacts
<1>6. new \subseteq Whites(m)
  <2>1. white(S) \subseteq Whites(m) /\ Whites(m) \in SUBSET All
    BY DEF Whites
  <2>. HIDE DEF edges, white
  <2>. QED
    BY <1>3, <1>4, <2>1, ClosureFacts
<1>7. \A o \in new \ Listed : white(Marks(o)) \subseteq new
  BY <1>5
<1>. HIDE DEF new, edges
<1>8. /\ m.color \in [All -> Colors] /\ m.gray \in SUBSET Listed
      /\ m.grayagain \in SUBSET (Listed \ Weak) /\ m.weak \in SUBSET Weak
      /\ m = [color |-> m.color, gray |-> m.gray, grayagain |-> m.grayagain, weak |-> m.weak]
  BY DEF MT
<1>9. /\ n.color = [o \in All |-> IF o \notin new THEN m.color[o]
                                 ELSE IF o \in Listed THEN "gray" ELSE Traversed(o)]
      /\ n.gray = m.gray \cup (new \cap Listed) /\ n.grayagain = m.grayagain /\ n.weak = m.weak
      /\ n = [color |-> n.color, gray |-> n.gray, grayagain |-> n.grayagain, weak |-> n.weak]
  BY <1>1, <1>8
<1>. HIDE DEF n
<1>10. \A o \in All : n.color[o] = IF o \notin new THEN m.color[o]
                                  ELSE IF o \in Listed THEN "gray" ELSE Traversed(o)
  BY <1>9
<1>11. Whites(n) = Whites(m) \ new
  BY <1>10, TraversedColor DEF Whites, White
<1>12. Found(m, n) = new
  BY <1>6, <1>11 DEF Found
<1>13. n \in MT
  <2>1. n.color \in [All -> Colors]
    BY <1>8, <1>9, TraversedColor DEF Colors
  <2>2. n.gray \in SUBSET Listed
    BY <1>8, <1>9
  <2>. QED
    BY <1>8, <1>9, <2>1, <2>2 DEF MT
<1>14. \A o \in new \ Listed : Marks(o) \cap Whites(n) = {}
  BY <1>5, <1>7, <1>11 DEF Whites
<1>15. S \cap Whites(n) = {}
  BY <1>5, <1>11 DEF Whites
<1>16. Marking(m, n)
  <2>1. Whites(n) \subseteq Whites(m) /\ n.gray = m.gray \cup (Listed \cap Found(m, n))
    BY <1>9, <1>11, <1>12
  <2>2. /\ \A o \in All : o \notin Found(m, n) => n.color[o] = m.color[o]
        /\ \A o \in Found(m, n) : n.color[o] = IF o \in Listed THEN "gray" ELSE Traversed(o)
    BY <1>5, <1>10, <1>12
  <2>3. \A o \in Found(m, n) \ Listed : Marks(o) \cap Whites(n) = {}
    BY <1>12, <1>14
  <2>. QED
    BY ONLY <1>9, <1>13, <2>1, <2>2, <2>3 DEF Marking
<1>. QED
  BY <1>15, <1>16 DEF n

LEMMA TraverseFacts ==
  ASSUME NEW m \in MT, NEW S \in SUBSET All
  PROVE  LET n == Traverse(m, S) IN
         /\ n \in MT /\ n.gray = m.gray \ S
         /\ n.weak = m.weak \cup (S \cap Weak) /\ n.grayagain = m.grayagain \cup (S \cap Threads)
         /\ \A o \in All : n.color[o] = IF o \in S THEN Traversed(o) ELSE m.color[o]
<1>. DEFINE n == Traverse(m, S)
<1>1. /\ m.color \in [All -> Colors] /\ m.gray \in SUBSET Listed
      /\ m.grayagain \in SUBSET (Listed \ Weak) /\ m.weak \in SUBSET Weak
      /\ m = [color |-> m.color, gray |-> m.gray, grayagain |-> m.grayagain, weak |-> m.weak]
  BY DEF MT
<1>2. /\ n.color = [o \in All |-> IF o \in S THEN Traversed(o) ELSE m.color[o]]
      /\ n.gray = m.gray \ S /\ n.grayagain = m.grayagain \cup (S \cap Threads)
      /\ n.weak = m.weak \cup (S \cap Weak)
      /\ n = [color |-> n.color, gray |-> n.gray, grayagain |-> n.grayagain, weak |-> n.weak]
  <2>1. n = [m EXCEPT !.color = [o \in All |-> IF o \in S THEN Traversed(o) ELSE @[o]],
                      !.gray = @ \ S, !.weak = @ \cup (S \cap Weak),
                      !.grayagain = @ \cup (S \cap Threads)]
    BY DEF Traverse
  <2>. QED
    BY <1>1, <2>1
<1>3. [o \in All |-> IF o \in S THEN Traversed(o) ELSE m.color[o]] \in [All -> Colors]
  BY <1>1, TraversedColor DEF Colors
<1>4. S \cap Threads \in SUBSET (Listed \ Weak)
  BY KindFacts
<1>5. n \in MT
  BY <1>1, <1>2, <1>3, <1>4 DEF MT
<1>6. \A o \in All : n.color[o] = IF o \in S THEN Traversed(o) ELSE m.color[o]
  BY <1>2
<1>. QED
  BY <1>2, <1>5, <1>6

\* What propagatemark does until nothing is gray: what was gray and all that is found
\* is traversed, and leads to nothing white.
Propagated(m, n) == m.gray \cup Found(m, n)

Propagating(m, n) ==
  /\ n \in MT /\ n.gray = {} /\ n.weak = m.weak \cup (Propagated(m, n) \cap Weak)
  /\ n.grayagain = m.grayagain \cup (Propagated(m, n) \cap Threads)
  /\ Whites(n) \subseteq Whites(m)
  /\ \A o \in All : n.color[o] = IF o \in Propagated(m, n) THEN Traversed(o) ELSE m.color[o]
  /\ \A o \in Propagated(m, n) : Marks(o) \cap Whites(n) = {}

LEMMA PropagateFacts ==
  ASSUME GTypes, NEW m \in MT
  PROVE  Propagating(m, propagateall(m))
<1>. DEFINE edges == [o \in All |-> {x \in Marks(o) : m.color[x] \in White}]
            S == Closure(m.gray, edges)
            n == propagateall(m)
<1>1. \A o \in All : Marks(o) \in SUBSET All
  BY MarksFacts, KindFacts
<1>2. edges \in [All -> SUBSET All]
  BY <1>1
<1>3. \A o \in All : edges[o] \subseteq Whites(m)
  BY <1>1 DEF Whites
<1>4. m.gray \in SUBSET All
  BY KindFacts DEF MT
<1>5. S \in SUBSET All /\ m.gray \subseteq S /\ \A o \in S : edges[o] \subseteq S
  <2>. HIDE DEF edges
  <2>. QED
    BY <1>2, <1>4, ClosureFacts
<1>6. S \subseteq m.gray \cup Whites(m)
  <2>. DEFINE Y == m.gray \cup Whites(m)
  <2>1. Y \in SUBSET All /\ m.gray \subseteq Y /\ \A o \in Y : edges[o] \subseteq Y
    BY <1>3, <1>4 DEF Whites
  <2>. HIDE DEF edges, Y
  <2>2. S \subseteq Y
    BY <1>2, <1>4, <2>1, ClosureFacts
  <2>. QED
    BY <2>2 DEF Y
<1>7. \A o \in S : {x \in Marks(o) : m.color[x] \in White} \subseteq S
  BY <1>5
<1>8. n = Traverse(m, S)
  BY DEF propagateall
<1>. HIDE DEF S, n, edges
<1>9. /\ n \in MT /\ n.gray = m.gray \ S
      /\ n.weak = m.weak \cup (S \cap Weak) /\ n.grayagain = m.grayagain \cup (S \cap Threads)
      /\ \A o \in All : n.color[o] = IF o \in S THEN Traversed(o) ELSE m.color[o]
  BY <1>5, <1>8, TraverseFacts
<1>10. Whites(n) = Whites(m) \ S
  BY <1>9, TraversedColor DEF Whites, White
<1>11. Propagated(m, n) = S
  BY <1>5, <1>6, <1>10 DEF Propagated, Found
<1>12. \A o \in S : Marks(o) \cap Whites(n) = {}
  BY <1>7, <1>10 DEF Whites
<1>13. n.gray = {} /\ Whites(n) \subseteq Whites(m)
  BY <1>5, <1>9, <1>10
<1>. QED
  BY ONLY <1>9, <1>11, <1>12, <1>13 DEF Propagating, n

\* What holds of every mark on the way: what is free stays free, nothing that is
\* never black becomes black, what is in a list is found, and a weak table that is
\* found is in one.
Alive(m, o) == m.color[o] \notin White \cup {"free"}
MarkBasic(m) ==
  /\ m \in MT
  /\ \A o \in All : m.color[o] = "free" <=> color[o] = "free"
  /\ \A o \in All : m.color[o] \in White => m.color[o] = currentwhite
  /\ \A o \in m.gray \cup m.grayagain \cup m.weak : Alive(m, o)
  /\ \A t \in Weak : Alive(m, t) => t \in m.gray \cup m.weak

NeverBlack(m, X) ==
  \A o \in All \ X : m.color[o] = "black" => color[o] = "black" \/ Traversed(o) = "black"

MarkSound(m) == MarkBasic(m) /\ NeverBlack(m, {})

\* Outside X and R, what is found has all it marks found.
Covered(m, R, X) == \A o \in All \ X : Alive(m, o) => o \in R \/ Marks(o) \cap Whites(m) = {}

LEMMA AliveColor ==
  ASSUME NEW m \in MT, NEW o \in All
  PROVE  /\ Alive(m, o) <=> m.color[o] \in {"gray", "black"}
         /\ Alive(m, o) => o \notin Whites(m)
         /\ o \notin Whites(m) => Alive(m, o) \/ m.color[o] = "free"
BY DEF MT, Colors, White, Alive, Whites

LEMMA MarkBasicMark ==
  ASSUME GTypes, NEW m, MarkBasic(m), NEW S \in SUBSET All
  PROVE  MarkBasic(mark(m, S)) /\ \A X : NeverBlack(m, X) => NeverBlack(mark(m, S), X)
<1>. DEFINE n == mark(m, S)
<1>1. m \in MT
  BY DEF MarkBasic
<1>2. Marking(m, n)
  BY <1>1, MarkFacts
<1>. HIDE DEF n
<1>3. n \in MT /\ n.grayagain = m.grayagain /\ n.weak = m.weak
  BY <1>2 DEF Marking
<1>4. /\ \A o \in All : o \notin Found(m, n) => n.color[o] = m.color[o]
      /\ \A o \in Found(m, n) : n.color[o] = IF o \in Listed THEN "gray" ELSE Traversed(o)
      /\ n.gray = m.gray \cup (Listed \cap Found(m, n))
  BY <1>2 DEF Marking
<1>5. \A o \in Found(m, n) : o \in All /\ m.color[o] \in White /\ n.color[o] \in {"gray", "black"}
  BY <1>4, TraversedColor DEF Found, Whites
<1>6. \A o \in All : n.color[o] = "free" <=> color[o] = "free"
  BY <1>4, <1>5 DEF MarkBasic, White
<1>7. \A o \in All : n.color[o] \in White => n.color[o] = currentwhite
  BY <1>4, <1>5 DEF MarkBasic, White
<1>8. \A X : NeverBlack(m, X) => NeverBlack(n, X)
  BY <1>4 DEF NeverBlack
<1>9. \A o \in All : Alive(m, o) => Alive(n, o)
  BY <1>4, <1>5 DEF Alive, White
<1>10. m.gray \cup m.grayagain \cup m.weak \subseteq All
  BY <1>1, KindFacts DEF MT
<1>11. \A o \in n.gray \cup n.grayagain \cup n.weak : Alive(n, o)
  <2>1. \A o \in Found(m, n) : Alive(n, o)
    BY <1>5 DEF Alive, White
  <2>2. \A o \in m.gray \cup m.grayagain \cup m.weak : Alive(n, o)
    BY <1>9, <1>10 DEF MarkBasic
  <2>. QED
    BY <1>3, <1>4, <2>1, <2>2
<1>12. \A t \in Weak : Alive(n, t) => t \in n.gray \cup n.weak
  <2>. SUFFICES ASSUME NEW t \in Weak, Alive(n, t) PROVE t \in n.gray \cup n.weak
    OBVIOUS
  <2>1. t \in All /\ t \in Listed
    BY KindFacts
  <2>2. CASE t \in Found(m, n)
    BY <1>4, <2>1, <2>2
  <2>3. CASE t \notin Found(m, n)
    <3>1. Alive(m, t)
      BY <1>4, <2>1, <2>3 DEF Alive
    <3>. QED
      BY <1>3, <1>4, <3>1 DEF MarkBasic
  <2>. QED
    BY <2>2, <2>3
<1>13. MarkBasic(n)
  BY ONLY <1>3, <1>6, <1>7, <1>11, <1>12 DEF MarkBasic
<1>. QED
  BY <1>8, <1>13 DEF n

LEMMA MarkSoundMark ==
  ASSUME GTypes, NEW m, MarkSound(m), NEW S \in SUBSET All
  PROVE  MarkSound(mark(m, S))
BY MarkBasicMark DEF MarkSound

LEMMA MarkSoundPropagate ==
  ASSUME GTypes, NEW m, MarkSound(m)
  PROVE  MarkSound(propagateall(m))
<1>. DEFINE n == propagateall(m)
<1>1. m \in MT
  BY DEF MarkSound, MarkBasic, NeverBlack
<1>2. Propagating(m, n)
  BY <1>1, PropagateFacts
<1>. HIDE DEF n
<1>3. /\ n \in MT /\ n.gray = {} /\ n.weak = m.weak \cup (Propagated(m, n) \cap Weak)
      /\ n.grayagain = m.grayagain \cup (Propagated(m, n) \cap Threads)
      /\ \A o \in All : n.color[o] = IF o \in Propagated(m, n) THEN Traversed(o) ELSE m.color[o]
  BY <1>2 DEF Propagating
<1>4. m.gray \cup m.grayagain \cup m.weak \subseteq All
  BY <1>1, KindFacts DEF MT
<1>5. \A o \in Propagated(m, n) : o \in All /\ m.color[o] # "free" /\ n.color[o] \in {"gray", "black"}
  <2>1. \A o \in Found(m, n) : o \in All /\ m.color[o] # "free"
    BY DEF Found, Whites, White
  <2>2. \A o \in m.gray : o \in All /\ m.color[o] # "free"
    BY <1>4 DEF MarkSound, MarkBasic, NeverBlack, Alive
  <2>. QED
    BY <1>3, <2>1, <2>2, TraversedColor DEF Propagated
<1>6. \A o \in All : n.color[o] = "free" <=> color[o] = "free"
  BY <1>3, <1>5 DEF MarkSound, MarkBasic, NeverBlack
<1>7. \A o \in All : n.color[o] \in White => n.color[o] = currentwhite
  BY <1>3, <1>5 DEF MarkSound, MarkBasic, NeverBlack, White
<1>8. \A o \in All : n.color[o] = "black" => color[o] = "black" \/ Traversed(o) = "black"
  BY <1>3 DEF MarkSound, MarkBasic, NeverBlack
<1>9. \A o \in All : Alive(m, o) => Alive(n, o)
  BY <1>3, <1>5 DEF Alive, White
<1>10. \A o \in Propagated(m, n) : Alive(n, o)
  BY <1>5 DEF Alive, White
<1>11. \A o \in n.gray \cup n.grayagain \cup n.weak : Alive(n, o)
  <2>1. \A o \in m.grayagain \cup m.weak : Alive(n, o)
    BY <1>4, <1>9 DEF MarkSound, MarkBasic, NeverBlack
  <2>. QED
    BY <1>3, <1>10, <2>1
<1>12. \A t \in Weak : Alive(n, t) => t \in n.gray \cup n.weak
  <2>. SUFFICES ASSUME NEW t \in Weak, Alive(n, t), t \notin Propagated(m, n) PROVE t \in n.weak
    BY <1>3
  <2>1. t \in All
    BY KindFacts
  <2>2. Alive(m, t)
    BY <1>3, <2>1 DEF Alive
  <2>3. t \in m.gray \cup m.weak
    BY <2>2 DEF MarkSound, MarkBasic, NeverBlack
  <2>. QED
    BY <1>3, <2>3 DEF Propagated
<1>13. MarkSound(n)
  BY ONLY <1>3, <1>6, <1>7, <1>8, <1>11, <1>12 DEF MarkSound, MarkBasic, NeverBlack
<1>. QED
  BY <1>13 DEF n

\* Marking covers what it finds, up to the gray list; propagating, what was in it.
LEMMA CoveredMark ==
  ASSUME GTypes, NEW m, MarkSound(m), NEW S \in SUBSET All, NEW R, NEW X, Covered(m, R, X)
  PROVE  LET n == mark(m, S) IN Covered(n, R \cup n.gray, X)
<1>. DEFINE n == mark(m, S)
<1>1. m \in MT
  BY DEF MarkSound, MarkBasic, NeverBlack
<1>2. Marking(m, n)
  BY <1>1, MarkFacts
<1>. HIDE DEF n
<1>3. SUFFICES ASSUME NEW o \in All \ X, Alive(n, o), o \notin R \cup n.gray
               PROVE  Marks(o) \cap Whites(n) = {}
  BY DEF Covered, n
<1>4. CASE o \in Found(m, n)
  BY <1>2, <1>3, <1>4 DEF Marking
<1>5. CASE o \notin Found(m, n)
  <2>1. Alive(m, o)
    BY <1>2, <1>3, <1>5 DEF Marking, Alive
  <2>2. Marks(o) \cap Whites(m) = {}
    BY <1>3, <2>1 DEF Covered
  <2>. QED
    BY <1>2, <2>2 DEF Marking
<1>. QED
  BY <1>4, <1>5

LEMMA CoveredPropagate ==
  ASSUME GTypes, NEW m, MarkSound(m), NEW R, NEW X, Covered(m, R \cup m.gray, X)
  PROVE  Covered(propagateall(m), R, X)
<1>. DEFINE n == propagateall(m)
<1>1. m \in MT
  BY DEF MarkSound, MarkBasic, NeverBlack
<1>2. Propagating(m, n)
  BY <1>1, PropagateFacts
<1>. HIDE DEF n
<1>3. SUFFICES ASSUME NEW o \in All \ X, Alive(n, o), o \notin R
               PROVE  Marks(o) \cap Whites(n) = {}
  BY DEF Covered, n
<1>4. CASE o \in Propagated(m, n)
  BY <1>2, <1>4 DEF Propagating
<1>5. CASE o \notin Propagated(m, n)
  <2>1. Alive(m, o) /\ o \notin m.gray
    BY <1>2, <1>3, <1>5 DEF Propagating, Propagated, Alive
  <2>2. Marks(o) \cap Whites(m) = {}
    BY <1>3, <2>1 DEF Covered
  <2>. QED
    BY <1>2, <2>2 DEF Propagating
<1>. QED
  BY <1>4, <1>5

--------------------------------------------------------------------------------
(* The atomic step *)

\* What the atomic step finds: the marks after its three rounds, and after the
\* userdata that wait for their finalizers.
Rounds == Remark(propagateall(remarkupvals(Mark)))
Waits == tmudata \cup (separateudata(Rounds) \cap HasGC)
Final == marktmu(Rounds, Waits)

LEMMA MarkIsSound ==
  ASSUME GInv, gcstate = "propagate"
  PROVE  MarkSound(Mark)
<1>1. Mark \in MT
  BY DEF GInv, GTypes, Mark, MT, MarkType
<1>2. \A o \in All : color[o] # otherwhite
  BY DEF GInv, Leftovers, ToSweep
<1>3. White = {currentwhite, otherwhite}
  BY OtherWhite DEF GInv, GTypes
<1>4. \A o \in All : color[o] \in White => color[o] = currentwhite
  BY <1>2, <1>3
<1>5. \A o \in All : InList(o) => Alive(Mark, o)
  BY DEF GInv, GrayLists, Alive, Mark, White
<1>6. \A t \in Weak : Alive(Mark, t) => t \in Mark.gray \cup Mark.weak
  <2>. SUFFICES ASSUME NEW t \in Weak, Alive(Mark, t) PROVE t \in marked.gray \cup marked.weak
    BY DEF Mark
  <2>1. t \in All /\ t \notin Strings /\ t \notin Upvals
    BY KindFacts
  <2>2. color[t] \in {"gray", "black"}
    BY <1>1, <2>1, AliveColor DEF Mark
  <2>3. color[t] = "gray"
    BY <2>2 DEF GInv, Kinds
  <2>4. InList(t)
    BY <2>1, <2>3 DEF GInv, GrayLists
  <2>. QED
    BY <2>4 DEF InList, GInv, GTypes, MarkType
<1>7. Mark.gray \cup Mark.grayagain \cup Mark.weak \subseteq All
  BY <1>1, KindFacts DEF MT
<1>8. \A o \in Mark.gray \cup Mark.grayagain \cup Mark.weak : Alive(Mark, o)
  BY <1>5, <1>7 DEF InList, Mark
<1>9. \A o \in All : Mark.color[o] = color[o]
  BY DEF Mark
<1>. QED
  BY <1>1, <1>4, <1>6, <1>8, <1>9 DEF MarkSound, MarkBasic, NeverBlack

\* After the three rounds all that is found has all it marks found, but for what
\* waits for a finalizer from before.
LEMMA RoundsCover ==
  ASSUME GInv, gcstate = "propagate", marked.gray = {}
  PROVE  MarkSound(Rounds) /\ Covered(Rounds, {}, tmudata) /\ Rounds.gray = {}
         /\ ~(main \in Whites(Rounds))
<1>. DEFINE U == UNION {Value(uv) : uv \in {u \in Upvals : open[u] # nil /\ color[u] = "gray"}}
            m1 == mark(Mark, U)
            m2 == propagateall(m1)
            m3 == [m2 EXCEPT !.gray = @ \cup m2.weak, !.weak = {}]
            m4 == mark(m3, {main})
            m5 == propagateall(m4)
            m6 == [m5 EXCEPT !.gray = m5.grayagain, !.grayagain = {}]
            m7 == propagateall(m6)
<1>0. GTypes
  BY DEF GInv
<1>1. m7 = Rounds
  BY DEF Rounds, Remark, remarkupvals, Mark
<1>2. U \in SUBSET All
  <2>1. \A uv \in Upvals : uv \in All /\ Refs(uv) = Value(uv)
    BY KindFacts DEF Refs
  <2>2. \A uv \in Upvals : Value(uv) \subseteq All
    BY <1>0, <2>1, MarksFacts, KindFacts
  <2>. QED
    BY <2>2
<1>3. MarkSound(Mark)
  BY MarkIsSound
<1>4. \A o \in Upvals : color[o] = "gray" /\ open[o] # nil => Marks(o) \subseteq U
  <2>1. \A o \in Upvals : Marks(o) = Value(o)
    BY KindFacts DEF Marks
  <2>. QED
    BY <2>1
<1>. HIDE DEF U
<1>5. MarkSound(m1) /\ Marking(Mark, m1) /\ U \cap Whites(m1) = {}
  BY <1>0, <1>2, <1>3, MarkSoundMark, MarkFacts DEF MarkSound, MarkBasic, NeverBlack
<1>. HIDE DEF m1
<1>6. Covered(m1, m1.grayagain \cup m1.weak \cup m1.gray, tmudata)
  <2>. SUFFICES ASSUME NEW o \in All \ tmudata, Alive(m1, o),
                       o \notin m1.grayagain \cup m1.weak \cup m1.gray
                PROVE  Marks(o) \cap Whites(m1) = {}
    BY DEF Covered
  <2>1. CASE o \in Found(Mark, m1)
    BY <1>5, <2>1 DEF Marking
  <2>2. CASE o \notin Found(Mark, m1)
    <3>1. color[o] = m1.color[o]
      BY <1>5, <2>2 DEF Marking, Mark
    <3>2. color[o] \in {"gray", "black"}
      BY <1>5, <3>1, AliveColor DEF MarkSound, MarkBasic, NeverBlack
    <3>3. ~InList(o)
      BY <1>5 DEF Marking, Mark, InList
    <3>4. CASE color[o] = "black"
      <4>1. \A x \in Refs(o) : x \in All /\ color[x] \notin White
        BY <1>0, <3>4, MarksFacts, KindFacts DEF GInv, BlackNotToWhite
      <4>2. Marks(o) \cap Whites(Mark) = {}
        BY <1>0, <4>1, MarksFacts DEF Whites, Mark
      <4>. QED
        BY <1>5, <4>2 DEF Marking
    <3>5. CASE o \in Strings
      BY <1>0, <3>5, MarksFacts
    <3>6. CASE o \in Upvals /\ open[o] # nil /\ color[o] = "gray"
      BY <1>4, <1>5, <3>6
    <3>. QED
      BY <3>2, <3>3, <3>4, <3>5, <3>6 DEF GInv, GrayLists
  <2>. QED
    BY <2>1, <2>2
<1>7. MarkSound(m2) /\ Covered(m2, m1.grayagain \cup m1.weak, tmudata) /\ Propagating(m1, m2)
  BY <1>0, <1>5, <1>6, MarkSoundPropagate, CoveredPropagate, PropagateFacts DEF MarkSound, MarkBasic, NeverBlack
<1>. HIDE DEF m2
<1>8. Covered(m2, m2.grayagain \cup m2.weak, tmudata) /\ m2.gray = {}
  BY <1>7 DEF Covered, Propagating
<1>9. m3.color = m2.color /\ m3.gray = m2.weak /\ m3.weak = {} /\ m3.grayagain = m2.grayagain
      /\ m3 \in MT
  <2>1. m2 \in MT /\ m2.weak \in SUBSET Listed
    BY <1>7, KindFacts DEF MarkSound, MarkBasic, NeverBlack, MT
  <2>. QED
    BY <1>8, <2>1 DEF MT
<1>. HIDE DEF m3
<1>10. MarkSound(m3)
  BY <1>7, <1>8, <1>9 DEF MarkSound, MarkBasic, NeverBlack, Alive
<1>11. Covered(m3, m3.grayagain \cup m3.gray, tmudata)
  BY <1>8, <1>9 DEF Covered, Alive, Whites
<1>12. MarkSound(m4) /\ Marking(m3, m4) /\ {main} \cap Whites(m4) = {}
       /\ Covered(m4, m3.grayagain \cup m3.gray \cup m4.gray, tmudata)
  <2>1. {main} \in SUBSET All /\ m3 \in MT
    BY <1>9, KindFacts
  <2>2. MarkSound(m4)
    BY <1>0, <1>10, <2>1, MarkSoundMark
  <2>3. Marking(m3, m4) /\ {main} \cap Whites(m4) = {}
    BY <1>0, <2>1, MarkFacts
  <2>4. Covered(m4, m3.grayagain \cup m3.gray \cup m4.gray, tmudata)
    BY <1>0, <1>10, <1>11, <2>1, CoveredMark
  <2>. QED
    BY <2>2, <2>3, <2>4
<1>. HIDE DEF m4
<1>13. Covered(m4, m4.grayagain \cup m4.gray, tmudata)
  BY <1>12 DEF Covered, Marking
<1>14. MarkSound(m5) /\ Propagating(m4, m5) /\ Covered(m5, m4.grayagain, tmudata)
  BY <1>0, <1>12, <1>13, MarkSoundPropagate, PropagateFacts, CoveredPropagate DEF MarkSound, MarkBasic, NeverBlack
<1>. HIDE DEF m5
<1>15. Covered(m5, m5.grayagain, tmudata) /\ m5.gray = {} /\ main \notin Whites(m5)
  BY <1>12, <1>14 DEF Covered, Propagating
<1>16. m6.color = m5.color /\ m6.gray = m5.grayagain /\ m6.weak = m5.weak /\ m6.grayagain = {}
       /\ m6 \in MT
  <2>1. m5 \in MT /\ m5.grayagain \in SUBSET Listed
    BY <1>14 DEF MarkSound, MarkBasic, NeverBlack, MT
  <2>. QED
    BY <2>1 DEF MT
<1>. HIDE DEF m6
<1>17. MarkSound(m6)
  BY <1>14, <1>15, <1>16 DEF MarkSound, MarkBasic, NeverBlack, Alive
<1>18. Covered(m6, {} \cup m6.gray, tmudata) /\ main \notin Whites(m6)
  BY <1>15, <1>16 DEF Covered, Alive, Whites
<1>19. MarkSound(m7) /\ Covered(m7, {}, tmudata) /\ Propagating(m6, m7)
  BY <1>0, <1>17, <1>18, MarkSoundPropagate, CoveredPropagate, PropagateFacts DEF MarkSound, MarkBasic, NeverBlack
<1>20. m7.gray = {} /\ main \notin Whites(m7)
  BY <1>18, <1>19 DEF Propagating
<1>. QED
  BY <1>1, <1>19, <1>20

\* marktmu: what waits for its finalizer is found, and all it refers to; then nothing
\* that is found refers to a white object.
LEMMA FinalCovers ==
  ASSUME GInv, gcstate = "propagate", marked.gray = {}
  PROVE  /\ MarkSound(Final) /\ Covered(Final, {}, {}) /\ Final.gray = {}
         /\ Whites(Final) \subseteq Whites(Rounds) \ Waits /\ main \notin Whites(Final)
         /\ \A u \in Waits : Final.color[u] = "black"
<1>. DEFINE m0 == Rounds
            m1 == [m0 EXCEPT !.color = [o \in All |-> IF o \in Waits THEN currentwhite ELSE @[o]]]
            m2 == mark(m1, Waits)
            m3 == propagateall(m2)
<1>0. GTypes
  BY DEF GInv
<1>1. Final = m3
  BY DEF Final, marktmu
<1>2. /\ MarkSound(m0) /\ Covered(m0, {}, tmudata) /\ m0.gray = {} /\ main \notin Whites(m0)
      /\ m0 \in MT
  BY RoundsCover DEF MarkSound, MarkBasic, NeverBlack
<1>3. Waits \in SUBSET Udata /\ Waits \in SUBSET All /\ tmudata \subseteq Waits
  BY <1>0, KindFacts DEF Waits, separateudata, GTypes
<1>4. \A u \in Waits : color[u] # "free"
  <2>1. \A u \in tmudata : color[u] # "free"
    BY <1>0 DEF GInv, Waiting, GTypes, White
  <2>2. \A u \in separateudata(m0) : u \in All /\ m0.color[u] # "free"
    BY KindFacts DEF separateudata, White
  <2>3. \A u \in separateudata(m0) : color[u] # "free"
    BY <1>2, <2>2 DEF MarkSound, MarkBasic, NeverBlack
  <2>. QED
    BY <2>1, <2>3 DEF Waits
<1>. HIDE DEF m0
<1>5. /\ \A o \in All : m1.color[o] = IF o \in Waits THEN currentwhite ELSE m0.color[o]
      /\ m1.gray = {} /\ m1.weak = m0.weak /\ m1.grayagain = m0.grayagain /\ m1 \in MT
  <2>1. currentwhite \in Colors
    BY <1>0 DEF GTypes, Colors
  <2>2. m1.color = [o \in All |-> IF o \in Waits THEN currentwhite ELSE m0.color[o]]
    BY <1>2 DEF MT
  <2>3. [o \in All |-> IF o \in Waits THEN currentwhite ELSE m0.color[o]] \in [All -> Colors]
    BY <1>2, <2>1 DEF MT
  <2>. QED
    BY <1>2, <2>2, <2>3 DEF MT
<1>. HIDE DEF m1
<1>6. MarkSound(m1)
  <2>0. currentwhite \in White /\ "free" \notin White /\ "black" \notin White
    BY <1>0 DEF GTypes, White
  <2>1. \A o \in All : m1.color[o] = "free" <=> color[o] = "free"
    BY <1>2, <1>4, <1>5, <2>0 DEF MarkSound, MarkBasic, NeverBlack
  <2>2. \A o \in All : m1.color[o] \in White => m1.color[o] = currentwhite
    BY <1>2, <1>5 DEF MarkSound, MarkBasic, NeverBlack
  <2>3. \A o \in All : m1.color[o] = "black" => color[o] = "black" \/ Traversed(o) = "black"
    BY <1>2, <1>5, <2>0 DEF MarkSound, MarkBasic, NeverBlack
  <2>4. m0.grayagain \cup m0.weak \subseteq Listed /\ Listed \cap Waits = {} /\ Listed \subseteq All
    BY <1>2, <1>3, KindFacts DEF MT
  <2>5. \A o \in m1.gray \cup m1.grayagain \cup m1.weak : Alive(m1, o)
    <3>1. \A o \in Listed : Alive(m0, o) => Alive(m1, o)
      BY <1>5, <2>4 DEF Alive
    <3>2. \A o \in m0.grayagain \cup m0.weak : Alive(m0, o)
      BY <1>2 DEF MarkSound, MarkBasic, NeverBlack
    <3>. QED
      BY <1>5, <2>4, <3>1, <3>2
  <2>6. \A t \in Weak : Alive(m1, t) => t \in m1.gray \cup m1.weak
    <3>1. \A t \in Weak : t \in All /\ t \notin Waits
      BY <2>4, KindFacts
    <3>2. \A t \in Weak : Alive(m1, t) => Alive(m0, t)
      BY <1>5, <3>1 DEF Alive
    <3>. QED
      BY <1>2, <1>5, <3>2 DEF MarkSound, MarkBasic, NeverBlack
  <2>. QED
    BY <1>5, <2>1, <2>2, <2>3, <2>5, <2>6 DEF MarkSound, MarkBasic, NeverBlack
<1>7. MarkSound(m2) /\ Marking(m1, m2) /\ Waits \cap Whites(m2) = {}
  BY <1>0, <1>3, <1>5, <1>6, MarkSoundMark, MarkFacts
<1>. HIDE DEF m2
<1>8. Whites(m2) \subseteq Whites(m0) \ Waits
  BY <1>5, <1>7 DEF Marking, Whites
<1>9. \A u \in Waits : u \in Found(m1, m2)
  BY <1>0, <1>3, <1>5, <1>7 DEF Found, Whites, GTypes
<1>10. Covered(m2, {} \cup m2.gray, {})
  <2>. SUFFICES ASSUME NEW o \in All, Alive(m2, o), o \notin m2.gray
                PROVE  Marks(o) \cap Whites(m2) = {}
    BY DEF Covered
  <2>1. CASE o \in Found(m1, m2)
    BY <1>7, <2>1 DEF Marking
  <2>2. CASE o \notin Found(m1, m2)
    <3>1. o \notin Waits
      BY <1>9, <2>2
    <3>2. Alive(m0, o)
      BY <1>5, <1>7, <2>2, <3>1 DEF Marking, Alive
    <3>3. Marks(o) \cap Whites(m0) = {}
      BY <1>2, <1>3, <3>1, <3>2 DEF Covered
    <3>. QED
      BY <1>8, <3>3
  <2>. QED
    BY <2>1, <2>2
<1>11. \A u \in Waits : m2.color[u] = "black" /\ Traversed(u) = "black"
  <2>1. \A u \in Waits : u \notin Listed /\ u \notin Strings \cup Threads \cup Weak /\ u \notin Upvals
    BY <1>3, KindFacts
  <2>2. \A u \in Waits : Traversed(u) = "black"
    BY <2>1 DEF Traversed
  <2>. QED
    BY <1>7, <1>9, <2>1, <2>2 DEF Marking
<1>12. MarkSound(m3) /\ Covered(m3, {}, {}) /\ Propagating(m2, m3)
  BY <1>0, <1>7, <1>10, MarkSoundPropagate, CoveredPropagate, PropagateFacts DEF MarkSound, MarkBasic, NeverBlack
<1>. HIDE DEF m3
<1>13. \A u \in Waits : m3.color[u] = "black"
  BY <1>3, <1>11, <1>12 DEF Propagating
<1>14. Whites(m3) \subseteq Whites(m0) \ Waits /\ m3.gray = {} /\ main \notin Whites(m3)
  BY <1>2, <1>8, <1>12 DEF Propagating
<1>. QED
  BY <1>1, <1>12, <1>13, <1>14 DEF m0

Lost == finalized \cup separateudata(Rounds)
AtomicStep ==
  /\ color' = [o \in All |-> IF o \in StringsMet(Final, Lost) THEN "gray" ELSE Final.color[o]]
  /\ entry' = [t \in Tables |-> IF t \in Final.weak THEN {e \in entry[t] : ~Cleared(Final, Lost, e)}
                                ELSE entry[t]]
  /\ marked' = Lists(Final) /\ currentwhite' = otherwhite /\ sweepgc' = Swept(Waits)
  /\ gcstate' = "sweep" /\ tmudata' = Waits /\ finalized' = Lost
  /\ UNCHANGED << holds, open, full >>

\* All that is allocated and does not wait is in the list to sweep, or an open upvalue
\* of a thread in it.
LEMMA SweptIsAll ==
  ASSUME GInv, NEW tmu \in SUBSET Udata, NEW o \in All, color[o] # "free", o \notin tmu
  PROVE  \/ o \in Swept(tmu)
         \/ o \in Upvals /\ open[o] # nil /\ open[o] \in Swept(tmu)
<1>1. CASE o \in Upvals /\ open[o] # nil
  <2>1. open[o] \in Coroutines /\ color[open[o]] # "free"
    BY <1>1 DEF GInv, Kinds, GTypes
  <2>2. open[o] \in All /\ open[o] \notin tmu /\ open[o] \notin Upvals
    BY <2>1, KindFacts
  <2>3. open[o] \in Swept(tmu)
    BY <2>1, <2>2 DEF Swept, Allocated
  <2>. QED
    BY <1>1, <2>3
<1>2. CASE ~(o \in Upvals /\ open[o] # nil)
  BY <1>2 DEF Swept, Allocated
<1>. QED
  BY <1>1, <1>2

LEMMA AtomicParts == atomic => AtomicStep
BY DEF atomic, AtomicStep, Rounds, Waits, Lost, Final, Flipped

\* What holds of the parts of the heap after the atomic step, for its proof.
LEMMA AtomicKeeps ==
  ASSUME GInv, gcstate = "propagate", marked.gray = {}, AtomicStep
  PROVE  GInv'
<1>. DEFINE m == Final
<1>0. GTypes
  BY DEF GInv
<1>1. /\ MarkSound(m) /\ Covered(m, {}, {}) /\ m.gray = {} /\ m \in MT
      /\ Whites(m) \subseteq Whites(Rounds) \ Waits /\ main \notin Whites(m)
      /\ \A u \in Waits : m.color[u] = "black"
  BY FinalCovers DEF MarkSound, MarkBasic, NeverBlack
<1>. HIDE DEF m
<1>2. Waits \in SUBSET Udata /\ Lost \in SUBSET Udata
  BY <1>0, KindFacts DEF Waits, Lost, separateudata, GTypes
<1>3. StringsMet(m, Lost) \subseteq Strings
  BY DEF StringsMet
<1>4. /\ color' = [o \in All |-> IF o \in StringsMet(m, Lost) THEN "gray" ELSE m.color[o]]
      /\ entry' = [t \in Tables |-> IF t \in m.weak THEN {e \in entry[t] : ~Cleared(m, Lost, e)}
                                   ELSE entry[t]]
      /\ marked' = Lists(m) /\ currentwhite' = otherwhite /\ sweepgc' = Swept(Waits)
      /\ gcstate' = "sweep" /\ tmudata' = Waits /\ finalized' = Lost
      /\ holds' = holds /\ open' = open /\ full' = full
  BY DEF AtomicStep, m
<1>5. currentwhite \in White /\ otherwhite \in White /\ otherwhite # currentwhite
      /\ otherwhite' = currentwhite
  <2>1. currentwhite \in White /\ otherwhite \in White /\ otherwhite # currentwhite
        /\ White = {currentwhite, otherwhite}
    BY <1>0, OtherWhite DEF GTypes
  <2>2. currentwhite' \in White /\ currentwhite' = otherwhite
    BY <1>4, <2>1
  <2>3. \E w \in White : w # currentwhite'
    BY <2>1, <2>2
  <2>4. otherwhite' = CHOOSE w \in White : w # currentwhite'
    BY DEF otherwhite
  <2>5. otherwhite' \in White /\ otherwhite' # currentwhite'
    BY <2>3, <2>4
  <2>. QED
    BY <2>1, <2>2, <2>5
<1>6. \A o \in All : color[o] # otherwhite
  BY DEF GInv, Leftovers, ToSweep
\* The strings that weak tables refer to are there.
<1>7. \A x \in StringsMet(m, Lost) : x \in All /\ color[x] # "free"
  <2>. SUFFICES ASSUME NEW x \in StringsMet(m, Lost) PROVE x \in All /\ color[x] # "free"
    OBVIOUS
  <2>1. PICK t \in m.weak : \E e \in entry[t] : x = e[1] \/ x = e[2]
    BY DEF StringsMet
  <2>2. t \in Tables /\ t \in All
    BY <1>1, KindFacts DEF MT
  <2>3. Alive(m, t)
    BY <1>1 DEF MarkSound, MarkBasic, NeverBlack
  <2>4. Good(t)
    BY <1>1, <1>6, <2>2, <2>3 DEF MarkSound, MarkBasic, NeverBlack, Alive, Good
  <2>5. x \in Strings /\ x # number /\ x \in All
    BY <1>3, KindFacts
  <2>6. x \in Refs(t)
    BY <2>1, <2>2, <2>5 DEF Refs
  <2>7. Good(x)
    BY <2>2, <2>4, <2>6 DEF GInv, GoodClosed
  <2>. QED
    BY <2>5, <2>7 DEF Good
<1>8. \A o \in All : color'[o] = "free" <=> color[o] = "free"
  BY <1>1, <1>4, <1>7 DEF MarkSound, MarkBasic, NeverBlack
<1>9. \A o \in All : color'[o] \in White => o \in Whites(m) /\ color'[o] = currentwhite
  BY <1>1, <1>4 DEF MarkSound, MarkBasic, NeverBlack, Whites, White
<1>10. \A o \in All : o \notin Strings => color'[o] = m.color[o]
  BY <1>3, <1>4
\* Colors that are never black are not.
<1>11. \A o \in All : color'[o] = "black" => color[o] = "black" \/ Traversed(o) = "black"
  BY <1>1, <1>4 DEF MarkSound, MarkBasic, NeverBlack
<1>12. \A o \in All : color[o] # "free" /\ o \notin Waits => ToSweep(o)'
  <2>. SUFFICES ASSUME NEW o \in All, color[o] # "free", o \notin Waits PROVE ToSweep(o)'
    OBVIOUS
  <2>1. ToSweep(o)' <=> o \in sweepgc' \/ (o \in Upvals /\ open[o] # nil /\ open[o] \in sweepgc')
    BY <1>4 DEF ToSweep, OfSwept
  <2>. QED
    BY <1>2, <1>4, <2>1, SweptIsAll
<1>13. GTypes'
  <2>1. color' \in [All -> Colors]
    BY <1>1, <1>4 DEF MT, Colors
  <2>2. entry' \in [Tables -> SUBSET ((Objects \cup {number}) \X Objects)]
    BY <1>0, <1>4 DEF GTypes
  <2>3. marked' \in MarkType
    BY <1>1, <1>4 DEF MT, MarkType, Lists
  <2>4. Swept(Waits) \subseteq All
    BY DEF Swept, Allocated
  <2>5. holds' \in [All \ Tables -> SUBSET Objects] /\ open' \in [Upvals -> Coroutines \cup {nil}]
        /\ full' \in {"no", "sweep", "mark", "called"}
    BY <1>0, <1>4 DEF GTypes
  <2>6. gcstate' \in {"pause", "propagate", "sweep", "finalize"} /\ currentwhite' \in White
        /\ sweepgc' \subseteq All /\ tmudata' \subseteq Udata /\ finalized' \subseteq Udata
    BY <1>2, <1>4, <1>5, <2>4
  <2>. QED
    BY <2>1, <2>2, <2>3, <2>5, <2>6 DEF GTypes
<1>14. GoodClosed'
  <2>1. \A o \in All : Good(o)' <=> color'[o] \notin {"free", currentwhite}
    BY <1>5 DEF Good
  <2>2. \A o \in All : Good(o)' <=> color'[o] \notin {"free"} \cup White
    BY <1>5, <1>9, <2>1
  <2>3. \A o \in All : o \notin Strings => (Good(o)' <=> Alive(m, o))
    BY <1>10, <2>2 DEF Alive
  <2>4. Good(main)'
    <3>1. main \in All /\ main \notin Strings /\ color[main] # "free"
      BY KindFacts DEF GInv, GoodClosed, Good
    <3>2. Alive(m, main)
      BY <1>1, <3>1, AliveColor DEF MarkSound, MarkBasic, NeverBlack
    <3>. QED
      BY <2>3, <3>1, <3>2
  <2>5. ASSUME NEW o \in All, Good(o)', NEW x \in Refs(o)' PROVE Good(x)'
    <3>1. Refs(o)' \subseteq Refs(o) /\ (o \notin m.weak => Refs(o)' = Refs(o))
      <4>1. CASE o \in Tables
        <5>1. Refs(o) = UNION {{e[1], e[2]} \ {number} : e \in entry[o]}
          BY <4>1 DEF Refs
        <5>2. Refs(o)' = UNION {{e[1], e[2]} \ {number} : e \in entry'[o]}
          BY <4>1 DEF Refs
        <5>3. entry'[o] \subseteq entry[o] /\ (o \notin m.weak => entry'[o] = entry[o])
          BY <1>4, <4>1
        <5>. QED
          BY <5>1, <5>2, <5>3
      <4>2. CASE o \notin Tables
        BY <1>4, <4>2 DEF Refs, Value
      <4>. QED
        BY <4>1, <4>2
    <3>2. x \in Refs(o) /\ x \in Objects /\ x \in All
      BY <1>0, <3>1, <2>5, MarksFacts, KindFacts
    <3>3. color[o] # "free" /\ color[o] # otherwhite
      BY <1>6, <1>8, <2>2, <2>5
    <3>4. color[x] # "free"
      BY <3>2, <3>3 DEF GInv, GoodClosed, Good
    <3>5. CASE o \in Strings
      <4>1. o \notin Tables /\ o \notin Upvals
        BY <3>5, KindFacts
      <4>. QED
        BY <3>2, <3>5, <4>1 DEF Refs, GInv, Kinds
    <3>6. CASE o \notin Strings /\ o \notin Weak
      <4>1. Alive(m, o)
        BY <2>3, <2>5, <3>6
      <4>2. x \in Marks(o)
        BY <1>0, <3>2, <3>6, MarksFacts
      <4>3. x \notin Whites(m)
        BY <1>1, <4>1, <4>2 DEF Covered
      <4>. QED
        BY <1>8, <1>9, <2>2, <3>2, <3>4, <4>3
    <3>7. CASE o \in Weak
      <4>1. o \in Tables /\ o \notin Strings
        BY <3>7, KindFacts
      <4>2. o \in m.weak
        BY <1>1, <2>3, <2>5, <3>7, <4>1 DEF MarkSound, MarkBasic, NeverBlack
      <4>3. PICK e \in entry'[o] : x = e[1] \/ x = e[2]
        BY <2>5, <4>1 DEF Refs
      <4>4. e \in entry[o] /\ ~Cleared(m, Lost, e)
        BY <1>4, <4>1, <4>2
      <4>5. ~iscleared(m, Lost, e[1], TRUE) /\ ~iscleared(m, Lost, e[2], FALSE)
        BY <4>4 DEF Cleared
      <4>6. x \in Strings \/ m.color[x] \notin White
        BY <3>2, <4>3, <4>5 DEF iscleared
      <4>7. CASE x \in Strings
        <5>1. x \in {e[1]} \cup (IF iscleared(m, Lost, e[1], TRUE) THEN {} ELSE {e[2]})
          BY <4>3, <4>5
        <5>2. e \in UNION {entry[t] : t \in m.weak}
          BY <4>2, <4>4
        <5>3. x \in StringsMet(m, Lost)
          BY <4>7, <5>1, <5>2 DEF StringsMet
        <5>. QED
          BY <1>4, <2>2, <3>2, <5>3 DEF White
      <4>8. CASE x \notin Strings
        BY <1>8, <1>10, <2>2, <3>2, <3>4, <4>6, <4>8
      <4>. QED
        BY <4>7, <4>8
    <3>. QED
      BY <3>5, <3>6, <3>7
  <2>. QED
    BY <2>4, <2>5 DEF GoodClosed
<1>15. Leftovers'
  <2>1. \A o \in All : color'[o] \in White => o \notin Waits /\ (o \in Udata => o \in Lost)
    <3>. SUFFICES ASSUME NEW o \in All, color'[o] \in White
                  PROVE  o \notin Waits /\ (o \in Udata => o \in Lost)
      OBVIOUS
    <3>1. o \in Whites(Rounds) /\ o \notin Waits
      BY <1>1, <1>9
    <3>. QED
      BY <3>1 DEF Whites, Lost, separateudata
  <2>2. \A o \in All : color'[o] = otherwhite' => ToSweep(o)' /\ (o \in Udata => o \in finalized')
    BY <1>4, <1>5, <1>8, <1>12, <2>1 DEF White
  <2>3. \A o \in All : color'[o] \in {"gray", "black"} => o \in tmudata' \/ ToSweep(o)'
    BY <1>4, <1>8, <1>12
  <2>. QED
    BY <2>2, <2>3 DEF Leftovers
<1>16. Waiting'
  <2>. SUFFICES ASSUME NEW u \in Waits PROVE color'[u] = "black" /\ u \notin Swept(Waits)
    BY <1>4 DEF Waiting
  <2>1. u \in All /\ u \notin Strings
    BY <1>2, KindFacts
  <2>. QED
    BY <1>1, <1>10, <2>1 DEF Swept
<1>17. Kinds'
  <2>1. \A t \in Tables : color'[t] = "free" => entry'[t] = {}
    <3>1. \A t \in Tables : t \in All /\ entry'[t] \subseteq entry[t]
      BY <1>4, KindFacts
    <3>. QED
      BY <1>8, <3>1 DEF GInv, Kinds
  <2>2. (\A s \in Strings : holds'[s] = {}) /\ \A co \in Coroutines : \A x, y \in holds'[co] : x = y
    BY <1>4 DEF GInv, Kinds
  <2>3. \A uv \in Upvals : open[uv] # nil =>
          color'[uv] \notin {"free", "black"} /\ color'[open[uv]] # "free" /\ uv \notin Swept(Waits)
    <3>. SUFFICES ASSUME NEW uv \in Upvals, open[uv] # nil
                  PROVE  color'[uv] \notin {"free", "black"} /\ color'[open[uv]] # "free"
                         /\ uv \notin Swept(Waits)
      OBVIOUS
    <3>1. uv \in All /\ open[uv] \in All /\ Traversed(uv) # "black"
      BY <1>0, KindFacts DEF GTypes, Traversed
    <3>2. color[uv] \notin {"free", "black"} /\ color[open[uv]] # "free"
      BY DEF GInv, Kinds
    <3>. QED
      BY <1>8, <1>11, <3>1, <3>2 DEF Swept
  <2>4. \A o \in Strings \cup Threads \cup Weak : color'[o] # "black"
    <3>. SUFFICES ASSUME NEW o \in Strings \cup Threads \cup Weak PROVE color'[o] # "black"
      OBVIOUS
    <3>1. o \in All /\ Traversed(o) = "gray" /\ color[o] # "black"
      BY KindFacts DEF Traversed, GInv, Kinds
    <3>. QED
      BY <1>11, <3>1
  <2>5. \A o \in Swept(Waits) : color'[o] # "free"
    BY <1>8 DEF Swept, Allocated
  <2>. QED
    BY <1>4, <2>1, <2>2, <2>3, <2>4, <2>5 DEF Kinds
<1>18. GrayLists' /\ BlackNotToWhite'
  BY <1>1, <1>4 DEF GrayLists, BlackNotToWhite, Lists
<1>. QED
  BY <1>13, <1>14, <1>15, <1>16, <1>17, <1>18 DEF GInv

--------------------------------------------------------------------------------
(* The marking steps *)

\* The lists are apart, and hold what is gray but for strings and open upvalues.
Listing(m, o) == o \in m.gray \cup m.grayagain \cup m.weak
GraySound(m) ==
  /\ m.gray \cap m.grayagain = {} /\ m.gray \cap m.weak = {}
  /\ \A o \in All : Listing(m, o) => m.color[o] = "gray"
  /\ \A o \in All : m.color[o] = "gray" =>
       Listing(m, o) \/ o \in Strings \/ (o \in Upvals /\ open[o] # nil)

\* Outside X, what is black refers to nothing white.
Blacks(m, X) ==
  \A o \in All \ (tmudata \cup X) : m.color[o] = "black" => Refs(o) \cap Whites(m) = {}

\* A userdata that waits for its finalizer is black, or was created as white.
WaitSound(m) == \A u \in tmudata : m.color[u] \in {"black", currentwhite}

LEMMA MarkKeeps ==
  ASSUME GTypes, NEW m, MarkBasic(m), GraySound(m), WaitSound(m), NEW X, Blacks(m, X),
         NEW S \in SUBSET All
  PROVE  LET n == mark(m, S) IN
         /\ MarkBasic(n) /\ GraySound(n) /\ WaitSound(n) /\ Blacks(n, X)
         /\ S \cap Whites(n) = {}
         /\ \A o \in All : m.color[o] \notin White => n.color[o] = m.color[o]
         /\ \A o \in All : o \in Listed /\ o \in Found(m, n) => n.color[o] = "gray"
<1>. DEFINE n == mark(m, S)
<1>1. m \in MT
  BY DEF MarkBasic
<1>2. Marking(m, n) /\ MarkBasic(n) /\ S \cap Whites(n) = {}
  BY <1>1, MarkFacts, MarkBasicMark
<1>. HIDE DEF n
<1>3. /\ n \in MT /\ n.grayagain = m.grayagain /\ n.weak = m.weak
      /\ n.gray = m.gray \cup (Listed \cap Found(m, n)) /\ Whites(n) \subseteq Whites(m)
      /\ \A o \in All : o \notin Found(m, n) => n.color[o] = m.color[o]
      /\ \A o \in Found(m, n) : n.color[o] = IF o \in Listed THEN "gray" ELSE Traversed(o)
  BY <1>2 DEF Marking
<1>4. \A o \in All : Listing(m, o) => o \notin Found(m, n)
  BY DEF GraySound, Found, Whites, White
<1>5. m.gray \cup m.grayagain \cup m.weak \subseteq All
  BY <1>1, KindFacts DEF MT
<1>6. GraySound(n)
  <2>1. n.gray \cap n.grayagain = {} /\ n.gray \cap n.weak = {}
    BY <1>3, <1>4, <1>5 DEF GraySound, Listing
  <2>2. \A o \in All : Listing(n, o) => n.color[o] = "gray"
    BY <1>3, <1>4 DEF GraySound, Listing
  <2>3. \A o \in Found(m, n) : n.color[o] = "gray" =>
           Listing(n, o) \/ o \in Strings \/ (o \in Upvals /\ open[o] # nil)
    <3>. SUFFICES ASSUME NEW o \in Found(m, n), n.color[o] = "gray", o \notin Listed
                  PROVE  o \in Strings \/ (o \in Upvals /\ open[o] # nil)
      BY <1>3 DEF Listing
    <3>1. Traversed(o) = "gray"
      BY <1>3
    <3>2. o \notin Threads \cup Weak
      BY KindFacts
    <3>. QED
      BY <3>1, <3>2 DEF Traversed
  <2>4. \A o \in All : n.color[o] = "gray" =>
           Listing(n, o) \/ o \in Strings \/ (o \in Upvals /\ open[o] # nil)
    BY <1>3, <2>3 DEF GraySound, Listing
  <2>. QED
    BY <2>1, <2>2, <2>4 DEF GraySound
<1>7. Blacks(n, X)
  <2>. SUFFICES ASSUME NEW o \in All \ (tmudata \cup X), n.color[o] = "black"
                PROVE  Refs(o) \cap Whites(n) = {}
    BY DEF Blacks
  <2>1. CASE o \in Found(m, n)
    <3>1. o \notin Listed /\ Traversed(o) = "black"
      BY <1>3, <2>1
    <3>2. o \notin Strings /\ o \notin Weak
      BY <3>1 DEF Traversed
    <3>3. Marks(o) \cap Whites(n) = {}
      BY <1>2, <2>1, <3>1 DEF Marking
    <3>. QED
      BY <3>2, <3>3, MarksFacts
  <2>2. CASE o \notin Found(m, n)
    BY <1>3, <2>2 DEF Blacks
  <2>. QED
    BY <2>1, <2>2
<1>8. WaitSound(n)
  <2>. SUFFICES ASSUME NEW u \in tmudata PROVE n.color[u] \in {"black", currentwhite}
    BY DEF WaitSound
  <2>1. u \in All /\ u \notin Listed /\ u \notin Strings \cup Threads \cup Weak /\ u \notin Upvals
    BY KindFacts DEF GTypes
  <2>2. Traversed(u) = "black"
    BY <2>1 DEF Traversed
  <2>. QED
    BY <1>3, <2>1, <2>2 DEF WaitSound
<1>9. \A o \in All : m.color[o] \notin White => n.color[o] = m.color[o]
  BY <1>3 DEF Found, Whites
<1>10. \A o \in All : o \in Listed /\ o \in Found(m, n) => n.color[o] = "gray"
  BY <1>3
<1>. QED
  BY <1>2, <1>6, <1>7, <1>8, <1>9, <1>10 DEF n

\* Colors that a sound mark has may replace those of the heap while it is marked.
LEMMA MarkReplaces ==
  ASSUME GInv, gcstate # "sweep", NEW m, MarkSound(m), GraySound(m), WaitSound(m), Blacks(m, {}),
         m.color[main] = "gray", color' = m.color, marked' = Lists(m), gcstate' = "propagate",
         full' \in {"no", "sweep", "mark", "called"},
         UNCHANGED << heap, currentwhite, sweepgc, tmudata, finalized >>
  PROVE  GInv'
<1>0. GTypes
  BY DEF GInv
<1>1. /\ entry' = entry /\ holds' = holds /\ open' = open /\ currentwhite' = currentwhite
      /\ sweepgc' = sweepgc /\ tmudata' = tmudata /\ finalized' = finalized
      /\ otherwhite' = otherwhite
  BY DEF heap, otherwhite
<1>2. m \in MT
  BY DEF MarkSound, MarkBasic, NeverBlack
<1>3. currentwhite \in White /\ otherwhite \in White /\ otherwhite # currentwhite
  BY <1>0, OtherWhite DEF GTypes
<1>4. \A o \in All : color[o] # otherwhite /\ color'[o] # otherwhite
  <2>1. \A o \in All : color[o] # otherwhite
    BY DEF GInv, Leftovers, ToSweep
  <2>2. \A o \in All : m.color[o] \in White => m.color[o] = currentwhite
    BY DEF MarkSound, MarkBasic
  <2>. QED
    BY <1>3, <2>1, <2>2
<1>5. \A o \in All : color'[o] = "free" <=> color[o] = "free"
  BY DEF MarkSound, MarkBasic, NeverBlack
<1>6. GTypes'
  <2>1. color' \in [All -> Colors] /\ marked' \in MarkType
    BY <1>2 DEF MT, MarkType, Lists
  <2>. QED
    BY <1>0, <1>1, <2>1 DEF GTypes
<1>7. GoodClosed'
  <2>1. \A o \in All : Good(o)' <=> Good(o)
    BY <1>1, <1>4, <1>5 DEF Good
  <2>2. \A o : Refs(o)' = Refs(o)
    BY <1>1 DEF Refs, Value
  <2>3. \A o \in All : Refs(o) \subseteq All
    BY <1>0, MarksFacts, KindFacts
  <2>4. main \in All
    BY KindFacts
  <2>. QED
    BY <2>1, <2>2, <2>3, <2>4 DEF GInv, GoodClosed
<1>8. Leftovers'
  BY <1>1, <1>4 DEF Leftovers
<1>9. Waiting'
  BY <1>1 DEF GInv, Waiting, WaitSound
<1>10. Kinds'
  <2>1. \A t \in Tables : color'[t] = "free" => entry'[t] = {}
    BY <1>1, <1>5, KindFacts DEF GInv, Kinds
  <2>2. (\A s \in Strings : holds'[s] = {}) /\ \A co \in Coroutines : \A x, y \in holds'[co] : x = y
    BY <1>1 DEF GInv, Kinds
  <2>3. \A uv \in Upvals : open[uv] # nil =>
          color'[uv] \notin {"free", "black"} /\ color'[open[uv]] # "free" /\ uv \notin sweepgc
    <3>. SUFFICES ASSUME NEW uv \in Upvals, open[uv] # nil
                  PROVE  color'[uv] \notin {"free", "black"} /\ color'[open[uv]] # "free"
                         /\ uv \notin sweepgc
      OBVIOUS
    <3>1. uv \in All /\ open[uv] \in All /\ Traversed(uv) # "black"
      BY <1>0, KindFacts DEF GTypes, Traversed
    <3>2. color[uv] \notin {"free", "black"} /\ color[open[uv]] # "free" /\ uv \notin sweepgc
      BY DEF GInv, Kinds
    <3>. QED
      BY <1>5, <3>1, <3>2 DEF MarkSound, MarkBasic, NeverBlack
  <2>4. \A o \in Strings \cup Threads \cup Weak : color'[o] # "black"
    <3>. SUFFICES ASSUME NEW o \in Strings \cup Threads \cup Weak PROVE color'[o] # "black"
      OBVIOUS
    <3>1. o \in All /\ Traversed(o) = "gray" /\ color[o] # "black"
      BY KindFacts DEF Traversed, GInv, Kinds
    <3>. QED
      BY <3>1 DEF MarkSound, MarkBasic, NeverBlack
  <2>5. \A o \in sweepgc : color'[o] # "free"
    BY <1>0, <1>5 DEF GInv, Kinds, GTypes
  <2>. QED
    BY <1>1, <2>1, <2>2, <2>3, <2>4, <2>5 DEF Kinds
<1>11. GrayLists'
  <2>1. marked'.gray = m.gray /\ marked'.grayagain = m.grayagain /\ marked'.weak = m.weak
    BY DEF Lists
  <2>2. \A o : InList(o)' <=> Listing(m, o)
    BY <2>1 DEF InList, Listing
  <2>. QED
    BY <1>1, <2>1, <2>2 DEF GrayLists, GraySound
<1>12. BlackNotToWhite'
  <2>1. \A o : Refs(o)' = Refs(o)
    BY <1>1 DEF Refs, Value
  <2>2. \A o \in All : Refs(o) \subseteq All
    BY <1>0, MarksFacts, KindFacts
  <2>3. \A o \in All \ tmudata : color'[o] = "black" => \A x \in Refs(o) : color'[x] \notin White
    BY <2>2 DEF Blacks, Whites
  <2>. QED
    BY <1>1, <2>1, <2>3 DEF BlackNotToWhite
<1>. QED
  BY <1>6, <1>7, <1>8, <1>9, <1>10, <1>11, <1>12 DEF GInv

\* While the collector marks, its lists are the ones of a sound mark.
LEMMA PhaseSound ==
  ASSUME GInv, gcstate = "propagate"
  PROVE  /\ MarkSound(Mark) /\ GraySound(Mark) /\ WaitSound(Mark) /\ Blacks(Mark, {})
         /\ Mark.color[main] = "gray"
<1>1. MarkSound(Mark)
  BY MarkIsSound
<1>2. GraySound(Mark)
  BY DEF GInv, GrayLists, GraySound, Listing, InList, Mark
<1>3. WaitSound(Mark)
  BY DEF GInv, Waiting, WaitSound, Mark
<1>4. Blacks(Mark, {})
  BY DEF GInv, BlackNotToWhite, Blacks, Whites, Mark
<1>. QED
  BY <1>1, <1>2, <1>3, <1>4 DEF GInv, GrayLists, Mark

LEMMA MarkrootKeeps == ASSUME GInv, markroot PROVE GInv'
<1>. DEFINE m0 == [color |-> color, gray |-> {}, grayagain |-> {}, weak |-> {}]
            m == mark(m0, {main})
<1>0. GTypes
  BY DEF GInv
<1>1. /\ gcstate \in {"pause", "finalize"} /\ color' = m.color /\ marked' = Lists(m)
      /\ gcstate' = "propagate" /\ full' \in {"no", "sweep", "mark", "called"}
      /\ UNCHANGED << heap, currentwhite, sweepgc, tmudata, finalized >>
  BY <1>0 DEF markroot, GTypes
<1>2. White = {currentwhite, otherwhite}
  BY <1>0, OtherWhite DEF GTypes
<1>3. \A o \in All : color[o] # otherwhite
  BY <1>1 DEF GInv, Leftovers, ToSweep
<1>4. \A o \in All : color[o] \in {"gray", "black"} => o \in tmudata
  BY <1>1 DEF GInv, Leftovers, ToSweep
<1>5. /\ m0.color = color /\ m0.gray = {} /\ m0.grayagain = {} /\ m0.weak = {} /\ m0 \in MT
  BY <1>0 DEF GTypes, MT
<1>. HIDE DEF m0
<1>6. MarkSound(m0)
  <2>1. \A o \in All : color[o] \in White => color[o] = currentwhite
    BY <1>2, <1>3
  <2>2. \A t \in Weak : ~Alive(m0, t)
    <3>. SUFFICES ASSUME NEW t \in Weak PROVE ~Alive(m0, t)
      OBVIOUS
    <3>1. t \in All /\ t \notin Udata
      BY KindFacts
    <3>2. t \notin tmudata
      BY <1>0, <3>1 DEF GTypes
    <3>. QED
      BY <1>4, <1>5, <3>1, <3>2, AliveColor
  <2>. QED
    BY <1>5, <2>1, <2>2 DEF MarkSound, MarkBasic, NeverBlack
<1>7. WaitSound(m0)
  BY <1>5 DEF WaitSound, GInv, Waiting
<1>8. \A u \in tmudata : u \in Udata /\ color[u] # "gray"
  BY <1>0 DEF GInv, Waiting, GTypes, White
<1>9. GraySound(m0) /\ Blacks(m0, {})
  BY <1>4, <1>5, <1>8 DEF GraySound, Listing, Blacks
<1>10. main \in All /\ {main} \in SUBSET All /\ main \in Listed
  BY KindFacts
<1>11. /\ MarkSound(m) /\ GraySound(m) /\ WaitSound(m) /\ Blacks(m, {}) /\ {main} \cap Whites(m) = {}
       /\ \A o \in All : o \in Listed /\ o \in Found(m0, m) => m.color[o] = "gray"
  <2>1. MarkSound(m)
    BY <1>0, <1>6, <1>10, MarkSoundMark
  <2>2. MarkBasic(m0)
    BY <1>6 DEF MarkSound
  <2>. QED
    BY <1>0, <1>7, <1>9, <1>10, <2>1, <2>2, MarkKeeps
<1>. HIDE DEF m
<1>12. main \in Whites(m0)
  <2>1. color[main] \notin {"free", otherwhite} /\ main \notin tmudata
    BY <1>8, KindFacts DEF GInv, GoodClosed, Good
  <2>2. color[main] \in Colors
    BY <1>0, <1>10 DEF GTypes
  <2>. QED
    BY <1>4, <1>5, <1>10, <2>1, <2>2 DEF Whites, Colors
<1>13. m.color[main] = "gray"
  BY <1>10, <1>11, <1>12 DEF Found
<1>. QED
  BY <1>1, <1>11, <1>13, MarkReplaces

\* A gray object is traversed, and what it refers to marked.
LEMMA PropagatemarkKeeps ==
  ASSUME GInv, gcstate = "propagate", NEW o \in marked.gray,
         color' = propagatemark(Mark, o).color, marked' = Lists(propagatemark(Mark, o)),
         UNCHANGED << heap, phase >>
  PROVE  GInv'
<1>. DEFINE m0 == Mark
            m1 == Traverse(m0, {o})
            m == mark(m1, Marks(o))
<1>0. GTypes
  BY DEF GInv
<1>1. m = propagatemark(Mark, o)
  BY DEF propagatemark
<1>2. /\ MarkSound(m0) /\ GraySound(m0) /\ WaitSound(m0) /\ Blacks(m0, {}) /\ m0 \in MT
      /\ m0.color[main] = "gray" /\ o \in m0.gray
  BY PhaseSound DEF MarkSound, MarkBasic, NeverBlack, Mark
<1>. HIDE DEF m0
<1>3. o \in Listed /\ o \in All /\ {o} \in SUBSET All /\ Marks(o) \in SUBSET All
  BY <1>0, <1>2, KindFacts, MarksFacts DEF MT
<1>4. /\ m1 \in MT /\ m1.gray = m0.gray \ {o}
      /\ m1.weak = m0.weak \cup ({o} \cap Weak) /\ m1.grayagain = m0.grayagain \cup ({o} \cap Threads)
      /\ \A x \in All : m1.color[x] = IF x \in {o} THEN Traversed(x) ELSE m0.color[x]
  BY <1>2, <1>3, TraverseFacts
<1>. HIDE DEF m1
<1>5. m0.color[o] = "gray" /\ m1.color[o] = Traversed(o) /\ m1.color[o] \in {"gray", "black"}
  BY <1>2, <1>3, <1>4, TraversedColor DEF GraySound, Listing
<1>6. o \notin m0.grayagain /\ o \notin m0.weak
  BY <1>2 DEF GraySound
<1>7. Traversed(o) = "gray" <=> o \in Threads \cup Weak
  <2>1. o \notin Strings /\ o \notin Upvals
    BY <1>3, KindFacts
  <2>. QED
    BY <2>1 DEF Traversed
<1>8. Whites(m1) = Whites(m0)
  BY <1>3, <1>4, <1>5 DEF Whites, White
<1>9. MarkSound(m1)
  <2>1. \A x \in All : m1.color[x] = "free" <=> color[x] = "free"
    BY <1>2, <1>4, <1>5 DEF MarkSound, MarkBasic, NeverBlack
  <2>2. \A x \in All : m1.color[x] \in White => m1.color[x] = currentwhite
    BY <1>2, <1>4, <1>5 DEF MarkSound, MarkBasic, NeverBlack, White
  <2>3. \A x \in All : m1.color[x] = "black" => color[x] = "black" \/ Traversed(x) = "black"
    BY <1>2, <1>4 DEF MarkSound, MarkBasic, NeverBlack
  <2>4. \A x \in All : Alive(m1, x) <=> Alive(m0, x)
    BY <1>4, <1>5 DEF Alive, White
  <2>5. m1.gray \cup m1.grayagain \cup m1.weak \subseteq m0.gray \cup m0.grayagain \cup m0.weak
    BY <1>2, <1>4
  <2>6. m0.gray \cup m0.grayagain \cup m0.weak \subseteq All
    BY <1>2, KindFacts DEF MT
  <2>7. \A x \in m1.gray \cup m1.grayagain \cup m1.weak : Alive(m1, x)
    BY <1>2, <2>4, <2>5, <2>6 DEF MarkSound, MarkBasic, NeverBlack
  <2>8. \A t \in Weak : Alive(m1, t) => t \in m1.gray \cup m1.weak
    BY <1>2, <1>4, <2>4, KindFacts DEF MarkSound, MarkBasic, NeverBlack
  <2>. QED
    BY <1>4, <2>1, <2>2, <2>3, <2>7, <2>8 DEF MarkSound, MarkBasic, NeverBlack
<1>10. GraySound(m1)
  <2>1. m1.gray \cap m1.grayagain = {} /\ m1.gray \cap m1.weak = {}
    BY <1>2, <1>4 DEF GraySound
  <2>2. \A x \in All : Listing(m1, x) => m1.color[x] = "gray"
    <3>1. Listing(m1, o) => o \in Threads \cup Weak
      BY <1>4, <1>6 DEF Listing
    <3>2. \A x \in All : x # o => (Listing(m1, x) <=> Listing(m0, x))
      BY <1>4 DEF Listing
    <3>. QED
      BY <1>2, <1>4, <1>5, <1>7, <3>1, <3>2 DEF GraySound
  <2>3. \A x \in All : m1.color[x] = "gray" =>
          Listing(m1, x) \/ x \in Strings \/ (x \in Upvals /\ open[x] # nil)
    <3>1. Traversed(o) = "gray" => Listing(m1, o)
      BY <1>4, <1>7 DEF Listing
    <3>2. \A x \in All : x # o => (Listing(m1, x) <=> Listing(m0, x))
      BY <1>4 DEF Listing
    <3>. QED
      BY <1>2, <1>4, <1>5, <3>1, <3>2 DEF GraySound
  <2>. QED
    BY <2>1, <2>2, <2>3 DEF GraySound
<1>11. WaitSound(m1) /\ Blacks(m1, {o})
  <2>1. o \notin tmudata
    BY <1>0, <1>3, KindFacts DEF GTypes
  <2>2. tmudata \subseteq All
    BY <1>0, KindFacts DEF GTypes
  <2>3. WaitSound(m1)
    BY <1>2, <1>4, <2>1, <2>2 DEF WaitSound
  <2>. QED
    BY <1>2, <1>4, <1>8, <2>3 DEF Blacks
<1>12. /\ MarkSound(m) /\ GraySound(m) /\ WaitSound(m) /\ Blacks(m, {o}) /\ Marks(o) \cap Whites(m) = {}
       /\ \A x \in All : m1.color[x] \notin White => m.color[x] = m1.color[x]
  <2>1. MarkSound(m)
    BY <1>0, <1>3, <1>9, MarkSoundMark
  <2>2. MarkBasic(m1)
    BY <1>9 DEF MarkSound
  <2>. QED
    BY <1>0, <1>3, <1>10, <1>11, <2>1, <2>2, MarkKeeps
<1>. HIDE DEF m
<1>13. Blacks(m, {})
  <2>1. m.color[o] = "black" => Refs(o) \cap Whites(m) = {}
    <3>. SUFFICES ASSUME m.color[o] = "black" PROVE Refs(o) \cap Whites(m) = {}
      OBVIOUS
    <3>1. m1.color[o] = "black"
      BY <1>3, <1>5, <1>12 DEF White
    <3>2. o \notin Weak /\ o \notin Strings
      BY <1>3, <1>5, <1>7, <3>1, KindFacts
    <3>. QED
      BY <1>0, <1>3, <1>12, <3>2, MarksFacts
  <2>. QED
    BY <1>12, <2>1 DEF Blacks
<1>14. m.color[main] = "gray"
  <2>1. main \in All /\ main \in Threads
    BY KindFacts
  <2>2. m1.color[main] = "gray"
    BY <1>2, <1>4, <1>5, <1>7, <2>1
  <2>. QED
    BY <1>12, <2>1, <2>2 DEF White
<1>15. gcstate' = "propagate" /\ full' \in {"no", "sweep", "mark", "called"}
       /\ UNCHANGED << heap, currentwhite, sweepgc, tmudata, finalized >>
  BY <1>0 DEF phase, GTypes
<1>. QED
  BY <1>1, <1>12, <1>13, <1>14, <1>15, MarkReplaces

LEMMA PropagateKeeps == ASSUME GInv, propagate PROVE GInv'
<1>1. CASE marked.gray = {}
  BY <1>1, AtomicParts, AtomicKeeps DEF propagate
<1>2. CASE marked.gray # {}
  BY <1>2, PropagatemarkKeeps DEF propagate
<1>. QED
  BY <1>1, <1>2

--------------------------------------------------------------------------------
(* Sweeping and finalizing *)

\* The colors a step of the sweep leaves, and what it does to the heap.
DeadOf(o) == {x \in Sweepings(o) : isdead(x) /\ x # main}
ClosedBy(o) == {uv \in Upvals : open[uv] \in DeadOf(o) /\ uv \notin DeadOf(o)}
SweepStep(o) ==
  /\ sweepgc' = sweepgc \ {o}
  /\ color' = [x \in All |-> IF x \in DeadOf(o) THEN "free"
                             ELSE IF x \in Sweepings(o) THEN currentwhite ELSE color[x]]
  /\ open' = [uv \in Upvals |-> IF uv \in ClosedBy(o) \cup DeadOf(o) THEN nil ELSE open[uv]]
  /\ holds' = [x \in All \ Tables |-> IF x \in DeadOf(o) THEN {}
                                      ELSE IF x \in ClosedBy(o) THEN Value(x) ELSE holds[x]]
  /\ entry' = [t \in Tables |-> IF t \in DeadOf(o) THEN {} ELSE entry[t]]
  /\ finalized' = finalized \ {u \in Udata : color'[u] = "free"}
  /\ UNCHANGED << marked, gcstate, currentwhite, tmudata, full >>

LEMMA SweepParts ==
  ASSUME sweep, sweepgc # {}
  PROVE  gcstate = "sweep" /\ \E o \in sweepgc : SweepStep(o)
BY DEF sweep, SweepStep, DeadOf, ClosedBy

LEMMA SweepStepKeeps ==
  ASSUME GInv, gcstate = "sweep", NEW o \in sweepgc, SweepStep(o)
  PROVE  GInv'
<1>. DEFINE dead == DeadOf(o)
            closed == ClosedBy(o)
<1>0. GTypes
  BY DEF GInv
<1>1. o \in All /\ color[o] # "free"
  BY <1>0 DEF GInv, Kinds, GTypes
<1>2. \A x \in Sweepings(o) : x \in All /\ (x = o \/ (x \in Upvals /\ o \in Coroutines /\ open[x] = o))
  BY <1>1, KindFacts DEF Sweepings
<1>3. \A x \in Upvals : o \in Coroutines /\ open[x] = o => x \in Sweepings(o)
  BY DEF Sweepings
<1>4. \A x \in dead : x \in Sweepings(o) /\ color[x] = otherwhite /\ x # main
  BY DEF DeadOf, isdead
<1>5. \A x \in Sweepings(o) : color[x] # "free"
  <2>1. o \in Coroutines => o # nil
    BY KindFacts
  <2>. QED
    BY <1>1, <1>2, <2>1 DEF GInv, Kinds
<1>6. \A x \in Sweepings(o) : x \notin dead => Good(x)
  BY <1>5 DEF DeadOf, isdead, Good, GInv, GoodClosed
<1>7. o \in Sweepings(o) /\ nil \notin dead /\ dead \subseteq All
  BY <1>2, KindFacts DEF DeadOf, Sweepings
<1>8. closed \subseteq Upvals /\ \A x \in closed : open[x] \in dead /\ x \notin dead
  BY DEF ClosedBy
<1>9. \A x \in Upvals : open[x] \in dead => open[x] = o /\ o \in Coroutines
  <2>1. \A x \in Upvals : open[x] \in dead => open[x] \in Coroutines /\ open[x] \notin Upvals
    BY <1>0, <1>7, KindFacts DEF GTypes
  <2>. QED
    BY <1>2, <1>4, <2>1
<1>10. /\ sweepgc' = sweepgc \ {o}
       /\ color' = [x \in All |-> IF x \in dead THEN "free"
                                  ELSE IF x \in Sweepings(o) THEN currentwhite ELSE color[x]]
       /\ open' = [uv \in Upvals |-> IF uv \in closed \cup dead THEN nil ELSE open[uv]]
       /\ holds' = [x \in All \ Tables |-> IF x \in dead THEN {}
                                           ELSE IF x \in closed THEN Value(x) ELSE holds[x]]
       /\ entry' = [t \in Tables |-> IF t \in dead THEN {} ELSE entry[t]]
       /\ finalized' = finalized \ {u \in Udata : color'[u] = "free"}
       /\ marked' = marked /\ gcstate' = gcstate /\ currentwhite' = currentwhite
       /\ tmudata' = tmudata /\ full' = full /\ otherwhite' = otherwhite
  BY DEF SweepStep, otherwhite
<1>. HIDE DEF dead, closed
<1>11. currentwhite \in White /\ otherwhite \in White /\ otherwhite # currentwhite
  BY <1>0, OtherWhite DEF GTypes
<1>12. \A x \in All : Good(x)' <=> Good(x)
  <2>1. \A x \in All : Good(x)' <=> color'[x] \notin {"free", otherwhite}
    BY <1>10 DEF Good
  <2>2. \A x \in dead : ~Good(x)' /\ ~Good(x)
    BY <1>4, <1>7, <1>10, <2>1 DEF Good
  <2>3. \A x \in Sweepings(o) \ dead : Good(x)' /\ Good(x)
    BY <1>2, <1>6, <1>10, <1>11, <2>1 DEF White
  <2>4. \A x \in All : x \notin Sweepings(o) /\ x \notin dead => color'[x] = color[x]
    BY <1>10
  <2>. QED
    BY <2>1, <2>2, <2>3, <2>4 DEF Good
<1>13. \A x \in All : Good(x) => Refs(x)' = Refs(x)
  <2>. SUFFICES ASSUME NEW x \in All, Good(x) PROVE Refs(x)' = Refs(x)
    OBVIOUS
  <2>1. x \notin dead
    BY <1>4 DEF Good
  <2>2. CASE x \in Tables
    <3>1. entry'[x] = entry[x]
      BY <1>10, <2>1, <2>2
    <3>2. Refs(x) = UNION {{e[1], e[2]} \ {number} : e \in entry[x]}
      BY <2>2 DEF Refs
    <3>3. Refs(x)' = UNION {{e[1], e[2]} \ {number} : e \in entry'[x]}
      BY <2>2 DEF Refs
    <3>. QED
      BY <3>1, <3>2, <3>3
  <2>3. CASE x \in Upvals
    <3>1. x \in All \ Tables /\ x \notin Tables
      BY <2>3, KindFacts
    <3>2. Refs(x) = Value(x) /\ Refs(x)' = Value(x)'
      BY <2>3, <3>1 DEF Refs
    <3>3. CASE x \in closed
      <4>1. open'[x] = nil /\ holds'[x] = Value(x)
        BY <1>10, <2>1, <2>3, <3>1, <3>3
      <4>. QED
        BY <3>2, <4>1 DEF Value
    <3>4. CASE x \notin closed
      <4>1. open'[x] = open[x] /\ holds'[x] = holds[x] /\ open[x] \notin dead
        BY <1>10, <2>1, <2>3, <3>1, <3>4 DEF ClosedBy, dead, closed
      <4>2. open[x] # nil => open[x] \in All \ Tables /\ open[x] \notin closed
        BY <1>0, <1>8, <2>3, KindFacts DEF GTypes
      <4>3. open[x] # nil => holds'[open[x]] = holds[open[x]]
        BY <1>10, <4>1, <4>2
      <4>. QED
        BY <3>2, <4>1, <4>3 DEF Value
    <3>. QED
      BY <3>3, <3>4
  <2>4. CASE x \notin Tables \cup Upvals
    BY <1>8, <1>10, <2>1, <2>4 DEF Refs
  <2>. QED
    BY <2>2, <2>3, <2>4
<1>14. GTypes'
  <2>1. color' \in [All -> Colors]
    BY <1>0, <1>10 DEF GTypes, Colors
  <2>2. entry' \in [Tables -> SUBSET ((Objects \cup {number}) \X Objects)]
        /\ open' \in [Upvals -> Coroutines \cup {nil}]
    BY <1>0, <1>10 DEF GTypes
  <2>3. \A x \in closed : Value(x) \in SUBSET Objects
    <3>1. \A x \in Upvals : x \in All /\ Refs(x) = Value(x)
      BY KindFacts DEF Refs
    <3>. QED
      BY <1>0, <1>8, <3>1, MarksFacts
  <2>4. holds' \in [All \ Tables -> SUBSET Objects]
    BY <1>0, <1>10, <2>3 DEF GTypes
  <2>5. sweepgc' \subseteq All /\ finalized' \subseteq Udata
    BY <1>0, <1>10 DEF GTypes
  <2>. QED
    BY <1>0, <1>10, <2>1, <2>2, <2>4, <2>5 DEF GTypes
<1>15. GoodClosed'
  <2>1. main \in All /\ \A x \in All : Refs(x) \subseteq All
    BY <1>0, MarksFacts, KindFacts
  <2>. QED
    BY <1>12, <1>13, <2>1 DEF GInv, GoodClosed
<1>16. \A x \in All : x \notin Sweepings(o) /\ ToSweep(x) => ToSweep(x)'
  <2>. SUFFICES ASSUME NEW x \in All, x \notin Sweepings(o), ToSweep(x) PROVE ToSweep(x)'
    OBVIOUS
  <2>1. x # o
    BY <1>7
  <2>2. CASE x \in sweepgc
    BY <1>10, <2>1, <2>2 DEF ToSweep
  <2>3. CASE OfSwept(x)
    <3>1. x \in Upvals /\ open[x] # nil /\ open[x] \in sweepgc
      BY <2>3 DEF OfSwept
    <3>2. open[x] # o
      <4>1. open[x] \in Coroutines
        BY <1>0, <3>1 DEF GTypes
      <4>. QED
        BY <1>3, <3>1, <4>1
    <3>3. x \notin closed /\ x \notin dead
      BY <1>4, <1>8, <1>9, <3>1, <3>2
    <3>4. open'[x] = open[x]
      BY <1>10, <3>1, <3>3
    <3>. QED
      BY <1>10, <3>1, <3>2, <3>4 DEF ToSweep, OfSwept
  <2>. QED
    BY <2>2, <2>3 DEF ToSweep
<1>17. Leftovers'
  <2>1. \A x \in All : color'[x] \in {otherwhite, "gray", "black"} =>
          x \notin Sweepings(o) /\ color'[x] = color[x]
    BY <1>10, <1>11 DEF White
  <2>2. \A x \in All : color'[x] = otherwhite => ToSweep(x)' /\ (x \in Udata => x \in finalized')
    BY <1>10, <1>11, <1>16, <2>1 DEF GInv, Leftovers, White
  <2>3. \A x \in All : color'[x] \in {"gray", "black"} => x \in tmudata \/ ToSweep(x)'
    <3>1. \A x \in All : color[x] \in {"gray", "black"} => x \in tmudata \/ ToSweep(x)
      BY DEF GInv, Leftovers
    <3>. QED
      BY <1>16, <2>1, <3>1
  <2>. QED
    BY <1>10, <2>2, <2>3 DEF Leftovers
<1>18. Waiting'
  <2>. SUFFICES ASSUME NEW u \in tmudata PROVE color'[u] \in {"black", currentwhite} /\ u \notin sweepgc'
    BY <1>10 DEF Waiting
  <2>1. u \in All /\ u \notin Upvals /\ u \notin sweepgc /\ color[u] \in {"black", currentwhite}
    BY <1>0, KindFacts DEF GInv, Waiting, GTypes
  <2>2. u \notin Sweepings(o)
    BY <1>2, <2>1
  <2>. QED
    BY <1>4, <1>10, <2>1, <2>2
<1>19. Kinds'
  <2>1. \A t \in Tables : color'[t] = "free" => entry'[t] = {}
    <3>1. \A t \in Tables : t \in All
      BY KindFacts
    <3>. QED
      BY <1>10, <1>11, <3>1 DEF GInv, Kinds, White
  <2>2. \A s \in Strings : holds'[s] = {}
    <3>1. \A s \in Strings : s \in All \ Tables /\ s \notin closed
      BY <1>8, KindFacts
    <3>. QED
      BY <1>10, <3>1 DEF GInv, Kinds
  <2>3. \A co \in Coroutines : \A x, y \in holds'[co] : x = y
    <3>1. \A co \in Coroutines : co \in All \ Tables /\ co \notin closed
      BY <1>8, KindFacts
    <3>. QED
      BY <1>10, <3>1 DEF GInv, Kinds
  <2>4. \A uv \in Upvals : open'[uv] # nil =>
          color'[uv] \notin {"free", "black"} /\ color'[open'[uv]] # "free" /\ uv \notin sweepgc'
    <3>. SUFFICES ASSUME NEW uv \in Upvals, open'[uv] # nil
                  PROVE  color'[uv] \notin {"free", "black"} /\ color'[open'[uv]] # "free"
                         /\ uv \notin sweepgc'
      OBVIOUS
    <3>1. uv \notin closed /\ uv \notin dead /\ open'[uv] = open[uv] /\ open[uv] \in All
          /\ uv \in All /\ open[uv] \notin dead
      BY <1>0, <1>10, KindFacts DEF GTypes, ClosedBy, closed, dead
    <3>2. color[uv] \notin {"free", "black"} /\ color[open[uv]] # "free" /\ uv \notin sweepgc
      BY <3>1 DEF GInv, Kinds
    <3>. QED
      BY <1>10, <1>11, <3>1, <3>2 DEF White
  <2>5. \A x \in Strings \cup Threads \cup Weak : color'[x] # "black"
    <3>1. \A x \in Strings \cup Threads \cup Weak : x \in All /\ color[x] # "black"
      BY KindFacts DEF GInv, Kinds
    <3>. QED
      BY <1>10, <1>11, <3>1 DEF White
  <2>6. \A x \in sweepgc' : color'[x] # "free"
    <3>. SUFFICES ASSUME NEW x \in sweepgc, x # o PROVE color'[x] # "free"
      BY <1>10
    <3>1. x \in All /\ color[x] # "free"
      BY <1>0 DEF GInv, Kinds, GTypes
    <3>2. x \notin dead
      <4>1. o \in Coroutines => o # nil
        BY KindFacts
      <4>. QED
        BY <1>2, <1>4, <4>1 DEF GInv, Kinds
    <3>. QED
      BY <1>10, <1>11, <3>1, <3>2 DEF White
  <2>. QED
    BY <2>1, <2>2, <2>3, <2>4, <2>5, <2>6 DEF Kinds
<1>20. GrayLists' /\ BlackNotToWhite'
  BY <1>10 DEF GInv, GrayLists, BlackNotToWhite
<1>. QED
  BY <1>14, <1>15, <1>17, <1>18, <1>19, <1>20 DEF GInv

LEMMA SweepKeeps == ASSUME GInv, sweep PROVE GInv'
<1>1. CASE sweepgc # {}
  BY <1>1, SweepParts, SweepStepKeeps
<1>2. CASE sweepgc = {}
  <2>1. /\ gcstate = "sweep" /\ gcstate' = "finalize" /\ color' = color /\ sweepgc' = sweepgc
        /\ entry' = entry /\ holds' = holds /\ open' = open /\ marked' = marked
        /\ currentwhite' = currentwhite /\ tmudata' = tmudata /\ full' = full
        /\ finalized' \subseteq finalized
    BY <1>2 DEF sweep, heap
  <2>2. \A o \in All : ~ToSweep(o)
    BY <1>2 DEF ToSweep, OfSwept
  <2>3. \A o \in All : color[o] # otherwhite /\ (color[o] \in {"gray", "black"} => o \in tmudata)
    BY <2>1, <2>2 DEF GInv, Leftovers
  <2>4. otherwhite' = otherwhite
    BY <2>1 DEF otherwhite
  <2>5. GTypes' /\ Waiting' /\ Kinds'
    BY <2>1 DEF GInv, GTypes, Waiting, Kinds
  <2>6. GoodClosed'
    BY <2>1, <2>4 DEF GInv, GoodClosed, Good, Refs, Value
  <2>7. Leftovers'
    BY <2>1, <2>3, <2>4 DEF Leftovers
  <2>8. GrayLists' /\ BlackNotToWhite'
    BY <2>1 DEF GInv, GrayLists, BlackNotToWhite
  <2>. QED
    BY <2>5, <2>6, <2>7, <2>8 DEF GInv
<1>. QED
  BY <1>1, <1>2

LEMMA GCTMKeeps == ASSUME GInv, NEW u \in tmudata, GCTM(u) PROVE GInv'
<1>0. GTypes
  BY DEF GInv
<1>1. /\ gcstate = "finalize" /\ tmudata' = tmudata \ {u}
      /\ color' = [color EXCEPT ![u] = currentwhite]
      /\ holds' = [holds EXCEPT ![main] = @ \cup {u}]
      /\ full' \in {"no", "sweep", "mark", "called"}
      /\ entry' = entry /\ open' = open /\ marked' = marked /\ gcstate' = gcstate
      /\ currentwhite' = currentwhite /\ sweepgc' = sweepgc /\ finalized' = finalized
      /\ otherwhite' = otherwhite
  BY <1>0 DEF GCTM, GTypes, otherwhite
<1>2. /\ u \in Udata /\ u \in Objects /\ u \in All /\ u # main /\ main \in All \ Tables
      /\ u \notin Tables /\ u \notin Upvals /\ u \notin Strings \cup Threads \cup Weak
      /\ main \notin Upvals /\ main \notin Strings /\ main \notin Coroutines
  BY <1>0, KindFacts DEF GTypes
<1>3. currentwhite \in White /\ otherwhite \in White /\ otherwhite # currentwhite
  BY <1>0, OtherWhite DEF GTypes
<1>4. color[u] \in {"black", currentwhite} /\ u \notin sweepgc
  BY DEF GInv, Waiting
<1>5. /\ \A o \in All : color'[o] = IF o = u THEN currentwhite ELSE color[o]
      /\ \A o \in All \ Tables : holds'[o] = IF o = main THEN holds[o] \cup {u} ELSE holds[o]
  BY <1>0, <1>1, <1>2 DEF GTypes
<1>6. \A o \in All : ~ToSweep(o) /\ ~ToSweep(o)'
  BY <1>1 DEF ToSweep
<1>7. \A o \in All : Good(o)' <=> Good(o)
  BY <1>1, <1>2, <1>3, <1>4, <1>5 DEF Good, White
<1>8. \A o \in All : Refs(o)' = IF o = main THEN Refs(o) \cup {u} ELSE Refs(o)
  <2>. SUFFICES ASSUME NEW o \in All
                PROVE  Refs(o)' = IF o = main THEN Refs(o) \cup {u} ELSE Refs(o)
    OBVIOUS
  <2>1. CASE o \in Tables
    BY <1>1, <1>2, <2>1 DEF Refs
  <2>2. CASE o \in Upvals
    <3>1. open[o] # nil => open[o] \in All \ Tables /\ open[o] # main
      BY <1>0, <1>2, <2>2, KindFacts DEF GTypes
    <3>2. o \in All \ Tables /\ o # main
      BY <1>2, <2>2, KindFacts
    <3>3. Value(o)' = Value(o)
      BY <1>1, <1>5, <3>1, <3>2 DEF Value
    <3>. QED
      BY <2>2, <3>2, <3>3 DEF Refs
  <2>3. CASE o \notin Tables \cup Upvals
    BY <1>1, <1>5, <2>3 DEF Refs
  <2>. QED
    BY <2>1, <2>2, <2>3
<1>9. Good(u)
  BY <1>3, <1>4 DEF Good, White
<1>10. GTypes'
  <2>1. color' \in [All -> Colors] /\ holds' \in [All \ Tables -> SUBSET Objects]
    BY <1>0, <1>1, <1>2, <1>3 DEF GTypes, Colors
  <2>. QED
    BY <1>0, <1>1, <2>1 DEF GTypes
<1>11. GoodClosed'
  <2>1. \A x \in All : Refs(x) \subseteq All
    BY <1>0, MarksFacts, KindFacts
  <2>. QED
    BY <1>2, <1>7, <1>8, <1>9, <2>1 DEF GInv, GoodClosed
<1>12. Leftovers'
  <2>1. \A o \in All : color'[o] # otherwhite
    BY <1>3, <1>5, <1>6 DEF GInv, Leftovers
  <2>2. \A o \in All : color'[o] \in {"gray", "black"} => o \in tmudata'
    BY <1>1, <1>3, <1>5, <1>6 DEF GInv, Leftovers, White
  <2>. QED
    BY <1>1, <2>1, <2>2 DEF Leftovers
<1>13. Waiting'
  <2>1. tmudata \subseteq All
    BY <1>0, KindFacts DEF GTypes
  <2>. QED
    BY <1>1, <1>5, <2>1 DEF GInv, Waiting
<1>14. Kinds'
  <2>1. \A t \in Tables : color'[t] = "free" => entry'[t] = {}
    BY <1>1, <1>2, <1>5, KindFacts DEF GInv, Kinds
  <2>2. (\A s \in Strings : holds'[s] = {}) /\ \A co \in Coroutines : \A x, y \in holds'[co] : x = y
    <3>1. \A x \in Strings \cup Coroutines : x \in All \ Tables /\ x # main
      BY KindFacts
    <3>. QED
      BY <1>5, <3>1 DEF GInv, Kinds
  <2>3. \A uv \in Upvals : open[uv] # nil => uv \in All /\ uv # u /\ open[uv] \in All /\ open[uv] # u
    BY <1>0, <1>2, KindFacts DEF GTypes
  <2>4. \A uv \in Upvals : open'[uv] # nil =>
          color'[uv] \notin {"free", "black"} /\ color'[open'[uv]] # "free" /\ uv \notin sweepgc'
    BY <1>1, <1>5, <2>3 DEF GInv, Kinds
  <2>5. \A x \in Strings \cup Threads \cup Weak : x \in All /\ x # u
    BY <1>2, KindFacts
  <2>6. \A x \in Strings \cup Threads \cup Weak : color'[x] # "black"
    BY <1>5, <2>5 DEF GInv, Kinds
  <2>7. \A x \in sweepgc : color'[x] # "free"
    BY <1>0, <1>3, <1>5 DEF GInv, Kinds, White, GTypes
  <2>. QED
    BY <1>1, <2>1, <2>2, <2>4, <2>6, <2>7 DEF Kinds
<1>15. GrayLists' /\ BlackNotToWhite'
  BY <1>1 DEF GInv, GrayLists, BlackNotToWhite
<1>. QED
  BY <1>10, <1>11, <1>12, <1>13, <1>14, <1>15 DEF GInv

LEMMA CycleEndsKeeps == ASSUME GInv, CycleEnds PROVE GInv'
<1>1. /\ gcstate = "finalize" /\ gcstate' = "pause" /\ full' = "no" /\ color' = color
      /\ entry' = entry /\ holds' = holds /\ open' = open /\ marked' = marked
      /\ currentwhite' = currentwhite /\ sweepgc' = sweepgc /\ tmudata' = tmudata
      /\ finalized' = finalized
  BY DEF CycleEnds, heap
<1>2. otherwhite' = otherwhite
  BY <1>1 DEF otherwhite
<1>3. GTypes' /\ Waiting' /\ Kinds'
  BY <1>1 DEF GInv, GTypes, Waiting, Kinds
<1>4. GoodClosed'
  BY <1>1, <1>2 DEF GInv, GoodClosed, Good, Refs, Value
<1>5. Leftovers'
  BY <1>1, <1>2 DEF GInv, Leftovers, ToSweep
<1>6. GrayLists' /\ BlackNotToWhite'
  BY <1>1 DEF GInv, GrayLists, BlackNotToWhite
<1>. QED
  BY <1>3, <1>4, <1>5, <1>6 DEF GInv

LEMMA FullgcKeeps == ASSUME GInv, luaC_fullgc PROVE GInv'
<1>0. GTypes
  BY DEF GInv
<1>1. /\ full' = "sweep" /\ color' = color /\ entry' = entry /\ holds' = holds /\ open' = open
      /\ currentwhite' = currentwhite /\ tmudata' = tmudata /\ finalized' = finalized
  BY DEF luaC_fullgc, heap
<1>2. otherwhite' = otherwhite
  BY <1>1 DEF otherwhite
<1>3. GoodClosed'
  BY <1>1, <1>2 DEF GInv, GoodClosed, Good, Refs, Value
<1>4. CASE gcstate \notin {"pause", "propagate"}
  <2>1. gcstate' = gcstate /\ sweepgc' = sweepgc /\ marked' = marked
    BY <1>4 DEF luaC_fullgc
  <2>2. GTypes' /\ Waiting' /\ Kinds'
    BY <1>1, <2>1 DEF GInv, GTypes, Waiting, Kinds
  <2>3. Leftovers'
    BY <1>1, <1>2, <2>1 DEF GInv, Leftovers, ToSweep, OfSwept
  <2>4. GrayLists' /\ BlackNotToWhite'
    BY <1>4, <2>1 DEF GInv, GrayLists, BlackNotToWhite
  <2>. QED
    BY <1>3, <2>2, <2>3, <2>4 DEF GInv
<1>5. CASE gcstate \in {"pause", "propagate"}
  <2>1. gcstate' = "sweep" /\ sweepgc' = Swept(tmudata)
        /\ marked' = [gray |-> {}, grayagain |-> {}, weak |-> {}]
    BY <1>5 DEF luaC_fullgc
  <2>2. Swept(tmudata) \subseteq All /\ \A o \in Swept(tmudata) : color[o] # "free" /\ o \notin tmudata
    BY DEF Swept, Allocated
  <2>3. GTypes'
    <3>1. marked' \in MarkType
      BY <2>1 DEF MarkType
    <3>. QED
      BY <1>0, <1>1, <2>1, <2>2, <3>1 DEF GTypes
  <2>4. \A o \in All : color[o] # otherwhite
    BY <1>5 DEF GInv, Leftovers, ToSweep
  <2>5. \A o \in All : color[o] \in {"gray", "black"} => o \in tmudata' \/ ToSweep(o)'
    <3>. SUFFICES ASSUME NEW o \in All, color[o] # "free", o \notin tmudata PROVE ToSweep(o)'
      BY <1>1
    <3>1. tmudata \in SUBSET Udata
      BY <1>0 DEF GTypes
    <3>. QED
      BY <1>1, <2>1, <3>1, SweptIsAll DEF ToSweep, OfSwept
  <2>6. Leftovers'
    BY <1>1, <1>2, <2>4, <2>5 DEF Leftovers
  <2>7. Waiting'
    BY <1>1, <2>1, <2>2 DEF GInv, Waiting
  <2>8. Kinds'
    <3>1. \A uv \in Upvals : open[uv] # nil => uv \notin Swept(tmudata)
      BY DEF Swept
    <3>. QED
      BY <1>1, <2>1, <2>2, <3>1 DEF GInv, Kinds
  <2>9. GrayLists' /\ BlackNotToWhite'
    BY <2>1 DEF GrayLists, BlackNotToWhite
  <2>. QED
    BY <1>3, <2>3, <2>6, <2>7, <2>8, <2>9 DEF GInv
<1>. QED
  BY <1>4, <1>5

LEMMA SinglestepKeeps == ASSUME GInv, singlestep PROVE GInv'
BY MarkrootKeeps, PropagateKeeps, SweepKeeps, CycleEndsKeeps, GCTMKeeps DEF singlestep

--------------------------------------------------------------------------------
(* The program *)

\* What an action of the program may do to the color of an object: a new object, or
\* a string that is found dead, gets the current white; out of the mark phase a black
\* one may, and a black table becomes gray; a dead upvalue may be freed.
Recolors ==
  \A o \in All :
    \/ color'[o] = color[o]
    \/ color'[o] = currentwhite /\ (gcstate # "propagate" \/ ~Good(o))
    \/ color'[o] = "gray" /\ color[o] = "black" /\ gcstate # "propagate" /\ o \in Tables
    \/ color'[o] = "free" /\ ~Good(o) /\ o \in Upvals /\ o \notin sweepgc

\* What is referred to was so before, or is alive and no black object is
\* what refers to it while it is white.
RefersAnew ==
  \A o \in All : Good(o)' => \A x \in Refs(o)' :
    \/ Good(o) /\ x \in Refs(o)
    \/ Good(x)' /\ (color'[o] # "black" \/ color'[x] \notin White)

\* Only upvalues of the current white are opened or closed.
Opens == \A uv \in Upvals : color'[uv] \in {otherwhite, "gray", "black"} => open'[uv] = open[uv]

\* The facts on the kinds of objects stay.
KindsKept ==
  /\ \A t \in Tables : entry'[t] = entry[t] \/ (color[t] # "free" /\ color'[t] # "free")
  /\ \A s \in Strings : holds'[s] = holds[s]
  /\ \A co \in Coroutines : \A x, y \in holds'[co] : x = y
  /\ \A uv \in Upvals : open'[uv] # nil =>
       color'[uv] \notin {"free", "black"} /\ color'[open'[uv]] # "free" /\ uv \notin sweepgc

LEMMA PhaseFacts ==
  ASSUME UNCHANGED phase
  PROVE  /\ gcstate' = gcstate /\ currentwhite' = currentwhite /\ sweepgc' = sweepgc
         /\ tmudata' = tmudata /\ finalized' = finalized /\ full' = full
         /\ otherwhite' = otherwhite
BY DEF phase, otherwhite

\* What objects refer to in the next state.
LEMMA RefsNext ==
  ASSUME GTypes', NEW o \in All
  PROVE  Refs(o)' \in SUBSET All
<1>1. CASE o \in Tables
  <2>1. \A e \in entry'[o] : e[1] \in Objects \cup {number} /\ e[2] \in Objects
    <3>1. entry'[o] \subseteq (Objects \cup {number}) \X Objects
      BY <1>1 DEF GTypes
    <3>. QED
      BY <3>1
  <2>2. Refs(o)' = UNION {{e[1], e[2]} \ {number} : e \in entry'[o]}
    BY <1>1 DEF Refs
  <2>. QED
    BY <2>1, <2>2, KindFacts
<1>2. CASE o \in Upvals
  <2>1. o \in All \ Tables /\ Refs(o)' = Value(o)'
    BY <1>2, KindFacts DEF Refs
  <2>2. open'[o] = nil \/ open'[o] \in All \ Tables
    BY <1>2, KindFacts DEF GTypes
  <2>3. Value(o)' = IF open'[o] = nil THEN holds'[o] ELSE holds'[open'[o]]
    BY DEF Value
  <2>4. \A x \in All \ Tables : holds'[x] \subseteq All
    BY KindFacts DEF GTypes
  <2>. QED
    BY <2>1, <2>2, <2>3, <2>4
<1>3. CASE o \notin Tables \cup Upvals
  <2>1. Refs(o)' = holds'[o] /\ holds'[o] \in SUBSET Objects
    BY <1>3 DEF Refs, GTypes
  <2>. QED
    BY <2>1, KindFacts
<1>. QED
  BY <1>1, <1>2, <1>3

LEMMA ChangeKeeps ==
  ASSUME GInv, GTypes', UNCHANGED phase, Recolors, RefersAnew, Opens, KindsKept,
         marked'.gray = marked.gray, gcstate = "propagate" => marked' = marked
  PROVE  GInv'
<1>0. GTypes
  BY DEF GInv
<1>1. /\ gcstate' = gcstate /\ currentwhite' = currentwhite /\ sweepgc' = sweepgc
      /\ tmudata' = tmudata /\ finalized' = finalized /\ full' = full
      /\ otherwhite' = otherwhite
  BY PhaseFacts
<1>2. currentwhite \in White /\ otherwhite \in White /\ otherwhite # currentwhite
  BY <1>0, OtherWhite DEF GTypes
<1>3. \A o \in All : Good(o)' <=> color'[o] \notin {"free", otherwhite}
  BY <1>1 DEF Good
<1>4. \A o \in All : Good(o) => Good(o)'
  BY <1>2, <1>3 DEF Recolors, Good, White
<1>5. \A o \in All : Refs(o) \subseteq All /\ Refs(o)' \subseteq All
  BY <1>0, MarksFacts, KindFacts, RefsNext
<1>6. main \in All
  BY KindFacts
<1>7. GoodClosed'
  BY <1>4, <1>5, <1>6 DEF GInv, GoodClosed, RefersAnew
<1>8. \A o \in All : color'[o] \in {otherwhite, "gray", "black"} /\ OfSwept(o) => OfSwept(o)'
  BY <1>1 DEF Opens, OfSwept
<1>9. \A o \in All : color'[o] \in {otherwhite, "gray", "black"} /\ ToSweep(o) => ToSweep(o)'
  BY <1>1, <1>8 DEF ToSweep
<1>10. Leftovers'
  <2>1. \A o \in All : color'[o] = otherwhite => color[o] = otherwhite
    BY <1>2 DEF Recolors, White
  <2>2. \A o \in All : color'[o] = otherwhite' => ToSweep(o)' /\ (o \in Udata => o \in finalized')
    BY <1>1, <1>9, <2>1 DEF GInv, Leftovers
  <2>3. \A o \in All : color'[o] \in {"gray", "black"} => color[o] \in {"gray", "black"}
    BY <1>2 DEF Recolors, White
  <2>4. gcstate # "propagate" =>
          \A o \in All : color'[o] \in {"gray", "black"} => o \in tmudata \/ ToSweep(o)'
    <3>1. gcstate # "propagate" =>
            \A o \in All : color[o] \in {"gray", "black"} => o \in tmudata \/ ToSweep(o)
      BY DEF GInv, Leftovers
    <3>. QED
      BY <1>9, <2>3, <3>1
  <2>. QED
    BY <1>1, <2>2, <2>4 DEF Leftovers
<1>11. \A u \in tmudata : color'[u] \in {"black", currentwhite}
  <2>. SUFFICES ASSUME NEW u \in tmudata PROVE color'[u] \in {"black", currentwhite}
    OBVIOUS
  <2>1. u \in All /\ u \notin Tables /\ u \notin Upvals
    BY <1>0, KindFacts DEF GTypes
  <2>2. color[u] \in {"black", currentwhite}
    BY DEF GInv, Waiting
  <2>. QED
    BY <2>1, <2>2 DEF Recolors
<1>12. Waiting'
  BY <1>1, <1>11 DEF GInv, Waiting
<1>13. Kinds'
  <2>1. \A t \in Tables : color'[t] = "free" => entry'[t] = {}
    <3>1. \A t \in Tables : t \in All /\ t \notin Upvals
      BY KindFacts
    <3>2. \A t \in Tables : color'[t] = "free" => color[t] = "free"
      BY <1>2, <3>1 DEF Recolors, White
    <3>. QED
      BY <3>2 DEF KindsKept, GInv, Kinds
  <2>2. (\A s \in Strings : holds'[s] = {}) /\ \A co \in Coroutines : \A x, y \in holds'[co] : x = y
    BY DEF KindsKept, GInv, Kinds
  <2>3. \A o \in Strings \cup Threads \cup Weak : color'[o] # "black"
    <3>1. \A o \in Strings \cup Threads \cup Weak : o \in All /\ color[o] # "black"
      BY KindFacts DEF GInv, Kinds
    <3>. QED
      BY <1>2, <3>1 DEF Recolors, White
  <2>4. \A o \in sweepgc : color'[o] # "free"
    <3>1. \A o \in sweepgc : o \in All /\ color[o] # "free"
      BY <1>0 DEF GInv, Kinds, GTypes
    <3>. QED
      BY <1>2, <3>1 DEF Recolors, White
  <2>. QED
    BY <1>1, <2>1, <2>2, <2>3, <2>4 DEF KindsKept, Kinds
<1>14. gcstate = "propagate" => \A o \in All : Good(o) => color'[o] = color[o]
  BY DEF Recolors
<1>15. GrayLists'
  <2>1. CASE gcstate # "propagate"
    BY <1>1, <2>1 DEF GInv, GrayLists
  <2>2. CASE gcstate = "propagate"
    <3>1. \A o \in All : InList(o)' <=> InList(o)
      BY <2>2 DEF InList
    <3>2. color'[main] = "gray"
      BY <1>2, <1>6, <1>14, <2>2 DEF GInv, GrayLists, Good, White
    <3>3. \A o \in All : InList(o)' => color'[o] = "gray"
      BY <1>2, <1>14, <2>2, <3>1 DEF GInv, GrayLists, Good, White
    <3>4. \A o \in All : color'[o] = "gray" => color[o] = "gray"
      BY <1>2, <2>2 DEF Recolors, White
    <3>5. \A o \in All : color'[o] = "gray" =>
            InList(o)' \/ o \in Strings \/ (o \in Upvals /\ open'[o] # nil)
      BY <2>2, <3>1, <3>4 DEF GInv, GrayLists, Opens
    <3>. QED
      BY <1>1, <2>2, <3>2, <3>3, <3>5 DEF GInv, GrayLists
  <2>. QED
    BY <2>1, <2>2
<1>16. BlackNotToWhite'
  <2>. SUFFICES ASSUME gcstate = "propagate", NEW o \in All \ tmudata, color'[o] = "black",
                       NEW x \in Refs(o)'
                PROVE  color'[x] \notin White
    BY <1>1 DEF BlackNotToWhite
  <2>1. color[o] = "black" /\ Good(o)' /\ x \in All
    BY <1>2, <1>3, <1>5 DEF Recolors, White
  <2>2. CASE Good(o) /\ x \in Refs(o)
    <3>1. color[x] \notin White /\ Good(x)
      BY <2>1, <2>2 DEF GInv, BlackNotToWhite, GoodClosed
    <3>. QED
      BY <1>14, <2>1, <3>1
  <2>. QED
    BY <2>1, <2>2 DEF RefersAnew
<1>. QED
  BY <1>7, <1>10, <1>12, <1>13, <1>15, <1>16 DEF GInv

\* While the collector marks, a barrier may mark on.
MarksAnew(m, X) ==
  \A o \in All : Good(o) => \A x \in Refs(o)' :
    \/ o \notin X /\ x \in Refs(o)
    \/ Good(x) /\ (m.color[o] # "black" \/ x \notin Whites(m))

LEMMA MarkingKeeps ==
  ASSUME GInv, GTypes', UNCHANGED phase, gcstate = "propagate", NEW m, NEW X,
         MarkBasic(m), GraySound(m), WaitSound(m), Blacks(m, X),
         \A o \in Strings \cup Threads \cup Weak : m.color[o] # "black",
         color' = m.color, marked' = Lists(m), m.color[main] = "gray",
         MarksAnew(m, X), KindsKept,
         \A uv \in Upvals : color'[uv] = "gray" => open'[uv] = open[uv]
  PROVE  GInv'
<1>0. GTypes
  BY DEF GInv
<1>1. /\ gcstate' = gcstate /\ currentwhite' = currentwhite /\ sweepgc' = sweepgc
      /\ tmudata' = tmudata /\ finalized' = finalized /\ full' = full
      /\ otherwhite' = otherwhite
  BY PhaseFacts
<1>2. currentwhite \in White /\ otherwhite \in White /\ otherwhite # currentwhite
  BY <1>0, OtherWhite DEF GTypes
<1>3. \A o \in All : color[o] # otherwhite
  BY DEF GInv, Leftovers, ToSweep
<1>4. \A o \in All : color'[o] # otherwhite
  BY <1>2 DEF MarkBasic
<1>5. \A o \in All : color'[o] = "free" <=> color[o] = "free"
  BY DEF MarkBasic
<1>6. \A o \in All : Good(o)' <=> Good(o)
  BY <1>1, <1>3, <1>4, <1>5 DEF Good
<1>7. \A o \in All : Refs(o) \subseteq All /\ Refs(o)' \subseteq All
  BY <1>0, MarksFacts, KindFacts, RefsNext
<1>8. GoodClosed'
  BY <1>6, <1>7, KindFacts DEF GInv, GoodClosed, MarksAnew
<1>9. Leftovers' /\ Waiting'
  BY <1>1, <1>4 DEF Leftovers, GInv, Waiting, WaitSound
<1>10. Kinds'
  <2>1. \A t \in Tables : color'[t] = "free" => entry'[t] = {}
    <3>1. \A t \in Tables : t \in All
      BY KindFacts
    <3>. QED
      BY <1>5, <3>1 DEF KindsKept, GInv, Kinds
  <2>2. (\A s \in Strings : holds'[s] = {}) /\ \A co \in Coroutines : \A x, y \in holds'[co] : x = y
    BY DEF KindsKept, GInv, Kinds
  <2>3. \A o \in sweepgc : color'[o] # "free"
    BY <1>0, <1>5 DEF GInv, Kinds, GTypes
  <2>. QED
    BY <1>1, <2>1, <2>2, <2>3 DEF KindsKept, Kinds
<1>11. GrayLists'
  <2>1. marked'.gray = m.gray /\ marked'.grayagain = m.grayagain /\ marked'.weak = m.weak
    BY DEF Lists
  <2>2. \A o : InList(o)' <=> Listing(m, o)
    BY <2>1 DEF InList, Listing
  <2>3. \A o \in All : color'[o] = "gray" =>
          InList(o)' \/ o \in Strings \/ (o \in Upvals /\ open'[o] # nil)
    BY <2>2 DEF GraySound
  <2>. QED
    BY <1>1, <2>1, <2>2, <2>3 DEF GrayLists, GraySound
<1>12. BlackNotToWhite'
  <2>. SUFFICES ASSUME NEW o \in All \ tmudata, color'[o] = "black", NEW x \in Refs(o)'
                PROVE  color'[x] \notin White
    BY <1>1 DEF BlackNotToWhite
  <2>1. x \in All /\ Good(o)
    BY <1>2, <1>3, <1>5, <1>7 DEF Good
  <2>2. x \notin Whites(m)
    BY <2>1 DEF MarksAnew, Blacks
  <2>. QED
    BY <2>1, <2>2 DEF Whites
<1>. QED
  BY <1>8, <1>9, <1>10, <1>11, <1>12 DEF GInv

LEMMA RefsSame ==
  ASSUME GTypes, NEW o \in All, o \in Tables => entry'[o] = entry[o],
         o \notin Tables => holds'[o] = holds[o],
         o \in Upvals => open'[o] = open[o] /\ (open[o] # nil => holds'[open[o]] = holds[open[o]])
  PROVE  Refs(o)' = Refs(o)
<1>1. CASE o \in Tables
  <2>1. Refs(o) = UNION {{e[1], e[2]} \ {number} : e \in entry[o]}
    BY <1>1 DEF Refs
  <2>2. Refs(o)' = UNION {{e[1], e[2]} \ {number} : e \in entry'[o]}
    BY <1>1 DEF Refs
  <2>. QED
    BY <1>1, <2>1, <2>2
<1>2. CASE o \notin Tables
  BY <1>2 DEF Refs, Value
<1>. QED
  BY <1>1, <1>2

\* What is on the main thread's stack is alive.
LEMMA StackFacts ==
  ASSUME GInv
  PROVE  /\ main \in All \ Tables /\ main \notin Upvals /\ Refs(main) = Stack /\ Good(main)
         /\ color[main] # "black" /\ main \notin Coroutines /\ main \notin Strings
         /\ \A v \in Stack : v \in Objects /\ v \in All /\ v # main /\ v # number /\ v # nil /\ Good(v)
<1>1. main \in All \ Tables /\ main \notin Upvals /\ main \notin Coroutines /\ main \notin Strings
      /\ main \in Threads
  BY KindFacts
<1>2. Refs(main) = Stack
  BY <1>1 DEF Refs, Stack
<1>3. Stack \subseteq Objects
  BY <1>1 DEF GInv, GTypes, Stack
<1>4. \A v \in Stack : v \in Objects /\ v \in All /\ v # main /\ v # number /\ v # nil
  BY <1>3, KindFacts
<1>. QED
  BY <1>1, <1>2, <1>4 DEF GInv, GoodClosed, Kinds

LEMMA NewWhite ==
  ASSUME GInv
  PROVE  /\ currentwhite \in White /\ otherwhite \in White /\ otherwhite # currentwhite
         /\ currentwhite \in Colors /\ currentwhite \notin {"free", "gray", "black"}
         /\ otherwhite \notin {"free", "gray", "black"}
BY OtherWhite DEF GInv, GTypes, White, Colors

\* An upvalue's stack is the one of a coroutine that is there.
LEMMA OpenFacts ==
  ASSUME GInv, NEW uv \in Upvals, open[uv] # nil
  PROVE  /\ open[uv] \in Coroutines /\ open[uv] \in All \ Tables /\ open[uv] # main
         /\ open[uv] \notin Upvals /\ color[open[uv]] # "free" /\ uv \in All
         /\ color[uv] \notin {"free", "black"} /\ uv \notin sweepgc
<1>1. open[uv] \in Coroutines
  BY DEF GInv, GTypes
<1>2. open[uv] \in All \ Tables /\ open[uv] # main /\ open[uv] \notin Upvals /\ uv \in All
  BY <1>1, KindFacts
<1>. QED
  BY <1>1, <1>2 DEF GInv, Kinds

LEMMA LinkKeeps == ASSUME GInv, NEW o \in Objects, luaC_link(o) PROVE GInv'
<1>0. GTypes
  BY DEF GInv
<1>1. /\ color[o] = "free" /\ o \in Tables \cup Udata \cup Coroutines \cup Functions
      /\ color' = [color EXCEPT ![o] = currentwhite]
      /\ entry' = entry /\ open' = open /\ marked' = marked /\ UNCHANGED phase
  BY DEF luaC_link
<1>2. PICK S \in SUBSET Stack :
        /\ holds' = [x \in All \ Tables |-> IF x = o THEN S ELSE Pushed(o)[x]]
        /\ o \notin Functions => S = {}
  BY DEF luaC_link
<1>3. o \in All /\ o # main /\ o \notin Upvals /\ o \notin Strings
  BY <1>1, KindFacts
<1>4. \A x \in All : color'[x] = IF x = o THEN currentwhite ELSE color[x]
  BY <1>0, <1>1 DEF GTypes
<1>5. \A x \in All \ Tables : holds'[x] = IF x = o THEN S ELSE IF x = main THEN Stack \cup {o} ELSE holds[x]
  BY <1>0, <1>2 DEF GTypes, Pushed, Stack
<1>6. Good(o)' /\ ~Good(o)
  BY <1>1, <1>3, <1>4, NewWhite, PhaseFacts DEF Good
<1>7. \A x \in All : x # o => (Good(x)' <=> Good(x))
  BY <1>1, <1>4, PhaseFacts DEF Good
<1>8. \A uv \in Upvals : open[uv] # nil => open[uv] # o
  BY <1>1, OpenFacts
<1>9. GTypes'
  <2>1. color' \in [All -> Colors]
    BY <1>0, <1>1, NewWhite DEF GTypes
  <2>2. S \subseteq Objects /\ Stack \subseteq Objects
    BY StackFacts
  <2>3. \A x \in All \ Tables : holds'[x] \in SUBSET Objects
    BY <1>0, <1>5, <2>2 DEF GTypes
  <2>4. holds' \in [All \ Tables -> SUBSET Objects]
    BY <1>2, <2>3
  <2>. QED
    BY <1>0, <1>1, <2>1, <2>4, PhaseFacts DEF GTypes
<1>10. Recolors
  BY <1>4, <1>6 DEF Recolors
<1>11. RefersAnew
  <2>. SUFFICES ASSUME NEW x \in All, Good(x)', NEW y \in Refs(x)'
                PROVE  \/ Good(x) /\ y \in Refs(x)
                       \/ Good(y)' /\ (color'[x] # "black" \/ color'[y] \notin White)
    BY DEF RefersAnew
  <2>1. CASE x = main
    <3>1. Refs(main)' = Stack \cup {o}
      BY <1>3, <1>5, StackFacts DEF Refs
    <3>. QED
      BY <1>3, <1>4, <1>6, <2>1, <3>1, StackFacts
  <2>2. CASE x = o
    <3>1. Refs(o)' \subseteq Stack
      <4>1. CASE o \in Tables
        <5>1. entry'[o] = {}
          BY <1>1, <4>1 DEF GInv, Kinds
        <5>. QED
          BY <4>1, <5>1 DEF Refs
      <4>2. CASE o \notin Tables
        BY <1>3, <1>5, <4>2 DEF Refs
      <4>. QED
        BY <4>1, <4>2
    <3>2. Good(y) /\ y \in All /\ y # o
      BY <1>6, <2>2, <3>1, StackFacts
    <3>. QED
      BY <1>4, <1>7, <2>2, <3>2, NewWhite
  <2>3. CASE x # main /\ x # o
    <3>1. x \notin Tables => holds'[x] = holds[x]
      BY <1>5, <2>3
    <3>2. x \in Upvals => (open[x] # nil => holds'[open[x]] = holds[open[x]])
      BY <1>5, <1>8, OpenFacts
    <3>3. Refs(x)' = Refs(x)
      BY <1>0, <1>1, <3>1, <3>2, RefsSame
    <3>. QED
      BY <1>7, <2>3, <3>3
  <2>. QED
    BY <2>1, <2>2, <2>3
<1>12. Opens
  BY <1>1 DEF Opens
<1>13. KindsKept
  <2>1. \A s \in Strings : holds'[s] = holds[s]
    BY <1>3, <1>5, StackFacts, KindFacts
  <2>2. \A co \in Coroutines : \A x, y \in holds'[co] : x = y
    <3>. SUFFICES ASSUME NEW co \in Coroutines PROVE \A x, y \in holds'[co] : x = y
      OBVIOUS
    <3>1. co \in All \ Tables /\ co # main /\ co \notin Functions
      BY KindFacts
    <3>. QED
      BY <1>2, <1>5, <3>1 DEF GInv, Kinds
  <2>3. \A uv \in Upvals : open'[uv] # nil =>
          color'[uv] \notin {"free", "black"} /\ color'[open'[uv]] # "free" /\ uv \notin sweepgc
    BY <1>1, <1>3, <1>4, <1>8, OpenFacts
  <2>. QED
    BY <1>1, <2>1, <2>2, <2>3 DEF KindsKept
<1>. QED
  BY <1>1, <1>9, <1>10, <1>11, <1>12, <1>13, ChangeKeeps

\* The main thread's stack changes; strings that were free or dead are there again.
LEMMA StackChangeKeeps ==
  ASSUME GInv, UNCHANGED << entry, open, marked, phase >>, NEW T \in SUBSET Objects,
         holds' = [holds EXCEPT ![main] = T], NEW F \in SUBSET Strings, \A s \in F : ~Good(s),
         color' = [o \in All |-> IF o \in F THEN currentwhite ELSE color[o]],
         \A v \in T : v \in F \/ Good(v)
  PROVE  GInv'
<1>0. GTypes
  BY DEF GInv
<1>1. F \subseteq All /\ F \cap (Tables \cup Upvals \cup Threads) = {} /\ main \notin F
  BY KindFacts
<1>2. \A x \in All \ Tables : holds'[x] = IF x = main THEN T ELSE holds[x]
  BY <1>0 DEF GTypes
<1>3. \A x \in F : Good(x)' /\ ~Good(x)
  BY <1>1, NewWhite, PhaseFacts DEF Good
<1>4. \A x \in All : x \notin F => (Good(x)' <=> Good(x))
  BY PhaseFacts DEF Good
<1>5. GTypes'
  <2>1. color' \in [All -> Colors]
    BY <1>0, NewWhite DEF GTypes
  <2>2. holds' \in [All \ Tables -> SUBSET Objects]
    BY <1>0 DEF GTypes
  <2>. QED
    BY <1>0, <2>1, <2>2, PhaseFacts DEF GTypes
<1>6. Recolors
  BY <1>3 DEF Recolors
<1>7. RefersAnew
  <2>. SUFFICES ASSUME NEW x \in All, Good(x)', NEW y \in Refs(x)'
                PROVE  \/ Good(x) /\ y \in Refs(x)
                       \/ Good(y)' /\ (color'[x] # "black" \/ color'[y] \notin White)
    BY DEF RefersAnew
  <2>1. CASE x = main
    <3>1. Refs(main)' = T /\ color'[main] # "black"
      BY <1>1, <1>2, StackFacts DEF Refs
    <3>2. T \subseteq All
      BY KindFacts
    <3>. QED
      BY <1>3, <1>4, <2>1, <3>1, <3>2
  <2>2. CASE x # main
    <3>1. Refs(x)' = Refs(x)
      BY <1>0, <1>2, <2>2, OpenFacts, RefsSame
    <3>2. x \in F => Refs(x) = {}
      BY <1>1 DEF Refs, GInv, Kinds
    <3>. QED
      BY <1>4, <3>1, <3>2
  <2>. QED
    BY <2>1, <2>2
<1>8. Opens
  BY DEF Opens
<1>9. KindsKept
  <2>1. \A x \in Strings \cup Coroutines : x \in All \ Tables /\ x # main
    BY KindFacts
  <2>2. \A uv \in Upvals : open'[uv] # nil =>
          color'[uv] \notin {"free", "black"} /\ color'[open'[uv]] # "free" /\ uv \notin sweepgc
    BY <1>1, OpenFacts, NewWhite
  <2>. QED
    BY <1>2, <2>1, <2>2 DEF KindsKept, GInv, Kinds
<1>. QED
  BY <1>5, <1>6, <1>7, <1>8, <1>9, ChangeKeeps

LEMMA NewlstrKeeps == ASSUME GInv, NEW s \in Strings, luaS_newlstr(s) PROVE GInv'
<1>. DEFINE F == IF Good(s) THEN {} ELSE {s}
<1>1. s \in All /\ s \in Objects
  BY KindFacts
<1>2. color[s] = "free" \/ isdead(s) <=> ~Good(s)
  BY DEF isdead, Good
<1>3. color' = [o \in All |-> IF o \in F THEN currentwhite ELSE color[o]]
  BY <1>1, <1>2 DEF luaS_newlstr, GInv, GTypes
<1>4. holds' = [holds EXCEPT ![main] = Stack \cup {s}]
  BY DEF luaS_newlstr, Pushed, Stack
<1>5. Stack \cup {s} \in SUBSET Objects /\ \A v \in Stack \cup {s} : v \in F \/ Good(v)
  BY <1>1, StackFacts
<1>6. F \in SUBSET Strings /\ \A x \in F : ~Good(x)
  OBVIOUS
<1>7. UNCHANGED << entry, open, marked, phase >>
  BY DEF luaS_newlstr
<1>. QED
  BY <1>3, <1>4, <1>5, <1>6, <1>7, StackChangeKeeps

LEMMA StackOnlyKeeps ==
  ASSUME GInv, NEW T \in SUBSET Objects,
         UNCHANGED << color, entry, open, marked, phase >>, holds' = [holds EXCEPT ![main] = T], \A v \in T : Good(v)
  PROVE  GInv'
<1>. DEFINE F == {x \in Strings : FALSE}
<1>1. color' = [x \in All |-> IF x \in F THEN currentwhite ELSE color[x]]
  BY DEF GInv, GTypes
<1>2. F \in SUBSET Strings /\ \A x \in F : ~Good(x)
  OBVIOUS
<1>. HIDE DEF F
<1>. QED
  BY <1>1, <1>2, StackChangeKeeps

LEMMA GetKeeps == ASSUME GInv, NEW o \in Objects, Get(o) PROVE GInv'
<1>1. PICK x \in Stack : o \in Refs(x) \/ \E uv \in Refs(x) \cap Upvals : o \in Value(uv)
  BY DEF Get
<1>2. Good(o)
  <2>1. x \in All /\ Good(x)
    BY StackFacts
  <2>2. CASE o \in Refs(x)
    BY <2>1, <2>2 DEF GInv, GoodClosed
  <2>3. CASE \E uv \in Refs(x) \cap Upvals : o \in Value(uv)
    <3>1. PICK uv \in Refs(x) \cap Upvals : o \in Value(uv)
      BY <2>3
    <3>2. Good(uv)
      BY <2>1 DEF GInv, GoodClosed
    <3>3. uv \in All /\ Refs(uv) = Value(uv)
      BY KindFacts DEF Refs
    <3>. QED
      BY <3>1, <3>2, <3>3 DEF GInv, GoodClosed
  <2>. QED
    BY <1>1, <2>2, <2>3
<1>3. holds' = [holds EXCEPT ![main] = Stack \cup {o}] /\ color' = color
      /\ UNCHANGED << entry, open, marked, phase >>
  BY DEF Get, Pushed, Stack
<1>4. Stack \cup {o} \in SUBSET Objects /\ \A v \in Stack \cup {o} : Good(v)
  BY <1>2, StackFacts
<1>. QED
  BY <1>3, <1>4, StackOnlyKeeps

LEMMA PopKeeps == ASSUME GInv, NEW o \in Objects, Pop(o) PROVE GInv'
<1>1. holds' = [holds EXCEPT ![main] = Stack \ {o}] /\ color' = color
      /\ UNCHANGED << entry, open, marked, phase >>
  BY DEF Pop, Stack
<1>2. Stack \ {o} \in SUBSET Objects /\ \A v \in Stack \ {o} : Good(v)
  BY StackFacts
<1>. QED
  BY <1>1, <1>2, StackOnlyKeeps

\* A coroutine's stack is written: no object that refers to it there is ever black.
LEMMA WriteStackKeeps ==
  ASSUME GInv, NEW co \in Coroutines, NEW v \in Stack, holds' = [holds EXCEPT ![co] = {v}],
         UNCHANGED << color, entry, open, marked, phase >>
  PROVE  GInv'
<1>0. GTypes
  BY DEF GInv
<1>1. co \in All \ Tables /\ co # main /\ co \notin Upvals /\ co \in Threads
  BY KindFacts
<1>2. \A x \in All \ Tables : holds'[x] = IF x = co THEN {v} ELSE holds[x]
  BY <1>0, <1>1 DEF GTypes
<1>3. v \in Objects /\ v \in All /\ Good(v)
  BY StackFacts
<1>4. \A x \in All : Good(x)' <=> Good(x)
  BY PhaseFacts DEF Good
<1>5. GTypes'
  <2>1. holds' \in [All \ Tables -> SUBSET Objects]
    BY <1>0, <1>1, <1>3 DEF GTypes
  <2>. QED
    BY <1>0, <2>1, PhaseFacts DEF GTypes
<1>6. RefersAnew
  <2>. SUFFICES ASSUME NEW x \in All, Good(x)', NEW y \in Refs(x)'
                PROVE  \/ Good(x) /\ y \in Refs(x)
                       \/ Good(y)' /\ (color'[x] # "black" \/ color'[y] \notin White)
    BY DEF RefersAnew
  <2>1. CASE x = co
    <3>1. Refs(x)' = {v} /\ color[x] # "black"
      BY <1>1, <1>2, <2>1 DEF Refs, GInv, Kinds
    <3>. QED
      BY <1>3, <1>4, <3>1
  <2>2. CASE x \in Upvals /\ open[x] = co
    <3>1. open[x] # nil
      BY <1>1, <2>2, KindFacts
    <3>2. Refs(x)' = {v} /\ color[x] # "black"
      BY <1>1, <1>2, <2>2, <3>1, OpenFacts, KindFacts DEF Refs, Value
    <3>. QED
      BY <1>3, <1>4, <3>2
  <2>3. CASE x # co /\ ~(x \in Upvals /\ open[x] = co)
    <3>1. Refs(x)' = Refs(x)
      BY <1>0, <1>2, <2>3, OpenFacts, RefsSame
    <3>. QED
      BY <1>4, <3>1
  <2>. QED
    BY <2>1, <2>2, <2>3
<1>7. KindsKept
  <2>1. \A x \in Strings : x \in All \ Tables /\ x # co
    BY KindFacts
  <2>2. \A x \in Coroutines : x \in All \ Tables
    BY KindFacts
  <2>3. \A uv \in Upvals : open[uv] # nil =>
          color[uv] \notin {"free", "black"} /\ color[open[uv]] # "free" /\ uv \notin sweepgc
    BY OpenFacts
  <2>. QED
    BY <1>2, <2>1, <2>2, <2>3 DEF KindsKept, GInv, Kinds
<1>8. Recolors /\ Opens
  BY DEF Recolors, Opens
<1>. QED
  BY <1>5, <1>6, <1>7, <1>8, ChangeKeeps

LEMMA SetStackKeeps ==
  ASSUME GInv, NEW co \in Coroutines, NEW v \in Stack, SetStack(co, v) PROVE GInv'
BY WriteStackKeeps DEF SetStack

LEMMA ListsMark == ASSUME GTypes PROVE Lists(Mark) = marked
BY DEF GTypes, MarkType, Lists, Mark

\* A table refers to what is alive, and is not black, or what it refers to is found.
LEMMA TableKeeps ==
  ASSUME GInv, GTypes', NEW t \in Tables, Good(t), UNCHANGED << holds, open, phase >>,
         NEW E, entry' = [entry EXCEPT ![t] = E], Recolors, \A x \in All : Good(x)' <=> Good(x),
         \A x \in Refs(t)' : x \in Refs(t) \/ (Good(x)' /\ (color'[t] # "black" \/ color'[x] \notin White)),
         \A o \in All \ {t} : color'[o] = color[o],
         marked'.gray = marked.gray, gcstate = "propagate" => marked' = marked
  PROVE  GInv'
<1>0. GTypes
  BY DEF GInv
<1>1. t \in All /\ t \notin Strings /\ t \notin Coroutines /\ t \notin Upvals
  BY KindFacts
<1>2. \A x \in Tables : x # t => entry'[x] = entry[x]
  BY <1>0 DEF GTypes
<1>3. RefersAnew
  <2>1. \A x \in All : x # t => Refs(x)' = Refs(x)
    BY <1>0, <1>2, RefsSame
  <2>. QED
    BY <2>1 DEF RefersAnew
<1>4. Opens
  BY DEF Opens
<1>5. KindsKept
  <2>1. color[t] # "free" /\ color'[t] # "free"
    BY <1>1 DEF Good
  <2>2. \A uv \in Upvals : open'[uv] # nil =>
          color'[uv] \notin {"free", "black"} /\ color'[open'[uv]] # "free" /\ uv \notin sweepgc
    BY <1>1, OpenFacts
  <2>. QED
    BY <1>2, <2>1, <2>2 DEF KindsKept, GInv, Kinds
<1>. QED
  BY <1>3, <1>4, <1>5, ChangeKeeps

LEMMA SetNilKeeps == ASSUME GInv, NEW t \in Tables, SetNil(t) PROVE GInv'
<1>1. /\ entry' = [entry EXCEPT ![t] = {}] /\ holds' = holds /\ open' = open /\ UNCHANGED phase
      /\ color' = color /\ marked' = marked
  BY DEF SetNil
<1>2. GTypes'
  BY <1>1, PhaseFacts DEF GInv, GTypes
<1>3. Good(t)
  BY StackFacts DEF SetNil
<1>4. Refs(t)' = {}
  <2>1. entry'[t] = {}
    BY <1>1 DEF GInv, GTypes
  <2>. QED
    BY <2>1 DEF Refs
<1>5. \A x \in All : Good(x)' <=> Good(x)
  BY <1>1, PhaseFacts DEF Good
<1>6. Recolors
  BY <1>1 DEF Recolors
<1>. QED
  BY <1>1, <1>2, <1>3, <1>4, <1>5, <1>6, TableKeeps

LEMMA SetTableKeeps ==
  ASSUME GInv, NEW t \in Tables, NEW k \in Stack \cup {number}, NEW v \in Stack, SetTable(t, k, v)
  PROVE  GInv'
<1>. DEFINE S == {k, v} \ {number}
            m == luaC_barrierback(t, S)
            E == {<< k, v >>}
<1>0. GTypes
  BY DEF GInv
<1>1. /\ entry' = [entry EXCEPT ![t] = E] /\ holds' = holds /\ open' = open
      /\ color' = m.color /\ marked' = Lists(m) /\ UNCHANGED phase
  BY DEF SetTable, Changed
<1>2. t \in Stack
  BY DEF SetTable
<1>3. Good(t) /\ t \in All
  BY <1>2, StackFacts
<1>4. S \subseteq Stack /\ v # number
  BY StackFacts
<1>5. \A x \in S : x \in Objects /\ x \in All /\ Good(x)
  BY <1>4, StackFacts
<1>6. Refs(t)' = S
  <2>1. entry'[t] = {<< k, v >>}
    BY <1>0, <1>1 DEF GTypes
  <2>2. Refs(t)' = UNION {{e[1], e[2]} \ {number} : e \in entry'[t]}
    BY DEF Refs
  <2>. QED
    BY <2>1, <2>2
<1>7. entry' \in [Tables -> SUBSET ((Objects \cup {number}) \X Objects)]
  <2>1. E \in SUBSET ((Objects \cup {number}) \X Objects)
    BY StackFacts
  <2>. QED
    BY <1>0, <1>1, <2>1 DEF GTypes
<1>8. m = IF color[t] = "black" /\ \E x \in S : color[x] \in White
          THEN [Mark EXCEPT !.color[t] = "gray", !.grayagain = @ \cup {t}] ELSE Mark
  BY DEF luaC_barrierback
<1>9. currentwhite \in White /\ otherwhite \in White /\ "gray" \notin White /\ "black" \notin White
  BY NewWhite DEF White
<1>. HIDE DEF m, S, E
<1>10. CASE ~(color[t] = "black" /\ \E x \in S : color[x] \in White)
  <2>1. color' = color /\ marked' = marked
    BY <1>0, <1>1, <1>8, <1>10, ListsMark DEF Mark
  <2>2. GTypes'
    BY <1>0, <1>1, <1>7, <2>1, PhaseFacts DEF GTypes
  <2>3. (\A x \in All : Good(x)' <=> Good(x)) /\ Recolors
    BY <1>1, <2>1, PhaseFacts DEF Good, Recolors
  <2>4. \A x \in Refs(t)' : Good(x)' /\ (color'[t] # "black" \/ color'[x] \notin White)
    BY <1>5, <1>6, <1>10, <2>1, <2>3
  <2>. QED
    BY <1>1, <1>3, <2>1, <2>2, <2>3, <2>4, TableKeeps
<1>11. CASE color[t] = "black" /\ \E x \in S : color[x] \in White
  <2>1. t \in Listed \ Weak /\ t \notin Udata /\ t \notin Strings \cup Threads /\ t \notin Upvals
    BY <1>11, KindFacts DEF GInv, Kinds
  <2>2. /\ m.color = [color EXCEPT ![t] = "gray"] /\ m.gray = marked.gray
        /\ m.grayagain = marked.grayagain \cup {t} /\ m.weak = marked.weak
        /\ m \in MT
    <3>1. [color EXCEPT ![t] = "gray"] \in [All -> Colors]
      BY <1>0 DEF GTypes, Colors
    <3>2. m = [color |-> [color EXCEPT ![t] = "gray"], gray |-> marked.gray,
               grayagain |-> marked.grayagain \cup {t}, weak |-> marked.weak]
      BY <1>8, <1>11 DEF Mark
    <3>. QED
      BY <1>0, <2>1, <3>1, <3>2 DEF GTypes, MarkType, MT
  <2>3. \A x \in All : color'[x] = IF x = t THEN "gray" ELSE color[x]
    BY <1>0, <1>1, <2>2 DEF GTypes
  <2>4. GTypes'
    <3>1. color' \in [All -> Colors] /\ marked' \in MarkType
      BY <1>1, <2>2 DEF MT, MarkType, Lists
    <3>. QED
      BY <1>0, <1>1, <1>7, <3>1, PhaseFacts DEF GTypes
  <2>5. \A x \in All : Good(x)' <=> Good(x)
    BY <1>1, <1>9, <1>11, <2>3, PhaseFacts DEF Good
  <2>6. marked'.gray = marked.gray
    BY <1>1, <2>2 DEF Lists
  <2>7. CASE gcstate # "propagate"
    <3>1. Recolors
      BY <1>11, <2>3, <2>7 DEF Recolors
    <3>2. \A x \in Refs(t)' : Good(x)' /\ color'[t] # "black"
      BY <1>3, <1>5, <1>6, <2>3, <2>5
    <3>3. \A o \in All \ {t} : color'[o] = color[o]
      BY <2>3
    <3>. QED
      BY <1>1, <1>3, <2>4, <2>5, <2>6, <2>7, <3>1, <3>2, <3>3, TableKeeps
  <2>8. CASE gcstate = "propagate"
    <3>1. /\ MarkBasic(Mark) /\ GraySound(Mark) /\ WaitSound(Mark) /\ Blacks(Mark, {})
          /\ color[main] = "gray" /\ Mark.gray = marked.gray /\ Mark.grayagain = marked.grayagain
          /\ Mark.weak = marked.weak /\ Mark.color = color
      BY <2>8, PhaseSound DEF MarkSound, Mark
    <3>2. \A x \in All : m.color[x] = IF x = t THEN "gray" ELSE color[x]
      BY <1>1, <2>3
    <3>3. \A x \in All : Alive(m, x) <=> Alive(Mark, x)
      BY <1>9, <1>11, <3>1, <3>2 DEF Alive
    <3>4. Whites(m) = Whites(Mark)
      BY <1>9, <1>11, <3>1, <3>2 DEF Whites
    <3>5. marked.gray \cup marked.grayagain \cup marked.weak \subseteq All
      BY <1>0, KindFacts DEF GTypes, MarkType
    <3>6. MarkBasic(m)
      <4>1. \A x \in All : m.color[x] = "free" <=> color[x] = "free"
        BY <1>11, <3>2
      <4>2. \A x \in All : m.color[x] \in White => m.color[x] = currentwhite
        BY <1>9, <3>1, <3>2 DEF MarkBasic
      <4>3. Alive(m, t)
        BY <1>3, <1>9, <3>2 DEF Alive
      <4>4. \A x \in m.gray \cup m.grayagain \cup m.weak : Alive(m, x)
        BY <2>2, <3>1, <3>3, <3>5, <4>3 DEF MarkBasic
      <4>5. \A x \in Weak : Alive(m, x) => x \in m.gray \cup m.weak
        BY <2>2, <3>1, <3>3, KindFacts DEF MarkBasic
      <4>. QED
        BY <2>2, <4>1, <4>2, <4>4, <4>5 DEF MarkBasic
    <3>7. GraySound(m)
      <4>1. t \notin marked.gray
        BY <1>3, <1>11, <3>1 DEF GraySound, Listing
      <4>2. \A x \in All : Listing(m, x) <=> x = t \/ Listing(Mark, x)
        BY <2>2, <3>1 DEF Listing
      <4>3. m.gray \cap m.grayagain = {} /\ m.gray \cap m.weak = {}
        BY <2>2, <3>1, <4>1 DEF GraySound
      <4>. QED
        BY <3>1, <3>2, <4>2, <4>3 DEF GraySound
    <3>8. WaitSound(m) /\ Blacks(m, {})
      <4>1. \A u \in tmudata : u \in All /\ u # t
        BY <1>0, <2>1, KindFacts DEF GTypes
      <4>. QED
        BY <3>1, <3>2, <3>4, <4>1 DEF WaitSound, Blacks
    <3>9. \A o \in Strings \cup Threads \cup Weak : m.color[o] # "black"
      <4>1. \A o \in Strings \cup Threads \cup Weak : o \in All /\ color[o] # "black"
        BY KindFacts DEF GInv, Kinds
      <4>. QED
        BY <3>2, <4>1
    <3>10. m.color[main] = "gray"
      BY <3>1, <3>2, KindFacts
    <3>11. MarksAnew(m, {})
      <4>1. \A x \in All : x # t => Refs(x)' = Refs(x)
        BY <1>0, <1>1, RefsSame DEF GTypes
      <4>2. \A x \in Refs(t)' : Good(x) /\ m.color[t] # "black"
        BY <1>3, <1>5, <1>6, <3>2
      <4>. QED
        BY <4>1, <4>2 DEF MarksAnew
    <3>12. KindsKept
      <4>1. \A x \in Tables : entry'[x] = entry[x] \/ (color[x] # "free" /\ color'[x] # "free")
        BY <1>0, <1>1, <1>3, <1>11, <2>3 DEF GTypes
      <4>2. \A uv \in Upvals : open'[uv] # nil =>
              color'[uv] \notin {"free", "black"} /\ color'[open'[uv]] # "free" /\ uv \notin sweepgc
        BY <1>1, <2>3, OpenFacts
      <4>. QED
        BY <1>1, <4>1, <4>2 DEF KindsKept, GInv, Kinds
    <3>. QED
      BY <1>1, <2>4, <2>8, <3>6, <3>7, <3>8, <3>9, <3>10, <3>11, <3>12, MarkingKeeps
  <2>. QED
    BY <2>7, <2>8
<1>. QED
  BY <1>10, <1>11

\* A userdata, a function or a closed upvalue comes to refer to v, with the barrier.
LEMMA BarrierKeeps ==
  ASSUME GInv, NEW o \in Udata \cup Functions \cup Upvals, o \in Upvals => open[o] = nil,
         Good(o), NEW v \in Stack, holds' = [holds EXCEPT ![o] = {v}],
         Changed(luaC_barrier(color, o, v)), UNCHANGED << entry, open >>
  PROVE  GInv'
<1>. DEFINE m == luaC_barrier(color, o, v)
<1>0. GTypes
  BY DEF GInv
<1>1. color' = m.color /\ marked' = Lists(m) /\ UNCHANGED phase /\ entry' = entry /\ open' = open
  BY DEF Changed
<1>2. /\ o \in All \ Tables /\ o # main /\ o \notin Coroutines /\ o \notin Strings
      /\ o \notin Tables /\ o \notin Threads
  BY KindFacts
<1>3. v \in Objects /\ v \in All /\ Good(v)
  BY StackFacts
<1>4. \A x \in All \ Tables : holds'[x] = IF x = o THEN {v} ELSE holds[x]
  BY <1>0 DEF GTypes
<1>5. Refs(o)' = {v}
  BY <1>1, <1>2, <1>4 DEF Refs, Value
<1>6. \A x \in All : x # o => Refs(x)' = Refs(x)
  <2>1. \A uv \in Upvals : open[uv] # nil => open[uv] # o /\ open[uv] \in All \ Tables
    BY <1>2, OpenFacts
  <2>. QED
    BY <1>0, <1>1, <1>4, <2>1, RefsSame
<1>7. holds' \in [All \ Tables -> SUBSET Objects]
  BY <1>0, <1>3 DEF GTypes
<1>8. \A s \in Strings : holds'[s] = holds[s]
  BY <1>2, <1>4, KindFacts
<1>9. \A co \in Coroutines : \A x, y \in holds'[co] : x = y
  BY <1>2, <1>4, KindFacts DEF GInv, Kinds
<1>10. [Mark EXCEPT !.color = color] = Mark
  BY DEF Mark
<1>11. CASE color[o] # "black" \/ color[v] \notin White
  <2>1. color' = color /\ marked' = marked
    <3>1. m = Mark
      BY <1>10, <1>11 DEF luaC_barrier
    <3>. QED
      BY <1>0, <1>1, <3>1, ListsMark DEF Mark
  <2>2. GTypes'
    BY <1>0, <1>1, <1>7, <2>1, PhaseFacts DEF GTypes
  <2>3. \A x \in All : Good(x)' <=> Good(x)
    BY <1>1, <2>1, PhaseFacts DEF Good
  <2>4. Recolors /\ Opens
    BY <1>1, <2>1 DEF Recolors, Opens
  <2>5. RefersAnew
    BY <1>3, <1>5, <1>6, <1>11, <2>1, <2>3 DEF RefersAnew
  <2>6. KindsKept
    BY <1>1, <1>8, <1>9, <2>1, OpenFacts DEF KindsKept
  <2>. QED
    BY <1>1, <2>1, <2>2, <2>4, <2>5, <2>6, ChangeKeeps
<1>12. CASE color[o] = "black" /\ color[v] \in White /\ gcstate # "propagate"
  <2>1. color' = [color EXCEPT ![o] = currentwhite] /\ marked' = marked
    <3>1. m = [Mark EXCEPT !.color = [color EXCEPT ![o] = currentwhite]]
      BY <1>12 DEF luaC_barrier
    <3>2. m.color = [color EXCEPT ![o] = currentwhite] /\ Lists(m) = Lists(Mark)
      BY <3>1 DEF Mark, Lists
    <3>. QED
      BY <1>0, <1>1, <3>2, ListsMark
  <2>2. \A x \in All : color'[x] = IF x = o THEN currentwhite ELSE color[x]
    BY <1>0, <2>1 DEF GTypes
  <2>3. GTypes'
    <3>1. color' \in [All -> Colors]
      BY <1>0, <2>1, NewWhite DEF GTypes
    <3>. QED
      BY <1>0, <1>1, <1>7, <2>1, <3>1, PhaseFacts DEF GTypes
  <2>4. \A x \in All : Good(x)' <=> Good(x)
    BY <1>1, <1>12, <2>2, NewWhite, PhaseFacts DEF Good
  <2>5. Recolors /\ Opens
    BY <1>1, <1>12, <2>2 DEF Recolors, Opens
  <2>6. RefersAnew
    BY <1>2, <1>3, <1>5, <1>6, <2>2, <2>4, NewWhite DEF RefersAnew
  <2>7. KindsKept
    <3>1. \A uv \in Upvals : open'[uv] # nil =>
            color'[uv] \notin {"free", "black"} /\ color'[open'[uv]] # "free" /\ uv \notin sweepgc
      BY <1>1, <2>2, OpenFacts, NewWhite
    <3>. QED
      BY <1>1, <1>8, <1>9, <3>1 DEF KindsKept
  <2>. QED
    BY <1>1, <1>12, <2>1, <2>3, <2>5, <2>6, <2>7, ChangeKeeps
<1>13. CASE color[o] = "black" /\ color[v] \in White /\ gcstate = "propagate"
  <2>1. m = mark(Mark, {v})
    BY <1>10, <1>13 DEF luaC_barrier
  <2>2. /\ MarkBasic(Mark) /\ GraySound(Mark) /\ WaitSound(Mark) /\ Blacks(Mark, {})
        /\ MarkSound(Mark) /\ Mark.color[main] = "gray" /\ {v} \in SUBSET All
    BY <1>3, <1>13, PhaseSound DEF MarkSound
  <2>. HIDE DEF m
  <2>3. /\ MarkBasic(m) /\ GraySound(m) /\ WaitSound(m) /\ Blacks(m, {}) /\ {v} \cap Whites(m) = {}
        /\ \A x \in All : Mark.color[x] \notin White => m.color[x] = Mark.color[x]
    BY <1>0, <2>1, <2>2, MarkKeeps
  <2>4. MarkSound(m)
    BY <1>0, <2>1, <2>2, MarkSoundMark
  <2>5. m.color[main] = "gray"
    BY <2>2, <2>3, KindFacts DEF White
  <2>6. \A x \in All : m.color[x] = "free" <=> color[x] = "free"
    BY <2>3 DEF MarkBasic
  <2>7. \A x \in All : Traversed(x) = "gray" /\ color[x] # "black" => m.color[x] # "black"
    BY <2>4 DEF MarkSound, NeverBlack
  <2>8. \A x \in Strings \cup Threads \cup Weak : m.color[x] # "black"
    <3>1. \A x \in Strings \cup Threads \cup Weak :
            x \in All /\ Traversed(x) = "gray" /\ color[x] # "black"
      BY KindFacts DEF Traversed, GInv, Kinds
    <3>. QED
      BY <2>7, <3>1
  <2>9. GTypes'
    <3>1. color' \in [All -> Colors] /\ marked' \in MarkType
      BY <1>1, <2>3 DEF MarkBasic, MT, MarkType, Lists
    <3>. QED
      BY <1>0, <1>1, <1>7, <3>1, PhaseFacts DEF GTypes
  <2>10. MarksAnew(m, {})
    BY <1>3, <1>5, <1>6, <2>3 DEF MarksAnew
  <2>11. KindsKept
    <3>1. \A uv \in Upvals : open'[uv] # nil =>
            color'[uv] \notin {"free", "black"} /\ color'[open'[uv]] # "free" /\ uv \notin sweepgc
      <4>1. \A uv \in Upvals : open[uv] # nil => Traversed(uv) = "gray"
        BY DEF Traversed
      <4>. QED
        BY <1>1, <2>6, <2>7, <4>1, OpenFacts
    <3>. QED
      BY <1>1, <1>8, <1>9, <3>1 DEF KindsKept
  <2>. QED
    BY <1>1, <1>13, <2>3, <2>5, <2>8, <2>9, <2>10, <2>11, MarkingKeeps
<1>. QED
  BY <1>11, <1>12, <1>13

LEMMA SetReferenceKeeps ==
  ASSUME GInv, NEW v \in Stack, NEW o \in Udata \cup Functions, SetReference(o, v)
  PROVE  GInv'
<1>1. o \in Stack /\ o \notin Upvals
  BY KindFacts DEF SetReference
<1>2. Good(o)
  BY <1>1, StackFacts
<1>. QED
  BY <1>1, <1>2, BarrierKeeps DEF SetReference

LEMMA SetupvalKeeps ==
  ASSUME GInv, NEW v \in Stack, NEW uv \in Upvals, OP_SETUPVAL(uv, v)
  PROVE  GInv'
<1>1. PICK f \in Stack \cap Functions : uv \in holds[f]
  BY DEF OP_SETUPVAL
<1>2. Good(uv)
  <2>1. Refs(f) = holds[f] /\ f \in All /\ Good(f)
    BY StackFacts, KindFacts DEF Refs
  <2>. QED
    BY <1>1, <2>1 DEF GInv, GoodClosed
<1>3. CASE open[uv] = nil
  BY <1>2, <1>3, BarrierKeeps DEF OP_SETUPVAL
<1>4. CASE open[uv] # nil
  <2>1. open[uv] \in Coroutines
    BY <1>4, OpenFacts
  <2>2. holds' = [holds EXCEPT ![open[uv]] = {v}] /\ UNCHANGED << color, entry, open, marked, phase >>
    BY <1>4 DEF OP_SETUPVAL
  <2>. QED
    BY <2>1, <2>2, WriteStackKeeps
<1>. QED
  BY <1>3, <1>4

LEMMA ClosureKeeps ==
  ASSUME GInv, NEW f \in Functions, NEW co \in Coroutines, NEW uv \in Upvals, OP_CLOSURE(f, co, uv)
  PROVE  GInv'
<1>0. GTypes
  BY DEF GInv
<1>1. /\ co \in Stack /\ color[f] = "free" /\ open' = [open EXCEPT ![uv] = co]
      /\ holds' = [Pushed(f) EXCEPT ![f] = {uv}] /\ entry' = entry /\ marked' = marked
      /\ UNCHANGED phase
  BY DEF OP_CLOSURE
<1>2. /\ f \in All \ Tables /\ f \in Objects /\ f # main /\ f # uv /\ f \notin Upvals
      /\ f \notin Coroutines /\ f \notin Strings /\ f \notin Udata
      /\ uv \in All \ Tables /\ uv \in Objects /\ uv # main
      /\ uv \notin Coroutines /\ uv \notin Strings /\ uv \notin Tables \cup Threads \cup Udata
      /\ co \in All \ Tables /\ co # f /\ co # uv /\ co # main /\ co # nil
  BY KindFacts
<1>3. Good(co) /\ color[co] # "free"
  BY <1>1, StackFacts DEF Good
<1>4. \/ open[uv] = co /\ color' = [color EXCEPT ![f] = currentwhite, ![uv] = Resurrected(uv)]
      \/ color[uv] = "free" /\ color' = [color EXCEPT ![f] = currentwhite, ![uv] = currentwhite]
  BY DEF OP_CLOSURE
\* The upvalue that is used, if it was alive, keeps its color.
<1>5. \/ color'[uv] = color[uv] /\ Good(uv) /\ open[uv] = co /\ color[uv] \notin {"free", "black"}
      \/ color'[uv] = currentwhite /\ ~Good(uv)
  <2>1. CASE open[uv] = co /\ color' = [color EXCEPT ![f] = currentwhite, ![uv] = Resurrected(uv)]
    <3>1. color'[uv] = IF color[uv] = otherwhite THEN currentwhite ELSE color[uv]
      BY <1>0, <1>2, <2>1 DEF GTypes, Resurrected, isdead
    <3>2. color[uv] \notin {"free", "black"}
      BY <1>2, <2>1, OpenFacts
    <3>. QED
      BY <2>1, <3>1, <3>2 DEF Good
  <2>2. CASE color[uv] = "free" /\ color' = [color EXCEPT ![f] = currentwhite, ![uv] = currentwhite]
    BY <1>0, <1>2, <2>2 DEF GTypes, Good
  <2>. QED
    BY <1>4, <2>1, <2>2
<1>6. color'[f] = currentwhite /\ \A x \in All : x # f /\ x # uv => color'[x] = color[x]
  BY <1>0, <1>2, <1>4 DEF GTypes
<1>7. \A x \in All \ Tables : holds'[x] = IF x = f THEN {uv} ELSE IF x = main THEN Stack \cup {f}
                                          ELSE holds[x]
  BY <1>0, <1>1, <1>2 DEF GTypes, Pushed, Stack
<1>8. open'[uv] = co /\ \A x \in Upvals : x # uv => open'[x] = open[x]
  BY <1>0, <1>1 DEF GTypes
<1>9. \A x \in All : Good(x)' <=> color'[x] \notin {"free", otherwhite}
  BY <1>1, PhaseFacts DEF Good
<1>10. Good(f)' /\ ~Good(f) /\ Good(uv)'
  BY <1>1, <1>2, <1>5, <1>6, <1>9, NewWhite DEF Good
<1>11. \A x \in All : x # f /\ x # uv => (Good(x)' <=> Good(x))
  BY <1>6, <1>9 DEF Good
<1>12. \A x \in Upvals : open[x] # nil => open[x] \in All \ Tables /\ open[x] # f /\ open[x] # main
  BY <1>2, OpenFacts
<1>13. GTypes'
  <2>1. color' \in [All -> Colors]
    BY <1>0, <1>4, NewWhite DEF GTypes, Resurrected
  <2>2. open' \in [Upvals -> Coroutines \cup {nil}]
    BY <1>0, <1>1 DEF GTypes
  <2>3. Pushed(f) \in [All \ Tables -> SUBSET Objects]
    BY <1>0, <1>2 DEF GTypes, Pushed
  <2>4. holds' \in [All \ Tables -> SUBSET Objects]
    BY <1>1, <1>2, <2>3
  <2>. QED
    BY <1>0, <1>1, <2>1, <2>2, <2>4, PhaseFacts DEF GTypes
<1>14. Recolors
  BY <1>5, <1>6, <1>10 DEF Recolors
<1>15. RefersAnew
  <2>. SUFFICES ASSUME NEW x \in All, Good(x)', NEW y \in Refs(x)'
                PROVE  \/ Good(x) /\ y \in Refs(x)
                       \/ Good(y)' /\ (color'[x] # "black" \/ color'[y] \notin White)
    BY DEF RefersAnew
  <2>1. CASE x = main
    <3>1. Refs(main)' = Stack \cup {f} /\ color'[main] # "black"
      BY <1>2, <1>6, <1>7, StackFacts DEF Refs
    <3>. QED
      BY <1>10, <2>1, <3>1, StackFacts
  <2>2. CASE x = f
    <3>1. Refs(f)' = {uv} /\ color'[f] # "black"
      BY <1>2, <1>6, <1>7, NewWhite DEF Refs
    <3>. QED
      BY <1>10, <2>2, <3>1
  <2>3. CASE x = uv
    <3>1. Refs(uv)' = holds[co] /\ Refs(co) = holds[co] /\ holds[co] \subseteq Objects
      BY <1>0, <1>2, <1>7, <1>8, KindFacts DEF Refs, Value, GTypes
    <3>2. \A z \in holds[co] : z \in All /\ Good(z)
      BY <1>2, <1>3, <3>1, KindFacts DEF GInv, GoodClosed
    <3>3. \A z \in holds[co] : Good(z)'
      BY <1>10, <1>11, <3>2
    <3>4. color'[uv] # "black"
      BY <1>5, NewWhite
    <3>. QED
      BY <2>3, <3>1, <3>3, <3>4
  <2>4. CASE x # main /\ x # f /\ x # uv
    <3>1. Refs(x)' = Refs(x)
      BY <1>0, <1>1, <1>7, <1>8, <1>12, <2>4, RefsSame
    <3>. QED
      BY <1>11, <2>4, <3>1
  <2>. QED
    BY <2>1, <2>2, <2>3, <2>4
<1>16. Opens
  BY <1>5, <1>8, NewWhite DEF Opens
<1>17. KindsKept
  <2>1. \A s \in Strings : holds'[s] = holds[s]
    BY <1>2, <1>7, KindFacts
  <2>2. \A c \in Coroutines : \A x, y \in holds'[c] : x = y
    BY <1>2, <1>7, KindFacts DEF GInv, Kinds
  <2>3. color'[uv] \notin {"free", "black"} /\ color'[co] # "free" /\ uv \notin sweepgc
    <3>1. uv \notin sweepgc
      BY <1>2, <1>4, OpenFacts DEF GInv, Kinds
    <3>. QED
      BY <1>2, <1>3, <1>5, <1>6, <3>1, NewWhite
  <2>4. \A x \in Upvals : x # uv /\ open[x] # nil =>
          color'[x] \notin {"free", "black"} /\ color'[open[x]] # "free" /\ x \notin sweepgc
    <3>. SUFFICES ASSUME NEW x \in Upvals, x # uv, open[x] # nil
                  PROVE  color'[x] \notin {"free", "black"} /\ color'[open[x]] # "free" /\ x \notin sweepgc
      OBVIOUS
    <3>1. x # f /\ open[x] # uv /\ open[x] # f
      BY <1>2, <1>12, OpenFacts
    <3>. QED
      BY <1>6, <3>1, OpenFacts
  <2>. QED
    BY <1>1, <1>8, <2>1, <2>2, <2>3, <2>4 DEF KindsKept
<1>. QED
  BY <1>1, <1>13, <1>14, <1>15, <1>16, <1>17, ChangeKeeps

\* The variable of an upvalue moves from the coroutine's stack into it.
LEMMA CloseFacts ==
  ASSUME GInv, NEW uv \in Upvals, luaF_close(uv)
  PROVE  /\ open' = [open EXCEPT ![uv] = nil] /\ entry' = entry /\ UNCHANGED phase
         /\ open[uv] # nil /\ uv \in All \ Tables /\ uv # main
         /\ uv \notin Strings \cup Threads \cup Weak /\ uv \notin Udata /\ uv \notin Listed
         /\ \A x \in Upvals : open'[x] = IF x = uv THEN nil ELSE open[x]
<1>1. open[uv] # nil
  BY StackFacts DEF luaF_close
<1>2. UNCHANGED phase
  BY DEF luaF_close, Changed
<1>3. open' = [open EXCEPT ![uv] = nil] /\ entry' = entry
  BY DEF luaF_close
<1>4. \A x \in Upvals : open'[x] = IF x = uv THEN nil ELSE open[x]
  BY <1>3 DEF GInv, GTypes
<1>. QED
  BY <1>1, <1>2, <1>3, <1>4, KindFacts

LEMMA CloseDeadKeeps ==
  ASSUME GInv, NEW uv \in Upvals, luaF_close(uv), isdead(uv)
  PROVE  GInv'
<1>0. GTypes
  BY DEF GInv
<1>1. color' = [color EXCEPT ![uv] = "free"] /\ holds' = holds /\ marked' = marked
  BY DEF luaF_close
<1>2. \A x \in All : color'[x] = IF x = uv THEN "free" ELSE color[x]
  BY <1>0, <1>1 DEF GTypes
<1>3. ~Good(uv) /\ ~Good(uv)'
  BY <1>2, CloseFacts DEF Good, isdead
<1>4. \A x \in All : Good(x)' <=> Good(x)
  BY <1>2, <1>3, CloseFacts, PhaseFacts DEF Good
<1>5. GTypes'
  <2>1. color' \in [All -> Colors] /\ open' \in [Upvals -> Coroutines \cup {nil}]
    BY <1>0, <1>1, CloseFacts DEF GTypes, Colors
  <2>. QED
    BY <1>0, <1>1, <2>1, CloseFacts, PhaseFacts DEF GTypes
<1>6. Recolors
  BY <1>2, <1>3, CloseFacts, OpenFacts DEF Recolors
<1>7. RefersAnew
  <2>1. \A x \in All : x # uv => Refs(x)' = Refs(x)
    BY <1>0, <1>1, CloseFacts, RefsSame
  <2>. QED
    BY <1>3, <1>4, <2>1 DEF RefersAnew
<1>8. Opens
  BY <1>2, CloseFacts, NewWhite DEF Opens
<1>9. KindsKept
  <2>1. \A x \in Upvals : open'[x] # nil =>
          color'[x] \notin {"free", "black"} /\ color'[open'[x]] # "free" /\ x \notin sweepgc
    <3>. SUFFICES ASSUME NEW x \in Upvals, x # uv, open[x] # nil
                  PROVE  color'[x] \notin {"free", "black"} /\ color'[open[x]] # "free" /\ x \notin sweepgc
      BY CloseFacts
    <3>. QED
      BY <1>2, OpenFacts
  <2>. QED
    BY <1>1, <2>1, CloseFacts DEF KindsKept, GInv, Kinds
<1>. QED
  BY <1>1, <1>5, <1>6, <1>7, <1>8, <1>9, CloseFacts, ChangeKeeps

\* A closed upvalue refers to what it did.
LEMMA CloseRefs ==
  ASSUME GInv, NEW uv \in Upvals, luaF_close(uv), ~isdead(uv)
  PROVE  /\ \A x \in All : Refs(x)' = Refs(x)
         /\ holds' \in [All \ Tables -> SUBSET Objects]
         /\ open' \in [Upvals -> Coroutines \cup {nil}]
         /\ \A x \in All \ Tables : x # uv => holds'[x] = holds[x]
         /\ Changed(luaC_linkupval(uv, Value(uv))) /\ Good(uv)
         /\ color[uv] \in {"gray", currentwhite} /\ Refs(uv) = Value(uv)
<1>0. GTypes
  BY DEF GInv
<1>1. holds' = [holds EXCEPT ![uv] = Value(uv)] /\ Changed(luaC_linkupval(uv, Value(uv)))
  BY DEF luaF_close
<1>2. \A x \in All \ Tables : holds'[x] = IF x = uv THEN Value(uv) ELSE holds[x]
  BY <1>0, <1>1 DEF GTypes
<1>3. Refs(uv) = Value(uv) /\ Refs(uv)' = Value(uv) /\ Value(uv) \in SUBSET Objects
  <2>1. Refs(uv) = Value(uv)
    BY CloseFacts DEF Refs
  <2>2. Refs(uv)' = Value(uv)
    BY <1>2, CloseFacts DEF Refs, Value
  <2>. QED
    BY <1>0, <2>1, <2>2, CloseFacts, MarksFacts
<1>4. \A x \in All : x # uv => Refs(x)' = Refs(x)
  <2>1. \A x \in Upvals : open[x] # nil => open[x] # uv /\ open[x] \in All \ Tables
    BY OpenFacts
  <2>. QED
    BY <1>0, <1>2, <2>1, CloseFacts, RefsSame
<1>5. color[uv] \in {"gray", currentwhite}
  <2>1. color[uv] \in Colors /\ color[uv] \notin {"free", "black", otherwhite}
    BY <1>0, CloseFacts, OpenFacts DEF GTypes, isdead
  <2>2. White = {currentwhite, otherwhite}
    BY <1>0, OtherWhite DEF GTypes
  <2>. QED
    BY <2>1, <2>2 DEF Colors
<1>6. Good(uv)
  BY <1>5, NewWhite DEF Good
<1>7. holds' \in [All \ Tables -> SUBSET Objects] /\ open' \in [Upvals -> Coroutines \cup {nil}]
  BY <1>0, <1>1, <1>3, CloseFacts DEF GTypes
<1>. QED
  BY <1>1, <1>2, <1>3, <1>4, <1>5, <1>6, <1>7

\* An upvalue that was not marked, or out of the mark phase.
LEMMA CloseWhiteKeeps ==
  ASSUME GInv, NEW uv \in Upvals, luaF_close(uv), ~isdead(uv),
         color[uv] # "gray" \/ gcstate # "propagate"
  PROVE  GInv'
<1>. DEFINE m == luaC_linkupval(uv, Value(uv))
<1>0. GTypes
  BY DEF GInv
<1>1. color' = m.color /\ marked' = Lists(m)
  BY CloseRefs DEF Changed
<1>2. m = IF color[uv] # "gray" THEN Mark ELSE [Mark EXCEPT !.color[uv] = currentwhite]
  BY DEF luaC_linkupval
<1>3. m.color = [color EXCEPT ![uv] = currentwhite] /\ Lists(m) = Lists(Mark)
  <2>1. CASE color[uv] # "gray"
    <3>1. color[uv] = currentwhite /\ m = Mark
      BY <1>2, <2>1, CloseRefs
    <3>. QED
      BY <1>0, <3>1 DEF Mark, GTypes
  <2>2. CASE color[uv] = "gray"
    <3>1. m = [Mark EXCEPT !.color[uv] = currentwhite]
      BY <1>2, <2>2
    <3>. QED
      BY <3>1 DEF Mark, Lists
  <2>. QED
    BY <2>1, <2>2
<1>4. color' = [color EXCEPT ![uv] = currentwhite] /\ marked' = marked
  BY <1>0, <1>1, <1>3, ListsMark
<1>5. \A x \in All : color'[x] = IF x = uv THEN currentwhite ELSE color[x]
  BY <1>0, <1>4 DEF GTypes
<1>6. \A x \in All : Good(x)' <=> Good(x)
  BY <1>5, NewWhite, CloseRefs, CloseFacts, PhaseFacts DEF Good
<1>7. GTypes'
  <2>1. color' \in [All -> Colors]
    BY <1>0, <1>4, NewWhite DEF GTypes
  <2>. QED
    BY <1>0, <1>4, <2>1, CloseFacts, CloseRefs, PhaseFacts DEF GTypes
<1>8. Recolors
  BY <1>5, CloseRefs DEF Recolors
<1>9. RefersAnew
  BY <1>6, CloseRefs DEF RefersAnew
<1>10. Opens
  BY <1>5, CloseFacts, NewWhite DEF Opens
<1>11. KindsKept
  <2>1. \A x \in Upvals : open'[x] # nil =>
          color'[x] \notin {"free", "black"} /\ color'[open'[x]] # "free" /\ x \notin sweepgc
    <3>. SUFFICES ASSUME NEW x \in Upvals, x # uv, open[x] # nil
                  PROVE  color'[x] \notin {"free", "black"} /\ color'[open[x]] # "free" /\ x \notin sweepgc
      BY CloseFacts
    <3>. QED
      BY <1>5, OpenFacts
  <2>2. (\A s \in Strings : holds'[s] = holds[s]) /\ \A co \in Coroutines : holds'[co] = holds[co]
    <3>1. \A x \in Strings \cup Coroutines : x \in All \ Tables /\ x # uv
      BY KindFacts
    <3>. QED
      BY <3>1, CloseRefs
  <2>. QED
    BY <2>1, <2>2, CloseFacts DEF KindsKept, GInv, Kinds
<1>. QED
  BY <1>4, <1>7, <1>8, <1>9, <1>10, <1>11, CloseFacts, ChangeKeeps

\* A marked upvalue becomes black in the mark phase, and its value is marked.
LEMMA CloseMarkKeeps ==
  ASSUME GInv, NEW uv \in Upvals, luaF_close(uv), ~isdead(uv),
         color[uv] = "gray", gcstate = "propagate"
  PROVE  GInv'
<1>. DEFINE c == [color EXCEPT ![uv] = "black"]
            m0 == [Mark EXCEPT !.color = c]
            m == luaC_linkupval(uv, Value(uv))
            v == CHOOSE x \in Value(uv) : TRUE
<1>0. GTypes
  BY DEF GInv
<1>1. color' = m.color /\ marked' = Lists(m)
  BY CloseRefs DEF Changed
<1>2. m = IF Value(uv) = {} THEN m0 ELSE luaC_barrier(c, uv, v)
  BY DEF luaC_linkupval
<1>3. c \in [All -> Colors] /\ \A x \in All : c[x] = IF x = uv THEN "black" ELSE color[x]
  BY <1>0 DEF GTypes, Colors
<1>4. luaC_barrier(c, uv, v) = IF c[v] \notin White THEN m0 ELSE mark(m0, {v})
  BY <1>3, CloseFacts DEF luaC_barrier
<1>5. /\ m0.color = c /\ m0.gray = marked.gray /\ m0.grayagain = marked.grayagain
      /\ m0.weak = marked.weak
  BY DEF Mark
<1>. HIDE DEF c, m, m0
<1>6. /\ MarkSound(Mark) /\ MarkBasic(Mark) /\ GraySound(Mark) /\ WaitSound(Mark) /\ Blacks(Mark, {})
      /\ color[main] = "gray" /\ Mark.gray = marked.gray /\ Mark.grayagain = marked.grayagain
      /\ Mark.weak = marked.weak /\ Mark.color = color
  BY PhaseSound DEF MarkSound, Mark
<1>7. "black" \notin White /\ "gray" \notin White /\ "free" \notin White
  BY DEF White
<1>8. \A x \in All : m0.color[x] = IF x = uv THEN "black" ELSE color[x]
  BY <1>3, <1>5
<1>9. marked.gray \cup marked.grayagain \cup marked.weak \subseteq Listed
  BY <1>0, KindFacts DEF GTypes, MarkType
<1>10. Whites(m0) = Whites(Mark)
  BY <1>6, <1>7, <1>8 DEF Whites
<1>11. MarkBasic(m0)
  <2>1. m0 \in MT
    <3>1. m0 = [color |-> c, gray |-> marked.gray, grayagain |-> marked.grayagain, weak |-> marked.weak]
      BY DEF m0, Mark
    <3>. QED
      BY <1>0, <1>3, <3>1 DEF GTypes, MarkType, MT
  <2>2. \A x \in All : Alive(m0, x) <=> Alive(Mark, x)
    BY <1>6, <1>7, <1>8 DEF Alive
  <2>3. \A x \in All : m0.color[x] = "free" <=> color[x] = "free"
    BY <1>8
  <2>4. \A x \in All : m0.color[x] \in White => m0.color[x] = currentwhite
    BY <1>6, <1>7, <1>8 DEF MarkBasic
  <2>5. \A x \in m0.gray \cup m0.grayagain \cup m0.weak : Alive(m0, x)
    BY <1>5, <1>6, <1>9, <2>2, KindFacts DEF MarkBasic
  <2>6. \A t \in Weak : Alive(m0, t) => t \in m0.gray \cup m0.weak
    BY <1>5, <1>6, <2>2, KindFacts DEF MarkBasic
  <2>. QED
    BY <2>1, <2>3, <2>4, <2>5, <2>6 DEF MarkBasic
<1>12. GraySound(m0)
  <2>1. \A x : Listing(m0, x) <=> Listing(Mark, x)
    BY <1>5, <1>6 DEF Listing
  <2>2. \A x \in All : Listing(Mark, x) => x # uv
    BY <1>6, <1>9, CloseFacts DEF Listing
  <2>. QED
    BY <1>5, <1>6, <1>8, <2>1, <2>2 DEF GraySound
<1>13. WaitSound(m0) /\ Blacks(m0, {uv})
  <2>1. \A u \in tmudata : u \in All /\ u # uv
    BY <1>0, CloseFacts, KindFacts DEF GTypes
  <2>. QED
    BY <1>6, <1>8, <1>10, <2>1 DEF WaitSound, Blacks
<1>14. NeverBlack(m0, {uv})
  BY <1>8 DEF NeverBlack
<1>15. m0.color[main] = "gray" /\ main \in All
  BY <1>6, <1>8, CloseFacts, KindFacts
\* The value is one, and found.
<1>16. \A x, y \in Value(uv) : x = y
  BY OpenFacts, CloseFacts DEF Value, GInv, Kinds
<1>17. Value(uv) # {} => v \in Value(uv) /\ Value(uv) = {v}
  BY <1>16
<1>18. Value(uv) \in SUBSET All
  BY <1>0, MarksFacts, CloseFacts, CloseRefs, KindFacts
<1>. HIDE DEF v
<1>19. /\ MarkBasic(m) /\ GraySound(m) /\ WaitSound(m) /\ Blacks(m, {uv}) /\ NeverBlack(m, {uv})
       /\ m.color[main] = "gray" /\ m.color[uv] = "black" /\ Value(uv) \cap Whites(m) = {}
  <2>1. CASE m = m0
    <3>1. Value(uv) \cap Whites(m0) = {}
      <4>1. CASE Value(uv) = {}
        BY <4>1
      <4>2. CASE Value(uv) # {} /\ c[v] \notin White
        BY <1>5, <1>17, <4>2 DEF Whites
      <4>3. CASE Value(uv) # {} /\ c[v] \in White
        <5>1. m0 = mark(m0, {v}) /\ {v} \in SUBSET All
          BY <1>2, <1>4, <1>17, <1>18, <2>1, <4>3
        <5>2. {v} \cap Whites(m0) = {}
          BY <1>0, <1>11, <1>12, <1>13, <5>1, MarkKeeps
        <5>. QED
          BY <1>17, <4>3, <5>2
      <4>. QED
        BY <4>1, <4>2, <4>3
    <3>. QED
      BY <1>8, <1>11, <1>12, <1>13, <1>14, <1>15, <2>1, <3>1, CloseFacts
  <2>2. CASE m # m0
    <3>1. m = mark(m0, {v}) /\ {v} \in SUBSET All /\ Value(uv) = {v}
      BY <1>2, <1>4, <1>17, <1>18, <2>2
    <3>2. /\ MarkBasic(m) /\ GraySound(m) /\ WaitSound(m) /\ Blacks(m, {uv}) /\ {v} \cap Whites(m) = {}
          /\ \A x \in All : m0.color[x] \notin White => m.color[x] = m0.color[x]
      BY <1>0, <1>11, <1>12, <1>13, <3>1, MarkKeeps
    <3>3. NeverBlack(m, {uv})
      BY <1>0, <1>11, <1>14, <3>1, MarkBasicMark
    <3>4. m.color[main] = "gray" /\ m.color[uv] = "black"
      BY <1>7, <1>8, <1>15, <3>2, CloseFacts
    <3>. QED
      BY <3>1, <3>2, <3>3, <3>4
  <2>. QED
    BY <2>1, <2>2
<1>20. \A o \in Strings \cup Threads \cup Weak : m.color[o] # "black"
  <2>1. \A o \in Strings \cup Threads \cup Weak :
          o \in All /\ o # uv /\ Traversed(o) = "gray" /\ color[o] # "black"
    BY CloseFacts, KindFacts DEF Traversed, GInv, Kinds
  <2>. QED
    BY <1>19, <2>1 DEF NeverBlack
<1>21. GTypes'
  <2>1. color' \in [All -> Colors] /\ marked' \in MarkType
    BY <1>1, <1>19 DEF MarkBasic, MT, MarkType, Lists
  <2>. QED
    BY <1>0, <2>1, CloseFacts, CloseRefs, PhaseFacts DEF GTypes
<1>22. MarksAnew(m, {uv})
  <2>1. \A x \in Refs(uv) : Good(x)
    BY CloseFacts, CloseRefs DEF GInv, GoodClosed
  <2>. QED
    BY <1>19, <2>1, CloseRefs DEF MarksAnew
<1>23. KindsKept
  <2>1. \A x \in Upvals : open'[x] # nil =>
          color'[x] \notin {"free", "black"} /\ color'[open'[x]] # "free" /\ x \notin sweepgc
    <3>. SUFFICES ASSUME NEW x \in Upvals, x # uv, open[x] # nil
                  PROVE  color'[x] \notin {"free", "black"} /\ color'[open[x]] # "free" /\ x \notin sweepgc
      BY CloseFacts
    <3>1. x \in All /\ open[x] \in All /\ Traversed(x) = "gray" /\ color[x] \notin {"free", "black"}
          /\ color[open[x]] # "free" /\ x \notin sweepgc
      BY OpenFacts DEF Traversed
    <3>. QED
      BY <1>1, <1>19, <3>1 DEF NeverBlack, MarkBasic
  <2>2. (\A s \in Strings : holds'[s] = holds[s]) /\ \A co \in Coroutines : holds'[co] = holds[co]
    <3>1. \A x \in Strings \cup Coroutines : x \in All \ Tables /\ x # uv
      BY CloseFacts, KindFacts
    <3>. QED
      BY <3>1, CloseRefs
  <2>. QED
    BY <2>1, <2>2, CloseFacts DEF KindsKept, GInv, Kinds
<1>24. \A x \in Upvals : color'[x] = "gray" => open'[x] = open[x]
  BY <1>1, <1>19, CloseFacts
<1>. QED
  BY <1>1, <1>19, <1>20, <1>21, <1>22, <1>23, <1>24, CloseFacts, MarkingKeeps

LEMMA CloseKeeps == ASSUME GInv, NEW uv \in Upvals, luaF_close(uv) PROVE GInv'
BY CloseDeadKeeps, CloseWhiteKeeps, CloseMarkKeeps

LEMMA MutatorKeeps == ASSUME GInv, Mutator PROVE GInv'
<1>1. ASSUME NEW o \in Objects, luaC_link(o) \/ Get(o) \/ Pop(o) PROVE GInv'
  BY <1>1, LinkKeeps, GetKeeps, PopKeeps
<1>2. ASSUME NEW s \in Strings, luaS_newlstr(s) PROVE GInv'
  BY <1>2, NewlstrKeeps
<1>3. ASSUME NEW t \in Tables, SetNil(t) PROVE GInv'
  BY <1>3, SetNilKeeps
<1>4. ASSUME NEW t \in Tables, NEW k \in Stack \cup {number}, NEW v \in Stack, SetTable(t, k, v)
      PROVE  GInv'
  BY <1>4, SetTableKeeps
<1>5. ASSUME NEW v \in Stack, NEW o \in Udata \cup Functions, SetReference(o, v) PROVE GInv'
  BY <1>5, SetReferenceKeeps
<1>6. ASSUME NEW v \in Stack, NEW co \in Coroutines, SetStack(co, v) PROVE GInv'
  BY <1>6, SetStackKeeps
<1>7. ASSUME NEW v \in Stack, NEW uv \in Upvals, OP_SETUPVAL(uv, v) PROVE GInv'
  BY <1>7, SetupvalKeeps
<1>8. ASSUME NEW uv \in Upvals, luaF_close(uv) PROVE GInv'
  BY <1>8, CloseKeeps
<1>9. ASSUME NEW uv \in Upvals, NEW f \in Functions, NEW co \in Coroutines, OP_CLOSURE(f, co, uv)
      PROVE  GInv'
  BY <1>9, ClosureKeeps
<1>10. ASSUME luaC_fullgc PROVE GInv'
  BY <1>10, FullgcKeeps
<1>. QED
  BY <1>1, <1>2, <1>3, <1>4, <1>5, <1>6, <1>7, <1>8, <1>9, <1>10 DEF Mutator

--------------------------------------------------------------------------------
(* The invariant *)

LEMMA GInvInit == Init => GInv
<1>. SUFFICES ASSUME Init PROVE GInv
  OBVIOUS
<1>1. GTypes
  BY KindFacts DEF Init, GTypes, Colors, White, MarkType
<1>2. \A o \in All : color[o] = IF o = main THEN currentwhite ELSE "free"
  BY DEF Init
<1>3. otherwhite \in White /\ otherwhite # currentwhite /\ currentwhite \in White
  BY <1>1, OtherWhite DEF GTypes
<1>4. Good(main) /\ \A o \in All : Good(o) => o = main
  BY <1>2, <1>3, KindFacts DEF Good, White
<1>5. Refs(main) = {}
  BY KindFacts DEF Init, Refs
<1>6. GoodClosed
  BY <1>4, <1>5 DEF GoodClosed
<1>7. Leftovers
  BY <1>2, <1>3 DEF Leftovers, White
<1>8. Waiting /\ GrayLists /\ BlackNotToWhite
  BY DEF Init, Waiting, GrayLists, BlackNotToWhite
<1>9. Kinds
  <2>1. \A o \in Strings \cup Threads \cup Weak : o \in All /\ color[o] # "black"
    BY <1>2, <1>3, KindFacts DEF White
  <2>2. \A x \in Strings \cup Coroutines : x \in All \ Tables
    BY KindFacts
  <2>. QED
    BY <2>1, <2>2 DEF Init, Kinds
<1>. QED
  BY <1>1, <1>6, <1>7, <1>8, <1>9 DEF GInv

LEMMA GInvStep == GInv /\ [Next]_vars => GInv'
<1>1. ASSUME GInv, UNCHANGED vars PROVE GInv'
  <2>1. /\ color' = color /\ entry' = entry /\ holds' = holds /\ open' = open /\ marked' = marked
        /\ gcstate' = gcstate /\ currentwhite' = currentwhite /\ sweepgc' = sweepgc
        /\ tmudata' = tmudata /\ finalized' = finalized /\ full' = full
    BY <1>1 DEF vars, heap, phase
  <2>2. otherwhite' = otherwhite
    BY <2>1 DEF otherwhite
  <2>3. GTypes' /\ Waiting' /\ Kinds' /\ GrayLists'
    BY <1>1, <2>1 DEF GInv, GTypes, Waiting, Kinds, GrayLists, InList
  <2>4. \A o : (Refs(o)' = Refs(o)) /\ (Good(o)' <=> Good(o)) /\ (ToSweep(o)' <=> ToSweep(o))
    BY <2>1, <2>2 DEF Refs, Value, Good, ToSweep, OfSwept
  <2>5. GoodClosed' /\ Leftovers' /\ BlackNotToWhite'
    BY <1>1, <2>1, <2>2, <2>4 DEF GInv, GoodClosed, Leftovers, BlackNotToWhite
  <2>. QED
    BY <2>3, <2>5 DEF GInv
<1>. QED
  BY <1>1, SinglestepKeeps, MutatorKeeps DEF Next

\* The program can get only at what is alive: the closure of references stays in it.
LEMMA GInvHeapSound == GInv => HeapSound
<1>. SUFFICES ASSUME GInv PROVE HeapSound
  OBVIOUS
<1>0. GTypes
  BY DEF GInv
<1>. DEFINE edges == [o \in All |-> Refs(o)]
            X == {o \in All : Good(o)}
<1>1. edges \in [All -> SUBSET All]
  BY <1>0, MarksFacts, KindFacts
<1>2. {main} \in SUBSET All /\ X \in SUBSET All /\ {main} \subseteq X
  BY StackFacts DEF GInv, GoodClosed
<1>3. \A o \in X : edges[o] \subseteq X
  BY <1>1 DEF GInv, GoodClosed
<1>. HIDE DEF edges, X
<1>4. Closure({main}, edges) \subseteq X
  BY <1>1, <1>2, <1>3, ClosureFacts
<1>5. NothingReachableFreed
  BY <1>4 DEF NothingReachableFreed, Reachable, edges, X, Good, isdead
<1>6. marked.grayagain \cap marked.weak = {} /\ DOMAIN marked = {"gray", "grayagain", "weak"}
      /\ \A l \in DOMAIN marked : marked[l] \subseteq Listed
  BY <1>0, KindFacts DEF GTypes, MarkType
<1>7. ListsApart
  <2>1. \A o \in UNION {marked[l] : l \in DOMAIN marked} : o \in All /\ InList(o)
    BY <1>6, KindFacts DEF InList
  <2>. QED
    BY <1>6, <2>1 DEF ListsApart, GInv, GrayLists
<1>. QED
  BY <1>5, <1>7 DEF HeapSound, GInv

\* Whatever the program does to the heap between two steps of the collector, nothing that
\* it can get at is freed or about to be, what is marked refers to nothing unmarked, and
\* no object is in two of the collector's lists: for every heap (lgc.c).
THEOREM LuaHeapSound == Spec => []HeapSound
<1>1. Init => GInv
  BY GInvInit
<1>2. GInv /\ [Next]_vars => GInv'
  BY GInvStep
<1>3. GInv => HeapSound
  BY GInvHeapSound
<1>. QED
  BY <1>1, <1>2, <1>3, PTL DEF Spec

--------------------------------------------------------------------------------
(* Finalizers *)

Once == \A u \in HasGC :
          /\ u \in tmudata' \ tmudata => u \notin KeptWithout(tmudata) /\ u \notin finalized
          /\ color[u] # "free" /\ color'[u] = "free" => u \in finalized /\ u \notin tmudata

\* Nothing is freed by a step that is not one of the sweep.
NoneFreed == \A u \in Udata : color[u] # "free" => color'[u] # "free"

LEMMA StrongFacts ==
  ASSUME GTypes, NEW o \in All
  PROVE  /\ StrongRefs(o) \subseteq Refs(o) /\ Refs(o) \in SUBSET All
         /\ o \notin Strings => StrongRefs(o) \subseteq Marks(o) \cup Strings
<1>0. Refs(o) \in SUBSET All
  <2>1. Refs(o) \in SUBSET Objects /\ Objects \subseteq All
    BY MarksFacts, KindFacts
  <2>. QED
    BY ONLY <2>1
<1>1. CASE o \in Tables
  <2>1. o \notin Strings /\ o \notin Upvals
    BY <1>1, KindFacts
  <2>2. Marks(o) = Strong(o) /\ StrongRefs(o) = Strong(o) \cup (Refs(o) \cap Strings)
    BY <1>1, <2>1 DEF Marks, StrongRefs
  <2>. QED
    BY <1>0, <2>2, MarksFacts
<1>2. CASE o \notin Tables
  <2>1. o \notin Weak
    BY <1>2, KindFacts
  <2>2. StrongRefs(o) = Refs(o)
    BY <1>2 DEF StrongRefs
  <2>. QED
    BY <1>0, <2>1, <2>2, MarksFacts
<1>. QED
  BY ONLY <1>0, <1>1, <1>2

\* What the three rounds have not found is not kept without what waits for a finalizer.
LEMMA UnfoundIsLost ==
  ASSUME GInv, gcstate = "propagate", marked.gray = {}, NEW u \in Udata \cap Whites(Rounds)
  PROVE  u \notin KeptWithout(tmudata)
<1>0. GTypes
  BY DEF GInv
<1>. DEFINE edges == [o \in All |-> IF o \in tmudata THEN {} ELSE StrongRefs(o)]
            X == {o \in All : o \in Strings \/ Alive(Rounds, o)}
<1>1. \A o \in All : StrongRefs(o) \subseteq Refs(o) /\ Refs(o) \in SUBSET All
  BY ONLY <1>0, StrongFacts
<1>2. edges \in [All -> SUBSET All]
  BY <1>1
<1>3. /\ MarkSound(Rounds) /\ Covered(Rounds, {}, tmudata) /\ main \notin Whites(Rounds)
      /\ Rounds \in MT /\ \A o \in All : Rounds.color[o] = "free" <=> color[o] = "free"
  BY RoundsCover DEF MarkSound, MarkBasic
<1>4. \A o \in All : color[o] # otherwhite
  BY DEF GInv, Leftovers, ToSweep
<1>5. \A o \in All : Alive(Rounds, o) => Good(o)
  BY <1>3, <1>4 DEF Alive, Good
<1>6. {main} \in SUBSET All /\ X \in SUBSET All
  BY KindFacts
<1>7. main \in X
  <2>1. main \in All /\ color[main] # "free"
    BY KindFacts DEF GInv, GoodClosed, Good
  <2>. QED
    BY <1>3, <2>1, AliveColor
<1>8. \A o \in X : edges[o] \subseteq X
  <2>. SUFFICES ASSUME NEW o \in X, o \notin tmudata, NEW x \in StrongRefs(o) PROVE x \in X
    BY <1>6
  <2>1. o \in All /\ x \in Refs(o) /\ x \in All
    BY <1>1
  <2>2. CASE o \in Strings
    <3>1. Refs(o) = {}
      BY <2>2, KindFacts DEF GInv, Kinds, Refs
    <3>. QED
      BY <2>1, <3>1
  <2>3. CASE o \notin Strings
    <3>1. Alive(Rounds, o)
      BY <2>3
    <3>2. Marks(o) \cap Whites(Rounds) = {}
      BY <1>3, <2>1, <3>1 DEF Covered
    <3>3. Good(x)
      BY <1>5, <2>1, <3>1 DEF GInv, GoodClosed
    <3>4. x \in Marks(o) \/ x \in Strings
      <4>1. StrongRefs(o) \subseteq Marks(o) \cup Strings
        BY ONLY <1>0, <2>1, <2>3, StrongFacts
      <4>. QED
        BY <4>1
    <3>5. x \in Marks(o) => Alive(Rounds, x)
      BY <1>3, <2>1, <3>2, <3>3, AliveColor DEF Good
    <3>. QED
      BY <2>1, <3>4, <3>5
  <2>. QED
    BY <2>2, <2>3
<1>9. u \notin X
  BY <1>3, KindFacts, AliveColor
<1>. HIDE DEF edges, X
<1>10. Closure({main}, edges) \subseteq X
  BY <1>2, <1>6, <1>7, <1>8, ClosureFacts
<1>11. KeptWithout(tmudata) = Closure({main}, edges)
  BY DEF KeptWithout, edges
<1>. QED
  BY <1>9, <1>10, <1>11

LEMMA NoneFreedIsOnce ==
  ASSUME NoneFreed, tmudata' \subseteq tmudata
  PROVE  Once
BY LuaGCAssumption DEF NoneFreed, Once

LEMMA AtomicOnce ==
  ASSUME GInv, gcstate = "propagate", marked.gray = {}, AtomicStep
  PROVE  Once
<1>. SUFFICES ASSUME NEW u \in HasGC
              PROVE  /\ u \in tmudata' \ tmudata => u \notin KeptWithout(tmudata) /\ u \notin finalized
                     /\ color[u] # "free" => color'[u] # "free"
  BY DEF Once
<1>1. u \in Udata /\ u \in All /\ u \notin Strings
  BY LuaGCAssumption, KindFacts
<1>2. u \in tmudata' \ tmudata => u \in separateudata(Rounds)
  BY DEF AtomicStep, Waits
<1>3. u \in separateudata(Rounds) => u \notin finalized /\ u \in Udata \cap Whites(Rounds)
  BY <1>1 DEF separateudata, Whites
<1>4. color'[u] = Final.color[u]
  BY <1>1 DEF AtomicStep, StringsMet
<1>5. MarkSound(Final)
  BY FinalCovers
<1>6. Final.color[u] = "free" <=> color[u] = "free"
  BY <1>1, <1>5 DEF MarkSound, MarkBasic
<1>. QED
  BY <1>2, <1>3, <1>4, <1>6, UnfoundIsLost

LEMMA SweepOnce ==
  ASSUME GInv, gcstate = "sweep", NEW o \in sweepgc, SweepStep(o)
  PROVE  Once
<1>. SUFFICES ASSUME NEW u \in HasGC, color[u] # "free", color'[u] = "free"
              PROVE  u \in finalized /\ u \notin tmudata
  BY DEF Once, SweepStep
<1>1. u \in Udata /\ u \in All
  BY LuaGCAssumption, KindFacts
<1>2. otherwhite # currentwhite /\ otherwhite \in White /\ currentwhite \in White
  BY OtherWhite DEF GInv, GTypes
<1>3. u \in DeadOf(o)
  BY <1>1, <1>2 DEF SweepStep, White
<1>4. color[u] = otherwhite
  BY <1>3 DEF DeadOf, isdead
<1>5. u \in finalized
  BY <1>1, <1>4 DEF GInv, Leftovers
<1>6. u \notin tmudata
  BY <1>2, <1>4 DEF GInv, Waiting, White
<1>. QED
  BY <1>5, <1>6

\* mark frees nothing.
LEMMA MarkFreesNone ==
  ASSUME GTypes, NEW m \in MT, NEW S \in SUBSET All, NEW o \in All, m.color[o] # "free"
  PROVE  mark(m, S).color[o] # "free"
<1>. DEFINE n == mark(m, S)
<1>1. Marking(m, n)
  BY MarkFacts
<1>. HIDE DEF n
<1>2. n.color[o] = m.color[o] \/ n.color[o] \in {"gray", "black"}
  BY <1>1, TraversedColor DEF Marking
<1>. QED
  BY <1>2 DEF n

LEMMA SinglestepOnce == ASSUME GInv, singlestep PROVE Once
<1>0. GTypes /\ Mark \in MT /\ Mark.color = color /\ currentwhite # "free"
  BY DEF GInv, GTypes, Mark, MT, MarkType, White
<1>1. \A u \in Udata : u \in All
  BY KindFacts
<1>2. CASE markroot
  <2>. DEFINE m0 == [color |-> color, gray |-> {}, grayagain |-> {}, weak |-> {}]
  <2>1. m0 \in MT /\ m0.color = color /\ {main} \in SUBSET All
    BY <1>0, KindFacts DEF GTypes, MT
  <2>2. color' = mark(m0, {main}).color /\ tmudata' = tmudata
    BY <1>2 DEF markroot
  <2>. HIDE DEF m0
  <2>3. \A o \in All : color[o] # "free" => color'[o] # "free"
    BY <1>0, <2>1, <2>2, MarkFreesNone
  <2>. QED
    BY <1>1, <2>2, <2>3, NoneFreedIsOnce DEF NoneFreed
<1>3. CASE propagate /\ marked.gray = {}
  BY <1>3, AtomicParts, AtomicOnce DEF propagate
<1>4. CASE propagate /\ marked.gray # {}
  <2>1. PICK o \in marked.gray : color' = propagatemark(Mark, o).color
    BY <1>4 DEF propagate
  <2>2. tmudata' = tmudata
    BY <1>4 DEF propagate, phase
  <2>. DEFINE m1 == Traverse(Mark, {o})
  <2>3. o \in All /\ {o} \in SUBSET All /\ Marks(o) \in SUBSET All
    BY <1>0, KindFacts, MarksFacts DEF GTypes, MarkType
  <2>4. m1 \in MT /\ \A x \in All : m1.color[x] = IF x \in {o} THEN Traversed(x) ELSE color[x]
    BY <1>0, <2>3, TraverseFacts
  <2>5. color' = mark(m1, Marks(o)).color
    BY <2>1 DEF propagatemark
  <2>. HIDE DEF m1
  <2>6. \A x \in All : color[x] # "free" => m1.color[x] # "free"
    BY <2>4, TraversedColor
  <2>7. \A x \in All : color[x] # "free" => color'[x] # "free"
    BY <1>0, <2>3, <2>4, <2>5, <2>6, MarkFreesNone
  <2>. QED
    BY <1>1, <2>2, <2>7, NoneFreedIsOnce DEF NoneFreed
<1>5. CASE sweep
  <2>1. CASE sweepgc = {}
    BY <1>5, <2>1, NoneFreedIsOnce DEF sweep, NoneFreed
  <2>2. CASE sweepgc # {}
    BY <1>5, <2>2, SweepParts, SweepOnce
  <2>. QED
    BY <2>1, <2>2
<1>6. CASE CycleEnds
  BY <1>6, NoneFreedIsOnce DEF CycleEnds, NoneFreed
<1>7. CASE \E u \in tmudata : GCTM(u)
  <2>1. PICK u \in tmudata : GCTM(u)
    BY <1>7
  <2>2. tmudata' \subseteq tmudata /\ color' = [color EXCEPT ![u] = currentwhite]
    BY <2>1 DEF GCTM
  <2>3. \A x \in All : color[x] # "free" => color'[x] # "free"
    BY <1>0, <2>2 DEF GTypes
  <2>. QED
    BY <1>1, <2>2, <2>3, NoneFreedIsOnce DEF NoneFreed
<1>. QED
  BY <1>2, <1>3, <1>4, <1>5, <1>6, <1>7 DEF singlestep

\* The barriers only mark, or recolor with the white of this cycle.
LEMMA BarrierFreesNone ==
  ASSUME GTypes, NEW c \in [All -> Colors], NEW o \in All, NEW v \in All, NEW x \in All,
         c[x] # "free"
  PROVE  luaC_barrier(c, o, v).color[x] # "free"
<1>. DEFINE m0 == [Mark EXCEPT !.color = c]
<1>1. m0 \in MT /\ m0.color = c /\ currentwhite # "free" /\ {v} \in SUBSET All
  BY DEF GTypes, Mark, MT, MarkType, White
<1>2. mark(m0, {v}).color[x] # "free"
  <2>. HIDE DEF m0
  <2>. QED
    BY <1>1, MarkFreesNone
<1>3. [Mark EXCEPT !.color = [c EXCEPT ![o] = currentwhite]].color
        = [c EXCEPT ![o] = currentwhite]
  BY DEF Mark
<1>4. [c EXCEPT ![o] = currentwhite][x] # "free"
  BY <1>1
<1>. QED
  BY <1>1, <1>2, <1>3, <1>4 DEF luaC_barrier

LEMMA MutatorOnce == ASSUME GInv, Mutator PROVE Once
<1>0. GTypes /\ Mark.color = color /\ color \in [All -> Colors]
      /\ currentwhite \in Colors /\ currentwhite # "free" /\ "black" \in Colors
  BY DEF GInv, GTypes, Mark, White, Colors
<1>1. Udata \subseteq All /\ Stack \subseteq All /\ Udata \cap Upvals = {} /\ Upvals \subseteq All
      /\ Functions \subseteq All /\ Tables \subseteq All
  BY <1>0, StackFacts, KindFacts
<1>2. tmudata' \subseteq tmudata
  BY DEF Mutator, luaC_link, Get, Pop, luaS_newlstr, SetNil, SetTable, SetReference, SetStack,
         OP_SETUPVAL, luaF_close, OP_CLOSURE, luaC_fullgc, Changed, phase
<1>3. SUFFICES ASSUME NEW u \in Udata, color[u] # "free" PROVE color'[u] # "free"
  BY <1>2, NoneFreedIsOnce DEF NoneFreed
<1>4. ASSUME NEW o \in Objects, luaC_link(o) \/ Get(o) \/ Pop(o) PROVE color'[u] # "free"
  BY <1>0, <1>1, <1>3, <1>4 DEF luaC_link, Get, Pop
<1>5. ASSUME NEW s \in Strings, luaS_newlstr(s) PROVE color'[u] # "free"
  BY <1>0, <1>1, <1>3, <1>5 DEF luaS_newlstr
<1>6. ASSUME NEW t \in Tables, SetNil(t) PROVE color'[u] # "free"
  BY <1>3, <1>6 DEF SetNil
<1>7. ASSUME NEW t \in Tables, NEW k \in Stack \cup {number}, NEW v \in Stack, SetTable(t, k, v)
      PROVE  color'[u] # "free"
  <2>. DEFINE S == {k, v} \ {number}
  <2>1. color' = luaC_barrierback(t, S).color
    BY <1>7 DEF SetTable, Changed
  <2>2. luaC_barrierback(t, S).color = color
        \/ luaC_barrierback(t, S).color = [color EXCEPT ![t] = "gray"]
    BY DEF luaC_barrierback, Mark
  <2>. QED
    BY <1>0, <1>1, <1>3, <2>1, <2>2
<1>8. ASSUME NEW v \in Stack, NEW o \in All, Changed(luaC_barrier(color, o, v))
      PROVE  color'[u] # "free"
  BY <1>0, <1>1, <1>3, <1>8, BarrierFreesNone DEF Changed
<1>9. ASSUME NEW v \in Stack, NEW o \in Udata \cup Functions, SetReference(o, v)
      PROVE  color'[u] # "free"
  BY <1>1, <1>8, <1>9 DEF SetReference
<1>10. ASSUME NEW v \in Stack, NEW co \in Coroutines, SetStack(co, v) PROVE color'[u] # "free"
  BY <1>3, <1>10 DEF SetStack
<1>11. ASSUME NEW v \in Stack, NEW uv \in Upvals, OP_SETUPVAL(uv, v) PROVE color'[u] # "free"
  BY <1>1, <1>3, <1>8, <1>11 DEF OP_SETUPVAL
<1>12. ASSUME NEW uv \in Upvals, luaF_close(uv) PROVE color'[u] # "free"
  <2>. DEFINE w == Value(uv)
              c == [color EXCEPT ![uv] = "black"]
  <2>1. CASE isdead(uv)
    BY <1>0, <1>1, <1>3, <1>12, <2>1 DEF luaF_close
  <2>2. CASE ~isdead(uv)
    <3>1. color' = luaC_linkupval(uv, w).color
      BY <1>12, <2>2 DEF luaF_close, Changed
    <3>2. Refs(uv) = w /\ w \subseteq All
      BY <1>0, <1>1, MarksFacts, KindFacts DEF Refs
    <3>3. c \in [All -> Colors] /\ c[u] # "free"
      BY <1>0, <1>1, <1>3
    <3>4. [color EXCEPT ![uv] = currentwhite][u] # "free"
      BY <1>0, <1>1, <1>3
    <3>5. [Mark EXCEPT !.color = c].color = c
          /\ [Mark EXCEPT !.color[uv] = currentwhite].color = [color EXCEPT ![uv] = currentwhite]
      BY DEF Mark
    <3>6. w # {} => luaC_barrier(c, uv, CHOOSE x \in w : TRUE).color[u] # "free"
      <4>. SUFFICES ASSUME w # {} PROVE luaC_barrier(c, uv, CHOOSE x \in w : TRUE).color[u] # "free"
        OBVIOUS
      <4>. DEFINE y == CHOOSE x \in w : TRUE
      <4>1. y \in w
        BY <3>2
      <4>2. y \in All /\ uv \in All /\ u \in All
        BY <1>1, <3>2, <4>1
      <4>. HIDE DEF y, c
      <4>3. luaC_barrier(c, uv, y).color[u] # "free"
        BY <1>0, <3>3, <4>2, BarrierFreesNone
      <4>. QED
        BY <4>3 DEF y
    <3>7. \/ luaC_linkupval(uv, w) = Mark \/ luaC_linkupval(uv, w) = [Mark EXCEPT !.color = c]
          \/ w # {} /\ luaC_linkupval(uv, w) = luaC_barrier(c, uv, CHOOSE x \in w : TRUE)
          \/ luaC_linkupval(uv, w) = [Mark EXCEPT !.color[uv] = currentwhite]
      BY DEF luaC_linkupval
    <3>. HIDE DEF w, c
    <3>. QED
      BY <1>0, <1>3, <3>1, <3>3, <3>4, <3>5, <3>6, <3>7
  <2>. QED
    BY <2>1, <2>2
<1>13. ASSUME NEW uv \in Upvals, NEW f \in Functions, NEW co \in Coroutines, OP_CLOSURE(f, co, uv)
       PROVE  color'[u] # "free"
  <2>1. u # uv /\ u # f
    BY <1>1, <1>13, KindFacts
  <2>2. color'[u] = color[u]
    BY <1>0, <1>1, <1>13, <2>1 DEF OP_CLOSURE
  <2>. QED
    BY <1>3, <2>2
<1>14. ASSUME luaC_fullgc PROVE color'[u] # "free"
  BY <1>3, <1>14 DEF luaC_fullgc
<1>. QED
  BY <1>4, <1>5, <1>6, <1>7, <1>9, <1>10, <1>11, <1>12, <1>13, <1>14 DEF Mutator

\* A userdata is handed to its finalizer once, and only when the program has lost it or has
\* it only through userdata whose finalizer is yet to be called; none is freed before its
\* finalizer was called: for every heap (luaC_separateudata, marktmu, sweeplist, GCTM).
THEOREM LuaFinalizedOnce == Spec => FinalizedOnce
<1>1. Init => GInv
  BY GInvInit
<1>2. GInv /\ [Next]_vars => GInv'
  BY GInvStep
<1>3. GInv /\ [Next]_vars => [Once]_vars
  BY SinglestepOnce, MutatorOnce DEF Next
<1>4. [][Once]_vars => FinalizedOnce
  <2>1. Once => \A u \in HasGC :
       /\ u \in tmudata' \ tmudata => u \notin KeptWithout(tmudata) /\ u \notin finalized
       /\ color[u] # "free" /\ color'[u] = "free" => u \in finalized /\ u \notin tmudata
    BY DEF Once
  <2>. QED
    BY <2>1, PTL DEF FinalizedOnce
<1>. QED
  BY <1>1, <1>2, <1>3, <1>4, PTL DEF Spec
================================================================================
