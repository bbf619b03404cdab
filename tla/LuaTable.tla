------------------------------- MODULE LuaTable -------------------------------
(***************************************************************************)
(* The tables of the Lua runtime (ltable.c): an array part and a hash part *)
(* of chained nodes in which colliding keys move, the rehash that sizes    *)
(* both, traversal with next and the length operator.                      *)
(***************************************************************************)
EXTENDS Integers, FiniteSets, SequencesExt

CONSTANTS
  MaxIndex,    \* the positive integers used as keys are 1 .. MaxIndex
  Strings,     \* other keys, which the collector can free
  Hash,        \* the hash of every key
  value, nil,  \* a value, and none
  MAX_INT      \* the greatest int, for the search of a boundary

Ints == 1 .. MaxIndex
Keys == Ints \cup Strings

LuaTableAssumption ==
  /\ MaxIndex \in Nat /\ MAX_INT \in Nat \ {0} /\ Hash \in [Keys -> Nat]
  /\ Strings \cap Int = {} /\ IsFiniteSet(Strings)
  /\ nil \notin Keys \cup {value}

VARIABLES
  hashed,   \* the table, [array, node, lastfree]: node is << >> for the dummy node
  content,  \* what the program put there
  next      \* the traversal in progress: the key it is at, and the keys it met

tableVars == << hashed, content, next >>

Empty == [array |-> << >>, node |-> << >>, lastfree |-> 1]
NoTraversal == [key |-> nil, seen |-> {}, on |-> FALSE]
Free == [key |-> nil, tt |-> "live", val |-> nil, next |-> 0]

twoto[s \in Nat] == IF s = 0 THEN 1 ELSE 2 * twoto[s - 1]

--------------------------------------------------------------------------------
(* Nodes are numbered from 1; 0 is the NULL of their chains. *)

mainposition(t, k) ==
  LET n == Len(t.node) IN
    1 + (IF k \in Strings THEN Hash[k] % n ELSE Hash[k] % (IF n = 1 THEN 1 ELSE n - 1))

\* The node after so many turns along the chain that begins at node i.
Chain(t, i) ==
  LET gnext[turns \in 0 .. Len(t.node)] ==
        IF turns = 0 THEN i
        ELSE IF gnext[turns - 1] = 0 THEN 0 ELSE t.node[gnext[turns - 1]].next
  IN gnext

\* The first node of the chain that begins at node i which is one of these, 0 for none.
FirstNode(t, i, these) ==
  LET chain == Chain(t, i)
      hits == {turns \in 0 .. Len(t.node) - 1 : chain[turns] \in these}
  IN IF hits = {} THEN 0 ELSE chain[Min(hits)]

\* The node of a key: the collector's mark on a dead key makes it another one.
WithKey(t, k) == {i \in DOMAIN t.node : t.node[i].key = k}
Live(t) == {i \in DOMAIN t.node : t.node[i].tt = "live"}
NodeOf(t, k) == FirstNode(t, mainposition(t, k), WithKey(t, k) \cap Live(t))

InArray(t, k) == k \in Ints /\ k <= Len(t.array)

\* luaH_get
Get(t, k) ==
  IF InArray(t, k) THEN t.array[k]
  ELSE IF NodeOf(t, k) = 0 THEN nil
  ELSE t.node[NodeOf(t, k)].val

\* getfreepos: the last free node before lastfree, 0 for none.
getfreepos(t) ==
  LET free == {i \in DOMAIN t.node : i < t.lastfree /\ t.node[i].key = nil}
  IN IF free = {} THEN 0 ELSE Max(free)

\* Mutant: a node that is moved leaves its old place in the chain.
Mutant_Moved(t, mp, othern, free) ==
  [t EXCEPT !.node[free] = t.node[mp], !.node[mp] = Free]

\* A colliding node that is out of its main position goes to the free place.
Moved(t, mp, othern, free) ==
  LET previous == FirstNode(t, othern, {i \in DOMAIN t.node : t.node[i].next = mp})
  IN [t EXCEPT !.node[previous].next = free, !.node[free] = t.node[mp], !.node[mp] = Free]

HasRoom(t, k) ==
  t.node # << >> /\ (t.node[mainposition(t, k)].val = nil \/ getfreepos(t) # 0)

\* newkey when there is a place for it, and the store.
newkey(t, k, v) ==
  LET mp == mainposition(t, k)
      free == getfreepos(t)
      othern == mainposition(t, t.node[mp].key)
      at(u, i) == [u EXCEPT !.node[i].key = k, !.node[i].tt = "live", !.node[i].val = v]
      taken == [t EXCEPT !.lastfree = free]
  IN IF t.node[mp].val = nil THEN at(t, mp)
     ELSE IF othern # mp THEN at(Moved(taken, mp, othern, free), mp)
     ELSE at([taken EXCEPT !.node[free].next = t.node[mp].next, !.node[mp].next = free], free)

\* luaH_set followed by the store, in a table that has a place for a new key; a
\* key that found none would be lost.
Store(t, k, v) ==
  IF InArray(t, k) THEN [t EXCEPT !.array[k] = v]
  ELSE IF NodeOf(t, k) # 0 THEN [t EXCEPT !.node[NodeOf(t, k)].val = v]
  ELSE IF HasRoom(t, k) THEN newkey(t, k, v) ELSE t

--------------------------------------------------------------------------------
(* The rehash *)

\* The slice twoto(s - 1) < n <= twoto(s) of the numbers that n is in.
ceillog2(n) == CHOOSE s \in 0 .. n : twoto[s] >= n /\ (s = 0 \/ twoto[s - 1] < n)
Used(t, extra) == {k \in Ints : Get(t, k) # nil \/ k = extra}

\* Whether n places are worth having when a of them are used.
Worth(a, n) == a > n \div 2

\* A turn of the loop in computesizes, for slice s: of a keys so far na go to an
\* array part of n.
Turn(used, p, s) ==
  LET nums == Cardinality({k \in used : ceillog2(k) = s})
      narray == Cardinality(used)
      a == p.a + nums
  IN IF twoto[s] \div 2 >= narray \/ p.a = narray \/ nums = 0 THEN p
     ELSE IF Worth(a, twoto[s]) THEN [a |-> a, n |-> twoto[s], na |-> a]
     ELSE [p EXCEPT !.a = a]

\* computesizes: the size of the array part, and how many keys go there.
computesizes(used) ==
  LET after[turns \in 0 .. MaxIndex + 1] ==
        IF turns = 0 THEN [a |-> 0, n |-> 0, na |-> 0]
        ELSE Turn(used, after[turns - 1], turns - 1)
  IN after[MaxIndex + 1]

\* The elements are numbered through both parts.
Size(t) == Len(t.array) + Len(t.node)
Element(t, i) == IF i <= Len(t.array) THEN << i, t.array[i] >>
                 ELSE LET n == t.node[i - Len(t.array)] IN << n.key, n.val >>

\* The elements that lose their place to an array part of this size, in the order
\* in which they are inserted again: the vanishing slice of the array upwards,
\* then the nodes downwards.
Leaving(t, nasize) ==
  LET kept == IF nasize < Len(t.array) THEN nasize ELSE Len(t.array)
      slice == Len(t.array) - kept
  IN [i \in 1 .. Size(t) - kept |-> Element(t, IF i <= slice THEN kept + i ELSE Size(t) + 1 + slice - i)]

resize(t, nasize, nhsize) ==
  LET size == IF nhsize = 0 THEN 0 ELSE twoto[ceillog2(nhsize)]
      empty == [array |-> [i \in 1 .. nasize |-> IF i <= Len(t.array) THEN t.array[i] ELSE nil],
                node |-> [i \in 1 .. size |-> Free],
                lastfree |-> size + 1]
      leaving == Leaving(t, nasize)
      after[i \in 0 .. Len(leaving)] ==
        IF i = 0 THEN empty
        ELSE IF leaving[i][2] = nil THEN after[i - 1]
        ELSE Store(after[i - 1], leaving[i][1], leaving[i][2])
  IN after[Len(leaving)]

rehash(t, k) ==
  LET used == Used(t, k)
      others == {s \in Strings : Get(t, s) # nil \/ s = k}
      c == computesizes(used)
  IN resize(t, c.n, Cardinality(used) + Cardinality(others) - c.na)

\* luaH_set and the store.
luaH_set(t, k, v) ==
  IF InArray(t, k) \/ NodeOf(t, k) # 0 \/ HasRoom(t, k)
  THEN Store(t, k, v) ELSE Store(rehash(t, k), k, v)

--------------------------------------------------------------------------------

\* An assignment; while a traversal is on, only to a field there is.
Assign(k, v) ==
  /\ next.on => content[k] # nil
  /\ hashed' = luaH_set(hashed, k, v)
  /\ content' = [content EXCEPT ![k] = v]
  /\ UNCHANGED next

\* The collector traverses the table and marks the keys of empty nodes dead.
removeentry ==
  /\ hashed' = [hashed EXCEPT !.node =
                  [i \in DOMAIN @ |-> IF @[i].val = nil /\ @[i].key \in Strings
                                      THEN [@[i] EXCEPT !.tt = "dead"] ELSE @[i]]]
  /\ UNCHANGED << content, next >>

\* Mutant: a dead key is no longer known.
Mutant_KeyAt(t, k) == NodeOf(t, k)

\* The node that a traversal is at, by a key that may be dead.
KeyAt(t, k) == FirstNode(t, mainposition(t, k), WithKey(t, k))

\* findindex: 0 begins; -1 is the error that the key is not there.
findindex(t, k) ==
  IF k = nil THEN 0
  ELSE IF InArray(t, k) THEN k
  ELSE IF KeyAt(t, k) = 0 THEN -1 ELSE Len(t.array) + KeyAt(t, k)

\* luaH_next: the first element that is not empty after the one the key is of.
luaH_next ==
  LET from == findindex(hashed, next.key)
      rest == {i \in from + 1 .. Size(hashed) : Element(hashed, i)[2] # nil}
  IN /\ from # -1
     /\ next' = IF rest = {} THEN NoTraversal
                ELSE LET k == Element(hashed, Min(rest))[1] IN
                       [key |-> k, seen |-> next.seen \cup {k}, on |-> TRUE]
     /\ UNCHANGED << hashed, content >>

--------------------------------------------------------------------------------
(* The length *)

\* luaH_getnum; integers that are never used as keys are not there.
luaH_getnum(t, i) == IF i \in Ints THEN Get(t, i) ELSE nil

\* A turn of the binary search between i, which is 0 or there, and j, which is not.
Halved(t, p) ==
  LET m == (p.i + p.j) \div 2 IN
    IF p.j - p.i <= 1 THEN p
    ELSE IF luaH_getnum(t, m) = nil THEN [p EXCEPT !.j = m] ELSE [p EXCEPT !.i = m]

BinarySearch(t, i, j) ==
  LET search[turns \in 0 .. j] ==
        IF turns = 0 THEN [i |-> i, j |-> j] ELSE Halved(t, search[turns - 1])
  IN search[j].i

\* The linear search of unbound_search, from the beginning.
Linear(t) == CHOOSE n \in 0 .. MaxIndex : /\ \A k \in 1 .. n : Get(t, k) # nil
                                          /\ n = MaxIndex \/ Get(t, n + 1) = nil

\* A turn of unbound_search, which doubles j until it finds nothing there.
Doubled(t, p) ==
  IF luaH_getnum(t, p.j) = nil \/ 2 * p.j > MAX_INT THEN p ELSE [i |-> p.j, j |-> 2 * p.j]

unbound_search(t, start) ==
  LET search[turns \in 0 .. MAX_INT] ==
        IF turns = 0 THEN [i |-> start, j |-> start + 1] ELSE Doubled(t, search[turns - 1])
      p == search[MAX_INT]
  IN IF luaH_getnum(t, p.j) = nil THEN BinarySearch(t, p.i, p.j) ELSE Linear(t)

\* luaH_getn
getn(t) ==
  LET j == Len(t.array) IN
    IF j > 0 /\ t.array[j] = nil THEN BinarySearch(t, 0, j)
    ELSE IF t.node = << >> THEN j
    ELSE unbound_search(t, j)

--------------------------------------------------------------------------------

\* luaH_new: a table constructor asks for sizes.
TableInit ==
  /\ \E narray, nhash \in 0 .. 2 :
       hashed = resize(Empty, narray, nhash)
  /\ content = [k \in Keys |-> nil]
  /\ next = NoTraversal

TableNext ==
  \/ \E k \in Keys, v \in {value, nil} : Assign(k, v)
  \/ removeentry
  \/ luaH_next

TableSpec == TableInit /\ [][TableNext]_tableVars

--------------------------------------------------------------------------------
(* Properties *)

\* However keys collide, move and are inserted again, the table gives back what
\* was put there, and keeps no key twice.
IsTheMap ==
  /\ \A k \in Keys : Get(hashed, k) = content[k]
  /\ LET full == {i \in DOMAIN hashed.node : hashed.node[i].val # nil}
     IN \A i \in full : /\ ~InArray(hashed, hashed.node[i].key)
                        /\ \A j \in full \ {i} : hashed.node[i].key # hashed.node[j].key

\* The length is a boundary: the element before is there and the next is not.
LengthIsBoundary ==
  LET n == getn(hashed) IN
    /\ n \in 0 .. MaxIndex
    /\ n # 0 => content[n] # nil
    /\ n < MaxIndex => content[n + 1] = nil

\* A table gives back what was put there, whatever was moved, cleared, collected
\* and rehashed since, and its length is a boundary (ltable.c).
TablesAreMaps == IsTheMap /\ LengthIsBoundary

\* After a rehash more than half of the array part is in use, more than half of
\* the nodes are too, and the key the rehash was for had its place counted.
SizesFit ==
  [][(Len(hashed'.array) # Len(hashed.array) \/ Len(hashed'.node) # Len(hashed.node)) =>
       \E k \in Keys :
         LET used == {j \in Keys : content[j] # nil} \cup {k}
             n == Len(hashed'.array)
             size == Len(hashed'.node)
         IN /\ n # 0 => 2 * Cardinality(used \cap 1 .. n) > n
            /\ size # 0 => 2 * Cardinality(used \ 1 .. n) > size
            /\ Cardinality(used \ 1 .. n) <= size]_tableVars

\* A traversal in which fields are changed and cleared, and the collector runs,
\* never fails, meets no key twice, and all there are at its end.
TraversalComplete ==
  [][/\ findindex(hashed, next.key) # -1
     /\ next'.on /\ next' # next => next'.key \notin next.seen
     /\ next.on /\ ~next'.on => {k \in Keys : content[k] # nil} \subseteq next.seen]_tableVars

\* What the steps of a table do: traversals are complete (luaH_next), and a rehash
\* leaves more than half of each part in use (computesizes).
TableSteps == TraversalComplete /\ SizesFit
================================================================================
