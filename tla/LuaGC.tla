--------------------------------- MODULE LuaGC ---------------------------------
(***************************************************************************)
(* The incremental garbage collector of the Lua runtime (lgc.c) and the    *)
(* program that changes the heap between its steps, with the barriers,     *)
(* weak tables, finalizers, interned strings and open upvalues.            *)
(* Objects are identities of fixed kinds that are used again once freed.   *)
(***************************************************************************)
EXTENDS Integers, FiniteSetsExt

CONSTANTS
  Tables, Functions, Udata, Strings, Upvals, Coroutines,   \* the objects there may be
  WeakKey, WeakValue,   \* the tables whose __mode has "k", "v"
  HasGC,                \* the userdata whose metatable has __gc
  main,                 \* the main thread
  number, nil,          \* a value that is no object, and none
  StackSize             \* a bound on what the program pushes on the main thread's stack

Objects == Tables \cup Functions \cup Udata \cup Strings \cup Upvals \cup Coroutines
All == Objects \cup {main}
Threads == Coroutines \cup {main}

\* The heap is finite and an object has one kind.
ASSUME LuaGCAssumption ==
  /\ IsFiniteSet(Objects)
  /\ Tables \cap (Functions \cup Udata \cup Strings \cup Upvals \cup Coroutines) = {}
  /\ Functions \cap (Udata \cup Strings \cup Upvals \cup Coroutines) = {}
  /\ Udata \cap (Strings \cup Upvals \cup Coroutines) = {}
  /\ Strings \cap (Upvals \cup Coroutines) = {} /\ Upvals \cap Coroutines = {}
  /\ main \notin Objects /\ {number, nil} \cap All = {}
  /\ WeakKey \cup WeakValue \subseteq Tables /\ HasGC \subseteq Udata
  /\ StackSize \in Nat

VARIABLES
  color,       \* "free", or what the mark bits of an object say
  entry,       \* the entry of each table, a set of at most one << key, value >>
  holds,       \* what other objects refer to: upvalues, environment, stack
  open,        \* of each upvalue the coroutine on whose stack its variable lives
  marked,      \* the gray lists of the collector: gray, grayagain, weak
  gcstate,     \* "pause", "propagate", "sweep" or "finalize"
  currentwhite,
  sweepgc,     \* what is still to be swept
  tmudata,     \* userdata whose finalizer is to be called
  finalized,   \* those with the bit that they were, or need not be
  full         \* luaC_fullgc: "no", "sweep" before it marks, "mark" from then,
               \* "called" while a finalizer runs in it

heap == << entry, holds, open >>
phase == << gcstate, currentwhite, sweepgc, tmudata, finalized, full >>
vars == << color, heap, marked, phase >>

White == {"white0", "white1"}
otherwhite == CHOOSE w \in White : w # currentwhite
isdead(o) == color[o] = otherwhite
Allocated == {o \in All : color[o] # "free"}
Value(uv) == IF open[uv] = nil THEN holds[uv] ELSE holds[open[uv]]

--------------------------------------------------------------------------------
(* Marking.  A mark is a record of the colors and the gray lists. *)

Mark == [color |-> color, gray |-> marked.gray, grayagain |-> marked.grayagain,
         weak |-> marked.weak]
Lists(m) == [gray |-> m.gray, grayagain |-> m.grayagain, weak |-> m.weak]

\* What is found from S along the edges: edges[o] is what o leads to.
Closure(S, edges) ==
  LET from[X \in SUBSET All] ==
        LET further == X \cup UNION {edges[o] : o \in X}
        IN IF further = X THEN X ELSE from[further]
  IN from[S]

\* What a table keeps alive.
Strong(t) ==
  UNION {(IF t \in WeakKey THEN {} ELSE {e[1]} \ {number}) \cup
         (IF t \in WeakValue THEN {} ELSE {e[2]}) : e \in entry[t]}

\* What the traversal of an object marks, and the colors it leaves it with.
Marks(o) == CASE o \in Tables -> Strong(o)
              [] o \in Strings -> {}
              [] o \in Upvals -> Value(o)
              [] OTHER -> holds[o]

Weak == WeakKey \cup WeakValue

Traversed(o) == IF \/ o \in Strings \cup Threads \cup Weak
                   \/ o \in Upvals /\ open[o] # nil THEN "gray" ELSE "black"

\* reallymarkobject of those of S that are white.  Userdata and upvalues are
\* traversed at once, the rest is put into the gray list.
Listed == Tables \cup Functions \cup Threads

mark(m, S) ==
  LET white(X) == {o \in X : m.color[o] \in White}
      new == Closure(white(S), [o \in All |-> IF o \in Listed THEN {} ELSE white(Marks(o))])
  IN [m EXCEPT !.color = [o \in All |-> IF o \notin new THEN @[o]
                                        ELSE IF o \in Listed THEN "gray" ELSE Traversed(o)],
               !.gray = @ \cup (new \cap Listed)]

\* The objects of S are traversed: weak tables and threads stay gray, in lists
\* of their own.
Traverse(m, S) ==
  [m EXCEPT !.color = [o \in All |-> IF o \in S THEN Traversed(o) ELSE @[o]],
            !.gray = @ \ S,
            !.weak = @ \cup (S \cap Weak),
            !.grayagain = @ \cup (S \cap Threads)]

propagatemark(m, o) == mark(Traverse(m, {o}), Marks(o))

\* propagatemark until nothing is gray.
propagateall(m) ==
  Traverse(m, Closure(m.gray, [o \in All |-> {x \in Marks(o) : m.color[x] \in White}]))

\* iscleared: whether weak tables must let go of o.
iscleared(m, fin, o, iskey) ==
  /\ o \in Objects \ Strings
  /\ m.color[o] \in White \/ (o \in Udata /\ ~iskey /\ o \in fin)

Cleared(m, fin, e) == iscleared(m, fin, e[1], TRUE) \/ iscleared(m, fin, e[2], FALSE)

\* The strings that cleartable meets, and therefore marks.
StringsMet(m, fin) ==
  Strings \cap UNION {{e[1]} \cup (IF iscleared(m, fin, e[1], TRUE) THEN {} ELSE {e[2]}) :
                      e \in UNION {entry[t] : t \in m.weak}}

\* The values of the open upvalues that are marked, whatever becomes of their thread.
remarkupvals(m) ==
  mark(m, UNION {Value(uv) : uv \in {u \in Upvals : open[u] # nil /\ m.color[u] = "gray"}})

\* The second and third rounds of atomic: weak tables and what is gray again.
Remark(m) ==
  LET w == propagateall(mark([m EXCEPT !.gray = @ \cup m.weak, !.weak = {}], {main}))
  IN propagateall([w EXCEPT !.gray = w.grayagain, !.grayagain = {}])

\* Mutant: a userdata that was separated before is separated again.
Mutant_separateudata(m) == {u \in Udata : m.color[u] \in White}

\* luaC_separateudata: the userdata found unreachable for the first time.
separateudata(m) == {u \in Udata \ finalized : m.color[u] \in White}

\* marktmu: what waits for its finalizer is kept, and all it refers to.
marktmu(m, tmu) ==
  propagateall(mark([m EXCEPT !.color =
                       [o \in All |-> IF o \in tmu THEN currentwhite ELSE @[o]]], tmu))

Swept(tmu) == {o \in Allocated \ tmu : o \in Upvals => open[o] = nil}

\* Mutant: the white of this cycle stays current.
Mutant_Flipped == currentwhite

\* The white of what is created from now on; what keeps the other is dead.
Flipped == otherwhite

atomic ==
  LET m3 == Remark(propagateall(remarkupvals(Mark)))
      new == separateudata(m3)
      tmu == tmudata \cup (new \cap HasGC)
      m == marktmu(m3, tmu)
      fin == finalized \cup new
  IN /\ color' = [o \in All |-> IF o \in StringsMet(m, fin) THEN "gray" ELSE m.color[o]]
     /\ entry' = [t \in Tables |-> IF t \in m.weak THEN {e \in entry[t] : ~Cleared(m, fin, e)}
                                   ELSE entry[t]]
     /\ marked' = Lists(m)
     /\ currentwhite' = Flipped
     /\ sweepgc' = Swept(tmu)
     /\ gcstate' = "sweep"
     /\ tmudata' = tmu
     /\ finalized' = fin
     /\ UNCHANGED << holds, open, full >>

--------------------------------------------------------------------------------
(* The steps of the collector *)

markroot ==
  /\ \/ gcstate = "pause" /\ UNCHANGED full
     \/ gcstate = "finalize" /\ full = "sweep" /\ full' = "mark"
  /\ LET m == mark([color |-> color, gray |-> {}, grayagain |-> {}, weak |-> {}], {main}) IN
       color' = m.color /\ marked' = Lists(m)
  /\ gcstate' = "propagate"
  /\ UNCHANGED << heap, currentwhite, sweepgc, tmudata, finalized >>

propagate ==
  /\ gcstate = "propagate"
  /\ IF marked.gray = {} THEN atomic
     ELSE /\ \E o \in marked.gray :
               LET m == propagatemark(Mark, o) IN color' = m.color /\ marked' = Lists(m)
          /\ UNCHANGED << heap, phase >>

\* What sweeping o leaves of the colors: a thread takes its open upvalues along.
Sweepings(o) == {o} \cup (IF o \in Coroutines THEN {uv \in Upvals : open[uv] = o} ELSE {})

\* sweeplist, one object at a time and strings first.  A thread that is freed
\* closes the upvalues that live on its stack (luaE_freethread).
sweep ==
  /\ gcstate = "sweep"
  /\ IF sweepgc = {}
     THEN gcstate' = "finalize" /\ UNCHANGED << color, heap, sweepgc >>
     ELSE \E o \in sweepgc :
       LET dead == {x \in Sweepings(o) : isdead(x) /\ x # main}
           closed == {uv \in Upvals : open[uv] \in dead /\ uv \notin dead}
       IN /\ o \in Strings \/ sweepgc \cap Strings = {}
          /\ sweepgc' = sweepgc \ {o}
          /\ color' = [x \in All |-> IF x \in dead THEN "free"
                                     ELSE IF x \in Sweepings(o) THEN currentwhite ELSE color[x]]
          /\ open' = [uv \in Upvals |-> IF uv \in closed \cup dead THEN nil ELSE open[uv]]
          /\ holds' = [x \in All \ Tables |-> IF x \in dead THEN {}
                                              ELSE IF x \in closed THEN Value(x) ELSE holds[x]]
          /\ entry' = [t \in Tables |-> IF t \in dead THEN {} ELSE entry[t]]
          /\ UNCHANGED gcstate
  /\ UNCHANGED << marked, currentwhite, tmudata, full >>
  /\ finalized' = finalized \ {u \in Udata : color'[u] = "free"}

\* GCTM calls a finalizer with the userdata, which the program may keep.
GCTM(u) ==
  /\ gcstate = "finalize" /\ full # "sweep" /\ u \in tmudata
  /\ tmudata' = tmudata \ {u}
  /\ color' = [color EXCEPT ![u] = currentwhite]
  /\ holds' = [holds EXCEPT ![main] = @ \cup {u}]
  /\ full' = IF full = "mark" THEN "called" ELSE full
  /\ UNCHANGED << entry, open, marked, gcstate, currentwhite, sweepgc, finalized >>

CycleEnds ==
  /\ gcstate = "finalize" /\ full # "sweep" /\ tmudata = {}
  /\ gcstate' = "pause" /\ full' = "no"
  /\ UNCHANGED << color, heap, marked, currentwhite, sweepgc, tmudata, finalized >>

singlestep ==
  markroot \/ propagate \/ sweep \/ CycleEnds \/ \E u \in tmudata : GCTM(u)

\* The program runs between steps, and in finalizers.
Program == full \in {"no", "called"}

\* luaC_fullgc drops a mark phase begun, sweeps, and marks anew.
luaC_fullgc ==
  /\ Program
  /\ full' = "sweep"
  /\ IF gcstate \in {"pause", "propagate"}
     THEN /\ gcstate' = "sweep" /\ sweepgc' = Swept(tmudata)
          /\ marked' = [gray |-> {}, grayagain |-> {}, weak |-> {}]
     ELSE UNCHANGED << gcstate, sweepgc, marked >>
  /\ UNCHANGED << color, heap, currentwhite, tmudata, finalized >>

--------------------------------------------------------------------------------
(* The program *)

Stack == holds[main]

\* Mutant: the barrier does nothing.
Mutant_luaC_barrier(c, o, v) == [Mark EXCEPT !.color = c]

\* luaC_barrier: o, with colors c, has come to refer to v.
luaC_barrier(c, o, v) ==
  IF c[o] # "black" \/ c[v] \notin White THEN [Mark EXCEPT !.color = c]
  ELSE IF gcstate = "propagate" THEN mark([Mark EXCEPT !.color = c], {v})
  ELSE [Mark EXCEPT !.color = [c EXCEPT ![o] = currentwhite]]

\* luaC_barrierback: a table has come to refer to the objects of S.
luaC_barrierback(t, S) ==
  IF color[t] = "black" /\ \E v \in S : color[v] \in White
  THEN [Mark EXCEPT !.color[t] = "gray", !.grayagain = @ \cup {t}]
  ELSE Mark

Changed(m) == color' = m.color /\ marked' = Lists(m) /\ UNCHANGED phase

Pushed(o) == [holds EXCEPT ![main] = @ \cup {o}]
Room(o) == Cardinality(Stack \cup {o}) <= StackSize

\* A table, userdata, coroutine, or C function with an upvalue is created.
luaC_link(o) ==
  /\ Program /\ color[o] = "free" /\ Room(o)
  /\ o \in Tables \cup Udata \cup Coroutines \cup Functions
  /\ color' = [color EXCEPT ![o] = currentwhite]
  /\ \E S \in IF o \in Functions THEN {{x} : x \in Stack} ELSE {{}} :
       holds' = [x \in All \ Tables |-> IF x = o THEN S ELSE Pushed(o)[x]]
  /\ UNCHANGED << entry, open, marked, phase >>

\* A string is found among the strings, also one that is only not yet swept.
luaS_newlstr(s) ==
  /\ Program /\ Room(s)
  /\ color' = [color EXCEPT ![s] = IF color[s] = "free" \/ isdead(s) THEN currentwhite ELSE @]
  /\ holds' = Pushed(s)
  /\ UNCHANGED << entry, open, marked, phase >>

Refs(o) == IF o \in Tables THEN UNION {{e[1], e[2]} \ {number} : e \in entry[o]}
           ELSE IF o \in Upvals THEN Value(o) ELSE holds[o]

\* A field, an upvalue or an environment is read, or a value dropped.
Get(o) ==
  /\ Program /\ Room(o)
  /\ \E x \in Stack : o \in Refs(x) \/ \E uv \in Refs(x) \cap Upvals : o \in Value(uv)
  /\ o \notin Upvals
  /\ holds' = Pushed(o)
  /\ UNCHANGED << color, entry, open, marked, phase >>

Pop(o) ==
  /\ Program /\ o \in Stack
  /\ holds' = [holds EXCEPT ![main] = @ \ {o}]
  /\ UNCHANGED << color, entry, open, marked, phase >>

SetTable(t, k, v) ==
  /\ Program /\ {t, v} \cup ({k} \ {number}) \subseteq Stack
  /\ entry' = [entry EXCEPT ![t] = {<< k, v >>}]
  /\ Changed(luaC_barrierback(t, {k, v} \ {number}))
  /\ UNCHANGED << holds, open >>

SetNil(t) ==
  /\ Program /\ t \in Stack
  /\ entry' = [entry EXCEPT ![t] = {}]
  /\ UNCHANGED << color, holds, open, marked, phase >>

\* The metatable or environment of a userdata, or the upvalue of a C function, is set.
SetReference(o, v) ==
  /\ Program /\ {o, v} \subseteq Stack
  /\ (o \in Udata /\ v \in Tables) \/ (o \in Functions /\ holds[o] \cap Upvals = {})
  /\ holds' = [holds EXCEPT ![o] = {v}]
  /\ Changed(luaC_barrier(color, o, v))
  /\ UNCHANGED << entry, open >>

\* A coroutine's stack is written without a barrier.
SetStack(co, v) ==
  /\ Program /\ {co, v} \subseteq Stack
  /\ holds' = [holds EXCEPT ![co] = {v}]
  /\ UNCHANGED << color, entry, open, marked, phase >>

\* luaF_findupval flips the white of a dead upvalue that it finds.
Resurrected(uv) == IF isdead(uv) THEN currentwhite ELSE color[uv]

\* OP_CLOSURE in a coroutine: a function shares the variable on its stack.
OP_CLOSURE(f, co, uv) ==
  /\ Program /\ co \in Stack /\ color[f] = "free" /\ Room(f)
  /\ \/ open[uv] = co /\ color' = [color EXCEPT ![f] = currentwhite, ![uv] = Resurrected(uv)]
     \/ /\ color[uv] = "free" /\ \A x \in Upvals : open[x] # co
        /\ color' = [color EXCEPT ![f] = currentwhite, ![uv] = currentwhite]
  /\ open' = [open EXCEPT ![uv] = co]
  /\ holds' = [Pushed(f) EXCEPT ![f] = {uv}]
  /\ UNCHANGED << entry, marked, phase >>

OP_SETUPVAL(uv, v) ==
  /\ Program /\ v \in Stack /\ uv \in UNION {holds[f] : f \in Stack \cap Functions}
  /\ IF open[uv] = nil
     THEN holds' = [holds EXCEPT ![uv] = {v}] /\ Changed(luaC_barrier(color, uv, v))
     ELSE holds' = [holds EXCEPT ![open[uv]] = {v}] /\ UNCHANGED << color, marked, phase >>
  /\ UNCHANGED << entry, open >>

\* luaC_linkupval: an upvalue closed with value v, if any.
luaC_linkupval(uv, v) ==
  IF color[uv] # "gray" THEN Mark
  ELSE IF gcstate = "propagate"
  THEN LET c == [color EXCEPT ![uv] = "black"] IN
         IF v = {} THEN [Mark EXCEPT !.color = c] ELSE luaC_barrier(c, uv, CHOOSE x \in v : TRUE)
  ELSE [Mark EXCEPT !.color[uv] = currentwhite]

\* luaF_close of the variable on a coroutine's stack.
luaF_close(uv) ==
  /\ Program /\ open[uv] \in Stack
  /\ open' = [open EXCEPT ![uv] = nil]
  /\ IF isdead(uv)
     THEN color' = [color EXCEPT ![uv] = "free"] /\ UNCHANGED << holds, marked, phase >>
     ELSE /\ holds' = [holds EXCEPT ![uv] = Value(uv)]
          /\ Changed(luaC_linkupval(uv, Value(uv)))
  /\ UNCHANGED entry

--------------------------------------------------------------------------------

Init ==
  /\ color = [o \in All |-> IF o = main THEN "white0" ELSE "free"]
  /\ entry = [t \in Tables |-> {}]
  /\ holds = [o \in All \ Tables |-> {}]
  /\ open = [uv \in Upvals |-> nil]
  /\ marked = [gray |-> {}, grayagain |-> {}, weak |-> {}]
  /\ gcstate = "pause" /\ currentwhite = "white0" /\ sweepgc = {}
  /\ tmudata = {} /\ finalized = {} /\ full = "no"

Mutator ==
  \/ \E o \in Objects : luaC_link(o) \/ Get(o) \/ Pop(o)
  \/ \E s \in Strings : luaS_newlstr(s)
  \/ \E t \in Tables :
       SetNil(t) \/ \E k \in Stack \cup {number}, v \in Stack : SetTable(t, k, v)
  \/ \E v \in Stack : \/ \E o \in Udata \cup Functions : SetReference(o, v)
                      \/ \E co \in Coroutines : SetStack(co, v)
                      \/ \E uv \in Upvals : OP_SETUPVAL(uv, v)
  \/ \E uv \in Upvals :
       luaF_close(uv) \/ \E f \in Functions, co \in Coroutines : OP_CLOSURE(f, co, uv)
  \/ luaC_fullgc

Next == singlestep \/ Mutator

\* Every allocation pays for a share of a collection (luaC_checkGC), so that its steps
\* never stop; there is always one to take, so this is their weak fairness.
Spec == Init /\ [][Next]_vars /\ []<><<singlestep>>_vars

--------------------------------------------------------------------------------
(* Properties *)

\* What the program can get at.
Reachable == Closure({main}, [o \in All |-> Refs(o)])

\* What keeps an object: weak references do not, except of strings, which a
\* weak table treats as values.
StrongRefs(o) == IF o \in Tables THEN Strong(o) \cup (Refs(o) \cap Strings) ELSE Refs(o)
Kept == Closure({main}, [o \in All |-> StrongRefs(o)])

\* What is kept without the userdata that wait for their finalizers: they stay
\* black until it is called, so that a collection does not go on from them.
KeptWithout(U) == Closure({main}, [o \in All |-> IF o \in U THEN {} ELSE StrongRefs(o)])

\* Whatever the program can get at, through weak tables, open upvalues of dead
\* threads and finalizers too, is there, and is not about to be swept away.
NothingReachableFreed == \A o \in Reachable : color[o] # "free" /\ ~isdead(o)

\* While the collector marks, no object it is done with refers to one that it
\* has not found, except those that still wait for a finalizer from before.
BlackNotToWhite ==
  gcstate = "propagate" =>
    \A o \in All \ tmudata : color[o] = "black" => \A x \in Refs(o) : color[x] \notin White

\* The gray lists are linked through one field of an object: none is in two.
ListsApart ==
  /\ marked.gray \cap marked.grayagain = {} /\ marked.gray \cap marked.weak = {}
  /\ marked.grayagain \cap marked.weak = {}
  /\ gcstate = "propagate" => \A o \in UNION {marked[l] : l \in DOMAIN marked} : color[o] = "gray"

\* Whatever the program can get at is there and is not about to be swept away,
\* however it changes the heap between the collector's steps; while the
\* collector marks, what it is done with refers to nothing it has not found;
\* and no object is in two of its lists (lgc.c).
HeapSound == NothingReachableFreed /\ BlackNotToWhite /\ ListsApart

\* Userdata is handed to its finalizer once, only when the program has lost it or
\* has it only through userdata whose finalizer is yet to be called, and is not
\* freed without (luaC_separateudata, marktmu).
FinalizedOnce ==
  [][\A u \in HasGC :
       /\ u \in tmudata' \ tmudata => u \notin KeptWithout(tmudata) /\ u \notin finalized
       /\ color[u] # "free" /\ color'[u] = "free" => u \in finalized /\ u \notin tmudata]_vars

\* What the program has lost is freed, unless a finalizer or the strings give it back.
GarbageFreed == \A o \in Objects : o \notin Kept ~> color[o] = "free" \/ o \in Kept
================================================================================
