------------------------------- MODULE LuaDoProofs -------------------------------
(***************************************************************************)
(* Calls, protected calls, errors and coroutines for every depth of the C  *)
(* stack, number of coroutines and limit: the counts are right and within  *)
(* the limits, errors are caught by the thread that raised them, and what  *)
(* refers to a call refers to a call in progress.                          *)
(***************************************************************************)
EXTENDS LuaDo, InductionLemmas, FiniteSetTheorems

--------------------------------------------------------------------------------
(* The inductive invariant *)

\* The records of the C stack.
Record ==
  [fn : {"execute"}, th : Threads, nexeccalls : Nat \ {0}]
    \cup [fn : {"C"}, th : Threads]
    \cup [fn : {"call"}, th : Threads, then : {"return", "throw"}]
    \cup [fn : {"pcall"}, th : Threads, previous : Nat, nCcalls : Nat, ci : Nat, errfunc : Nat]
    \cup [fn : {"resume"}, th : Threads, previous : Nat]

\* Of the first n records of the stack s: those that count as nested C calls, how
\* many they are, the calls that the records of t answer for, those that catch the
\* errors of t, and whether h is the call of t that made one of its protected calls.
Counting(s, n) == {i \in 1 .. n : s[i].fn \in {"call", "resume"}}
Depth(s, n) == Cardinality(Counting(s, n))
Piece(s, t, i) == IF s[i].th = t THEN Frames(s[i]) ELSE << >>
CallsOf(s, t, n) == FlattenSeq([i \in 1 .. n |-> Piece(s, t, i)])
Catchers(s, t, n) == {i \in 1 .. n : s[i].fn \in {"pcall", "resume"} /\ s[i].th = t}
Handler(s, t, h, n) ==
  \/ h = 0
  \/ \E k \in 1 .. n : s[k].fn = "pcall" /\ s[k].th = t /\ s[k].ci + 1 = h

\* Which records lie on which: luaV_execute and C functions are entered by a call,
\* a C function also by luaV_execute; only C functions make protected calls and
\* resume; a call that throws runs a message handler, on top of any error.
Above(a, b) ==
  /\ b.fn # "resume" => b.th = a.th
  /\ b.fn = "resume" => a.fn = "C"
  /\ b.fn = "pcall" => a.fn = "C"
  /\ b.fn = "execute" => a.fn \in {"call", "resume"}
  /\ b.fn = "C" => a.fn \in {"call", "execute"}
  /\ b.fn = "call" => \/ b.then = "return" /\ a.fn \in {"pcall", "C", "execute"}
                      \/ b.then = "throw" /\ a.fn # "pcall"
  /\ a.fn = "pcall" => b.fn = "call"

\* A record and what it says of the ones below it.
RecordOK(s, i) ==
  LET r == s[i] IN
    /\ r \in Record
    /\ i = 1 => r.fn = "pcall" /\ r.th = main
    /\ i > 1 => Above(s[i-1], r)
    /\ r.fn = "resume" => r.th \in Coroutines /\ \A k \in 1 .. i - 1 : s[k].th # r.th
    /\ r.fn = "pcall" => /\ r.nCcalls = Depth(s, i - 1)
                         /\ r.ci = Len(CallsOf(s, r.th, i - 1))
                         /\ Handler(s, r.th, r.errfunc, i - 1)
    /\ r.fn \in {"pcall", "resume"} => r.previous = LastOf(Catchers(s, r.th, i - 1))

StackOK(s) == s \in Seq(Record) /\ \A i \in 1 .. Len(s) : RecordOK(s, i)

\* What the threads know of the stack: the count of a thread whose records are on
\* top or below a resumption, the calls of those on the stack, and for all where
\* their errors are caught and which call holds their handler.
CountOK(s, n) ==
  /\ \A i \in 1 .. Len(s) : i = Len(s) \/ s[i+1].fn = "resume" => n[s[i].th] = Depth(s, i)
  /\ s = << >> => n[main] = 0
BaseOK(s, b) ==
  b[main] = 0 /\ \A i \in 1 .. Len(s) : s[i].fn = "resume" => b[s[i].th] = Depth(s, i)
FramesOK(s, c) ==
  /\ \A i \in 1 .. Len(s) : c[s[i].th] = CallsOf(s, s[i].th, Len(s))
  /\ s = << >> => c[main] = << >>
CatchOK(s, j) == \A t \in Threads : j[t] = LastOf(Catchers(s, t, Len(s)))
HandlerOK(s, h) == \A t \in Threads : Handler(s, t, h[t], Len(s))

Agree(s, n, b, c, j, h) ==
  StackOK(s) /\ CountOK(s, n) /\ BaseOK(s, b) /\ FramesOK(s, c) /\ CatchOK(s, j) /\ HandlerOK(s, h)

\* A thread on the stack is alive, a suspended one has been left by lua_yield.
StatusOK ==
  /\ status[main] = "ok"
  /\ \A i \in 1 .. Len(cs) : status[cs[i].th] = "ok" /\ (cs[i].th # main => started[cs[i].th])
  /\ \A t \in Threads : status[t] = "yield" =>
       /\ Len(ci[t]) > 1 /\ ci[t][Len(ci[t])] = "C"
       /\ \A i \in 1 .. Len(ci[t]) - 1 : ci[t][i] = "Lua"

SharedOK == \A t \in Threads : \A d \in openupval[t] : d \in 1 .. Len(ci[t]) /\ ci[t][d] = "Lua"

\* An error is raised by a call that was entered, and only with "throw" on its way
\* is the C stack as deep as it may get.
RaisingOK ==
  /\ raising # "none" => cs # << >> /\ cs[Len(cs)].fn # "pcall"
  /\ Depth(cs, Len(cs)) <= LUAI_MAXCCALLS + ErrorCalls
  /\ raising # "throw" => Depth(cs, Len(cs)) < LUAI_MAXCCALLS + ErrorCalls

TypesOK ==
  /\ ci \in [Threads -> Seq({"Lua", "C"})] /\ size_ci \in [Threads -> Nat]
  /\ nCcalls \in [Threads -> Nat] /\ baseCcalls \in [Threads -> Nat]
  /\ errorJmp \in [Threads -> Nat] /\ errfunc \in [Threads -> Nat]
  /\ status \in [Threads -> {"none", "ok", "yield", "error"}] /\ started \in [Threads -> BOOLEAN]
  /\ openupval \in [Threads -> SUBSET Nat] /\ raising \in {"none", "errormsg", "throw"}

LInv ==
  /\ TypesOK /\ Agree(cs, nCcalls, baseCcalls, ci, errorJmp, errfunc)
  /\ StatusOK /\ SharedOK /\ CallsBounded /\ RaisingOK

--------------------------------------------------------------------------------
(* The operators of the invariant *)

Kinds == {"Lua", "C"}

\* What kinds of records there are, and what they say.
LEMMA RecordFields ==
  ASSUME NEW r \in Record
  PROVE  /\ r.fn \in {"execute", "C", "call", "pcall", "resume"} /\ r.th \in Threads
         /\ r.fn = "execute" => r.nexeccalls \in Nat \ {0}
         /\ r.fn = "call" => r.then \in {"return", "throw"}
         /\ r.fn = "pcall" => r.previous \in Nat /\ r.nCcalls \in Nat /\ r.ci \in Nat /\ r.errfunc \in Nat
         /\ r.fn = "resume" => r.previous \in Nat
BY DEF Record

\* The number of nested C calls, one record more.
LEMMA DepthStep ==
  ASSUME NEW s, NEW n \in Nat
  PROVE  /\ Depth(s, 0) = 0 /\ Depth(s, n) \in Nat
         /\ IsFiniteSet(Counting(s, n))
         /\ Depth(s, n + 1) = Depth(s, n) + IF s[n+1].fn \in {"call", "resume"} THEN 1 ELSE 0
<1>1. Depth(s, 0) = 0
  <2>1. Counting(s, 0) = {}
    BY DEF Counting
  <2>. QED
    BY <2>1, FS_EmptySet DEF Depth
<1>2. IsFiniteSet(1 .. n)
  BY FS_Interval
<1>3. IsFiniteSet(Counting(s, n))
  BY <1>2, FS_Subset DEF Counting
<1>4. Depth(s, n) \in Nat
  BY <1>3, FS_CardinalityType DEF Depth
<1>5. CASE s[n+1].fn \in {"call", "resume"}
  <2>1. Counting(s, n + 1) = Counting(s, n) \cup {n + 1} /\ n + 1 \notin Counting(s, n)
    BY <1>5 DEF Counting
  <2>. QED
    BY <2>1, <1>1, <1>3, <1>4, <1>5, FS_AddElement DEF Depth
<1>6. CASE s[n+1].fn \notin {"call", "resume"}
  <2>1. Counting(s, n + 1) = Counting(s, n)
    BY <1>6 DEF Counting
  <2>. QED
    BY <2>1, <1>1, <1>3, <1>4, <1>6 DEF Depth
<1>. QED
  BY <1>5, <1>6

\* It does not grow towards the bottom.
LEMMA DepthMonotone ==
  ASSUME NEW s, NEW m \in Nat, NEW n \in Nat, m <= n
  PROVE  Depth(s, m) <= Depth(s, n)
<1>1. Counting(s, m) \subseteq Counting(s, n)
  BY DEF Counting
<1>2. IsFiniteSet(Counting(s, n))
  BY DepthStep
<1>. QED
  BY <1>1, <1>2, FS_Subset DEF Depth

\* The last of some indices.
LEMMA LastOfIs ==
  ASSUME NEW n \in Nat, NEW S, S \subseteq 1 .. n
  PROVE  /\ S = {} => LastOf(S) = 0
         /\ S # {} => LastOf(S) \in S /\ \A i \in S : i <= LastOf(S)
         /\ \A m \in S : (\A i \in S : i <= m) => LastOf(S) = m
         /\ LastOf(S) \in Nat
<1>1. CASE S = {}
  BY <1>1 DEF LastOf
<1>2. CASE S # {}
  <2>. DEFINE T == {n - i : i \in S}
  <2>1. T \subseteq Nat /\ T # {}
    <3>1. \A i \in S : n - i \in Nat
      OBVIOUS
    <3>. QED
      BY <3>1, <1>2
  <2>2. PICK k \in T : \A x \in T : k <= x
    BY <2>1, LeastNumber
  <2>3. PICK m \in S : k = n - m
    BY <2>2
  <2>4. \A i \in S : n - i \in T
    OBVIOUS
  <2>5. m \in Nat /\ \A i \in S : i <= m
    BY <2>2, <2>3, <2>4
  <2>6. LastOf(S) \in S /\ \A i \in S : i <= LastOf(S)
    BY <2>5, <1>2 DEF LastOf
  <2>. DEFINE l == LastOf(S)
  <2>7. l \in S /\ l \in Nat /\ \A i \in S : i <= l
    <3>1. \A x \in S : x \in Nat
      OBVIOUS
    <3>. QED
      BY <2>6, <3>1
  <2>. HIDE DEF l
  <2>8. \A x \in S : (\A i \in S : i <= x) => l = x
    BY <2>7
  <2>. QED
    BY <2>7, <2>8, <1>2 DEF l
<1>. QED
  BY <1>1, <1>2

\* What a record answers for is a sequence of calls.
LEMMA FramesType ==
  ASSUME NEW r \in Record
  PROVE  /\ Frames(r) \in Seq(Kinds)
         /\ r.fn = "execute" => /\ Frames(r) = [i \in 1 .. r.nexeccalls |-> "Lua"]
                                /\ Len(Frames(r)) = r.nexeccalls
         /\ r.fn = "C" => Frames(r) = << "C" >>
         /\ r.fn \notin {"execute", "C"} => Frames(r) = << >>
<1>1. CASE r.fn = "execute"
  <2>1. r.nexeccalls \in Nat
    BY <1>1, RecordFields
  <2>2. Frames(r) = [i \in 1 .. r.nexeccalls |-> "Lua"]
    BY <1>1 DEF Frames
  <2>. QED
    BY <2>1, <2>2, <1>1 DEF Kinds
<1>2. CASE r.fn = "C"
  <2>1. Frames(r) = << "C" >>
    BY <1>2 DEF Frames
  <2>. QED
    BY <2>1, <1>2 DEF Kinds
<1>3. CASE r.fn \notin {"execute", "C"}
  <2>1. Frames(r) = << >>
    BY <1>3 DEF Frames
  <2>. QED
    BY <2>1, <1>3 DEF Kinds
<1>. QED
  BY <1>1, <1>2, <1>3

\* The calls that a thread's records answer for, one record more.
LEMMA CallsStep ==
  ASSUME NEW s \in Seq(Record), NEW t
  PROVE  /\ CallsOf(s, t, 0) = << >>
         /\ \A n \in 0 .. Len(s) : CallsOf(s, t, n) \in Seq(Kinds)
         /\ \A n \in 1 .. Len(s) :
              CallsOf(s, t, n) = CallsOf(s, t, n - 1) \o (IF s[n].th = t THEN Frames(s[n]) ELSE << >>)
<1>. DEFINE P(n) == [i \in 1 .. n |-> Piece(s, t, i)]
<1>1. \A i \in 1 .. Len(s) : Piece(s, t, i) \in Seq(Kinds)
  <2>. SUFFICES ASSUME NEW i \in 1 .. Len(s) PROVE Piece(s, t, i) \in Seq(Kinds)
    OBVIOUS
  <2>1. s[i] \in Record /\ << >> \in Seq(Kinds)
    OBVIOUS
  <2>. QED
    BY <2>1, FramesType DEF Piece
<1>2. \A n \in 0 .. Len(s) : P(n) \in Seq(Seq(Kinds))
  BY <1>1
<1>3. CallsOf(s, t, 0) = << >>
  <2>1. P(0) = << >>
    OBVIOUS
  <2>. QED
    BY <2>1, FlattenEmpty DEF CallsOf
<1>4. \A n \in 0 .. Len(s) : CallsOf(s, t, n) \in Seq(Kinds)
  <2>. SUFFICES ASSUME NEW n \in 0 .. Len(s) PROVE FlattenSeq(P(n)) \in Seq(Kinds)
    BY DEF CallsOf
  <2>1. P(n) \in Seq(Seq(Kinds))
    BY <1>2
  <2>. HIDE DEF P
  <2>. QED
    BY <2>1, FlattenType
<1>5. ASSUME NEW n \in 1 .. Len(s)
      PROVE  CallsOf(s, t, n) = CallsOf(s, t, n - 1) \o Piece(s, t, n)
  <2>1. P(n - 1) \in Seq(Seq(Kinds)) /\ Piece(s, t, n) \in Seq(Kinds)
    BY <1>1, <1>2
  <2>2. P(n) = Append(P(n - 1), Piece(s, t, n))
    <3>1. P(n) \in Seq(Seq(Kinds)) /\ Len(P(n)) = n
      BY <1>2
    <3>2. Len(Append(P(n - 1), Piece(s, t, n))) = n
      BY <2>1
    <3>3. \A i \in 1 .. n : P(n)[i] = Append(P(n - 1), Piece(s, t, n))[i]
      BY <2>1
    <3>. QED
      BY <3>1, <3>2, <3>3, <2>1
  <2>. HIDE DEF P
  <2>3. FlattenSeq(Append(P(n - 1), Piece(s, t, n))) = FlattenSeq(P(n - 1)) \o Piece(s, t, n)
    BY <2>1, FlattenAppend
  <2>. QED
    BY <2>2, <2>3 DEF CallsOf, P
<1>. QED
  BY <1>3, <1>4, <1>5 DEF Piece

\* The calls of fewer records are the first of those of more; records of other
\* threads add none.
LEMMA CallsPrefix ==
  ASSUME NEW s \in Seq(Record), NEW t, NEW m \in 0 .. Len(s), NEW n \in m .. Len(s)
  PROVE  /\ \E x \in Seq(Kinds) : CallsOf(s, t, n) = CallsOf(s, t, m) \o x
         /\ (\A i \in m + 1 .. n : s[i].th # t) => CallsOf(s, t, n) = CallsOf(s, t, m)
<1>. DEFINE c(k) == CallsOf(s, t, k)
            p(k) == IF s[k].th = t THEN Frames(s[k]) ELSE << >>
            N == Len(s)
<1>1. /\ \A k \in 0 .. N : c(k) \in Seq(Kinds)
      /\ \A k \in 1 .. N : c(k) = c(k - 1) \o p(k)
      /\ N \in Nat /\ m \in 0 .. N /\ n \in m .. N
  <2>1. N \in Nat /\ m \in 0 .. N /\ n \in m .. N
    OBVIOUS
  <2>2. \A k \in 0 .. N : c(k) \in Seq(Kinds)
    BY CallsStep
  <2>3. \A k \in 1 .. N : c(k) = c(k - 1) \o p(k)
    BY CallsStep
  <2>. QED
    BY <2>1, <2>2, <2>3
<1>2. \A k \in 1 .. N : p(k) \in Seq(Kinds) /\ (s[k].th # t => p(k) = << >>)
  <2>. SUFFICES ASSUME NEW k \in 1 .. N
                PROVE  p(k) \in Seq(Kinds) /\ (s[k].th # t => p(k) = << >>)
    OBVIOUS
  <2>1. s[k] \in Record /\ << >> \in Seq(Kinds)
    OBVIOUS
  <2>. QED
    BY <2>1, FramesType
<1>. HIDE DEF c, p, N
<1>. DEFINE Good(k) == /\ \E x \in Seq(Kinds) : c(k) = c(m) \o x
                       /\ (\A i \in m + 1 .. k : s[i].th # t) => c(k) = c(m)
            S == {d \in Nat : m + d <= N => Good(m + d)}
<1>3. 0 \in S
  <2>1. c(m) = c(m) \o << >> /\ << >> \in Seq(Kinds)
    BY <1>1
  <2>2. Good(m)
    BY <2>1
  <2>3. m + 0 = m
    BY <1>1
  <2>. HIDE DEF Good
  <2>. QED
    BY <2>2, <2>3
<1>4. ASSUME NEW d \in S PROVE d + 1 \in S
  <2>. SUFFICES ASSUME m + (d + 1) <= N PROVE Good(m + (d + 1))
    <3>. HIDE DEF Good
    <3>. QED
      OBVIOUS
  <2>. DEFINE k == m + d
  <2>0. /\ k \in 0 .. N /\ k \in m .. N /\ k + 1 \in 1 .. N /\ (k + 1) - 1 = k
        /\ m + (d + 1) = k + 1 /\ Good(k)
    <3>. HIDE DEF Good
    <3>. QED
      BY <1>1
  <2>. HIDE DEF k
  <2>1. c(k + 1) = c(k) \o p(k + 1)
    BY <2>0, <1>1
  <2>2. p(k + 1) \in Seq(Kinds) /\ c(m) \in Seq(Kinds) /\ c(k) \in Seq(Kinds)
    BY <2>0, <1>1, <1>2
  <2>3. PICK x \in Seq(Kinds) : c(k) = c(m) \o x
    BY <2>0
  <2>4. c(k + 1) = c(m) \o (x \o p(k + 1)) /\ x \o p(k + 1) \in Seq(Kinds)
    <3>1. (c(m) \o x) \o p(k + 1) = c(m) \o (x \o p(k + 1))
      <4>. DEFINE a == c(m)  b == p(k + 1)
      <4>1. a \in Seq(Kinds) /\ b \in Seq(Kinds) /\ x \in Seq(Kinds)
        BY <2>2
      <4>. HIDE DEF a, b
      <4>2. (a \o x) \o b = a \o (x \o b)
        BY ONLY <4>1, ConcatAssociative, SMTT(30)
      <4>. QED
        BY ONLY <4>2 DEF a, b
    <3>2. x \o p(k + 1) \in Seq(Kinds)
      BY <2>2
    <3>. QED
      BY <3>1, <3>2, <2>1, <2>3
  <2>5. ASSUME \A i \in m + 1 .. k + 1 : s[i].th # t PROVE c(k + 1) = c(m)
    <3>1. c(k) = c(m)
      BY <2>0, <2>5
    <3>2. p(k + 1) = << >>
      BY <2>0, <2>5, <1>1, <1>2
    <3>3. c(k) \o << >> = c(k)
      BY <2>2
    <3>. QED
      BY <3>1, <3>2, <3>3, <2>1
  <2>. QED
    BY <2>0, <2>4, <2>5
<1>. HIDE DEF Good
<1>5. S = Nat
  <2>1. S \subseteq Nat
    OBVIOUS
  <2>. HIDE DEF S
  <2>. QED
    BY <1>3, <1>4, <2>1, Induction
<1>6. n - m \in S /\ m + (n - m) = n /\ n <= N
  <2>1. n - m \in Nat /\ m + (n - m) = n /\ n <= N
    BY <1>1
  <2>. QED
    BY <2>1, <1>5
<1>. QED
  BY <1>6 DEF Good, c

\* Two stacks with the same first n records say the same of these.
LEMMA SameBelow ==
  ASSUME NEW s, NEW u, NEW n \in Nat, \A i \in 1 .. n : s[i] = u[i]
  PROVE  /\ \A m \in 0 .. n : Depth(s, m) = Depth(u, m)
         /\ \A m \in 0 .. n, t \in Threads : /\ CallsOf(s, t, m) = CallsOf(u, t, m)
                                             /\ Catchers(s, t, m) = Catchers(u, t, m)
         /\ \A m \in 0 .. n, t \in Threads, h \in Nat : Handler(s, t, h, m) = Handler(u, t, h, m)
<1>1. ASSUME NEW m \in 0 .. n PROVE Depth(s, m) = Depth(u, m)
  <2>1. Counting(s, m) = Counting(u, m)
    BY DEF Counting
  <2>. QED
    BY <2>1 DEF Depth
<1>2. ASSUME NEW m \in 0 .. n, NEW t \in Threads
      PROVE  CallsOf(s, t, m) = CallsOf(u, t, m) /\ Catchers(s, t, m) = Catchers(u, t, m)
  <2>1. \A i \in 1 .. m : s[i] = u[i]
    OBVIOUS
  <2>2. [i \in 1 .. m |-> Piece(s, t, i)] = [i \in 1 .. m |-> Piece(u, t, i)]
    BY <2>1 DEF Piece
  <2>. QED
    BY <2>1, <2>2 DEF CallsOf, Catchers
<1>3. ASSUME NEW m \in 0 .. n, NEW t \in Threads, NEW h \in Nat
      PROVE  Handler(s, t, h, m) = Handler(u, t, h, m)
  BY DEF Handler
<1>. QED
  BY <1>1, <1>2, <1>3

LEMMA SameRecord ==
  ASSUME NEW s \in Seq(Record), NEW u, NEW n \in 1 .. Len(s), \A i \in 1 .. n : s[i] = u[i]
  PROVE  RecordOK(s, n) <=> RecordOK(u, n)
<1>1. s[n] \in Record /\ s[n] = u[n] /\ (n > 1 => s[n-1] = u[n-1])
      /\ \A k \in 1 .. n - 1 : s[k] = u[k]
  OBVIOUS
<1>2. n - 1 \in 0 .. n /\ s[n].th \in Threads
      /\ (s[n].fn = "pcall" => s[n].errfunc \in Nat)
  BY <1>1, RecordFields
<1>3. \A i \in 1 .. n : s[i] = u[i]
  OBVIOUS
<1>4. /\ Depth(s, n - 1) = Depth(u, n - 1)
      /\ CallsOf(s, s[n].th, n - 1) = CallsOf(u, s[n].th, n - 1)
      /\ Catchers(s, s[n].th, n - 1) = Catchers(u, s[n].th, n - 1)
      /\ s[n].fn = "pcall" => Handler(s, s[n].th, s[n].errfunc, n - 1)
                                = Handler(u, s[n].th, s[n].errfunc, n - 1)
  <2>1. n \in Nat
    OBVIOUS
  <2>2. /\ \A m \in 0 .. n : Depth(s, m) = Depth(u, m)
        /\ \A m \in 0 .. n, t \in Threads : /\ CallsOf(s, t, m) = CallsOf(u, t, m)
                                            /\ Catchers(s, t, m) = Catchers(u, t, m)
        /\ \A m \in 0 .. n, t \in Threads, h \in Nat :
             Handler(s, t, h, m) = Handler(u, t, h, m)
    BY <2>1, <1>3, SameBelow
  <2>. QED
    BY <1>2, <2>2
<1>. QED
  BY <1>1, <1>4 DEF RecordOK

--------------------------------------------------------------------------------
(* The C stack *)

\* At the bottom is the protected call of the program.
LEMMA Bottom ==
  ASSUME NEW s, StackOK(s), Len(s) # 0
  PROVE  s[1].fn = "pcall" /\ s[1].th = main /\ s[1] \in Record
<1>1. 1 \in 1 .. Len(s) /\ RecordOK(s, 1)
  BY DEF StackOK
<1>. QED
  BY <1>1 DEF RecordOK

\* Where the records change to a thread's, it was resumed.
LEMMA Switch ==
  ASSUME NEW s, StackOK(s), NEW k \in 1 .. Len(s), NEW n \in k + 1 .. Len(s), s[k].th # s[n].th
  PROVE  \E i \in k + 1 .. n : s[i].fn = "resume" /\ s[i].th = s[n].th
<1>. DEFINE T == {i \in k + 1 .. n : s[i].th = s[n].th}
<1>1. T \subseteq Nat /\ n \in T
  BY DEF StackOK
<1>2. PICK i \in T : \A m \in T : i <= m
  BY <1>1, LeastNumber
<1>3. i \in 2 .. Len(s) /\ i - 1 \in k .. n /\ i - 1 \notin T
  BY <1>2 DEF StackOK
<1>4. s[i-1].th # s[i].th
  BY <1>2, <1>3
<1>5. i \in 1 .. Len(s) /\ i > 1
  BY <1>3
<1>6. RecordOK(s, i)
  BY <1>5 DEF StackOK
<1>7. s[i].fn = "resume"
  BY <1>4, <1>5, <1>6 DEF RecordOK, Above
<1>. QED
  BY <1>2, <1>7

\* The threads with records below a resumption have none above it.
LEMMA Gone ==
  ASSUME NEW s, StackOK(s), NEW i \in 1 .. Len(s), s[i].fn = "resume",
         NEW m \in 1 .. i - 1, NEW k \in i .. Len(s)
  PROVE  s[m].th # s[k].th
<1>0. Len(s) \in Nat
  BY DEF StackOK
<1>1. ASSUME NEW l \in 1 .. Len(s), s[l].fn = "resume", l > m PROVE s[m].th # s[l].th
  <2>1. RecordOK(s, l) /\ m \in 1 .. l - 1
    BY <1>1, <1>0 DEF StackOK
  <2>. QED
    BY <2>1, <1>1 DEF RecordOK
<1>2. CASE k = i \/ s[i].th = s[k].th
  BY <1>0, <1>1, <1>2
<1>3. CASE k # i /\ s[i].th # s[k].th
  <2>1. k \in i + 1 .. Len(s)
    BY <1>0, <1>3
  <2>2. PICK l \in i + 1 .. k : s[l].fn = "resume" /\ s[l].th = s[k].th
    BY <1>3, <2>1, Switch
  <2>3. l \in 1 .. Len(s) /\ l > m
    BY <1>0
  <2>. QED
    BY <1>1, <2>2, <2>3
<1>. QED
  BY <1>2, <1>3

\* From the innermost activation that catches errors of the thread on top, all
\* records are that thread's, and none above it catches errors.
LEMMA TopCatcher ==
  ASSUME NEW s, StackOK(s), Len(s) # 0, NEW t, t = s[Len(s)].th,
         NEW j, j = LastOf(Catchers(s, t, Len(s)))
  PROVE  /\ j \in 1 .. Len(s) /\ s[j].fn \in {"pcall", "resume"}
         /\ \A k \in j .. Len(s) : s[k].th = t
         /\ \A k \in j + 1 .. Len(s) : s[k].fn \notin {"pcall", "resume"}
<1>0. Len(s) \in Nat /\ Len(s) \in 1 .. Len(s)
  BY DEF StackOK
<1>. DEFINE S == Catchers(s, t, Len(s))
<1>1. S # {}
  <2>1. CASE t = main
    <3>1. 1 \in S
      BY <2>1, <1>0, Bottom DEF Catchers
    <3>. QED
      BY <3>1
  <2>2. CASE t # main
    <3>1. s[1].th # s[Len(s)].th
      BY <2>2, Bottom
    <3>2. 1 \in 1 .. Len(s) /\ Len(s) \in 1 + 1 .. Len(s)
      BY <3>1, <1>0
    <3>3. PICK i \in 1 + 1 .. Len(s) : s[i].fn = "resume" /\ s[i].th = t
      BY <3>1, <3>2, Switch
    <3>4. i \in S
      BY <3>3, <1>0 DEF Catchers
    <3>. QED
      BY <3>4
  <2>. QED
    BY <2>1, <2>2
<1>2. j \in S /\ \A i \in S : i <= j
  <2>1. S \subseteq 1 .. Len(s)
    BY DEF Catchers
  <2>. HIDE DEF S
  <2>2. LastOf(S) \in S /\ \A i \in S : i <= LastOf(S)
    BY <1>0, <1>1, <2>1, LastOfIs
  <2>. QED
    BY <2>2 DEF S
<1>3. j \in 1 .. Len(s) /\ s[j].fn \in {"pcall", "resume"} /\ s[j].th = t
  BY <1>2 DEF Catchers
<1>4. ASSUME NEW k \in j + 1 .. Len(s), s[k].fn = "resume" PROVE FALSE
  <2>0. k \in 1 .. Len(s) /\ k > j
    BY <1>0, <1>3
  <2>1. CASE s[k].th = t
    <3>1. k \in S
      BY <2>0, <2>1, <1>4 DEF Catchers
    <3>. QED
      BY <3>1, <1>2, <2>0
  <2>2. CASE s[k].th # t
    <3>1. Len(s) \in k + 1 .. Len(s)
      BY <2>2, <2>0, <1>0
    <3>2. PICK i \in k + 1 .. Len(s) : s[i].fn = "resume" /\ s[i].th = t
      BY <2>0, <2>2, <3>1, Switch
    <3>3. i \in 1 .. Len(s) /\ i > j
      BY <3>2, <2>0, <1>0, <1>3
    <3>4. i \in S
      BY <3>2, <3>3 DEF Catchers
    <3>. QED
      BY <3>3, <3>4, <1>2, <1>3
  <2>. QED
    BY <2>1, <2>2
<1>5. ASSUME NEW k \in j .. Len(s) PROVE s[k].th = t
  <2>0. k \in 1 .. Len(s)
    BY <1>0, <1>3
  <2>. SUFFICES ASSUME s[k].th # t PROVE FALSE
    OBVIOUS
  <2>1. Len(s) \in k + 1 .. Len(s)
    BY <2>0, <1>0
  <2>2. PICK i \in k + 1 .. Len(s) : s[i].fn = "resume" /\ s[i].th = t
    BY <2>0, <2>1, Switch
  <2>3. i \in j + 1 .. Len(s)
    BY <1>0, <1>3, <2>0
  <2>. QED
    BY <1>4, <2>2, <2>3
<1>6. ASSUME NEW k \in j + 1 .. Len(s) PROVE s[k].fn \notin {"pcall", "resume"}
  <2>1. k \in 1 .. Len(s) /\ k \in j .. Len(s) /\ k > j
    BY <1>0, <1>3
  <2>2. s[k].th = t
    BY <2>1, <1>5
  <2>3. s[k].fn \in {"pcall", "resume"} => k \in S
    BY <2>1, <2>2 DEF Catchers
  <2>. QED
    BY <1>2, <1>3, <2>1, <2>3
<1>. QED
  BY <1>3, <1>5, <1>6

\* The stack without its last records.
LEMMA Truncated ==
  ASSUME NEW s, StackOK(s), NEW m \in 0 .. Len(s), NEW u, u = SubSeq(s, 1, m)
  PROVE  StackOK(u) /\ Len(u) = m /\ \A i \in 1 .. m : u[i] = s[i]
<1>0. s \in Seq(Record) /\ Len(s) \in Nat
  BY DEF StackOK
<1>1. u \in Seq(Record) /\ Len(u) = m /\ \A i \in 1 .. m : u[i] = s[i]
  BY <1>0
<1>2. ASSUME NEW i \in 1 .. m PROVE RecordOK(u, i)
  <2>1. i \in 1 .. Len(u) /\ i \in 1 .. Len(s) /\ \A k \in 1 .. i : u[k] = s[k]
    BY <1>0, <1>1
  <2>2. RecordOK(s, i)
    BY <2>1 DEF StackOK
  <2>. QED
    BY <1>1, <2>1, <2>2, SameRecord
<1>. QED
  BY <1>1, <1>2 DEF StackOK

\* The stack with one more record.
LEMMA Pushed ==
  ASSUME NEW s, StackOK(s), NEW r \in Record, NEW u, u = Append(s, r),
         RecordOK(u, Len(s) + 1)
  PROVE  StackOK(u)
<1>0. s \in Seq(Record) /\ Len(s) \in Nat
  BY DEF StackOK
<1>1. /\ u \in Seq(Record) /\ Len(u) = Len(s) + 1 /\ u[Len(s) + 1] = r
      /\ \A i \in 1 .. Len(s) : u[i] = s[i]
  BY <1>0
<1>2. ASSUME NEW i \in 1 .. Len(s) PROVE RecordOK(u, i)
  <2>1. i \in 1 .. Len(u) /\ \A k \in 1 .. i : s[k] = u[k]
    BY <1>0, <1>1
  <2>2. RecordOK(s, i)
    BY DEF StackOK
  <2>. QED
    BY <1>0, <2>1, <2>2, SameRecord
<1>3. \A i \in 1 .. Len(u) : i \in 1 .. Len(s) \/ i = Len(s) + 1
  BY <1>0, <1>1
<1>. QED
  BY <1>1, <1>2, <1>3 DEF StackOK

--------------------------------------------------------------------------------
(* One record more or some less *)

TopThread(s) == IF Len(s) = 0 THEN main ELSE s[Len(s)].th

\* A thread puts a record r on the stack, which says what it should of those below,
\* and nn, bb, cc, jj, hh are what the threads know afterwards.
MayPush(s, n, b, c, j, h, r, nn, bb, cc, jj, hh) ==
  LET t == r.th  u == Append(s, r)  L == Len(s) + 1 IN
    /\ Agree(s, n, b, c, j, h) /\ r \in Record /\ RecordOK(u, L) /\ h \in [Threads -> Nat]
    /\ \A v \in Threads : v # t => nn[v] = n[v] /\ cc[v] = c[v] /\ jj[v] = j[v] /\ hh[v] = h[v]
    /\ nn[t] = Depth(u, L) /\ cc[t] = CallsOf(u, t, L) /\ jj[t] = LastOf(Catchers(u, t, L))
    /\ Handler(u, t, hh[t], L)
    /\ r.fn # "resume" => bb = b
    /\ r.fn = "resume" => bb[t] = Depth(u, L) /\ \A v \in Threads : v # t => bb[v] = b[v]
    /\ main \notin Coroutines

LEMMA PushAgrees ==
  ASSUME NEW s, NEW n, NEW b, NEW c, NEW j, NEW h, NEW r, NEW nn, NEW bb, NEW cc, NEW jj, NEW hh,
         MayPush(s, n, b, c, j, h, r, nn, bb, cc, jj, hh)
  PROVE  Agree(Append(s, r), nn, bb, cc, jj, hh)
<1>. DEFINE t == r.th
            u == Append(s, r)
            L == Len(s) + 1
<1>a. /\ Agree(s, n, b, c, j, h) /\ r \in Record /\ RecordOK(u, L) /\ h \in [Threads -> Nat]
      /\ \A v \in Threads : v # t => nn[v] = n[v] /\ cc[v] = c[v] /\ jj[v] = j[v] /\ hh[v] = h[v]
      /\ nn[t] = Depth(u, L) /\ cc[t] = CallsOf(u, t, L) /\ jj[t] = LastOf(Catchers(u, t, L))
      /\ Handler(u, t, hh[t], L)
      /\ r.fn # "resume" => bb = b
      /\ r.fn = "resume" => bb[t] = Depth(u, L) /\ \A v \in Threads : v # t => bb[v] = b[v]
      /\ main \notin Coroutines
      /\ t = r.th /\ u = Append(s, r) /\ L = Len(s) + 1
  BY DEF MayPush
<1>. HIDE DEF t, u, L
<1>. USE <1>a
<1>0. /\ s \in Seq(Record) /\ L \in Nat \ {0} /\ Len(s) = L - 1 /\ Len(u) = L /\ u[L] = r
      /\ \A i \in 1 .. L - 1 : u[i] = s[i]
      /\ StackOK(s) /\ t \in Threads
      /\ \A i \in 1 .. L - 1 : s[i].th \in Threads
  <2>1. s \in Seq(Record) /\ StackOK(s)
    BY DEF Agree, StackOK
  <2>2. \A i \in 1 .. Len(s) : s[i] \in Record
    BY <2>1
  <2>3. Len(s) \in Nat
    BY <2>1
  <2>. QED
    BY <2>1, <2>2, <2>3, RecordFields
<1>1. StackOK(u)
  BY <1>0, Pushed
<1>2. u \in Seq(Record) /\ \A i \in 1 .. L : i = L \/ i \in 1 .. L - 1
  BY <1>0, <1>1 DEF StackOK
<1>3. /\ \A i \in 0 .. L - 1 : Depth(s, i) = Depth(u, i)
      /\ \A i \in 0 .. L - 1, v \in Threads : /\ CallsOf(s, v, i) = CallsOf(u, v, i)
                                              /\ Catchers(s, v, i) = Catchers(u, v, i)
      /\ \A i \in 0 .. L - 1, v \in Threads, x \in Nat : Handler(s, v, x, i) = Handler(u, v, x, i)
  <2>. DEFINE M == L - 1
  <2>1. M \in Nat /\ \A i \in 1 .. M : s[i] = u[i]
    BY <1>0
  <2>. HIDE DEF M
  <2>2. /\ \A i \in 0 .. M : Depth(s, i) = Depth(u, i)
        /\ \A i \in 0 .. M, v \in Threads : /\ CallsOf(s, v, i) = CallsOf(u, v, i)
                                            /\ Catchers(s, v, i) = Catchers(u, v, i)
        /\ \A i \in 0 .. M, v \in Threads, x \in Nat : Handler(s, v, x, i) = Handler(u, v, x, i)
    BY ONLY <2>1, SameBelow
  <2>. QED
    BY <2>2 DEF M
<1>4. r.fn = "resume" => t \in Coroutines /\ \A k \in 1 .. L - 1 : s[k].th # t
  BY <1>0 DEF RecordOK
<1>5. CountOK(u, nn)
  <2>1. ASSUME NEW i \in 1 .. L - 1, i = L - 1 \/ s[i+1].fn = "resume", u[i+1].fn = "resume"
        PROVE  nn[u[i].th] = Depth(u, i)
    <3>0. i \in 1 .. Len(s) /\ (i = Len(s) \/ s[i+1].fn = "resume")
      BY <2>1, <1>0
    <3>1. n[s[i].th] = Depth(s, i)
      BY <3>0 DEF Agree, CountOK
    <3>2. i + 1 \in 1 .. Len(u) /\ i \in 1 .. (i + 1) - 1 /\ L \in i + 1 .. Len(u)
      BY <1>0
    <3>3. u[i].th # u[L].th
      BY ONLY <3>2, <2>1, <1>1, Gone
    <3>4. i \in 0 .. L - 1
      OBVIOUS
    <3>. QED
      BY <3>1, <3>3, <3>4, <1>0, <1>3
  <2>2. ASSUME NEW i \in 1 .. L, i = L \/ u[i+1].fn = "resume" PROVE nn[u[i].th] = Depth(u, i)
    <3>1. CASE i = L
      BY <3>1, <1>0
    <3>2. CASE i = L - 1 /\ i # L
      BY <3>2, <2>1, <2>2, <1>0
    <3>3. CASE i # L - 1 /\ i # L
      <4>1. i + 1 \in 1 .. L - 1 /\ i \in 1 .. L - 1
        BY <3>3, <1>0
      <4>. QED
        BY <4>1, <3>3, <2>1, <2>2, <1>0
    <3>. QED
      BY <3>1, <3>2, <3>3
  <2>3. u # << >>
    BY <1>0
  <2>. QED
    BY <2>2, <2>3, <1>0 DEF CountOK
<1>6. BaseOK(u, bb)
  <2>0. b[main] = 0 /\ \A i \in 1 .. L - 1 : s[i].fn = "resume" => b[s[i].th] = Depth(s, i)
    BY <1>0 DEF Agree, BaseOK
  <2>1. bb[main] = 0
    BY <2>0, <1>4 DEF Threads
  <2>2. ASSUME NEW i \in 1 .. L, u[i].fn = "resume" PROVE bb[u[i].th] = Depth(u, i)
    <3>1. CASE i = L
      BY <3>1, <2>2, <1>0
    <3>2. CASE i # L
      <4>1. i \in 1 .. L - 1 /\ i \in 0 .. L - 1
        BY <3>2, <1>0
      <4>2. b[s[i].th] = Depth(u, i) /\ u[i].th = s[i].th
        BY <4>1, <2>0, <2>2, <1>0, <1>3
      <4>3. bb[s[i].th] = b[s[i].th]
        BY <4>1, <1>0, <1>4
      <4>. QED
        BY <4>2, <4>3
    <3>. QED
      BY <3>1, <3>2
  <2>. QED
    BY <2>1, <2>2, <1>0 DEF BaseOK
<1>7. FramesOK(u, cc)
  <2>1. ASSUME NEW i \in 1 .. L, u[i].th # t PROVE cc[u[i].th] = CallsOf(u, u[i].th, L)
    <3>1. i \in 1 .. L - 1 /\ u[i].th = s[i].th /\ s[i].th \in Threads
      BY <2>1, <1>0
    <3>2. c[s[i].th] = CallsOf(s, s[i].th, L - 1)
      <4>1. i \in 1 .. Len(s) /\ Len(s) = L - 1
        BY <3>1, <1>0
      <4>. QED
        BY <4>1 DEF Agree, FramesOK
    <3>3. L - 1 \in 0 .. Len(u) /\ L \in L - 1 .. Len(u) /\ L - 1 \in 0 .. L - 1
          /\ \A k \in (L - 1) + 1 .. L : k = L
      BY <1>0
    <3>4. \A k \in (L - 1) + 1 .. L : u[k].th # s[i].th
      BY <3>1, <3>3, <2>1, <1>0
    <3>5. CallsOf(u, s[i].th, L) = CallsOf(u, s[i].th, L - 1)
      BY ONLY <3>3, <3>4, <1>2, CallsPrefix
    <3>. QED
      BY <3>1, <3>2, <3>3, <3>5, <2>1, <1>3
  <2>2. u # << >> /\ Len(u) = L /\ cc[t] = CallsOf(u, t, L)
    BY <1>0
  <2>. QED
    BY ONLY <2>1, <2>2 DEF FramesOK
<1>8. CatchOK(u, jj)
  <2>1. ASSUME NEW v \in Threads, v # t PROVE jj[v] = LastOf(Catchers(u, v, L))
    <3>1. j[v] = LastOf(Catchers(s, v, L - 1))
      BY <1>0 DEF Agree, CatchOK
    <3>2. L - 1 \in 0 .. L - 1
      BY <1>0
    <3>3. Catchers(u, v, L) = Catchers(u, v, L - 1)
      BY <2>1, <1>0 DEF Catchers
    <3>. QED
      BY <3>1, <3>2, <3>3, <2>1, <1>3
  <2>. QED
    BY <2>1, <1>0 DEF CatchOK
<1>9. HandlerOK(u, hh)
  <2>1. ASSUME NEW v \in Threads, v # t PROVE Handler(u, v, hh[v], L)
    <3>1. Handler(s, v, h[v], L - 1)
      BY <1>0 DEF Agree, HandlerOK
    <3>2. L - 1 \in 0 .. L - 1 /\ h[v] \in Nat
      BY <1>0
    <3>3. Handler(u, v, h[v], L - 1)
      BY <3>1, <3>2, <1>3
    <3>4. Handler(u, v, h[v], L)
      BY <3>3, <1>0 DEF Handler
    <3>. QED
      BY <3>4, <2>1
  <2>. QED
    BY <2>1, <1>0 DEF HandlerOK
<1>. QED
  BY <1>1, <1>5, <1>6, <1>7, <1>8, <1>9 DEF Agree

\* The records above the first m, all of the thread t, are taken off the stack: down
\* to a record of that thread, or with the one by which it was resumed.
MayPop(s, n, b, c, j, h, m, t, nn, cc, jj, hh) ==
  /\ Agree(s, n, b, c, j, h) /\ m \in 0 .. Len(s) - 1 /\ h \in [Threads -> Nat] /\ hh \in [Threads -> Nat]
  /\ t \in Threads /\ \A k \in m + 1 .. Len(s) : s[k].th = t
  /\ \A v \in Threads : v # t => nn[v] = n[v] /\ cc[v] = c[v] /\ jj[v] = j[v] /\ hh[v] = h[v]
  /\ s[m+1].fn # "resume" => nn[t] = Depth(s, m) /\ cc[t] = CallsOf(s, t, m)
  /\ jj[t] = LastOf(Catchers(s, t, m)) /\ Handler(s, t, hh[t], m)
  /\ main \notin Coroutines

LEMMA PopAgrees ==
  ASSUME NEW s, NEW n, NEW b, NEW c, NEW j, NEW h, NEW m, NEW t, NEW nn, NEW cc, NEW jj, NEW hh,
         MayPop(s, n, b, c, j, h, m, t, nn, cc, jj, hh)
  PROVE  Agree(SubSeq(s, 1, m), nn, b, cc, jj, hh)
<1>. DEFINE L == Len(s)
            u == SubSeq(s, 1, m)
<1>a. /\ Agree(s, n, b, c, j, h) /\ m \in 0 .. L - 1 /\ h \in [Threads -> Nat] /\ hh \in [Threads -> Nat]
      /\ t \in Threads /\ \A k \in m + 1 .. L : s[k].th = t
      /\ \A v \in Threads : v # t => nn[v] = n[v] /\ cc[v] = c[v] /\ jj[v] = j[v] /\ hh[v] = h[v]
      /\ s[m+1].fn # "resume" => nn[t] = Depth(s, m) /\ cc[t] = CallsOf(s, t, m)
      /\ jj[t] = LastOf(Catchers(s, t, m)) /\ Handler(s, t, hh[t], m)
      /\ main \notin Coroutines /\ L = Len(s) /\ u = SubSeq(s, 1, m)
  BY DEF MayPop
<1>. HIDE DEF u, L
<1>. USE <1>a
<1>0. /\ s \in Seq(Record) /\ L \in Nat /\ m + 1 \in 1 .. L /\ StackOK(s)
      /\ s[m+1].th = t /\ RecordOK(s, m + 1) /\ \A i \in 1 .. m : i \in 1 .. L
  <2>1. s \in Seq(Record) /\ StackOK(s)
    BY DEF Agree, StackOK
  <2>2. L \in Nat /\ m + 1 \in 1 .. L
    BY <2>1
  <2>. QED
    BY <2>1, <2>2 DEF StackOK
<1>1. StackOK(u) /\ Len(u) = m /\ \A i \in 1 .. m : u[i] = s[i]
  <2>1. StackOK(s) /\ m \in 0 .. Len(s) /\ u = SubSeq(s, 1, m)
    BY <1>0
  <2>. QED
    BY ONLY <2>1, Truncated
<1>2. u \in Seq(Record) /\ m \in Nat /\ \A i \in 1 .. m : s[i].th \in Threads
  <2>1. \A i \in 1 .. m : s[i] \in Record
    BY <1>0
  <2>. QED
    BY <1>1, <2>1, RecordFields DEF StackOK
<1>3. /\ \A i \in 0 .. m : Depth(s, i) = Depth(u, i)
      /\ \A i \in 0 .. m, v \in Threads : /\ CallsOf(s, v, i) = CallsOf(u, v, i)
                                          /\ Catchers(s, v, i) = Catchers(u, v, i)
      /\ \A i \in 0 .. m, v \in Threads, x \in Nat : Handler(s, v, x, i) = Handler(u, v, x, i)
  <2>1. m \in Nat /\ \A i \in 1 .. m : s[i] = u[i]
    BY <1>1, <1>2
  <2>. QED
    BY ONLY <2>1, SameBelow
<1>4. s[m+1].fn = "resume" => t \in Coroutines /\ \A k \in 1 .. m : s[k].th # t
  BY <1>0 DEF RecordOK
<1>5. s[m+1].fn # "resume" => IF m = 0 THEN t = main ELSE s[m].th = t
  <2>1. CASE m = 0
    BY <2>1, <1>0 DEF RecordOK
  <2>2. CASE m # 0
    <3>1. m + 1 > 1 /\ (m + 1) - 1 = m
      BY <2>2
    <3>2. Above(s[m], s[m+1])
      BY <3>1, <1>0 DEF RecordOK
    <3>. QED
      BY <2>2, <3>2, <1>0 DEF Above
  <2>. QED
    BY <2>1, <2>2
<1>6. CountOK(u, nn)
  <2>0. \A i \in 1 .. L : i = L \/ s[i+1].fn = "resume" => n[s[i].th] = Depth(s, i)
    BY <1>0 DEF Agree, CountOK
  <2>1. ASSUME NEW i \in 1 .. m, s[i+1].fn = "resume" PROVE nn[s[i].th] = Depth(s, i)
    <3>1. i \in 1 .. L /\ i + 1 \in 1 .. Len(s) /\ i \in 1 .. (i + 1) - 1 /\ m + 1 \in i + 1 .. Len(s)
      BY <1>0
    <3>2. s[i].th # s[m+1].th
      BY ONLY <3>1, <2>1, <1>0, Gone
    <3>. QED
      BY <3>1, <3>2, <2>0, <2>1, <1>0, <1>2
  <2>2. ASSUME NEW i \in 1 .. m, i = m \/ u[i+1].fn = "resume" PROVE nn[u[i].th] = Depth(u, i)
    <3>1. i \in 0 .. m /\ u[i] = s[i] /\ (i # m => i + 1 \in 1 .. m)
      BY <1>1
    <3>2. CASE s[i+1].fn = "resume"
      BY <3>1, <3>2, <2>1, <1>3
    <3>3. CASE s[i+1].fn # "resume"
      <4>1. i = m
        BY <3>1, <3>3, <2>2, <1>1
      <4>. QED
        BY <4>1, <3>1, <3>3, <1>3, <1>5
    <3>. QED
      BY <3>2, <3>3
  <2>3. u = << >> => nn[main] = 0
    <3>. SUFFICES ASSUME u = << >> PROVE nn[main] = 0
      OBVIOUS
    <3>1. m = 0 /\ Depth(s, 0) = 0
      BY <1>1, DepthStep
    <3>2. s[1].fn # "resume" /\ s[1].th = main
      BY <3>1, <1>0 DEF RecordOK
    <3>. QED
      BY <3>1, <3>2, <1>0
  <2>. QED
    BY <2>2, <2>3, <1>1 DEF CountOK
<1>7. BaseOK(u, b)
  <2>1. b[main] = 0 /\ \A i \in 1 .. L : s[i].fn = "resume" => b[s[i].th] = Depth(s, i)
    BY DEF Agree, BaseOK
  <2>2. \A i \in 1 .. m : i \in 0 .. m
    OBVIOUS
  <2>. QED
    BY <2>1, <2>2, <1>0, <1>1, <1>3 DEF BaseOK
<1>8. FramesOK(u, cc)
  <2>1. ASSUME NEW i \in 1 .. m PROVE cc[u[i].th] = CallsOf(u, u[i].th, m)
    <3>1. u[i] = s[i] /\ s[i].th \in Threads /\ i \in 1 .. L /\ m \in 0 .. m
      BY <1>0, <1>1, <1>2
    <3>2. CASE s[i].th = t
      BY <3>1, <3>2, <1>3, <1>4
    <3>3. CASE s[i].th # t
      <4>1. c[s[i].th] = CallsOf(s, s[i].th, L)
        BY <3>1 DEF Agree, FramesOK
      <4>2. m \in 0 .. Len(s) /\ L \in m .. Len(s) /\ \A k \in m + 1 .. L : s[k].th # s[i].th
        BY <3>3, <1>0
      <4>3. CallsOf(s, s[i].th, L) = CallsOf(s, s[i].th, m)
        BY ONLY <4>2, <1>0, CallsPrefix
      <4>. QED
        BY <4>1, <4>3, <3>1, <3>3, <1>3
    <3>. QED
      BY <3>2, <3>3
  <2>2. u = << >> => cc[main] = << >>
    <3>. SUFFICES ASSUME u = << >> PROVE cc[main] = << >>
      OBVIOUS
    <3>1. m = 0
      BY <1>1
    <3>2. s[1].fn # "resume" /\ s[1].th = main
      BY <3>1, <1>0 DEF RecordOK
    <3>3. CallsOf(s, main, 0) = << >>
      BY ONLY <1>0, CallsStep
    <3>. QED
      BY <3>1, <3>2, <3>3, <1>0
  <2>. QED
    BY <2>1, <2>2, <1>1 DEF FramesOK
<1>9. CatchOK(u, jj)
  <2>1. ASSUME NEW v \in Threads, v # t PROVE jj[v] = LastOf(Catchers(u, v, m))
    <3>1. j[v] = LastOf(Catchers(s, v, L))
      BY DEF Agree, CatchOK
    <3>2. Catchers(s, v, L) = Catchers(s, v, m)
      <4>1. \A k \in 1 .. L : s[k].th = v => k \in 1 .. m
        BY <2>1, <1>0
      <4>. QED
        BY <4>1, <1>0 DEF Catchers
    <3>3. m \in 0 .. m
      OBVIOUS
    <3>. QED
      BY <3>1, <3>2, <3>3, <2>1, <1>3
  <2>2. m \in 0 .. m
    OBVIOUS
  <2>. QED
    BY <2>1, <2>2, <1>1, <1>3 DEF CatchOK
<1>10. HandlerOK(u, hh)
  <2>1. ASSUME NEW v \in Threads, v # t PROVE Handler(s, v, hh[v], m)
    <3>1. Handler(s, v, h[v], L)
      BY DEF Agree, HandlerOK
    <3>2. \A k \in 1 .. L : s[k].th = v => k \in 1 .. m
      BY <2>1, <1>0
    <3>. QED
      BY <3>1, <3>2, <2>1 DEF Handler
  <2>2. \A v \in Threads : Handler(s, v, hh[v], m) /\ hh[v] \in Nat /\ m \in 0 .. m
    BY <2>1
  <2>. QED
    BY <2>2, <1>1, <1>3 DEF HandlerOK
<1>. QED
  BY <1>1, <1>6, <1>7, <1>8, <1>9, <1>10 DEF Agree

--------------------------------------------------------------------------------
(* Calls *)

\* What is known of the thread that runs.
LEMMA WhoRuns ==
  ASSUME LInv, NEW t, t = Running
  PROVE  /\ cs \in Seq(Record) /\ Len(cs) \in Nat /\ t = TopThread(cs) /\ t \in Threads
         /\ nCcalls[t] = Depth(cs, Len(cs)) /\ ci[t] = CallsOf(cs, t, Len(cs))
         /\ errorJmp[t] = LastOf(Catchers(cs, t, Len(cs)))
         /\ cs # << >> => /\ Len(cs) \in 1 .. Len(cs) /\ Last(cs) = cs[Len(cs)]
                          /\ cs[Len(cs)].th = t /\ cs[Len(cs)] \in Record /\ RecordOK(cs, Len(cs))
                          /\ status[t] = "ok" /\ (t # main => started[t])
<1>0. cs \in Seq(Record) /\ Len(cs) \in Nat /\ (cs = << >> <=> Len(cs) = 0)
  <2>1. cs \in Seq(Record)
    BY DEF LInv, Agree, StackOK
  <2>. QED
    BY <2>1, EmptySeq
<1>1. CASE cs = << >>
  <2>1. t = main /\ Len(cs) = 0 /\ t \in Threads
    BY <1>0, <1>1 DEF Running, Threads
  <2>2. nCcalls[t] = Depth(cs, 0)
    BY <1>1, <2>1, DepthStep DEF LInv, Agree, CountOK
  <2>3. ci[t] = CallsOf(cs, t, 0)
    BY <1>0, <1>1, <2>1, CallsStep DEF LInv, Agree, FramesOK
  <2>4. errorJmp[t] = LastOf(Catchers(cs, t, Len(cs)))
    BY <2>1 DEF LInv, Agree, CatchOK
  <2>. QED
    BY <1>0, <1>1, <2>1, <2>2, <2>3, <2>4 DEF TopThread
<1>2. CASE cs # << >>
  <2>1. Len(cs) \in 1 .. Len(cs) /\ Last(cs) = cs[Len(cs)]
    BY <1>0, <1>2 DEF Last
  <2>2. t = cs[Len(cs)].th /\ t = TopThread(cs) /\ cs[Len(cs)] \in Record
    BY <1>0, <1>2, <2>1 DEF Running, TopThread
  <2>3. t \in Threads
    BY <2>2, RecordFields
  <2>4. nCcalls[t] = Depth(cs, Len(cs)) /\ ci[t] = CallsOf(cs, t, Len(cs))
    BY <2>1, <2>2 DEF LInv, Agree, CountOK, FramesOK
  <2>5. errorJmp[t] = LastOf(Catchers(cs, t, Len(cs)))
    BY <2>3 DEF LInv, Agree, CatchOK
  <2>6. status[t] = "ok" /\ (t # main => started[t]) /\ RecordOK(cs, Len(cs))
    BY <2>1, <2>2 DEF LInv, StatusOK, Agree, StackOK
  <2>. QED
    BY <1>0, <1>2, <2>1, <2>2, <2>3, <2>4, <2>5, <2>6
<1>. QED
  BY <1>1, <1>2

\* A call gets an entry in the array of calls, or it is an error.
LEMMA PrecallEnters ==
  ASSUME LuaDoAssumption, LInv, NEW t \in Threads, NEW kind \in Kinds, NEW stack, NEW entered,
         luaD_precall(t, kind, stack, entered)
  PROVE  /\ size_ci' \in [Threads -> Nat] /\ CallsBounded'
         /\ \/ ci' = ci /\ cs' = stack /\ raising' \in {"errormsg", "throw"}
            \/ /\ ci' = [ci EXCEPT ![t] = Append(@, kind)] /\ cs' = entered
               /\ raising' = "none"
         /\ ci' \in [Threads -> Seq(Kinds)]
<1>0. /\ ci \in [Threads -> Seq(Kinds)] /\ size_ci \in [Threads -> Nat]
      /\ \A v \in Threads : Len(ci[v]) \in Nat /\ Len(ci[v]) < size_ci[v] /\ size_ci[v] <= 2 * LUAI_MAXCALLS
      /\ LUAI_MAXCALLS \in Nat
  <2>1. ci \in [Threads -> Seq(Kinds)] /\ size_ci \in [Threads -> Nat]
    BY DEF LInv, TypesOK, Kinds
  <2>. QED
    BY <2>1 DEF LInv, CallsBounded, LuaDoAssumption
<1>. DEFINE full == Len(ci[t]) + 1 = size_ci[t]
            over == full /\ size_ci[t] > LUAI_MAXCALLS
            grown == IF full /\ ~over THEN 2 * size_ci[t] ELSE size_ci[t]
            error == full /\ (over \/ grown > LUAI_MAXCALLS)
<1>1. /\ size_ci' = [size_ci EXCEPT ![t] = grown]
      /\ ci' = IF error THEN ci ELSE [ci EXCEPT ![t] = Append(@, kind)]
      /\ cs' = IF error THEN stack ELSE entered
      /\ raising' = IF over THEN "throw" ELSE IF error THEN "errormsg" ELSE "none"
  BY DEF luaD_precall, HandlingOverflow
<1>2. grown \in Nat /\ grown <= 2 * LUAI_MAXCALLS /\ Len(ci[t]) < grown
      /\ (~error => Len(ci[t]) + 1 < grown)
  BY <1>0
<1>3. size_ci' \in [Threads -> Nat] /\ \A v \in Threads : size_ci'[v] = IF v = t THEN grown ELSE size_ci[v]
  BY <1>0, <1>1, <1>2
<1>4. over => error
  OBVIOUS
<1>. HIDE DEF grown, error, over
<1>5. /\ ci' \in [Threads -> Seq(Kinds)]
      /\ \A v \in Threads : Len(ci'[v]) = IF v = t /\ ~error THEN Len(ci[v]) + 1 ELSE Len(ci[v])
  <2>1. CASE error
    BY <1>0, <1>1, <2>1
  <2>2. CASE ~error
    <3>1. ci' = [ci EXCEPT ![t] = Append(ci[t], kind)]
      BY <1>1, <2>2
    <3>2. ci[t] \in Seq(Kinds) /\ Append(ci[t], kind) \in Seq(Kinds)
          /\ Len(Append(ci[t], kind)) = Len(ci[t]) + 1
      BY <1>0
    <3>. QED
      BY ONLY <3>1, <3>2, <2>2, <1>0
  <2>. QED
    BY <2>1, <2>2
<1>6. CallsBounded'
  BY <1>0, <1>2, <1>3, <1>5 DEF CallsBounded
<1>. QED
  BY <1>1, <1>3, <1>4, <1>5, <1>6

\* A call or a function is entered on top of the stack.
LEMMA PushPlain ==
  ASSUME main \notin Coroutines,
         NEW s, NEW n, NEW b, NEW c, NEW j, NEW h, Agree(s, n, b, c, j, h), Len(s) # 0,
         n \in [Threads -> Nat], c \in [Threads -> Seq(Kinds)], h \in [Threads -> Nat],
         NEW r \in Record, r.fn \in {"call", "execute", "C"}, NEW t, t = r.th, t = s[Len(s)].th,
         Above(s[Len(s)], r)
  PROVE  /\ Agree(Append(s, r), [n EXCEPT ![t] = IF r.fn = "call" THEN @ + 1 ELSE @], b,
                  [c EXCEPT ![t] = @ \o Frames(r)], j, h)
         /\ Depth(Append(s, r), Len(s) + 1) = IF r.fn = "call" THEN Depth(s, Len(s)) + 1 ELSE Depth(s, Len(s))
<1>. DEFINE L == Len(s) + 1
            u == Append(s, r)
            nn == [n EXCEPT ![t] = IF r.fn = "call" THEN @ + 1 ELSE @]
            cc == [c EXCEPT ![t] = @ \o Frames(r)]
<1>0. /\ s \in Seq(Record) /\ L - 1 = Len(s) /\ L \in Nat /\ L # 0 /\ L > 1 /\ L - 1 \in 1 .. Len(s)
      /\ u \in Seq(Record) /\ Len(u) = L /\ u[L] = r /\ L - 1 \in Nat
      /\ \A i \in 1 .. L - 1 : s[i] = u[i]
      /\ t \in Threads
  <2>1. s \in Seq(Record)
    BY DEF Agree, StackOK
  <2>2. t \in Threads
    BY RecordFields
  <2>. QED
    BY <2>1, <2>2
<1>1. n[t] = Depth(s, L - 1) /\ c[t] = CallsOf(s, t, L - 1) /\ j[t] = LastOf(Catchers(s, t, L - 1))
      /\ Handler(s, t, h[t], L - 1) /\ h[t] \in Nat
  BY <1>0 DEF Agree, CountOK, FramesOK, CatchOK, HandlerOK
<1>. HIDE DEF u, L
<1>2. /\ Depth(s, L - 1) = Depth(u, L - 1) /\ CallsOf(s, t, L - 1) = CallsOf(u, t, L - 1)
      /\ Catchers(s, t, L - 1) = Catchers(u, t, L - 1)
      /\ Handler(s, t, h[t], L - 1) = Handler(u, t, h[t], L - 1)
  <2>. DEFINE M == L - 1
  <2>1. M \in Nat /\ \A i \in 1 .. M : s[i] = u[i]
    BY <1>0
  <2>2. M \in 0 .. M
    BY <2>1
  <2>. HIDE DEF M
  <2>3. Depth(s, M) = Depth(u, M) /\ CallsOf(s, t, M) = CallsOf(u, t, M)
        /\ Catchers(s, t, M) = Catchers(u, t, M) /\ Handler(s, t, h[t], M) = Handler(u, t, h[t], M)
    <3>1. /\ \A i \in 0 .. M : Depth(s, i) = Depth(u, i)
          /\ \A i \in 0 .. M, v \in Threads : /\ CallsOf(s, v, i) = CallsOf(u, v, i)
                                              /\ Catchers(s, v, i) = Catchers(u, v, i)
          /\ \A i \in 0 .. M, v \in Threads, x \in Nat : Handler(s, v, x, i) = Handler(u, v, x, i)
      BY ONLY <2>1, SameBelow
    <3>. QED
      BY <3>1, <2>2, <1>0, <1>1
  <2>. QED
    BY <2>3 DEF M
<1>3. RecordOK(u, L)
  <2>1. u[L-1] = s[L-1] /\ Above(u[L-1], u[L])
    BY <1>0
  <2>. QED
    BY <2>1, <1>0 DEF RecordOK
<1>4. Depth(u, L) = (IF r.fn = "call" THEN Depth(s, L - 1) + 1 ELSE Depth(s, L - 1)) /\ nn[t] = Depth(u, L)
  <2>1. Depth(u, (L - 1) + 1) = Depth(u, L - 1) + IF u[(L-1)+1].fn \in {"call", "resume"} THEN 1 ELSE 0
    BY <1>0, DepthStep
  <2>2. (L - 1) + 1 = L /\ Depth(s, L - 1) \in Nat
    BY <1>0, DepthStep
  <2>. QED
    BY <2>1, <2>2, <1>0, <1>1, <1>2
<1>5. cc[t] = CallsOf(u, t, L)
  <2>1. L \in 1 .. Len(u)
    BY <1>0
  <2>2. CallsOf(u, t, L) = CallsOf(u, t, L - 1) \o (IF u[L].th = t THEN Frames(u[L]) ELSE << >>)
    BY ONLY <1>0, <2>1, CallsStep
  <2>. QED
    BY <2>2, <1>0, <1>1, <1>2
<1>6. Catchers(u, t, L) = Catchers(u, t, L - 1)
  BY <1>0 DEF Catchers
<1>7. Handler(u, t, h[t], L)
  BY <1>0, <1>1, <1>2 DEF Handler
<1>8. \A v \in Threads : v # t => nn[v] = n[v] /\ cc[v] = c[v]
  OBVIOUS
<1>. HIDE DEF nn, cc
<1>9. Agree(u, nn, b, cc, j, h)
  <2>1. u = Append(s, r) /\ L = Len(s) + 1
    BY DEF u, L
  <2>2. r.fn # "resume"
    OBVIOUS
  <2>3. j[t] = LastOf(Catchers(u, t, L))
    BY <1>1, <1>2, <1>6
  <2>4. MayPush(s, n, b, c, j, h, r, nn, b, cc, j, h)
    BY <2>1, <2>2, <2>3, <1>3, <1>4, <1>5, <1>7, <1>8 DEF MayPush
  <2>. QED
    BY ONLY <2>1, <2>4, PushAgrees
<1>. QED
  BY <1>0, <1>4, <1>9 DEF nn, cc, u, L

\* A call that luaD_call makes on a stack that agrees leaves one that agrees.
LEMMA CallEnters ==
  ASSUME LuaDoAssumption, LInv, NEW kind \in Kinds, NEW then \in {"return", "throw"},
         NEW s, NEW j, NEW h, Agree(s, nCcalls, baseCcalls, ci, j, h), h \in [Threads -> Nat],
         Len(s) # 0, NEW t \in Threads, t = s[Len(s)].th,
         Depth(s, Len(s)) < LUAI_MAXCCALLS + ErrorCalls,
         \/ then = "return" /\ s[Len(s)].fn \in {"pcall", "C", "execute"}
         \/ then = "throw" /\ s[Len(s)].fn # "pcall",
         luaD_call(t, kind, s, then)
  PROVE  /\ Agree(cs', nCcalls', baseCcalls, ci', j, h)
         /\ CallsBounded' /\ RaisingOK'
         /\ size_ci' \in [Threads -> Nat] /\ nCcalls' \in [Threads -> Nat]
         /\ ci' \in [Threads -> Seq(Kinds)] /\ raising' \in {"none", "errormsg", "throw"}
         /\ ci' = ci \/ ci' = [ci EXCEPT ![t] = Append(@, kind)]
         /\ \A i \in 1 .. Len(cs') : cs'[i].th = t \/ (i \in 1 .. Len(s) /\ cs'[i] = s[i])
         /\ Len(cs') > Len(s) /\ \A i \in 1 .. Len(s) : cs'[i] = s[i]
<1>. DEFINE n == nCcalls[t] + 1
            r == [fn |-> "call", th |-> t, then |-> then]
            c == Append(s, r)
            f == IF kind = "Lua" THEN Execute(t, 1) ELSE CFunction(t)
            nn == [nCcalls EXCEPT ![t] = n]
            L == Len(s)
<1>0. /\ nCcalls \in [Threads -> Nat] /\ ci \in [Threads -> Seq(Kinds)] /\ main \notin Coroutines
      /\ LUAI_MAXCCALLS \in Nat /\ ErrorCalls \in Nat \ {0}
  BY DEF LInv, TypesOK, Kinds, LuaDoAssumption
<1>1. s \in Seq(Record) /\ L \in Nat /\ L \in 1 .. L /\ nCcalls[t] = Depth(s, L) /\ n \in Nat
  <2>1. s \in Seq(Record) /\ nCcalls[t] \in Nat
    BY <1>0 DEF Agree, StackOK
  <2>2. L \in Nat /\ L \in 1 .. L
    BY <2>1
  <2>. QED
    BY <2>1, <2>2 DEF Agree, CountOK
<1>2. r \in Record /\ r.fn = "call" /\ r.th = t /\ r.then = then
  BY DEF Record
<1>3. Above(s[L], r)
  BY <1>2 DEF Above
<1>4. Frames(r) = << >>
  BY <1>2, FramesType
<1>. HIDE DEF r
<1>5. /\ Agree(c, [nCcalls EXCEPT ![t] = IF r.fn = "call" THEN @ + 1 ELSE @], baseCcalls,
               [ci EXCEPT ![t] = @ \o Frames(r)], j, h)
      /\ Depth(c, L + 1) = IF r.fn = "call" THEN Depth(s, L) + 1 ELSE Depth(s, L)
  BY <1>0, <1>1, <1>2, <1>3, PushPlain
<1>6. /\ Agree(c, nn, baseCcalls, ci, j, h) /\ Depth(c, L + 1) = n /\ nn \in [Threads -> Nat]
  <2>1. [ci EXCEPT ![t] = @ \o Frames(r)] = ci
    <3>1. ci[t] \o << >> = ci[t]
      BY <1>0
    <3>. QED
      BY <3>1, <1>0, <1>4
  <2>2. [nCcalls EXCEPT ![t] = IF r.fn = "call" THEN @ + 1 ELSE @] = nn
    BY <1>2
  <2>. QED
    BY <2>1, <2>2, <1>0, <1>1, <1>2, <1>5
<1>7. /\ c \in Seq(Record) /\ Len(c) = L + 1 /\ c[L+1] = r /\ \A i \in 1 .. L : c[i] = s[i]
      /\ \A i \in 1 .. Len(c) : i \in 1 .. L \/ i = L + 1
  BY <1>1, <1>2
<1>8. n <= LUAI_MAXCCALLS + ErrorCalls
  BY <1>0, <1>1
<1>. HIDE DEF c, nn
<1>9. CASE TooDeep(n)
  <2>1. /\ cs' = c /\ nCcalls' = nn /\ ci' = ci /\ size_ci' = size_ci
        /\ raising' = IF n = LUAI_MAXCCALLS THEN "errormsg" ELSE "throw"
    BY <1>9 DEF luaD_call, c, nn, r
  <2>2. CallsBounded'
    BY <2>1 DEF CallsBounded, LInv
  <2>3. RaisingOK'
    <3>1. n # LUAI_MAXCCALLS => n >= LUAI_MAXCCALLS + ErrorCalls
      BY <1>9 DEF TooDeep
    <3>2. cs' # << >> /\ cs'[Len(cs')].fn # "pcall" /\ Depth(cs', Len(cs')) = n
      BY <2>1, <1>1, <1>2, <1>6, <1>7
    <3>. QED
      BY <3>1, <3>2, <2>1, <1>0, <1>1, <1>8 DEF RaisingOK
  <2>4. size_ci' \in [Threads -> Nat] /\ raising' \in {"none", "errormsg", "throw"}
    BY <2>1 DEF LInv, TypesOK
  <2>. QED
    BY <2>1, <2>2, <2>3, <2>4, <1>0, <1>1, <1>2, <1>6, <1>7
<1>10. CASE ~TooDeep(n)
  <2>1. luaD_precall(t, kind, c, Append(c, f)) /\ nCcalls' = nn
    BY <1>10 DEF luaD_call, c, nn, r
  <2>2. n < LUAI_MAXCCALLS + ErrorCalls
    BY <1>10, <1>8, <1>0, <1>1 DEF TooDeep
  <2>3. /\ size_ci' \in [Threads -> Nat] /\ CallsBounded'
        /\ \/ ci' = ci /\ cs' = c /\ raising' \in {"errormsg", "throw"}
           \/ /\ ci' = [ci EXCEPT ![t] = Append(@, kind)] /\ cs' = Append(c, f)
              /\ raising' = "none"
        /\ ci' \in [Threads -> Seq(Kinds)]
    BY <2>1, PrecallEnters
  <2>4. CASE ci' = ci /\ cs' = c /\ raising' \in {"errormsg", "throw"}
    <3>1. RaisingOK'
      <4>1. cs' # << >> /\ cs'[Len(cs')].fn # "pcall" /\ Depth(cs', Len(cs')) = n
        BY <2>4, <1>1, <1>2, <1>6, <1>7
      <4>. QED
        BY <4>1, <2>2, <2>4, <1>0, <1>1 DEF RaisingOK
    <3>2. \A i \in 1 .. Len(cs') : cs'[i].th = t \/ (i \in 1 .. L /\ cs'[i] = s[i])
      BY <2>4, <1>1, <1>2, <1>7
    <3>3. Len(cs') > L /\ \A i \in 1 .. L : cs'[i] = s[i]
      BY <2>4, <1>1, <1>7
    <3>4. Agree(cs', nCcalls', baseCcalls, ci', j, h) /\ nCcalls' \in [Threads -> Nat]
      BY <2>1, <2>4, <1>6
    <3>. QED
      BY ONLY <3>1, <3>2, <3>3, <3>4, <2>3, <2>4
  <2>5. CASE /\ ci' = [ci EXCEPT ![t] = Append(@, kind)] /\ cs' = Append(c, f) /\ raising' = "none"
    <3>1. f \in Record /\ f.fn \in {"execute", "C"} /\ f.th = t /\ Frames(f) = << kind >>
      <4>1. CASE kind = "Lua"
        <5>1. f = [fn |-> "execute", th |-> t, nexeccalls |-> 1] /\ f \in Record
          BY <4>1 DEF Execute, Record
        <5>2. f.fn = "execute" /\ f.th = t /\ f.nexeccalls = 1
          BY <5>1
        <5>3. Frames(f) = [i \in 1 .. 1 |-> "Lua"]
          BY <5>1, <5>2, FramesType
        <5>4. [i \in 1 .. 1 |-> "Lua"] = << "Lua" >>
          OBVIOUS
        <5>. QED
          BY <4>1, <5>1, <5>2, <5>3, <5>4
      <4>2. CASE kind = "C"
        <5>1. f = [fn |-> "C", th |-> t] /\ f \in Record
          BY <4>2 DEF CFunction, Record
        <5>2. f.fn = "C" /\ f.th = t
          BY <5>1
        <5>. QED
          BY <4>2, <5>1, <5>2, FramesType
      <4>. QED
        BY <4>1, <4>2 DEF Kinds
    <3>. HIDE DEF f
    <3>2. Above(c[Len(c)], f)
      BY <3>1, <1>2, <1>7 DEF Above
    <3>3. Len(c) # 0 /\ f.th = c[Len(c)].th /\ f.fn \in {"call", "execute", "C"}
      BY <3>1, <1>1, <1>2, <1>7
    <3>4. /\ Agree(Append(c, f), [nn EXCEPT ![t] = IF f.fn = "call" THEN @ + 1 ELSE @], baseCcalls,
                   [ci EXCEPT ![t] = @ \o Frames(f)], j, h)
          /\ Depth(Append(c, f), Len(c) + 1)
               = IF f.fn = "call" THEN Depth(c, Len(c)) + 1 ELSE Depth(c, Len(c))
      BY <3>1, <3>2, <3>3, <1>0, <1>6, PushPlain
    <3>5. [nn EXCEPT ![t] = IF f.fn = "call" THEN @ + 1 ELSE @] = nn
      BY <3>1, <1>6
    <3>6. [ci EXCEPT ![t] = @ \o Frames(f)] = [ci EXCEPT ![t] = Append(@, kind)]
      <4>1. ci[t] \o << kind >> = Append(ci[t], kind)
        BY <1>0
      <4>. QED
        BY <4>1, <3>1
    <3>7. Agree(cs', nCcalls', baseCcalls, ci', j, h)
      BY <3>4, <3>5, <3>6, <2>1, <2>5
    <3>8. /\ Len(cs') = L + 2 /\ cs'[L+2] = f /\ \A i \in 1 .. L + 1 : cs'[i] = c[i]
          /\ \A i \in 1 .. Len(cs') : i \in 1 .. L \/ i = L + 1 \/ i = L + 2
      BY <2>5, <3>1, <1>1, <1>7
    <3>9. RaisingOK'
      <4>1. Depth(cs', Len(cs')) = n
        BY <3>1, <3>4, <3>8, <2>5, <1>1, <1>6, <1>7
      <4>. QED
        BY <4>1, <2>2, <2>5, <1>0, <1>1 DEF RaisingOK
    <3>10. \A i \in 1 .. L : cs'[i] = s[i]
      BY <3>8, <1>1, <1>7
    <3>11. \A i \in 1 .. Len(cs') : cs'[i].th = t \/ (i \in 1 .. L /\ cs'[i] = s[i])
      BY <3>1, <3>8, <3>10, <1>1, <1>2, <1>7
    <3>12. Len(cs') > L /\ nCcalls' \in [Threads -> Nat]
      BY <3>8, <2>1, <1>1, <1>6
    <3>. QED
      BY ONLY <3>7, <3>9, <3>10, <3>11, <3>12, <2>3, <2>5
  <2>. QED
    BY <2>3, <2>4, <2>5
<1>. QED
  BY <1>9, <1>10

--------------------------------------------------------------------------------
(* What a step leaves alone *)

LEMMA StatusKept ==
  ASSUME LInv, status' = status, started' = started,
         \A i \in 1 .. Len(cs') : \/ cs'[i].th = main
                                 \/ \E k \in 1 .. Len(cs) : cs'[i].th = cs[k].th,
         \A v \in Threads : status[v] = "yield" => ci'[v] = ci[v]
  PROVE  StatusOK'
BY DEF LInv, StatusOK

LEMMA SharedKept ==
  ASSUME LInv, \A v \in Threads : /\ openupval'[v] \subseteq openupval[v]
                                /\ \A d \in openupval'[v] : d \in 1 .. Len(ci'[v]) /\ ci'[v][d] = ci[v][d]
  PROVE  SharedOK'
BY DEF LInv, SharedOK

\* One more call in progress.
LEMMA SharedAppend ==
  ASSUME LInv, openupval' = openupval, NEW t \in Threads, NEW kind \in Kinds,
         ci' = ci \/ ci' = [ci EXCEPT ![t] = Append(@, kind)]
  PROVE  SharedOK'
<1>0. ci \in [Threads -> Seq(Kinds)]
  BY DEF LInv, TypesOK, Kinds
<1>. SUFFICES ASSUME NEW v \in Threads, NEW d \in openupval[v]
              PROVE  d \in 1 .. Len(ci'[v]) /\ ci'[v][d] = ci[v][d]
  BY SharedKept
<1>1. d \in 1 .. Len(ci[v]) /\ ci[v] \in Seq(Kinds)
  BY <1>0 DEF LInv, SharedOK
<1>2. CASE ci' = ci \/ v # t
  BY <1>0, <1>1, <1>2
<1>3. CASE ci' # ci /\ v = t
  <2>1. ci'[v] = Append(ci[v], kind)
    BY <1>0, <1>3
  <2>. QED
    BY <2>1, <1>1
<1>. QED
  BY <1>2, <1>3

--------------------------------------------------------------------------------
(* The steps that call *)

LEMMA Types ==
  ASSUME LuaDoAssumption, LInv
  PROVE  /\ ci \in [Threads -> Seq(Kinds)] /\ size_ci \in [Threads -> Nat]
         /\ nCcalls \in [Threads -> Nat] /\ baseCcalls \in [Threads -> Nat]
         /\ errorJmp \in [Threads -> Nat] /\ errfunc \in [Threads -> Nat]
         /\ status \in [Threads -> {"none", "ok", "yield", "error"}] /\ started \in [Threads -> BOOLEAN]
         /\ openupval \in [Threads -> SUBSET Nat] /\ raising \in {"none", "errormsg", "throw"}
         /\ main \notin Coroutines /\ LUAI_MAXCCALLS \in Nat /\ ErrorCalls \in Nat \ {0}
         /\ raising # "throw" => Depth(cs, Len(cs)) < LUAI_MAXCCALLS + ErrorCalls
BY DEF LInv, TypesOK, Kinds, LuaDoAssumption, RaisingOK

\* What a call of a thread on the stack does, whatever it is made for.
LEMMA CallMade ==
  ASSUME LuaDoAssumption, LInv, cs # << >>, NEW kind \in Kinds, NEW then \in {"return", "throw"},
         raising # "throw",
         \/ then = "return" /\ cs[Len(cs)].fn \in {"C", "execute"}
         \/ then = "throw" /\ cs[Len(cs)].fn # "pcall",
         luaD_call(Running, kind, cs, then),
         UNCHANGED << baseCcalls, errorJmp, errfunc, threads, openupval >>
  PROVE  LInv'
<1>. DEFINE t == Running
<1>1. /\ t \in Threads /\ cs[Len(cs)].th = t /\ Len(cs) \in 1 .. Len(cs) /\ Len(cs) \in Nat
      /\ status[t] = "ok"
  BY WhoRuns
<1>. HIDE DEF t
<1>2. Len(cs) # 0 /\ t = cs[Len(cs)].th
  BY <1>1
<1>3. Agree(cs, nCcalls, baseCcalls, ci, errorJmp, errfunc)
  BY DEF LInv
<1>4. errfunc \in [Threads -> Nat] /\ Depth(cs, Len(cs)) < LUAI_MAXCCALLS + ErrorCalls
  BY Types
<1>5. \/ then = "return" /\ cs[Len(cs)].fn \in {"pcall", "C", "execute"}
      \/ then = "throw" /\ cs[Len(cs)].fn # "pcall"
  OBVIOUS
<1>6. luaD_call(t, kind, cs, then)
  BY DEF t
<1>7. /\ Agree(cs', nCcalls', baseCcalls, ci', errorJmp, errfunc)
      /\ CallsBounded' /\ RaisingOK'
      /\ size_ci' \in [Threads -> Nat] /\ nCcalls' \in [Threads -> Nat]
      /\ ci' \in [Threads -> Seq(Kinds)] /\ raising' \in {"none", "errormsg", "throw"}
      /\ ci' = ci \/ ci' = [ci EXCEPT ![t] = Append(@, kind)]
      /\ \A i \in 1 .. Len(cs') : cs'[i].th = t \/ (i \in 1 .. Len(cs) /\ cs'[i] = cs[i])
  BY <1>1, <1>2, <1>3, <1>4, <1>5, <1>6, CallEnters, SMTT(30)
<1>8. TypesOK'
  BY <1>7, Types DEF TypesOK, Kinds, threads
<1>9. SharedOK'
  BY <1>1, <1>7, SharedAppend
<1>10. StatusOK'
  <2>1. \A v \in Threads : status[v] = "yield" => ci'[v] = ci[v]
    BY <1>1, <1>7, Types
  <2>2. \A i \in 1 .. Len(cs') : \E k \in 1 .. Len(cs) : cs'[i].th = cs[k].th
    BY <1>1, <1>7
  <2>. QED
    BY <2>1, <2>2, StatusKept DEF threads
<1>. QED
  BY <1>7, <1>8, <1>9, <1>10 DEF LInv

LEMMA LuaCall ==
  ASSUME LuaDoAssumption, LInv, NEW kind \in Kinds, lua_call(kind)
  PROVE  LInv'
<1>1. /\ cs # << >> /\ Last(cs).fn \in {"C", "execute"} /\ raising = "none"
      /\ luaD_call(Running, kind, cs, "return")
      /\ UNCHANGED << baseCcalls, errorJmp, errfunc, threads, openupval >>
  BY DEF lua_call, Top
<1>2. cs[Len(cs)].fn \in {"C", "execute"}
  BY <1>1, WhoRuns
<1>. QED
  BY <1>1, <1>2, CallMade

LEMMA ErrorMessage ==
  ASSUME LuaDoAssumption, LInv, luaG_errormsg
  PROVE  LInv'
<1>1. /\ raising = "errormsg" /\ UNCHANGED << baseCcalls, errorJmp, errfunc, threads, openupval >>
      /\ cs # << >> /\ cs[Len(cs)].fn # "pcall"
  BY DEF luaG_errormsg, LInv, RaisingOK
<1>2. CASE raising' = "throw" /\ UNCHANGED << cs, ci, size_ci, nCcalls >>
  <2>1. raising' = "throw" /\ UNCHANGED << cs, ci, size_ci, nCcalls >>
    BY <1>2
  <2>2. RaisingOK'
    BY <1>1, <2>1 DEF LInv, RaisingOK
  <2>3. TypesOK' /\ CallsBounded' /\ SharedOK'
    BY <1>1, <2>1 DEF LInv, TypesOK, CallsBounded, SharedOK, threads
  <2>4. StatusOK'
    BY <1>1, <2>1 DEF LInv, StatusOK, threads
  <2>. QED
    BY <1>1, <2>1, <2>2, <2>3, <2>4 DEF LInv
<1>3. CASE \E kind \in {"Lua", "C"} : luaD_call(Running, kind, cs, "throw")
  <2>1. PICK kind \in {"Lua", "C"} : luaD_call(Running, kind, cs, "throw")
    BY <1>3
  <2>2. kind \in Kinds
    BY DEF Kinds
  <2>. QED
    BY <1>1, <2>1, <2>2, CallMade
<1>. QED
  BY <1>2, <1>3 DEF luaG_errormsg

\* Below a new record nothing changes.
LEMMA Below ==
  ASSUME NEW s \in Seq(Record), NEW r \in Record
  PROVE  LET u == Append(s, r)  L == Len(s) IN
         /\ u \in Seq(Record) /\ Len(u) = L + 1 /\ u[L+1] = r /\ \A i \in 1 .. L : u[i] = s[i]
         /\ L \in Nat
         /\ Depth(u, L) = Depth(s, L) /\ Depth(s, L) \in Nat
         /\ Depth(u, L + 1) = Depth(s, L) + IF r.fn \in {"call", "resume"} THEN 1 ELSE 0
         /\ \A t \in Threads : /\ CallsOf(u, t, L) = CallsOf(s, t, L)
                              /\ CallsOf(s, t, L) \in Seq(Kinds)
                              /\ CallsOf(u, t, L + 1) = CallsOf(s, t, L) \o (IF r.th = t THEN Frames(r) ELSE << >>)
                              /\ Catchers(u, t, L) = Catchers(s, t, L)
         /\ \A t \in Threads, h \in Nat : Handler(u, t, h, L) = Handler(s, t, h, L)
<1>. DEFINE u == Append(s, r)
            L == Len(s)
<1>1. u \in Seq(Record) /\ Len(u) = L + 1 /\ u[L+1] = r /\ (\A i \in 1 .. L : s[i] = u[i]) /\ L \in Nat
  OBVIOUS
<1>. HIDE DEF u
<1>2. /\ \A m \in 0 .. L : Depth(s, m) = Depth(u, m)
      /\ \A m \in 0 .. L, t \in Threads : /\ CallsOf(s, t, m) = CallsOf(u, t, m)
                                          /\ Catchers(s, t, m) = Catchers(u, t, m)
      /\ \A m \in 0 .. L, t \in Threads, h \in Nat : Handler(s, t, h, m) = Handler(u, t, h, m)
  BY ONLY <1>1, SameBelow
<1>3. L \in 0 .. L /\ L \in 0 .. Len(s) /\ L + 1 \in 1 .. Len(u) /\ (L + 1) - 1 = L
  BY <1>1
<1>4. /\ Depth(s, L) \in Nat
      /\ Depth(u, L + 1) = Depth(u, L) + IF r.fn \in {"call", "resume"} THEN 1 ELSE 0
  BY <1>1, DepthStep
<1>5. ASSUME NEW t \in Threads
      PROVE  /\ CallsOf(s, t, L) \in Seq(Kinds)
             /\ CallsOf(u, t, L + 1) = CallsOf(u, t, L) \o (IF r.th = t THEN Frames(r) ELSE << >>)
  <2>1. CallsOf(s, t, L) \in Seq(Kinds)
    BY <1>3, CallsStep
  <2>2. \A n \in 1 .. Len(u) : CallsOf(u, t, n)
                              = CallsOf(u, t, n - 1) \o (IF u[n].th = t THEN Frames(u[n]) ELSE << >>)
    BY ONLY <1>1, CallsStep
  <2>. QED
    BY <2>1, <2>2, <1>1, <1>3
<1>. QED
  BY <1>1, <1>2, <1>3, <1>4, <1>5 DEF u

LEMMA ProtectedCall ==
  ASSUME LuaDoAssumption, LInv, NEW handler \in BOOLEAN, NEW kind \in Kinds, lua_pcall(handler, kind)
  PROVE  LInv'
<1>. DEFINE t == Running
            L == Len(cs)
            r == [fn |-> "pcall", th |-> t, previous |-> errorJmp[t],
                  nCcalls |-> nCcalls[t], ci |-> Len(ci[t]), errfunc |-> errfunc[t]]
            u == Append(cs, r)
            f == IF handler THEN Len(ci[t]) + 1 ELSE 0
            jj == [errorJmp EXCEPT ![t] = L + 1]
            hh == [errfunc EXCEPT ![t] = f]
<1>1. /\ cs \in Seq(Record) /\ L \in Nat /\ t \in Threads
      /\ nCcalls[t] = Depth(cs, L) /\ ci[t] = CallsOf(cs, t, L) /\ errorJmp[t] = LastOf(Catchers(cs, t, L))
      /\ cs # << >> => L \in 1 .. L /\ Last(cs) = cs[L] /\ cs[L].th = t /\ status[t] = "ok"
      /\ cs = << >> => t = main
  BY WhoRuns DEF Running
<1>2. /\ errfunc' = hh /\ errorJmp' = jj
      /\ luaD_call(t, kind, u, "return") /\ UNCHANGED << baseCcalls, threads, openupval >>
      /\ \/ cs # << >> /\ Last(cs).fn = "C" /\ raising = "none"
         \/ cs = << >>
  BY DEF lua_pcall, Top
<1>3. /\ raising # "throw" /\ Depth(cs, L) < LUAI_MAXCCALLS + ErrorCalls
      /\ status[main] = "ok" /\ Agree(cs, nCcalls, baseCcalls, ci, errorJmp, errfunc)
  BY <1>2, Types DEF LInv, RaisingOK, StatusOK
<1>4. /\ r \in Record /\ r.fn = "pcall" /\ r.th = t /\ r.previous = errorJmp[t] /\ r.nCcalls = nCcalls[t]
      /\ r.ci = Len(ci[t]) /\ r.errfunc = errfunc[t]
  <2>1. errorJmp[t] \in Nat /\ nCcalls[t] \in Nat /\ Len(ci[t]) \in Nat /\ errfunc[t] \in Nat
    BY <1>1, Types
  <2>. QED
    BY <2>1, <1>1 DEF Record
<1>5. f \in Nat /\ jj \in [Threads -> Nat] /\ hh \in [Threads -> Nat]
  <2>1. Len(ci[t]) \in Nat
    BY <1>1, Types
  <2>. QED
    BY <2>1, <1>1, Types
<1>. HIDE DEF t, r
<1>6. /\ u \in Seq(Record) /\ Len(u) = L + 1 /\ u[L+1] = r /\ \A i \in 1 .. L : u[i] = cs[i]
      /\ Depth(u, L) = Depth(cs, L) /\ Depth(u, L + 1) = Depth(cs, L) /\ Depth(cs, L) \in Nat
      /\ CallsOf(u, t, L) = CallsOf(cs, t, L) /\ CallsOf(u, t, L + 1) = CallsOf(cs, t, L)
      /\ Catchers(u, t, L) = Catchers(cs, t, L)
      /\ Handler(u, t, errfunc[t], L) = Handler(cs, t, errfunc[t], L)
  <2>1. /\ u \in Seq(Record) /\ Len(u) = L + 1 /\ u[L+1] = r /\ \A i \in 1 .. L : u[i] = cs[i]
        /\ Depth(u, L) = Depth(cs, L) /\ Depth(cs, L) \in Nat
        /\ Depth(u, L + 1) = Depth(cs, L) + (IF r.fn \in {"call", "resume"} THEN 1 ELSE 0)
        /\ CallsOf(u, t, L) = CallsOf(cs, t, L) /\ CallsOf(cs, t, L) \in Seq(Kinds)
        /\ CallsOf(u, t, L + 1) = CallsOf(cs, t, L) \o (IF r.th = t THEN Frames(r) ELSE << >>)
        /\ Catchers(u, t, L) = Catchers(cs, t, L)
        /\ \A h \in Nat : Handler(u, t, h, L) = Handler(cs, t, h, L)
    <3>1. cs \in Seq(Record) /\ r \in Record
      BY <1>1, <1>4
    <3>2. /\ u \in Seq(Record) /\ Len(u) = L + 1 /\ u[L+1] = r /\ \A i \in 1 .. L : u[i] = cs[i]
          /\ Depth(u, L) = Depth(cs, L) /\ Depth(cs, L) \in Nat
          /\ Depth(u, L + 1) = Depth(cs, L) + (IF r.fn \in {"call", "resume"} THEN 1 ELSE 0)
          /\ \A v \in Threads : /\ CallsOf(u, v, L) = CallsOf(cs, v, L)
                               /\ CallsOf(cs, v, L) \in Seq(Kinds)
                               /\ CallsOf(u, v, L + 1) = CallsOf(cs, v, L) \o (IF r.th = v THEN Frames(r) ELSE << >>)
                               /\ Catchers(u, v, L) = Catchers(cs, v, L)
          /\ \A v \in Threads, h \in Nat : Handler(u, v, h, L) = Handler(cs, v, h, L)
      BY ONLY <3>1, Below
    <3>. HIDE DEF u
    <3>. QED
      BY <3>2, <1>1
  <2>2. Frames(r) = << >>
    BY <1>4, FramesType
  <2>3. CallsOf(cs, t, L) \o << >> = CallsOf(cs, t, L)
    BY <2>1
  <2>4. errfunc[t] \in Nat
    BY <1>1, Types
  <2>. QED
    BY <2>1, <2>2, <2>3, <2>4, <1>4
<1>. HIDE DEF u, jj, hh, f
<1>7. MayPush(cs, nCcalls, baseCcalls, ci, errorJmp, errfunc, r, nCcalls, baseCcalls, ci, jj, hh)
  <2>1. RecordOK(u, L + 1)
    <3>1. (L + 1) - 1 = L /\ (L + 1 = 1 => t = main)
      BY <1>1
    <3>2. L + 1 > 1 => Above(u[L], u[L+1])
      <4>. SUFFICES ASSUME L + 1 > 1 PROVE Above(u[L], u[L+1])
        OBVIOUS
      <4>1. cs # << >>
        BY <1>1
      <4>2. u[L] = cs[L] /\ cs[L].fn = "C" /\ cs[L].th = t
        BY <4>1, <1>1, <1>2, <1>6
      <4>. QED
        BY <4>2, <1>4, <1>6 DEF Above
    <3>3. Handler(u, t, errfunc[t], L)
      BY <1>1, <1>6 DEF LInv, Agree, HandlerOK
    <3>. QED
      BY <3>1, <3>2, <3>3, <1>1, <1>4, <1>6 DEF RecordOK
  <2>2. LastOf(Catchers(u, t, L + 1)) = L + 1
    <3>1. Catchers(u, t, L + 1) \subseteq 1 .. L + 1 /\ L + 1 \in Catchers(u, t, L + 1) /\ L + 1 \in Nat
      BY <1>1, <1>4, <1>6 DEF Catchers
    <3>2. \A i \in Catchers(u, t, L + 1) : i <= L + 1
      BY <3>1
    <3>. QED
      BY ONLY <3>1, <3>2, LastOfIs
  <2>3. Handler(u, t, f, L + 1)
    <3>1. CASE ~handler
      BY <3>1 DEF Handler, f
    <3>2. CASE handler
      <4>1. L + 1 \in 1 .. L + 1
        BY <1>1
      <4>. QED
        BY <4>1, <3>2, <1>4, <1>6 DEF Handler, f
    <3>. QED
      BY <3>1, <3>2
  <2>4. jj[t] = L + 1 /\ hh[t] = f /\ \A v \in Threads : v # t => jj[v] = errorJmp[v] /\ hh[v] = errfunc[v]
    BY <1>1, Types DEF jj, hh
  <2>5. errfunc \in [Threads -> Nat] /\ main \notin Coroutines /\ u = Append(cs, r)
    BY Types DEF u
  <2>6. nCcalls[t] = Depth(u, L + 1) /\ ci[t] = CallsOf(u, t, L + 1)
    BY <1>1, <1>6
  <2>7. t = r.th /\ r.fn # "resume"
    BY <1>4
  <2>. QED
    BY ONLY <2>1, <2>2, <2>3, <2>4, <2>5, <2>6, <2>7, <1>3, <1>4 DEF MayPush
<1>8. Agree(u, nCcalls, baseCcalls, ci, jj, hh)
  BY ONLY <1>7, PushAgrees DEF u
<1>9. /\ Agree(cs', nCcalls', baseCcalls, ci', jj, hh)
      /\ CallsBounded' /\ RaisingOK'
      /\ size_ci' \in [Threads -> Nat] /\ nCcalls' \in [Threads -> Nat]
      /\ ci' \in [Threads -> Seq(Kinds)] /\ raising' \in {"none", "errormsg", "throw"}
      /\ ci' = ci \/ ci' = [ci EXCEPT ![t] = Append(@, kind)]
      /\ \A i \in 1 .. Len(cs') : cs'[i].th = t \/ (i \in 1 .. Len(u) /\ cs'[i] = u[i])
  <2>1. Len(u) # 0 /\ t = u[Len(u)].th /\ u[Len(u)].fn = "pcall"
        /\ Depth(u, Len(u)) < LUAI_MAXCCALLS + ErrorCalls
    BY <1>1, <1>3, <1>4, <1>6
  <2>2. "return" = "return" /\ u[Len(u)].fn \in {"pcall", "C", "execute"}
    BY <2>1
  <2>3. /\ LuaDoAssumption /\ LInv /\ kind \in Kinds /\ "return" \in {"return", "throw"}
        /\ Agree(u, nCcalls, baseCcalls, ci, jj, hh) /\ hh \in [Threads -> Nat] /\ t \in Threads
        /\ luaD_call(t, kind, u, "return")
    BY <1>1, <1>2, <1>5, <1>8
  <2>. QED
    BY ONLY <2>1, <2>2, <2>3, CallEnters, SMTT(30)
<1>10. TypesOK'
  BY <1>2, <1>5, <1>9, Types DEF TypesOK, Kinds, threads
<1>11. SharedOK'
  BY <1>1, <1>2, <1>9, SharedAppend
<1>12. StatusOK'
  <2>1. \A v \in Threads : status[v] = "yield" => ci'[v] = ci[v]
    BY <1>1, <1>3, <1>9, Types
  <2>2. \A i \in 1 .. Len(cs') : cs'[i].th = t \/ \E k \in 1 .. Len(cs) : cs'[i].th = cs[k].th
    <3>. SUFFICES ASSUME NEW i \in 1 .. Len(cs'), i \in 1 .. Len(u), cs'[i] = u[i]
                  PROVE  cs'[i].th = t \/ \E k \in 1 .. Len(cs) : cs'[i].th = cs[k].th
      BY <1>9
    <3>1. i = L + 1 \/ i \in 1 .. L
      BY <1>1, <1>6
    <3>. QED
      BY <3>1, <1>4, <1>6
  <2>3. t = main \/ \E k \in 1 .. Len(cs) : t = cs[k].th
    BY <1>1
  <2>. QED
    BY <2>1, <2>2, <2>3, <1>2, StatusKept DEF threads
<1>. QED
  BY <1>2, <1>9, <1>10, <1>11, <1>12 DEF LInv

\* A call or a function is left.
LEMMA PopPlain ==
  ASSUME main \notin Coroutines,
         NEW s, NEW n, NEW b, NEW c, NEW j, NEW h, Agree(s, n, b, c, j, h), Len(s) # 0,
         n \in [Threads -> Nat], c \in [Threads -> Seq(Kinds)], h \in [Threads -> Nat],
         s[Len(s)].fn \in {"call", "execute", "C"}
  PROVE  LET t == s[Len(s)].th  L == Len(s)  x == CallsOf(s, t, L - 1) IN
         /\ Agree(SubSeq(s, 1, L - 1), [n EXCEPT ![t] = IF s[L].fn = "call" THEN @ - 1 ELSE @], b,
                  [c EXCEPT ![t] = x], j, h)
         /\ x \in Seq(Kinds) /\ c[t] = x \o Frames(s[L]) /\ t \in Threads /\ n[t] = Depth(s, L)
         /\ L - 1 \in 1 .. L /\ s[L-1].th = t /\ Above(s[L-1], s[L])
         /\ Depth(SubSeq(s, 1, L - 1), L - 1) = Depth(s, L - 1)
         /\ Depth(s, L) = Depth(s, L - 1) + IF s[L].fn = "call" THEN 1 ELSE 0
<1>. DEFINE L == Len(s)
            t == s[L].th
            x == CallsOf(s, t, L - 1)
            u == SubSeq(s, 1, L - 1)
            nn == [n EXCEPT ![t] = IF s[L].fn = "call" THEN @ - 1 ELSE @]
            cc == [c EXCEPT ![t] = x]
<1>0. /\ s \in Seq(Record) /\ StackOK(s) /\ L \in Nat /\ L \in 1 .. L /\ s[L] \in Record /\ t \in Threads
      /\ RecordOK(s, L)
  <2>1. s \in Seq(Record) /\ StackOK(s)
    BY DEF Agree, StackOK
  <2>2. L \in Nat /\ L \in 1 .. L /\ s[L] \in Record
    BY <2>1
  <2>. QED
    BY <2>1, <2>2, RecordFields DEF StackOK
<1>1. L # 1 /\ L > 1
  <2>1. L = 1 => s[L].fn = "pcall"
    BY <1>0 DEF RecordOK
  <2>2. L # 1
    BY <2>1
  <2>3. \A k \in Nat : k \in 1 .. k /\ k # 1 => k > 1
    OBVIOUS
  <2>. QED
    BY ONLY <1>0, <2>2, <2>3
<1>2. L - 1 \in 1 .. L /\ Above(s[L-1], s[L]) /\ s[L-1].th = t
  <2>1. L - 1 \in 1 .. L /\ Above(s[L-1], s[L])
    BY <1>0, <1>1 DEF RecordOK
  <2>. QED
    BY <2>1 DEF Above
<1>3. n[t] = Depth(s, L) /\ c[t] = CallsOf(s, t, L) /\ j[t] = LastOf(Catchers(s, t, L))
      /\ Handler(s, t, h[t], L)
  BY <1>0 DEF Agree, CountOK, FramesOK, CatchOK, HandlerOK
<1>4. x \in Seq(Kinds) /\ CallsOf(s, t, L) = x \o Frames(s[L])
  <2>1. L - 1 \in 0 .. Len(s) /\ L \in 1 .. Len(s)
    BY <1>0, <1>2
  <2>2. /\ \A k \in 0 .. Len(s) : CallsOf(s, t, k) \in Seq(Kinds)
        /\ \A k \in 1 .. Len(s) :
             CallsOf(s, t, k) = CallsOf(s, t, k - 1) \o (IF s[k].th = t THEN Frames(s[k]) ELSE << >>)
    BY ONLY <1>0, CallsStep
  <2>. QED
    BY <2>1, <2>2
<1>5. Depth(s, L) = (Depth(s, L - 1) + IF s[L].fn = "call" THEN 1 ELSE 0) /\ Depth(s, L - 1) \in Nat
  <2>1. L - 1 \in Nat /\ (L - 1) + 1 = L
    BY <1>0, <1>2
  <2>2. /\ Depth(s, L - 1) \in Nat
        /\ Depth(s, (L - 1) + 1) = Depth(s, L - 1) + IF s[(L-1)+1].fn \in {"call", "resume"} THEN 1 ELSE 0
    BY ONLY <2>1, DepthStep
  <2>. QED
    BY <2>1, <2>2
<1>6. Depth(u, L - 1) = Depth(s, L - 1)
  <2>1. L - 1 \in Nat /\ L - 1 \in 0 .. L - 1 /\ \A i \in 1 .. L - 1 : s[i] = u[i]
    BY <1>0, <1>2
  <2>. HIDE DEF u
  <2>2. \A m \in 0 .. L - 1 : Depth(s, m) = Depth(u, m)
    BY ONLY <2>1, SameBelow
  <2>. QED
    BY <2>1, <2>2
<1>7. Catchers(s, t, L) = Catchers(s, t, L - 1)
  <2>1. \A i \in 1 .. L : i = L \/ i \in 1 .. L - 1
    BY <1>0
  <2>2. \A i \in 1 .. L - 1 : i \in 1 .. L
    BY <1>0
  <2>. QED
    BY <2>1, <2>2 DEF Catchers
<1>8. Handler(s, t, h[t], L - 1)
  <2>1. \A k \in 1 .. L : k = L \/ k \in 1 .. L - 1
    BY <1>0
  <2>. QED
    BY <2>1, <1>3 DEF Handler
<1>9. MayPop(s, n, b, c, j, h, L - 1, t, nn, cc, j, h)
  <2>1. (L - 1) + 1 = L /\ L - 1 \in 0 .. Len(s) - 1 /\ \A k \in (L - 1) + 1 .. Len(s) : k = L
    BY <1>0, <1>1
  <2>2. nn[t] = Depth(s, L - 1)
    BY <1>0, <1>3, <1>5
  <2>3. cc[t] = x /\ \A v \in Threads : v # t => nn[v] = n[v] /\ cc[v] = c[v] /\ j[v] = j[v] /\ h[v] = h[v]
    BY <1>0
  <2>. HIDE DEF nn, cc
  <2>4. \A k \in (L - 1) + 1 .. Len(s) : s[k].th = t
    BY <2>1
  <2>. QED
    BY <2>1, <2>2, <2>3, <2>4, <1>0, <1>3, <1>7, <1>8 DEF MayPop
<1>10. Agree(u, nn, b, cc, j, h)
  BY ONLY <1>9, PopAgrees DEF u
<1>. QED
  BY <1>0, <1>2, <1>3, <1>4, <1>5, <1>6, <1>10

\* The calls that luaV_execute answers for.
LuaFrames(m) == [i \in 1 .. m |-> "Lua"]

\* luaV_execute goes on with more calls, or fewer, and all agrees.
GoesOn(s, n, b, c, j, h, t, m) ==
  LET L == Len(s)  u == Append(SubSeq(s, 1, L - 1), Execute(t, m))
      x == CallsOf(s, t, L - 1)
  IN /\ Agree(u, n, b, [c EXCEPT ![t] = x \o LuaFrames(m)], j, h)
     /\ Depth(u, L) = Depth(s, L) /\ x \in Seq(Kinds) /\ c[t] = x \o Frames(s[L])
     /\ Len(u) = L /\ u[L] = Execute(t, m) /\ \A i \in 1 .. L - 1 : u[i] = s[i]

LEMMA ReplaceExecute ==
  ASSUME main \notin Coroutines,
         NEW s, NEW n, NEW b, NEW c, NEW j, NEW h, Agree(s, n, b, c, j, h), Len(s) # 0,
         n \in [Threads -> Nat], c \in [Threads -> Seq(Kinds)], h \in [Threads -> Nat],
         s[Len(s)].fn = "execute", NEW m \in Nat \ {0}, NEW t, t = s[Len(s)].th
  PROVE  GoesOn(s, n, b, c, j, h, t, m)
<1>. DEFINE L == Len(s)
            x == CallsOf(s, t, L - 1)
            v == SubSeq(s, 1, L - 1)
            r == Execute(t, m)
            cc == [c EXCEPT ![t] = x]
<1>1. /\ Agree(v, [n EXCEPT ![t] = IF s[L].fn = "call" THEN @ - 1 ELSE @], b, cc, j, h)
      /\ x \in Seq(Kinds) /\ c[t] = x \o Frames(s[L]) /\ t \in Threads /\ n[t] = Depth(s, L)
      /\ L - 1 \in 1 .. L /\ s[L-1].th = t /\ Above(s[L-1], s[L])
      /\ Depth(v, L - 1) = Depth(s, L - 1)
      /\ Depth(s, L) = Depth(s, L - 1) + IF s[L].fn = "call" THEN 1 ELSE 0
  BY PopPlain
<1>2. s \in Seq(Record) /\ L \in Nat
  <2>1. s \in Seq(Record)
    BY DEF Agree, StackOK
  <2>. QED
    BY <2>1
<1>3. Len(v) = L - 1 /\ v[L-1] = s[L-1] /\ (\A i \in 1 .. L - 1 : v[i] = s[i]) /\ v \in Seq(Record)
  BY <1>1, <1>2
<1>4. r \in Record /\ r.fn = "execute" /\ r.th = t /\ r.nexeccalls = m
  BY <1>1 DEF Execute, Record
<1>5. Frames(r) = LuaFrames(m)
  BY <1>4, FramesType DEF LuaFrames
<1>6. [n EXCEPT ![t] = IF s[L].fn = "call" THEN @ - 1 ELSE @] = n
  <2>1. s[L].fn # "call"
    OBVIOUS
  <2>. QED
    BY <2>1
<1>. HIDE DEF v, r, x, cc
<1>7. Agree(v, n, b, cc, j, h)
  BY <1>1, <1>6
<1>8. Above(v[Len(v)], r) /\ Len(v) # 0 /\ r.th = v[Len(v)].th /\ r.fn \in {"call", "execute", "C"}
  BY <1>1, <1>3, <1>4 DEF Above
<1>9. cc \in [Threads -> Seq(Kinds)] /\ cc[t] = x
  BY <1>1 DEF cc
<1>10. /\ Agree(Append(v, r), [n EXCEPT ![r.th] = IF r.fn = "call" THEN @ + 1 ELSE @], b,
                [cc EXCEPT ![r.th] = @ \o Frames(r)], j, h)
       /\ Depth(Append(v, r), Len(v) + 1) = IF r.fn = "call" THEN Depth(v, Len(v)) + 1 ELSE Depth(v, Len(v))
  <2>1. /\ main \notin Coroutines /\ Agree(v, n, b, cc, j, h) /\ Len(v) # 0
        /\ n \in [Threads -> Nat] /\ cc \in [Threads -> Seq(Kinds)] /\ h \in [Threads -> Nat]
        /\ r \in Record /\ r.fn \in {"call", "execute", "C"} /\ r.th = v[Len(v)].th
        /\ Above(v[Len(v)], r)
    BY <1>4, <1>7, <1>8, <1>9
  <2>. QED
    BY ONLY <2>1, PushPlain
<1>11. [n EXCEPT ![r.th] = IF r.fn = "call" THEN @ + 1 ELSE @] = n
  <2>1. r.fn # "call"
    BY <1>4
  <2>. QED
    BY <2>1
<1>12. [cc EXCEPT ![r.th] = @ \o Frames(r)] = [c EXCEPT ![t] = x \o LuaFrames(m)]
  BY <1>1, <1>4, <1>5, <1>9 DEF cc
<1>13. Agree(Append(v, r), n, b, [c EXCEPT ![t] = x \o LuaFrames(m)], j, h)
  BY <1>10, <1>11, <1>12
<1>14. Depth(Append(v, r), L) = Depth(s, L)
  <2>1. Len(v) + 1 = L /\ r.fn # "call" /\ s[L].fn # "call" /\ Len(v) = L - 1 /\ L - 1 \in Nat
    BY <1>1, <1>2, <1>3, <1>4
  <2>2. Depth(s, L - 1) \in Nat
    BY <2>1, DepthStep
  <2>. QED
    BY <2>1, <2>2, <1>1, <1>10
<1>15. Len(Append(v, r)) = L /\ Append(v, r)[L] = r /\ \A i \in 1 .. L - 1 : Append(v, r)[i] = s[i]
  <2>1. Len(v) + 1 = L /\ L - 1 = Len(v) /\ Len(v) \in Nat /\ v \in Seq(Record) /\ r \in Record
    BY <1>2, <1>3, <1>4
  <2>2. Len(Append(v, r)) = Len(v) + 1 /\ Append(v, r)[Len(v) + 1] = r
        /\ \A i \in 1 .. Len(v) : Append(v, r)[i] = v[i]
    BY <2>1
  <2>. QED
    BY <2>1, <2>2, <1>3
<1>. QED
  BY <1>1, <1>13, <1>14, <1>15 DEF v, r, x, GoesOn

\* The calls of luaV_execute, one more and one less.
LEMMA LuaCalls ==
  ASSUME NEW x \in Seq(Kinds), NEW m \in Nat
  PROVE  LET F(k) == LuaFrames(k) IN
         /\ Append(x \o F(m), "Lua") = x \o F(m + 1)
         /\ Front(x \o F(m + 1)) = x \o F(m)
         /\ x \o F(0) = x
         /\ Len(x \o F(m + 1)) = Len(x) + m + 1 /\ (x \o F(m + 1))[Len(x) + m + 1] = "Lua"
<1>. DEFINE F(k) == [i \in 1 .. k |-> "Lua"]
            a == x \o F(m)
            b == x \o F(m + 1)
<1>1. F(m) \in Seq(Kinds) /\ F(m + 1) \in Seq(Kinds) /\ Len(F(m)) = m /\ Len(F(m + 1)) = m + 1
      /\ "Lua" \in Kinds
  BY DEF Kinds
<1>2. /\ a \in Seq(Kinds) /\ b \in Seq(Kinds) /\ Len(x) \in Nat
      /\ Len(a) = Len(x) + m /\ Len(b) = Len(x) + m + 1
      /\ \A i \in 1 .. Len(a) : a[i] = b[i]
      /\ b[Len(x) + m + 1] = "Lua"
  BY <1>1
<1>. HIDE DEF a, b
<1>3. Append(a, "Lua") = b
  <2>1. Append(a, "Lua") \in Seq(Kinds) /\ Len(Append(a, "Lua")) = Len(b)
    BY <1>1, <1>2, SMTT(30)
  <2>2. \A i \in 1 .. Len(b) : Append(a, "Lua")[i] = b[i]
    BY <1>1, <1>2
  <2>. QED
    BY <2>1, <2>2, <1>2
<1>4. Front(b) = a
  <2>1. Front(b) = SubSeq(b, 1, Len(b) - 1)
    BY DEF Front
  <2>2. Front(b) \in Seq(Kinds) /\ Len(Front(b)) = Len(a) /\ \A i \in 1 .. Len(a) : Front(b)[i] = a[i]
    BY <2>1, <1>2
  <2>. QED
    BY <2>2, <1>2
<1>5. x \o F(0) = x
  <2>1. F(0) = << >>
    OBVIOUS
  <2>. QED
    BY <2>1
<1>. QED
  BY <1>2, <1>3, <1>4, <1>5 DEF a, b, LuaFrames

LEMMA CallInstruction ==
  ASSUME LuaDoAssumption, LInv, NEW kind \in Kinds, OP_CALL(kind)
  PROVE  LInv'
<1>. DEFINE t == Running
            L == Len(cs)
            n == cs[L].nexeccalls
            x == CallsOf(cs, t, L - 1)
            F(k) == LuaFrames(k)
            entered == IF kind = "Lua" THEN Append(SubSeq(cs, 1, L - 1), Execute(t, n + 1))
                       ELSE Append(cs, CFunction(t))
<1>1. cs # << >> /\ Last(cs).fn = "execute" /\ raising = "none"
      /\ UNCHANGED << nCcalls, baseCcalls, errorJmp, errfunc, threads, openupval >>
      /\ Popped = SubSeq(cs, 1, L - 1)
  BY DEF OP_CALL, Top, Popped, Front
<1>2. /\ cs \in Seq(Record) /\ L \in Nat /\ L \in 1 .. L /\ t \in Threads /\ Last(cs) = cs[L]
      /\ cs[L] \in Record /\ cs[L].th = t /\ status[t] = "ok" /\ L # 0
  BY <1>1, WhoRuns
<1>3. cs[L].fn = "execute" /\ n \in Nat \ {0}
  BY <1>1, <1>2, RecordFields
<1>4. luaD_precall(t, kind, cs, entered)
  BY <1>1, <1>2 DEF OP_CALL
<1>5. Agree(cs, nCcalls, baseCcalls, ci, errorJmp, errfunc) /\ Depth(cs, L) < LUAI_MAXCCALLS + ErrorCalls
  BY <1>1, Types DEF LInv
<1>. HIDE DEF t, entered
<1>6. /\ size_ci' \in [Threads -> Nat] /\ CallsBounded'
      /\ \/ ci' = ci /\ cs' = cs /\ raising' \in {"errormsg", "throw"}
         \/ /\ ci' = [ci EXCEPT ![t] = Append(@, kind)] /\ cs' = entered
            /\ raising' = "none"
      /\ ci' \in [Threads -> Seq(Kinds)]
  BY <1>2, <1>4, PrecallEnters
<1>7. /\ Agree(cs', nCcalls, baseCcalls, ci', errorJmp, errfunc)
      /\ Depth(cs', Len(cs')) = Depth(cs, L) /\ Len(cs') # 0 /\ cs'[Len(cs')].fn \in {"execute", "C"}
      /\ \A i \in 1 .. Len(cs') : cs'[i].th = t \/ (i \in 1 .. L /\ cs'[i] = cs[i])
  <2>1. CASE ci' = ci /\ cs' = cs
    BY <2>1, <1>2, <1>3, <1>5
  <2>2. CASE ci' = [ci EXCEPT ![t] = Append(@, kind)] /\ cs' = entered /\ kind = "Lua"
    <3>1. cs' = Append(SubSeq(cs, 1, L - 1), Execute(t, n + 1))
      BY <2>2 DEF entered
    <3>2. /\ main \notin Coroutines /\ Len(cs) # 0 /\ nCcalls \in [Threads -> Nat]
          /\ ci \in [Threads -> Seq(Kinds)] /\ errfunc \in [Threads -> Nat]
          /\ cs[Len(cs)].fn = "execute" /\ n + 1 \in Nat \ {0} /\ t = cs[Len(cs)].th
      <4>1. n + 1 \in Nat \ {0}
        BY ONLY <1>3
      <4>2. Len(cs) # 0 /\ cs[Len(cs)].fn = "execute" /\ t = cs[Len(cs)].th
        BY <1>2, <1>3
      <4>. QED
        BY <4>1, <4>2, Types
    <3>3. /\ Agree(cs', nCcalls, baseCcalls, [ci EXCEPT ![t] = x \o F(n + 1)], errorJmp, errfunc)
          /\ Depth(cs', L) = Depth(cs, L) /\ x \in Seq(Kinds) /\ ci[t] = x \o Frames(cs[L])
          /\ Len(cs') = L /\ cs'[L] = Execute(t, n + 1) /\ \A i \in 1 .. L - 1 : cs'[i] = cs[i]
      <4>1. GoesOn(cs, nCcalls, baseCcalls, ci, errorJmp, errfunc, t, n + 1)
        BY ONLY <3>2, <1>5, ReplaceExecute
      <4>. QED
        BY <4>1, <3>1 DEF GoesOn
    <3>4. Frames(cs[L]) = F(n)
      BY <1>2, <1>3, FramesType DEF LuaFrames
    <3>5. Append(x \o F(n), "Lua") = x \o F(n + 1)
      BY <1>3, <3>3, LuaCalls
    <3>. HIDE DEF F, x
    <3>6. [ci EXCEPT ![t] = x \o F(n + 1)] = ci'
      BY <3>3, <3>4, <3>5, <2>2
    <3>7. cs'[L].th = t /\ cs'[L].fn = "execute"
      BY <3>3 DEF Execute
    <3>8. \A i \in 1 .. L : i = L \/ i \in 1 .. L - 1
      BY <1>2
    <3>. QED
      BY <3>3, <3>6, <3>7, <3>8, <1>2
  <2>3. CASE ci' = [ci EXCEPT ![t] = Append(@, kind)] /\ cs' = entered /\ kind = "C"
    <3>. DEFINE r == CFunction(t)
    <3>1. r \in Record /\ r.fn = "C" /\ r.th = t
      BY <1>2 DEF CFunction, Record
    <3>2. Frames(r) = << "C" >>
      BY <3>1, FramesType
    <3>3. cs' = Append(cs, r)
      BY <2>3 DEF entered
    <3>. HIDE DEF r
    <3>4. /\ main \notin Coroutines /\ Len(cs) # 0 /\ nCcalls \in [Threads -> Nat]
          /\ ci \in [Threads -> Seq(Kinds)] /\ errfunc \in [Threads -> Nat]
          /\ r \in Record /\ r.fn \in {"call", "execute", "C"} /\ t = r.th /\ t = cs[Len(cs)].th
          /\ Above(cs[Len(cs)], r)
      BY <3>1, <1>2, <1>3, Types DEF Above
    <3>5. /\ Agree(cs', [nCcalls EXCEPT ![t] = IF r.fn = "call" THEN @ + 1 ELSE @], baseCcalls,
                   [ci EXCEPT ![t] = @ \o Frames(r)], errorJmp, errfunc)
          /\ Depth(cs', L + 1) = IF r.fn = "call" THEN Depth(cs, L) + 1 ELSE Depth(cs, L)
      BY ONLY <3>3, <3>4, <1>5, PushPlain
    <3>6. [ci EXCEPT ![t] = @ \o Frames(r)] = ci'
      <4>1. ci[t] \o << "C" >> = Append(ci[t], "C")
        BY <3>4, <1>2
      <4>. QED
        BY <4>1, <3>2, <2>3
    <3>7. [nCcalls EXCEPT ![t] = IF r.fn = "call" THEN @ + 1 ELSE @] = nCcalls
      BY <3>1, <3>4
    <3>8. Len(cs') = L + 1 /\ cs'[L+1] = r /\ \A i \in 1 .. L : cs'[i] = cs[i]
      BY <3>1, <3>3, <1>2
    <3>9. \A i \in 1 .. L + 1 : i = L + 1 \/ i \in 1 .. L
      BY <1>2
    <3>10. Agree(cs', nCcalls, baseCcalls, ci', errorJmp, errfunc)
      BY <3>5, <3>6, <3>7
    <3>11. Depth(cs', Len(cs')) = Depth(cs, L) /\ Len(cs') # 0 /\ cs'[Len(cs')].fn = "C"
      BY <3>1, <3>5, <3>8, <1>2
    <3>12. \A i \in 1 .. Len(cs') : cs'[i].th = t \/ (i \in 1 .. L /\ cs'[i] = cs[i])
      BY <3>1, <3>8, <3>9
    <3>. QED
      BY ONLY <3>10, <3>11, <3>12
  <2>. QED
    BY <2>1, <2>2, <2>3, <1>6 DEF Kinds
<1>8. RaisingOK'
  <2>1. cs' # << >> /\ cs'[Len(cs')].fn # "pcall"
    BY <1>7
  <2>2. Depth(cs', Len(cs')) < LUAI_MAXCCALLS + ErrorCalls /\ Depth(cs, L) \in Nat
    BY <1>2, <1>5, <1>7, DepthStep
  <2>3. Depth(cs', Len(cs')) <= LUAI_MAXCCALLS + ErrorCalls
    BY <2>2, <1>7, Types
  <2>. QED
    BY <2>1, <2>2, <2>3 DEF RaisingOK
<1>9. TypesOK'
  BY <1>1, <1>6, Types DEF TypesOK, Kinds, threads
<1>10. SharedOK'
  BY <1>1, <1>2, <1>6, SharedAppend
<1>11. StatusOK'
  <2>1. \A v \in Threads : status[v] = "yield" => ci'[v] = ci[v]
    BY <1>2, <1>6, Types
  <2>2. \A i \in 1 .. Len(cs') : \E k \in 1 .. Len(cs) : cs'[i].th = cs[k].th
    BY <1>2, <1>7
  <2>. QED
    BY <2>1, <2>2, <1>1, StatusKept DEF threads
<1>. QED
  BY <1>1, <1>6, <1>7, <1>8, <1>9, <1>10, <1>11 DEF LInv

--------------------------------------------------------------------------------
(* The steps that return *)

LEMMA FrontIs ==
  ASSUME NEW X, NEW s \in Seq(X), Len(s) # 0
  PROVE  /\ Front(s) \in Seq(X) /\ Len(Front(s)) = Len(s) - 1
         /\ \A i \in 1 .. Len(s) - 1 : Front(s)[i] = s[i]
         /\ Front(s) = SubSeq(s, 1, Len(s) - 1)
<1>. DEFINE n == Len(s) - 1
<1>1. n \in Nat /\ n <= Len(s) /\ \A i \in 1 .. n : i \in 1 .. Len(s)
  OBVIOUS
<1>. HIDE DEF n
<1>2. /\ SubSeq(s, 1, n) \in Seq(X) /\ Len(SubSeq(s, 1, n)) = n
      /\ \A i \in 1 .. n : SubSeq(s, 1, n)[i] = s[i]
  BY <1>1
<1>3. Front(s) = SubSeq(s, 1, n)
  BY DEF Front, n
<1>. QED
  BY <1>2, <1>3 DEF n

\* The call of a thread that is given up is the last one.
LEMMA LastCall ==
  ASSUME NEW x \in Seq(Kinds), NEW kind \in Kinds, NEW y, y = x \o << kind >>
  PROVE  y \in Seq(Kinds) /\ Front(y) = x /\ Len(y) = Len(x) + 1 /\ y[Len(y)] = kind
<1>1. y \in Seq(Kinds) /\ Len(y) = Len(x) + 1 /\ y[Len(y)] = kind /\ \A i \in 1 .. Len(x) : y[i] = x[i]
  OBVIOUS
<1>2. Front(y) \in Seq(Kinds) /\ Len(Front(y)) = Len(y) - 1
      /\ \A i \in 1 .. Len(y) - 1 : Front(y)[i] = y[i]
  <2>1. Len(y) # 0
    BY <1>1
  <2>. QED
    BY ONLY <1>1, <2>1, FrontIs
<1>3. Front(y) = x
  <2>1. Len(Front(y)) = Len(x) /\ \A i \in 1 .. Len(x) : Front(y)[i] = x[i]
    BY <1>1, <1>2
  <2>. QED
    BY <1>2, <2>1
<1>. QED
  BY <1>1, <1>3

\* A thread gives up its last call, and the variables shared with it.
LEMMA GivesUp ==
  ASSUME LuaDoAssumption, LInv, NEW t \in Threads, Len(ci[t]) # 0, luaD_poscall(t),
         \/ openupval' = openupval /\ ci[t][Len(ci[t])] = "C"
         \/ openupval' = [openupval EXCEPT ![t] = luaF_close(t, Len(ci[t]) - 1)]
  PROVE  /\ ci' \in [Threads -> Seq(Kinds)] /\ openupval' \in [Threads -> SUBSET Nat] /\ SharedOK'
         /\ size_ci' = size_ci => CallsBounded'
<1>0. /\ ci \in [Threads -> Seq(Kinds)] /\ openupval \in [Threads -> SUBSET Nat]
      /\ size_ci \in [Threads -> Nat]
      /\ \A v \in Threads : \A d \in openupval[v] : d \in 1 .. Len(ci[v]) /\ ci[v][d] = "Lua"
  BY Types DEF LInv, SharedOK
<1>1. ci[t] \in Seq(Kinds) /\ Len(ci[t]) \in Nat /\ ci' = [ci EXCEPT ![t] = Front(ci[t])]
  BY <1>0 DEF luaD_poscall
<1>2. /\ Front(ci[t]) \in Seq(Kinds) /\ Len(Front(ci[t])) = Len(ci[t]) - 1
      /\ \A i \in 1 .. Len(ci[t]) - 1 : Front(ci[t])[i] = ci[t][i]
  BY <1>1, FrontIs
<1>3. ci' \in [Threads -> Seq(Kinds)] /\ ci'[t] = Front(ci[t]) /\ \A v \in Threads \ {t} : ci'[v] = ci[v]
  BY <1>0, <1>1, <1>2
<1>4. /\ \A v \in Threads : openupval'[v] \subseteq openupval[v]
      /\ \A d \in openupval'[t] : d # Len(ci[t]) \/ ci[t][d] = "C"
  <2>1. CASE openupval' = openupval /\ ci[t][Len(ci[t])] = "C"
    BY <2>1
  <2>2. CASE openupval' = [openupval EXCEPT ![t] = luaF_close(t, Len(ci[t]) - 1)]
    <3>1. \A d \in luaF_close(t, Len(ci[t]) - 1) : d \in openupval[t] /\ d # Len(ci[t])
      BY <1>0, <1>1 DEF luaF_close
    <3>2. openupval'[t] = luaF_close(t, Len(ci[t]) - 1) /\ \A v \in Threads : v # t => openupval'[v] = openupval[v]
      BY <2>2, <1>0
    <3>. QED
      BY <3>1, <3>2
  <2>. QED
    BY <2>1, <2>2
<1>5. openupval' \in [Threads -> SUBSET Nat]
  <2>1. luaF_close(t, Len(ci[t]) - 1) \in SUBSET Nat
    BY <1>0 DEF luaF_close
  <2>. QED
    BY <2>1, <1>0
<1>6. SharedOK'
  <2>1. ASSUME NEW v \in Threads, NEW d \in openupval'[v]
        PROVE  d \in 1 .. Len(ci'[v]) /\ ci'[v][d] = ci[v][d]
    <3>0. d \in openupval[v] /\ (v = t => d # Len(ci[t]) \/ ci[t][d] = "C")
      <4>1. d \in openupval[v]
        BY ONLY <1>4, v \in Threads, d \in openupval'[v]
      <4>2. CASE v = t
        BY ONLY <1>4, <4>1, <4>2, v \in Threads, d \in openupval'[v]
      <4>. QED
        BY <4>1, <4>2
    <3>1. d \in 1 .. Len(ci[v]) /\ ci[v][d] = "Lua"
      BY ONLY <3>0, <1>0
    <3>2. CASE v # t
      BY <3>1, <3>2, <1>3
    <3>3. CASE v = t
      <4>1. d # Len(ci[t])
        BY <3>0, <3>1, <3>3
      <4>2. d \in 1 .. Len(ci[t]) - 1
        BY <3>1, <3>3, <4>1, <1>1
      <4>. QED
        BY <3>3, <4>2, <1>2, <1>3
    <3>. QED
      BY <3>2, <3>3
  <2>2. \A v \in Threads : /\ openupval'[v] \subseteq openupval[v]
                         /\ \A d \in openupval'[v] : d \in 1 .. Len(ci'[v]) /\ ci'[v][d] = ci[v][d]
    BY ONLY <2>1, <1>4
  <2>. QED
    BY <2>2, SharedKept
<1>7. size_ci' = size_ci => CallsBounded'
  <2>1. \A v \in Threads : Len(ci'[v]) <= Len(ci[v]) /\ Len(ci[v]) \in Nat /\ Len(ci'[v]) \in Nat
    BY <1>0, <1>1, <1>2, <1>3
  <2>. QED
    BY <2>1, <1>0 DEF LInv, CallsBounded
<1>. QED
  BY <1>3, <1>5, <1>6, <1>7

LEMMA CFunctionReturn ==
  ASSUME LuaDoAssumption, LInv, CFunctionReturns
  PROVE  LInv'
<1>. DEFINE t == Running
            L == Len(cs)
            x == CallsOf(cs, t, L - 1)
<1>1. cs # << >> /\ Last(cs).fn = "C" /\ raising = "none" /\ luaD_poscall(t)
      /\ UNCHANGED << size_ci, nCcalls, baseCcalls, errorJmp, errfunc, threads, openupval, raising >>
      /\ cs' = SubSeq(cs, 1, L - 1)
  BY DEF CFunctionReturns, Top, Popped, Front
<1>2. /\ cs \in Seq(Record) /\ L \in Nat /\ L \in 1 .. L /\ t \in Threads
      /\ cs[L] \in Record /\ cs[L].th = t /\ status[t] = "ok" /\ L # 0 /\ cs[L].fn = "C"
  BY <1>1, WhoRuns
<1>. HIDE DEF t
<1>3. /\ Agree(cs', [nCcalls EXCEPT ![t] = IF cs[L].fn = "call" THEN @ - 1 ELSE @], baseCcalls,
               [ci EXCEPT ![t] = x], errorJmp, errfunc)
      /\ x \in Seq(Kinds) /\ ci[t] = x \o Frames(cs[L])
      /\ L - 1 \in 1 .. L
      /\ Depth(cs', L - 1) = Depth(cs, L - 1)
      /\ Depth(cs, L) = Depth(cs, L - 1) + IF cs[L].fn = "call" THEN 1 ELSE 0
  <2>1. /\ main \notin Coroutines /\ Agree(cs, nCcalls, baseCcalls, ci, errorJmp, errfunc) /\ Len(cs) # 0
        /\ nCcalls \in [Threads -> Nat] /\ ci \in [Threads -> Seq(Kinds)] /\ errfunc \in [Threads -> Nat]
        /\ cs[Len(cs)].fn \in {"call", "execute", "C"} /\ cs[Len(cs)].th = t
    BY <1>2, Types DEF LInv
  <2>. QED
    BY <2>1, <1>1, PopPlain
<1>4. ci[t] = x \o << "C" >>
  BY <1>2, <1>3, FramesType
<1>5. Front(ci[t]) = x /\ Len(ci[t]) # 0 /\ ci[t][Len(ci[t])] = "C"
  <2>1. "C" \in Kinds
    BY DEF Kinds
  <2>2. Front(ci[t]) = x /\ Len(ci[t]) = Len(x) + 1 /\ ci[t][Len(ci[t])] = "C"
    <3>1. x \in Seq(Kinds)
      BY <1>3
    <3>. HIDE DEF x
    <3>. QED
      BY ONLY <3>1, <2>1, <1>4, LastCall
  <2>3. Len(x) \in Nat
    BY <1>3
  <2>. QED
    BY <2>2, <2>3
<1>6. Agree(cs', nCcalls, baseCcalls, ci', errorJmp, errfunc)
  <2>1. [nCcalls EXCEPT ![t] = IF cs[L].fn = "call" THEN @ - 1 ELSE @] = nCcalls
    BY <1>2, Types
  <2>2. [ci EXCEPT ![t] = x] = ci'
    BY <1>1, <1>5 DEF luaD_poscall
  <2>. QED
    BY <2>1, <2>2, <1>3
<1>7. /\ ci' \in [Threads -> Seq(Kinds)] /\ openupval' \in [Threads -> SUBSET Nat] /\ SharedOK'
      /\ CallsBounded'
  BY <1>1, <1>2, <1>5, GivesUp
<1>8. Len(cs') = L - 1 /\ \A i \in 1 .. L - 1 : cs'[i] = cs[i] /\ i \in 1 .. L
  BY <1>1, <1>2, <1>3
<1>9. RaisingOK'
  <2>1. Depth(cs', Len(cs')) < LUAI_MAXCCALLS + ErrorCalls /\ Depth(cs, L - 1) \in Nat
    BY <1>1, <1>2, <1>3, <1>8, Types, DepthStep
  <2>. QED
    BY <2>1, <1>1, <1>3, <1>8, Types DEF RaisingOK
<1>10. TypesOK'
  BY <1>1, <1>7, Types DEF TypesOK, Kinds, threads
<1>11. StatusOK'
  <2>1. \A v \in Threads : status[v] = "yield" => ci'[v] = ci[v]
    BY <1>1, <1>2, Types DEF luaD_poscall
  <2>. QED
    BY <2>1, <1>1, <1>8, StatusKept DEF threads
<1>. QED
  BY <1>1, <1>6, <1>7, <1>9, <1>10, <1>11 DEF LInv

LEMMA CallReturn ==
  ASSUME LuaDoAssumption, LInv, CallReturns
  PROVE  LInv'
<1>. DEFINE t == Running
            L == Len(cs)
            x == CallsOf(cs, t, L - 1)
<1>1. cs # << >> /\ Last(cs).fn = "call" /\ raising = "none"
      /\ UNCHANGED << ci, size_ci, baseCcalls, errorJmp, errfunc, threads, openupval >>
      /\ cs' = SubSeq(cs, 1, L - 1) /\ nCcalls' = [nCcalls EXCEPT ![t] = @ - 1]
      /\ raising' = IF Last(cs).then = "throw" THEN "throw" ELSE "none"
  BY DEF CallReturns, Top, Popped, Front
<1>2. /\ cs \in Seq(Record) /\ L \in Nat /\ L \in 1 .. L /\ t \in Threads
      /\ cs[L] \in Record /\ cs[L].th = t /\ status[t] = "ok" /\ L # 0 /\ cs[L].fn = "call"
      /\ Last(cs) = cs[L]
  BY <1>1, WhoRuns
<1>. HIDE DEF t
<1>3. /\ Agree(cs', [nCcalls EXCEPT ![t] = IF cs[L].fn = "call" THEN @ - 1 ELSE @], baseCcalls,
               [ci EXCEPT ![t] = x], errorJmp, errfunc)
      /\ x \in Seq(Kinds) /\ ci[t] = x \o Frames(cs[L]) /\ nCcalls[t] = Depth(cs, L)
      /\ L - 1 \in 1 .. L /\ Above(cs[L-1], cs[L])
      /\ Depth(cs', L - 1) = Depth(cs, L - 1)
      /\ Depth(cs, L) = Depth(cs, L - 1) + IF cs[L].fn = "call" THEN 1 ELSE 0
  <2>1. /\ main \notin Coroutines /\ Agree(cs, nCcalls, baseCcalls, ci, errorJmp, errfunc) /\ Len(cs) # 0
        /\ nCcalls \in [Threads -> Nat] /\ ci \in [Threads -> Seq(Kinds)] /\ errfunc \in [Threads -> Nat]
        /\ cs[Len(cs)].fn \in {"call", "execute", "C"} /\ cs[Len(cs)].th = t
    BY <1>2, Types DEF LInv
  <2>. QED
    BY <2>1, <1>1, PopPlain
<1>4. ci[t] = x
  <2>1. Frames(cs[L]) = << >>
    BY <1>2, FramesType
  <2>. QED
    BY <2>1, <1>3
<1>5. Agree(cs', nCcalls', baseCcalls, ci, errorJmp, errfunc)
  <2>1. [nCcalls EXCEPT ![t] = IF cs[L].fn = "call" THEN @ - 1 ELSE @] = nCcalls'
    BY <1>1, <1>2, Types
  <2>2. [ci EXCEPT ![t] = x] = ci
    BY <1>4, Types
  <2>. QED
    BY <2>1, <2>2, <1>3
<1>6. Depth(cs, L - 1) \in Nat /\ nCcalls[t] - 1 = Depth(cs, L - 1)
  BY <1>2, <1>3, DepthStep
<1>7. Len(cs') = L - 1 /\ \A i \in 1 .. L - 1 : cs'[i] = cs[i] /\ i \in 1 .. L
  BY <1>1, <1>2, <1>3
<1>8. RaisingOK'
  <2>1. Depth(cs', Len(cs')) < LUAI_MAXCCALLS + ErrorCalls
    BY <1>1, <1>2, <1>3, <1>6, <1>7, Types
  <2>2. cs[L].then = "throw" => cs[L-1].fn # "pcall"
    BY <1>2, <1>3 DEF Above
  <2>3. cs' # << >> /\ cs'[Len(cs')] = cs[L-1]
    BY <1>2, <1>3, <1>7
  <2>4. raising' # "none" => cs'[Len(cs')].fn # "pcall"
    BY <2>2, <2>3, <1>1, <1>2
  <2>5. Depth(cs', Len(cs')) <= LUAI_MAXCCALLS + ErrorCalls
    <3>1. Depth(cs', Len(cs')) \in Nat /\ LUAI_MAXCCALLS + ErrorCalls \in Nat
      BY <1>2, <1>3, <1>6, <1>7, Types, SMTT(30)
    <3>. QED
      BY ONLY <2>1, <3>1
  <2>. QED
    BY ONLY <2>1, <2>3, <2>4, <2>5 DEF RaisingOK
<1>9. TypesOK'
  <2>1. nCcalls' \in [Threads -> Nat]
    BY <1>1, <1>6, Types
  <2>. QED
    BY <2>1, <1>1, Types DEF TypesOK, Kinds, threads
<1>10. StatusOK'
  BY <1>1, <1>7, StatusKept DEF threads
<1>11. SharedOK' /\ CallsBounded'
  BY <1>1 DEF LInv, SharedOK, CallsBounded
<1>. QED
  BY <1>1, <1>5, <1>8, <1>9, <1>10, <1>11 DEF LInv

LEMMA ReturnInstruction ==
  ASSUME LuaDoAssumption, LInv, OP_RETURN
  PROVE  LInv'
<1>. DEFINE t == Running
            L == Len(cs)
            n == cs[L].nexeccalls
            x == CallsOf(cs, t, L - 1)
<1>1. cs # << >> /\ Last(cs).fn = "execute" /\ raising = "none" /\ luaD_poscall(t)
      /\ UNCHANGED << size_ci, nCcalls, baseCcalls, errorJmp, errfunc, threads, raising >>
      /\ openupval' = [openupval EXCEPT ![t] = luaF_close(t, Len(ci[t]) - 1)]
      /\ Popped = SubSeq(cs, 1, L - 1)
  BY DEF OP_RETURN, Top, Popped, Front
<1>2. /\ cs \in Seq(Record) /\ L \in Nat /\ L \in 1 .. L /\ t \in Threads /\ Last(cs) = cs[L]
      /\ cs[L] \in Record /\ cs[L].th = t /\ status[t] = "ok" /\ L # 0 /\ cs[L].fn = "execute"
  BY <1>1, WhoRuns
<1>3. n \in Nat \ {0} /\ Frames(cs[L]) = LuaFrames(n)
  BY <1>2, RecordFields, FramesType DEF LuaFrames
<1>4. cs' = IF n = 1 THEN SubSeq(cs, 1, L - 1) ELSE Append(SubSeq(cs, 1, L - 1), Execute(t, n - 1))
  BY <1>1, <1>2 DEF OP_RETURN
<1>5. /\ main \notin Coroutines /\ Agree(cs, nCcalls, baseCcalls, ci, errorJmp, errfunc) /\ Len(cs) # 0
      /\ nCcalls \in [Threads -> Nat] /\ ci \in [Threads -> Seq(Kinds)] /\ errfunc \in [Threads -> Nat]
      /\ cs[Len(cs)].fn = "execute" /\ cs[Len(cs)].fn \in {"call", "execute", "C"} /\ cs[Len(cs)].th = t
      /\ Depth(cs, L) < LUAI_MAXCCALLS + ErrorCalls
  BY <1>1, <1>2, Types DEF LInv
<1>. HIDE DEF t
<1>6. /\ Agree(SubSeq(cs, 1, L - 1), [nCcalls EXCEPT ![t] = IF cs[L].fn = "call" THEN @ - 1 ELSE @],
               baseCcalls, [ci EXCEPT ![t] = x], errorJmp, errfunc)
      /\ x \in Seq(Kinds) /\ ci[t] = x \o LuaFrames(n)
      /\ L - 1 \in 1 .. L
      /\ Depth(SubSeq(cs, 1, L - 1), L - 1) = Depth(cs, L - 1)
      /\ Depth(cs, L) = Depth(cs, L - 1) + IF cs[L].fn = "call" THEN 1 ELSE 0
  BY <1>3, <1>5, PopPlain
<1>7. Front(ci[t]) = x \o LuaFrames(n - 1) /\ Len(ci[t]) # 0
  <2>1. n - 1 \in Nat /\ (n - 1) + 1 = n /\ x \in Seq(Kinds)
    BY <1>3, <1>6
  <2>. HIDE DEF x, n
  <2>2. /\ Front(x \o LuaFrames((n - 1) + 1)) = x \o LuaFrames(n - 1)
        /\ Len(x \o LuaFrames((n - 1) + 1)) = Len(x) + (n - 1) + 1
    BY ONLY <2>1, LuaCalls
  <2>. QED
    BY <2>1, <2>2, <1>6, SMTT(30)
<1>8. ci' = [ci EXCEPT ![t] = x \o LuaFrames(n - 1)]
  BY <1>1, <1>7 DEF luaD_poscall
<1>9. /\ Agree(cs', nCcalls, baseCcalls, ci', errorJmp, errfunc)
      /\ Depth(cs', Len(cs')) = Depth(cs, L)
      /\ \A i \in 1 .. Len(cs') : cs'[i].th = t \/ (i \in 1 .. L /\ cs'[i] = cs[i])
  <2>1. CASE n = 1
    <3>1. [nCcalls EXCEPT ![t] = IF cs[L].fn = "call" THEN @ - 1 ELSE @] = nCcalls
      BY <1>2, <1>5
    <3>2. x \o LuaFrames(0) = x
      BY <1>6, LuaCalls
    <3>3. cs' = SubSeq(cs, 1, L - 1) /\ ci' = [ci EXCEPT ![t] = x]
      <4>1. n - 1 = 0
        BY <2>1
      <4>2. LuaFrames(n - 1) = LuaFrames(0)
        BY ONLY <4>1
      <4>. HIDE DEF n, x
      <4>. QED
        BY <4>2, <2>1, <3>2, <1>4, <1>8
    <3>4. Len(cs') = L - 1 /\ \A i \in 1 .. L - 1 : cs'[i] = cs[i] /\ i \in 1 .. L
      BY <3>3, <1>2, <1>6
    <3>5. Depth(cs, L - 1) \in Nat
      BY <1>2, <1>6, DepthStep
    <3>6. Agree(cs', nCcalls, baseCcalls, ci', errorJmp, errfunc)
      BY <3>1, <3>3, <1>6
    <3>7. Depth(cs', Len(cs')) = Depth(cs, L)
      BY <3>1, <3>3, <3>4, <3>5, <1>2, <1>6
    <3>. QED
      BY ONLY <3>4, <3>6, <3>7, <2>1
  <2>2. CASE n # 1
    <3>1. n - 1 \in Nat \ {0}
      BY <2>2, <1>3
    <3>2. GoesOn(cs, nCcalls, baseCcalls, ci, errorJmp, errfunc, t, n - 1)
      BY ONLY <3>1, <1>5, ReplaceExecute
    <3>3. cs' = Append(SubSeq(cs, 1, L - 1), Execute(t, n - 1))
      BY <2>2, <1>4
    <3>4. /\ Agree(cs', nCcalls, baseCcalls, ci', errorJmp, errfunc) /\ Depth(cs', L) = Depth(cs, L)
          /\ Len(cs') = L /\ cs'[L] = Execute(t, n - 1) /\ \A i \in 1 .. L - 1 : cs'[i] = cs[i]
      BY <3>2, <3>3, <1>8 DEF GoesOn
    <3>5. \A i \in 1 .. L : i = L \/ i \in 1 .. L - 1
      BY <1>2
    <3>. QED
      BY <3>4, <3>5 DEF Execute
  <2>. QED
    BY <2>1, <2>2
<1>10. /\ ci' \in [Threads -> Seq(Kinds)] /\ openupval' \in [Threads -> SUBSET Nat] /\ SharedOK'
       /\ CallsBounded'
  BY <1>1, <1>2, <1>7, GivesUp
<1>11. RaisingOK'
  <2>1. Depth(cs, L) \in Nat
    BY <1>2, DepthStep
  <2>. QED
    BY <2>1, <1>1, <1>5, <1>9, Types DEF RaisingOK
<1>12. TypesOK'
  BY <1>1, <1>10, Types DEF TypesOK, Kinds, threads
<1>13. StatusOK'
  <2>1. \A v \in Threads : status[v] = "yield" => ci'[v] = ci[v]
    BY <1>2, <1>5, <1>8
  <2>2. \A i \in 1 .. Len(cs') : \E k \in 1 .. Len(cs) : cs'[i].th = cs[k].th
    BY <1>2, <1>9
  <2>. QED
    BY <2>1, <2>2, <1>1, StatusKept DEF threads
<1>. QED
  BY <1>1, <1>9, <1>10, <1>11, <1>12, <1>13 DEF LInv

--------------------------------------------------------------------------------
(* The steps that leave the C stack alone *)

LEMMA SharesVariable ==
  ASSUME LuaDoAssumption, LInv, OP_CLOSURE
  PROVE  LInv'
<1>. DEFINE t == Running
            L == Len(cs)
<1>1. cs # << >> /\ Last(cs).fn = "execute"
      /\ UNCHANGED << cs, ci, size_ci, nCcalls, baseCcalls, errorJmp, errfunc, threads, raising >>
      /\ openupval' = [openupval EXCEPT ![t] = @ \cup {Len(ci[t])}]
  BY DEF OP_CLOSURE, Top
<1>2. /\ cs \in Seq(Record) /\ L \in Nat /\ L \in 1 .. L /\ t \in Threads /\ Last(cs) = cs[L]
      /\ cs[L] \in Record /\ cs[L].th = t /\ ci[t] = CallsOf(cs, t, L) /\ cs[L].fn = "execute"
  BY <1>1, WhoRuns
<1>. HIDE DEF t
<1>3. Len(ci[t]) \in 1 .. Len(ci[t]) /\ ci[t][Len(ci[t])] = "Lua" /\ Len(ci[t]) \in Nat
  <2>. DEFINE x == CallsOf(cs, t, L - 1)
              n == cs[L].nexeccalls
  <2>0. n \in Nat \ {0} /\ Frames(cs[L]) = LuaFrames(n)
    BY <1>2, RecordFields, FramesType DEF LuaFrames
  <2>1. n - 1 \in Nat /\ (n - 1) + 1 = n /\ Frames(cs[L]) = LuaFrames(n)
    BY <2>0
  <2>2. x \in Seq(Kinds) /\ ci[t] = x \o LuaFrames(n)
    <3>1. L \in 1 .. Len(cs) /\ L - 1 \in 0 .. Len(cs)
      BY <1>2
    <3>2. /\ \A k \in 0 .. Len(cs) : CallsOf(cs, t, k) \in Seq(Kinds)
          /\ \A k \in 1 .. Len(cs) :
               CallsOf(cs, t, k) = CallsOf(cs, t, k - 1) \o (IF cs[k].th = t THEN Frames(cs[k]) ELSE << >>)
      BY ONLY <1>2, CallsStep
    <3>. QED
      BY <3>1, <3>2, <2>1, <1>2
  <2>. HIDE DEF x, n
  <2>3. /\ Len(x \o LuaFrames((n - 1) + 1)) = Len(x) + (n - 1) + 1
        /\ (x \o LuaFrames((n - 1) + 1))[Len(x) + (n - 1) + 1] = "Lua"
    BY ONLY <2>1, <2>2, LuaCalls
  <2>4. Len(x) \in Nat
    BY <2>2
  <2>. QED
    BY <2>1, <2>2, <2>3, <2>4, SMTT(30)
<1>4. openupval' \in [Threads -> SUBSET Nat]
  BY <1>1, <1>2, <1>3, Types
<1>5. SharedOK'
  <2>1. \A v \in Threads : openupval'[v] = IF v = t THEN openupval[v] \cup {Len(ci[t])} ELSE openupval[v]
    BY <1>1, Types
  <2>. QED
    BY <2>1, <1>1, <1>3 DEF LInv, SharedOK
<1>6. TypesOK' /\ CallsBounded' /\ RaisingOK' /\ StatusOK'
  BY <1>1, <1>4 DEF LInv, TypesOK, CallsBounded, RaisingOK, StatusOK, threads
<1>. QED
  BY <1>1, <1>5, <1>6 DEF LInv

LEMMA RaisesError ==
  ASSUME LuaDoAssumption, LInv, Error
  PROVE  LInv'
<1>1. cs # << >> /\ Last(cs).fn \in {"C", "execute"} /\ raising = "none" /\ raising' = "errormsg"
      /\ UNCHANGED << cs, ci, size_ci, nCcalls, baseCcalls, errorJmp, errfunc, threads, openupval >>
  BY DEF Error, Top
<1>2. cs[Len(cs)].fn # "pcall"
  BY <1>1, WhoRuns
<1>3. RaisingOK'
  BY <1>1, <1>2 DEF LInv, RaisingOK
<1>4. TypesOK' /\ CallsBounded' /\ SharedOK' /\ StatusOK'
  BY <1>1 DEF LInv, TypesOK, CallsBounded, SharedOK, StatusOK, threads
<1>. QED
  BY <1>1, <1>3, <1>4 DEF LInv

LEMMA CreatesCoroutine ==
  ASSUME LuaDoAssumption, LInv, NEW co \in Coroutines, luaB_cocreate(co)
  PROVE  LInv'
<1>1. /\ status[co] = "none" /\ status' = [status EXCEPT ![co] = "ok"]
      /\ started' = [started EXCEPT ![co] = FALSE]
      /\ UNCHANGED << cs, ci, size_ci, nCcalls, baseCcalls, errorJmp, errfunc, openupval, raising >>
  BY DEF luaB_cocreate
<1>2. co \in Threads /\ co # main /\ main \in Threads
  BY Types DEF Threads
<1>3. \A v \in Threads : v # co => status'[v] = status[v] /\ started'[v] = started[v]
  BY <1>1, Types
<1>4. StatusOK'
  <2>1. \A i \in 1 .. Len(cs) : cs[i].th \in Threads /\ cs[i].th # co
    <3>1. \A i \in 1 .. Len(cs) : cs[i] \in Record
      BY DEF LInv, Agree, StackOK
    <3>. QED
      BY <3>1, <1>1, RecordFields DEF LInv, StatusOK
  <2>2. status'[co] = "ok"
    BY <1>1, <1>2, Types
  <2>. QED
    BY <2>1, <2>2, <1>1, <1>2, <1>3 DEF LInv, StatusOK
<1>5. TypesOK'
  BY <1>1, <1>2, Types DEF TypesOK, Kinds
<1>6. CallsBounded' /\ SharedOK' /\ RaisingOK'
  BY <1>1 DEF LInv, CallsBounded, SharedOK, RaisingOK
<1>. QED
  BY <1>1, <1>4, <1>5, <1>6 DEF LInv

LEMMA FreesCoroutine ==
  ASSUME LuaDoAssumption, LInv, NEW co \in Coroutines, luaE_freethread(co)
  PROVE  LInv'
<1>1. /\ \A i \in DOMAIN cs : cs[i].th # co
      /\ status' = [status EXCEPT ![co] = "none"] /\ started' = [started EXCEPT ![co] = FALSE]
      /\ ci' = [ci EXCEPT ![co] = << >>] /\ size_ci' = [size_ci EXCEPT ![co] = BASIC_CI_SIZE]
      /\ nCcalls' = [nCcalls EXCEPT ![co] = 0] /\ baseCcalls' = [baseCcalls EXCEPT ![co] = 0]
      /\ openupval' = [openupval EXCEPT ![co] = {}]
      /\ UNCHANGED << cs, errorJmp, errfunc, raising >>
  BY DEF luaE_freethread
<1>2. co \in Threads /\ co # main /\ main \in Threads
  BY Types DEF Threads
<1>3. /\ \A v \in Threads : v # co => /\ status'[v] = status[v] /\ started'[v] = started[v] /\ ci'[v] = ci[v]
                                    /\ size_ci'[v] = size_ci[v] /\ nCcalls'[v] = nCcalls[v]
                                    /\ baseCcalls'[v] = baseCcalls[v] /\ openupval'[v] = openupval[v]
      /\ status'[co] = "none" /\ ci'[co] = << >> /\ size_ci'[co] = BASIC_CI_SIZE /\ openupval'[co] = {}
  BY <1>1, <1>2, Types
<1>4. cs \in Seq(Record) /\ \A i \in 1 .. Len(cs) : cs[i].th \in Threads /\ cs[i].th # co
  <2>1. cs \in Seq(Record)
    BY DEF LInv, Agree, StackOK
  <2>2. \A i \in 1 .. Len(cs) : cs[i] \in Record
    BY <2>1
  <2>. QED
    BY <2>1, <2>2, <1>1, RecordFields
<1>5. Agree(cs, nCcalls', baseCcalls', ci', errorJmp, errfunc)
  <2>1. CountOK(cs, nCcalls')
    BY <1>2, <1>3, <1>4 DEF LInv, Agree, CountOK
  <2>2. BaseOK(cs, baseCcalls')
    BY <1>2, <1>3, <1>4 DEF LInv, Agree, BaseOK
  <2>3. FramesOK(cs, ci')
    BY <1>2, <1>3, <1>4 DEF LInv, Agree, FramesOK
  <2>. QED
    BY <2>1, <2>2, <2>3 DEF LInv, Agree
<1>6. StatusOK'
  BY <1>1, <1>2, <1>3, <1>4 DEF LInv, StatusOK
<1>7. SharedOK'
  BY <1>3 DEF LInv, SharedOK
<1>8. CallsBounded'
  <2>1. Len(<< >>) = 0 /\ BASIC_CI_SIZE \in Nat /\ 0 < BASIC_CI_SIZE /\ BASIC_CI_SIZE <= 2 * LUAI_MAXCALLS
    BY DEF LuaDoAssumption
  <2>. QED
    BY <2>1, <1>3 DEF LInv, CallsBounded
<1>9. TypesOK'
  <2>1. << >> \in Seq(Kinds) /\ BASIC_CI_SIZE \in Nat
    BY DEF LuaDoAssumption
  <2>2. ci' \in [Threads -> Seq(Kinds)]
    BY <2>1, <1>1, Types
  <2>3. size_ci' \in [Threads -> Nat] /\ nCcalls' \in [Threads -> Nat] /\ baseCcalls' \in [Threads -> Nat]
    BY <2>1, <1>1, Types
  <2>4. /\ status' \in [Threads -> {"none", "ok", "yield", "error"}] /\ started' \in [Threads -> BOOLEAN]
        /\ openupval' \in [Threads -> SUBSET Nat]
    BY <1>1, Types
  <2>. QED
    BY <2>2, <2>3, <2>4, <1>1, Types DEF TypesOK, Kinds
<1>. QED
  BY <1>1, <1>5, <1>6, <1>7, <1>8, <1>9 DEF LInv, RaisingOK

--------------------------------------------------------------------------------
(* The steps that leave an activation which catches errors *)

\* A record that counts is counted by those above.
LEMMA DepthMore ==
  ASSUME NEW s, NEW k \in Nat, NEW m \in Nat, NEW n \in Nat, k < m, m <= n,
         s[m].fn \in {"call", "resume"}
  PROVE  Depth(s, k) + 1 <= Depth(s, n)
<1>1. m - 1 \in Nat /\ k <= m - 1 /\ (m - 1) + 1 = m
  OBVIOUS
<1>2. /\ Depth(s, m - 1) \in Nat
      /\ Depth(s, (m - 1) + 1) = Depth(s, m - 1) + IF s[(m-1)+1].fn \in {"call", "resume"} THEN 1 ELSE 0
  BY ONLY <1>1, DepthStep
<1>3. Depth(s, k) <= Depth(s, m - 1) /\ Depth(s, m) <= Depth(s, n)
  BY <1>1, DepthMonotone
<1>4. Depth(s, k) \in Nat /\ Depth(s, n) \in Nat
  BY DepthStep
<1>. QED
  BY <1>1, <1>2, <1>3, <1>4

\* The activation that catches the errors of the thread that runs.
LEMMA Catches ==
  ASSUME LInv, cs # << >>, NEW t, t = Running, NEW j, j = errorJmp[t]
  PROVE  /\ j \in 1 .. Len(cs) /\ j - 1 \in 0 .. Len(cs) - 1 /\ (j - 1) + 1 = j /\ j - 1 \in Nat
         /\ cs[j] \in Record /\ RecordOK(cs, j) /\ cs[j].fn \in {"pcall", "resume"}
         /\ \A k \in j .. Len(cs) : cs[k].th = t
         /\ \A k \in j + 1 .. Len(cs) : cs[k].fn \notin {"pcall", "resume"}
<1>1. /\ cs \in Seq(Record) /\ Len(cs) \in Nat /\ Len(cs) \in 1 .. Len(cs) /\ cs[Len(cs)].th = t
      /\ j = LastOf(Catchers(cs, t, Len(cs))) /\ StackOK(cs)
  BY WhoRuns DEF LInv, Agree
<1>2. Len(cs) # 0 /\ t = cs[Len(cs)].th
  BY <1>1
<1>3. /\ j \in 1 .. Len(cs) /\ cs[j].fn \in {"pcall", "resume"}
      /\ \A k \in j .. Len(cs) : cs[k].th = t
      /\ \A k \in j + 1 .. Len(cs) : cs[k].fn \notin {"pcall", "resume"}
  BY ONLY <1>1, <1>2, TopCatcher
<1>4. j - 1 \in 0 .. Len(cs) - 1 /\ (j - 1) + 1 = j /\ j - 1 \in Nat
  BY <1>1, <1>3
<1>5. cs[j] \in Record /\ RecordOK(cs, j)
  BY <1>1, <1>3 DEF StackOK
<1>. QED
  BY <1>3, <1>4, <1>5

\* An activation that catches errors is left with all above it, by its return,
\* by an error or by a yield, and its thread gets back what it kept.
Leaves(t, j, r) ==
  /\ t = Running /\ j = errorJmp[t] /\ r = cs[j] /\ cs # << >>
  /\ cs' = SubSeq(cs, 1, j - 1) /\ errorJmp' = [errorJmp EXCEPT ![t] = r.previous]
  /\ baseCcalls' = baseCcalls
  /\ \/ /\ r.fn = "pcall" /\ nCcalls' = [nCcalls EXCEPT ![t] = r.nCcalls]
        /\ ci' = [ci EXCEPT ![t] = SubSeq(ci[t], 1, r.ci)] /\ errfunc' = [errfunc EXCEPT ![t] = r.errfunc]
     \/ /\ r.fn = "resume" /\ nCcalls' = [nCcalls EXCEPT ![t] = nCcalls[t] - 1]
        /\ ci' = ci /\ errfunc' = errfunc

Left(t, j, r) ==
  /\ Agree(cs', nCcalls', baseCcalls', ci', errorJmp', errfunc')
  /\ nCcalls' \in [Threads -> Nat] /\ ci' \in [Threads -> Seq(Kinds)]
  /\ errorJmp' \in [Threads -> Nat] /\ errfunc' \in [Threads -> Nat]
  /\ Len(cs') = j - 1 /\ (\A i \in 1 .. j - 1 : cs'[i] = cs[i] /\ i \in 1 .. Len(cs))
  /\ Depth(cs', Len(cs')) = Depth(cs, j - 1)
  /\ r.fn = "pcall" => /\ r.ci \in Nat /\ r.ci <= Len(ci[t]) /\ Len(ci'[t]) = r.ci
                       /\ \A i \in 1 .. r.ci : ci'[t][i] = ci[t][i]
                       /\ ci[t] \in Seq(Kinds)
                       /\ \E x \in Seq(Kinds) : ci[t] = CallsOf(cs, t, j - 1) \o x
                       /\ ci'[t] = CallsOf(cs, t, j - 1)

LEMMA Lands ==
  ASSUME LuaDoAssumption, LInv, NEW t, NEW j, NEW r, Leaves(t, j, r)
  PROVE  Left(t, j, r)
<1>0. /\ t = Running /\ j = errorJmp[t] /\ r = cs[j] /\ cs # << >>
      /\ cs' = SubSeq(cs, 1, j - 1) /\ errorJmp' = [errorJmp EXCEPT ![t] = r.previous]
      /\ baseCcalls' = baseCcalls
      /\ \/ /\ r.fn = "pcall" /\ nCcalls' = [nCcalls EXCEPT ![t] = r.nCcalls]
            /\ ci' = [ci EXCEPT ![t] = SubSeq(ci[t], 1, r.ci)] /\ errfunc' = [errfunc EXCEPT ![t] = r.errfunc]
         \/ /\ r.fn = "resume" /\ nCcalls' = [nCcalls EXCEPT ![t] = nCcalls[t] - 1]
            /\ ci' = ci /\ errfunc' = errfunc
  BY DEF Leaves
<1>. DEFINE L == Len(cs)
            m == j - 1
<1>1. /\ cs \in Seq(Record) /\ L \in Nat /\ t \in Threads /\ L # 0
      /\ nCcalls[t] = Depth(cs, L) /\ ci[t] = CallsOf(cs, t, L)
      /\ Agree(cs, nCcalls, baseCcalls, ci, errorJmp, errfunc)
  BY <1>0, WhoRuns DEF LInv
<1>2. /\ j \in 1 .. L /\ m \in 0 .. L - 1 /\ m + 1 = j /\ m \in Nat
      /\ r \in Record /\ RecordOK(cs, j) /\ r.fn \in {"pcall", "resume"} /\ r.th = t
      /\ \A k \in j .. L : cs[k].th = t
      /\ \A k \in j + 1 .. L : cs[k].fn \notin {"pcall", "resume"}
  <2>1. /\ j \in 1 .. Len(cs) /\ j - 1 \in 0 .. Len(cs) - 1 /\ (j - 1) + 1 = j /\ j - 1 \in Nat
        /\ cs[j] \in Record /\ RecordOK(cs, j) /\ cs[j].fn \in {"pcall", "resume"}
        /\ \A k \in j .. Len(cs) : cs[k].th = t
        /\ \A k \in j + 1 .. Len(cs) : cs[k].fn \notin {"pcall", "resume"}
    BY <1>0, Catches
  <2>2. j \in j .. Len(cs)
    BY <2>1, <1>1
  <2>. QED
    BY <1>0, <2>1, <2>2
<1>3. /\ r.previous = LastOf(Catchers(cs, t, m)) /\ r.previous \in Nat
      /\ r.fn = "pcall" => /\ r.nCcalls = Depth(cs, m) /\ r.ci = Len(CallsOf(cs, t, m)) /\ r.ci \in Nat
                           /\ Handler(cs, t, r.errfunc, m) /\ r.errfunc \in Nat /\ r.nCcalls \in Nat
      /\ r.fn = "resume" => \A k \in 1 .. m : cs[k].th # t
  BY <1>0, <1>2, RecordFields DEF RecordOK
<1>4. r.fn = "resume" => errfunc[t] = 0
  <2>. SUFFICES ASSUME r.fn = "resume", errfunc[t] # 0 PROVE FALSE
    OBVIOUS
  <2>1. PICK k \in 1 .. L : cs[k].fn = "pcall" /\ cs[k].th = t
    BY <1>1 DEF Agree, HandlerOK, Handler
  <2>2. k \in 1 .. m \/ k = j \/ k \in j + 1 .. L
    BY <1>1, <1>2
  <2>. QED
    BY <1>0, <2>1, <2>2, <1>2, <1>3
<1>. HIDE DEF m
<1>5. r.fn = "pcall" => /\ \E x \in Seq(Kinds) : ci[t] = CallsOf(cs, t, m) \o x
                       /\ SubSeq(ci[t], 1, r.ci) = CallsOf(cs, t, m)
                       /\ CallsOf(cs, t, m) \in Seq(Kinds) /\ r.ci <= Len(ci[t])
                       /\ \A i \in 1 .. r.ci : CallsOf(cs, t, m)[i] = ci[t][i]
  <2>. SUFFICES ASSUME r.fn = "pcall"
                PROVE  /\ \E x \in Seq(Kinds) : ci[t] = CallsOf(cs, t, m) \o x
                       /\ SubSeq(ci[t], 1, r.ci) = CallsOf(cs, t, m)
                       /\ CallsOf(cs, t, m) \in Seq(Kinds) /\ r.ci <= Len(ci[t])
                       /\ \A i \in 1 .. r.ci : CallsOf(cs, t, m)[i] = ci[t][i]
    OBVIOUS
  <2>1. m \in 0 .. Len(cs) /\ L \in m .. Len(cs)
    BY <1>1, <1>2
  <2>2. PICK x \in Seq(Kinds) : CallsOf(cs, t, L) = CallsOf(cs, t, m) \o x
    BY ONLY <2>1, <1>1, CallsPrefix
  <2>3. CallsOf(cs, t, m) \in Seq(Kinds)
    BY ONLY <2>1, <1>1, CallsStep
  <2>. DEFINE y == CallsOf(cs, t, m)
  <2>4. ci[t] = y \o x /\ r.ci = Len(y)
    BY <2>2, <1>1, <1>3
  <2>. HIDE DEF y
  <2>5. /\ y \o x \in Seq(Kinds) /\ Len(y \o x) = Len(y) + Len(x) /\ Len(y) \in Nat /\ Len(x) \in Nat
        /\ \A i \in 1 .. Len(y) : (y \o x)[i] = y[i]
    BY <2>3 DEF y
  <2>6. SubSeq(y \o x, 1, Len(y)) = y
    <3>1. /\ SubSeq(y \o x, 1, Len(y)) \in Seq(Kinds) /\ Len(SubSeq(y \o x, 1, Len(y))) = Len(y)
          /\ \A i \in 1 .. Len(y) : SubSeq(y \o x, 1, Len(y))[i] = y[i]
      BY <2>5
    <3>2. y \in Seq(Kinds)
      BY <2>3 DEF y
    <3>. QED
      BY <3>1, <3>2
  <2>7. SubSeq(ci[t], 1, r.ci) = y /\ r.ci <= Len(ci[t]) /\ \A i \in 1 .. r.ci : y[i] = ci[t][i]
    <3>1. Len(y) <= Len(y) + Len(x)
      BY ONLY <2>5
    <3>. QED
      BY ONLY <3>1, <2>4, <2>5, <2>6
  <2>8. \E z \in Seq(Kinds) : ci[t] = y \o z
    BY ONLY <2>4, x \in Seq(Kinds)
  <2>. QED
    BY ONLY <2>3, <2>7, <2>8 DEF y
<1>6. nCcalls[t] \in Nat /\ (r.fn = "resume" => nCcalls[t] - 1 \in Nat)
  <2>1. r.fn = "resume" => Depth(cs, m) + 1 <= Depth(cs, L)
    <3>. SUFFICES ASSUME r.fn = "resume" PROVE Depth(cs, m) + 1 <= Depth(cs, L)
      OBVIOUS
    <3>1. m \in Nat /\ j \in Nat /\ L \in Nat /\ m < j /\ j <= L /\ cs[j].fn \in {"call", "resume"}
      BY <1>0, <1>1, <1>2
    <3>. QED
      BY ONLY <3>1, DepthMore
  <2>2. Depth(cs, m) \in Nat /\ Depth(cs, L) \in Nat
    BY <1>1, <1>2, DepthStep
  <2>. QED
    BY <2>1, <2>2, <1>1
<1>7. /\ nCcalls' \in [Threads -> Nat] /\ ci' \in [Threads -> Seq(Kinds)]
      /\ errorJmp' \in [Threads -> Nat] /\ errfunc' \in [Threads -> Nat]
      /\ \A v \in Threads : v # t => /\ nCcalls'[v] = nCcalls[v] /\ ci'[v] = ci[v]
                                   /\ errorJmp'[v] = errorJmp[v] /\ errfunc'[v] = errfunc[v]
      /\ errorJmp'[t] = r.previous
      /\ r.fn = "pcall" => nCcalls'[t] = r.nCcalls /\ ci'[t] = CallsOf(cs, t, m) /\ errfunc'[t] = r.errfunc
      /\ r.fn = "resume" => errfunc'[t] = 0
  <2>1. CASE r.fn = "pcall"
    <3>1. /\ nCcalls' = [nCcalls EXCEPT ![t] = r.nCcalls]
          /\ ci' = [ci EXCEPT ![t] = SubSeq(ci[t], 1, r.ci)] /\ errfunc' = [errfunc EXCEPT ![t] = r.errfunc]
      BY <1>0, <2>1
    <3>2. nCcalls' \in [Threads -> Nat] /\ nCcalls'[t] = r.nCcalls
          /\ \A v \in Threads : v # t => nCcalls'[v] = nCcalls[v]
      BY <3>1, <2>1, <1>1, <1>3, Types
    <3>3. ci' \in [Threads -> Seq(Kinds)] /\ ci'[t] = CallsOf(cs, t, m)
          /\ \A v \in Threads : v # t => ci'[v] = ci[v]
      BY <3>1, <2>1, <1>1, <1>5, Types
    <3>4. errfunc' \in [Threads -> Nat] /\ errfunc'[t] = r.errfunc
          /\ \A v \in Threads : v # t => errfunc'[v] = errfunc[v]
      BY <3>1, <2>1, <1>1, <1>3, Types
    <3>5. errorJmp' \in [Threads -> Nat] /\ errorJmp'[t] = r.previous
          /\ \A v \in Threads : v # t => errorJmp'[v] = errorJmp[v]
      BY <1>0, <1>1, <1>3, Types
    <3>. QED
      BY <3>2, <3>3, <3>4, <3>5, <2>1
  <2>2. CASE r.fn = "resume"
    BY <1>0, <2>2, <1>1, <1>3, <1>4, <1>6, Types, ZenonT(30)
  <2>. QED
    BY <2>1, <2>2, <1>2
<1>8. MayPop(cs, nCcalls, baseCcalls, ci, errorJmp, errfunc, m, t, nCcalls', ci', errorJmp', errfunc')
  <2>1. m \in 0 .. Len(cs) - 1 /\ (\A k \in m + 1 .. Len(cs) : cs[k].th = t) /\ cs[m+1] = r
    BY <1>0, <1>2
  <2>2. Handler(cs, t, errfunc'[t], m)
    BY <1>2, <1>3, <1>7 DEF Handler
  <2>3. cs[m+1].fn # "resume" => nCcalls'[t] = Depth(cs, m) /\ ci'[t] = CallsOf(cs, t, m)
    BY <2>1, <1>2, <1>3, <1>7
  <2>4. errfunc \in [Threads -> Nat] /\ main \notin Coroutines
    BY Types
  <2>5. errorJmp'[t] = LastOf(Catchers(cs, t, m))
    BY <1>3, <1>7
  <2>. QED
    BY ONLY <2>1, <2>2, <2>3, <2>4, <2>5, <1>1, <1>7 DEF MayPop
<1>9. Agree(SubSeq(cs, 1, m), nCcalls', baseCcalls, ci', errorJmp', errfunc')
  BY ONLY <1>8, PopAgrees
<1>10. cs' = SubSeq(cs, 1, m)
  BY <1>0 DEF m
<1>11. Len(cs') = m /\ \A i \in 1 .. m : cs'[i] = cs[i] /\ i \in 1 .. Len(cs)
  BY <1>1, <1>2, <1>10
<1>12. Depth(cs', Len(cs')) = Depth(cs, m)
  <2>. DEFINE u == cs'
  <2>1. m \in Nat /\ m \in 0 .. m /\ \A i \in 1 .. m : cs[i] = u[i]
    BY <1>2, <1>11
  <2>. HIDE DEF u
  <2>2. \A i \in 0 .. m : Depth(cs, i) = Depth(u, i)
    BY ONLY <2>1, SameBelow
  <2>. QED
    BY <2>1, <2>2, <1>11 DEF u
<1>13. r.fn = "pcall" => Len(ci'[t]) = r.ci /\ \A i \in 1 .. r.ci : ci'[t][i] = ci[t][i]
  BY <1>3, <1>5, <1>7
<1>. QED
  BY <1>0, <1>1, <1>3, <1>5, <1>7, <1>9, <1>10, <1>11, <1>12, <1>13, Types DEF m, Left

\* A thrown error leaves the activation that catches it.
LEMMA ThrowLeaves ==
  ASSUME LuaDoAssumption, LInv, luaD_throw
  PROVE  Leaves(Running, errorJmp[Running], cs[errorJmp[Running]])
<1>. DEFINE t == Running
            j == errorJmp[t]
            r == cs[j]
            L == Len(cs)
<1>1. /\ raising = "throw" /\ cs # << >> /\ cs[L].fn # "pcall" /\ Depth(cs, L) <= LUAI_MAXCCALLS + ErrorCalls
      /\ cs' = SubSeq(cs, 1, j - 1) /\ errorJmp' = [errorJmp EXCEPT ![t] = r.previous]
      /\ raising' = "none" /\ baseCcalls' = baseCcalls /\ started' = started
      /\ IF r.fn = "pcall" THEN CaughtByPcall(t, r) ELSE CaughtByResume(t)
  BY DEF luaD_throw, LInv, RaisingOK
<1>2. /\ L \in Nat /\ L \in 1 .. L /\ t \in Threads /\ cs[L].th = t /\ StackOK(cs)
  BY <1>1, WhoRuns DEF LInv, Agree
<1>3. /\ j \in 1 .. Len(cs) /\ j - 1 \in 0 .. Len(cs) - 1 /\ (j - 1) + 1 = j /\ j - 1 \in Nat
      /\ r \in Record /\ RecordOK(cs, j) /\ r.fn \in {"pcall", "resume"}
      /\ \A k \in j .. Len(cs) : cs[k].th = t
      /\ \A k \in j + 1 .. Len(cs) : cs[k].fn \notin {"pcall", "resume"}
  BY <1>1, Catches
<1>4. \/ /\ r.fn = "pcall" /\ nCcalls' = [nCcalls EXCEPT ![t] = r.nCcalls]
         /\ ci' = [ci EXCEPT ![t] = SubSeq(@, 1, r.ci)] /\ errfunc' = [errfunc EXCEPT ![t] = r.errfunc]
      \/ /\ r.fn = "resume" /\ nCcalls' = [nCcalls EXCEPT ![t] = @ - 1]
         /\ ci' = ci /\ errfunc' = errfunc
  BY <1>1, <1>3 DEF CaughtByPcall, CaughtByResume
<1>. QED
  BY ONLY <1>1, <1>4 DEF Leaves

LEMMA ErrorCaught ==
  ASSUME LuaDoAssumption, LInv, luaD_throw
  PROVE  LInv'
<1>. DEFINE t == Running
            j == errorJmp[t]
            r == cs[j]
            L == Len(cs)
<1>1. /\ raising = "throw" /\ cs # << >> /\ cs[L].fn # "pcall" /\ Depth(cs, L) <= LUAI_MAXCCALLS + ErrorCalls
      /\ cs' = SubSeq(cs, 1, j - 1) /\ errorJmp' = [errorJmp EXCEPT ![t] = r.previous]
      /\ raising' = "none" /\ baseCcalls' = baseCcalls /\ started' = started
      /\ IF r.fn = "pcall" THEN CaughtByPcall(t, r) ELSE CaughtByResume(t)
  BY DEF luaD_throw, LInv, RaisingOK
<1>2. /\ L \in Nat /\ L \in 1 .. L /\ t \in Threads /\ cs[L].th = t /\ StackOK(cs)
  BY <1>1, WhoRuns DEF LInv, Agree
<1>3. /\ j \in 1 .. Len(cs) /\ j - 1 \in 0 .. Len(cs) - 1 /\ (j - 1) + 1 = j /\ j - 1 \in Nat
      /\ r \in Record /\ RecordOK(cs, j) /\ r.fn \in {"pcall", "resume"}
      /\ \A k \in j .. Len(cs) : cs[k].th = t
      /\ \A k \in j + 1 .. Len(cs) : cs[k].fn \notin {"pcall", "resume"}
  BY <1>1, Catches
<1>a. Leaves(t, j, r)
  BY ThrowLeaves
<1>b. Left(t, j, r)
  BY <1>a, Lands
<1>. HIDE DEF t, j, r
<1>5. /\ Agree(cs', nCcalls', baseCcalls', ci', errorJmp', errfunc')
      /\ nCcalls' \in [Threads -> Nat] /\ ci' \in [Threads -> Seq(Kinds)]
      /\ errorJmp' \in [Threads -> Nat] /\ errfunc' \in [Threads -> Nat]
      /\ Len(cs') = j - 1 /\ (\A i \in 1 .. j - 1 : cs'[i] = cs[i] /\ i \in 1 .. Len(cs))
      /\ Depth(cs', Len(cs')) = Depth(cs, j - 1)
      /\ r.fn = "pcall" => /\ r.ci \in Nat /\ r.ci <= Len(ci[t]) /\ Len(ci'[t]) = r.ci
                           /\ \A i \in 1 .. r.ci : ci'[t][i] = ci[t][i]
                           /\ ci[t] \in Seq(Kinds)
  BY <1>b DEF Left
<1>6. Depth(cs, j - 1) + 1 <= Depth(cs, L)
  <2>1. CASE r.fn = "resume"
    <3>1. j - 1 \in Nat /\ j \in Nat /\ L \in Nat /\ j - 1 < j /\ j <= L /\ cs[j].fn \in {"call", "resume"}
      BY <2>1, <1>2, <1>3 DEF r
    <3>. QED
      BY ONLY <3>1, DepthMore
  <2>2. CASE r.fn = "pcall"
    <3>1. j # L
      BY <2>2, <1>1 DEF r
    <3>2. j + 1 \in 1 .. L /\ j + 1 > 1 /\ (j + 1) - 1 = j
      BY <3>1, <1>2, <1>3
    <3>3. Above(cs[j], cs[j+1])
      BY <3>2, <1>2 DEF StackOK, RecordOK
    <3>4. cs[j+1].fn = "call"
      BY <3>3, <2>2 DEF Above, r
    <3>5. j - 1 \in Nat /\ j + 1 \in Nat /\ L \in Nat /\ j - 1 < j + 1 /\ j + 1 <= L
          /\ cs[j+1].fn \in {"call", "resume"}
      BY <3>2, <3>4, <1>2, <1>3
    <3>. QED
      BY ONLY <3>5, DepthMore
  <2>. QED
    BY <2>1, <2>2, <1>3
<1>7. RaisingOK'
  <2>1. Depth(cs, j - 1) \in Nat /\ Depth(cs, L) \in Nat
    BY <1>2, <1>3, DepthStep
  <2>2. LUAI_MAXCCALLS \in Nat /\ ErrorCalls \in Nat
    BY DEF LuaDoAssumption
  <2>. QED
    <3>1. Depth(cs', Len(cs')) = Depth(cs, j - 1) /\ raising' = "none"
      BY <1>5, <1>1
    <3>2. Depth(cs', Len(cs')) < LUAI_MAXCCALLS + ErrorCalls
      BY ONLY <2>1, <2>2, <3>1, <1>1, <1>6
    <3>. QED
      BY ONLY <2>1, <2>2, <3>1, <3>2 DEF RaisingOK
<1>8. CASE r.fn = "pcall"
  <2>1. /\ openupval' = [openupval EXCEPT ![t] = luaF_close(t, r.ci)]
        /\ size_ci' = [size_ci EXCEPT ![t] = restore_stack_limit(size_ci[t], r.ci)] /\ status' = status
        /\ ci' = [ci EXCEPT ![t] = SubSeq(@, 1, r.ci)]
    BY <1>1, <1>8 DEF CaughtByPcall
  <2>2. \A v \in Threads : v # t => ci'[v] = ci[v] /\ openupval'[v] = openupval[v] /\ size_ci'[v] = size_ci[v]
    BY <2>1, Types
  <2>3. openupval'[t] = {d \in openupval[t] : d <= r.ci} /\ size_ci'[t] = restore_stack_limit(size_ci[t], r.ci)
    BY <2>1, <1>2, Types DEF luaF_close
  <2>4. SharedOK'
    <3>1. ASSUME NEW v \in Threads, NEW d \in openupval'[v]
          PROVE  d \in openupval[v] /\ d \in 1 .. Len(ci'[v]) /\ ci'[v][d] = ci[v][d]
      <4>1. CASE v # t
        BY <3>1, <4>1, <2>2 DEF LInv, SharedOK
      <4>2. CASE v = t
        <5>1. d \in openupval[t] /\ d <= r.ci
          BY <3>1, <4>2, <2>3
        <5>2. d \in 1 .. Len(ci[t])
          BY <5>1, <1>2 DEF LInv, SharedOK
        <5>3. d \in 1 .. r.ci
          BY <5>1, <5>2, <1>5, <1>8
        <5>. QED
          BY <5>1, <5>3, <4>2, <1>5, <1>8
      <4>. QED
        BY <4>1, <4>2
    <3>2. \A v \in Threads : /\ openupval'[v] \subseteq openupval[v]
                           /\ \A d \in openupval'[v] : d \in 1 .. Len(ci'[v]) /\ ci'[v][d] = ci[v][d]
      BY ONLY <3>1
    <3>. QED
      BY <3>2, SharedKept
  <2>5. CallsBounded' /\ size_ci' \in [Threads -> Nat]
    <3>1. size_ci[t] \in Nat /\ Len(ci[t]) < size_ci[t] /\ size_ci[t] <= 2 * LUAI_MAXCALLS /\ LUAI_MAXCALLS \in Nat
      BY <1>2, Types DEF LInv, CallsBounded, LuaDoAssumption
    <3>2. Len(ci[t]) \in Nat /\ r.ci \in Nat /\ r.ci <= Len(ci[t])
      BY <1>5, <1>8
    <3>3. /\ r.ci < restore_stack_limit(size_ci[t], r.ci)
          /\ restore_stack_limit(size_ci[t], r.ci) <= 2 * LUAI_MAXCALLS
          /\ restore_stack_limit(size_ci[t], r.ci) \in Nat
      BY <3>1, <3>2 DEF restore_stack_limit
    <3>4. Len(ci'[t]) = r.ci
      BY <1>5, <1>8
    <3>5. CallsBounded'
      BY <3>3, <3>4, <2>2, <2>3 DEF LInv, CallsBounded
    <3>6. size_ci' \in [Threads -> Nat]
      BY <3>3, <2>1, Types
    <3>. QED
      BY <3>5, <3>6
  <2>6. openupval' \in [Threads -> SUBSET Nat]
    <3>1. luaF_close(t, r.ci) \in SUBSET Nat
      BY <1>2, Types DEF luaF_close
    <3>. QED
      BY <3>1, <2>1, Types
  <2>7. TypesOK'
    BY <2>1, <2>5, <2>6, <1>1, <1>5, Types DEF TypesOK, Kinds
  <2>8. StatusOK'
    <3>1. status[t] = "ok"
      BY <1>1, WhoRuns DEF t
    <3>2. \A v \in Threads : status[v] = "yield" => ci'[v] = ci[v]
      BY <3>1, <2>2
    <3>3. \A i \in 1 .. Len(cs') : \E k \in 1 .. Len(cs) : cs'[i].th = cs[k].th
      BY <1>5
    <3>4. status' = status /\ started' = started
      BY <2>1, <1>1
    <3>5. \A i \in 1 .. Len(cs') : cs'[i].th = main \/ \E k \in 1 .. Len(cs) : cs'[i].th = cs[k].th
      BY <3>3
    <3>6. LInv
      OBVIOUS
    <3>. QED
      BY ONLY <3>2, <3>4, <3>5, <3>6, StatusKept
  <2>. QED
    BY <2>4, <2>5, <2>7, <2>8, <1>5, <1>7 DEF LInv
<1>9. CASE r.fn = "resume"
  <2>1. status' = [status EXCEPT ![t] = "error"] /\ UNCHANGED << ci, size_ci, errfunc, openupval >>
    BY <1>1, <1>9 DEF CaughtByResume
  <2>2. r.th = t /\ t \in Coroutines /\ \A k \in 1 .. j - 1 : cs[k].th # t
    <3>1. j \in j .. Len(cs)
      BY <1>2, <1>3
    <3>2. r.th = t
      BY <3>1, <1>3 DEF r
    <3>. QED
      BY <3>2, <1>3, <1>9 DEF RecordOK, r
  <2>3. t # main /\ main \in Threads /\ status'[t] = "error" /\ \A v \in Threads : v # t => status'[v] = status[v]
    BY <2>1, <2>2, <1>2, Types DEF Threads
  <2>4. StatusOK'
    <3>1. \A i \in 1 .. Len(cs') : cs'[i] = cs[i] /\ i \in 1 .. Len(cs) /\ cs[i].th # t /\ cs[i].th \in Threads
      <4>1. \A i \in 1 .. Len(cs) : cs[i] \in Record
        BY <1>2 DEF StackOK
      <4>. QED
        BY <4>1, <2>2, <1>5, RecordFields
    <3>2. /\ status[main] = "ok"
          /\ \A i \in 1 .. Len(cs) : status[cs[i].th] = "ok" /\ (cs[i].th # main => started[cs[i].th])
          /\ \A v \in Threads : status[v] = "yield" =>
               /\ Len(ci[v]) > 1 /\ ci[v][Len(ci[v])] = "C"
               /\ \A i \in 1 .. Len(ci[v]) - 1 : ci[v][i] = "Lua"
      BY DEF LInv, StatusOK
    <3>3. status'[main] = "ok"
      BY ONLY <3>2, <2>3
    <3>4. \A i \in 1 .. Len(cs') : status'[cs'[i].th] = "ok" /\ (cs'[i].th # main => started'[cs'[i].th])
      <4>. SUFFICES ASSUME NEW i \in 1 .. Len(cs')
                    PROVE  status'[cs'[i].th] = "ok" /\ (cs'[i].th # main => started'[cs'[i].th])
        OBVIOUS
      <4>1. cs'[i] = cs[i] /\ i \in 1 .. Len(cs) /\ cs[i].th # t /\ cs[i].th \in Threads /\ started' = started
        BY <3>1, <1>1
      <4>2. status'[cs[i].th] = status[cs[i].th]
        BY ONLY <4>1, <2>3
      <4>. QED
        BY ONLY <4>1, <4>2, <3>2
    <3>5. \A v \in Threads : status'[v] = "yield" => status[v] = "yield" /\ ci'[v] = ci[v]
      BY <2>1, <2>3
    <3>6. \A v \in Threads : status'[v] = "yield" =>
            /\ Len(ci'[v]) > 1 /\ ci'[v][Len(ci'[v])] = "C"
            /\ \A i \in 1 .. Len(ci'[v]) - 1 : ci'[v][i] = "Lua"
      BY ONLY <3>5, <3>2
    <3>. QED
      BY ONLY <3>3, <3>4, <3>6 DEF StatusOK
  <2>5. TypesOK'
    BY <2>1, <1>1, <1>5, Types DEF TypesOK, Kinds
  <2>6. SharedOK' /\ CallsBounded'
    BY <2>1 DEF LInv, SharedOK, CallsBounded
  <2>. QED
    BY <2>4, <2>5, <2>6, <1>5, <1>7 DEF LInv
<1>. QED
  BY <1>3, <1>8, <1>9

\* The activation on top catches the errors of the thread that runs.
LEMMA TopCatches ==
  ASSUME LInv, cs # << >>, cs[Len(cs)].fn \in {"pcall", "resume"}
  PROVE  errorJmp[Running] = Len(cs)
<1>. DEFINE t == Running
            j == errorJmp[t]
            L == Len(cs)
<1>1. j \in 1 .. L /\ \A k \in j + 1 .. L : cs[k].fn \notin {"pcall", "resume"}
  BY Catches
<1>2. L \in Nat
  BY WhoRuns
<1>. HIDE DEF j, L
<1>3. j # L => L \in j + 1 .. L
  BY <1>1, <1>2
<1>. QED
  BY <1>1, <1>3 DEF j, L

\* The return of a protected call or of a coroutine.
LEMMA ReturnLeaves ==
  ASSUME LuaDoAssumption, LInv, PcallReturns \/ ResumeReturns
  PROVE  Leaves(Running, Len(cs), cs[Len(cs)])
<1>. DEFINE t == Running
            L == Len(cs)
            r == cs[L]
<1>1. /\ cs # << >> /\ raising = "none" /\ raising' = "none"
      /\ size_ci' = size_ci /\ ci' = ci /\ baseCcalls' = baseCcalls /\ openupval' = openupval
      /\ status' = status /\ started' = started /\ cs' = SubSeq(cs, 1, L - 1)
      /\ errorJmp' = [errorJmp EXCEPT ![t] = Last(cs).previous]
      /\ \/ /\ Last(cs).fn = "pcall" /\ nCcalls' = nCcalls
            /\ errfunc' = [errfunc EXCEPT ![t] = Last(cs).errfunc]
         \/ /\ Last(cs).fn = "resume" /\ nCcalls' = [nCcalls EXCEPT ![t] = @ - 1]
            /\ errfunc' = errfunc
  BY DEF PcallReturns, ResumeReturns, Top, Popped, Front, threads
<1>2. /\ cs \in Seq(Record) /\ L \in Nat /\ L \in 1 .. L /\ t \in Threads /\ Last(cs) = r
      /\ r \in Record /\ RecordOK(cs, L) /\ r.th = t
      /\ nCcalls[t] = Depth(cs, L) /\ ci[t] = CallsOf(cs, t, L)
  BY <1>1, WhoRuns
<1>3. errorJmp[t] = L
  BY <1>1, <1>2, TopCatches
<1>4. r.fn = "pcall" => r.nCcalls = nCcalls[t] /\ SubSeq(ci[t], 1, r.ci) = ci[t]
  <2>. SUFFICES ASSUME r.fn = "pcall" PROVE r.nCcalls = nCcalls[t] /\ SubSeq(ci[t], 1, r.ci) = ci[t]
    OBVIOUS
  <2>1. r.nCcalls = Depth(cs, L - 1) /\ r.ci = Len(CallsOf(cs, t, L - 1))
    BY <1>2 DEF RecordOK
  <2>2. L - 1 \in Nat /\ (L - 1) + 1 = L /\ L - 1 \in 0 .. Len(cs)
    BY <1>2
  <2>3. Depth(cs, L - 1) \in Nat
        /\ Depth(cs, (L - 1) + 1) = Depth(cs, L - 1) + IF cs[(L-1)+1].fn \in {"call", "resume"} THEN 1 ELSE 0
    BY ONLY <2>2, DepthStep
  <2>4. Depth(cs, L) = Depth(cs, L - 1)
    BY <2>2, <2>3
  <2>5. /\ CallsOf(cs, t, L - 1) \in Seq(Kinds)
        /\ CallsOf(cs, t, L) = CallsOf(cs, t, L - 1) \o (IF cs[L].th = t THEN Frames(cs[L]) ELSE << >>)
    BY <1>2, <2>2, CallsStep
  <2>6. Frames(r) = << >>
    BY DEF Frames
  <2>. DEFINE y == CallsOf(cs, t, L - 1)
  <2>7. ci[t] = y \o << >> /\ y \in Seq(Kinds)
    BY <2>5, <2>6, <1>2
  <2>. HIDE DEF y
  <2>8. y \o << >> = y /\ SubSeq(y, 1, Len(y)) = y
    BY <2>7
  <2>. QED
    BY <2>1, <2>4, <2>7, <2>8, <1>2 DEF y
<1>. QED
  <2>1. r.fn = "pcall" => /\ nCcalls = [nCcalls EXCEPT ![t] = r.nCcalls]
                         /\ ci = [ci EXCEPT ![t] = SubSeq(ci[t], 1, r.ci)]
    BY <1>2, <1>4, Types
  <2>. QED
    BY <1>1, <1>2, <1>3, <2>1 DEF Leaves

LEMMA CatcherReturns ==
  ASSUME LuaDoAssumption, LInv, PcallReturns \/ ResumeReturns
  PROVE  LInv'
<1>. DEFINE t == Running
            L == Len(cs)
            r == cs[L]
<1>1. /\ cs # << >> /\ raising = "none" /\ raising' = "none"
      /\ size_ci' = size_ci /\ ci' = ci /\ baseCcalls' = baseCcalls /\ openupval' = openupval
      /\ status' = status /\ started' = started /\ cs' = SubSeq(cs, 1, L - 1)
      /\ errorJmp' = [errorJmp EXCEPT ![t] = Last(cs).previous]
      /\ \/ /\ Last(cs).fn = "pcall" /\ nCcalls' = nCcalls
            /\ errfunc' = [errfunc EXCEPT ![t] = Last(cs).errfunc]
         \/ /\ Last(cs).fn = "resume" /\ nCcalls' = [nCcalls EXCEPT ![t] = @ - 1]
            /\ errfunc' = errfunc
  BY DEF PcallReturns, ResumeReturns, Top, Popped, Front, threads
<1>2. /\ cs \in Seq(Record) /\ L \in Nat /\ L \in 1 .. L /\ t \in Threads /\ Last(cs) = r
      /\ r \in Record /\ RecordOK(cs, L) /\ r.th = t
      /\ nCcalls[t] = Depth(cs, L) /\ ci[t] = CallsOf(cs, t, L)
  BY <1>1, WhoRuns
<1>5. Leaves(t, L, r)
  BY ReturnLeaves
<1>6. Left(t, L, r)
  BY <1>5, Lands
<1>7. /\ Agree(cs', nCcalls', baseCcalls', ci', errorJmp', errfunc')
      /\ nCcalls' \in [Threads -> Nat] /\ ci' \in [Threads -> Seq(Kinds)]
      /\ errorJmp' \in [Threads -> Nat] /\ errfunc' \in [Threads -> Nat]
      /\ Len(cs') = L - 1 /\ (\A i \in 1 .. L - 1 : cs'[i] = cs[i] /\ i \in 1 .. Len(cs))
      /\ Depth(cs', Len(cs')) = Depth(cs, L - 1)
  BY <1>6 DEF Left
<1>8. RaisingOK'
  <2>1. Depth(cs, L - 1) <= Depth(cs, L) /\ Depth(cs, L - 1) \in Nat /\ Depth(cs, L) \in Nat
    <3>1. L - 1 \in Nat /\ L - 1 <= L
      BY <1>2
    <3>. QED
      BY <1>2, <3>1, DepthStep, DepthMonotone
  <2>2. Depth(cs, L) < LUAI_MAXCCALLS + ErrorCalls /\ LUAI_MAXCCALLS \in Nat /\ ErrorCalls \in Nat
    BY <1>1, Types
  <2>3. Depth(cs', Len(cs')) = Depth(cs, L - 1) /\ raising' = "none"
    BY <1>1, <1>7
  <2>. QED
    BY ONLY <2>1, <2>2, <2>3 DEF RaisingOK
<1>9. TypesOK'
  BY <1>1, <1>7, Types DEF TypesOK, Kinds
<1>10. StatusOK'
  <2>1. \A i \in 1 .. Len(cs') : cs'[i].th = main \/ \E k \in 1 .. Len(cs) : cs'[i].th = cs[k].th
    BY <1>7
  <2>2. LInv /\ \A v \in Threads : status[v] = "yield" => ci'[v] = ci[v]
    BY <1>1
  <2>. QED
    BY ONLY <2>1, <2>2, <1>1, StatusKept
<1>11. SharedOK' /\ CallsBounded'
  BY <1>1 DEF LInv, SharedOK, CallsBounded
<1>. QED
  BY <1>7, <1>8, <1>9, <1>10, <1>11 DEF LInv

--------------------------------------------------------------------------------
(* Coroutines *)

\* A thread that may yield runs a C function that luaV_execute has called right
\* after its resumption.
LEMMA YieldsFrom ==
  ASSUME LuaDoAssumption, LInv, cs # << >>, cs[Len(cs)].fn = "C", CanYield(Running)
  PROVE  LET k == Len(cs) - 2 IN
           /\ k \in 1 .. Len(cs) /\ cs[k].fn = "resume" /\ cs[k].th = Running /\ Running \in Coroutines
           /\ k + 1 \in 1 .. Len(cs) /\ cs[k+1].fn = "execute" /\ cs[k+1].th = Running
<1>. DEFINE t == Running
            L == Len(cs)
<1>1. /\ cs \in Seq(Record) /\ L \in Nat /\ L \in 1 .. L /\ t \in Threads /\ cs[L].th = t
      /\ nCcalls[t] = Depth(cs, L) /\ nCcalls[t] <= baseCcalls[t] /\ cs[L].fn = "C"
  BY WhoRuns DEF CanYield
<1>2. StackOK(cs) /\ BaseOK(cs, baseCcalls) /\ baseCcalls[main] = 0
  BY DEF LInv, Agree, BaseOK
<1>. HIDE DEF t
<1>3. /\ \A i \in 1 .. L : cs[i] \in Record /\ RecordOK(cs, i)
      /\ \A i \in 1 .. L : i > 1 => Above(cs[i-1], cs[i])
  BY <1>2, <1>1 DEF StackOK, RecordOK
<1>4. cs[1].fn = "pcall" /\ cs[1].th = main /\ 1 \in 1 .. L
  BY <1>1, <1>3 DEF RecordOK
<1>5. t # main
  <2>. SUFFICES ASSUME t = main PROVE FALSE
    OBVIOUS
  <2>1. L # 1
    BY <1>1, <1>4
  <2>0. L \in Nat /\ L \in 1 .. L
    BY <1>1
  <2>2. 2 \in 1 .. L /\ 2 > 1 /\ 2 - 1 = 1
    <3>. HIDE DEF L
    <3>. QED
      BY ONLY <2>0, <2>1
  <2>3. Above(cs[1], cs[2])
    BY <2>2, <1>3
  <2>4. cs[2].fn = "call"
    BY <2>3, <1>4 DEF Above
  <2>5. 0 \in Nat /\ 2 \in Nat /\ L \in Nat /\ 0 < 2 /\ 2 <= L /\ cs[2].fn \in {"call", "resume"}
    BY <2>2, <2>4, <1>1
  <2>6. Depth(cs, 0) + 1 <= Depth(cs, L)
    BY ONLY <2>5, DepthMore
  <2>7. Depth(cs, 0) = 0
    BY <2>5, DepthStep
  <2>. QED
    <3>1. Depth(cs, L) = nCcalls[t] /\ nCcalls[t] <= baseCcalls[t] /\ baseCcalls[t] = 0 /\ Depth(cs, L) \in Nat
      BY <2>5, <1>1, <1>2, DepthStep
    <3>. QED
      BY ONLY <2>6, <2>7, <3>1
<1>6. t \in Coroutines /\ L \in 2 .. L
  <2>1. L # 1
    BY <1>1, <1>4
  <2>. QED
    <3>1. L \in Nat /\ L \in 1 .. L /\ t \in Threads
      BY <1>1
    <3>. HIDE DEF L
    <3>2. L \in 2 .. L
      BY ONLY <2>1, <3>1
    <3>. QED
      BY <3>1, <3>2, <1>5 DEF Threads
<1>7. PICK k \in 2 .. L : cs[k].fn = "resume" /\ cs[k].th = t
  <2>1. 1 + 1 = 2 /\ cs[1].th # cs[L].th /\ 1 \in 1 .. Len(cs) /\ L \in 1 + 1 .. Len(cs) /\ StackOK(cs)
    BY <1>1, <1>2, <1>4, <1>5, <1>6
  <2>2. \E i \in 1 + 1 .. L : cs[i].fn = "resume" /\ cs[i].th = cs[L].th
    BY ONLY <2>1, Switch
  <2>. QED
    BY <2>1, <2>2, <1>1
<1>8. Depth(cs, L) <= Depth(cs, k)
  BY <1>1, <1>2, <1>7 DEF BaseOK
<1>9. ASSUME NEW m \in k + 1 .. L PROVE cs[m].fn \notin {"call", "resume"}
  <2>. SUFFICES ASSUME cs[m].fn \in {"call", "resume"} PROVE FALSE
    OBVIOUS
  <2>1. k \in Nat /\ m \in Nat /\ L \in Nat /\ k < m /\ m <= L
    BY <1>1, <1>7
  <2>2. Depth(cs, k) + 1 <= Depth(cs, L)
    BY <2>1, DepthMore
  <2>3. Depth(cs, k) \in Nat /\ Depth(cs, L) \in Nat
    BY <2>1, DepthStep
  <2>. QED
    BY <2>2, <2>3, <1>8
<1>10. \A i \in 1 .. L : cs[i].fn \in {"execute", "C", "call", "pcall", "resume"}
  BY <1>3 DEF Record
<1>11. k + 1 \in 1 .. L /\ k + 1 \in k + 1 .. L /\ cs[k+1].fn = "execute" /\ cs[k+1].th = t
  <2>1. k # L
    BY <1>1, <1>7
  <2>2. k + 1 \in 1 .. L /\ k + 1 > 1 /\ (k + 1) - 1 = k /\ k + 1 \in k + 1 .. L
    BY <2>1, <1>1, <1>7
  <2>3. Above(cs[k], cs[k+1])
    BY <2>2, <1>3
  <2>. QED
    BY <2>2, <2>3, <1>7, <1>9, <1>10 DEF Above
<1>12. k + 2 \in 1 .. L /\ k + 2 \in k + 1 .. L /\ cs[k+2].fn = "C"
  <2>1. k + 1 # L
    BY <1>1, <1>11
  <2>2. k + 2 \in 1 .. L /\ k + 2 > 1 /\ (k + 2) - 1 = k + 1 /\ k + 2 \in k + 1 .. L
    BY <2>1, <1>1, <1>7, <1>11
  <2>3. Above(cs[k+1], cs[k+2])
    BY <2>2, <1>3
  <2>. QED
    BY <2>2, <2>3, <1>11, <1>9, <1>10 DEF Above
<1>13. k + 2 = L
  <2>. SUFFICES ASSUME k + 2 # L PROVE FALSE
    OBVIOUS
  <2>1. k + 3 \in 1 .. L /\ k + 3 > 1 /\ (k + 3) - 1 = k + 2 /\ k + 3 \in k + 1 .. L
    BY <1>1, <1>7, <1>12
  <2>2. Above(cs[k+2], cs[k+3])
    BY <2>1, <1>3
  <2>3. cs[k+3].fn = "pcall"
    BY <2>1, <2>2, <1>12, <1>9, <1>10 DEF Above
  <2>4. k + 3 # L
    BY <2>3, <1>1
  <2>5. k + 4 \in 1 .. L /\ k + 4 > 1 /\ (k + 4) - 1 = k + 3 /\ k + 4 \in k + 1 .. L
    BY <2>1, <2>4, <1>1, <1>7
  <2>6. Above(cs[k+3], cs[k+4])
    BY <2>5, <1>3
  <2>. QED
    BY <2>3, <2>5, <2>6, <1>9 DEF Above
<1>14. Len(cs) - 2 = k /\ k \in 1 .. L
  BY <1>1, <1>7, <1>13
<1>. QED
  BY <1>6, <1>7, <1>11, <1>14 DEF t

LEMMA YieldLeaves ==
  ASSUME LuaDoAssumption, LInv, lua_yield, CanYield(Running)
  PROVE  Leaves(Running, Len(cs) - 2, cs[Len(cs)-2])
<1>. DEFINE t == Running
            L == Len(cs)
            k == L - 2
            r == cs[k]
<1>1. /\ cs # << >> /\ Last(cs).fn = "C" /\ raising = "none" /\ raising' = "none"
      /\ status' = [status EXCEPT ![t] = "yield"] /\ cs' = SubSeq(cs, 1, L - 3)
      /\ nCcalls' = [nCcalls EXCEPT ![t] = nCcalls[t] - 1]
      /\ errorJmp' = [errorJmp EXCEPT ![t] = cs[errorJmp[t]].previous]
      /\ ci' = ci /\ size_ci' = size_ci /\ baseCcalls' = baseCcalls /\ errfunc' = errfunc
      /\ started' = started /\ openupval' = openupval
  BY DEF lua_yield, Top
<1>2. /\ cs \in Seq(Record) /\ L \in Nat /\ L \in 1 .. L /\ t \in Threads /\ Last(cs) = cs[L]
      /\ cs[L].th = t /\ ci[t] = CallsOf(cs, t, L) /\ status[t] = "ok"
      /\ \A i \in 1 .. L : cs[i] \in Record /\ RecordOK(cs, i) /\ cs[i].th \in Threads
  <2>1. StackOK(cs)
    BY DEF LInv, Agree
  <2>2. \A i \in 1 .. L : cs[i] \in Record /\ RecordOK(cs, i)
    BY <2>1 DEF StackOK, RecordOK
  <2>. QED
    BY <1>1, <2>2, WhoRuns, RecordFields
<1>3. /\ k \in 1 .. L /\ cs[k].fn = "resume" /\ cs[k].th = t /\ t \in Coroutines
      /\ k + 1 \in 1 .. L /\ cs[k+1].fn = "execute" /\ cs[k+1].th = t
  BY <1>1, <1>2, YieldsFrom
<1>4. k + 2 = L /\ L - 3 = k - 1 /\ k - 1 \in Nat /\ (k + 1) - 1 = k /\ L - 1 = k + 1
  BY <1>2, <1>3
<1>5. errorJmp[t] = k
  <2>. DEFINE j == errorJmp[t]
  <2>1. /\ j \in 1 .. L /\ cs[j].fn \in {"pcall", "resume"}
        /\ \A i \in j + 1 .. L : cs[i].fn \notin {"pcall", "resume"}
    BY <1>1, Catches
  <2>. HIDE DEF j
  <2>2. j # k + 1 /\ j # L
    BY <1>1, <1>2, <1>3, <2>1
  <2>3. ~(k \in j + 1 .. L)
    BY <1>3, <2>1
  <2>. QED
    BY <2>1, <2>2, <2>3, <1>2, <1>3, <1>4 DEF j
<1>. QED
  BY <1>1, <1>3, <1>4, <1>5 DEF Leaves

LEMMA Yields ==
  ASSUME LuaDoAssumption, LInv, lua_yield
  PROVE  LInv'
<1>. DEFINE t == Running
            L == Len(cs)
            k == L - 2
            r == cs[k]
<1>1. CASE ~CanYield(t)
  <2>1. Error
    BY <1>1 DEF lua_yield, Error, threads
  <2>. QED
    BY <2>1, RaisesError
<1>2. CASE CanYield(t)
  <2>1. /\ cs # << >> /\ Last(cs).fn = "C" /\ raising = "none" /\ raising' = "none"
        /\ status' = [status EXCEPT ![t] = "yield"] /\ cs' = SubSeq(cs, 1, L - 3)
        /\ nCcalls' = [nCcalls EXCEPT ![t] = nCcalls[t] - 1]
        /\ errorJmp' = [errorJmp EXCEPT ![t] = cs[errorJmp[t]].previous]
        /\ ci' = ci /\ size_ci' = size_ci /\ baseCcalls' = baseCcalls /\ errfunc' = errfunc
        /\ started' = started /\ openupval' = openupval
    BY <1>2 DEF lua_yield, Top
  <2>2. /\ cs \in Seq(Record) /\ L \in Nat /\ L \in 1 .. L /\ t \in Threads /\ Last(cs) = cs[L]
        /\ cs[L].th = t /\ ci[t] = CallsOf(cs, t, L) /\ status[t] = "ok"
        /\ \A i \in 1 .. L : cs[i] \in Record /\ RecordOK(cs, i) /\ cs[i].th \in Threads
    <3>1. StackOK(cs)
      BY DEF LInv, Agree
    <3>2. \A i \in 1 .. L : cs[i] \in Record /\ RecordOK(cs, i)
      BY <3>1 DEF StackOK, RecordOK
    <3>. QED
      BY <2>1, <3>2, WhoRuns, RecordFields
  <2>3. /\ k \in 1 .. L /\ cs[k].fn = "resume" /\ cs[k].th = t /\ t \in Coroutines
        /\ k + 1 \in 1 .. L /\ cs[k+1].fn = "execute" /\ cs[k+1].th = t
    BY <1>2, <2>1, <2>2, YieldsFrom
  <2>4. k + 2 = L /\ L - 3 = k - 1 /\ k - 1 \in Nat /\ (k + 1) - 1 = k /\ L - 1 = k + 1
    BY <2>2, <2>3
  <2>6. Leaves(t, k, r)
    BY <1>2, YieldLeaves
  <2>7. Left(t, k, r)
    BY <2>6, Lands
  <2>8. /\ Agree(cs', nCcalls', baseCcalls', ci', errorJmp', errfunc')
        /\ nCcalls' \in [Threads -> Nat] /\ ci' \in [Threads -> Seq(Kinds)]
        /\ errorJmp' \in [Threads -> Nat] /\ errfunc' \in [Threads -> Nat]
        /\ Len(cs') = k - 1 /\ (\A i \in 1 .. k - 1 : cs'[i] = cs[i] /\ i \in 1 .. L)
        /\ Depth(cs', Len(cs')) = Depth(cs, k - 1)
    BY <2>7 DEF Left
  <2>9. \A i \in 1 .. k - 1 : cs[i].th # t
    BY <2>2, <2>3 DEF RecordOK
  <2>. HIDE DEF t, k, L
  <2>10. /\ Len(ci[t]) > 1 /\ ci[t][Len(ci[t])] = "C"
         /\ \A i \in 1 .. Len(ci[t]) - 1 : ci[t][i] = "Lua"
    <3>1. /\ k - 1 \in 0 .. Len(cs) /\ k \in 1 .. Len(cs) /\ k + 1 \in 1 .. Len(cs) /\ L \in 1 .. Len(cs)
          /\ 0 \in 0 .. Len(cs) /\ k - 1 \in 0 .. Len(cs) /\ 0 + 1 = 1
      BY <2>2, <2>3, <2>4 DEF L
    <3>2. CallsOf(cs, t, k - 1) = CallsOf(cs, t, 0)
      <4>1. k - 1 \in 0 .. Len(cs) /\ k - 1 \in 0 .. k - 1 /\ 0 \in 0 .. Len(cs) /\ k - 1 \in 0 .. Len(cs)
            /\ cs \in Seq(Record) /\ 0 + 1 = 1 /\ \A i \in 0 + 1 .. k - 1 : cs[i].th # t
        BY <3>1, <2>2, <2>4, <2>9
      <4>2. k - 1 \in 0 .. Len(cs) /\ \A n \in 0 .. Len(cs) : n \in 0 .. Len(cs)
        BY <4>1
      <4>3. \A n \in 0 .. Len(cs) : (\A i \in 0 + 1 .. n : cs[i].th # t) => CallsOf(cs, t, n) = CallsOf(cs, t, 0)
        BY ONLY <4>1, <4>2, CallsPrefix
      <4>. QED
        BY ONLY <4>1, <4>3
    <3>3. /\ CallsOf(cs, t, 0) = << >>
          /\ CallsOf(cs, t, k) = CallsOf(cs, t, k - 1) \o Frames(cs[k])
          /\ CallsOf(cs, t, k + 1) = CallsOf(cs, t, k) \o Frames(cs[k+1])
          /\ CallsOf(cs, t, L) = CallsOf(cs, t, k + 1) \o Frames(cs[L])
      <4>1. /\ CallsOf(cs, t, 0) = << >>
            /\ \A n \in 1 .. Len(cs) : CallsOf(cs, t, n) =
                  CallsOf(cs, t, n - 1) \o (IF cs[n].th = t THEN Frames(cs[n]) ELSE << >>)
        <5>1. cs \in Seq(Record)
          BY <2>2
        <5>. QED
          BY ONLY <5>1, CallsStep
      <4>. QED
        BY ONLY <4>1, <3>1, <2>2, <2>3, <2>4
    <3>. DEFINE n == cs[k+1].nexeccalls
                f == LuaFrames(n)
    <3>4. n \in Nat \ {0}
      BY <2>2, <2>3 DEF Record
    <3>5. /\ f \in Seq(Kinds) /\ Len(f) = n /\ \A i \in 1 .. n : f[i] = "Lua"
      <4>1. f \in [1 .. n -> Kinds] /\ \A i \in 1 .. n : f[i] = "Lua"
        BY DEF LuaFrames, Kinds
      <4>. QED
        BY <4>1, <3>4
    <3>6. Frames(cs[k]) = << >> /\ Frames(cs[k+1]) = f /\ Frames(cs[L]) = << "C" >>
      BY <2>1, <2>2, <2>3 DEF Frames, LuaFrames
    <3>. HIDE DEF f, n
    <3>7. << >> \o << >> = << >> /\ << >> \o f = f
      BY <3>5
    <3>8. ci[t] = f \o << "C" >>
      BY ONLY <3>2, <3>3, <3>6, <3>7, <2>2
    <3>. DEFINE y == f \o << "C" >>
    <3>9. Len(y) = n + 1 /\ y[n+1] = "C" /\ \A i \in 1 .. n : y[i] = f[i]
      BY <3>5 DEF Kinds
    <3>. HIDE DEF y
    <3>. QED
      BY ONLY <3>4, <3>5, <3>8, <3>9 DEF y
  <2>11. RaisingOK'
    <3>1. Depth(cs, k - 1) <= Depth(cs, L) /\ Depth(cs, k - 1) \in Nat /\ Depth(cs, L) \in Nat
      <4>1. k - 1 \in Nat /\ L \in Nat /\ k - 1 <= L
        BY <2>2, <2>4
      <4>. QED
        BY <4>1, DepthStep, DepthMonotone
    <3>2. Depth(cs, L) < LUAI_MAXCCALLS + ErrorCalls /\ LUAI_MAXCCALLS \in Nat /\ ErrorCalls \in Nat
      BY <2>1, Types DEF L
    <3>3. Depth(cs', Len(cs')) = Depth(cs, k - 1) /\ raising' = "none"
      BY <2>1, <2>8
    <3>. QED
      BY ONLY <3>1, <3>2, <3>3 DEF RaisingOK
  <2>12. TypesOK'
    BY <2>1, <2>8, Types DEF TypesOK, Kinds
  <2>13. SharedOK' /\ CallsBounded'
    BY <2>1 DEF LInv, SharedOK, CallsBounded
  <2>14. StatusOK'
    <3>1. \A v \in Threads : v # t => status'[v] = status[v] /\ status'[t] = "yield"
      BY <2>1, <2>2, Types
    <3>2. /\ status[main] = "ok"
          /\ \A i \in 1 .. L : status[cs[i].th] = "ok" /\ (cs[i].th # main => started[cs[i].th])
          /\ \A v \in Threads : status[v] = "yield" =>
               /\ Len(ci[v]) > 1 /\ ci[v][Len(ci[v])] = "C"
               /\ \A i \in 1 .. Len(ci[v]) - 1 : ci[v][i] = "Lua"
      BY DEF LInv, StatusOK, L
    <3>3. status'[main] = "ok"
      <4>1. main \in Threads /\ main # t
        BY <2>3, Types DEF Threads
      <4>. QED
        BY ONLY <4>1, <3>1, <3>2
    <3>4. \A i \in 1 .. Len(cs') : status'[cs'[i].th] = "ok" /\ (cs'[i].th # main => started'[cs'[i].th])
      BY ONLY <3>1, <3>2, <2>1, <2>2, <2>8, <2>9
    <3>5. \A v \in Threads : v = t \/ (status'[v] = "yield" => status[v] = "yield") 
      BY ONLY <3>1
    <3>6. \A v \in Threads : status'[v] = "yield" =>
            /\ Len(ci'[v]) > 1 /\ ci'[v][Len(ci'[v])] = "C"
            /\ \A i \in 1 .. Len(ci'[v]) - 1 : ci'[v][i] = "Lua"
      BY ONLY <3>5, <3>2, <2>1, <2>10
    <3>. QED
      BY ONLY <3>3, <3>4, <3>6 DEF StatusOK
  <2>. QED
    BY <2>8, <2>11, <2>12, <2>13, <2>14 DEF LInv
<1>. QED
  BY <1>1, <1>2

\* A coroutine that is suspended has no activation: it has yielded, or not begun.
LEMMA Suspended ==
  ASSUME LuaDoAssumption, LInv, NEW co \in Coroutines, luaB_coresume(co)
  PROVE  /\ cs # << >> /\ Last(cs).fn = "C" /\ raising = "none"
         /\ co \in Threads /\ co # main /\ \A i \in 1 .. Len(cs) : cs[i].th \in Threads /\ cs[i].th # co
         /\ status[co] = "yield" \/ (status[co] = "ok" /\ ci[co] = << >> /\ ~started[co])
<1>1. cs # << >> /\ Last(cs).fn = "C" /\ raising = "none" /\ costatus(co) = "suspended" /\ status[co] # "none"
  BY DEF luaB_coresume, Top
<1>2. co \in Threads /\ co # main
  BY Types DEF Threads
<1>3. status[co] = "yield" \/ (status[co] = "ok" /\ ci[co] = << >> /\ ~started[co])
  <2>. DEFINE s == status[co]  d == ci[co]  b == started[co]  t == Running
  <2>1. /\ "running" # "suspended" /\ "normal" # "suspended" /\ "dead" # "suspended"
        /\ "suspended" = IF t = co THEN "running"
                          ELSE CASE s = "yield" -> "suspended"
                                 [] s = "ok" -> IF d # << >> THEN "normal" ELSE IF b THEN "dead" ELSE "suspended"
                                 [] OTHER -> "dead"
    BY <1>1 DEF costatus
  <2>2. b \in BOOLEAN
    BY <1>2, Types
  <2>. HIDE DEF s, d, b, t
  <2>3. s = "yield" \/ (s = "ok" /\ d = << >> /\ ~b)
    <3>1. CASE t = co
      BY ONLY <2>1, <3>1
    <3>2. CASE t # co /\ s = "ok"
      BY ONLY <2>1, <3>2
    <3>3. CASE t # co /\ s # "ok"
      BY ONLY <2>1, <3>3
    <3>. QED
      BY ONLY <3>1, <3>2, <3>3
  <2>. QED
    BY <2>3 DEF s, d, b
<1>4. \A i \in 1 .. Len(cs) : status[cs[i].th] = "ok" /\ (cs[i].th # main => started[cs[i].th])
  BY DEF LInv, StatusOK
<1>5. \A i \in 1 .. Len(cs) : cs[i].th # co
  BY ONLY <1>2, <1>3, <1>4
<1>6. \A i \in 1 .. Len(cs) : cs[i].th \in Threads
  <2>1. \A i \in 1 .. Len(cs) : cs[i] \in Record
    BY DEF LInv, Agree, StackOK
  <2>. QED
    BY <2>1, RecordFields
<1>. QED
  BY <1>1, <1>2, <1>3, <1>5, <1>6

\* The activation of a resumption, on top of the function that resumes.
Resumption(co) == [fn |-> "resume", th |-> co, previous |-> errorJmp[co]]

LEMMA Resumes ==
  ASSUME LuaDoAssumption, LInv, NEW co \in Coroutines, cs # << >>, Last(cs).fn = "C",
         \A i \in 1 .. Len(cs) : cs[i].th # co
  PROVE  LET L == Len(cs)  u == Append(cs, Resumption(co))  n == nCcalls[Running] + 1 IN
           /\ Agree(u, [nCcalls EXCEPT ![co] = n], [baseCcalls EXCEPT ![co] = n], [ci EXCEPT ![co] = << >>],
                    [errorJmp EXCEPT ![co] = L + 1], errfunc)
           /\ n = Depth(u, L + 1) /\ n \in Nat /\ Len(u) = L + 1 /\ L \in Nat
           /\ u[L+1] = Resumption(co) /\ \A i \in 1 .. L : u[i] = cs[i]
<1>. DEFINE L == Len(cs)
            r == Resumption(co)
            u == Append(cs, r)
            n == nCcalls[Running] + 1
            nn == [nCcalls EXCEPT ![co] = n]
            bb == [baseCcalls EXCEPT ![co] = n]
            cc == [ci EXCEPT ![co] = << >>]
            jj == [errorJmp EXCEPT ![co] = L + 1]
<1>1. /\ cs \in Seq(Record) /\ L \in Nat /\ L \in 1 .. L /\ n = Depth(cs, L) + 1 /\ cs[L].fn = "C" /\ L # 0
  BY WhoRuns
<1>2. /\ r \in Record /\ r.fn = "resume" /\ r.th = co /\ r.previous = errorJmp[co] /\ co \in Threads
  BY Types DEF Record, Resumption, Threads
<1>3. /\ errorJmp[co] = LastOf(Catchers(cs, co, L)) /\ Handler(cs, co, errfunc[co], L) /\ errfunc[co] \in Nat
      /\ Agree(cs, nCcalls, baseCcalls, ci, errorJmp, errfunc)
  BY <1>2, Types DEF LInv, Agree, CatchOK, HandlerOK
<1>. HIDE DEF r, n
<1>4. /\ u \in Seq(Record) /\ Len(u) = L + 1 /\ u[L+1] = r /\ \A i \in 1 .. L : u[i] = cs[i]
      /\ Depth(cs, L) \in Nat
      /\ Depth(u, L + 1) = Depth(cs, L) + (IF r.fn \in {"call", "resume"} THEN 1 ELSE 0)
      /\ \A v \in Threads : /\ CallsOf(u, v, L) = CallsOf(cs, v, L)
                           /\ CallsOf(u, v, L + 1) = CallsOf(cs, v, L) \o (IF r.th = v THEN Frames(r) ELSE << >>)
                           /\ Catchers(u, v, L) = Catchers(cs, v, L)
      /\ \A v \in Threads, h \in Nat : Handler(u, v, h, L) = Handler(cs, v, h, L)
  BY ONLY <1>1, <1>2, Below
<1>. HIDE DEF u
<1>5. CallsOf(u, co, L + 1) = << >>
  <2>1. L \in 0 .. Len(cs) /\ 0 \in 0 .. Len(cs) /\ L \in 0 .. L /\ \A i \in 0 + 1 .. L : cs[i].th # co
    BY <1>1
  <2>2. CallsOf(cs, co, L) = CallsOf(cs, co, 0)
    <3>1. \A m \in 0 .. Len(cs) : (\A i \in 0 + 1 .. m : cs[i].th # co) => CallsOf(cs, co, m) = CallsOf(cs, co, 0)
      BY ONLY <1>1, <2>1, CallsPrefix
    <3>. QED
      BY ONLY <2>1, <3>1
  <2>3. CallsOf(cs, co, 0) = << >>
    BY <1>1, CallsStep
  <2>4. Frames(r) = << >> /\ << >> \o << >> = << >>
    BY <1>2 DEF Frames
  <2>. QED
    BY <2>2, <2>3, <2>4, <1>2, <1>4
<1>6. Depth(u, L + 1) = n
  BY <1>1, <1>2, <1>4
<1>. HIDE DEF L
<1>7. RecordOK(u, L + 1)
  <2>1. (L + 1) - 1 = L /\ ~(L + 1 = 1)
    BY <1>1
  <2>2. Above(u[L], u[L+1])
    BY <1>1, <1>2, <1>4 DEF Above
  <2>3. \A i \in 1 .. L : u[i].th # co
    BY <1>4 DEF L
  <2>. QED
    BY <2>1, <2>2, <2>3, <1>2, <1>3, <1>4 DEF RecordOK
<1>8. LastOf(Catchers(u, co, L + 1)) = L + 1
  <2>1. Catchers(u, co, L + 1) \subseteq 1 .. L + 1 /\ L + 1 \in Catchers(u, co, L + 1) /\ L + 1 \in Nat
    BY <1>1, <1>2, <1>4 DEF Catchers
  <2>2. \A i \in Catchers(u, co, L + 1) : i <= L + 1
    BY <2>1
  <2>. QED
    BY ONLY <2>1, <2>2, LastOfIs
<1>9. Handler(u, co, errfunc[co], L + 1)
  <2>1. Handler(u, co, errfunc[co], L)
    BY <1>2, <1>3, <1>4
  <2>2. \A k \in 1 .. L : k \in 1 .. L + 1
    BY <1>1
  <2>. QED
    BY ONLY <2>1, <2>2 DEF Handler
<1>10. MayPush(cs, nCcalls, baseCcalls, ci, errorJmp, errfunc, r, nn, bb, cc, jj, errfunc)
  <2>1. /\ nn[co] = n /\ bb[co] = n /\ cc[co] = << >> /\ jj[co] = L + 1
        /\ \A v \in Threads : v # co => /\ nn[v] = nCcalls[v] /\ bb[v] = baseCcalls[v]
                                       /\ cc[v] = ci[v] /\ jj[v] = errorJmp[v]
    BY <1>2, Types
  <2>2. errfunc \in [Threads -> Nat] /\ main \notin Coroutines /\ u = Append(cs, r) /\ L = Len(cs)
    BY Types DEF u, L
  <2>. HIDE DEF nn, bb, cc, jj
  <2>. QED
    BY ONLY <2>1, <2>2, <1>2, <1>3, <1>5, <1>6, <1>7, <1>8, <1>9 DEF MayPush
<1>11. Agree(u, nn, bb, cc, jj, errfunc)
  <2>1. u = Append(cs, r)
    BY DEF u
  <2>. HIDE DEF nn, bb, cc, jj
  <2>. QED
    BY ONLY <1>10, <2>1, PushAgrees
<1>12. n \in Nat
  BY <1>1, <1>4
<1>. QED
  BY <1>1, <1>4, <1>6, <1>11, <1>12 DEF L, u, r, n

\* Who is alive once a coroutine has been resumed.
LEMMA StatusResumed ==
  ASSUME LuaDoAssumption, LInv, NEW co \in Coroutines,
         started' = [started EXCEPT ![co] = TRUE],
         \A i \in 1 .. Len(cs') : cs'[i].th = co \/ \E k \in 1 .. Len(cs) : cs'[i].th = cs[k].th,
         \/ status' = status
         \/ status' = [status EXCEPT ![co] = "ok"],
         \A i \in 1 .. Len(cs') : cs'[i].th = co => status'[co] = "ok",
         \A v \in Threads : v # co => ci'[v] = ci[v],
         status'[co] = "yield" => ci'[co] = ci[co]
  PROVE  StatusOK'
<1>1. co \in Threads /\ co # main /\ main \in Threads
  BY Types DEF Threads
<1>2. /\ started'[co] /\ \A v \in Threads : v # co => started'[v] = started[v] /\ status'[v] = status[v]
      /\ status'[co] = status[co] \/ status'[co] = "ok"
  BY <1>1, Types
<1>3. /\ status[main] = "ok"
      /\ \A i \in 1 .. Len(cs) : status[cs[i].th] = "ok" /\ (cs[i].th # main => started[cs[i].th])
      /\ \A v \in Threads : status[v] = "yield" =>
           /\ Len(ci[v]) > 1 /\ ci[v][Len(ci[v])] = "C"
           /\ \A i \in 1 .. Len(ci[v]) - 1 : ci[v][i] = "Lua"
  BY DEF LInv, StatusOK
<1>4. \A i \in 1 .. Len(cs) : cs[i].th \in Threads
  <2>1. \A i \in 1 .. Len(cs) : cs[i] \in Record
    BY DEF LInv, Agree, StackOK
  <2>. QED
    BY <2>1, RecordFields
<1>5. status'[main] = "ok"
  BY <1>1, <1>2, <1>3
<1>6. ASSUME NEW i \in 1 .. Len(cs')
      PROVE  status'[cs'[i].th] = "ok" /\ (cs'[i].th # main => started'[cs'[i].th])
  <2>1. CASE cs'[i].th = co
    BY <2>1, <1>2
  <2>2. CASE cs'[i].th # co
    <3>1. PICK k \in 1 .. Len(cs) : cs'[i].th = cs[k].th
      BY <2>2
    <3>. QED
      BY ONLY <2>2, <3>1, <1>2, <1>3, <1>4
  <2>. QED
    BY <2>1, <2>2
<1>7. \A v \in Threads : status'[v] = "yield" => status[v] = "yield" /\ ci'[v] = ci[v]
  BY <1>2
<1>8. \A v \in Threads : status'[v] = "yield" =>
        /\ Len(ci'[v]) > 1 /\ ci'[v][Len(ci'[v])] = "C"
        /\ \A i \in 1 .. Len(ci'[v]) - 1 : ci'[v][i] = "Lua"
  BY ONLY <1>3, <1>7
<1>. QED
  BY <1>5, <1>6, <1>8 DEF StatusOK

LEMMA CoroutineResumed ==
  ASSUME LuaDoAssumption, LInv, NEW co \in Coroutines, luaB_coresume(co)
  PROVE  LInv'
<1>. DEFINE L == Len(cs)
            n == nCcalls[Running] + 1
            r == Resumption(co)
            u == Append(cs, r)
            nn == [nCcalls EXCEPT ![co] = n]
            bb == [baseCcalls EXCEPT ![co] = n]
            cc == [ci EXCEPT ![co] = << >>]
            jj == [errorJmp EXCEPT ![co] = L + 1]
<1>1. /\ cs # << >> /\ Last(cs).fn = "C" /\ raising = "none"
      /\ co \in Threads /\ co # main /\ \A i \in 1 .. L : cs[i].th \in Threads /\ cs[i].th # co
      /\ status[co] = "yield" \/ (status[co] = "ok" /\ ci[co] = << >>)
  BY Suspended
<1>2. /\ started' = [started EXCEPT ![co] = TRUE] /\ errfunc' = errfunc /\ openupval' = openupval
      /\ IF n > LUAI_MAXCCALLS
         THEN /\ nCcalls' = [nCcalls EXCEPT ![co] = n - 1]
              /\ UNCHANGED << cs, ci, size_ci, baseCcalls, errorJmp, status, raising >>
         ELSE /\ nCcalls' = nn /\ baseCcalls' = bb /\ errorJmp' = jj
              /\ IF status[co] = "ok"
                 THEN /\ luaD_precall(co, "Lua", u, cs \o << r, Execute(co, 1) >>)
                      /\ status' = status
                 ELSE /\ status' = [status EXCEPT ![co] = "ok"]
                      /\ ci' = [ci EXCEPT ![co] = Front(@)]
                      /\ cs' = cs \o << r, Execute(co, Len(ci[co]) - 1) >>
                      /\ size_ci' = size_ci /\ raising' = raising
  BY DEF luaB_coresume, lua_setlevel, luaD_poscall, Resumption
<1>3. /\ Agree(u, nn, bb, cc, jj, errfunc) /\ n = Depth(u, L + 1) /\ n \in Nat /\ Len(u) = L + 1 /\ L \in Nat
      /\ u[L+1] = r /\ \A i \in 1 .. L : u[i] = cs[i]
  BY <1>1, Resumes
<1>4. r.fn = "resume" /\ r.th = co
  BY DEF Resumption
<1>5. nCcalls[Running] \in Nat /\ (n > LUAI_MAXCCALLS => n - 1 \in Nat)
  <2>1. Running \in Threads
    BY WhoRuns
  <2>. QED
    BY <2>1, Types
<1>6. cs \in Seq(Record) /\ r \in Record
  <2>1. errorJmp[co] \in Nat
    BY <1>1, Types
  <2>. QED
    BY <2>1, <1>1, WhoRuns DEF Resumption, Record
<1>. HIDE DEF n, r
<1>7. CASE n > LUAI_MAXCCALLS
  <2>1. /\ nCcalls' = [nCcalls EXCEPT ![co] = n - 1] /\ cs' = cs /\ ci' = ci /\ size_ci' = size_ci
        /\ baseCcalls' = baseCcalls /\ errorJmp' = errorJmp /\ status' = status /\ raising' = raising
    BY <1>2, <1>7
  <2>2. nCcalls' \in [Threads -> Nat] /\ \A v \in Threads : v # co => nCcalls'[v] = nCcalls[v]
    BY <2>1, <1>1, <1>5, <1>7, Types
  <2>3. CountOK(cs, nCcalls')
    <3>1. CountOK(cs, nCcalls)
      BY DEF LInv, Agree
    <3>. QED
      BY <3>1, <2>2, <1>1 DEF CountOK
  <2>4. Agree(cs', nCcalls', baseCcalls', ci', errorJmp', errfunc')
    BY <2>1, <2>3, <1>2 DEF LInv, Agree
  <2>5. StatusOK'
    <3>1. /\ \A i \in 1 .. Len(cs') : cs'[i].th = co \/ \E k \in 1 .. Len(cs) : cs'[i].th = cs[k].th
          /\ \A i \in 1 .. Len(cs') : cs'[i].th = co => status'[co] = "ok"
          /\ \A v \in Threads : v # co => ci'[v] = ci[v]
          /\ status'[co] = "yield" => ci'[co] = ci[co]
      BY <2>1, <1>1
    <3>. QED
      BY <3>1, <2>1, <1>2, StatusResumed
  <2>6. TypesOK'
    <3>1. started' \in [Threads -> BOOLEAN]
      BY <1>2, Types
    <3>. QED
      BY <3>1, <2>1, <2>2, <1>2, Types DEF TypesOK, Kinds
  <2>7. SharedOK' /\ CallsBounded' /\ RaisingOK'
    BY <2>1, <1>2 DEF LInv, SharedOK, CallsBounded, RaisingOK
  <2>. QED
    BY <2>4, <2>5, <2>6, <2>7 DEF LInv
<1>8. CASE ~(n > LUAI_MAXCCALLS)
  <2>. DEFINE C == cs'
  <2>1. nCcalls' = nn /\ baseCcalls' = bb /\ errorJmp' = jj
    BY <1>2, <1>8
  <2>2. /\ nn \in [Threads -> Nat] /\ bb \in [Threads -> Nat] /\ jj \in [Threads -> Nat]
        /\ started' \in [Threads -> BOOLEAN] /\ cc \in [Threads -> Seq(Kinds)] /\ cc[co] = << >>
        /\ errfunc \in [Threads -> Nat]
    <3>1. << >> \in Seq(Kinds) /\ L + 1 \in Nat
      BY <1>3
    <3>2. cc \in [Threads -> Seq(Kinds)] /\ cc[co] = << >>
      BY <3>1, <1>1, Types
    <3>3. started' \in [Threads -> BOOLEAN]
      BY <1>2, Types
    <3>4. nn \in [Threads -> Nat] /\ bb \in [Threads -> Nat] /\ jj \in [Threads -> Nat]
      BY <3>1, <1>3, Types
    <3>. QED
      BY <3>2, <3>3, <3>4, Types
  <2>3. n <= LUAI_MAXCCALLS /\ n < LUAI_MAXCCALLS + ErrorCalls /\ n <= LUAI_MAXCCALLS + ErrorCalls
    <3>1. LUAI_MAXCCALLS \in Nat /\ ErrorCalls \in Nat \ {0}
      BY DEF LuaDoAssumption
    <3>. QED
      BY ONLY <3>1, <1>3, <1>8
  <2>. HIDE DEF nn, bb, cc, jj, u
  \* What entering luaV_execute above the resumption makes of it.
  <2>4. ASSUME NEW m \in Nat \ {0}
        PROVE  LET e == Execute(co, m) IN
                 /\ Agree(Append(u, e), nn, bb, [cc EXCEPT ![co] = LuaFrames(m)], jj, errfunc)
                 /\ Depth(Append(u, e), L + 2) = n
                 /\ cs \o << r, e >> = Append(u, e) /\ Len(Append(u, e)) = L + 2 /\ Append(u, e)[L+2] = e
                 /\ \A i \in 1 .. L + 1 : Append(u, e)[i] = u[i]
    <3>. DEFINE e == Execute(co, m)
    <3>1. /\ e \in Record /\ e.fn = "execute" /\ e.th = co
          /\ Frames(e) = LuaFrames(m)
      BY <1>1 DEF Record, Execute, Frames, LuaFrames
    <3>2. /\ u \in Seq(Record) /\ Len(u) # 0 /\ u[Len(u)] = r /\ Above(u[Len(u)], e) /\ co = u[Len(u)].th
          /\ Len(u) + 1 = L + 2
      <4>1. u \in Seq(Record)
        BY <1>6 DEF u
      <4>2. Len(u) = L + 1 /\ Len(u) # 0
        BY ONLY <1>3
      <4>3. u[Len(u)] = r
        BY ONLY <4>2, <1>3
      <4>4. Above(r, e)
        BY <3>1, <1>4 DEF Above
      <4>. QED
        BY <4>1, <4>2, <4>3, <4>4, <1>3, <1>4
    <3>. HIDE DEF e
    <3>3. /\ Agree(Append(u, e), [nn EXCEPT ![co] = IF e.fn = "call" THEN @ + 1 ELSE @], bb,
                   [cc EXCEPT ![co] = @ \o Frames(e)], jj, errfunc)
          /\ Depth(Append(u, e), Len(u) + 1) = IF e.fn = "call" THEN Depth(u, Len(u)) + 1 ELSE Depth(u, Len(u))
      <4>1. main \notin Coroutines /\ e.fn \in {"call", "execute", "C"}
        BY <3>1, Types
      <4>. QED
        BY ONLY <4>1, <3>1, <3>2, <2>2, <1>3, PushPlain
    <3>4. [nn EXCEPT ![co] = IF e.fn = "call" THEN @ + 1 ELSE @] = nn
      BY <3>1, <2>2
    <3>5. [cc EXCEPT ![co] = @ \o Frames(e)] = [cc EXCEPT ![co] = LuaFrames(m)]
      <4>1. LuaFrames(m) \in Seq(Kinds)
        BY DEF LuaFrames, Kinds
      <4>2. << >> \o LuaFrames(m) = LuaFrames(m)
        BY <4>1
      <4>. QED
        BY ONLY <4>2, <3>1, <2>2
    <3>6. /\ Len(Append(u, e)) = L + 2 /\ Append(u, e)[L+2] = e
          /\ \A i \in 1 .. L + 1 : Append(u, e)[i] = u[i]
      BY <3>1, <3>2, <1>3
    <3>7. cs \o << r, e >> = Append(u, e)
      BY <3>1, <1>6 DEF u
    <3>8. Depth(Append(u, e), L + 2) = n
      BY <3>1, <3>2, <3>3, <1>3
    <3>. QED
      BY <3>3, <3>4, <3>5, <3>6, <3>7, <3>8 DEF e
  <2>5. CASE status[co] = "ok"
    <3>0. PICK m \in Nat \ {0} : m = 1
      OBVIOUS
    <3>1. /\ luaD_precall(co, "Lua", u, cs \o << r, Execute(co, m) >>) /\ status' = status /\ ci[co] = << >>
      BY <3>0, <1>1, <1>2, <1>8, <2>5 DEF u
    <3>2. /\ size_ci' \in [Threads -> Nat] /\ CallsBounded'
          /\ \/ ci' = ci /\ cs' = u /\ raising' \in {"errormsg", "throw"}
             \/ /\ ci' = [ci EXCEPT ![co] = Append(@, "Lua")] /\ cs' = cs \o << r, Execute(co, m) >>
                /\ raising' = "none"
          /\ ci' \in [Threads -> Seq(Kinds)]
      <4>1. "Lua" \in Kinds /\ co \in Threads /\ LuaDoAssumption /\ LInv
        BY <1>1 DEF Kinds
      <4>. QED
        BY ONLY <4>1, <3>1, PrecallEnters
    <3>3. cc = ci
      BY <3>1, Types DEF cc
    <3>4. \/ ci' = ci /\ cs' = u /\ raising' \in {"errormsg", "throw"}
          \/ /\ cs' = Append(u, Execute(co, m)) /\ ci' = [cc EXCEPT ![co] = LuaFrames(m)] /\ raising' = "none"
      <4>1. Append(<< >>, "Lua") = LuaFrames(m)
        <5>1. LuaFrames(m) \in [1 .. m -> Kinds] /\ \A i \in 1 .. m : LuaFrames(m)[i] = "Lua"
          BY DEF LuaFrames, Kinds
        <5>2. LuaFrames(m) \in Seq(Kinds) /\ Len(LuaFrames(m)) = 1 /\ LuaFrames(m)[1] = "Lua"
          <6>1. LuaFrames(m) \in Seq(Kinds) /\ Len(LuaFrames(m)) = m
            BY ONLY <5>1, <3>0
          <6>2. LuaFrames(m)[m] = "Lua" /\ m = 1
            BY ONLY <5>1, <3>0
          <6>. HIDE DEF LuaFrames
          <6>. QED
            BY ONLY <6>1, <6>2
        <5>. QED
          BY ONLY <5>2
      <4>2. [ci EXCEPT ![co] = Append(@, "Lua")] = [cc EXCEPT ![co] = LuaFrames(m)]
        BY ONLY <4>1, <3>1, <3>3
      <4>3. cs \o << r, Execute(co, m) >> = Append(u, Execute(co, m))
        BY ONLY <2>4
      <4>. QED
        BY ONLY <3>2, <4>2, <4>3
    <3>5. /\ Agree(cs', nCcalls', baseCcalls', ci', errorJmp', errfunc')
          /\ Depth(cs', Len(cs')) = n /\ Len(cs') # 0 /\ cs'[Len(cs')].fn # "pcall"
          /\ \A i \in 1 .. Len(cs') : cs'[i].th = co \/ \E k \in 1 .. Len(cs) : cs'[i].th = cs[k].th
      <4>1. CASE ci' = ci /\ cs' = u /\ raising' \in {"errormsg", "throw"}
        <5>1. Agree(u, nn, bb, ci, jj, errfunc)
          BY ONLY <1>3, <3>3
        <5>2. \A i \in 1 .. Len(u) : u[i].th = co \/ \E k \in 1 .. Len(cs) : u[i].th = cs[k].th
          <6>1. \A i \in 1 .. Len(u) : i = L + 1 \/ i \in 1 .. L
            BY <1>3
          <6>. QED
            BY <6>1, <1>3, <1>4
        <5>3. Depth(u, Len(u)) = n /\ Len(u) # 0 /\ u[Len(u)].fn # "pcall"
          BY <1>3, <1>4
        <5>. QED
          BY <4>1, <5>1, <5>2, <5>3, <1>2, <2>1
      <4>2. CASE /\ cs' = Append(u, Execute(co, m)) /\ ci' = [cc EXCEPT ![co] = LuaFrames(m)] /\ raising' = "none"
        <5>. DEFINE w == Append(u, Execute(co, m))
        <5>1. /\ Agree(w, nn, bb, [cc EXCEPT ![co] = LuaFrames(m)], jj, errfunc)
              /\ Depth(w, L + 2) = n /\ Len(w) = L + 2 /\ w[L+2] = Execute(co, m)
              /\ \A i \in 1 .. L + 1 : w[i] = u[i]
          BY <2>4
        <5>. HIDE DEF w
        <5>2. \A i \in 1 .. Len(w) : w[i].th = co \/ \E k \in 1 .. Len(cs) : w[i].th = cs[k].th
          <6>1. \A i \in 1 .. Len(w) : i = L + 2 \/ i = L + 1 \/ i \in 1 .. L
            BY <1>3, <5>1
          <6>2. w[L+2].th = co /\ w[L+1] = r
            BY <1>3, <5>1 DEF Execute
          <6>3. \A i \in 1 .. L : w[i] = cs[i]
            BY <1>3, <5>1
          <6>. QED
            BY <6>1, <6>2, <6>3, <1>4
        <5>3. Depth(w, Len(w)) = n /\ Len(w) # 0 /\ w[Len(w)].fn # "pcall"
          BY <1>3, <5>1 DEF Execute
        <5>. QED
          BY <4>2, <5>1, <5>2, <5>3, <1>2, <2>1 DEF w
      <4>. QED
        BY ONLY <3>4, <4>1, <4>2
    <3>6. StatusOK'
      <4>1. status'[co] = "ok" /\ \A v \in Threads : v # co => ci'[v] = ci[v]
        BY <3>1, <3>2, <2>5, Types
      <4>2. status'[co] # "yield"
        BY <4>1
      <4>. QED
        BY <4>1, <4>2, <3>1, <3>5, <1>2, StatusResumed
    <3>7. SharedOK'
      BY <3>2, <1>1, <1>2, SharedAppend DEF Kinds
    <3>8. RaisingOK'
      <4>1. cs' # << >>
        BY <3>5
      <4>. QED
        BY ONLY <4>1, <3>5, <2>3 DEF RaisingOK
    <3>9. TypesOK'
      BY <3>1, <3>2, <2>1, <2>2, <1>2, Types DEF TypesOK, Kinds
    <3>. QED
      BY <3>2, <3>5, <3>6, <3>7, <3>8, <3>9 DEF LInv
  <2>6. CASE status[co] = "yield"
    <3>. DEFINE y == ci[co]
                m == Len(y) - 1
                w == Append(u, Execute(co, m))
    <3>1. /\ status' = [status EXCEPT ![co] = "ok"] /\ ci' = [ci EXCEPT ![co] = Front(y)]
          /\ cs' = cs \o << r, Execute(co, m) >> /\ size_ci' = size_ci /\ raising' = "none"
      BY <1>1, <1>2, <1>8, <2>6
    <3>2. /\ y \in Seq(Kinds) /\ Len(y) \in Nat /\ Len(y) > 1 /\ y[Len(y)] = "C"
          /\ \A i \in 1 .. Len(y) - 1 : y[i] = "Lua"
      BY <1>1, <2>6, Types DEF LInv, StatusOK
    <3>. HIDE DEF y
    <3>3. m \in Nat \ {0} /\ m < Len(y)
      BY <3>2
    <3>4. /\ Front(y) = LuaFrames(m) /\ Len(Front(y)) = m /\ \A i \in 1 .. m : Front(y)[i] = y[i]
          /\ Front(y) \in Seq(Kinds)
      <4>1. /\ Front(y) \in Seq(Kinds) /\ Len(Front(y)) = m /\ \A i \in 1 .. m : Front(y)[i] = y[i]
        BY <3>2, FrontIs
      <4>. HIDE DEF m
      <4>2. LuaFrames(m) \in Seq(Kinds) /\ Len(LuaFrames(m)) = m /\ \A i \in 1 .. m : LuaFrames(m)[i] = "Lua"
        <5>1. LuaFrames(m) \in [1 .. m -> Kinds] /\ \A i \in 1 .. m : LuaFrames(m)[i] = "Lua"
          BY DEF LuaFrames, Kinds
        <5>. QED
          BY <5>1, <3>3
      <4>3. \A i \in 1 .. m : y[i] = "Lua"
        BY <3>2 DEF m
      <4>. QED
        BY ONLY <4>1, <4>2, <4>3
    <3>5. /\ Agree(w, nn, bb, [cc EXCEPT ![co] = LuaFrames(m)], jj, errfunc)
          /\ Depth(w, L + 2) = n /\ Len(w) = L + 2 /\ w[L+2] = Execute(co, m)
          /\ cs \o << r, Execute(co, m) >> = w
          /\ \A i \in 1 .. L + 1 : w[i] = u[i]
      BY <3>3, <2>4
    <3>. HIDE DEF m, w
    <3>6. ci' = [cc EXCEPT ![co] = LuaFrames(m)]
      BY <3>1, <3>4, Types DEF cc
    <3>7. Agree(cs', nCcalls', baseCcalls', ci', errorJmp', errfunc')
      BY ONLY <3>1, <3>5, <3>6, <2>1, <1>2
    <3>8. \A i \in 1 .. Len(cs') : cs'[i].th = co \/ \E k \in 1 .. Len(cs) : cs'[i].th = cs[k].th
      <4>1. \A i \in 1 .. Len(w) : i = L + 2 \/ i = L + 1 \/ i \in 1 .. L
        BY <1>3, <3>5
      <4>2. w[L+2].th = co /\ w[L+1] = r
        BY <1>3, <3>5 DEF Execute
      <4>3. \A i \in 1 .. L : w[i] = cs[i]
        BY <1>3, <3>5
      <4>4. cs' = w
        BY <3>1, <3>5
      <4>. QED
        BY ONLY <4>1, <4>2, <4>3, <4>4, <1>4
    <3>9. StatusOK'
      <4>1. status'[co] = "ok" /\ \A v \in Threads : v # co => ci'[v] = ci[v]
        BY <3>1, <1>1, Types
      <4>2. status'[co] # "yield"
        BY <4>1
      <4>. QED
        BY <4>1, <4>2, <3>1, <3>8, <1>2, StatusResumed
    <3>10. ci' \in [Threads -> Seq(Kinds)] /\ ci'[co] = Front(y) /\ \A v \in Threads : v # co => ci'[v] = ci[v]
      BY <3>1, <3>4, <1>1, Types
    <3>11. SharedOK'
      <4>. SUFFICES ASSUME NEW v \in Threads, NEW d \in openupval[v]
                    PROVE  d \in 1 .. Len(ci'[v]) /\ ci'[v][d] = ci[v][d]
        BY <1>2, SharedKept
      <4>1. d \in 1 .. Len(ci[v]) /\ ci[v][d] = "Lua"
        BY DEF LInv, SharedOK
      <4>2. CASE v # co
        BY <4>1, <4>2, <3>10
      <4>3. CASE v = co
        <5>1. d # Len(y) /\ d \in 1 .. Len(y)
          BY <4>1, <4>3, <3>2 DEF y
        <5>2. d \in 1 .. m
          BY <5>1, <3>2 DEF m
        <5>. QED
          BY <5>2, <4>3, <3>4, <3>10 DEF y
      <4>. QED
        BY <4>2, <4>3
    <3>12. CallsBounded'
      <4>1. Len(y) < size_ci[co] /\ size_ci[co] \in Nat /\ m \in Nat
        BY <1>1, <3>3, Types DEF LInv, CallsBounded, y
      <4>2. Len(ci'[co]) < size_ci[co]
        BY <4>1, <3>2, <3>3, <3>4, <3>10
      <4>. QED
        BY <4>2, <3>1, <3>10 DEF LInv, CallsBounded
    <3>13. RaisingOK'
      <4>1. Depth(cs', Len(cs')) = n /\ raising' = "none"
        BY <3>1, <3>5
      <4>. QED
        BY ONLY <4>1, <2>3 DEF RaisingOK
    <3>14. TypesOK'
      <4>1. status' \in [Threads -> {"none", "ok", "yield", "error"}]
        BY <3>1, Types
      <4>. QED
        BY <4>1, <3>1, <3>10, <2>1, <2>2, <1>2, Types DEF TypesOK, Kinds
    <3>. QED
      BY <3>7, <3>9, <3>11, <3>12, <3>13, <3>14 DEF LInv
  <2>. QED
    BY <1>1, <2>5, <2>6
<1>. QED
  BY <1>7, <1>8

--------------------------------------------------------------------------------
(* The invariant of the specification *)

LEMMA InitHolds ==
  ASSUME LuaDoAssumption, Init
  PROVE  LInv
<1>1. /\ cs = << >> /\ Len(cs) = 0 /\ cs \in Seq(Record) /\ 1 .. 0 = {} /\ 2 .. 0 = {}
      /\ main \in Threads /\ raising = "none"
  BY DEF Init, Threads
<1>2. \A t \in Threads :
        /\ ci[t] = << >> /\ size_ci[t] = BASIC_CI_SIZE /\ nCcalls[t] = 0 /\ baseCcalls[t] = 0
        /\ errorJmp[t] = 0 /\ errfunc[t] = 0 /\ status[t] # "yield" /\ openupval[t] = {}
  BY DEF Init
<1>3. TypesOK
  <2>1. << >> \in Seq({"Lua", "C"}) /\ BASIC_CI_SIZE \in Nat /\ 0 \in Nat
    BY DEF LuaDoAssumption
  <2>. QED
    BY <2>1 DEF Init, TypesOK
<1>4. Agree(cs, nCcalls, baseCcalls, ci, errorJmp, errfunc)
  <2>1. StackOK(cs) /\ CountOK(cs, nCcalls) /\ BaseOK(cs, baseCcalls) /\ FramesOK(cs, ci)
    BY <1>1, <1>2 DEF StackOK, CountOK, BaseOK, FramesOK
  <2>2. CatchOK(cs, errorJmp)
    <3>1. \A t \in Threads : Catchers(cs, t, Len(cs)) = {}
      BY <1>1 DEF Catchers
    <3>2. LastOf({}) = 0
      BY DEF LastOf
    <3>. QED
      BY <3>1, <3>2, <1>2 DEF CatchOK
  <2>3. HandlerOK(cs, errfunc)
    BY <1>2 DEF HandlerOK, Handler
  <2>. QED
    BY <2>1, <2>2, <2>3 DEF Agree
<1>5. StatusOK
  <2>1. status[main] = "ok"
    BY <1>1 DEF Init
  <2>. QED
    BY <2>1, <1>1, <1>2 DEF StatusOK
<1>6. SharedOK
  BY <1>2 DEF SharedOK
<1>7. CallsBounded
  <2>1. Len(<< >>) = 0 /\ 0 < BASIC_CI_SIZE /\ BASIC_CI_SIZE <= 2 * LUAI_MAXCALLS
    BY DEF LuaDoAssumption
  <2>. QED
    BY <2>1, <1>2 DEF CallsBounded
<1>8. RaisingOK
  <2>1. Depth(cs, Len(cs)) = 0
    <3>1. 0 \in Nat
      OBVIOUS
    <3>. QED
      BY <3>1, <1>1, DepthStep
  <2>2. 0 < LUAI_MAXCCALLS + ErrorCalls /\ 0 <= LUAI_MAXCCALLS + ErrorCalls
    BY DEF LuaDoAssumption
  <2>. QED
    BY ONLY <2>1, <2>2, <1>1 DEF RaisingOK
<1>. QED
  BY <1>3, <1>4, <1>5, <1>6, <1>7, <1>8 DEF LInv

LEMMA StepHolds ==
  ASSUME LuaDoAssumption, LInv, [Next]_vars
  PROVE  LInv'
<1>1. CASE UNCHANGED vars
  BY <1>1 DEF vars, threads, LInv, TypesOK, StatusOK, SharedOK, CallsBounded, RaisingOK
<1>2. ASSUME NEW kind \in {"Lua", "C"},
             \/ OP_CALL(kind) \/ lua_call(kind)
             \/ \E handler \in BOOLEAN : lua_pcall(handler, kind)
      PROVE  LInv'
  <2>1. kind \in Kinds
    BY DEF Kinds
  <2>. QED
    BY <1>2, <2>1, CallInstruction, LuaCall, ProtectedCall
<1>3. ASSUME NEW co \in Coroutines, luaB_cocreate(co) \/ luaB_coresume(co) \/ luaE_freethread(co)
      PROVE  LInv'
  BY <1>3, CreatesCoroutine, CoroutineResumed, FreesCoroutine
<1>4. CASE \/ OP_RETURN \/ CFunctionReturns \/ CallReturns \/ PcallReturns \/ ResumeReturns
           \/ OP_CLOSURE \/ Error \/ luaG_errormsg \/ luaD_throw \/ lua_yield
  BY <1>4, ReturnInstruction, CFunctionReturn, CallReturn, CatcherReturns,
     SharesVariable, RaisesError, ErrorMessage, ErrorCaught, Yields
<1>. QED
  BY <1>1, <1>2, <1>3, <1>4 DEF Next

LEMMA Invariance ==
  ASSUME LuaDoAssumption
  PROVE  Spec => []LInv
<1>1. Init => LInv
  BY InitHolds
<1>2. LInv /\ [Next]_vars => LInv'
  BY StepHolds
<1>. QED
  BY <1>1, <1>2, PTL DEF Spec

--------------------------------------------------------------------------------
(* What it says of the counts and of what refers to what *)

\* The count of nested C calls of every thread on the C stack is that of the
\* records below it, and neither it nor the array of calls passes its limit.
THEOREM LuaStacksBounded ==
  ASSUME LuaDoAssumption
  PROVE  Spec => []StacksBounded
<1>. SUFFICES LInv => StacksBounded
  BY Invariance, PTL
<1>. SUFFICES ASSUME LInv PROVE StacksBounded
  OBVIOUS
<1>0. /\ cs \in Seq(Record) /\ Len(cs) \in Nat /\ DOMAIN cs = 1 .. Len(cs)
      /\ StackOK(cs) /\ CountOK(cs, nCcalls)
  BY DEF LInv, Agree, StackOK
<1>1. CountsTheCStack
  <2>. SUFFICES ASSUME NEW t \in Threads, OnStack(t)
                PROVE  nCcalls[t] = Counted(SubSeq(cs, 1, LastOf({i \in DOMAIN cs : cs[i].th = t})))
    BY DEF CountsTheCStack
  <2>. DEFINE S == {i \in DOMAIN cs : cs[i].th = t}
              m == LastOf(S)
              u == SubSeq(cs, 1, m)
  <2>1. S \subseteq 1 .. Len(cs) /\ S # {}
    BY <1>0 DEF OnStack
  <2>2. m \in S /\ \A i \in S : i <= m
    <3>. HIDE DEF S
    <3>. QED
      BY ONLY <1>0, <2>1, LastOfIs
  <2>. HIDE DEF m
  <2>3. m \in 1 .. Len(cs) /\ cs[m].th = t
    BY <2>2, <1>0
  <2>4. m = Len(cs) \/ cs[m+1].fn = "resume"
    <3>. SUFFICES ASSUME m # Len(cs) PROVE cs[m+1].fn = "resume"
      OBVIOUS
    <3>1. m + 1 \in 1 .. Len(cs) /\ m + 1 > 1 /\ (m + 1) - 1 = m /\ ~(m + 1 <= m)
      <4>1. m \in 1 .. Len(cs) /\ Len(cs) \in Nat
        BY <1>0, <2>3
      <4>. QED
        BY ONLY <4>1, m # Len(cs)
    <3>2. cs[m+1].th # t
      BY <3>1, <2>2, <1>0
    <3>3. Above(cs[m], cs[m+1])
      BY <3>1, <1>0 DEF StackOK, RecordOK
    <3>. QED
      BY <3>2, <3>3, <2>3 DEF Above
  <2>5. nCcalls[t] = Depth(cs, m)
    BY <2>3, <2>4, <1>0 DEF CountOK
  <2>6. Counted(u) = Depth(cs, m)
    <3>1. Len(u) = m /\ u \in Seq(Record) /\ DOMAIN u = 1 .. m /\ \A i \in 1 .. m : u[i] = cs[i]
      BY <2>3, <1>0
    <3>. HIDE DEF u
    <3>2. {i \in DOMAIN u : u[i].fn \in {"call", "resume"}} = Counting(cs, m)
      BY ONLY <3>1 DEF Counting
    <3>. QED
      BY ONLY <3>2 DEF Counted, Depth
  <2>. QED
    BY <2>5, <2>6 DEF m
<1>2. CStackBounded
  <2>1. {i \in DOMAIN cs : cs[i].fn \in {"call", "resume"}} = Counting(cs, Len(cs))
    BY <1>0 DEF Counting
  <2>2. Counted(cs) = Depth(cs, Len(cs))
    BY ONLY <2>1 DEF Counted, Depth
  <2>. QED
    BY <2>2 DEF CStackBounded, LInv, RaisingOK
<1>3. CallsBounded
  BY DEF LInv
<1>. QED
  BY <1>1, <1>2, <1>3 DEF StacksBounded

\* Errors are caught by the innermost activation of the thread that raised them,
\* the calls of a thread are those its activations answer for, and shared
\* variables and message handlers lie in calls in progress.
THEOREM LuaStacksAgree ==
  ASSUME LuaDoAssumption
  PROVE  Spec => []StacksAgree
<1>. SUFFICES LInv => StacksAgree
  BY Invariance, PTL
<1>. SUFFICES ASSUME LInv PROVE StacksAgree
  OBVIOUS
<1>. DEFINE L == Len(cs)
<1>0. /\ cs \in Seq(Record) /\ L \in Nat /\ DOMAIN cs = 1 .. L
      /\ StackOK(cs) /\ \A i \in 1 .. L : cs[i] \in Record /\ cs[i].th \in Threads
  <2>1. StackOK(cs)
    BY DEF LInv, Agree
  <2>2. \A i \in 1 .. L : cs[i] \in Record
    BY <2>1 DEF StackOK
  <2>3. \A i \in 1 .. L : cs[i].th \in Threads
    BY <2>2, RecordFields
  <2>. QED
    BY <2>1, <2>2, <2>3 DEF StackOK
<1>1. CaughtWhereItShould
  <2>1. \A t \in Threads : Catching(t) = Catchers(cs, t, L)
    BY <1>0 DEF Catching, Catchers
  <2>2. \A t \in Threads : errorJmp[t] = LastOf(Catching(t))
    BY <2>1 DEF LInv, Agree, CatchOK
  <2>3. ASSUME raising # "none"
        PROVE  errorJmp[Running] = LastOf(UNION {Catching(t) : t \in Threads}) /\ errorJmp[Running] # 0
    <3>. DEFINE j == errorJmp[Running]
                S == UNION {Catching(t) : t \in Threads}
    <3>1. cs # << >>
      BY <2>3 DEF LInv, RaisingOK
    <3>2. /\ j \in 1 .. L /\ cs[j].fn \in {"pcall", "resume"}
          /\ \A k \in j + 1 .. L : cs[k].fn \notin {"pcall", "resume"}
      BY <3>1, Catches
    <3>. HIDE DEF j
    <3>3. S \subseteq 1 .. L /\ \A k \in S : cs[k].fn \in {"pcall", "resume"}
      BY <1>0 DEF Catching
    <3>4. j \in S
      <4>1. j \in Catching(cs[j].th) /\ cs[j].th \in Threads
        BY <3>2, <1>0 DEF Catching
      <4>. QED
        BY <4>1
    <3>. HIDE DEF S
    <3>5. \A k \in S : k <= j
      BY <3>2, <3>3, <1>0
    <3>6. LastOf(S) = j
      BY ONLY <1>0, <3>3, <3>4, <3>5, LastOfIs
    <3>7. j # 0
      BY <3>2
    <3>. QED
      BY <3>6, <3>7 DEF j, S
  <2>. QED
    BY <2>2, <2>3 DEF CaughtWhereItShould
<1>2. FramesMatch
  <2>1. ASSUME NEW t \in Threads, OnStack(t)
        PROVE  ci[t] = FlattenSeq([i \in DOMAIN cs |-> IF cs[i].th = t THEN Frames(cs[i]) ELSE << >>])
    <3>1. PICK i \in 1 .. L : cs[i].th = t
      BY <2>1, <1>0 DEF OnStack
    <3>2. ci[t] = CallsOf(cs, t, L)
      BY <3>1 DEF LInv, Agree, FramesOK
    <3>3. [k \in 1 .. L |-> Piece(cs, t, k)] = [k \in DOMAIN cs |-> IF cs[k].th = t THEN Frames(cs[k]) ELSE << >>]
      BY ONLY <1>0 DEF Piece
    <3>. QED
      BY ONLY <3>2, <3>3 DEF CallsOf
  <2>2. ASSUME NEW t \in Threads, status[t] = "yield"
        PROVE  /\ \A i \in DOMAIN Front(ci[t]) : ci[t][i] = "Lua"
               /\ Len(ci[t]) > 1 /\ Last(ci[t]) = "C"
    <3>1. /\ Len(ci[t]) > 1 /\ ci[t][Len(ci[t])] = "C"
          /\ \A i \in 1 .. Len(ci[t]) - 1 : ci[t][i] = "Lua"
      BY <2>2 DEF LInv, StatusOK
    <3>2. ci[t] \in Seq(Kinds) /\ Len(ci[t]) \in Nat
      BY DEF LInv, TypesOK, Kinds
    <3>3. Front(ci[t]) \in Seq(Kinds) /\ Len(Front(ci[t])) = Len(ci[t]) - 1
      BY <3>1, <3>2, FrontIs
    <3>4. DOMAIN Front(ci[t]) = 1 .. Len(ci[t]) - 1 /\ Last(ci[t]) = ci[t][Len(ci[t])]
      BY <3>3 DEF Last
    <3>. QED
      BY <3>1, <3>4
  <2>. QED
    BY <2>1, <2>2 DEF FramesMatch
<1>3. StackReferencesLive
  <2>1. ASSUME NEW t \in Threads PROVE \A d \in openupval[t] : d <= Len(ci[t]) /\ ci[t][d] = "Lua"
    <3>1. \A d \in openupval[t] : d \in 1 .. Len(ci[t]) /\ ci[t][d] = "Lua"
      BY DEF LInv, SharedOK
    <3>. QED
      BY <3>1
  <2>2. ASSUME NEW t \in Threads, NEW k \in 2 .. L,
               cs[k].fn = "pcall", cs[k].th = t, cs[k].ci + 1 = errfunc[t]
        PROVE  errfunc[t] > 1 /\ errfunc[t] - 1 <= Len(ci[t]) /\ ci[t][errfunc[t] - 1] = "C"
    <3>1. cs[k].fn = "pcall" /\ cs[k].th = t /\ cs[k].ci + 1 = errfunc[t] /\ k \in 2 .. L
      BY <2>2
    <3>. DEFINE x == CallsOf(cs, t, k - 2)
                y == CallsOf(cs, t, k - 1)
    <3>2. /\ k - 1 \in 1 .. L /\ k \in 1 .. L /\ k > 1 /\ (k - 1) - 1 = k - 2
          /\ k - 2 \in 0 .. Len(cs) /\ k - 1 \in 0 .. Len(cs) /\ L \in k - 1 .. Len(cs)
      BY <3>1, <1>0
    <3>3. Above(cs[k-1], cs[k]) /\ errfunc[t] = Len(y) + 1
      BY <3>1, <3>2, <1>0 DEF StackOK, RecordOK
    <3>4. cs[k-1].fn = "C" /\ cs[k-1].th = t
      BY <3>1, <3>3 DEF Above
    <3>5. Frames(cs[k-1]) = << "C" >>
      BY <3>4 DEF Frames
    <3>6. y = x \o << "C" >> /\ x \in Seq(Kinds)
      <4>1. /\ \A n \in 0 .. Len(cs) : CallsOf(cs, t, n) \in Seq(Kinds)
            /\ \A n \in 1 .. Len(cs) :
                 CallsOf(cs, t, n) = CallsOf(cs, t, n - 1) \o (IF cs[n].th = t THEN Frames(cs[n]) ELSE << >>)
        BY ONLY <1>0, CallsStep
      <4>. QED
        BY ONLY <4>1, <3>2, <3>4, <3>5
    <3>7. PICK z \in Seq(Kinds) : CallsOf(cs, t, L) = y \o z
      BY ONLY <1>0, <3>2, CallsPrefix
    <3>8. ci[t] = y \o z
      <4>1. ci[t] = CallsOf(cs, t, L)
        BY <3>1, <3>2 DEF LInv, Agree, FramesOK
      <4>. QED
        BY <4>1, <3>7
    <3>. HIDE DEF x, y
    <3>9. y \in Seq(Kinds) /\ Len(y) \in Nat /\ Len(y) >= 1 /\ y[Len(y)] = "C"
      <4>1. "C" \in Kinds
        BY DEF Kinds
      <4>2. y \in Seq(Kinds) /\ Len(y) = Len(x) + 1 /\ y[Len(y)] = "C" /\ Len(x) \in Nat
        BY ONLY <3>6, <4>1, LastCall
      <4>. QED
        BY ONLY <4>2
    <3>10. Len(y \o z) = Len(y) + Len(z) /\ Len(z) \in Nat /\ \A i \in 1 .. Len(y) : (y \o z)[i] = y[i]
      BY <3>9
    <3>11. Len(y) \in 1 .. Len(y) /\ Len(y) <= Len(y) + Len(z)
      BY ONLY <3>9, <3>10
    <3>. QED
      <4>1. errfunc[t] - 1 = Len(y) /\ errfunc[t] > 1
        BY ONLY <3>3, <3>9
      <4>. QED
        BY ONLY <4>1, <3>8, <3>9, <3>10, <3>11
  <2>3. ASSUME NEW t \in Threads, errfunc[t] # 0
        PROVE  \/ errfunc[t] = 1 /\ t = main
               \/ errfunc[t] > 1 /\ errfunc[t] - 1 <= Len(ci[t]) /\ ci[t][errfunc[t] - 1] = "C"
    <3>1. PICK k \in 1 .. L : cs[k].fn = "pcall" /\ cs[k].th = t /\ cs[k].ci + 1 = errfunc[t]
      BY <2>3 DEF LInv, Agree, HandlerOK, Handler
    <3>2. CASE k = 1
      <4>1. RecordOK(cs, 1) /\ 1 - 1 = 0
        BY <3>2, <1>0 DEF StackOK
      <4>2. cs[1].th = main /\ cs[1].ci = Len(CallsOf(cs, main, 0))
        BY <3>1, <3>2, <4>1 DEF RecordOK
      <4>3. CallsOf(cs, main, 0) = << >> /\ Len(<< >>) = 0
        BY <1>0, CallsStep
      <4>4. t = main /\ cs[1].ci + 1 = errfunc[t]
        BY <3>1, <3>2, <4>2, Zenon
      <4>. QED
        BY <4>2, <4>3, <4>4
    <3>3. CASE k # 1
      <4>1. k \in 2 .. L
        BY <3>3, <1>0
      <4>. QED
        BY <2>2, <3>1, <4>1
    <3>. QED
      BY <3>2, <3>3
  <2>4. \A t \in Threads : errfunc[t] \in Nat
    BY DEF LInv, TypesOK
  <2>. QED
    BY <2>1, <2>3, <2>4 DEF StackReferencesLive
<1>. QED
  BY <1>1, <1>2, <1>3 DEF StacksAgree

--------------------------------------------------------------------------------
(* How protected calls and coroutines end *)

\* Only thread t is run, resumed, created or freed.
Within(t) ==
  /\ \A i \in 1 .. Len(cs') : cs'[i].th = t \/ \E k \in 1 .. Len(cs) : cs'[i].th = cs[k].th
  /\ \A v \in Threads : v # t => ci'[v] = ci[v] /\ status'[v] = status[v] /\ started'[v] = started[v]

\* No protected call is left.
KeepsPcalls == \A i \in 1 .. Len(cs) : cs[i].fn = "pcall" => i <= Len(cs')

\* The stack u begins with the first m records of s, the others are of t.
Built(s, u, m, t) ==
  /\ s \in Seq(Record) /\ u \in Seq(Record) /\ m \in 0 .. Len(s) /\ m <= Len(u)
  /\ \A i \in 1 .. m : u[i] = s[i]
  /\ \A i \in 1 .. Len(u) : i <= m \/ u[i].th = t

LEMMA BuiltFront ==
  ASSUME NEW s \in Seq(Record), NEW m \in 0 .. Len(s), NEW t
  PROVE  Built(s, SubSeq(s, 1, m), m, t)
<1>. DEFINE u == SubSeq(s, 1, m)
<1>1. u \in Seq(Record) /\ Len(u) = m /\ \A i \in 1 .. m : u[i] = s[i]
  OBVIOUS
<1>. HIDE DEF u
<1>2. m <= Len(u) /\ \A i \in 1 .. Len(u) : i <= m
  BY <1>1
<1>. QED
  BY <1>1, <1>2 DEF Built, u

LEMMA BuiltAll ==
  ASSUME NEW s \in Seq(Record), NEW t
  PROVE  Built(s, s, Len(s), t)
BY DEF Built

LEMMA BuiltAppend ==
  ASSUME NEW s, NEW u, NEW m, NEW t, Built(s, u, m, t), NEW e \in Record, e.th = t
  PROVE  Built(s, Append(u, e), m, t)
<1>. DEFINE w == Append(u, e)
<1>1. /\ u \in Seq(Record) /\ m \in Nat /\ Len(u) \in Nat /\ m <= Len(u)
      /\ s \in Seq(Record) /\ m \in 0 .. Len(s) /\ \A i \in 1 .. m : u[i] = s[i]
      /\ \A i \in 1 .. Len(u) : i <= m \/ u[i].th = t
  BY DEF Built
<1>2. /\ w \in Seq(Record) /\ Len(w) = Len(u) + 1 /\ w[Len(u)+1] = e
      /\ \A i \in 1 .. Len(u) : w[i] = u[i]
  BY <1>1
<1>. HIDE DEF w
<1>3. \A i \in 1 .. m : w[i] = s[i]
  BY <1>1, <1>2
<1>4. \A i \in 1 .. Len(w) : i <= m \/ w[i].th = t
  <2>1. \A i \in 1 .. Len(w) : i = Len(u) + 1 \/ i \in 1 .. Len(u)
    BY <1>1, <1>2
  <2>. QED
    BY <2>1, <1>1, <1>2
<1>5. m <= Len(w)
  BY <1>1, <1>2
<1>. QED
  BY <1>1, <1>2, <1>3, <1>4, <1>5 DEF Built, w

\* A step that leaves at most the activation on top, which is no protected call.
LEMMA FromBuilt ==
  ASSUME LuaDoAssumption, LInv, NEW t, NEW m, Built(cs, cs', m, t),
         m = Len(cs) \/ (m = Len(cs) - 1 /\ cs[Len(cs)].fn # "pcall"),
         \A v \in Threads : v # t => ci'[v] = ci[v] /\ status'[v] = status[v] /\ started'[v] = started[v]
  PROVE  Within(t) /\ KeepsPcalls
<1>1. /\ cs \in Seq(Record) /\ Len(cs) \in Nat /\ Len(cs') \in Nat /\ m \in 0 .. Len(cs) /\ m <= Len(cs')
      /\ \A i \in 1 .. m : cs'[i] = cs[i]
      /\ \A i \in 1 .. Len(cs') : i <= m \/ cs'[i].th = t
  BY DEF Built
<1>2. \A i \in 1 .. Len(cs') : cs'[i].th = t \/ \E k \in 1 .. Len(cs) : cs'[i].th = cs[k].th
  <2>1. \A i \in 1 .. Len(cs') : i <= m => i \in 1 .. m /\ i \in 1 .. Len(cs)
    BY <1>1
  <2>. QED
    BY <2>1, <1>1
<1>3. KeepsPcalls
  <2>. SUFFICES ASSUME NEW i \in 1 .. Len(cs), cs[i].fn = "pcall" PROVE i <= Len(cs')
    BY DEF KeepsPcalls
  <2>1. i <= m
    BY <1>1
  <2>. QED
    BY <2>1, <1>1
<1>. QED
  BY <1>2, <1>3 DEF Within

\* A call entered or refused.
LEMMA PrecallBuilds ==
  ASSUME LuaDoAssumption, LInv, NEW t \in Threads, NEW kind \in Kinds, NEW stack, NEW entered,
         luaD_precall(t, kind, stack, entered)
  PROVE  /\ cs' = stack \/ cs' = entered
         /\ \A v \in Threads : v # t => ci'[v] = ci[v]
<1>1. /\ \/ ci' = ci /\ cs' = stack
         \/ ci' = [ci EXCEPT ![t] = Append(@, kind)] /\ cs' = entered
  BY PrecallEnters
<1>. QED
  BY <1>1, Types

LEMMA CallBuilds ==
  ASSUME LuaDoAssumption, LInv, NEW t \in Threads, NEW kind \in Kinds, NEW s, NEW then \in {"return", "throw"},
         Built(cs, s, Len(cs), t), luaD_call(t, kind, s, then)
  PROVE  /\ Built(cs, cs', Len(cs), t)
         /\ \A v \in Threads : v # t => ci'[v] = ci[v]
<1>. DEFINE c == Append(s, [fn |-> "call", th |-> t, then |-> then])
            e == IF kind = "Lua" THEN Execute(t, 1) ELSE CFunction(t)
<1>1. /\ [fn |-> "call", th |-> t, then |-> then] \in Record /\ [fn |-> "call", th |-> t, then |-> then].th = t
      /\ e \in Record /\ e.th = t
  BY DEF Record, Execute, CFunction
<1>2. Built(cs, c, Len(cs), t)
  BY <1>1, BuiltAppend
<1>. HIDE DEF c, e
<1>3. Built(cs, Append(c, e), Len(cs), t)
  BY <1>1, <1>2, BuiltAppend
<1>4. \/ cs' = c /\ ci' = ci
      \/ luaD_precall(t, kind, c, Append(c, e))
  BY DEF luaD_call, c, e
<1>5. CASE luaD_precall(t, kind, c, Append(c, e))
  BY <1>2, <1>3, <1>5, PrecallBuilds
<1>. QED
  BY <1>2, <1>4, <1>5

\* The steps in which a thread goes on running leave no protected call.
GoesOnRunning ==
  \/ \E kind \in {"Lua", "C"} :
       \/ OP_CALL(kind) \/ lua_call(kind)
       \/ \E handler \in BOOLEAN : lua_pcall(handler, kind)
  \/ OP_RETURN \/ CFunctionReturns \/ CallReturns \/ OP_CLOSURE \/ Error \/ luaG_errormsg
  \/ lua_yield /\ ~CanYield(Running)

LEMMA RunningGoesOn ==
  ASSUME LuaDoAssumption, LInv, GoesOnRunning
  PROVE  Within(Running) /\ KeepsPcalls
<1>. DEFINE t == Running
            L == Len(cs)
<1>1. /\ cs \in Seq(Record) /\ L \in Nat /\ t \in Threads
      /\ cs # << >> => L \in 1 .. L /\ Last(cs) = cs[L] /\ cs[L] \in Record /\ L - 1 \in 0 .. Len(cs)
  BY WhoRuns
<1>2. status' = status /\ started' = started
  BY DEF GoesOnRunning, OP_CALL, lua_call, lua_pcall, OP_RETURN, CFunctionReturns, CallReturns, OP_CLOSURE,
         Error, luaG_errormsg, lua_yield, threads
<1>. HIDE DEF t
<1>3. Built(cs, cs, L, t)
  BY <1>1, BuiltAll
<1>4. cs # << >> => Built(cs, SubSeq(cs, 1, L - 1), L - 1, t)
  BY <1>1, BuiltFront
<1>5. SUFFICES /\ \A v \in Threads : v # t => ci'[v] = ci[v]
               /\ \/ Built(cs, cs', L, t)
                  \/ Built(cs, cs', L - 1, t) /\ cs[L].fn # "pcall"
  <2>1. ASSUME NEW m, Built(cs, cs', m, t), m = L \/ (m = L - 1 /\ cs[L].fn # "pcall"),
               \A v \in Threads : v # t => ci'[v] = ci[v]
        PROVE  Within(t) /\ KeepsPcalls
    BY <2>1, <1>2, FromBuilt
  <2>. QED
    BY <2>1 DEF t
<1>6. CASE Error \/ OP_CLOSURE \/ (lua_yield /\ ~CanYield(Running))
  <2>1. cs' = cs /\ ci' = ci
    BY <1>6 DEF Error, OP_CLOSURE, lua_yield
  <2>. QED
    BY <2>1, <1>3
<1>7. CASE OP_RETURN \/ CFunctionReturns \/ CallReturns
  <2>1. cs # << >> /\ Last(cs).fn # "pcall" /\ Popped = SubSeq(cs, 1, L - 1)
    BY <1>7 DEF OP_RETURN, CFunctionReturns, CallReturns, Top, Popped, Front
  <2>2. ci' = ci \/ ci' = [ci EXCEPT ![t] = Front(@)]
    BY <1>7 DEF OP_RETURN, CFunctionReturns, CallReturns, luaD_poscall, t
  <2>3. Built(cs, cs', L - 1, t)
    <3>1. CASE cs' = SubSeq(cs, 1, L - 1)
      BY <2>1, <3>1, <1>4
    <3>2. CASE OP_RETURN /\ cs' # SubSeq(cs, 1, L - 1)
      <4>. DEFINE n == cs[L].nexeccalls
      <4>1. cs' = Append(SubSeq(cs, 1, L - 1), Execute(t, n - 1)) /\ n # 1 /\ cs[L].fn = "execute"
        BY <1>1, <2>1, <3>2 DEF OP_RETURN, Top, t
      <4>2. n \in Nat \ {0}
        BY <1>1, <2>1, <4>1, RecordFields
      <4>3. n - 1 \in Nat \ {0}
        BY <4>1, <4>2
      <4>4. Execute(t, n - 1) \in Record /\ Execute(t, n - 1).th = t
        BY <4>3, <1>1 DEF Execute, Record
      <4>. QED
        BY <2>1, <4>1, <4>4, <1>4, BuiltAppend
    <3>. QED
      BY <2>1, <3>1, <3>2, <1>7 DEF CFunctionReturns, CallReturns
  <2>. QED
    BY <1>1, <2>1, <2>2, <2>3, Types
<1>8. ASSUME NEW kind \in {"Lua", "C"}, OP_CALL(kind)
      PROVE  /\ \A v \in Threads : v # t => ci'[v] = ci[v]
             /\ \/ Built(cs, cs', L, t)
                \/ Built(cs, cs', L - 1, t) /\ cs[L].fn # "pcall"
  <2>. DEFINE n == cs[L].nexeccalls
              entered == IF kind = "Lua" THEN Append(SubSeq(cs, 1, L - 1), Execute(t, n + 1))
                         ELSE Append(cs, CFunction(t))
  <2>1. cs # << >> /\ cs[L].fn = "execute" /\ Popped = SubSeq(cs, 1, L - 1) /\ kind \in Kinds
    BY <1>1, <1>8 DEF OP_CALL, Top, Popped, Front, Kinds
  <2>2. luaD_precall(t, kind, cs, entered)
    BY <1>1, <1>8, <2>1 DEF OP_CALL, t
  <2>3. n + 1 \in Nat \ {0}
    BY <1>1, <2>1, RecordFields
  <2>4. Execute(t, n + 1) \in Record /\ Execute(t, n + 1).th = t /\ CFunction(t) \in Record /\ CFunction(t).th = t
    BY <1>1, <2>3 DEF Execute, CFunction, Record
  <2>5. Built(cs, entered, L, t) \/ Built(cs, entered, L - 1, t)
    <3>1. CASE kind = "Lua"
      BY <2>1, <2>4, <3>1, <1>4, BuiltAppend
    <3>2. CASE kind # "Lua"
      BY <2>4, <3>2, <1>3, BuiltAppend
    <3>. QED
      BY <3>1, <3>2
  <2>. HIDE DEF entered
  <2>6. /\ cs' = cs \/ cs' = entered
        /\ \A v \in Threads : v # t => ci'[v] = ci[v]
    BY <1>1, <2>1, <2>2, PrecallBuilds
  <2>. QED
    BY <2>1, <2>5, <2>6, <1>3
<1>9. ASSUME NEW kind \in {"Lua", "C"}, NEW then \in {"return", "throw"}, luaD_call(t, kind, cs, then)
      PROVE  Built(cs, cs', L, t) /\ \A v \in Threads : v # t => ci'[v] = ci[v]
  BY <1>1, <1>3, <1>9, CallBuilds DEF Kinds
<1>10. ASSUME NEW kind \in {"Lua", "C"}, NEW handler \in BOOLEAN, lua_pcall(handler, kind)
       PROVE  Built(cs, cs', L, t) /\ \A v \in Threads : v # t => ci'[v] = ci[v]
  <2>. DEFINE r == [fn |-> "pcall", th |-> t, previous |-> errorJmp[t],
                    nCcalls |-> nCcalls[t], ci |-> Len(ci[t]), errfunc |-> errfunc[t]]
  <2>1. luaD_call(t, kind, Append(cs, r), "return")
    BY <1>10 DEF lua_pcall, t
  <2>2. r \in Record /\ r.th = t
    <3>1. errorJmp[t] \in Nat /\ nCcalls[t] \in Nat /\ Len(ci[t]) \in Nat /\ errfunc[t] \in Nat
      BY <1>1, Types
    <3>. QED
      BY <3>1, <1>1 DEF Record
  <2>. HIDE DEF r
  <2>3. Built(cs, Append(cs, r), L, t)
    BY <2>2, <1>3, BuiltAppend
  <2>. QED
    BY <1>1, <2>1, <2>3, CallBuilds DEF Kinds
<1>11. CASE luaG_errormsg
  <2>1. (cs' = cs /\ ci' = ci) \/ \E kind \in {"Lua", "C"} : luaD_call(t, kind, cs, "throw")
    BY <1>11 DEF luaG_errormsg, t
  <2>. QED
    BY <2>1, <1>3, <1>9
<1>12. ASSUME NEW kind \in {"Lua", "C"}, lua_call(kind)
       PROVE  Built(cs, cs', L, t) /\ \A v \in Threads : v # t => ci'[v] = ci[v]
  <2>1. luaD_call(t, kind, cs, "return")
    BY <1>12 DEF lua_call, t
  <2>. QED
    BY <2>1, <1>9
<1>. QED
  BY <1>6, <1>7, <1>8, <1>10, <1>11, <1>12 DEF GoesOnRunning

\* What the caller of the protected call at i finds when it is left.
Restored(i) ==
  LET r == cs[i] IN
    /\ Len(ci'[r.th]) = r.ci /\ nCcalls'[r.th] = r.nCcalls
    /\ errfunc'[r.th] = r.errfunc /\ errorJmp'[r.th] = r.previous

RestoresPcalls == \A i \in 1 .. Len(cs) : cs[i].fn = "pcall" /\ Len(cs') < i => Restored(i)

\* The steps that leave an activation which catches errors.
LeavesCatcher ==
  luaD_throw \/ PcallReturns \/ ResumeReturns \/ (lua_yield /\ CanYield(Running))

LEMMA CatcherLeft ==
  ASSUME LuaDoAssumption, LInv, LeavesCatcher
  PROVE  Within(Running) /\ RestoresPcalls
<1>. DEFINE t == Running
            j == errorJmp[t]
            r == cs[j]
<1>1. cs # << >>
  <2>1. CASE luaD_throw
    BY <2>1 DEF luaD_throw, LInv, RaisingOK
  <2>. QED
    BY <2>1 DEF LeavesCatcher, PcallReturns, ResumeReturns, lua_yield, Top
<1>2. Leaves(t, j, r)
  <2>1. CASE luaD_throw
    BY <2>1, ThrowLeaves
  <2>2. CASE PcallReturns \/ ResumeReturns
    <3>1. Leaves(t, Len(cs), cs[Len(cs)])
      BY <2>2, ReturnLeaves
    <3>. QED
      BY <3>1 DEF Leaves
  <2>3. CASE lua_yield /\ CanYield(Running)
    <3>1. Leaves(t, Len(cs) - 2, cs[Len(cs)-2])
      BY <2>3, YieldLeaves
    <3>. QED
      BY <3>1 DEF Leaves
  <2>. QED
    BY <2>1, <2>2, <2>3 DEF LeavesCatcher
<1>3. /\ j \in 1 .. Len(cs) /\ Len(cs) \in Nat /\ t \in Threads
      /\ \A k \in j .. Len(cs) : cs[k].th = t
      /\ \A k \in j + 1 .. Len(cs) : cs[k].fn \notin {"pcall", "resume"}
  BY <1>1, Catches, WhoRuns
<1>4. Left(t, j, r)
  BY <1>2, Lands
<1>5. /\ \A v \in Threads : v # t => status'[v] = status[v]
      /\ started' = started
  <2>1. status' = status \/ (\E x : status' = [status EXCEPT ![t] = x])
    <3>1. CASE luaD_throw
      BY <3>1 DEF luaD_throw, CaughtByPcall, CaughtByResume
    <3>2. CASE PcallReturns \/ ResumeReturns
      BY <3>2 DEF PcallReturns, ResumeReturns, threads
    <3>3. CASE lua_yield
      BY <3>3 DEF lua_yield
    <3>. QED
      BY <3>1, <3>2, <3>3 DEF LeavesCatcher
  <2>2. started' = started
    BY DEF LeavesCatcher, luaD_throw, PcallReturns, ResumeReturns, lua_yield, threads
  <2>. QED
    BY <2>1, <2>2, Types
<1>6. /\ errorJmp' = [errorJmp EXCEPT ![t] = r.previous]
      /\ \/ /\ r.fn = "pcall" /\ nCcalls' = [nCcalls EXCEPT ![t] = r.nCcalls]
            /\ ci' = [ci EXCEPT ![t] = SubSeq(ci[t], 1, r.ci)] /\ errfunc' = [errfunc EXCEPT ![t] = r.errfunc]
         \/ r.fn = "resume" /\ ci' = ci
  BY <1>2 DEF Leaves
<1>7. /\ Len(cs') = j - 1 /\ \A i \in 1 .. j - 1 : cs'[i] = cs[i] /\ i \in 1 .. Len(cs)
      /\ r.fn = "pcall" => Len(ci'[t]) = r.ci
  BY <1>4 DEF Left
<1>. HIDE DEF t, j
<1>8. Within(t)
  <2>1. \A v \in Threads : v # t => ci'[v] = ci[v]
    BY <1>6, Types
  <2>2. \A i \in 1 .. Len(cs') : \E k \in 1 .. Len(cs) : cs'[i].th = cs[k].th
    BY <1>7
  <2>. QED
    BY <2>1, <2>2, <1>5 DEF Within
<1>9. RestoresPcalls
  <2>. SUFFICES ASSUME NEW i \in 1 .. Len(cs), cs[i].fn = "pcall", Len(cs') < i PROVE Restored(i)
    BY DEF RestoresPcalls
  <2>1. i = j
    <3>1. j - 1 < i /\ ~(i \in j + 1 .. Len(cs))
      BY <1>3, <1>7
    <3>. QED
      BY ONLY <3>1, <1>3, i \in 1 .. Len(cs)
  <2>2. r.fn = "pcall" /\ r.th = t
    <3>1. j \in j .. Len(cs)
      BY <1>3
    <3>. QED
      BY <2>1, <3>1, <1>3
  <2>3. /\ Len(ci'[t]) = r.ci /\ nCcalls'[t] = r.nCcalls
        /\ errfunc'[t] = r.errfunc /\ errorJmp'[t] = r.previous
    BY <2>2, <1>3, <1>6, <1>7, Types
  <2>. QED
    BY <2>1, <2>2, <2>3 DEF Restored
<1>. QED
  BY <1>8, <1>9 DEF t

\* The steps of a coroutine that does not run.
LEMMA CoroutineSteps ==
  ASSUME LuaDoAssumption, LInv, NEW co \in Coroutines,
         luaB_cocreate(co) \/ luaB_coresume(co) \/ luaE_freethread(co)
  PROVE  Within(co) /\ KeepsPcalls
<1>1. co \in Threads /\ cs \in Seq(Record)
  BY WhoRuns DEF Threads
<1>2. Built(cs, cs, Len(cs), co)
  BY <1>1, BuiltAll
<1>3. ASSUME Built(cs, cs', Len(cs), co),
             \A v \in Threads : v # co => ci'[v] = ci[v] /\ status'[v] = status[v] /\ started'[v] = started[v]
      PROVE  Within(co) /\ KeepsPcalls
  BY <1>3, FromBuilt
<1>4. CASE luaB_cocreate(co)
  <2>1. /\ cs' = cs /\ ci' = ci /\ status' = [status EXCEPT ![co] = "ok"]
        /\ started' = [started EXCEPT ![co] = FALSE]
    BY <1>4 DEF luaB_cocreate
  <2>. QED
    BY <2>1, <1>1, <1>2, <1>3, Types
<1>5. CASE luaE_freethread(co)
  <2>1. /\ cs' = cs /\ ci' = [ci EXCEPT ![co] = << >>] /\ status' = [status EXCEPT ![co] = "none"]
        /\ started' = [started EXCEPT ![co] = FALSE]
    BY <1>5 DEF luaE_freethread
  <2>. QED
    BY <2>1, <1>1, <1>2, <1>3, Types
<1>6. CASE luaB_coresume(co)
  <2>. DEFINE r == [fn |-> "resume", th |-> co, previous |-> errorJmp[co]]
              u == Append(cs, r)
  <2>1. /\ started' = [started EXCEPT ![co] = TRUE]
        /\ status' = status \/ status' = [status EXCEPT ![co] = "ok"]
    BY <1>6 DEF luaB_coresume
  <2>2. /\ r \in Record /\ r.th = co
    <3>1. errorJmp[co] \in Nat
      BY <1>1, Types
    <3>. QED
      BY <3>1, <1>1 DEF Record
  <2>3. Built(cs, u, Len(cs), co)
    BY <2>2, <1>2, BuiltAppend
  <2>4. ASSUME NEW n \in Nat \ {0}
        PROVE  Built(cs, cs \o << r, Execute(co, n) >>, Len(cs), co)
    <3>1. Execute(co, n) \in Record /\ Execute(co, n).th = co
      BY <1>1 DEF Execute, Record
    <3>2. cs \o << r, Execute(co, n) >> = Append(u, Execute(co, n))
      BY <3>1, <2>2, <1>1
    <3>. QED
      BY <3>1, <3>2, <2>3, BuiltAppend
  <2>5. \/ cs' = cs /\ ci' = ci
        \/ luaD_precall(co, "Lua", u, cs \o << r, Execute(co, 1) >>)
        \/ /\ status[co] # "ok" /\ ci' = [ci EXCEPT ![co] = Front(@)]
           /\ cs' = cs \o << r, Execute(co, Len(ci[co]) - 1) >>
    BY <1>6 DEF luaB_coresume, luaD_poscall
  <2>. HIDE DEF r, u
  <2>6. CASE luaD_precall(co, "Lua", u, cs \o << r, Execute(co, 1) >>)
    <3>1. /\ cs' = u \/ cs' = cs \o << r, Execute(co, 1) >>
          /\ \A v \in Threads : v # co => ci'[v] = ci[v]
      BY <2>6, <1>1, PrecallBuilds DEF Kinds
    <3>2. PICK n \in Nat \ {0} : n = 1
      OBVIOUS
    <3>3. Built(cs, cs \o << r, Execute(co, n) >>, Len(cs), co)
      BY <2>4
    <3>4. Built(cs, cs', Len(cs), co)
      BY <3>1, <3>2, <3>3, <2>3
    <3>. QED
      BY <3>1, <3>4, <2>1, <1>1, <1>3, Types
  <2>7. CASE /\ status[co] # "ok" /\ ci' = [ci EXCEPT ![co] = Front(@)]
             /\ cs' = cs \o << r, Execute(co, Len(ci[co]) - 1) >>
    <3>1. status[co] = "yield"
      BY <1>6, <2>7, Suspended
    <3>2. Len(ci[co]) > 1 /\ ci[co] \in Seq(Kinds)
      BY <3>1, <1>1, Types DEF LInv, StatusOK
    <3>3. Len(ci[co]) - 1 \in Nat \ {0}
      <4>. DEFINE y == ci[co]
      <4>1. y \in Seq(Kinds) /\ Len(y) > 1
        BY <3>2
      <4>. HIDE DEF y
      <4>2. Len(y) \in Nat
        BY <4>1
      <4>. DEFINE l == Len(y)
      <4>3. l \in Nat /\ l > 1
        BY <4>1, <4>2
      <4>. HIDE DEF l
      <4>4. l - 1 \in Nat \ {0}
        BY ONLY <4>3
      <4>. QED
        BY <4>4 DEF y, l
    <3>. DEFINE n == Len(ci[co]) - 1
    <3>4. n \in Nat \ {0} /\ cs' = cs \o << r, Execute(co, n) >>
      BY <3>3, <2>7
    <3>. HIDE DEF n
    <3>5. Built(cs, cs', Len(cs), co)
      BY <3>4, <2>4
    <3>. QED
      BY <3>5, <2>1, <2>7, <1>1, <1>3, Types
  <2>8. CASE cs' = cs /\ ci' = ci
    BY <2>8, <2>1, <1>1, <1>2, <1>3, Types
  <2>. QED
    BY <2>5, <2>6, <2>7, <2>8
<1>. QED
  BY <1>4, <1>5, <1>6

\* A coroutine that has ended is on no record of the C stack and does not run.
LEMMA DeadIs ==
  ASSUME LuaDoAssumption, LInv, NEW co \in Coroutines, Dead(co)
  PROVE  /\ \A i \in 1 .. Len(cs) : cs[i].th # co
         /\ co # Running /\ co \in Threads
<1>1. co \in Threads /\ co # main /\ DOMAIN cs = 1 .. Len(cs)
  BY WhoRuns, Types DEF Threads
<1>2. \A i \in 1 .. Len(cs) : cs[i].th # co
  BY <1>1 DEF Dead, OnStack, LInv, StatusOK
<1>3. co # Running
  <2>1. CASE cs = << >>
    BY <2>1, <1>1 DEF Running
  <2>2. CASE cs # << >>
    <3>1. Len(cs) \in 1 .. Len(cs) /\ cs[Len(cs)].th = Running
      BY <2>2, WhoRuns
    <3>. QED
      BY <3>1, <1>2
  <2>. QED
    BY <2>1, <2>2
<1>. QED
  BY <1>1, <1>2, <1>3

LEMMA StaysDead ==
  ASSUME LuaDoAssumption, LInv, LInv', NEW co \in Coroutines, Dead(co), NEW t, t # co, Within(t)
  PROVE  Dead(co)'
<1>1. /\ \A i \in 1 .. Len(cs) : cs[i].th # co
      /\ co \in Threads
  BY DeadIs
<1>2. ci'[co] = ci[co] /\ status'[co] = status[co] /\ started'[co] = started[co]
  BY <1>1 DEF Within
<1>3. \A i \in 1 .. Len(cs') : cs'[i].th # co
  BY <1>1 DEF Within
<1>4. DOMAIN cs' = 1 .. Len(cs')
  BY DEF LInv, Agree, StackOK
<1>5. ~OnStack(co)'
  BY <1>3, <1>4 DEF OnStack
<1>. QED
  BY <1>2, <1>5 DEF Dead

\* Whichever way a protected call ends, its caller finds its own calls, count,
\* handler and catcher as they were, and a coroutine that has ended stays so.
THEOREM LuaCallsEndCleanly ==
  ASSUME LuaDoAssumption
  PROVE  Spec => CallsEndCleanly
<1>. DEFINE R == \A i \in DOMAIN cs : cs[i].fn = "pcall" /\ Len(cs') < i =>
                   LET r == cs[i] IN
                     /\ Len(ci'[r.th]) = r.ci /\ nCcalls'[r.th] = r.nCcalls
                     /\ errfunc'[r.th] = r.errfunc /\ errorJmp'[r.th] = r.previous
            D == \A co \in Coroutines : Dead(co) => Dead(co)' \/ status'[co] = "none"
<1>1. LInv /\ LInv' /\ [Next]_vars => [R]_vars /\ [D]_vars
  <2>. SUFFICES ASSUME LInv, LInv', Next PROVE R /\ D
    OBVIOUS
  <2>1. cs \in Seq(Record) /\ cs' \in Seq(Record) /\ DOMAIN cs = 1 .. Len(cs) /\ Len(cs') \in Nat
    BY DEF LInv, Agree, StackOK
  <2>2. KeepsPcalls => R
    <3>. SUFFICES ASSUME KeepsPcalls, NEW i \in 1 .. Len(cs), cs[i].fn = "pcall", Len(cs') < i PROVE FALSE
      BY <2>1
    <3>1. i <= Len(cs')
      BY DEF KeepsPcalls
    <3>. QED
      BY <3>1, <2>1
  <2>3. RestoresPcalls => R
    BY <2>1 DEF RestoresPcalls, Restored
  <2>4. Within(Running) => D
    <3>. SUFFICES ASSUME Within(Running), NEW co \in Coroutines, Dead(co) PROVE Dead(co)'
      OBVIOUS
    <3>. DEFINE t == Running
    <3>1. t # co /\ Within(t)
      BY DeadIs
    <3>. HIDE DEF t
    <3>. QED
      BY <3>1, StaysDead
  <2>5. ASSUME NEW co \in Coroutines, luaB_cocreate(co) \/ luaB_coresume(co) \/ luaE_freethread(co)
        PROVE  R /\ D
    <3>1. Within(co) /\ KeepsPcalls
      BY <2>5, CoroutineSteps
    <3>2. ASSUME NEW d \in Coroutines, Dead(d) PROVE Dead(d)' \/ status'[d] = "none"
      <4>1. CASE d # co
        BY <4>1, <3>1, <3>2, StaysDead
      <4>2. CASE d = co
        <5>1. ~luaB_cocreate(co)
          BY <3>2, <4>2 DEF luaB_cocreate, Dead
        <5>2. ~luaB_coresume(co)
          <6>. SUFFICES ASSUME luaB_coresume(co) PROVE FALSE
            OBVIOUS
          <6>1. status[co] = "yield" \/ (status[co] = "ok" /\ ci[co] = << >> /\ ~started[co])
            BY Suspended
          <6>. QED
            BY <6>1, <3>2, <4>2 DEF Dead
        <5>3. luaE_freethread(co)
          BY <2>5, <5>1, <5>2
        <5>4. status'[co] = "none"
          <6>1. status' = [status EXCEPT ![co] = "none"] /\ co \in Threads
            BY <5>3 DEF luaE_freethread, Threads
          <6>. QED
            BY <6>1, Types
        <5>. QED
          BY <4>2, <5>4
      <4>. QED
        BY <4>1, <4>2
    <3>. QED
      BY <2>2, <3>1, <3>2
  <2>6. CASE GoesOnRunning
    BY <2>2, <2>4, <2>6, RunningGoesOn
  <2>7. CASE LeavesCatcher
    BY <2>3, <2>4, <2>7, CatcherLeft
  <2>8. \/ GoesOnRunning \/ LeavesCatcher
        \/ \E co \in Coroutines : luaB_cocreate(co) \/ luaB_coresume(co) \/ luaE_freethread(co)
    BY DEF Next, GoesOnRunning, LeavesCatcher
  <2>. QED
    BY <2>5, <2>6, <2>7, <2>8
<1>2. Spec => [][R]_vars /\ [][D]_vars
  BY <1>1, Invariance, PTL DEF Spec
<1>. QED
  BY <1>2 DEF CallsEndCleanly, PcallRestores, DeadForGood
==================================================================================
