--------------------------- MODULE ClientPartsProofs ---------------------------
(***************************************************************************)
(* Proofs about the parts of the client that share no state: LuaBridge,    *)
(* StreamBuffer, Registry and Protobuf.                                    *)
(***************************************************************************)
EXTENDS LuaBridge, StreamBuffer, Registry, Protobuf, InductionLemmas, FiniteSetTheorems

--------------------------------------------------------------------------------
(* toget: a recursive function that counts up to lvl *)

\* How far the strings are joined from n on: to the first place that is the last
\* one or where the loop stops.
Goes(st, lvl, n) ==
  lvl - n + 1 >= LIMIT \/ Len(lua_concat(st, n)[Len(st) - n + 1].bytes) > lua_strlen(st, -(n + 1))

IsGrown(g, st, lvl) ==
  g = [n \in 1 .. lvl |->
        IF n = lvl THEN n
        ELSE LET toplen == Len(lua_concat(st, n)[Len(st) - n + 1].bytes) IN
               IF lvl - n + 1 >= LIMIT \/ toplen > lua_strlen(st, -(n + 1))
               THEN g[n + 1] ELSE n]

LEMMA GrownExists ==
  ASSUME NEW st, NEW lvl \in Nat
  PROVE  \E g : IsGrown(g, st, lvl)
<1>. DEFINE Stops(m) == m = lvl \/ ~Goes(st, lvl, m)
            Ahead(n) == {m \in n .. lvl : Stops(m)}
            g == [n \in 1 .. lvl |-> CHOOSE m \in Ahead(n) : \A k \in Ahead(n) : m <= k]
<1>1. ASSUME NEW n \in 1 .. lvl
      PROVE  g[n] \in Ahead(n) /\ \A k \in Ahead(n) : g[n] <= k
  <2>1. lvl \in Ahead(n)
    OBVIOUS
  <2>2. Ahead(n) \subseteq Nat /\ Ahead(n) # {}
    BY <2>1
  <2>3. \E m \in Ahead(n) : \A k \in Ahead(n) : m <= k
    <3>. HIDE DEF Ahead
    <3>. QED
      BY <2>2, LeastNumber
  <2>4. g[n] = CHOOSE m \in Ahead(n) : \A k \in Ahead(n) : m <= k
    <3>. HIDE DEF Ahead
    <3>. QED
      OBVIOUS
  <2>. HIDE DEF g, Ahead
  <2>. QED
    BY <2>3, <2>4
<1>2. ASSUME NEW n \in 1 .. lvl
      PROVE  g[n] = IF Stops(n) THEN n ELSE g[n + 1]
  <2>. HIDE DEF g
  <2>1. CASE Stops(n)
    <3>1. n \in Ahead(n)
      BY <2>1
    <3>2. g[n] <= n /\ g[n] \in n .. lvl
      BY <1>1, <3>1
    <3>. QED
      BY <2>1, <3>2
  <2>2. CASE ~Stops(n)
    <3>1. n # lvl /\ n + 1 \in 1 .. lvl
      BY <2>2
    <3>2. \A m : m \in Ahead(n) <=> m \in Ahead(n + 1)
      <4>1. \A m \in n .. lvl : m = n \/ m \in n + 1 .. lvl
        OBVIOUS
      <4>2. \A m \in n + 1 .. lvl : m \in n .. lvl
        OBVIOUS
      <4>. HIDE DEF Stops
      <4>. QED
        BY <2>2, <4>1, <4>2
    <3>3. g[n] \in Ahead(n) /\ \A k \in Ahead(n) : g[n] <= k
      BY <1>1
    <3>4. g[n + 1] \in Ahead(n + 1) /\ \A k \in Ahead(n + 1) : g[n + 1] <= k
      BY <1>1, <3>1
    <3>5. g[n] <= g[n + 1] /\ g[n + 1] <= g[n]
      <4>. HIDE DEF Ahead
      <4>. QED
        BY <3>2, <3>3, <3>4
    <3>6. g[n] \in Int /\ g[n + 1] \in Int
      <4>. HIDE DEF Stops
      <4>. QED
        BY <3>3, <3>4
    <3>. QED
      BY <2>2, <3>5, <3>6
  <2>. QED
    BY <2>1, <2>2
<1>3. IsGrown(g, st, lvl)
  <2>. DEFINE h(n) == IF n = lvl THEN n
                      ELSE LET toplen == Len(lua_concat(st, n)[Len(st) - n + 1].bytes) IN
                             IF lvl - n + 1 >= LIMIT \/ toplen > lua_strlen(st, -(n + 1))
                             THEN g[n + 1] ELSE n
  <2>1. \A n \in 1 .. lvl : g[n] = h(n)
    <3>. TAKE n \in 1 .. lvl
    <3>1. h(n) = IF Stops(n) THEN n ELSE g[n + 1]
      <4>. HIDE DEF g
      <4>. QED
        BY Zenon DEF Goes
    <3>. HIDE DEF h, g
    <3>. QED
      BY <1>2, <3>1
  <2>2. g = [n \in 1 .. lvl |-> g[n]]
    <3>. HIDE DEF Ahead
    <3>. QED
      OBVIOUS
  <2>3. g = [n \in 1 .. lvl |-> h(n)]
    <3>. HIDE DEF h, g
    <3>. QED
      BY <2>1, <2>2
  <2>. QED
    BY <2>3, Zenon DEF IsGrown
<1>. HIDE DEF g
<1>. QED
  BY <1>3

LEMMA GrownValue ==
  ASSUME NEW g, NEW st, NEW lvl \in Nat, IsGrown(g, st, lvl), NEW n \in 1 .. lvl
  PROVE  g[n] = IF n = lvl \/ ~Goes(st, lvl, n) THEN n ELSE g[n + 1]
<1>. DEFINE h(i) == IF i = lvl THEN i
                    ELSE LET toplen == Len(lua_concat(st, i)[Len(st) - i + 1].bytes) IN
                           IF lvl - i + 1 >= LIMIT \/ toplen > lua_strlen(st, -(i + 1))
                           THEN g[i + 1] ELSE i
<1>1. g = [i \in 1 .. lvl |-> h(i)]
  BY Zenon DEF IsGrown
<1>2. g[n] = h(n)
  <2>. HIDE DEF h
  <2>. QED
    BY <1>1
<1>. QED
  BY <1>2, Zenon DEF Goes

\* adjuststack joins at least one string and at most all; unless it joins them
\* all, fewer than LIMIT are left.
LEMMA TogetBounds ==
  ASSUME NEW st, NEW lvl \in Nat, lvl >= 1, LIMIT \in Nat
  PROVE  /\ toget(st, lvl) \in 1 .. lvl
         /\ toget(st, lvl) = lvl \/ lvl - toget(st, lvl) + 1 < LIMIT
<1>. DEFINE g == CHOOSE g : g = [n \in 1 .. lvl |->
                   IF n = lvl THEN n
                   ELSE LET toplen == Len(lua_concat(st, n)[Len(st) - n + 1].bytes) IN
                          IF lvl - n + 1 >= LIMIT \/ toplen > lua_strlen(st, -(n + 1))
                          THEN g[n + 1] ELSE n]
<1>1. IsGrown(g, st, lvl)
  <2>1. \E h : IsGrown(h, st, lvl)
    BY GrownExists
  <2>. QED
    BY <2>1 DEF IsGrown
<1>2. toget(st, lvl) = g[1]
  BY Zenon DEF toget
<1>. HIDE DEF g
<1>. DEFINE Bounded(n) == g[n] \in n .. lvl /\ (g[n] = lvl \/ lvl - g[n] + 1 < LIMIT)
            S == {k \in Nat : k < lvl => Bounded(lvl - k)}
<1>3. 0 \in S
  <2>1. lvl \in 1 .. lvl
    OBVIOUS
  <2>2. g[lvl] = lvl
    BY <1>1, <2>1, GrownValue
  <2>. QED
    BY <2>2
<1>4. ASSUME NEW k \in S PROVE k + 1 \in S
  <2>0. k \in Nat /\ k + 1 \in Nat /\ (k < lvl => Bounded(lvl - k))
    OBVIOUS
  <2>. HIDE DEF Bounded
  <2>. SUFFICES ASSUME k + 1 < lvl PROVE Bounded(lvl - (k + 1))
    BY <2>0
  <2>. DEFINE n == lvl - (k + 1)
  <2>1. n \in 1 .. lvl /\ n # lvl /\ n + 1 = lvl - k /\ n \in Int
    BY <2>0
  <2>2. Bounded(n + 1)
    BY <2>0, <2>1
  <2>. HIDE DEF n, S
  <2>7. g[n + 1] \in n + 1 .. lvl /\ (g[n + 1] = lvl \/ lvl - g[n + 1] + 1 < LIMIT)
    BY <2>2 DEF Bounded
  <2>3. g[n] = IF n = lvl \/ ~Goes(st, lvl, n) THEN n ELSE g[n + 1]
    BY <1>1, <2>1, GrownValue
  <2>4. ASSUME Goes(st, lvl, n) PROVE Bounded(n)
    BY <2>1, <2>3, <2>4, <2>7 DEF Bounded
  <2>5. ASSUME ~Goes(st, lvl, n) PROVE Bounded(n)
    <3>1. g[n] = n
      BY <2>3, <2>5
    <3>2. ~ lvl - n + 1 >= LIMIT
      BY <2>5 DEF Goes
    <3>3. lvl - n + 1 < LIMIT
      BY <2>1, <3>2
    <3>. QED
      BY <2>1, <3>1, <3>3 DEF Bounded
  <2>6. Bounded(n)
    BY <2>4, <2>5
  <2>. QED
    BY <2>6 DEF n
<1>5. S = Nat
  <2>. HIDE DEF S
  <2>1. S \subseteq Nat
    BY DEF S
  <2>. QED
    BY <1>3, <1>4, <2>1, Induction
<1>6. Bounded(1)
  <2>1. lvl - 1 \in Nat /\ lvl - 1 < lvl /\ lvl - (lvl - 1) = 1
    OBVIOUS
  <2>2. lvl - 1 < lvl => Bounded(lvl - (lvl - 1))
    <3>. HIDE DEF Bounded
    <3>. QED
      BY <1>5, <2>1
  <2>. HIDE DEF Bounded
  <2>. QED
    BY <2>1, <2>2
<1>. QED
  BY <1>2, <1>6

--------------------------------------------------------------------------------
(* The strings of a buffer on a stack *)

Kinds == STRING \cup {"nil", "table", "function", "traceback", "number", "numeral", "string", "message"}
Val == [kind : Kinds, bytes : Seq(Nat) \cup Seq(Kinds)]

LEMMA ConcatAt ==
  ASSUME NEW X, NEW s \in Seq(X), NEW t \in Seq(X)
  PROVE  /\ s \o t \in Seq(X) /\ Len(s \o t) = Len(s) + Len(t)
         /\ \A i \in 1 .. Len(s) : (s \o t)[i] = s[i]
         /\ \A i \in 1 .. Len(t) : (s \o t)[Len(s) + i] = t[i]
<1>. DEFINE u == s \o t
            m == Len(s)
            n == Len(t)
<1>1. /\ u \in Seq(X) /\ Len(u) = m + n /\ m \in Nat /\ n \in Nat
      /\ \A i \in 1 .. m + n : u[i] = IF i <= m THEN s[i] ELSE t[i - m]
  BY ConcatProperties
<1>. HIDE DEF u, m, n
<1>3. \A i \in 1 .. m : u[i] = s[i]
  <2>1. \A i \in 1 .. m : i \in 1 .. m + n /\ i <= m
    BY <1>1
  <2>. QED
    BY ONLY <1>1, <2>1
<1>4. \A i \in 1 .. n : u[m + i] = t[i]
  <2>. TAKE i \in 1 .. n
  <2>. DEFINE j == m + i
  <2>1. j \in 1 .. m + n /\ ~ j <= m /\ j - m = i
    BY <1>1
  <2>. HIDE DEF j
  <2>2. u[j] = IF j <= m THEN s[j] ELSE t[j - m]
    BY ONLY <1>1, <2>1
  <2>3. u[j] = t[i]
    BY ONLY <2>1, <2>2
  <2>. QED
    BY ONLY <2>3 DEF j
<1>. QED
  BY <1>1, <1>3, <1>4 DEF u, m, n

\* The bytes of what lies above the first k values.
Bytes(st, k) == [i \in 1 .. Len(st) - k |-> st[k + i].bytes]

\* Above its first k values the stack holds m strings that together make w.
Holding(st, k, m, w) ==
  /\ st \in Seq(Val) /\ Len(st) = k + m
  /\ \A i \in k + 1 .. k + m : st[i].kind = "string" /\ st[i].bytes \in Seq(Nat)
  /\ FlattenSeq(Bytes(st, k)) = w

Same(st, u, k) == \A i \in 1 .. k : u[i] = st[i]

LEMMA ValueString ==
  /\ \A k \in Kinds : Value(k) \in Val /\ Value(k).kind = k
  /\ \A b \in Seq(Nat) : String(b) \in Val /\ String(b).kind = "string" /\ String(b).bytes = b
<1>1. << >> \in Seq(Nat) /\ "string" \in Kinds /\ STRING \subseteq Kinds
  BY EmptySeq DEF Kinds
<1>2. ASSUME NEW k \in Kinds PROVE Value(k) \in Val /\ Value(k).kind = k
  BY <1>1 DEF Value, Val
<1>3. ASSUME NEW b \in Seq(Nat)
      PROVE  String(b) \in Val /\ String(b).kind = "string" /\ String(b).bytes = b
  BY <1>1 DEF String, Val
<1>. QED
  BY <1>2, <1>3

LEMMA BytesOf ==
  ASSUME NEW k \in Nat, NEW m \in Nat, NEW st, NEW w, Holding(st, k, m, w)
  PROVE  /\ Bytes(st, k) \in Seq(Seq(Nat)) /\ Len(Bytes(st, k)) = m
         /\ \A i \in 1 .. m : Bytes(st, k)[i] = st[k + i].bytes
         /\ w \in Seq(Nat)
<1>1. Len(st) - k = m /\ \A i \in 1 .. m : k + i \in k + 1 .. k + m
  BY DEF Holding
<1>2. Bytes(st, k) = [i \in 1 .. m |-> st[k + i].bytes]
  BY <1>1 DEF Bytes
<1>3. \A i \in 1 .. m : st[k + i].bytes \in Seq(Nat)
  BY <1>1 DEF Holding
<1>4. [i \in 1 .. m |-> st[k + i].bytes] \in Seq(Seq(Nat))
  <2>. DEFINE e(i) == st[k + i].bytes
  <2>1. \A i \in 1 .. m : e(i) \in Seq(Nat)
    BY <1>3
  <2>. HIDE DEF e
  <2>2. [i \in 1 .. m |-> e(i)] \in Seq(Seq(Nat))
    BY <2>1
  <2>. QED
    BY <2>2 DEF e
<1>5. Len(Bytes(st, k)) = m
  BY <1>2
<1>6. w \in Seq(Nat)
  BY <1>2, <1>4, FlattenType DEF Holding
<1>. QED
  BY <1>2, <1>4, <1>5, <1>6

LEMMA AppendHolds ==
  ASSUME NEW k \in Nat, NEW m \in Nat, NEW st, NEW w, Holding(st, k, m, w), NEW b \in Seq(Nat)
  PROVE  Holding(Append(st, String(b)), k, m + 1, w \o b) /\ Same(st, Append(st, String(b)), k)
<1>. DEFINE v == String(b)
            u == Append(st, v)
            s == Bytes(st, k)
<1>1. v \in Val /\ v.kind = "string" /\ v.bytes = b
  BY ValueString
<1>2. st \in Seq(Val) /\ Len(st) = k + m
  BY DEF Holding
<1>. HIDE DEF v
<1>3. /\ u \in Seq(Val) /\ Len(u) = k + m + 1 /\ u[k + m + 1] = v
      /\ \A i \in 1 .. k + m : u[i] = st[i]
  BY <1>1, <1>2, AppendProperties
<1>. HIDE DEF u
<1>4. \A i \in k + 1 .. k + (m + 1) : u[i].kind = "string" /\ u[i].bytes \in Seq(Nat)
  <2>. TAKE i \in k + 1 .. k + (m + 1)
  <2>1. CASE i = k + m + 1
    BY <1>1, <1>3, <2>1
  <2>2. CASE i # k + m + 1
    <3>1. i \in k + 1 .. k + m /\ i \in 1 .. k + m
      BY <2>2
    <3>. QED
      BY <1>3, <3>1 DEF Holding
  <2>. QED
    BY <2>1, <2>2
<1>5. s \in Seq(Seq(Nat)) /\ Len(s) = m /\ \A i \in 1 .. m : s[i] = st[k + i].bytes
  BY BytesOf
<1>6. Bytes(u, k) = Append(s, b)
  <2>. DEFINE x == Append(s, b)
  <2>. HIDE DEF s
  <2>1. x \in Seq(Seq(Nat)) /\ Len(x) = m + 1 /\ x[m + 1] = b /\ \A i \in 1 .. m : x[i] = s[i]
    BY <1>5, AppendProperties
  <2>. HIDE DEF x
  <2>2. x = [i \in 1 .. m + 1 |-> x[i]]
    BY <2>1
  <2>3. Bytes(u, k) = [i \in 1 .. m + 1 |-> u[k + i].bytes]
    <3>1. Len(u) - k = m + 1
      BY <1>3
    <3>. QED
      BY <3>1 DEF Bytes
  <2>4. \A i \in 1 .. m + 1 : u[k + i].bytes = x[i]
    <3>. TAKE i \in 1 .. m + 1
    <3>1. CASE i = m + 1
      BY <1>1, <1>3, <2>1, <3>1
    <3>2. CASE i # m + 1
      <4>1. i \in 1 .. m /\ k + i \in 1 .. k + m
        BY <3>2
      <4>. QED
        BY <1>3, <1>5, <2>1, <4>1
    <3>. QED
      BY <3>1, <3>2
  <2>. QED
    BY <2>2, <2>3, <2>4 DEF x
<1>7. FlattenSeq(Bytes(u, k)) = w \o b
  <2>. HIDE DEF s
  <2>1. FlattenSeq(s) = w
    BY DEF Holding, s
  <2>2. FlattenSeq(Append(s, b)) = FlattenSeq(s) \o b
    BY <1>5, FlattenAppend
  <2>. QED
    BY <1>6, <2>1, <2>2
<1>8. Len(u) = k + (m + 1)
  BY <1>3
<1>9. Holding(u, k, m + 1, w \o b)
  BY <1>3, <1>4, <1>7, <1>8 DEF Holding
<1>10. Same(st, u, k)
  BY <1>3 DEF Same
<1>. QED
  BY <1>9, <1>10 DEF u, v

LEMMA Popped ==
  ASSUME NEW st \in Seq(Val), NEW n \in Nat, n <= Len(st)
  PROVE  /\ lua_pop(st, n) = SubSeq(st, 1, Len(st) - n)
         /\ lua_pop(st, n) \in Seq(Val) /\ Len(lua_pop(st, n)) = Len(st) - n
         /\ \A i \in 1 .. Len(st) - n : lua_pop(st, n)[i] = st[i]
<1>. DEFINE h == Len(st) - n
<1>1. h \in Nat /\ Len(st) + (-n - 1) + 1 = h /\ ~ -n - 1 >= 0 /\ h <= Len(st)
  OBVIOUS
<1>. HIDE DEF h
<1>2. lua_pop(st, n) = SubSeq(st, 1, h)
  BY <1>1 DEF lua_pop, lua_settop
<1>3. /\ SubSeq(st, 1, h) \in Seq(Val) /\ Len(SubSeq(st, 1, h)) = h
      /\ \A i \in 1 .. h : SubSeq(st, 1, h)[i] = st[i]
  BY <1>1, SubSeqProperties
<1>. QED
  BY <1>2, <1>3 DEF h

LEMMA ConcatHolds ==
  ASSUME NEW k \in Nat, NEW m \in Nat, NEW st, NEW w, Holding(st, k, m, w), NEW n \in 1 .. m
  PROVE  Holding(lua_concat(st, n), k, m - n + 1, w) /\ Same(st, lua_concat(st, n), k)
<1>. DEFINE s == Bytes(st, k)
            h == m - n
            a == SubSeq(s, 1, h)
            b == SubSeq(s, h + 1, m)
            last == SubSeq(st, Len(st) - n + 1, Len(st))
            c == [i \in 1 .. n |-> last[i].bytes]
            u == lua_pop(st, n)
<1>1. n \in Nat /\ n # 0 /\ h \in Nat /\ m = h + n /\ m - n + 1 = h + 1 /\ h <= m
  OBVIOUS
<1>2. /\ s \in Seq(Seq(Nat)) /\ Len(s) = m /\ w \in Seq(Nat)
      /\ \A i \in 1 .. m : s[i] = st[k + i].bytes
  BY BytesOf
<1>3. st \in Seq(Val) /\ Len(st) = k + m /\ FlattenSeq(s) = w
  BY DEF Holding
<1>4. CASE n = 1
  <2>1. lua_concat(st, n) = st /\ m - n + 1 = m
    BY <1>4 DEF lua_concat
  <2>. QED
    BY <2>1 DEF Same
<1>5. CASE n # 1
  <2>. HIDE DEF s, h
  <2>1. /\ a \in Seq(Seq(Nat)) /\ Len(a) = h /\ \A i \in 1 .. h : a[i] = s[i]
    BY <1>1, <1>2, SubSeqProperties
  <2>2. /\ b \in Seq(Seq(Nat)) /\ Len(b) = n /\ \A i \in 1 .. n : b[i] = s[h + i]
    <3>0. h \in Nat /\ n \in Nat /\ n # 0 /\ m = h + n /\ Len(s) = m
      BY <1>1, <1>2
    <3>1. h + 1 \in 1 .. m /\ m \in 1 .. Len(s) /\ m - (h + 1) + 1 = n /\ h + 1 <= m + 1
      BY ONLY <3>0
    <3>2. \A i \in 1 .. n : h + 1 + i - 1 = h + i
      BY <1>1
    <3>. QED
      BY <1>1, <1>2, <3>1, <3>2, SubSeqProperties
  <2>3. a \o b = s
    <3>. HIDE DEF a, b
    <3>0. /\ a \o b \in Seq(Seq(Nat)) /\ Len(a \o b) = h + n
          /\ \A i \in 1 .. h : (a \o b)[i] = a[i]
          /\ \A i \in 1 .. n : (a \o b)[h + i] = b[i]
      <4>1. /\ a \o b \in Seq(Seq(Nat)) /\ Len(a \o b) = Len(a) + Len(b)
            /\ \A i \in 1 .. Len(a) : (a \o b)[i] = a[i]
            /\ \A i \in 1 .. Len(b) : (a \o b)[Len(a) + i] = b[i]
        <5>1. a \in Seq(Seq(Nat)) /\ b \in Seq(Seq(Nat))
          BY <2>1, <2>2
        <5>. QED
          BY ONLY <5>1, ConcatAt, SMT
      <4>2. Len(a) = h /\ Len(b) = n
        BY <2>1, <2>2
      <4>. QED
        BY ONLY <4>1, <4>2
    <3>1. a \o b \in Seq(Seq(Nat)) /\ Len(a \o b) = m
      BY <1>1, <3>0
    <3>2. \A i \in 1 .. m : (a \o b)[i] = s[i]
      <4>. TAKE i \in 1 .. m
      <4>1. CASE i <= h
        <5>1. i \in 1 .. h
          BY <1>1, <4>1
        <5>. QED
          BY <2>1, <3>0, <5>1
      <4>2. CASE i > h
        <5>. DEFINE j == i - h
        <5>1. j \in 1 .. n /\ h + j = i
          BY <1>1, <4>2
        <5>. HIDE DEF j
        <5>2. (a \o b)[h + j] = b[j] /\ b[j] = s[h + j]
          BY <2>2, <3>0, <5>1
        <5>. QED
          BY <5>1, <5>2
      <4>3. i <= h \/ i > h
        BY <1>1
      <4>. QED
        BY <4>1, <4>2, <4>3
    <3>. QED
      BY <1>2, <3>1, <3>2, SeqEqual
  <2>4. c = b
    <3>1. /\ last \in Seq(Val) /\ Len(last) = n
          /\ \A i \in 1 .. n : last[i] = st[k + h + i]
      <4>1. Len(st) - n + 1 = k + h + 1 /\ k + h + 1 \in 1 .. Len(st)
        BY <1>1, <1>3
      <4>2. Len(st) - (k + h + 1) + 1 = n /\ \A i \in 1 .. n : k + h + 1 + i - 1 = k + h + i
        BY <1>1, <1>3
      <4>3. /\ SubSeq(st, k + h + 1, Len(st)) \in Seq(Val)
            /\ Len(SubSeq(st, k + h + 1, Len(st))) = n
            /\ \A i \in 1 .. n : SubSeq(st, k + h + 1, Len(st))[i] = st[k + h + i]
        BY <1>1, <1>3, <4>1, <4>2, SubSeqProperties
      <4>. QED
        BY <4>1, <4>3
    <3>. HIDE DEF last, b
    <3>2. \A i \in 1 .. n : last[i].bytes = b[i]
      <4>. TAKE i \in 1 .. n
      <4>1. h + i \in 1 .. m /\ k + (h + i) = k + h + i
        BY <1>1
      <4>. QED
        BY <1>2, <2>2, <3>1, <4>1
    <3>3. b = [i \in 1 .. n |-> b[i]]
      BY <2>2
    <3>. QED
      BY <3>2, <3>3
  <2>5. lua_concat(st, n) = Append(u, String(FlattenSeq(b)))
    <3>1. lua_concat(st, n) = Append(u, String(FlattenSeq(c)))
      BY <1>1, <1>5, Zenon DEF lua_concat
    <3>. QED
      BY <2>4, <3>1
  <2>6. /\ u \in Seq(Val) /\ Len(u) = k + h /\ \A i \in 1 .. k + h : u[i] = st[i]
    <3>1. n <= Len(st) /\ Len(st) - n = k + h
      BY <1>1, <1>3
    <3>2. /\ u \in Seq(Val) /\ Len(u) = Len(st) - n
          /\ \A i \in 1 .. Len(st) - n : u[i] = st[i]
      <4>1. n \in Nat /\ n <= Len(st) /\ st \in Seq(Val)
        BY <1>1, <1>3, <3>1
      <4>. QED
        BY ONLY <4>1, Popped
    <3>. QED
      BY <3>1, <3>2
  <2>7. Holding(u, k, h, FlattenSeq(a))
    <3>. HIDE DEF u
    <3>1. \A i \in k + 1 .. k + h : u[i].kind = "string" /\ u[i].bytes \in Seq(Nat)
      <4>. TAKE i \in k + 1 .. k + h
      <4>1. i \in k + 1 .. k + m /\ i \in 1 .. k + h
        BY <1>1
      <4>. QED
        BY <2>6, <4>1 DEF Holding
    <3>2. Bytes(u, k) = a
      <4>. HIDE DEF a
      <4>1. Len(u) - k = h
        BY <1>1, <2>6
      <4>2. Bytes(u, k) = [i \in 1 .. h |-> u[k + i].bytes]
        BY <4>1 DEF Bytes
      <4>3. a = [i \in 1 .. h |-> a[i]]
        BY <2>1
      <4>4. \A i \in 1 .. h : u[k + i].bytes = a[i]
        <5>. TAKE i \in 1 .. h
        <5>1. i \in 1 .. m /\ k + i \in 1 .. k + h
          BY <1>1
        <5>. QED
          BY <1>2, <2>1, <2>6, <5>1
      <4>. QED
        BY <4>2, <4>3, <4>4
    <3>. QED
      BY <2>6, <3>1, <3>2 DEF Holding
  <2>. HIDE DEF u, a, b
  <2>8. FlattenSeq(b) \in Seq(Nat)
    BY <2>2, FlattenType
  <2>9. Holding(lua_concat(st, n), k, h + 1, FlattenSeq(a) \o FlattenSeq(b)) /\ Same(u, lua_concat(st, n), k)
    BY <1>1, <2>5, <2>7, <2>8, AppendHolds
  <2>10. FlattenSeq(a) \o FlattenSeq(b) = w
    <3>1. FlattenSeq(a \o b) = FlattenSeq(a) \o FlattenSeq(b)
      BY <2>1, <2>2, FlattenConcat
    <3>. QED
      BY <1>3, <2>3, <3>1
  <2>11. Same(st, lua_concat(st, n), k)
    <3>1. \A i \in 1 .. k : i \in 1 .. k + h
      BY <1>1
    <3>. QED
      BY <2>6, <2>9, <3>1 DEF Same
  <2>. QED
    BY <1>1, <2>9, <2>10, <2>11
<1>. QED
  BY <1>4, <1>5

--------------------------------------------------------------------------------
(* The invariant *)

Buf == [p : Seq(Nat), lvl : Nat]

\* A buffer that has taken w in: most of it in strings above the first k values of
\* the stack, fewer than LIMIT, the rest in its array.
Filled(st, b, k, w) ==
  /\ b \in Buf /\ b.lvl < LIMIT
  /\ Holding(st, k, b.lvl, FlattenSeq(Bytes(st, k)))
  /\ FlattenSeq(Bytes(st, k)) \o b.p = w

\* The program's stack once it has entered Lua: the traceback function lies third.
Root(st) ==
  /\ st \in Seq(Val) /\ Len(st) >= 3
  /\ st[1] = Value("table") /\ st[2] = Value("table") /\ st[3] = Value("traceback")

Quiet(st) == \A i \in 4 .. Len(st) : st[i].kind # "message"

\* ... with the function to call and all its arguments.
Entered == Root(frames[1]) /\ Quiet(frames[1]) /\ Len(frames[1]) = 4 + nargs(entry)

One == Len(frames) = 1
Two == Len(frames) = 2
Copied == SubSeq(data, 1, index)

CopyingIn == \/ /\ One /\ entry = "redirectNetBuffer"
                /\ Root(frames[1]) /\ Quiet(frames[1]) /\ Filled(frames[1], buf, 5, Copied)
             \/ /\ Two /\ Entered /\ errfunc = 3
                /\ \E k \in 0 .. 4 : Filled(frames[2], buf, k, Copied)

ReadyToCall == One /\ Entered /\ (entry = "redirectNetBuffer" => Last(frames[1]) = String(data))

LuaRuns == One /\ Entered /\ errfunc = 3

CFunctionRuns == Two /\ Entered /\ errfunc = 3 /\ frames[2] \in Seq(Val) /\ Len(frames[2]) <= 4

CFunctionDone == Two /\ Entered /\ errfunc = 3 /\ (pc = "return1" => Last(frames[2]) = String(data))

LuaIsBack == /\ One /\ Root(frames[1])
             /\ IF status = "ok" THEN Len(frames[1]) = 3
                ELSE Len(frames[1]) = 4 /\ frames[1][4].bytes = << "traceback" >>

Gone == /\ One /\ Len(frames[1]) <= 4 /\ \A i \in DOMAIN frames[1] : frames[1][i].kind # "message"
        /\ ~defined \/ (entry = "serverConnectOn" /\ status # "ok")
        /\ pc \in {"idle", "ready", "copying"}

BTypes ==
  /\ pc \in {"idle", "ready", "copying", "calling", "args", "return", "return1", "returned"}
  /\ entry \in {"none", "frameUpdate", "serverConnectOn", "redirectNetBuffer", "loadInit"}
  /\ data \in Seq(Nat) /\ index \in Nat /\ index <= Len(data) /\ buf \in Buf
  /\ defined \in BOOLEAN /\ aborted \in BOOLEAN /\ entries \in Nat
  /\ frames \in Seq(Seq(Val))

Alive ==
  /\ pc = "idle" => frames = << Bottom >>
  /\ pc = "copying" => CopyingIn
  /\ pc = "ready" => ReadyToCall
  /\ pc = "calling" => LuaRuns
  /\ pc = "args" => CFunctionRuns
  /\ pc \in {"return", "return1"} => CFunctionDone
  /\ pc = "returned" => LuaIsBack

BInv ==
  /\ BTypes
  /\ entries = 0 => pc = "idle" /\ ~aborted
  /\ IF aborted THEN Gone ELSE Alive

LEMMA Limits ==
  ASSUME LuaBridgeAssumption
  PROVE  LIMIT \in Nat /\ LIMIT >= 5 /\ 2 * LIMIT <= MinStack /\ MinStack \in Nat
BY DEF LuaBridgeAssumption, LIMIT

--------------------------------------------------------------------------------
(* The operations of luaL_Buffer keep what was put into it *)

\* All of the buffer lies on the stack.
OnStack(st, u, b, k, w) == Holding(u, k, b.lvl, w) /\ Same(st, u, k) /\ b \in Buf

LEMMA EmptyFills ==
  ASSUME LuaBridgeAssumption, NEW k \in Nat, NEW st, NEW b, NEW w, Filled(st, b, k, w)
  PROVE  LET e == emptybuffer(st, b) IN
           OnStack(st, e.st, e.buf, k, w) /\ e.buf.lvl <= LIMIT /\ e.buf.p = << >>
<1>. DEFINE f == FlattenSeq(Bytes(st, k))
            e == emptybuffer(st, b)
<1>1. /\ b \in Buf /\ b.lvl \in Nat /\ b.p \in Seq(Nat) /\ b.lvl < LIMIT
      /\ Holding(st, k, b.lvl, f) /\ f \o b.p = w
  BY DEF Filled, Buf
<1>2. LIMIT \in Nat
  BY Limits
<1>. HIDE DEF f
<1>3. CASE b.p = << >>
  <2>1. e = [st |-> st, buf |-> b]
    BY <1>3 DEF emptybuffer
  <2>2. f \in Seq(Nat)
    BY <1>1, BytesOf
  <2>3. f \o b.p = f
    BY <1>3, <2>2, ConcatEmptySeq
  <2>4. Holding(st, k, b.lvl, w)
    BY <1>1, <2>3
  <2>. QED
    BY <1>1, <1>2, <1>3, <2>1, <2>4 DEF OnStack, Same
<1>4. CASE b.p # << >>
  <2>1. e = [st |-> Append(st, String(b.p)), buf |-> [p |-> << >>, lvl |-> b.lvl + 1]]
    BY <1>4 DEF emptybuffer
  <2>2. /\ Holding(Append(st, String(b.p)), k, b.lvl + 1, f \o b.p)
        /\ Same(st, Append(st, String(b.p)), k)
    BY <1>1, AppendHolds
  <2>3. << >> \in Seq(Nat)
    BY EmptySeq
  <2>4. /\ e.st = Append(st, String(b.p))
        /\ e.buf.lvl = b.lvl + 1 /\ e.buf.p = << >> /\ e.buf \in Buf
    BY <1>1, <2>1, <2>3 DEF Buf
  <2>5. b.lvl + 1 <= LIMIT
    BY <1>1, <1>2
  <2>. HIDE DEF e
  <2>6. OnStack(st, e.st, e.buf, k, w) /\ e.buf.lvl <= LIMIT /\ e.buf.p = << >>
    BY <1>1, <2>2, <2>4, <2>5 DEF OnStack
  <2>. QED
    BY <2>6 DEF e
<1>. QED
  BY <1>3, <1>4

LEMMA PrepFills ==
  ASSUME LuaBridgeAssumption, NEW k \in Nat, NEW st, NEW b, NEW w, Filled(st, b, k, w)
  PROVE  LET p == luaL_prepbuffer(st, b) IN
           OnStack(st, p.st, p.buf, k, w) /\ p.buf.lvl < LIMIT
<1>. DEFINE e == emptybuffer(st, b)
            p == luaL_prepbuffer(st, b)
<1>0. LIMIT \in Nat /\ LIMIT >= 5
  BY Limits
<1>1. OnStack(st, e.st, e.buf, k, w) /\ e.buf.lvl <= LIMIT /\ e.buf.p = << >>
  BY EmptyFills
<1>2. b \in Buf /\ b.lvl < LIMIT
  BY DEF Filled
<1>3. CASE b.p = << >>
  <2>1. p = [st |-> st, buf |-> b] /\ e = [st |-> st, buf |-> b]
    BY <1>3 DEF luaL_prepbuffer, emptybuffer
  <2>. QED
    BY <1>1, <1>2, <2>1
<1>4. CASE b.p # << >>
  <2>1. p = adjuststack(e.st, e.buf)
    BY <1>4 DEF luaL_prepbuffer
  <2>. HIDE DEF e, p
  <2>2. e.buf \in Buf /\ e.buf.lvl \in Nat /\ Holding(e.st, k, e.buf.lvl, w) /\ Same(st, e.st, k)
    BY <1>1 DEF OnStack, Buf
  <2>3. CASE e.buf.lvl <= 1
    <3>1. p = [st |-> e.st, buf |-> e.buf]
      BY <2>1, <2>3 DEF adjuststack
    <3>2. OnStack(st, p.st, p.buf, k, w) /\ p.buf.lvl < LIMIT
      BY <1>0, <1>1, <2>2, <2>3, <3>1
    <3>. QED
      BY <3>2 DEF p
  <2>4. CASE e.buf.lvl > 1
    <3>. DEFINE m == e.buf.lvl
                n == toget(e.st, m)
                l == m - n + 1
    <3>1. n \in 1 .. m /\ (n = m \/ l < LIMIT)
      BY <1>0, <2>2, <2>4, TogetBounds
    <3>2. p = [st |-> lua_concat(e.st, n), buf |-> [e.buf EXCEPT !.lvl = l]]
      BY <2>1, <2>2, <2>4 DEF adjuststack
    <3>. HIDE DEF n
    <3>3. l \in Nat /\ l < LIMIT
      BY <1>0, <2>2, <3>1
    <3>4. Holding(lua_concat(e.st, n), k, l, w) /\ Same(e.st, lua_concat(e.st, n), k)
      BY <2>2, <3>1, ConcatHolds
    <3>5. Same(st, lua_concat(e.st, n), k)
      BY <2>2, <3>4 DEF Same
    <3>. HIDE DEF l
    <3>6. /\ p.st = lua_concat(e.st, n) /\ p.buf.lvl = l /\ p.buf \in Buf
      BY <2>2, <3>2, <3>3 DEF Buf
    <3>7. OnStack(st, p.st, p.buf, k, w) /\ p.buf.lvl < LIMIT
      BY <3>3, <3>4, <3>5, <3>6 DEF OnStack
    <3>. QED
      BY <3>7 DEF p
  <2>. QED
    BY <2>2, <2>3, <2>4
<1>. QED
  BY <1>3, <1>4

LEMMA ResultFills ==
  ASSUME LuaBridgeAssumption, NEW k \in Nat, NEW st, NEW b, NEW w, Filled(st, b, k, w)
  PROVE  LET r == luaL_pushresult(st, b) IN OnStack(st, r.st, r.buf, k, w) /\ r.buf.lvl = 1
<1>. DEFINE e == emptybuffer(st, b)
            r == luaL_pushresult(st, b)
            u == lua_concat(e.st, e.buf.lvl)
<1>1. OnStack(st, e.st, e.buf, k, w)
  BY EmptyFills
<1>2. r = [st |-> u, buf |-> [p |-> << >>, lvl |-> 1]]
  BY DEF luaL_pushresult
<1>. HIDE DEF e
<1>3. e.buf.lvl \in Nat /\ Holding(e.st, k, e.buf.lvl, w) /\ Same(st, e.st, k)
  BY <1>1 DEF OnStack, Buf
<1>4. Holding(u, k, 1, w) /\ Same(e.st, u, k)
  <2>1. CASE e.buf.lvl = 0
    <3>1. u = Append(e.st, String(<< >>))
      BY <2>1 DEF lua_concat
    <3>2. << >> \in Seq(Nat) /\ Holding(e.st, k, 0, w)
      BY <1>3, <2>1, EmptySeq
    <3>3. Holding(u, k, 0 + 1, w \o << >>) /\ Same(e.st, u, k)
      <4>. HIDE DEF u
      <4>. QED
        BY <3>1, <3>2, AppendHolds
    <3>4. w \o << >> = w
      <4>1. w \in Seq(Nat)
        BY <3>2, BytesOf
      <4>. QED
        BY <4>1, ConcatEmptySeq
    <3>. HIDE DEF u
    <3>. QED
      BY <3>3, <3>4
  <2>2. CASE e.buf.lvl # 0
    <3>. DEFINE m == e.buf.lvl
    <3>1. m \in 1 .. m /\ m - m + 1 = 1
      BY <1>3, <2>2
    <3>2. Holding(u, k, m - m + 1, w) /\ Same(e.st, u, k)
      BY <1>3, <3>1, ConcatHolds
    <3>. QED
      BY <3>1, <3>2
  <2>. QED
    BY <2>1, <2>2
<1>5. Same(st, u, k)
  BY <1>3, <1>4 DEF Same
<1>. HIDE DEF u
<1>6. << >> \in Seq(Nat)
  BY EmptySeq
<1>7. r.st = u /\ r.buf.lvl = 1 /\ r.buf \in Buf
  BY <1>2, <1>6 DEF Buf
<1>. HIDE DEF r
<1>8. OnStack(st, r.st, r.buf, k, w)
  BY <1>4, <1>5, <1>7 DEF OnStack
<1>. QED
  BY <1>7, <1>8 DEF r

--------------------------------------------------------------------------------
(* The pieces of the steps *)

LEMMA BaseIs ==
  /\ Bottom \in Seq(Val) /\ Len(Bottom) = 2 /\ Bottom[1] = Value("table") /\ Bottom[2] = Value("table")
  /\ << Bottom >> \in Seq(Seq(Val)) /\ Len(<< Bottom >>) = 1 /\ << Bottom >>[1] = Bottom
<1>1. Value("table") \in Val
  <2>1. "table" \in Kinds
    BY DEF Kinds
  <2>. QED
    BY <2>1, ValueString
<1>. DEFINE v == Value("table")
<1>. HIDE DEF v
<1>2. v \in Val
  BY <1>1 DEF v
<1>3. << v, v >> \in Seq(Val) /\ Len(<< v, v >>) = 2 /\ << v, v >>[1] = v /\ << v, v >>[2] = v
  BY <1>2
<1>4. Bottom = << v, v >>
  BY DEF Bottom, v
<1>5. Bottom \in Seq(Val) /\ Len(Bottom) = 2 /\ Bottom[1] = v /\ Bottom[2] = v
  BY <1>3, <1>4
<1>6. << Bottom >> \in Seq(Seq(Val)) /\ Len(<< Bottom >>) = 1 /\ << Bottom >>[1] = Bottom
  BY <1>5
<1>. QED
  BY <1>5, <1>6 DEF v

\* Two values and the arguments are pushed onto the program's stack.
LEMMA PushedOn ==
  ASSUME NEW x \in Val, NEW y \in Val, NEW a \in Seq(Val)
  PROVE  LET s == Bottom \o << x, y >> \o a IN
           /\ s \in Seq(Val) /\ Len(s) = 4 + Len(a)
           /\ s[1] = Value("table") /\ s[2] = Value("table") /\ s[3] = x /\ s[4] = y
           /\ \A i \in 1 .. Len(a) : s[4 + i] = a[i]
<1>. DEFINE b == Bottom \o << x, y >>
            s == b \o a
            v == Value("table")
<1>1. /\ Bottom \in Seq(Val) /\ Len(Bottom) = 2 /\ Bottom[1] = v /\ Bottom[2] = v
  BY BaseIs
<1>2. << x, y >> \in Seq(Val) /\ Len(<< x, y >>) = 2 /\ << x, y >>[1] = x /\ << x, y >>[2] = y
  OBVIOUS
<1>. HIDE DEF v
<1>3. /\ b \in Seq(Val) /\ Len(b) = 4
      /\ b[1] = v /\ b[2] = v /\ b[3] = x /\ b[4] = y
  <2>. DEFINE c == << x, y >>
  <2>1. c \in Seq(Val) /\ Len(c) = 2 /\ c[1] = x /\ c[2] = y
    BY <1>2
  <2>. HIDE DEF c
  <2>2. /\ Bottom \o c \in Seq(Val) /\ Len(Bottom \o c) = 2 + 2
        /\ \A i \in 1 .. 2 : (Bottom \o c)[i] = Bottom[i]
        /\ \A i \in 1 .. 2 : (Bottom \o c)[2 + i] = c[i]
    <3>1. /\ Bottom \o c \in Seq(Val) /\ Len(Bottom \o c) = Len(Bottom) + Len(c)
          /\ \A i \in 1 .. Len(Bottom) : (Bottom \o c)[i] = Bottom[i]
          /\ \A i \in 1 .. Len(c) : (Bottom \o c)[Len(Bottom) + i] = c[i]
      <4>1. Bottom \in Seq(Val) /\ c \in Seq(Val)
        BY <1>1, <2>1
      <4>. QED
        BY ONLY <4>1, ConcatAt, SMT
    <3>2. Len(Bottom) = 2 /\ Len(c) = 2
      BY <1>1, <2>1
    <3>. QED
      BY ONLY <3>1, <3>2
  <2>3. (Bottom \o c)[1] = v /\ (Bottom \o c)[2] = v /\ (Bottom \o c)[3] = x /\ (Bottom \o c)[4] = y
    <3>1. (Bottom \o c)[1] = v /\ (Bottom \o c)[2] = v
      BY <1>1, <2>2
    <3>. DEFINE bc == Bottom \o c
    <3>2. bc[1] = v /\ bc[2] = v
      BY <3>1
    <3>3. \A i \in 1 .. 2 : bc[2 + i] = c[i]
      BY <2>2
    <3>. HIDE DEF bc
    <3>4. bc[2 + 1] = x /\ bc[2 + 2] = y
      BY <2>1, <3>3
    <3>5. bc[3] = x /\ bc[4] = y
      BY <3>4
    <3>. QED
      BY <3>2, <3>5 DEF bc
  <2>. QED
    BY <2>2, <2>3 DEF c
<1>. HIDE DEF b
<1>4. /\ s \in Seq(Val) /\ Len(s) = 4 + Len(a) /\ Len(a) \in Nat
      /\ \A i \in 1 .. 4 : s[i] = b[i]
      /\ \A i \in 1 .. Len(a) : s[4 + i] = a[i]
  <2>1. /\ s \in Seq(Val) /\ Len(s) = Len(b) + Len(a)
        /\ \A i \in 1 .. Len(b) : s[i] = b[i]
        /\ \A i \in 1 .. Len(a) : s[Len(b) + i] = a[i]
    <3>1. b \in Seq(Val) /\ a \in Seq(Val)
      BY <1>3
    <3>. QED
      BY ONLY <3>1, ConcatAt, SMT
  <2>2. Len(b) = 4 /\ Len(a) \in Nat
    BY <1>3
  <2>. HIDE DEF s
  <2>. QED
    BY ONLY <2>1, <2>2
<1>. HIDE DEF s
<1>5. s[1] = v /\ s[2] = v /\ s[3] = x /\ s[4] = y
  BY <1>3, <1>4
<1>. QED
  BY <1>4, <1>5 DEF s, b, v

\* The stack after an entry has pushed its values.
PushedStack(a) ==
  /\ entries' \in Nat /\ entries' # 0 /\ frames' \in Seq(Seq(Val)) /\ Len(frames') = 1
  /\ aborted' \in BOOLEAN
  /\ IF aborted'
     THEN /\ ~defined' /\ Len(frames'[1]) <= 4
          /\ \A i \in DOMAIN frames'[1] : frames'[1][i].kind # "message"
     ELSE /\ Root(frames'[1]) /\ Quiet(frames'[1]) /\ Len(frames'[1]) = 4 + Len(a)
          /\ \A i \in 1 .. Len(a) : frames'[1][4 + i] = a[i]

LEMMA PushDoes ==
  ASSUME BInv, NEW e, NEW a \in Seq(Val), \A i \in 1 .. Len(a) : a[i].kind # "message", Push(e, a)
  PROVE  PushedStack(a) /\ entry' = e
<1>1. pc = "idle" /\ ~aborted /\ frames = << Bottom >> /\ entries \in Nat
  BY DEF BInv, BTypes, Alive, Push
<1>2. frames[1] = Bottom
  BY <1>1, BaseIs
<1>3. entries' \in Nat /\ entries' # 0 /\ entry' = e
  BY <1>1 DEF Push
<1>4. \A k \in {"traceback", "function", "nil"} : Value(k) \in Val /\ Value(k).kind = k
  BY ValueString DEF Kinds
<1>5. CASE defined \/ e = "loadInit"
  <2>. DEFINE s == Bottom \o << Value("traceback"), Value("function") >> \o a
  <2>1. frames' = << s >> /\ aborted' = FALSE
    <3>1. /\ frames' = << frames[1] \o << Value("traceback"), Value("function") >> \o a >>
          /\ aborted' = aborted
      BY <1>5, Zenon DEF Push
    <3>2. << frames[1] \o << Value("traceback"), Value("function") >> \o a >> = << s >>
      BY ONLY <1>2, Zenon
    <3>3. aborted = FALSE
      BY <1>1 DEF BInv, BTypes
    <3>. HIDE DEF s
    <3>. QED
      BY ONLY <3>1, <3>2, <3>3
  <2>2. /\ s \in Seq(Val) /\ Len(s) = 4 + Len(a)
        /\ s[1] = Value("table") /\ s[2] = Value("table") /\ s[3] = Value("traceback")
        /\ s[4] = Value("function")
        /\ \A i \in 1 .. Len(a) : s[4 + i] = a[i]
    BY <1>4, PushedOn
  <2>. HIDE DEF s
  <2>3. frames' \in Seq(Seq(Val)) /\ Len(frames') = 1 /\ frames'[1] = s
    BY <2>1, <2>2
  <2>4. Len(a) \in Nat /\ Len(s) >= 3
    BY <2>2
  <2>5. Root(s)
    BY <2>2, <2>4 DEF Root
  <2>6. Quiet(s)
    <3>. SUFFICES ASSUME NEW i \in 4 .. Len(s) PROVE s[i].kind # "message"
      BY DEF Quiet
    <3>1. CASE i = 4
      BY <1>4, <2>2, <3>1
    <3>2. CASE i # 4
      <4>. DEFINE j == i - 4
      <4>1. j \in 1 .. Len(a) /\ i = 4 + j
        BY <2>2, <2>4, <3>2
      <4>. HIDE DEF j
      <4>. QED
        BY <2>2, <4>1
    <3>. QED
      BY <3>1, <3>2
  <2>. QED
    BY <1>3, <2>1, <2>2, <2>3, <2>5, <2>6 DEF PushedStack
<1>6. CASE ~(defined \/ e = "loadInit")
  <2>. DEFINE c == << >>
              s == Bottom \o << Value("traceback"), Value("nil") >>
              u == Bottom \o << Value("traceback"), Value("nil") >> \o c
  <2>1. frames' = << s >> /\ aborted' = TRUE /\ ~defined'
    BY <1>1, <1>2, <1>6 DEF Push
  <2>2. c \in Seq(Val) /\ Len(c) = 0
    BY EmptySeq
  <2>3. /\ u \in Seq(Val) /\ Len(u) = 4
        /\ u[1] = Value("table") /\ u[2] = Value("table") /\ u[3] = Value("traceback")
        /\ u[4] = Value("nil")
    <3>. HIDE DEF c
    <3>. QED
      BY <1>4, <2>2, PushedOn
  <2>4. s = u
    <3>1. s \in Seq(Val)
      BY <1>4, BaseIs
    <3>. HIDE DEF s
    <3>2. s \o << >> = s
      BY <3>1, ConcatEmptySeq
    <3>. QED
      BY <3>2 DEF s
  <2>. HIDE DEF s, u
  <2>5. frames' \in Seq(Seq(Val)) /\ Len(frames') = 1 /\ frames'[1] = u
    BY <2>1, <2>3, <2>4
  <2>6. \A i \in DOMAIN u : u[i].kind # "message"
    <3>1. DOMAIN u = 1 .. 4
      BY <2>3
    <3>2. Value("table").kind # "message"
      BY DEF Value
    <3>. QED
      BY <1>4, <2>3, <3>1, <3>2
  <2>. QED
    <3>1. aborted' /\ ~defined' /\ aborted' \in BOOLEAN
      BY <2>1
    <3>2. Len(frames'[1]) <= 4 /\ \A i \in DOMAIN frames'[1] : frames'[1][i].kind # "message"
      <4>1. Len(u) <= 4
        BY <2>3
      <4>. QED
        BY <2>5, <2>6, <4>1
    <3>. QED
      BY <1>3, <2>5, <3>1, <3>2 DEF PushedStack
<1>. QED
  BY <1>5, <1>6

LEMMA Slices ==
  ASSUME NEW d \in Seq(Nat), NEW i \in Nat, NEW r \in Nat, i + r <= Len(d)
  PROVE  /\ SubSeq(d, 1, i) \o SubSeq(d, i + 1, i + r) = SubSeq(d, 1, i + r)
         /\ SubSeq(d, i + 1, i + r) \in Seq(Nat)
<1>. DEFINE a == SubSeq(d, 1, i)
            b == SubSeq(d, i + 1, i + r)
            c == SubSeq(d, 1, i + r)
<1>0. Len(d) \in Nat
  OBVIOUS
<1>1. a \in Seq(Nat) /\ Len(a) = i /\ \A j \in 1 .. i : a[j] = d[j]
  BY <1>0, SubSeqProperties
<1>2. c \in Seq(Nat) /\ Len(c) = i + r /\ \A j \in 1 .. i + r : c[j] = d[j]
  BY <1>0, SubSeqProperties
<1>3. b \in Seq(Nat) /\ Len(b) = r /\ \A j \in 1 .. r : b[j] = d[i + j]
  <2>. DEFINE f == i + 1
              l == i + r
  <2>1. /\ f \in 1 .. Len(d) + 1 /\ l \in 0 .. Len(d) /\ f <= l + 1 /\ l - f + 1 = r
        /\ \A j \in 1 .. r : f + j - 1 = i + j /\ f + j - 1 \in 1 .. Len(d)
    BY <1>0
  <2>. HIDE DEF f, l
  <2>2. /\ SubSeq(d, f, l) \in Seq(Nat) /\ Len(SubSeq(d, f, l)) = r
        /\ \A j \in 1 .. r : SubSeq(d, f, l)[j] = d[f + j - 1]
    <3>1. d \in Seq(Nat)
      OBVIOUS
    <3>2. f \in 1 .. Len(d) + 1 /\ l \in 0 .. Len(d) /\ f <= l + 1 /\ l - f + 1 = r
      BY <2>1
    <3>. QED
      BY ONLY <3>1, <3>2, SubSeqProperties
  <2>3. \A j \in 1 .. r : SubSeq(d, f, l)[j] = d[i + j]
    BY ONLY <2>1, <2>2
  <2>. QED
    BY <2>2, <2>3 DEF f, l
<1>. HIDE DEF a, b, c
<1>4. /\ a \o b \in Seq(Nat) /\ Len(a \o b) = Len(a) + Len(b)
      /\ \A j \in 1 .. Len(a) : (a \o b)[j] = a[j]
      /\ \A j \in 1 .. Len(b) : (a \o b)[Len(a) + j] = b[j]
  <2>1. a \in Seq(Nat) /\ b \in Seq(Nat)
    BY <1>1, <1>3
  <2>. QED
    BY ONLY <2>1, ConcatAt, SMT
<1>5. ASSUME NEW j \in 1 .. i + r PROVE (a \o b)[j] = c[j]
  <2>. DEFINE ab == a \o b
  <2>0. /\ \A k \in 1 .. i : ab[k] = a[k]
        /\ \A k \in 1 .. r : ab[i + k] = b[k]
    BY <1>1, <1>3, <1>4
  <2>. HIDE DEF ab
  <2>1. CASE j <= i
    <3>1. j \in 1 .. i
      BY <2>1
    <3>2. ab[j] = d[j]
      BY ONLY <1>1, <2>0, <3>1
    <3>. QED
      BY <1>2, <3>2 DEF ab
  <2>2. CASE j > i
    <3>. DEFINE k == j - i
    <3>1. k \in 1 .. r /\ i + k = j
      BY <2>2
    <3>. HIDE DEF k
    <3>2. ab[i + k] = b[k] /\ b[k] = d[i + k]
      BY <1>3, <2>0, <3>1
    <3>3. ab[j] = d[j]
      BY <3>1, <3>2
    <3>. QED
      BY <1>2, <3>3 DEF ab
  <2>3. j <= i \/ j > i
    OBVIOUS
  <2>. QED
    BY <2>1, <2>2, <2>3
<1>6. Len(a \o b) = i + r
  BY <1>1, <1>3, <1>4
<1>7. a \o b = c
  BY <1>2, <1>4, <1>5, <1>6, SeqEqual
<1>. QED
  BY <1>3, <1>7 DEF a, b, c

\* A new buffer above whatever lies on a stack.
LEMMA NewBuffer ==
  ASSUME LuaBridgeAssumption, NEW st \in Seq(Val), NEW k \in Nat, Len(st) = k
  PROVE  Filled(st, luaL_buffinit, k, << >>) /\ luaL_buffinit \in Buf
<1>1. << >> \in Seq(Nat) /\ 0 < LIMIT
  BY EmptySeq, Limits
<1>2. luaL_buffinit \in Buf /\ luaL_buffinit.lvl = 0 /\ luaL_buffinit.p = << >>
  BY <1>1 DEF luaL_buffinit, Buf
<1>3. Bytes(st, k) = << >>
  <2>1. Len(st) - k = 0
    OBVIOUS
  <2>2. Bytes(st, k) = [i \in 1 .. 0 |-> st[k + i].bytes]
    BY <2>1 DEF Bytes
  <2>. QED
    BY <2>2
<1>4. FlattenSeq(Bytes(st, k)) = << >>
  BY <1>3, FlattenEmpty
<1>5. Holding(st, k, 0, << >>)
  BY <1>4 DEF Holding
<1>6. << >> \o << >> = << >>
  BY <1>1, ConcatEmptySeq
<1>. QED
  BY <1>1, <1>2, <1>4, <1>5, <1>6 DEF Filled

\* The values above the first k are strings, so no messages.
LEMMA StringsQuiet ==
  ASSUME NEW st, NEW u, NEW m \in Nat, NEW w,
         Root(st), Quiet(st), Same(st, u, 5), Holding(u, 5, m, w), Len(st) >= 5
  PROVE  Root(u) /\ Quiet(u) /\ Len(u) = 5 + m
<1>1. u \in Seq(Val) /\ Len(u) = 5 + m /\ \A i \in 6 .. 5 + m : u[i].kind = "string"
  BY DEF Holding
<1>2. u[1] = st[1] /\ u[2] = st[2] /\ u[3] = st[3] /\ u[4] = st[4] /\ u[5] = st[5]
  BY DEF Same
<1>3. st[4].kind # "message" /\ st[5].kind # "message"
  <2>1. Len(st) \in Nat
    BY DEF Root
  <2>. QED
    BY <2>1 DEF Quiet
<1>4. Root(u)
  BY <1>1, <1>2 DEF Root
<1>5. Quiet(u)
  <2>. SUFFICES ASSUME NEW i \in 4 .. 5 + m PROVE u[i].kind # "message"
    BY <1>1 DEF Quiet
  <2>1. i = 4 \/ i = 5 \/ i \in 6 .. 5 + m
    OBVIOUS
  <2>. QED
    BY <1>1, <1>2, <1>3, <2>1
<1>. QED
  BY <1>1, <1>4, <1>5

\* One string on the stack is what it holds.
LEMMA OneString ==
  ASSUME NEW st, NEW k \in Nat, NEW w, Holding(st, k, 1, w)
  PROVE  st \in Seq(Val) /\ Len(st) = k + 1 /\ Last(st) = String(w)
<1>. DEFINE s == Bytes(st, k)
            v == st[k + 1]
<1>1. st \in Seq(Val) /\ Len(st) = k + 1 /\ v \in Val /\ v.kind = "string" /\ FlattenSeq(s) = w
  BY DEF Holding
<1>2. Len(s) = 1 /\ s[1] = v.bytes
  <2>1. 1 \in Nat /\ 1 \in 1 .. 1
    OBVIOUS
  <2>2. Len(Bytes(st, k)) = 1 /\ \A i \in 1 .. 1 : Bytes(st, k)[i] = st[k + i].bytes
    BY <2>1, BytesOf
  <2>. QED
    BY <2>2
<1>3. v.bytes = w
  <2>. HIDE DEF s
  <2>. QED
    BY <1>1, <1>2, FlattenOne
<1>4. v = [kind |-> v.kind, bytes |-> v.bytes]
  BY <1>1 DEF Val
<1>5. v = String(w)
  BY <1>1, <1>3, <1>4 DEF String
<1>. QED
  BY <1>1, <1>5 DEF Last

\* The innermost stack is replaced.
LEMMA Replaced ==
  ASSUME NEW f \in Seq(Seq(Val)), NEW x \in Seq(Val), Len(f) >= 1
  PROVE  LET g == Append(Front(f), x) IN
           /\ g \in Seq(Seq(Val)) /\ Len(g) = Len(f) /\ g[Len(f)] = x
           /\ \A i \in 1 .. Len(f) - 1 : g[i] = f[i]
<1>. DEFINE n == Len(f) - 1
            h == Front(f)
            g == Append(h, x)
<1>0. n \in Nat /\ n <= Len(f) /\ Len(f) = n + 1
  OBVIOUS
<1>1. h \in Seq(Seq(Val)) /\ Len(h) = n /\ \A i \in 1 .. n : h[i] = f[i]
  <2>1. h = SubSeq(f, 1, n)
    BY DEF Front
  <2>. HIDE DEF n, h
  <2>2. /\ SubSeq(f, 1, n) \in Seq(Seq(Val)) /\ Len(SubSeq(f, 1, n)) = n
        /\ \A i \in 1 .. n : SubSeq(f, 1, n)[i] = f[i]
    BY <1>0, SubSeqProperties
  <2>. QED
    BY <2>1, <2>2
<1>. HIDE DEF n, h
<1>2. g \in Seq(Seq(Val)) /\ Len(g) = n + 1 /\ g[n + 1] = x /\ \A i \in 1 .. n : g[i] = h[i]
  BY <1>0, <1>1, AppendProperties
<1>. HIDE DEF g
<1>3. /\ g \in Seq(Seq(Val)) /\ Len(g) = Len(f) /\ g[Len(f)] = x
      /\ \A i \in 1 .. n : g[i] = f[i]
  BY <1>0, <1>1, <1>2
<1>. QED
  BY <1>3 DEF g, h, n

LEMMA StackAppended ==
  ASSUME NEW X, NEW s \in Seq(X), NEW x \in X, NEW n \in Nat, Len(s) = n
  PROVE  /\ Append(s, x) \in Seq(X) /\ Len(Append(s, x)) = n + 1 /\ Append(s, x)[n + 1] = x
         /\ \A i \in 1 .. n : Append(s, x)[i] = s[i]
BY AppendProperties

\* What one turn of the loop does to a buffer: it goes on, or it ends with one string.
Copies(st, b, k, d, i, r) ==
  LET p == luaL_prepbuffer(st, b)
      c == [p.buf EXCEPT !.p = SubSeq(d, i + 1, i + r)]
      done == luaL_pushresult(p.st, c)
      w == SubSeq(d, 1, i + r)
  IN /\ c \in Buf /\ Same(st, p.st, k) /\ Filled(p.st, c, k, w)
     /\ done.buf \in Buf /\ Same(st, done.st, k) /\ Holding(done.st, k, 1, w)

LEMMA ChunkCopied ==
  ASSUME LuaBridgeAssumption, NEW k \in Nat, NEW st, NEW b, NEW d \in Seq(Nat), NEW i \in Nat,
         Filled(st, b, k, SubSeq(d, 1, i)), NEW r \in Nat, i + r <= Len(d)
  PROVE  Copies(st, b, k, d, i, r)
<1>. DEFINE p == luaL_prepbuffer(st, b)
            x == SubSeq(d, i + 1, i + r)
            c == [p.buf EXCEPT !.p = x]
            done == luaL_pushresult(p.st, c)
            v == SubSeq(d, 1, i)
            w == SubSeq(d, 1, i + r)
<1>1. v \o x = w /\ x \in Seq(Nat)
  BY Slices
<1>2. OnStack(st, p.st, p.buf, k, v) /\ p.buf.lvl < LIMIT
  BY PrepFills
<1>. HIDE DEF p, x, v, w
<1>3. Holding(p.st, k, p.buf.lvl, v) /\ Same(st, p.st, k) /\ p.buf \in Buf
  BY <1>2 DEF OnStack
<1>4. c \in Buf /\ c.lvl = p.buf.lvl /\ c.p = x
  BY <1>1, <1>3 DEF Buf
<1>. HIDE DEF c
<1>5. FlattenSeq(Bytes(p.st, k)) = v
  BY <1>3 DEF Holding
<1>6. Filled(p.st, c, k, w)
  BY <1>1, <1>2, <1>3, <1>4, <1>5 DEF Filled
<1>7. OnStack(p.st, done.st, done.buf, k, w) /\ done.buf.lvl = 1
  BY <1>6, ResultFills
<1>. HIDE DEF done
<1>8. done.buf \in Buf /\ Holding(done.st, k, 1, w) /\ Same(st, done.st, k)
  BY <1>3, <1>7 DEF OnStack, Same
<1>. QED
  BY <1>3, <1>4, <1>6, <1>8 DEF Copies, p, x, c, done, w

LEMMA CopyDoes ==
  ASSUME LuaBridgeAssumption, BTypes, CopyChunk, NEW k \in Nat, Len(frames) \in Nat \ {0},
         Filled(Last(frames), buf, k, Copied)
  PROVE  \E u : /\ frames' = Append(Front(frames), u) /\ Same(Last(frames), u, k)
                /\ index' \in Nat /\ index' <= Len(data) /\ buf' \in Buf
                /\ \/ pc' = "copying" /\ Filled(u, buf', k, Copied')
                   \/ /\ pc' = IF Len(frames) = 1 THEN "ready" ELSE "return1"
                      /\ Holding(u, k, 1, data)
<1>. DEFINE st == Last(frames)
            p == luaL_prepbuffer(st, buf)
            left == Len(data) - index
            rlen == IF BufferSize > left THEN left ELSE BufferSize
            c == [p.buf EXCEPT !.p = SubSeq(data, index + 1, index + rlen)]
            done == luaL_pushresult(p.st, c)
<1>1. data \in Seq(Nat) /\ index \in Nat /\ index <= Len(data) /\ Len(data) \in Nat
  BY DEF BTypes
<1>2. rlen \in Nat /\ index + rlen <= Len(data) /\ (~ left - rlen > 0 => index + rlen = Len(data))
  BY <1>1 DEF LuaBridgeAssumption
<1>3. /\ pc = "copying" /\ index' = index + rlen /\ data' = data
      /\ IF left - rlen > 0
         THEN frames' = Append(Front(frames), p.st) /\ buf' = c /\ pc' = pc
         ELSE /\ frames' = Append(Front(frames), done.st) /\ buf' = done.buf
              /\ pc' = IF Len(frames) = 1 THEN "ready" ELSE "return1"
  BY Zenon DEF CopyChunk, copy
<1>. HIDE DEF left, rlen, st
<1>4. Copies(st, buf, k, data, index, rlen)
  <2>1. Filled(st, buf, k, SubSeq(data, 1, index))
    BY DEF Copied, st
  <2>. QED
    BY <1>1, <1>2, <2>1, ChunkCopied
<1>5. /\ c \in Buf /\ Same(st, p.st, k) /\ Filled(p.st, c, k, SubSeq(data, 1, index + rlen))
      /\ done.buf \in Buf /\ Same(st, done.st, k) /\ Holding(done.st, k, 1, SubSeq(data, 1, index + rlen))
  BY <1>4, Zenon DEF Copies
<1>. HIDE DEF p, c, done
<1>6. index' \in Nat /\ index' <= Len(data) /\ Copied' = SubSeq(data, 1, index + rlen)
  BY <1>1, <1>2, <1>3 DEF Copied
<1>7. CASE left - rlen > 0
  BY <1>3, <1>5, <1>6, <1>7 DEF st
<1>8. CASE ~ left - rlen > 0
  <2>1. SubSeq(data, 1, index + rlen) = data
    <3>1. index + rlen = Len(data)
      BY <1>2, <1>8
    <3>2. SubSeq(data, 1, Len(data)) = data
      BY <1>1, SubSeqFull
    <3>. QED
      BY <3>1, <3>2
  <2>. QED
    BY <1>3, <1>5, <1>6, <1>8, <2>1 DEF st
<1>. QED
  BY <1>7, <1>8

--------------------------------------------------------------------------------
(* Each step keeps the invariant *)

LEMMA InitBalanced ==
  ASSUME LuaBridgeAssumption, Init
  PROVE  BInv
<1>1. << >> \in Seq(Nat) /\ Len(<< >>) = 0
  BY EmptySeq
<1>2. luaL_buffinit \in Buf
  BY <1>1 DEF luaL_buffinit, Buf
<1>3. BTypes
  <2>1. frames \in Seq(Seq(Val))
    BY BaseIs DEF Init
  <2>2. data \in Seq(Nat) /\ index \in Nat /\ index <= Len(data) /\ buf \in Buf
    BY <1>1, <1>2 DEF Init
  <2>. QED
    BY <2>1, <2>2 DEF Init, BTypes
<1>4. Alive
  BY DEF Init, Alive
<1>. QED
  BY <1>3, <1>4 DEF BInv, Init

\* The entries whose arguments are all pushed at once.
LEMMA EntryReady ==
  ASSUME BInv, NEW e \in {"frameUpdate", "serverConnectOn", "loadInit"},
         NEW a \in Seq(Val), Len(a) = nargs(e), \A i \in 1 .. Len(a) : a[i].kind # "message",
         Push(e, a), pc' = "ready", UNCHANGED << buf, data, index >>
  PROVE  BInv'
<1>1. PushedStack(a) /\ entry' = e
  BY PushDoes
<1>2. defined' = defined
  BY DEF Push
<1>3. BTypes'
  BY <1>1, <1>2 DEF BInv, BTypes, PushedStack
<1>4. ASSUME aborted' PROVE Gone'
  BY <1>1, <1>4 DEF PushedStack, Gone, One
<1>5. ASSUME ~aborted' PROVE Alive'
  <2>1. ReadyToCall'
    BY <1>1, <1>5 DEF PushedStack, ReadyToCall, One, Entered
  <2>. QED
    BY <2>1 DEF Alive
<1>6. entries' # 0
  BY <1>1 DEF PushedStack
<1>. QED
  BY <1>3, <1>4, <1>5, <1>6 DEF BInv

LEMMA OneArgument ==
  ASSUME NEW k \in Kinds, k # "message"
  PROVE  LET a == << Value(k) >> IN
           a \in Seq(Val) /\ Len(a) = 1 /\ \A i \in 1 .. Len(a) : a[i].kind # "message"
<1>. DEFINE v == Value(k)
<1>1. v \in Val /\ v.kind # "message"
  BY ValueString
<1>. HIDE DEF v
<1>2. LET a == << v >> IN
        a \in Seq(Val) /\ Len(a) = 1 /\ \A i \in 1 .. Len(a) : a[i].kind # "message"
  BY <1>1
<1>. QED
  BY <1>2 DEF v

LEMMA EntersBalanced ==
  ASSUME LuaBridgeAssumption, BInv, frameUpdate \/ L_onServerConnectionEstablished
  PROVE  BInv'
<1>1. "number" \in Kinds /\ "string" \in Kinds
  BY DEF Kinds
<1>2. CASE frameUpdate
  <2>. DEFINE a == << Value("number") >>
  <2>1. a \in Seq(Val) /\ Len(a) = 1 /\ \A i \in 1 .. Len(a) : a[i].kind # "message"
    BY <1>1, OneArgument
  <2>2. nargs("frameUpdate") = 1
    BY DEF nargs
  <2>3. Push("frameUpdate", a) /\ pc' = "ready" /\ UNCHANGED << buf, data, index >>
    BY <1>2 DEF frameUpdate
  <2>. HIDE DEF a
  <2>. QED
    BY <2>1, <2>2, <2>3, EntryReady
<1>3. CASE L_onServerConnectionEstablished
  <2>. DEFINE a == << Value("string") >>
  <2>1. a \in Seq(Val) /\ Len(a) = 1 /\ \A i \in 1 .. Len(a) : a[i].kind # "message"
    BY <1>1, OneArgument
  <2>2. nargs("serverConnectOn") = 1
    BY DEF nargs
  <2>3. Push("serverConnectOn", a) /\ pc' = "ready" /\ UNCHANGED << buf, data, index >>
    BY <1>3 DEF L_onServerConnectionEstablished
  <2>. HIDE DEF a
  <2>. QED
    BY <2>1, <2>2, <2>3, EntryReady
<1>. QED
  BY <1>2, <1>3

LEMMA LoadBalanced ==
  ASSUME LuaBridgeAssumption, BInv, loadInit
  PROVE  BInv'
<1>1. entries = 0 /\ pc = "idle" /\ ~aborted /\ UNCHANGED << buf, data, index >>
  BY DEF BInv, loadInit
<1>2. CASE Push("loadInit", << >>) /\ pc' = "ready"
  <2>. DEFINE a == << >>
  <2>1. a \in Seq(Val) /\ Len(a) = 0 /\ \A i \in 1 .. Len(a) : a[i].kind # "message"
    BY EmptySeq
  <2>2. nargs("loadInit") = 0
    BY DEF nargs
  <2>3. Push("loadInit", a)
    BY <1>2
  <2>. HIDE DEF a
  <2>. QED
    BY <1>1, <1>2, <2>1, <2>2, <2>3, EntryReady
<1>3. CASE /\ entries' = 1 /\ entry' = "loadInit"
           /\ frames' = << lua_pop(frames[1] \o << Value("traceback"), Value("string") >>, 2) >>
           /\ UNCHANGED << pc, errfunc, status, defined, aborted >>
  <2>. DEFINE c == << Value("traceback"), Value("string") >>
              t == Bottom \o c
              u == lua_pop(t, 2)
  <2>1. frames = << Bottom >> /\ frames[1] = Bottom
    BY <1>1, BaseIs DEF BInv, Alive
  <2>2. c \in Seq(Val) /\ Len(c) = 2
    <3>1. Value("traceback") \in Val /\ Value("string") \in Val
      BY ValueString DEF Kinds
    <3>. QED
      BY <3>1
  <2>3. frames' = << u >>
    BY <1>3, <2>1
  <2>. HIDE DEF c
  <2>4. t \in Seq(Val) /\ Len(t) = 4 /\ \A i \in 1 .. 2 : t[i] = Bottom[i]
    <3>1. Bottom \in Seq(Val) /\ c \in Seq(Val)
      BY <2>2, BaseIs
    <3>2. /\ t \in Seq(Val) /\ Len(t) = Len(Bottom) + Len(c)
          /\ \A i \in 1 .. Len(Bottom) : t[i] = Bottom[i]
      BY ONLY <3>1, ConcatAt, SMT
    <3>3. Len(Bottom) = 2
      BY BaseIs
    <3>. QED
      BY ONLY <2>2, <3>2, <3>3
  <2>. HIDE DEF t
  <2>5. u \in Seq(Val) /\ Len(u) = 2 /\ \A i \in 1 .. 2 : u[i] = Bottom[i]
    <3>1. t \in Seq(Val) /\ 2 \in Nat /\ 2 <= Len(t) /\ Len(t) - 2 = 2
      BY <2>4
    <3>2. /\ u \in Seq(Val) /\ Len(u) = Len(t) - 2
          /\ \A i \in 1 .. Len(t) - 2 : u[i] = t[i]
      BY ONLY <3>1, Popped
    <3>. QED
      BY ONLY <2>4, <3>1, <3>2
  <2>6. u = Bottom
    BY <2>5, BaseIs, SeqEqual
  <2>7. frames' = << Bottom >>
    BY <2>3, <2>6
  <2>8. BTypes'
    BY <1>1, <1>3, <2>7, BaseIs DEF BInv, BTypes
  <2>9. Alive' /\ ~aborted' /\ entries' # 0
    BY <1>1, <1>3, <2>7 DEF Alive
  <2>. QED
    BY <2>8, <2>9 DEF BInv
<1>. QED
  BY <1>2, <1>3 DEF loadInit

LEMMA Counted ==
  ASSUME NEW n \in Nat
  PROVE  [i \in 1 .. n |-> i] \in Seq(Nat) /\ SubSeq([i \in 1 .. n |-> i], 1, 0) = << >>
OBVIOUS

LEMMA DecodeBalanced ==
  ASSUME LuaBridgeAssumption, BInv, NEW n \in Sizes, L_onDecodeBuffer(n)
  PROVE  BInv'
<1>. DEFINE a == << Value("number") >>
<1>1. a \in Seq(Val) /\ Len(a) = 1 /\ \A i \in 1 .. Len(a) : a[i].kind # "message"
  <2>1. "number" \in Kinds
    BY DEF Kinds
  <2>. QED
    BY <2>1, OneArgument
<1>2. /\ Push("redirectNetBuffer", a) /\ data' = [i \in 1 .. n |-> i] /\ index' = 0
      /\ buf' = luaL_buffinit /\ pc' = "copying"
  BY DEF L_onDecodeBuffer
<1>. HIDE DEF a
<1>3. PushedStack(a) /\ entry' = "redirectNetBuffer"
  BY <1>1, <1>2, PushDoes
<1>4. data' \in Seq(Nat) /\ SubSeq(data', 1, index') = << >>
  <2>1. n \in Nat
    BY DEF LuaBridgeAssumption
  <2>. QED
    BY <1>2, <2>1, Counted
<1>5. buf' \in Buf
  <2>1. << >> \in Seq(Nat)
    BY EmptySeq
  <2>. QED
    BY <1>2, <2>1 DEF luaL_buffinit, Buf
<1>6. BTypes'
  <2>1. defined' = defined
    BY <1>2 DEF Push
  <2>2. index' \in Nat /\ index' <= Len(data')
    <3>1. Len(data') \in Nat
      BY <1>4
    <3>2. index' = 0
      BY <1>2
    <3>. QED
      BY ONLY <3>1, <3>2
  <2>. QED
    BY <1>2, <1>3, <1>4, <1>5, <2>1, <2>2 DEF BInv, BTypes, PushedStack
<1>7. ASSUME aborted' PROVE Gone'
  BY <1>2, <1>3, <1>7 DEF PushedStack, Gone, One
<1>8. ASSUME ~aborted' PROVE Alive'
  <2>1. Root(frames'[1]) /\ Quiet(frames'[1]) /\ Len(frames'[1]) = 5 /\ Len(frames') = 1
    BY <1>1, <1>3, <1>8 DEF PushedStack
  <2>2. Filled(frames'[1], luaL_buffinit, 5, << >>)
    BY <2>1, NewBuffer DEF Root
  <2>3. CopyingIn'
    BY <1>2, <1>3, <1>4, <2>1, <2>2 DEF CopyingIn, Copied, One
  <2>. QED
    BY <1>2, <2>3 DEF Alive
<1>. QED
  BY <1>3, <1>6, <1>7, <1>8 DEF BInv, PushedStack

LEMMA CopyBalanced ==
  ASSUME LuaBridgeAssumption, BInv, CopyChunk
  PROVE  BInv'
<1>1. /\ pc = "copying" /\ ~aborted
      /\ UNCHANGED << data, entry, errfunc, status, defined, aborted, entries >>
  BY DEF CopyChunk
<1>2. BTypes /\ CopyingIn /\ entries # 0
  BY <1>1 DEF BInv, Alive
<1>3. frames \in Seq(Seq(Val)) /\ Len(frames) \in Nat
  BY <1>2 DEF BTypes
<1>4. CASE /\ One /\ entry = "redirectNetBuffer"
           /\ Root(frames[1]) /\ Quiet(frames[1]) /\ Filled(frames[1], buf, 5, Copied)
  <2>1. Len(frames) = 1 /\ Last(frames) = frames[1] /\ Len(frames) \in Nat \ {0}
    BY <1>3, <1>4 DEF One, Last
  <2>2. PICK u : /\ frames' = Append(Front(frames), u) /\ Same(frames[1], u, 5)
                 /\ index' \in Nat /\ index' <= Len(data) /\ buf' \in Buf
                 /\ \/ pc' = "copying" /\ Filled(u, buf', 5, Copied')
                    \/ pc' = "ready" /\ Holding(u, 5, 1, data)
    <3>1. 5 \in Nat /\ Filled(Last(frames), buf, 5, Copied)
      BY <1>4, <2>1
    <3>2. \E u : /\ frames' = Append(Front(frames), u) /\ Same(Last(frames), u, 5)
                 /\ index' \in Nat /\ index' <= Len(data) /\ buf' \in Buf
                 /\ \/ pc' = "copying" /\ Filled(u, buf', 5, Copied')
                    \/ /\ pc' = IF Len(frames) = 1 THEN "ready" ELSE "return1"
                       /\ Holding(u, 5, 1, data)
      BY <1>2, <2>1, <3>1, CopyDoes
    <3>. QED
      BY <2>1, <3>2
  <2>3. PICK m, w : m \in Nat /\ Holding(u, 5, m, w)
    <3>1. CASE Filled(u, buf', 5, Copied')
      <4>1. buf'.lvl \in Nat /\ Holding(u, 5, buf'.lvl, FlattenSeq(Bytes(u, 5)))
        BY <3>1 DEF Filled, Buf
      <4>. QED
        BY <4>1
    <3>2. CASE Holding(u, 5, 1, data)
      BY <3>2
    <3>. QED
      BY <2>2, <3>1, <3>2
  <2>4. frames' \in Seq(Seq(Val)) /\ Len(frames') = 1 /\ frames'[1] = u
    <3>1. u \in Seq(Val) /\ Len(frames) >= 1
      BY <2>1, <2>3 DEF Holding
    <3>2. /\ Append(Front(frames), u) \in Seq(Seq(Val))
          /\ Len(Append(Front(frames), u)) = Len(frames)
          /\ Append(Front(frames), u)[Len(frames)] = u
      BY <1>3, <3>1, Replaced
    <3>. QED
      BY ONLY <2>1, <2>2, <3>2
  <2>5. Len(frames[1]) >= 5
    BY <1>4 DEF Filled, Holding, Buf
  <2>6. Root(u) /\ Quiet(u) /\ Len(u) = 5 + m
    BY <1>4, <2>2, <2>3, <2>5, StringsQuiet
  <2>7. BTypes'
    BY <1>1, <1>2, <2>2, <2>4 DEF BTypes
  <2>8. Alive'
    <3>1. CASE pc' = "copying" /\ Filled(u, buf', 5, Copied')
      <4>1. CopyingIn'
        BY <1>1, <1>4, <2>4, <2>6, <3>1 DEF CopyingIn, One
      <4>. QED
        BY <3>1, <4>1 DEF Alive
    <3>2. CASE pc' = "ready" /\ Holding(u, 5, 1, data)
      <4>1. Len(u) = 6 /\ Last(u) = String(data)
        <5>1. PICK k \in Nat : k = 5
          OBVIOUS
        <5>2. Holding(u, k, 1, data) /\ k + 1 = 6
          BY <3>2, <5>1
        <5>. QED
          BY <5>2, OneString
      <4>2. nargs(entry') = 2
        BY <1>1, <1>4 DEF nargs
      <4>3. ReadyToCall'
        <5>0. Len(frames'[1]) = 6
          BY <2>4, <4>1
        <5>1. Root(frames'[1]) /\ Quiet(frames'[1]) /\ Len(frames'[1]) = 4 + nargs(entry')
          <6>1. Len(frames'[1]) = 4 + nargs(entry')
            BY ONLY <4>2, <5>0
          <6>. QED
            BY <2>4, <2>6, <6>1
        <5>2. Last(frames'[1]) = String(data') /\ Len(frames') = 1
          BY <1>1, <2>4, <4>1
        <5>. QED
          BY <5>1, <5>2 DEF ReadyToCall, Entered, One
      <4>. QED
        BY <3>2, <4>3 DEF Alive
    <3>. QED
      BY <2>2, <3>1, <3>2
  <2>. QED
    BY <1>1, <1>2, <2>7, <2>8 DEF BInv
<1>5. CASE Two /\ Entered /\ errfunc = 3 /\ \E k \in 0 .. 4 : Filled(frames[2], buf, k, Copied)
  <2>1. Len(frames) = 2 /\ Last(frames) = frames[2] /\ Len(frames) \in Nat \ {0}
    BY <1>3, <1>5 DEF Two, Last
  <2>2. PICK k \in 0 .. 4 : Filled(frames[2], buf, k, Copied)
    BY <1>5
  <2>3. PICK u : /\ frames' = Append(Front(frames), u)
                 /\ index' \in Nat /\ index' <= Len(data) /\ buf' \in Buf
                 /\ \/ pc' = "copying" /\ Filled(u, buf', k, Copied')
                    \/ pc' = "return1" /\ Holding(u, k, 1, data)
    <3>1. k \in Nat /\ Filled(Last(frames), buf, k, Copied)
      BY <2>1, <2>2
    <3>2. \E u : /\ frames' = Append(Front(frames), u) /\ Same(Last(frames), u, k)
                 /\ index' \in Nat /\ index' <= Len(data) /\ buf' \in Buf
                 /\ \/ pc' = "copying" /\ Filled(u, buf', k, Copied')
                    \/ /\ pc' = IF Len(frames) = 1 THEN "ready" ELSE "return1"
                       /\ Holding(u, k, 1, data)
      BY <1>2, <2>1, <3>1, CopyDoes
    <3>3. Len(frames) # 1
      BY <2>1
    <3>. QED
      BY <3>2, <3>3
  <2>4. u \in Seq(Val)
    BY <2>3 DEF Filled, Holding
  <2>5. frames' \in Seq(Seq(Val)) /\ Len(frames') = 2 /\ frames'[2] = u /\ frames'[1] = frames[1]
    <3>1. Len(frames) >= 1 /\ Len(frames) - 1 = 1
      BY <2>1
    <3>2. /\ Append(Front(frames), u) \in Seq(Seq(Val))
          /\ Len(Append(Front(frames), u)) = Len(frames)
          /\ Append(Front(frames), u)[Len(frames)] = u
          /\ \A i \in 1 .. Len(frames) - 1 : Append(Front(frames), u)[i] = frames[i]
      BY <1>3, <2>4, <3>1, Replaced
    <3>. QED
      BY <2>1, <2>3, <3>1, <3>2
  <2>6. BTypes'
    BY <1>1, <1>2, <2>3, <2>5 DEF BTypes
  <2>7. Two' /\ Entered' /\ errfunc' = 3
    BY <1>1, <1>5, <2>5 DEF Two, Entered
  <2>8. Alive'
    <3>1. CASE pc' = "copying" /\ Filled(u, buf', k, Copied')
      <4>1. CopyingIn'
        BY <2>5, <2>7, <3>1 DEF CopyingIn
      <4>. QED
        BY <3>1, <4>1 DEF Alive
    <3>2. CASE pc' = "return1" /\ Holding(u, k, 1, data)
      <4>1. Last(u) = String(data)
        <5>1. k \in Nat
          OBVIOUS
        <5>. QED
          BY <3>2, <5>1, OneString
      <4>2. CFunctionDone'
        BY <1>1, <2>5, <2>7, <4>1 DEF CFunctionDone
      <4>. QED
        BY <3>2, <4>2 DEF Alive
    <3>. QED
      BY <2>3, <3>1, <3>2
  <2>. QED
    BY <1>1, <1>2, <2>6, <2>8 DEF BInv
<1>. QED
  BY <1>2, <1>4, <1>5 DEF CopyingIn

LEMMA PcallBalanced ==
  ASSUME LuaBridgeAssumption, BInv, lua_pcall
  PROVE  BInv'
<1>1. /\ pc = "ready" /\ ~aborted /\ pc' = "calling"
      /\ errfunc' = index2adr(frames[1], handlerIndex(entry))
      /\ UNCHANGED << frames, buf, data, index, entry, status, defined, aborted, entries >>
  BY DEF lua_pcall
<1>2. BTypes /\ One /\ Entered /\ entries # 0
  BY <1>1 DEF BInv, Alive, ReadyToCall
<1>3. errfunc' = 3
  <2>1. Len(frames[1]) = 4 + nargs(entry)
    BY <1>2 DEF Entered
  <2>2. Len(frames[1]) + handlerIndex(entry) + 1 = 3 /\ ~ handlerIndex(entry) > 0
    <3>1. \/ handlerIndex(entry) = -4 /\ nargs(entry) = 2
          \/ handlerIndex(entry) = -2 /\ nargs(entry) = 0
          \/ handlerIndex(entry) = -3 /\ nargs(entry) = 1
      BY DEF handlerIndex, nargs
    <3>. QED
      BY ONLY <2>1, <3>1
  <2>. QED
    BY <1>1, <2>2 DEF index2adr
<1>4. BTypes' /\ LuaRuns'
  BY <1>1, <1>2, <1>3 DEF BTypes, LuaRuns, One, Entered
<1>. QED
  BY <1>1, <1>2, <1>4 DEF BInv, Alive

\* The function and its arguments are taken off.
LEMMA Unstacked ==
  ASSUME LuaBridgeAssumption, Entered
  PROVE  LET u == lua_pop(frames[1], nargs(entry) + 1) IN Root(u) /\ Len(u) = 3
<1>. DEFINE st == frames[1]
            n == nargs(entry) + 1
            u == lua_pop(st, n)
<1>1. Root(st) /\ Len(st) = 3 + n /\ n \in Nat
  <2>1. nargs(entry) \in 0 .. 2
    BY DEF nargs
  <2>. QED
    BY <2>1 DEF Entered
<1>. HIDE DEF st, n
<1>2. st \in Seq(Val) /\ n \in Nat /\ n <= Len(st) /\ Len(st) - n = 3
  BY <1>1 DEF Root
<1>3. u \in Seq(Val) /\ Len(u) = 3 /\ \A i \in 1 .. 3 : u[i] = st[i]
  <2>1. /\ u \in Seq(Val) /\ Len(u) = Len(st) - n
        /\ \A i \in 1 .. Len(st) - n : u[i] = st[i]
    BY ONLY <1>2, Popped
  <2>. QED
    BY ONLY <1>2, <2>1
<1>. HIDE DEF u
<1>4. Root(u) /\ Len(u) = 3
  BY <1>1, <1>3 DEF Root
<1>. QED
  BY <1>4 DEF u, st, n

\* One frame is left, the program's.
LEMMA OneFrame ==
  ASSUME NEW u \in Seq(Val)
  PROVE  << u >> \in Seq(Seq(Val)) /\ Len(<< u >>) = 1 /\ << u >>[1] = u
OBVIOUS

LEMMA ReturnsBalanced ==
  ASSUME LuaBridgeAssumption, BInv, LuaReturns
  PROVE  BInv'
<1>. DEFINE u == lua_pop(frames[1], nargs(entry) + 1)
<1>1. /\ pc = "calling" /\ pc' = "returned" /\ status' = "ok" /\ frames' = << u >>
      /\ defined' = (defined \/ entry = "loadInit")
      /\ UNCHANGED << buf, data, index, entry, errfunc, aborted, entries >>
  BY DEF LuaReturns
<1>2. BTypes /\ Entered /\ ~aborted /\ entries # 0
  BY <1>1 DEF BInv, Alive, LuaRuns, Gone
<1>3. Root(u) /\ Len(u) = 3
  BY <1>2, Unstacked
<1>. HIDE DEF u
<1>4. frames' \in Seq(Seq(Val)) /\ Len(frames') = 1 /\ frames'[1] = u
  BY <1>1, <1>3, OneFrame DEF Root
<1>5. BTypes'
  BY <1>1, <1>2, <1>4 DEF BTypes
<1>6. LuaIsBack'
  BY <1>1, <1>3, <1>4 DEF LuaIsBack, One
<1>. QED
  BY <1>1, <1>2, <1>5, <1>6 DEF BInv, Alive

LEMMA ThrowBalanced ==
  ASSUME LuaBridgeAssumption, BInv, Throw
  PROVE  BInv'
<1>. DEFINE v == lua_pop(frames[1], nargs(entry) + 1)
            msg == [Value("message") EXCEPT !.bytes = << frames[1][errfunc].kind >>]
            u == Append(v, msg)
<1>1. /\ pc \in {"calling", "args"} /\ pc' = "returned" /\ status' = "LUA_ERRRUN"
      /\ frames' = << u >>
      /\ UNCHANGED << buf, data, index, entry, errfunc, aborted, entries >>
  BY DEF Throw, Unwound
<1>2. defined \in BOOLEAN => defined' \in BOOLEAN
  BY DEF Throw
<1>3. BTypes /\ Entered /\ errfunc = 3 /\ ~aborted /\ entries # 0
  BY <1>1 DEF BInv, Alive, LuaRuns, CFunctionRuns, Gone
<1>4. Root(v) /\ Len(v) = 3
  BY <1>3, Unstacked
<1>5. msg \in Val /\ msg.bytes = << "traceback" >>
  <2>1. frames[1][3] = Value("traceback")
    BY <1>3 DEF Entered, Root
  <2>2. "message" \in Kinds /\ "traceback" \in Kinds
    BY DEF Kinds
  <2>3. frames[1][errfunc].kind = "traceback"
    BY <1>3, <2>1 DEF Value
  <2>4. msg = [kind |-> "message", bytes |-> << "traceback" >>]
    BY <2>3 DEF Value
  <2>5. << "traceback" >> \in Seq(Kinds)
    BY <2>2
  <2>. HIDE DEF msg
  <2>. QED
    BY <2>2, <2>4, <2>5 DEF Val
<1>. HIDE DEF v, msg
<1>6. u \in Seq(Val) /\ Len(u) = 4 /\ u[4] = msg /\ \A i \in 1 .. 3 : u[i] = v[i]
  <2>1. PICK n \in Nat : n = 3
    OBVIOUS
  <2>2. v \in Seq(Val) /\ msg \in Val /\ Len(v) = n
    BY <1>4, <1>5, <2>1 DEF Root
  <2>3. u \in Seq(Val) /\ Len(u) = n + 1 /\ u[n + 1] = msg /\ \A i \in 1 .. n : u[i] = v[i]
    BY ONLY n \in Nat, <2>2, StackAppended
  <2>. HIDE DEF u
  <2>4. n + 1 = 4
    BY <2>1
  <2>. QED
    BY ONLY <2>1, <2>3, <2>4
<1>. HIDE DEF u
<1>7. frames' \in Seq(Seq(Val)) /\ Len(frames') = 1 /\ frames'[1] = u
  BY <1>1, <1>6, OneFrame
<1>8. Root(u)
  BY <1>4, <1>6 DEF Root
<1>9. BTypes'
  BY <1>1, <1>2, <1>3, <1>7 DEF BTypes
<1>10. LuaIsBack'
  BY <1>1, <1>5, <1>6, <1>7, <1>8 DEF LuaIsBack, One
<1>. QED
  BY <1>1, <1>3, <1>9, <1>10 DEF BInv, Alive

LEMMA CallCBalanced ==
  ASSUME LuaBridgeAssumption, BInv, NEW a \in ArgLists, CallC(a)
  PROVE  BInv'
<1>. DEFINE u == [i \in DOMAIN a |-> Value(a[i])]
<1>1. /\ pc = "calling" /\ pc' = "args" /\ frames' = Append(frames, u)
      /\ UNCHANGED << buf, data, index, entry, errfunc, status, defined, aborted, entries >>
  BY DEF CallC
<1>2. BTypes /\ One /\ Entered /\ errfunc = 3 /\ ~aborted /\ entries # 0
  BY <1>1 DEF BInv, Alive, LuaRuns, Gone
<1>3. u \in Seq(Val) /\ Len(u) <= 4
  <2>1. a \in Seq(STRING) /\ Len(a) <= 4
    BY DEF LuaBridgeAssumption
  <2>2. DOMAIN a = 1 .. Len(a) /\ Len(a) \in Nat
    BY <2>1
  <2>3. \A i \in 1 .. Len(a) : Value(a[i]) \in Val
    <3>1. \A i \in 1 .. Len(a) : a[i] \in STRING
      BY <2>1
    <3>. QED
      BY <3>1, ValueString DEF Kinds
  <2>. DEFINE e(i) == Value(a[i])
              n == Len(a)
  <2>4. u = [i \in 1 .. n |-> e(i)] /\ \A i \in 1 .. n : e(i) \in Val
    BY <2>2, <2>3
  <2>5. n \in Nat /\ n <= 4
    BY <2>1, <2>2
  <2>. HIDE DEF u, e, n
  <2>. QED
    BY <2>4, <2>5
<1>. HIDE DEF u
<1>4. /\ frames' \in Seq(Seq(Val)) /\ Len(frames') = 2 /\ frames'[2] = u
      /\ frames'[1] = frames[1]
  <2>1. frames \in Seq(Seq(Val)) /\ Len(frames) = 1
    BY <1>2 DEF BTypes, One
  <2>. DEFINE g == Append(frames, u)
  <2>2. g \in Seq(Seq(Val)) /\ Len(g) = 2 /\ g[2] = u /\ g[1] = frames[1]
    <3>1. PICK n \in Nat : n = 1
      OBVIOUS
    <3>2. frames \in Seq(Seq(Val)) /\ u \in Seq(Val) /\ Len(frames) = n
      BY <1>3, <2>1, <3>1
    <3>3. /\ g \in Seq(Seq(Val)) /\ Len(g) = n + 1 /\ g[n + 1] = u
          /\ \A i \in 1 .. n : g[i] = frames[i]
      BY ONLY n \in Nat, <3>2, StackAppended
    <3>. HIDE DEF g
    <3>4. n + 1 = 2 /\ 1 \in 1 .. n
      BY <3>1
    <3>. QED
      BY ONLY <3>3, <3>4
  <2>3. frames' = g
    BY <1>1
  <2>. HIDE DEF g
  <2>. QED
    BY <2>2, <2>3
<1>5. BTypes'
  BY <1>1, <1>2, <1>4 DEF BTypes
<1>6. CFunctionRuns'
  BY <1>1, <1>2, <1>3, <1>4 DEF CFunctionRuns, Two, Entered
<1>. QED
  BY <1>1, <1>2, <1>5, <1>6 DEF BInv, Alive

\* Taking arguments as strings leaves as many values on the same two stacks.
LEMMA StringsTaken ==
  ASSUME BTypes, CFunctionRuns, NEW n \in Nat, TakeStrings(n)
  PROVE  /\ frames' \in Seq(Seq(Val)) /\ Len(frames') = 2 /\ frames'[1] = frames[1]
         /\ frames'[2] \in Seq(Val) /\ Len(frames'[2]) = Len(frames[2])
<1>. DEFINE st == frames[2]
            u == tolstring(st, n)
<1>1. Len(frames) = 2 /\ Last(frames) = st /\ frames \in Seq(Seq(Val)) /\ st \in Seq(Val)
  BY DEF BTypes, CFunctionRuns, Two, Last
<1>2. u \in Seq(Val) /\ Len(u) = Len(st)
  <2>1. Value("numeral") \in Val
    <3>1. "numeral" \in Kinds
      BY DEF Kinds
    <3>. QED
      BY <3>1, ValueString
  <2>2. u = [i \in 1 .. Len(st) |->
               IF i <= n /\ st[i].kind = "number" THEN Value("numeral") ELSE st[i]]
    BY <1>1 DEF tolstring
  <2>. DEFINE e(i) == IF i <= n /\ st[i].kind = "number" THEN Value("numeral") ELSE st[i]
              k == Len(st)
  <2>3. u = [i \in 1 .. k |-> e(i)] /\ \A i \in 1 .. k : e(i) \in Val
    BY <1>1, <2>1, <2>2
  <2>4. k \in Nat
    BY <1>1
  <2>. HIDE DEF u, e, k
  <2>5. u \in Seq(Val) /\ Len(u) = k
    BY <2>3, <2>4
  <2>. QED
    BY <2>5 DEF k
<1>3. frames' = Append(Front(frames), u)
  BY <1>1 DEF TakeStrings
<1>. HIDE DEF u, st
<1>4. /\ Append(Front(frames), u) \in Seq(Seq(Val))
      /\ Len(Append(Front(frames), u)) = Len(frames)
      /\ Append(Front(frames), u)[Len(frames)] = u
      /\ \A i \in 1 .. Len(frames) - 1 : Append(Front(frames), u)[i] = frames[i]
  <2>1. Len(frames) >= 1
    BY <1>1
  <2>. QED
    BY <1>1, <1>2, <2>1, Replaced
<1>. QED
  BY <1>1, <1>2, <1>3, <1>4 DEF st

LEMMA FileBalanced ==
  ASSUME LuaBridgeAssumption, BInv, NEW n \in Sizes, loadBinaryFileForLua(n)
  PROVE  BInv'
<1>1. /\ pc = "args" /\ pc' = "copying" /\ data' = [i \in 1 .. n |-> i] /\ index' = 0
      /\ buf' = luaL_buffinit
      /\ TakeStrings(1)
      /\ UNCHANGED << entry, errfunc, status, defined, aborted, entries >>
  BY DEF loadBinaryFileForLua
<1>2. /\ BTypes /\ CFunctionRuns /\ Two /\ Entered /\ errfunc = 3 /\ Len(frames[2]) <= 4
      /\ ~aborted /\ entries # 0
  BY <1>1 DEF BInv, Alive, CFunctionRuns, Gone
<1>8. /\ frames' \in Seq(Seq(Val)) /\ Len(frames') = 2 /\ frames'[1] = frames[1]
      /\ frames'[2] \in Seq(Val) /\ Len(frames'[2]) <= 4
  BY <1>1, <1>2, StringsTaken
<1>3. data' \in Seq(Nat) /\ SubSeq(data', 1, index') = << >>
  <2>1. n \in Nat
    BY DEF LuaBridgeAssumption
  <2>. QED
    BY <1>1, <2>1, Counted
<1>. DEFINE k == Len(frames'[2])
<1>4. k \in 0 .. 4
  <2>1. k \in Nat /\ k <= 4
    BY <1>8
  <2>. HIDE DEF k
  <2>. QED
    BY <2>1
<1>. HIDE DEF k
<1>5. Filled(frames'[2], luaL_buffinit, k, << >>) /\ luaL_buffinit \in Buf
  BY <1>4, <1>8, NewBuffer DEF k
<1>6. BTypes'
  <2>1. index' \in Nat /\ index' <= Len(data')
    <3>1. Len(data') \in Nat
      BY <1>3
    <3>2. index' = 0
      BY <1>1
    <3>. QED
      BY ONLY <3>1, <3>2
  <2>. QED
    BY <1>1, <1>2, <1>3, <1>5, <1>8, <2>1 DEF BTypes
<1>7. CopyingIn'
  <2>1. Two' /\ Entered' /\ errfunc' = 3
    BY <1>1, <1>2, <1>8 DEF Two, Entered
  <2>2. Filled(frames'[2], buf', k, Copied')
    BY <1>1, <1>3, <1>5 DEF Copied
  <2>. QED
    BY <1>4, <2>1, <2>2 DEF CopyingIn
<1>. QED
  BY <1>1, <1>2, <1>6, <1>7 DEF BInv, Alive

LEMMA HandedBalanced ==
  ASSUME LuaBridgeAssumption, BInv, sendBuffer \/ connectServer
  PROVE  BInv'
<1>1. /\ pc = "args" /\ pc' = "return"
      /\ \E n \in Nat : TakeStrings(n)
      /\ UNCHANGED << buf, data, index, entry, errfunc, status, defined, aborted, entries >>
  <2>1. 1 \in Nat /\ 4 \in Nat
    OBVIOUS
  <2>. QED
    BY <2>1, Zenon DEF sendBuffer, connectServer
<1>2. BTypes /\ CFunctionRuns /\ Two /\ Entered /\ errfunc = 3 /\ ~aborted /\ entries # 0
  BY <1>1 DEF BInv, Alive, CFunctionRuns, Gone
<1>3. frames' \in Seq(Seq(Val)) /\ Len(frames') = 2 /\ frames'[1] = frames[1]
  BY <1>1, <1>2, StringsTaken
<1>4. BTypes' /\ CFunctionDone'
  BY <1>1, <1>2, <1>3 DEF BTypes, CFunctionDone, Two, Entered
<1>. QED
  BY <1>1, <1>2, <1>4 DEF BInv, Alive

LEMMA CReturnsBalanced ==
  ASSUME LuaBridgeAssumption, BInv, ReturnC
  PROVE  BInv'
<1>1. /\ pc \in {"return", "return1"} /\ pc' = "calling" /\ frames' = Front(frames)
      /\ UNCHANGED << buf, data, index, entry, errfunc, status, defined, aborted, entries >>
  BY DEF ReturnC
<1>2. BTypes /\ Two /\ Entered /\ errfunc = 3 /\ ~aborted /\ entries # 0
  BY <1>1 DEF BInv, Alive, CFunctionDone, Gone
<1>3. frames' \in Seq(Seq(Val)) /\ Len(frames') = 1 /\ frames'[1] = frames[1]
  <2>1. frames \in Seq(Seq(Val)) /\ Len(frames) = 2
    BY <1>2 DEF BTypes, Two
  <2>2. frames' = SubSeq(frames, 1, 1)
    BY <1>1, <2>1 DEF Front
  <2>. QED
    BY <2>1, <2>2
<1>4. BTypes' /\ LuaRuns'
  BY <1>1, <1>2, <1>3 DEF BTypes, LuaRuns, One, Entered
<1>. QED
  BY <1>1, <1>2, <1>4 DEF BInv, Alive

LEMMA LeaveBalanced ==
  ASSUME LuaBridgeAssumption, BInv, Leave
  PROVE  BInv'
<1>. DEFINE st == frames[1]
            n == pops(entry)
            u == lua_pop(st, n)
<1>1. /\ pc = "returned" /\ pc' = "idle" /\ frames' = << u >>
      /\ aborted' = (Len(frames'[1]) # Len(Bottom))
      /\ UNCHANGED << buf, data, index, entry, errfunc, status, defined, entries >>
  BY DEF Leave
<1>2. BTypes /\ LuaIsBack /\ entries # 0
  BY <1>1 DEF BInv, Alive, Gone
<1>3. Root(st) /\ st \in Seq(Val) /\ Len(st) \in {3, 4} /\ n \in {1, 2}
  BY <1>2 DEF LuaIsBack, Root, pops
<1>. DEFINE left == Len(st) - n
<1>4. \/ left = 2
      \/ left = 3 /\ entry = "serverConnectOn" /\ status # "ok"
  <2>1. CASE status = "ok"
    <3>1. Len(st) = 3 /\ n = 1
      BY <1>2, <2>1 DEF LuaIsBack, pops
    <3>. HIDE DEF st, n
    <3>. QED
      BY <3>1
  <2>2. CASE status # "ok"
    <3>1. Len(st) = 4 /\ (n = 2 \/ (n = 1 /\ entry = "serverConnectOn"))
      BY <1>2, <2>2 DEF LuaIsBack, pops
    <3>. HIDE DEF st, n
    <3>. QED
      BY <2>2, <3>1
  <2>. QED
    BY <2>1, <2>2
<1>. HIDE DEF st, n
<1>5. n \in Nat /\ n <= Len(st) /\ left \in Nat
  <2>1. Len(st) = 3 \/ Len(st) = 4
    BY <1>3
  <2>2. n = 1 \/ n = 2
    BY <1>3
  <2>. QED
    BY ONLY <2>1, <2>2
<1>6. u \in Seq(Val) /\ Len(u) = left /\ \A i \in 1 .. left : u[i] = st[i]
  <2>1. st \in Seq(Val) /\ n \in Nat /\ n <= Len(st)
    BY <1>3, <1>5
  <2>. QED
    BY ONLY <2>1, Popped
<1>. HIDE DEF u, left
<1>7. frames' \in Seq(Seq(Val)) /\ Len(frames') = 1 /\ frames'[1] = u
  BY <1>1, <1>6, OneFrame
<1>8. BTypes' /\ aborted' = (left # 2)
  BY <1>1, <1>2, <1>6, <1>7, BaseIs DEF BTypes
<1>9. ASSUME aborted' PROVE Gone'
  <2>1. left = 3 /\ entry = "serverConnectOn" /\ status # "ok"
    BY <1>4, <1>8, <1>9
  <2>2. \A i \in 1 .. 3 : u[i].kind # "message"
    <3>1. \A i \in 1 .. 3 : u[i] = st[i]
      BY <1>6, <2>1
    <3>. QED
      BY <1>3, <3>1 DEF Root, Value
  <2>3. Len(u) = 3 /\ DOMAIN u = 1 .. 3
    BY <1>6, <2>1
  <2>4. Len(frames') = 1 /\ Len(frames'[1]) <= 4
    BY <1>7, <2>3
  <2>5. \A i \in DOMAIN frames'[1] : frames'[1][i].kind # "message"
    BY <1>7, <2>2, <2>3
  <2>6. entry' = "serverConnectOn" /\ status' # "ok" /\ pc' = "idle"
    BY <1>1, <2>1
  <2>. QED
    BY <2>4, <2>5, <2>6 DEF Gone, One
<1>10. ASSUME ~aborted' PROVE Alive'
  <2>1. left = 2
    BY <1>8, <1>10
  <2>2. u = Bottom
    <3>1. Len(u) = 2 /\ u[1] = Value("table") /\ u[2] = Value("table")
      BY <1>3, <1>6, <2>1 DEF Root
    <3>2. \A i \in 1 .. 2 : u[i] = Bottom[i]
      BY <3>1, BaseIs
    <3>. QED
      BY <1>6, <3>1, <3>2, BaseIs, SeqEqual
  <2>. QED
    BY <1>1, <2>2 DEF Alive
<1>. QED
  BY <1>1, <1>2, <1>8, <1>9, <1>10 DEF BInv

--------------------------------------------------------------------------------
(* What follows *)

LEMMA BridgeInvariant ==
  ASSUME LuaBridgeAssumption
  PROVE  Spec => []BInv
<1>1. Init => BInv
  BY InitBalanced
<1>2. ASSUME BInv, [Next]_vars PROVE BInv'
  <2>1. CASE loadInit
    BY <1>2, <2>1, LoadBalanced
  <2>2. CASE frameUpdate \/ L_onServerConnectionEstablished
    BY <1>2, <2>2, EntersBalanced
  <2>3. CASE \E n \in Sizes : L_onDecodeBuffer(n)
    BY <1>2, <2>3, DecodeBalanced
  <2>4. CASE CopyChunk
    BY <1>2, <2>4, CopyBalanced
  <2>5. CASE lua_pcall
    BY <1>2, <2>5, PcallBalanced
  <2>6. CASE LuaReturns
    BY <1>2, <2>6, ReturnsBalanced
  <2>7. CASE Throw
    BY <1>2, <2>7, ThrowBalanced
  <2>8. CASE \E a \in ArgLists : CallC(a)
    BY <1>2, <2>8, CallCBalanced
  <2>9. CASE \E n \in Sizes : loadBinaryFileForLua(n)
    BY <1>2, <2>9, FileBalanced
  <2>10. CASE sendBuffer \/ connectServer
    BY <1>2, <2>10, HandedBalanced
  <2>11. CASE ReturnC
    BY <1>2, <2>11, CReturnsBalanced
  <2>12. CASE Leave
    BY <1>2, <2>12, LeaveBalanced
  <2>13. CASE UNCHANGED vars
    BY <1>2, <2>13
    DEF vars, BInv, BTypes, Gone, Alive, CopyingIn, ReadyToCall, LuaRuns, CFunctionRuns,
        CFunctionDone, LuaIsBack, One, Two, Entered, Copied
  <2>. QED
    BY <1>2, <2>1, <2>2, <2>3, <2>4, <2>5, <2>6, <2>7, <2>8, <2>9, <2>10, <2>11, <2>12, <2>13
    DEF Next
<1>. QED
  BY <1>1, <1>2, PTL DEF Spec

\* What the program's stack holds whatever runs.
LEMMA RootStack ==
  ASSUME BInv, ~aborted
  PROVE  \/ frames[1] = Bottom
         \/ /\ Root(frames[1])
            /\ \A i \in 4 .. Len(frames[1]) :
                 frames[1][i].kind = "message" => frames[1][i].bytes = << "traceback" >>
<1>1. Alive /\ BTypes
  BY DEF BInv
<1>2. CASE pc = "idle"
  BY <1>1, <1>2, BaseIs DEF Alive
<1>3. CASE pc \in {"copying", "ready", "calling", "args", "return", "return1"}
  <2>1. Root(frames[1]) /\ Quiet(frames[1])
    BY <1>1, <1>3 DEF Alive, CopyingIn, ReadyToCall, LuaRuns, CFunctionRuns, CFunctionDone, Entered
  <2>. QED
    BY <2>1 DEF Quiet
<1>4. CASE pc = "returned"
  <2>1. /\ Root(frames[1]) /\ Len(frames[1]) \in {3, 4}
        /\ Len(frames[1]) = 4 => frames[1][4].bytes = << "traceback" >>
    BY <1>1, <1>4 DEF Alive, LuaIsBack
  <2>. QED
    BY <2>1
<1>. QED
  BY <1>1, <1>2, <1>3, <1>4 DEF BTypes

\* C++ leaves Lua's stack as it found it after every entry, whatever Lua code and the
\* functions of mm do on the way, and lua_pcall found the traceback function every time;
\* if not, app/init.lua had not run or serverConnectOn failed (lua_script.cpp, exports.cpp,
\* L_notification.cpp).
THEOREM LuaEntriesBalanced ==
  ASSUME LuaBridgeAssumption
  PROVE  Spec => []EntriesBalanced
<1>1. ASSUME BInv PROVE Balanced
  BY <1>1 DEF BInv, Balanced, Gone, Alive
<1>2. ASSUME BInv PROVE Traced
  <2>1. CASE aborted
    BY <1>2, <2>1 DEF BInv, Gone, Traced
  <2>2. CASE ~aborted
    <3>1. CASE frames[1] = Bottom
      <4>1. \A i \in DOMAIN frames[1] : frames[1][i].kind # "message"
        BY <3>1, BaseIs DEF Value
      <4>. QED
        BY <4>1 DEF Traced
    <3>2. CASE /\ Root(frames[1])
               /\ \A i \in 4 .. Len(frames[1]) :
                    frames[1][i].kind = "message" => frames[1][i].bytes = << "traceback" >>
      <4>1. DOMAIN frames[1] = 1 .. Len(frames[1]) /\ Len(frames[1]) \in Nat
        BY <3>2 DEF Root
      <4>2. \A i \in 1 .. 3 : frames[1][i].kind # "message"
        BY <3>2 DEF Root, Value
      <4>3. \A i \in 1 .. Len(frames[1]) : i \in 1 .. 3 \/ i \in 4 .. Len(frames[1])
        BY <4>1
      <4>. QED
        BY <3>2, <4>1, <4>2, <4>3 DEF Traced
    <3>. QED
      BY <1>2, <2>2, <3>1, <3>2, RootStack
  <2>. QED
    BY <2>1, <2>2
<1>3. ASSUME BInv PROVE EntriesBalanced
  BY <1>1, <1>2, <1>3 DEF EntriesBalanced
<1>. QED
  BY <1>3, BridgeInvariant, PTL

\* The string that Lua gets of a buffer, of any length, is the buffer, however luaL_Buffer
\* joined its pieces, and on the way no C function uses more stack than Lua gives it
\* (L_onDecodeBuffer, loadBinaryFileForLua; lauxlib.c).
THEOREM LuaStringsWhole ==
  ASSUME LuaBridgeAssumption
  PROVE  Spec => []StringsWhole
<1>0. LIMIT \in Nat /\ LIMIT >= 5 /\ 2 * LIMIT <= MinStack /\ MinStack \in Nat
  BY Limits
<1>1. ASSUME BInv PROVE Whole
  <2>1. ASSUME pc = "ready", entry = "redirectNetBuffer", ~aborted
        PROVE  Len(frames[1]) = Len(Bottom) + 4 /\ Last(frames[1]) = String(data)
    <3>1. ReadyToCall
      BY <1>1, <2>1 DEF BInv, Alive
    <3>2. nargs(entry) = 2
      BY <2>1 DEF nargs
    <3>. QED
      BY <2>1, <3>1, <3>2, BaseIs DEF ReadyToCall, Entered
  <2>2. ASSUME pc = "return1" PROVE Last(Last(frames)) = String(data)
    <3>1. CFunctionDone
      BY <1>1, <2>2 DEF BInv, Alive, Gone
    <3>. QED
      BY <2>2, <3>1 DEF CFunctionDone, Two, Last
  <2>. QED
    BY <2>1, <2>2 DEF Whole
<1>2. ASSUME BInv PROVE StackFits
  <2>1. Len(frames[1]) <= MinStack
    <3>1. CASE aborted
      BY <1>0, <1>2, <3>1 DEF BInv, Gone
    <3>2. CASE ~aborted /\ pc = "idle"
      <4>1. Len(frames[1]) = 2
        BY <1>2, <3>2, BaseIs DEF BInv, Alive
      <4>. QED
        BY <1>0, <4>1
    <3>3. CASE ~aborted /\ pc = "returned"
      <4>1. Len(frames[1]) = 3 \/ Len(frames[1]) = 4
        BY <1>2, <3>3 DEF BInv, Alive, LuaIsBack
      <4>2. 3 <= MinStack /\ 4 <= MinStack
        BY <1>0
      <4>. QED
        BY <4>1, <4>2
    <3>4. CASE /\ ~aborted
               /\ pc = "copying" /\ Root(frames[1]) /\ Filled(frames[1], buf, 5, Copied)
      BY <1>0, <3>4 DEF Filled, Holding, Buf
    <3>5. CASE Entered
      <4>1. nargs(entry) \in 0 .. 2
        BY DEF nargs
      <4>. QED
        BY <1>0, <3>5, <4>1 DEF Entered
    <3>. QED
      BY <1>2, <3>1, <3>2, <3>3, <3>4, <3>5
      DEF BInv, BTypes, Alive, CopyingIn, ReadyToCall, LuaRuns, CFunctionRuns, CFunctionDone
  <2>2. ASSUME Len(frames) = 2, pc = "copying" PROVE Len(frames[2]) <= 4 + LIMIT
    <3>1. CopyingIn
      BY <1>2, <2>2 DEF BInv, Alive, Gone, One
    <3>2. PICK k \in 0 .. 4 : Filled(frames[2], buf, k, Copied)
      BY <2>2, <3>1 DEF CopyingIn, One
    <3>. QED
      BY <1>0, <3>2 DEF Filled, Holding, Buf
  <2>. QED
    BY <2>1, <2>2 DEF StackFits
<1>3. ASSUME BInv PROVE StringsWhole
  BY <1>1, <1>2, <1>3 DEF StringsWhole
<1>. QED
  BY <1>3, BridgeInvariant, PTL

--------------------------------------------------------------------------------
(* StreamBuffer: a queue of bytes *)

\* The blocks of an owned buffer.
Blocks ==
  {b \in [size : Nat \ {0}, mem : UNION {[0 .. m - 1 -> Nat] : m \in Nat}, rd : Nat, wr : Nat,
          lost : SUBSET Nat] :
     b.mem \in [0 .. b.size - 1 -> Nat] /\ b.rd <= b.wr /\ b.wr <= b.size}

\* The bytes of a block that were not read stand for those numbered from n + 1 on,
\* and only bytes that went in are lost.
Holds(b, n) ==
  /\ b.lost \subseteq 1 .. n + payLength(b)
  /\ \A i \in 0 .. payLength(b) - 1 : Stands(b.mem[b.rd + i], n + 1 + i, b.lost)

SBInv ==
  /\ owned \in BOOLEAN /\ lost \subseteq Nat
  /\ size \in Nat /\ (owned => size # 0)
  /\ mem \in [0 .. size - 1 -> Nat]
  /\ rd \in Nat /\ wr \in Nat /\ rd <= wr /\ wr <= size
  /\ appended \in Nat /\ taken \in Nat /\ wr - rd = appended - taken
  /\ got \in Seq(Nat)
  /\ Holds(Block, taken)
  /\ \A i \in 1 .. Len(got) : Stands(got[i], taken - Len(got) + i, lost)

\* Losing more bytes only excuses more.
LEMMA StandsMonotone ==
  ASSUME NEW byte, NEW n, NEW g, NEW h, Stands(byte, n, g), g \subseteq h
  PROVE  Stands(byte, n, h)
  BY DEF Stands

LEMMA RoomIsInt == \A b \in Blocks : Left(b) \in Nat
  BY DEF Blocks, Left

LEMMA BlockIs ==
  ASSUME NEW s \in Nat \ {0}, NEW m \in [0 .. s - 1 -> Nat], NEW r \in Nat, NEW w \in Nat,
         NEW o \in SUBSET Nat, r <= w, w <= s
  PROVE  [size |-> s, mem |-> m, rd |-> r, wr |-> w, lost |-> o] \in Blocks
<1>1. m \in UNION {[0 .. k - 1 -> Nat] : k \in Nat}
  OBVIOUS
<1>. QED
  BY <1>1 DEF Blocks

\* A call of append() that does not write yet keeps the bytes and makes room.
LEMMA MakesRoom ==
  ASSUME NEW b \in Blocks, NEW n \in Nat, taken \in Nat, Holds(b, taken)
  PROVE  /\ MakeRoom(b, n) \in Blocks
         /\ payLength(MakeRoom(b, n)) = payLength(b)
         /\ Holds(MakeRoom(b, n), taken)
         /\ b.lost \subseteq MakeRoom(b, n).lost
         /\ Left(MakeRoom(b, n)) >= n \/ Left(MakeRoom(b, n)) > Left(b)
<1>0. /\ b.size \in Nat \ {0} /\ b.rd \in Nat /\ b.wr \in Nat /\ b.lost \in SUBSET Nat
      /\ b.mem \in [0 .. b.size - 1 -> Nat] /\ b.rd <= b.wr /\ b.wr <= b.size
      /\ b = [size |-> b.size, mem |-> b.mem, rd |-> b.rd, wr |-> b.wr, lost |-> b.lost]
  BY DEF Blocks
<1>1. CASE Left(b) >= n
  BY <1>1 DEF MakeRoom
<1>2. CASE ~(Left(b) >= n) /\ Left(b) + b.rd >= n
  <2>. DEFINE m == [i \in 0 .. b.size - 1 |->
                      IF i >= b.rd THEN b.mem[i]
                      ELSE IF b.rd + i < b.size THEN b.mem[b.rd + i] ELSE 0]
              g == b.lost \cup LeftBehind(b)
              c == [size |-> b.size, mem |-> m, rd |-> 0, wr |-> b.wr - b.rd, lost |-> g]
  <2>1. MakeRoom(b, n) = c
    BY <1>0, <1>2 DEF MakeRoom, Compact
  <2>2. m \in [0 .. b.size - 1 -> Nat]
    BY <1>0
  <2>3. \A i \in 0 .. b.size - 1 :
          /\ i < b.rd /\ b.rd + i < b.size => m[i] = b.mem[b.rd + i]
          /\ i >= b.rd => m[i] = b.mem[i]
    BY <1>0
  <2>4. payLength(b) \in Nat /\ payLength(b) = b.wr - b.rd
    BY <1>0 DEF payLength
  <2>5. /\ g \in SUBSET Nat /\ b.lost \subseteq g
        /\ \A i \in Nat : b.rd <= i /\ i < payLength(b) => taken + 1 + i \in g
    <3>1. \A x, y, i \in Nat : x <= i /\ i < y => taken + 1 + i \in taken + x + 1 .. taken + y
      OBVIOUS
    <3>2. \A i \in Nat : b.rd <= i /\ i < payLength(b) => taken + 1 + i \in LeftBehind(b)
      BY <1>0, <2>4, <3>1 DEF LeftBehind
    <3>3. LeftBehind(b) \subseteq Nat
      BY <1>0, <2>4 DEF LeftBehind
    <3>. QED
      BY <1>0, <3>2, <3>3, Zenon
  <2>6. g \subseteq 1 .. taken + payLength(b)
    <3>1. LeftBehind(b) \subseteq 1 .. taken + payLength(b)
      BY <1>0, <2>4 DEF LeftBehind
    <3>. QED
      BY <3>1 DEF Holds
  <2>. HIDE DEF m, g
  <2>7. c \in Blocks
    <3>1. b.wr - b.rd \in Nat /\ b.wr - b.rd <= b.size /\ 0 <= b.wr - b.rd /\ 0 \in Nat
      BY <1>0
    <3>. QED
      BY <1>0, <2>2, <2>5, <3>1, BlockIs
  <2>8. payLength(c) = payLength(b)
    BY <2>4 DEF payLength
  <2>9. Left(c) >= n
    BY <1>0, <1>2 DEF Left
  <2>10. ASSUME NEW i \in 0 .. payLength(b) - 1 PROVE Stands(m[i], taken + 1 + i, g)
    <3>1. i \in 0 .. b.size - 1 /\ i \in Nat /\ i < payLength(b)
      BY <1>0, <2>4
    <3>2. CASE i < b.rd
      <4>1. b.rd + i < b.size
        BY <1>0, <2>4, <3>1
      <4>2. Stands(b.mem[b.rd + i], taken + 1 + i, b.lost)
        BY DEF Holds
      <4>. QED
        BY <2>3, <2>5, <3>1, <3>2, <4>1, <4>2, StandsMonotone
    <3>3. CASE i >= b.rd
      <4>1. i - b.rd \in 0 .. payLength(b) - 1 /\ b.rd + (i - b.rd) = i
        BY <1>0, <2>4, <3>1, <3>3
      <4>2. Stands(b.mem[i], taken + 1 + (i - b.rd), b.lost)
        <5>1. Stands(b.mem[b.rd + (i - b.rd)], taken + 1 + (i - b.rd), b.lost)
          BY <4>1 DEF Holds
        <5>. QED
          BY <4>1, <5>1
      <4>3. m[i] = b.mem[i] /\ taken + 1 + i \in g
        BY <2>3, <2>5, <3>1, <3>3
      <4>4. 1 .. taken + 1 + (i - b.rd) \subseteq 1 .. taken + 1 + i
        BY <1>0, <3>1, <3>3
      <4>. QED
        BY <4>2, <4>3, <4>4 DEF Stands
    <3>. QED
      BY <1>0, <3>1, <3>2, <3>3
  <2>11. Holds(c, taken)
    <3>1. c.lost = g /\ c.rd = 0 /\ c.mem = m
      OBVIOUS
    <3>2. \A i \in 0 .. payLength(b) - 1 : c.rd + i = i
      BY <2>4, <3>1
    <3>. HIDE DEF c
    <3>. QED
      BY <2>6, <2>8, <2>10, <3>1, <3>2 DEF Holds
  <2>12. b.lost \subseteq c.lost
    BY <2>5
  <2>. HIDE DEF c
  <2>. QED
    BY <2>1, <2>7, <2>8, <2>9, <2>11, <2>12
<1>3. CASE ~(Left(b) >= n) /\ ~(Left(b) + b.rd >= n)
  <2>. DEFINE m == [i \in 0 .. 2 * b.size - 1 |-> IF i < payLength(b) THEN b.mem[b.rd + i] ELSE 0]
              c == [size |-> 2 * b.size, mem |-> m, rd |-> 0, wr |-> payLength(b), lost |-> b.lost]
  <2>1. MakeRoom(b, n) = c
    BY <1>0, <1>3 DEF MakeRoom, Grow
  <2>2. m \in [0 .. 2 * b.size - 1 -> Nat]
    <3>1. payLength(b) \in Nat /\ \A i \in Nat : i < payLength(b) => b.rd + i \in 0 .. b.size - 1
      BY <1>0 DEF payLength
    <3>2. \A i \in 0 .. b.size - 1 : b.mem[i] \in Nat
      BY <1>0
    <3>3. \A i \in Nat : (IF i < payLength(b) THEN b.mem[b.rd + i] ELSE 0) \in Nat
      BY <3>1, <3>2
    <3>. QED
      BY <3>3
  <2>3. \A i \in 0 .. payLength(b) - 1 : m[i] = b.mem[b.rd + i]
    BY <1>0 DEF payLength
  <2>. HIDE DEF m
  <2>4. payLength(b) \in Nat /\ payLength(b) <= 2 * b.size
    BY <1>0 DEF payLength
  <2>5. c \in Blocks
    <3>1. 2 * b.size \in Nat \ {0} /\ 0 \in Nat
      BY <1>0
    <3>2. b.lost \in SUBSET Nat /\ 0 <= payLength(b)
      BY <1>0, <2>4
    <3>. QED
      BY <2>2, <2>4, <3>1, <3>2, BlockIs
  <2>6. payLength(c) = payLength(b)
    BY <2>4 DEF payLength
  <2>7. Left(c) > Left(b)
    BY <1>0 DEF Left, payLength
  <2>8. Holds(c, taken)
    <3>1. c.lost = b.lost /\ \A i \in 0 .. payLength(b) - 1 : c.mem[c.rd + i] = b.mem[b.rd + i]
      BY <2>3, <2>4
    <3>. HIDE DEF c
    <3>. QED
      BY <2>6, <3>1 DEF Holds
  <2>9. b.lost \subseteq c.lost
    OBVIOUS
  <2>. HIDE DEF c
  <2>. QED
    BY <2>1, <2>5, <2>6, <2>7, <2>8, <2>9
<1>. QED
  BY <1>1, <1>2, <1>3

\* What append() does to a block is to make room, n calls at most, and to write.
LEMMA AppendedIs ==
  ASSUME NEW b \in Blocks, NEW n \in Nat, taken \in Nat, Holds(b, taken)
  PROVE  \E c \in Blocks : /\ Appended(b, n) = CopyBehind(c, n)
                           /\ payLength(c) = payLength(b) /\ Holds(c, taken) /\ Left(c) >= n
                           /\ b.lost \subseteq c.lost
<1>. DEFINE S == {c \in Blocks : /\ payLength(c) = payLength(b) /\ Holds(c, taken)
                                /\ b.lost \subseteq c.lost}
            made == CHOOSE made : made = [k \in 0 .. n |-> IF k = 0 THEN b ELSE MakeRoom(made[k - 1], n)]
            step == [p \in Nat \X S |-> MakeRoom(p[2], n)]
<1>1. \A c \in S : /\ MakeRoom(c, n) \in S
                   /\ Left(MakeRoom(c, n)) >= n \/ Left(MakeRoom(c, n)) > Left(c)
  BY MakesRoom
<1>2. PICK f \in [Nat -> S] : Follows(f, b, step)
  <2>1. b \in S /\ step \in [Nat \X S -> S]
    BY <1>1
  <2>. HIDE DEF S, step
  <2>. QED
    BY <2>1, Recursion, Zenon
<1>3. \A k \in Nat : f[k + 1] = MakeRoom(f[k], n)
  <2>. TAKE k \in Nat
  <2>1. << k, f[k] >> \in Nat \X S
    BY <1>2
  <2>. QED
    BY <1>2, <2>1 DEF Follows
<1>. HIDE DEF S, step
<1>4. \E g : g = [k \in 0 .. n |-> IF k = 0 THEN b ELSE MakeRoom(g[k - 1], n)]
  <2>. DEFINE g == [k \in 0 .. n |-> f[k]]
  <2>1. \A k \in 0 .. n : f[k] = IF k = 0 THEN b ELSE MakeRoom(f[k - 1], n)
    <3>. TAKE k \in 0 .. n
    <3>1. CASE k = 0
      BY <1>2, <3>1 DEF Follows
    <3>2. CASE k # 0
      <4>1. k - 1 \in Nat /\ k = (k - 1) + 1
        BY <3>2
      <4>. QED
        BY <1>3, <3>2, <4>1
    <3>. QED
      BY <3>1, <3>2
  <2>2. \A k \in 0 .. n : k # 0 => g[k - 1] = f[k - 1]
    OBVIOUS
  <2>3. g = [k \in 0 .. n |-> IF k = 0 THEN b ELSE MakeRoom(g[k - 1], n)]
    BY <2>1, <2>2
  <2>. HIDE DEF g
  <2>. QED
    BY <2>3
<1>5. made = [k \in 0 .. n |-> IF k = 0 THEN b ELSE MakeRoom(made[k - 1], n)]
  BY <1>4
<1>6. Appended(b, n) = CopyBehind(made[n], n)
  BY Zenon DEF Appended
<1>. HIDE DEF made
<1>7. made[0] = b /\ \A k \in 1 .. n : made[k] = MakeRoom(made[k - 1], n)
  <2>1. 0 \in 0 .. n /\ \A k \in 1 .. n : k \in 0 .. n /\ k # 0
    OBVIOUS
  <2>. QED
    BY <1>5, <2>1
<1>. DEFINE Enough(k) == made[k] \in S /\ (Left(made[k]) >= n \/ Left(made[k]) >= k)
            T == {k \in Nat : k <= n => Enough(k)}
<1>8. T = Nat
  <2>1. 0 \in T
    <3>1. b \in S /\ Left(b) \in Nat
      BY RoomIsInt DEF S
    <3>. QED
      BY <1>7, <3>1
  <2>2. ASSUME NEW k \in T PROVE k + 1 \in T
    <3>. SUFFICES ASSUME k + 1 <= n PROVE Enough(k + 1)
      OBVIOUS
    <3>1. k \in Nat /\ k <= n /\ k + 1 \in 1 .. n /\ (k + 1) - 1 = k
      OBVIOUS
    <3>2. Enough(k)
      BY <3>1
    <3>3. made[k + 1] = MakeRoom(made[k], n)
      BY <1>7, <3>1
    <3>4. Left(made[k]) \in Int /\ Left(made[k + 1]) \in Int /\ made[k + 1] \in S
      <4>1. made[k] \in S /\ made[k + 1] \in S
        BY <1>1, <3>2, <3>3
      <4>. QED
        BY <4>1, RoomIsInt DEF S
    <3>5. Left(made[k + 1]) >= n \/ Left(made[k + 1]) > Left(made[k])
      BY <1>1, <3>2, <3>3
    <3>6. CASE Left(made[k]) >= n
      <4>1. made[k + 1] = made[k]
        BY <3>3, <3>6 DEF MakeRoom
      <4>. QED
        BY <3>2, <3>6, <4>1
    <3>. QED
      BY <3>1, <3>2, <3>4, <3>5, <3>6
  <2>3. T \subseteq Nat
    OBVIOUS
  <2>. HIDE DEF T
  <2>. QED
    BY <2>1, <2>2, <2>3, Induction
<1>9. made[n] \in S /\ Left(made[n]) >= n
  <2>1. n \in T
    BY <1>8
  <2>. QED
    BY <2>1
<1>. QED
  BY <1>6, <1>9 DEF S

LEMMA BufferInvInit == StreamBufferAssumption /\ BufferInit => SBInv
<1>. SUFFICES ASSUME StreamBufferAssumption, BufferInit PROVE SBInv
  OBVIOUS
<1>1. size \in Nat /\ (owned => size # 0) /\ wr \in 0 .. size /\ owned \in BOOLEAN
  <2>1. CASE owned = TRUE /\ size = 2 /\ wr = 0
    BY ONLY <2>1
  <2>2. CASE owned = FALSE /\ size \in Lengths \cap Nat /\ wr = size
    <3>1. ~owned /\ owned \in BOOLEAN
      BY <2>2
    <3>2. size \in Nat /\ wr \in 0 .. size
      BY <2>2
    <3>. QED
      BY <3>1, <3>2
  <2>. QED
    BY <2>1, <2>2 DEF BufferInit
<1>2. mem = [i \in 0 .. size - 1 |-> IF owned THEN 0 ELSE i + 1]
  BY DEF BufferInit
<1>3. mem \in [0 .. size - 1 -> Nat]
  BY <1>1, <1>2
<1>4. rd = 0 /\ appended = wr /\ taken = 0 /\ got = << >> /\ lost = {}
  BY DEF BufferInit
<1>5. \A i \in 0 .. wr - 1 : mem[i] = 1 + i
  BY <1>1, <1>2 DEF BufferInit
<1>6. Holds(Block, 0)
  <2>1. Block.lost = {} /\ Block.rd = 0 /\ Block.mem = mem /\ payLength(Block) = wr
    BY <1>1, <1>4 DEF Block, payLength
  <2>2. \A i \in 0 .. wr - 1 : 0 + i = i /\ mem[i] = 0 + 1 + i /\ 0 + 1 + i \in 1 .. 0 + 1 + i
    BY <1>1, <1>5
  <2>. QED
    BY <2>1, <2>2 DEF Holds, Stands
<1>. QED
  <2>1. Len(<< >>) = 0 /\ << >> \in Seq(Nat)
    OBVIOUS
  <2>2. got \in Seq(Nat) /\ \A i \in 1 .. Len(got) : Stands(got[i], taken - Len(got) + i, lost)
    BY <1>4, <2>1
  <2>3. wr \in Nat /\ rd \in Nat /\ rd <= wr /\ wr <= size /\ taken \in Nat /\ appended \in Nat
        /\ wr - rd = appended - taken
    BY <1>1, <1>4
  <2>4. Holds(Block, taken) /\ lost \subseteq Nat
    BY <1>4, <1>6, Zenon
  <2>. QED
    BY <1>1, <1>3, <2>2, <2>3, <2>4 DEF SBInv

LEMMA AppendKeeps ==
  ASSUME SBInv, NEW n \in Int, append(n)
  PROVE  SBInv'
<1>1. CASE ~(owned /\ n > 0)
  BY <1>1 DEF append, SBInv, Holds, Block, payLength
<1>2. CASE owned /\ n > 0
  <2>0. n \in Nat /\ n # 0
    BY <1>2
  <2>1. Block \in Blocks /\ Holds(Block, taken) /\ taken \in Nat /\ payLength(Block) = wr - rd
    BY <1>2 DEF SBInv, Block, Blocks, payLength
  <2>2. PICK c \in Blocks : /\ Appended(Block, n) = CopyBehind(c, n)
                            /\ payLength(c) = payLength(Block) /\ Holds(c, taken) /\ Left(c) >= n
                            /\ Block.lost \subseteq c.lost
    BY <2>0, <2>1, AppendedIs
  <2>. DEFINE m == [i \in 0 .. c.size - 1 |->
                      IF i \in c.wr .. c.wr + n - 1 THEN appended + 1 + i - c.wr ELSE c.mem[i]]
              d == CopyBehind(c, n)
  <2>3. /\ c.size \in Nat \ {0} /\ c.rd \in Nat /\ c.wr \in Nat /\ c.lost \in SUBSET Nat
        /\ c.mem \in [0 .. c.size - 1 -> Nat] /\ c.rd <= c.wr /\ c.wr <= c.size
        /\ c = [size |-> c.size, mem |-> c.mem, rd |-> c.rd, wr |-> c.wr, lost |-> c.lost]
    BY DEF Blocks
  <2>4. d = [size |-> c.size, mem |-> m, rd |-> c.rd, wr |-> c.wr + n, lost |-> c.lost]
    <3>1. d = [c EXCEPT !.mem = m, !.wr = @ + n]
      BY Zenon DEF CopyBehind
    <3>. HIDE DEF m, d
    <3>. QED
      BY <2>3, <3>1
  <2>5. /\ size' = c.size /\ mem' = m /\ rd' = c.rd /\ wr' = c.wr + n /\ lost' = c.lost
        /\ appended' = appended + n /\ owned' = owned /\ taken' = taken /\ got' = got
    <3>1. /\ size' = d.size /\ mem' = d.mem /\ rd' = d.rd /\ wr' = d.wr /\ lost' = d.lost
          /\ appended' = appended + n /\ UNCHANGED << owned, taken, got >>
      <4>. HIDE DEF d
      <4>. QED
        BY <1>2, <2>2, <2>4 DEF append, d
    <3>. HIDE DEF d, m
    <3>. QED
      BY <2>4, <3>1
  <2>6. appended \in Nat /\ taken \in Nat /\ appended - taken = c.wr - c.rd
    BY <2>1, <2>2 DEF SBInv, payLength
  <2>7. m \in [0 .. c.size - 1 -> Nat]
    <3>0. PICK w, a : w = c.wr /\ a = appended /\ w \in Nat /\ a \in Nat /\ n \in Nat
      BY <2>0, <2>3, <2>6, Zenon
    <3>1. \A i \in Int : i \in c.wr .. c.wr + n - 1 => appended + 1 + i - c.wr \in Nat
      <4>1. \A i \in Int : i \in w .. w + n - 1 => a + 1 + i - w \in Nat
        BY <3>0
      <4>. HIDE DEF m, d
      <4>. QED
        BY <3>0, <4>1, Zenon
    <3>2. \A i \in 0 .. c.size - 1 : c.mem[i] \in Nat
      BY <2>3
    <3>. QED
      BY <2>3, <3>1, <3>2
  <2>8. \A i \in 0 .. c.size - 1 :
          m[i] = IF i \in c.wr .. c.wr + n - 1 THEN appended + 1 + i - c.wr ELSE c.mem[i]
    OBVIOUS
  <2>. HIDE DEF m, d
  <2>9. c.wr + n <= c.size /\ c.rd <= c.wr + n /\ c.wr + n \in Nat
    BY <2>0, <2>2, <2>3 DEF Left
  <2>10. ASSUME NEW i \in 0 .. (c.wr + n) - c.rd - 1
         PROVE  Stands(m[c.rd + i], taken + 1 + i, c.lost)
    <3>1. c.rd + i \in 0 .. c.size - 1
      BY <2>0, <2>3, <2>9
    <3>2. CASE c.rd + i >= c.wr
      <4>1. c.rd + i \in c.wr .. c.wr + n - 1
        BY <2>0, <2>3, <3>2
      <4>2. m[c.rd + i] = appended + 1 + (c.rd + i) - c.wr
        BY <2>8, <3>1, <4>1
      <4>3. i \in Nat /\ c.rd \in Int /\ c.wr \in Int /\ appended \in Int /\ taken \in Int
            /\ appended - taken = c.wr - c.rd
        BY <2>0, <2>3, <2>6
      <4>4. appended + 1 + (c.rd + i) - c.wr = taken + 1 + i
        <5>1. PICK x, y, a, t : /\ x = c.rd /\ y = c.wr /\ a = appended /\ t = taken
                                /\ x \in Int /\ y \in Int /\ a \in Int /\ t \in Int
                                /\ a - t = y - x
          BY <4>3, Zenon
        <5>2. i \in Int /\ a + 1 + (x + i) - y = t + 1 + i
          BY ONLY <4>3, <5>1
        <5>. QED
          BY <5>1, <5>2, Zenon
      <4>5. taken + 1 + i \in 1 .. taken + 1 + i
        BY <2>6, <4>3
      <4>. QED
        BY <4>2, <4>4, <4>5 DEF Stands
    <3>3. CASE c.rd + i < c.wr
      <4>1. c.rd + i \notin c.wr .. c.wr + n - 1 /\ i \in 0 .. payLength(c) - 1
        BY <2>0, <2>3, <3>3 DEF payLength
      <4>2. m[c.rd + i] = c.mem[c.rd + i]
        BY <2>8, <3>1, <4>1
      <4>. QED
        BY <2>2, <4>1, <4>2 DEF Holds
    <3>. QED
      BY <2>3, <3>2, <3>3
  <2>11. Holds(Block, taken)'
    <3>1. c.lost \subseteq 1 .. taken + ((c.wr + n) - c.rd)
      <4>1. c.lost \subseteq 1 .. taken + payLength(c) /\ payLength(c) = c.wr - c.rd
        BY <2>2 DEF Holds, payLength
      <4>2. \A k \in 1 .. taken + (c.wr - c.rd) : k \in 1 .. taken + ((c.wr + n) - c.rd)
        BY <2>0, <2>3, <2>6
      <4>. QED
        BY <4>1, <4>2
    <3>2. \A i \in 0 .. (c.wr + n) - c.rd - 1 : Stands(m[c.rd + i], taken + 1 + i, c.lost)
      BY <2>10
    <3>3. lost' \subseteq 1 .. taken' + (wr' - rd')
      BY <2>5, <3>1
    <3>4. \A i \in 0 .. wr' - rd' - 1 : Stands(mem'[rd' + i], taken' + 1 + i, lost')
      BY <2>5, <3>2, Zenon
    <3>. QED
      BY <3>3, <3>4 DEF Holds, Block, payLength
  <2>12. wr' - rd' = appended' - taken' /\ appended' \in Nat
    <3>1. (c.wr + n) - c.rd = (appended + n) - taken /\ appended + n \in Nat
      BY <2>0, <2>3, <2>6
    <3>. QED
      BY <2>5, <3>1
  <2>13. \A i \in 1 .. Len(got) : Stands(got[i], taken - Len(got) + i, c.lost)
    <3>1. lost \subseteq c.lost
      BY <2>2 DEF Block
    <3>. QED
      BY <3>1, StandsMonotone DEF SBInv
  <2>. QED
    BY <2>3, <2>5, <2>6, <2>7, <2>9, <2>11, <2>12, <2>13 DEF SBInv
<1>. QED
  BY <1>1, <1>2

LEMMA TakeKeeps ==
  ASSUME SBInv, NEW n \in Nat, take(n)
  PROVE  SBInv'
<1>0. /\ wr - rd >= n /\ got' = [i \in 1 .. n |-> mem[rd + i - 1]] /\ rd' = rd + n /\ taken' = taken + n
      /\ UNCHANGED << owned, size, mem, wr, appended, lost >>
  BY DEF take, payLength, Block
<1>1. size \in Nat /\ rd \in Nat /\ wr \in Nat /\ wr <= size /\ taken \in Nat /\ appended \in Nat
      /\ mem \in [0 .. size - 1 -> Nat]
  BY DEF SBInv
<1>2. \A i \in 1 .. n : rd + i - 1 \in 0 .. size - 1
  BY <1>0, <1>1
<1>3. got' \in Seq(Nat) /\ Len(got') = n /\ \A i \in 1 .. n : got'[i] = mem[rd + i - 1]
  BY <1>0, <1>1, <1>2
<1>4. /\ \A i \in 0 .. wr - rd - 1 : Stands(mem[rd + i], taken + 1 + i, lost)
      /\ lost \subseteq 1 .. taken + (wr - rd)
  BY DEF SBInv, Holds, Block, payLength
<1>5. ASSUME NEW i \in 1 .. n PROVE Stands(got'[i], taken' - Len(got') + i, lost)
  <2>1. i - 1 \in 0 .. wr - rd - 1 /\ rd + (i - 1) = rd + i - 1
    BY <1>0, <1>1
  <2>2. Stands(mem[rd + (i - 1)], taken + 1 + (i - 1), lost)
    BY <1>4, <2>1
  <2>3. taken + 1 + (i - 1) = taken' - Len(got') + i /\ got'[i] = mem[rd + (i - 1)]
    BY <1>0, <1>1, <1>3, <2>1
  <2>. QED
    BY <2>2, <2>3
<1>6. ASSUME NEW i \in 0 .. wr - (rd + n) - 1 PROVE Stands(mem[(rd + n) + i], taken + n + 1 + i, lost)
  <2>1. n + i \in 0 .. wr - rd - 1 /\ rd + (n + i) = (rd + n) + i
    BY <1>0, <1>1
  <2>2. Stands(mem[rd + (n + i)], taken + 1 + (n + i), lost)
    BY <1>4, <2>1
  <2>3. taken + 1 + (n + i) = taken + n + 1 + i
    BY <1>1, <2>1
  <2>. QED
    BY <2>1, <2>2, <2>3
<1>7. Holds(Block, taken)'
  <2>1. /\ Block'.lost = lost /\ Block'.mem = mem /\ Block'.rd = rd + n
        /\ payLength(Block') = wr - (rd + n) /\ taken' = taken + n
    BY <1>0 DEF Block, payLength
  <2>2. taken + (wr - rd) = taken' + payLength(Block')
    BY <1>0, <1>1, <2>1
  <2>3. Holds(Block', taken')
    BY <1>4, <1>6, <2>1, <2>2 DEF Holds
  <2>. QED
    BY <2>3 DEF Holds, Block, payLength
<1>8. rd' \in Nat /\ rd' <= wr /\ taken' \in Nat /\ wr - rd' = appended - taken'
  BY <1>0, <1>1 DEF SBInv
<1>. QED
  BY <1>0, <1>1, <1>3, <1>5, <1>7, <1>8 DEF SBInv

\* Reads get the bytes that were appended (or borrowed), in order and each once, but
\* for those that a compaction met behind the room before the payload: in their place
\* stand earlier bytes, and every other byte keeps its own.  The pointers stay in the
\* block, whatever is appended and read (StreamBuffer.cc).
THEOREM StreamBufferKeepsOrder ==
  ASSUME StreamBufferAssumption
  PROVE  BufferSpec => [](BufferTypeOK /\ BytesInOrder)
<1>1. BufferInit => SBInv
  BY BufferInvInit
<1>2. SBInv /\ [BufferNext]_bufferVars => SBInv'
  <2>. SUFFICES ASSUME SBInv, [BufferNext]_bufferVars PROVE SBInv'
    OBVIOUS
  <2>1. ASSUME NEW n \in Lengths, append(n) PROVE SBInv'
    BY <2>1, AppendKeeps DEF StreamBufferAssumption
  <2>0. CASE UNCHANGED bufferVars
    BY <2>0 DEF bufferVars, SBInv, Holds, Block, payLength
  <2>2. ASSUME NEW n \in Lengths, readString(n) PROVE SBInv'
    <3>1. CASE n < 0
      BY <2>0, <2>2, <3>1 DEF readString
    <3>2. CASE ~(n < 0)
      <4>1. n \in Nat /\ take(n)
        BY <2>2, <3>2 DEF StreamBufferAssumption, readString
      <4>. QED
        BY <4>1, TakeKeeps
    <3>. QED
      BY <3>1, <3>2
  <2>3. CASE readInt32
    BY <2>3, TakeKeeps DEF readInt32
  <2>4. CASE readInt16
    BY <2>4, TakeKeeps DEF readInt16
  <2>. QED
    BY <2>0, <2>1, <2>2, <2>3, <2>4 DEF BufferNext
<1>3. SBInv => BufferTypeOK /\ BytesInOrder
  <2>. SUFFICES ASSUME SBInv PROVE BufferTypeOK /\ BytesInOrder
    OBVIOUS
  <2>1. BufferTypeOK
    BY DEF SBInv, BufferTypeOK
  <2>2. payLength(Block) = appended - taken /\ Block.rd = rd /\ Block.mem = mem
        /\ Block.lost = lost /\ appended = taken + payLength(Block)
    BY DEF SBInv, Block, payLength
  <2>3. BytesInOrder
    BY <2>2 DEF SBInv, BytesInOrder, Holds
  <2>. QED
    BY <2>1, <2>3
<1>. QED
  BY <1>1, <1>2, <1>3, PTL DEF BufferSpec

--------------------------------------------------------------------------------
(* Registry: the files *)

Files == DOMAIN Chunk
Ops == {"require", "set", "use", "register", "lookup", "return", "lock"}
PbFiles == DOMAIN Dependencies
Prior == {"class", "json", "DISABLE_GLOBAL", "dd"}

\* A file requires only files of higher ranks.
Rank(f) ==
  CASE f = "init" -> 0 [] f = "ConnectHandler" -> 1
    [] f \in {"Pumper", "NetworkCmd", "GlobalMsgHolder"} -> 2 [] f = "Model" -> 3
    [] f \in {"Proto", "Dispatcher", "Events", "ClientState"} -> 4 [] OTHER -> 5

\* The files that require nothing; init requires four of them first.
Leaves == {"functions", "json", "Config", "EnvInit"}

LEMMA Chunks ==
  /\ Chunk["init"] = initChunk
  /\ Chunk["functions"] = << Set("class"), Return("nothing") >>
  /\ Chunk["json"] = << Set("json"), Return("nothing") >>
  /\ Chunk["Config"] = << Set("DISABLE_GLOBAL"), Return("nothing") >>
  /\ Chunk["EnvInit"] = << Set("dd"), Lock, Return("nothing") >>
  /\ Chunk["Pumper"] = PumperChunk /\ Chunk["Proto"] = ProtoChunk
  /\ Chunk["protobuf"] = protobufChunk
  /\ Chunk["DebugLog"] = << Return("value") >>
  /\ Chunk["ReadOnly"] = << Return("value") >> /\ Chunk["ValueMaster"] = << Return("value") >>
  /\ Chunk["Dispatcher"] = << Require("app.libs.ReadOnly"), Return("value") >>
  /\ Chunk["Events"] = << Require("app.libs.ReadOnly"), Return("value") >>
  /\ Chunk["Model"] = ModelChunk /\ Chunk["ClientState"] = ClientStateChunk
  /\ Chunk["NetworkCmd"] = NetworkCmdChunk /\ Chunk["GlobalMsgHolder"] = GlobalMsgHolderChunk
  /\ Chunk["ConnectHandler"] = ConnectHandlerChunk
  /\ Files = {"init", "functions", "json", "Config", "EnvInit", "Pumper", "Proto", "protobuf",
              "DebugLog", "ReadOnly", "ValueMaster", "Dispatcher", "Events", "Model", "ClientState",
              "NetworkCmd", "GlobalMsgHolder", "ConnectHandler"}
BY DEF Chunk, Files

LEMMA FilesOf ==
  /\ FileOf["app.libs.functions"] = "functions" /\ FileOf["app.libs.json"] = "json"
  /\ FileOf["app.libs.protobuf"] = "protobuf" /\ FileOf["app.libs.ReadOnly"] = "ReadOnly"
  /\ FileOf["app.libs.DebugLog"] = "DebugLog"
  /\ FileOf["app.libs.ValueMaster"] = "ValueMaster" /\ FileOf["app.Config"] = "Config"
  /\ FileOf["app.EnvInit"] = "EnvInit" /\ FileOf["app.Pumper"] = "Pumper"
  /\ FileOf["app.Proto"] = "Proto" /\ FileOf["app.proto"] = "Proto"
  /\ FileOf["app.Dispatcher"] = "Dispatcher" /\ FileOf["app.NetworkCmd"] = "NetworkCmd"
  /\ FileOf["app.GlobalMsgHolder"] = "GlobalMsgHolder"
  /\ FileOf["app.ConnectHandler"] = "ConnectHandler" /\ FileOf["app.model.Model"] = "Model"
  /\ FileOf["app.model.ClientState"] = "ClientState"
  /\ FileOf["app.model.NetEvent.Events"] = "Events"
  /\ DOMAIN FileOf =
       {"app.libs.functions", "app.libs.json", "app.libs.protobuf", "app.libs.DebugLog",
        "app.libs.ReadOnly", "app.libs.ValueMaster", "app.Config", "app.EnvInit", "app.Pumper", "app.Proto",
        "app.proto", "app.Dispatcher", "app.NetworkCmd", "app.GlobalMsgHolder",
        "app.ConnectHandler", "app.model.Model", "app.model.ClientState",
        "app.model.NetEvent.Events"}
BY DEF FileOf

\* What is true of step k of a file that ends with step n.
StepOK(f, k, n, s) ==
  /\ s.do \in Ops /\ (s.do = "return" <=> k = n)
  /\ s.do = "require" =>
       /\ s = Require(s.arg)
       /\ s.arg = "protobuf.c" \/ (s.arg \in DOMAIN FileOf /\ Rank(f) < Rank(FileOf[s.arg]))
  /\ s.do = "set" => s.arg \in Prior \cup {"protobuf"}
  /\ s.do = "use" => f \notin Leaves /\ s.arg \in {"class", "dd"} /\ (f = "init" => k > 5)
  /\ s.do = "register" => f = "Proto" /\ k \in 4 .. 7 /\ s.arg \in PbFiles
  /\ s.do = "lookup" => s.arg \in Messages /\ ((f = "Proto" /\ k > 7) \/ (f = "Pumper" /\ k > 1))
  /\ s.do = "lock" => f = "EnvInit" /\ k = 2
  /\ f \in Leaves => s.do # "require"

ChunkOK(f) == /\ Len(Chunk[f]) \in Nat \ {0} /\ DOMAIN Chunk[f] = 1 .. Len(Chunk[f])
              /\ \A k \in 1 .. Len(Chunk[f]) : StepOK(f, k, Len(Chunk[f]), Chunk[f][k])

LEMMA Ranks ==
  /\ Rank("init") = 0 /\ Rank("ConnectHandler") = 1 /\ Rank("Pumper") = 2
  /\ Rank("NetworkCmd") = 2 /\ Rank("GlobalMsgHolder") = 2 /\ Rank("Model") = 3
  /\ Rank("Proto") = 4 /\ Rank("Dispatcher") = 4 /\ Rank("Events") = 4
  /\ Rank("ClientState") = 4 /\ Rank("functions") = 5 /\ Rank("json") = 5
  /\ Rank("Config") = 5 /\ Rank("EnvInit") = 5 /\ Rank("protobuf") = 5
  /\ Rank("DebugLog") = 5 /\ Rank("ReadOnly") = 5 /\ Rank("ValueMaster") = 5
  /\ \A f : Rank(f) \in 0 .. 5
BY DEF Rank

LEMMA RequireOK ==
  \A f, k, n, m : k # n /\ f \notin Leaves
                  /\ (m = "protobuf.c" \/ (m \in DOMAIN FileOf /\ Rank(f) < Rank(FileOf[m])))
                  => StepOK(f, k, n, Require(m))
BY DEF StepOK, Require, Ops

LEMMA SetOK == \A f, k, n, g : k # n /\ g \in Prior \cup {"protobuf"} => StepOK(f, k, n, Set(g))
BY DEF StepOK, Set, Ops

LEMMA UseOK ==
  \A f, k, n, g : k # n /\ f \notin Leaves /\ g \in {"class", "dd"} /\ (f = "init" => k > 5)
                  => StepOK(f, k, n, Use(g))
BY DEF StepOK, Use, Ops

LEMMA RegisterOK ==
  \A k, n, b : k \in 4 .. 7 /\ k # n /\ b \in PbFiles => StepOK("Proto", k, n, Register(b))
BY DEF StepOK, Register, Ops, Leaves

LEMMA LookupOK ==
  \A f, k, n, msg : k # n /\ msg \in Messages /\ ((f = "Proto" /\ k > 7) \/ (f = "Pumper" /\ k > 1))
                    => StepOK(f, k, n, Lookup(msg))
BY DEF StepOK, Lookup, Ops, Leaves

LEMMA ReturnOK == \A f, n, v : StepOK(f, n, n, Return(v))
BY DEF StepOK, Return, Ops

LEMMA LockOK == \A n : n # 2 => StepOK("EnvInit", 2, n, Lock)
BY DEF StepOK, Lock, Ops, Leaves

LEMMA InitOK == ChunkOK("init")
<1>. DEFINE c == Chunk["init"]
<1>1. /\ Len(c) = 12 /\ DOMAIN c = 1 .. 12
      /\ c[1] = Require("app.libs.functions")
      /\ c[2] = Require("app.libs.json")
      /\ c[3] = Require("app.Config")
      /\ c[4] = Require("app.EnvInit")
      /\ c[5] = Require("app.Pumper")
      /\ c[6] = Require("app.model.Model")
      /\ c[7] = Require("app.model.NetEvent.Events")
      /\ c[8] = Require("app.Dispatcher")
      /\ c[9] = Require("app.GlobalMsgHolder")
      /\ c[10] = Require("app.ConnectHandler")
      /\ c[11] = Use("dd")
      /\ c[12] = Return("nothing")
  BY Chunks DEF initChunk
<1>2. StepOK("init", 1, 12, Require("app.libs.functions"))
  BY RequireOK, FilesOf, Ranks DEF Leaves
<1>3. StepOK("init", 2, 12, Require("app.libs.json"))
  BY RequireOK, FilesOf, Ranks DEF Leaves
<1>4. StepOK("init", 3, 12, Require("app.Config"))
  BY RequireOK, FilesOf, Ranks DEF Leaves
<1>5. StepOK("init", 4, 12, Require("app.EnvInit"))
  BY RequireOK, FilesOf, Ranks DEF Leaves
<1>6. StepOK("init", 5, 12, Require("app.Pumper"))
  BY RequireOK, FilesOf, Ranks DEF Leaves
<1>7. StepOK("init", 6, 12, Require("app.model.Model"))
  BY RequireOK, FilesOf, Ranks DEF Leaves
<1>8. StepOK("init", 7, 12, Require("app.model.NetEvent.Events"))
  BY RequireOK, FilesOf, Ranks DEF Leaves
<1>9. StepOK("init", 8, 12, Require("app.Dispatcher"))
  BY RequireOK, FilesOf, Ranks DEF Leaves
<1>10. StepOK("init", 9, 12, Require("app.GlobalMsgHolder"))
  BY RequireOK, FilesOf, Ranks DEF Leaves
<1>11. StepOK("init", 10, 12, Require("app.ConnectHandler"))
  BY RequireOK, FilesOf, Ranks DEF Leaves
<1>12. StepOK("init", 11, 12, Use("dd"))
  BY UseOK DEF Leaves
<1>13. StepOK("init", 12, 12, Return("nothing"))
  BY ReturnOK
<1>14. \A k \in 1 .. 12 : StepOK("init", k, 12, c[k])
  BY ONLY <1>1, <1>2, <1>3, <1>4, <1>5, <1>6, <1>7, <1>8, <1>9, <1>10, <1>11, <1>12, <1>13
<1>. QED
  BY <1>1, <1>14 DEF ChunkOK

LEMMA FunctionsOK == ChunkOK("functions")
<1>. DEFINE c == Chunk["functions"]
<1>1. /\ Len(c) = 2 /\ DOMAIN c = 1 .. 2
      /\ c[1] = Set("class")
      /\ c[2] = Return("nothing")
  BY Chunks
<1>2. StepOK("functions", 1, 2, Set("class"))
  BY SetOK DEF Prior
<1>3. StepOK("functions", 2, 2, Return("nothing"))
  BY ReturnOK
<1>4. \A k \in 1 .. 2 : StepOK("functions", k, 2, c[k])
  BY ONLY <1>1, <1>2, <1>3
<1>. QED
  BY <1>1, <1>4 DEF ChunkOK

LEMMA JsonOK == ChunkOK("json")
<1>. DEFINE c == Chunk["json"]
<1>1. /\ Len(c) = 2 /\ DOMAIN c = 1 .. 2
      /\ c[1] = Set("json")
      /\ c[2] = Return("nothing")
  BY Chunks
<1>2. StepOK("json", 1, 2, Set("json"))
  BY SetOK DEF Prior
<1>3. StepOK("json", 2, 2, Return("nothing"))
  BY ReturnOK
<1>4. \A k \in 1 .. 2 : StepOK("json", k, 2, c[k])
  BY ONLY <1>1, <1>2, <1>3
<1>. QED
  BY <1>1, <1>4 DEF ChunkOK

LEMMA ConfigOK == ChunkOK("Config")
<1>. DEFINE c == Chunk["Config"]
<1>1. /\ Len(c) = 2 /\ DOMAIN c = 1 .. 2
      /\ c[1] = Set("DISABLE_GLOBAL")
      /\ c[2] = Return("nothing")
  BY Chunks
<1>2. StepOK("Config", 1, 2, Set("DISABLE_GLOBAL"))
  BY SetOK DEF Prior
<1>3. StepOK("Config", 2, 2, Return("nothing"))
  BY ReturnOK
<1>4. \A k \in 1 .. 2 : StepOK("Config", k, 2, c[k])
  BY ONLY <1>1, <1>2, <1>3
<1>. QED
  BY <1>1, <1>4 DEF ChunkOK

LEMMA EnvInitOK == ChunkOK("EnvInit")
<1>. DEFINE c == Chunk["EnvInit"]
<1>1. /\ Len(c) = 3 /\ DOMAIN c = 1 .. 3
      /\ c[1] = Set("dd")
      /\ c[2] = Lock
      /\ c[3] = Return("nothing")
  BY Chunks
<1>2. StepOK("EnvInit", 1, 3, Set("dd"))
  BY SetOK DEF Prior
<1>3. StepOK("EnvInit", 2, 3, Lock)
  BY LockOK
<1>4. StepOK("EnvInit", 3, 3, Return("nothing"))
  BY ReturnOK
<1>5. \A k \in 1 .. 3 : StepOK("EnvInit", k, 3, c[k])
  BY ONLY <1>1, <1>2, <1>3, <1>4
<1>. QED
  BY <1>1, <1>5 DEF ChunkOK

LEMMA PumperOK == ChunkOK("Pumper")
<1>. DEFINE c == Chunk["Pumper"]
<1>1. /\ Len(c) = 7 /\ DOMAIN c = 1 .. 7
      /\ c[1] = Require("app.proto")
      /\ c[2] = Require("app.Dispatcher")
      /\ c[3] = Require("app.model.NetEvent.Events")
      /\ c[4] = Lookup("ResponseWorldList")
      /\ c[5] = Lookup("ResponseLogin")
      /\ c[6] = Use("dd")
      /\ c[7] = Return("nothing")
  BY Chunks DEF PumperChunk
<1>2. StepOK("Pumper", 1, 7, Require("app.proto"))
  BY RequireOK, FilesOf, Ranks DEF Leaves
<1>3. StepOK("Pumper", 2, 7, Require("app.Dispatcher"))
  BY RequireOK, FilesOf, Ranks DEF Leaves
<1>4. StepOK("Pumper", 3, 7, Require("app.model.NetEvent.Events"))
  BY RequireOK, FilesOf, Ranks DEF Leaves
<1>5. StepOK("Pumper", 4, 7, Lookup("ResponseWorldList"))
  BY LookupOK DEF Messages
<1>6. StepOK("Pumper", 5, 7, Lookup("ResponseLogin"))
  BY LookupOK DEF Messages
<1>7. StepOK("Pumper", 6, 7, Use("dd"))
  BY UseOK DEF Leaves
<1>8. StepOK("Pumper", 7, 7, Return("nothing"))
  BY ReturnOK
<1>9. \A k \in 1 .. 7 : StepOK("Pumper", k, 7, c[k])
  BY ONLY <1>1, <1>2, <1>3, <1>4, <1>5, <1>6, <1>7, <1>8
<1>. QED
  BY <1>1, <1>9 DEF ChunkOK

LEMMA ProtoOK == ChunkOK("Proto")
<1>. DEFINE c == Chunk["Proto"]
<1>1. /\ Len(c) = 12 /\ DOMAIN c = 1 .. 12
      /\ c[1] = Require("app.libs.protobuf")
      /\ c[2] = Require("app.libs.DebugLog")
      /\ c[3] = Require("app.libs.ReadOnly")
      /\ c[4] = Register("data")
      /\ c[5] = Register("exceptiontype")
      /\ c[6] = Register("cs_dir")
      /\ c[7] = Register("cs_world")
      /\ c[8] = Lookup("RequestWorldList")
      /\ c[9] = Lookup("ResponseWorldList")
      /\ c[10] = Lookup("RequestLogin")
      /\ c[11] = Lookup("ResponseLogin")
      /\ c[12] = Return("value")
  BY Chunks DEF ProtoChunk
<1>2. StepOK("Proto", 1, 12, Require("app.libs.protobuf"))
  BY RequireOK, FilesOf, Ranks DEF Leaves
<1>3. StepOK("Proto", 2, 12, Require("app.libs.DebugLog"))
  BY RequireOK, FilesOf, Ranks DEF Leaves
<1>4. StepOK("Proto", 3, 12, Require("app.libs.ReadOnly"))
  BY RequireOK, FilesOf, Ranks DEF Leaves
<1>5. StepOK("Proto", 4, 12, Register("data"))
  BY RegisterOK DEF PbFiles, Dependencies
<1>6. StepOK("Proto", 5, 12, Register("exceptiontype"))
  BY RegisterOK DEF PbFiles, Dependencies
<1>7. StepOK("Proto", 6, 12, Register("cs_dir"))
  BY RegisterOK DEF PbFiles, Dependencies
<1>8. StepOK("Proto", 7, 12, Register("cs_world"))
  BY RegisterOK DEF PbFiles, Dependencies
<1>9. StepOK("Proto", 8, 12, Lookup("RequestWorldList"))
  BY LookupOK DEF Messages
<1>10. StepOK("Proto", 9, 12, Lookup("ResponseWorldList"))
  BY LookupOK DEF Messages
<1>11. StepOK("Proto", 10, 12, Lookup("RequestLogin"))
  BY LookupOK DEF Messages
<1>12. StepOK("Proto", 11, 12, Lookup("ResponseLogin"))
  BY LookupOK DEF Messages
<1>13. StepOK("Proto", 12, 12, Return("value"))
  BY ReturnOK
<1>14. \A k \in 1 .. 12 : StepOK("Proto", k, 12, c[k])
  BY ONLY <1>1, <1>2, <1>3, <1>4, <1>5, <1>6, <1>7, <1>8, <1>9, <1>10, <1>11, <1>12, <1>13
<1>. QED
  BY <1>1, <1>14 DEF ChunkOK

LEMMA ProtobufOK == ChunkOK("protobuf")
<1>. DEFINE c == Chunk["protobuf"]
<1>1. /\ Len(c) = 3 /\ DOMAIN c = 1 .. 3
      /\ c[1] = Require("protobuf.c")
      /\ c[2] = Set("protobuf")
      /\ c[3] = Return("nothing")
  BY Chunks DEF protobufChunk
<1>2. StepOK("protobuf", 1, 3, Require("protobuf.c"))
  BY DEF StepOK, Require, Ops, Leaves
<1>3. StepOK("protobuf", 2, 3, Set("protobuf"))
  BY SetOK DEF Prior
<1>4. StepOK("protobuf", 3, 3, Return("nothing"))
  BY ReturnOK
<1>5. \A k \in 1 .. 3 : StepOK("protobuf", k, 3, c[k])
  BY ONLY <1>1, <1>2, <1>3, <1>4
<1>. QED
  BY <1>1, <1>5 DEF ChunkOK

LEMMA DebugLogOK == ChunkOK("DebugLog")
<1>. DEFINE c == Chunk["DebugLog"]
<1>1. /\ Len(c) = 1 /\ DOMAIN c = 1 .. 1
      /\ c[1] = Return("value")
  BY Chunks
<1>2. StepOK("DebugLog", 1, 1, Return("value"))
  BY ReturnOK
<1>3. \A k \in 1 .. 1 : StepOK("DebugLog", k, 1, c[k])
  BY ONLY <1>1, <1>2
<1>. QED
  BY <1>1, <1>3 DEF ChunkOK

LEMMA ReadOnlyOK == ChunkOK("ReadOnly")
<1>. DEFINE c == Chunk["ReadOnly"]
<1>1. /\ Len(c) = 1 /\ DOMAIN c = 1 .. 1
      /\ c[1] = Return("value")
  BY Chunks
<1>2. StepOK("ReadOnly", 1, 1, Return("value"))
  BY ReturnOK
<1>3. \A k \in 1 .. 1 : StepOK("ReadOnly", k, 1, c[k])
  BY ONLY <1>1, <1>2
<1>. QED
  BY <1>1, <1>3 DEF ChunkOK

LEMMA ValueMasterOK == ChunkOK("ValueMaster")
<1>. DEFINE c == Chunk["ValueMaster"]
<1>1. /\ Len(c) = 1 /\ DOMAIN c = 1 .. 1
      /\ c[1] = Return("value")
  BY Chunks
<1>2. StepOK("ValueMaster", 1, 1, Return("value"))
  BY ReturnOK
<1>3. \A k \in 1 .. 1 : StepOK("ValueMaster", k, 1, c[k])
  BY ONLY <1>1, <1>2
<1>. QED
  BY <1>1, <1>3 DEF ChunkOK

LEMMA DispatcherOK == ChunkOK("Dispatcher")
<1>. DEFINE c == Chunk["Dispatcher"]
<1>1. /\ Len(c) = 2 /\ DOMAIN c = 1 .. 2
      /\ c[1] = Require("app.libs.ReadOnly")
      /\ c[2] = Return("value")
  BY Chunks
<1>2. StepOK("Dispatcher", 1, 2, Require("app.libs.ReadOnly"))
  BY RequireOK, FilesOf, Ranks DEF Leaves
<1>3. StepOK("Dispatcher", 2, 2, Return("value"))
  BY ReturnOK
<1>4. \A k \in 1 .. 2 : StepOK("Dispatcher", k, 2, c[k])
  BY ONLY <1>1, <1>2, <1>3
<1>. QED
  BY <1>1, <1>4 DEF ChunkOK

LEMMA EventsOK == ChunkOK("Events")
<1>. DEFINE c == Chunk["Events"]
<1>1. /\ Len(c) = 2 /\ DOMAIN c = 1 .. 2
      /\ c[1] = Require("app.libs.ReadOnly")
      /\ c[2] = Return("value")
  BY Chunks
<1>2. StepOK("Events", 1, 2, Require("app.libs.ReadOnly"))
  BY RequireOK, FilesOf, Ranks DEF Leaves
<1>3. StepOK("Events", 2, 2, Return("value"))
  BY ReturnOK
<1>4. \A k \in 1 .. 2 : StepOK("Events", k, 2, c[k])
  BY ONLY <1>1, <1>2, <1>3
<1>. QED
  BY <1>1, <1>4 DEF ChunkOK

LEMMA ModelOK == ChunkOK("Model")
<1>. DEFINE c == Chunk["Model"]
<1>1. /\ Len(c) = 3 /\ DOMAIN c = 1 .. 3
      /\ c[1] = Require("app.libs.ReadOnly")
      /\ c[2] = Require("app.model.ClientState")
      /\ c[3] = Return("value")
  BY Chunks DEF ModelChunk
<1>2. StepOK("Model", 1, 3, Require("app.libs.ReadOnly"))
  BY RequireOK, FilesOf, Ranks DEF Leaves
<1>3. StepOK("Model", 2, 3, Require("app.model.ClientState"))
  BY RequireOK, FilesOf, Ranks DEF Leaves
<1>4. StepOK("Model", 3, 3, Return("value"))
  BY ReturnOK
<1>5. \A k \in 1 .. 3 : StepOK("Model", k, 3, c[k])
  BY ONLY <1>1, <1>2, <1>3, <1>4
<1>. QED
  BY <1>1, <1>5 DEF ChunkOK

LEMMA ClientStateOK == ChunkOK("ClientState")
<1>. DEFINE c == Chunk["ClientState"]
<1>1. /\ Len(c) = 4 /\ DOMAIN c = 1 .. 4
      /\ c[1] = Use("class")
      /\ c[2] = Require("app.libs.ValueMaster")
      /\ c[3] = Require("app.libs.ReadOnly")
      /\ c[4] = Return("value")
  BY Chunks DEF ClientStateChunk
<1>2. StepOK("ClientState", 1, 4, Use("class"))
  BY UseOK DEF Leaves
<1>3. StepOK("ClientState", 2, 4, Require("app.libs.ValueMaster"))
  BY RequireOK, FilesOf, Ranks DEF Leaves
<1>4. StepOK("ClientState", 3, 4, Require("app.libs.ReadOnly"))
  BY RequireOK, FilesOf, Ranks DEF Leaves
<1>5. StepOK("ClientState", 4, 4, Return("value"))
  BY ReturnOK
<1>6. \A k \in 1 .. 4 : StepOK("ClientState", k, 4, c[k])
  BY ONLY <1>1, <1>2, <1>3, <1>4, <1>5
<1>. QED
  BY <1>1, <1>6 DEF ChunkOK

LEMMA NetworkCmdOK == ChunkOK("NetworkCmd")
<1>. DEFINE c == Chunk["NetworkCmd"]
<1>1. /\ Len(c) = 5 /\ DOMAIN c = 1 .. 5
      /\ c[1] = Require("app.Proto")
      /\ c[2] = Require("app.model.Model")
      /\ c[3] = Require("app.model.NetEvent.Events")
      /\ c[4] = Use("class")
      /\ c[5] = Return("value")
  BY Chunks DEF NetworkCmdChunk
<1>2. StepOK("NetworkCmd", 1, 5, Require("app.Proto"))
  BY RequireOK, FilesOf, Ranks DEF Leaves
<1>3. StepOK("NetworkCmd", 2, 5, Require("app.model.Model"))
  BY RequireOK, FilesOf, Ranks DEF Leaves
<1>4. StepOK("NetworkCmd", 3, 5, Require("app.model.NetEvent.Events"))
  BY RequireOK, FilesOf, Ranks DEF Leaves
<1>5. StepOK("NetworkCmd", 4, 5, Use("class"))
  BY UseOK DEF Leaves
<1>6. StepOK("NetworkCmd", 5, 5, Return("value"))
  BY ReturnOK
<1>7. \A k \in 1 .. 5 : StepOK("NetworkCmd", k, 5, c[k])
  BY ONLY <1>1, <1>2, <1>3, <1>4, <1>5, <1>6
<1>. QED
  BY <1>1, <1>7 DEF ChunkOK

LEMMA GlobalMsgHolderOK == ChunkOK("GlobalMsgHolder")
<1>. DEFINE c == Chunk["GlobalMsgHolder"]
<1>1. /\ Len(c) = 4 /\ DOMAIN c = 1 .. 4
      /\ c[1] = Require("app.model.NetEvent.Events")
      /\ c[2] = Require("app.Dispatcher")
      /\ c[3] = Use("class")
      /\ c[4] = Return("value")
  BY Chunks DEF GlobalMsgHolderChunk
<1>2. StepOK("GlobalMsgHolder", 1, 4, Require("app.model.NetEvent.Events"))
  BY RequireOK, FilesOf, Ranks DEF Leaves
<1>3. StepOK("GlobalMsgHolder", 2, 4, Require("app.Dispatcher"))
  BY RequireOK, FilesOf, Ranks DEF Leaves
<1>4. StepOK("GlobalMsgHolder", 3, 4, Use("class"))
  BY UseOK DEF Leaves
<1>5. StepOK("GlobalMsgHolder", 4, 4, Return("value"))
  BY ReturnOK
<1>6. \A k \in 1 .. 4 : StepOK("GlobalMsgHolder", k, 4, c[k])
  BY ONLY <1>1, <1>2, <1>3, <1>4, <1>5
<1>. QED
  BY <1>1, <1>6 DEF ChunkOK

LEMMA ConnectHandlerOK == ChunkOK("ConnectHandler")
<1>. DEFINE c == Chunk["ConnectHandler"]
<1>1. /\ Len(c) = 6 /\ DOMAIN c = 1 .. 6
      /\ c[1] = Require("app.NetworkCmd")
      /\ c[2] = Require("app.Dispatcher")
      /\ c[3] = Require("app.model.Model")
      /\ c[4] = Require("app.model.NetEvent.Events")
      /\ c[5] = Use("class")
      /\ c[6] = Return("value")
  BY Chunks DEF ConnectHandlerChunk
<1>2. StepOK("ConnectHandler", 1, 6, Require("app.NetworkCmd"))
  BY RequireOK, FilesOf, Ranks DEF Leaves
<1>3. StepOK("ConnectHandler", 2, 6, Require("app.Dispatcher"))
  BY RequireOK, FilesOf, Ranks DEF Leaves
<1>4. StepOK("ConnectHandler", 3, 6, Require("app.model.Model"))
  BY RequireOK, FilesOf, Ranks DEF Leaves
<1>5. StepOK("ConnectHandler", 4, 6, Require("app.model.NetEvent.Events"))
  BY RequireOK, FilesOf, Ranks DEF Leaves
<1>6. StepOK("ConnectHandler", 5, 6, Use("class"))
  BY UseOK DEF Leaves
<1>7. StepOK("ConnectHandler", 6, 6, Return("value"))
  BY ReturnOK
<1>8. \A k \in 1 .. 6 : StepOK("ConnectHandler", k, 6, c[k])
  BY ONLY <1>1, <1>2, <1>3, <1>4, <1>5, <1>6, <1>7
<1>. QED
  BY <1>1, <1>8 DEF ChunkOK

LEMMA AllOK == \A f \in Files : ChunkOK(f)
BY Chunks, InitOK, FunctionsOK, JsonOK, ConfigOK, EnvInitOK, PumperOK, ProtoOK, ProtobufOK, DebugLogOK, ReadOnlyOK,
   ValueMasterOK, DispatcherOK, EventsOK, ModelOK, ClientStateOK, NetworkCmdOK,
   GlobalMsgHolderOK, ConnectHandlerOK

LEMMA NamedFiles == \A n \in DOMAIN FileOf : FileOf[n] \in Files /\ FileOf[n] # "init"
BY FilesOf, Chunks

--------------------------------------------------------------------------------
(* The ids *)

LEMMA MessagesCount == IsFiniteSet(Messages) /\ Cardinality(Messages) = 4
<1>. DEFINE f == << "RequestWorldList", "ResponseWorldList", "RequestLogin", "ResponseLogin" >>
<1>1. f \in Bijection(1 .. 4, Messages)
  <2>1. f \in [1 .. 4 -> Messages] /\ \A i, j \in 1 .. 4 : f[i] = f[j] => i = j
    BY DEF Messages
  <2>2. \A msg \in Messages : \E i \in 1 .. 4 : f[i] = msg
    <3>1. f[1] = "RequestWorldList" /\ f[2] = "ResponseWorldList" /\ f[3] = "RequestLogin"
          /\ f[4] = "ResponseLogin"
      OBVIOUS
    <3>. QED
      BY <3>1 DEF Messages
  <2>. QED
    BY <2>1, <2>2 DEF Bijection, Injection, Surjection, IsInjective
<1>2. ExistsBijection(1 .. 4, Messages)
  BY <1>1 DEF ExistsBijection
<1>. QED
  BY <1>2, FS_NatBijection, FS_CountingElements

\* The number of a message in a registered file.
MessageId(msg) == CHOOSE n \in 1 .. 4 : msg = SetToSeq(Messages)[n]

LEMMA MessageIds == \A msg \in Messages : MessageId(msg) \in 1 .. 4
<1>. DEFINE f == SetToSeq(Messages)
<1>1. \E g \in [1 .. 4 -> Messages] : IsInjective(g)
  <2>. DEFINE g == << "RequestWorldList", "ResponseWorldList", "RequestLogin", "ResponseLogin" >>
  <2>1. g \in [1 .. 4 -> Messages] /\ IsInjective(g)
    BY DEF Messages, IsInjective
  <2>. QED
    BY <2>1
<1>2. f \in [1 .. 4 -> Messages] /\ IsInjective(f)
  BY <1>1, MessagesCount DEF SetToSeq
<1>. HIDE DEF f
<1>3. f \in Injection(1 .. 4, Messages)
  BY <1>2 DEF Injection, IsInjective
<1>4. f \in Surjection(1 .. 4, Messages)
  <2>1. \A a, b \in Int : IsFiniteSet(a .. b) /\ Cardinality(a .. b) = IF a > b THEN 0 ELSE b - a + 1
    BY FS_Interval
  <2>2. Cardinality(1 .. 4) = 4 /\ IsFiniteSet(1 .. 4)
    <3>1. /\ IsFiniteSet(1 .. 4)
          /\ Cardinality(1 .. 4) = IF 1 > 4 THEN 0 ELSE 4 - 1 + 1
      <4>. 1 \in Int /\ 4 \in Int
        OBVIOUS
      <4>. QED
        BY <2>1, Zenon
    <3>. QED
      BY <3>1
  <2>. QED
    BY <1>3, <2>2, MessagesCount, FS_Injection
<1>5. \A msg \in Messages : \E n \in 1 .. 4 : msg = f[n]
  BY <1>4 DEF Surjection
<1>. QED
  BY <1>5 DEF MessageId, f

LEMMA NamesCount == IsFiniteSet(Names) /\ Cardinality(Names) \in Nat
<1>1. \A x, y, z : IsFiniteSet({x}) /\ IsFiniteSet({x, y, z})
  <2>. SUFFICES ASSUME NEW x, NEW y, NEW z PROVE IsFiniteSet({x}) /\ IsFiniteSet({x, y, z})
    OBVIOUS
  <2>1. IsFiniteSet({x})
    BY FS_Singleton
  <2>2. IsFiniteSet({x} \cup {y})
    BY <2>1, FS_AddElement
  <2>3. IsFiniteSet({x} \cup {y} \cup {z})
    BY <2>2, FS_AddElement
  <2>4. {x} \cup {y} \cup {z} = {x, y, z}
    OBVIOUS
  <2>. QED
    BY <2>1, <2>3, <2>4
<1>2. \A S, T : IsFiniteSet(S) /\ IsFiniteSet(T) => IsFiniteSet(S \cup T)
  BY FS_Union
<1>3. IsFiniteSet({"app.libs.functions", "app.libs.json", "app.libs.protobuf"} \cup
                  {"app.libs.ReadOnly", "app.libs.ValueMaster", "app.Config"} \cup
                  {"app.EnvInit", "app.Pumper", "app.Proto"} \cup
                  {"app.proto", "app.Dispatcher", "app.NetworkCmd"} \cup
                  {"app.GlobalMsgHolder", "app.ConnectHandler", "app.model.Model"} \cup
                  {"app.model.ClientState", "app.model.NetEvent.Events", "protobuf.c"} \cup
                  {"app.libs.DebugLog"})
  BY <1>1, <1>2, Zenon
<1>4. IsFiniteSet(Names)
  <2>1. Names = {"app.libs.functions", "app.libs.json", "app.libs.protobuf"} \cup
                {"app.libs.ReadOnly", "app.libs.ValueMaster", "app.Config"} \cup
                {"app.EnvInit", "app.Pumper", "app.Proto"} \cup
                {"app.proto", "app.Dispatcher", "app.NetworkCmd"} \cup
                {"app.GlobalMsgHolder", "app.ConnectHandler", "app.model.Model"} \cup
                {"app.model.ClientState", "app.model.NetEvent.Events", "protobuf.c"} \cup
                {"app.libs.DebugLog"}
    BY FilesOf DEF Names
  <2>. QED
    BY <1>3, <2>1, Zenon
<1>. QED
  BY <1>4, FS_CardinalityType
--------------------------------------------------------------------------------
(* The inductive invariant *)

InitName == "app/init.lua"
Begun == DOMAIN FileOf \cup {InitName}
FileNamed(n) == IF n = InitName THEN "init" ELSE FileOf[n]

Ready(n) == n \in Names /\ loaded[n] \notin {Nil, Sentinel}
StepDone(s) ==
  /\ s.do = "require" => Ready(s.arg)
  /\ s.do = "set" => s.arg \in globals
  /\ s.do = "register" => s.arg \in Range(registered)
StepsDone(f, n) == \A k \in 1 .. Len(Chunk[f]) : k < n => StepDone(Chunk[f][k])

FrameType == [name : Begun, file : Files, pc : Nat, instance : Nat]
RTypes ==
  /\ loaded \in [Names -> Int]
  /\ running \in Seq(FrameType)
  /\ instances \in Seq([name : Begun, file : Files])
  /\ registered \in Seq(PbFiles)
  /\ ids \in [1 .. Cardinality(Names) + 1 -> [Messages -> Int]]
  /\ locked \in BOOLEAN /\ failed \in BOOLEAN /\ faults \in Nat /\ loads \in Nat

\* The frame of a file, and how far it got: below the top of the stack the last step is
\* the require that is going on.
FrameOK(r) ==
  /\ r.file = FileNamed(r.name) /\ r.pc \in 1 .. Len(Chunk[r.file])
  /\ r.instance \in 1 .. Len(instances)
  /\ r.name # InitName => loaded[r.name] = Sentinel
  /\ r.name = InitName => loads # 0

StackOK(r) ==
  /\ \A i \in 1 .. Len(r) :
       /\ FrameOK(r[i]) /\ (i # 1 => r[i].name # InitName)
       /\ i = Len(r) => StepsDone(r[i].file, r[i].pc)
       /\ i # Len(r) => /\ StepsDone(r[i].file, r[i].pc - 1) /\ r[i].pc > 1
                        /\ Chunk[r[i].file][r[i].pc - 1] = Require(r[i + 1].name)
  /\ \A i, j \in 1 .. Len(r) : i < j => Rank(r[i].file) < Rank(r[j].file)
Running == StackOK(running)

Started ==
  /\ \A i, j \in 1 .. Len(instances) : instances[i].name = instances[j].name => i = j
  /\ \A i \in 1 .. Len(instances) :
       IF instances[i].name = InitName THEN loads # 0 ELSE loaded[instances[i].name] # Nil
  /\ loads = 0 => running = << >> /\ ~locked /\ \A n \in DOMAIN FileOf : loaded[n] = Nil
  /\ Ready("protobuf.c") /\ "protobuf" \in globals

LoadedDone == \A n \in DOMAIN FileOf : Ready(n) => StepsDone(FileOf[n], Len(Chunk[FileOf[n]]))

\* While app/init.lua loads and every file could be read, what is being loaded is on the
\* stack, and the globals are locked only when those that are set before are there.
NoFault == CaseInsensitive /\ faults = 0
InInit == running # << >> /\ running[1].file = "init"
Loading ==
  NoFault =>
    /\ ~failed
    /\ InInit =>
         /\ \A n \in DOMAIN FileOf : loaded[n] = Sentinel => \E i \in 1 .. Len(running) : running[i].name = n
         /\ locked => Prior \subseteq globals

RInv == RTypes /\ Running /\ Started /\ LoadedDone /\ Loading /\ SecondLoadHarmless

--------------------------------------------------------------------------------
(* The step that is next *)

LEMMA TopIs ==
  ASSUME RTypes, Running, running # << >>
  PROVE  /\ Len(running) \in Nat \ {0} /\ Top = running[Len(running)] /\ Top \in FrameType
         /\ FrameOK(Top) /\ StepsDone(Top.file, Top.pc)
         /\ Step = Chunk[Top.file][Top.pc] /\ ChunkOK(Top.file)
         /\ StepOK(Top.file, Top.pc, Len(Chunk[Top.file]), Step)
<1>1. Len(running) \in Nat \ {0} /\ Top = running[Len(running)] /\ Top \in FrameType
  BY DEF RTypes, Top, Last
<1>2. FrameOK(Top) /\ StepsDone(Top.file, Top.pc)
  BY <1>1 DEF Running, StackOK
<1>3. ChunkOK(Top.file) /\ Top.pc \in 1 .. Len(Chunk[Top.file])
  BY <1>1, <1>2, AllOK DEF FrameType, FrameOK
<1>4. Step = Chunk[Top.file][Top.pc]
  BY DEF Step
<1>. QED
  BY <1>1, <1>2, <1>3, <1>4 DEF ChunkOK

\* The stack with the top frame one step further.
LEMMA AdvancedIs ==
  ASSUME RTypes, Running, running # << >>, Step.do # "return"
  PROVE  /\ Advanced(running) \in Seq(FrameType) /\ Len(Advanced(running)) = Len(running)
         /\ \A i \in 1 .. Len(running) : i # Len(running) => Advanced(running)[i] = running[i]
         /\ Advanced(running)[Len(running)] = [Top EXCEPT !.pc = @ + 1]
         /\ Top.pc + 1 \in 1 .. Len(Chunk[Top.file])
<1>1. Len(running) \in Nat \ {0} /\ Top = running[Len(running)] /\ Top \in FrameType
  BY TopIs
<1>2. DOMAIN running = 1 .. Len(running)
  BY DEF RTypes
<1>3. Advanced(running) = [running EXCEPT ![Len(running)] = [Top EXCEPT !.pc = @ + 1]]
  BY <1>1 DEF Advanced
<1>4. [Top EXCEPT !.pc = @ + 1] \in FrameType
  BY <1>1 DEF FrameType
<1>5. /\ Advanced(running) \in Seq(FrameType) /\ Len(Advanced(running)) = Len(running)
      /\ \A i \in 1 .. Len(running) : i # Len(running) => Advanced(running)[i] = running[i]
      /\ Advanced(running)[Len(running)] = [Top EXCEPT !.pc = @ + 1]
  <2>. DEFINE e == [Top EXCEPT !.pc = @ + 1]
  <2>1. e \in FrameType /\ running \in Seq(FrameType) /\ Len(running) \in 1 .. Len(running)
    BY <1>1, <1>4 DEF RTypes
  <2>. HIDE DEF e
  <2>2. /\ [running EXCEPT ![Len(running)] = e] \in Seq(FrameType)
        /\ Len([running EXCEPT ![Len(running)] = e]) = Len(running)
        /\ \A j \in 1 .. Len(running) :
             [running EXCEPT ![Len(running)] = e][j] = IF j = Len(running) THEN e ELSE running[j]
    BY <2>1, ExceptSeq
  <2>3. Advanced(running) = [running EXCEPT ![Len(running)] = e]
    BY <1>3 DEF e
  <2>. QED
    BY <2>1, <2>2, <2>3 DEF e
<1>6. Top.pc \in 1 .. Len(Chunk[Top.file]) /\ Len(Chunk[Top.file]) \in Nat
      /\ (Step.do = "return" <=> Top.pc = Len(Chunk[Top.file]))
  BY TopIs DEF FrameOK, ChunkOK, StepOK
<1>7. Top.pc + 1 \in 1 .. Len(Chunk[Top.file])
  BY <1>6
<1>. QED
  BY <1>5, <1>7

\* What was done stays done.
LEMMA StaysDone ==
  ASSUME \A n : Ready(n) => Ready(n)', globals \subseteq globals',
         Range(registered) \subseteq Range(registered')
  PROVE  /\ \A s : StepDone(s) => StepDone(s)'
         /\ \A f, n : StepsDone(f, n) => StepsDone(f, n)'
<1>1. \A s : StepDone(s) => StepDone(s)'
  BY DEF StepDone
<1>. QED
  BY <1>1 DEF StepsDone

--------------------------------------------------------------------------------
(* What the steps do to the stack *)

\* A step of the top frame's file is done and it goes on.
LEMMA GoesOn ==
  ASSUME RInv, running # << >>, Step.do # "return", Proceed, UNCHANGED << loaded, instances >>,
         globals \subseteq globals', Range(registered) \subseteq Range(registered'), \A x : x = Step => StepDone(x)',
         NoFault /\ InInit /\ locked' => Prior \subseteq globals'
  PROVE  Running' /\ Started' /\ LoadedDone' /\ Loading' /\ running' \in Seq(FrameType)
<1>. USE DEF RInv
<1>1. PICK r, s, t, f, n : r = running /\ s = running' /\ t = Top /\ f = Top.file /\ n = Top.pc
  OBVIOUS
<1>2. s = Advanced(running) /\ UNCHANGED << failed, faults, loads >>
  BY <1>1 DEF Proceed
<1>3. /\ Len(r) \in Nat \ {0} /\ t = r[Len(r)] /\ t \in FrameType /\ f \in Files /\ n \in Nat
      /\ FrameOK(t) /\ StepsDone(f, n) /\ Step = Chunk[f][n]
  BY <1>1, TopIs DEF FrameType
<1>4. /\ s \in Seq(FrameType) /\ Len(s) = Len(r)
      /\ \A i \in 1 .. Len(r) : i # Len(r) => s[i] = r[i]
      /\ s[Len(r)] = [t EXCEPT !.pc = @ + 1]
      /\ n + 1 \in 1 .. Len(Chunk[f])
  BY <1>1, <1>2, AdvancedIs
<1>5. \A x : FrameOK(x) => FrameOK(x)'
  BY <1>2 DEF FrameOK
<1>6. /\ \A x : StepDone(x) => StepDone(x)'
      /\ \A g, k : StepsDone(g, k) => StepsDone(g, k)'
  <2>1. \A m : Ready(m) => Ready(m)'
    BY DEF Ready
  <2>. QED
    BY <2>1, StaysDone
<1>7. s[Len(r)].file = f /\ s[Len(r)].pc = n + 1 /\ FrameOK(s[Len(r)])'
  BY <1>1, <1>3, <1>4, <1>5 DEF FrameOK, FrameType
<1>8. StepsDone(f, n + 1)'
  <2>1. StepDone(Chunk[f][n])'
    <3>. PICK x : x = Step
      OBVIOUS
    <3>1. StepDone(x)'
      OBVIOUS
    <3>. QED
      BY <1>3, <3>1
  <2>2. \A k \in 1 .. Len(Chunk[f]) : k < n => StepDone(Chunk[f][k])'
    BY <1>3, <1>6 DEF StepsDone
  <2>3. \A k \in Nat : k < n + 1 => k < n \/ k = n
    BY <1>3
  <2>. QED
    BY <2>1, <2>2, <2>3 DEF StepsDone
<1>9. \A i \in 1 .. Len(r) : s[i].name = r[i].name /\ s[i].file = r[i].file
  BY <1>3, <1>4 DEF FrameType
<1>10. StackOK(r)
  BY <1>1 DEF Running
<1>11. StackOK(s)'
  <2>1. \A i \in 1 .. Len(s) : FrameOK(s[i])' /\ (i # 1 => s[i].name # InitName)
    BY <1>4, <1>5, <1>7, <1>9, <1>10 DEF StackOK
  <2>2. StepsDone(s[Len(s)].file, s[Len(s)].pc)'
    BY <1>4, <1>7, <1>8
  <2>3. \A i \in 1 .. Len(s) : i # Len(s) =>
          /\ StepsDone(s[i].file, s[i].pc - 1)' /\ s[i].pc > 1
          /\ Chunk[s[i].file][s[i].pc - 1] = Require(s[i + 1].name)
    <3>. SUFFICES ASSUME NEW i \in 1 .. Len(r), i # Len(r)
                  PROVE  /\ StepsDone(s[i].file, s[i].pc - 1)' /\ s[i].pc > 1
                         /\ Chunk[s[i].file][s[i].pc - 1] = Require(s[i + 1].name)
      BY <1>4
    <3>1. /\ StepsDone(r[i].file, r[i].pc - 1) /\ r[i].pc > 1
          /\ Chunk[r[i].file][r[i].pc - 1] = Require(r[i + 1].name)
      BY <1>10 DEF StackOK
    <3>2. s[i + 1].name = r[i + 1].name /\ s[i] = r[i]
      BY <1>3, <1>4, <1>9
    <3>. QED
      BY <1>6, <3>1, <3>2
  <2>4. \A i, j \in 1 .. Len(s) : i < j => Rank(s[i].file) < Rank(s[j].file)
    BY <1>4, <1>9, <1>10 DEF StackOK
  <2>. QED
    BY <2>1, <2>2, <2>3, <2>4 DEF StackOK
<1>12. Running'
  BY <1>1, <1>11 DEF Running
<1>13. Started'
  <2>1. loads # 0 /\ "protobuf" \in globals'
    BY DEF Started
  <2>. QED
    BY <1>2, <2>1 DEF Started, Ready
<1>14. LoadedDone'
  BY <1>6 DEF LoadedDone, Ready
<1>15. Loading'
  <2>1. NoFault' => NoFault
    BY <1>2 DEF NoFault
  <2>2. InInit' => InInit
    BY <1>1, <1>3, <1>4, <1>9 DEF InInit
  <2>3. NoFault /\ InInit /\ InInit' =>
          \A m \in DOMAIN FileOf : loaded'[m] = Sentinel => \E i \in 1 .. Len(s) : s[i].name = m
    BY <1>1, <1>4, <1>9 DEF Loading
  <2>4. NoFault => ~failed'
    BY <1>2 DEF Loading
  <2>. QED
    BY <1>1, <2>1, <2>2, <2>3, <2>4 DEF Loading
<1>. QED
  BY <1>1, <1>4, <1>12, <1>13, <1>14, <1>15

\* An error empties the stack, and what was being loaded keeps its sentinel.
LEMMA RaiseKeeps ==
  ASSUME RInv, Raise, faults' \in Nat, loads' = loads, NoFault' => NoFault /\ ~InInit, running # << >>
  PROVE  RInv'
<1>. USE DEF RInv
<1>1. running' = << >> /\ UNCHANGED << loaded, instances, globals, locked, registered, asked, ids >>
      /\ failed' = (failed \/ running[1].file = "init")
  BY DEF Raise
<1>2. RTypes'
  BY <1>1 DEF RTypes
<1>3. Running'
  <2>. Len(running') = 0
    BY <1>1
  <2>. QED
    BY DEF Running, StackOK
<1>4. Started'
  BY <1>1 DEF Started, Ready
<1>5. LoadedDone'
  BY <1>1 DEF LoadedDone, Ready, StepsDone, StepDone
<1>6. Loading'
  BY <1>1 DEF Loading, InInit, NoFault
<1>7. SecondLoadHarmless'
  BY <1>1 DEF SecondLoadHarmless, pbc_get_enum_value
<1>. QED
  BY <1>2, <1>3, <1>4, <1>5, <1>6, <1>7

\* A module begins to load above the frames of r.
LEMMA Begins ==
  ASSUME RInv, NEW n \in DOMAIN FileOf, loaded[n] = Nil, NEW r \in Seq(FrameType), Start(n, r),
         loads' \in Nat \ {0}, UNCHANGED << globals, locked, registered, ids, failed, faults >>,
         \A i \in 1 .. Len(r) :
           /\ FrameOK(r[i]) /\ (i # 1 => r[i].name # InitName)
           /\ StepsDone(r[i].file, r[i].pc - 1) /\ r[i].pc > 1
           /\ Chunk[r[i].file][r[i].pc - 1] = Require(IF i = Len(r) THEN n ELSE r[i + 1].name)
           /\ Rank(r[i].file) < Rank(FileOf[n]),
         \A i, j \in 1 .. Len(r) : i < j => Rank(r[i].file) < Rank(r[j].file),
         r # << >> => running # << >> /\ r[1].file = running[1].file /\ Len(r) = Len(running),
         \A i \in 1 .. Len(r) : r[i].name = running[i].name
  PROVE  RInv'
<1>. USE DEF RInv
<1>1. PICK x, s : x = Frame(n, FileOf[n]) /\ s = running'
  OBVIOUS
<1>2. /\ s = Append(r, x) /\ instances' = Append(instances, [name |-> n, file |-> FileOf[n]])
      /\ loaded' = [loaded EXCEPT ![n] = Sentinel]
  BY <1>1 DEF Start
<1>3. /\ n # InitName /\ n \in Names /\ n \in Begun /\ FileNamed(n) = FileOf[n]
      /\ FileOf[n] \in Files /\ FileOf[n] # "init" /\ Len(Chunk[FileOf[n]]) \in Nat \ {0}
  BY NamedFiles, FilesOf, AllOK DEF Names, Begun, FileNamed, InitName, ChunkOK
<1>4. Len(instances) \in Nat /\ Len(r) \in Nat
  BY DEF RTypes
<1>5. /\ x.name = n /\ x.file = FileOf[n] /\ x.pc = 1 /\ x.instance = Len(instances) + 1
      /\ x \in FrameType
  BY <1>1, <1>3, <1>4 DEF Frame, FrameType
<1>6. /\ s \in Seq(FrameType) /\ Len(s) = Len(r) + 1 /\ s[Len(r) + 1] = x
      /\ \A i \in 1 .. Len(r) : s[i] = r[i]
  BY <1>2, <1>5
<1>7. \A m \in Names : loaded'[m] = IF m = n THEN Sentinel ELSE loaded[m]
  BY <1>2 DEF RTypes
<1>8. PICK k \in Nat : k = Len(instances)
  BY <1>4
<1>9. /\ instances' \in Seq([name : Begun, file : Files]) /\ Len(instances') = k + 1
      /\ instances'[k + 1].name = n
      /\ \A i \in 1 .. k : instances'[i] = instances[i]
  BY <1>2, <1>3, <1>8 DEF RTypes
<1>10. \A m : Ready(m)' <=> Ready(m)
  BY <1>3, <1>7 DEF Ready, Nil, Sentinel
<1>11. RTypes'
  <2>1. loaded' \in [Names -> Int]
    <3>1. loaded \in [Names -> Int] /\ -1 \in Int
      BY DEF RTypes
    <3>. QED
      BY <1>2, <3>1 DEF Sentinel
  <2>. QED
    BY <1>1, <1>6, <1>9, <2>1 DEF RTypes
<1>12. \A g, m : StepsDone(g, m)' <=> StepsDone(g, m)
  BY <1>10 DEF StepsDone, StepDone
<1>13. \A y \in FrameType : FrameOK(y) => FrameOK(y)'
  <2>. SUFFICES ASSUME NEW y \in FrameType, FrameOK(y) PROVE FrameOK(y)'
    OBVIOUS
  <2>1. y.name # InitName => loaded'[y.name] = Sentinel
    BY <1>7 DEF FrameOK, FrameType, Begun, Names
  <2>2. y.instance \in 1 .. Len(instances')
    BY <1>8, <1>9 DEF FrameOK, FrameType
  <2>3. loads' # 0
    OBVIOUS
  <2>. QED
    BY <2>1, <2>2, <2>3 DEF FrameOK
<1>14. FrameOK(x)'
  BY <1>3, <1>5, <1>7, <1>8, <1>9 DEF FrameOK
<1>15. StackOK(s)'
  <2>1. \A i \in 1 .. Len(s) : i = Len(r) + 1 \/ i \in 1 .. Len(r)
    BY <1>4, <1>6
  <2>2. \A i \in 1 .. Len(r) : r[i] \in FrameType
    OBVIOUS
  <2>3. \A i \in 1 .. Len(s) : FrameOK(s[i])' /\ (i # 1 => s[i].name # InitName)
    BY <1>3, <1>5, <1>6, <1>13, <1>14, <2>1, <2>2
  <2>4. StepsDone(s[Len(s)].file, s[Len(s)].pc)'
    <3>1. s[Len(s)].pc = 1
      BY <1>5, <1>6
    <3>. QED
      BY <3>1 DEF StepsDone
  <2>5. \A i \in 1 .. Len(s) : i # Len(s) =>
          /\ StepsDone(s[i].file, s[i].pc - 1)' /\ s[i].pc > 1
          /\ Chunk[s[i].file][s[i].pc - 1] = Require(s[i + 1].name)
    <3>. SUFFICES ASSUME NEW i \in 1 .. Len(r)
                  PROVE  /\ StepsDone(r[i].file, r[i].pc - 1)' /\ r[i].pc > 1
                         /\ Chunk[r[i].file][r[i].pc - 1] = Require(s[i + 1].name)
      BY <1>6, <2>1
    <3>1. s[i + 1].name = IF i = Len(r) THEN n ELSE r[i + 1].name
      <4>1. CASE i = Len(r)
        BY <1>5, <1>6, <4>1
      <4>2. CASE i # Len(r)
        <5>1. i + 1 \in 1 .. Len(r)
          BY <1>4, <4>2
        <5>. QED
          BY <1>6, <4>2, <5>1
      <4>. QED
        BY <4>1, <4>2
    <3>. QED
      BY <1>12, <3>1
  <2>6. \A i, j \in 1 .. Len(s) : i < j => Rank(s[i].file) < Rank(s[j].file)
    <3>. SUFFICES ASSUME NEW i \in 1 .. Len(s), NEW j \in 1 .. Len(s), i < j
                  PROVE  Rank(s[i].file) < Rank(s[j].file)
      OBVIOUS
    <3>1. i \in 1 .. Len(r) /\ s[i] = r[i]
      BY <1>4, <1>6
    <3>2. CASE j = Len(r) + 1
      BY <1>5, <1>6, <3>1, <3>2
    <3>3. CASE j \in 1 .. Len(r)
      BY <1>6, <3>1, <3>3
    <3>. QED
      BY <2>1, <3>2, <3>3
  <2>. QED
    BY <2>3, <2>4, <2>5, <2>6 DEF StackOK
<1>16. Running'
  BY <1>1, <1>15 DEF Running
<1>17. Started'
  <2>1. \A i \in 1 .. k : instances[i].name # n /\ instances[i].name \in Begun
    <3>1. \A i \in 1 .. k : instances[i] \in [name : Begun, file : Files]
      <4>1. instances \in Seq([name : Begun, file : Files])
        BY DEF RTypes
      <4>. QED
        BY ONLY <1>8, <4>1, ElementOfSeq
    <3>2. \A i \in 1 .. k : instances[i].name # InitName => loaded[instances[i].name] # Nil
      BY <1>8 DEF Started
    <3>. QED
      BY <1>3, <3>1, <3>2
  <2>2. \A i, j \in 1 .. k + 1 : instances'[i].name = instances'[j].name => i = j
    <3>1. \A i \in 1 .. k + 1 : i = k + 1 \/ i \in 1 .. k
      OBVIOUS
    <3>2. \A i, j \in 1 .. k : instances[i].name = instances[j].name => i = j
      BY <1>8 DEF Started
    <3>. QED
      BY <1>9, <2>1, <3>1, <3>2
  <2>3. \A i \in 1 .. k + 1 :
          IF instances'[i].name = InitName THEN loads' # 0 ELSE loaded'[instances'[i].name] # Nil
    <3>1. \A i \in 1 .. k + 1 : i = k + 1 \/ i \in 1 .. k
      OBVIOUS
    <3>2. loaded'[n] # Nil /\ loads' # 0
      BY <1>3, <1>7 DEF Nil, Sentinel
    <3>3. \A i \in 1 .. k : instances[i].name # InitName => loaded[instances[i].name] # Nil /\ instances[i].name \in Names
      BY <1>8, <2>1 DEF Started, Begun, Names
    <3>. QED
      BY <1>7, <1>9, <2>1, <3>1, <3>2, <3>3
  <2>4. Ready("protobuf.c")' /\ "protobuf" \in globals'
    BY <1>10 DEF Started
  <2>. QED
    BY <1>9, <2>2, <2>3, <2>4 DEF Started
<1>18. LoadedDone'
  BY <1>10, <1>12 DEF LoadedDone
<1>19. Loading'
  <2>1. (NoFault' <=> NoFault) /\ failed' = failed /\ locked' = locked /\ globals' = globals
    BY DEF NoFault
  <2>2. InInit' => InInit /\ r # << >>
    <3>. SUFFICES ASSUME InInit' PROVE InInit /\ r # << >>
      OBVIOUS
    <3>1. s[1].file = "init"
      BY <1>1 DEF InInit
    <3>2. r # << >>
      <4>. SUFFICES ASSUME r = << >> PROVE FALSE
        OBVIOUS
      <4>1. s[1] = x
        BY <1>6
      <4>. QED
        BY <1>3, <1>5, <3>1, <4>1
    <3>3. s[1] = r[1]
      BY <1>4, <1>6, <3>2
    <3>. QED
      BY <3>1, <3>2, <3>3 DEF InInit
  <2>3. NoFault /\ InInit' =>
          \A m \in DOMAIN FileOf : loaded'[m] = Sentinel => \E i \in 1 .. Len(s) : s[i].name = m
    <3>. SUFFICES ASSUME NoFault, InInit', NEW m \in DOMAIN FileOf, loaded'[m] = Sentinel
                  PROVE  \E i \in 1 .. Len(s) : s[i].name = m
      OBVIOUS
    <3>1. CASE m = n
      BY <1>4, <1>5, <1>6, <3>1
    <3>2. CASE m # n
      <4>1. loaded[m] = Sentinel
        BY <1>7, <3>2 DEF Names
      <4>2. PICK i \in 1 .. Len(running) : running[i].name = m
        BY <2>2, <4>1 DEF Loading
      <4>3. i \in 1 .. Len(r) /\ s[i].name = m
        BY <1>6, <2>2, <4>2
      <4>. QED
        BY <1>4, <1>6, <4>3
    <3>. QED
      BY <3>1, <3>2
  <2>. QED
    BY <1>1, <2>1, <2>2, <2>3 DEF Loading
<1>20. SecondLoadHarmless'
  BY DEF SecondLoadHarmless, pbc_get_enum_value
<1>. QED
  BY <1>11, <1>16, <1>17, <1>18, <1>19, <1>20

\* The end of a file: its module is loaded.
LEMMA Ends == ASSUME RInv, return PROVE RInv'
<1>. USE DEF RInv
<1>1. PICK r, s, t, f : r = running /\ s = running' /\ t = Top /\ f = Top.file
  OBVIOUS
<1>2. /\ running # << >> /\ Step.do = "return" /\ s = Front(r)
      /\ UNCHANGED << instances, globals, locked, registered, asked, ids, failed, faults, loads >>
  BY <1>1 DEF return, Doing
<1>3. /\ r \in Seq(FrameType) /\ Len(r) \in Nat \ {0} /\ t = r[Len(r)] /\ t \in FrameType
      /\ f = t.file /\ FrameOK(t) /\ StepsDone(f, t.pc) /\ t.pc = Len(Chunk[f])
  BY <1>1, <1>2, TopIs DEF StepOK, RTypes, FrameOK
<1>4. /\ s \in Seq(FrameType) /\ Len(s) = Len(r) - 1 /\ Len(s) \in Nat /\ Len(s) + 1 = Len(r)
      /\ \A i \in 1 .. Len(s) : s[i] = r[i] /\ i \in 1 .. Len(r) /\ i # Len(r) /\ i < Len(r)
  <2>1. PICK n \in Nat : n + 1 = Len(r)
    BY <1>3
  <2>2. s = SubSeq(r, 1, n)
    BY <1>2, <2>1 DEF Front
  <2>3. \A i \in 1 .. n : r[i] \in FrameType
    BY <1>3, <2>1
  <2>4. 1 \in Int /\ n \in Int
    BY <2>1
  <2>5. /\ s \in Seq(FrameType) /\ Len(s) = (IF 1 <= n THEN n - 1 + 1 ELSE 0)
        /\ \A i \in 1 .. n - 1 + 1 : s[i] = r[1 + i - 1]
    BY ONLY <2>2, <2>3, <2>4, SubSeqProperties
  <2>6. Len(s) = n /\ \A i \in 1 .. n : s[i] = r[i]
    BY <2>1, <2>5
  <2>. QED
    BY <2>1, <2>5, <2>6
<1>5. StackOK(r)
  BY <1>1 DEF Running
<1>6. (f = "init" <=> t.name = InitName) /\ (t.name # InitName => t.name \in DOMAIN FileOf /\ f = FileOf[t.name])
  BY <1>3, NamedFiles DEF FrameOK, FileNamed, FrameType, Begun
<1>7. \A i \in 1 .. Len(s) : r[i].name # t.name
  <2>. SUFFICES ASSUME NEW i \in 1 .. Len(s), r[i].name = t.name PROVE FALSE
    OBVIOUS
  <2>1. Rank(r[i].file) < Rank(t.file)
    BY <1>3, <1>4, <1>5 DEF StackOK
  <2>2. r[i].file = t.file
    BY <1>3, <1>4, <1>5 DEF StackOK, FrameOK
  <2>. QED
    BY <2>1, <2>2, Ranks
<1>8. f # "init" => loaded[t.name] = Sentinel /\ t.name \in Names
  BY <1>3, <1>6 DEF FrameOK, Names
<1>9. loaded' \in [Names -> Int] /\ (\A m \in Names : m # t.name => loaded'[m] = loaded[m])
      /\ (f # "init" => loaded'[t.name] \notin {Nil, Sentinel}) /\ (f = "init" => loaded' = loaded)
  <2>1. CASE f = "init"
    <3>1. loaded' = loaded
      BY <1>1, <2>1 DEF return
    <3>. QED
      BY <2>1, <3>1 DEF RTypes
  <2>2. CASE f # "init"
    <3>1. PICK v : v = IF Step.arg = "value" THEN t.instance ELSE True
      OBVIOUS
    <3>2. loaded' = [loaded EXCEPT ![t.name] = v]
      BY <1>1, <1>8, <2>2, <3>1 DEF return
    <3>3. v \in Int /\ v \notin {Nil, Sentinel}
      BY <1>3, <3>1 DEF FrameOK, FrameType, True, Nil, Sentinel
    <3>4. loaded \in [Names -> Int]
      BY DEF RTypes
    <3>. QED
      BY <1>8, <2>2, <3>2, <3>3, <3>4
  <2>. QED
    BY <2>1, <2>2
<1>10. \A m : Ready(m) => Ready(m)'
  BY <1>8, <1>9 DEF Ready
<1>11. \A g, m : StepsDone(g, m) => StepsDone(g, m)'
  BY <1>2, <1>10, StaysDone
<1>12. RTypes'
  BY <1>1, <1>2, <1>4, <1>9 DEF RTypes
<1>13. \A i \in 1 .. Len(s) : FrameOK(s[i])'
  <2>. SUFFICES ASSUME NEW i \in 1 .. Len(s) PROVE FrameOK(r[i])'
    BY <1>4
  <2>1. FrameOK(r[i]) /\ r[i].name # t.name
    BY <1>4, <1>5, <1>7 DEF StackOK
  <2>2. r[i] \in FrameType
    BY <1>3, <1>4
  <2>3. r[i].name # InitName => loaded'[r[i].name] = Sentinel
    BY <1>9, <2>1, <2>2 DEF FrameOK, FrameType, Begun, Names
  <2>. QED
    BY <1>2, <2>1, <2>3 DEF FrameOK
<1>14. StackOK(s)'
  <2>1. \A i \in 1 .. Len(s) : i # 1 => s[i].name # InitName
    BY <1>4, <1>5 DEF StackOK
  <2>2. \A i \in 1 .. Len(s) :
          /\ StepsDone(r[i].file, r[i].pc - 1) /\ r[i].pc > 1
          /\ Chunk[r[i].file][r[i].pc - 1] = Require(r[i + 1].name)
    BY <1>3, <1>4, <1>5 DEF StackOK
  <2>3. \A i \in 1 .. Len(s) : i # Len(s) =>
          /\ StepsDone(s[i].file, s[i].pc - 1)' /\ s[i].pc > 1
          /\ Chunk[s[i].file][s[i].pc - 1] = Require(s[i + 1].name)
    <3>. SUFFICES ASSUME NEW i \in 1 .. Len(s), i # Len(s)
                  PROVE  /\ StepsDone(s[i].file, s[i].pc - 1)' /\ s[i].pc > 1
                         /\ Chunk[s[i].file][s[i].pc - 1] = Require(s[i + 1].name)
      OBVIOUS
    <3>1. i + 1 \in 1 .. Len(s)
      BY <1>4
    <3>2. s[i] = r[i] /\ s[i + 1] = r[i + 1]
      BY <1>4, <3>1
    <3>3. /\ StepsDone(r[i].file, r[i].pc - 1) /\ r[i].pc > 1
          /\ Chunk[r[i].file][r[i].pc - 1] = Require(r[i + 1].name)
      BY <2>2
    <3>4. StepsDone(r[i].file, r[i].pc - 1)'
      BY <1>11, <3>3
    <3>. QED
      BY <3>2, <3>3, <3>4
  <2>4. Len(s) # 0 => StepsDone(s[Len(s)].file, s[Len(s)].pc)'
    <3>. SUFFICES ASSUME Len(s) # 0 PROVE StepsDone(s[Len(s)].file, s[Len(s)].pc)'
      OBVIOUS
    <3>1. PICK g, n : g = s[Len(s)].file /\ n = s[Len(s)].pc
      OBVIOUS
    <3>2. Len(s) \in 1 .. Len(s) /\ r[Len(s) + 1] = t
      BY <1>3, <1>4
    <3>3. s[Len(s)] = r[Len(s)] /\ s[Len(s)] \in FrameType
      BY <1>4, <3>2
    <3>4. n \in Nat /\ g \in Files
      BY <3>1, <3>3 DEF FrameType
    <3>5. StepsDone(g, n - 1) /\ n > 1 /\ Chunk[g][n - 1] = Require(t.name)
      BY <2>2, <3>1, <3>2, <3>3
    <3>6. t.name # InitName
      BY <1>3, <1>4, <1>5, <3>2 DEF StackOK
    <3>7. StepDone(Chunk[g][n - 1])'
      BY <1>6, <1>8, <1>9, <3>5, <3>6 DEF StepDone, Require, Ready
    <3>8. \A k \in Nat : k < n => k < n - 1 \/ k = n - 1
      BY <3>4
    <3>9. StepsDone(g, n - 1)'
      BY <1>11, <3>5
    <3>10. StepsDone(g, n)'
      BY <3>7, <3>8, <3>9 DEF StepsDone
    <3>. QED
      BY <3>1, <3>10
  <2>5. \A i, j \in 1 .. Len(s) : i < j => Rank(s[i].file) < Rank(s[j].file)
    BY <1>3, <1>4, <1>5 DEF StackOK
  <2>6. ASSUME NEW i \in 1 .. Len(s)
        PROVE  /\ FrameOK(s[i])' /\ (i # 1 => s[i].name # InitName)
               /\ i = Len(s) => StepsDone(s[i].file, s[i].pc)'
    <3>1. Len(s) \in Nat
      BY <1>4
    <3>2. Len(s) # 0
      BY <3>1
    <3>. QED
      BY <1>13, <2>1, <2>4, <3>2, Zenon
  <2>. QED
    BY <2>3, <2>5, <2>6, Zenon DEF StackOK
<1>15. Running'
  BY <1>1, <1>14 DEF Running
<1>16. Started'
  <2>1. loads # 0 /\ loads' = loads
    BY <1>2 DEF Started
  <2>2. \A i \in 1 .. Len(instances) : instances[i].name \in Begun
    <3>1. instances \in Seq([name : Begun, file : Files])
      BY DEF RTypes
    <3>2. PICK e \in Seq([name : Begun, file : Files]) : e = instances
      BY <3>1
    <3>3. \A i \in 1 .. Len(e) : e[i] \in [name : Begun, file : Files]
      BY ElementOfSeq
    <3>. QED
      BY <3>2, <3>3
  <2>3. \A i \in 1 .. Len(instances) :
          IF instances[i].name = InitName THEN loads # 0 ELSE loaded'[instances[i].name] # Nil
    <3>. SUFFICES ASSUME NEW i \in 1 .. Len(instances), instances[i].name # InitName
                  PROVE  loaded'[instances[i].name] # Nil
      BY <2>1
    <3>1. loaded[instances[i].name] # Nil /\ instances[i].name \in Names
      BY <2>2 DEF Started, Begun, Names
    <3>. QED
      BY <1>8, <1>9, <3>1
  <2>4. Ready("protobuf.c")' /\ "protobuf" \in globals'
    BY <1>2, <1>10 DEF Started
  <2>5. \A i, j \in 1 .. Len(instances) : instances[i].name = instances[j].name => i = j
    BY DEF Started
  <2>. QED
    BY <1>2, <2>1, <2>3, <2>4, <2>5 DEF Started
<1>17. LoadedDone'
  <2>. SUFFICES ASSUME NEW m \in DOMAIN FileOf, Ready(m)' PROVE StepsDone(FileOf[m], Len(Chunk[FileOf[m]]))'
    BY DEF LoadedDone
  <2>1. CASE Ready(m)
    BY <1>11, <2>1 DEF LoadedDone
  <2>2. CASE ~Ready(m)
    <3>1. m = t.name /\ f # "init"
      BY <1>9, <2>2 DEF Ready
    <3>. QED
      BY <1>3, <1>6, <1>11, <3>1
  <2>. QED
    BY <2>1, <2>2
<1>18. Loading'
  <2>1. (NoFault' <=> NoFault) /\ failed' = failed /\ locked' = locked /\ globals' = globals
    BY <1>2 DEF NoFault
  <2>2. InInit' => InInit /\ Len(s) # 0
    BY <1>1, <1>2, <1>3, <1>4 DEF InInit
  <2>3. NoFault /\ InInit' =>
          \A m \in DOMAIN FileOf : loaded'[m] = Sentinel => \E i \in 1 .. Len(s) : s[i].name = m
    <3>. SUFFICES ASSUME NoFault, InInit', NEW m \in DOMAIN FileOf, loaded'[m] = Sentinel
                  PROVE  \E i \in 1 .. Len(s) : s[i].name = m
      OBVIOUS
    <3>1. m # t.name
      <4>1. f = "init" => m # t.name
        BY <1>6, FilesOf DEF InitName
      <4>. QED
        BY <1>9, <4>1
    <3>2. loaded[m] = Sentinel
      BY <1>9, <3>1 DEF Names
    <3>3. PICK i \in 1 .. Len(r) : r[i].name = m
      BY <1>1, <2>2, <3>2 DEF Loading
    <3>4. i # Len(r)
      BY <1>3, <3>1, <3>3
    <3>. QED
      BY <1>3, <1>4, <3>3, <3>4
  <2>. QED
    BY <1>1, <2>1, <2>2, <2>3 DEF Loading
<1>19. SecondLoadHarmless'
  BY <1>2 DEF SecondLoadHarmless, pbc_get_enum_value
<1>. QED
  BY <1>12, <1>15, <1>16, <1>17, <1>18, <1>19

\* A step that loads nothing and registers nothing.
LEMMA GoesOnly ==
  ASSUME RInv, running # << >>, Step.do # "return", Proceed,
         UNCHANGED << loaded, instances, registered, ids >>, globals \subseteq globals',
         locked' \in BOOLEAN, \A x : x = Step => StepDone(x)',
         NoFault /\ InInit /\ locked' => Prior \subseteq globals'
  PROVE  RInv'
<1>1. Running' /\ Started' /\ LoadedDone' /\ Loading' /\ running' \in Seq(FrameType)
  BY GoesOn
<1>2. RTypes'
  BY <1>1 DEF RInv, RTypes, Proceed
<1>3. SecondLoadHarmless'
  BY DEF RInv, SecondLoadHarmless, pbc_get_enum_value
<1>. QED
  BY <1>1, <1>2, <1>3 DEF RInv

\* A module that is not loaded is required: its file is above the others.
LEMMA Requires ==
  ASSUME RInv, NEW n \in DOMAIN FileOf, running # << >>, Step.do = "require", n = Step.arg,
         loaded[n] = Nil, Start(n, Advanced(running)),
         UNCHANGED << globals, locked, registered, ids, failed, faults, loads >>
  PROVE  RInv'
<1>. USE DEF RInv
<1>1. PICK r, s, t, f : r = running /\ s = Advanced(running) /\ t = Top /\ f = Top.file
  OBVIOUS
<1>2. /\ r \in Seq(FrameType) /\ Len(r) \in Nat \ {0} /\ t = r[Len(r)] /\ t \in FrameType /\ f = t.file
      /\ FrameOK(t) /\ StepsDone(f, t.pc) /\ t.pc \in Nat \ {0} /\ f \in Files
      /\ Chunk[f][t.pc] = Require(n) /\ Rank(f) < Rank(FileOf[n])
  <2>1. /\ r \in Seq(FrameType) /\ Len(r) \in Nat \ {0} /\ t = r[Len(r)] /\ t \in FrameType /\ f = t.file
        /\ FrameOK(t) /\ StepsDone(f, t.pc) /\ Chunk[f][t.pc] = Step
    BY <1>1, TopIs DEF RTypes
  <2>2. Step = Require(n) /\ Rank(f) < Rank(FileOf[n])
    BY <1>1, TopIs, FilesOf DEF StepOK
  <2>. QED
    BY <2>1, <2>2 DEF FrameType, FrameOK
<1>3. /\ s \in Seq(FrameType) /\ Len(s) = Len(r)
      /\ \A i \in 1 .. Len(r) : i # Len(r) => s[i] = r[i]
      /\ s[Len(r)] = [t EXCEPT !.pc = @ + 1] /\ t.pc + 1 \in 1 .. Len(Chunk[f])
  BY <1>1, AdvancedIs
<1>4. StackOK(r)
  BY <1>1 DEF Running
<1>5. /\ s[Len(r)].name = t.name /\ s[Len(r)].file = f /\ s[Len(r)].pc = t.pc + 1
      /\ s[Len(r)].instance = t.instance
  BY <1>2, <1>3 DEF FrameType
<1>6. \A i \in 1 .. Len(r) : s[i].name = r[i].name /\ s[i].file = r[i].file
  BY <1>2, <1>3, <1>5
<1>7. FrameOK(s[Len(r)])
  BY <1>2, <1>3, <1>5 DEF FrameOK
<1>8. \A i \in 1 .. Len(s) :
        /\ FrameOK(s[i]) /\ (i # 1 => s[i].name # InitName)
        /\ StepsDone(s[i].file, s[i].pc - 1) /\ s[i].pc > 1
        /\ Chunk[s[i].file][s[i].pc - 1] = Require(IF i = Len(s) THEN n ELSE s[i + 1].name)
        /\ Rank(s[i].file) < Rank(FileOf[n])
  <2>. SUFFICES ASSUME NEW i \in 1 .. Len(r)
                PROVE  /\ FrameOK(s[i]) /\ (i # 1 => s[i].name # InitName)
                       /\ StepsDone(s[i].file, s[i].pc - 1) /\ s[i].pc > 1
                       /\ Chunk[s[i].file][s[i].pc - 1] = Require(IF i = Len(r) THEN n ELSE s[i + 1].name)
                       /\ Rank(s[i].file) < Rank(FileOf[n])
    BY <1>3
  <2>1. i # 1 => s[i].name # InitName
    BY <1>4, <1>6 DEF StackOK
  <2>2. CASE i = Len(r)
    <3>1. s[i].pc - 1 = t.pc /\ s[i].pc > 1 /\ s[i].file = f
      <4>1. s[i].pc = t.pc + 1 /\ s[i].file = f
        BY <1>5, <2>2
      <4>2. \A k \in Nat \ {0} : k + 1 - 1 = k /\ k + 1 > 1
        OBVIOUS
      <4>. QED
        BY <1>2, <4>1, <4>2
    <3>. QED
      BY <1>2, <1>7, <2>1, <2>2, <3>1
  <2>3. CASE i # Len(r)
    <3>1. s[i] = r[i] /\ i + 1 \in 1 .. Len(r)
      BY <1>2, <1>3, <2>3
    <3>2. /\ FrameOK(r[i]) /\ StepsDone(r[i].file, r[i].pc - 1) /\ r[i].pc > 1
          /\ Chunk[r[i].file][r[i].pc - 1] = Require(r[i + 1].name)
      BY <1>4, <2>3 DEF StackOK
    <3>3. Rank(r[i].file) < Rank(f)
      <4>1. i < Len(r) /\ Len(r) \in 1 .. Len(r)
        BY <1>2, <2>3
      <4>. QED
        BY <1>2, <1>4, <4>1 DEF StackOK
    <3>4. Rank(r[i].file) < Rank(FileOf[n])
      BY <1>2, <3>3, Ranks
    <3>5. s[i + 1].name = r[i + 1].name
      BY <1>6, <3>1
    <3>. QED
      BY <2>1, <2>3, <3>1, <3>2, <3>4, <3>5
  <2>. QED
    BY <2>2, <2>3
<1>9. \A i, j \in 1 .. Len(s) : i < j => Rank(s[i].file) < Rank(s[j].file)
  BY <1>3, <1>4, <1>6 DEF StackOK
<1>10. s # << >> /\ s[1].file = running[1].file /\ \A i \in 1 .. Len(s) : s[i].name = running[i].name
  <2>1. 1 \in 1 .. Len(r)
    BY <1>2
  <2>2. s # << >>
    BY <1>2, <1>3
  <2>. QED
    BY <1>1, <1>3, <1>6, <2>1, <2>2
<1>11. loads' \in Nat \ {0}
  BY DEF Started, RTypes
<1>12. running # << >> /\ s[1].file = running[1].file /\ Len(s) = Len(running)
  BY <1>1, <1>3, <1>10
<1>13. \A i \in 1 .. Len(s) : s[i].name = running[i].name
  BY <1>10
<1>14. Start(n, s) /\ s \in Seq(FrameType)
  BY <1>1, <1>3
<1>. HIDE DEF RInv
<1>. QED
  BY <1>8, <1>9, <1>11, <1>12, <1>13, <1>14, Begins

\* While app/init.lua loads and its files can be read, no module is required that is
\* missing or is being loaded.
LEMMA NoneMissing ==
  ASSUME RInv, NoFault, InInit, Step.do = "require", NEW n, n = Step.arg, ~Ready(n)
  PROVE  loaded[n] = Nil /\ Found(n)
<1>. USE DEF RInv
<1>1. /\ Top \in FrameType /\ StepOK(Top.file, Top.pc, Len(Chunk[Top.file]), Step)
      /\ Len(running) \in Nat \ {0} /\ Top = running[Len(running)]
  BY TopIs DEF InInit
<1>2. n \in DOMAIN FileOf /\ Rank(Top.file) < Rank(FileOf[n])
  BY <1>1 DEF StepOK, Started
<1>3. Found(n)
  BY <1>2 DEF Found, NoFault
<1>4. loaded[n] # Sentinel
  <2>. SUFFICES ASSUME loaded[n] = Sentinel PROVE FALSE
    OBVIOUS
  <2>1. PICK i \in 1 .. Len(running) : running[i].name = n
    BY <1>2 DEF Loading
  <2>2. running[i].file = FileOf[n]
    <3>1. n # InitName
      BY <1>2, FilesOf DEF InitName
    <3>. QED
      BY <2>1, <3>1 DEF Running, StackOK, FrameOK, FileNamed
  <2>3. i = Len(running) \/ (i < Len(running) /\ Len(running) \in 1 .. Len(running))
    BY <1>1
  <2>4. Rank(running[i].file) < Rank(Top.file) \/ running[i] = Top
    BY <1>1, <2>3 DEF Running, StackOK
  <2>. QED
    BY <1>2, <2>2, <2>4, Ranks
<1>. QED
  BY <1>2, <1>3, <1>4 DEF Ready, Names

LEMMA RequireStep == ASSUME RInv, ll_require PROVE RInv'
<1>1. PICK n : n = Step.arg
  OBVIOUS
<1>2. running # << >> /\ Step.do = "require"
  BY DEF ll_require, Doing
<1>3. n \in Names
  BY <1>1, <1>2, TopIs DEF RInv, StepOK, Names
<1>4. CASE loaded[n] \notin {Nil, Sentinel}
  <2>1. /\ Proceed /\ UNCHANGED << loaded, instances, globals, locked, registered, asked, ids >>
    BY <1>1, <1>4 DEF ll_require
  <2>2. \A x : x = Step => StepDone(x)'
    <3>1. \A x : x = Step => x.do = "require" /\ x.arg = n
      BY <1>1, <1>2
    <3>2. loaded'[n] \notin {Nil, Sentinel}
      BY <1>4, <2>1
    <3>. QED
      BY <1>3, <3>1, <3>2 DEF StepDone, Ready
  <2>3. NoFault /\ InInit /\ locked' => Prior \subseteq globals'
    BY <2>1 DEF RInv, Loading
  <2>4. locked' \in BOOLEAN
    BY <2>1 DEF RInv, RTypes
  <2>. QED
    BY <1>2, <2>1, <2>2, <2>3, <2>4, GoesOnly
<1>5. CASE loaded[n] = Nil /\ Found(n)
  <2>1. /\ Start(n, Advanced(running))
        /\ UNCHANGED << globals, locked, registered, asked, ids, failed, faults, loads >>
    BY <1>1, <1>5 DEF ll_require
  <2>2. n \in DOMAIN FileOf
    BY <1>5 DEF Found
  <2>. QED
    BY <1>1, <1>2, <1>5, <2>1, <2>2, Requires
<1>6. CASE loaded[n] \in {Nil, Sentinel} /\ ~(loaded[n] = Nil /\ Found(n))
  <2>1. Raise /\ UNCHANGED << faults, loads >>
    BY <1>1, <1>6 DEF ll_require
  <2>2. NoFault' => NoFault
    BY <2>1 DEF NoFault
  <2>3. ~(NoFault /\ InInit)
    BY <1>1, <1>2, <1>6, NoneMissing DEF Ready
  <2>4. faults' \in Nat
    BY <2>1 DEF RInv, RTypes
  <2>. QED
    BY <1>2, <2>1, <2>2, <2>3, <2>4, RaiseKeeps
<1>. QED
  BY <1>4, <1>5, <1>6

\* What app/init.lua requires first is loaded before it requires anything else, and it sets
\* the globals that other files use.
LEMMA InitFirst == \A k \in 1 .. 4 :
  /\ Chunk["init"][k].do = "require" /\ Chunk["init"][k].arg \in DOMAIN FileOf
  /\ FileOf[Chunk["init"][k].arg] \in Leaves
<1>1. /\ Chunk["init"][1] = Require("app.libs.functions") /\ Chunk["init"][2] = Require("app.libs.json")
      /\ Chunk["init"][3] = Require("app.Config") /\ Chunk["init"][4] = Require("app.EnvInit")
  BY Chunks DEF initChunk
<1>2. \A k \in 1 .. 4 : k = 1 \/ k = 2 \/ k = 3 \/ k = 4
  OBVIOUS
<1>. QED
  BY <1>1, <1>2, FilesOf DEF Require, Leaves

LEMMA EarlierFiles ==
  ASSUME RInv
  PROVE  /\ StepsDone("init", 4) => Prior \ {"dd"} \subseteq globals
         /\ StepsDone("init", 5) => Prior \subseteq globals
<1>1. ASSUME StepsDone("init", 4) PROVE Prior \ {"dd"} \subseteq globals
  <2>1. Chunk["init"][1] = Require("app.libs.functions") /\ Chunk["init"][2] = Require("app.libs.json")
        /\ Chunk["init"][3] = Require("app.Config") /\ Len(Chunk["init"]) = 12
    BY Chunks DEF initChunk
  <2>2. Ready("app.libs.functions") /\ Ready("app.libs.json") /\ Ready("app.Config")
    BY <1>1, <2>1 DEF StepsDone, StepDone, Require
  <2>3. StepsDone("functions", 2) /\ StepsDone("json", 2) /\ StepsDone("Config", 2)
    <3>1. Len(Chunk["functions"]) = 2 /\ Len(Chunk["json"]) = 2 /\ Len(Chunk["Config"]) = 2
      BY Chunks
    <3>2. \A n \in DOMAIN FileOf : Ready(n) => StepsDone(FileOf[n], Len(Chunk[FileOf[n]]))
      BY DEF RInv, LoadedDone
    <3>3. /\ FileOf["app.libs.functions"] = "functions" /\ FileOf["app.libs.json"] = "json"
          /\ FileOf["app.Config"] = "Config"
      BY FilesOf, Zenon
    <3>4. "app.libs.functions" \in DOMAIN FileOf /\ "app.libs.json" \in DOMAIN FileOf
          /\ "app.Config" \in DOMAIN FileOf
      BY Zenon DEF FileOf
    <3>. QED
      BY <2>2, <3>1, <3>2, <3>3, <3>4
  <2>4. "class" \in globals /\ "json" \in globals /\ "DISABLE_GLOBAL" \in globals
    <3>1. /\ Len(Chunk["functions"]) = 2 /\ Chunk["functions"][1] = Set("class")
          /\ Len(Chunk["json"]) = 2 /\ Chunk["json"][1] = Set("json")
          /\ Len(Chunk["Config"]) = 2 /\ Chunk["Config"][1] = Set("DISABLE_GLOBAL")
      BY Chunks
    <3>. QED
      BY <2>3, <3>1 DEF StepsDone, StepDone, Set
  <2>. QED
    BY <2>4 DEF Prior
<1>2. ASSUME StepsDone("init", 5) PROVE Prior \subseteq globals
  <2>1. Chunk["init"][4] = Require("app.EnvInit") /\ Len(Chunk["init"]) = 12
    BY Chunks DEF initChunk
  <2>2. Ready("app.EnvInit")
    BY <1>2, <2>1 DEF StepsDone, StepDone, Require
  <2>3. Len(Chunk["EnvInit"]) = 3 /\ Chunk["EnvInit"][1] = Set("dd")
    BY Chunks
  <2>4. StepsDone("EnvInit", 3)
    BY <2>2, <2>3, FilesOf DEF RInv, LoadedDone
  <2>5. "dd" \in globals
    BY <2>3, <2>4 DEF StepsDone, StepDone, Set
  <2>6. StepsDone("init", 4)
    BY <1>2, <2>1 DEF StepsDone
  <2>. QED
    BY <1>1, <2>5, <2>6 DEF Prior
<1>. QED
  BY <1>1, <1>2

\* While app/init.lua loads: either those four are loaded, or init goes on itself, or
\* one of them is on top.
LEMMA InitProgress ==
  ASSUME RInv, InInit
  PROVE  \/ StepsDone("init", 5)
         \/ (Top.file = "init" /\ Top.pc < 6)
         \/ \E k \in 1 .. 4 : /\ StepsDone("init", k) /\ Chunk["init"][k] = Require(Top.name)
                              /\ Top.file \in Leaves /\ Top.file = FileNamed(Top.name)
<1>. USE DEF RInv
<1>1. PICK r, p : r = running /\ p = r[1].pc
  OBVIOUS
<1>2. /\ r \in Seq(FrameType) /\ Len(r) \in Nat \ {0} /\ Top = r[Len(r)] /\ r[1].file = "init"
      /\ StackOK(r)
  BY <1>1, TopIs DEF InInit, RTypes, Running
<1>3. p \in Nat /\ p <= 12
  <2>1. FrameOK(r[1])
    BY <1>2 DEF StackOK
  <2>2. Len(Chunk["init"]) = 12
    BY Chunks DEF initChunk
  <2>. QED
    BY <1>1, <1>2, <2>1, <2>2 DEF FrameOK
<1>4. \A a, b \in Nat : a >= b /\ StepsDone("init", a) => StepsDone("init", b)
  BY DEF StepsDone
<1>5. CASE Len(r) = 1
  <2>1. Top.file = "init" /\ Top.pc = p /\ StepsDone("init", p)
    BY <1>1, <1>2, <1>5 DEF StackOK
  <2>. QED
    BY <1>3, <1>4, <2>1
<1>6. CASE Len(r) # 1
  <2>1. 1 \in 1 .. Len(r) /\ 2 \in 1 .. Len(r)
    <3>1. \A m \in Nat \ {0} : m # 1 => 1 \in 1 .. m /\ 2 \in 1 .. m
      OBVIOUS
    <3>. QED
      BY <1>2, <1>6, <3>1
  <2>2. /\ StepsDone("init", p - 1) /\ p > 1 /\ Chunk["init"][p - 1] = Require(r[2].name)
    <3>1. /\ StepsDone(r[1].file, r[1].pc - 1) /\ r[1].pc > 1
          /\ Chunk[r[1].file][r[1].pc - 1] = Require(r[1 + 1].name)
      BY <1>2, <1>6, <2>1 DEF StackOK
    <3>. QED
      BY <1>1, <1>2, <3>1
  <2>3. CASE p > 5
    BY <1>3, <1>4, <2>2, <2>3
  <2>4. CASE p <= 5
    <3>1. PICK k \in 1 .. 4 : k = p - 1
      BY <1>3, <2>2, <2>4
    <3>2. StepsDone("init", k) /\ Chunk["init"][k] = Require(r[2].name)
      BY <2>2, <3>1
    <3>3. r[2].name \in DOMAIN FileOf /\ FileOf[r[2].name] \in Leaves
      BY <3>2, InitFirst DEF Require
    <3>4. FrameOK(r[2])
      BY <1>2, <2>1 DEF StackOK
    <3>5. r[2].file \in Leaves /\ r[2].file = FileNamed(r[2].name)
      BY <3>3, <3>4, FilesOf DEF FrameOK, FileNamed, InitName
    <3>6. Len(r) = 2
      <4>. SUFFICES ASSUME Len(r) # 2 PROVE FALSE
        OBVIOUS
      <4>1. r[2].pc > 1 /\ Chunk[r[2].file][r[2].pc - 1] = Require(r[2 + 1].name)
        BY <1>2, <2>1 DEF StackOK
      <4>2. r[2].pc \in 1 .. Len(Chunk[r[2].file]) /\ r[2] \in FrameType
        BY <1>2, <2>1, <3>4 DEF FrameOK
      <4>3. ChunkOK(r[2].file)
        BY <4>2, AllOK DEF FrameType
      <4>4. r[2].pc - 1 \in 1 .. Len(Chunk[r[2].file])
        BY <4>1, <4>2, <4>3 DEF ChunkOK
      <4>5. Chunk[r[2].file][r[2].pc - 1].do # "require"
        BY <3>5, <4>3, <4>4 DEF ChunkOK, StepOK
      <4>. QED
        BY <4>1, <4>5 DEF Require
    <3>. QED
      BY <1>2, <3>2, <3>5, <3>6
  <2>. QED
    BY <1>3, <2>3, <2>4
<1>. QED
  BY <1>5, <1>6

LEMMA GlobalsThere ==
  ASSUME RInv, InInit, Top.file \notin Leaves, Top.file = "init" => Top.pc > 5
  PROVE  Prior \subseteq globals
<1>1. Top.pc \in Nat
  BY TopIs DEF RInv, InInit, FrameType
<1>. QED
  BY <1>1, InitProgress, EarlierFiles

LEMMA SetStep == ASSUME RInv, SetGlobal PROVE RInv'
<1>1. running # << >> /\ Step.do = "set" /\ Step.arg \in Prior \cup {"protobuf"}
  <2>1. running # << >> /\ Step.do = "set"
    BY DEF SetGlobal, Doing
  <2>. QED
    BY <2>1, TopIs DEF RInv, StepOK
<1>2. NoFault /\ InInit /\ locked => Prior \subseteq globals
  BY DEF RInv, Loading
<1>3. CASE locked /\ Step.arg \notin globals
  <2>1. Raise /\ UNCHANGED << faults, loads >>
    BY <1>3 DEF SetGlobal
  <2>2. ~(NoFault /\ InInit)
    BY <1>1, <1>2, <1>3 DEF RInv, Started
  <2>3. NoFault' => NoFault
    BY <2>1 DEF NoFault
  <2>4. faults' \in Nat
    BY <2>1 DEF RInv, RTypes
  <2>. QED
    BY <1>1, <2>1, <2>2, <2>3, <2>4, RaiseKeeps
<1>4. CASE ~(locked /\ Step.arg \notin globals)
  <2>1. /\ globals' = globals \cup {Step.arg} /\ Proceed
        /\ UNCHANGED << loaded, instances, locked, registered, asked, ids >>
    BY <1>4 DEF SetGlobal
  <2>2. \A x : x = Step => StepDone(x)'
    <3>1. \A x : x = Step => x.do = "set" /\ x.arg \in globals'
      BY <1>1, <2>1
    <3>. QED
      BY <3>1 DEF StepDone
  <2>3. locked' \in BOOLEAN
    BY <2>1 DEF RInv, RTypes
  <2>. QED
    BY <1>1, <1>2, <2>1, <2>2, <2>3, GoesOnly
<1>. QED
  BY <1>3, <1>4

LEMMA UseStep == ASSUME RInv, UseGlobal PROVE RInv'
<1>1. /\ running # << >> /\ Step.do = "use" /\ Step.arg \in Prior
      /\ Top.file \notin Leaves /\ (Top.file = "init" => Top.pc > 5)
  <2>1. running # << >> /\ Step.do = "use"
    BY DEF UseGlobal, Doing
  <2>. QED
    BY <2>1, TopIs DEF RInv, StepOK, Prior
<1>2. CASE Step.arg \notin globals
  <2>1. Raise /\ UNCHANGED << faults, loads >>
    BY <1>2 DEF UseGlobal
  <2>2. ~InInit
    BY <1>1, <1>2, GlobalsThere
  <2>3. NoFault' => NoFault
    BY <2>1 DEF NoFault
  <2>4. faults' \in Nat
    BY <2>1 DEF RInv, RTypes
  <2>. QED
    BY <1>1, <2>1, <2>2, <2>3, <2>4, RaiseKeeps
<1>3. CASE Step.arg \in globals
  <2>1. Proceed /\ UNCHANGED << loaded, instances, globals, locked, registered, asked, ids >>
    BY <1>3 DEF UseGlobal
  <2>2. \A x : x = Step => StepDone(x)'
    <3>1. \A x : x = Step => x.do = "use"
      BY <1>1
    <3>. QED
      BY <3>1 DEF StepDone
  <2>3. locked' \in BOOLEAN /\ (NoFault /\ InInit /\ locked' => Prior \subseteq globals')
    BY <2>1 DEF RInv, RTypes, Loading
  <2>. QED
    BY <1>1, <2>1, <2>2, <2>3, GoesOnly
<1>. QED
  BY <1>2, <1>3

LEMMA LockStep == ASSUME RInv, LockGlobals PROVE RInv'
<1>1. /\ running # << >> /\ Step.do = "lock" /\ Top.file = "EnvInit" /\ StepsDone("EnvInit", 2)
  <2>1. running # << >> /\ Step.do = "lock"
    BY DEF LockGlobals, Doing
  <2>2. Top.file = "EnvInit" /\ Top.pc = 2 /\ StepsDone(Top.file, Top.pc)
    BY <2>1, TopIs DEF RInv, StepOK
  <2>. QED
    BY <2>1, <2>2
<1>2. /\ locked' = (locked \/ "DISABLE_GLOBAL" \in globals) /\ Proceed
      /\ UNCHANGED << loaded, instances, globals, registered, asked, ids >>
  BY DEF LockGlobals
<1>3. "dd" \in globals
  <2>1. Len(Chunk["EnvInit"]) = 3 /\ Chunk["EnvInit"][1] = Set("dd")
    BY Chunks
  <2>. QED
    BY <1>1, <2>1 DEF StepsDone, StepDone, Set
<1>4. InInit => Prior \subseteq globals
  <2>. SUFFICES ASSUME InInit PROVE Prior \subseteq globals
    OBVIOUS
  <2>1. ASSUME NEW k \in 1 .. 4, StepsDone("init", k), Chunk["init"][k] = Require(Top.name),
               Top.file = FileNamed(Top.name)
        PROVE  StepsDone("init", 4)
    <3>1. /\ Chunk["init"][1] = Require("app.libs.functions") /\ Chunk["init"][2] = Require("app.libs.json")
          /\ Chunk["init"][3] = Require("app.Config")
      BY Chunks DEF initChunk
    <3>2. FileNamed("app.libs.functions") = "functions" /\ FileNamed("app.libs.json") = "json"
          /\ FileNamed("app.Config") = "Config"
      BY FilesOf DEF FileNamed, InitName
    <3>3. k # 1 /\ k # 2 /\ k # 3
      BY <1>1, <2>1, <3>1, <3>2 DEF Require
    <3>4. k = 4
      BY <3>3
    <3>. QED
      BY <2>1, <3>4
  <2>2. StepsDone("init", 5) \/ StepsDone("init", 4)
    BY <1>1, <2>1, InitProgress
  <2>. QED
    BY <1>3, <2>2, EarlierFiles
<1>5. \A x : x = Step => StepDone(x)'
  <2>1. \A x : x = Step => x.do = "lock"
    BY <1>1
  <2>. QED
    BY <2>1 DEF StepDone
<1>6. locked' \in BOOLEAN
  BY <1>2 DEF RInv, RTypes
<1>. QED
  BY <1>1, <1>2, <1>4, <1>5, <1>6, GoesOnly

\* A file is registered, or was already; what it imports is there.
LEMMA RegisterStep == ASSUME RInv, pbc_register PROVE RInv'
<1>. USE DEF RInv
<1>1. PICK b, k : b = Step.arg /\ k = Top.pc
  OBVIOUS
<1>2. /\ running # << >> /\ Step.do = "register" /\ b \in PbFiles
      /\ StepsDone("Proto", k) /\ Chunk["Proto"][k] = Step /\ k \in 4 .. 7
  <2>1. running # << >> /\ Step.do = "register"
    BY DEF pbc_register, Doing
  <2>. QED
    BY <1>1, <2>1, TopIs DEF StepOK
<1>3. /\ Len(Chunk["Proto"]) = 12
      /\ Chunk["Proto"][4] = Register("data") /\ Chunk["Proto"][5] = Register("exceptiontype")
      /\ Chunk["Proto"][6] = Register("cs_dir") /\ Chunk["Proto"][7] = Register("cs_world")
  BY Chunks DEF ProtoChunk
<1>4. Dependencies[b] \subseteq Range(registered)
  <2>1. k = 4 \/ k = 5 \/ k = 6 \/ k = 7
    BY <1>2
  <2>2. k = 4 \/ k = 5 => b \in {"data", "exceptiontype"}
    BY <1>1, <1>2, <1>3 DEF Register
  <2>3. k = 6 \/ k = 7 => "data" \in Range(registered) /\ "exceptiontype" \in Range(registered)
    BY <1>2, <1>3 DEF StepsDone, StepDone, Register
  <2>4. Dependencies["data"] = {} /\ Dependencies["exceptiontype"] = {}
        /\ \A x \in PbFiles : Dependencies[x] \subseteq {"data", "exceptiontype"}
    BY DEF Dependencies, PbFiles
  <2>. QED
    BY <1>2, <2>1, <2>2, <2>3, <2>4
<1>5. /\ registered' = (IF b \in Range(registered) THEN registered ELSE Append(registered, b))
      /\ Proceed /\ UNCHANGED << loaded, instances, globals, locked, ids >>
  <2>1. b \in Range(registered) => CheckFileName(b) = "EXIST"
    BY <1>4 DEF CheckFileName
  <2>2. b \notin Range(registered) => CheckFileName(b) = "OK"
    BY <1>4 DEF CheckFileName
  <2>3. CheckFileName(b) # "DEPENDENCY" /\ (CheckFileName(b) = "EXIST" <=> b \in Range(registered))
    BY <2>1, <2>2
  <2>4. /\ registered' = (IF CheckFileName(b) = "EXIST" THEN registered ELSE Append(registered, b))
        /\ Proceed /\ UNCHANGED << loaded, instances, globals, locked, ids >>
    BY <1>1, <2>3 DEF pbc_register
  <2>. QED
    BY <2>3, <2>4
<1>6. /\ registered' \in Seq(PbFiles) /\ IsInjective(registered')
      /\ Range(registered') = Range(registered) \cup {b}
  <2>1. registered \in Seq(PbFiles) /\ IsInjective(registered)
    BY DEF RTypes, SecondLoadHarmless
  <2>2. CASE b \in Range(registered)
    BY <1>5, <2>1, <2>2
  <2>3. CASE b \notin Range(registered)
    <3>1. registered' = Append(registered, b)
      BY <1>5, <2>3
    <3>2. PICK q \in Seq(PbFiles), m \in Nat : q = registered /\ m = Len(registered)
      BY <2>1
    <3>3. /\ Append(q, b) \in Seq(PbFiles) /\ DOMAIN Append(q, b) = 1 .. m + 1 /\ DOMAIN q = 1 .. m
          /\ Append(q, b)[m + 1] = b /\ \A i \in 1 .. m : Append(q, b)[i] = q[i]
      BY <1>2, <3>2
    <3>4. \A i \in 1 .. m + 1 : i = m + 1 \/ i \in 1 .. m
      OBVIOUS
    <3>5. \A i \in 1 .. m : q[i] # b
      BY <2>3, <3>2, <3>3 DEF Range
    <3>6. IsInjective(Append(q, b))
      BY <2>1, <3>2, <3>3, <3>4, <3>5 DEF IsInjective
    <3>7. Range(Append(q, b)) = Range(q) \cup {b}
      <4>1. m + 1 \in 1 .. m + 1 /\ \A i \in 1 .. m : i \in 1 .. m + 1
        OBVIOUS
      <4>. QED
        BY <3>3, <3>4, <4>1 DEF Range
    <3>. QED
      BY <3>1, <3>2, <3>3, <3>6, <3>7
  <2>. QED
    BY <2>2, <2>3
<1>7. \A x : x = Step => StepDone(x)'
  <2>1. \A x : x = Step => x.do = "register" /\ x.arg \in Range(registered')
    BY <1>1, <1>2, <1>6
  <2>. QED
    BY <2>1 DEF StepDone
<1>8. NoFault /\ InInit /\ locked' => Prior \subseteq globals'
  BY <1>5 DEF Loading
<1>9. Running' /\ Started' /\ LoadedDone' /\ Loading' /\ running' \in Seq(FrameType)
  BY <1>2, <1>5, <1>6, <1>7, <1>8, GoesOn
<1>10. RTypes'
  BY <1>5, <1>6, <1>9 DEF RTypes, Proceed
<1>11. SecondLoadHarmless'
  <2>. SUFFICES ASSUME NEW i \in DOMAIN ids, NEW msg \in Messages, ids[i][msg] # 0
                PROVE  ids[i][msg] = pbc_get_enum_value(msg)' /\ ids[i][msg] > 0
    BY <1>5, <1>6 DEF SecondLoadHarmless
  <2>1. ids[i][msg] = pbc_get_enum_value(msg) /\ ids[i][msg] > 0
    BY DEF SecondLoadHarmless
  <2>2. \E x \in Range(registered) : msg \in Defines[x]
    BY <2>1 DEF pbc_get_enum_value
  <2>3. \E x \in Range(registered') : msg \in Defines[x]
    BY <1>6, <2>2
  <2>. QED
    BY <2>1, <2>2, <2>3 DEF pbc_get_enum_value
<1>. QED
  BY <1>9, <1>10, <1>11

\* There is a table of ids for every instance.
LEMMA InstancesBound == ASSUME RInv PROVE Len(instances) <= Cardinality(Names) + 1
<1>1. PICK k \in Nat, e \in Seq([name : Begun, file : Files]) : e = instances /\ k = Len(instances)
  BY DEF RInv, RTypes
<1>2. \A i \in 1 .. k : e[i].name \in Names \cup {InitName}
  <2>1. \A i \in 1 .. k : e[i] \in [name : Begun, file : Files]
    BY <1>1, ElementOfSeq
  <2>. QED
    BY <2>1 DEF Begun, Names
<1>3. \A i, j \in 1 .. k : e[i].name = e[j].name => i = j
  BY <1>1 DEF RInv, Started
<1>. DEFINE g == [i \in 1 .. k |-> e[i].name]
<1>4. g \in Injection(1 .. k, Names \cup {InitName})
  BY <1>2, <1>3 DEF Injection, IsInjective
<1>5. IsFiniteSet(Names \cup {InitName}) /\ Cardinality(Names \cup {InitName}) <= Cardinality(Names) + 1
      /\ Cardinality(Names \cup {InitName}) \in Nat
  <2>1. /\ IsFiniteSet(Names \cup {InitName})
        /\ Cardinality(Names \cup {InitName}) =
             IF InitName \in Names THEN Cardinality(Names) ELSE Cardinality(Names) + 1
    BY NamesCount, FS_AddElement
  <2>. QED
    BY <2>1, NamesCount
<1>6. Cardinality(1 .. k) <= Cardinality(Names \cup {InitName})
  <2>. HIDE DEF g
  <2>. QED
    BY <1>4, <1>5, FS_Injection
<1>7. Cardinality(1 .. k) = k
  <2>1. Cardinality(1 .. k) = IF 1 > k THEN 0 ELSE k - 1 + 1
    BY FS_Interval
  <2>. QED
    BY <2>1
<1>. QED
  BY <1>1, <1>5, <1>6, <1>7, NamesCount

\* When a name is looked up every .pb file is registered.
LEMMA AllRegistered ==
  ASSUME RInv, running # << >>, Step.do = "lookup"
  PROVE  PbFiles \subseteq Range(registered)
<1>1. /\ Len(Chunk["Proto"]) = 12
      /\ Chunk["Proto"][4] = Register("data") /\ Chunk["Proto"][5] = Register("exceptiontype")
      /\ Chunk["Proto"][6] = Register("cs_dir") /\ Chunk["Proto"][7] = Register("cs_world")
  BY Chunks DEF ProtoChunk
<1>2. /\ StepsDone(Top.file, Top.pc) /\ Top.pc \in Nat
      /\ ((Top.file = "Proto" /\ Top.pc > 7) \/ (Top.file = "Pumper" /\ Top.pc > 1))
  BY TopIs DEF RInv, StepOK, FrameType
<1>3. \E n \in Nat : n > 7 /\ StepsDone("Proto", n)
  <2>1. CASE Top.file = "Proto" /\ Top.pc > 7
    BY <1>2, <2>1
  <2>2. CASE Top.file = "Pumper" /\ Top.pc > 1
    <3>1. Chunk["Pumper"][1] = Require("app.proto") /\ Len(Chunk["Pumper"]) = 7
      BY Chunks DEF PumperChunk
    <3>2. Ready("app.proto")
      BY <1>2, <2>2, <3>1 DEF StepsDone, StepDone, Require
    <3>3. StepsDone("Proto", 12)
      <4>1. "app.proto" \in DOMAIN FileOf /\ FileOf["app.proto"] = "Proto"
        BY FilesOf
      <4>2. StepsDone(FileOf["app.proto"], Len(Chunk[FileOf["app.proto"]]))
        BY <3>2, <4>1 DEF RInv, LoadedDone
      <4>. QED
        BY <1>1, <4>1, <4>2
    <3>. QED
      BY <3>3
  <2>. QED
    BY <1>2, <2>1, <2>2
<1>4. /\ "data" \in Range(registered) /\ "exceptiontype" \in Range(registered)
      /\ "cs_dir" \in Range(registered) /\ "cs_world" \in Range(registered)
  BY <1>1, <1>3 DEF StepsDone, StepDone, Register
<1>. QED
  BY <1>4 DEF PbFiles, Dependencies

LEMMA IdsKnown ==
  ASSUME PbFiles \subseteq Range(registered)
  PROVE  \A msg \in Messages : pbc_get_enum_value(msg) \in 1 .. 4
<1>1. \A msg \in Messages : \E b \in PbFiles : msg \in Defines[b]
  <2>1. /\ "cs_dir" \in PbFiles /\ "cs_world" \in PbFiles
        /\ Defines["cs_dir"] = {"RequestWorldList", "ResponseWorldList"}
        /\ Defines["cs_world"] = {"RequestLogin", "ResponseLogin"}
    BY DEF PbFiles, Dependencies, Defines
  <2>. QED
    BY <2>1 DEF Messages
<1>2. \A msg \in Messages : pbc_get_enum_value(msg) = MessageId(msg)
  BY <1>1 DEF pbc_get_enum_value, MessageId
<1>. QED
  BY <1>2, MessageIds

LEMMA LookupStep == ASSUME RInv, toID PROVE RInv'
<1>. USE DEF RInv
<1>1. PICK msg, n, id : /\ msg = Step.arg /\ n = Instance
                        /\ id = IF ids[n][msg] # 0 THEN ids[n][msg] ELSE pbc_get_enum_value(msg)
  OBVIOUS
<1>2. running # << >> /\ Step.do = "lookup" /\ msg \in Messages
  <2>1. running # << >> /\ Step.do = "lookup"
    BY DEF toID, Doing
  <2>. QED
    BY <1>1, <2>1, TopIs DEF StepOK
<1>3. pbc_get_enum_value(msg) \in 1 .. 4
  BY <1>2, AllRegistered, IdsKnown
<1>4. n \in DOMAIN ids => id = pbc_get_enum_value(msg)
  BY <1>1, <1>2 DEF SecondLoadHarmless
<1>5. cacheable(id)
  <2>. SUFFICES ASSUME Top.file = "Proto" PROVE id > 0
    BY DEF cacheable
  <2>1. Top.instance \in 1 .. Len(instances) /\ n = Top.instance
    BY <1>1, <1>2, TopIs DEF Instance, FrameOK
  <2>2. n \in DOMAIN ids
    <3>1. \A a, b, c \in Nat : a \in 1 .. b /\ b <= c + 1 => a \in 1 .. c + 1
      OBVIOUS
    <3>2. Len(instances) \in Nat /\ n \in Nat
      BY <2>1 DEF RTypes
    <3>. QED
      BY <2>1, <3>1, <3>2, InstancesBound, NamesCount DEF RTypes
  <2>. QED
    BY <1>3, <1>4, <2>2
<1>6. /\ ids' = [ids EXCEPT ![n] = [@ EXCEPT ![msg] = id]] /\ Proceed
      /\ UNCHANGED << loaded, instances, globals, locked, registered, asked >>
  BY <1>1, <1>5 DEF toID
<1>7. \A x : x = Step => StepDone(x)'
  <2>1. \A x : x = Step => x.do = "lookup"
    BY <1>2
  <2>. QED
    BY <2>1 DEF StepDone
<1>8. NoFault /\ InInit /\ locked' => Prior \subseteq globals'
  BY <1>6 DEF Loading
<1>9. Running' /\ Started' /\ LoadedDone' /\ Loading' /\ running' \in Seq(FrameType)
  BY <1>2, <1>6, <1>7, <1>8, GoesOn
<1>10. /\ ids' \in [1 .. Cardinality(Names) + 1 -> [Messages -> Int]]
       /\ \A i \in DOMAIN ids, m \in Messages :
            ids'[i][m] = IF i = n /\ m = msg THEN id ELSE ids[i][m]
  <2>1. ids \in [1 .. Cardinality(Names) + 1 -> [Messages -> Int]]
    BY DEF RTypes
  <2>2. CASE n \in DOMAIN ids
    <3>1. id \in Int /\ ids[n] \in [Messages -> Int]
      BY <1>3, <1>4, <2>1, <2>2
    <3>2. PICK e : e = [ids[n] EXCEPT ![msg] = id]
      OBVIOUS
    <3>3. e \in [Messages -> Int] /\ \A m \in Messages : e[m] = IF m = msg THEN id ELSE ids[n][m]
      BY <1>2, <3>1, <3>2
    <3>4. ids' = [ids EXCEPT ![n] = e]
      BY <1>6, <2>2, <3>2
    <3>. QED
      BY <2>1, <2>2, <3>3, <3>4
  <2>3. CASE n \notin DOMAIN ids
    <3>1. ids' = ids
      BY <1>6, <2>1, <2>3
    <3>. QED
      BY <2>1, <2>3, <3>1
  <2>. QED
    BY <2>2, <2>3
<1>11. RTypes'
  BY <1>6, <1>9, <1>10 DEF RTypes, Proceed
<1>12. SecondLoadHarmless'
  <2>1. \A m : pbc_get_enum_value(m)' = pbc_get_enum_value(m)
    BY <1>6 DEF pbc_get_enum_value
  <2>2. IsInjective(registered')
    BY <1>6 DEF SecondLoadHarmless
  <2>3. DOMAIN ids' = DOMAIN ids
    BY <1>10 DEF RTypes
  <2>4. \A i \in DOMAIN ids, m \in Messages :
          ids'[i][m] # 0 => ids'[i][m] = pbc_get_enum_value(m) /\ ids'[i][m] > 0
    BY <1>3, <1>4, <1>10 DEF SecondLoadHarmless
  <2>. QED
    BY <2>1, <2>2, <2>3, <2>4 DEF SecondLoadHarmless
<1>. QED
  BY <1>9, <1>11, <1>12

\* A file that cannot be read ends the loading.
LEMMA FaultStep == ASSUME RInv, Fault PROVE RInv'
<1>1. running # << >> /\ faults' = faults + 1 /\ Raise /\ loads' = loads
  BY DEF Fault
<1>2. faults' \in Nat /\ faults' # 0
  BY <1>1 DEF RInv, RTypes
<1>3. ~NoFault'
  BY <1>2 DEF NoFault
<1>. QED
  BY <1>1, <1>2, <1>3, RaiseKeeps

LEMMA InitStep == ASSUME RInv, runInitChunk PROVE RInv'
<1>. USE DEF RInv
<1>1. PICK x, s : x = Frame(InitName, "init") /\ s = running'
  OBVIOUS
<1>2. /\ s = << x >> /\ instances' = Append(instances, [name |-> InitName, file |-> "init"])
      /\ running = << >> /\ loads = 0 /\ loads' = 1
      /\ UNCHANGED << loaded, globals, locked, registered, asked, ids, failed, faults >>
  BY <1>1 DEF runInitChunk, InitName
<1>3. ~locked /\ \A n \in DOMAIN FileOf : loaded[n] = Nil
  BY <1>2 DEF Started
<1>4. Len(instances) = 0
  <2>. SUFFICES ASSUME Len(instances) # 0 PROVE FALSE
    OBVIOUS
  <2>1. Len(instances) \in Nat
    BY DEF RTypes
  <2>2. 1 \in 1 .. Len(instances)
    BY <2>1
  <2>3. instances[1].name \in Begun
    <3>1. PICK e \in Seq([name : Begun, file : Files]) : e = instances
      BY DEF RTypes
    <3>2. e[1] \in [name : Begun, file : Files]
      BY <2>2, <3>1, ElementOfSeq
    <3>. QED
      BY <3>1, <3>2
  <2>. QED
    BY <1>2, <1>3, <2>2, <2>3 DEF Started, Begun
<1>5. /\ Len(instances') = 1 /\ instances'[1].name = InitName
      /\ instances' \in Seq([name : Begun, file : Files])
  BY <1>2, <1>4, Chunks DEF RTypes, Begun
<1>6. x.name = InitName /\ x.file = "init" /\ x.pc = 1 /\ x.instance = 1 /\ x \in FrameType
  BY <1>1, <1>4, Chunks DEF Frame, FrameType, Begun
<1>7. s \in Seq(FrameType) /\ Len(s) = 1 /\ s[1] = x
  BY <1>2, <1>6
<1>8. RTypes'
  BY <1>1, <1>2, <1>5, <1>7 DEF RTypes
<1>9. FrameOK(x)'
  <2>1. 1 \in 1 .. Len(Chunk["init"])
    BY Chunks DEF initChunk
  <2>. QED
    BY <1>2, <1>5, <1>6, <2>1 DEF FrameOK, FileNamed
<1>10. StackOK(s)'
  <2>1. StepsDone(x.file, x.pc)'
    BY <1>6 DEF StepsDone
  <2>2. \A i \in 1 .. Len(s) : i = 1
    BY <1>7
  <2>. QED
    BY <1>7, <1>9, <2>1, <2>2 DEF StackOK
<1>11. Running'
  BY <1>1, <1>10 DEF Running
<1>12. Started'
  <2>1. \A i \in 1 .. Len(instances') : i = 1
    BY <1>5
  <2>2. Ready("protobuf.c")' /\ "protobuf" \in globals'
    BY <1>2 DEF Started, Ready
  <2>. QED
    BY <1>2, <1>5, <2>1, <2>2 DEF Started
<1>13. LoadedDone'
  BY <1>2 DEF LoadedDone, Ready, StepsDone, StepDone
<1>14. Loading'
  <2>1. \A n \in DOMAIN FileOf : loaded'[n] # Sentinel
    BY <1>2, <1>3 DEF Nil, Sentinel
  <2>. QED
    BY <1>2, <1>3, <2>1 DEF Loading, NoFault
<1>15. SecondLoadHarmless'
  BY <1>2 DEF SecondLoadHarmless, pbc_get_enum_value
<1>. QED
  BY <1>8, <1>11, <1>12, <1>13, <1>14, <1>15

LEMMA OutsideStep ==
  ASSUME RInv, NEW n, RequireFromOutside(n) PROVE RInv'
<1>1. /\ running = << >> /\ loaded[n] = Nil /\ n \in DOMAIN FileOf /\ Start(n, << >>)
      /\ loads' = loads + 1 /\ UNCHANGED << globals, locked, registered, asked, ids, failed, faults >>
  BY DEF RequireFromOutside, Found
<1>2. loads' \in Nat \ {0}
  BY <1>1 DEF RInv, RTypes
<1>3. PICK r \in Seq(FrameType) : r = << >>
  <2>. << >> \in Seq(FrameType)
    OBVIOUS
  <2>. QED
    OBVIOUS
<1>4. Start(n, r)
  BY <1>1, <1>3
<1>5. \A i : i \notin 1 .. Len(r)
  BY <1>3
<1>6. /\ \A i \in 1 .. Len(r) :
           /\ FrameOK(r[i]) /\ (i # 1 => r[i].name # InitName)
           /\ StepsDone(r[i].file, r[i].pc - 1) /\ r[i].pc > 1
           /\ Chunk[r[i].file][r[i].pc - 1] = Require(IF i = Len(r) THEN n ELSE r[i + 1].name)
           /\ Rank(r[i].file) < Rank(FileOf[n])
      /\ \A i, j \in 1 .. Len(r) : i < j => Rank(r[i].file) < Rank(r[j].file)
      /\ \A i \in 1 .. Len(r) : r[i].name = running[i].name
  BY <1>5
<1>. QED
  BY <1>1, <1>2, <1>3, <1>4, <1>6, Begins

--------------------------------------------------------------------------------
(* The theorem *)

LEMMA ModulesBegin == ASSUME ModulesInit PROVE RInv
<1>1. /\ \A n \in Names : loaded[n] = IF n = "protobuf.c" THEN True ELSE Nil
      /\ running = << >> /\ instances = << >> /\ globals = {"protobuf"} /\ locked = FALSE
      /\ registered = << >> /\ failed = FALSE /\ faults = 0 /\ loads = 0
      /\ ids = [i \in 1 .. Cardinality(Names) + 1 |-> [msg \in Messages |-> 0]]
      /\ loaded \in [Names -> Int]
  BY DEF ModulesInit, True, Nil
<1>2. \A n \in DOMAIN FileOf : n \in Names /\ n # "protobuf.c" /\ loaded[n] = Nil /\ ~Ready(n)
  <2>1. \A n \in DOMAIN FileOf : n # "protobuf.c"
    BY FilesOf
  <2>. QED
    BY <1>1, <2>1 DEF Names, Ready
<1>3. RTypes
  <2>1. << >> \in Seq(FrameType) /\ << >> \in Seq([name : Begun, file : Files]) /\ << >> \in Seq(PbFiles)
    OBVIOUS
  <2>2. ids \in [1 .. Cardinality(Names) + 1 -> [Messages -> Int]]
    <3>1. \A S : [i \in S |-> [msg \in Messages |-> 0]] \in [S -> [Messages -> Int]]
      OBVIOUS
    <3>. QED
      BY <1>1, <3>1, Zenon
  <2>3. instances \in Seq([name : Begun, file : Files]) /\ registered \in Seq(PbFiles)
    BY <1>1, <2>1
  <2>. QED
    BY <1>1, <2>1, <2>2, <2>3 DEF RTypes
<1>4. Running
  <2>. Len(running) = 0
    BY <1>1
  <2>. QED
    BY DEF Running, StackOK
<1>5. Started
  <2>1. Len(instances) = 0
    BY <1>1
  <2>2. Ready("protobuf.c")
    BY <1>1 DEF Ready, Names, True, Nil, Sentinel
  <2>. QED
    BY <1>1, <1>2, <2>1, <2>2 DEF Started
<1>6. LoadedDone
  BY <1>2 DEF LoadedDone
<1>7. Loading
  BY <1>1 DEF Loading, InInit
<1>8. SecondLoadHarmless
  BY <1>1 DEF SecondLoadHarmless, IsInjective
<1>. QED
  BY <1>3, <1>4, <1>5, <1>6, <1>7, <1>8 DEF RInv

LEMMA ModulesStep == ASSUME RInv, [ModulesNext]_modulesVars PROVE RInv'
<1>1. CASE ll_require
  BY <1>1, RequireStep
<1>2. CASE return
  BY <1>2, Ends
<1>3. CASE SetGlobal
  BY <1>3, SetStep
<1>4. CASE UseGlobal
  BY <1>4, UseStep
<1>5. CASE LockGlobals
  BY <1>5, LockStep
<1>6. CASE pbc_register
  BY <1>6, RegisterStep
<1>7. CASE toID
  BY <1>7, LookupStep
<1>8. CASE Fault
  BY <1>8, FaultStep
<1>9. CASE runInitChunk
  BY <1>9, InitStep
<1>10. ASSUME NEW n \in Entries, RequireFromOutside(n) PROVE RInv'
  BY <1>10, OutsideStep
<1>11. CASE UNCHANGED modulesVars
  <2>1. UNCHANGED << loaded, running, instances, globals, locked, registered, ids, failed, faults, loads >>
    BY <1>11 DEF modulesVars
  <2>2. RTypes'
    BY <2>1 DEF RInv, RTypes
  <2>3. Running'
    <3>1. \A f, k : StepsDone(f, k) => StepsDone(f, k)'
      BY <2>1 DEF StepsDone, StepDone, Ready
    <3>2. \A r : FrameOK(r) => FrameOK(r)'
      BY <2>1 DEF FrameOK
    <3>3. StackOK(running) /\ running' = running
      BY <2>1 DEF RInv, Running
    <3>. QED
      BY <3>1, <3>2, <3>3 DEF Running, StackOK
  <2>4. Started'
    BY <2>1 DEF RInv, Started, Ready
  <2>5. LoadedDone'
    BY <2>1 DEF RInv, LoadedDone, StepsDone, StepDone, Ready
  <2>6. Loading'
    BY <2>1 DEF RInv, Loading, NoFault, InInit
  <2>7. SecondLoadHarmless'
    BY <2>1 DEF RInv, SecondLoadHarmless, pbc_get_enum_value
  <2>. QED
    BY <2>2, <2>3, <2>4, <2>5, <2>6, <2>7 DEF RInv
<1>. QED
  BY <1>1, <1>2, <1>3, <1>4, <1>5, <1>6, <1>7, <1>8, <1>9, <1>10, <1>11 DEF ModulesNext

LEMMA ModulesGood == ASSUME RInv PROVE ModulesSound
<1>1. InitLoads
  BY DEF RInv, Loading, NoFault, InitLoads, RTypes
<1>2. LoadedOnce
  <2>1. ASSUME NEW r \in Range(running), r.file # "init" PROVE loaded[r.name] = Sentinel
    <3>1. PICK i \in 1 .. Len(running) : r = running[i]
      BY DEF RInv, RTypes, Range
    <3>. QED
      BY <2>1, <3>1 DEF RInv, Running, StackOK, FrameOK, FileNamed
  <2>2. DOMAIN instances = 1 .. Len(instances)
    BY DEF RInv, RTypes
  <2>. QED
    BY <2>1, <2>2 DEF RInv, Started, LoadedOnce
<1>. QED
  BY <1>1, <1>2 DEF ModulesSound, RInv

\* Whatever modules are required from outside, however often and however many files cannot
\* be read: app/init.lua loads when they all can, no module is loaded twice under its name
\* or used half-loaded, and every instance of Proto has the ids that pbc has.
THEOREM ModulesLoadSoundly == ModulesSpec => []ModulesSound
<1>1. ModulesInit => RInv
  BY ModulesBegin
<1>2. RInv /\ [ModulesNext]_modulesVars => RInv'
  BY ModulesStep
<1>3. RInv => ModulesSound
  BY ModulesGood
<1>. QED
  BY <1>1, <1>2, <1>3, PTL DEF ModulesSpec

--------------------------------------------------------------------------------
(* Protobuf: what a table holds is what its buffer says *)

Raws == UNION {[D -> Seq(Nat)] : D \in SUBSET AllFields}
Table == [meta : {"lazy", "plain", "message"}, type : DOMAIN Schema, held : BOOLEAN,
          raw : Raws, from : Buffers]
Heaps == Seq(Table)

LEMMA RawsAre ==
  ASSUME NEW raw
  PROVE  raw \in Raws <=> \E D \in SUBSET AllFields : raw \in [D -> Seq(Nat)]
BY DEF Raws

LEMMA NoFieldsIs == NoFields \in Raws /\ DOMAIN NoFields = {}
<1>1. NoFields \in [{} -> Seq(Nat)] /\ {} \in SUBSET AllFields
  BY DEF NoFields
<1>. QED
  BY <1>1, RawsAre

LEMMA SchemaIs ==
  ASSUME NEW type \in DOMAIN Schema, NEW f \in DOMAIN Schema[type]
  PROVE  /\ f \in AllFields
         /\ Schema[type][f].rep \in BOOLEAN
         /\ Schema[type][f].msg # "none" => Schema[type][f].msg \in DOMAIN Schema
BY ProtobufAssumption DEF AllFields

\* What new fields have of old ones when v was stored as f.
StoredAs(new, raw, f, rep, v) ==
  /\ DOMAIN new = DOMAIN raw \cup {f}
  /\ \A x \in DOMAIN raw : raw[x] \in Seq(Nat) /\ (x # f => new[x] = raw[x])
  /\ new[f] = IF rep /\ f \in DOMAIN raw THEN Append(raw[f], v) ELSE << v >>

LEMMA StoredIs ==
  ASSUME NEW raw \in Raws, NEW f \in AllFields, NEW rep \in BOOLEAN, NEW v \in Nat
  PROVE  Stored(raw, f, rep, v) \in Raws /\ StoredAs(Stored(raw, f, rep, v), raw, f, rep, v)
<1>. DEFINE s == Stored(raw, f, rep, v)
            new == IF rep /\ f \in DOMAIN raw THEN Append(raw[f], v) ELSE << v >>
<1>1. PICK D \in SUBSET AllFields : raw \in [D -> Seq(Nat)]
  BY RawsAre
<1>2. DOMAIN raw = D
  BY <1>1
<1>3. new \in Seq(Nat)
  BY <1>1, <1>2
<1>4. s = [x \in D \cup {f} |-> IF x # f THEN raw[x] ELSE new]
  BY <1>2 DEF Stored
<1>. HIDE DEF s, new
<1>5. s \in [D \cup {f} -> Seq(Nat)]
  BY <1>1, <1>3, <1>4
<1>6. s \in Raws
  BY <1>5, RawsAre
<1>. QED
  BY <1>1, <1>2, <1>4, <1>6 DEF s, new, StoredAs

\* What a field of the buffer does to the tables.
FieldStored(g, h, t, a) ==
  LET fields == Schema[h[t].type]
      msg == fields[a.f].msg
  IN /\ a.f \notin DOMAIN fields => g = h
     /\ a.f \in DOMAIN fields =>
          /\ Len(g) = IF msg = "none" THEN Len(h) ELSE Len(h) + 1
          /\ \A j \in 1 .. Len(h) : j # t => g[j] = h[j]
          /\ g[t] = [h[t] EXCEPT !.raw = Stored(h[t].raw, a.f, fields[a.f].rep,
                                                IF msg = "none" THEN a.v ELSE Len(h) + 1)]
          /\ msg # "none" => g[Len(h) + 1] = decode_message_cb(msg, a.b)

LEMMA FieldIs ==
  ASSUME NEW h \in Heaps, NEW t \in 1 .. Len(h), NEW a \in Fields
  PROVE  decode_cb(h, t, a) \in Heaps /\ FieldStored(decode_cb(h, t, a), h, t, a)
<1>. DEFINE fields == Schema[h[t].type]
            field == fields[a.f]
            msg == field.msg
            n == Len(h) + 1
            e == IF msg # "none" THEN Append(h, decode_message_cb(msg, a.b)) ELSE h
            g == decode_cb(h, t, a)
<1>0. h[t] \in Table /\ h[t].raw \in Raws /\ h[t].type \in DOMAIN Schema /\ n \in Nat /\ Len(h) \in Nat
  <2>1. h \in Seq(Table) /\ h[t] \in Table /\ Len(h) \in Nat
    BY DEF Heaps
  <2>. QED
    BY <2>1 DEF Table
<1>1. CASE a.f \notin DOMAIN fields
  <2>1. g = h
    BY <1>1 DEF decode_cb
  <2>. QED
    BY <1>1, <2>1 DEF FieldStored
<1>2. CASE a.f \in DOMAIN fields
  <2>. DEFINE new == Stored(h[t].raw, a.f, field.rep, IF msg # "none" THEN Len(e) ELSE a.v)
  <2>1. field.rep \in BOOLEAN /\ a.f \in AllFields /\ (msg # "none" => msg \in DOMAIN Schema)
    BY <1>0, <1>2, SchemaIs
  <2>2. msg # "none" => decode_message_cb(msg, a.b) \in Table
    BY <2>1, NoFieldsIs DEF decode_message_cb, Table, Fields
  <2>3. e \in Heaps /\ Len(e) = IF msg = "none" THEN Len(h) ELSE n
    BY <2>2 DEF Heaps
  <2>4. \A j \in 1 .. Len(h) : e[j] = h[j]
    BY <2>2 DEF Heaps
  <2>5. msg # "none" => e[n] = decode_message_cb(msg, a.b)
    BY <2>2 DEF Heaps
  <2>6. a.v \in Nat /\ Len(e) \in Nat
    BY <2>3 DEF Fields, Heaps
  <2>7. g = [e EXCEPT ![t].raw = Stored(@, a.f, field.rep, IF msg # "none" THEN Len(e) ELSE a.v)]
    BY <1>2, Zenon DEF decode_cb
  <2>. HIDE DEF e
  <2>8. e[t] = h[t] /\ t \in 1 .. Len(e)
    BY <1>0, <2>3, <2>4
  <2>9. g = [e EXCEPT ![t] = [h[t] EXCEPT !.raw = new]]
    BY <2>3, <2>7, <2>8 DEF Heaps
  <2>10. new \in Raws
    BY <1>0, <2>1, <2>6, StoredIs
  <2>. HIDE DEF new, g
  <2>11. [h[t] EXCEPT !.raw = new] \in Table
    BY <1>0, <2>10 DEF Table
  <2>12. g \in Heaps /\ Len(g) = Len(e) /\ g[t] = [h[t] EXCEPT !.raw = new]
    BY <2>3, <2>8, <2>9, <2>11 DEF Heaps
  <2>13. \A j \in 1 .. Len(e) : j # t => g[j] = e[j]
    BY <2>3, <2>9 DEF Heaps
  <2>14. new = Stored(h[t].raw, a.f, field.rep, IF msg = "none" THEN a.v ELSE n)
    BY <2>3 DEF new
  <2>15. msg # "none" => n \in 1 .. Len(e) /\ n # t
    BY <1>0, <2>3
  <2>16. \A j \in 1 .. Len(h) : j \in 1 .. Len(e)
    BY <1>0, <2>3
  <2>. QED
    BY <1>0, <1>2, <2>3, <2>4, <2>5, <2>12, <2>13, <2>14, <2>15, <2>16 DEF g, FieldStored
<1>. QED
  BY <1>1, <1>2

--------------------------------------------------------------------------------

\* The fields with a name among the first k of a buffer.
LEMMA SentIs ==
  ASSUME NEW b \in Seq(Fields), NEW f
  PROVE  LET s == SentUpto(b, f) IN
           /\ s[0] = << >>
           /\ \A k \in Nat : /\ s[k] \in Seq(Fields)
                             /\ k + 1 \in DOMAIN b => s[k + 1] = IF b[k + 1].f = f THEN Append(s[k], b[k + 1]) ELSE s[k]
<1>. DEFINE After(k, x) == IF k + 1 \in DOMAIN b /\ b[k + 1].f = f THEN Append(x, b[k + 1]) ELSE x
            step == [p \in Nat \X Seq(Fields) |-> After(p[1], p[2])]
            s == SentUpto(b, f)
<1>1. \A k \in Nat, x \in Seq(Fields) : After(k, x) \in Seq(Fields)
  <2>. TAKE k \in Nat, x \in Seq(Fields)
  <2>1. k + 1 \in DOMAIN b => b[k + 1] \in Fields
    OBVIOUS
  <2>. QED
    BY <2>1
<1>2. PICK g \in [Nat -> Seq(Fields)] : Follows(g, << >>, step)
  <2>1. << >> \in Seq(Fields) /\ step \in [Nat \X Seq(Fields) -> Seq(Fields)]
    BY <1>1
  <2>. HIDE DEF step
  <2>. QED
    BY <2>1, Recursion, Zenon
<1>3. \A k \in Nat : g[k + 1] = After(k, g[k])
  <2>. TAKE k \in Nat
  <2>1. << k, g[k] >> \in Nat \X Seq(Fields)
    BY <1>2
  <2>. QED
    BY <1>2, <2>1 DEF Follows
<1>4. g = [n \in Nat |-> IF n = 0 THEN << >>
                         ELSE IF n \in DOMAIN b /\ b[n].f = f THEN Append(g[n - 1], b[n]) ELSE g[n - 1]]
  <2>1. \A n \in Nat : g[n] = IF n = 0 THEN << >>
                              ELSE IF n \in DOMAIN b /\ b[n].f = f THEN Append(g[n - 1], b[n]) ELSE g[n - 1]
    <3>. TAKE n \in Nat
    <3>1. CASE n = 0
      BY <1>2, <3>1 DEF Follows
    <3>2. CASE n # 0
      <4>1. n - 1 \in Nat /\ n = (n - 1) + 1
        BY <3>2
      <4>2. g[n] = After(n - 1, g[n - 1])
        BY <1>3, <4>1
      <4>. QED
        BY <3>2, <4>1, <4>2
    <3>. QED
      BY <3>1, <3>2
  <2>. QED
    BY <1>2, <2>1
<1>5. s = [n \in Nat |-> IF n = 0 THEN << >>
                         ELSE IF n \in DOMAIN b /\ b[n].f = f THEN Append(s[n - 1], b[n]) ELSE s[n - 1]]
  <2>. DEFINE Is(r) == r = [n \in Nat |-> IF n = 0 THEN << >>
                         ELSE IF n \in DOMAIN b /\ b[n].f = f THEN Append(r[n - 1], b[n]) ELSE r[n - 1]]
  <2>1. Is(g)
    BY <1>4
  <2>2. s = CHOOSE r : Is(r)
    BY Zenon DEF SentUpto
  <2>. HIDE DEF Is, s
  <2>3. Is(s)
    BY <2>1, <2>2
  <2>. QED
    BY <2>3 DEF Is
<1>. HIDE DEF s
<1>6. s[0] = << >> /\ \A k \in Nat : s[k + 1] = After(k, s[k])
  <2>1. s[0] = << >>
    BY <1>5
  <2>2. ASSUME NEW k \in Nat PROVE s[k + 1] = After(k, s[k])
    <3>1. k + 1 \in Nat /\ k + 1 # 0 /\ (k + 1) - 1 = k
      OBVIOUS
    <3>. QED
      BY <1>5, <3>1
  <2>. QED
    BY <2>1, <2>2
<1>. HIDE DEF After
<1>. DEFINE T == {k \in Nat : s[k] \in Seq(Fields)}
<1>7. T = Nat
  <2>0. << >> \in Seq(Fields)
    OBVIOUS
  <2>1. s[0] \in Seq(Fields)
    BY <1>6, <2>0, Zenon
  <2>2. 0 \in T
    BY <2>1
  <2>3. ASSUME NEW k \in Nat, s[k] \in Seq(Fields) PROVE s[k + 1] \in Seq(Fields)
    BY <1>1, <1>6, <2>3, Zenon
  <2>4. \A k \in T : k + 1 \in T
    BY <2>3
  <2>5. T \subseteq Nat
    OBVIOUS
  <2>. HIDE DEF T
  <2>. QED
    BY <2>2, <2>4, <2>5, Induction
<1>8. \A k \in Nat : s[k] \in Seq(Fields)
  BY <1>7
<1>. QED
  BY <1>6, <1>8 DEF s, After

\* What the callbacks were told is a beginning of the buffer.
LEMMA DeliveredIs ==
  ASSUME NEW b \in Buffers
  PROVE  /\ b \in Seq(Fields) /\ Delivered(b) \in Seq(Fields)
         /\ Good(b) => Delivered(b) = b
<1>1. b \in Seq(Fields)
  BY ProtobufAssumption
<1>2. CASE ~Opens(b)
  BY <1>1, <1>2 DEF Delivered, Good
<1>3. CASE Opens(b) /\ Wrong(b) = {}
  BY <1>1, <1>3 DEF Delivered
<1>4. CASE Opens(b) /\ Wrong(b) # {}
  <2>. DEFINE m == CHOOSE i \in Wrong(b) : \A j \in Wrong(b) : i <= j
  <2>1. Wrong(b) \subseteq 1 .. Len(b) /\ Wrong(b) \subseteq Nat
    BY <1>1 DEF Wrong
  <2>2. \E i \in Wrong(b) : \A j \in Wrong(b) : i <= j
    BY <1>4, <2>1, LeastNumber
  <2>3. m \in Wrong(b)
    BY <2>2
  <2>4. Delivered(b) = SubSeq(b, 1, m - 1)
    BY <1>4 DEF Delivered
  <2>. HIDE DEF m
  <2>5. m \in 1 .. Len(b)
    BY <2>1, <2>3
  <2>6. \A i \in 1 .. m - 1 : b[i] \in Fields
    BY <1>1, <2>5
  <2>. QED
    BY <1>1, <1>4, <2>4, <2>5, <2>6, SubSeqProperties DEF Good
<1>. QED
  BY <1>1, <1>2, <1>3, <1>4

\* Decoding takes one field after the other.
LEMMA DecodeIs ==
  ASSUME NEW h \in Heaps, NEW t \in 1 .. Len(h), NEW b \in Buffers
  PROVE  \E G \in [Nat -> {g \in Heaps : t \in 1 .. Len(g)}] :
           /\ G[0] = h
           /\ \A k \in 0 .. Len(Delivered(b)) - 1 : G[k + 1] = decode_cb(G[k], t, Delivered(b)[k + 1])
           /\ _decode(h, t, b) = G[Len(Delivered(b))]
<1>. DEFINE D == Delivered(b)
            S == {g \in Heaps : t \in 1 .. Len(g)}
            After(k, x) == IF k + 1 \in DOMAIN D THEN decode_cb(x, t, D[k + 1]) ELSE x
            step == [p \in Nat \X S |-> After(p[1], p[2])]
<1>0. D \in Seq(Fields) /\ Len(D) \in Nat /\ DOMAIN D = 1 .. Len(D)
  BY DeliveredIs
<1>1. \A k \in Nat, x \in S : After(k, x) \in S
  <2>. TAKE k \in Nat, x \in S
  <2>1. CASE k + 1 \in DOMAIN D
    <3>. DEFINE a == D[k + 1]
                g == decode_cb(x, t, a)
    <3>1. a \in Fields /\ x \in Heaps /\ t \in 1 .. Len(x) /\ Len(x) \in Nat
      BY <1>0, <2>1 DEF Heaps
    <3>. HIDE DEF a
    <3>2. g \in Heaps /\ FieldStored(g, x, t, a)
      BY <3>1, FieldIs
    <3>. HIDE DEF g
    <3>3. g = x \/ Len(g) = Len(x) \/ Len(g) = Len(x) + 1
      BY <3>2 DEF FieldStored
    <3>. QED
      BY <2>1, <3>1, <3>2, <3>3 DEF a, g
  <2>. QED
    BY <2>1
<1>2. PICK g \in [Nat -> S] : Follows(g, h, step)
  <2>1. h \in S /\ step \in [Nat \X S -> S]
    BY <1>1
  <2>. HIDE DEF step, S
  <2>. QED
    BY <2>1, Recursion, Zenon
<1>3. \A k \in Nat : g[k + 1] = After(k, g[k])
  <2>. TAKE k \in Nat
  <2>1. << k, g[k] >> \in Nat \X S
    BY <1>2
  <2>. HIDE DEF S
  <2>. QED
    BY <1>2, <2>1 DEF Follows
<1>4. g = [n \in Nat |-> IF n = 0 THEN h ELSE IF n \in DOMAIN D THEN decode_cb(g[n - 1], t, D[n]) ELSE g[n - 1]]
  <2>. HIDE DEF D, S
  <2>1. \A n \in Nat : g[n] = IF n = 0 THEN h
                              ELSE IF n \in DOMAIN D THEN decode_cb(g[n - 1], t, D[n]) ELSE g[n - 1]
    <3>. TAKE n \in Nat
    <3>1. CASE n = 0
      BY <1>2, <3>1 DEF Follows
    <3>2. CASE n # 0
      <4>1. n - 1 \in Nat /\ n = (n - 1) + 1
        BY <3>2
      <4>2. g[n] = After(n - 1, g[n - 1])
        BY <1>3, <4>1
      <4>. QED
        BY <3>2, <4>1, <4>2
    <3>. QED
      BY <3>1, <3>2
  <2>. QED
    BY <1>2, <2>1
<1>. DEFINE Is(r) == r = [n \in Nat |-> IF n = 0 THEN h
                                        ELSE IF n \in DOMAIN D THEN decode_cb(r[n - 1], t, D[n]) ELSE r[n - 1]]
            s == CHOOSE r : Is(r)
<1>5. Is(s)
  <2>1. Is(g)
    BY <1>4
  <2>. HIDE DEF Is
  <2>. QED
    BY <2>1
<1>6. _decode(h, t, b) = s[Len(D)]
  BY Zenon DEF _decode
<1>. HIDE DEF s, D, S
<1>7. s[0] = h /\ \A k \in Nat : s[k + 1] = After(k, s[k])
  <2>1. s[0] = h
    BY <1>5
  <2>2. ASSUME NEW k \in Nat PROVE s[k + 1] = After(k, s[k])
    <3>1. k + 1 \in Nat /\ k + 1 # 0 /\ (k + 1) - 1 = k
      OBVIOUS
    <3>. QED
      BY <1>5, <3>1
  <2>. QED
    BY <2>1, <2>2
<1>8. DOMAIN s = Nat /\ s = [n \in Nat |-> s[n]]
  BY <1>5
<1>. HIDE DEF Is
<1>. HIDE DEF After
<1>. DEFINE T == {k \in Nat : s[k] \in S}
<1>9. T = Nat
  <2>1. h \in S
    BY DEF S
  <2>2. 0 \in T
    BY <1>7, <2>1
  <2>3. \A k \in T : k + 1 \in T
    <3>1. ASSUME NEW k \in Nat, s[k] \in S PROVE s[k + 1] \in S
      BY <1>1, <1>7, <3>1, Zenon
    <3>. QED
      BY <3>1
  <2>4. T \subseteq Nat
    OBVIOUS
  <2>. HIDE DEF T
  <2>. QED
    BY <2>2, <2>3, <2>4, Induction
<1>10. s \in [Nat -> S]
  <2>1. \A n \in Nat : s[n] \in S
    BY <1>9
  <2>. QED
    BY <1>8, <2>1
<1>11. \A k \in 0 .. Len(D) - 1 : s[k + 1] = decode_cb(s[k], t, D[k + 1])
  <2>. TAKE k \in 0 .. Len(D) - 1
  <2>1. k \in Nat /\ k + 1 \in DOMAIN D
    BY <1>0 DEF D
  <2>. QED
    BY <1>7, <2>1 DEF After
<1>. QED
  BY <1>6, <1>7, <1>10, <1>11 DEF D, S

--------------------------------------------------------------------------------

SaidOf(rep, s) == IF rep \/ s = << >> THEN s ELSE << Last(s) >>

\* A value of a table is what a field of the buffer says, or a table that comes from it.
Means(h, v, a, msg) ==
  IF msg = "none" THEN v = a.v ELSE v \in 1 .. Len(h) /\ h[v].from = a.b /\ h[v].type = msg

FieldFrom(h, t, f, said) ==
  LET raw == h[t].raw IN
    /\ f \in DOMAIN raw <=> said # << >>
    /\ f \in DOMAIN raw =>
         /\ Len(raw[f]) = Len(said)
         /\ \A i \in 1 .. Len(said) : Means(h, raw[f][i], said[i], Schema[h[t].type][f].msg)

\* The fields of table t are those that the first k fields of buffer d say.
TableFrom(h, t, d, k) ==
  LET fields == Schema[h[t].type] IN
    /\ DOMAIN h[t].raw \subseteq DOMAIN fields
    /\ \A f \in DOMAIN fields : FieldFrom(h, t, f, SaidOf(fields[f].rep, SentUpto(d, f)[k]))

\* Decoding into table t changes no other and adds some that wait for their first read.
Grown(h, g, t) ==
  /\ Len(h) <= Len(g)
  /\ \A j \in 1 .. Len(h) : /\ g[j].from = h[j].from /\ g[j].type = h[j].type
                            /\ g[j].meta = h[j].meta /\ g[j].held = h[j].held
                            /\ j # t => g[j] = h[j]
  /\ \A j \in Len(h) + 1 .. Len(g) : g[j].held /\ g[j].meta = "lazy" /\ g[j].raw = NoFields

LEMMA TableIs ==
  ASSUME NEW h \in Heaps, NEW t \in 1 .. Len(h)
  PROVE  /\ Len(h) \in Nat /\ h[t] \in Table
         /\ h[t].meta \in {"lazy", "plain", "message"} /\ h[t].held \in BOOLEAN
         /\ h[t].type \in DOMAIN Schema /\ h[t].raw \in Raws /\ h[t].from \in Buffers
<1>1. Len(h) \in Nat /\ h[t] \in Table
  BY DEF Heaps
<1>. QED
  BY <1>1 DEF Table

\* What a field means does not change when tables are added.
LEMMA FieldKept ==
  ASSUME NEW h, NEW g, NEW t, NEW f, NEW said,
         Len(h) \in Nat, Len(g) \in Nat, Len(h) <= Len(g),
         \A j \in 1 .. Len(h) : g[j].from = h[j].from /\ g[j].type = h[j].type,
         g[t].type = h[t].type,
         f \in DOMAIN g[t].raw <=> f \in DOMAIN h[t].raw,
         f \in DOMAIN h[t].raw => g[t].raw[f] = h[t].raw[f],
         FieldFrom(h, t, f, said)
  PROVE  FieldFrom(g, t, f, said)
<1>1. \A v, a, msg : Means(h, v, a, msg) => Means(g, v, a, msg)
  BY DEF Means
<1>. QED
  BY <1>1 DEF FieldFrom

LEMMA TableKept ==
  ASSUME NEW h \in Heaps, NEW g \in Heaps, NEW t \in 1 .. Len(h), NEW d, NEW k,
         Len(h) <= Len(g),
         \A j \in 1 .. Len(h) : g[j].from = h[j].from /\ g[j].type = h[j].type,
         g[t].raw = h[t].raw,
         TableFrom(h, t, d, k)
  PROVE  TableFrom(g, t, d, k)
<1>1. Len(h) \in Nat /\ Len(g) \in Nat /\ g[t].type = h[t].type
  BY DEF Heaps
<1>. DEFINE said(f) == SaidOf(Schema[h[t].type][f].rep, SentUpto(d, f)[k])
<1>2. ASSUME NEW f \in DOMAIN Schema[h[t].type] PROVE FieldFrom(g, t, f, said(f))
  <2>1. FieldFrom(h, t, f, said(f))
    BY DEF TableFrom
  <2>. HIDE DEF said
  <2>. QED
    BY <1>1, <2>1, FieldKept
<1>. QED
  BY <1>1, <1>2 DEF TableFrom

\* What a buffer says of a field, one field of the buffer later.
LEMMA SaidStep ==
  ASSUME NEW rep \in BOOLEAN, NEW s \in Seq(Fields), NEW a \in Fields
  PROVE  SaidOf(rep, Append(s, a)) = IF rep /\ SaidOf(rep, s) # << >> THEN Append(SaidOf(rep, s), a) ELSE << a >>
<1>1. Append(s, a) # << >> /\ Last(Append(s, a)) = a
  BY DEF Last
<1>2. s = << >> => Append(s, a) = << a >>
  OBVIOUS
<1>. QED
  BY <1>1, <1>2 DEF SaidOf

LEMMA SaidType ==
  ASSUME NEW rep \in BOOLEAN, NEW s \in Seq(Fields)
  PROVE  SaidOf(rep, s) \in Seq(Fields)
<1>1. CASE s = << >>
  BY <1>1 DEF SaidOf
<1>2. CASE s # << >>
  <2>1. Last(s) \in Fields
    BY <1>2 DEF Last
  <2>. QED
    BY <2>1 DEF SaidOf
<1>. QED
  BY <1>1, <1>2

LEMMA DecodeStep ==
  ASSUME NEW h \in Heaps, NEW t \in 1 .. Len(h), NEW d \in Seq(Fields), NEW k \in 0 .. Len(d) - 1,
         NEW g \in Heaps, t \in 1 .. Len(g), TableFrom(g, t, d, k), Grown(h, g, t)
  PROVE  LET n == decode_cb(g, t, d[k + 1]) IN
           n \in Heaps /\ t \in 1 .. Len(n) /\ TableFrom(n, t, d, k + 1) /\ Grown(h, n, t)
<1>. DEFINE a == d[k + 1]
            n == decode_cb(g, t, a)
            fields == Schema[g[t].type]
            field == fields[a.f]
            msg == field.msg
            s(f) == SentUpto(d, f)[k]
            u(f) == SentUpto(d, f)[k + 1]
<1>1. a \in Fields /\ k \in Nat /\ k + 1 \in DOMAIN d
  OBVIOUS
<1>2. \A f : s(f) \in Seq(Fields) /\ u(f) = IF a.f = f THEN Append(s(f), a) ELSE s(f)
  BY <1>1, SentIs
<1>. HIDE DEF a
<1>3. n \in Heaps /\ FieldStored(n, g, t, a)
  BY <1>1, FieldIs
<1>. HIDE DEF n, s, u
<1>4. Len(g) \in Nat /\ Len(n) \in Nat /\ Len(h) \in Nat /\ g[t] \in Table /\ fields = Schema[g[t].type]
  BY <1>3, TableIs DEF Heaps
<1>5. CASE a.f \notin DOMAIN fields
  <2>1. n = g
    BY <1>3, <1>5 DEF FieldStored
  <2>2. \A f \in DOMAIN fields : u(f) = s(f)
    BY <1>2, <1>5
  <2>3. TableFrom(n, t, d, k + 1)
    BY <2>1, <2>2 DEF TableFrom, s, u
  <2>. QED
    BY <1>3, <2>1, <2>3 DEF n, a
<1>6. CASE a.f \in DOMAIN fields
  <2>. DEFINE v == IF msg = "none" THEN a.v ELSE Len(g) + 1
              raw == g[t].raw
              new == Stored(raw, a.f, field.rep, v)
  <2>1. /\ Len(n) = IF msg = "none" THEN Len(g) ELSE Len(g) + 1
        /\ \A j \in 1 .. Len(g) : j # t => n[j] = g[j]
        /\ n[t] = [g[t] EXCEPT !.raw = new]
        /\ msg # "none" => n[Len(g) + 1] = decode_message_cb(msg, a.b)
    BY <1>3, <1>6 DEF FieldStored
  <2>2. /\ raw \in Raws /\ a.f \in AllFields /\ field.rep \in BOOLEAN /\ v \in Nat
    BY <1>1, <1>4, <1>6, TableIs, SchemaIs DEF Fields
  <2>. HIDE DEF new
  <2>3. /\ n[t].raw = new /\ n[t].from = g[t].from /\ n[t].type = g[t].type
        /\ n[t].meta = g[t].meta /\ n[t].held = g[t].held
    BY <1>4, <2>1 DEF Table
  <2>4. \A j \in 1 .. Len(g) : n[j].from = g[j].from /\ n[j].type = g[j].type
    BY <2>1, <2>3
  <2>5. /\ DOMAIN new = DOMAIN raw \cup {a.f}
        /\ \A x \in DOMAIN raw : raw[x] \in Seq(Nat) /\ (x # a.f => new[x] = raw[x])
        /\ new[a.f] = IF field.rep /\ a.f \in DOMAIN raw THEN Append(raw[a.f], v) ELSE << v >>
    <3>. HIDE DEF raw, v, field
    <3>1. StoredAs(new, raw, a.f, field.rep, v)
      BY <2>2, StoredIs DEF new
    <3>. QED
      BY <3>1, Zenon DEF StoredAs
  <2>6. Len(g) <= Len(n)
    BY <1>4, <2>1
  <2>7. ASSUME NEW f \in DOMAIN fields, f # a.f
        PROVE  FieldFrom(n, t, f, SaidOf(fields[f].rep, u(f)))
    <3>1. FieldFrom(g, t, f, SaidOf(fields[f].rep, u(f)))
      <4>1. u(f) = s(f)
        BY <1>2, <2>7
      <4>. QED
        BY <4>1 DEF TableFrom, s
    <3>2. /\ f \in DOMAIN n[t].raw <=> f \in DOMAIN g[t].raw
          /\ f \in DOMAIN g[t].raw => n[t].raw[f] = g[t].raw[f]
      BY <2>3, <2>5, <2>7
    <3>. QED
      BY <1>4, <2>3, <2>4, <2>6, <3>1, <3>2, FieldKept
  <2>8. FieldFrom(n, t, a.f, SaidOf(field.rep, u(a.f)))
    <3>. DEFINE old == SaidOf(field.rep, s(a.f))
                said == SaidOf(field.rep, u(a.f))
    <3>1. said = IF field.rep /\ old # << >> THEN Append(old, a) ELSE << a >>
      BY <1>1, <1>2, <2>2, SaidStep
    <3>2. old \in Seq(Fields)
      BY <1>2, <2>2, SaidType
    <3>3. FieldFrom(g, t, a.f, old)
      BY <1>6 DEF TableFrom, s
    <3>4. Means(n, v, a, msg)
      BY <1>4, <2>1 DEF Means, decode_message_cb
    <3>5. \A w, b : Means(g, w, b, msg) => Means(n, w, b, msg)
      BY <1>4, <2>4, <2>6 DEF Means
    <3>. HIDE DEF old, said, v, fields
    <3>6. CASE field.rep /\ old # << >>
      <4>1. a.f \in DOMAIN raw
        BY <3>3, <3>6 DEF FieldFrom
      <4>2. /\ raw[a.f] \in Seq(Nat) /\ Len(raw[a.f]) = Len(old)
            /\ \A i \in 1 .. Len(old) : Means(n, raw[a.f][i], old[i], msg)
        BY <2>5, <3>3, <3>5, <4>1 DEF FieldFrom, fields
      <4>3. said = Append(old, a) /\ new[a.f] = Append(raw[a.f], v)
        BY <2>5, <3>1, <3>6, <4>1
      <4>4. /\ Len(new[a.f]) = Len(raw[a.f]) + 1 /\ new[a.f][Len(raw[a.f]) + 1] = v
            /\ \A i \in 1 .. Len(raw[a.f]) : new[a.f][i] = raw[a.f][i]
        <5>. HIDE DEF raw, field
        <5>1. v \in Nat /\ raw[a.f] \in Seq(Nat) /\ new[a.f] = Append(raw[a.f], v)
          BY <2>2, <4>2, <4>3, Zenon
        <5>. QED
          BY <5>1, AppendProperties
      <4>5. /\ Len(said) = Len(old) + 1 /\ said[Len(old) + 1] = a /\ said # << >>
            /\ \A i \in 1 .. Len(old) : said[i] = old[i]
        BY <1>1, <3>2, <4>3, AppendProperties
      <4>6. Len(old) \in Nat
        BY <3>2
      <4>7. ASSUME NEW i \in 1 .. Len(said) PROVE Means(n, new[a.f][i], said[i], msg)
        <5>1. CASE i = Len(old) + 1
          BY <3>4, <4>2, <4>4, <4>5, <5>1
        <5>2. CASE i # Len(old) + 1
          <6>1. i \in 1 .. Len(old)
            BY <4>5, <4>6, <5>2
          <6>. QED
            BY <4>2, <4>4, <4>5, <6>1
        <5>. QED
          BY <5>1, <5>2
      <4>8. Len(new[a.f]) = Len(said)
        BY <4>2, <4>4, <4>5
      <4>. QED
        BY <2>3, <2>5, <4>5, <4>7, <4>8 DEF FieldFrom, fields, said
    <3>7. CASE ~(field.rep /\ old # << >>)
      <4>1. said = << a >>
        BY <3>1, <3>7
      <4>2. new[a.f] = << v >>
        BY <2>5, <3>3, <3>7 DEF FieldFrom
      <4>3. Len(new[a.f]) = Len(said) /\ said # << >>
        BY <4>1, <4>2
      <4>4. \A i \in 1 .. Len(said) : Means(n, new[a.f][i], said[i], msg)
        BY <3>4, <4>1, <4>2
      <4>. QED
        BY <2>3, <2>5, <4>3, <4>4 DEF FieldFrom, fields, said
    <3>. QED
      BY <3>6, <3>7
  <2>9. TableFrom(n, t, d, k + 1)
    <3>1. DOMAIN n[t].raw \subseteq DOMAIN fields
      BY <1>6, <2>3, <2>5 DEF TableFrom
    <3>. QED
      BY <2>3, <2>7, <2>8, <3>1 DEF TableFrom, u
  <2>10. Grown(h, n, t)
    <3>1. \A j \in Len(g) + 1 .. Len(n) : n[j].held /\ n[j].meta = "lazy" /\ n[j].raw = NoFields
      BY <1>4, <2>1 DEF decode_message_cb
    <3>2. ASSUME NEW j \in 1 .. Len(h)
          PROVE  /\ n[j].from = h[j].from /\ n[j].type = h[j].type
                 /\ n[j].meta = h[j].meta /\ n[j].held = h[j].held
                 /\ j # t => n[j] = h[j]
      <4>1. j \in 1 .. Len(g)
        BY <1>4 DEF Grown
      <4>2. CASE j = t
        BY <2>3, <4>2 DEF Grown
      <4>3. CASE j # t
        <5>1. n[j] = g[j]
          BY <2>1, <4>1, <4>3
        <5>. QED
          BY <4>3, <5>1 DEF Grown
      <4>. QED
        BY <4>2, <4>3
    <3>3. ASSUME NEW j \in Len(h) + 1 .. Len(n), j <= Len(g)
          PROVE  n[j].held /\ n[j].meta = "lazy" /\ n[j].raw = NoFields
      <4>1. j \in 1 .. Len(g) /\ j # t /\ j \in Len(h) + 1 .. Len(g)
        BY <1>4, <3>3
      <4>. QED
        BY <2>1, <4>1 DEF Grown
    <3>4. Len(h) <= Len(n)
      BY <1>4, <2>6 DEF Grown
    <3>. QED
      BY <1>4, <3>1, <3>2, <3>3, <3>4 DEF Grown
  <2>11. t \in 1 .. Len(n)
    BY <1>4, <2>6
  <2>. QED
    BY <1>3, <2>9, <2>10, <2>11 DEF n, a
<1>. QED
  BY <1>5, <1>6

\* Decoding a buffer into a table without fields gives it those that the buffer says.
LEMMA DecodedIs ==
  ASSUME NEW h \in Heaps, NEW t \in 1 .. Len(h), NEW b \in Buffers, h[t].raw = NoFields
  PROVE  LET g == _decode(h, t, b) IN
           /\ g \in Heaps /\ t \in 1 .. Len(g) /\ Grown(h, g, t)
           /\ TableFrom(g, t, Delivered(b), Len(Delivered(b)))
<1>. DEFINE d == Delivered(b)
            S == {g \in Heaps : t \in 1 .. Len(g)}
<1>1. d \in Seq(Fields) /\ Len(d) \in Nat
  BY DeliveredIs
<1>2. PICK G \in [Nat -> S] :
        /\ G[0] = h
        /\ \A k \in 0 .. Len(d) - 1 : G[k + 1] = decode_cb(G[k], t, d[k + 1])
        /\ _decode(h, t, b) = G[Len(d)]
  BY DecodeIs
<1>. HIDE DEF d
<1>. DEFINE Upto(k) == TableFrom(G[k], t, d, k) /\ Grown(h, G[k], t)
            T == {k \in Nat : k <= Len(d) => Upto(k)}
<1>3. TableFrom(h, t, d, 0)
  <2>1. \A f : SentUpto(d, f)[0] = << >>
    BY <1>1, SentIs
  <2>2. \A rep : SaidOf(rep, << >>) = << >>
    BY DEF SaidOf
  <2>3. h[t].raw = NoFields /\ DOMAIN NoFields = {}
    BY NoFieldsIs
  <2>4. \A f : FieldFrom(h, t, f, << >>)
    BY <2>3 DEF FieldFrom
  <2>. QED
    BY <2>1, <2>2, <2>3, <2>4 DEF TableFrom
<1>4. Grown(h, h, t)
  <2>1. Len(h) \in Nat
    BY TableIs
  <2>. QED
    BY <2>1 DEF Grown
<1>5. T = Nat
  <2>1. 0 \in T
    BY <1>2, <1>3, <1>4
  <2>2. ASSUME NEW k \in T PROVE k + 1 \in T
    <3>. SUFFICES ASSUME k + 1 <= Len(d) PROVE Upto(k + 1)
      OBVIOUS
    <3>1. k \in Nat /\ k \in 0 .. Len(d) - 1 /\ k <= Len(d)
      BY <1>1
    <3>2. Upto(k) /\ G[k + 1] = decode_cb(G[k], t, d[k + 1])
      BY <1>2, <3>1
    <3>3. G[k] \in Heaps /\ t \in 1 .. Len(G[k])
      BY <1>2, <3>1
    <3>. QED
      BY <1>1, <3>1, <3>2, <3>3, DecodeStep
  <2>3. T \subseteq Nat
    OBVIOUS
  <2>. HIDE DEF T
  <2>. QED
    BY <2>1, <2>2, <2>3, Induction
<1>6. Upto(Len(d)) /\ G[Len(d)] \in S
  <2>1. Len(d) \in T
    BY <1>1, <1>5
  <2>. QED
    BY <1>1, <1>2, <2>1
<1>. QED
  BY <1>2, <1>6 DEF d

--------------------------------------------------------------------------------

\* A table that still holds its buffer waits for its first read; another has the fields
\* of its buffer, and a default message when all of it was decoded.
TableOK(h, t) ==
  IF h[t].held THEN h[t].meta = "lazy" /\ h[t].raw = NoFields
  ELSE LET d == Delivered(h[t].from) IN
         /\ TableFrom(h, t, d, Len(d))
         /\ Good(h[t].from) => h[t].meta = "message"
HeapOK(h) == h \in Heaps /\ \A t \in 1 .. Len(h) : TableOK(h, t)

LEMMA GrownOK ==
  ASSUME NEW h \in Heaps, NEW g \in Heaps, NEW t \in 1 .. Len(h), Grown(h, g, t),
         NEW j \in 1 .. Len(g), j # t, j \in 1 .. Len(h) => TableOK(h, j)
  PROVE  TableOK(g, j)
<1>1. Len(h) \in Nat /\ Len(g) \in Nat /\ Len(h) <= Len(g)
  BY TableIs DEF Grown, Heaps
<1>2. CASE j \in 1 .. Len(h)
  <2>1. g[j] = h[j] /\ \A i \in 1 .. Len(h) : g[i].from = h[i].from /\ g[i].type = h[i].type
    BY <1>2 DEF Grown
  <2>2. CASE h[j].held
    BY <1>2, <2>1, <2>2 DEF TableOK
  <2>3. CASE ~h[j].held
    <3>. DEFINE d == Delivered(h[j].from)
    <3>1. TableFrom(h, j, d, Len(d)) /\ (Good(h[j].from) => h[j].meta = "message")
      BY <1>2, <2>3 DEF TableOK
    <3>. HIDE DEF d
    <3>2. TableFrom(g, j, d, Len(d))
      BY <1>1, <1>2, <2>1, <3>1, TableKept
    <3>. QED
      BY <2>1, <2>3, <3>1, <3>2 DEF TableOK, d
  <2>. QED
    BY <2>2, <2>3
<1>3. CASE j \notin 1 .. Len(h)
  <2>1. j \in Len(h) + 1 .. Len(g)
    BY <1>1, <1>3
  <2>. QED
    BY <2>1 DEF Grown, TableOK
<1>. QED
  BY <1>2, <1>3

LEMMA DefaultIs ==
  ASSUME NEW g \in Heaps, NEW t \in 1 .. Len(g)
  PROVE  LET w == WithDefault(g, t) IN
           /\ w \in Heaps /\ Len(w) = Len(g)
           /\ \A j \in 1 .. Len(g) : /\ w[j].from = g[j].from /\ w[j].type = g[j].type
                                     /\ w[j].held = g[j].held /\ w[j].raw = g[j].raw
                                     /\ w[j].meta = IF j = t THEN "message" ELSE g[j].meta
<1>. DEFINE e == [g[t] EXCEPT !.meta = "message"]
            w == WithDefault(g, t)
<1>1. g \in Seq(Table) /\ g[t] \in Table /\ Len(g) \in Nat
  BY DEF Heaps
<1>2. /\ e \in Table /\ e.from = g[t].from /\ e.type = g[t].type
      /\ e.held = g[t].held /\ e.raw = g[t].raw /\ e.meta = "message"
  BY <1>1 DEF Table
<1>3. w = [g EXCEPT ![t] = e]
  BY <1>1 DEF WithDefault
<1>. HIDE DEF e, w
<1>4. w \in Heaps /\ Len(w) = Len(g) /\ \A j \in 1 .. Len(g) : w[j] = IF j = t THEN e ELSE g[j]
  BY <1>1, <1>2, <1>3 DEF Heaps
<1>. QED
  BY <1>2, <1>4 DEF w

\* A table that was just decoded, with a default message if all of the buffer was.
LEMMA DecodedOK ==
  ASSUME NEW h \in Heaps, NEW t \in 1 .. Len(h), NEW b \in Buffers,
         h[t].raw = NoFields, ~h[t].held, h[t].from = b,
         \A j \in 1 .. Len(h) : j # t => TableOK(h, j),
         NEW w, w = IF Good(b) THEN WithDefault(_decode(h, t, b), t) ELSE _decode(h, t, b)
  PROVE  /\ HeapOK(w) /\ t \in 1 .. Len(w) /\ ~w[t].held
         /\ w[t].from = b /\ w[t].type = h[t].type
<1>. DEFINE g == _decode(h, t, b)
            d == Delivered(b)
<1>1. /\ g \in Heaps /\ t \in 1 .. Len(g) /\ Grown(h, g, t) /\ TableFrom(g, t, d, Len(d))
  BY DecodedIs
<1>. HIDE DEF g, d
<1>2. ~g[t].held /\ g[t].from = b /\ g[t].type = h[t].type
  BY <1>1 DEF Grown
<1>3. \A j \in 1 .. Len(g) : j # t => TableOK(g, j)
  BY <1>1, GrownOK
<1>4. CASE ~Good(b)
  <2>1. w = g
    BY <1>4 DEF g
  <2>2. TableOK(g, t)
    BY <1>1, <1>2, <1>4 DEF TableOK, d
  <2>. QED
    BY <1>1, <1>2, <1>3, <2>1, <2>2 DEF HeapOK
<1>5. CASE Good(b)
  <2>1. w = WithDefault(g, t)
    BY <1>5 DEF g
  <2>2. /\ w \in Heaps /\ Len(w) = Len(g)
        /\ \A j \in 1 .. Len(g) : /\ w[j].from = g[j].from /\ w[j].type = g[j].type
                                  /\ w[j].held = g[j].held /\ w[j].raw = g[j].raw
                                  /\ w[j].meta = IF j = t THEN "message" ELSE g[j].meta
    BY <1>1, <2>1, DefaultIs
  <2>3. Len(g) \in Nat
    BY <1>1, TableIs
  <2>4. TableFrom(w, t, d, Len(d))
    BY <1>1, <2>2, <2>3, TableKept
  <2>5. TableOK(w, t)
    BY <1>1, <1>2, <2>2, <2>4 DEF TableOK, d
  <2>6. ASSUME NEW j \in 1 .. Len(w), j # t PROVE TableOK(w, j)
    <3>1. TableOK(g, j) /\ j \in 1 .. Len(g)
      BY <1>3, <2>2, <2>6
    <3>2. w[j].held = g[j].held /\ w[j].raw = g[j].raw /\ w[j].from = g[j].from /\ w[j].meta = g[j].meta
      BY <2>2, <2>6, <3>1
    <3>3. CASE g[j].held
      BY <3>1, <3>2, <3>3 DEF TableOK
    <3>4. CASE ~g[j].held
      <4>. DEFINE c == Delivered(g[j].from)
      <4>1. TableFrom(g, j, c, Len(c)) /\ (Good(g[j].from) => g[j].meta = "message")
        BY <3>1, <3>4 DEF TableOK
      <4>. HIDE DEF c
      <4>2. TableFrom(w, j, c, Len(c))
        <5>1. Len(g) <= Len(w) /\ \A i \in 1 .. Len(g) : w[i].from = g[i].from /\ w[i].type = g[i].type
          BY <2>2, <2>3
        <5>. QED
          BY <1>1, <2>2, <3>1, <3>2, <4>1, <5>1, TableKept
      <4>. QED
        BY <3>2, <3>4, <4>1, <4>2 DEF TableOK, c
    <3>. QED
      BY <3>3, <3>4
  <2>. QED
    BY <1>1, <1>2, <2>2, <2>5, <2>6 DEF HeapOK
<1>. QED
  BY <1>4, <1>5

LEMMA ExpandOK ==
  ASSUME NEW h, HeapOK(h), NEW t \in 1 .. Len(h), h[t].held
  PROVE  LET w == expand(h, t) IN
           /\ HeapOK(w) /\ t \in 1 .. Len(w) /\ ~w[t].held
           /\ w[t].from = h[t].from /\ w[t].type = h[t].type
<1>. DEFINE e == [h[t] EXCEPT !.held = FALSE]
            o == [h EXCEPT ![t].held = FALSE]
            b == h[t].from
<1>1. h \in Heaps /\ h \in Seq(Table) /\ h[t] \in Table /\ Len(h) \in Nat
  BY TableIs DEF HeapOK, Heaps
<1>2. /\ e \in Table /\ ~e.held /\ e.from = h[t].from /\ e.type = h[t].type
      /\ e.raw = h[t].raw /\ e.meta = h[t].meta
  BY <1>1 DEF Table
<1>3. o = [h EXCEPT ![t] = e]
  BY <1>1
<1>. HIDE DEF e, o
<1>4. o \in Heaps /\ Len(o) = Len(h) /\ \A j \in 1 .. Len(h) : o[j] = IF j = t THEN e ELSE h[j]
  BY <1>1, <1>2, <1>3 DEF Heaps
<1>5. TableOK(h, t) /\ b \in Buffers
  BY <1>1, TableIs DEF HeapOK
<1>6. t \in 1 .. Len(o) /\ o[t].raw = NoFields /\ ~o[t].held /\ o[t].from = b /\ o[t].type = h[t].type
  BY <1>2, <1>4, <1>5 DEF TableOK
<1>7. ASSUME NEW j \in 1 .. Len(o), j # t PROVE TableOK(o, j)
  <2>1. j \in 1 .. Len(h) /\ o[j] = h[j]
    BY <1>4, <1>7
  <2>2. TableOK(h, j)
    BY <2>1 DEF HeapOK
  <2>3. CASE h[j].held
    BY <2>1, <2>2, <2>3 DEF TableOK
  <2>4. CASE ~h[j].held
    <3>. DEFINE c == Delivered(h[j].from)
    <3>1. TableFrom(h, j, c, Len(c)) /\ (Good(h[j].from) => h[j].meta = "message")
      BY <2>2, <2>4 DEF TableOK
    <3>. HIDE DEF c
    <3>2. \A i \in 1 .. Len(h) : o[i].from = h[i].from /\ o[i].type = h[i].type
      BY <1>2, <1>4
    <3>3. TableFrom(o, j, c, Len(c))
      BY <1>1, <1>4, <2>1, <3>1, <3>2, TableKept
    <3>. QED
      BY <2>1, <2>4, <3>1, <3>3 DEF TableOK, c
  <2>. QED
    BY <2>3, <2>4
<1>8. expand(h, t) = IF Good(b) THEN WithDefault(_decode(o, t, b), t) ELSE _decode(o, t, b)
  BY Zenon DEF expand, o
<1>. DEFINE w == expand(h, t)
<1>. HIDE DEF w, b
<1>9. /\ HeapOK(w) /\ t \in 1 .. Len(w) /\ ~w[t].held
      /\ w[t].from = b /\ w[t].type = o[t].type
  BY <1>4, <1>5, <1>6, <1>7, <1>8, DecodedOK DEF w
<1>. QED
  BY <1>6, <1>9 DEF w, b

--------------------------------------------------------------------------------
(* The steps *)

LEMMA MessagesBegin == ASSUME MessagesInit PROVE HeapOK(heap)
<1>1. heap \in Heaps /\ Len(heap) = 0
  BY DEF MessagesInit, Heaps
<1>. QED
  BY <1>1 DEF HeapOK

LEMMA DecodeOK ==
  ASSUME NEW type \in Types, NEW b \in Received, decode(type, b)
  PROVE  HeapOK(heap')
<1>. DEFINE e == [decode_message_cb(type, b) EXCEPT !.meta = "plain", !.held = FALSE]
            h == << e >>
<1>1. type \in DOMAIN Schema /\ b \in Buffers
  BY ProtobufAssumption
<1>2. e \in Table /\ e.raw = NoFields /\ ~e.held /\ e.from = b
  BY <1>1, NoFieldsIs DEF decode_message_cb, Table
<1>. HIDE DEF e
<1>3. h \in Heaps /\ Len(h) = 1 /\ h[1] = e
  BY <1>2 DEF Heaps
<1>4. CASE Good(b)
  <2>1. heap' = WithDefault(_decode(h, 1, b), 1)
    BY <1>4, Zenon DEF decode, e
  <2>. HIDE DEF h
  <2>2. 1 \in 1 .. Len(h) /\ \A j \in 1 .. Len(h) : j # 1 => TableOK(h, j)
    BY <1>3
  <2>3. heap' = IF Good(b) THEN WithDefault(_decode(h, 1, b), 1) ELSE _decode(h, 1, b)
    BY <1>4, <2>1
  <2>. QED
    BY <1>1, <1>2, <1>3, <2>2, <2>3, DecodedOK
<1>5. CASE ~Good(b)
  <2>1. heap' = << >>
    BY <1>5 DEF decode
  <2>. QED
    BY <2>1 DEF HeapOK, Heaps
<1>. QED
  BY <1>4, <1>5

LEMMA ReadOK ==
  ASSUME HeapOK(heap), NEW t \in DOMAIN heap, NEW f, Read(t, f)
  PROVE  HeapOK(heap')
<1>1. t \in 1 .. Len(heap)
  BY DEF HeapOK, Heaps
<1>2. CASE heap[t].held /\ heap' = expand(heap, t)
  BY <1>1, <1>2, ExpandOK
<1>3. CASE UNCHANGED heap
  BY <1>3 DEF HeapOK, TableOK
<1>4. (heap[t].held /\ heap' = expand(heap, t)) \/ UNCHANGED heap
  BY DEF Read
<1>. QED
  BY <1>2, <1>3, <1>4

LEMMA MessagesStep ==
  ASSUME HeapOK(heap), [MessagesNext]_messagesVars
  PROVE  HeapOK(heap')
<1>1. ASSUME NEW type \in Types, NEW b \in Received, decode(type, b) PROVE HeapOK(heap')
  BY <1>1, DecodeOK
<1>2. ASSUME NEW t \in DOMAIN heap, NEW f \in AllFields, Read(t, f) PROVE HeapOK(heap')
  BY <1>2, ReadOK
<1>3. ASSUME UNCHANGED heap PROVE HeapOK(heap')
  BY <1>3
<1>4. ASSUME NEW t \in DOMAIN heap, encode(t) PROVE UNCHANGED heap
  BY <1>4 DEF encode
<1>5. ASSUME UNCHANGED messagesVars PROVE UNCHANGED heap
  BY <1>5 DEF messagesVars
<1>. QED
  BY <1>1, <1>2, <1>3, <1>4, <1>5 DEF MessagesNext

LEMMA SaidIs ==
  ASSUME NEW type, NEW b, NEW f
  PROVE  Said(type, b, f) = SaidOf(Schema[type][f].rep, SentUpto(b, f)[Len(b)])
BY Zenon DEF Said, Sent, SaidOf

LEMMA MessagesGood == ASSUME HeapOK(heap) PROVE FieldsFromWire
<1>. SUFFICES ASSUME NEW t \in DOMAIN heap, ~heap[t].held, NEW f \in DOMAIN Schema[heap[t].type]
              PROVE  LET said == Said(heap[t].type, Delivered(heap[t].from), f)
                         msg == Schema[heap[t].type][f].msg
                         raw == IF f \in DOMAIN heap[t].raw THEN heap[t].raw[f] ELSE << >>
                     IN /\ Len(raw) = Len(said)
                        /\ \A i \in DOMAIN raw : IF msg = "none" THEN raw[i] = said[i].v
                                                 ELSE heap[raw[i]].from = said[i].b /\ heap[raw[i]].type = msg
  BY Zenon DEF FieldsFromWire
<1>. DEFINE d == Delivered(heap[t].from)
            said == Said(heap[t].type, d, f)
            msg == Schema[heap[t].type][f].msg
            raw == IF f \in DOMAIN heap[t].raw THEN heap[t].raw[f] ELSE << >>
<1>1. t \in 1 .. Len(heap) /\ TableFrom(heap, t, d, Len(d)) /\ heap \in Heaps
  BY DEF HeapOK, Heaps, TableOK
<1>2. FieldFrom(heap, t, f, said)
  BY <1>1, SaidIs DEF TableFrom
<1>3. CASE f \in DOMAIN heap[t].raw
  <2>1. raw = heap[t].raw[f]
    BY <1>3
  <2>2. heap[t].raw[f] \in Seq(Nat)
    <3>1. PICK D \in SUBSET AllFields : heap[t].raw \in [D -> Seq(Nat)]
      BY <1>1, TableIs, RawsAre
    <3>. QED
      BY <1>3, <3>1
  <2>. HIDE DEF raw, said
  <2>3. Len(raw) = Len(said) /\ \A i \in 1 .. Len(said) : Means(heap, raw[i], said[i], msg)
    BY <1>2, <1>3, <2>1 DEF FieldFrom
  <2>4. DOMAIN raw = 1 .. Len(said)
    BY <2>1, <2>2, <2>3
  <2>. QED
    BY <2>3, <2>4 DEF raw, said, Means
<1>4. CASE f \notin DOMAIN heap[t].raw
  <2>1. said = << >>
    BY <1>2, <1>4 DEF FieldFrom
  <2>2. raw = << >>
    BY <1>4
  <2>. HIDE DEF raw, said
  <2>3. Len(raw) = Len(said) /\ DOMAIN raw = {}
    BY <2>1, <2>2
  <2>. QED
    BY <2>3 DEF raw, said
<1>. QED
  BY <1>3, <1>4

LEMMA IndexIs ==
  ASSUME NEW h, HeapOK(h), NEW t \in 1 .. Len(h), ~h[t].held, Good(h[t].from), NEW f
  PROVE  Index(h[t], f).is = IF f \notin DOMAIN Schema[h[t].type] THEN "error"
                             ELSE IF Sent(h[t].from, f) = << >> THEN "default" ELSE "value"
<1>. DEFINE b == h[t].from
            fields == Schema[h[t].type]
            s == SentUpto(b, f)[Len(b)]
<1>1. h \in Heaps /\ b \in Buffers
  BY TableIs DEF HeapOK
<1>2. Delivered(b) = b
  BY <1>1, DeliveredIs
<1>3. TableFrom(h, t, b, Len(b))
  BY <1>2 DEF HeapOK, TableOK
<1>4. CASE f \notin DOMAIN fields
  <2>1. f \notin DOMAIN h[t].raw
    BY <1>3, <1>4 DEF TableFrom
  <2>. QED
    BY <1>4, <2>1 DEF Index, Missing, Raised
<1>5. CASE f \in DOMAIN fields
  <2>1. f \in DOMAIN h[t].raw <=> SaidOf(fields[f].rep, s) # << >>
    BY <1>3, <1>5 DEF TableFrom, FieldFrom
  <2>2. SaidOf(fields[f].rep, s) = << >> <=> s = << >>
    BY DEF SaidOf
  <2>3. Sent(b, f) = s
    BY DEF Sent
  <2>. HIDE DEF s
  <2>4. CASE s = << >>
    <3>1. Index(h[t], f) = Default
      BY <1>5, <2>1, <2>2, <2>4 DEF Index, Missing
    <3>. QED
      BY <1>5, <2>3, <2>4, <3>1 DEF Default
  <2>5. CASE s # << >>
    <3>1. Index(h[t], f) = Given(h[t].raw[f])
      BY <2>1, <2>2, <2>5 DEF Index
    <3>. QED
      BY <1>5, <2>3, <2>5, <3>1 DEF Given
  <2>. QED
    BY <2>4, <2>5
<1>. QED
  BY <1>4, <1>5

LEMMA MessagesRead ==
  ASSUME HeapOK(heap), NEW t \in DOMAIN heap, NEW f
  PROVE  ReadAsSent(t, f)
<1>. SUFFICES ASSUME Read(t, f), Good(heap[t].from)
              PROVE  returned'.is = IF f \notin DOMAIN Schema[heap[t].type] THEN "error"
                                    ELSE IF Sent(heap[t].from, f) = << >> THEN "default" ELSE "value"
  BY Zenon DEF ReadAsSent
<1>1. t \in 1 .. Len(heap)
  BY DEF HeapOK, Heaps
<1>2. TableOK(heap, t)
  BY <1>1 DEF HeapOK
<1>3. CASE heap[t].held
  <2>. DEFINE g == expand(heap, t)
  <2>1. DOMAIN heap[t].raw = {} /\ heap[t].meta = "lazy"
    BY <1>2, <1>3, NoFieldsIs DEF TableOK
  <2>2. returned' = Index(g[t], f)
    BY <1>3, <2>1 DEF Read
  <2>3. /\ HeapOK(g) /\ t \in 1 .. Len(g) /\ ~g[t].held
        /\ g[t].from = heap[t].from /\ g[t].type = heap[t].type
    BY <1>1, <1>3, ExpandOK
  <2>. HIDE DEF g
  <2>4. Index(g[t], f).is = IF f \notin DOMAIN Schema[g[t].type] THEN "error"
                            ELSE IF Sent(g[t].from, f) = << >> THEN "default" ELSE "value"
    BY <2>3, IndexIs
  <2>. QED
    BY <2>2, <2>3, <2>4, Zenon
<1>4. CASE ~heap[t].held
  <2>1. heap[t].meta = "message"
    BY <1>2, <1>4 DEF TableOK
  <2>2. returned' = Index(heap[t], f)
    BY <2>1 DEF Read
  <2>. QED
    BY <1>1, <1>4, <2>2, IndexIs, Zenon
<1>. QED
  BY <1>3, <1>4

\* Only encode() leaves an encoder behind, and only when it raises.
LEMMA EncodersLeft ==
  ASSUME [MessagesNext]_messagesVars, encoders' # encoders
  PROVE  returned' = Raised
<1>1. PICK t \in DOMAIN heap : encode(t)
  BY DEF MessagesNext, messagesVars, decode, Read
<1>. QED
  BY <1>1 DEF encode

\* A message is read as it was sent, for any schema and any buffers: at every level and at
\* any time a table holds what the part of its buffer before an error says, a field of a
\* good buffer reads as what was sent or as missing, and encoders stay only after an error
\* (protobuf.lua, decode_cb of pbc-lua.c).
THEOREM MessagesReadAsSent == MessagesSpec => ReadsWhatWasSent
<1>1. MessagesInit => HeapOK(heap)
  BY MessagesBegin
<1>2. HeapOK(heap) /\ [MessagesNext]_messagesVars => HeapOK(heap)'
  BY MessagesStep
<1>3. HeapOK(heap) => FieldsFromWire
  BY MessagesGood
<1>4. HeapOK(heap) /\ [MessagesNext]_messagesVars =>
        [\A t \in DOMAIN heap, f \in AllFields : ReadAsSent(t, f)]_messagesVars
  BY MessagesRead
<1>5. [MessagesNext]_messagesVars => [encoders' # encoders => returned' = Raised]_messagesVars
  BY EncodersLeft
<1>. QED
  BY <1>1, <1>2, <1>3, <1>4, <1>5, PTL DEF MessagesSpec, ReadsWhatWasSent
================================================================================
