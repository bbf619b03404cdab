------------------------------- MODULE WireProofs -------------------------------
(***************************************************************************)
(* A number written by write() is the number readInt32 makes of its bytes, *)
(* for every int and every size of a byte: with Base = 256, for all 32 bit *)
(* ints, those included whose bytes overflow the sum in readInt32.  So the *)
(* client stays in step with the bytes it wrote, however many requests     *)
(* there are, whatever their payloads and however the network cuts them,   *)
(* and the bytes carry the requests back one for one.  A server that       *)
(* announces lengths of its own is read frame for frame too.               *)
(***************************************************************************)
EXTENDS WireForeign, InductionLemmas

--------------------------------------------------------------------------------
(* Division *)

LEMMA Divide ==
  ASSUME NEW B \in Nat, B > 0, NEW n \in Int
  PROVE  /\ n = (n % B) + B * (n \div B)
         /\ n % B \in 0 .. B - 1 /\ n \div B \in Int
BY SMTT(20)

LEMMA DivideUnique ==
  ASSUME NEW B \in Nat, B > 0, NEW q \in Int, NEW r \in 0 .. B - 1
  PROVE  (r + B * q) % B = r /\ (r + B * q) \div B = q
BY SMTT(20)

LEMMA DivideBound ==
  ASSUME NEW B \in Nat, B > 0, NEW C \in Nat, NEW n \in Nat, n < B * C
  PROVE  n \div B \in Nat /\ n \div B < C
BY SMTT(20)

LEMMA Digit ==
  ASSUME NEW B \in Nat, B > 0, NEW C \in Nat,
         NEW r \in 0 .. B - 1, NEW q \in 0 .. C - 1
  PROVE  r + B * q \in 0 .. B * C - 1
BY SMTT(20)

LEMMA Halves ==
  ASSUME NEW H \in Nat, H > 0, NEW n \in Int
  PROVE  /\ n \in 0 .. 2 * H - 1 =>
              /\ ((n + H) % (2 * H)) - H \in -H .. H - 1
              /\ (((n + H) % (2 * H)) - H) % (2 * H) = n
         /\ n \in -H .. H - 1 => (((n % (2 * H)) + H) % (2 * H)) - H = n
<1>. DEFINE W == 2 * H
<1>1. CASE n \in 0 .. H - 1
  <2>1. (n + H) % W = n + H /\ n % W = n
    BY <1>1
  <2>. QED
    BY <1>1, <2>1
<1>2. CASE n \in H .. W - 1
  <2>1. n + H = (n - H) + W * 1 /\ n - H \in 0 .. W - 1 /\ W \in Nat /\ W > 0
    BY <1>2
  <2>2. (n + H) % W = n - H
    BY <2>1, DivideUnique
  <2>3. n - W = n + W * (-1) /\ n \in 0 .. W - 1
    BY <1>2
  <2>4. (n - W) % W = n
    BY <2>1, <2>3, DivideUnique
  <2>. QED
    BY <1>2, <2>2, <2>4
<1>3. CASE n \in -H .. -1
  <2>1. n = (n + W) + W * (-1) /\ n + W \in 0 .. W - 1 /\ W \in Nat /\ W > 0
    BY <1>3
  <2>2. n % W = n + W
    BY <2>1, DivideUnique
  <2>3. (n + W) + H = (n + H) + W * 1 /\ n + H \in 0 .. W - 1
    BY <1>3
  <2>4. ((n + W) + H) % W = n + H
    BY <2>1, <2>3, DivideUnique
  <2>. QED
    BY <1>3, <2>2, <2>4
<1>4. CASE n < -H \/ n > W - 1
  BY <1>4
<1>. QED
  BY <1>1, <1>2, <1>3, <1>4

--------------------------------------------------------------------------------
(* Ints and their bytes *)

LEMMA WordFacts ==
  /\ Base \in Nat /\ Base > 0 /\ Base * Base \in Nat /\ Base * (Base * Base) \in Nat
  /\ Word \in Nat /\ Word = Base * (Base * (Base * Base))
  /\ Word = 2 * (Word \div 2) /\ Word \div 2 \in Nat /\ Word \div 2 > 0
<1>. DEFINE h == Base \div 2
<1>1. Base \in Nat /\ Base > 1 /\ Base = 2 * h /\ h \in Nat /\ h > 0
  BY WireAssumption
<1>2. Base * Base \in Nat /\ Base * (Base * Base) \in Nat /\ Base * (Base * Base) > 0
  BY <1>1
<1>3. Word = Base * (Base * (Base * Base))
  BY <1>1 DEF Word
<1>. DEFINE c == Base * (Base * Base)
<1>4. Word = 2 * (h * c) /\ h * c \in Nat /\ h * c > 0
  <2>. HIDE DEF c, h
  <2>1. Word = (2 * h) * c /\ c \in Nat /\ c > 0 
    BY <1>1, <1>2, <1>3 DEF c
  <2>. QED
    BY <1>1, <2>1
<1>5. Word \div 2 = h * c
  <2>. HIDE DEF c, h
  <2>. QED
    BY <1>4
<1>. QED
  BY <1>1, <1>2, <1>3, <1>4, <1>5

\* The bytes of the int made of four bytes are those bytes.
LEMMA MemoryOfInt ==
  ASSUME NEW a \in Byte, NEW b \in Byte, NEW c \in Byte, NEW d \in Byte
  PROVE  /\ Memory(LittleEndian(<< a, b, c, d >>)) = << a, b, c, d >>
         /\ LittleEndian(<< a, b, c, d >>) \in Int32
<1>. DEFINE l == c + Base * d
            m == b + Base * l
            n == a + Base * m
<1>1. /\ Base \in Nat /\ Base > 0 /\ a \in 0 .. Base - 1 /\ b \in 0 .. Base - 1
      /\ c \in 0 .. Base - 1 /\ d \in 0 .. Base - 1
  BY WordFacts DEF Byte
<1>2. l \in 0 .. Base * Base - 1
  BY <1>1, Digit
<1>3. m \in 0 .. Base * (Base * Base) - 1
  <2>. HIDE DEF l
  <2>. QED
    BY <1>1, <1>2, WordFacts, Digit
<1>4. n \in 0 .. Word - 1
  <2>. HIDE DEF m
  <2>. QED
    BY <1>1, <1>3, WordFacts, Digit
<1>5. l % Base = c /\ l \div Base = d /\ d % Base = d
  BY <1>1, DivideUnique
<1>6. m % Base = b /\ m \div Base = l
  <2>. HIDE DEF l
  <2>. QED
    BY <1>1, <1>2, DivideUnique
<1>7. n % Base = a /\ n \div Base = m
  <2>. HIDE DEF m
  <2>. QED
    BY <1>1, <1>3, DivideUnique
<1>8. LittleEndian(<< a, b, c, d >>) = Wrap(n)
  BY DEF LittleEndian
<1>9. Wrap(n) % Word = n /\ Wrap(n) \in Int32
  <2>. DEFINE H == Word \div 2
  <2>1. H \in Nat /\ H > 0 /\ Word = 2 * H /\ n \in 0 .. 2 * H - 1 /\ n \in Int
    BY <1>4, WordFacts
  <2>. HIDE DEF H, n
  <2>2. /\ ((n + H) % (2 * H)) - H \in -H .. H - 1
        /\ (((n + H) % (2 * H)) - H) % (2 * H) = n
    BY <2>1, Halves
  <2>3. ((n + H) % Word) - H \in -H .. H - 1 /\ (((n + H) % Word) - H) % Word = n
    BY <2>1, <2>2
  <2>. QED
    BY <2>3 DEF Wrap, Int32, H
<1>. HIDE DEF l, m, n
<1>. QED
  BY <1>5, <1>6, <1>7, <1>8, <1>9 DEF Memory

\* The int made of the bytes of an int is that int.
LEMMA IntOfMemory ==
  ASSUME NEW v \in Int32
  PROVE  /\ LittleEndian(Memory(v)) = v
         /\ \E a \in Byte, b \in Byte, c \in Byte, d \in Byte :
              Memory(v) = << a, b, c, d >>
<1>. DEFINE n == v % Word
            m == n \div Base
            l == m \div Base
            k == l \div Base
<1>1. v \in Int /\ n \in 0 .. Word - 1 /\ n \in Nat /\ n < Base * (Base * (Base * Base))
  BY WordFacts, Divide DEF Int32
<1>. HIDE DEF n
<1>2. m \in Nat /\ m < Base * (Base * Base)
  BY <1>1, WordFacts, DivideBound
<1>. HIDE DEF m
<1>3. l \in Nat /\ l < Base * Base
  BY <1>2, WordFacts, DivideBound DEF l
<1>. HIDE DEF l
<1>4. k \in Nat /\ k < Base
  BY <1>3, WordFacts, DivideBound DEF k
<1>. HIDE DEF k
<1>5. k % Base = k
  BY <1>4, WordFacts
<1>6. /\ n = (n % Base) + Base * m /\ n % Base \in Byte
      /\ m = (m % Base) + Base * l /\ m % Base \in Byte
      /\ l = (l % Base) + Base * k /\ l % Base \in Byte
      /\ k \in Byte
  <2>. Base \in Nat /\ Base > 0
    BY WordFacts
  <2>1. \A x \in Nat : x = (x % Base) + Base * (x \div Base) /\ x % Base \in Byte
    BY Divide DEF Byte
  <2>2. n = (n % Base) + Base * m /\ n % Base \in Byte
    BY <1>1, <2>1 DEF m
  <2>3. m = (m % Base) + Base * l /\ m % Base \in Byte
    BY <1>2, <2>1 DEF l
  <2>4. l = (l % Base) + Base * k /\ l % Base \in Byte
    BY <1>3, <2>1 DEF k
  <2>5. k \in Byte
    BY <1>4 DEF Byte
  <2>. QED
    BY <2>2, <2>3, <2>4, <2>5
<1>7. Memory(v) = << n % Base, m % Base, l % Base, k >>
  BY <1>5 DEF Memory, n, m, l, k
<1>8. LittleEndian(Memory(v)) = Wrap(n)
  BY <1>6, <1>7 DEF LittleEndian
<1>9. Wrap(n) = v
  BY <1>1, WordFacts, Halves DEF Wrap, Int32, n
<1>. QED
  BY <1>6, <1>7, <1>8, <1>9

LEMMA ReverseFour ==
  ASSUME NEW a, NEW b, NEW c, NEW d
  PROVE  Reverse(<< a, b, c, d >>) = << d, c, b, a >>
BY DEF Reverse

--------------------------------------------------------------------------------

\* readInt32 makes of the bytes that write() stores for a length or a type code
\* the same length or type code: every int, for every size of a byte.
THEOREM WireRoundTrip ==
  \A v \in Int32 : Int32Read(Memory(host_to_network_long(v))) = v
<1>. SUFFICES ASSUME NEW v \in Int32
              PROVE  Int32Read(Memory(host_to_network_long(v))) = v
  OBVIOUS
<1>1. PICK a \in Byte, b \in Byte, c \in Byte, d \in Byte : Memory(v) = << a, b, c, d >>
  BY IntOfMemory
<1>. DEFINE net == LittleEndian(<< d, c, b, a >>)
<1>2. host_to_network_long(v) = net
  BY <1>1, ReverseFour DEF host_to_network_long
<1>3. net \in Int32 /\ Memory(net) = << d, c, b, a >>
  BY <1>1, MemoryOfInt
<1>4. Int32Read(Memory(net)) = host_to_network_long(net)
  BY <1>3 DEF Int32Read, network_to_host_long
<1>5. host_to_network_long(net) = LittleEndian(<< a, b, c, d >>)
  BY <1>3, ReverseFour DEF host_to_network_long
<1>. QED
  BY <1>1, <1>2, <1>4, <1>5, IntOfMemory

--------------------------------------------------------------------------------
(* Sequences *)

\* A sequence cut in two ways: the shorter first piece begins the longer one.
LEMMA Cut ==
  \A a, b, c, d \in Seq(Byte) :
    a \o b = c \o d /\ Len(c) <= Len(a)
      => /\ SubSeq(a, 1, Len(c)) = c
         /\ SubSeq(a, Len(c) + 1, Len(a)) \in Seq(Byte)
         /\ SubSeq(a, Len(c) + 1, Len(a)) \o b = d
<1>. SUFFICES ASSUME NEW a \in Seq(Byte), NEW b \in Seq(Byte), NEW c \in Seq(Byte),
                     NEW d \in Seq(Byte), a \o b = c \o d, Len(c) <= Len(a)
              PROVE  /\ SubSeq(a, 1, Len(c)) = c
                     /\ SubSeq(a, Len(c) + 1, Len(a)) \in Seq(Byte)
                     /\ SubSeq(a, Len(c) + 1, Len(a)) \o b = d
  BY ZenonT(30)
<1>. DEFINE n == Len(c)
            r == SubSeq(a, n + 1, Len(a))
            q == SubSeq(a, 1, n)
<1>1. n \in Nat /\ Len(a) \in Nat /\ Len(b) \in Nat /\ Len(d) \in Nat
  OBVIOUS
<1>2. Len(a) + Len(b) = n + Len(d)
  <2>1. Len(a \o b) = Len(a) + Len(b) /\ Len(c \o d) = n + Len(d)
    BY ConcatProperties
  <2>. QED
    BY <2>1
<1>3. /\ q \in Seq(Byte) /\ Len(q) = n /\ \A i \in 1 .. n : q[i] = a[i]
      /\ r \in Seq(Byte) /\ Len(r) = Len(a) - n /\ \A i \in 1 .. Len(a) - n : r[i] = a[n + i]
  BY <1>1
<1>4. \A i \in 1 .. Len(a) + Len(b) :
        (IF i <= Len(a) THEN a[i] ELSE b[i - Len(a)]) = (IF i <= n THEN c[i] ELSE d[i - n])
  <2>1. \A i \in 1 .. Len(a) + Len(b) :
          (a \o b)[i] = IF i <= Len(a) THEN a[i] ELSE b[i - Len(a)]
    BY ConcatProperties
  <2>2. \A i \in 1 .. n + Len(d) : (c \o d)[i] = IF i <= n THEN c[i] ELSE d[i - n]
    BY ConcatProperties
  <2>. QED
    BY <1>2, <2>1, <2>2
<1>. HIDE DEF n, r, q
<1>5. q = c
  <2>1. \A i \in 1 .. n : q[i] = c[i]
    BY <1>1, <1>3, <1>4 DEF n
  <2>2. Len(q) = Len(c)
    BY <1>3 DEF n
  <2>. QED
    BY <1>3, <2>1, <2>2, SeqEqual DEF n
<1>6. r \o b = d
  <2>1. Len(r \o b) = Len(d) /\ r \o b \in Seq(Byte)
    BY <1>1, <1>2, <1>3
  <2>2. ASSUME NEW j \in 1 .. Len(d) PROVE (r \o b)[j] = d[j]
    <3>1. (r \o b)[j] = IF j <= Len(a) - n THEN r[j] ELSE b[j - (Len(a) - n)]
      BY <1>1, <1>2, <1>3, ConcatProperties
    <3>. DEFINE i == n + j
    <3>2. i \in 1 .. Len(a) + Len(b) /\ ~(i <= n) /\ i - n = j
      BY <1>1, <1>2
    <3>3. (IF i <= Len(a) THEN a[i] ELSE b[i - Len(a)]) = d[j]
      <4>. HIDE DEF i
      <4>. QED
        BY <1>4, <3>2
    <3>4. CASE j <= Len(a) - n
      <4>1. i <= Len(a) /\ r[j] = a[i]
        BY <1>1, <1>3, <3>4
      <4>. QED
        BY <3>1, <3>3, <3>4, <4>1
    <3>5. CASE ~(j <= Len(a) - n)
      <4>1. ~(i <= Len(a)) /\ i - Len(a) = j - (Len(a) - n)
        BY <1>1, <3>5
      <4>. QED
        BY <3>1, <3>3, <3>5, <4>1
    <3>. QED
      BY <3>4, <3>5
  <2>. QED
    BY <2>1, <2>2, SeqEqual
<1>. QED
  BY <1>3, <1>5, <1>6 DEF n, r, q

\* Three pieces one after the other, the last two taken apart again.
LEMMA ThreePieces ==
  \A a, b, c \in Seq(Byte) :
    /\ (a \o b) \o c = a \o (b \o c)
    /\ b \o c \in Seq(Byte) /\ a \o (b \o c) \in Seq(Byte)
    /\ Len(b \o c) = Len(b) + Len(c)
    /\ SubSeq(b \o c, 1, Len(b)) = b
    /\ SubSeq(b \o c, Len(b) + 1, Len(b \o c)) = c
<1>. TAKE a \in Seq(Byte), b \in Seq(Byte), c \in Seq(Byte)
<1>1. (a \o b) \o c = a \o (b \o c)
  BY ConcatAssociative
<1>2. /\ b \o c \in Seq(Byte) /\ Len(b \o c) = Len(b) + Len(c)
      /\ Len(b) \in Nat /\ Len(c) \in Nat
  BY ConcatProperties
<1>. DEFINE d == b \o c
<1>3. d \in Seq(Byte) /\ Len(b) <= Len(d)
  BY <1>2
<1>4. d \o << >> = b \o c /\ << >> \in Seq(Byte)
  BY <1>3, ConcatEmptySeq, EmptySeq
<1>. HIDE DEF d
<1>5. a \o d \in Seq(Byte)
  BY <1>3, ConcatProperties
<1>6. /\ SubSeq(d, 1, Len(b)) = b
      /\ SubSeq(d, Len(b) + 1, Len(d)) \in Seq(Byte)
      /\ SubSeq(d, Len(b) + 1, Len(d)) \o << >> = c
  BY <1>3, <1>4, Cut
<1>7. SubSeq(d, Len(b) + 1, Len(d)) = c
  BY <1>6, ConcatEmptySeq
<1>. QED
  BY <1>1, <1>2, <1>5, <1>6, <1>7 DEF d

--------------------------------------------------------------------------------
(* The loop that makes a Lua string of a payload *)

\* Its recursive function, from byte i + 1 on.
Copies(f, p) ==
  \A i \in 0 .. Len(p) :
    f[i] = IF i + ChunkSize >= Len(p)
           THEN SubSeq(p, i + 1, Len(p))
           ELSE SubSeq(p, i + 1, i + ChunkSize) \o f[i + ChunkSize]

\* Any such function returns the rest of the payload, whatever the size of a chunk.
LEMMA CopiesTheRest ==
  ASSUME NEW X, NEW p \in Seq(X), NEW f, Copies(f, p)
  PROVE  \A i \in 0 .. Len(p) : f[i] = SubSeq(p, i + 1, Len(p))
<1>. DEFINE n == Len(p)
            S == {k \in 0 .. n : f[n - k] # SubSeq(p, (n - k) + 1, n)}
<1>1. n \in Nat /\ ChunkSize \in Nat /\ ChunkSize > 0
  BY WireAssumption
<1>2. ASSUME S # {} PROVE FALSE
  <2>1. PICK k \in S : \A j \in S : k <= j
    <3>1. S \subseteq Nat
      BY <1>1
    <3>. HIDE DEF S
    <3>. QED
      BY <1>2, <3>1, LeastNumber
  <2>. DEFINE i == n - k
  <2>2. i \in 0 .. n /\ k \in 0 .. n /\ f[i] # SubSeq(p, i + 1, n)
    BY <1>1
  <2>3. i + ChunkSize < n /\ f[i] = SubSeq(p, i + 1, i + ChunkSize) \o f[i + ChunkSize]
    <3>. HIDE DEF i
    <3>1. f[i] = IF i + ChunkSize >= n
                 THEN SubSeq(p, i + 1, n)
                 ELSE SubSeq(p, i + 1, i + ChunkSize) \o f[i + ChunkSize]
      BY <2>2 DEF Copies
    <3>2. CASE i + ChunkSize >= n
      <4>. HIDE DEF n
      <4>. QED
        BY <2>2, <3>1, <3>2
    <3>3. CASE ~(i + ChunkSize >= n)
      <4>. HIDE DEF n, S
      <4>1. i + ChunkSize < n
        BY <1>1, <2>2, <3>3
      <4>2. f[i] = SubSeq(p, i + 1, i + ChunkSize) \o f[i + ChunkSize]
        BY <3>1, <3>3, Zenon
      <4>. QED
        BY <4>1, <4>2
    <3>. QED
      BY <3>2, <3>3
  <2>4. f[i + ChunkSize] = SubSeq(p, (i + ChunkSize) + 1, n)
    <3>. DEFINE j == k - ChunkSize
    <3>1. j \in 0 .. n /\ j < k /\ n - j = i + ChunkSize
      BY <1>1, <2>2, <2>3
    <3>2. j \notin S
      <4>. HIDE DEF S, n
      <4>1. ~(k <= j)
        BY <1>1, <2>2, <3>1
      <4>. HIDE DEF j
      <4>. QED
        BY <2>1, <4>1
    <3>3. f[n - j] = SubSeq(p, (n - j) + 1, n)
      BY <3>1, <3>2
    <3>. QED
      BY <3>1, <3>3
  <2>5. SubSeq(p, i + 1, i + ChunkSize) \o SubSeq(p, (i + ChunkSize) + 1, n)
          = SubSeq(p, i + 1, n)
    <3>. DEFINE l == i + 1
                m == i + ChunkSize
    <3>1. l \in 1 .. Len(p) + 1 /\ m \in l - 1 .. Len(p) /\ n \in m .. Len(p)
      BY <1>1, <2>2, <2>3
    <3>. HIDE DEF l, m, i, n, S
    <3>2. SubSeq(p, l, m) \o SubSeq(p, m + 1, n) = SubSeq(p, l, n)
      BY <3>1, ConcatAdjacentSubSeq
    <3>. QED
      BY <3>2 DEF l, m
  <2>. QED
    BY <2>2, <2>3, <2>4, <2>5
<1>3. ASSUME NEW i \in 0 .. n PROVE f[i] = SubSeq(p, i + 1, n)
  <2>. DEFINE k == n - i
  <2>1. k \in 0 .. n /\ n - k = i
    BY <1>1
  <2>2. k \notin S
    BY <1>2
  <2>3. f[n - k] = SubSeq(p, (n - k) + 1, n)
    BY <2>1, <2>2
  <2>. QED
    BY <2>1, <2>3
<1>. QED
  BY <1>3

\* The Lua string is the payload.
LEMMA LuaStringIs ==
  ASSUME NEW X, NEW p \in Seq(X)
  PROVE  LuaString(p) = p
<1>. DEFINE n == Len(p)
            e(f, i) == IF i + ChunkSize >= n
                       THEN SubSeq(p, i + 1, n)
                       ELSE SubSeq(p, i + 1, i + ChunkSize) \o f[i + ChunkSize]
            rest == [i \in 0 .. n |-> SubSeq(p, i + 1, n)]
            copy == CHOOSE f : f = [i \in 0 .. n |-> e(f, i)]
<1>1. n \in Nat /\ ChunkSize \in Nat /\ ChunkSize > 0
  BY WireAssumption
<1>2. \A i \in 0 .. n : rest[i] = e(rest, i)
  <2>. TAKE i \in 0 .. n
  <2>1. CASE i + ChunkSize >= n
    BY <2>1
  <2>2. CASE ~(i + ChunkSize >= n)
    <3>. DEFINE l == i + 1
                m == i + ChunkSize
    <3>1. /\ l \in 1 .. Len(p) + 1 /\ m \in l - 1 .. Len(p) /\ n \in m .. Len(p)
          /\ m \in 0 .. n
      BY <1>1, <2>2
    <3>2. rest[m] = SubSeq(p, m + 1, n)
      BY <3>1
    <3>3. SubSeq(p, l, m) \o SubSeq(p, m + 1, n) = SubSeq(p, l, n)
      <4>. HIDE DEF l, m, n, rest, e
      <4>. QED
        BY <3>1, ConcatAdjacentSubSeq
    <3>4. e(rest, i) = SubSeq(p, l, m) \o rest[m]
      BY <2>2
    <3>. QED
      BY <3>2, <3>3, <3>4
  <2>. QED
    BY <2>1, <2>2
<1>3. rest = [i \in 0 .. n |-> e(rest, i)]
  <2>. HIDE DEF e
  <2>. QED
    BY <1>2
<1>4. copy = [i \in 0 .. n |-> e(copy, i)]
  <2>. HIDE DEF e, rest
  <2>. QED
    BY <1>3
<1>5. \A i \in 0 .. n : copy[i] = e(copy, i)
  <2>. HIDE DEF e, copy
  <2>. QED
    BY <1>4
<1>6. Copies(copy, p)
  <2>. HIDE DEF copy
  <2>. QED
    BY <1>5 DEF Copies
<1>7. copy[0] = SubSeq(p, 0 + 1, n)
  <2>. HIDE DEF copy
  <2>. QED
    BY <1>1, <1>6, CopiesTheRest
<1>8. LuaString(p) = copy[0]
  BY DEF LuaString
<1>9. SubSeq(p, 1, n) = p
  BY SubSeqFull
<1>. HIDE DEF copy
<1>. QED
  BY <1>7, <1>8, <1>9

--------------------------------------------------------------------------------
(* The bytes of a request *)

Requests == [type : TypeCodes, payload : Payloads]

\* The four bytes of the header, and the body behind them.
Header(m) == Memory(host_to_network_long(Len(m.payload) + 4))
Body(m) == Memory(host_to_network_long(m.type)) \o m.payload

\* Four bytes of the network, and the int they stand for.
LEMMA FourBytes ==
  ASSUME NEW v \in Int32
  PROVE  LET b == Memory(host_to_network_long(v))
         IN  b \in Seq(Byte) /\ Len(b) = 4 /\ Int32Read(b) = v
<1>. DEFINE b == Memory(host_to_network_long(v))
<1>1. host_to_network_long(v) \in Int32
  <2>1. PICK x \in Byte, y \in Byte, z \in Byte, w \in Byte : Memory(v) = << x, y, z, w >>
    BY IntOfMemory
  <2>2. LittleEndian(<< w, z, y, x >>) \in Int32
    BY MemoryOfInt
  <2>. QED
    BY <2>1, <2>2, ReverseFour DEF host_to_network_long
<1>2. \E x \in Byte, y \in Byte, z \in Byte, w \in Byte : b = << x, y, z, w >>
  BY <1>1, IntOfMemory
<1>3. Int32Read(b) = v
  BY WireRoundTrip
<1>. HIDE DEF b
<1>4. b \in Seq(Byte) /\ Len(b) = 4
  BY <1>2
<1>. QED
  BY <1>3, <1>4 DEF b

LEMMA EncodeParts ==
  ASSUME NEW m \in Requests
  PROVE  /\ Encode(m) = Header(m) \o Body(m)
         /\ Encode(m) \in Seq(Byte)
         /\ Header(m) \in Seq(Byte) /\ Len(Header(m)) = 4
         /\ Int32Read(Header(m)) = Len(m.payload) + 4
         /\ Body(m) \in Seq(Byte) /\ Len(Body(m)) = Len(m.payload) + 4
         /\ Int32Read(SubSeq(Body(m), 1, 4)) = m.type
         /\ SubSeq(Body(m), 5, Len(Body(m))) = m.payload
         /\ Len(m.payload) \in Nat /\ m.payload \in Seq(Byte)
<1>. DEFINE p == m.payload
            l == Len(p) + 4
            h == Memory(host_to_network_long(l))
            t == Memory(host_to_network_long(m.type))
<1>1. p \in Payloads /\ m.type \in TypeCodes
  BY DEF Requests
<1>2. p \in Seq(Byte) /\ m.type \in Int32 /\ Len(p) + 8 \in Int32 /\ Len(p) \in Nat
  <2>1. p \in Seq(Byte) /\ m.type \in Int32 /\ Len(p) + 8 \in Int32
    BY <1>1, WireAssumption
  <2>. QED
    BY <2>1
<1>3. l \in Int32
  BY <1>2, WordFacts DEF Int32
<1>4. h \in Seq(Byte) /\ Len(h) = 4 /\ Int32Read(h) = l
  <2>. HIDE DEF l
  <2>. QED
    BY <1>3, FourBytes
<1>5. t \in Seq(Byte) /\ Len(t) = 4 /\ Int32Read(t) = m.type
  BY <1>2, FourBytes
<1>6. (Len(p) + 4 + 4) + HeaderLengthFix = l
  BY <1>2 DEF HeaderLengthFix
<1>7. Encode(m) = (h \o t) \o p
  <2>1. Encode(m) = (Memory(host_to_network_long((Len(p) + 4 + 4) + HeaderLengthFix)) \o t) \o p
    BY DEF Encode
  <2>. HIDE DEF l, t, p
  <2>. QED
    BY <1>6, <2>1
<1>8. Header(m) = h /\ Body(m) = t \o p
  BY DEF Header, Body
<1>. HIDE DEF l, h, t, p
<1>9. /\ t \o p \in Seq(Byte) /\ Len(t \o p) = 4 + Len(p)
      /\ (h \o t) \o p = h \o (t \o p) /\ h \o (t \o p) \in Seq(Byte)
      /\ SubSeq(t \o p, 1, 4) = t /\ SubSeq(t \o p, 4 + 1, Len(t \o p)) = p
  <2>1. h \in Seq(Byte) /\ t \in Seq(Byte) /\ p \in Seq(Byte) /\ Len(t) = 4
    BY <1>2, <1>4, <1>5
  <2>2. /\ (h \o t) \o p = h \o (t \o p)
        /\ t \o p \in Seq(Byte) /\ h \o (t \o p) \in Seq(Byte)
        /\ Len(t \o p) = Len(t) + Len(p)
        /\ SubSeq(t \o p, 1, Len(t)) = t
        /\ SubSeq(t \o p, Len(t) + 1, Len(t \o p)) = p
    BY <2>1, ThreePieces, Zenon
  <2>. QED
    BY <2>1, <2>2, Zenon
<1>10. SubSeq(t \o p, 1, 4) = t /\ SubSeq(t \o p, 5, 4 + Len(p)) = p
  BY <1>9
<1>11. Int32Read(h) = Len(p) + 4 /\ 4 + Len(p) = Len(p) + 4
  BY <1>2, <1>4 DEF l
<1>12. Encode(m) = h \o (t \o p)
  BY <1>7, <1>9
<1>13. p = m.payload
  BY DEF p
<1>. DEFINE b == t \o p
<1>. HIDE DEF b
<1>14. /\ b \in Seq(Byte) /\ Len(b) = Len(p) + 4 /\ SubSeq(b, 1, 4) = t
       /\ SubSeq(b, 5, Len(b)) = p /\ h \o b \in Seq(Byte)
       /\ Header(m) = h /\ Body(m) = b /\ Encode(m) = h \o b
  BY <1>8, <1>9, <1>10, <1>11, <1>12 DEF b
<1>. QED
  BY <1>2, <1>4, <1>5, <1>11, <1>13, <1>14

--------------------------------------------------------------------------------
(* The requests that have not come back *)

\* The bytes of each, in order.
Unread == [i \in 1 .. Len(written) - Len(delivered) |-> Encode(written[Len(delivered) + i])]

\* What the connection carries behind the next of them.
Behind == FlattenSeq(Tail(Unread))

Types ==
  /\ written \in Seq(Requests) /\ delivered \in Seq(Requests)
  /\ toServer \in Seq(Byte) /\ toClient \in Seq(Byte)
  /\ reading \in {"header", "body", "thrown"}
  /\ bodySize \in Int

\* What came back is what was written, as far as it came back.
CameBack ==
  /\ Len(delivered) <= Len(written)
  /\ \A i \in 1 .. Len(delivered) : delivered[i] = written[i]

\* The inductive invariant.
WInv == Types /\ CameBack /\ InStep

LEMMA PendingUnread == Pending = FlattenSeq(Unread)
BY DEF Pending, Unread

LEMMA UnreadType ==
  ASSUME Types, CameBack
  PROVE  /\ Unread \in Seq(Seq(Byte)) /\ Len(Unread) = Len(written) - Len(delivered)
         /\ Pending \in Seq(Byte)
<1>. DEFINE n == Len(written) - Len(delivered)
            e(i) == Encode(written[Len(delivered) + i])
<1>1. n \in Nat /\ Len(written) \in Nat /\ Len(delivered) \in Nat
  BY DEF Types, CameBack
<1>2. ASSUME NEW i \in 1 .. n PROVE e(i) \in Seq(Byte)
  <2>1. written[Len(delivered) + i] \in Requests
    BY <1>1 DEF Types
  <2>. QED
    BY <2>1, EncodeParts
<1>3. Unread = [i \in 1 .. n |-> e(i)]
  BY DEF Unread
<1>. HIDE DEF n, e
<1>4. Unread \in Seq(Seq(Byte)) /\ Len(Unread) = n
  BY <1>1, <1>2, <1>3
<1>5. FlattenSeq(Unread) \in Seq(Byte)
  BY <1>4, FlattenType
<1>. QED
  BY <1>4, <1>5, PendingUnread DEF n

\* The next request begins with its header, and its body lies behind it.
LEMMA NextRequest ==
  ASSUME Types, CameBack, Len(delivered) < Len(written),
         NEW w, w = written[Len(delivered) + 1]
  PROVE  /\ w \in Requests /\ Behind \in Seq(Byte)
         /\ Pending = Header(w) \o (Body(w) \o Behind)
         /\ SubSeq(Pending, 5, Len(Pending)) = Body(w) \o Behind
<1>1. Len(written) \in Nat /\ Len(delivered) \in Nat
  BY DEF Types
<1>2. w \in Requests
  BY <1>1 DEF Types
<1>3. Unread \in Seq(Seq(Byte)) /\ Unread # << >>
  <2>1. Unread \in Seq(Seq(Byte)) /\ Len(Unread) # Len(<< >>)
    BY <1>1, UnreadType, EmptySeq
  <2>. QED
    BY <2>1, Zenon
<1>4. Head(Unread) = Encode(w)
  <2>1. Unread[1] = Encode(w)
    BY <1>1 DEF Unread
  <2>. QED
    BY <1>3, <2>1
<1>5. Tail(Unread) \in Seq(Seq(Byte))
  BY <1>3, HeadTailProperties
<1>6. Behind \in Seq(Byte)
  BY <1>5, FlattenType DEF Behind
<1>7. Pending = Encode(w) \o Behind
  <2>1. FlattenSeq(Unread) = Head(Unread) \o FlattenSeq(Tail(Unread))
    BY <1>3, FlattenHead
  <2>. QED
    BY <1>4, <2>1, PendingUnread, Zenon DEF Behind
<1>. DEFINE h == Header(w)
            b == Body(w)
<1>8. h \in Seq(Byte) /\ Len(h) = 4 /\ b \in Seq(Byte) /\ Encode(w) = h \o b
  BY <1>2, EncodeParts
<1>. HIDE DEF h, b
<1>9. (h \o b) \o Behind = h \o (b \o Behind) /\ b \o Behind \in Seq(Byte)
  BY <1>6, <1>8, ThreePieces, Zenon
<1>. DEFINE c == b \o Behind
<1>10. Pending = h \o c /\ c \in Seq(Byte)
  BY <1>7, <1>8, <1>9
<1>. HIDE DEF c
<1>11. SubSeq(h \o c, Len(h) + 1, Len(h \o c)) = c
  BY <1>8, <1>10, ThreePieces, Zenon
<1>12. SubSeq(Pending, 5, Len(Pending)) = c
  BY <1>8, <1>10, <1>11
<1>. QED
  BY <1>2, <1>6, <1>10, <1>12 DEF c, h, b

--------------------------------------------------------------------------------
(* The steps *)

LEMMA WInvInit == WireInit => WInv
<1>. SUFFICES ASSUME WireInit PROVE WInv
  OBVIOUS
<1>1. written = << >> /\ delivered = << >> /\ toServer = << >> /\ toClient = << >>
  BY DEF WireInit
<1>2. Types
  BY <1>1, EmptySeq DEF WireInit, Types
<1>3. CameBack
  BY <1>1 DEF CameBack
<1>4. Pending = << >>
  <2>1. Unread \in Seq(Seq(Byte)) /\ Len(Unread) = 0
    BY <1>1, <1>2, <1>3, UnreadType
  <2>2. Unread = << >>
    BY <2>1, EmptySeq
  <2>. QED
    BY <2>2, PendingUnread, FlattenEmpty
<1>5. << >> \o << >> = << >>
  BY ConcatEmptySeq, EmptySeq
<1>6. InStep
  BY <1>1, <1>4, <1>5 DEF WireInit, InStep
<1>. QED
  BY <1>2, <1>3, <1>6 DEF WInv

LEMMA WriteInStep ==
  ASSUME WInv, NEW m \in Requests, write(m)
  PROVE  WInv'
<1>. DEFINE e == Encode(m)
<1>1. /\ Types /\ CameBack /\ InStep /\ Types' /\ CameBack'
      /\ e \in Seq(Byte) /\ Len(written) \in Nat /\ Len(delivered) \in Nat
  <2>1. Types /\ CameBack /\ InStep
    BY DEF WInv
  <2>2. e \in Seq(Byte) /\ written \in Seq(Requests) /\ toServer \in Seq(Byte)
    BY <2>1, EncodeParts DEF Types
  <2>3. toServer \o e \in Seq(Byte)
    <3>. HIDE DEF e
    <3>. QED
      BY <2>2
  <2>4. /\ Append(written, m) \in Seq(Requests)
        /\ Len(Append(written, m)) = Len(written) + 1
        /\ \A i \in 1 .. Len(written) : Append(written, m)[i] = written[i]
    BY <2>2, AppendProperties
  <2>. HIDE DEF e
  <2>5. Types'
    BY <2>1, <2>3, <2>4 DEF write, Types, e
  <2>6. CameBack'
    BY <2>1, <2>4 DEF write, CameBack, Types
  <2>. QED
    BY <2>1, <2>2, <2>5, <2>6 DEF Types
<1>2. Unread \in Seq(Seq(Byte)) /\ Len(Unread) = Len(written) - Len(delivered) /\ Pending \in Seq(Byte)
  BY <1>1, UnreadType
<1>3. Unread' = Append(Unread, e)
  <2>. DEFINE n == Len(written) - Len(delivered)
              u == [i \in 1 .. n + 1 |-> Encode(written'[Len(delivered) + i])]
  <2>1. n \in Nat /\ Len(written') = Len(written) + 1 /\ delivered' = delivered
    BY <1>1 DEF write, CameBack, Types
  <2>2. Unread' = u
    BY <1>1, <2>1 DEF Unread
  <2>3. ASSUME NEW i \in 1 .. n + 1 PROVE u[i] = Append(Unread, e)[i]
    <3>. DEFINE k == Len(delivered) + i
    <3>1. u[i] = Encode(written'[k]) /\ k \in 1 .. Len(written) + 1
      BY <1>1, <2>1
    <3>2. CASE i = n + 1
      <4>1. k = Len(written) + 1
        BY <1>1, <3>2
      <4>2. written'[k] = m
        BY <1>1, <4>1 DEF write, Types
      <4>3. Append(Unread, e)[i] = e
        <5>. HIDE DEF e
        <5>. QED
          BY <1>1, <1>2, <3>2
      <4>. QED
        BY <3>1, <4>2, <4>3
    <3>3. CASE i # n + 1
      <4>1. k \in 1 .. Len(written) /\ i \in 1 .. n
        BY <1>1, <2>1, <3>3
      <4>2. written'[k] = written[k]
        BY <1>1, <4>1 DEF write, Types
      <4>3. Append(Unread, e)[i] = Unread[i]
        <5>. HIDE DEF e
        <5>. QED
          BY <1>1, <1>2, <4>1
      <4>4. Unread[i] = Encode(written[k])
        BY <4>1 DEF Unread
      <4>. QED
        BY <3>1, <4>2, <4>3, <4>4
    <3>. QED
      BY <3>2, <3>3
  <2>4. /\ Append(Unread, e) \in Seq(Seq(Byte)) /\ Len(Append(Unread, e)) = n + 1
    BY <1>1, <1>2, AppendProperties
  <2>5. Unread' \in Seq(Seq(Byte)) /\ Len(Unread') = n + 1
    <3>1. \A i \in 1 .. n + 1 : u[i] \in Seq(Byte)
      <4>. HIDE DEF u, e
      <4>. QED
        BY <2>1, <2>3, <2>4, ElementOfSeq
    <3>2. u = [i \in 1 .. n + 1 |-> u[i]]
      OBVIOUS
    <3>. HIDE DEF u, n
    <3>. QED
      BY <2>1, <2>2, <3>1, <3>2, SMTT(30)
  <2>. QED
    BY <2>2, <2>3, <2>4, <2>5, SeqEqual
<1>4. Pending' = Pending \o e
  <2>1. Pending' = FlattenSeq(Unread')
    BY DEF Pending, Unread
  <2>. HIDE DEF e
  <2>2. FlattenSeq(Append(Unread, e)) = FlattenSeq(Unread) \o e
    BY <1>1, <1>2, FlattenAppend
  <2>. QED
    BY <1>3, <2>1, <2>2, PendingUnread
<1>. DEFINE a == toClient
            b == toServer
<1>5. a \in Seq(Byte) /\ b \in Seq(Byte) /\ a' = a /\ b' = b \o e
  BY <1>1 DEF write, Types
<1>6. a \o (b \o e) = (a \o b) \o e
  <2>. HIDE DEF a, b, e
  <2>. QED
    BY <1>1, <1>5, ThreePieces, ZenonT(30)
<1>7. CASE reading = "header"
  <2>1. a \o b = Pending
    BY <1>1, <1>7 DEF InStep
  <2>2. (toClient \o toServer)' = Pending'
    BY <1>4, <1>5, <1>6, <2>1
  <2>3. InStep'
    BY <1>1, <1>7, <2>2 DEF InStep, write, CameBack
  <2>. QED
    BY <1>1, <2>3 DEF WInv
<1>8. CASE reading = "body"
  <2>. DEFINE w == written[Len(delivered) + 1]
              h == Header(w)
              c == Body(w) \o Behind
  <2>1. /\ Len(delivered) < Len(written) /\ bodySize = Len(w.payload) + 4
        /\ a \o b = SubSeq(Pending, 5, Len(Pending))
    BY <1>1, <1>8 DEF InStep
  <2>2. /\ w \in Requests /\ Behind \in Seq(Byte) /\ Pending = h \o c
        /\ SubSeq(Pending, 5, Len(Pending)) = c
    BY <1>1, <2>1, NextRequest
  <2>3. h \in Seq(Byte) /\ Len(h) = 4 /\ Body(w) \in Seq(Byte)
    BY <2>2, EncodeParts
  <2>4. c \in Seq(Byte)
    BY <2>2, <2>3, ThreePieces, Zenon
  <2>5. written'[Len(delivered') + 1] = w
    BY <1>1, <2>1 DEF write, Types
  <2>6. (toClient \o toServer)' = c \o e
    <3>. HIDE DEF c
    <3>. QED
      BY <1>5, <1>6, <2>1, <2>2
  <2>. HIDE DEF h, c, w, e
  <2>7. Pending' = h \o (c \o e) /\ c \o e \in Seq(Byte)
    <3>1. e \in Seq(Byte)
      BY <1>1
    <3>2. (h \o c) \o e = h \o (c \o e)
      BY <2>3, <2>4, <3>1, ConcatAssociative
    <3>3. c \o e \in Seq(Byte)
      BY <2>4, <3>1, ConcatProperties
    <3>. QED
      BY <1>4, <2>2, <3>2, <3>3
  <2>. DEFINE d == c \o e
  <2>8. SubSeq(Pending', 5, Len(Pending')) = d
    <3>1. d \in Seq(Byte) /\ Pending' = h \o d
      BY <2>7
    <3>. HIDE DEF d
    <3>2. SubSeq(h \o d, Len(h) + 1, Len(h \o d)) = d
      BY <2>3, <3>1, ThreePieces, Zenon
    <3>. QED
      BY <2>3, <3>1, <3>2
  <2>9. InStep'
    <3>1. Len(delivered') < Len(written') /\ Len(delivered') <= Len(written')
      BY <1>1, <2>1 DEF write, CameBack, Types
    <3>2. bodySize' = Len(written'[Len(delivered') + 1].payload) + 4 /\ reading' = "body"
      BY <1>8, <2>1, <2>5 DEF write, w
    <3>. QED
      BY <2>6, <2>8, <3>1, <3>2 DEF InStep
  <2>. QED
    BY <1>1, <2>9 DEF WInv
<1>. QED
  BY <1>1, <1>7, <1>8 DEF InStep, Types

\* What the server sends back is what it has.
LEMMA EchoInStep ==
  ASSUME WInv, NEW n \in 1 .. Len(toServer), Echo(n)
  PROVE  WInv'
<1>. DEFINE a == toClient
            b == SubSeq(toServer, 1, n)
            c == SubSeq(toServer, n + 1, Len(toServer))
<1>1. /\ Types /\ CameBack /\ InStep /\ toServer \in Seq(Byte)
      /\ a \in Seq(Byte) /\ b \in Seq(Byte) /\ c \in Seq(Byte)
      /\ a \o b \in Seq(Byte)
  <2>1. toServer \in Seq(Byte) /\ toClient \in Seq(Byte) /\ Len(toServer) \in Nat
    BY DEF WInv, Types
  <2>2. b \in Seq(Byte) /\ c \in Seq(Byte)
    BY <2>1
  <2>. HIDE DEF b, c
  <2>. QED
    BY <2>1, <2>2 DEF WInv
<1>2. b \o c = toServer
  <2>1. n \in 1 .. Len(toServer) /\ Len(toServer) \in Nat
    BY <1>1
  <2>. QED
    BY <1>1, <2>1
<1>3. (toClient \o toServer)' = toClient \o toServer
  <2>1. (a \o b) \o c = a \o (b \o c)
    <3>1. a \in Seq(Byte) /\ b \in Seq(Byte) /\ c \in Seq(Byte)
      BY <1>1
    <3>. HIDE DEF a, b, c
    <3>. QED
      BY <3>1, ThreePieces, SMTT(30)
  <2>2. (toClient \o toServer)' = (a \o b) \o c
    BY DEF Echo
  <2>. QED
    BY <1>2, <2>1, <2>2
<1>4. Pending' = Pending
  BY DEF Echo, Pending
<1>5. Types' /\ CameBack' /\ InStep'
  <2>1. toClient' = a \o b /\ toServer' = c
    BY DEF Echo
  <2>. HIDE DEF a, b, c
  <2>2. Types'
    BY <1>1, <2>1 DEF Echo, Types
  <2>3. CameBack'
    BY <1>1 DEF Echo, CameBack
  <2>4. InStep'
    BY <1>1, <1>3, <1>4 DEF Echo, InStep
  <2>. QED
    BY <2>2, <2>3, <2>4
<1>. QED
  BY <1>5 DEF WInv

\* The header is that of the next request, and its length the one of its body.
LEMMA HeaderInStep ==
  ASSUME WInv, handle_headerRead
  PROVE  WInv'
<1>1. /\ Types /\ CameBack /\ InStep /\ toServer \in Seq(Byte) /\ toClient \in Seq(Byte)
      /\ Len(written) \in Nat /\ Len(delivered) \in Nat
      /\ Len(toClient) >= 4 /\ reading = "header"
      /\ toClient \o toServer = Pending /\ Len(delivered) <= Len(written)
  BY DEF WInv, Types, InStep, handle_headerRead
<1>2. Len(delivered) < Len(written)
  <2>1. CASE Len(delivered) = Len(written)
    <3>1. Unread \in Seq(Seq(Byte)) /\ Len(Unread) = 0
      BY <1>1, <2>1, UnreadType
    <3>2. Unread = << >>
      BY <3>1, EmptySeq
    <3>3. Pending = << >>
      BY <3>2, PendingUnread, FlattenEmpty
    <3>4. toClient = << >>
      BY <1>1, <3>3, ConcatEqualIffEmpty
    <3>. QED
      BY <1>1, <3>4, EmptySeq
  <2>. QED
    BY <1>1, <2>1
<1>. DEFINE w == written[Len(delivered) + 1]
            h == Header(w)
            c == Body(w) \o Behind
<1>3. /\ w \in Requests /\ Behind \in Seq(Byte) /\ Pending = h \o c
      /\ SubSeq(Pending, 5, Len(Pending)) = c
  BY <1>1, <1>2, NextRequest
<1>4. /\ h \in Seq(Byte) /\ Len(h) = 4 /\ Body(w) \in Seq(Byte)
      /\ Int32Read(h) = Len(w.payload) + 4 /\ Len(w.payload) \in Nat
  BY <1>3, EncodeParts
<1>5. c \in Seq(Byte)
  BY <1>3, <1>4, ConcatProperties
<1>. HIDE DEF w, h, c
<1>. DEFINE r == SubSeq(toClient, 4 + 1, Len(toClient))
<1>6. SubSeq(toClient, 1, 4) = h /\ r \in Seq(Byte) /\ r \o toServer = c
  <2>1. /\ toClient \in Seq(Byte) /\ toServer \in Seq(Byte) /\ h \in Seq(Byte) /\ c \in Seq(Byte)
        /\ toClient \o toServer = h \o c /\ Len(h) <= Len(toClient)
    BY <1>1, <1>3, <1>4, <1>5
  <2>2. /\ SubSeq(toClient, 1, Len(h)) = h
        /\ SubSeq(toClient, Len(h) + 1, Len(toClient)) \in Seq(Byte)
        /\ SubSeq(toClient, Len(h) + 1, Len(toClient)) \o toServer = c
    BY <2>1, Cut, ZenonT(30)
  <2>. QED
    BY <1>4, <2>2
<1>7. toClient' = r
  BY DEF handle_headerRead
<1>. HIDE DEF r
<1>8. /\ reading' = "body" /\ bodySize' = Len(w.payload) + 4
      /\ UNCHANGED << written, toServer, delivered >>
  <2>. DEFINE size == Int32Read(SubSeq(toClient, 1, 4)) - 4 - HeaderLengthFix
  <2>0. Int32Read(SubSeq(toClient, 1, 4)) = Len(w.payload) + 4 /\ Len(w.payload) \in Nat
    BY <1>4, <1>6
  <2>1. size = Len(w.payload) + 4 /\ size >= 0
    BY <2>0 DEF HeaderLengthFix
  <2>2. IF size >= 0 THEN reading' = "body" /\ bodySize' = size
                     ELSE reading' = "thrown" /\ UNCHANGED bodySize
    BY DEF handle_headerRead
  <2>. HIDE DEF size
  <2>. QED
    BY <2>1, <2>2 DEF handle_headerRead
<1>9. Pending' = Pending
  BY <1>8 DEF Pending
<1>10. Types' /\ CameBack'
  BY <1>1, <1>4, <1>6, <1>7, <1>8 DEF Types, CameBack
<1>11. InStep'
  <2>1. (toClient \o toServer)' = SubSeq(Pending', 5, Len(Pending'))
    BY <1>3, <1>6, <1>7, <1>8, <1>9
  <2>2. /\ Len(delivered') < Len(written') /\ Len(delivered') <= Len(written')
        /\ bodySize' = Len(written'[Len(delivered') + 1].payload) + 4
    BY <1>1, <1>2, <1>8 DEF w
  <2>. QED
    BY <1>8, <2>1, <2>2 DEF InStep
<1>. QED
  BY <1>10, <1>11 DEF WInv

\* The body is that of the next request, which the callback is given.
LEMMA BodyDelivers ==
  ASSUME WInv, handle_bodyRead
  PROVE  /\ WInv'
         /\ Len(delivered) < Len(written)
         /\ delivered' = Append(delivered, written[Len(delivered) + 1])
<1>. DEFINE w == written[Len(delivered) + 1]
            b == Body(w)
            n == bodySize
<1>1. /\ Types /\ CameBack /\ InStep /\ toServer \in Seq(Byte) /\ toClient \in Seq(Byte)
      /\ Len(written) \in Nat /\ Len(delivered) \in Nat /\ written \in Seq(Requests)
      /\ delivered \in Seq(Requests)
      /\ Len(toClient) >= n /\ reading = "body" /\ Len(delivered) < Len(written)
      /\ n = Len(w.payload) + 4 /\ toClient \o toServer = SubSeq(Pending, 5, Len(Pending))
  <2>1. /\ Types /\ CameBack /\ InStep /\ toServer \in Seq(Byte) /\ toClient \in Seq(Byte)
        /\ Len(written) \in Nat /\ Len(delivered) \in Nat /\ written \in Seq(Requests)
        /\ delivered \in Seq(Requests)
    BY DEF WInv, Types
  <2>2. Len(toClient) >= n /\ reading = "body"
    BY DEF handle_bodyRead
  <2>. QED
    BY <2>1, <2>2 DEF InStep
<1>2. /\ w \in Requests /\ Behind \in Seq(Byte)
      /\ toClient \o toServer = b \o Behind
  BY <1>1, NextRequest
<1>3. /\ b \in Seq(Byte) /\ Len(b) = n /\ Int32Read(SubSeq(b, 1, 4)) = w.type
      /\ SubSeq(b, 5, Len(b)) = w.payload /\ Len(w.payload) \in Nat
      /\ w.payload \in Seq(Byte)
  BY <1>1, <1>2, EncodeParts
<1>. HIDE DEF b, w, n
<1>. DEFINE r == SubSeq(toClient, n + 1, Len(toClient))
<1>4. SubSeq(toClient, 1, n) = b /\ r \in Seq(Byte) /\ r \o toServer = Behind
  <2>1. /\ toClient \in Seq(Byte) /\ toServer \in Seq(Byte) /\ b \in Seq(Byte)
        /\ Behind \in Seq(Byte) /\ toClient \o toServer = b \o Behind /\ Len(b) <= Len(toClient)
    BY <1>1, <1>2, <1>3
  <2>2. /\ SubSeq(toClient, 1, Len(b)) = b
        /\ SubSeq(toClient, Len(b) + 1, Len(toClient)) \in Seq(Byte)
        /\ SubSeq(toClient, Len(b) + 1, Len(toClient)) \o toServer = Behind
    BY <2>1, Cut, ZenonT(30)
  <2>. QED
    BY <1>3, <2>2
<1>5. toClient' = r
  BY DEF handle_bodyRead, n
<1>. HIDE DEF r
<1>6. n \in Nat /\ n >= 4 /\ n <= Len(toClient) /\ Len(toClient) \in Nat
  BY <1>1, <1>3
<1>7. /\ SubSeq(toClient, 1, 4) = SubSeq(b, 1, 4)
      /\ SubSeq(toClient, 5, n) = SubSeq(b, 5, n)
  <2>1. \A i \in 1 .. n : b[i] = toClient[i]
    BY <1>1, <1>4, <1>6
  <2>2. \A l, m \in 1 .. n : SubSeq(toClient, l, m) = SubSeq(b, l, m)
    <3>. TAKE l \in 1 .. n, m \in 1 .. n
    <3>1. /\ SubSeq(toClient, l, m) \in Seq(Byte) /\ SubSeq(b, l, m) \in Seq(Byte)
          /\ Len(SubSeq(toClient, l, m)) = Len(SubSeq(b, l, m))
          /\ \A i \in 1 .. Len(SubSeq(b, l, m)) : SubSeq(toClient, l, m)[i] = SubSeq(b, l, m)[i]
      BY <1>1, <1>3, <1>6, <2>1, SMTT(30)
    <3>. QED
      BY <3>1, SeqEqual
  <2>3. CASE n >= 5
    <3>1. 1 \in 1 .. n /\ 4 \in 1 .. n /\ 5 \in 1 .. n /\ n \in 1 .. n
      BY <1>6, <2>3
    <3>. QED
      BY <2>2, <3>1
  <2>4. CASE n = 4
    <3>1. SubSeq(toClient, 1, 4) = SubSeq(b, 1, 4)
      BY <2>2, <2>4
    <3>2. SubSeq(toClient, 5, n) = << >> /\ SubSeq(b, 5, n) = << >>
      BY <2>4, SubSeqEmpty
    <3>. QED
      BY <3>1, <3>2
  <2>. QED
    BY <1>6, <2>3, <2>4
<1>8. delivered' = Append(delivered, w)
  <2>1. LuaString(SubSeq(toClient, 5, n)) = w.payload
    BY <1>3, <1>7, LuaStringIs
  <2>2. Int32Read(SubSeq(toClient, 1, 4)) = w.type
    BY <1>3, <1>7
  <2>3. PICK type \in IF n < 4 THEN Int32 ELSE {Int32Read(SubSeq(toClient, 1, 4))} :
          delivered' = Append(delivered,
            [type |-> type, payload |-> LuaString(SubSeq(toClient, 5, n))])
    BY DEF handle_bodyRead, n
  <2>4. type = w.type
    BY <1>6, <2>2, <2>3
  <2>5. [type |-> w.type, payload |-> w.payload] = w
    BY <1>2 DEF Requests
  <2>. QED
    BY <2>1, <2>3, <2>4, <2>5
<1>9. /\ UNCHANGED << written, toServer, bodySize >> /\ reading' = "header"
  BY DEF handle_bodyRead
<1>10. /\ Append(delivered, w) \in Seq(Requests) /\ Len(Append(delivered, w)) = Len(delivered) + 1
       /\ \A i \in 1 .. Len(delivered) : Append(delivered, w)[i] = delivered[i]
       /\ Append(delivered, w)[Len(delivered) + 1] = w
  BY <1>1, <1>2, AppendProperties
<1>11. Types' /\ CameBack'
  <2>1. Types'
    BY <1>1, <1>4, <1>5, <1>8, <1>9, <1>10 DEF Types
  <2>2. Len(delivered') = Len(delivered) + 1 /\ Len(delivered') <= Len(written')
    BY <1>1, <1>8, <1>9, <1>10
  <2>3. ASSUME NEW i \in 1 .. Len(delivered') PROVE delivered'[i] = written'[i]
    <3>1. CASE i = Len(delivered) + 1
      BY <1>8, <1>9, <1>10, <3>1 DEF w
    <3>2. CASE i # Len(delivered) + 1
      <4>1. i \in 1 .. Len(delivered)
        BY <1>1, <2>2, <3>2
      <4>. QED
        BY <1>1, <1>8, <1>9, <1>10, <4>1 DEF CameBack
    <3>. QED
      BY <3>1, <3>2
  <2>. QED
    BY <2>1, <2>2, <2>3 DEF CameBack
<1>12. Pending' = Behind
  <2>1. Unread' = Tail(Unread)
    <3>. DEFINE d == Len(delivered)
                k == Len(written) - d
    <3>1. Unread \in Seq(Seq(Byte)) /\ Len(Unread) = k /\ k \in Nat /\ k > 0
      BY <1>1, UnreadType
    <3>2. /\ Tail(Unread) \in Seq(Seq(Byte)) /\ Len(Tail(Unread)) = k - 1
          /\ \A i \in 1 .. k - 1 : Tail(Unread)[i] = Unread[i + 1]
      BY <3>1
    <3>3. Len(delivered') = d + 1 /\ written' = written
      BY <1>8, <1>9, <1>10
    <3>4. Len(written') - Len(delivered') = k - 1
      BY <1>1, <3>3
    <3>5. Unread' = [i \in 1 .. k - 1 |-> Encode(written[(d + 1) + i])]
      <4>1. Unread' = [i \in 1 .. Len(written') - Len(delivered') |->
                         Encode(written'[Len(delivered') + i])]
        BY DEF Unread
      <4>. HIDE DEF d, k
      <4>. QED
        BY <3>3, <3>4, <4>1
    <3>6. ASSUME NEW i \in 1 .. k - 1
          PROVE  Unread[i + 1] = Encode(written[(d + 1) + i])
      <4>. DEFINE j == i + 1
      <4>1. j \in 1 .. k /\ d + j = (d + 1) + i
        BY <1>1, <3>1
      <4>2. Unread[j] = Encode(written[d + j])
        <5>. HIDE DEF j
        <5>. QED
          BY <4>1 DEF Unread
      <4>. QED
        BY <4>1, <4>2
    <3>7. Tail(Unread) = [i \in 1 .. k - 1 |-> Tail(Unread)[i]]
      <4>. HIDE DEF k, d
      <4>. DEFINE t == Tail(Unread)
      <4>1. t \in Seq(Seq(Byte)) /\ Len(t) = k - 1
        BY <3>2
      <4>. HIDE DEF t
      <4>2. t = [i \in 1 .. Len(t) |-> t[i]]
        BY <4>1
      <4>. QED
        BY <4>1, <4>2 DEF t
    <3>. HIDE DEF k, d
    <3>. QED
      BY <3>2, <3>5, <3>6, <3>7
  <2>2. Pending' = FlattenSeq(Unread')
    BY DEF Pending, Unread
  <2>. QED
    BY <2>1, <2>2 DEF Behind
<1>13. InStep'
  <2>1. (toClient \o toServer)' = Pending'
    BY <1>4, <1>5, <1>9, <1>12
  <2>. QED
    BY <1>9, <1>11, <2>1 DEF InStep, CameBack
<1>. QED
  BY <1>1, <1>8, <1>11, <1>13 DEF WInv, w

LEMMA WInvNext == WInv /\ [WireNext]_wireVars => WInv'
<1>. SUFFICES ASSUME WInv, [WireNext]_wireVars PROVE WInv'
  OBVIOUS
<1>1. ASSUME NEW t \in TypeCodes, NEW p \in Payloads, write([type |-> t, payload |-> p])
      PROVE  WInv'
  <2>. DEFINE m == [type |-> t, payload |-> p]
  <2>1. m \in Requests
    BY DEF Requests
  <2>. HIDE DEF m
  <2>. QED
    BY <1>1, <2>1, WriteInStep DEF m
<1>2. ASSUME NEW n \in 1 .. Len(toServer), Echo(n) PROVE WInv'
  BY <1>2, EchoInStep
<1>3. CASE handle_headerRead
  BY <1>3, HeaderInStep
<1>4. CASE handle_bodyRead
  BY <1>4, BodyDelivers
<1>5. CASE UNCHANGED wireVars
  BY <1>5 DEF wireVars, WInv, Types, CameBack, InStep, Pending
<1>. QED
  BY <1>1, <1>2, <1>3, <1>4, <1>5 DEF WireNext

LEMMA WInvHolds == WireSpec => []WInv
BY WInvInit, WInvNext, PTL DEF WireSpec

\* The client is always in step with the bytes it wrote: every header read takes the
\* header of the next request and every body read its body, to the byte, whatever the
\* payloads, however many requests are on the way and however they are cut up, and
\* no handler throws.
THEOREM WireInStep == WireSpec => []InStep
<1>1. WInv => InStep
  BY DEF WInv
<1>. QED
  BY <1>1, WInvHolds, PTL

--------------------------------------------------------------------------------
(* The bytes implement a stream of frames *)

\* The two streams of a connection, as functions of its one session.
LEMMA OneSession ==
  ASSUME NEW x
  PROVE  << x >> = [s \in {1} |-> x] /\ DOMAIN << x >> = {1} /\ << x >>[1] = x
<1>1. << x >> = [s \in 1 .. 1 |-> x]
  OBVIOUS
<1>2. 1 .. 1 = {1}
  OBVIOUS
<1>. QED
  BY <1>1, <1>2

LEMMA BytesInit == WireInit => Stream!Init
<1>. SUFFICES ASSUME WireInit PROVE Stream!Init
  OBVIOUS
<1>1. written = << >> /\ delivered = << >> /\ (reading = "thrown") = FALSE
  BY DEF WireInit
<1>. QED
  BY <1>1, OneSession DEF Stream!Init

LEMMA BytesNext == WInv /\ WInv' /\ [WireNext]_wireVars => [Stream!Next]_(Stream!vars)
<1>. SUFFICES ASSUME WInv, WInv', [WireNext]_wireVars PROVE [Stream!Next]_(Stream!vars)
  OBVIOUS
<1>0. reading # "thrown" /\ reading' # "thrown"
  BY DEF WInv, InStep
<1>1. ASSUME NEW t \in TypeCodes, NEW p \in Payloads, write([type |-> t, payload |-> p])
      PROVE  Stream!Send(1, [type |-> t, payload |-> p])
  <2>. DEFINE m == [type |-> t, payload |-> p]
  <2>1. written' = Append(written, m) /\ delivered' = delivered /\ reading' = reading
    BY <1>1 DEF write
  <2>. HIDE DEF m
  <2>2. << written' >> = [<< written >> EXCEPT ![1] = Append(@, m)]
    BY <2>1, OneSession
  <2>. QED
    BY <2>1, <2>2 DEF Stream!Send, m
<1>2. CASE handle_bodyRead
  <2>1. /\ Len(delivered) < Len(written)
        /\ delivered' = Append(delivered, written[Len(delivered) + 1])
        /\ written' = written
    BY <1>2, BodyDelivers DEF handle_bodyRead
  <2>2. << delivered' >> = [<< delivered >> EXCEPT ![1] =
                              Append(@, << written >>[1][Len(@) + 1])]
    BY <2>1, OneSession
  <2>3. Stream!Deliver(1)
    BY <1>0, <2>1, <2>2 DEF Stream!Deliver
  <2>. QED
    BY <2>3 DEF Stream!Next
<1>3. CASE UNCHANGED << written, delivered >>
  BY <1>0, <1>3 DEF Stream!vars
<1>4. CASE WireNext /\ ~handle_bodyRead
  <2>1. ASSUME NEW t \in TypeCodes, NEW p \in Payloads, write([type |-> t, payload |-> p])
        PROVE  Stream!Next
    <3>1. [type |-> t, payload |-> p] \in [type : TypeCodes, payload : Payloads]
      OBVIOUS
    <3>. QED
      BY <1>1, <2>1, <3>1 DEF Stream!Next
  <2>2. ASSUME NEW n \in 1 .. Len(toServer), Echo(n) PROVE UNCHANGED << written, delivered >>
    BY <2>2 DEF Echo
  <2>3. handle_headerRead => UNCHANGED << written, delivered >>
    BY DEF handle_headerRead
  <2>. QED
    BY <1>3, <1>4, <2>1, <2>2, <2>3 DEF WireNext
<1>. QED
  BY <1>2, <1>3, <1>4 DEF wireVars

\* What write() encodes the read handlers decode, and nothing else: the bytes of a
\* connection implement the stream of frames that FrameStream promises, each request
\* handed over once, in order, with its type code and every byte of its payload.
THEOREM WireBytes == WireSpec => BytesSpec
BY BytesInit, BytesNext, WInvHolds, PTL DEF WireSpec, BytesSpec, Stream!Spec

--------------------------------------------------------------------------------
(* A server that announces lengths of its own *)

\* The next bytes of what was sent, from byte p on, are those that no read has taken.
Position(p) ==
  /\ p \in Nat /\ Len(sent) = p + Len(toClient) + Len(toServer)
  /\ \A i \in 1 .. Len(toClient) : toClient[i] = sent[p + i]
  /\ \A i \in 1 .. Len(toServer) : toServer[i] = sent[p + Len(toClient) + i]

\* The frames that were handed over begin where f says.
FramesAt(f) ==
  /\ f[0] = 0
  /\ \A i \in 1 .. Len(delivered) :
       HasFrame(sent, f[i - 1]) /\ f[i] = f[i - 1] + 4 + LengthAt(sent, f[i - 1])

Handed(f) ==
  \A i \in 1 .. Len(delivered) :
    LET p == f[i - 1]
        length == LengthAt(sent, p)
    IN /\ delivered[i].payload = SubSeq(sent, p + 9, p + 4 + length)
       /\ length >= 4 => delivered[i].type = Int32Read(SubSeq(sent, p + 5, p + 8))

\* The read in progress, when the frame that is not yet handed over begins behind byte p.
ReadsAt(p) ==
  \/ reading = "header" /\ Position(p)
  \/ /\ reading = "body" /\ Position(p + 4) /\ HasLength(sent, p)
     /\ bodySize = LengthAt(sent, p) /\ bodySize >= 0
  \/ /\ reading = "thrown" /\ Position(p + 4) /\ HasLength(sent, p)
     /\ LengthAt(sent, p) < 0

Handovers == [type : Int32, payload : Seq(Byte)]

ForeignTypes ==
  /\ sent \in Seq(Byte) /\ toServer \in Seq(Byte) /\ toClient \in Seq(Byte)
  /\ delivered \in Seq(Handovers)

ForeignInv ==
  /\ ForeignTypes
  /\ \E f \in [Nat -> Nat] : FramesAt(f) /\ Handed(f) /\ ReadsAt(f[Len(delivered)])

LEMMA Slice ==
  \A s \in Seq(Byte) : \A p, n \in Nat :
    p + n <= Len(s)
      => /\ SubSeq(s, p + 1, p + n) \in Seq(Byte) /\ Len(SubSeq(s, p + 1, p + n)) = n
         /\ \A i \in 1 .. n : SubSeq(s, p + 1, p + n)[i] = s[p + i]
<1>. SUFFICES ASSUME NEW s \in Seq(Byte), NEW p \in Nat, NEW n \in Nat, p + n <= Len(s)
              PROVE  /\ SubSeq(s, p + 1, p + n) \in Seq(Byte) /\ Len(SubSeq(s, p + 1, p + n)) = n
                     /\ \A i \in 1 .. n : SubSeq(s, p + 1, p + n)[i] = s[p + i]
  OBVIOUS
<1>1. \A i \in p + 1 .. p + n : s[i] \in Byte
  <2>1. Len(s) \in Nat /\ \A i \in 1 .. Len(s) : s[i] \in Byte
    OBVIOUS
  <2>2. \A i \in p + 1 .. p + n : i \in 1 .. Len(s)
    BY <2>1
  <2>. QED
    BY <2>1, <2>2
<1>2. p + 1 \in Int /\ p + n \in Int /\ (p + n) - (p + 1) + 1 = n /\ (p + 1 <= p + n <=> n # 0)
  OBVIOUS
<1>3. /\ SubSeq(s, p + 1, p + n) \in Seq(Byte)
      /\ Len(SubSeq(s, p + 1, p + n)) = IF p + 1 <= p + n THEN (p + n) - (p + 1) + 1 ELSE 0
      /\ \A i \in 1 .. (p + n) - (p + 1) + 1 : SubSeq(s, p + 1, p + n)[i] = s[(p + 1) + i - 1]
  BY <1>1, <1>2, SubSeqProperties
<1>4. \A i \in 1 .. n : (p + 1) + i - 1 = p + i
  OBVIOUS
<1>. QED
  BY <1>2, <1>3, <1>4

LEMMA SameSlice ==
  \A s, t \in Seq(Byte) : \A p, q, n \in Nat :
    p + n <= Len(s) /\ q + n <= Len(t) /\ (\A i \in 1 .. n : s[p + i] = t[q + i])
      => SubSeq(s, p + 1, p + n) = SubSeq(t, q + 1, q + n)
<1>. SUFFICES ASSUME NEW s \in Seq(Byte), NEW t \in Seq(Byte),
                     NEW p \in Nat, NEW q \in Nat, NEW n \in Nat,
                     p + n <= Len(s), q + n <= Len(t), \A i \in 1 .. n : s[p + i] = t[q + i]
              PROVE  SubSeq(s, p + 1, p + n) = SubSeq(t, q + 1, q + n)
  OBVIOUS
<1>. DEFINE a == SubSeq(s, p + 1, p + n)
            b == SubSeq(t, q + 1, q + n)
<1>1. a \in Seq(Byte) /\ Len(a) = n /\ \A i \in 1 .. n : a[i] = s[p + i]
  BY Slice
<1>2. b \in Seq(Byte) /\ Len(b) = n /\ \A i \in 1 .. n : b[i] = t[q + i]
  BY Slice
<1>. HIDE DEF a, b
<1>3. \A i \in 1 .. Len(a) : a[i] = b[i]
  BY <1>1, <1>2
<1>. QED
  BY <1>1, <1>2, <1>3, SeqEqual DEF a, b

LEMMA FourAreInt ==
  ASSUME NEW b \in Seq(Byte), Len(b) = 4
  PROVE  Int32Read(b) \in Int32 /\ Int32Read(b) \in Int
<1>1. b[1] \in Byte /\ b[2] \in Byte /\ b[3] \in Byte /\ b[4] \in Byte
  <2>1. \A i \in 1 .. Len(b) : b[i] \in Byte
    BY ElementOfSeq, Zenon
  <2>2. 1 \in 1 .. Len(b) /\ 2 \in 1 .. Len(b) /\ 3 \in 1 .. Len(b) /\ 4 \in 1 .. Len(b)
    OBVIOUS
  <2>. QED
    BY <2>1, <2>2, Zenon
<1>2. b = << b[1], b[2], b[3], b[4] >>
  <2>. DEFINE c == << b[1], b[2], b[3], b[4] >>
  <2>1. /\ c \in Seq(Byte) /\ Len(c) = 4
        /\ c[1] = b[1] /\ c[2] = b[2] /\ c[3] = b[3] /\ c[4] = b[4]
    BY <1>1
  <2>. HIDE DEF c
  <2>2. \A i \in 1 .. 4 : i = 1 \/ i = 2 \/ i = 3 \/ i = 4
    OBVIOUS
  <2>3. \A i \in 1 .. Len(b) : b[i] = c[i]
    BY <2>1, <2>2
  <2>4. b = c
    BY <2>1, <2>3, SeqEqual
  <2>. QED
    BY <2>4 DEF c
<1>3. LittleEndian(b) \in Int32 /\ Memory(LittleEndian(b)) = b
  BY <1>1, <1>2, MemoryOfInt
<1>4. Int32Read(b) = LittleEndian(Reverse(b))
  BY <1>3 DEF Int32Read, network_to_host_long, host_to_network_long
<1>5. Reverse(b) = << b[4], b[3], b[2], b[1] >>
  BY <1>2, ReverseFour
<1>6. Int32Read(b) \in Int32
  BY <1>1, <1>4, <1>5, MemoryOfInt
<1>7. Int32 \subseteq Int
  BY WordFacts DEF Int32
<1>. QED
  BY <1>6, <1>7

LEMMA LengthIsInt ==
  ASSUME NEW b \in Seq(Byte), NEW p \in Nat, HasLength(b, p)
  PROVE  LengthAt(b, p) \in Int
<1>1. SubSeq(b, p + 1, p + 4) \in Seq(Byte) /\ Len(SubSeq(b, p + 1, p + 4)) = 4
  BY Slice DEF HasLength
<1>. QED
  BY <1>1, FourAreInt DEF LengthAt

\* What was sent before stays where it is.
LEMMA LengthStays ==
  ASSUME NEW b \in Seq(Byte), NEW c \in Seq(Byte), NEW p \in Nat, HasLength(b, p)
  PROVE  /\ HasLength(b \o c, p) /\ LengthAt(b \o c, p) = LengthAt(b, p)
         /\ HasFrame(b, p) => HasFrame(b \o c, p)
<1>. DEFINE d == b \o c
<1>1. /\ d \in Seq(Byte) /\ Len(d) = Len(b) + Len(c) /\ \A i \in 1 .. Len(b) : d[i] = b[i]
      /\ Len(b) \in Nat /\ Len(c) \in Nat
  <2>1. /\ d \in Seq(Byte) /\ Len(d) = Len(b) + Len(c)
        /\ \A i \in 1 .. Len(b) + Len(c) : d[i] = IF i <= Len(b) THEN b[i] ELSE c[i - Len(b)]
    BY ConcatProperties
  <2>2. Len(b) \in Nat /\ Len(c) \in Nat
    OBVIOUS
  <2>. HIDE DEF d
  <2>. QED
    BY <2>1, <2>2
<1>. HIDE DEF d
<1>2. p + 4 <= Len(b) /\ p + 4 <= Len(d)
  BY <1>1 DEF HasLength
<1>3. SubSeq(d, p + 1, p + 4) = SubSeq(b, p + 1, p + 4)
  <2>1. \A i \in 1 .. 4 : p + i \in 1 .. Len(b)
    BY <1>1, <1>2
  <2>2. \A i \in 1 .. 4 : d[p + i] = b[p + i]
    BY <1>1, <2>1
  <2>. QED
    BY <1>1, <1>2, <2>2, SameSlice
<1>4. LengthAt(b, p) \in Int
  BY LengthIsInt
<1>5. HasLength(d, p) /\ LengthAt(d, p) = LengthAt(b, p)
  BY <1>2, <1>3 DEF HasLength, LengthAt
<1>6. HasFrame(b, p) => HasFrame(d, p)
  BY <1>1, <1>4, <1>5 DEF HasFrame
<1>. QED
  BY <1>5, <1>6 DEF d

LEMMA SliceStays ==
  ASSUME NEW b \in Seq(Byte), NEW c \in Seq(Byte), NEW l \in Nat, NEW m \in Int,
         l >= 1, m <= Len(b)
  PROVE  SubSeq(b \o c, l, m) = SubSeq(b, l, m)
<1>1. Len(b) \in Nat /\ Len(b \o c) = Len(b) + Len(c) /\ Len(c) \in Nat /\ b \o c \in Seq(Byte)
  BY ConcatProperties
<1>2. CASE m < l
  <2>1. SubSeq(b \o c, l, m) = << >> /\ SubSeq(b, l, m) = << >>
    BY <1>2, SubSeqEmpty
  <2>. QED
    BY <2>1
<1>3. CASE m >= l
  <2>. DEFINE p == l - 1
              n == m - p
              d == b \o c
  <2>1. p \in Nat /\ n \in Nat /\ p + 1 = l /\ p + n = m /\ p + n <= Len(b)
    BY <1>3
  <2>2. \A i \in 1 .. n : d[p + i] = b[p + i]
    <3>. HIDE DEF p, n
    <3>1. \A i \in 1 .. n : p + i \in 1 .. Len(b)
      BY <1>1, <2>1
    <3>2. \A i \in 1 .. Len(b) : d[i] = b[i]
      BY <1>1, ConcatProperties
    <3>. QED
      BY <3>1, <3>2
  <2>3. p + n <= Len(d)
    <3>. HIDE DEF p, n
    <3>. QED
      BY <1>1, <2>1
  <2>4. d \in Seq(Byte)
    BY <1>1
  <2>. HIDE DEF p, n, d
  <2>5. SubSeq(d, p + 1, p + n) = SubSeq(b, p + 1, p + n)
    BY <2>1, <2>2, <2>3, <2>4, SameSlice
  <2>. QED
    BY <2>1, <2>5 DEF d
<1>. QED
  BY <1>1, <1>2, <1>3

\* Where the frames begin.
LEMMA BeginsAre ==
  ASSUME NEW b \in Seq(Byte)
  PROVE  /\ Begins(b)[0] = 0
         /\ \A i \in Nat \ {0} :
              Begins(b)[i] = IF HasFrame(b, Begins(b)[i - 1])
                             THEN Begins(b)[i - 1] + 4 + LengthAt(b, Begins(b)[i - 1])
                             ELSE Begins(b)[i - 1]
<1>. DEFINE After(p) == IF HasFrame(b, p) THEN p + 4 + LengthAt(b, p) ELSE p
            step == [x \in Nat \X Nat |-> After(x[2])]
            g == CHOOSE g : g = [i \in Nat |->
                   IF i = 0 THEN 0
                   ELSE IF HasFrame(b, g[i - 1]) THEN g[i - 1] + 4 + LengthAt(b, g[i - 1]) ELSE g[i - 1]]
<1>1. \A p \in Nat : After(p) \in Nat
  <2>. TAKE p \in Nat
  <2>1. CASE HasFrame(b, p)
    <3>1. LengthAt(b, p) \in Int /\ LengthAt(b, p) >= 0
      BY <2>1, LengthIsInt DEF HasFrame
    <3>. QED
      BY <2>1, <3>1
  <2>. QED
    BY <2>1
<1>2. PICK f \in [Nat -> Nat] : Follows(f, 0, step)
  <2>1. step \in [Nat \X Nat -> Nat]
    BY <1>1
  <2>. HIDE DEF step
  <2>. QED
    BY <2>1, Recursion
<1>3. f[0] = 0 /\ \A i \in Nat : f[i + 1] = After(f[i])
  <2>1. f[0] = 0
    BY <1>2 DEF Follows
  <2>2. ASSUME NEW i \in Nat PROVE f[i + 1] = After(f[i])
    <3>1. << i, f[i] >> \in Nat \X Nat
      BY <1>2
    <3>2. f[i + 1] = step[<< i, f[i] >>]
      BY <1>2 DEF Follows
    <3>. QED
      BY <3>1, <3>2
  <2>. QED
    BY <2>1, <2>2
<1>. HIDE DEF step
<1>4. \A i \in Nat \ {0} : f[i] = After(f[i - 1])
  <2>. TAKE i \in Nat \ {0}
  <2>1. i - 1 \in Nat /\ i = (i - 1) + 1
    OBVIOUS
  <2>. QED
    BY <1>3, <2>1
<1>5. \E h : h = [i \in Nat |->
                   IF i = 0 THEN 0
                   ELSE IF HasFrame(b, h[i - 1]) THEN h[i - 1] + 4 + LengthAt(b, h[i - 1]) ELSE h[i - 1]]
  <2>1. f = [i \in Nat |-> IF i = 0 THEN 0 ELSE After(f[i - 1])]
    BY <1>2, <1>3, <1>4
  <2>. QED
    BY <2>1
<1>6. g = [i \in Nat |->
                   IF i = 0 THEN 0
                   ELSE IF HasFrame(b, g[i - 1]) THEN g[i - 1] + 4 + LengthAt(b, g[i - 1]) ELSE g[i - 1]]
  BY <1>5
<1>7. Begins(b) = g
  BY Zenon DEF Begins
<1>. HIDE DEF g
<1>8. g[0] = 0 /\ \A i \in Nat \ {0} : g[i] = After(g[i - 1])
  <2>1. 0 \in Nat /\ g[0] = 0
    BY <1>6
  <2>2. ASSUME NEW i \in Nat \ {0} PROVE g[i] = After(g[i - 1])
    <3>1. i \in Nat /\ i # 0
      OBVIOUS
    <3>. QED
      BY <1>6, <3>1
  <2>. QED
    BY <2>1, <2>2
<1>. QED
  BY <1>7, <1>8

LEMMA BeginsAsHanded ==
  ASSUME ForeignTypes, NEW f \in [Nat -> Nat], FramesAt(f)
  PROVE  \A i \in 0 .. Len(delivered) : Begins(sent)[i] = f[i]
<1>. DEFINE c == Begins(sent)
            n == Len(delivered)
            P == {i \in Nat : i <= n => c[i] = f[i]}
<1>1. /\ c[0] = 0
      /\ \A i \in Nat \ {0} : c[i] = IF HasFrame(sent, c[i - 1])
                                     THEN c[i - 1] + 4 + LengthAt(sent, c[i - 1])
                                     ELSE c[i - 1]
  BY BeginsAre DEF ForeignTypes
<1>2. /\ f[0] = 0 /\ n \in Nat
      /\ \A i \in 1 .. n :
           HasFrame(sent, f[i - 1]) /\ f[i] = f[i - 1] + 4 + LengthAt(sent, f[i - 1])
  BY DEF FramesAt, ForeignTypes
<1>. HIDE DEF c, n
<1>3. 0 \in P
  BY <1>1, <1>2
<1>4. ASSUME NEW i \in P PROVE i + 1 \in P
  <2>. SUFFICES ASSUME i + 1 <= n PROVE c[i + 1] = f[i + 1]
    OBVIOUS
  <2>1. i \in Nat /\ i + 1 \in Nat \ {0} /\ i + 1 \in 1 .. n /\ (i + 1) - 1 = i /\ i <= n
    BY <1>2
  <2>2. c[i] = f[i]
    BY <2>1
  <2>3. HasFrame(sent, f[i]) /\ f[i + 1] = f[i] + 4 + LengthAt(sent, f[i])
    BY <1>2, <2>1
  <2>4. c[i + 1] = IF HasFrame(sent, c[i]) THEN c[i] + 4 + LengthAt(sent, c[i]) ELSE c[i]
    BY <1>1, <2>1
  <2>. QED
    BY <2>2, <2>3, <2>4
<1>5. P = Nat
  <2>1. P \subseteq Nat
    OBVIOUS
  <2>. HIDE DEF P
  <2>. QED
    BY <1>3, <1>4, <2>1, Induction
<1>6. \A i \in Nat : i <= n => c[i] = f[i]
  BY <1>5
<1>. HIDE DEF P
<1>7. \A i \in 0 .. n : c[i] = f[i]
  <2>1. \A i \in 0 .. n : i \in Nat /\ i <= n
    BY <1>2
  <2>. QED
    BY <1>6, <2>1
<1>. QED
  BY <1>7 DEF c, n

\* What was handed over is what was sent.
LEMMA InvIsAsSent == ForeignInv => BodiesAsSent
<1>. SUFFICES ASSUME ForeignInv PROVE BodiesAsSent
  OBVIOUS
<1>1. ForeignTypes
  BY DEF ForeignInv
<1>2. PICK f \in [Nat -> Nat] : FramesAt(f) /\ Handed(f) /\ ReadsAt(f[Len(delivered)])
  BY DEF ForeignInv
<1>3. \A i \in 0 .. Len(delivered) : Begins(sent)[i] = f[i]
  BY <1>1, <1>2, BeginsAsHanded
<1>4. Len(delivered) \in Nat /\ DOMAIN delivered = 1 .. Len(delivered)
  BY <1>1 DEF ForeignTypes
<1>5. ASSUME NEW i \in DOMAIN delivered
      PROVE  LET p == Begins(sent)[i - 1]
                 length == LengthAt(sent, p)
             IN /\ HasFrame(sent, p)
                /\ delivered[i].payload = SubSeq(sent, p + 9, p + 4 + length)
                /\ length >= 4 => delivered[i].type = Int32Read(SubSeq(sent, p + 5, p + 8))
  <2>0. \A n \in Nat : \A k \in 1 .. n : k - 1 \in 0 .. n
    OBVIOUS
  <2>1. i \in 1 .. Len(delivered) /\ i - 1 \in 0 .. Len(delivered)
    BY <1>4, <2>0, Zenon
  <2>2. Begins(sent)[i - 1] = f[i - 1]
    BY <1>3, <2>1
  <2>. QED
    BY <1>2, <2>1, <2>2 DEF FramesAt, Handed
<1>6. reading = "thrown" =>
        LET p == Begins(sent)[Len(delivered)] IN HasLength(sent, p) /\ LengthAt(sent, p) < 0
  <2>1. Begins(sent)[Len(delivered)] = f[Len(delivered)]
    BY <1>3, <1>4
  <2>. QED
    BY <1>2, <2>1 DEF ReadsAt
<1>. QED
  BY <1>5, <1>6 DEF BodiesAsSent

LEMMA ForeignInvInit == ASSUME ForeignAssumption, ForeignInit PROVE ForeignInv
<1>. DEFINE f == [i \in Nat |-> 0]
<1>1. sent = << >> /\ toServer = << >> /\ toClient = << >> /\ delivered = << >> /\ reading = "header"
  BY DEF ForeignInit, WireInit
<1>2. ForeignTypes
  BY <1>1 DEF ForeignTypes
<1>3. f \in [Nat -> Nat] /\ \A i \in Nat : f[i] = 0
  OBVIOUS
<1>. HIDE DEF f
<1>4. Len(delivered) = 0 /\ Len(toClient) = 0 /\ Len(toServer) = 0 /\ Len(sent) = 0
  BY <1>1
<1>5. FramesAt(f) /\ Handed(f)
  BY <1>3, <1>4 DEF FramesAt, Handed
<1>6. Position(0)
  BY <1>4 DEF Position
<1>7. ReadsAt(f[Len(delivered)])
  BY <1>1, <1>3, <1>4, <1>6 DEF ReadsAt
<1>. QED
  BY <1>2, <1>3, <1>5, <1>7 DEF ForeignInv

\* A step that hands nothing over and keeps what was sent keeps what is known of the
\* frames that were handed over.
LEMMA FramesStay ==
  ASSUME ForeignTypes, NEW f \in [Nat -> Nat], FramesAt(f), Handed(f),
         NEW c \in Seq(Byte), sent' = sent \o c, delivered' = delivered
  PROVE  FramesAt(f)' /\ Handed(f)'
<1>. DEFINE n == Len(delivered)
<1>1. /\ sent \in Seq(Byte) /\ n \in Nat
      /\ f[0] = 0
      /\ \A i \in 1 .. n : HasFrame(sent, f[i - 1]) /\ f[i] = f[i - 1] + 4 + LengthAt(sent, f[i - 1])
  BY DEF ForeignTypes, FramesAt
<1>2. \A i \in 1 .. n :
         LET p == f[i - 1]
             length == LengthAt(sent, p)
         IN /\ delivered[i].payload = SubSeq(sent, p + 9, p + 4 + length)
            /\ length >= 4 => delivered[i].type = Int32Read(SubSeq(sent, p + 5, p + 8))
  BY DEF Handed
<1>. HIDE DEF n
<1>3. ASSUME NEW i \in 1 .. n
      PROVE  LET p == f[i - 1]
                 length == LengthAt(sent', p)
             IN /\ HasFrame(sent', p) /\ f[i] = p + 4 + length
                /\ delivered[i].payload = SubSeq(sent', p + 9, p + 4 + length)
                /\ length >= 4 => delivered[i].type = Int32Read(SubSeq(sent', p + 5, p + 8))
  <2>. DEFINE p == f[i - 1]
              length == LengthAt(sent, p)
  <2>1. p \in Nat
    <3>1. i - 1 \in Nat
      BY <1>1
    <3>. QED
      BY <3>1
  <2>2. /\ HasFrame(sent, p) /\ f[i] = p + 4 + length
        /\ delivered[i].payload = SubSeq(sent, p + 9, p + 4 + length)
        /\ length >= 4 => delivered[i].type = Int32Read(SubSeq(sent, p + 5, p + 8))
    BY <1>1, <1>2
  <2>. HIDE DEF p
  <2>3. HasFrame(sent', p) /\ LengthAt(sent', p) = length
    BY <1>1, <2>1, <2>2, LengthStays DEF HasFrame
  <2>4. length \in Int /\ length >= 0 /\ p + 4 + length <= Len(sent)
    BY <1>1, <2>1, <2>2, LengthIsInt DEF HasFrame
  <2>. HIDE DEF length
  <2>5. SubSeq(sent', p + 9, p + 4 + length) = SubSeq(sent, p + 9, p + 4 + length)
    BY <1>1, <2>1, <2>4, SliceStays
  <2>6. length >= 4 => SubSeq(sent', p + 5, p + 8) = SubSeq(sent, p + 5, p + 8)
    <3>. SUFFICES ASSUME length >= 4 PROVE SubSeq(sent', p + 5, p + 8) = SubSeq(sent, p + 5, p + 8)
      OBVIOUS
    <3>1. p + 8 <= Len(sent) /\ p + 5 \in Nat /\ p + 5 >= 1 /\ p + 8 \in Int
      BY <1>1, <2>1, <2>4
    <3>2. SubSeq(sent \o c, p + 5, p + 8) = SubSeq(sent, p + 5, p + 8)
      BY <1>1, <3>1, SliceStays
    <3>. QED
      BY <3>2
  <2>7. /\ HasFrame(sent', p) /\ LengthAt(sent', p) = length /\ f[i] = p + 4 + length
        /\ delivered[i].payload = SubSeq(sent', p + 9, p + 4 + length)
        /\ length >= 4 => delivered[i].type = Int32Read(SubSeq(sent', p + 5, p + 8))
    BY <2>2, <2>3, <2>5, <2>6
  <2>. QED
    BY <2>7 DEF p
<1>4. FramesAt(f)'
  BY <1>1, <1>3 DEF FramesAt, n
<1>5. Handed(f)'
  BY <1>1, <1>3 DEF Handed, n
<1>. QED
  BY <1>4, <1>5

LEMMA Pieces ==
  \A s, t \in Seq(Byte) :
    /\ s \o t \in Seq(Byte) /\ Len(s \o t) = Len(s) + Len(t)
    /\ Len(s) \in Nat /\ Len(t) \in Nat
    /\ \A i \in 1 .. Len(s) : (s \o t)[i] = s[i]
    /\ \A i \in 1 .. Len(t) : (s \o t)[Len(s) + i] = t[i]
<1>. TAKE s \in Seq(Byte), t \in Seq(Byte)
<1>. DEFINE d == s \o t
<1>1. /\ d \in Seq(Byte) /\ Len(d) = Len(s) + Len(t)
      /\ \A i \in 1 .. Len(s) + Len(t) : d[i] = IF i <= Len(s) THEN s[i] ELSE t[i - Len(s)]
      /\ Len(s) \in Nat /\ Len(t) \in Nat
  BY ConcatProperties
<1>. HIDE DEF d
<1>2. \A i \in 1 .. Len(s) : d[i] = s[i]
  BY <1>1
<1>3. ASSUME NEW i \in 1 .. Len(t) PROVE d[Len(s) + i] = t[i]
  <2>1. /\ Len(s) + i \in 1 .. Len(s) + Len(t) /\ ~(Len(s) + i <= Len(s))
        /\ (Len(s) + i) - Len(s) = i
    BY <1>1
  <2>. QED
    BY <1>1, <2>1
<1>. QED
  BY <1>1, <1>2, <1>3 DEF d

\* What is sent is behind what was sent before, and no read has taken it.
LEMMA PositionOfMore ==
  ASSUME ForeignTypes, NEW p, Position(p), NEW b \in Seq(Byte),
         sent' = sent \o b, toServer' = toServer \o b, toClient' = toClient
  PROVE  Position(p)'
<1>1. /\ sent \in Seq(Byte) /\ toServer \in Seq(Byte) /\ toClient \in Seq(Byte)
      /\ p \in Nat /\ Len(sent) = p + Len(toClient) + Len(toServer)
      /\ \A i \in 1 .. Len(toClient) : toClient[i] = sent[p + i]
      /\ \A i \in 1 .. Len(toServer) : toServer[i] = sent[p + Len(toClient) + i]
  BY DEF ForeignTypes, Position
<1>. DEFINE lc == Len(toClient)
            ls == Len(toServer)
            lb == Len(b)
<1>2. /\ Len(sent') = Len(sent) + lb /\ lb \in Nat /\ Len(sent) \in Nat
      /\ \A i \in 1 .. Len(sent) : sent'[i] = sent[i]
      /\ \A i \in 1 .. lb : sent'[Len(sent) + i] = b[i]
  <2>1. /\ Len(sent \o b) = Len(sent) + lb /\ lb \in Nat /\ Len(sent) \in Nat
        /\ \A i \in 1 .. Len(sent) : (sent \o b)[i] = sent[i]
        /\ \A i \in 1 .. lb : (sent \o b)[Len(sent) + i] = b[i]
    <3>1. sent \in Seq(Byte) /\ b \in Seq(Byte)
      BY <1>1
    <3>. QED
      BY ONLY <3>1, Pieces, Zenon
  <2>. QED
    BY <2>1, Zenon
<1>3. /\ Len(toServer') = ls + lb /\ ls \in Nat
      /\ \A i \in 1 .. ls : toServer'[i] = toServer[i]
      /\ \A i \in 1 .. lb : toServer'[ls + i] = b[i]
  <2>1. /\ Len(toServer \o b) = ls + lb /\ ls \in Nat
        /\ \A i \in 1 .. ls : (toServer \o b)[i] = toServer[i]
        /\ \A i \in 1 .. lb : (toServer \o b)[ls + i] = b[i]
    <3>1. toServer \in Seq(Byte) /\ b \in Seq(Byte)
      BY <1>1
    <3>. QED
      BY ONLY <3>1, Pieces, Zenon
  <2>. QED
    BY <2>1, Zenon
<1>4. /\ lc \in Nat /\ ls \in Nat /\ lb \in Nat /\ p \in Nat /\ Len(sent) = p + lc + ls
      /\ Len(toServer') = ls + lb /\ Len(sent') = (p + lc + ls) + lb
  BY <1>1, <1>2, <1>3
<1>. HIDE DEF lc, ls, lb
<1>5. Len(sent') = p + lc + Len(toServer')
  BY <1>4
<1>6. \A i \in 1 .. lc : toClient[i] = sent'[p + i]
  <2>1. \A i \in 1 .. lc : p + i \in 1 .. Len(sent)
    BY <1>4
  <2>. QED
    BY <1>1, <1>2, <2>1 DEF lc
<1>7. ASSUME NEW i \in 1 .. Len(toServer') PROVE toServer'[i] = sent'[p + lc + i]
  <2>1. CASE i <= ls
    <3>1. i \in 1 .. ls /\ p + lc + i \in 1 .. Len(sent)
      BY <1>4, <2>1
    <3>2. toServer[i] = sent[p + lc + i]
      BY <1>1, <3>1 DEF lc, ls
    <3>. QED
      BY <1>2, <1>3, <3>1, <3>2
  <2>2. CASE ~(i <= ls)
    <3>. DEFINE j == i - ls
    <3>1. j \in 1 .. lb /\ i = ls + j /\ p + lc + i = Len(sent) + j
      BY <1>4, <2>2
    <3>. HIDE DEF j
    <3>. QED
      BY <1>2, <1>3, <3>1
  <2>. QED
    BY <2>1, <2>2
<1>. QED
  BY <1>1, <1>5, <1>6, <1>7 DEF Position, lc

\* The server moves bytes on, which keeps them in order.
LEMMA PositionOfMoved ==
  ASSUME ForeignTypes, NEW p, Position(p), NEW n \in 1 .. Len(toServer), Echo(n), sent' = sent
  PROVE  Position(p)' /\ toServer' \in Seq(Byte) /\ toClient' \in Seq(Byte)
<1>1. /\ sent \in Seq(Byte) /\ toServer \in Seq(Byte) /\ toClient \in Seq(Byte)
      /\ p \in Nat /\ Len(sent) = p + Len(toClient) + Len(toServer)
      /\ \A i \in 1 .. Len(toClient) : toClient[i] = sent[p + i]
      /\ \A i \in 1 .. Len(toServer) : toServer[i] = sent[p + Len(toClient) + i]
  BY DEF ForeignTypes, Position
<1>. DEFINE lc == Len(toClient)
            ls == Len(toServer)
            m == ls - n
            b == SubSeq(toServer, 1, n)
            c == SubSeq(toServer, n + 1, ls)
<1>2. lc \in Nat /\ ls \in Nat /\ n \in Nat /\ m \in Nat /\ n + m = ls /\ Len(sent) = p + lc + ls
  BY <1>1
<1>3. b \in Seq(Byte) /\ Len(b) = n /\ \A i \in 1 .. n : b[i] = toServer[i]
  <2>1. 0 \in Nat /\ 0 + n <= Len(toServer) /\ 0 + 1 = 1 /\ 0 + n = n
    BY <1>2
  <2>2. \A i \in 1 .. n : 0 + i = i
    OBVIOUS
  <2>3. /\ SubSeq(toServer, 0 + 1, 0 + n) \in Seq(Byte)
        /\ Len(SubSeq(toServer, 0 + 1, 0 + n)) = n
        /\ \A i \in 1 .. n : SubSeq(toServer, 0 + 1, 0 + n)[i] = toServer[0 + i]
    BY <1>1, <1>2, <2>1, Slice
  <2>. QED
    BY <2>1, <2>2, <2>3
<1>4. c \in Seq(Byte) /\ Len(c) = m /\ \A i \in 1 .. m : c[i] = toServer[n + i]
  <2>. HIDE DEF m
  <2>1. n + m <= Len(toServer) /\ n + m = ls
    BY <1>2
  <2>2. /\ SubSeq(toServer, n + 1, n + m) \in Seq(Byte) /\ Len(SubSeq(toServer, n + 1, n + m)) = m
        /\ \A i \in 1 .. m : SubSeq(toServer, n + 1, n + m)[i] = toServer[n + i]
    BY <1>1, <1>2, <2>1, Slice
  <2>. QED
    BY <2>1, <2>2
<1>5. toClient' = toClient \o b /\ toServer' = c
  BY DEF Echo
<1>. HIDE DEF b, c, m
<1>6. /\ toClient' \in Seq(Byte) /\ Len(toClient') = lc + n
      /\ \A i \in 1 .. lc : toClient'[i] = toClient[i]
      /\ \A i \in 1 .. n : toClient'[lc + i] = b[i]
  <2>1. /\ toClient \o b \in Seq(Byte) /\ Len(toClient \o b) = lc + Len(b)
        /\ \A i \in 1 .. lc : (toClient \o b)[i] = toClient[i]
        /\ \A i \in 1 .. Len(b) : (toClient \o b)[lc + i] = b[i]
    <3>1. toClient \in Seq(Byte) /\ b \in Seq(Byte)
      BY <1>1, <1>3
    <3>. HIDE DEF b
    <3>. QED
      BY ONLY <3>1, Pieces, Zenon
  <2>2. Len(b) = n
    BY <1>3
  <2>. QED
    BY <1>5, <2>1, <2>2, Zenon
<1>. HIDE DEF lc, ls
<1>7. Len(sent') = p + Len(toClient') + Len(toServer')
  <2>1. Len(toClient') = lc + n /\ Len(toServer') = m /\ p \in Nat /\ Len(sent') = p + lc + ls
    BY <1>1, <1>2, <1>4, <1>5, <1>6
  <2>. QED
    BY <1>2, <2>1
<1>8. ASSUME NEW i \in 1 .. Len(toClient') PROVE toClient'[i] = sent[p + i]
  <2>1. CASE i <= lc
    <3>1. i \in 1 .. lc
      BY <1>2, <1>6, <2>1
    <3>. QED
      BY <1>1, <1>6, <3>1 DEF lc
  <2>2. CASE ~(i <= lc)
    <3>. DEFINE j == i - lc
    <3>1. j \in 1 .. n /\ i = lc + j /\ p + i = p + lc + j /\ j \in 1 .. ls
      BY <1>1, <1>2, <1>6, <2>2
    <3>. HIDE DEF j
    <3>2. toClient'[lc + j] = b[j] /\ b[j] = toServer[j] /\ toServer[j] = sent[p + lc + j]
      BY <1>1, <1>3, <1>6, <3>1 DEF lc, ls
    <3>. QED
      BY <3>1, <3>2
  <2>. QED
    BY <2>1, <2>2
<1>9. ASSUME NEW i \in 1 .. Len(toServer') PROVE toServer'[i] = sent[p + Len(toClient') + i]
  <2>1. i \in 1 .. m /\ n + i \in 1 .. ls /\ p + lc + (n + i) = p + Len(toClient') + i
    BY <1>1, <1>2, <1>4, <1>5, <1>6
  <2>2. toServer[n + i] = sent[p + lc + (n + i)]
    <3>. DEFINE k == n + i
    <3>1. k \in 1 .. ls
      BY <2>1
    <3>. HIDE DEF k
    <3>2. toServer[k] = sent[p + lc + k]
      BY <1>1, <3>1 DEF lc, ls
    <3>. QED
      BY <3>2 DEF k
  <2>. QED
    BY <1>4, <1>5, <2>1, <2>2
<1>. QED
  BY <1>1, <1>4, <1>5, <1>6, <1>7, <1>8, <1>9 DEF Position

\* A read takes the next k bytes.
LEMMA PositionOfTaken ==
  ASSUME ForeignTypes, NEW p, Position(p), NEW k \in Nat, k <= Len(toClient),
         toClient' = SubSeq(toClient, k + 1, Len(toClient)), UNCHANGED << sent, toServer >>
  PROVE  Position(p + k)' /\ toClient' \in Seq(Byte)
<1>1. /\ sent \in Seq(Byte) /\ toServer \in Seq(Byte) /\ toClient \in Seq(Byte)
      /\ p \in Nat /\ Len(sent) = p + Len(toClient) + Len(toServer)
      /\ \A i \in 1 .. Len(toClient) : toClient[i] = sent[p + i]
      /\ \A i \in 1 .. Len(toServer) : toServer[i] = sent[p + Len(toClient) + i]
  BY DEF ForeignTypes, Position
<1>. DEFINE lc == Len(toClient)
            m == lc - k
<1>2. lc \in Nat /\ m \in Nat /\ k \in Nat /\ k + m = lc /\ Len(toServer) \in Nat
  BY <1>1
<1>3. toClient' \in Seq(Byte) /\ Len(toClient') = m /\ \A i \in 1 .. m : toClient'[i] = toClient[k + i]
  <2>. HIDE DEF m
  <2>1. k + m <= Len(toClient)
    BY <1>2
  <2>2. /\ SubSeq(toClient, k + 1, k + m) \in Seq(Byte) /\ Len(SubSeq(toClient, k + 1, k + m)) = m
        /\ \A i \in 1 .. m : SubSeq(toClient, k + 1, k + m)[i] = toClient[k + i]
    BY <1>1, <1>2, <2>1, Slice
  <2>. QED
    BY <1>2, <2>2
<1>. HIDE DEF m, lc
<1>4. Len(sent') = (p + k) + Len(toClient') + Len(toServer') /\ p + k \in Nat
  <2>1. Len(toClient') = m /\ toServer' = toServer /\ p \in Nat /\ Len(sent') = p + lc + Len(toServer)
    BY <1>1, <1>3 DEF lc
  <2>. QED
    BY ONLY <1>2, <2>1
<1>5. ASSUME NEW i \in 1 .. Len(toClient') PROVE toClient'[i] = sent[(p + k) + i]
  <2>1. i \in 1 .. m /\ k + i \in 1 .. lc /\ p + (k + i) = (p + k) + i
    BY <1>1, <1>2, <1>3
  <2>2. toClient[k + i] = sent[p + (k + i)]
    <3>. DEFINE j == k + i
    <3>1. j \in 1 .. lc
      BY <2>1
    <3>. HIDE DEF j
    <3>2. toClient[j] = sent[p + j]
      BY <1>1, <3>1 DEF lc
    <3>. QED
      BY <3>2 DEF j
  <2>. QED
    BY <1>3, <2>1, <2>2
<1>6. ASSUME NEW i \in 1 .. Len(toServer') PROVE toServer'[i] = sent[(p + k) + Len(toClient') + i]
  <2>0. Len(toClient') = m /\ p \in Nat /\ i \in 1 .. Len(toServer)
    BY <1>1, <1>3
  <2>1. i \in 1 .. Len(toServer) /\ (p + k) + Len(toClient') + i = p + lc + i
    BY ONLY <1>2, <2>0
  <2>. QED
    BY <1>1, <2>1 DEF lc
<1>. QED
  BY <1>3, <1>4, <1>5, <1>6 DEF Position

\* The bytes that a read takes are the next ones of what was sent.
LEMMA UnreadSlice ==
  ASSUME ForeignTypes, NEW p, Position(p), NEW k \in Nat, NEW m \in Nat, k + m <= Len(toClient)
  PROVE  /\ (p + k) + m <= Len(sent)
         /\ SubSeq(toClient, k + 1, k + m) = SubSeq(sent, (p + k) + 1, (p + k) + m)
<1>1. /\ sent \in Seq(Byte) /\ toClient \in Seq(Byte) /\ toServer \in Seq(Byte)
      /\ p \in Nat /\ Len(sent) = p + Len(toClient) + Len(toServer)
      /\ \A i \in 1 .. Len(toClient) : toClient[i] = sent[p + i]
  BY DEF ForeignTypes, Position
<1>2. PICK l \in Nat : l = Len(toClient)
  BY <1>1
<1>3. PICK t \in Nat : t = Len(toServer)
  BY <1>1
<1>4. k + m <= l /\ p \in Nat /\ Len(sent) = p + l + t
  BY <1>1, <1>2, <1>3
<1>5. PICK q \in Nat : q = p + k
  BY <1>4
<1>6. q + m <= Len(sent)
  BY <1>4, <1>5
<1>7. ASSUME NEW i \in 1 .. m PROVE toClient[k + i] = sent[q + i]
  <2>1. PICK j \in 1 .. l : j = k + i
    BY <1>4
  <2>2. p + j = q + i
    BY <1>4, <1>5, <2>1
  <2>3. toClient[j] = sent[p + j]
    BY <1>1, <1>2, Zenon
  <2>. QED
    BY <2>1, <2>2, <2>3
<1>8. SubSeq(toClient, k + 1, k + m) = SubSeq(sent, q + 1, q + m)
  <2>1. toClient \in Seq(Byte) /\ sent \in Seq(Byte)
    BY <1>1
  <2>2. k \in Nat /\ m \in Nat /\ q \in Nat
    OBVIOUS
  <2>. QED
    <3>1. k + m <= Len(toClient) /\ \A i \in 1 .. m : toClient[k + i] = sent[q + i]
      BY <1>7
    <3>. QED
      <4>1. \A e, o, c \in Nat :
              e + c <= Len(toClient) /\ o + c <= Len(sent) /\ (\A i \in 1 .. c : toClient[e + i] = sent[o + i])
                => SubSeq(toClient, e + 1, e + c) = SubSeq(sent, o + 1, o + c)
        BY ONLY <2>1, SameSlice, Zenon
      <4>. QED
        BY ONLY <1>6, <2>2, <3>1, <4>1, Zenon
<1>. QED
  BY <1>5, <1>6, <1>8

\* The server sends a length, and that is what a read makes of it.
LEMMA SendKeepsInv ==
  ASSUME ForeignAssumption, ForeignInv, NEW l \in Announced, Send(l, [i \in 1 .. l |-> Fill(i)])
  PROVE  ForeignInv'
<1>. DEFINE body == [i \in 1 .. l |-> Fill(i)]
            b == Memory(host_to_network_long(l)) \o body
<1>1. body \in Seq(Byte)
  <2>1. l \in Int /\ \A i \in 1 .. l : Fill(i) \in Byte
    BY WordFacts DEF ForeignAssumption, Int32
  <2>2. CASE l >= 0
    <3>1. l \in Nat /\ body \in [1 .. l -> Byte]
      BY <2>1, <2>2
    <3>. HIDE DEF body
    <3>. QED
      BY <3>1, SeqDef
  <2>3. CASE l < 0
    <3>1. 1 .. l = 1 .. 0
      BY <2>1, <2>3
    <3>2. body = << >>
      BY <3>1
    <3>. HIDE DEF body
    <3>3. << >> \in Seq(Byte)
      OBVIOUS
    <3>. QED
      BY ONLY <3>2, <3>3
  <2>. QED
    BY <2>1, <2>2, <2>3
<1>. HIDE DEF body
<1>2. b \in Seq(Byte)
  <2>1. l \in Int32
    BY DEF ForeignAssumption
  <2>2. Memory(host_to_network_long(l)) \in Seq(Byte)
    BY <2>1, FourBytes
  <2>. QED
    BY <1>1, <2>2, Pieces
<1>3. /\ sent' = sent \o b /\ toServer' = toServer \o b
      /\ UNCHANGED << toClient, reading, bodySize, delivered >>
  BY DEF Send, body
<1>. HIDE DEF b
<1>4. ForeignTypes
  BY DEF ForeignInv
<1>5. ForeignTypes'
  <2>1. sent \in Seq(Byte) /\ toServer \in Seq(Byte)
    BY <1>4 DEF ForeignTypes
  <2>2. sent \o b \in Seq(Byte) /\ toServer \o b \in Seq(Byte)
    BY <1>2, <2>1, Pieces
  <2>. QED
    BY <1>3, <1>4, <2>2 DEF ForeignTypes
<1>6. PICK f \in [Nat -> Nat] : FramesAt(f) /\ Handed(f) /\ ReadsAt(f[Len(delivered)])
  BY DEF ForeignInv
<1>7. FramesAt(f)' /\ Handed(f)'
  BY <1>2, <1>3, <1>4, <1>6, FramesStay
<1>8. PICK p \in Nat : p = f[Len(delivered)]
  BY <1>4, <1>6 DEF ForeignTypes
<1>9. ReadsAt(p)'
  <2>1. \A q : Position(q) => Position(q)'
    BY <1>2, <1>3, <1>4, PositionOfMore
  <2>2. HasLength(sent, p) => HasLength(sent', p) /\ LengthAt(sent', p) = LengthAt(sent, p)
    BY <1>2, <1>3, <1>4, LengthStays DEF ForeignTypes
  <2>3. ReadsAt(p)
    BY <1>6, <1>8
  <2>. QED
    BY <1>3, <2>1, <2>2, <2>3 DEF ReadsAt
<1>. QED
  BY <1>3, <1>5, <1>6, <1>7, <1>8, <1>9 DEF ForeignInv

LEMMA EchoKeepsInv ==
  ASSUME ForeignInv, NEW n \in 1 .. Len(toServer), Echo(n), UNCHANGED << sent, framed >>
  PROVE  ForeignInv'
<1>1. ForeignTypes /\ UNCHANGED << sent, delivered, reading, bodySize >>
  BY DEF ForeignInv, Echo
<1>2. PICK f \in [Nat -> Nat] : FramesAt(f) /\ Handed(f) /\ ReadsAt(f[Len(delivered)])
  BY DEF ForeignInv
<1>3. FramesAt(f)' /\ Handed(f)'
  BY <1>1, <1>2 DEF FramesAt, Handed
<1>4. \A p : Position(p) => Position(p)' /\ toServer' \in Seq(Byte) /\ toClient' \in Seq(Byte)
  BY <1>1, PositionOfMoved
<1>5. PICK p : p = f[Len(delivered)]
  OBVIOUS
<1>6. ReadsAt(p)' /\ toServer' \in Seq(Byte) /\ toClient' \in Seq(Byte)
  <2>1. ReadsAt(p)
    BY <1>2, <1>5
  <2>. QED
    BY <1>1, <1>4, <2>1 DEF ReadsAt
<1>7. ForeignTypes'
  BY <1>1, <1>6 DEF ForeignTypes
<1>. QED
  BY <1>1, <1>3, <1>5, <1>6, <1>7 DEF ForeignInv

\* The header that is read is that of the next frame.
LEMMA HeaderKeepsInv ==
  ASSUME ForeignInv, handle_headerRead, UNCHANGED << sent, framed >>
  PROVE  ForeignInv'
<1>1. /\ ForeignTypes /\ UNCHANGED << sent, delivered, toServer >> /\ reading = "header"
      /\ Len(toClient) >= 4 /\ toClient' = SubSeq(toClient, 4 + 1, Len(toClient))
  BY DEF ForeignInv, handle_headerRead
<1>2. PICK f \in [Nat -> Nat] : FramesAt(f) /\ Handed(f) /\ ReadsAt(f[Len(delivered)])
  BY DEF ForeignInv
<1>3. FramesAt(f)' /\ Handed(f)'
  BY <1>1, <1>2 DEF FramesAt, Handed
<1>4. PICK p : p = f[Len(delivered)]
  OBVIOUS
<1>5. Position(p) /\ p \in Nat
  BY <1>1, <1>2, <1>4 DEF ReadsAt, Position
<1>6. Position(p + 4)' /\ toClient' \in Seq(Byte)
  <2>1. 4 \in Nat /\ 4 <= Len(toClient)
    BY <1>1 DEF ForeignTypes
  <2>2. UNCHANGED << sent, toServer >>
    BY <1>1
  <2>. QED
    BY <1>1, <1>5, <2>1, <2>2, PositionOfTaken
<1>7. HasLength(sent, p) /\ SubSeq(toClient, 1, 4) = SubSeq(sent, p + 1, p + 4)
  <2>1. 0 \in Nat /\ 4 \in Nat /\ 0 + 4 <= Len(toClient) /\ p + 0 = p /\ 0 + 1 = 1 /\ 0 + 4 = 4
    BY <1>1, <1>5
  <2>2. /\ (p + 0) + 4 <= Len(sent)
        /\ SubSeq(toClient, 0 + 1, 0 + 4) = SubSeq(sent, (p + 0) + 1, (p + 0) + 4)
    BY <1>1, <1>5, <2>1, UnreadSlice
  <2>. QED
    BY <2>1, <2>2 DEF HasLength
<1>8. LengthAt(sent, p) = Int32Read(SubSeq(toClient, 1, 4)) /\ LengthAt(sent, p) \in Int
  BY <1>1, <1>5, <1>7, LengthIsInt DEF LengthAt, ForeignTypes
<1>9. \/ reading' = "body" /\ bodySize' = LengthAt(sent, p) /\ LengthAt(sent, p) >= 0
      \/ reading' = "thrown" /\ LengthAt(sent, p) < 0
  <2>. DEFINE size == Int32Read(SubSeq(toClient, 1, 4)) - 4 - HeaderLengthFix
  <2>1. size = LengthAt(sent, p) /\ size \in Int
    BY <1>8 DEF HeaderLengthFix
  <2>2. IF size >= 0 THEN reading' = "body" /\ bodySize' = size
                     ELSE reading' = "thrown" /\ UNCHANGED bodySize
    BY DEF handle_headerRead
  <2>. HIDE DEF size
  <2>3. CASE size >= 0
    BY <2>1, <2>2, <2>3
  <2>4. CASE ~(size >= 0)
    <3>1. size < 0
      BY <2>1, <2>4
    <3>. QED
      BY <2>1, <2>2, <2>4, <3>1
  <2>. QED
    BY <2>3, <2>4
<1>10. ReadsAt(p)'
  BY <1>1, <1>6, <1>7, <1>9 DEF ReadsAt
<1>11. ForeignTypes'
  BY <1>1, <1>6 DEF ForeignTypes
<1>. QED
  BY <1>1, <1>3, <1>4, <1>10, <1>11 DEF ForeignInv

\* The body that is handed over is that of the next frame.
LEMMA BodyKeepsInv ==
  ASSUME ForeignInv, handle_bodyRead, UNCHANGED << sent, framed >>
  PROVE  ForeignInv'
<1>1. ForeignTypes /\ reading = "body" /\ UNCHANGED << sent, toServer, bodySize >> /\ reading' = "header"
  BY DEF ForeignInv, handle_bodyRead
<1>2. /\ sent \in Seq(Byte) /\ toClient \in Seq(Byte) /\ delivered \in Seq(Handovers)
      /\ Len(delivered) \in Nat /\ Len(toClient) \in Nat /\ Len(sent) \in Nat
  BY <1>1 DEF ForeignTypes
<1>3. PICK f \in [Nat -> Nat] : FramesAt(f) /\ Handed(f) /\ ReadsAt(f[Len(delivered)])
  BY DEF ForeignInv
<1>4. PICK n \in Nat : n = Len(delivered)
  BY <1>2
<1>5. PICK p \in Nat : p = f[n]
  BY <1>3
<1>6. Position(p + 4) /\ HasLength(sent, p) /\ bodySize = LengthAt(sent, p) /\ bodySize >= 0
  BY <1>1, <1>3, <1>4, <1>5 DEF ReadsAt
<1>7. PICK size \in Nat : size = bodySize
  <2>1. bodySize \in Int
    BY <1>2, <1>6, LengthIsInt
  <2>. QED
    BY <1>6, <2>1
<1>8. size <= Len(toClient) /\ toClient' = SubSeq(toClient, size + 1, Len(toClient))
  <2>1. Len(toClient) >= bodySize /\ toClient' = SubSeq(toClient, bodySize + 1, Len(toClient))
    BY DEF handle_bodyRead
  <2>. QED
    BY <1>2, <1>7, <2>1
<1>9. PICK r : r = (p + 4) + size
  OBVIOUS
<1>10. Position(r)' /\ toClient' \in Seq(Byte)
  <2>1. UNCHANGED << sent, toServer >>
    BY <1>1
  <2>. QED
    BY <1>1, <1>6, <1>8, <1>9, <2>1, PositionOfTaken
<1>11. \A k, m \in Nat : k + m <= size =>
         /\ (p + 4 + k) + m <= Len(sent)
         /\ SubSeq(toClient, k + 1, k + m) = SubSeq(sent, (p + 4 + k) + 1, (p + 4 + k) + m)
  <2>. SUFFICES ASSUME NEW k \in Nat, NEW m \in Nat, k + m <= size
                PROVE  /\ (p + 4 + k) + m <= Len(sent)
                       /\ SubSeq(toClient, k + 1, k + m) = SubSeq(sent, (p + 4 + k) + 1, (p + 4 + k) + m)
    OBVIOUS
  <2>1. k + m <= Len(toClient)
    <3>. HIDE <1>8
    <3>1. size <= Len(toClient)
      BY <1>8
    <3>. QED
      BY <1>2, <3>1
  <2>. QED
    BY <1>1, <1>6, <2>1, UnreadSlice
<1>12. HasFrame(sent, p) /\ LengthAt(sent, p) = size
  <2>1. 0 \in Nat /\ 0 + size <= size /\ (p + 4 + 0) + size = p + 4 + size
    OBVIOUS
  <2>2. p + 4 + size <= Len(sent)
    BY <1>11, <2>1
  <2>. QED
    BY <1>6, <1>7, <2>2 DEF HasFrame
<1>13. PICK type \in IF size < 4 THEN Int32 ELSE {Int32Read(SubSeq(toClient, 1, 4))} :
         delivered' = Append(delivered,
           [type |-> type, payload |-> LuaString(SubSeq(toClient, 5, size))])
  BY <1>7 DEF handle_bodyRead
<1>14. PICK payload \in Seq(Byte) :
         payload = SubSeq(toClient, 5, size) /\ payload = SubSeq(sent, p + 9, p + 4 + size)
  <2>1. CASE size >= 5
    <3>1. PICK m \in Nat : 4 + m = size
      <4>1. size - 4 \in Nat /\ 4 + (size - 4) = size
        BY <2>1
      <4>. QED
        BY <4>1
    <3>2. /\ 4 \in Nat /\ 4 + m <= size /\ 4 + 1 = 5
          /\ (p + 4 + 4) + 1 = p + 9 /\ (p + 4 + 4) + m = p + 4 + size
      BY <3>1
    <3>3. SubSeq(toClient, 4 + 1, 4 + m) = SubSeq(sent, (p + 4 + 4) + 1, (p + 4 + 4) + m)
      BY <1>11, <3>2
    <3>4. SubSeq(toClient, 4 + 1, 4 + m) \in Seq(Byte)
      BY <1>2, <1>8, <3>1, <3>2, Slice, Zenon
    <3>. QED
      BY <3>1, <3>2, <3>3, <3>4
  <2>2. CASE ~(size >= 5)
    <3>1. size \in Int /\ size < 5 /\ p + 9 \in Int /\ p + 4 + size \in Int /\ p + 4 + size < p + 9
      BY <2>2
    <3>2. SubSeq(toClient, 5, size) = << >> /\ SubSeq(sent, p + 9, p + 4 + size) = << >>
      BY <3>1, SubSeqEmpty
    <3>3. << >> \in Seq(Byte)
      OBVIOUS
    <3>. QED
      BY <3>2, <3>3
  <2>. QED
    BY <2>1, <2>2
<1>15. delivered' = Append(delivered, [type |-> type, payload |-> payload])
  BY <1>13, <1>14, LuaStringIs
<1>16. type \in Int32 /\ (size >= 4 => type = Int32Read(SubSeq(sent, p + 5, p + 8)))
  <2>1. CASE size < 4
    BY <1>13, <2>1
  <2>2. CASE ~(size < 4)
    <3>1. /\ 0 \in Nat /\ 4 \in Nat /\ 0 + 4 <= size /\ 0 + 1 = 1 /\ 0 + 4 = 4
          /\ (p + 4 + 0) + 1 = p + 5 /\ (p + 4 + 0) + 4 = p + 8
      BY <2>2
    <3>2. SubSeq(toClient, 0 + 1, 0 + 4) = SubSeq(sent, (p + 4 + 0) + 1, (p + 4 + 0) + 4)
      BY <1>11, <3>1
    <3>3. p + 4 \in Nat /\ (p + 4) + 4 <= Len(sent) /\ (p + 4) + 1 = p + 5 /\ (p + 4) + 4 = p + 8
      <4>1. (p + 4 + 0) + 4 <= Len(sent)
        BY <1>11, <3>1
      <4>. QED
        BY <3>1, <4>1
    <3>4. SubSeq(sent, (p + 4) + 1, (p + 4) + 4) \in Seq(Byte) /\ Len(SubSeq(sent, (p + 4) + 1, (p + 4) + 4)) = 4
      <4>1. PICK o \in Nat : o = p + 4
        BY <3>3
      <4>2. sent \in Seq(Byte) /\ o \in Nat /\ 4 \in Nat /\ o + 4 <= Len(sent)
        BY <1>2, <3>3, <4>1
      <4>3. SubSeq(sent, o + 1, o + 4) \in Seq(Byte) /\ Len(SubSeq(sent, o + 1, o + 4)) = 4
        BY ONLY <4>2, Slice, Zenon
      <4>. QED
        BY <4>1, <4>3
    <3>5. SubSeq(sent, p + 5, p + 8) \in Seq(Byte) /\ Len(SubSeq(sent, p + 5, p + 8)) = 4
      BY <3>3, <3>4
    <3>6. type = Int32Read(SubSeq(toClient, 1, 4))
      BY <1>13, <2>2
    <3>7. SubSeq(toClient, 1, 4) = SubSeq(sent, p + 5, p + 8)
      BY <3>1, <3>2
    <3>. QED
      BY <3>5, <3>6, <3>7, FourAreInt
  <2>. QED
    BY <2>1, <2>2
<1>17. PICK d \in Handovers : d = [type |-> type, payload |-> payload]
  BY <1>16 DEF Handovers
<1>18. d.type = type /\ d.payload = payload
  BY <1>17
<1>19. /\ delivered' \in Seq(Handovers) /\ Len(delivered') = n + 1
       /\ \A i \in 1 .. n : delivered'[i] = delivered[i]
       /\ delivered'[n + 1] = d
  <2>1. delivered' = Append(delivered, d)
    BY <1>15, <1>17
  <2>2. /\ Append(delivered, d) \in Seq(Handovers) /\ Len(Append(delivered, d)) = Len(delivered) + 1
        /\ \A i \in 1 .. Len(delivered) : Append(delivered, d)[i] = delivered[i]
        /\ Append(delivered, d)[Len(delivered) + 1] = d
    BY <1>2, AppendProperties
  <2>. QED
    BY <1>4, <2>1, <2>2
<1>20. ForeignTypes'
  BY <1>1, <1>10, <1>19 DEF ForeignTypes
<1>21. PICK g \in [Nat -> Nat] : g[n + 1] = r /\ \A i \in 0 .. n : g[i] = f[i]
  <2>. DEFINE g == [i \in Nat |-> IF i = n + 1 THEN r ELSE f[i]]
  <2>1. r \in Nat /\ n + 1 \in Nat /\ \A i \in 0 .. n : i \in Nat /\ i # n + 1
    BY <1>9
  <2>2. g \in [Nat -> Nat] /\ g[n + 1] = r /\ \A i \in 0 .. n : g[i] = f[i]
    BY <2>1
  <2>. QED
    BY <2>2
<1>22. ASSUME NEW i \in 1 .. n + 1
       PROVE  LET q == g[i - 1]
                  length == LengthAt(sent, q)
              IN /\ HasFrame(sent, q) /\ g[i] = q + 4 + length
                 /\ delivered'[i].payload = SubSeq(sent, q + 9, q + 4 + length)
                 /\ length >= 4 => delivered'[i].type = Int32Read(SubSeq(sent, q + 5, q + 8))
  <2>1. CASE i = n + 1
    <3>1. g[i - 1] = p
      <4>1. i - 1 = n /\ n \in 0 .. n
        BY <2>1
      <4>. QED
        BY <1>5, <1>21, <4>1
    <3>2. g[i] = p + 4 + size /\ delivered'[i] = d
      BY <1>9, <1>19, <1>21, <2>1
    <3>. QED
      BY <1>12, <1>14, <1>16, <1>18, <3>1, <3>2
  <2>2. CASE i # n + 1
    <3>1. i \in 1 .. n /\ i - 1 \in 0 .. n /\ i \in 0 .. n
      BY <2>2
    <3>2. g[i - 1] = f[i - 1] /\ g[i] = f[i] /\ delivered'[i] = delivered[i]
      BY <1>19, <1>21, <3>1
    <3>. QED
      BY <1>3, <1>4, <3>1, <3>2 DEF FramesAt, Handed
  <2>. QED
    BY <2>1, <2>2
<1>23. g[0] = 0
  <2>1. 0 \in 0 .. n
    OBVIOUS
  <2>. QED
    BY <1>3, <1>21, <2>1 DEF FramesAt
<1>24. FramesAt(g)'
  BY <1>1, <1>19, <1>22, <1>23 DEF FramesAt
<1>25. Handed(g)'
  BY <1>1, <1>19, <1>22 DEF Handed
<1>26. ReadsAt(r)'
  BY <1>1, <1>10 DEF ReadsAt
<1>. QED
  BY <1>19, <1>20, <1>21, <1>24, <1>25, <1>26 DEF ForeignInv

LEMMA ForeignInvNext ==
  ASSUME ForeignAssumption, ForeignInv, [ForeignNext]_foreignVars
  PROVE  ForeignInv'
<1>1. ASSUME NEW l \in Announced, Send(l, [i \in 1 .. l |-> Fill(i)]) PROVE ForeignInv'
  BY <1>1, SendKeepsInv
<1>2. ASSUME NEW n \in 1 .. Len(toServer), Echo(n), UNCHANGED << sent, framed >> PROVE ForeignInv'
  BY <1>2, EchoKeepsInv
<1>3. CASE handle_headerRead /\ UNCHANGED << sent, framed >>
  BY <1>3, HeaderKeepsInv
<1>4. CASE handle_bodyRead /\ UNCHANGED << sent, framed >>
  BY <1>4, BodyKeepsInv
<1>5. CASE UNCHANGED foreignVars
  BY <1>5 DEF foreignVars, wireVars, ForeignInv, ForeignTypes, FramesAt, Handed, ReadsAt, Position
<1>. QED
  BY <1>1, <1>2, <1>3, <1>4, <1>5 DEF ForeignNext

\* Whatever lengths a server announces, however many frames it sends, and however the
\* network cuts them up, the client hands over the bodies it was sent, in their order,
\* with their type codes where they are long enough to have one, and a handler throws
\* at the first negative length and nowhere else.
THEOREM WireBodiesAsSent == ASSUME ForeignAssumption PROVE ForeignSpec => []BodiesAsSent
<1>1. ForeignInit => ForeignInv
  BY ForeignInvInit
<1>2. ForeignInv /\ [ForeignNext]_foreignVars => ForeignInv'
  BY ForeignInvNext
<1>. QED
  BY <1>1, <1>2, InvIsAsSent, PTL DEF ForeignSpec
=================================================================================
