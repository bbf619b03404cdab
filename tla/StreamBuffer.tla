------------------------------ MODULE StreamBuffer ------------------------------
(***************************************************************************)
(* source/io/StreamBuffer.cc: a queue of bytes in one block of memory that *)
(* append() compacts or doubles when it is full.  The program only reads   *)
(* from borrowed buffers; the class offers both.                           *)
(*                                                                         *)
(* The bytes that go in are numbered, so that byte n is the n-th one ever  *)
(* appended (or the n-th of a borrowed buffer) and 0 is memory that was    *)
(* never written.  Pointers are offsets from begin_ptr_.                   *)
(***************************************************************************)
EXTENDS Integers, Sequences

CONSTANTS
  MaxAppended,   \* bound: bytes appended in all
  Lengths        \* the lengths passed to append() and readString()

StreamBufferAssumption ==
  MaxAppended \in Nat /\ Lengths \subseteq Int

VARIABLES
  owned,      \* owned_
  size,       \* end_ptr_ - begin_ptr_
  mem,        \* the block, by offset
  rd, wr,     \* read_ptr_, write_ptr_
  appended,   \* how many bytes went in
  taken,      \* how many bytes were read
  got,        \* what the last successful read returned
  lost        \* the bytes that a compaction wrote over before they were read

bufferVars == << owned, size, mem, rd, wr, appended, taken, got, lost >>

--------------------------------------------------------------------------------
(* A block and its pointers, as the steps of append() change them *)

Block == [size |-> size, mem |-> mem, rd |-> rd, wr |-> wr, lost |-> lost]

payLength(b) == b.wr - b.rd
Left(b) == b.size - b.wr

\* "Copy one": the n bytes fit behind the payload.
CopyBehind(b, n) ==
  [b EXCEPT !.mem = [i \in 0 .. b.size - 1 |->
                       IF i \in b.wr .. b.wr + n - 1 THEN appended + 1 + i - b.wr ELSE b.mem[i]],
            !.wr = @ + n]

\* The unread bytes that do not fit into the part of the block already read.
LeftBehind(b) == taken + b.rd + 1 .. taken + payLength(b)

\* Mutant: the payload is moved one byte too far.
Mutant_CompactShifted(b) ==
  [b EXCEPT !.mem = [i \in 0 .. b.size - 1 |->
                       IF i < b.rd /\ b.rd + i + 1 < b.size THEN b.mem[b.rd + i + 1] ELSE b.mem[i]],
            !.rd = 0,
            !.wr = @ - b.rd,
            !.lost = @ \cup LeftBehind(b)]

\* "Copy two": the payload moves to the start of the block, or rather as many
\* bytes of it as there are before it; what lies past the block is garbage.
Compact(b) ==
  [b EXCEPT !.mem = [i \in 0 .. b.size - 1 |->
                       IF i >= b.rd THEN b.mem[i]
                       ELSE IF b.rd + i < b.size THEN b.mem[b.rd + i] ELSE 0],
            !.rd = 0,
            !.wr = @ - b.rd,
            !.lost = @ \cup LeftBehind(b)]

\* "Copy three": a block of twice the size, the payload at its start.
Grow(b) ==
  [b EXCEPT !.size = 2 * @,
            !.mem = [i \in 0 .. 2 * b.size - 1 |->
                       IF i < payLength(b) THEN b.mem[b.rd + i] ELSE 0],
            !.rd = 0,
            !.wr = payLength(b)]

\* append() calls itself until n bytes fit behind the payload; every call but the
\* last makes room for one byte more at least, or for all of them.
MakeRoom(b, n) ==
  IF Left(b) >= n THEN b
  ELSE IF Left(b) + b.rd >= n THEN Compact(b)
  ELSE Grow(b)

\* The block after append() of n bytes.
Appended(b, n) ==
  LET made[k \in 0 .. n] == IF k = 0 THEN b ELSE MakeRoom(made[k - 1], n)
  IN CopyBehind(made[n], n)

--------------------------------------------------------------------------------
(* The members *)

append(n) ==
  /\ appended + n <= MaxAppended
  /\ IF owned /\ n > 0
     THEN LET b == Appended(Block, n) IN
            /\ size' = b.size /\ mem' = b.mem /\ rd' = b.rd /\ wr' = b.wr
            /\ lost' = b.lost
            /\ appended' = appended + n
     ELSE UNCHANGED << size, mem, rd, wr, lost, appended >>
  /\ UNCHANGED << owned, taken, got >>

\* The n bytes that a read returns and commits; a read that finds fewer changes
\* nothing.
take(n) ==
  /\ payLength(Block) >= n
  /\ got' = [i \in 1 .. n |-> mem[rd + i - 1]]
  /\ rd' = rd + n
  /\ taken' = taken + n
  /\ UNCHANGED << owned, size, mem, wr, appended, lost >>

readInt32 == take(4)
readInt16 == take(2)

\* str.resize throws at a negative length, before anything is copied.
readString(n) == IF n < 0 THEN UNCHANGED bufferVars ELSE take(n)

--------------------------------------------------------------------------------

\* An empty buffer of its own, of two bytes, or one around n bytes of the caller.
BufferInit ==
  /\ \/ owned = TRUE /\ size = 2 /\ wr = 0
     \/ owned = FALSE /\ size \in Lengths \cap Nat /\ wr = size
  /\ mem = [i \in 0 .. size - 1 |-> IF owned THEN 0 ELSE i + 1]
  /\ rd = 0
  /\ appended = wr
  /\ taken = 0
  /\ got = << >>
  /\ lost = {}

BufferNext ==
  \/ \E n \in Lengths : append(n) \/ readString(n)
  \/ readInt32
  \/ readInt16

BufferSpec == BufferInit /\ [][BufferNext]_bufferVars

--------------------------------------------------------------------------------
(* Properties *)

\* The types; the pointers stay in order and inside the block, whatever is
\* appended and read (the assert in append()).
BufferTypeOK ==
  /\ owned \in BOOLEAN /\ lost \subseteq Nat
  /\ size \in Nat /\ mem \in [0 .. size - 1 -> Nat]
  /\ 0 <= rd /\ rd <= wr /\ wr <= size
  /\ appended \in Nat /\ taken \in Nat
  /\ got \in Seq(Nat)

\* What stands where byte n belongs: that byte, or when it is lost an earlier one.
Stands(byte, n, gone) == byte \in 1 .. n /\ (n \notin gone => byte = n)

\* A StreamBuffer is a queue of bytes: append() puts bytes in and the readers take
\* them out, in order, as many as went in: the bytes not yet read are those that
\* went in behind the ones taken, and the last read returned the ones before them.
\* A compaction that meets a payload longer than the part of the block already
\* read loses the rest of that payload and nothing else: in place of each lost byte
\* an earlier one is read again, never memory that was not written, and the bytes
\* appended before it and after it keep their places, over growing, refilling and
\* further compactions.
BytesInOrder ==
  /\ payLength(Block) = appended - taken
  /\ lost \subseteq 1 .. appended
  /\ \A i \in 0 .. payLength(Block) - 1 : Stands(mem[rd + i], taken + 1 + i, lost)
  /\ \A i \in 1 .. Len(got) : Stands(got[i], taken - Len(got) + i, lost)
================================================================================
