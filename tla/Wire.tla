---------------------------------- MODULE Wire ----------------------------------
(***************************************************************************)
(* The bytes of one connection: what SockSession::write makes of a request *)
(* and what the read handlers make of the bytes that arrive.  The server   *)
(* (external) sends back every byte it gets, so that what write() encodes  *)
(* is what the handlers decode; it may do so in any pieces.                *)
(*                                                                         *)
(* An int is four bytes in two's complement and a byte has Base values,    *)
(* 256 in the program.  The host is little-endian, which readInt32 relies  *)
(* on.  Requests are written one after the other (ConnFw!WireWhole).       *)
(***************************************************************************)
EXTENDS Integers, SequencesExt

CONSTANTS
  Base,          \* how many values a byte has
  TypeCodes,     \* what the client passes to mm.SendBuffer
  Payloads,
  ChunkSize,     \* LUAL_BUFFERSIZE
  MaxWritten     \* bound: requests written

Byte == 0 .. Base - 1
Word == Base * Base * Base * Base
Int32 == -(Word \div 2) .. Word \div 2 - 1

ASSUME WireAssumption ==
  /\ Base \in Nat /\ Base > 1 /\ Base % 2 = 0
  /\ TypeCodes \subseteq Int32
  /\ Payloads \subseteq Seq(Byte)
  /\ \A p \in Payloads : Len(p) + 8 \in Int32
  /\ ChunkSize \in Nat \ {0}
  /\ MaxWritten \in Nat

VARIABLES
  written,     \* the requests passed to write()
  toServer,    \* the bytes the server has not sent back yet
  toClient,    \* the bytes that no read has taken yet
  reading,     \* the read in progress, or "thrown" when the handler threw
  bodySize,    \* the size of buffer_
  delivered    \* what the callback of handle_bodyRead was given

wireVars == << written, toServer, toClient, reading, bodySize, delivered >>

--------------------------------------------------------------------------------
(* Integers *)

\* An int as it lies in the memory of the host.
Memory(v) ==
  LET bits  == v % Word
      from1 == bits \div Base
      from2 == from1 \div Base
      from3 == from2 \div Base
  IN << bits % Base, from1 % Base, from2 % Base, from3 % Base >>

\* Int arithmetic wraps around.
Wrap(n) == ((n + Word \div 2) % Word) - Word \div 2

\* The int whose lowest byte is the first.
LittleEndian(b) ==
  Wrap(b[1] + Base * (b[2] + Base * (b[3] + Base * b[4])))

\* host_to_network_long and network_to_host_long turn the bytes around.
host_to_network_long(v) == LittleEndian(Reverse(Memory(v)))
network_to_host_long(v) == host_to_network_long(v)

\* StreamBuffer::readInt32, of the bytes it reads.
Int32Read(b) == network_to_host_long(LittleEndian(b))

HeaderLengthFix == -4

--------------------------------------------------------------------------------
(* The client and the server *)

\* Mutant: the length counts the header too.
Mutant_encodeNoFix(m) ==
  Memory(host_to_network_long(Len(m.payload) + 8))
    \o Memory(host_to_network_long(m.type)) \o m.payload

\* Mutant: the type code is stored in the order of the host.
Mutant_encodeHostType(m) ==
  Memory(host_to_network_long(Len(m.payload) + 8 + HeaderLengthFix))
    \o Memory(m.type) \o m.payload

\* The bytes that write() puts together.
Encode(m) ==
  LET length == Len(m.payload) + 4 + 4 IN
    Memory(host_to_network_long(length + HeaderLengthFix))
      \o Memory(host_to_network_long(m.type)) \o m.payload

write(m) ==
  /\ Len(written) < MaxWritten
  /\ written' = Append(written, m)
  /\ toServer' = toServer \o Encode(m)
  /\ UNCHANGED << toClient, reading, bodySize, delivered >>

\* The server sends back n bytes.
Echo(n) ==
  /\ toClient' = toClient \o SubSeq(toServer, 1, n)
  /\ toServer' = SubSeq(toServer, n + 1, Len(toServer))
  /\ UNCHANGED << written, reading, bodySize, delivered >>

\* Mutant: the header's length is taken to count the header.
Mutant_headerReadNoFix ==
  /\ reading = "header" /\ Len(toClient) >= 4
  /\ bodySize' = Int32Read(SubSeq(toClient, 1, 4)) - 4
  /\ reading' = "body"
  /\ toClient' = SubSeq(toClient, 5, Len(toClient))
  /\ UNCHANGED << written, toServer, delivered >>

\* Mutant: a body too short for a type code is taken for a mistake of the server.
Mutant_headerReadShort ==
  /\ reading = "header" /\ Len(toClient) >= 4
  /\ LET size == Int32Read(SubSeq(toClient, 1, 4)) - 4 - HeaderLengthFix IN
       IF size >= 4 THEN reading' = "body" /\ bodySize' = size
                    ELSE reading' = "thrown" /\ UNCHANGED bodySize
  /\ toClient' = SubSeq(toClient, 5, Len(toClient))
  /\ UNCHANGED << written, toServer, delivered >>

\* async_read of the header completes with its four bytes.  A resize to a
\* negative size throws out of io.poll().
handle_headerRead ==
  /\ reading = "header" /\ Len(toClient) >= 4
  /\ LET size == Int32Read(SubSeq(toClient, 1, 4)) - 4 - HeaderLengthFix IN
       IF size >= 0 THEN reading' = "body" /\ bodySize' = size
                    ELSE reading' = "thrown" /\ UNCHANGED bodySize
  /\ toClient' = SubSeq(toClient, 5, Len(toClient))
  /\ UNCHANGED << written, toServer, delivered >>

\* The loop of L_onDecodeBuffer that copies the payload into a Lua string, from
\* byte i + 1 on.
LuaString(p) ==
  LET copy[i \in 0 .. Len(p)] ==
        IF i + ChunkSize >= Len(p)
        THEN SubSeq(p, i + 1, Len(p))
        ELSE SubSeq(p, i + 1, i + ChunkSize) \o copy[i + ChunkSize]
  IN copy[0]

\* async_read of the body completes with bodySize bytes.  The type code is read
\* from four bytes of buffer_, whatever its size.
handle_bodyRead ==
  /\ reading = "body" /\ Len(toClient) >= bodySize
  /\ \E type \in IF bodySize < 4 THEN Int32 ELSE {Int32Read(SubSeq(toClient, 1, 4))} :
       delivered' = Append(delivered,
         [type |-> type, payload |-> LuaString(SubSeq(toClient, 5, bodySize))])
  /\ toClient' = SubSeq(toClient, bodySize + 1, Len(toClient))
  /\ reading' = "header"
  /\ UNCHANGED << written, toServer, bodySize >>

--------------------------------------------------------------------------------

WireInit ==
  /\ written = << >>
  /\ toServer = << >>
  /\ toClient = << >>
  /\ reading = "header"
  /\ bodySize = 0
  /\ delivered = << >>

WireNext ==
  \/ \E t \in TypeCodes, p \in Payloads : write([type |-> t, payload |-> p])
  \/ \E n \in 1 .. Len(toServer) : Echo(n)
  \/ handle_headerRead
  \/ handle_bodyRead

\* The server sends bytes back as long as it has some, and a read that has its
\* bytes completes: the master loop never stops polling while both work.
Fairness == /\ WF_wireVars(\E n \in 1 .. Len(toServer) : Echo(n))
            /\ WF_wireVars(handle_headerRead)
            /\ WF_wireVars(handle_bodyRead)

WireSpec == WireInit /\ [][WireNext]_wireVars /\ Fairness

--------------------------------------------------------------------------------
(* Properties *)

\* The requests that have not come back yet, as bytes.
Pending == FlattenSeq([i \in 1 .. Len(written) - Len(delivered) |->
                         Encode(written[Len(delivered) + i])])

\* The client is always in step with the bytes it wrote: a header read is about
\* to take the header of the next request and a body read the rest of it, to
\* the byte, however the bytes were cut up on the way; no handler throws.
InStep ==
  /\ Len(delivered) <= Len(written)
  /\ CASE reading = "header" -> toClient \o toServer = Pending
       [] reading = "body"   ->
            /\ Len(delivered) < Len(written)
            /\ bodySize = Len(written[Len(delivered) + 1].payload) + 4
            /\ toClient \o toServer = SubSeq(Pending, 5, Len(Pending))
       [] OTHER -> FALSE

\* What write() encodes the read handlers decode: the type code, negative or
\* not, and every byte of the payload, zeros included, in the order of writing.
\* In the terms of the sessions, the bytes implement a stream of frames.
Stream == INSTANCE FrameStream WITH
            Sessions  <- {1},
            Frames    <- [type : TypeCodes, payload : Payloads],
            sent      <- << written >>,
            delivered <- << delivered >>,
            failed    <- << reading = "thrown" >>
BytesSpec == Stream!Spec

\* Everything that was written comes back: no read waits for a byte too many.
EchoedBack ==
  \A n \in 1 .. MaxWritten : Len(written) >= n ~> Len(delivered) >= n

\* The comment on the type code in write(), "type code //~little endian": the
\* lowest byte of a type code goes first.
TypeCodeLittleEndian ==
  \A i \in DOMAIN written :
    SubSeq(Encode(written[i]), 5, 8) = Memory(written[i].type)
================================================================================
