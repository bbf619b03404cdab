------------------------------ MODULE WireForeign ------------------------------
(***************************************************************************)
(* The read handlers of Wire with a server that sends what it likes: frames *)
(* of any length, negative and shorter than a type code among them.        *)
(***************************************************************************)
EXTENDS Wire

CONSTANTS
  Announced,  \* the lengths that the server announces
  Fill(_),    \* the bytes of a body by their index
  MaxSent     \* bound: frames it sends

ForeignAssumption ==
  /\ Announced \subseteq Int32
  /\ \A l \in Announced : \A i \in 1 .. l : Fill(i) \in Byte
  /\ MaxSent \in Nat

VARIABLES
  sent,    \* every byte that the server sent
  framed   \* how many frames these are

foreignVars == << wireVars, sent, framed >>

\* The server (external) sends a length and as many bytes; none after a negative length.
Send(length, body) ==
  LET b == Memory(host_to_network_long(length)) \o body IN
    /\ framed < MaxSent
    /\ framed' = framed + 1
    /\ sent' = sent \o b
    /\ toServer' = toServer \o b
    /\ UNCHANGED << written, toClient, reading, bodySize, delivered >>

ForeignInit == WireInit /\ sent = << >> /\ framed = 0

ForeignNext ==
  \/ \E l \in Announced : Send(l, [i \in 1 .. l |-> Fill(i)])
  \/ (\E n \in 1 .. Len(toServer) : Echo(n)) /\ UNCHANGED << sent, framed >>
  \/ handle_headerRead /\ UNCHANGED << sent, framed >>
  \/ handle_bodyRead /\ UNCHANGED << sent, framed >>

ForeignSpec == ForeignInit /\ [][ForeignNext]_foreignVars

--------------------------------------------------------------------------------
(* Properties *)

\* The length that stands behind byte p of b, and whether it is there at all and
\* followed by so many bytes.
LengthAt(b, p) == Int32Read(SubSeq(b, p + 1, p + 4))
HasLength(b, p) == p + 4 <= Len(b)
HasFrame(b, p) == HasLength(b, p) /\ LengthAt(b, p) >= 0 /\ p + 4 + LengthAt(b, p) <= Len(b)

\* Behind which byte of b each frame begins, as far as frames are whole.
Begins(b) ==
  LET at[i \in Nat] ==
        IF i = 0 THEN 0
        ELSE IF HasFrame(b, at[i - 1]) THEN at[i - 1] + 4 + LengthAt(b, at[i - 1]) ELSE at[i - 1]
  IN at

\* Whatever lengths a server announces, and however the bytes are cut up, the client
\* hands over the bodies it was sent and in their order: what is behind the type code is
\* the payload, a type code comes from its own frame unless the frame is too short to
\* have one, and a handler throws at the first negative length and nowhere else.
BodiesAsSent ==
  /\ \A i \in DOMAIN delivered :
       LET p == Begins(sent)[i - 1]
           length == LengthAt(sent, p)
       IN /\ HasFrame(sent, p)
          /\ delivered[i].payload = SubSeq(sent, p + 9, p + 4 + length)
          /\ length >= 4 => delivered[i].type = Int32Read(SubSeq(sent, p + 5, p + 8))
  /\ reading = "thrown" =>
       LET p == Begins(sent)[Len(delivered)] IN HasLength(sent, p) /\ LengthAt(sent, p) < 0
================================================================================
