------------------------------- MODULE Protobuf --------------------------------
(***************************************************************************)
(* The binding of protocol buffers (protobuf.lua, pbc-lua.c): a message is *)
(* decoded one level at a time. What is nested stays a buffer in a table   *)
(* until a field of it is read, what is missing is read from a default     *)
(* message of the type, made once. Encoding goes through the tables as     *)
(* they are. Scalars are numbers; a buffer is a sequence of fields.        *)
(***************************************************************************)
EXTENDS Naturals, SequencesExt

CONSTANTS
  Schema,      \* for each type its fields, [rep, msg]: repeated, and the type of a nested one
  Types,       \* the types of Schema that are received
  Received,    \* what is received
  Buffers,     \* that, and whatever is nested in it
  MaxEncoders  \* bound of the encoders that leak

AllFields == UNION {DOMAIN Schema[type] : type \in DOMAIN Schema} \cup {"unknown"}
Fields == [f : AllFields, bad : {"no", "kind", "cut"}, v : Nat, b : Buffers]

ASSUME ProtobufAssumption ==
  /\ "none" \notin DOMAIN Schema
  /\ \A type \in DOMAIN Schema : \A f \in DOMAIN Schema[type] :
       Schema[type][f] \in [rep : BOOLEAN, msg : DOMAIN Schema \cup {"none"}]
  /\ Types \subseteq DOMAIN Schema
  /\ Received \subseteq Buffers
  /\ \A b \in Buffers : b \in Seq(Fields)

VARIABLES
  heap,      \* the tables of the message: [meta, type, held, raw], and where they come from
  defaults,  \* the types with a default message
  encoders,  \* encoders that were not deleted
  returned   \* what the last call gave

messagesVars == << heap, defaults, encoders, returned >>

Raised == [is |-> "error", value |-> << >>]
Default == [is |-> "default", value |-> << >>]
Given(v) == [is |-> "value", value |-> v]
Buffer(b) == [is |-> "buffer", value |-> b]

NoFields == [f \in {} |-> << >>]

\* decode_message_cb: { typename, buffer } with decode_message_mt.
decode_message_cb(type, b) ==
  [meta |-> "lazy", type |-> type, held |-> TRUE, raw |-> NoFields, from |-> b]

--------------------------------------------------------------------------------
(* Decoding *)

\* pbc_decode: what is cut short gives nothing, a field of the wrong kind ends it.
Opens(b) == \A i \in DOMAIN b : b[i].bad # "cut"
Wrong(b) == {i \in DOMAIN b : b[i].bad = "kind"}
Good(b) == Opens(b) /\ Wrong(b) = {}
Delivered(b) ==
  IF ~Opens(b) THEN << >>
  ELSE IF Wrong(b) = {} THEN b
  ELSE SubSeq(b, 1, (CHOOSE i \in Wrong(b) : \A j \in Wrong(b) : i <= j) - 1)

\* lua_setfield, or new_array and lua_rawseti.
Stored(raw, f, rep, v) ==
  [x \in DOMAIN raw \cup {f} |->
     IF x # f THEN raw[x] ELSE IF rep /\ f \in DOMAIN raw THEN Append(raw[f], v) ELSE << v >>]

\* decode_cb for table t: an unknown field is passed over, a nested message is left for later.
decode_cb(h, t, a) ==
  LET field == Schema[h[t].type][a.f]
      nested == field.msg # "none"
      g == IF nested THEN Append(h, decode_message_cb(field.msg, a.b)) ELSE h
  IN IF a.f \notin DOMAIN Schema[h[t].type] THEN h
     ELSE [g EXCEPT ![t].raw = Stored(@, a.f, field.rep, IF nested THEN Len(g) ELSE a.v)]

\* c._decode into table t.
_decode(h, t, b) ==
  LET D == Delivered(b)
      G[n \in Nat] == IF n = 0 THEN h
                      ELSE IF n \in DOMAIN D THEN decode_cb(G[n - 1], t, D[n]) ELSE G[n - 1]
  IN G[Len(D)]

\* default_table: made when a table gets it as its metatable.
WithDefault(h, t) == [h EXCEPT ![t].meta = "message"]

\* protobuf.decode; the message before it is dropped.
decode(type, b) ==
  LET ret == << [decode_message_cb(type, b) EXCEPT !.meta = "plain", !.held = FALSE] >> IN
    /\ IF Good(b)
       THEN heap' = WithDefault(_decode(ret, 1, b), 1) /\ defaults' = defaults \cup {type} /\ returned' = Given(<< 1 >>)
       ELSE heap' = << >> /\ UNCHANGED defaults /\ returned' = Raised
    /\ UNCHANGED encoders

\* Mutant: the table stays one that has to be expanded.
Mutant_expand(h, t) == _decode([h EXCEPT ![t].held = FALSE], t, h[t].from)

expand(h, t) ==
  LET g == _decode([h EXCEPT ![t].held = FALSE], t, h[t].from) IN
    IF Good(h[t].from) THEN WithDefault(g, t) ELSE g

--------------------------------------------------------------------------------
(* What the program does with a message *)

\* _R_meta.__index of the default message: an unknown field is an error.
Missing(type, f) == IF f \in DOMAIN Schema[type] THEN Default ELSE Raised
Index(tbl, f) == IF f \in DOMAIN tbl.raw THEN Given(tbl.raw[f]) ELSE Missing(tbl.type, f)

\* tbl.f: a table that could not be expanded has lost its buffer.
Read(t, f) ==
  LET tbl == heap[t]
      g == expand(heap, t)
  IN /\ IF f \in DOMAIN tbl.raw \/ tbl.meta = "message"
        THEN returned' = Index(tbl, f) /\ UNCHANGED << heap, defaults >>
        ELSE IF ~tbl.held THEN returned' = Raised /\ UNCHANGED << heap, defaults >>
        ELSE /\ heap' = g
             /\ returned' = IF Good(tbl.from) THEN Index(g[t], f) ELSE Raised
             /\ defaults' = IF Good(tbl.from) THEN defaults \cup {tbl.type} ELSE defaults
     /\ UNCHANGED encoders

\* encode_message for each table: its own fields, in the order that pairs finds them;
\* a table that still holds its type and buffer has the keys 1 and 2, which are no fields.
Encoded ==
  LET E[t \in 1 .. Len(heap)] ==
        LET tbl == heap[t]
            nested(f) == Schema[tbl.type][f].msg # "none"
            atom(f, v) == [f |-> f, bad |-> "no", v |-> IF nested(f) THEN 0 ELSE v,
                           b |-> IF nested(f) THEN E[v].value ELSE << >>]
            raises == tbl.held \/ \E f \in DOMAIN tbl.raw :
                                    nested(f) /\ \E i \in DOMAIN tbl.raw[f] : E[tbl.raw[f][i]] = Raised
        IN IF raises THEN Raised
           ELSE Buffer(FoldLeft(LAMBDA b, f : b \o [i \in DOMAIN tbl.raw[f] |-> atom(f, tbl.raw[f][i])],
                                << >>, SetToSeq(DOMAIN tbl.raw)))
  IN E

\* protobuf.encode: an error leaves the encoder behind.
encode(t) ==
  /\ returned' = Encoded[t]
  /\ IF Encoded[t] = Raised THEN encoders < MaxEncoders /\ encoders' = encoders + 1 ELSE UNCHANGED encoders
  /\ UNCHANGED << heap, defaults >>

MessagesInit == heap = << >> /\ defaults = {} /\ encoders = 0 /\ returned = Default

MessagesNext ==
  \/ \E type \in Types, b \in Received : decode(type, b)
  \/ \E t \in DOMAIN heap, f \in AllFields : Read(t, f)
  \/ \E t \in DOMAIN heap : encode(t)

MessagesSpec == MessagesInit /\ [][MessagesNext]_messagesVars

--------------------------------------------------------------------------------
(* Properties *)

\* What buffer b says of a field: the last one, or all of them.
SentUpto(b, f) ==
  LET S[n \in Nat] == IF n = 0 THEN << >>
                      ELSE IF n \in DOMAIN b /\ b[n].f = f THEN Append(S[n - 1], b[n]) ELSE S[n - 1]
  IN S
Sent(b, f) == SentUpto(b, f)[Len(b)]
Said(type, b, f) ==
  LET s == Sent(b, f) IN IF Schema[type][f].rep \/ s = << >> THEN s ELSE << Last(s) >>

\* A table holds the fields of the buffer it came from, up to where the buffer goes
\* wrong, and a nested message is a table that comes from what was nested there.
FieldsFromWire ==
  \A t \in DOMAIN heap : ~heap[t].held =>
    \A f \in DOMAIN Schema[heap[t].type] :
      LET said == Said(heap[t].type, Delivered(heap[t].from), f)
          msg == Schema[heap[t].type][f].msg
          raw == IF f \in DOMAIN heap[t].raw THEN heap[t].raw[f] ELSE << >>
      IN /\ Len(raw) = Len(said)
         /\ \A i \in DOMAIN raw : IF msg = "none" THEN raw[i] = said[i].v
                                  ELSE heap[raw[i]].from = said[i].b /\ heap[raw[i]].type = msg

\* A field of a message that was sent well reads as what was sent or as missing, whenever
\* it is read and whatever was read before, and only a field that is none is an error.
ReadAsSent(t, f) ==
  returned'.is # "buffer" /\ Read(t, f) /\ Good(heap[t].from) =>
    returned'.is = IF f \notin DOMAIN Schema[heap[t].type] THEN "error"
                   ELSE IF Sent(heap[t].from, f) = << >> THEN "default" ELSE "value"

\* At every level and at any time a table holds what was sent, a field reads as that,
\* and encoders are left behind by errors only (protobuf.lua, pbc-lua.c).
ReadsWhatWasSent ==
  /\ []FieldsFromWire
  /\ [][\A t \in DOMAIN heap, f \in AllFields : ReadAsSent(t, f)]_messagesVars
  /\ [][encoders' # encoders => returned' = Raised]_messagesVars
================================================================================
