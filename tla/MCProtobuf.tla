------------------------------ MODULE MCProtobuf ------------------------------
(***************************************************************************)
(* A list of worlds in a message, with a nested message of its own: sent   *)
(* well, twice, with unknown fields, with a field of the wrong kind or cut *)
(* short at either level.                                                  *)
(***************************************************************************)

Scalar(rep) == [rep |-> rep, msg |-> "none"]
Nested(rep, type) == [rep |-> rep, msg |-> type]

MCSchema ==
  [Notify |-> [id |-> Scalar(FALSE), ports |-> Scalar(TRUE), world |-> Nested(FALSE, "World"),
               world_list |-> Nested(TRUE, "World")],
   World |-> [id |-> Scalar(FALSE), ports |-> Scalar(TRUE), at |-> Nested(FALSE, "Place")],
   Place |-> [id |-> Scalar(FALSE)]]

Field(f, v) == [f |-> f, bad |-> "no", v |-> v, b |-> << >>]
Sub(f, b) == [f |-> f, bad |-> "no", v |-> 0, b |-> b]
Bad(f, how) == [f |-> f, bad |-> how, v |-> 0, b |-> << >>]

Plain == << Field("id", 1), Field("id", 2) >>
Listed == << Field("ports", 1), Field("unknown", 0), Field("ports", 2) >>
Places == {<< >>, << Field("id", 1) >>, << Bad("id", "kind") >>}
Worlds == {<< >>, Plain, Listed} \cup {<< Sub("at", p), Field("id", 3) >> : p \in Places}
          \cup {<< Field("ports", 1), Bad("id", "kind"), Field("ports", 2) >>, << Field("id", 1), Bad("ports", "cut") >>}

MCReceived ==
  {<< >>, << Field("id", 1), Bad("ports", "kind") >>, << Bad("id", "cut") >>}
  \cup {<< Sub("world", x), Field("id", 1), Sub("world", w) >> : w \in Worlds, x \in {Listed}}
  \cup {<< Sub("world_list", w), Field("ports", 1), Sub("world_list", x) >> : w \in Worlds, x \in {Plain}}
MCBuffers == MCReceived \cup Worlds \cup Places
================================================================================
