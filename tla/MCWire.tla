--------------------------------- MODULE MCWire ---------------------------------
(* Bytes of four values, so that an int is one of -128 .. 127 and every one of  *)
(* its four bytes matters.  66 has bytes that overflow readInt32's sum when     *)
(* they are turned around; mm.SendBuffer takes any int, so one is negative.     *)
EXTENDS Wire

MCTypeCodes == {66, -2}

\* None, shorter and longer than a chunk, and one of whole chunks; with zeros.
MCPayloads == {<< >>, << 3 >>, << 0, 2, 1 >>, << 1, 0, 0, 3 >>}
================================================================================
