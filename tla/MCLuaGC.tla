-------------------------------- MODULE MCLuaGC --------------------------------
(* A table with weak keys and a userdata with a finalizer. *)
EXTENDS LuaGC

CONSTANTS t1, u1
MCTables == {t1}
MCUdata == {u1}
================================================================================
