------------------------------- MODULE MCLuaHeaps -------------------------------
(***************************************************************************)
(* Three heaps, by what may be created in them: two tables and a C         *)
(* function with an upvalue; a coroutine, an upvalue on its stack, a       *)
(* function that shares it and a string; and a table with weak keys, a     *)
(* userdata with a finalizer and a string.                                 *)
(***************************************************************************)
EXTENDS LuaGC, TLC

CONSTANTS t1, t2, t3, f1, u1, s1, uv1, c1

VARIABLE kind

MCTables == {t1, t2, t3}
MCFunctions == {f1}
MCUdata == {u1}
MCStrings == {s1}
MCUpvals == {uv1}
MCCoroutines == {c1}
MCWeakKey == {t3}

Symmetry == Permutations({t1, t2})

Created == CASE kind = "plain" -> {t1, t2, f1}
             [] kind = "shared" -> {f1, s1, uv1, c1}
             [] kind = "weak" -> {t3, u1, s1}

MCInit == Init /\ kind \in {"plain", "shared", "weak"}
MCNext == Next /\ UNCHANGED kind /\ \A o \in Objects \ Created : color'[o] = "free"
MCSpec == MCInit /\ [][MCNext]_<< kind, vars >>
================================================================================
