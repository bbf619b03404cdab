-------------------------------- MODULE MCLuaDo --------------------------------
(***************************************************************************)
(* Calls in four settings: one coroutine that nests its calls as deep as   *)
(* the limits let it; one whose closures share variables, and two that     *)
(* resume each other, both with a bound on the C stack; and one under a    *)
(* message handler of the program's own, as L_notification.cpp passes it,  *)
(* or under something that is no function.                                 *)
(* A handler may make one more nested C call than the limit, so that it    *)
(* can yield where the limit was met.                                      *)
(***************************************************************************)
EXTENDS LuaDo, TLC

CONSTANTS
  c1, c2,
  MaxDepth,  \* bound: activations on the C stack, but in "deep"
  HostDepth  \* bound: those in "host"

ASSUME LuaDoAssumption

VARIABLE setting

MCCoroutines == {c1, c2}
Symmetry == Permutations(MCCoroutines)

Within ==
  \/ setting = "host" /\ status'[c2] = "none" /\ UNCHANGED openupval /\ Len(cs') <= HostDepth
  \/ /\ cs = << >> => errfunc'[main] = 0
     /\ raising = "errormsg" /\ errfunc[Running] # 0 => cs' # cs
     /\ \/ setting = "deep" /\ status'[c2] = "none" /\ UNCHANGED openupval
        \/ setting = "shared" /\ status'[c2] = "none" /\ Len(cs') <= MaxDepth
        \/ setting = "two" /\ UNCHANGED openupval /\ Len(cs') <= MaxDepth

MCInit == Init /\ setting \in {"host", "deep", "shared", "two"}
MCNext == Next /\ Within /\ UNCHANGED setting
MCSpec == MCInit /\ [][MCNext]_<< setting, vars >>
================================================================================
