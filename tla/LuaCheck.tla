------------------------------- MODULE LuaCheck --------------------------------
(***************************************************************************)
(* What the Lua runtime demands of the code of a function before it runs   *)
(* it without looking (luaG_checkcode of ldebug.c, which the parser        *)
(* asserts of all it generates): registers within the frame, constants,    *)
(* upvalues and functions that exist, jumps to instructions, open results  *)
(* that are taken at once. No register is traced here.                     *)
(***************************************************************************)
EXTENDS LuaCode

operators == {"ADD", "SUB", "MUL", "MOD", "POW", "EQ", "LT", "LE", "SETTABLE"}
tested == {"EQ", "LT", "LE", "TEST", "TESTSET", "TFORLOOP"}
jumping == {"JMP", "FORLOOP", "FORPREP"}

\* luaP_opmodes: the operands that are registers, constants of either kind, or unused.
OpArgR(op) ==
  IF op = "CONCAT" THEN {"b", "c"}
  ELSE IF op \in {"MOVE", "LOADNIL", "GETTABLE", "SELF", "UNM", "NOT", "LEN", "TEST", "TESTSET"}
  THEN {"b"} ELSE {}
OpArgK(op) ==
  IF op \in operators THEN {"b", "c"} ELSE IF op \in {"GETTABLE", "SELF"} THEN {"c"} ELSE {}
OpArgN(op) ==
  (IF op \in {"TFORLOOP", "CLOSE"} THEN {"b"} ELSE {})
  \cup (IF op \in {"MOVE", "LOADNIL", "GETUPVAL", "SETUPVAL", "UNM", "NOT", "LEN", "RETURN", "CLOSE", "VARARG"}
        THEN {"c"} ELSE {})

precheck(pt) ==
  /\ pt.maxstacksize <= MAXSTACK
  /\ pt.numparams + (IF pt.hasarg THEN 1 ELSE 0) <= pt.maxstacksize
  /\ pt.needsarg => pt.hasarg
  /\ pt.code # << >> /\ Last(pt.code).op = "RETURN"

checkreg(pt, r) == r < pt.maxstacksize

checkArgMode(pt, i) ==
  /\ \A x \in OpArgN(i.op) : i[x] = 0
  /\ \A x \in OpArgR(i.op) : checkreg(pt, i[x])
  /\ \A x \in OpArgK(i.op) : IF ISK(i[x]) THEN i[x] - BITRK < Len(pt.k) ELSE checkreg(pt, i[x])

luaG_checkopenop(i) == i.op \in {"CALL", "TAILCALL", "RETURN", "SETLIST"} /\ i.b = 0

\* The instruction at n, i, in itself.
Instruction(pt, n, i) ==
  LET next == pt.code[n + 2]
      dest == n + 1 + i.b
  IN /\ checkreg(pt, i.a)
     /\ checkArgMode(pt, i)
     /\ i.op \in {"LOADK", "GETGLOBAL", "SETGLOBAL"} => i.b < Len(pt.k)
     /\ i.op \in {"GETGLOBAL", "SETGLOBAL"} => pt.k[i.b + 1][1] = "str"
     /\ i.op \in jumping =>
          /\ dest \in 0 .. Len(pt.code) - 1
          /\ dest > 0 => ~(pt.code[dest].op = "SETLIST" /\ pt.code[dest].c = 0)
     /\ i.op \in tested => n + 2 < Len(pt.code) /\ next.op = "JMP"
     /\ i.op = "LOADBOOL" /\ i.c = 1 => n + 2 < Len(pt.code) /\ ~(next.op = "SETLIST" /\ next.c = 0)
     /\ i.op \in {"GETUPVAL", "SETUPVAL"} => i.b < pt.nups
     /\ i.op = "SELF" => checkreg(pt, i.a + 1)
     /\ i.op = "CONCAT" => i.b < i.c
     /\ i.op = "TFORLOOP" => i.c >= 1 /\ checkreg(pt, i.a + 2 + i.c)
     /\ i.op \in {"FORLOOP", "FORPREP"} => checkreg(pt, i.a + 3)
     /\ i.op \in {"CALL", "TAILCALL"} =>
          /\ i.b # 0 => checkreg(pt, i.a + i.b - 1)
          /\ IF i.c - 1 = LUA_MULTRET THEN luaG_checkopenop(next)
             ELSE i.c - 1 # 0 => checkreg(pt, i.a + i.c - 2)
     /\ i.op = "RETURN" /\ i.b > 1 => checkreg(pt, i.a + i.b - 2)
     /\ i.op = "SETLIST" => (i.b > 0 => checkreg(pt, i.a + i.b)) /\ (i.c = 0 => n + 1 < Len(pt.code) - 1)
     /\ i.op = "CLOSURE" =>
          /\ i.b < Len(pt.p)
          /\ n + pt.p[i.b + 1].nups < Len(pt.code)
          /\ \A j \in 1 .. pt.p[i.b + 1].nups : pt.code[n + 1 + j].op \in {"GETUPVAL", "MOVE"}
     /\ i.op = "VARARG" =>
          /\ pt.isvararg /\ ~pt.needsarg
          /\ i.b - 1 = LUA_MULTRET => luaG_checkopenop(next)
          /\ checkreg(pt, i.a + i.b - 2)

\* symbexec; a number that belongs to the instruction before it is passed over.
luaG_checkcode(pt) ==
  /\ precheck(pt)
  /\ \A n \in 0 .. Len(pt.code) - 1 : pt.code[n + 1].op # "EXTRA" => Instruction(pt, n, pt.code[n + 1])
================================================================================
