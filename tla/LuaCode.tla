------------------------------- MODULE LuaCode --------------------------------
(***************************************************************************)
(* The code generator of the Lua runtime (lcode.c): expressions that are   *)
(* put off until it is known where their value goes, lists of jumps that   *)
(* are patched when their target is, registers taken as on a stack.        *)
(* Every operator takes the state fs of the function being compiled, with  *)
(* the expression in hand in fs.e, and gives the state after it.           *)
(***************************************************************************)
EXTENDS Integers, SequencesExt

CONSTANTS
  MAXSTACK,           \* the registers a function may have
  MAXINDEXRK,         \* the last constant an operand can name
  LFIELDS_PER_FLUSH,  \* items of a constructor stored at a time
  MAXARG_C            \* the last batch of items an instruction can name

ASSUME LuaCodeAssumption ==
  {MAXSTACK, MAXINDEXRK, LFIELDS_PER_FLUSH, MAXARG_C} \subseteq Nat \ {0}

NO_JUMP == -1
NO_REG == 255
BITRK == 256         \* the bit of an operand that is a constant
LUA_MULTRET == -1

\* Values carry their type first: numbers, among them NaN, strings as the sequence
\* of the pieces they were made of, booleans and nil.
Nil == << "nil" >>
NaN == << "nan" >>
Num(n) == << "num", n >>
Str(s) == << "str", s >>
Bool(b) == << "bool", b >>
isNumber(v) == v[1] \in {"num", "nan"}

RECURSIVE Power(_, _)
Power(x, n) == IF n <= 0 THEN 1 ELSE x * Power(x, n - 1)

\* The arithmetic of luai_numadd to luai_numpow.
Arithmetic(op, v, w) ==
  IF NaN \in {v, w} \/ (op = "%" /\ w = Num(0)) THEN NaN
  ELSE Num(CASE op = "+" -> v[2] + w[2] [] op = "-" -> v[2] - w[2] [] op = "*" -> v[2] * w[2]
             [] op = "^" -> Power(v[2], w[2])
             [] op = "%" -> IF w[2] > 0 THEN v[2] % w[2] ELSE -((-v[2]) % (-w[2])))

E(k, info) == [k |-> k, info |-> info, aux |-> 0, t |-> NO_JUMP, f |-> NO_JUMP]
hasjumps(e) == e.t # e.f
isnumeral(e) == e.k = "VKNUM" /\ e.t = NO_JUMP /\ e.f = NO_JUMP
hasmultret(k) == k \in {"VCALL", "VVARARG"}
ISK(x) == x >= BITRK

pc(fs) == Len(fs.code)
nactvar(fs) == Len(fs.actvar)
Instr(fs, i) == fs.code[i + 1]
I(op, a, b, c) == [op |-> op, a |-> a, b |-> b, c |-> c]

\* F(v), and the fold of F over a sequence, with what F is given worked out first:
\* a compilation is a long chain of such steps.
Then(v, F(_)) == CHOOSE r \in {F(x) : x \in {v}} : TRUE
Fold(F(_, _), first, seq) ==
  LET G[i \in 0 .. Len(seq)] == IF i = 0 THEN first ELSE Then(G[i - 1], LAMBDA a : F(a, seq[i]))
  IN G[Len(seq)]

--------------------------------------------------------------------------------
(* Lists of jumps *)

getjump(fs, i) == IF Instr(fs, i).b = NO_JUMP THEN NO_JUMP ELSE i + 1 + Instr(fs, i).b

RECURSIVE Jumps(_, _)
Jumps(fs, list) == IF list = NO_JUMP THEN << >> ELSE << list >> \o Jumps(fs, getjump(fs, list))

fixjump(fs, i, dest) == [fs EXCEPT !.code[i + 1].b = dest - (i + 1)]

testTMode(op) == op \in {"EQ", "LT", "LE", "TEST", "TESTSET", "TFORLOOP"}
getjumpcontrol(fs, i) == IF i >= 1 /\ testTMode(Instr(fs, i - 1).op) THEN i - 1 ELSE i
IsTestSet(fs, i) == Instr(fs, getjumpcontrol(fs, i)).op = "TESTSET"

\* Mutant: the first jump of a list speaks for all of it.
Mutant_need_value(fs, list) == list # NO_JUMP /\ ~IsTestSet(fs, list)

need_value(fs, list) == \E i \in ToSet(Jumps(fs, list)) : ~IsTestSet(fs, i)

patchtestreg(fs, node, reg) ==
  LET i == getjumpcontrol(fs, node)  test == Instr(fs, i) IN
    IF ~IsTestSet(fs, node) THEN fs
    ELSE IF reg # NO_REG /\ reg # test.b THEN [fs EXCEPT !.code[i + 1].a = reg]
    ELSE [fs EXCEPT !.code[i + 1] = I("TEST", test.b, 0, test.c)]

removevalues(fs, list) ==
  Fold(LAMBDA u, i : patchtestreg(u, i, NO_REG), fs, Jumps(fs, list))

patchlistaux(fs, list, vtarget, reg, dtarget) ==
  Fold(LAMBDA u, i : fixjump(patchtestreg(u, i, reg), i,
                                 IF IsTestSet(u, i) THEN vtarget ELSE dtarget),
           fs, Jumps(fs, list))

dischargejpc(fs) == [patchlistaux(fs, fs.jpc, pc(fs), NO_REG, pc(fs)) EXCEPT !.jpc = NO_JUMP]

\* luaK_concat: the code with l2 behind l1, and the list that they make.
concat(fs, l1, l2) ==
  IF NO_JUMP \in {l1, l2} THEN fs ELSE fixjump(fs, Last(Jumps(fs, l1)), l2)
Joined(l1, l2) == IF l1 = NO_JUMP THEN l2 ELSE l1

getlabel(fs) == [fs EXCEPT !.lasttarget = pc(fs)]

patchtohere(fs, list) ==
  [concat(getlabel(fs), fs.jpc, list) EXCEPT !.jpc = Joined(fs.jpc, list)]

patchlist(fs, list, target) ==
  IF target = pc(fs) THEN patchtohere(fs, list) ELSE patchlistaux(fs, list, target, NO_REG, target)

--------------------------------------------------------------------------------
(* Instructions, registers and constants *)

code(fs, op, a, b, c) == LET g == dischargejpc(fs) IN [g EXCEPT !.code = Append(@, I(op, a, b, c))]

\* luaK_jump: the jump is the last instruction, and heads the jumps to here.
jump(fs) == concat(code([fs EXCEPT !.jpc = NO_JUMP], "JMP", 0, NO_JUMP, 0), pc(fs), fs.jpc)

\* Nothing jumps to here.
Clean(fs) == pc(fs) > fs.lasttarget

luaK_nil(fs, from, n) ==
  LET previous == Instr(fs, pc(fs) - 1) IN
    IF Clean(fs) /\ pc(fs) = 0 /\ from >= nactvar(fs) THEN fs
    ELSE IF Clean(fs) /\ pc(fs) > 0 /\ previous.op = "LOADNIL"
            /\ previous.a <= from /\ from <= previous.b + 1
         THEN [fs EXCEPT !.code[pc(fs)].b = IF from + n - 1 > @ THEN from + n - 1 ELSE @]
    ELSE code(fs, "LOADNIL", from, from + n - 1, 0)

\* An error of the compiler, and an assertion of it.
Error(fs, here) == [fs EXCEPT !.error = @ \/ here]
Assert_(fs, holds) == [fs EXCEPT !.sound = @ /\ holds]

checkstack(fs, n) ==
  LET newstack == fs.freereg + n IN
    IF newstack <= fs.maxstacksize THEN fs
    ELSE [Error(fs, newstack >= MAXSTACK) EXCEPT !.maxstacksize = newstack]
reserveregs(fs, n) == [checkstack(fs, n) EXCEPT !.freereg = @ + n]

\* Mutant: a local variable is freed too.
Mutant_freereg(fs, reg) ==
  IF ISK(reg) THEN fs ELSE [Assert_(fs, reg = fs.freereg - 1) EXCEPT !.freereg = @ - 1]

freereg(fs, reg) ==
  IF ISK(reg) \/ reg < nactvar(fs) THEN fs
  ELSE [Assert_(fs, reg = fs.freereg - 1) EXCEPT !.freereg = @ - 1]
freeexp(fs, e) == IF e.k = "VNONRELOC" THEN freereg(fs, e.info) ELSE fs

\* addk: the constants with v among them, and its place.
addk(fs, v) == IF v \in ToSet(fs.k) THEN fs ELSE [fs EXCEPT !.k = Append(@, v)]
Place(fs, v) == (CHOOSE i \in DOMAIN fs.k : fs.k[i] = v) - 1

With(fs, e) == [fs EXCEPT !.e = e]
\* The expression in hand is the result of an instruction that has no register yet.
Relocable(fs, op, b, c) == LET g == code(fs, op, 0, b, c) IN With(g, [g.e EXCEPT !.k = "VRELOCABLE", !.info = pc(g) - 1])
Constant(fs, v) == LET g == addk(fs, v) IN With(g, E("VK", Place(g, v)))

setreturns(fs, nresults) ==
  LET i == fs.e.info + 1 IN
    CASE fs.e.k = "VCALL" -> [fs EXCEPT !.code[i].c = nresults + 1]
      [] fs.e.k = "VVARARG" ->
           reserveregs([fs EXCEPT !.code[i].b = nresults + 1, !.code[i].a = fs.freereg], 1)
      [] OTHER -> fs

setoneret(fs) ==
  CASE fs.e.k = "VCALL" -> [fs EXCEPT !.e.k = "VNONRELOC", !.e.info = Instr(fs, @).a]
    [] fs.e.k = "VVARARG" -> [fs EXCEPT !.code[fs.e.info + 1].b = 2, !.e.k = "VRELOCABLE"]
    [] OTHER -> fs

--------------------------------------------------------------------------------
(* Expressions to registers and operands *)

dischargevars(fs) ==
  LET e == fs.e IN
    CASE e.k = "VLOCAL" -> [fs EXCEPT !.e.k = "VNONRELOC"]
      [] e.k = "VUPVAL" -> Relocable(fs, "GETUPVAL", e.info, 0)
      [] e.k = "VGLOBAL" -> Relocable(fs, "GETGLOBAL", e.info, 0)
      [] e.k = "VINDEXED" ->
           Relocable(freereg(freereg(fs, e.aux), e.info), "GETTABLE", e.info, e.aux)
      [] OTHER -> setoneret(fs)

discharge2reg(fs, reg) ==
  LET d == dischargevars(fs)
      e == d.e
      k == addk(d, e.info)
      done(g) == [g EXCEPT !.e.info = reg, !.e.k = "VNONRELOC"]
  IN CASE e.k = "VNIL" -> done(luaK_nil(d, reg, 1))
       [] e.k \in {"VFALSE", "VTRUE"} ->
            done(code(d, "LOADBOOL", reg, IF e.k = "VTRUE" THEN 1 ELSE 0, 0))
       [] e.k = "VK" -> done(code(d, "LOADK", reg, e.info, 0))
       [] e.k = "VKNUM" -> done(code(k, "LOADK", reg, Place(k, e.info), 0))
       [] e.k = "VRELOCABLE" -> done([d EXCEPT !.code[e.info + 1].a = reg])
       [] e.k = "VNONRELOC" -> done(IF reg = e.info THEN d ELSE code(d, "MOVE", reg, e.info, 0))
       [] OTHER -> d

discharge2anyreg(fs) ==
  IF fs.e.k = "VNONRELOC" THEN fs
  ELSE LET g == reserveregs(fs, 1) IN discharge2reg(g, g.freereg - 1)

code_label(fs, a, b, skip) == code(getlabel(fs), "LOADBOOL", a, b, skip)

exp2reg(fs, reg) ==
  LET d == discharge2reg(fs, reg)
      isjump == d.e.k = "VJMP"
      g == IF isjump THEN [concat(d, d.e.t, d.e.info) EXCEPT !.e.t = Joined(@, d.e.info)] ELSE d
      e == g.e
      loads == need_value(g, e.t) \/ need_value(g, e.f)
      h == IF loads /\ ~isjump THEN jump(g) ELSE g
      p_f == pc(h)
      labelled == code_label(code_label(h, reg, 0, 1), reg, 1, 0)
      at == getlabel(IF loads THEN patchtohere(labelled, IF isjump THEN NO_JUMP ELSE pc(g)) ELSE h)
  IN With(IF ~hasjumps(e) THEN g
          ELSE patchlistaux(patchlistaux(at, e.f, pc(at), reg, p_f), e.t, pc(at), reg, p_f + 1),
          E("VNONRELOC", reg))

exp2nextreg(fs) ==
  LET d == dischargevars(fs)  g == reserveregs(freeexp(d, d.e), 1) IN exp2reg(g, g.freereg - 1)

exp2anyreg(fs) ==
  LET d == dischargevars(fs)  e == d.e IN
    IF e.k = "VNONRELOC" /\ ~hasjumps(e) THEN d
    ELSE IF e.k = "VNONRELOC" /\ e.info >= nactvar(d) THEN exp2reg(d, e.info)
    ELSE exp2nextreg(d)

exp2val(fs) == IF hasjumps(fs.e) THEN exp2anyreg(fs) ELSE dischargevars(fs)

InRange(i) == i <= MAXINDEXRK

exp2RK(fs) ==
  LET d == exp2val(fs)
      v == CASE d.e.k = "VKNUM" -> d.e.info [] d.e.k = "VNIL" -> Nil [] OTHER -> Bool(d.e.k = "VTRUE")
  IN CASE d.e.k \in {"VKNUM", "VTRUE", "VFALSE", "VNIL"} /\ InRange(Len(d.k)) -> Constant(d, v)
       [] d.e.k = "VK" /\ InRange(d.e.info) -> d
       [] OTHER -> exp2anyreg(d)
RK(e) == IF e.k = "VK" THEN e.info + BITRK ELSE e.info

storevar(fs, var) ==
  LET reg == exp2anyreg(fs)  rk == exp2RK(fs) IN
    CASE var.k = "VLOCAL" -> exp2reg(freeexp(fs, fs.e), var.info)
      [] var.k = "VUPVAL" -> freeexp(code(reg, "SETUPVAL", reg.e.info, var.info, 0), reg.e)
      [] var.k = "VGLOBAL" -> freeexp(code(reg, "SETGLOBAL", reg.e.info, var.info, 0), reg.e)
      [] var.k = "VINDEXED" -> freeexp(code(rk, "SETTABLE", var.info, var.aux, RK(rk.e)), rk.e)

luaK_self(fs, key) ==
  LET o == exp2anyreg(fs)
      g == reserveregs(freeexp(o, o.e), 2)
      k == exp2RK(Constant(g, key))
      s == code(k, "SELF", g.freereg - 2, o.e.info, RK(k.e))
  IN With(freeexp(s, k.e), E("VNONRELOC", g.freereg - 2))

--------------------------------------------------------------------------------
(* Conditions *)

invertjump(fs) ==
  LET i == getjumpcontrol(fs, fs.e.info) + 1 IN
    [Assert_(fs, fs.code[i].op \in {"EQ", "LT", "LE"}) EXCEPT !.code[i].a = 1 - @]

condjump(fs, op, a, b, c) == jump(code(fs, op, a, b, c))

jumponcond(fs, cond) ==
  LET last == Instr(fs, fs.e.info)
      d == discharge2anyreg(fs)
  IN IF fs.e.k = "VRELOCABLE" /\ last.op = "NOT"
     THEN condjump([fs EXCEPT !.code = Front(@)], "TEST", last.b, 0, 1 - cond)
     ELSE condjump(freeexp(d, d.e), "TESTSET", NO_REG, d.e.info, cond)

\* The jump that is taken when the expression is not as wanted.
Branch(fs, constants, cond) ==
  IF fs.e.k \in constants THEN fs
  ELSE IF fs.e.k = "VJMP" THEN (IF cond = 0 THEN invertjump(fs) ELSE fs)
  ELSE jumponcond(fs, cond)
Taken(fs, g, constants) ==
  IF fs.e.k \in constants THEN NO_JUMP ELSE IF fs.e.k = "VJMP" THEN fs.e.info ELSE pc(g) - 1

goiftrue(fs) ==
  LET d == dischargevars(fs)
      always == {"VK", "VKNUM", "VTRUE"}
      g == Branch(d, always, 0)
      j == Taken(d, g, always)
      h == concat(g, d.e.f, j)
  IN With(patchtohere(h, d.e.t), [h.e EXCEPT !.f = Joined(d.e.f, j), !.t = NO_JUMP])

goiffalse(fs) ==
  LET d == dischargevars(fs)
      never == {"VNIL", "VFALSE"}
      g == Branch(d, never, 1)
      j == Taken(d, g, never)
      h == concat(g, d.e.t, j)
  IN With(patchtohere(h, d.e.f), [h.e EXCEPT !.t = Joined(d.e.t, j), !.f = NO_JUMP])

codenot(fs) ==
  LET d == dischargevars(fs)
      r == discharge2anyreg(d)
      g == CASE d.e.k \in {"VNIL", "VFALSE"} -> [d EXCEPT !.e.k = "VTRUE"]
             [] d.e.k \in {"VK", "VKNUM", "VTRUE"} -> [d EXCEPT !.e.k = "VFALSE"]
             [] d.e.k = "VJMP" -> invertjump(d)
             [] OTHER -> Relocable(freeexp(r, r.e), "NOT", r.e.info, 0)
      h == With(g, [g.e EXCEPT !.t = g.e.f, !.f = g.e.t])
  IN removevalues(removevalues(h, h.e.f), h.e.t)

--------------------------------------------------------------------------------
(* Operators: the second operand is in hand, the first is e1. *)

luaK_indexed(fs, t) ==
  LET k == exp2RK(fs) IN With(k, [t EXCEPT !.k = "VINDEXED", !.aux = RK(k.e)])

constfolding(op, e1, e2) ==
  /\ isnumeral(e1) /\ isnumeral(e2) /\ op \notin {"#", ".."}
  /\ op = "%" => e2.info # Num(0)

Opcode(op) == CASE op = "+" -> "ADD" [] op = "-" -> "SUB" [] op = "*" -> "MUL" [] op = "%" -> "MOD"
                [] op = "^" -> "POW" [] op = "neg" -> "UNM" [] op = "#" -> "LEN" [] op = ".." -> "CONCAT"

codearith(fs, op, e1) ==
  LET unary == op \in {"neg", "#"}
      r2 == IF unary THEN fs ELSE exp2RK(fs)
      o2 == IF unary THEN 0 ELSE RK(r2.e)
      r1 == exp2RK(With(r2, e1))
      o1 == RK(r1.e)
      freed == IF o1 > o2 THEN freeexp(freeexp(r1, r1.e), r2.e) ELSE freeexp(freeexp(r1, r2.e), r1.e)
  IN IF constfolding(op, e1, fs.e)
     THEN With(fs, [e1 EXCEPT !.info = IF op = "neg" THEN Arithmetic("-", Num(0), @)
                                       ELSE Arithmetic(op, @, fs.e.info)])
     ELSE Relocable(freed, Opcode(op), o1, o2)

codecomp(fs, op, cond, e1) ==
  LET r1 == exp2RK(With(fs, e1))
      r2 == exp2RK(With(r1, fs.e))
      o1 == RK(r1.e)  o2 == RK(r2.e)
      freed == freeexp(freeexp(r2, r2.e), r1.e)
      swap == cond = 0 /\ op # "EQ"
      g == condjump(freed, op, IF swap THEN 1 ELSE cond, IF swap THEN o2 ELSE o1, IF swap THEN o1 ELSE o2)
  IN With(g, E("VJMP", pc(g) - 1))

luaK_prefix(fs, op) ==
  LET unary(g) == codearith(With(g, E("VKNUM", Num(0))), op, g.e) IN
    CASE op = "not" -> codenot(fs)
      [] op = "neg" -> unary(IF isnumeral(fs.e) THEN fs ELSE exp2anyreg(fs))
      [] op = "#" -> unary(exp2anyreg(fs))

arithmetic == {"+", "-", "*", "%", "^"}
luaK_infix(fs, op) ==
  CASE op = "and" -> goiftrue(fs)
    [] op = "or" -> goiffalse(fs)
    [] op = ".." -> exp2nextreg(fs)
    [] op \in arithmetic -> IF isnumeral(fs.e) THEN fs ELSE exp2RK(fs)
    [] OTHER -> exp2RK(fs)

luaK_posfix(fs, op, e1) ==
  LET d == Assert_(dischargevars(fs), NO_JUMP \in {e1.t, e1.f})
      v == exp2val(fs)
      last == Instr(v, v.e.info)
      merged == freeexp(Assert_(v, e1.info = last.b - 1), e1)
  IN CASE op = "and" -> [concat(d, d.e.f, e1.f) EXCEPT !.e.f = Joined(@, e1.f)]
       [] op = "or" -> [concat(d, d.e.t, e1.t) EXCEPT !.e.t = Joined(@, e1.t)]
       [] op = ".." ->
            IF v.e.k = "VRELOCABLE" /\ last.op = "CONCAT"
            THEN With([merged EXCEPT !.code[v.e.info + 1].b = e1.info], E("VRELOCABLE", v.e.info))
            ELSE codearith(exp2nextreg(v), op, e1)
       [] op \in arithmetic -> codearith(fs, op, e1)
       [] op \in {"==", "~="} -> codecomp(fs, "EQ", IF op = "==" THEN 1 ELSE 0, e1)
       [] op \in {"<", ">"} -> codecomp(fs, "LT", IF op = "<" THEN 1 ELSE 0, e1)
       [] op \in {"<=", ">="} -> codecomp(fs, "LE", IF op = "<=" THEN 1 ELSE 0, e1)

luaK_setlist(fs, base, nelems, tostore) ==
  LET c == (nelems - 1) \div LFIELDS_PER_FLUSH + 1
      b == IF tostore = LUA_MULTRET THEN 0 ELSE tostore
      g == IF c <= MAXARG_C THEN code(fs, "SETLIST", base, b, c)
           ELSE code(code(fs, "SETLIST", base, b, 0), "EXTRA", c, 0, 0)
  IN [g EXCEPT !.freereg = base + 1]
================================================================================
