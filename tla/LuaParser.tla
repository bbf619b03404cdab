------------------------------ MODULE LuaParser -------------------------------
(***************************************************************************)
(* The parser of the Lua runtime (lparser.c): one pass that resolves names *)
(* to locals, upvalues and globals, and generates code. Of the source, the *)
(* operators keep their order, for the parser to find what binds; all else *)
(* is a tree, the tag of a record naming the rule.                         *)
(***************************************************************************)
EXTENDS LuaCheck

CONSTANTS
  LUAI_MAXVARS,      \* the local variables a function may have
  LUAI_MAXUPVALUES   \* and its upvalues

ASSUME LuaParserAssumption == {LUAI_MAXVARS, LUAI_MAXUPVALUES} \subseteq Nat \ {0}

RECURSIVE singlevaraux(_, _, _), subexpr(_, _, _), Operators(_, _), simpleexp(_, _),
          primaryexp(_, _), explist1(_, _), body(_, _), chunk(_, _), statement(_, _)

expr(fs, tokens) == subexpr(fs, tokens, 0).fs

--------------------------------------------------------------------------------
(* Variables, blocks and functions *)

\* new_localvar and adjustlocalvars
adjustlocalvars(fs, names) ==
  [Error(fs, nactvar(fs) + Len(names) > LUAI_MAXVARS) EXCEPT !.actvar = @ \o names]

indexupvalue(fs, v) ==
  LET u == [k |-> v.k, info |-> v.info]
      found == {i \in DOMAIN fs.ups : fs.ups[i] = u}
      i == IF found = {} THEN Len(fs.ups) + 1 ELSE CHOOSE j \in found : TRUE
      g == IF found = {} THEN [Error(fs, i > LUAI_MAXUPVALUES) EXCEPT !.ups = Append(@, u)] ELSE fs
  IN With(g, E("VUPVAL", i - 1))

markupval(fs, level) ==
  LET in == {i \in DOMAIN fs.bl : fs.bl[i].nactvar <= level} IN
    IF in = {} THEN fs ELSE [fs EXCEPT !.bl[CHOOSE i \in in : \A j \in in : j <= i].upval = TRUE]

singlevaraux(fs, n, base) ==
  LET found == {i \in DOMAIN fs.actvar : fs.actvar[i] = n}
      v == (CHOOSE i \in found : \A j \in found : j <= i) - 1
      outer == singlevaraux(fs.prev[1], n, FALSE)
  IN CASE found # {} -> With(IF base THEN fs ELSE markupval(fs, v), E("VLOCAL", v))
       [] found = {} /\ fs.prev = << >> -> With(fs, E("VGLOBAL", 0))
       [] OTHER -> LET g == [fs EXCEPT !.prev = << outer >>] IN
                     IF outer.e.k = "VGLOBAL" THEN With(g, outer.e) ELSE indexupvalue(g, outer.e)

singlevar(fs, n) ==
  LET g == singlevaraux(fs, n, TRUE)
      k == Constant(g, Str(<< n >>))
  IN IF g.e.k = "VGLOBAL" THEN With(k, E("VGLOBAL", k.e.info)) ELSE g

\* adjust_assign: nexps expressions, the last in hand, for nvars variables.
adjust_assign(fs, nvars, nexps) ==
  LET extra == nvars - nexps
      more == IF extra + 1 > 0 THEN extra + 1 ELSE 0
      open == setreturns(fs, more)
      closed == IF fs.e.k = "VVOID" THEN fs ELSE exp2nextreg(fs)
  IN IF hasmultret(fs.e.k) THEN (IF more > 1 THEN reserveregs(open, more - 1) ELSE open)
     ELSE IF extra > 0 THEN luaK_nil(reserveregs(closed, extra), closed.freereg, extra)
     ELSE closed

enterblock(fs, isbreakable) ==
  [Assert_(fs, fs.freereg = nactvar(fs)) EXCEPT
     !.bl = Append(@, [breaklist |-> NO_JUMP, isbreakable |-> isbreakable,
                       nactvar |-> nactvar(fs), upval |-> FALSE])]

leaveblock(fs) ==
  LET bl == Last(fs.bl)
      g == [Assert_(fs, ~(bl.isbreakable /\ bl.upval)) EXCEPT
              !.bl = Front(@), !.actvar = SubSeq(@, 1, bl.nactvar)]
      h == IF bl.upval THEN code(g, "CLOSE", bl.nactvar, 0, 0) ELSE g
  IN patchtohere([h EXCEPT !.freereg = bl.nactvar], bl.breaklist)

luaK_ret(fs, first, nret) == code(fs, "RETURN", first, nret + 1, 0)

open_func(prev) ==
  [code |-> << >>, k |-> << >>, jpc |-> NO_JUMP, lasttarget |-> -1, freereg |-> 0,
   maxstacksize |-> 2, actvar |-> << >>, bl |-> << >>, ups |-> << >>, p |-> << >>,
   numparams |-> 0, isvararg |-> FALSE, hasarg |-> FALSE, needsarg |-> FALSE,
   prev |-> prev, e |-> E("VVOID", 0), error |-> FALSE, sound |-> TRUE]

\* close_func: the prototype that is left of the state.
close_func(fs) ==
  LET g == luaK_ret([fs EXCEPT !.actvar = << >>], 0, 0)
      pt == [code |-> g.code, k |-> g.k, p |-> g.p, nups |-> Len(g.ups), numparams |-> g.numparams,
             isvararg |-> g.isvararg, hasarg |-> g.hasarg, needsarg |-> g.needsarg,
             maxstacksize |-> g.maxstacksize, error |-> g.error, sound |-> g.sound /\ g.bl = << >>]
  IN [pt EXCEPT !.sound = @ /\ (pt.error \/ luaG_checkcode(pt))]

pushclosure(fs, func, ups) ==
  LET g == [Error(Assert_(fs, func.sound), func.error) EXCEPT !.p = Append(@, func)]
  IN Fold(LAMBDA u, v : code(u, IF v.k = "VLOCAL" THEN "MOVE" ELSE "GETUPVAL", 0, v.info, 0),
              Relocable(With(g, E("VVOID", 0)), "CLOSURE", Len(fs.p), 0), ups)

\* body and parlist
body(fs, f) ==
  LET names == (IF f.self THEN << "self" >> ELSE << >>) \o f.params
      g == adjustlocalvars(open_func(<< fs >>), IF f.vararg THEN Append(names, "arg") ELSE names)
      h == reserveregs([g EXCEPT !.isvararg = f.vararg, !.hasarg = f.vararg, !.needsarg = f.vararg,
                                 !.numparams = Len(names)], nactvar(g))
      c == chunk(h, f.body)
  IN pushclosure(c.prev[1], close_func(c), c.ups)

luaY_parser(stats) == close_func(chunk([open_func(<< >>) EXCEPT !.isvararg = TRUE], stats))

--------------------------------------------------------------------------------
(* Expressions *)

left(op) == CASE op = "or" -> 1 [] op = "and" -> 2
              [] op \in {"==", "~=", "<", "<=", ">", ">="} -> 3
              [] op = ".." -> 5 [] op \in {"+", "-"} -> 6 [] op \in {"*", "%"} -> 7 [] op = "^" -> 10
right(op) == CASE op = "^" -> 9 [] op = ".." -> 4 [] OTHER -> left(op)
UNARY_PRIORITY == 8

subexpr(fs, tokens, limit) ==
  LET first == Head(tokens)
      operand == subexpr(fs, Tail(tokens), UNARY_PRIORITY)
  IN Operators(IF first.t = "un" THEN [operand EXCEPT !.fs = luaK_prefix(@, first.op)]
               ELSE [fs |-> simpleexp(fs, first), rest |-> Tail(tokens)], limit)

\* The operators of higher priority that follow.
Operators(r, limit) ==
  IF r.rest = << >> \/ left(Head(r.rest).op) <= limit THEN r
  ELSE LET op == Head(r.rest).op
           v == luaK_infix(r.fs, op)
           second == subexpr(v, Tail(r.rest), right(op))
       IN Operators([second EXCEPT !.fs = luaK_posfix(@, op, v.e)], limit)

explist1(fs, list) ==
  Fold(LAMBDA u, x : expr(exp2nextreg(u), x), expr(fs, Head(list)), Tail(list))

funcargs(fs, args) ==
  LET base == fs.e.info
      g == IF args = << >> THEN With(fs, E("VVOID", 0))
           ELSE setreturns(explist1(fs, args), LUA_MULTRET)
      open == hasmultret(g.e.k)
      h == IF open \/ g.e.k = "VVOID" THEN g ELSE exp2nextreg(g)
      c == code(h, "CALL", base, IF open THEN 0 ELSE h.freereg - base, 2)
  IN With([c EXCEPT !.freereg = base + 1], E("VCALL", pc(h)))

\* The state cc of a constructor: v is the last item read.
closelistfield(cc) ==
  LET g == exp2nextreg(With(cc.fs, cc.v))
      full == cc.tostore = LFIELDS_PER_FLUSH
  IN IF cc.v.k = "VVOID" THEN cc
     ELSE [cc EXCEPT !.fs = IF full THEN luaK_setlist(g, cc.t.info, cc.na, cc.tostore) ELSE g,
                     !.v = E("VVOID", 0), !.tostore = IF full THEN 0 ELSE @]

listfield(cc, item) ==
  LET g == expr(cc.fs, item.e) IN
    [cc EXCEPT !.fs = g, !.v = g.e, !.na = @ + 1, !.tostore = @ + 1]

recfield(cc, item) ==
  LET key == exp2RK(IF item.t = "named" THEN Constant(cc.fs, Str(<< item.n >>))
                    ELSE exp2val(expr(cc.fs, item.key)))
      val == exp2RK(expr(key, item.e))
      s == code(val, "SETTABLE", cc.t.info, RK(key.e), RK(val.e))
  IN [cc EXCEPT !.fs = [s EXCEPT !.freereg = cc.fs.freereg], !.nh = @ + 1]

lastlistfield(cc) ==
  LET open == hasmultret(cc.v.k)
      g == With(cc.fs, cc.v)
      h == IF open THEN setreturns(g, LUA_MULTRET)
           ELSE IF cc.v.k = "VVOID" THEN g ELSE exp2nextreg(g)
  IN IF cc.tostore = 0 THEN cc
     ELSE [cc EXCEPT !.fs = luaK_setlist(h, cc.t.info, cc.na, IF open THEN LUA_MULTRET ELSE cc.tostore),
                     !.na = IF open THEN @ - 1 ELSE @]

constructor(fs, items) ==
  LET new == exp2nextreg(Relocable(With(fs, E("VVOID", 0)), "NEWTABLE", 0, 0))
      one(cc, item) == LET c == closelistfield(cc) IN
                         IF item.t = "item" THEN listfield(c, item) ELSE recfield(c, item)
      cc == lastlistfield(Fold(one, [fs |-> new, v |-> E("VVOID", 0), t |-> new.e,
                                         na |-> 0, nh |-> 0, tostore |-> 0], items))
  IN With([cc.fs EXCEPT !.code[pc(fs) + 1].b = cc.na, !.code[pc(fs) + 1].c = cc.nh], new.e)

primaryexp(fs, x) ==
  LET o == exp2anyreg(primaryexp(fs, x.of)) IN
    CASE x.t = "name" -> singlevar(fs, x.n)
      [] x.t = "paren" -> dischargevars(expr(fs, x.e))
      [] x.t = "field" -> luaK_indexed(Constant(o, Str(<< x.n >>)), o.e)
      [] x.t = "index" -> luaK_indexed(exp2val(expr(o, x.key)), o.e)
      [] x.t = "method" -> funcargs(luaK_self(primaryexp(fs, x.of), Str(<< x.n >>)), x.args)
      [] x.t = "call" -> funcargs(exp2nextreg(primaryexp(fs, x.of)), x.args)

simpleexp(fs, x) ==
  CASE x.t = "num" -> With(fs, E("VKNUM", x.v))
    [] x.t = "str" -> Constant(fs, x.v)
    [] x.t = "nil" -> With(fs, E("VNIL", 0))
    [] x.t = "true" -> With(fs, E("VTRUE", 0))
    [] x.t = "false" -> With(fs, E("VFALSE", 0))
    [] x.t = "dots" -> With(code([Error(fs, ~fs.isvararg) EXCEPT !.needsarg = FALSE], "VARARG", 0, 1, 0),
                            E("VVARARG", pc(fs)))
    [] x.t = "table" -> constructor(fs, x.items)
    [] x.t = "function" -> body(fs, x)
    [] OTHER -> primaryexp(fs, x)

--------------------------------------------------------------------------------
(* Statements *)

block(fs, stats) == leaveblock(chunk(enterblock(fs, FALSE), stats))

\* A local that is assigned and indexed in one assignment is copied first.
check_conflict(fs, vs, v) ==
  LET clash(u) == u.k = "VINDEXED" /\ v.info \in {u.info, u.aux}
      safe(i) == IF i = v.info THEN fs.freereg ELSE i
  IN IF v.k # "VLOCAL" \/ \A i \in DOMAIN vs : ~clash(vs[i]) THEN [fs |-> fs, vs |-> vs]
     ELSE [fs |-> reserveregs(code(fs, "MOVE", fs.freereg, v.info, 0), 1),
           vs |-> [i \in DOMAIN vs |->
                     IF clash(vs[i]) THEN [vs[i] EXCEPT !.info = safe(@), !.aux = safe(@)] ELSE vs[i]]]

assignment(fs, lhs, exps) ==
  LET variable(a, x) ==
        LET g == primaryexp(a.fs, x)
            ok == g.e.k \in {"VLOCAL", "VUPVAL", "VGLOBAL", "VINDEXED"}
            c == check_conflict(Error(g, ~ok), a.vs, g.e)
        IN [c EXCEPT !.vs = Append(@, g.e)]
      a == Fold(variable, [fs |-> fs, vs |-> << >>], lhs)
      nvars == Len(lhs)  nexps == Len(exps)
      r == explist1(a.fs, exps)
      adjusted == LET g == adjust_assign(r, nvars, nexps) IN
                    IF nexps > nvars THEN [g EXCEPT !.freereg = @ - (nexps - nvars)] ELSE g
      equal == nexps = nvars
      store(u, v) == storevar(With(u, E("VNONRELOC", u.freereg - 1)), v)
  IN IF a.fs.error THEN a.fs
     ELSE Fold(store, IF equal THEN storevar(setoneret(r), Last(a.vs)) ELSE adjusted,
                   Reverse(IF equal THEN Front(a.vs) ELSE a.vs))

\* The jumps that leave when the condition is false are in fs.e.f.
cond(fs, c) ==
  LET g == expr(fs, c) IN goiftrue(IF g.e.k = "VNIL" THEN [g EXCEPT !.e.k = "VFALSE"] ELSE g)

breakstat(fs) ==
  LET loops == {i \in DOMAIN fs.bl : fs.bl[i].isbreakable}
      b == CHOOSE i \in loops : \A j \in loops : j <= i
      upval == \E i \in b + 1 .. Len(fs.bl) : fs.bl[i].upval
      g == IF upval THEN code(fs, "CLOSE", fs.bl[b].nactvar, 0, 0) ELSE fs
      list == fs.bl[b].breaklist
  IN IF loops = {} THEN Error(fs, TRUE)
     ELSE [concat(jump(g), list, pc(g)) EXCEPT !.bl[b].breaklist = Joined(list, pc(g))]

whilestat(fs, s) ==
  LET c == cond(getlabel(fs), s.c)
      g == block(enterblock(c, TRUE), s.body)
  IN patchtohere(leaveblock(patchlist(jump(g), pc(g), pc(fs))), c.e.f)

repeatstat(fs, s) ==
  LET c == cond(chunk(enterblock(enterblock(getlabel(fs), TRUE), FALSE), s.body), s.c)
      scoped == leaveblock(c)
      again == leaveblock(patchtohere(breakstat(c), c.e.f))
  IN leaveblock(IF ~Last(c.bl).upval THEN patchlist(scoped, c.e.f, pc(fs))
                ELSE patchlist(jump(again), pc(again), pc(fs)))

exp1(fs, x) == exp2nextreg(expr(fs, x))

forbody(fs, base, names, isnum, stats) ==
  LET c == adjustlocalvars(fs, << "(1)", "(2)", "(3)" >>)
      prep == IF isnum THEN code(c, "FORPREP", base, NO_JUMP, 0) ELSE jump(c)
      n == Len(names)
      inner == reserveregs(adjustlocalvars(enterblock(prep, FALSE), names), n)
      ended == patchtohere(leaveblock(block(inner, stats)), pc(c))
      loop == IF isnum THEN code(ended, "FORLOOP", base, NO_JUMP, 0)
              ELSE jump(code(ended, "TFORLOOP", base, 0, n))
  IN patchlist(loop, pc(loop) - 1, pc(c) + 1)

fornum(fs, s) ==
  LET g == exp1(exp1(fs, s.from), s.to)
      one == addk(g, Num(1))
      h == IF s.step # << >> THEN exp1(g, s.step[1])
           ELSE reserveregs(code(one, "LOADK", g.freereg, Place(one, Num(1)), 0), 1)
  IN forbody(h, fs.freereg, << s.n >>, TRUE, s.body)

forlist(fs, s) ==
  forbody(checkstack(adjust_assign(explist1(fs, s.exps), 3, Len(s.exps)), 3),
          fs.freereg, s.names, FALSE, s.body)

\* test_then_block: the jumps out when the condition is false are in the result.
ifstat(fs, s) ==
  LET escape(a) == [concat(jump(a.fs), a.escapes, pc(a.fs)) EXCEPT !.e = E("VVOID", 0)]
      next(a, i) ==
        LET first == i = 1
            g == IF first THEN a.fs ELSE patchtohere(escape(a), a.flist)
            c == cond(g, s.clauses[i].c)
        IN [fs |-> block(c, s.clauses[i].body), flist |-> c.e.f,
            escapes |-> IF first THEN NO_JUMP ELSE Joined(a.escapes, pc(a.fs))]
      a == Fold(next, [fs |-> fs, flist |-> NO_JUMP, escapes |-> NO_JUMP],
                    [i \in DOMAIN s.clauses |-> i])
  IN IF s.orelse # << >>
     THEN patchtohere(block(patchtohere(escape(a), a.flist), s.orelse[1]), Joined(a.escapes, pc(a.fs)))
     ELSE patchtohere(concat(a.fs, a.escapes, a.flist), Joined(a.escapes, a.flist))

localfunc(fs, s) ==
  LET g == adjustlocalvars(reserveregs(fs, 1), << s.n >>)
  IN storevar(body(g, s.f), E("VLOCAL", fs.freereg))

localstat(fs, s) ==
  LET g == IF s.exps = << >> THEN With(fs, E("VVOID", 0)) ELSE explist1(fs, s.exps)
  IN adjustlocalvars(adjust_assign(g, Len(s.names), Len(s.exps)), s.names)

funcstat(fs, s) == LET v == primaryexp(fs, s.name) IN storevar(body(v, s.f), v.e)

exprstat(fs, s) ==
  IF s.t = "callstat" THEN LET g == primaryexp(fs, s.e) IN [g EXCEPT !.code[g.e.info + 1].c = 1]
  ELSE assignment(fs, s.lhs, s.exps)

retstat(fs, s) ==
  LET nret == Len(s.exps)
      g == explist1(fs, s.exps)
      open == setreturns(g, LUA_MULTRET)
      tail == [Assert_(open, Instr(open, g.e.info).a = nactvar(fs)) EXCEPT
                 !.code[g.e.info + 1].op = "TAILCALL"]
      single == exp2anyreg(g)
      several == exp2nextreg(g)
  IN CASE nret = 0 -> luaK_ret(fs, 0, 0)
       [] nret > 0 /\ hasmultret(g.e.k) ->
            luaK_ret(IF g.e.k = "VCALL" /\ nret = 1 THEN tail ELSE open, nactvar(fs), LUA_MULTRET)
       [] nret = 1 /\ ~hasmultret(g.e.k) -> luaK_ret(single, single.e.info, 1)
       [] OTHER -> luaK_ret(Assert_(several, nret = several.freereg - nactvar(fs)), nactvar(fs), nret)

statement(fs, s) ==
  CASE s.t = "if" -> ifstat(fs, s)
    [] s.t = "while" -> whilestat(fs, s)
    [] s.t = "do" -> block(fs, s.body)
    [] s.t = "fornum" -> leaveblock(fornum(enterblock(fs, TRUE), s))
    [] s.t = "forlist" -> leaveblock(forlist(enterblock(fs, TRUE), s))
    [] s.t = "repeat" -> repeatstat(fs, s)
    [] s.t = "function" -> funcstat(fs, s)
    [] s.t = "localfunction" -> localfunc(fs, s)
    [] s.t = "local" -> localstat(fs, s)
    [] s.t = "return" -> retstat(fs, s)
    [] s.t = "break" -> breakstat(fs)
    [] OTHER -> exprstat(fs, s)

chunk(fs, stats) ==
  Fold(LAMBDA u, s :
             LET g == statement(u, s) IN
               [Assert_(g, g.maxstacksize >= g.freereg /\ g.freereg >= nactvar(g))
                  EXCEPT !.freereg = nactvar(g)],
           fs, stats)
================================================================================
