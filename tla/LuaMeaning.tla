------------------------------ MODULE LuaMeaning ------------------------------
(***************************************************************************)
(* What a Lua program means, as the reference manual tells it: a direct    *)
(* evaluation of the source, without registers, jumps or a stack, for what *)
(* the compiler and the interpreter do to be compared with.                *)
(* Its state s: the variables, functions and tables made, what was         *)
(* emitted, and whether there was an error, after which nothing counts.    *)
(***************************************************************************)
EXTENDS LuaVM

CONSTANT Source(_)  \* the statements of each program

RECURSIVE Value(_, _, _), Values(_, _, _), Operand(_, _, _), Prefix(_, _, _), Invoke(_, _, _),
          Run(_, _, _), Statement(_, _, _), Loop(_, _, _, _), Generic(_, _, _, _, _)

--------------------------------------------------------------------------------
(* Variables, tables and functions *)

Result(v, s) == [v |-> v, s |-> s]
Checked(v, s) == [v |-> v, s |-> [s EXCEPT !.err = @ \/ v = Failed]]

\* New variables, holding values; missing ones are nil.
Nth(vs, i) == IF i \in DOMAIN vs THEN vs[i] ELSE Nil
Bind(names, vs, env, s) ==
  LET n == Len(s.cells) IN
    [env |-> [x \in {names[i] : i \in DOMAIN names} |->
                n + (CHOOSE i \in DOMAIN names : names[i] = x /\ \A j \in DOMAIN names : names[j] = x => j <= i)]
             @@ env,
     s |-> [s EXCEPT !.cells = @ \o [i \in DOMAIN names |-> Nth(vs, i)]]]

Field(t, k, s) ==
  Checked(IF t[1] # "table" THEN Failed
          ELSE IF k \in DOMAIN s.tables[t[2]] THEN s.tables[t[2]][k] ELSE Nil, s)
SetField(t, k, v, s) ==
  IF s.err \/ t[1] # "table" \/ k \in {Nil, NaN} THEN [s EXCEPT !.err = TRUE]
  ELSE [s EXCEPT !.tables = Put(@, << t[2], k >>, v)]

Globals == << "table", 1 >>
Variable(n, env, s) ==
  IF n \in DOMAIN env THEN Result(s.cells[env[n]], s) ELSE Field(Globals, Str(<< n >>), s)
SetVariable(n, v, env, s) ==
  IF n \in DOMAIN env THEN [s EXCEPT !.cells[env[n]] = v] ELSE SetField(Globals, Str(<< n >>), v, s)

NewFunction(f, env, s) ==
  Result(<< "function", Len(s.fns) + 1 >>, [s EXCEPT !.fns = Append(@, [f |-> f, env |-> env])])

Invoke(v, args, s) ==
  CASE s.err \/ v[1] \notin {"function", "emit"} -> Result(<< >>, [s EXCEPT !.err = TRUE])
    [] ~s.err /\ v[1] = "emit" -> Result(args, [s EXCEPT !.trace = Append(@, args)])
    [] OTHER ->
         LET fn == s.fns[v[2]]
             names == (IF fn.f.self THEN << "self" >> ELSE << >>) \o fn.f.params
             rest == SubSeq(args, Len(names) + 1, Len(args))
             old == [k \in {Num(i) : i \in DOMAIN rest} |-> rest[k[2]]] @@ (Str(<< "n" >>) :> Num(Len(rest)))
             arg == IF fn.f.old THEN << "table", Len(s.tables) + 1 >> ELSE Nil
             b == Bind(IF fn.f.vararg THEN << "arg", "..." >> \o names ELSE names,
                       IF fn.f.vararg THEN << arg, rest >> \o args ELSE args, fn.env,
                       IF fn.f.old THEN [s EXCEPT !.tables = Append(@, old)] ELSE s)
             r == Run(fn.f.body, b.env, b.s)
         IN Result(r.vals, r.s)

--------------------------------------------------------------------------------
(* Expressions: the loosest operator is applied last. *)

Levels == << {"or"}, {"and"}, {"<", ">", "<=", ">=", "~=", "=="}, {".."}, {"+", "-"}, {"*", "%"},
             {"un"}, {"^"} >>
Level(op) == CHOOSE l \in DOMAIN Levels : op \in Levels[l]
Rightward(op) == op \in {"..", "^"}

Binary(op, v, w, s) ==
  Checked(CASE op \in arithmetic -> Arith(op, v, w)
            [] op = ".." -> Concatenated(<< v, w >>)
            [] op = "==" -> Bool(equalobj(v, w))
            [] op = "~=" -> Bool(~equalobj(v, w))
            [] op = "<" -> Less("LT", v, w)
            [] op = "<=" -> Less("LE", v, w)
            [] op = ">" -> Less("LT", w, v)
            [] op = ">=" -> Less("LE", w, v), s)

Unary(op, v, s) ==
  Checked(CASE op = "not" -> Bool(l_isfalse(v)) [] op = "neg" -> Arith("-", Num(0), v)
            [] op = "#" -> IF v[1] = "table" THEN Num(luaH_getn(s.tables[v[2]]))
                           ELSE IF v[1] = "str" THEN Num(Len(v[2])) ELSE Failed, s)

Value(x, env, s) ==
  LET binary == {i \in DOMAIN x : x[i].t = "bin"}
      loosest == {i \in binary : \A j \in binary : Level(x[i].op) <= Level(x[j].op)}
      right_ == \E i \in loosest : Rightward(x[i].op)
      at == CHOOSE i \in loosest : \A j \in loosest : IF right_ THEN i <= j ELSE j <= i
      op == x[at].op
      a == Value(SubSeq(x, 1, at - 1), env, s)
      b == Value(SubSeq(x, at + 1, Len(x)), env, a.s)
      operand == Value(Tail(x), env, s)
      first == Operand(x[1], env, s)
  IN IF x[1].t = "un" /\ \A i \in binary : Level(x[i].op) > Level("un")
     THEN Unary(x[1].op, operand.v, operand.s)
     ELSE IF binary = {} THEN Result(Nth(first.v, 1), first.s)
     ELSE IF op \in {"and", "or"} THEN (IF a.s.err \/ l_isfalse(a.v) = (op = "and") THEN a ELSE b)
     ELSE IF b.s.err THEN b ELSE Binary(op, a.v, b.v, b.s)

\* A list of expressions: the last one gives all its values.
Values(list, env, s) ==
  LET open(x) == Len(x) = 1 /\ x[1].t \in {"call", "method", "dots"}
      one(a, i) ==
        IF i = Len(list) /\ open(list[i])
        THEN LET r == Operand(list[i][1], env, a.s) IN Result(a.v \o r.v, r.s)
        ELSE LET r == Value(list[i], env, a.s) IN Result(Append(a.v, r.v), r.s)
  IN Fold(one, Result(<< >>, s), [i \in DOMAIN list |-> i])

Constructed(items, env, s) ==
  LET t == << "table", Len(s.tables) + 1 >>
      last(i) == i = Len(items) /\ Len(items[i].e) = 1 /\ items[i].e[1].t \in {"call", "method", "dots"}
      store(a, vs) == [s |-> Fold(LAMBDA u, i : SetField(t, Num(a.n + i), vs[i], u), a.s, [i \in DOMAIN vs |-> i]),
                       n |-> a.n + Len(vs)]
      one(a, i) ==
        LET item == items[i]
            key == IF item.t = "named" THEN Result(Str(<< item.n >>), a.s) ELSE Value(item.key, env, a.s)
            v == Value(item.e, env, IF item.t = "item" THEN a.s ELSE key.s)
            vs == Operand(item.e[1], env, a.s)
        IN IF item.t # "item" THEN [a EXCEPT !.s = SetField(t, key.v, v.v, v.s)]
           ELSE IF last(i) THEN store([a EXCEPT !.s = vs.s], vs.v)
           ELSE store([a EXCEPT !.s = v.s], << v.v >>)
  IN Result(t, Fold(one, [s |-> [s EXCEPT !.tables = Append(@, << >>)], n |-> 0],
                        [i \in DOMAIN items |-> i]).s)

\* The values of an operand: one, but for calls and `...'.
Operand(x, env, s) ==
  LET single(r) == Result(<< r.v >>, r.s) IN
    CASE x.t \in {"num", "str"} -> Result(<< x.v >>, s)
      [] x.t = "nil" -> Result(<< Nil >>, s)
      [] x.t \in {"true", "false"} -> Result(<< Bool(x.t = "true") >>, s)
      [] x.t = "dots" -> Result(s.cells[env["..."]], s)
      [] x.t = "table" -> single(Constructed(x.items, env, s))
      [] x.t = "function" -> single(NewFunction(x, env, s))
      [] OTHER -> Prefix(x, env, s)

Prefix(x, env, s) ==
  LET o == Prefix(x.of, env, s)
      object == Nth(o.v, 1)
      single(r) == Result(<< r.v >>, r.s)
      key == Value(x.key, env, o.s)
      method == Field(object, Str(<< x.n >>), o.s)
      args(u) == Values(x.args, env, u)
  IN CASE x.t = "name" -> single(Variable(x.n, env, s))
       [] x.t = "paren" -> single(Value(x.e, env, s))
       [] x.t = "field" -> single(method)
       [] x.t = "index" -> IF key.s.err THEN single(key) ELSE single(Field(object, key.v, key.s))
       [] x.t = "call" -> LET a == args(o.s) IN Invoke(object, a.v, a.s)
       [] x.t = "method" -> IF method.s.err THEN method
                            ELSE LET a == args(method.s) IN Invoke(method.v, << object >> \o a.v, a.s)

--------------------------------------------------------------------------------
(* Statements: how one ends is next, break or return *)

Done(env, s) == [sig |-> IF s.err THEN "error" ELSE "next", vals |-> << >>, env |-> env, s |-> s]
Scoped(r, env) == [r EXCEPT !.env = env]

Run(stats, env, s) ==
  Fold(LAMBDA r, x : IF r.sig = "next" THEN Statement(x, r.env, r.s) ELSE r, Done(env, s), stats)

\* The first clause that holds.
RECURSIVE If(_, _, _)
If(x, env, s) ==
  LET c == Value(Head(x.clauses).c, env, s) IN
    IF x.clauses = << >> THEN (IF x.orelse = << >> THEN Done(env, s) ELSE Run(x.orelse[1], env, s))
    ELSE IF c.s.err THEN Done(env, c.s)
    ELSE IF ~l_isfalse(c.v) THEN Run(Head(x.clauses).body, env, c.s)
    ELSE If([x EXCEPT !.clauses = Tail(@)], env, c.s)

\* What a loop does after its body: again, or out.
After(r, env, again) == IF r.sig = "next" THEN again ELSE IF r.sig = "break" THEN Done(env, r.s) ELSE r

Loop(x, i, env, s) ==
  LET c == Value(x.c, env, s)
      r == Run(x.body, env, c.s)
      once == Run(x.body, env, s)
      until == Value(x.c, once.env, once.s)
      to == i[2][2]  step == i[3][2]
      b == Bind(<< x.n >>, << i[1] >>, env, s)
      body_ == Run(x.body, b.env, b.s)
  IN CASE x.t = "while" -> IF c.s.err \/ l_isfalse(c.v) THEN Done(env, c.s) ELSE After(r, env, Loop(x, i, env, r.s))
       [] x.t = "repeat" ->
            After(once, env, IF until.s.err \/ ~l_isfalse(until.v) THEN Done(env, until.s)
                             ELSE Loop(x, i, env, until.s))
       [] x.t = "fornum" ->
            IF (IF step > 0 THEN i[1][2] <= to ELSE to <= i[1][2])
            THEN After(body_, env, Loop(x, << Num(i[1][2] + step), i[2], i[3] >>, env, body_.s))
            ELSE Done(env, s)

Generic(x, f, control, env, s) ==
  LET g == Invoke(f[1], << Nth(f, 2), control >>, s)
      b == Bind(x.names, g.v, env, g.s)
      r == Run(x.body, b.env, b.s)
  IN IF g.s.err \/ Nth(g.v, 1) = Nil THEN Done(env, g.s)
     ELSE After(r, env, Generic(x, f, Nth(g.v, 1), env, r.s))

\* Every expression of an assignment is evaluated before it.
Assigned(x, env, s) ==
  LET target(a, l) ==
        LET o == Prefix(l.of, env, a.s)
            key == IF l.t = "field" THEN Result(Str(<< l.n >>), o.s) ELSE Value(l.key, env, o.s)
        IN IF l.t = "name" THEN [a EXCEPT !.v = Append(@, l.n)]
           ELSE Result(Append(a.v, << Nth(o.v, 1), key.v >>), key.s)
      ts == Fold(target, Result(<< >>, s), x.lhs)
      vs == Values(x.exps, env, ts.s)
      store(u, i) == IF u.err THEN u
                     ELSE IF x.lhs[i].t = "name" THEN SetVariable(ts.v[i], Nth(vs.v, i), env, u)
                     ELSE SetField(ts.v[i][1], ts.v[i][2], Nth(vs.v, i), u)
  IN Fold(store, vs.s, Reverse([i \in DOMAIN x.lhs |-> i]))

Statement(x, env, s) ==
  LET vs == Values(x.exps, env, s)
      range == Values(<< x.from, x.to >> \o x.step, env, s)
      bounds == IF x.step = << >> THEN Append(range.v, Num(1)) ELSE range.v
      b == Bind(x.names, vs.v, env, vs.s)
      n == Bind(<< x.n >>, << >>, env, s)
      f == NewFunction(x.f, IF x.t = "localfunction" THEN n.env ELSE env, IF x.t = "localfunction" THEN n.s ELSE s)
  IN CASE x.t = "callstat" -> Done(env, Prefix(x.e, env, s).s)
       [] x.t = "assign" -> Done(env, Assigned(x, env, s))
       [] x.t = "local" -> Done(b.env, b.s)
       [] x.t = "localfunction" -> Done(n.env, SetVariable(x.n, f.v, n.env, f.s))
       [] x.t = "function" ->
            Done(env, IF x.name.t = "name" THEN SetVariable(x.name.n, f.v, env, f.s)
                      ELSE LET o == Prefix(x.name.of, env, f.s) IN
                             SetField(Nth(o.v, 1), Str(<< x.name.n >>), f.v, o.s))
       [] x.t = "do" -> Scoped(Run(x.body, env, s), env)
       [] x.t = "if" -> Scoped(If(x, env, s), env)
       [] x.t \in {"while", "repeat"} -> Loop(x, << >>, env, s)
       [] x.t = "fornum" ->
            IF range.s.err \/ \E i \in DOMAIN bounds : ~isNumber(bounds[i])
            THEN Done(env, [range.s EXCEPT !.err = TRUE]) ELSE Loop(x, bounds, env, range.s)
       [] x.t = "forlist" -> IF vs.s.err THEN Done(env, vs.s) ELSE Generic(x, vs.v, Nth(vs.v, 3), env, vs.s)
       [] x.t = "break" -> [Done(env, s) EXCEPT !.sig = "break"]
       [] x.t = "return" -> [Done(env, vs.s) EXCEPT !.vals = vs.v, !.sig = IF vs.s.err THEN "error" ELSE "return"]

\* What the program emits, and how it ends.
Meaning(stats) ==
  LET s == [cells |-> << Args >>, fns |-> << [f |-> << >>, env |-> << >>] >>, trace |-> << >>, err |-> FALSE,
            tables |-> << Str(<< "emit" >>) :> << "emit" >> >>]
      r == Run(stats, "..." :> 1, s)
  IN [trace |-> r.s.trace, outcome |-> IF r.s.err THEN Failed ELSE Returned(r.vals)]

--------------------------------------------------------------------------------
(* Properties *)

\* A program that compiles ends having emitted, and returning, what it means.
DoesWhatItMeans ==
  [][outcome' # outcome =>
       LET m == Meaning(Source(program)) IN trace' = m.trace /\ outcome' = m.outcome]_outcome

\* The assertions of the compiler hold: registers are freed in the order they were
\* taken, none is in use between statements but the locals, blocks are left as entered,
\* and the code of every function passes luaG_checkcode.
CompilerSound == ~closure[1].p.error => closure[1].p.sound

\* The frame of every function is in the stack above its caller's registers in use,
\* and an open upvalue is a register of a frame that is still there.
UpvaluesLive ==
  /\ \A i \in 1 .. Len(ci) - 1 : ci[i].base <= ci[i + 1].func /\ ci[i + 1].func < ci[i].top
  /\ \A u \in DOMAIN upval : upval[u].open => \E i \in DOMAIN ci : upval[u].at \in ci[i].base .. ci[i].top - 1
  /\ \A u, w \in DOMAIN upval : upval[u].open /\ upval[w].open /\ upval[u].at = upval[w].at => u = w
================================================================================
