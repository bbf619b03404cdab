-------------------------------- MODULE MCLuaVM -------------------------------
(***************************************************************************)
(* Programs for the compiler and the interpreter: expressions of two       *)
(* operators in every combination, in the places where the compiler treats *)
(* them differently, and programs for each statement.                      *)
(***************************************************************************)
EXTENDS LuaMeaning, LuaParser

\* Builders of the source.
N(n) == [t |-> "name", n |-> n]
E1(x) == << x >>
V(n) == << N(n) >>
Lit(n) == << [t |-> "num", v |-> Num(n)] >>
Word(w) == << [t |-> "str", v |-> Str(<< w >>)] >>
Const(c) == << [t |-> c] >>
Dots == << [t |-> "dots"] >>
Bin(x, op, y) == x \o << [t |-> "bin", op |-> op] >> \o y
Un(op, x) == << [t |-> "un", op |-> op] >> \o x
Paren(x) == << [t |-> "paren", e |-> x] >>
CallOf(f, args) == [t |-> "call", of |-> f, args |-> args]
Emit(args) == CallOf(N("emit"), args)
Index(o, k) == [t |-> "index", of |-> o, key |-> k]
Dot(o, n) == [t |-> "field", of |-> o, n |-> n]
Method(o, n, args) == [t |-> "method", of |-> o, n |-> n, args |-> args]
Item(x) == [t |-> "item", e |-> x]
Rec(k, x) == [t |-> "rec", key |-> k, e |-> x]
Named(n, x) == [t |-> "named", n |-> n, e |-> x]
Table(items) == << [t |-> "table", items |-> items] >>
Func(params, stats) == [t |-> "function", params |-> params, vararg |-> FALSE, old |-> FALSE, self |-> FALSE, body |-> stats]
Fn(params, stats) == << Func(params, stats) >>
Local(names, exps) == [t |-> "local", names |-> names, exps |-> exps]
Set(lhs, exps) == [t |-> "assign", lhs |-> lhs, exps |-> exps]
Do(e) == [t |-> "callstat", e |-> e]
Block(stats) == [t |-> "do", body |-> stats]
Return(exps) == [t |-> "return", exps |-> exps]
Break == [t |-> "break"]
IfElse(c, then, else) == [t |-> "if", clauses |-> << [c |-> c, body |-> then] >>, orelse |-> << else >>]
IfThen(c, then) == [t |-> "if", clauses |-> << [c |-> c, body |-> then] >>, orelse |-> << >>]
While(c, stats) == [t |-> "while", c |-> c, body |-> stats]
Repeat(stats, c) == [t |-> "repeat", c |-> c, body |-> stats]
For(n, x, y, step, stats) == [t |-> "fornum", n |-> n, from |-> x, to |-> y, step |-> step, body |-> stats]
ForIn(names, exps, stats) == [t |-> "forlist", names |-> names, exps |-> exps, body |-> stats]
LocalFunction(n, f) == [t |-> "localfunction", n |-> n, f |-> f]
Function(name, f) == [t |-> "function", name |-> name, f |-> f]

--------------------------------------------------------------------------------
(* Expressions *)

Operands == << V("a"), E1(Emit(<< Lit(2) >>)), Const("nil"), Lit(1) >>
Binaries == << "and", "or", "==", "<", "+" , ".." >>

\* An assignment to a local, or a condition; with `not' or in parentheses.
ExpressionProgram(p) ==
  LET form == p[6]
      negated(x) == IF form \in {2, 5} THEN Un("not", x) ELSE x
      first == Bin(Operands[p[3]], Binaries[p[1]], negated(Operands[p[4]]))
      e == Bin(IF form = 3 THEN Paren(first) ELSE first, Binaries[p[2]], Operands[p[5]])
  IN << Local(<< "a" >>, << Lit(3) >>) >>
     \o IF form <= 3 THEN << Set(<< N("a") >>, << e >>), Return(<< V("a") >>) >>
        ELSE << IfElse(e, << Do(Emit(<< Lit(7) >>)) >>, << Do(Emit(<< Lit(8) >>)) >>) >>

ExpressionPrograms == (1 .. 6) \X (1 .. 6) \X (1 .. 3) \X (1 .. 4) \X (1 .. 3) \X (1 .. 5)
MCArgs == << Num(5), Bool(FALSE) >>

--------------------------------------------------------------------------------
(* Loops: whether a closure takes the variable, how the body is left *)

One == Lit(1)
Two == Lit(2)
Three == Lit(3)
Says(x) == Do(Emit(<< x >>))
Add(n, x) == Set(<< N(n) >>, << Bin(V(n), "+", x) >>)
At_(o, k) == Index(N(o), k)

LoopProgram(kind, captures, exit) ==
  LET counter == << Says(Const("true")), Add("x", One), Return(<< V("x") >>) >>
      body_ == (IF captures THEN << Set(<< At_("f", V("x")) >>, << Fn(<< >>, counter) >>) >> ELSE << >>)
              \o << Says(V("x")) >>
              \o CASE exit = 1 -> << >>
                   [] exit = 2 -> << IfThen(Bin(V("x"), "==", Two), << Break >>) >>
                   [] exit = 3 -> << IfThen(Bin(V("x"), "==", Two), << Local(<< "y" >>, << V("x") >>), Return(<< V("y"), V("x") >>) >>) >>
      counted == << Add("i", One), Local(<< "x" >>, << V("i") >>) >> \o body_
      generator == Func(<< "s", "c" >>, << IfThen(Bin(V("c"), "<", V("s")), << Return(<< Bin(V("c"), "+", One), V("s") >>) >>) >>)
      loop == CASE kind = 1 -> While(Bin(V("i"), "<", Three), counted)
                [] kind = 2 -> Repeat(counted, Bin(V("x"), "==", Three))
                [] kind = 3 -> For("x", One, Three, << >>, body_)
                [] kind = 4 -> For("x", Three, One, << Un("neg", One) >>, body_)
                [] kind = 5 -> ForIn(<< "x", "z" >>, << V("g"), Three, Lit(0) >>, body_)
                [] kind = 6 -> While(Const("true"), << Block(counted \o << IfThen(Bin(V("x"), ">=", Three), << Break >>) >>) >>)
  IN << LocalFunction("g", generator), Local(<< "f", "i" >>, << Table(<< >>), Lit(0) >>), loop >>
     \o (IF captures THEN << Says(E1(CallOf(At_("f", Two), << >>))),
                            Return(<< E1(CallOf(At_("f", Two), << >>)) >>) >>
         ELSE << Return(<< V("i") >>) >>)

--------------------------------------------------------------------------------
(* Programs, one for each thing the compiler takes care of *)

RECURSIVE Many(_, _)
Many(n, x) == IF n = 0 THEN << >> ELSE << x >> \o Many(n - 1, x)

Locals == << "p", "q", "r", "s", "t", "u", "v", "w", "x", "y" >>
Vararg(params, old, stats) == [Func(params, stats) EXCEPT !.vararg = TRUE, !.old = old]

Samples == <<
  \* assignments that use what they change
  << Local(<< "a", "i" >>, << Table(<< >>), One >>), Set(<< At_("a", V("i")), N("i") >>, << Lit(10), Two >>),
     Do(Emit(<< V("i"), E1(At_("a", One)), E1(At_("a", Two)) >>)),
     Local(<< "b" >>, << V("a") >>), Set(<< At_("a", V("i")), N("a"), N("i") >>, << Lit(7), Three >>),
     Do(Emit(<< V("a"), V("i"), E1(At_("b", Two)) >>)) >>,
  << Local(<< "x", "y" >>, << One, Two >>), Set(<< N("x"), N("y") >>, << V("y"), V("x") >>), Return(<< V("x"), V("y") >>) >>,
  \* more and fewer expressions than variables
  << Local(<< "a", "b", "c" >>, << E1(Emit(<< One, Two >>)) >>), Local(<< "d" >>, << E1(Emit(<< Three, One >>)), Two >>),
     Set(<< N("x"), N("y") >>, << One, E1(Emit(<< >>)) >>), Set(<< N("z") >>, << Three, E1(Emit(<< One >>)), Two >>),
     Set(<< N("b"), N("c") >>, << V("d") >>),
     Do(Emit(<< V("a"), V("b"), V("c"), V("d") >>)), Do(Emit(<< V("x"), V("y"), V("z") >>)) >>,
  \* `...' and arg
  << LocalFunction("f", Vararg(<< "x" >>, FALSE, << Local(<< "a", "b" >>, << Dots >>), Do(Emit(<< V("b"), Dots >>)),
                                   Return(<< V("x"), Dots >>) >>)),
     Do(Emit(<< E1(CallOf(N("f"), << One, Two, Three >>)), Paren(E1(CallOf(N("f"), << One, Two >>))) >>)),
     Local(<< "t" >>, << Table(<< Item(E1(CallOf(N("f"), << One >>))), Item(Dots) >>) >>),
     Return(<< Un("#", V("t")), Dots >>) >>,
  << Function(N("f"), Vararg(<< "x" >>, TRUE, << Do(Emit(<< V("x"), E1(Dot(N("arg"), "n")), E1(At_("arg", One)) >>)) >>)),
     Do(CallOf(N("f"), << One, Two, Three >>)), Return(<< E1(CallOf(N("f"), << >>)) >>) >>,
  \* tail calls
  << LocalFunction("f", Func(<< "n" >>, << Local(<< "m" >>, << V("n") >>), LocalFunction("up", Func(<< >>, << Add("m", One), Return(<< V("m") >>) >>)),
                                 IfThen(Bin(V("n"), "<", Two), << Return(<< E1(CallOf(N("f"), << E1(CallOf(N("up"), << >>)) >>)) >>) >>),
                                 Return(<< V("n"), V("m") >>) >>)),
     Do(Emit(<< E1(CallOf(N("f"), << Lit(0) >>)) >>)), Return(<< E1(Emit(<< One, Two >>)) >>) >>,
  << LocalFunction("v", Vararg(<< "x" >>, FALSE, << Return(<< Dots >>) >>)),
     Return(<< E1(CallOf(N("v"), << One, Two, Three >>)) >>) >>,
  \* methods
  << Local(<< "o" >>, << Table(<< Named("n", One) >>) >>),
     Function(Dot(N("o"), "add"), [Func(<< "k" >>, << Set(<< Dot(N("self"), "n") >>, << Bin(E1(Dot(N("self"), "n")), "+", V("k")) >>), Return(<< V("self") >>) >>) EXCEPT !.self = TRUE]),
     Do(Method(Method(N("o"), "add", << Two >>), "add", << Three >>)), Return(<< E1(Dot(N("o"), "n")) >>) >>,
  \* constructors
  << Local(<< "t" >>, << Table(<< Item(One), Item(Two), Named("x", Lit(9)), Item(Three), Item(E1(Emit(<< Lit(4) >>))), Rec(Word("y"), Bin(One, "==", Two)),
                                  Item(Lit(5)), Item(Bin(Const("nil"), "or", Lit(6))), Item(E1(Emit(<< Lit(7), Lit(8) >>))) >>) >>),
     Do(Emit(<< Un("#", V("t")), E1(At_("t", Lit(4))), E1(At_("t", Lit(6))), E1(At_("t", Lit(8))), E1(Dot(N("t"), "x")), E1(Dot(N("t"), "y")) >>)) >>,
  \* upvalues, shared and nested
  << Local(<< "a" >>, << One >>), LocalFunction("g", Func(<< >>, << Add("a", One), Return(<< Fn(<< >>, << Add("a", Lit(10)), Return(<< V("a") >>) >>) >>) >>)),
     Local(<< "h" >>, << E1(CallOf(N("g"), << >>)) >>), Says(V("a")), Says(E1(CallOf(N("h"), << >>))), Says(V("a")),
     Block(<< Local(<< "b" >>, << Lit(4) >>), Set(<< N("h") >>, << Fn(<< >>, << Add("b", One), Return(<< V("b") >>) >>) >>) >>),
     Local(<< "c" >>, << Lit(0) >>), Do(Emit(<< E1(CallOf(N("h"), << >>)), V("c") >>)), Return(<< E1(CallOf(N("h"), << >>)) >>) >>,
  \* more constants than operands can name
  << Local(<< "t" >>, << Table(<< >>) >>), Set(<< Dot(N("t"), "x") >>, << One >>), Set(<< Dot(N("t"), "y") >>, << Two >>),
     Set(<< Dot(N("t"), "z") >>, << Const("nil") >>), Set(<< Dot(N("t"), "w") >>, << Const("true") >>),
     Return(<< Bin(Bin(E1(Dot(N("t"), "x")), "+", Lit(4)), "*", E1(Dot(N("t"), "y"))), Bin(Lit(5), "<", E1(Dot(N("t"), "y"))), E1(Dot(N("t"), "w")) >>) >>,
  \* nil, and jumps to where it is loaded
  << Local(<< "a" >>, << Const("false") >>), Do(Emit(<< One >>)), IfThen(V("a"), << Set(<< N("a") >>, << Const("nil") >>) >>),
     Local(<< "b" >>, << >>), Local(<< "c", "d" >>, << >>), Do(Emit(<< V("a"), V("b"), V("c"), V("d") >>)) >>,
  << Local(<< "a", "b" >>, << >>), Local(<< "c" >>, << Const("nil") >>), Block(<< Local(<< "d" >>, << One >>) >>), Local(<< "e" >>, << >>), Return(<< V("e"), V("a"), V("c") >>) >>,
  \* operators that bind
  << Local(<< "a", "b" >>, << Two, Three >>),
     Return(<< Bin(Bin(Two, "^", Three), "^", Two), Bin(Un("neg", V("a")), "^", Two), Bin(V("a"), "-", Bin(V("b"), "-", One)),
               Bin(Bin(V("a"), "+", V("b")), "*", Two), Bin(One, "%", Lit(0)), Bin(Un("neg", Lit(5)), "%", Three),
               Bin(Bin(V("a"), "<", V("b")), "==", Un("not", Const("nil"))) >>) >>,
  << Local(<< "a" >>, << Word("p") >>), Return(<< Bin(Bin(V("a"), "..", One), "..", Bin(Word("q"), "..", V("a"))), Un("#", V("a")),
               Bin(V("a"), "~=", Word("p")), Bin(One, ">", Two), Bin(Two, "<=", Two), Bin(Un("not", Paren(Bin(One, "<", Two))), "or", V("a")) >>) >>,
  << [t |-> "if", clauses |-> << [c |-> Const("nil"), body |-> << Says(One) >>],
        [c |-> Bin(E1(Emit(<< Const("false") >>)), "and", One), body |-> << Says(Two) >>],
        [c |-> Un("not", V("nothing")), body |-> << Says(Three) >>] >>, orelse |-> << << Says(Lit(4)) >> >>],
     IfElse(Const("nil"), << Says(One) >>, << Says(Two) >>) >>,
  \* errors
  << Do(Emit(<< One >>)), Do(CallOf(N("nothing"), << E1(Emit(<< Two >>)) >>)) >>,
  << Local(<< "f" >>, << Fn(<< "x" >>, << Return(<< Bin(V("x"), "+", E1(Dot(N("x"), "y"))) >>) >>) >>), Says(Two), Says(E1(CallOf(N("f"), << One >>))) >>,
  << For("x", One, Const("nil"), << >>, << Says(V("x")) >>) >>,
  << Set(<< At_("emit", One) >>, << Two >>) >>,
  << Local(<< "t" >>, << Table(<< >>) >>), Set(<< At_("t", Bin(One, "%", Lit(0))) >>, << One >>) >>,
  << Return(<< Bin(Word("p"), "..", Bin(Const("nil"), "..", E1(Emit(<< Word("q") >>)))) >>) >>,
  << Says(Un("#", One)) >>, << Says(Bin(One, "<", Const("true"))) >>, << Do(Method(N("emit"), "x", << >>)) >>,
  \* what a function has too many of
  << Local(SubSeq(Locals, 1, 9), << One >>) >>,
  << Local(SubSeq(Locals, 1, 4), << One, Two >>), LocalFunction("f", Func(<< >>, << Do(Emit(<< V("p"), V("q"), V("r"), V("s") >>)) >>)) >>,
  << Do(Emit(Many(MAXSTACK, One))) >>, << Do(Emit(Many(8, One))) >>,
  << LocalFunction("f", Func(<< >>, << Return(<< Dots >>) >>)) >>,
  << Break >>
>>

MCPrograms == ({0} \X (DOMAIN Samples) \X {0}) \cup ((1 .. 6) \X {0, 1} \X (1 .. 3)) \cup ExpressionPrograms
MCSource(p) ==
  IF Len(p) > 3 THEN ExpressionProgram(p) ELSE IF p[1] = 0 THEN Samples[p[2]] ELSE LoopProgram(p[1], p[2] = 1, p[3])
MCCompiled(p) == LET stats == MCSource(p) IN luaY_parser(stats)
================================================================================
