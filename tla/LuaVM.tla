-------------------------------- MODULE LuaVM ---------------------------------
(***************************************************************************)
(* The interpreter of the Lua runtime (luaV_execute, with luaD_precall and *)
(* luaD_poscall), which runs what the parser compiled: registers in one    *)
(* stack, frames that overlap by their arguments and results, upvalues     *)
(* that stay in the stack until it is cut back. The one function of the    *)
(* host, emit, notes its arguments and returns them.                       *)
(***************************************************************************)
EXTENDS LuaCode, TLC

CONSTANTS
  Programs,   \* names of the programs
  Compiled(_),  \* what the parser makes of each
  Args,       \* the arguments of the main function
  StackSize

VARIABLES
  program, stack, ci, top,
  upval,     \* [open, at, val]: in the stack at a place, or closed
  closure,   \* the functions: [p, upvals]
  table,     \* the tables: the first holds the globals
  trace,     \* what was emitted
  outcome    \* running, error, or the sequence of results

heap == << upval, closure, table >>
vars == << program, stack, ci, top, upval, closure, table, trace, outcome >>

Running == << "running" >>
Failed == << "error" >>
Returned(values) == << "returned", values >>

frame == Last(ci)
base == frame.base
proto == closure[frame.cl].p
instr == proto.code[frame.pc + 1]
R(i) == stack[base + i]
K(i) == proto.k[i + 1]
RKValue(x) == IF ISK(x) THEN K(x - BITRK) ELSE R(x)

At(ops) == outcome = Running /\ ~frame.tfor /\ instr.op \in ops
Goto(n) == ci' = [ci EXCEPT ![Len(ci)].pc = n]
Skip(n) == Goto(frame.pc + 1 + n)
Fail == outcome' = Failed /\ UNCHANGED << program, stack, ci, top, heap, trace >>

--------------------------------------------------------------------------------
(* Values *)

l_isfalse(v) == v \in {Nil, Bool(FALSE)}

Fields(id) == table[id]
luaV_gettable(v, k) == IF v[1] # "table" THEN Failed
                       ELSE IF k \in DOMAIN Fields(v[2]) THEN Fields(v[2])[k] ELSE Nil
CanSet(v, k) == v[1] = "table" /\ k \notin {Nil, NaN}
Put(t, k, v) == [t EXCEPT ![k[1]] = (k[2] :> v) @@ @]

Arith(op, v, w) == IF isNumber(v) /\ isNumber(w) THEN Arithmetic(op, v, w) ELSE Failed

\* luaV_lessthan and lessequal, of numbers.
Less(op, v, w) ==
  IF ~(isNumber(v) /\ isNumber(w)) THEN Failed
  ELSE Bool(NaN \notin {v, w} /\ (IF op = "LT" THEN v[2] < w[2] ELSE v[2] <= w[2]))
equalobj(v, w) == v = w /\ v # NaN

luaH_getn(t) == CHOOSE n \in 0 .. Cardinality(DOMAIN t) :
                  /\ \A i \in 1 .. n : Num(i) \in DOMAIN t /\ t[Num(i)] # Nil
                  /\ Num(n + 1) \notin DOMAIN t \/ t[Num(n + 1)] = Nil
Length(v) == CASE v[1] = "table" -> Num(luaH_getn(Fields(v[2])))
               [] v[1] = "str" -> Num(Len(v[2])) [] OTHER -> Failed

\* luaV_concat, and tostring for its numbers.
Pieces(v) == IF v[1] = "num" THEN << ToString(v[2]) >> ELSE v[2]
Concatenated(values) ==
  IF \A v \in ToSet(values) : v[1] \in {"num", "str"}
  THEN Str(Fold(LAMBDA s, v : s \o Pieces(v), << >>, values)) ELSE Failed

UpValue(u) == IF upval[u].open THEN stack[upval[u].at] ELSE upval[u].val
Upvals == closure[frame.cl].upvals

Operator == [ADD |-> "+", SUB |-> "-", MUL |-> "*", MOD |-> "%", POW |-> "^"]

\* The value that an instruction loads into its register.
Loaded(i) ==
  CASE i.op = "MOVE" -> R(i.b)
    [] i.op = "LOADK" -> K(i.b)
    [] i.op = "GETUPVAL" -> UpValue(Upvals[i.b + 1])
    [] i.op = "GETGLOBAL" -> luaV_gettable(<< "table", 1 >>, K(i.b))
    [] i.op = "GETTABLE" -> luaV_gettable(R(i.b), RKValue(i.c))
    [] i.op \in DOMAIN Operator -> Arith(Operator[i.op], RKValue(i.b), RKValue(i.c))
    [] i.op = "UNM" -> Arith("-", Num(0), R(i.b))
    [] i.op = "NOT" -> Bool(l_isfalse(R(i.b)))
    [] i.op = "LEN" -> Length(R(i.b))
Loads == {"MOVE", "LOADK", "GETUPVAL", "GETGLOBAL", "GETTABLE", "UNM", "NOT", "LEN"}
         \cup DOMAIN Operator

--------------------------------------------------------------------------------
(* Loading and storing *)

Load ==
  /\ At(Loads)
  /\ LET v == Loaded(instr) IN
       IF v = Failed THEN Fail
       ELSE /\ stack' = [stack EXCEPT ![base + instr.a] = v]
            /\ Skip(0)
            /\ UNCHANGED << program, top, heap, trace, outcome >>

OP_LOADBOOL ==
  /\ At({"LOADBOOL"})
  /\ stack' = [stack EXCEPT ![base + instr.a] = Bool(instr.b = 1)]
  /\ Skip(instr.c)
  /\ UNCHANGED << program, top, heap, trace, outcome >>

OP_LOADNIL ==
  /\ At({"LOADNIL"})
  /\ stack' = [i \in DOMAIN stack |-> IF i \in base + instr.a .. base + instr.b THEN Nil ELSE stack[i]]
  /\ Skip(0)
  /\ UNCHANGED << program, top, heap, trace, outcome >>

OP_CONCAT ==
  /\ At({"CONCAT"})
  /\ LET v == Concatenated([i \in 1 .. instr.c - instr.b + 1 |-> R(instr.b + i - 1)]) IN
       IF v = Failed THEN Fail
       ELSE /\ stack' = [stack EXCEPT ![base + instr.b] = v, ![base + instr.a] = v]
            /\ Skip(0)
            /\ UNCHANGED << program, top, heap, trace, outcome >>

\* A store into table v: SETGLOBAL and SETTABLE.
StoreInto(v, k, x) ==
  IF ~CanSet(v, k) THEN Fail
  ELSE /\ table' = Put(table, << v[2], k >>, x)
       /\ Skip(0)
       /\ UNCHANGED << program, stack, top, upval, closure, trace, outcome >>
OP_SETGLOBAL == At({"SETGLOBAL"}) /\ StoreInto(<< "table", 1 >>, K(instr.b), R(instr.a))
OP_SETTABLE == At({"SETTABLE"}) /\ StoreInto(R(instr.a), RKValue(instr.b), RKValue(instr.c))

OP_SETUPVAL ==
  /\ At({"SETUPVAL"})
  /\ LET u == Upvals[instr.b + 1] IN
       IF upval[u].open
       THEN stack' = [stack EXCEPT ![upval[u].at] = R(instr.a)] /\ UNCHANGED upval
       ELSE upval' = [upval EXCEPT ![u].val = R(instr.a)] /\ UNCHANGED stack
  /\ Skip(0)
  /\ UNCHANGED << program, top, closure, table, trace, outcome >>

OP_NEWTABLE ==
  /\ At({"NEWTABLE"})
  /\ table' = Append(table, << >>)
  /\ stack' = [stack EXCEPT ![base + instr.a] = << "table", Len(table) + 1 >>]
  /\ Skip(0)
  /\ UNCHANGED << program, top, upval, closure, trace, outcome >>

OP_SELF ==
  /\ At({"SELF"})
  /\ LET v == luaV_gettable(R(instr.b), RKValue(instr.c)) IN
       IF v = Failed THEN Fail
       ELSE /\ stack' = [stack EXCEPT ![base + instr.a + 1] = R(instr.b), ![base + instr.a] = v]
            /\ Skip(0)
            /\ UNCHANGED << program, top, heap, trace, outcome >>

\* The values after R(A), as many as B says or as the top; the batch C may be in
\* the next instruction.
OP_SETLIST ==
  /\ At({"SETLIST"})
  /\ LET n == IF instr.b = 0 THEN top - (base + instr.a) - 1 ELSE instr.b
         c == IF instr.c = 0 THEN proto.code[frame.pc + 2].a ELSE instr.c
         first == (c - 1) * LFIELDS_PER_FLUSH
     IN /\ table' = Fold(LAMBDA t, i : Put(t, << R(instr.a)[2], Num(first + i) >>, R(instr.a + i)),
                             table, [i \in 1 .. n |-> i])
        /\ Skip(IF instr.c = 0 THEN 1 ELSE 0)
  /\ top' = IF instr.b = 0 THEN frame.top ELSE top
  /\ UNCHANGED << program, stack, upval, closure, trace, outcome >>

--------------------------------------------------------------------------------
(* Jumps *)

OP_JMP ==
  /\ At({"JMP"})
  /\ Skip(instr.b)
  /\ UNCHANGED << program, stack, top, heap, trace, outcome >>

\* A test jumps when its next instruction does, and otherwise passes it over.
Test(jumps) ==
  /\ Skip(IF jumps THEN 1 + proto.code[frame.pc + 2].b ELSE 1)
  /\ UNCHANGED << program, top, heap, trace, outcome >>

Compare ==
  /\ At({"EQ", "LT", "LE"})
  /\ LET v == RKValue(instr.b)  w == RKValue(instr.c)
         r == IF instr.op = "EQ" THEN Bool(equalobj(v, w)) ELSE Less(instr.op, v, w)
     IN IF r = Failed THEN Fail
        ELSE Test(r = Bool(instr.a = 1)) /\ UNCHANGED stack

OP_TEST ==
  /\ At({"TEST"})
  /\ Test(l_isfalse(R(instr.a)) # (instr.c = 1))
  /\ UNCHANGED stack

OP_TESTSET ==
  /\ At({"TESTSET"})
  /\ LET jumps == l_isfalse(R(instr.b)) # (instr.c = 1) IN
       /\ Test(jumps)
       /\ stack' = IF jumps THEN [stack EXCEPT ![base + instr.a] = R(instr.b)] ELSE stack

OP_FORPREP ==
  /\ At({"FORPREP"})
  /\ IF \E i \in 0 .. 2 : ~isNumber(R(instr.a + i)) THEN Fail
     ELSE /\ stack' = [stack EXCEPT ![base + instr.a] = Arithmetic("-", @, R(instr.a + 2))]
          /\ Skip(instr.b)
          /\ UNCHANGED << program, top, heap, trace, outcome >>

OP_FORLOOP ==
  /\ At({"FORLOOP"})
  /\ LET step == R(instr.a + 2)
         limit == R(instr.a + 1)
         idx == Arithmetic("+", R(instr.a), step)
         in == IF Less("LT", Num(0), step) = Bool(TRUE) THEN Less("LE", idx, limit)
               ELSE Less("LE", limit, idx)
     IN IF in = Bool(TRUE)
        THEN /\ stack' = [stack EXCEPT ![base + instr.a] = idx, ![base + instr.a + 3] = idx]
             /\ Skip(instr.b)
        ELSE Skip(0) /\ UNCHANGED stack
  /\ UNCHANGED << program, top, heap, trace, outcome >>

--------------------------------------------------------------------------------
(* Functions *)

Push(c) == [ci EXCEPT ![Len(ci)].pc = @ + 1] \o c

\* The arguments of a call are what lies above the function.
Argument(stk, f, t, i) == IF f + i < t THEN stk[f + i] ELSE Nil

\* adjust_varargs: the fixed parameters move above the arguments.
Base(p, f, t) == IF p.isvararg THEN f + 1 + (IF t - f - 1 > p.numparams THEN t - f - 1 ELSE p.numparams)
                 ELSE f + 1

\* luaD_precall: the stack that a Lua function begins with.
Entered(stk, f, t, p, arg) ==
  LET b == Base(p, f, t) IN
    [i \in DOMAIN stk |->
       IF i \in b .. b + p.numparams - 1 THEN Argument(stk, f, t, i - b + 1)
       ELSE IF p.needsarg /\ i = b + p.numparams THEN arg
       ELSE IF i \in b .. b + p.maxstacksize - 1 \/ (p.isvararg /\ i \in f + 1 .. f + p.numparams)
       THEN Nil ELSE stk[i]]

NewFrame(f, t, cl, nresults) ==
  LET p == closure[cl].p  b == Base(p, f, t) IN
    [func |-> f, base |-> b, top |-> b + p.maxstacksize, cl |-> cl, pc |-> 0,
     nresults |-> nresults, tfor |-> FALSE]

\* The table that a function with `...' and no use for it is given its arguments in.
ArgTable(f, t, p) ==
  LET n == Base(p, f, t) - (f + 1) - p.numparams IN
    (Str(<< "n" >>) :> Num(n))
    @@ [k \in {Num(i) : i \in 1 .. n} |-> stack[f + p.numparams + k[2]]]

\* luaD_poscall: the results begin at first and end at t.
Left(stk, f, first, t, wanted) ==
  LET n == IF wanted = LUA_MULTRET THEN t - first ELSE wanted IN
    [stack |-> [i \in DOMAIN stk |-> IF i \in f .. f + n - 1
                                     THEN (IF first + i - f < t THEN stk[first + i - f] ELSE Nil)
                                     ELSE stk[i]],
     top |-> f + n]

\* The call of the value at f: with frames cs below it when it is a Lua function;
\* emit is done at once and leaves frames ds.
Call(stk, f, t, nresults, cs, ds) ==
  LET v == stk[f] IN
    CASE v[1] = "function" ->
           LET p == closure[v[2]].p  n == NewFrame(f, t, v[2], nresults) IN
             /\ stack' = Entered(stk, f, t, p, << "table", Len(table) + 1 >>)
             /\ table' = IF p.needsarg THEN Append(table, ArgTable(f, t, p)) ELSE table
             /\ ci' = Append(cs, n)
             /\ top' = n.top
             /\ UNCHANGED << trace, outcome >>
      [] v[1] = "emit" ->
           LET r == Left(stk, f, f + 1, t, nresults) IN
             /\ trace' = Append(trace, SubSeq([i \in 1 .. t |-> stk[i]], f + 1, t - 1))
             /\ stack' = r.stack
             /\ top' = IF nresults >= 0 THEN frame.top ELSE r.top
             /\ ci' = ds
             /\ UNCHANGED << table, outcome >>
      [] OTHER -> outcome' = Failed /\ UNCHANGED << stack, ci, top, table, trace >>

ArgTop == IF instr.b # 0 THEN base + instr.a + instr.b ELSE top

OP_CALL ==
  /\ At({"CALL"})
  /\ Call(stack, base + instr.a, ArgTop, instr.c - 1, Push(<< >>), Push(<< >>))
  /\ UNCHANGED << program, upval, closure >>

\* luaF_close
Closed(level) ==
  [u \in DOMAIN upval |-> IF upval[u].open /\ upval[u].at >= level
                          THEN [upval[u] EXCEPT !.open = FALSE, !.val = stack[upval[u].at]]
                          ELSE upval[u]]

\* The new frame takes the place of the one that calls.
OP_TAILCALL ==
  /\ At({"TAILCALL"})
  /\ LET f == base + instr.a  v == stack[f]  t == ArgTop IN
       IF v[1] # "function"
       THEN Call(stack, f, t, LUA_MULTRET, Push(<< >>), Push(<< >>)) /\ UNCHANGED upval
       ELSE LET p == closure[v[2]].p
                n == NewFrame(f, t, v[2], frame.nresults)
                down == f - frame.func
                full == Entered(stack, f, t, p, << "table", Len(table) + 1 >>)
            IN /\ upval' = Closed(base)
               /\ stack' = [i \in DOMAIN stack |->
                              IF i \in frame.func .. n.top - 1 - down THEN full[i + down] ELSE full[i]]
               /\ table' = IF p.needsarg THEN Append(table, ArgTable(f, t, p)) ELSE table
               /\ ci' = Append(Front(ci), [n EXCEPT !.func = @ - down, !.base = @ - down, !.top = @ - down])
               /\ top' = n.top - down
               /\ UNCHANGED << trace, outcome >>
  /\ UNCHANGED << program, closure >>

OP_RETURN ==
  /\ At({"RETURN"})
  /\ LET first == base + instr.a
         t == IF instr.b # 0 THEN first + instr.b - 1 ELSE top
         r == Left(stack, frame.func, first, t, frame.nresults)
     IN /\ stack' = r.stack
        /\ ci' = Front(ci)
        /\ top' = IF Len(ci) > 1 /\ frame.nresults # LUA_MULTRET THEN ci[Len(ci) - 1].top ELSE r.top
        /\ outcome' = IF Len(ci) > 1 THEN outcome
                      ELSE Returned(SubSeq([i \in 1 .. t |-> stack[i]], first, t - 1))
  /\ upval' = Closed(base)
  /\ UNCHANGED << program, closure, table, trace >>

\* A generic loop calls its generator above its variables, ...
OP_TFORLOOP ==
  /\ At({"TFORLOOP"})
  /\ LET ra == base + instr.a
         waits == [ci EXCEPT ![Len(ci)].tfor = TRUE]
     IN Call([stack EXCEPT ![ra + 3] = stack[ra], ![ra + 4] = stack[ra + 1], ![ra + 5] = stack[ra + 2]],
             ra + 3, ra + 6, instr.c, waits, waits)
  /\ UNCHANGED << program, upval, closure >>

\* ... and goes on when the first result is not nil.
GeneratorReturned ==
  /\ outcome = Running /\ frame.tfor
  /\ LET more == R(instr.a + 3) # Nil IN
       /\ stack' = IF more THEN [stack EXCEPT ![base + instr.a + 2] = R(instr.a + 3)] ELSE stack
       /\ ci' = [ci EXCEPT ![Len(ci)].tfor = FALSE,
                           ![Len(ci)].pc = @ + 2 + (IF more THEN proto.code[@ + 2].b ELSE 0)]
  /\ top' = frame.top
  /\ UNCHANGED << program, heap, trace, outcome >>

OP_CLOSE ==
  /\ At({"CLOSE"})
  /\ upval' = Closed(base + instr.a)
  /\ Skip(0)
  /\ UNCHANGED << program, stack, top, closure, table, trace, outcome >>

\* luaF_findupval, for the instructions after CLOSURE that name the upvalues.
OP_CLOSURE ==
  /\ At({"CLOSURE"})
  /\ LET p == proto.p[instr.b + 1]
         named(j) == proto.code[frame.pc + 1 + j]
         open(us, at) == {u \in DOMAIN us : us[u].open /\ us[u].at = at}
         one(a, j) ==
           LET at == base + named(j).b IN
             IF named(j).op = "GETUPVAL" THEN [a EXCEPT !.refs = Append(@, Upvals[named(j).b + 1])]
             ELSE IF open(a.upval, at) # {}
                  THEN [a EXCEPT !.refs = Append(@, CHOOSE u \in open(a.upval, at) : TRUE)]
             ELSE [upval |-> Append(a.upval, [open |-> TRUE, at |-> at, val |-> Nil]),
                   refs |-> Append(a.refs, Len(a.upval) + 1)]
         a == Fold(one, [upval |-> upval, refs |-> << >>], [j \in 1 .. p.nups |-> j])
     IN /\ upval' = a.upval
        /\ closure' = Append(closure, [p |-> p, upvals |-> a.refs])
        /\ Skip(p.nups)
  /\ stack' = [stack EXCEPT ![base + instr.a] = << "function", Len(closure) + 1 >>]
  /\ UNCHANGED << program, top, table, trace, outcome >>

OP_VARARG ==
  /\ At({"VARARG"})
  /\ LET n == base - frame.func - proto.numparams - 1
         b == IF instr.b = 0 THEN n ELSE instr.b - 1
         ra == base + instr.a
     IN /\ stack' = [i \in DOMAIN stack |->
                       IF i \in ra .. ra + b - 1
                       THEN (IF i - ra < n THEN stack[base - n + i - ra] ELSE Nil) ELSE stack[i]]
        /\ top' = IF instr.b = 0 THEN ra + n ELSE top
  /\ Skip(0)
  /\ UNCHANGED << program, heap, trace, outcome >>

--------------------------------------------------------------------------------

\* lua_load and lua_call: a program that does not compile fails at once.
Init ==
  /\ program \in Programs
  /\ LET main == Compiled(program)
         t == 1 + Len(Args)
         b == Base(main, 0, t)
         pushed == [i \in 0 .. StackSize |-> IF i \in 1 .. Len(Args) THEN Args[i] ELSE Nil]
     IN /\ closure = << [p |-> main, upvals |-> << >>] >>
        /\ stack = [pushed EXCEPT ![0] = << "function", 1 >>]
        /\ ci = << [func |-> 0, base |-> b, top |-> b + main.maxstacksize, cl |-> 1, pc |-> 0,
                    nresults |-> LUA_MULTRET, tfor |-> FALSE] >>
        /\ top = b + main.maxstacksize
        /\ outcome = IF main.error THEN Failed ELSE Running
  /\ upval = << >>
  /\ table = << Str(<< "emit" >>) :> << "emit" >> >>
  /\ trace = << >>

Next ==
  \/ Load \/ OP_LOADBOOL \/ OP_LOADNIL \/ OP_CONCAT \/ OP_SETGLOBAL \/ OP_SETTABLE \/ OP_SETUPVAL
  \/ OP_NEWTABLE \/ OP_SELF \/ OP_SETLIST \/ OP_JMP \/ Compare \/ OP_TEST \/ OP_TESTSET
  \/ OP_FORPREP \/ OP_FORLOOP \/ OP_CALL \/ OP_TAILCALL \/ OP_RETURN \/ OP_TFORLOOP
  \/ GeneratorReturned \/ OP_CLOSE \/ OP_CLOSURE \/ OP_VARARG

Spec == Init /\ [][Next]_vars
================================================================================
