--------------------------------- MODULE LuaDo ---------------------------------
(***************************************************************************)
(* Calls, protected calls, errors and coroutines of the Lua runtime        *)
(* (ldo.c; OP_CALL, OP_RETURN of lvm.c; the coroutines of lbaselib.c), on  *)
(* which L_notification.cpp relies when it calls the client's handlers.    *)
(* One C stack carries the records of every coroutine.                     *)
(***************************************************************************)
EXTENDS Integers, SequencesExt

CONSTANTS
  main, Coroutines,    \* the threads of Lua
  LUAI_MAXCCALLS,      \* nested C calls after which a call is an error
  ErrorCalls,          \* how many more a message handler may make (LUAI_MAXCCALLS >> 3)
  LUAI_MAXCALLS,       \* entries of the array of calls after which growing is an error
  BASIC_CI_SIZE,       \* the entries it starts with
  OpenUpvalues         \* a bound on the calls of a thread with shared variables

LuaDoAssumption ==
  /\ main \notin Coroutines
  /\ LUAI_MAXCCALLS \in Nat \ {0} /\ ErrorCalls \in Nat \ {0}
  /\ BASIC_CI_SIZE \in Nat \ {0, 1} /\ LUAI_MAXCALLS \in Nat
  /\ BASIC_CI_SIZE <= LUAI_MAXCALLS /\ OpenUpvalues \in Nat

VARIABLES
  cs,          \* the C stack: activations of the functions of the runtime
  ci,          \* of each thread the calls in progress, "Lua" or "C", above base_ci
  size_ci,     \* of each thread the entries of that array
  nCcalls,     \* of each thread its count of nested C calls
  baseCcalls,  \* what it was when the thread was resumed
  errorJmp,    \* of each thread the activation that catches its errors, 0 for none
  errfunc,     \* of each thread where its message handler lies: 0 for none, 1 for the
               \* program's own stack, n + 1 for the C function of the n-th call
  status,      \* lua_status of each thread, "none" when there is no such thread
  started,     \* whether its function has left the bottom of its stack
  openupval,   \* of each thread the calls with local variables that a closure shares
  raising      \* what the runtime is doing about an error: "none", "errormsg", "throw"

threads == << status, started >>
vars == << cs, ci, size_ci, nCcalls, baseCcalls, errorJmp, errfunc, threads, openupval, raising >>

Threads == {main} \cup Coroutines
Running == IF cs = << >> THEN main ELSE Last(cs).th
Top(fn) == cs # << >> /\ Last(cs).fn = fn /\ raising = "none"
Popped == Front(cs)

--------------------------------------------------------------------------------
(* Calls *)

Execute(t, n) == [fn |-> "execute", th |-> t, nexeccalls |-> n]
CFunction(t) == [fn |-> "C", th |-> t]

\* growCI: the array is past its limit since an overflow that is still handled.
HandlingOverflow(t) == size_ci[t] > LUAI_MAXCALLS

\* luaD_precall with inc_ci and growCI: the call of a function that is entered
\* with the C stack entered, or the error that there is no entry for it.
luaD_precall(t, kind, stack, entered) ==
  LET full == Len(ci[t]) + 1 = size_ci[t]
      over == full /\ HandlingOverflow(t)
      grown == IF full /\ ~over THEN 2 * size_ci[t] ELSE size_ci[t]
      error == full /\ (over \/ grown > LUAI_MAXCALLS)
  IN /\ size_ci' = [size_ci EXCEPT ![t] = grown]
     /\ ci' = IF error THEN ci ELSE [ci EXCEPT ![t] = Append(@, kind)]
     /\ cs' = IF error THEN stack ELSE entered
     /\ raising' = IF over THEN "throw" ELSE IF error THEN "errormsg" ELSE "none"

\* Mutant: a handler that fails is always called again.
Mutant_TooDeep(n) == n = LUAI_MAXCCALLS

\* The nested C call that is one too many, for the program or for a handler.
TooDeep(n) == n = LUAI_MAXCCALLS \/ n >= LUAI_MAXCCALLS + ErrorCalls

\* luaD_call: then says what follows when it returns.
luaD_call(t, kind, stack, then) ==
  LET n == nCcalls[t] + 1
      c == Append(stack, [fn |-> "call", th |-> t, then |-> then])
  IN /\ nCcalls' = [nCcalls EXCEPT ![t] = n]
     /\ IF TooDeep(n)
        THEN /\ cs' = c
             /\ raising' = IF n = LUAI_MAXCCALLS THEN "errormsg" ELSE "throw"
             /\ UNCHANGED << ci, size_ci >>
        ELSE luaD_precall(t, kind, c,
                          Append(c, IF kind = "Lua" THEN Execute(t, 1) ELSE CFunction(t)))

\* The call instruction enters a Lua function in the same luaV_execute.
OP_CALL(kind) ==
  /\ Top("execute")
  /\ LET t == Running  n == Last(cs).nexeccalls IN
       luaD_precall(t, kind, cs, IF kind = "Lua" THEN Append(Popped, Execute(t, n + 1))
                                 ELSE Append(cs, CFunction(t)))
  /\ UNCHANGED << nCcalls, baseCcalls, errorJmp, errfunc, threads, openupval >>

\* A C function calls a function, or an instruction a tag method.
lua_call(kind) ==
  /\ Top("C") \/ Top("execute")
  /\ luaD_call(Running, kind, cs, "return")
  /\ UNCHANGED << baseCcalls, errorJmp, errfunc, threads, openupval >>

\* luaD_poscall, which gives up the entry of a call.
luaD_poscall(t) == ci' = [ci EXCEPT ![t] = Front(@)]

\* What is still shared through the stack when all but the first n calls are closed.
luaF_close(t, n) == {d \in openupval[t] : d <= n}

OP_RETURN ==
  /\ Top("execute")
  /\ LET t == Running  n == Last(cs).nexeccalls IN
       /\ openupval' = [openupval EXCEPT ![t] = luaF_close(t, Len(ci[t]) - 1)]
       /\ luaD_poscall(t)
       /\ cs' = IF n = 1 THEN Popped ELSE Append(Popped, Execute(t, n - 1))
  /\ UNCHANGED << size_ci, nCcalls, baseCcalls, errorJmp, errfunc, threads, raising >>

CFunctionReturns ==
  /\ Top("C")
  /\ luaD_poscall(Running)
  /\ cs' = Popped
  /\ UNCHANGED << size_ci, nCcalls, baseCcalls, errorJmp, errfunc, threads, openupval, raising >>

\* The end of luaD_call; after a message handler luaG_errormsg throws.
CallReturns ==
  /\ Top("call")
  /\ cs' = Popped
  /\ nCcalls' = [nCcalls EXCEPT ![Running] = @ - 1]
  /\ raising' = IF Last(cs).then = "throw" THEN "throw" ELSE "none"
  /\ UNCHANGED << ci, size_ci, baseCcalls, errorJmp, errfunc, threads, openupval >>

\* A closure is made that shares a local variable of the function running.
OP_CLOSURE ==
  /\ Top("execute") /\ Cardinality(openupval[Running]) < OpenUpvalues
  /\ openupval' = [openupval EXCEPT ![Running] = @ \cup {Len(ci[Running])}]
  /\ UNCHANGED << cs, ci, size_ci, nCcalls, baseCcalls, errorJmp, errfunc, threads, raising >>

--------------------------------------------------------------------------------
(* Errors *)

\* Whoever runs raises an error: lua_error, luaG_runerror.
Error ==
  /\ Top("C") \/ Top("execute")
  /\ raising' = "errormsg"
  /\ UNCHANGED << cs, ci, size_ci, nCcalls, baseCcalls, errorJmp, errfunc, threads, openupval >>

\* luaG_errormsg calls the message handler, which runs on top of the error; what
\* was passed for one need not be a function (LUA_ERRERR).
luaG_errormsg ==
  /\ raising = "errormsg"
  /\ \/ raising' = "throw" /\ UNCHANGED << cs, ci, size_ci, nCcalls >>
     \/ /\ errfunc[Running] # 0
        /\ \E kind \in {"Lua", "C"} : luaD_call(Running, kind, cs, "throw")
  /\ UNCHANGED << baseCcalls, errorJmp, errfunc, threads, openupval >>

\* lua_pcall: luaD_pcall saves what an error would disturb, and calls.
lua_pcall(handler, kind) ==
  /\ Top("C") \/ cs = << >>
  /\ LET t == Running IN
       /\ errfunc' = [errfunc EXCEPT ![t] = IF handler THEN Len(ci[t]) + 1 ELSE 0]
       /\ errorJmp' = [errorJmp EXCEPT ![t] = Len(cs) + 1]
       /\ luaD_call(t, kind,
            Append(cs, [fn |-> "pcall", th |-> t, previous |-> errorJmp[t],
                        nCcalls |-> nCcalls[t], ci |-> Len(ci[t]), errfunc |-> errfunc[t]]),
            "return")
  /\ UNCHANGED << baseCcalls, threads, openupval >>

PcallReturns ==
  /\ Top("pcall")
  /\ cs' = Popped
  /\ errfunc' = [errfunc EXCEPT ![Running] = Last(cs).errfunc]
  /\ errorJmp' = [errorJmp EXCEPT ![Running] = Last(cs).previous]
  /\ UNCHANGED << ci, size_ci, nCcalls, baseCcalls, threads, openupval, raising >>

\* The entries of the array of calls when inuse of them are in use after an error.
restore_stack_limit(size, inuse) ==
  IF size > LUAI_MAXCALLS /\ inuse + 1 < LUAI_MAXCALLS THEN LUAI_MAXCALLS ELSE size

\* Mutant: the count of C calls is not restored.
Mutant_CaughtByPcall(t, r) ==
  /\ ci' = [ci EXCEPT ![t] = SubSeq(@, 1, r.ci)]
  /\ size_ci' = [size_ci EXCEPT ![t] = restore_stack_limit(@, r.ci)]
  /\ errfunc' = [errfunc EXCEPT ![t] = r.errfunc]
  /\ openupval' = [openupval EXCEPT ![t] = luaF_close(t, r.ci)]
  /\ UNCHANGED << nCcalls, status >>

\* What luaD_pcall does about an error.
CaughtByPcall(t, r) ==
  /\ openupval' = [openupval EXCEPT ![t] = luaF_close(t, r.ci)]
  /\ nCcalls' = [nCcalls EXCEPT ![t] = r.nCcalls]
  /\ ci' = [ci EXCEPT ![t] = SubSeq(@, 1, r.ci)]
  /\ size_ci' = [size_ci EXCEPT ![t] = restore_stack_limit(@, r.ci)]
  /\ errfunc' = [errfunc EXCEPT ![t] = r.errfunc]
  /\ UNCHANGED status

\* What lua_resume does about one: the coroutine is dead, its calls stay.
CaughtByResume(t) ==
  /\ status' = [status EXCEPT ![t] = "error"]
  /\ nCcalls' = [nCcalls EXCEPT ![t] = @ - 1]
  /\ UNCHANGED << ci, size_ci, errfunc, openupval >>

\* luaD_throw jumps to the activation that catches errors, and drops all above.
luaD_throw ==
  /\ raising = "throw"
  /\ LET t == Running  j == errorJmp[t]  r == cs[j] IN
       /\ cs' = SubSeq(cs, 1, j - 1)
       /\ errorJmp' = [errorJmp EXCEPT ![t] = r.previous]
       /\ IF r.fn = "pcall" THEN CaughtByPcall(t, r) ELSE CaughtByResume(t)
  /\ raising' = "none"
  /\ UNCHANGED << baseCcalls, started >>

--------------------------------------------------------------------------------
(* Coroutines *)

luaB_cocreate(co) ==
  /\ Top("C") /\ status[co] = "none"
  /\ status' = [status EXCEPT ![co] = "ok"]
  /\ started' = [started EXCEPT ![co] = FALSE]
  /\ UNCHANGED << cs, ci, size_ci, nCcalls, baseCcalls, errorJmp, errfunc, openupval, raising >>

\* costatus: what a coroutine that has no calls does depends on whether its
\* function is still on its stack.
costatus(co) ==
  IF Running = co THEN "running"
  ELSE CASE status[co] = "yield" -> "suspended"
         [] status[co] = "ok" -> IF ci[co] # << >> THEN "normal"
                                 ELSE IF started[co] THEN "dead" ELSE "suspended"
         [] OTHER -> "dead"

\* The count that a coroutine takes over from the thread that resumes it.
lua_setlevel(co) == nCcalls[Running]

\* auxresume and lua_resume.  When the C stack is too deep the coroutine keeps
\* its status, but what was on its stack is gone, the function not yet started too.
luaB_coresume(co) ==
  /\ Top("C") /\ status[co] # "none"
  /\ costatus(co) = "suspended"
  /\ started' = [started EXCEPT ![co] = TRUE]
  /\ LET n == lua_setlevel(co) + 1
         r == [fn |-> "resume", th |-> co, previous |-> errorJmp[co]]
     IN IF n > LUAI_MAXCCALLS
        THEN /\ nCcalls' = [nCcalls EXCEPT ![co] = n - 1]
             /\ UNCHANGED << cs, ci, size_ci, baseCcalls, errorJmp, status, raising >>
        ELSE /\ nCcalls' = [nCcalls EXCEPT ![co] = n]
             /\ baseCcalls' = [baseCcalls EXCEPT ![co] = n]
             /\ errorJmp' = [errorJmp EXCEPT ![co] = Len(cs) + 1]
             /\ IF status[co] = "ok"
                THEN /\ luaD_precall(co, "Lua", Append(cs, r), cs \o << r, Execute(co, 1) >>)
                     /\ UNCHANGED status
                ELSE /\ status' = [status EXCEPT ![co] = "ok"]
                     /\ luaD_poscall(co)
                     /\ cs' = cs \o << r, Execute(co, Len(ci[co]) - 1) >>
                     /\ UNCHANGED << size_ci, raising >>
  /\ UNCHANGED << errfunc, openupval >>

\* The function of a coroutine has returned.
ResumeReturns ==
  /\ Top("resume")
  /\ cs' = Popped
  /\ nCcalls' = [nCcalls EXCEPT ![Running] = @ - 1]
  /\ errorJmp' = [errorJmp EXCEPT ![Running] = Last(cs).previous]
  /\ UNCHANGED << ci, size_ci, baseCcalls, errfunc, threads, openupval, raising >>

\* Mutant: any coroutine may yield.
Mutant_CanYield(t) == t # main

CanYield(t) == nCcalls[t] <= baseCcalls[t]

\* lua_yield: its C function, luaV_execute and lua_resume return, one after the
\* other, and the call of the C function stays to be finished by the next resume.
lua_yield ==
  /\ Top("C")
  /\ IF CanYield(Running)
     THEN LET t == Running IN
          /\ status' = [status EXCEPT ![t] = "yield"]
          /\ cs' = SubSeq(cs, 1, Len(cs) - 3)
          /\ nCcalls' = [nCcalls EXCEPT ![t] = @ - 1]
          /\ errorJmp' = [errorJmp EXCEPT ![t] = cs[errorJmp[t]].previous]
          /\ UNCHANGED raising
     ELSE raising' = "errormsg" /\ UNCHANGED << status, cs, nCcalls, errorJmp >>
  /\ UNCHANGED << ci, size_ci, baseCcalls, errfunc, started, openupval >>

\* The collector frees a coroutine that does not run.
luaE_freethread(co) ==
  /\ raising = "none" /\ status[co] # "none"
  /\ \A i \in DOMAIN cs : cs[i].th # co
  /\ status' = [status EXCEPT ![co] = "none"]
  /\ started' = [started EXCEPT ![co] = FALSE]
  /\ ci' = [ci EXCEPT ![co] = << >>]
  /\ size_ci' = [size_ci EXCEPT ![co] = BASIC_CI_SIZE]
  /\ nCcalls' = [nCcalls EXCEPT ![co] = 0]
  /\ baseCcalls' = [baseCcalls EXCEPT ![co] = 0]
  /\ openupval' = [openupval EXCEPT ![co] = {}]
  /\ UNCHANGED << cs, errorJmp, errfunc, raising >>

--------------------------------------------------------------------------------

Init ==
  /\ cs = << >>
  /\ ci = [t \in Threads |-> << >>]
  /\ size_ci = [t \in Threads |-> BASIC_CI_SIZE]
  /\ nCcalls = [t \in Threads |-> 0] /\ baseCcalls = [t \in Threads |-> 0]
  /\ errorJmp = [t \in Threads |-> 0] /\ errfunc = [t \in Threads |-> 0]
  /\ status = [t \in Threads |-> IF t = main THEN "ok" ELSE "none"]
  /\ started = [t \in Threads |-> FALSE]
  /\ openupval = [t \in Threads |-> {}]
  /\ raising = "none"

Next ==
  \/ \E kind \in {"Lua", "C"} :
       \/ OP_CALL(kind) \/ lua_call(kind)
       \/ \E handler \in BOOLEAN : lua_pcall(handler, kind)
  \/ OP_RETURN \/ CFunctionReturns \/ CallReturns \/ PcallReturns \/ ResumeReturns
  \/ OP_CLOSURE \/ Error \/ luaG_errormsg \/ luaD_throw
  \/ lua_yield
  \/ \E co \in Coroutines : luaB_cocreate(co) \/ luaB_coresume(co) \/ luaE_freethread(co)

Spec == Init /\ [][Next]_vars

--------------------------------------------------------------------------------
(* Properties *)

Counted(stack) == Cardinality({i \in DOMAIN stack : stack[i].fn \in {"call", "resume"}})
OnStack(t) == \E i \in DOMAIN cs : cs[i].th = t
LastOf(S) == IF S = {} THEN 0 ELSE CHOOSE i \in S : \A j \in S : j <= i
Catching(t) == {i \in DOMAIN cs : cs[i].fn \in {"pcall", "resume"} /\ cs[i].th = t}

\* The count of nested C calls of a thread that is on the C stack is the number
\* of calls and resumptions below it, those of the other threads included, so
\* that the limit bounds the C stack however coroutines resume each other.
CountsTheCStack ==
  \A t \in Threads : OnStack(t) =>
    nCcalls[t] = Counted(SubSeq(cs, 1, LastOf({i \in DOMAIN cs : cs[i].th = t})))

\* No chain of calls, errors, handlers that fail and coroutines makes more
\* nested C calls than the limit and what handlers are given on top of it.
CStackBounded == Counted(cs) <= LUAI_MAXCCALLS + ErrorCalls

\* An error is caught by the innermost activation of its own thread, which is
\* still on the C stack, and jumps over no activation that catches another
\* thread's errors; there always is one (the runtime would exit otherwise).
CaughtWhereItShould ==
  /\ \A t \in Threads : errorJmp[t] = LastOf(Catching(t))
  /\ raising # "none" =>
       errorJmp[Running] = LastOf(UNION {Catching(t) : t \in Threads}) /\ errorJmp[Running] # 0

\* The calls a record of the C stack answers for.
Frames(r) == CASE r.fn = "execute" -> [i \in 1 .. r.nexeccalls |-> "Lua"]
               [] r.fn = "C" -> << "C" >>
               [] OTHER -> << >>

\* The calls of a thread that is on the C stack are those its activations there
\* answer for, in that order: a return, a caught error or a resumption never
\* makes luaV_execute go on in the frame of a C function.  A suspended one has
\* only Lua functions below the C function that yielded.
FramesMatch ==
  \A t \in Threads :
    /\ OnStack(t) => ci[t] = FlattenSeq([i \in DOMAIN cs |->
                                  IF cs[i].th = t THEN Frames(cs[i]) ELSE << >>])
    /\ status[t] = "yield" => /\ \A i \in DOMAIN Front(ci[t]) : ci[t][i] = "Lua"
                              /\ Len(ci[t]) > 1 /\ Last(ci[t]) = "C"

\* A variable is shared through the stack only while the call whose local it is
\* is in progress, and a message handler lies in the frame of a live C function or
\* in the program's own.
StackReferencesLive ==
  \A t \in Threads :
    /\ \A d \in openupval[t] : d <= Len(ci[t]) /\ ci[t][d] = "Lua"
    /\ errfunc[t] > 1 => errfunc[t] - 1 <= Len(ci[t]) /\ ci[t][errfunc[t] - 1] = "C"
    /\ errfunc[t] = 1 => t = main

\* The array of calls grows past its limit once, to handle the overflow: an
\* overflow in the handler does not make it grow again.
CallsBounded ==
  \A t \in Threads : Len(ci[t]) < size_ci[t] /\ size_ci[t] <= 2 * LUAI_MAXCALLS

\* However calls, errors, failing handlers and coroutines that resume each other
\* nest, the count of nested C calls of each thread is right, and it and the
\* array of calls stay within the limits and the room for handling an overflow
\* (luaD_call, growCI, lua_resume).
StacksBounded == CountsTheCStack /\ CStackBounded /\ CallsBounded

\* The C stack, the calls of each thread and what refers to them agree: errors
\* are caught by the thread that raised them, luaV_execute goes on in frames of
\* its own, and shared variables and handlers lie in calls that are in progress.
StacksAgree == CaughtWhereItShould /\ FramesMatch /\ StackReferencesLive

\* Whichever way a protected call ends, its caller finds its own calls, count,
\* handler and catcher as they were when it began.
PcallRestores ==
  [][\A i \in DOMAIN cs : cs[i].fn = "pcall" /\ Len(cs') < i =>
       LET r == cs[i] IN
         /\ Len(ci'[r.th]) = r.ci /\ nCcalls'[r.th] = r.nCcalls
         /\ errfunc'[r.th] = r.errfunc /\ errorJmp'[r.th] = r.previous]_vars

\* A coroutine that has ended, by an error or its last return, is not resumed.
Dead(co) == \/ status[co] = "error"
            \/ status[co] = "ok" /\ started[co] /\ ci[co] = << >> /\ ~OnStack(co)
DeadForGood == [][\A co \in Coroutines : Dead(co) => Dead(co)' \/ status'[co] = "none"]_vars

\* Whichever way a protected call ends, its caller finds its own calls, count,
\* handler and catcher as they were when it began (luaD_pcall); a coroutine that
\* has ended, by an error or its last return, is not resumed (auxresume).
CallsEndCleanly == PcallRestores /\ DeadForGood
================================================================================
