------------------------------- MODULE LuaBridge -------------------------------
(***************************************************************************)
(* The places where C++ enters Lua and where Lua calls back into C++: each *)
(* is a little program for Lua's stack machine (lapi.c, lauxlib.c), which  *)
(* must leave the stack as it found it whatever the Lua code does.         *)
(*                                                                         *)
(* The stack of a C function is a sequence; a string that matters is the   *)
(* sequence of its bytes, numbered from 1.  The asserts are compiled in.   *)
(***************************************************************************)
EXTENDS Integers, SequencesExt

CONSTANTS
  MinStack,     \* LUA_MINSTACK: the slots a C function may use
  BufferSize,   \* LUAL_BUFFERSIZE
  Sizes,        \* the sizes of payloads and of files
  ArgLists,     \* the kinds of the arguments Lua passes to a function of mm
  MaxEntries    \* bound: entries into Lua

\* L_onDecodeBuffer keeps five values below the strings of its buffer (LUA_MINSTACK
\* is 20), and no file of the client passes more than four arguments.
LuaBridgeAssumption ==
  /\ MinStack \in Nat /\ MinStack >= 10 /\ BufferSize \in Nat \ {0}
  /\ Sizes \subseteq Nat /\ MaxEntries \in Nat
  /\ ArgLists \subseteq Seq(STRING) /\ \A a \in ArgLists : Len(a) <= 4

VARIABLES
  frames,    \* the stacks of the C functions that are running, the program's first
  buf,       \* a luaL_Buffer: what is in its array and how many strings it has on the stack
  data,      \* the buffer that is being copied into a Lua string
  index,     \* how much of it was copied
  pc,        \* what the innermost C function does next
  entry,     \* the last entry into Lua
  errfunc,   \* where lua_pcall was told to find the error handler
  status,    \* what lua_pcall returned
  defined,   \* app/init.lua has defined the global functions
  aborted,   \* an assert failed
  entries

vars == << frames, buf, data, index, pc, entry, errfunc, status, defined, aborted, entries >>

--------------------------------------------------------------------------------
(* lapi.c on the stack of the innermost C function *)

Value(k) == [kind |-> k, bytes |-> << >>]
String(b) == [kind |-> "string", bytes |-> b]

index2adr(st, idx) == IF idx > 0 THEN idx ELSE Len(st) + idx + 1

lua_settop(st, idx) ==
  IF idx >= 0 THEN [i \in 1 .. idx |-> IF i <= Len(st) THEN st[i] ELSE Value("nil")]
              ELSE SubSeq(st, 1, Len(st) + idx + 1)
lua_pop(st, n) == lua_settop(st, -n - 1)

lua_concat(st, n) ==
  IF n = 0 THEN Append(st, String(<< >>))
  ELSE LET last == SubSeq(st, Len(st) - n + 1, Len(st)) IN
         IF n = 1 THEN st
         ELSE Append(lua_pop(st, n), String(FlattenSeq([i \in 1 .. n |-> last[i].bytes])))

lua_strlen(st, idx) == Len(st[index2adr(st, idx)].bytes)

--------------------------------------------------------------------------------
(* luaL_Buffer: strings on the stack, the longer ones below *)

luaL_buffinit == [p |-> << >>, lvl |-> 0]
LIMIT == MinStack \div 2

\* The buffer's array becomes a string on the stack, when there is anything in it.
emptybuffer(st, b) ==
  IF b.p = << >> THEN [st |-> st, buf |-> b]
  ELSE [st |-> Append(st, String(b.p)), buf |-> [p |-> << >>, lvl |-> b.lvl + 1]]

\* Mutant: strings of equal length are all kept.
Mutant_toget(st, lvl) ==
  LET grown[n \in 1 .. lvl] ==
        IF n = lvl THEN n
        ELSE LET toplen == Len(lua_concat(st, n)[Len(st) - n + 1].bytes) IN
               IF toplen > lua_strlen(st, -(n + 1)) THEN grown[n + 1] ELSE n
  IN grown[1]

\* How many strings adjuststack joins: as long as the joined one is longer than
\* the one below, or too many would be left.
toget(st, lvl) ==
  LET grown[n \in 1 .. lvl] ==
        IF n = lvl THEN n
        ELSE LET toplen == Len(lua_concat(st, n)[Len(st) - n + 1].bytes) IN
               IF lvl - n + 1 >= LIMIT \/ toplen > lua_strlen(st, -(n + 1))
               THEN grown[n + 1] ELSE n
  IN grown[1]

adjuststack(st, b) ==
  IF b.lvl <= 1 THEN [st |-> st, buf |-> b]
  ELSE LET n == toget(st, b.lvl) IN
         [st |-> lua_concat(st, n), buf |-> [b EXCEPT !.lvl = @ - n + 1]]

luaL_prepbuffer(st, b) ==
  IF b.p = << >> THEN [st |-> st, buf |-> b]
  ELSE LET e == emptybuffer(st, b) IN adjuststack(e.st, e.buf)

luaL_pushresult(st, b) ==
  LET e == emptybuffer(st, b) IN [st |-> lua_concat(e.st, e.buf.lvl), buf |-> [p |-> << >>, lvl |-> 1]]

--------------------------------------------------------------------------------
(* Entering Lua *)

\* The program's own stack holds the table of luaopen_protobuf_c, which is called
\* as a plain function and leaves its result, and that of luaopen_mm.
Bottom == << Value("table"), Value("table") >>

\* An entry pushes the traceback function and the function to call, which it
\* asserts to be one, and the arguments.
Push(e, args) ==
  /\ pc = "idle" /\ ~aborted /\ entries < MaxEntries
  /\ entries' = entries + 1
  /\ entry' = e
  /\ IF defined \/ e = "loadInit"
     THEN /\ frames' = << frames[1] \o << Value("traceback"), Value("function") >> \o args >>
          /\ UNCHANGED aborted
     ELSE /\ frames' = << frames[1] \o << Value("traceback"), Value("nil") >> >>
          /\ aborted' = TRUE
  /\ UNCHANGED << errfunc, status, defined >>

frameUpdate ==
  /\ Push("frameUpdate", << Value("number") >>)
  /\ pc' = "ready"
  /\ UNCHANGED << buf, data, index >>

L_onServerConnectionEstablished ==
  /\ Push("serverConnectOn", << Value("string") >>)
  /\ pc' = "ready"
  /\ UNCHANGED << buf, data, index >>

L_onDecodeBuffer(n) ==
  /\ Push("redirectNetBuffer", << Value("number") >>)
  /\ data' = [i \in 1 .. n |-> i] /\ index' = 0 /\ buf' = luaL_buffinit
  /\ pc' = "copying"

\* prepare_ loads app/init.lua once.  When luaL_loadfile cannot, its message is
\* popped with the traceback function.
loadInit ==
  /\ entries = 0
  /\ \/ Push("loadInit", << >>) /\ pc' = "ready"
     \/ /\ entries' = 1 /\ entry' = "loadInit"
        /\ frames' = << lua_pop(frames[1] \o << Value("traceback"), Value("string") >>, 2) >>
        /\ UNCHANGED << pc, errfunc, status, defined, aborted >>
  /\ UNCHANGED << buf, data, index >>

\* What one turn of the loop copies into the buffer's array.
copy(n) == SubSeq(data, index + 1, index + n)

\* The loop of L_onDecodeBuffer and of loadBinaryFileForLua: at most BufferSize
\* bytes at a time until none is left; it runs once for no bytes at all.
CopyChunk ==
  /\ pc = "copying" /\ ~aborted
  /\ LET p == luaL_prepbuffer(Last(frames), buf)
         left == Len(data) - index
         rlen == IF BufferSize > left THEN left ELSE BufferSize
         b == [p.buf EXCEPT !.p = copy(rlen)]
         done == luaL_pushresult(p.st, b)
     IN /\ index' = index + rlen
        /\ IF left - rlen > 0
           THEN frames' = Append(Front(frames), p.st) /\ buf' = b /\ UNCHANGED pc
           ELSE /\ frames' = Append(Front(frames), done.st) /\ buf' = done.buf
                /\ pc' = IF Len(frames) = 1 THEN "ready" ELSE "return1"
  /\ UNCHANGED << data, entry, errfunc, status, defined, aborted, entries >>

\* Where each entry tells lua_pcall to find the error handler, and how many
\* arguments it passes.
handlerIndex(e) == CASE e = "redirectNetBuffer" -> -4 [] e = "loadInit" -> -2 [] OTHER -> -3
nargs(e) == CASE e = "redirectNetBuffer" -> 2 [] e = "loadInit" -> 0 [] OTHER -> 1

lua_pcall ==
  /\ pc = "ready" /\ ~aborted
  /\ errfunc' = index2adr(frames[1], handlerIndex(entry))
  /\ pc' = "calling"
  /\ UNCHANGED << frames, buf, data, index, entry, status, defined, aborted, entries >>

--------------------------------------------------------------------------------
(* While Lua runs *)

\* luaD_poscall takes the function and its arguments off; there are no results.
LuaReturns ==
  /\ pc = "calling" /\ Len(frames) = 1
  /\ frames' = << lua_pop(frames[1], nargs(entry) + 1) >>
  /\ status' = "ok"
  /\ pc' = "returned"
  /\ defined' = (defined \/ entry = "loadInit")
  /\ UNCHANGED << buf, data, index, entry, errfunc, aborted, entries >>

\* luaD_pcall after a longjmp: the message that the handler made of it takes the
\* place of the function that was called (luaD_seterrorobj).
Unwound(st) ==
  Append(lua_pop(st, nargs(entry) + 1), [Value("message") EXCEPT !.bytes = << st[errfunc].kind >>])

\* An error from Lua code or from a C function that it called; what the chunk of
\* app/init.lua has defined by then is defined.
Throw ==
  /\ pc \in {"calling", "args"}
  /\ frames' = << Unwound(frames[1]) >>
  /\ status' = "LUA_ERRRUN"
  /\ pc' = "returned"
  /\ IF entry = "loadInit" THEN defined' \in BOOLEAN ELSE UNCHANGED defined
  /\ UNCHANGED << buf, data, index, entry, errfunc, aborted, entries >>

\* luaD_precall gives a function of mm a stack of its own, its arguments.
CallC(args) ==
  /\ pc = "calling"
  /\ frames' = Append(frames, [i \in DOMAIN args |-> Value(args[i])])
  /\ pc' = "args"
  /\ UNCHANGED << buf, data, index, entry, errfunc, status, defined, aborted, entries >>

\* A number converts to a string, and a string that spells one, a numeral, to a number.
IsString(k) == k \in {"string", "number", "numeral"}
IsNumber(k) == k \in {"number", "numeral"}

\* lua_tolstring() on the first n arguments: a number becomes its numeral in place.
tolstring(st, n) ==
  [i \in DOMAIN st |-> IF i <= n /\ st[i].kind = "number" THEN Value("numeral") ELSE st[i]]

\* What the innermost C function does to the arguments it takes as strings.
TakeStrings(n) == frames' = Append(Front(frames), tolstring(Last(frames), n))

\* The functions fail (Throw) on any other arguments, and when a file cannot be
\* opened.
loadBinaryFileForLua(n) ==
  /\ pc = "args"
  /\ Len(Last(frames)) >= 1 /\ IsString(Last(frames)[1].kind)
  /\ TakeStrings(1)
  /\ data' = [i \in 1 .. n |-> i] /\ index' = 0 /\ buf' = luaL_buffinit
  /\ pc' = "copying"
  /\ UNCHANGED << entry, errfunc, status, defined, aborted, entries >>

\* They hand their arguments to SockSessionManager and return nothing.  What is no
\* string at all is sent as an empty one, for only the type code is checked.
sendBuffer ==
  /\ pc = "args"
  /\ Len(Last(frames)) = 2 /\ IsNumber(Last(frames)[2].kind)
  /\ TakeStrings(1)
  /\ pc' = "return"
  /\ UNCHANGED << buf, data, index, entry, errfunc, status, defined, aborted, entries >>

connectServer ==
  /\ pc = "args"
  /\ Len(Last(frames)) = 4 /\ \A i \in 1 .. 4 : IsString(Last(frames)[i].kind)
  /\ TakeStrings(4)
  /\ pc' = "return"
  /\ UNCHANGED << buf, data, index, entry, errfunc, status, defined, aborted, entries >>

\* luaD_poscall: the stack of the C function goes, its results go to Lua.
ReturnC ==
  /\ pc \in {"return", "return1"}
  /\ frames' = Front(frames)
  /\ pc' = "calling"
  /\ UNCHANGED << buf, data, index, entry, errfunc, status, defined, aborted, entries >>

--------------------------------------------------------------------------------
(* Leaving Lua *)

\* Mutant: the message is not popped.
Mutant_pops(e) == 1

\* How many values the entry pops after lua_pcall.
pops(e) == IF status # "ok" /\ e # "serverConnectOn" THEN 2 ELSE 1

\* ... and the assert that the stack is as high as before.
Leave ==
  /\ pc = "returned"
  /\ frames' = << lua_pop(frames[1], pops(entry)) >>
  /\ aborted' = (Len(frames'[1]) # Len(Bottom))
  /\ pc' = "idle"
  /\ UNCHANGED << buf, data, index, entry, errfunc, status, defined, entries >>

--------------------------------------------------------------------------------

Init ==
  /\ frames = << Bottom >>
  /\ buf = luaL_buffinit /\ data = << >> /\ index = 0
  /\ pc = "idle" /\ entry = "none" /\ errfunc = 0 /\ status = "ok"
  /\ defined = FALSE /\ aborted = FALSE /\ entries = 0

Next ==
  \/ loadInit
  \/ entries > 0 /\ \/ frameUpdate
                    \/ L_onServerConnectionEstablished
                    \/ \E n \in Sizes : L_onDecodeBuffer(n)
  \/ CopyChunk
  \/ lua_pcall
  \/ LuaReturns
  \/ Throw
  \/ \E a \in ArgLists : CallC(a)
  \/ \E n \in Sizes : loadBinaryFileForLua(n)
  \/ sendBuffer
  \/ connectServer
  \/ ReturnC
  \/ Leave

Spec == Init /\ [][Next]_vars

--------------------------------------------------------------------------------
(* Properties *)

\* A program that has not aborted waits with nothing but the two tables on the
\* stack, after whatever errors; it aborts only when app/init.lua did not define
\* the functions, or when serverConnectOn failed.
Balanced ==
  IF aborted THEN ~defined \/ (entry = "serverConnectOn" /\ status # "ok")
             ELSE pc = "idle" => frames = << Bottom >>

\* Each entry names the error handler by its distance from the top before the
\* call: a message on the stack always went through the traceback function.
Traced ==
  \A i \in DOMAIN frames[1] :
    frames[1][i].kind = "message" => frames[1][i].bytes = << "traceback" >>

\* The string that is handed to Lua, as the argument of redirectNetBuffer or as
\* the result of mm.LoadBinaryFile, is the whole of the buffer, whatever strings
\* it was put together from on the way.
Whole ==
  /\ pc = "ready" /\ entry = "redirectNetBuffer" /\ ~aborted =>
       /\ Len(frames[1]) = Len(Bottom) + 4
       /\ Last(frames[1]) = String(data)
  /\ pc = "return1" => Last(Last(frames)) = String(data)

\* No C function uses more stack than Lua gives it: the strings of a buffer are
\* joined before there are LIMIT of them, however long it gets.
StackFits ==
  /\ Len(frames[1]) <= MinStack
  /\ Len(frames) = 2 /\ pc = "copying" => Len(frames[2]) <= 4 + LIMIT

\* Between entries into Lua the stack holds what it held before, after whatever errors,
\* and every error message went through the traceback function (lua_script.cpp, exports).
EntriesBalanced == Balanced /\ Traced

\* A string that is handed to Lua is the whole of the buffer, however often its pieces
\* were joined, and the pieces never fill the stack (L_onDecodeBuffer, luaL_Buffer).
StringsWhole == Whole /\ StackFits
================================================================================
