# A verification project for socktestprogram

`socktestprogram` is a small game client.  A C++ main loop runs boost::asio and
a Lua 5.1 interpreter on one thread; it connects to a *directory* server,
registers a user, moves to the *world* server that the directory named, and logs
in.  This directory models that client in TLA+, from the bytes on its sockets to
the Lua runtime that the repository carries and builds, checks the models with
TLC and proves the central results with TLAPS.

## 1. The system

Paths are below `src/source`, those of `external` beside it; `lua-5.1.5` stands for
`dependence/lua-5.1.5/src`.

| Component | Source | State it keeps | Operations |
|---|---|---|---|
| Session | `socket/SockSession.*` | socket, `headLength_`, `buffer_`, two failure flags, the event to announce | `connect`, `close`, `write`, `readStart`, `readBody`, and the handlers `handle_connected`, `handle_headerRead`, `handle_bodyRead`, `handle_closed`, `handle_written` |
| Session manager | `socket/SockSessionManager.*` | the current session | `connectTo` (replaces it), `write` (to it) |
| Master loop | `main.cpp`, `dump.cpp` | the `io_service` | update (Lua), `io.poll()`, exit when the current session failed and poll ran nothing |
| Message pump | `app/Pumper.lua` | the type code -> event table | `redirectNetBuffer` (a frame arrived), `serverConnectOn` (a connection is up) |
| Event dispatcher | `app/Dispatcher.lua` | `handlers_`, `eventCache` | `dispatch`, `check`, `addHandler`, `removeHandler` |
| Client logic | `app/ConnectHandler.lua`, `NetworkCmd.lua` | `chosenServer` | one handler per event; each makes at most one call on the session manager |
| Lua bridge | `interop/exports/*`, `script/lua_script.cpp` | the Lua stack | `frameUpdate`, `redirectNetBuffer`, `serverConnectOn`, loading `init.lua`; `mm.SendBuffer`, `mm.ConnectServer`, `mm.LoadBinaryFile`, ... |
| Stream buffer | `io/StreamBuffer.*` | begin/end/read/write pointers | `append`, `readInt32`, `readInt16`, `readString` |
| Wire format | `socket/LengthStyle.h`, `SockSession.cpp` | - | length header, type code, payload |
| Protocol registry | `app/Proto.lua`, `lua-5.1.5/loadlib.c`, `external/pbc` | `package.loaded`, the globals and their lock, registered types, name -> id tables | `require`, `module`, registering four `.pb` files, looking up ids |
| Client model | `app/model/*`, `libs/ValueMaster.lua`, `libs/ReadOnly.lua` | the client state and its accessors | `isX`, `setX`, `setValue`, reading and writing read-only tables |
| Messages | `app/libs/protobuf.lua`, `external/pbc/.../pbc-lua.c` | lazily expanded tables, default messages, encoders | `decode`, reading a field, `encode` |
| JSON | `app/libs/json.lua` | - | `encode`, `decode` |
| Lua: calls | `lua-5.1.5/ldo.c`, `lstate.c`, `lbaselib.c` | C stack, call infos, counts of nested calls, error catchers | calls, `pcall`, `xpcall`, `error`, `resume`, `yield` |
| Lua: collector | `lua-5.1.5/lgc.c`, `lfunc.c`, `lstring.c` | marks, gray lists, sweep position, finalizer list | the steps of a collection; everything the program does to the heap |
| Lua: tables | `lua-5.1.5/ltable.c`, `ltm.c`, `lvm.c` | array part, nodes, free pointer; metatables and flags | get, set, rehash, `next`, `#`; access through tag methods |
| Lua: language | `lua-5.1.5/lparser.c`, `lcode.c`, `ldebug.c`, `lvm.c` | code under construction; frames, registers, upvalues | compiling every statement and expression; every instruction |
| Lua: patterns | `lua-5.1.5/lstrlib.c` | captures, positions | `find`, `match`, `gmatch`, `gsub` |

How they interact.  The loop alternates *update* and *poll*.  Update calls Lua
`frameUpdate`, which runs the dispatcher's `check()`: the handlers of the queued
events call `connectTo` and `write`.  Poll runs the completed asio operations:
`handle_bodyRead` and `handle_connected` call back into Lua, where the pump decodes
the frame and queues an event for the next update.  So events flow network -> pump ->
dispatcher -> handler -> manager -> network, and the only feedback from a failure is
the pair of flags that the loop reads.  Every arrow but the first and the last goes
through the bridge and runs on the Lua runtime: `lua_pcall` is what keeps a Lua error
from the loop, tables with metatables are what the client's classes, events and
read-only tables are made of, and the collector runs between any two instructions.

What is hard.  Nothing runs in parallel, but much interleaves: operations
complete in any order between two polls, `close()` is only posted, a replaced
session goes on running its handlers, and requests go to whatever session is
*current* when the handler runs.  Failures (refused connect, lost server, failed
write) surface in different handlers and set different flags.  The `io_service`
stops for good when it runs out of work.  Partial writes and partial frames are
decided by the kernel and the server.  In the runtime the collector interleaves with
the program, coroutines share one C stack, errors leave by `longjmp`, and the
compiler decides about registers and jumps long before it knows where a value goes.
`PROJECT.json` lists these hazards line by line with the properties that cover them.

## 2. The modules

| Module | What it is |
|---|---|
| `Pumper` | The pump as operators: which events a frame or a connection becomes |
| `SockSession` | Sessions on asio: one operator per member function, one action per handler, the kernel's completions, the server's end |
| `FrameStream` | What a session promises: the server's frames, in order, each once, none after a reported failure |
| `SockSessionManager` | The manager, and around it the *network layer under the most general program* (`LayerSpec`): any `connectTo` or `write` at any time, a kernel and a server that do anything.  States the layer's properties and that it implements `FrameStream` |
| `ConnFw` | The whole client: loop, handlers, network layer, the two servers, and the faults that may happen (`Faults`).  Shown to implement `LayerSpec` |
| `Dispatcher` | The dispatcher under any program: chains, handlers that raise, calls from inside handlers |
| `Wire`, `WireForeign` | The bytes: what `write()` encodes and the read handlers decode, against a server that echoes (implements `FrameStream` as well), and against one that announces any length |
| `StreamBuffer` | The block of memory with its pointers, its growth and its compaction |
| `LuaBridge` | Every entry into Lua and every C function of `mm` as little programs for Lua's stack machine, `luaL_Buffer` included, with Lua code that may raise anywhere |
| `Registry` | `require`, `module` and the loaders; what each file of the client does when it is loaded; the lock on globals; `pbc`'s registry and the tables of ids |
| `ClientModel` | The state object as Lua tables, with accessors that are made on their first use, and read-only tables |
| `NamedStates` | What the state object promises: the same operations as if all accessors had always been there |
| `Protobuf` | Decoding one level at a time, defaults, encoding, the errors on the way |
| `Json` | The scanner and the writer |
| `LuaDo` | Calls, protected calls, errors, overflows and coroutines on one C stack |
| `LuaGC` | The incremental collector and the program that changes the heap between its steps |
| `LuaTable`, `MetaTables` | A table's two parts and its traversal; access along chains of tag methods |
| `LuaCode`, `LuaCheck`, `LuaParser` | The code generator; what code must fulfil before it is run unchecked; the parser that drives both |
| `LuaVM`, `LuaMeaning` | The interpreter on what the parser compiled; what the program means, evaluated from its source |
| `StrMatch` | The backtracking matcher, and what `find`, `gmatch` and `gsub` do with it |
| `MCSockSessionManager`, `MCConnFw`, `MCWire` | Values of the constants for TLC |
| `MCLuaDo`, `MCLuaHeaps`, `MCLuaGC` | Four settings of calls (`LuaDo` with one set of constants, whose steps a setting restricts), three heaps (`LuaGC` with one set of constants; a heap's `kind` restricts what is created), one heap for liveness |
| `MCLuaLanguage` with `MCLuaVM`, `MCStrMatch` | Programs, a table, tables with metatables and patterns, side by side; it EXTENDS `LuaTable` and `MetaTables` |
| `MCClientParts` with `MCJson`, `MCProtobuf` | The parts of the client that share no state, side by side: `LuaBridge`, `StreamBuffer`, `WireForeign`, `Registry` and `Protobuf`, which it EXTENDS, and instances of the others |
| `ConnFwProofs` | Theorems on `SockSessionManager`, `FrameStream` and `ConnFw` |
| `DispatcherProofs`, `LuaDoProofs`, `LuaGCProofs` | Theorems on the modules of these names |
| `WireProofs` | Theorems on `Wire` and `WireForeign` |
| `ClientPartsProofs` | Theorems on `LuaBridge`, `StreamBuffer`, `Registry` and `Protobuf` |
| `LuaTableProofs` | Theorems on `LuaTable` and `MetaTables` |
| `InductionLemmas` | What the proofs know of numbers, of recursive functions, of sequences and of their concatenation |

`ConnFw` EXTENDS `SockSessionManager` EXTENDS `SockSession` EXTENDS `Pumper`;
`WireForeign` EXTENDS `Wire`; `LuaParser` EXTENDS `LuaCheck` EXTENDS `LuaCode`, and
`LuaMeaning` EXTENDS `LuaVM` EXTENDS `LuaCode`.

Where a module says that parts are checked *side by side*, the variable `part` (or
`setting`, `kind`) is chosen by Init and kept: a behaviour is one of the chosen part
alone, and a property of one part says nothing in the others.

### How state and actions correspond to the code: the network

* A session is a number; `connectTo` creates them in order.  `sock` is the state
  of `socket_` (`broken`: opened, connect failed).  `reads` and `writes` are asio
  operations in progress, `ready` is the `io_service`'s queue of completed
  operations and posted calls, oldest first; a handler runs only from its head.
  `stopped` is the `io_service`'s own flag.
* A frame is two chunks, header and body, because `async_read` asks for exactly
  these; the kernel may have one without the other.  `consumed` counts the chunks
  that completed reads took.  A request is `WriteChunks` = 2 partial writes, the
  least that lets two requests interleave.
* A frame's content is its type (protocol name) and the one field the client looks
  at (the world list empty or not, the `exception`, or "undecodable").  The bytes are
  in `Wire`.
* In `Wire` an int is four bytes of `Base` values each, stored lowest byte first and
  wrapping around as in the builds of the program; `Encode` is the buffer that
  `write()` fills, `handle_headerRead` and `handle_bodyRead` take bytes as
  `async_read` does, four and then `bodySize`.  `LuaString` is the copy loop of
  `L_onDecodeBuffer`.  Failures are left to `SockSession`.  `WireForeign` lets the
  server announce a length that no client of this program would: negative, or too
  short for a type code.  A type code read past the end of a body is then any int.
* Members are operators with the names of the code (`connect`, `write`,
  `readStart`, `handle_bodyRead` ...).  `Read` is `async_read`: in progress on an
  open socket, and on any other an error delivered through the queue.
* `write()` while the connect is in progress fails at once in the Windows build and
  waits for the connect in the others; the model allows both.
* Ghost variables, which no guard reads except where a bound is named: `sent`,
  `delivered`, `wire`, `posted`, `served`, `replacedAt`, and the session and frame
  number in an event.
* In `ConnFw` the variable `pc` is the place in the loop.  One `on...` action is one
  iteration of `check()`: the handler's effects and the removal of the event.  That
  is sound because no handler of the client raises or dispatches; `Dispatcher`
  checks the dispatcher without this assumption.  The printing handlers of
  `GlobalMsgHolder` run before them and change nothing.

### The client's own parts

* `StreamBuffer` numbers the bytes that go in, so that byte n is recognised wherever
  it ends up, and 0 is memory never written.  `lost` collects the bytes that a
  compaction left behind because they did not fit into the part already read.
* In `LuaBridge` a C function's stack is a sequence of values, of which only strings
  have content.  Each entry pushes, calls and pops as the C++ code does, with its
  asserts compiled in; Lua code returns, raises, or calls a function of `mm`, which
  checks and converts its arguments.  A long payload is copied through `luaL_Buffer`.
* In `ClientModel` a table is a function of the fields it has itself; `Index` and `Write`
  are what its `__index` and `__newindex` make of the others.  `NamedStates` is what a
  program may rely on: the same operations on a value and on accessors that are simply there.
* In `Registry` a file is the list of what it does when loaded: modules it requires,
  globals it sets and uses, files it registers, ids it looks up.  `MaxFaults` files
  cannot be read.  With `CaseInsensitive`, `app.proto` finds `Proto.lua`, as it must
  for the client to start at all.
* In `Protobuf` a message is a sequence of fields, good, of a wrong kind or cut
  short; a table is `lazy` until a field of it is read.

### The Lua runtime

* `LuaDo`: `cs` is the C stack, with the activations of `luaD_call`, `luaD_pcall`,
  `luaV_execute`, C functions and `lua_resume`, of all threads in one sequence, because
  there is one C stack.  `ci` holds each thread's calls, by kind.  A `longjmp` cuts `cs`
  back to the catcher.  Programs are any: every action is what some Lua or C function
  may do next.
* `LuaGC`: an object is an identity of a fixed kind that is used again once it is
  freed.  `color` is its mark bits, `marked` the three gray lists, `sweepgc` what the
  sweep has not reached.  `Mutator` is what the program may do with what is on the
  stack; each store has the barrier of the code.  `full` is the progress of a full
  collection.
* `LuaTable` keeps the `content` that the program put there next to the table; the loops of
  `ltable.c` are recursive functions over places and sizes.
  `MetaTables` makes each turn of the loops of `luaV_gettable` and `luaV_settable` one
  step, over two tables that may be each other's or their own metatable.
* `LuaCode` and `LuaParser` are the compiler as pure operators on the state of a
  function under construction: the functions of `lcode.c` and `lparser.c` by name.  The
  source is a tree, except that operators keep their order and so precedence is the
  parser's work.  The limits are small (`MAXSTACK` is 12, an operand names two
  constants, a constructor flushes two items), so that each of them is met.
* `LuaVM` has one action per group of instructions.  `LuaMeaning` is written from the
  reference manual's description of the language, and shares nothing with the compiler:
  it knows neither registers nor jumps.  What the program does to the outside is the
  trace of calls of `emit`.
* `StrMatch` is the matcher function by function, on patterns that are sequences of
  characters.  What it is compared with, `Ways`, enumerates all the ways a pattern
  matches, in the order of the manual.

### Abstractions of asio

asio is modelled from its documented contract: handlers run only inside `poll`, in
the order of completion; closing a socket aborts its operations, whose handlers
still run with an error; `io_service` stops when its outstanding work reaches zero
and then runs nothing until `reset()`.  This is how the reactor back ends (epoll,
kqueue) behave.  The IOCP back end also sets the stopped flag, though a later
`poll` may still happen to dequeue a completion.

### The servers

They are not in the repository.  `LayerSpec` allows a server to send any sequence
of frames at any time and to close at any time.  `ConnFw` needs more: a server that
answers each whole request of its kind once, as `ConnectHandler` expects (a server
that sends answers nobody asked for could make the client write a request to the
wrong connection).

## 3. What is checked

| Run | Bounds | Properties | States |
|---|---|---|---|
| `one_connection` | 1 session, 3 frames (decodable or not), 2 requests | `TypeOK`, `Framed`, `EventsInOrder`, `StreamSpec` | 172,000 |
| `replacement` | 2 sessions, 2 frames, no requests | `OneRead`, `StaleDeliveryBounded` | 21,000 |
| `dispatching` | 2 events, 2 handlers of which one raises, chains of 2, 2 events queued | `TypeOK`, `EventComplete`, `HeadOfLine` | 65,000 |
| `client` | the whole client, faults `refuse`, `close`, `resolve` | `RequestsReachTheirServer`, `WireWhole`, `ExitDrained`, `LayerRefined`, `FailureResolved`, `LoginCompletes`, `ReplacedReleased` | 3,100 |
| `connect_stalls` | the whole client, fault `close` | `ConnectResolves`, **violated** | 3,000 |
| `wire_echo` | 2 requests in flight, 2 type codes, 4 payloads, bytes of 4 values | `InStep`, `BytesSpec`, `EchoedBack` | 3,800 |
| `wire_type_code` | the same with 1 request | `TypeCodeLittleEndian`, **violated** | - |
| `client_parts` | seven parts, see below | `BytesInOrder`, `EntriesBalanced`, `StringsWhole`, `ModulesSound`, `AccessorsAsPromised`, `ReadsWhatWasSent`, `BodiesAsSent`, `ValuesComeBack` | 262,000 |
| `lua_do` | one and two coroutines, with and without a message handler of the program, 3 nested C calls and 2 more for a handler, 3 calls before the array overflows | `StacksBounded`, `StacksAgree`, `CallsEndCleanly` | 932,000 |
| `lua_gc` | three heaps of two to four objects | `HeapSound`, `FinalizedOnce` | 813,000 |
| `lua_gc_freed` | a weak table and a userdata with a finalizer | `GarbageFreed` | 19,000 |
| `lua_language` | 6,500 programs, a table of 6 keys, two tables with metatables, 500 patterns | `ProgramsDoWhatTheyMean`, `ProgramsSound`, `TablesAreMaps`, `TableSteps`, `ChainFollowed`, `PatternsMatchFirst`, `EveryMatchTaken` | 569,000 |

What the properties say.  Of the network:

* `OneRead`: a session never has two connect or read operations between the kernel
  and the queue.  Its handlers share one `headLength_` and one `buffer_`.
* `Framed`: a header read always takes the header after the last delivered frame and
  a body read that frame's body, whatever fails, closes or is replaced.
* `EventsInOrder`: the dispatcher's queue never holds the events of one connection
  out of order or twice.
* `StreamSpec`: the layer implements `FrameStream`.
* `StaleDeliveryBounded`: a session that was replaced hands over at most one more
  frame.  The bound is tight: the operation already completed when `close()` was
  posted is ahead of it in the queue.
* `RequestsReachTheirServer`: although requests go to whatever is current, none
  reaches a server that does not serve it.
* `WireWhole`: the partial writes of two requests never mix; nothing in `write()`
  prevents it, only the client's habit of waiting for an answer.
* `ExitDrained`: the loop does not exit while events of frames received before the
  failure are unhandled; this is what the `!rv` in `main.cpp:81` is for.
* `FailureResolved`: when the current session's connect is refused or its server
  goes away, the loop ends or the session is replaced.  A resolve that throws ends the
  program from inside a Lua handler: nothing runs after it, so it counts as an end and no
  property looks further.
* `ReplacedReleased`: a replaced session ends closed, with no operation and no
  handler left to keep it alive.
* `LoginCompletes`: without faults the client registers and, when a world was
  listed, logs in, creating a player if there is none.
* `EventComplete`: an event leaves the dispatcher's queue only after one run in which
  all the handlers it was dispatched to completed, in order; none overtakes another.
* `HeadOfLine`: an event is handled in the end, or the queue is stuck for ever at an
  event with a handler that raises.  The code offers no more: such an event is
  started over in every update and everything behind it waits.
* `InStep`: the client's next read always starts where a request started, or four
  bytes after, and its size is the rest of that request; no handler throws.
* `BytesSpec`: what comes back from an echo is what was written, as a `FrameStream`.
* `EchoedBack`: all of it does; no read waits for a byte too many.

Of the client's parts (`client_parts`):

* `BytesInOrder`: a `StreamBuffer` is a queue of bytes.  A compaction that meets a payload
  longer than the part of the block already read loses the end of that payload (section 4)
  and nothing else: in the place of a lost byte an earlier one is read, and all others
  are read in their places, over growing, refilling and further compactions.
* `EntriesBalanced`: after every entry into Lua, with whatever errors, the stack holds
  what it held before, and every message went through the traceback function; the
  program aborts only when a function was never defined, or in the one entry that pops
  what is not there (section 4).
* `StringsWhole`: the string handed to Lua is the whole payload, however its pieces
  were joined; and the pieces never fill the C stack, which nothing checks.
* `ModulesSound`: `app/init.lua` loads unless a file cannot be read; no module is loaded
  twice under one name or used half-loaded; a second instance of `Proto` answers as
  the first does.
* `AccessorsAsPromised`: each operation on the state object has the effect, the answer and
  the errors that `NamedStates` gives it, whichever accessors were used, kept, written over
  or taken away before.  The one trace of their being made late is that an accessor refuses
  to be written over before its first use; and `setValue` needs a value to be there.
* `ReadsWhatWasSent`: a field reads as what was sent or as missing, at every level of
  nesting and whenever it is read; after an error a table holds the fields up to
  where the buffer goes wrong; encoders are left behind by errors only.
* `BodiesAsSent`: whatever lengths a server announces, the bodies are handed over as
  they were sent, with their own type codes where they have one, and a handler throws
  at the first negative length and nowhere else.
* `ValuesComeBack`: a value that JSON has words for comes back from its text, in
  whatever order its keys are written, and from texts of other writers.

Of the Lua runtime:

* `StacksBounded`: the count of nested C calls of each thread on the C stack is the
  number of calls and resumptions below it, those of other threads included; so the
  limit bounds the C stack although each thread counts for itself.  The array of calls
  grows past its limit once, for the handler of the overflow.
* `StacksAgree`: an error is caught by the innermost catcher of its own thread and
  jumps over no other; `luaV_execute` never goes on in the frame of a C function;
  shared variables and message handlers lie in calls that are in progress.
* `CallsEndCleanly`: however a protected call ends, its caller finds its own calls,
  count, handler and catcher; an ended coroutine is not resumed.
* `HeapSound`: what the program can reach is there and is not about to be swept, through
  weak tables, upvalues of dead coroutines and finalizers too; a black object refers
  to no white one while marking; no object is in two gray lists, which share a link.
* `FinalizedOnce`: userdata goes to its finalizer only when the program has lost it, or
  reaches it only through userdata that itself waits for its finalizer; once, even if
  the finalizer keeps it or collects; and it is not freed without.
* `GarbageFreed`: what the program has lost is freed.
* `ProgramsDoWhatTheyMean`: what a compiled program emits and returns, or that it fails,
  is what its source means.
* `ProgramsSound`: the compiler's assertions hold, all its code passes
  `luaG_checkcode`, frames stay above their callers' registers and an open upvalue is
  a register of a frame that is still there.
* `TablesAreMaps`, `TableSteps`: a table gives back what was put there, its length is a
  boundary; a traversal with changes and a collector that kills keys misses nothing
  and repeats nothing; a rehash leaves more than half of each part in use.
* `ChainFollowed`: an access ends at the table the manual names, or in the error for a
  loop; the cached flags hide no tag method, even in a table that is its own metatable.
* `PatternsMatchFirst`, `EveryMatchTaken`: a match is the first way to match, with the
  captures of that way only; `gsub` keeps what it does not match; `gmatch` and `gsub` pass
  over no match and always move on.

### Bounds

`MaxSessions`, `MaxFrames`, `MaxRequests` (guards of `connectTo`, `PeerSend` and
`managerWrite`), `MaxDispatched` and `MaxChain` (guards of `dispatch` and
`addHandler`) bound the network's models.  In the client's runs they are never reached: the
client makes two connections and at most two requests on each, and the bounds are
three.  `one_connection` has three frames so that there is a frame before and one
behind any frame where a failure strikes, and two requests so that writes overlap;
sessions are independent except for the queue and the manager, which
`replacement` exercises with two of them and without requests, since a failed write
does to a session what a replacement does: it posts its close.  The layer's deadlock
check is off because a stopped `io_service` with all bounds used up is a state
without successor; the client's runs check deadlock.

A byte has four values in `wire_echo`, so that an int is one of -128 .. 127 and every
one of its bytes and the sign matter to the requests sent; two requests are enough
for a read that ends at the wrong byte to run into the next one, and more would only
repeat the second.  The theorem on the conversions is for every size of a byte.

In `client_parts`: 14 bytes in lengths of 1, 3 and 5 (`MaxAppended`), which grow the block
from two to sixteen bytes and compact it at every size; a negative and an empty append.
Three entries into Lua (`MaxEntries`) with a stack of ten slots and chunks of one
byte, so that thirteen bytes join more than twice; three entries, because an entry
starts from the stack that the one before left.  All files of the client, two
failures (`MaxFaults`) and four loads from outside (`MaxLoads`), on a file system that
finds `Proto.lua` as `proto.lua`, without which the client does not start; the theorem is
for either kind, and for any modules required from outside.  Two of the client's states with
both setters and one test, `isiter`, whose name is the one field that can be written, a setter of no state, and a
foreign value.  A message of two levels below it, each
repeated, overwritten, cut short or of a wrong kind.  Two frames (`MaxSent`) of the lengths
-1, 0, 3, 4 and 5, the bits of an int standing for its bytes.  Strings of two characters
out of every class the writer distinguishes, tables of two keys, arrays and
objects in one another.  Its deadlock check is off: the parts use up their bounds.

In `lua_do` three nested C calls are enough for a coroutine to be resumed by one that a
C function called; the array of calls overflows, and overflows again in the handler.  A
handler has two more C calls, one that is legal, in which it may yield, and one that is
too many.  One coroutine without shared variables goes as deep as these limits let it;
with shared variables, or with a second coroutine, the C stack has at most `MaxDepth`
activations: nine are enough for two coroutines on it at once with either limit
reached, and the theorems are for every depth.  Under a handler that the program itself
passes, as `L_notification.cpp` does, or something in its place that is no function, one
coroutine has at most `HostDepth` activations, nine again.  In `lua_gc` each heap has an object of every kind that its
barriers, lists and phases are about; `StackSize` is what the main thread holds.  In
`lua_language` there are all expressions of two out of six binary operators over operands that the
compiler puts off (a local, a call, `nil`, a constant), with `not` and parentheses, in an
assignment and in a condition; every loop with and without a closure on its variable and
left in every way; and a program for each statement and each limit.  The keys of the
table collide in two chains and reach `MAX_INT` in the search of a boundary.  All
patterns of two parts, and those of a capture, a part and a reference.  Deadlock checks
are off there because programs end.

### Fairness

`LayerSpec` has none: only safety is checked of it.  In `ConnFw` the loop is
weakly fair (it never sleeps and `poll` does not block), and so are the kernel and
the server on each connection (an operation that can complete does, a server
answers what it read).  No fault is ever fair.  In `Dispatcher`, `check()` is weakly
fair because every turn of the loop calls it, and a handler that does not raise
returns.  Raising has no fairness.  In `Wire` the server goes on echoing and a read
that has its bytes completes.  In `LuaGC` the collector's steps go on for ever, because
`luaC_checkGC` pays for them with every allocation; there is a step to take in every
state, so `[]<><<singlestep>>_vars` is their weak fairness, and is stated so because TLC
evaluates it faster.  The program's steps have none.

## 4. Findings

* `connect_stalls`: `main.cpp:80` polls an `io_service` that nothing resets.  When
  the directory answers the registration and closes, and both are handled in one
  poll, the failed header read is the last work and the `io_service` stops.  `rv` is
  not zero, so that the loop goes on; the next update handles the registration and
  starts connecting to the world.  No later poll runs a handler: the connect is
  neither established nor failed, `isSocketFailed()` of the new session stays false,
  and the loop spins for ever behind "<Connecting to world server>".
  An `io.reset()` before each poll, or an `io_service::work`, would repair it.
* `wire_type_code`: the comment on the type code in `write()`
  (`SockSession.cpp:188`, "type code //~little endian") is wrong: line 186 puts it in
  network order.  The client's `readInt32` agrees with the code.

Seen while modelling, and visible in the models as the case that a property excepts:

* `StreamBuffer.cc:66`: `append()` compacts by moving as many bytes as were read, not as
  many as are unread.  A payload longer than the room before it loses its end (`lost`).  No
  code of the program appends.
* `L_notification.cpp:56`: when `serverConnectOn` raises, a message is left on the stack
  besides the value that is popped, and the assert on the stack's height fails.
* `Proto.lua:28`: `app.proto` and `app.Proto` are two modules from one file, which is
  registered twice, without harm; on a case-sensitive file system the client
  does not load.
* `ReadOnly.lua:12`: the read-only table has one field of its own, `iter`, which can be
  written.
* `ClientState.lua:14`: the initial state is `ClientState.Disconnected`, a field that the
  class does not have (it is `CltState.Disconnected`); until a state is set, none of
  the `isX` says true.
* `protobuf.lua:528`: the metatables rely on `__pairs`, which Lua 5.1 does not know, so
  that encoding a message with a nested part never read raises an error.
* `json.lua:182`: a `null` in an array moves the elements behind it forward;
  `json.lua` cannot read the carriage return that it writes.
* `lgc.c:664`: the barriers assert that no object is black while finalizers are called.
  Userdata that waits for its own finalizer is, and an earlier finalizer can reach it;
  the assert is compiled out, and the barrier then does what is right.
* `lgc.c:128`: `luaC_separateudata` looks at marks, and what waits for its finalizer is
  marked only afterwards (`marktmu`).  So a full collection before the finalizers have
  run also hands over userdata that the program may get back through one that waits.
* `ldo.c`: an overflow of the calls that is caught by a `pcall` itself almost as deep
  leaves the array of calls grown until the next error is caught.

## 5. What is proved

| Theorem | Statement |
|---|---|
| `LayerTypeOK`, `LayerOneRead`, `LayerFramed` | `LayerSpec => []TypeOK`, `[]OneRead`, `[]Framed` |
| `LayerStream` | `LayerSpec => StreamSpec`: the layer implements `FrameStream` |
| `LayerEventsInOrder`, `LayerStaleDelivery` | `LayerSpec => []EventsInOrder`, `[]StaleDeliveryBounded` |
| `ClientImplementsLayer` | `Spec => LayerRefined`: the client implements the layer, with any `Faults` |
| `ClientFramed`, `ClientStream`, `ClientOneRead`, `ClientEventsInOrder`, `ClientStaleDelivery` | what the layer promises, in the client |
| `ClientExitDrained` | `Spec => []ExitDrained` |
| `ClientRequestsReachTheirServer`, `ClientWireWhole` | `Spec => []RequestsReachTheirServer`, `[]WireWhole` |
| `DispatcherTypeOK`, `DispatcherEventComplete` | `Spec => []TypeOK`, `[]EventComplete` of `Dispatcher` |
| `WireRoundTrip` | `readInt32` makes of an int's bytes, stored as `write()` stores them, that int |
| `WireInStep`, `WireBytes` | `WireSpec => []InStep`, `BytesSpec`: the bytes implement the stream of requests |
| `WireBodiesAsSent` | `ForeignSpec => []BodiesAsSent`: the same against a server that announces any lengths |
| `StreamBufferKeepsOrder` | `BufferSpec => [](BufferTypeOK /\ BytesInOrder)` |
| `ModulesLoadSoundly` | `ModulesSpec => []ModulesSound` of `Registry` |
| `MessagesReadAsSent` | `MessagesSpec => ReadsWhatWasSent` of `Protobuf` |
| `LuaEntriesBalanced`, `LuaStringsWhole` | `Spec => []EntriesBalanced`, `[]StringsWhole` of `LuaBridge` |
| `LuaStacksBounded`, `LuaStacksAgree`, `LuaCallsEndCleanly` | `Spec => []StacksBounded`, `[]StacksAgree`, `CallsEndCleanly` of `LuaDo` |
| `LuaHeapSound`, `LuaFinalizedOnce` | `Spec => []HeapSound`, `FinalizedOnce` of `LuaGC` |
| `LuaTablesAreMaps`, `LuaTableSteps` | `TableSpec => []TablesAreMaps`, `TableSteps` |
| `LuaChainFollowed` | `MetaSpec => ChainFollowed` |

They hold for any number of sessions, frames, requests, events, handlers, coroutines and
entries into Lua, for any limits of Lua's stacks, for payloads of any length and any
lengths announced for them, for every finite heap, for tables with any keys and any hash
function, for any tables with each other's metatables, and for the client's files on either
kind of file system, with any of them unreadable and any required from outside, and for
messages of any schema, nested to any depth.  The
assumptions are those on the constants, and TLC evaluates all of them:

* `BoundsAssumption`: bounds are numbers.
* `ClientAssumption`: the constants contain the names the client uses and the frames
  the servers answer.
* `DispatcherAssumption`, `WireAssumption`: type codes and lengths fit an int.
* `LuaDoAssumption`: limits are positive numbers; a new thread's array of calls has
  room for a call and is within the limit.
* `LuaBridgeAssumption`: a C function has ten slots at least (`LUA_MINSTACK` is 20), since
  `L_onDecodeBuffer` keeps five values below the strings of its buffer, which are at
  most half as many as the slots; and Lua passes at most four arguments to a function of `mm`.
* `StreamBufferAssumption`, `ForeignAssumption`: bounds are numbers, lengths are ints
  and bodies are bytes.
* `ProtobufAssumption`: what a field of the schema nests is a type of the schema; what is
  nested in a buffer is a buffer (`Buffers` is closed under nesting), and what is received is one of them.
* `LuaGCAssumption`: there are finitely many objects, each of one kind; weak tables are
  tables, and what has a finalizer is userdata.
* `LuaTableAssumption`: integer keys go up to `MaxIndex` and to `MAX_INT`, the hash of a key
  is a number, and there are finitely many strings, none of them an integer or `nil`.
* `MetaTablesAssumption`: `MAXTAGLOOP` is positive, and the special values are neither
  tables nor functions nor one another.

*The layer.*  None of `OneRead`, `Framed` and `StreamSpec` is
inductive: each is about where a read is, and a read moves from `reads` to `ready`
to a handler.  `IInv` says for each session that its one operation is in progress,
or in the queue, or nowhere, and that `consumed` and `delivered` fit its kind; that a
session not yet created is untouched; and that once a failure is flagged every
operation of the session still in the queue is itself a failure.  The last part is
what makes "nothing is delivered after a failure" inductive.  Each step either moves
the operation of one session (`SessionStep`) or leaves every session's operation
where it is (`QuietStep`); `Keeps` captures what "leaves" means for the queue, which
every step rearranges.

*What the layer delivers.*  `DInv` adds where the announcement of a session and the
close of a replaced one are.  `EventsInOrder` needs that an unannounced session has no
events and no event is ahead of its frame (`EventInv`).  `StaleDeliveryBounded` is about two
positions in the queue (`StaleInv`): a replaced session is closed, or its close is
queued; and once it has delivered a frame since, no body is read or waiting, and the
only header that can still be looked at successfully is behind that close.

*The client* is a step simulation: each handler is one `CallConnectTo`,
`CallWrite` or `DropEvent`, the end of update is `PollIdle` or invisible, and the rest
are the layer's own steps.  So the layer's invariants hold in it.  `LoopInv` is about the loop and
gives `ExitDrained`.  `CInv` is about the conversations: the directory is the first
session and the world the second, which exists only when the first conversation is
over (`Roles`); the requests, the answers and the frames delivered of a session are a
prefix of its script, one behind the other by one at most (`Turns`); so at most one
write is under way and what is on the wire are all chunks before it (`Written`); and an
event in the queue is about the last thing that happened on its session (`EventsTell`).  From
that it follows that there is never more than one event (lemma `OneEvent`), so that the
handler that runs, and hence the request that it writes through the manager's *current*
session, belongs to the session the event is about.

*The dispatcher*: the queue holds the last events queued, in order,
so an event's number tells whether it was handled, is the head, or waits.

*The bytes.*  The bytes of the int made of four bytes are those
bytes, and the int made of an int's bytes is that int, both by division with remainder
one byte at a time and, for the sign, by a case split on the halves of the range.
Turning the bytes around twice is then the identity.  It is for any even `Base`, so
for the program's 32 bits, where no run can enumerate them.  `WInv` is `InStep` with what was
delivered so far: what the connection carries, both ways together, is what is left of the
current request and then the requests behind it; so a read of the length
announced takes that request and nothing else.

*The entries into Lua.*  `BInv` says for each `pc` what is on the stack of the innermost
function and on that below it: the two tables and the handler, the function
and its arguments, a message that has been through the handler, the strings of a buffer.
A `luaL_Buffer` is right (`Filled`) when its strings and its array, one behind the other, are
what was put in; the number of its strings stays below `LIMIT` because the loop of `toget`
stops at the latest where the strings it joins would be as many.

*The calls.*  `LInv` describes the C stack from below: every record counts, catches, and
answers for calls of its thread (`Depth`, `Catchers`, `CallsOf`), and what the threads keep is what
their records say (`Agree`): the count for a thread that is on top or has resumed
another, the calls and the catcher for all, the handler in a call that made a protected call.
`CallsBounded` and `RaisingOK` bound the array and the depth, except for an error on its way.  A step
pushes a record (`CallEnters` and its like), pops the last, or cuts the stack at the
catcher, which `Agree` describes before and after alike.  `CallsEndCleanly` is a step
property: it follows from `Agree` since what a protected call saved is what the records
below it say.

*The collector.*  `GInv`: what is alive and not of the dead white is closed
under references (`GoodClosed`); a color of an earlier phase is only on what is still to be swept or
waits for its finalizer (`Leftovers`); while the collector marks, black refers to no white but
from what waits (`BlackNotToWhite`), and what is gray is in the list of its kind, or a string or an
open upvalue (`GrayLists`).  The hard step is `atomic`: it marks in rounds,
each of which ends when nothing is gray, so that what is marked after the last of them
(`Final`) is the least closed set over the roots and the userdata that wait
(`Closure`); what is left white cannot be reached from it, and weak tables
are cleared of just that.  The sweep takes one object after another and `Leftovers`
shrinks; each of the program's stores has its barrier, which keeps `BlackNotToWhite`.
`FinalizedOnce` follows from `GInv` for each step: only `atomic` adds to `tmudata`, and what it adds
is white after the rounds.

*The stream buffer.*  `SBInv` says what stands where each unread byte belongs (`Stands`) and that the
pointers are in order.  A compaction moves as many bytes as were read; behind those the old payload
stays, each byte of which is an earlier one, in the place of a byte that it adds to `lost`.  `append` calls itself after compacting or growing; every call of it but
the last makes room, and as many calls as the payload is long suffice, so that its recursion
ends in a state that has the old bytes and the new ones behind them.

*The client's files.*  `RInv` rests on the files having ranks (`Rank`) such that each requires only
higher ones: so the ranks of the files being loaded ascend, and nothing is required while it is
being loaded.  Each of these files but the innermost stands behind the require that is under way
and all its steps before that were done (`Running`); of a module that was loaded all were
(`LoadedDone`).  Every name that was begun keeps a mark in `package.loaded`, so no file
is run twice under one name and the instances are no more than the names (`InstancesBound`).  While
`app/init.lua` loads and no file failed, the only sentinels are those of the files being loaded, and the globals
that are set under the lock are there when it is closed (`Loading`); that is why nothing but a file
that cannot be read makes it fail.  An id is looked up only where all four
`.pb` files are registered (`AllRegistered`), so that no instance of `Proto` keeps one that a later
registration would change.  Each of the files is walked through once (`ChunkOK`).  It needs no
assumption on the constants.

*Messages.*  `HeapOK`: a table that still holds its buffer has no field; another has just those that its
buffer says, up to where that goes wrong (`TableFrom`), and has its default message when all
of it was good.  Decoding is a function recursive over the fields of the buffer; after `k` of them
the table has what the first `k` say (`DecodeStep`), no other table has changed, and the new ones
hold their buffers (`Grown`).  What a table's values mean depends only on where other tables come from,
which no step changes (`TableKept`); so reading one message does not change what another reads as.

*Tables.*  `Sound` says what a table is between two operations: links lead from keys to
keys, no node has two predecessors, and chains end; a key outside the array is on the
chain of its main position, whose first node is in its own place; dead keys are
in empty nodes only and behind the live key that equals them; every node above
`lastfree` is taken.  `newkey` puts the key at its main position (`AtMain`), in a free
node behind it (`InFree`) or takes the place of one that belongs elsewhere (`Displaced`), and
each leaves the table sound with one field changed (`StoreIs`).  For a rehash:
`computesizes` counts the keys slice by slice (`Counted`) and
picks a part more than half used; the keys that are put back one by one always find
a free node, as there are no more of them than nodes (`RoomIs`, `Reinserted`,
`Enough`); the new table is sound and gives back what the old one did (`RehashIs`,
`SetIs`).  The search for the length keeps a full place below and an empty one above
(`Between`).  A traversal has met the keys of all places before its own (`Traversing`); setting
existing fields and the collector's killing of keys leave places as they are
(`SameKeys`, `IndexSame`).

*Metatables.*  A flag that is set hides no tag method (`FlagsRight`), because a
store of a new field clears the flags.  `Way`: there is a course of tables from where the
access began to where it is, which ended at none of those passed; an access
that ends is at the end of it, or has made `MAXTAGLOOP` turns.

*A foreign server.*  `ForeignInv`: there is a function that says where in the bytes
sent each frame handed over begins, by the announced lengths before it; what is unread
is what was sent from a position on; and a length read is the one at the last such
place.  `BodiesAsSent` computes the same places (lemma `BeginsAre`).

`InductionLemmas` has what those need of numbers, of sequences, of `FlattenSeq` and of recursive functions.  The
library's induction takes an operator as a parameter, which the provers cannot
instantiate; but a *set* of numbers has a least member (`LeastNumber`), from which induction over a
set of numbers follows (`Induction`), and that a recursive function whose step is given as a
function exists and fulfils its equations (`Recursion`).  With these, functions recursive over
numbers are proved about: the loop in `toget`, the calls of `append`, the walk along a chain of nodes, the slices of
`computesizes`, the keys put back one by one, the fields of a message, the search for a boundary,
the course of an access, the places of frames.  The closure of `atomic` is recursive over sets: that it is the least
closed set is a lemma of `LuaGCProofs`, by the finiteness of the heap.

Only model-checked:

* everything about time (`FailureResolved`, `ReplacedReleased`, `LoginCompletes`,
  `HeadOfLine`, `EchoedBack`, `GarbageFreed`), because liveness is out of the prover's reach;
* all about `LuaCode`, `LuaParser`, `LuaVM`, `LuaMeaning`, `StrMatch` and `Json`
  (`ProgramsDoWhatTheyMean`, `ProgramsSound`, `PatternsMatchFirst`, `EveryMatchTaken`,
  `ValuesComeBack`): they are recursive over data;
* `AccessorsAsPromised`, next on the plan.

## 6. Plan

Done, in this order: pump, sessions, stream, manager, client, dispatcher, bytes, and
their proofs; the client's own parts, and the Lua runtime from the calls to the
compiler; then the proofs on the events, on the client's conversations, on the
stream of bytes, on the entries into Lua and on Lua's calls; then those on the collector,
on tables and metatables, on the stream buffer, on foreign lengths, on the
client's files and on messages.  Next:

1. `ConnFw` over `Dispatcher`, with `check()` in its own steps, instead of the
   one-step `on...` actions.
2. Tag methods in `LuaVM`, by the loops of `MetaTables`.
3. A proof of `AccessorsAsPromised`, operation by operation.
4. `ProgramsDoWhatTheyMean` for expressions, by induction over the length of the code that was generated.

## 7. Not modelled, and why

* In the Lua runtime: hooks; memory errors and the sizes of stacks and string table; line
  information and the wording of messages; conversions between numbers and strings, the order
  of strings, tag methods and coroutines inside `LuaVM` (`MetaTables` and `LuaDo` have
  them); division, whose results are no integers.  `LuaMeaning` compares no programs
  whose outcome depends on an order of evaluation that the manual leaves open.
  `lua_lock`, `liolib.c`, `loslib.c`, `lmathlib.c`, `ldblib.c`, `lua.c`, `luac.c`: nothing
  the client uses, or calls of the C library one by one.
* `string.format`, `rep`, `byte` and the like: one pass over their arguments each.
* In `pbc`: the binary format and the patterns (`pack`, `unpack`), which no file of
  the client calls.  `pbc-lua.c` beside `main.cpp` is an older copy of the one that is
  built; the functions that are modelled are the same in both.
* In `json.lua`: signs, points and exponents of numbers, which `loadstring` evaluates.
* `functions.lua`: helpers without state; the client uses the global `class`, which
  `Registry` has.
* `script_test/*.js`: servers of an older protocol.  `simpleecho.js:17` sends a
  little-endian length and no type code, which the client would not understand.
* `isTimeout()`, `setTimeout()`, `flushOpTime()`: they keep a time that nothing reads.
  `setDestination()` and `ConnectorHandler:deinit()` are never called.
* The order of destruction at exit, and `LuaScript`'s uninitialised `L_`.
* `script` and `third/linterop` are submodules without content.
* `GlobalMsgHolder`, `DebugLog`: printing (what they require when loaded is in `Registry`).
