-------------------------------- MODULE Registry --------------------------------
(***************************************************************************)
(* How the client's Lua files are loaded: require and module of loadlib.c, *)
(* the files with what each does when it is loaded, the lock on globals of *)
(* EnvInit.lua, and Proto.lua, which registers the .pb files with pbc and  *)
(* keeps a table of message ids.                                           *)
(*                                                                         *)
(* The program loads app/init.lua once.  With Entries a program may also   *)
(* require modules one after the other, as a console would.                *)
(***************************************************************************)
EXTENDS Integers, SequencesExt, TLC

CONSTANTS
  CaseInsensitive,   \* whether the file system finds app/Proto.lua as app/proto.lua
  Entries,           \* the modules that may be required from outside
  MaxFaults,         \* bound: files that cannot be read
  MaxLoads           \* bound: loads from outside

VARIABLES
  loaded,       \* package.loaded, by module name
  running,      \* the files that are being loaded, the innermost last
  instances,    \* the files whose chunk was run, one entry for each run, with the name
  globals,      \* the global variables that are set
  locked,       \* EnvInit has put a metatable on _G
  registered,   \* the .pb files in the environment of pbc, in order of registration
  asked,        \* the .pb files Proto registered, in order
  ids,          \* nameToIDTable of each instance of Proto
  failed,       \* app/init.lua raised an error
  faults, loads

modulesVars == << loaded, running, instances, globals, locked, registered, asked, ids, failed,
                  faults, loads >>

--------------------------------------------------------------------------------
(* The files *)

Require(n) == [do |-> "require", arg |-> n]
Set(g) == [do |-> "set", arg |-> g]
Use(g) == [do |-> "use", arg |-> g]
Register(f) == [do |-> "register", arg |-> f]
Lookup(msg) == [do |-> "lookup", arg |-> msg]
Return(kind) == [do |-> "return", arg |-> kind]
Lock == [do |-> "lock", arg |-> ""]

Messages == {"RequestWorldList", "ResponseWorldList", "RequestLogin", "ResponseLogin"}

\* What loading a file does, in order: modules it requires, globals it sets and
\* uses, and whether it returns a value.
initChunk ==
  << Require("app.libs.functions"), Require("app.libs.json"), Require("app.Config"),
     Require("app.EnvInit"), Require("app.Pumper"), Require("app.model.Model"),
     Require("app.model.NetEvent.Events"), Require("app.Dispatcher"),
     Require("app.GlobalMsgHolder"), Require("app.ConnectHandler"), Use("dd"),
     Return("nothing") >>

PumperChunk ==
  << Require("app.proto"), Require("app.Dispatcher"), Require("app.model.NetEvent.Events"),
     Lookup("ResponseWorldList"), Lookup("ResponseLogin"), Use("dd"), Return("nothing") >>

ProtoChunk ==
  << Require("app.libs.protobuf"), Require("app.libs.DebugLog"), Require("app.libs.ReadOnly"),
     Register("data"), Register("exceptiontype"), Register("cs_dir"), Register("cs_world"),
     Lookup("RequestWorldList"), Lookup("ResponseWorldList"), Lookup("RequestLogin"),
     Lookup("ResponseLogin"), Return("value") >>

protobufChunk == << Require("protobuf.c"), Set("protobuf"), Return("nothing") >>

ModelChunk == << Require("app.libs.ReadOnly"), Require("app.model.ClientState"), Return("value") >>

ClientStateChunk ==
  << Use("class"), Require("app.libs.ValueMaster"), Require("app.libs.ReadOnly"), Return("value") >>

NetworkCmdChunk ==
  << Require("app.Proto"), Require("app.model.Model"), Require("app.model.NetEvent.Events"),
     Use("class"), Return("value") >>

GlobalMsgHolderChunk ==
  << Require("app.model.NetEvent.Events"), Require("app.Dispatcher"), Use("class"),
     Return("value") >>

ConnectHandlerChunk ==
  << Require("app.NetworkCmd"), Require("app.Dispatcher"), Require("app.model.Model"),
     Require("app.model.NetEvent.Events"), Use("class"), Return("value") >>

Chunk ==
  [init |-> initChunk,
   functions |-> << Set("class"), Return("nothing") >>,
   json |-> << Set("json"), Return("nothing") >>,
   Config |-> << Set("DISABLE_GLOBAL"), Return("nothing") >>,
   EnvInit |-> << Set("dd"), Lock, Return("nothing") >>,
   Pumper |-> PumperChunk, Proto |-> ProtoChunk, protobuf |-> protobufChunk,
   DebugLog |-> << Return("value") >>, ReadOnly |-> << Return("value") >>,
   ValueMaster |-> << Return("value") >>,
   Dispatcher |-> << Require("app.libs.ReadOnly"), Return("value") >>,
   Events |-> << Require("app.libs.ReadOnly"), Return("value") >>,
   Model |-> ModelChunk, ClientState |-> ClientStateChunk, NetworkCmd |-> NetworkCmdChunk,
   GlobalMsgHolder |-> GlobalMsgHolderChunk, ConnectHandler |-> ConnectHandlerChunk]

\* The file that loader_Lua finds for a module name.  Misspelled names differ from
\* their file's in the case of letters.
FileOf ==
  [n \in {"app.libs.functions", "app.libs.json", "app.libs.protobuf", "app.libs.DebugLog",
          "app.libs.ReadOnly", "app.libs.ValueMaster", "app.Config", "app.EnvInit",
          "app.Pumper", "app.Proto", "app.proto", "app.Dispatcher", "app.NetworkCmd",
          "app.GlobalMsgHolder", "app.ConnectHandler", "app.model.Model", "app.model.ClientState",
          "app.model.NetEvent.Events"} |->
   CASE n = "app.libs.functions" -> "functions"
     [] n = "app.libs.json" -> "json"
     [] n = "app.libs.protobuf" -> "protobuf"
     [] n = "app.libs.DebugLog" -> "DebugLog"
     [] n = "app.libs.ReadOnly" -> "ReadOnly"
     [] n = "app.libs.ValueMaster" -> "ValueMaster"
     [] n = "app.Config" -> "Config"
     [] n = "app.EnvInit" -> "EnvInit"
     [] n = "app.Pumper" -> "Pumper"
     [] n \in {"app.Proto", "app.proto"} -> "Proto"
     [] n = "app.Dispatcher" -> "Dispatcher"
     [] n = "app.NetworkCmd" -> "NetworkCmd"
     [] n = "app.GlobalMsgHolder" -> "GlobalMsgHolder"
     [] n = "app.ConnectHandler" -> "ConnectHandler"
     [] n = "app.model.Model" -> "Model"
     [] n = "app.model.ClientState" -> "ClientState"
     [] n = "app.model.NetEvent.Events" -> "Events"]
Misspelled == {"app.proto", "app.model.Model", "app.model.NetEvent.Events"}

Found(n) == n \in DOMAIN FileOf /\ (CaseInsensitive \/ n \notin Misspelled)
Names == DOMAIN FileOf \cup {"protobuf.c"}

\* The .pb files: what they import and the ids of the messages they define.
Dependencies == [data |-> {}, exceptiontype |-> {}, cs_dir |-> {"data", "exceptiontype"},
                 cs_world |-> {"data", "exceptiontype"}]
Defines == [data |-> {}, exceptiontype |-> {}, cs_dir |-> {"RequestWorldList", "ResponseWorldList"},
            cs_world |-> {"RequestLogin", "ResponseLogin"}]

--------------------------------------------------------------------------------
(* package.loaded: nothing, the sentinel of a module that is being loaded, true, *)
(* or the value that an instance returned                                        *)

Nil == 0
Sentinel == -1
True == -2

Frame(n, f) == [name |-> n, file |-> f, pc |-> 1, instance |-> Len(instances) + 1]
Top == Last(running)
Step == Chunk[Top.file][Top.pc]
Advanced(r) == [r EXCEPT ![Len(r)].pc = @ + 1]

Doing(op) == running # << >> /\ Step.do = op

\* An error: no chunk catches one, and the modules being loaded keep their sentinel.
Raise ==
  /\ running' = << >>
  /\ failed' = (failed \/ running[1].file = "init")
  /\ UNCHANGED << loaded, instances, globals, locked, registered, asked, ids >>

\* A chunk is run with the sentinel in package.loaded.
Start(n, r) ==
  /\ running' = Append(r, Frame(n, FileOf[n]))
  /\ instances' = Append(instances, [name |-> n, file |-> FileOf[n]])
  /\ loaded' = [loaded EXCEPT ![n] = Sentinel]

Proceed == running' = Advanced(running) /\ UNCHANGED << failed, faults, loads >>

ll_require ==
  /\ Doing("require")
  /\ LET n == Step.arg IN
       CASE loaded[n] \notin {Nil, Sentinel} ->
              Proceed /\ UNCHANGED << loaded, instances, globals, locked, registered, asked, ids >>
         [] loaded[n] = Nil /\ Found(n) ->
              /\ Start(n, Advanced(running))
              /\ UNCHANGED << globals, locked, registered, asked, ids, failed, faults, loads >>
         [] OTHER -> Raise /\ UNCHANGED << faults, loads >>

\* The end of a chunk, back in ll_require: a module without a value is true.
return ==
  /\ Doing("return")
  /\ running' = Front(running)
  /\ IF Top.file = "init" THEN UNCHANGED loaded
     ELSE loaded' = [loaded EXCEPT ![Top.name] =
                       IF Step.arg = "value" THEN Top.instance
                       ELSE IF @ = Sentinel THEN True ELSE @]
  /\ UNCHANGED << instances, globals, locked, registered, asked, ids, failed, faults, loads >>

\* An assignment to a global, by luaL_findtable for a module: __newindex of the
\* locked _G raises for a new one.
SetGlobal ==
  /\ Doing("set")
  /\ IF locked /\ Step.arg \notin globals
     THEN Raise /\ UNCHANGED << faults, loads >>
     ELSE /\ globals' = globals \cup {Step.arg}
          /\ Proceed
          /\ UNCHANGED << loaded, instances, locked, registered, asked, ids >>

UseGlobal ==
  /\ Doing("use")
  /\ IF Step.arg \notin globals THEN Raise /\ UNCHANGED << faults, loads >>
     ELSE Proceed /\ UNCHANGED << loaded, instances, globals, locked, registered, asked, ids >>

LockGlobals ==
  /\ Doing("lock")
  /\ locked' = (locked \/ "DISABLE_GLOBAL" \in globals)
  /\ Proceed
  /\ UNCHANGED << loaded, instances, globals, registered, asked, ids >>

\* Mutant: the files that are there already are not looked up.
Mutant_CheckFileName(f) == IF Dependencies[f] \subseteq Range(registered) THEN "OK" ELSE "DEPENDENCY"

\* _check_file_name of pbc.
CheckFileName(f) ==
  IF f \in Range(registered) THEN "EXIST"
  ELSE IF Dependencies[f] \subseteq Range(registered) THEN "OK" ELSE "DEPENDENCY"

\* pbc_register passes over a file that it has, and wants the imports first.
pbc_register ==
  /\ Doing("register")
  /\ LET f == Step.arg IN
       IF CheckFileName(f) = "DEPENDENCY"
       THEN Raise /\ UNCHANGED << faults, loads >>
       ELSE /\ registered' = IF CheckFileName(f) = "EXIST" THEN registered ELSE Append(registered, f)
            /\ asked' = Append(asked, f)
            /\ Proceed
            /\ UNCHANGED << loaded, instances, globals, locked, ids >>

\* The id in the environment: -1 when no registered file defines the message.
pbc_get_enum_value(msg) ==
  IF \E f \in Range(registered) : msg \in Defines[f]
  THEN CHOOSE n \in 1 .. 4 : msg = SetToSeq(Messages)[n]
  ELSE -1

\* The assert in Proto.test, which Proto runs while it is being loaded.
cacheable(id) == Top.file # "Proto" \/ id > 0

\* Proto.toID of the instance that app.proto or app.Proto names here.
Instance == IF Top.file = "Proto" THEN Top.instance ELSE loaded["app.proto"]
toID ==
  /\ Doing("lookup")
  /\ LET id == IF ids[Instance][Step.arg] # 0 THEN ids[Instance][Step.arg]
               ELSE pbc_get_enum_value(Step.arg)
     IN IF ~cacheable(id) THEN Raise /\ UNCHANGED << faults, loads >>
        ELSE /\ ids' = [ids EXCEPT ![Instance] = [@ EXCEPT ![Step.arg] = id]]
             /\ Proceed
             /\ UNCHANGED << loaded, instances, globals, locked, registered, asked >>

\* A file that cannot be opened or read.
Fault ==
  /\ running # << >> /\ faults < MaxFaults
  /\ Step.do \in {"require", "register"}
  /\ faults' = faults + 1
  /\ Raise
  /\ UNCHANGED loads

\* LuaScript::loadInit runs app/init.lua, which is no module.
runInitChunk ==
  /\ running = << >> /\ loads = 0
  /\ running' = << Frame("app/init.lua", "init") >>
  /\ instances' = Append(instances, [name |-> "app/init.lua", file |-> "init"])
  /\ loads' = 1
  /\ UNCHANGED << loaded, globals, locked, registered, asked, ids, failed, faults >>

RequireFromOutside(n) ==
  /\ running = << >> /\ loads < MaxLoads
  /\ loaded[n] = Nil /\ Found(n)
  /\ Start(n, << >>)
  /\ loads' = loads + 1
  /\ UNCHANGED << globals, locked, registered, asked, ids, failed, faults >>

--------------------------------------------------------------------------------

\* luaopen_protobuf_c registers the library "protobuf.c", which makes the global
\* protobuf, before any file is loaded.
ModulesInit ==
  /\ loaded = [n \in Names |-> IF n = "protobuf.c" THEN True ELSE Nil]
  /\ running = << >> /\ instances = << >>
  /\ globals = {"protobuf"} /\ locked = FALSE
  /\ registered = << >> /\ asked = << >>
  /\ ids = [i \in 1 .. Cardinality(Names) + 1 |-> [msg \in Messages |-> 0]]
  /\ failed = FALSE /\ faults = 0 /\ loads = 0

ModulesNext == \/ ll_require \/ return \/ SetGlobal \/ UseGlobal \/ LockGlobals
               \/ pbc_register \/ toID \/ Fault \/ runInitChunk
               \/ \E n \in Entries : RequireFromOutside(n)

ModulesSpec == ModulesInit /\ [][ModulesNext]_modulesVars

--------------------------------------------------------------------------------
(* Properties *)

\* The files fit together: unless a file cannot be read, app/init.lua loads
\* without an error where the file system finds app/proto.lua, every global being
\* set before it is used and before the lock, every .pb file after its imports.
InitLoads == failed /\ CaseInsensitive => faults > 0

\* No module is used half-loaded, and none is loaded twice under one name, not
\* even after an error: the sentinel keeps its name taken.
LoadedOnce ==
  /\ \A r \in Range(running) : r.file # "init" => loaded[r.name] = Sentinel
  /\ \A i, j \in DOMAIN instances : instances[i].name = instances[j].name => i = j

\* A second instance of Proto does no harm: the environment keeps each file once,
\* and every instance answers what the environment does, whichever of them
\* registered the files and whatever could not be read.
SecondLoadHarmless ==
  /\ IsInjective(registered)
  /\ \A i \in DOMAIN ids, msg \in Messages :
       ids[i][msg] # 0 => ids[i][msg] = pbc_get_enum_value(msg) /\ ids[i][msg] > 0

\* app/init.lua loads when its files can be read; no module is loaded twice under its
\* name or used half-loaded; and a second instance of Proto does no harm.
ModulesSound == InitLoads /\ LoadedOnce /\ SecondLoadHarmless
================================================================================
