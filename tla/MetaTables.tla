------------------------------ MODULE MetaTables ------------------------------
(***************************************************************************)
(* Lua tables with metatables: the loops of luaV_gettable and              *)
(* luaV_settable (lvm.c), which the client's read-only tables, classes and *)
(* the lock on globals are made of, and the flags in which a metatable     *)
(* remembers the tag methods it does not have (ltm.c).                     *)
(***************************************************************************)
EXTENDS Integers

CONSTANTS
  Tables,        \* the tables there are
  Ordinary,      \* keys that are no events
  MAXTAGLOOP,
  none, other,   \* nil, and a value that is neither a table nor a function
  function       \* a function, such as the one of ReadOnly.lua that raises an error

Events == {"__index", "__newindex"}
FieldNames == Ordinary \cup Events
Contents == Tables \cup {none, other, function}

MetaTablesAssumption ==
  /\ MAXTAGLOOP \in Nat \ {0}
  /\ Ordinary \cap Events = {}
  /\ none \notin Tables /\ other \notin Tables \cup {none}
  /\ function \notin Tables \cup {none, other}

VARIABLES
  raw,      \* the contents of each table
  meta,     \* its metatable
  flags,    \* the tag methods it is known not to have
  access    \* the access in progress: what it is about, where it has got to, its
            \* turns; after it, what it came to

metaVars == << raw, meta, flags, access >>

Finished(kind, v) == [do |-> "done", kind |-> kind, value |-> v]
Idle == access.do = "done"

--------------------------------------------------------------------------------

TM(mt, e) == IF mt = none THEN none ELSE raw[mt][e]

\* fasttm: the tag method e of a metatable.  The flag saves the search.
fasttm(fl, mt, e) == IF mt = none \/ e \in fl[mt] THEN none ELSE raw[mt][e]

\* What luaT_gettm leaves in the flags after that.
Remember(fl, mt, e) ==
  IF mt = none \/ raw[mt][e] # none THEN fl ELSE [fl EXCEPT ![mt] = @ \cup {e}]

\* A turn of either loop, on what is no table or has the tag method tm: the
\* method is called, or the access goes on with it.
Follow(tm) ==
  CASE tm = function -> access' = Finished("called", access.at)
    [] tm # function /\ access.loop = MAXTAGLOOP -> access' = Finished("loop", none)
    [] OTHER -> access' = [access EXCEPT !.at = tm, !.loop = @ + 1]

TypeError == access' = Finished("typeerror", access.at)

Begin(o) == Idle /\ access' = o /\ UNCHANGED << raw, meta, flags >>

lua_gettable(t, k) == Begin([do |-> "get", table |-> t, key |-> k, at |-> t, loop |-> 1])
lua_settable(t, k, v) ==
  Begin([do |-> "set", table |-> t, key |-> k, val |-> v, at |-> t, loop |-> 1])

\* A turn of the loop of luaV_gettable.
gettableTurn ==
  /\ access.do = "get"
  /\ IF access.at \in Tables
     THEN LET t == access.at  tm == fasttm(flags, meta[t], "__index") IN
            /\ flags' = IF raw[t][access.key] # none THEN flags ELSE Remember(flags, meta[t], "__index")
            /\ IF raw[t][access.key] # none \/ tm = none
               THEN access' = Finished("got", raw[t][access.key])
               ELSE Follow(tm)
     ELSE TypeError /\ UNCHANGED flags
  /\ UNCHANGED << raw, meta >>

\* The flags after a value was put into table t.
FlagsStored(t, fl) == [fl EXCEPT ![t] = {}]

\* A turn of the loop of luaV_settable: luaH_set clears the flags of the table, the
\* search of the tag method may set them again when the table is its own metatable,
\* and storing clears them.
settableTurn ==
  /\ access.do = "set"
  /\ IF access.at \in Tables
     THEN LET t == access.at
              set == [flags EXCEPT ![t] = {}]
              tm == fasttm(set, meta[t], "__newindex")
              searched == IF raw[t][access.key] # none THEN set
                          ELSE Remember(set, meta[t], "__newindex")
          IN IF raw[t][access.key] # none \/ tm = none
             THEN /\ raw' = [raw EXCEPT ![t][access.key] = access.val]
                  /\ flags' = FlagsStored(t, searched)
                  /\ access' = Finished("put", t)
             ELSE Follow(tm) /\ flags' = searched /\ UNCHANGED raw
     ELSE TypeError /\ UNCHANGED << raw, flags >>
  /\ UNCHANGED meta

\* Mutant: the flags are left.
Mutant_lua_rawset(t, k, v) ==
  Idle /\ raw' = [raw EXCEPT ![t][k] = v] /\ UNCHANGED << flags, meta, access >>

lua_rawset(t, k, v) ==
  /\ Idle
  /\ raw' = [raw EXCEPT ![t][k] = v]
  /\ flags' = [flags EXCEPT ![t] = {}]
  /\ UNCHANGED << meta, access >>

lua_setmetatable(t, mt) ==
  /\ Idle
  /\ meta' = [meta EXCEPT ![t] = mt]
  /\ UNCHANGED << raw, flags, access >>

--------------------------------------------------------------------------------

MetaInit ==
  /\ raw = [t \in Tables |-> [k \in FieldNames |-> none]]
  /\ meta = [t \in Tables |-> none]
  /\ flags = [t \in Tables |-> Events]
  /\ access = Finished("none", none)

\* A field holds anything, a tag method is a table or a function.
Possible(k) == IF k \in Events THEN Contents \ {other} ELSE {none, other}

MetaNext ==
  \/ \E t \in Tables, k \in FieldNames :
       \/ k \in Ordinary /\ lua_gettable(t, k)
       \/ \E v \in Possible(k) : lua_settable(t, k, v) \/ lua_rawset(t, k, v)
  \/ \E t \in Tables, mt \in Tables \cup {none} : lua_setmetatable(t, mt)
  \/ gettableTurn
  \/ settableTurn

MetaSpec == MetaInit /\ [][MetaNext]_metaVars

--------------------------------------------------------------------------------
(* Properties *)

\* What an access to key k with tag method e is at after each turn of its loop,
\* when it begins with table t.
Course(t, k, e) ==
  LET at[n \in Nat] ==
        IF n = 0 THEN t
        ELSE IF at[n - 1] \in Tables /\ raw[at[n - 1]][k] = none
             THEN TM(meta[at[n - 1]], e)
             ELSE none
  IN at

\* The tables along that course that have the key or no tag method: at most one.
Ends(t, k, e) ==
  {u \in Tables : /\ \E n \in 0 .. MAXTAGLOOP - 1 : Course(t, k, e)[n] = u
                  /\ raw[u][k] # none \/ TM(meta[u], e) = none}

Event == IF access.do = "get" THEN "__index" ELSE "__newindex"

\* An access finds, or changes, what the manual says: the first table along the
\* chain of tag methods that has the key or no tag method, and no other; an
\* access that meets a function or a loop changes nothing.  A flag hides no tag
\* method that is there, even of a table that is its own metatable, as the classes
\* of functions.lua are (cls.__index = cls), and a loop of tables is an error.
ChainFollowed ==
  [][/\ ~Idle' => access'.loop <= MAXTAGLOOP
     /\ ~Idle /\ Idle' =>
       LET ends == Ends(access.table, access.key, Event) IN
         /\ access'.kind \in {"got", "put"} <=> ends # {}
         /\ access'.kind = "got" => raw' = raw /\ \A t \in ends : access'.value = raw[t][access.key]
         /\ access'.kind = "put" =>
              \A t \in ends : raw' = [raw EXCEPT ![t][access.key] = access.val]
         /\ ends = {} => raw' = raw]_metaVars
================================================================================
