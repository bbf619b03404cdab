------------------------------ MODULE ClientModel ------------------------------
(***************************************************************************)
(* The state of the client as the tables that keep it: CltState, whose     *)
(* named values lie behind a table that refuses to be written              *)
(* (ReadOnly.lua), and a table that makes its accessors isX and setX on    *)
(* their first use and keeps them (ValueMaster.lua, ClientState.lua).      *)
(*                                                                         *)
(* A table is the function of the fields it has itself.  A key is a prefix *)
(* and a name, so << "is", s >> is spelled "is" .. s, and a value is a     *)
(* pair, of which the first part tells its kind; the function kept under a *)
(* key is written as that key.                                             *)
(***************************************************************************)
CONSTANTS
  States,    \* the names in CltState
  Accessors  \* the accessors that a program uses

ClientModelAssumption ==
  /\ States \subseteq STRING \ {"iter", "Value"}
  /\ Accessors \subseteq {"is", "set"} \X (STRING \ {"Value"})

VARIABLES
  ro,      \* the table that stands before the named values; these never change
  proto,   \* the table of the value and its accessors
  answer   \* what the last call, read or write gave

vars == << ro, proto, answer >>

Nil == << "nil", "" >>
Error == << "error", "" >>
Done == << "done", "" >>
Foreign == << "foreign", "" >>   \* what a program writes of its own
Named(state) == << "value", state >>
Truth(holds) == << "boolean", IF holds THEN "true" ELSE "false" >>
Values == {Named(state) : state \in States} \cup {Foreign, Nil}

_value == << "", "_value" >>
_setValue == << "set", "Value" >>

rawget(t, k) == IF k \in DOMAIN t THEN t[k] ELSE Nil
rawset(t, k, v) ==
  [x \in IF v = Nil THEN DOMAIN t \ {k} ELSE DOMAIN t \cup {k} |-> IF x = k THEN v ELSE t[x]]

--------------------------------------------------------------------------------
(* What becomes of a table, and what the program is told *)

Outcome(t, a) == [table |-> t, answer |-> a]

\* t[k] = v: the __newindex of both tables raises an error.
Write(t, k, v) == IF k \in DOMAIN t THEN Outcome(rawset(t, k, v), Done) ELSE Outcome(t, Error)

\* m[name]: what neither table has raises an error.
Lookup(name) ==
  CASE name \in DOMAIN ro -> ro[name] [] name \in States -> Named(name) [] OTHER -> Error

\* proto[k]: the __index makes the accessor of a name that m has, and keeps it.
Index(k) ==
  CASE k \in DOMAIN proto -> Outcome(proto, proto[k])
    [] k \notin DOMAIN proto /\ k[1] \in {"is", "set"} /\ Lookup(k[2]) # Error ->
         Outcome(rawset(proto, k, k), k)
    [] OTHER -> Outcome(proto, Error)

\* The functions, when they are called on the table t; m[X] is v.
isX(t, v) == Outcome(t, Truth(rawget(t, _value) = v))

\* Mutant: the setter assigns the value, which __newindex refuses when there is none.
Mutant_setX(t, v) == Write(t, _value, v)

setX(t, v) == Outcome(rawset(t, _value, v), Done)
setValue(t, v) == Write(t, _value, v)

--------------------------------------------------------------------------------
(* What a program does *)

Give(outcome) == proto' = outcome.table /\ answer' = outcome.answer /\ UNCHANGED ro

\* proto[k](proto, v)
Call(k, v) ==
  LET found == Index(k)
      meant == Lookup(k[2])
  IN Give(IF found.answer \in {Error, Foreign} THEN found
          ELSE IF k = _setValue THEN setValue(found.table, v)
          ELSE IF meant = Error THEN Outcome(found.table, Error)
          ELSE IF k[1] = "is" THEN isX(found.table, meant) ELSE setX(found.table, meant))

Read(k) == Give(Index(k))
Assign(k, v) == Give(Write(proto, k, v))

\* ro[name] = v
AssignNamed(name, v) ==
  LET written == Write(ro, name, v) IN
    ro' = written.table /\ answer' = written.answer /\ UNCHANGED proto

\* ClientState:ctor: the class has no field Disconnected, so _value is not there.
Init ==
  /\ ro = [name \in {"iter"} |-> << "function", "iter" >>]
  /\ proto = [k \in {_setValue} |-> _setValue]
  /\ answer = Done

Next ==
  \/ Read(_value)
  \/ \E a \in Accessors : Call(a, Nil)
  \/ \E v \in Values : Call(_setValue, v) \/ Assign(_value, v)
  \/ \E v \in {Foreign, Nil} : \/ Assign(_setValue, v)
                              \/ \E a \in Accessors : Assign(a, v) \/ AssignNamed(a[2], v)

Spec == Init /\ [][Next]_vars

--------------------------------------------------------------------------------

Promised == INSTANCE NamedStates WITH
  current <- rawget(proto, _value),
  over <- {a \in Accessors : rawget(proto, a) = Foreign},
  settable <- IF rawget(proto, _setValue) = _setValue THEN Done ELSE rawget(proto, _setValue),
  iter <- IF "iter" \in DOMAIN ro THEN ro["iter"] ELSE Error

\* What a program does has the effect and the answer that it would have if all of the
\* accessors had always been there.
AsPromised ==
  /\ Read(_value) => Promised!Read
  /\ \A a \in Accessors : Call(a, Nil) => Promised!Use(a)
  /\ \A v \in Values : /\ Call(_setValue, v) => Promised!setValue(v)
                      /\ Assign(_value, v) => Promised!WriteValue(v)
  /\ \A v \in {Foreign, Nil} :
       /\ Assign(_setValue, v) => Promised!WriteSetValue(v)
       /\ \A a \in Accessors : /\ Assign(a, v) => Promised!WriteAccessor(a, v)
                               /\ AssignNamed(a[2], v) => Promised!WriteName(a[2], v)

\* ... whichever of them were used, kept, written over or taken away before, in
\* whatever order (ValueMaster.lua, ReadOnly.lua).
AccessorsAsPromised == Promised!Init /\ [][AsPromised]_vars
================================================================================
