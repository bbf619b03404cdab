------------------------------ MODULE NamedStates ------------------------------
(***************************************************************************)
(* What the state of the client promises to those who use it: one value,   *)
(* with accessors isX and setX for every name, as if all of them had       *)
(* always been there.  That ClientModel makes each of them on its first    *)
(* use shows in one place only: until then it refuses to be written over.  *)
(***************************************************************************)
CONSTANTS
  States,                     \* the names of the states
  Nil, Error, Foreign, Done,  \* values, and what a call or a write gives
  Named(_), Truth(_)          \* the value of a state, an answer

VARIABLES
  current,   \* the value, Nil before there is one
  over,      \* the accessors that somebody wrote over
  settable,  \* what somebody wrote over setValue, Done while it is the class's own
  iter,      \* what the name iter stands for, Error once it was taken away
  answer     \* what the last call, read or write gave

Meaning(name) == CASE name = "iter" -> iter [] name \in States -> Named(name) [] OTHER -> Error

--------------------------------------------------------------------------------

\* Nothing changes but what the caller is told.
Tell(a) == answer' = a /\ UNCHANGED << current, over, settable, iter >>

Read == Tell(IF current = Nil THEN Error ELSE current)

\* A call of an accessor.
Use(a) ==
  \/ a \in over /\ Tell(Foreign)
  \/ a \notin over /\ Meaning(a[2]) = Error /\ Tell(Error)
  \/ /\ a \notin over /\ Meaning(a[2]) # Error /\ a[1] = "is"
     /\ Tell(Truth(current = Meaning(a[2])))
  \/ /\ a \notin over /\ Meaning(a[2]) # Error /\ a[1] = "set"
     /\ current' = Meaning(a[2]) /\ answer' = Done
     /\ UNCHANGED << over, settable, iter >>

\* Only an accessor that means something, or did, can be written over.
WriteAccessor(a, v) ==
  \/ a \notin over /\ Tell(Error)
  \/ /\ a[2] \in States \cup {"iter"}
     /\ over' = IF v = Nil THEN over \ {a} ELSE over \cup {a}
     /\ answer' = Done
     /\ UNCHANGED << current, settable, iter >>

\* Writing the value, by itself or with setValue, needs one that is already there.
WriteValue(v) ==
  \/ current = Nil /\ Tell(Error)
  \/ current # Nil /\ current' = v /\ answer' = Done /\ UNCHANGED << over, settable, iter >>

setValue(v) ==
  \/ settable = Done /\ WriteValue(v)
  \/ settable = Nil /\ Tell(Error)
  \/ settable = Foreign /\ Tell(Foreign)

WriteSetValue(v) ==
  \/ settable = Nil /\ Tell(Error)
  \/ settable # Nil /\ settable' = v /\ answer' = Done /\ UNCHANGED << current, over, iter >>

\* Of the names only iter can be written, and only as long as it is there.
WriteName(name, v) ==
  \/ (name # "iter" \/ iter = Error) /\ Tell(Error)
  \/ /\ name = "iter" /\ iter # Error
     /\ iter' = IF v = Nil THEN Error ELSE v
     /\ answer' = Done
     /\ UNCHANGED << current, over, settable >>

Init == current = Nil /\ over = {} /\ settable = Done /\ iter # Error /\ answer = Done
================================================================================
