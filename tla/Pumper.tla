-------------------------------- MODULE Pumper --------------------------------
(***************************************************************************)
(* The message pump (source/app/Pumper.lua): how a frame or an established *)
(* connection becomes an event of the Lua dispatcher.  A frame is its type *)
(* code's protocol name and the one field of its payload the client looks  *)
(* at.  Events carry, beside the name and the decoded field, the session   *)
(* and the frame number they come from; the program does not keep these    *)
(* two, the properties do.                                                 *)
(***************************************************************************)
EXTENDS Naturals, Sequences

\* The type code -> event table; a type code outside it is dropped silently.
distributeRules ==
  [ ResponseWorldList    |-> "WorldListNotify",
    ResponseUserRegister |-> "DirectoryRegisterUserNotify",
    ResponseLogin        |-> "LoginNotify",
    ResponseCreatePlayer |-> "CreatePlayerNotify" ]

Event(ev, arg, s, k) == [ev |-> ev, arg |-> arg, s |-> s, k |-> k]

\* startUp(): the first event, queued before the master loop starts.
startUp == << Event("DisconnectedFromServer", "none", 0, 0) >>

\* Mutant: a second rule for the same type code.
Mutant_redirectTwice(s, k, f) ==
  IF f.type \in DOMAIN distributeRules /\ f.arg # "undecodable"
  THEN LET e == Event(distributeRules[f.type], f.arg, s, k) IN << e, e >>
  ELSE << >>

\* The events frame f, number k of session s, adds to the queue: none when no
\* rule has its type code, and none when its payload does not decode (the
\* error() is caught by the lua_pcall of L_onDecodeBuffer and forgotten).
redirectNetBuffer(s, k, f) ==
  IF f.type \in DOMAIN distributeRules /\ f.arg # "undecodable"
  THEN << Event(distributeRules[f.type], f.arg, s, k) >>
  ELSE << >>

\* The event of an established connection is named by the string that
\* connectTo was given, ModelEvent.DirectoryConnected or .WorldConnected.
serverConnectOn(s, serverID) == << Event(serverID, "none", s, 0) >>
================================================================================
