----------------------------- MODULE MCClientParts -----------------------------
(***************************************************************************)
(* Parts of the client that share no state, side by side: Init picks one   *)
(* of them and the others stay as they are.                                *)
(*   - buffer: every mix of appends and reads, in blocks of two to sixteen *)
(*     bytes; a negative length does nothing.                              *)
(*   - bridge: every sequence of three entries into Lua; a stack of ten    *)
(*     slots, so that a buffer joins its strings at five of them; chunks   *)
(*     of one byte, and sizes below, at and far above five chunks.         *)
(*   - modules: app/init.lua, and modules that depend on others' globals   *)
(*     or on the registered files required from outside.                   *)
(*   - state: two of the states of the client, with their setters, one     *)
(*     test, the test of iter, and the setter of no state.                 *)
(*   - messages: a list of worlds with nested messages, well sent or not.  *)
(*   - frames: lengths around the four bytes of a type code, and a         *)
(*     negative one; bits for bytes, so that an int is one of -8 .. 7.     *)
(*   - json: values and texts.                                             *)
(***************************************************************************)
EXTENDS LuaBridge, StreamBuffer, WireForeign, Registry, Protobuf

ASSUME LuaBridgeAssumption /\ StreamBufferAssumption /\ ForeignAssumption

MCLengths == {-1, 0, 1, 3, 5}
MCAnnounced == {-1, 0, 3, 4, 5}
MCEntries == {"app.Proto", "app.EnvInit", "app.libs.json", "app.model.Model", "app.NetworkCmd"}
MCFill(i) == i % 2
MCSizes == {0, 1, 4, 5, 6, 13}
MCArgLists == {<< >>, << "string" >>, << "string", "number" >>, << "nil", "numeral" >>,
               << "string", "number", "numeral", "string" >>}

MCAccessors == {<< "set", "Disconnected" >>, << "set", "Connected" >>, << "is", "Connected" >>,
                << "is", "iter" >>, << "set", "Closed" >>}

M == INSTANCE MCProtobuf
MCSchema == M!MCSchema
MCTypes == {"Notify"}
MCReceived == M!MCReceived
MCBuffers == M!MCBuffers

VARIABLES
  part,
  ro, proto, answer,
  stage, json, text, result

State == INSTANCE ClientModel WITH States <- {"Disconnected", "Connected"}, Accessors <- MCAccessors
J == INSTANCE MCJson WITH
  value <- json,
  Values <- {}, Spelled <- {}, Orders <- {}, Digits <- << "0", "1", "2", "3" >>
Json == INSTANCE Json WITH
  value <- json,
  Values <- J!MCValues, Spelled <- J!MCSpelled, Orders <- J!MCOrders, Digits <- J!MCDigits

ASSUME State!ClientModelAssumption

stateVars == << ro, proto, answer >>
jsonVars == << stage, json, text, result >>

--------------------------------------------------------------------------------

NoBuffer == /\ owned = FALSE /\ size = 0 /\ mem = << >> /\ rd = 0 /\ wr = 0 /\ appended = 0
            /\ taken = 0 /\ got = << >> /\ lost = {}
NoValue == stage = "value" /\ json = Json!Nil /\ text = << >> /\ result = Json!Nil

MCInit ==
  /\ \/ part = "buffer" /\ BufferInit /\ NoValue
     \/ part \in {"bridge", "modules", "state", "messages", "frames"} /\ NoBuffer /\ NoValue
     \/ part = "json" /\ NoBuffer /\ Json!Init
  /\ Init /\ ModulesInit /\ State!Init /\ MessagesInit /\ ForeignInit

MCNext ==
  \/ /\ part = "buffer" /\ BufferNext
     /\ UNCHANGED << part, vars, modulesVars, stateVars, messagesVars, foreignVars, jsonVars >>
  \/ /\ part = "bridge" /\ Next
     /\ UNCHANGED << part, bufferVars, modulesVars, stateVars, messagesVars, foreignVars, jsonVars >>
  \/ /\ part = "modules" /\ ModulesNext
     /\ UNCHANGED << part, bufferVars, vars, stateVars, messagesVars, foreignVars, jsonVars >>
  \/ /\ part = "state" /\ State!Next
     /\ UNCHANGED << part, bufferVars, vars, modulesVars, messagesVars, foreignVars, jsonVars >>
  \/ /\ part = "messages" /\ MessagesNext
     /\ UNCHANGED << part, bufferVars, vars, modulesVars, stateVars, foreignVars, jsonVars >>
  \/ /\ part = "frames" /\ ForeignNext
     /\ UNCHANGED << part, bufferVars, vars, modulesVars, stateVars, messagesVars, jsonVars >>
  \/ /\ part = "json" /\ Json!Next
     /\ UNCHANGED << part, bufferVars, vars, modulesVars, stateVars, messagesVars, foreignVars >>

MCSpec ==
  MCInit /\ [][MCNext]_<< part, bufferVars, vars, modulesVars, stateVars, messagesVars, foreignVars, jsonVars >>

--------------------------------------------------------------------------------
(* Properties *)

\* The accessors made on their first use do what they would if all of them had always
\* been there (ValueMaster.lua).
AccessorsAsPromised == State!Promised!Init /\ [][part = "state" => State!AsPromised]_stateVars

\* A value that JSON has words for comes back from its text (json.lua).
ValuesComeBack == Json!ComesBack
================================================================================
