--------------------------------- MODULE ConnFw ---------------------------------
(***************************************************************************)
(* The whole client: the master loop of ConnFw::run (source/main.cpp), the *)
(* Lua handlers that drive it (source/app/ConnectHandler.lua through       *)
(* NetworkCmd.lua), the network layer below, and the two servers it talks  *)
(* to: a directory, then the world that the directory names.               *)
(*                                                                         *)
(* The servers are not in the repository.  They are taken to answer each   *)
(* whole request of their kind once, as ConnectHandler expects.  Servers   *)
(* that send anything else are the business of SockSessionManager.         *)
(***************************************************************************)
EXTENDS SockSessionManager

CONSTANT Faults   \* which of "refuse", "close" and "resolve" may happen

VARIABLES
  pc,             \* where the loop is: update, poll, exit or terminated
  ran,            \* poll ran a handler, rv # 0
  chosenServer,   \* self.chosenServer is not nil
  served          \* requests the server has read, per connection

vars == << layerVars, pc, ran, chosenServer, served >>
loopVars == << pc, ran, chosenServer, served >>

--------------------------------------------------------------------------------
(* update: EventDispatcher.check() runs the queued events.  No handler below *)
(* fails or dispatches, so that running an event and then removing it is one *)
(* step.                                                                     *)

Now(ev) == /\ pc = "update"
           /\ eventCache # << >>
           /\ Head(eventCache).ev = ev
           /\ eventCache' = Tail(eventCache)

\* What the dispatcher and the pump leave alone.
NoCall == UNCHANGED << sock, reads, requests, ready, stopped, flags, serverID,
                       network, delivered, managerVars >>

ConnectToDirectory == connectTo("DirectoryConnected")
ConnectToWorld     == connectTo("WorldConnected")

onDisconnected ==
  /\ Now("DisconnectedFromServer")
  /\ ConnectToDirectory
  /\ UNCHANGED loopVars

onDirectoryConnected ==
  /\ Now("DirectoryConnected")
  /\ managerWrite("RequestWorldList")
  /\ UNCHANGED loopVars

\* The first world of the list is remembered; registering comes first.
onWorldListNotify ==
  /\ Now("WorldListNotify")
  /\ chosenServer' = (Head(eventCache).arg # "empty")
  /\ managerWrite("RequestUserRegister")
  /\ UNCHANGED << pc, ran, served >>

\* Mutant: logs in without moving to the world.
Mutant_userRegisteredLogsIn ==
  /\ Now("DirectoryRegisterUserNotify")
  /\ IF chosenServer THEN managerWrite("RequestLogin") ELSE NoCall
  /\ UNCHANGED loopVars

\* Mutant: without a world to go to, the session is just forgotten.
Mutant_userRegisteredForgets ==
  /\ Now("DirectoryRegisterUserNotify")
  /\ IF chosenServer
     THEN ConnectToWorld
     ELSE /\ current' = 0
          /\ UNCHANGED << sock, reads, requests, ready, stopped, flags, serverID,
                          network, delivered, created, replacedAt >>
  /\ UNCHANGED loopVars

\* Whatever the result of the registration.
onUserRegistered ==
  /\ Now("DirectoryRegisterUserNotify")
  /\ IF chosenServer THEN ConnectToWorld ELSE NoCall
  /\ UNCHANGED loopVars

onWorldConnected ==
  /\ Now("WorldConnected")
  /\ managerWrite("RequestLogin")
  /\ UNCHANGED loopVars

onLoginNotify ==
  /\ Now("LoginNotify")
  /\ IF Head(eventCache).arg = "ET_NO_DATA"
     THEN managerWrite("RequestCreatePlayer")
     ELSE NoCall
  /\ UNCHANGED loopVars

onCreatePlayerNotify ==
  /\ Now("CreatePlayerNotify")
  /\ NoCall
  /\ UNCHANGED loopVars

\* resolver.resolve throws before connect() has changed anything, and the C++
\* exception ends the program.
ResolveFails ==
  /\ "resolve" \in Faults
  /\ pc = "update" /\ eventCache # << >>
  /\ \/ Head(eventCache).ev = "DisconnectedFromServer"
     \/ Head(eventCache).ev = "DirectoryRegisterUserNotify" /\ chosenServer
  /\ pc' = "terminated"
  /\ UNCHANGED << layerVars, ran, chosenServer, served >>

--------------------------------------------------------------------------------
(* The loop *)

\* The queue is empty, update_ returns and poll starts; it stops an io_service
\* that has no work.
UpdateEnd ==
  /\ pc = "update"
  /\ eventCache = << >>
  /\ pc' = "poll"
  /\ ran' = FALSE
  /\ stopped' = (stopped \/ Idle)
  /\ UNCHANGED << sock, reads, requests, ready, flags, serverID, network,
                  delivered, eventCache, managerVars, chosenServer, served >>

PollRun ==
  /\ pc = "poll"
  /\ \E s \in Sessions : Handler(s)
  /\ ran' = TRUE
  /\ UNCHANGED << managerVars, pc, chosenServer, served >>

\* Mutant: the failure ends the loop at once.
Mutant_PollEndAtOnce ==
  /\ pc = "poll"
  /\ stopped \/ ready = << >>
  /\ pc' = IF current # 0 /\ isSocketFailed(current) THEN "exit" ELSE "update"
  /\ UNCHANGED << layerVars, ran, chosenServer, served >>

\* poll returns when no handler is ready; the loop ends after a poll that ran
\* none while the current session has failed.
PollEnd ==
  /\ pc = "poll"
  /\ stopped \/ ready = << >>
  /\ pc' = IF ~ran /\ current # 0 /\ isSocketFailed(current) THEN "exit" ELSE "update"
  /\ UNCHANGED << layerVars, ran, chosenServer, served >>

Loop == \/ onDisconnected
        \/ onDirectoryConnected
        \/ onWorldListNotify
        \/ onUserRegistered
        \/ onWorldConnected
        \/ onLoginNotify
        \/ onCreatePlayerNotify
        \/ ResolveFails
        \/ UpdateEnd
        \/ PollRun
        \/ PollEnd

--------------------------------------------------------------------------------
(* The kernel and the servers *)

KernelStep(s) ==
  /\ pc \notin {"exit", "terminated"}
  /\ \/ AcceptConnect(s)
     \/ "refuse" \in Faults /\ RefuseConnect(s)
     \/ CompleteRead(s)
     \/ FailRead(s)
     \/ WriteSome(s)
     \/ FailWrite(s)
  /\ UNCHANGED << managerVars, loopVars >>

\* The frames that answer request req at the server of serverID id.
Answers(id, req) ==
  CASE id = "DirectoryConnected" /\ req = "RequestWorldList" ->
         {[type |-> "ResponseWorldList", arg |-> a] : a \in {"empty", "some"}}
    [] id = "DirectoryConnected" /\ req = "RequestUserRegister" ->
         {[type |-> "ResponseUserRegister", arg |-> a] : a \in {"ET_OK", "ET_FAIL"}}
    [] id = "WorldConnected" /\ req = "RequestLogin" ->
         {[type |-> "ResponseLogin", arg |-> a] : a \in {"ET_OK", "ET_FAIL", "ET_NO_DATA"}}
    [] id = "WorldConnected" /\ req = "RequestCreatePlayer" ->
         {[type |-> "ResponseCreatePlayer", arg |-> "ET_OK"]}
    [] OTHER -> {}

\* The constants cover what the handlers and the servers use.
ASSUME ClientAssumption ==
  /\ {"DirectoryConnected", "WorldConnected"} \subseteq ServerIDs
  /\ {"RequestWorldList", "RequestUserRegister", "RequestLogin",
      "RequestCreatePlayer"} \subseteq Requests
  /\ \A id \in ServerIDs, req \in Requests : Answers(id, req) \subseteq Frames

\* Request number n has reached the server of s in one piece, after n - 1 others.
WholeRequest(s, n) ==
  /\ Len(wire[s]) >= WriteChunks * n
  /\ \A c \in 1 .. WriteChunks : wire[s][WriteChunks * (n - 1) + c] = << n, c >>

ServerAnswer(s) ==
  /\ pc \notin {"exit", "terminated"}
  /\ WholeRequest(s, served[s] + 1)
  /\ \E f \in Answers(serverID[s], posted[s][served[s] + 1]) : PeerSend(s, f)
  /\ served' = [served EXCEPT ![s] = @ + 1]
  /\ UNCHANGED << managerVars, pc, ran, chosenServer >>

ServerClose(s) ==
  /\ "close" \in Faults
  /\ pc \notin {"exit", "terminated"}
  /\ PeerClose(s)
  /\ UNCHANGED << managerVars, loopVars >>

Environment(s) == KernelStep(s) \/ ServerAnswer(s)

\* The process is gone.
Done == pc \in {"exit", "terminated"} /\ UNCHANGED vars

Init == /\ LayerInit
        /\ pc = "update"
        /\ ran = FALSE
        /\ chosenServer = FALSE
        /\ served = [s \in Sessions |-> 0]

Next == \/ Loop
        \/ \E s \in Sessions : Environment(s) \/ ServerClose(s)
        \/ Done

\* The loop never blocks and never sleeps; the kernel completes what it can,
\* and a server reads and answers.  No fault is ever owed.
Fairness == /\ WF_vars(Loop)
            /\ \A s \in Sessions : WF_vars(Environment(s))

Spec == Init /\ [][Next]_vars /\ Fairness

--------------------------------------------------------------------------------
(* Properties *)

\* Every step of the client is one that the layer allows its callers.
LayerRefined == LayerSpec

\* A request is only ever written to the kind of server that serves it, although
\* SockSessionManager::write picks whatever session is current when the handler
\* runs, and connectTo changes it from inside other handlers.
RequestsReachTheirServer ==
  \A s \in Sessions : \A n \in DOMAIN posted[s] :
    Answers(serverID[s], posted[s][n]) # {}

\* The bytes of two requests never mix on a connection: nothing serialises
\* SockSession::write, whose async_writes interleave if they overlap.
WireWhole ==
  \A s \in Sessions : \A i \in DOMAIN wire[s] :
    wire[s][i] = << 1 + ((i - 1) \div WriteChunks), 1 + ((i - 1) % WriteChunks) >>

\* The loop never exits on a failed session while events of frames received
\* before the failure are still to be handled.
ExitDrained == pc = "exit" => eventCache = << >>

\* The current session losing its server, or never reaching it, ends the loop,
\* unless the session is replaced.
FailureResolved ==
  \A s \in Sessions :
    current = s /\ (sock[s] = "broken" \/ peer[s] = "eof") ~>
      pc \in {"exit", "terminated"} \/ current # s

\* Nothing in progress, and no handler that would keep the session alive.
Released(s) == /\ sock[s] = "closed"
               /\ reads[s] = << >> /\ writes[s] = << >>
               /\ \A i \in DOMAIN ready : ready[i].s # s

\* A connect was refused, a server went away, or a name was not resolved.
Faulted == \/ \E s \in Sessions : sock[s] = "broken" \/ peer[s] = "eof"
           \/ pc = "terminated"

\* Unless there is a fault, a session that connectTo replaced is closed, its
\* operations are aborted, and the last reference to it goes away.
ReplacedReleased == \A s \in Sessions : 0 < s /\ s < current ~> Released(s) \/ Faulted

Answered(id, frames) ==
  \E s \in Sessions : \E n \in DOMAIN delivered[s] :
    serverID[s] = id /\ delivered[s][n] \in frames

Registered == Answered("DirectoryConnected",
                       Answers("DirectoryConnected", "RequestUserRegister"))
LoggedIn   == \/ Answered("WorldConnected",
                          {f \in Answers("WorldConnected", "RequestLogin") :
                             f.arg # "ET_NO_DATA"})
              \/ Answered("WorldConnected",
                          Answers("WorldConnected", "RequestCreatePlayer"))

\* Unless there is a fault, the client registers, moves to the world it chose and
\* logs in, creating a player when there is none.
LoginCompletes == <>(Faulted \/ (Registered /\ (chosenServer => LoggedIn)))

\* "<Connecting to world server>" (NetworkCmd.lua:70): a connect that was started
\* is answered by an established connection or by a failure.
ConnectResolves ==
  \A s \in Sessions :
    current = s /\ sock[s] = "connecting" ~>
      sock[s] # "connecting" \/ current # s \/ pc = "terminated"
================================================================================
