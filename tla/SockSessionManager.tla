--------------------------- MODULE SockSessionManager ---------------------------
(***************************************************************************)
(* The session manager (source/socket/SockSessionManager.cpp) and, around  *)
(* it, the network layer under the most general program: whoever calls     *)
(* connectTo and write may do so at any time, in any order, with any       *)
(* argument.  ConnFw composes the same layer with the program's own        *)
(* callers and is shown to implement the specification below.              *)
(***************************************************************************)
EXTENDS SockSession

VARIABLES
  current,   \* ptr_, 0 when null
  created,   \* how many sessions connectTo has created; they are numbered 1..created
  replacedAt \* how many frames a session had delivered when it was replaced

managerVars == << current, created, replacedAt >>
layerVars == << sessionVars, managerVars >>

\* Mutant: the new session is made current first, and closed in place of the old.
Mutant_connectToClosesNew(id) ==
  LET ss == created + 1 IN
  /\ created < MaxSessions
  /\ created' = ss
  /\ connect(ss, id)
  /\ ready' = IF current # 0 THEN Append(ready, close(ss)) ELSE ready
  /\ current' = ss
  /\ replacedAt' = [s \in Sessions |->
                      IF s = current THEN Len(delivered[s]) ELSE replacedAt[s]]
  /\ UNCHANGED << requests, stopped, flags, network, delivered >>

\* connectTo(): the new session starts connecting, then the close of the
\* current one is posted, then the new one becomes current.
connectTo(id) ==
  LET ss == created + 1 IN
  /\ created < MaxSessions
  /\ created' = ss
  /\ connect(ss, id)
  /\ ready' = IF current # 0 THEN Append(ready, close(current)) ELSE ready
  /\ current' = ss
  /\ replacedAt' = [s \in Sessions |->
                      IF s = current THEN Len(delivered[s]) ELSE replacedAt[s]]
  /\ UNCHANGED << requests, stopped, flags, network, delivered >>

\* write(): to the current session; without one the request is lost.
managerWrite(req) ==
  /\ IF current # 0
     THEN /\ Len(posted[current]) < MaxRequests
          /\ write(current, req)
     ELSE UNCHANGED << sock, reads, requests, ready, stopped, flags, serverID,
                       network, delivered >>
  /\ UNCHANGED managerVars

\* poll() on an io_service without work stops it.
PollIdle ==
  /\ Idle
  /\ stopped' = TRUE
  /\ UNCHANGED << sock, reads, requests, ready, flags, serverID, network,
                  delivered, eventCache, managerVars >>

--------------------------------------------------------------------------------

\* The program takes an event from the queue, or acts on its own account.
TakeEvent == \/ eventCache' = eventCache
             \/ eventCache # << >> /\ eventCache' = Tail(eventCache)

CallConnectTo == \E id \in ServerIDs : connectTo(id) /\ TakeEvent
CallWrite     == \E req \in Requests : managerWrite(req) /\ TakeEvent
DropEvent     ==
  /\ eventCache # << >>
  /\ eventCache' = Tail(eventCache)
  /\ UNCHANGED << sock, reads, requests, ready, stopped, flags, serverID,
                  network, delivered, managerVars >>

LayerInit == /\ SessionInit
             /\ current = 0
             /\ created = 0
             /\ replacedAt = [s \in Sessions |-> 0]

LayerStep(s) ==
  /\ \/ Handler(s)
     \/ Kernel(s)
     \/ \E f \in Frames : PeerSend(s, f)
     \/ PeerClose(s)
  /\ UNCHANGED managerVars

LayerNext == \/ CallConnectTo
             \/ CallWrite
             \/ DropEvent
             \/ PollIdle
             \/ \E s \in Sessions : LayerStep(s)

LayerSpec == LayerInit /\ [][LayerNext]_layerVars

--------------------------------------------------------------------------------
(* Properties *)

\* Type correctness of the layer.
TypeOK == /\ SessionTypeOK
          /\ current \in Sessions \cup {0}
          /\ created \in Sessions \cup {0}
          /\ replacedAt \in [Sessions -> Nat]

\* The completed connect and read operations of session s waiting for their
\* handler.
Waiting(s) == {i \in DOMAIN ready : ready[i].s = s /\ ready[i].h \in ReadOps}

\* A session has at most one connect or read operation, in progress or waiting
\* for its handler: the handlers reuse the one headLength_ and the one buffer_
\* of the session (SockSession.h), which two operations at a time would mix.
OneRead ==
  \A s \in Sessions :
    /\ Len(reads[s]) <= 1
    /\ Waiting(s) # {} => reads[s] = << >>
    /\ \A i, j \in Waiting(s) : i = j

\* How many chunks are consumed while operation h is in progress on a session
\* that has delivered n frames.
Position(h, n) == CASE h = "connected" -> 0
                    [] h = "header"    -> 2 * n
                    [] h = "body"      -> 2 * n + 1

\* Framing never slips, whatever is lost, closed or replaced in between: a
\* header read takes the header that follows the last delivered frame, a body
\* read the body of that header's frame, and handle_bodyRead finds it in buffer_.
Framed ==
  \A s \in Sessions :
    /\ consumed[s] <= 2 * Len(sent[s])
    /\ \A i \in DOMAIN reads[s] :
         /\ consumed[s] = Position(reads[s][i], Len(delivered[s]))
         /\ reads[s][i] = "connected" => delivered[s] = << >>
    /\ \A i \in Waiting(s) : ~ready[i].err =>
         IF ready[i].h = "connected"
         THEN consumed[s] = 0 /\ delivered[s] = << >>
         ELSE /\ consumed[s] = Position(ready[i].h, Len(delivered[s])) + 1
              /\ ready[i].k = consumed[s]

\* The dispatcher's queue holds the events of one connection in the order of
\* its frames, its connection event first, and none twice.
EventsInOrder ==
  \A i, j \in DOMAIN eventCache :
    i < j /\ eventCache[i].s = eventCache[j].s => eventCache[i].k < eventCache[j].k

\* close() is only posted, so a session connectTo has replaced goes on
\* delivering into the dispatcher; but the posted handle_closed is overtaken by
\* at most one frame.
StaleDeliveryBounded ==
  \A s \in 1 .. created :
    s # current => Len(delivered[s]) <= replacedAt[s] + 1

\* Each session is a stream of the server's frames (FrameStream).
Stream == INSTANCE FrameStream
            WITH failed <- [s \in Sessions |-> isSocketFailed(s)]
StreamSpec == Stream!Spec
================================================================================
