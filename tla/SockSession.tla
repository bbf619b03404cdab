------------------------------ MODULE SockSession ------------------------------
(***************************************************************************)
(* The sessions (source/socket/SockSession.cpp) on top of boost::asio.     *)
(* Everything runs on the one thread that calls io_service::poll; what     *)
(* interleaves is the order in which operations complete in the kernel,    *)
(* the order in which their handlers are queued, and the server.           *)
(*                                                                         *)
(* A frame travels as two chunks, its 4-byte length header and its body    *)
(* (type code and payload), because async_read asks for exactly these two  *)
(* and either may be all that has arrived.  Chunk 2k-1 is the header of    *)
(* frame k and chunk 2k its body.  A request is sent as WriteChunks chunks *)
(* because async_write is a loop of partial writes.                        *)
(***************************************************************************)
EXTENDS Pumper

CONSTANTS
  MaxSessions,   \* bound: how many sessions connectTo may create
  Frames,        \* the frames a server may send, [type, arg] records
  Requests,      \* the requests the client may send
  ServerIDs,     \* the events connectTo can be given: directory, world
  MaxFrames,     \* bound: frames one server sends on one connection
  MaxRequests    \* bound: requests written to one session

ASSUME BoundsAssumption ==
  /\ MaxSessions \in Nat \ {0}
  /\ MaxFrames \in Nat
  /\ MaxRequests \in Nat

Sessions == 1 .. MaxSessions
WriteChunks == 2

\* A connection has at most one of these operations at a time.
ReadOps == {"connected", "header", "body"}

VARIABLES
  sock,                \* socket_: none, connecting, open, broken or closed
  reads,               \* connect and read operations in progress, oldest first
  writes,              \* write operations in progress, [msg, left], oldest first
  ready,               \* completed operations and posted calls, oldest first
  stopped,             \* the io_service ran out of work and was never reset
  connecting_timeout,  \* connecting_timeout_
  socket_failed,       \* socket_failed_
  serverID,            \* connectingServerStr_
  peer,                \* the server's end: none, up or eof
  sent,                \* frames the server has sent on the connection
  consumed,            \* chunks of them that completed reads have taken
  delivered,           \* the frames handed to callback_, in order
  posted,              \* requests handed to async_write
  wire,                \* chunks the kernel took, <<request number, chunk>>
  eventCache           \* the dispatcher's queue, filled by the callbacks

sessionVars == << sock, reads, writes, ready, stopped, connecting_timeout,
                  socket_failed, serverID, peer, sent, consumed,
                  delivered, posted, wire, eventCache >>

Completion(s, h, err, k) == [s |-> s, h |-> h, err |-> err, k |-> k]
Failure(s, h) == Completion(s, h, TRUE, 0)

--------------------------------------------------------------------------------
(* boost::asio, as the sessions use it *)

\* No operation in progress and no handler waiting to run.
Idle == /\ ready = << >>
        /\ \A s \in Sessions : reads[s] = << >> /\ writes[s] = << >>

\* The io_service stops itself when a handler returns and leaves it no work;
\* nothing in the program resets it.
WorkFinished == stopped' = (stopped \/ Idle')

\* async_read of the next chunk: in progress on a connected socket, and an
\* error at once, delivered through the queue, on any other.
Read(s, h, queue) ==
  IF sock[s] = "open"
  THEN /\ reads' = [reads EXCEPT ![s] = Append(@, h)]
       /\ ready' = queue
  ELSE /\ reads' = reads
       /\ ready' = Append(queue, Failure(s, h))

\* The handlers of the operations a closed socket aborts.
AbortedReads(s)  == [i \in DOMAIN reads[s] |-> Failure(s, reads[s][i])]
AbortedWrites(s) == [i \in DOMAIN writes[s] |-> Failure(s, "written")]

\* The handler at the head of the queue is h of session s.
Runs(s, h) == /\ ~stopped
              /\ ready # << >>
              /\ Head(ready).s = s
              /\ Head(ready).h = h

--------------------------------------------------------------------------------
(* The member functions *)

flags    == << connecting_timeout, socket_failed >>
network  == << peer, sent, consumed, wire >>
requests == << writes, posted >>

\* Mutants: the read operations mixed up.
Mutant_readStartBody(s, queue)  == Read(s, "body", queue)
Mutant_readBodyHeader(s, queue) == Read(s, "header", queue)
Mutant_readBodyAhead(s, queue)  ==
  /\ reads' = [reads EXCEPT ![s] = @ \o << "body", "header" >>]
  /\ ready' = queue

readStart(s, queue) == Read(s, "header", queue)
readBody(s, queue)  == Read(s, "body", queue)

\* close() only posts handle_closed.
close(s) == Completion(s, "closed", FALSE, 0)

\* Mutant: the event to announce is not remembered.
Mutant_connectUnnamed(s, id) ==
  /\ sock' = [sock EXCEPT ![s] = "connecting"]
  /\ serverID' = serverID
  /\ reads' = [reads EXCEPT ![s] = Append(@, "connected")]

\* connect(): the socket is opened and the connect operation started; the
\* outcome reaches handle_connected.
connect(s, id) ==
  /\ sock' = [sock EXCEPT ![s] = "connecting"]
  /\ serverID' = [serverID EXCEPT ![s] = id]
  /\ reads' = [reads EXCEPT ![s] = Append(@, "connected")]

\* write(): the request goes to async_write whatever the state of the socket.
\* Without a connection it fails at once; while the connect is in progress the
\* Windows build fails it and the others queue it behind the connect.
write(s, req) ==
  /\ posted' = [posted EXCEPT ![s] = Append(@, req)]
  /\ \/ /\ sock[s] \in {"connecting", "open"}
        /\ writes' = [writes EXCEPT ![s] =
                        Append(@, [msg |-> Len(posted[s]) + 1, left |-> WriteChunks])]
        /\ ready' = ready
     \/ /\ sock[s] # "open"
        /\ writes' = writes
        /\ ready' = Append(ready, Failure(s, "written"))
  /\ UNCHANGED << sock, reads, stopped, flags, serverID, network, delivered >>

--------------------------------------------------------------------------------
(* The handlers, each run by io_service::poll from the head of the queue *)

\* A failed connect is remembered and the read is started all the same: on the
\* unconnected socket it fails, and handle_headerRead records that too.
handle_connected(s) ==
  /\ Runs(s, "connected")
  /\ IF Head(ready).err
     THEN /\ connecting_timeout' = [connecting_timeout EXCEPT ![s] = TRUE]
          /\ eventCache' = eventCache
     ELSE /\ connecting_timeout' = connecting_timeout
          /\ eventCache' = eventCache \o serverConnectOn(s, serverID[s])
  /\ readStart(s, Tail(ready))
  /\ UNCHANGED << sock, requests, socket_failed, serverID, network, delivered >>
  /\ WorkFinished

\* Mutant: a failed read is recorded, then tried again.
Mutant_headerReadRetries(s) ==
  /\ Runs(s, "header")
  /\ IF Head(ready).err
     THEN /\ socket_failed' = [socket_failed EXCEPT ![s] = TRUE]
          /\ readStart(s, Tail(ready))
     ELSE /\ readBody(s, Tail(ready))
          /\ socket_failed' = socket_failed
  /\ UNCHANGED << sock, requests, connecting_timeout, serverID, network,
                  delivered, eventCache >>
  /\ WorkFinished

\* The header says how long the body is, which is read next; a failed read is
\* recorded and nothing more is read.
handle_headerRead(s) ==
  /\ Runs(s, "header")
  /\ IF Head(ready).err
     THEN /\ socket_failed' = [socket_failed EXCEPT ![s] = TRUE]
          /\ ready' = Tail(ready)
          /\ reads' = reads
     ELSE /\ readBody(s, Tail(ready))
          /\ socket_failed' = socket_failed
  /\ UNCHANGED << sock, requests, connecting_timeout, serverID, network,
                  delivered, eventCache >>
  /\ WorkFinished

\* buffer_ holds the frame whose body the completed read took.
handle_bodyRead(s) ==
  LET k == Head(ready).k \div 2 IN
  /\ Runs(s, "body")
  /\ IF Head(ready).err
     THEN /\ socket_failed' = [socket_failed EXCEPT ![s] = TRUE]
          /\ ready' = Tail(ready)
          /\ UNCHANGED << reads, delivered, eventCache >>
     ELSE /\ delivered' = [delivered EXCEPT ![s] = Append(@, sent[s][k])]
          /\ eventCache' = eventCache \o redirectNetBuffer(s, k, sent[s][k])
          /\ readStart(s, Tail(ready))
          /\ socket_failed' = socket_failed
  /\ UNCHANGED << sock, requests, connecting_timeout, serverID, network >>
  /\ WorkFinished

\* Closing the socket aborts every operation in progress on it.
handle_closed(s) ==
  /\ Runs(s, "closed")
  /\ sock' = [sock EXCEPT ![s] = "closed"]
  /\ ready' = Tail(ready) \o AbortedReads(s) \o AbortedWrites(s)
  /\ reads' = [reads EXCEPT ![s] = << >>]
  /\ writes' = [writes EXCEPT ![s] = << >>]
  /\ UNCHANGED << posted, flags, serverID, network, delivered, eventCache >>
  /\ WorkFinished

\* The buffer is freed; a failed write initiates a close.
handle_written(s) ==
  /\ Runs(s, "written")
  /\ ready' = IF Head(ready).err THEN Append(Tail(ready), close(s)) ELSE Tail(ready)
  /\ UNCHANGED << sock, reads, requests, flags, serverID, network, delivered,
                  eventCache >>
  /\ WorkFinished

Handler(s) == \/ handle_connected(s)
              \/ handle_headerRead(s)
              \/ handle_bodyRead(s)
              \/ handle_closed(s)
              \/ handle_written(s)

--------------------------------------------------------------------------------
(* The kernel completing operations.  The operations of one kind on one      *)
(* socket complete in the order they were started.  A stopped io_service     *)
(* collects no completion.                                                   *)

InProgress(s, h) == ~stopped /\ reads[s] # << >> /\ Head(reads[s]) = h

Complete(s, c) == /\ reads' = [reads EXCEPT ![s] = Tail(@)]
                  /\ ready' = Append(ready, c)

AcceptConnect(s) ==
  /\ InProgress(s, "connected")
  /\ sock' = [sock EXCEPT ![s] = "open"]
  /\ peer' = [peer EXCEPT ![s] = "up"]
  /\ Complete(s, Completion(s, "connected", FALSE, 0))
  /\ UNCHANGED << requests, stopped, flags, serverID, sent, consumed,
                  wire, delivered, eventCache >>

RefuseConnect(s) ==
  /\ InProgress(s, "connected")
  /\ sock' = [sock EXCEPT ![s] = "broken"]
  /\ Complete(s, Failure(s, "connected"))
  /\ UNCHANGED << requests, stopped, flags, serverID, network, delivered, eventCache >>

CompleteRead(s) ==
  \E h \in {"header", "body"} :
    /\ InProgress(s, h)
    /\ consumed[s] < 2 * Len(sent[s])
    /\ consumed' = [consumed EXCEPT ![s] = @ + 1]
    /\ Complete(s, Completion(s, h, FALSE, consumed[s] + 1))
    /\ UNCHANGED << sock, requests, stopped, flags, serverID, peer, sent,
                    wire, delivered, eventCache >>

\* Once the server's end is gone a read may fail, in the middle of a frame too:
\* what the server had sent is lost with a reset connection.
FailRead(s) ==
  \E h \in {"header", "body"} :
    /\ InProgress(s, h)
    /\ peer[s] = "eof"
    /\ Complete(s, Failure(s, h))
    /\ UNCHANGED << sock, requests, stopped, flags, serverID, network, delivered,
                    eventCache >>

\* One partial write; the kernel still takes it when the server's end is gone.
\* The rest of the request is written when its turn comes again: async_write
\* starts its next partial write behind the others in progress.
WriteSome(s) ==
  LET w == Head(writes[s])
      rest == [w EXCEPT !.left = @ - 1]
  IN
  /\ ~stopped /\ writes[s] # << >> /\ sock[s] = "open"
  /\ wire' = [wire EXCEPT ![s] = Append(@, << w.msg, WriteChunks + 1 - w.left >>)]
  /\ IF rest.left = 0
     THEN /\ writes' = [writes EXCEPT ![s] = Tail(@)]
          /\ ready' = Append(ready, Completion(s, "written", FALSE, 0))
     ELSE /\ writes' = [writes EXCEPT ![s] = Append(Tail(@), rest)]
          /\ ready' = ready
  /\ UNCHANGED << sock, reads, stopped, flags, serverID, peer, sent,
                  consumed, delivered, posted, eventCache >>

FailWrite(s) ==
  /\ ~stopped /\ writes[s] # << >>
  /\ peer[s] = "eof" \/ sock[s] = "broken"
  /\ writes' = [writes EXCEPT ![s] = Tail(@)]
  /\ ready' = Append(ready, Failure(s, "written"))
  /\ UNCHANGED << sock, reads, stopped, flags, serverID, network, delivered,
                  posted, eventCache >>

Kernel(s) == \/ AcceptConnect(s)
             \/ RefuseConnect(s)
             \/ CompleteRead(s)
             \/ FailRead(s)
             \/ WriteSome(s)
             \/ FailWrite(s)

--------------------------------------------------------------------------------
(* The server at the other end *)

PeerSend(s, f) ==
  /\ peer[s] = "up"
  /\ Len(sent[s]) < MaxFrames
  /\ sent' = [sent EXCEPT ![s] = Append(@, f)]
  /\ UNCHANGED << sock, reads, requests, ready, stopped, flags, serverID, peer,
                   consumed, wire, delivered, eventCache >>

\* The connection ends.  What the server sent before may still be read.
PeerClose(s) ==
  /\ peer[s] = "up"
  /\ peer' = [peer EXCEPT ![s] = "eof"]
  /\ UNCHANGED << sock, reads, requests, ready, stopped, flags, serverID, sent,
                   consumed, wire, delivered, eventCache >>

--------------------------------------------------------------------------------

SessionInit ==
  /\ sock = [s \in Sessions |-> "none"]
  /\ reads = [s \in Sessions |-> << >>]
  /\ writes = [s \in Sessions |-> << >>]
  /\ ready = << >>
  /\ stopped = FALSE
  /\ connecting_timeout = [s \in Sessions |-> FALSE]
  /\ socket_failed = [s \in Sessions |-> FALSE]
  /\ serverID = [s \in Sessions |-> "none"]
  /\ peer = [s \in Sessions |-> "none"]
  /\ sent = [s \in Sessions |-> << >>]
  /\ consumed = [s \in Sessions |-> 0]
  /\ delivered = [s \in Sessions |-> << >>]
  /\ posted = [s \in Sessions |-> << >>]
  /\ wire = [s \in Sessions |-> << >>]
  /\ eventCache = startUp

\* Mutant: only a failed connect counts.
Mutant_isSocketFailedConnect(s) == connecting_timeout[s]

isSocketFailed(s) == socket_failed[s] \/ connecting_timeout[s]

EventNames == {distributeRules[t] : t \in DOMAIN distributeRules} \cup ServerIDs
                \cup {"DisconnectedFromServer"}
Args == {f.arg : f \in Frames} \cup {"none"}

CompletionType == [s : Sessions, h : ReadOps \cup {"closed", "written"},
                   err : BOOLEAN, k : Nat]
WriteType == [msg : Nat, left : 1 .. WriteChunks]
EventType == [ev : EventNames, arg : Args, s : Sessions \cup {0}, k : Nat]

\* The types of the sessions' state.
SessionTypeOK ==
  /\ sock \in [Sessions -> {"none", "connecting", "open", "broken", "closed"}]
  /\ reads \in [Sessions -> Seq(ReadOps)]
  /\ writes \in [Sessions -> Seq(WriteType)]
  /\ ready \in Seq(CompletionType)
  /\ stopped \in BOOLEAN
  /\ connecting_timeout \in [Sessions -> BOOLEAN]
  /\ socket_failed \in [Sessions -> BOOLEAN]
  /\ serverID \in [Sessions -> ServerIDs \cup {"none"}]
  /\ peer \in [Sessions -> {"none", "up", "eof"}]
  /\ sent \in [Sessions -> Seq(Frames)]
  /\ consumed \in [Sessions -> Nat]
  /\ delivered \in [Sessions -> Seq(Frames)]
  /\ posted \in [Sessions -> Seq(Requests)]
  /\ wire \in [Sessions -> Seq(Nat \X (1 .. WriteChunks))]
  /\ eventCache \in Seq(EventType)
================================================================================
