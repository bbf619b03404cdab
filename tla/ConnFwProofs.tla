----------------------------- MODULE ConnFwProofs ------------------------------
(***************************************************************************)
(* Theorems about the network layer, under the most general program and in *)
(* the client, for every number of sessions, frames and requests.          *)
(*                                                                         *)
(* OneRead and Framed are proved together from the invariant IInv below,   *)
(* which says for each session where its one connect or read operation is: *)
(* in progress, waiting in the queue for its handler, or nowhere.  Every   *)
(* step either moves it (of one session) or keeps it (of all the others).  *)
(* Then, the network layer implements FrameStream: each of its steps hands *)
(* over the next frame of one session that has not failed, fails one       *)
(* session, sends a frame, or is invisible to the stream.  Last, from the  *)
(* invariant DInv: the events of a connection are queued in the order of   *)
(* its frames, and a session that was replaced delivers at most one more   *)
(* frame.                                                                  *)
(*                                                                         *)
(* Then the client, whatever the faults.  It implements the network        *)
(* layer's specification, so that what is proved under the most general    *)
(* program holds in it.  Its own two invariants follow: LoopInv, of the    *)
(* loop and its queue, and CInv, of the conversations with the two         *)
(* servers, from which the requests reach the right one, whole.            *)
(***************************************************************************)
EXTENDS ConnFw, TLAPS

--------------------------------------------------------------------------------
(* Sequences *)

LEMMA TailFacts ==
  ASSUME NEW S, NEW q \in Seq(S), q # << >>
  PROVE  /\ Tail(q) \in Seq(S)
         /\ Len(q) \in Nat \ {0}
         /\ Len(Tail(q)) = Len(q) - 1
         /\ DOMAIN Tail(q) = 1 .. Len(q) - 1
         /\ DOMAIN q = 1 .. Len(q)
         /\ \A i \in 1 .. Len(q) - 1 : Tail(q)[i] = q[i + 1]
         /\ Head(q) = q[1]
         /\ Head(q) \in S
OBVIOUS

LEMMA AppendFacts ==
  ASSUME NEW S, NEW q \in Seq(S), NEW c \in S
  PROVE  /\ Append(q, c) \in Seq(S)
         /\ DOMAIN q = 1 .. Len(q)
         /\ DOMAIN Append(q, c) = 1 .. Len(q) + 1
         /\ Len(Append(q, c)) = Len(q) + 1
         /\ Len(q) \in Nat
         /\ \A i \in 1 .. Len(q) : Append(q, c)[i] = q[i]
         /\ Append(q, c)[Len(q) + 1] = c
OBVIOUS

LEMMA ConcatFacts ==
  ASSUME NEW S, NEW p \in Seq(S), NEW q \in Seq(S)
  PROVE  /\ p \o q \in Seq(S)
         /\ Len(p) \in Nat /\ Len(q) \in Nat
         /\ DOMAIN p = 1 .. Len(p) /\ DOMAIN q = 1 .. Len(q)
         /\ DOMAIN (p \o q) = 1 .. Len(p) + Len(q)
         /\ \A i \in 1 .. Len(p) : (p \o q)[i] = p[i]
         /\ \A i \in Len(p) + 1 .. Len(p) + Len(q) : (p \o q)[i] = q[i - Len(p)]
OBVIOUS

--------------------------------------------------------------------------------
(* The queue of completed operations *)

\* Completion c is a connect or read operation of session s.
Op(c, s) == c.s = s /\ c.h \in ReadOps

\* Queue q holds none of session s; it holds at most one.
None(q, s) == \A i \in DOMAIN q : ~Op(q[i], s)
Only(q, s) == \A i, j \in DOMAIN q : Op(q[i], s) /\ Op(q[j], s) => i = j

\* A completion of s that fits m consumed chunks, n delivered frames and a
\* socket in state o.
Fits(c, s, m, n, o) ==
  Op(c, s) =>
    IF c.err THEN c.h = "connected" => o \in {"broken", "closed"}
             ELSE IF c.h = "connected" THEN m = 0 /\ n = 0
             ELSE m = Position(c.h, n) + 1 /\ c.k = m
AllFit(q, s, m, n, o) == \A i \in DOMAIN q : Fits(q[i], s, m, n, o)

\* Every operation of s in the queue has failed.
Failing(q, s) == \A i \in DOMAIN q : Op(q[i], s) => q[i].err

\* Replacing queue p by q adds no operation of session s.
Keeps(p, q, s) ==
  /\ None(p, s) => None(q, s)
  /\ Only(p, s) => Only(q, s)
  /\ \A m, n, o : AllFit(p, s, m, n, o) => AllFit(q, s, m, n, o)
  /\ Failing(p, s) => Failing(q, s)

Queues == Seq(CompletionType)

LEMMA KeepsTail ==
  ASSUME NEW q \in Queues, q # << >>, NEW s \in Sessions
  PROVE  Keeps(q, Tail(q), s)
<1>1. \A i \in DOMAIN Tail(q) : i + 1 \in DOMAIN q /\ Tail(q)[i] = q[i + 1]
  BY TailFacts DEF Queues
<1>2. None(q, s) => None(Tail(q), s)
  BY <1>1 DEF None
<1>3. Only(q, s) => Only(Tail(q), s)
  <2>1. DOMAIN Tail(q) \subseteq Nat
    BY TailFacts DEF Queues
  <2>. QED
    BY <1>1, <2>1 DEF Only
<1>4. \A m, n, o : AllFit(q, s, m, n, o) => AllFit(Tail(q), s, m, n, o)
  BY <1>1 DEF AllFit
<1>5. Failing(q, s) => Failing(Tail(q), s)
  BY <1>1 DEF Failing
<1>. QED
  BY <1>2, <1>3, <1>4, <1>5 DEF Keeps

LEMMA KeepsConcat ==
  ASSUME NEW p \in Queues, NEW q \in Queues, NEW s \in Sessions, None(q, s)
  PROVE  Keeps(p, p \o q, s)
<1>1. \A i \in DOMAIN (p \o q) : Op((p \o q)[i], s) => i \in DOMAIN p /\ (p \o q)[i] = p[i]
  BY ConcatFacts DEF Queues, None
<1>2. None(p, s) => None(p \o q, s)
  BY <1>1 DEF None
<1>3. Only(p, s) => Only(p \o q, s)
  BY <1>1 DEF Only
<1>4. \A m, n, o : AllFit(p, s, m, n, o) => AllFit(p \o q, s, m, n, o)
  BY <1>1 DEF AllFit, Fits
<1>5. Failing(p, s) => Failing(p \o q, s)
  BY <1>1 DEF Failing
<1>. QED
  BY <1>2, <1>3, <1>4, <1>5 DEF Keeps

LEMMA KeepsAppend ==
  ASSUME NEW q \in Queues, NEW c \in CompletionType, NEW s \in Sessions, ~Op(c, s)
  PROVE  Keeps(q, Append(q, c), s)
<1>1. \A i \in DOMAIN Append(q, c) :
        Op(Append(q, c)[i], s) => i \in DOMAIN q /\ Append(q, c)[i] = q[i]
  BY AppendFacts DEF Queues
<1>2. None(q, s) => None(Append(q, c), s)
  BY <1>1 DEF None
<1>3. Only(q, s) => Only(Append(q, c), s)
  BY <1>1 DEF Only
<1>4. \A m, n, o : AllFit(q, s, m, n, o) => AllFit(Append(q, c), s, m, n, o)
  BY <1>1 DEF AllFit, Fits
<1>5. Failing(q, s) => Failing(Append(q, c), s)
  BY <1>1 DEF Failing
<1>. QED
  BY <1>2, <1>3, <1>4, <1>5 DEF Keeps

LEMMA KeepsTrans ==
  ASSUME NEW p, NEW q, NEW r, NEW s, Keeps(p, q, s), Keeps(q, r, s)
  PROVE  Keeps(p, r, s)
BY DEF Keeps

\* A queue that held none of s and gets one.
LEMMA AppendOp ==
  ASSUME NEW q \in Queues, NEW c \in CompletionType, NEW s \in Sessions, None(q, s),
         NEW m, NEW n, NEW o, Fits(c, s, m, n, o)
  PROVE  /\ Only(Append(q, c), s) /\ AllFit(Append(q, c), s, m, n, o)
         /\ c.err => Failing(Append(q, c), s)
<1>1. \A i \in DOMAIN Append(q, c) :
        Op(Append(q, c)[i], s) => i = Len(q) + 1 /\ Append(q, c)[i] = c
  BY AppendFacts DEF Queues, None
<1>. QED
  BY <1>1 DEF Only, AllFit, Fits, Failing

LEMMA NoneFits ==
  ASSUME NEW q, NEW s, None(q, s)
  PROVE  Only(q, s) /\ Failing(q, s) /\ \A m, n, o : AllFit(q, s, m, n, o)
BY DEF None, Only, AllFit, Fits, Failing

\* Running the one operation of s leaves none.
LEMMA HeadOp ==
  ASSUME NEW q \in Queues, q # << >>, NEW s \in Sessions, Only(q, s), Op(Head(q), s)
  PROVE  None(Tail(q), s)
<1>1. \A i \in DOMAIN Tail(q) :
        i \in Nat \ {0} /\ i + 1 \in DOMAIN q /\ Tail(q)[i] = q[i + 1]
  BY TailFacts DEF Queues
<1>2. 1 \in DOMAIN q /\ q[1] = Head(q)
  BY TailFacts DEF Queues
<1>. QED
  BY <1>1, <1>2 DEF None, Only

--------------------------------------------------------------------------------
(* The inductive invariant *)

\* Where the operation of session s is, and how far its stream.
OpInv(s) ==
  \/ /\ reads[s] = << >>
     /\ Only(ready, s)
     /\ AllFit(ready, s, consumed[s], Len(delivered[s]), sock[s])
     /\ isSocketFailed(s) => Failing(ready, s)
  \/ \E h \in ReadOps :
       /\ ~isSocketFailed(s)
       /\ reads[s] = << h >>
       /\ None(ready, s)
       /\ consumed[s] = Position(h, Len(delivered[s]))
       /\ h = "connected" => Len(delivered[s]) = 0

\* A session that connectTo has not created yet.
Untouched(s) == /\ reads[s] = << >> /\ None(ready, s)
                /\ consumed[s] = 0 /\ Len(delivered[s]) = 0
                /\ ~isSocketFailed(s)

SessionInv(s) == /\ OpInv(s)
                 /\ consumed[s] <= 2 * Len(sent[s])
                 /\ s > created => Untouched(s)
                 /\ s <= created => serverID[s] \in ServerIDs

IInv == TypeOK /\ \A s \in Sessions : SessionInv(s)

\* A step that leaves a session's reads and stream alone and adds no operation
\* of it to the queue keeps its invariant.
LEMMA OtherSession ==
  ASSUME TypeOK, NEW r \in Sessions, SessionInv(r),
         reads'[r] = reads[r], consumed'[r] = consumed[r],
         delivered'[r] = delivered[r], sent'[r] = sent[r], sock'[r] = sock[r],
         serverID'[r] = serverID[r], r <= created' => r <= created,
         isSocketFailed(r)' = isSocketFailed(r),
         created' \in Nat, created' >= created,
         Keeps(ready, ready', r)
  PROVE  SessionInv(r)'
<1>1. OpInv(r)'
  <2>1. CASE reads[r] = << >> /\ Only(ready, r)
             /\ AllFit(ready, r, consumed[r], Len(delivered[r]), sock[r])
             /\ (isSocketFailed(r) => Failing(ready, r))
    BY <2>1 DEF OpInv, Keeps
  <2>2. CASE \E h \in ReadOps : /\ ~isSocketFailed(r)
                                /\ reads[r] = << h >>
                                /\ None(ready, r)
                                /\ consumed[r] = Position(h, Len(delivered[r]))
                                /\ h = "connected" => Len(delivered[r]) = 0
    BY <2>2 DEF OpInv, Keeps, Position
  <2>. QED
    BY <2>1, <2>2 DEF SessionInv, OpInv
<1>2. r > created' => r > created
  BY DEF TypeOK, Sessions
<1>3. (r > created => Untouched(r))'
  BY <1>2 DEF SessionInv, Untouched, Keeps
<1>4. (r <= created => serverID[r] \in ServerIDs)'
  BY DEF SessionInv
<1>. QED
  BY <1>1, <1>3, <1>4 DEF SessionInv

\* isSocketFailed after a step that sets no flag, or one of session s.
LEMMA SameFlags ==
  ASSUME UNCHANGED << connecting_timeout, socket_failed >>
  PROVE  \A r \in Sessions : isSocketFailed(r)' = isSocketFailed(r)
BY DEF isSocketFailed

LEMMA FlagOf ==
  ASSUME TypeOK, NEW s \in Sessions,
         \/ /\ connecting_timeout' = [connecting_timeout EXCEPT ![s] = TRUE]
            /\ socket_failed' = socket_failed
         \/ /\ socket_failed' = [socket_failed EXCEPT ![s] = TRUE]
            /\ connecting_timeout' = connecting_timeout
  PROVE  \A r \in Sessions \ {s} : isSocketFailed(r)' = isSocketFailed(r)
BY DEF TypeOK, SessionTypeOK, isSocketFailed

\* The operation of s is in progress after the step, or it is not.
LEMMA InProgressInv ==
  ASSUME NEW s \in Sessions, NEW h \in ReadOps,
         reads'[s] = << h >>, None(ready', s), ~isSocketFailed(s)',
         consumed'[s] = Position(h, Len(delivered'[s])),
         h = "connected" => Len(delivered'[s]) = 0
  PROVE  OpInv(s)'
BY DEF OpInv

LEMMA NotInProgressInv ==
  ASSUME NEW s \in Sessions,
         reads'[s] = << >>, Only(ready', s),
         AllFit(ready', s, consumed'[s], Len(delivered'[s]), sock'[s]),
         isSocketFailed(s)' => Failing(ready', s)
  PROVE  OpInv(s)'
BY DEF OpInv

LEMMA StreamTypes ==
  ASSUME IInv, NEW s \in Sessions
  PROVE  /\ Len(delivered[s]) \in Nat /\ Len(sent[s]) \in Nat
         /\ sent[s] \in Seq(Frames) /\ delivered[s] \in Seq(Frames)
         /\ consumed[s] \in Nat
         /\ consumed[s] <= 2 * Len(sent[s])
<1>1. sent[s] \in Seq(Frames) /\ delivered[s] \in Seq(Frames) /\ consumed[s] \in Nat
  BY DEF IInv, TypeOK, SessionTypeOK
<1>2. consumed[s] <= 2 * Len(sent[s])
  BY DEF IInv, SessionInv
<1>. QED
  BY <1>1, <1>2

\* A step of session s, once it is clear what it does to that session.
LEMMA SessionStep ==
  ASSUME IInv, TypeOK', NEW s \in Sessions, s <= created \/ Untouched(s)',
         created' = created, serverID' = serverID,
         OpInv(s)', consumed'[s] <= 2 * Len(sent'[s]),
         \A r \in Sessions \ {s} :
           /\ reads'[r] = reads[r] /\ consumed'[r] = consumed[r]
           /\ delivered'[r] = delivered[r] /\ sent'[r] = sent[r]
           /\ sock'[r] = sock[r] /\ isSocketFailed(r)' = isSocketFailed(r)
           /\ Keeps(ready, ready', r)
  PROVE  IInv'
<1>1. ASSUME NEW r \in Sessions \ {s} PROVE SessionInv(r)'
  BY OtherSession DEF IInv, TypeOK, Sessions
<1>2. SessionInv(s)'
  BY DEF SessionInv, IInv, TypeOK, Sessions
<1>. QED
  BY <1>1, <1>2 DEF IInv

\* The operation of s waits at the head of the queue.
LEMMA RunningOp ==
  ASSUME IInv, NEW s \in Sessions, NEW h \in ReadOps, Runs(s, h)
  PROVE  /\ ready \in Queues /\ ready # << >>
         /\ Head(ready) \in CompletionType
         /\ Tail(ready) \in Queues
         /\ reads[s] = << >>
         /\ None(Tail(ready), s)
         /\ s <= created /\ serverID[s] \in ServerIDs
         /\ Fits(Head(ready), s, consumed[s], Len(delivered[s]), sock[s])
         /\ ~Head(ready).err => ~isSocketFailed(s)
<1>1. /\ ready \in Queues /\ ready # << >>
      /\ Head(ready) \in CompletionType /\ Tail(ready) \in Queues
      /\ 1 \in DOMAIN ready /\ ready[1] = Head(ready)
  <2>1. ready \in Queues /\ ready # << >>
    BY DEF IInv, TypeOK, SessionTypeOK, Runs, Queues
  <2>. QED
    BY <2>1, TailFacts DEF Queues
<1>2. Op(Head(ready), s)
  BY DEF Runs, Op
<1>3. ~None(ready, s)
  BY <1>1, <1>2 DEF None
<1>4. /\ reads[s] = << >> /\ Only(ready, s)
      /\ AllFit(ready, s, consumed[s], Len(delivered[s]), sock[s])
      /\ isSocketFailed(s) => Failing(ready, s)
  BY <1>3 DEF IInv, SessionInv, OpInv
<1>5. s <= created /\ serverID[s] \in ServerIDs
  BY <1>3 DEF IInv, TypeOK, SessionInv, Untouched, Sessions
<1>6. None(Tail(ready), s)
  BY <1>1, <1>2, <1>4, HeadOp
<1>7. Fits(Head(ready), s, consumed[s], Len(delivered[s]), sock[s])
  BY <1>1, <1>4 DEF AllFit
<1>8. ~Head(ready).err => ~isSocketFailed(s)
  BY <1>1, <1>2, <1>4 DEF Failing
<1>. QED
  BY <1>1, <1>4, <1>5, <1>6, <1>7, <1>8

\* What starting the next read of s does.
LEMMA ReadStep ==
  ASSUME TypeOK, NEW s \in Sessions, NEW h \in {"header", "body"}, NEW q \in Queues,
         reads[s] = << >>, None(q, s), Read(s, h, q)
  PROVE  /\ reads' \in [Sessions -> Seq(ReadOps)]
         /\ ready' \in Queues
         /\ \A r \in Sessions \ {s} : reads'[r] = reads[r] /\ Keeps(q, ready', r)
         /\ \/ sock[s] = "open" /\ reads'[s] = << h >> /\ None(ready', s)
            \/ /\ reads'[s] = << >> /\ Only(ready', s) /\ Failing(ready', s)
               /\ \A m, n, o : AllFit(ready', s, m, n, o)
<1>1. CASE sock[s] = "open"
  <2>1. reads' = [reads EXCEPT ![s] = Append(@, h)] /\ ready' = q
    BY <1>1 DEF Read
  <2>2. Append(reads[s], h) = << h >> /\ << h >> \in Seq(ReadOps)
    BY DEF ReadOps
  <2>3. \A r \in Sessions : Keeps(q, q, r)
    BY DEF Keeps
  <2>. QED
    BY <1>1, <2>1, <2>2, <2>3 DEF TypeOK, SessionTypeOK
<1>2. CASE sock[s] # "open"
  <2>1. reads' = reads /\ ready' = Append(q, Failure(s, h))
    BY <1>2 DEF Read
  <2>2. Failure(s, h) \in CompletionType
    BY DEF Failure, Completion, CompletionType, ReadOps
  <2>3. \A r \in Sessions \ {s} : ~Op(Failure(s, h), r)
    BY DEF Op, Failure, Completion
  <2>4. \A m, n, o : Fits(Failure(s, h), s, m, n, o)
    BY DEF Fits, Failure, Completion
  <2>5. Append(q, Failure(s, h)) \in Queues
    BY <2>2, AppendFacts DEF Queues
  <2>6. \A r \in Sessions \ {s} : Keeps(q, Append(q, Failure(s, h)), r)
    BY <2>2, <2>3, KeepsAppend
  <2>7. /\ Only(Append(q, Failure(s, h)), s)
        /\ \A m, n, o : AllFit(Append(q, Failure(s, h)), s, m, n, o)
        /\ Failing(Append(q, Failure(s, h)), s)
    <3>1. Failure(s, h).err
      BY DEF Failure, Completion
    <3>. QED
      BY <2>2, <2>4, <3>1, AppendOp
  <2>. QED
    BY <2>1, <2>5, <2>6, <2>7 DEF TypeOK, SessionTypeOK
<1>. QED
  BY <1>1, <1>2

--------------------------------------------------------------------------------
(* Types of what the handlers produce *)

LEMMA WorkFinishedType ==
  ASSUME WorkFinished
  PROVE  stopped' \in BOOLEAN
BY DEF WorkFinished

LEMMA ConnectEventType ==
  ASSUME NEW q \in Seq(EventType), NEW s \in Sessions, NEW id \in ServerIDs
  PROVE  q \o serverConnectOn(s, id) \in Seq(EventType)
<1>1. Event(id, "none", s, 0) \in EventType
  BY DEF Event, EventType, EventNames, Args
<1>2. serverConnectOn(s, id) \in Seq(EventType)
  BY <1>1 DEF serverConnectOn
<1>. QED
  BY <1>2, ConcatFacts

LEMMA FrameEventType ==
  ASSUME NEW q \in Seq(EventType), NEW s \in Sessions, NEW k \in Nat, NEW f \in Frames
  PROVE  q \o redirectNetBuffer(s, k, f) \in Seq(EventType)
<1>1. CASE f.type \in DOMAIN distributeRules /\ f.arg # "undecodable"
  <2>1. Event(distributeRules[f.type], f.arg, s, k) \in EventType
    BY <1>1 DEF Event, EventType, EventNames, Args
  <2>2. redirectNetBuffer(s, k, f) \in Seq(EventType)
    BY <1>1, <2>1 DEF redirectNetBuffer
  <2>. QED
    BY <2>2, ConcatFacts
<1>2. CASE ~(f.type \in DOMAIN distributeRules /\ f.arg # "undecodable")
  <2>1. redirectNetBuffer(s, k, f) \in Seq(EventType)
    BY <1>2 DEF redirectNetBuffer
  <2>. QED
    BY <2>1, ConcatFacts
<1>. QED
  BY <1>1, <1>2

LEMMA FrameNumber ==
  ASSUME NEW n \in Nat, NEW l \in Nat, NEW c, c = 2 * n + 2, 2 * n + 2 <= 2 * l
  PROVE  c \div 2 = n + 1 /\ n + 1 \in 1 .. l
OBVIOUS

--------------------------------------------------------------------------------
(* The handlers *)

LEMMA ConnectedInv ==
  ASSUME IInv, NEW s \in Sessions, handle_connected(s), UNCHANGED managerVars
  PROVE  IInv'
<1>. DEFINE q == Tail(ready)
<1>1. /\ ready \in Queues /\ ready # << >> /\ q \in Queues
      /\ reads[s] = << >> /\ None(q, s)
      /\ s <= created /\ serverID[s] \in ServerIDs
      /\ Head(ready) \in CompletionType
      /\ Fits(Head(ready), s, consumed[s], Len(delivered[s]), sock[s])
      /\ ~Head(ready).err => ~isSocketFailed(s)
  BY RunningOp DEF handle_connected, ReadOps
<1>2. Head(ready).s = s /\ Head(ready).h = "connected"
  BY DEF handle_connected, Runs
<1>3. /\ reads' \in [Sessions -> Seq(ReadOps)]
      /\ ready' \in Queues
      /\ \A r \in Sessions \ {s} : reads'[r] = reads[r] /\ Keeps(q, ready', r)
      /\ \/ sock[s] = "open" /\ reads'[s] = << "header" >> /\ None(ready', s)
         \/ /\ reads'[s] = << >> /\ Only(ready', s) /\ Failing(ready', s)
            /\ \A m, n, o : AllFit(ready', s, m, n, o)
  BY <1>1, ReadStep DEF handle_connected, readStart, IInv
<1>4. /\ UNCHANGED << sock, writes, posted, socket_failed, serverID, peer, sent,
                     consumed, wire, delivered, current, created, replacedAt >>
  BY DEF handle_connected, requests, network, managerVars
<1>5. TypeOK'
  <2>1. eventCache' \in Seq(EventType)
    <3>1. eventCache \in Seq(EventType)
      BY DEF IInv, TypeOK, SessionTypeOK
    <3>2. eventCache' \in {eventCache, eventCache \o serverConnectOn(s, serverID[s])}
      BY DEF handle_connected
    <3>. QED
      BY <1>1, <3>1, <3>2, ConnectEventType
  <2>2. connecting_timeout' \in [Sessions -> BOOLEAN]
    BY DEF handle_connected, IInv, TypeOK, SessionTypeOK
  <2>3. stopped' \in BOOLEAN
    BY WorkFinishedType DEF handle_connected
  <2>4. reads' \in [Sessions -> Seq(ReadOps)] /\ ready' \in Seq(CompletionType)
    BY <1>3 DEF Queues
  <2>5. SessionTypeOK /\ current \in Sessions \cup {0} /\ created \in Sessions \cup {0}
        /\ replacedAt \in [Sessions -> Nat]
    BY DEF IInv, TypeOK
  <2>6. SessionTypeOK'
    BY <2>1, <2>2, <2>3, <2>4, <2>5, <1>4 DEF SessionTypeOK
  <2>. QED
    BY <2>5, <2>6, <1>4 DEF TypeOK
<1>6. \A r \in Sessions \ {s} : Keeps(ready, ready', r)
  BY <1>1, <1>3, KeepsTail, KeepsTrans
<1>7. OpInv(s)'
  <2>1. CASE sock[s] = "open" /\ reads'[s] = << "header" >> /\ None(ready', s)
    <3>1. consumed[s] = 0 /\ Len(delivered[s]) = 0 /\ ~Head(ready).err
      BY <1>1, <1>2, <2>1 DEF Fits, Op, ReadOps
    <3>2. consumed'[s] = Position("header", Len(delivered'[s]))
      BY <1>4, <3>1 DEF Position
    <3>3. ~isSocketFailed(s)'
      BY <1>1, <3>1, SameFlags DEF handle_connected
    <3>. QED
      BY <2>1, <3>2, <3>3, InProgressInv DEF ReadOps
  <2>2. CASE /\ reads'[s] = << >> /\ Only(ready', s) /\ Failing(ready', s)
             /\ \A m, n, o : AllFit(ready', s, m, n, o)
    BY <2>2, NotInProgressInv
  <2>. QED
    BY <1>3, <2>1, <2>2
<1>8. consumed'[s] <= 2 * Len(sent'[s])
  BY <1>4 DEF IInv, SessionInv
<1>9. \A r \in Sessions \ {s} : isSocketFailed(r)' = isSocketFailed(r)
  <2>1. CASE Head(ready).err
    BY <2>1, FlagOf DEF handle_connected, IInv
  <2>2. CASE ~Head(ready).err
    BY <2>2, SameFlags DEF handle_connected
  <2>. QED
    BY <2>1, <2>2
<1>. QED
  BY <1>1, <1>3, <1>4, <1>5, <1>6, <1>7, <1>8, <1>9, SessionStep

LEMMA HeaderReadInv ==
  ASSUME IInv, NEW s \in Sessions, handle_headerRead(s), UNCHANGED managerVars
  PROVE  IInv'
<1>. DEFINE q == Tail(ready)
<1>1. /\ ready \in Queues /\ ready # << >> /\ q \in Queues
      /\ reads[s] = << >> /\ None(q, s) /\ s <= created
      /\ Head(ready) \in CompletionType
      /\ Fits(Head(ready), s, consumed[s], Len(delivered[s]), sock[s])
      /\ ~Head(ready).err => ~isSocketFailed(s)
  BY RunningOp DEF handle_headerRead, ReadOps
<1>2. Head(ready).s = s /\ Head(ready).h = "header"
  BY DEF handle_headerRead, Runs
<1>3. UNCHANGED << sock, writes, posted, connecting_timeout, serverID, peer, sent,
                  consumed, wire, delivered, eventCache, current, created, replacedAt >>
  BY DEF handle_headerRead, requests, network, managerVars
<1>4. /\ reads' \in [Sessions -> Seq(ReadOps)]
      /\ ready' \in Queues
      /\ \A r \in Sessions \ {s} : reads'[r] = reads[r] /\ Keeps(q, ready', r)
      /\ \A r \in Sessions \ {s} : isSocketFailed(r)' = isSocketFailed(r)
      /\ OpInv(s)'
  <2>1. CASE Head(ready).err
    <3>1. ready' = q /\ reads' = reads
      BY <2>1 DEF handle_headerRead
    <3>2. \A r \in Sessions : Keeps(q, q, r)
      BY DEF Keeps
    <3>3. Only(q, s) /\ Failing(q, s) /\ \A m, n, o : AllFit(q, s, m, n, o)
      BY <1>1, NoneFits
    <3>4. OpInv(s)'
      BY <1>1, <3>1, <3>3, NotInProgressInv
    <3>5. \A r \in Sessions \ {s} : isSocketFailed(r)' = isSocketFailed(r)
      BY <1>3, <2>1, FlagOf DEF handle_headerRead, IInv
    <3>. QED
      BY <1>1, <3>1, <3>2, <3>4, <3>5 DEF IInv, TypeOK, SessionTypeOK
  <2>2. CASE ~Head(ready).err
    <3>1. Read(s, "body", q)
      BY <2>2 DEF handle_headerRead, readBody
    <3>2. /\ reads' \in [Sessions -> Seq(ReadOps)]
          /\ ready' \in Queues
          /\ \A r \in Sessions \ {s} : reads'[r] = reads[r] /\ Keeps(q, ready', r)
          /\ \/ sock[s] = "open" /\ reads'[s] = << "body" >> /\ None(ready', s)
             \/ /\ reads'[s] = << >> /\ Only(ready', s) /\ Failing(ready', s)
                /\ \A m, n, o : AllFit(ready', s, m, n, o)
      BY <1>1, <3>1, ReadStep DEF IInv
    <3>3. \A r \in Sessions : isSocketFailed(r)' = isSocketFailed(r)
      BY <1>3, <2>2, SameFlags DEF handle_headerRead
    <3>4. OpInv(s)'
      <4>1. CASE reads'[s] = << "body" >> /\ None(ready', s)
        <5>1. consumed[s] = Position("header", Len(delivered[s])) + 1
          BY <1>1, <1>2, <2>2 DEF Fits, Op, ReadOps
        <5>2. consumed'[s] = Position("body", Len(delivered'[s]))
          BY <1>3, <5>1 DEF Position
        <5>3. ~isSocketFailed(s)'
          BY <1>1, <2>2, <3>3
        <5>. QED
          BY <4>1, <5>2, <5>3, InProgressInv DEF ReadOps
      <4>2. CASE /\ reads'[s] = << >> /\ Only(ready', s) /\ Failing(ready', s)
                 /\ \A m, n, o : AllFit(ready', s, m, n, o)
        BY <4>2, NotInProgressInv
      <4>. QED
        BY <3>2, <4>1, <4>2
    <3>. QED
      BY <3>2, <3>3, <3>4
  <2>. QED
    BY <2>1, <2>2
<1>5. TypeOK'
  <2>1. socket_failed' \in [Sessions -> BOOLEAN]
    BY DEF handle_headerRead, IInv, TypeOK, SessionTypeOK
  <2>2. stopped' \in BOOLEAN
    BY WorkFinishedType DEF handle_headerRead
  <2>. QED
    BY <2>1, <2>2, <1>3, <1>4 DEF IInv, TypeOK, SessionTypeOK, Queues
<1>6. \A r \in Sessions \ {s} : Keeps(ready, ready', r)
  BY <1>1, <1>4, KeepsTail, KeepsTrans
<1>7. consumed'[s] <= 2 * Len(sent'[s])
  BY <1>3 DEF IInv, SessionInv
<1>. QED
  BY <1>1, <1>3, <1>4, <1>5, <1>6, <1>7, SessionStep

LEMMA BodyReadInv ==
  ASSUME IInv, NEW s \in Sessions, handle_bodyRead(s), UNCHANGED managerVars
  PROVE  IInv'
<1>. DEFINE q == Tail(ready)
            k == Head(ready).k \div 2
<1>1. /\ ready \in Queues /\ ready # << >> /\ q \in Queues
      /\ reads[s] = << >> /\ None(q, s) /\ s <= created
      /\ Head(ready) \in CompletionType
      /\ Fits(Head(ready), s, consumed[s], Len(delivered[s]), sock[s])
      /\ ~Head(ready).err => ~isSocketFailed(s)
  BY RunningOp DEF handle_bodyRead, ReadOps
<1>2. Head(ready).s = s /\ Head(ready).h = "body"
  BY DEF handle_bodyRead, Runs
<1>3. UNCHANGED << sock, writes, posted, connecting_timeout, serverID, peer, sent,
                  consumed, wire, current, created, replacedAt >>
  BY DEF handle_bodyRead, requests, network, managerVars
<1>4. CASE Head(ready).err
  <2>1. /\ ready' = q /\ socket_failed' = [socket_failed EXCEPT ![s] = TRUE]
        /\ UNCHANGED << reads, delivered, eventCache >>
    BY <1>4 DEF handle_bodyRead
  <2>2. \A r \in Sessions \ {s} : Keeps(ready, q, r)
    BY <1>1, KeepsTail
  <2>3. OpInv(s)'
    BY <1>1, <2>1, NoneFits, NotInProgressInv
  <2>4. stopped' \in BOOLEAN
    BY WorkFinishedType DEF handle_bodyRead
  <2>5. TypeOK'
    BY <1>1, <1>3, <2>1, <2>4 DEF IInv, TypeOK, SessionTypeOK, Queues
  <2>6. consumed'[s] <= 2 * Len(sent'[s])
    BY <1>3 DEF IInv, SessionInv
  <2>7. \A r \in Sessions \ {s} : isSocketFailed(r)' = isSocketFailed(r)
    BY <1>3, <2>1, FlagOf DEF IInv
  <2>. QED
    BY <1>1, <1>3, <2>1, <2>2, <2>3, <2>5, <2>6, <2>7, SessionStep
<1>5. CASE ~Head(ready).err
  <2>1. /\ delivered' = [delivered EXCEPT ![s] = Append(@, sent[s][k])]
        /\ eventCache' = eventCache \o redirectNetBuffer(s, k, sent[s][k])
        /\ Read(s, "header", q)
        /\ socket_failed' = socket_failed
    BY <1>5 DEF handle_bodyRead, readStart
  <2>2. /\ consumed[s] = 2 * Len(delivered[s]) + 2
        /\ Head(ready).k = 2 * Len(delivered[s]) + 2
    <3>1. Position("body", Len(delivered[s])) = 2 * Len(delivered[s]) + 1
      BY DEF Position
    <3>2. /\ consumed[s] = Position("body", Len(delivered[s])) + 1
          /\ Head(ready).k = consumed[s]
      BY <1>1, <1>2, <1>5 DEF Fits, Op, ReadOps
    <3>. QED
      BY <3>1, <3>2 DEF IInv, TypeOK, SessionTypeOK
  <2>3. /\ Len(delivered[s]) \in Nat /\ Len(sent[s]) \in Nat
        /\ sent[s] \in Seq(Frames) /\ delivered[s] \in Seq(Frames)
        /\ consumed[s] <= 2 * Len(sent[s])
    BY StreamTypes
  <2>4. k = Len(delivered[s]) + 1 /\ k \in 1 .. Len(sent[s])
    <3>1. 2 * Len(delivered[s]) + 2 <= 2 * Len(sent[s])
      BY <2>2, <2>3
    <3>. QED
      BY <2>2, <2>3, <3>1, FrameNumber
  <2>5. sent[s][k] \in Frames
    BY <2>3, <2>4
  <2>6. /\ delivered' \in [Sessions -> Seq(Frames)]
        /\ Len(delivered'[s]) = Len(delivered[s]) + 1
        /\ \A r \in Sessions \ {s} : delivered'[r] = delivered[r]
    <3>1. /\ Append(delivered[s], sent[s][k]) \in Seq(Frames)
          /\ Len(Append(delivered[s], sent[s][k])) = Len(delivered[s]) + 1
      BY <2>3, <2>5, AppendFacts
    <3>2. delivered \in [Sessions -> Seq(Frames)]
      BY DEF IInv, TypeOK, SessionTypeOK
    <3>. QED
      BY <2>1, <3>1, <3>2
  <2>7. /\ reads' \in [Sessions -> Seq(ReadOps)]
        /\ ready' \in Queues
        /\ \A r \in Sessions \ {s} : reads'[r] = reads[r] /\ Keeps(q, ready', r)
        /\ \/ sock[s] = "open" /\ reads'[s] = << "header" >> /\ None(ready', s)
           \/ /\ reads'[s] = << >> /\ Only(ready', s) /\ Failing(ready', s)
              /\ \A m, n, o : AllFit(ready', s, m, n, o)
    BY <1>1, <2>1, ReadStep DEF IInv
  <2>12. \A r \in Sessions : isSocketFailed(r)' = isSocketFailed(r)
    BY <1>3, <2>1, SameFlags
  <2>8. OpInv(s)'
    <3>1. CASE reads'[s] = << "header" >> /\ None(ready', s)
      <4>1. Position("header", Len(delivered'[s])) = 2 * Len(delivered'[s])
        BY DEF Position
      <4>2. consumed'[s] = Position("header", Len(delivered'[s]))
        BY <1>3, <2>2, <2>3, <2>6, <4>1
      <4>3. ~isSocketFailed(s)'
        BY <1>1, <1>5, <2>12
      <4>. QED
        BY <3>1, <4>2, <4>3, InProgressInv DEF ReadOps
    <3>2. CASE /\ reads'[s] = << >> /\ Only(ready', s) /\ Failing(ready', s)
               /\ \A m, n, o : AllFit(ready', s, m, n, o)
      BY <3>2, NotInProgressInv
    <3>. QED
      BY <2>7, <3>1, <3>2
  <2>9. TypeOK'
    <3>1. eventCache' \in Seq(EventType)
      <4>1. eventCache \in Seq(EventType) /\ k \in Nat
        BY <2>3, <2>4 DEF IInv, TypeOK, SessionTypeOK
      <4>. HIDE DEF k
      <4>. QED
        BY <2>1, <2>5, <4>1, FrameEventType
    <3>2. stopped' \in BOOLEAN
      BY WorkFinishedType DEF handle_bodyRead
    <3>. QED
      BY <3>1, <3>2, <1>3, <2>1, <2>6, <2>7 DEF IInv, TypeOK, SessionTypeOK, Queues
  <2>10. \A r \in Sessions \ {s} : Keeps(ready, ready', r)
    BY <1>1, <2>7, KeepsTail, KeepsTrans
  <2>11. consumed'[s] <= 2 * Len(sent'[s])
    BY <1>3, <2>3
  <2>. QED
    BY <1>1, <1>3, <2>6, <2>7, <2>8, <2>9, <2>10, <2>11, <2>12, SessionStep
<1>. QED
  BY <1>4, <1>5

LEMMA AbortedFacts ==
  ASSUME IInv, NEW s \in Sessions
  PROVE  /\ AbortedReads(s) \in Queues /\ AbortedWrites(s) \in Queues
         /\ \A r \in Sessions : None(AbortedWrites(s), r)
         /\ \A r \in Sessions \ {s} : None(AbortedReads(s), r)
         /\ reads[s] = << >> => None(AbortedReads(s), s)
<1>1. reads[s] \in Seq(ReadOps) /\ writes[s] \in Seq(WriteType)
  BY DEF IInv, TypeOK, SessionTypeOK
<1>2. \A h \in ReadOps \cup {"written"} : Failure(s, h) \in CompletionType
  BY DEF Failure, Completion, CompletionType
<1>3. AbortedReads(s) \in Queues
  BY <1>1, <1>2 DEF AbortedReads, Queues
<1>4. AbortedWrites(s) \in Queues
  BY <1>1, <1>2 DEF AbortedWrites, Queues
<1>5. \A r \in Sessions : None(AbortedWrites(s), r)
  BY DEF AbortedWrites, None, Op, Failure, Completion, ReadOps
<1>6. \A r \in Sessions \ {s} : None(AbortedReads(s), r)
  BY DEF AbortedReads, None, Op, Failure, Completion
<1>7. reads[s] = << >> => None(AbortedReads(s), s)
  BY DEF AbortedReads, None
<1>. QED
  BY <1>3, <1>4, <1>5, <1>6, <1>7

LEMMA ClosedInv ==
  ASSUME IInv, NEW s \in Sessions, handle_closed(s), UNCHANGED managerVars
  PROVE  IInv'
<1>. DEFINE q == Tail(ready) \o AbortedReads(s)
<1>1. /\ ready \in Queues /\ ready # << >> /\ Tail(ready) \in Queues
  <2>1. ready \in Queues /\ ready # << >>
    BY DEF IInv, TypeOK, SessionTypeOK, handle_closed, Runs, Queues
  <2>. QED
    BY <2>1, TailFacts DEF Queues
<1>2. /\ sock' = [sock EXCEPT ![s] = "closed"]
      /\ ready' = q \o AbortedWrites(s)
      /\ reads' = [reads EXCEPT ![s] = << >>]
      /\ writes' = [writes EXCEPT ![s] = << >>]
      /\ UNCHANGED << posted, connecting_timeout, socket_failed, serverID, peer, sent,
                      consumed, wire, delivered, eventCache, current, created, replacedAt >>
  BY DEF handle_closed, flags, network, managerVars
<1>3. /\ q \in Queues /\ q \o AbortedWrites(s) \in Queues
      /\ \A r \in Sessions : Keeps(q, q \o AbortedWrites(s), r)
  BY <1>1, AbortedFacts, ConcatFacts, KeepsConcat DEF Queues
<1>4. \A r \in Sessions \ {s} : Keeps(ready, ready', r)
  <2>1. TAKE r \in Sessions \ {s}
  <2>2. Keeps(ready, Tail(ready), r)
    BY <1>1, KeepsTail
  <2>3. Keeps(Tail(ready), q, r)
    BY <1>1, AbortedFacts, KeepsConcat
  <2>. QED
    BY <1>2, <1>3, <2>2, <2>3, KeepsTrans
<1>9. \A r \in Sessions : isSocketFailed(r)' = isSocketFailed(r)
  BY <1>2, SameFlags
<1>5. OpInv(s)'
  <2>. DEFINE m == consumed[s]
              n == Len(delivered[s])
  <2>1. /\ Only(q, s) /\ AllFit(q, s, m, n, "closed")
        /\ isSocketFailed(s) => Failing(q, s)
    <3>1. CASE /\ reads[s] = << >> /\ Only(ready, s) /\ AllFit(ready, s, m, n, sock[s])
               /\ isSocketFailed(s) => Failing(ready, s)
      <4>1. AllFit(ready, s, m, n, "closed")
        BY <3>1 DEF AllFit, Fits
      <4>2. /\ Only(Tail(ready), s) /\ AllFit(Tail(ready), s, m, n, "closed")
            /\ isSocketFailed(s) => Failing(Tail(ready), s)
        BY <1>1, <3>1, <4>1, KeepsTail DEF Keeps
      <4>3. Keeps(Tail(ready), q, s)
        BY <1>1, <3>1, AbortedFacts, KeepsConcat
      <4>. QED
        BY <4>2, <4>3 DEF Keeps
    <3>2. CASE \E h \in ReadOps :
                 reads[s] = << h >> /\ None(ready, s) /\ ~isSocketFailed(s)
      <4>1. PICK h \in ReadOps : reads[s] = << h >> /\ None(ready, s)
        BY <3>2
      <4>2. None(Tail(ready), s)
        BY <1>1, <4>1, KeepsTail DEF Keeps
      <4>3. AbortedReads(s) = << Failure(s, h) >>
        BY <4>1 DEF AbortedReads
      <4>4. q = Append(Tail(ready), Failure(s, h))
        BY <1>1, <4>3 DEF Queues
      <4>5. Failure(s, h) \in CompletionType /\ Fits(Failure(s, h), s, m, n, "closed")
        BY DEF Failure, Completion, CompletionType, Fits
      <4>. QED
        BY <1>1, <3>2, <4>2, <4>4, <4>5, AppendOp
    <3>. QED
      BY <3>1, <3>2 DEF IInv, SessionInv, OpInv
  <2>2. /\ Only(ready', s) /\ AllFit(ready', s, m, n, "closed")
        /\ isSocketFailed(s) => Failing(ready', s)
    BY <1>2, <1>3, <2>1 DEF Keeps
  <2>3. reads'[s] = << >> /\ sock'[s] = "closed"
    BY <1>2 DEF IInv, TypeOK, SessionTypeOK
  <2>. QED
    BY <1>2, <1>9, <2>2, <2>3, NotInProgressInv
<1>6. TypeOK'
  <2>1. stopped' \in BOOLEAN
    BY WorkFinishedType DEF handle_closed
  <2>2. /\ sock' \in [Sessions -> {"none", "connecting", "open", "broken", "closed"}]
        /\ reads' \in [Sessions -> Seq(ReadOps)]
        /\ writes' \in [Sessions -> Seq(WriteType)]
    BY <1>2 DEF IInv, TypeOK, SessionTypeOK
  <2>3. ready' \in Seq(CompletionType)
    BY <1>2, <1>3 DEF Queues
  <2>. QED
    BY <1>2, <2>1, <2>2, <2>3 DEF IInv, TypeOK, SessionTypeOK, Queues
<1>7. consumed'[s] <= 2 * Len(sent'[s])
  BY <1>2, StreamTypes
<1>8. s <= created \/ Untouched(s)'
  <2>1. CASE s > created
    <3>1. Untouched(s) /\ None(ready, s)
      BY <2>1 DEF IInv, SessionInv, Untouched
    <3>2. Keeps(ready, Tail(ready), s)
      BY <1>1, KeepsTail
    <3>3. Keeps(Tail(ready), q, s)
      BY <1>1, <3>1, AbortedFacts, KeepsConcat DEF Untouched
    <3>4. None(ready', s)
      BY <1>2, <1>3, <3>1, <3>2, <3>3 DEF Keeps
    <3>5. reads'[s] = << >>
      BY <1>2 DEF IInv, TypeOK, SessionTypeOK
    <3>. QED
      BY <1>2, <1>9, <3>1, <3>4, <3>5 DEF Untouched
  <2>. QED
    BY <2>1 DEF IInv, TypeOK, Sessions
<1>. QED
  BY <1>2, <1>4, <1>5, <1>6, <1>7, <1>8, <1>9, SessionStep

LEMMA QuietStep ==
  ASSUME IInv, TypeOK',
         UNCHANGED << reads, consumed, delivered, sent, sock, created, serverID,
                      connecting_timeout, socket_failed >>,
         \A r \in Sessions : Keeps(ready, ready', r)
  PROVE  IInv'
<1>1. ASSUME NEW r \in Sessions PROVE SessionInv(r)'
  BY SameFlags, OtherSession DEF IInv, TypeOK, Sessions
<1>. QED
  BY <1>1 DEF IInv

LEMMA WrittenInv ==
  ASSUME IInv, NEW s \in Sessions, handle_written(s), UNCHANGED managerVars
  PROVE  IInv'
<1>1. /\ ready \in Queues /\ ready # << >> /\ Tail(ready) \in Queues
  <2>1. ready \in Queues /\ ready # << >>
    BY DEF IInv, TypeOK, SessionTypeOK, handle_written, Runs, Queues
  <2>. QED
    BY <2>1, TailFacts DEF Queues
<1>2. close(s) \in CompletionType /\ \A r \in Sessions : ~Op(close(s), r)
  BY DEF close, Completion, CompletionType, Op, ReadOps
<1>3. ready' \in Queues /\ \A r \in Sessions : Keeps(ready, ready', r)
  <2>1. CASE ready' = Tail(ready)
    BY <1>1, <2>1, KeepsTail
  <2>2. CASE ready' = Append(Tail(ready), close(s))
    <3>1. \A r \in Sessions : Keeps(Tail(ready), ready', r)
      BY <1>1, <1>2, <2>2, KeepsAppend
    <3>2. ready' \in Queues
      BY <1>1, <1>2, <2>2, AppendFacts DEF Queues
    <3>. QED
      BY <1>1, <3>1, <3>2, KeepsTail, KeepsTrans
  <2>. QED
    BY <2>1, <2>2 DEF handle_written
<1>4. /\ UNCHANGED << sock, reads, writes, posted, connecting_timeout, socket_failed,
                     serverID, peer, sent, consumed, wire, delivered, eventCache,
                     current, created, replacedAt >>
  BY DEF handle_written, requests, flags, network, managerVars
<1>5. stopped' \in BOOLEAN
  BY WorkFinishedType DEF handle_written
<1>6. TypeOK'
  BY <1>3, <1>4, <1>5 DEF IInv, TypeOK, SessionTypeOK, Queues
<1>. QED
  BY <1>3, <1>4, <1>6, QuietStep

--------------------------------------------------------------------------------
(* The kernel *)

\* What completing the operation of s in progress does, whatever its outcome.
LEMMA CompleteStep ==
  ASSUME IInv, NEW s \in Sessions, NEW h \in ReadOps, InProgress(s, h),
         NEW c \in CompletionType, Complete(s, c), Op(c, s), delivered' = delivered,
         UNCHANGED << connecting_timeout, socket_failed >>,
         Fits(c, s, consumed'[s], Len(delivered[s]), sock'[s])
  PROVE  /\ reads' \in [Sessions -> Seq(ReadOps)]
         /\ ready' \in Queues
         /\ \A r \in Sessions \ {s} : reads'[r] = reads[r] /\ Keeps(ready, ready', r)
         /\ \A r \in Sessions : isSocketFailed(r)' = isSocketFailed(r)
         /\ OpInv(s)'
<1>1. ready \in Queues /\ reads \in [Sessions -> Seq(ReadOps)]
  BY DEF IInv, TypeOK, SessionTypeOK, Queues
<1>2. reads[s] = << h >> /\ None(ready, s) /\ ~isSocketFailed(s)
  BY DEF InProgress, IInv, SessionInv, OpInv
<1>3. Tail(reads[s]) = << >>
  BY <1>2
<1>4. reads' = [reads EXCEPT ![s] = << >>] /\ ready' = Append(ready, c)
  BY <1>3 DEF Complete
<1>5. ready' \in Queues
  BY <1>1, <1>4, AppendFacts DEF Queues
<1>6. \A r \in Sessions \ {s} : Keeps(ready, ready', r)
  <2>1. \A r \in Sessions \ {s} : ~Op(c, r)
    BY DEF Op
  <2>. QED
    BY <1>1, <1>4, <2>1, KeepsAppend
<1>7. Only(ready', s) /\ AllFit(ready', s, consumed'[s], Len(delivered[s]), sock'[s])
  BY <1>1, <1>2, <1>4, AppendOp
<1>8. \A r \in Sessions : isSocketFailed(r)' = isSocketFailed(r)
  BY SameFlags
<1>9. OpInv(s)'
  BY <1>1, <1>2, <1>4, <1>7, <1>8, NotInProgressInv
<1>. QED
  BY <1>1, <1>4, <1>5, <1>6, <1>8, <1>9

\* The operation of s in progress, and where the stream stands.
LEMMA RunningRead ==
  ASSUME IInv, NEW s \in Sessions, NEW h \in ReadOps, InProgress(s, h)
  PROVE  /\ s <= created
         /\ consumed[s] = Position(h, Len(delivered[s]))
         /\ h = "connected" => Len(delivered[s]) = 0
<1>1. PICK g \in ReadOps : /\ reads[s] = << g >>
                           /\ consumed[s] = Position(g, Len(delivered[s]))
                           /\ g = "connected" => Len(delivered[s]) = 0
  BY DEF InProgress, IInv, SessionInv, OpInv
<1>2. g = h
  BY <1>1 DEF InProgress
<1>3. reads[s] # << >>
  BY DEF InProgress
<1>4. s <= created
  BY <1>3 DEF IInv, TypeOK, SessionInv, Untouched, Sessions
<1>. QED
  BY <1>1, <1>2, <1>4

LEMMA AcceptConnectInv ==
  ASSUME IInv, NEW s \in Sessions, AcceptConnect(s), UNCHANGED managerVars
  PROVE  IInv'
<1>. DEFINE c == Completion(s, "connected", FALSE, 0)
<1>1. /\ InProgress(s, "connected") /\ Complete(s, c)
      /\ sock' = [sock EXCEPT ![s] = "open"] /\ peer' = [peer EXCEPT ![s] = "up"]
      /\ UNCHANGED << writes, posted, stopped, connecting_timeout, socket_failed, serverID,
                      sent, consumed, wire, delivered, eventCache,
                      current, created, replacedAt >>
  BY DEF AcceptConnect, requests, flags, managerVars
<1>2. /\ s <= created /\ consumed[s] = Position("connected", Len(delivered[s]))
      /\ Len(delivered[s]) = 0
  BY <1>1, RunningRead DEF ReadOps
<1>3. c \in CompletionType /\ Op(c, s)
  BY DEF Completion, CompletionType, Op, ReadOps
<1>4. Fits(c, s, consumed'[s], Len(delivered[s]), sock'[s])
  BY <1>1, <1>2 DEF Completion, Fits, Position
<1>5. /\ reads' \in [Sessions -> Seq(ReadOps)]
      /\ ready' \in Queues
      /\ \A r \in Sessions \ {s} : reads'[r] = reads[r] /\ Keeps(ready, ready', r)
      /\ \A r \in Sessions : isSocketFailed(r)' = isSocketFailed(r)
      /\ OpInv(s)'
  BY <1>1, <1>3, <1>4, CompleteStep DEF ReadOps
<1>6. TypeOK'
  BY <1>1, <1>5 DEF IInv, TypeOK, SessionTypeOK, Queues
<1>7. consumed'[s] <= 2 * Len(sent'[s])
  BY <1>1, StreamTypes
<1>8. \A r \in Sessions \ {s} : sock'[r] = sock[r]
  BY <1>1 DEF IInv, TypeOK, SessionTypeOK
<1>. QED
  BY <1>1, <1>2, <1>5, <1>6, <1>7, <1>8, SessionStep

LEMMA RefuseConnectInv ==
  ASSUME IInv, NEW s \in Sessions, RefuseConnect(s), UNCHANGED managerVars
  PROVE  IInv'
<1>. DEFINE c == Failure(s, "connected")
<1>1. /\ InProgress(s, "connected") /\ Complete(s, c)
      /\ sock' = [sock EXCEPT ![s] = "broken"]
      /\ UNCHANGED << writes, posted, stopped, connecting_timeout, socket_failed, serverID,
                      peer, sent, consumed, wire, delivered, eventCache,
                      current, created, replacedAt >>
  BY DEF RefuseConnect, requests, flags, network, managerVars
<1>2. s <= created
  BY <1>1, RunningRead DEF ReadOps
<1>3. c \in CompletionType /\ Op(c, s)
  BY DEF Failure, Completion, CompletionType, Op, ReadOps
<1>4. sock'[s] = "broken"
  BY <1>1 DEF IInv, TypeOK, SessionTypeOK
<1>5. Fits(c, s, consumed'[s], Len(delivered[s]), sock'[s])
  BY <1>4 DEF Failure, Completion, Fits
<1>6. /\ reads' \in [Sessions -> Seq(ReadOps)]
      /\ ready' \in Queues
      /\ \A r \in Sessions \ {s} : reads'[r] = reads[r] /\ Keeps(ready, ready', r)
      /\ \A r \in Sessions : isSocketFailed(r)' = isSocketFailed(r)
      /\ OpInv(s)'
  BY <1>1, <1>3, <1>5, CompleteStep DEF ReadOps
<1>7. TypeOK'
  BY <1>1, <1>6 DEF IInv, TypeOK, SessionTypeOK, Queues
<1>8. consumed'[s] <= 2 * Len(sent'[s])
  BY <1>1, StreamTypes
<1>9. \A r \in Sessions \ {s} : sock'[r] = sock[r]
  BY <1>1 DEF IInv, TypeOK, SessionTypeOK
<1>. QED
  BY <1>1, <1>2, <1>6, <1>7, <1>8, <1>9, SessionStep

LEMMA CompleteReadInv ==
  ASSUME IInv, NEW s \in Sessions, CompleteRead(s), UNCHANGED managerVars
  PROVE  IInv'
<1>1. PICK h \in {"header", "body"} :
        /\ InProgress(s, h) /\ consumed[s] < 2 * Len(sent[s])
        /\ consumed' = [consumed EXCEPT ![s] = @ + 1]
        /\ Complete(s, Completion(s, h, FALSE, consumed[s] + 1))
        /\ UNCHANGED << sock, writes, posted, stopped, connecting_timeout, socket_failed,
                        serverID, peer, sent, wire, delivered, eventCache >>
  BY DEF CompleteRead, requests, flags
<1>. DEFINE c == Completion(s, h, FALSE, consumed[s] + 1)
<1>2. UNCHANGED << current, created, replacedAt >>
  BY DEF managerVars
<1>3. s <= created /\ consumed[s] = Position(h, Len(delivered[s]))
  BY <1>1, RunningRead DEF ReadOps
<1>4. /\ consumed'[s] = consumed[s] + 1 /\ consumed[s] \in Nat
      /\ consumed' \in [Sessions -> Nat]
      /\ \A r \in Sessions \ {s} : consumed'[r] = consumed[r]
  BY <1>1 DEF IInv, TypeOK, SessionTypeOK
<1>5. c \in CompletionType /\ Op(c, s)
  BY <1>4 DEF Completion, CompletionType, Op, ReadOps
<1>6. Fits(c, s, consumed'[s], Len(delivered[s]), sock'[s])
  BY <1>3, <1>4 DEF Completion, Fits
<1>7. /\ reads' \in [Sessions -> Seq(ReadOps)]
      /\ ready' \in Queues
      /\ \A r \in Sessions \ {s} : reads'[r] = reads[r] /\ Keeps(ready, ready', r)
      /\ \A r \in Sessions : isSocketFailed(r)' = isSocketFailed(r)
      /\ OpInv(s)'
  BY <1>1, <1>5, <1>6, CompleteStep DEF ReadOps
<1>8. TypeOK'
  BY <1>1, <1>2, <1>4, <1>7 DEF IInv, TypeOK, SessionTypeOK, Queues
<1>9. consumed'[s] <= 2 * Len(sent'[s])
  <2>1. Len(sent[s]) \in Nat
    BY StreamTypes
  <2>. QED
    BY <1>1, <1>4, <2>1
<1>. QED
  BY <1>1, <1>2, <1>3, <1>4, <1>7, <1>8, <1>9, SessionStep

LEMMA FailReadInv ==
  ASSUME IInv, NEW s \in Sessions, FailRead(s), UNCHANGED managerVars
  PROVE  IInv'
<1>1. PICK h \in {"header", "body"} :
        /\ InProgress(s, h) /\ Complete(s, Failure(s, h))
        /\ UNCHANGED << sock, writes, posted, stopped, connecting_timeout, socket_failed,
                        serverID, peer, sent, consumed, wire, delivered, eventCache >>
  BY DEF FailRead, requests, flags, network
<1>2. UNCHANGED << current, created, replacedAt >>
  BY DEF managerVars
<1>3. s <= created
  BY <1>1, RunningRead DEF ReadOps
<1>4. Failure(s, h) \in CompletionType /\ Op(Failure(s, h), s)
  BY DEF Failure, Completion, CompletionType, Op, ReadOps
<1>5. Fits(Failure(s, h), s, consumed'[s], Len(delivered[s]), sock'[s])
  BY DEF Failure, Completion, Fits
<1>6. /\ reads' \in [Sessions -> Seq(ReadOps)]
      /\ ready' \in Queues
      /\ \A r \in Sessions \ {s} : reads'[r] = reads[r] /\ Keeps(ready, ready', r)
      /\ \A r \in Sessions : isSocketFailed(r)' = isSocketFailed(r)
      /\ OpInv(s)'
  BY <1>1, <1>4, <1>5, CompleteStep DEF ReadOps
<1>7. TypeOK'
  BY <1>1, <1>2, <1>6 DEF IInv, TypeOK, SessionTypeOK, Queues
<1>8. consumed'[s] <= 2 * Len(sent'[s])
  BY <1>1, StreamTypes
<1>. QED
  BY <1>1, <1>2, <1>3, <1>6, <1>7, <1>8, SessionStep

LEMMA WriteSomeInv ==
  ASSUME IInv, NEW s \in Sessions, WriteSome(s), UNCHANGED managerVars
  PROVE  IInv'
<1>. DEFINE w == Head(writes[s])
            rest == [w EXCEPT !.left = @ - 1]
            c == Completion(s, "written", FALSE, 0)
<1>1. /\ writes \in [Sessions -> Seq(WriteType)] /\ writes[s] \in Seq(WriteType)
      /\ writes[s] # << >> /\ ready \in Queues
  BY DEF IInv, TypeOK, SessionTypeOK, WriteSome, Queues
<1>2. w \in WriteType /\ Tail(writes[s]) \in Seq(WriteType)
  BY <1>1, TailFacts
<1>3. /\ wire' = [wire EXCEPT ![s] = Append(@, << w.msg, WriteChunks + 1 - w.left >>)]
      /\ UNCHANGED << sock, reads, stopped, connecting_timeout, socket_failed, serverID,
                      peer, sent, consumed, delivered, posted, eventCache,
                      current, created, replacedAt >>
  BY DEF WriteSome, flags, managerVars
<1>4. wire' \in [Sessions -> Seq(Nat \X (1 .. WriteChunks))]
  <2>1. << w.msg, WriteChunks + 1 - w.left >> \in Nat \X (1 .. WriteChunks)
    BY <1>2 DEF WriteType, WriteChunks
  <2>2. wire \in [Sessions -> Seq(Nat \X (1 .. WriteChunks))]
    BY DEF IInv, TypeOK, SessionTypeOK
  <2>3. Append(wire[s], << w.msg, WriteChunks + 1 - w.left >>)
          \in Seq(Nat \X (1 .. WriteChunks))
    BY <2>1, <2>2, AppendFacts
  <2>. QED
    BY <1>3, <2>2, <2>3
<1>5. c \in CompletionType /\ \A r \in Sessions : ~Op(c, r)
  BY DEF Completion, CompletionType, Op, ReadOps
<1>6. /\ writes' \in [Sessions -> Seq(WriteType)] /\ ready' \in Queues
      /\ \A r \in Sessions : Keeps(ready, ready', r)
  <2>1. CASE rest.left = 0
    <3>1. writes' = [writes EXCEPT ![s] = Tail(@)] /\ ready' = Append(ready, c)
      BY <2>1 DEF WriteSome
    <3>2. Append(ready, c) \in Queues /\ \A r \in Sessions : Keeps(ready, Append(ready, c), r)
      BY <1>1, <1>5, AppendFacts, KeepsAppend DEF Queues
    <3>. QED
      BY <1>1, <1>2, <3>1, <3>2
  <2>2. CASE rest.left # 0
    <3>1. writes' = [writes EXCEPT ![s] = Append(Tail(@), rest)] /\ ready' = ready
      BY <2>2 DEF WriteSome
    <3>2. rest \in WriteType
      BY <1>2, <2>2 DEF WriteType, WriteChunks
    <3>3. Append(Tail(writes[s]), rest) \in Seq(WriteType)
      BY <1>2, <3>2, AppendFacts
    <3>. QED
      BY <1>1, <3>1, <3>3 DEF Keeps
  <2>. QED
    BY <2>1, <2>2
<1>7. TypeOK'
  BY <1>3, <1>4, <1>6 DEF IInv, TypeOK, SessionTypeOK, Queues
<1>. QED
  BY <1>3, <1>6, <1>7, QuietStep

LEMMA FailWriteInv ==
  ASSUME IInv, NEW s \in Sessions, FailWrite(s), UNCHANGED managerVars
  PROVE  IInv'
<1>. DEFINE c == Failure(s, "written")
<1>1. /\ writes \in [Sessions -> Seq(WriteType)] /\ writes[s] \in Seq(WriteType)
      /\ writes[s] # << >> /\ ready \in Queues
  BY DEF IInv, TypeOK, SessionTypeOK, FailWrite, Queues
<1>2. Tail(writes[s]) \in Seq(WriteType)
  BY <1>1, TailFacts
<1>3. /\ writes' = [writes EXCEPT ![s] = Tail(@)] /\ ready' = Append(ready, c)
      /\ UNCHANGED << sock, reads, stopped, connecting_timeout, socket_failed, serverID,
                      peer, sent, consumed, wire, delivered, posted, eventCache,
                      current, created, replacedAt >>
  BY DEF FailWrite, flags, network, managerVars
<1>4. c \in CompletionType /\ \A r \in Sessions : ~Op(c, r)
  BY DEF Failure, Completion, CompletionType, Op, ReadOps
<1>5. ready' \in Queues /\ \A r \in Sessions : Keeps(ready, ready', r)
  BY <1>1, <1>3, <1>4, AppendFacts, KeepsAppend DEF Queues
<1>6. writes' \in [Sessions -> Seq(WriteType)]
  BY <1>1, <1>2, <1>3
<1>7. TypeOK'
  BY <1>3, <1>5, <1>6 DEF IInv, TypeOK, SessionTypeOK, Queues
<1>. QED
  BY <1>3, <1>5, <1>7, QuietStep

--------------------------------------------------------------------------------
(* The server *)

LEMMA PeerSendInv ==
  ASSUME IInv, NEW s \in Sessions, NEW f \in Frames, PeerSend(s, f), UNCHANGED managerVars
  PROVE  IInv'
<1>1. /\ sent' = [sent EXCEPT ![s] = Append(@, f)]
      /\ UNCHANGED << sock, reads, writes, posted, ready, stopped, connecting_timeout,
                      socket_failed, serverID, peer, consumed, wire, delivered, eventCache,
                      current, created, replacedAt >>
  BY DEF PeerSend, requests, flags, managerVars
<1>2. /\ Append(sent[s], f) \in Seq(Frames)
      /\ Len(Append(sent[s], f)) = Len(sent[s]) + 1
  BY StreamTypes, AppendFacts
<1>3. sent \in [Sessions -> Seq(Frames)]
  BY DEF IInv, TypeOK, SessionTypeOK
<1>4. TypeOK'
  BY <1>1, <1>2, <1>3 DEF IInv, TypeOK, SessionTypeOK
<1>5. ASSUME NEW r \in Sessions PROVE SessionInv(r)'
  <2>1. consumed'[r] <= 2 * Len(sent'[r])
    <3>1. Len(sent[r]) \in Nat /\ Len(sent[s]) \in Nat
          /\ consumed[r] \in Nat /\ consumed[r] <= 2 * Len(sent[r])
      BY StreamTypes
    <3>2. sent'[r] = IF r = s THEN Append(sent[s], f) ELSE sent[r]
      BY <1>1, <1>3
    <3>. QED
      BY <1>1, <1>2, <3>1, <3>2
  <2>2. OpInv(r)'
    BY <1>1, SameFlags DEF IInv, SessionInv, OpInv
  <2>. QED
    BY <1>1, <2>1, <2>2, SameFlags DEF IInv, SessionInv, Untouched
<1>. QED
  BY <1>4, <1>5 DEF IInv

LEMMA PeerCloseInv ==
  ASSUME IInv, NEW s \in Sessions, PeerClose(s), UNCHANGED managerVars
  PROVE  IInv'
<1>1. /\ peer' = [peer EXCEPT ![s] = "eof"]
      /\ UNCHANGED << sock, reads, writes, posted, ready, stopped, connecting_timeout,
                      socket_failed, serverID, sent, consumed, wire, delivered, eventCache,
                      current, created, replacedAt >>
  BY DEF PeerClose, requests, flags, managerVars
<1>2. TypeOK'
  BY <1>1 DEF IInv, TypeOK, SessionTypeOK
<1>3. \A r \in Sessions : Keeps(ready, ready', r)
  BY <1>1 DEF Keeps
<1>. QED
  BY <1>1, <1>2, <1>3, QuietStep

--------------------------------------------------------------------------------
(* The manager and its callers *)

LEMMA TakeEventType ==
  ASSUME IInv, TakeEvent
  PROVE  eventCache' \in Seq(EventType)
<1>1. eventCache \in Seq(EventType)
  BY DEF IInv, TypeOK, SessionTypeOK
<1>2. CASE eventCache' = eventCache
  BY <1>1, <1>2
<1>3. CASE eventCache # << >> /\ eventCache' = Tail(eventCache)
  BY <1>1, <1>3, TailFacts
<1>. QED
  BY <1>2, <1>3 DEF TakeEvent

LEMMA DropEventInv ==
  ASSUME IInv, DropEvent
  PROVE  IInv'
<1>1. eventCache' \in Seq(EventType)
  BY TakeEventType DEF DropEvent, TakeEvent
<1>2. UNCHANGED << sock, reads, writes, posted, ready, stopped, connecting_timeout,
                  socket_failed, serverID, peer, sent, consumed, wire, delivered,
                  current, created, replacedAt >>
  BY DEF DropEvent, requests, flags, network, managerVars
<1>3. TypeOK'
  BY <1>1, <1>2 DEF IInv, TypeOK, SessionTypeOK
<1>4. \A r \in Sessions : Keeps(ready, ready', r)
  BY <1>2 DEF Keeps
<1>. QED
  BY <1>2, <1>3, <1>4, QuietStep

LEMMA PollIdleInv ==
  ASSUME IInv, PollIdle
  PROVE  IInv'
<1>1. /\ stopped' = TRUE
      /\ UNCHANGED << sock, reads, writes, posted, ready, connecting_timeout,
                      socket_failed, serverID, peer, sent, consumed, wire, delivered,
                      eventCache, current, created, replacedAt >>
  BY DEF PollIdle, requests, flags, network, managerVars
<1>2. TypeOK'
  BY <1>1 DEF IInv, TypeOK, SessionTypeOK
<1>3. \A r \in Sessions : Keeps(ready, ready', r)
  BY <1>1 DEF Keeps
<1>. QED
  BY <1>1, <1>2, <1>3, QuietStep

LEMMA WriteInv ==
  ASSUME IInv, NEW req \in Requests, managerWrite(req), TakeEvent
  PROVE  IInv'
<1>1. eventCache' \in Seq(EventType)
  BY TakeEventType
<1>2. UNCHANGED << sock, reads, stopped, connecting_timeout, socket_failed, serverID,
                  peer, sent, consumed, wire, delivered, current, created, replacedAt >>
  BY DEF managerWrite, write, requests, flags, network, managerVars
<1>3. ready \in Queues
  BY DEF IInv, TypeOK, SessionTypeOK, Queues
<1>4. /\ ready' \in Queues /\ \A r \in Sessions : Keeps(ready, ready', r)
      /\ writes' \in [Sessions -> Seq(WriteType)]
      /\ posted' \in [Sessions -> Seq(Requests)]
  <2>1. CASE current = 0
    <3>1. UNCHANGED << ready, writes, posted >>
      BY <2>1 DEF managerWrite, requests
    <3>. QED
      BY <1>3, <3>1 DEF Keeps, IInv, TypeOK, SessionTypeOK
  <2>2. CASE current # 0
    <3>. DEFINE c == Failure(current, "written")
                w == [msg |-> Len(posted[current]) + 1, left |-> WriteChunks]
    <3>1. current \in Sessions /\ write(current, req)
      BY <2>2 DEF managerWrite, IInv, TypeOK
    <3>2. /\ writes \in [Sessions -> Seq(WriteType)]
          /\ posted \in [Sessions -> Seq(Requests)]
      BY DEF IInv, TypeOK, SessionTypeOK
    <3>3. c \in CompletionType /\ \A r \in Sessions : ~Op(c, r)
      BY <3>1 DEF Failure, Completion, CompletionType, Op, ReadOps
    <3>4. w \in WriteType
      BY <3>1, <3>2 DEF WriteType, WriteChunks
    <3>5. /\ Append(posted[current], req) \in Seq(Requests)
          /\ Append(writes[current], w) \in Seq(WriteType)
      BY <3>1, <3>2, <3>4, AppendFacts
    <3>6. posted' \in [Sessions -> Seq(Requests)]
      BY <3>1, <3>2, <3>5 DEF write
    <3>7. CASE writes' = [writes EXCEPT ![current] = Append(@, w)] /\ ready' = ready
      BY <1>3, <3>1, <3>2, <3>5, <3>6, <3>7 DEF Keeps
    <3>8. CASE writes' = writes /\ ready' = Append(ready, c)
      <4>1. Append(ready, c) \in Queues
        BY <1>3, <3>3, AppendFacts DEF Queues
      <4>2. \A r \in Sessions : Keeps(ready, Append(ready, c), r)
        BY <1>3, <3>3, KeepsAppend
      <4>. QED
        BY <3>2, <3>6, <3>8, <4>1, <4>2
    <3>. QED
      BY <3>1, <3>7, <3>8 DEF write
  <2>. QED
    BY <2>1, <2>2
<1>5. TypeOK'
  BY <1>1, <1>2, <1>4 DEF IInv, TypeOK, SessionTypeOK, Queues
<1>. QED
  BY <1>2, <1>4, <1>5, QuietStep

LEMMA ConnectToInv ==
  ASSUME IInv, NEW id \in ServerIDs, connectTo(id), TakeEvent
  PROVE  IInv'
<1>1. eventCache' \in Seq(EventType)
  BY TakeEventType
<1>2. created \in Nat /\ created + 1 \in Sessions
  BY BoundsAssumption DEF connectTo, IInv, TypeOK, Sessions
<1>. PICK ss \in Sessions : ss = created + 1
  BY <1>2
<1>3. /\ created < MaxSessions /\ created' = ss /\ current' = ss
      /\ sock' = [sock EXCEPT ![ss] = "connecting"]
      /\ serverID' = [serverID EXCEPT ![ss] = id]
      /\ reads' = [reads EXCEPT ![ss] = Append(@, "connected")]
      /\ ready' = IF current # 0 THEN Append(ready, close(current)) ELSE ready
      /\ replacedAt' = [s \in Sessions |->
                          IF s = current THEN Len(delivered[s]) ELSE replacedAt[s]]
      /\ UNCHANGED << writes, posted, stopped, connecting_timeout, socket_failed,
                      peer, sent, consumed, wire, delivered >>
  BY DEF connectTo, connect, requests, flags, network
<1>4. created \in Nat /\ ss \in Sessions /\ ss > created
  BY <1>2
<1>5. Untouched(ss)
  BY <1>4 DEF IInv, SessionInv
<1>6. ready \in Queues
  BY DEF IInv, TypeOK, SessionTypeOK, Queues
<1>7. ready' \in Queues /\ \A r \in Sessions : Keeps(ready, ready', r)
  <2>1. CASE current = 0
    BY <1>3, <1>6, <2>1 DEF Keeps
  <2>2. CASE current # 0
    <3>1. current \in Sessions
      BY <2>2 DEF IInv, TypeOK
    <3>2. close(current) \in CompletionType /\ \A r \in Sessions : ~Op(close(current), r)
      BY <3>1 DEF close, Completion, CompletionType, Op, ReadOps
    <3>. QED
      BY <1>3, <1>6, <2>2, <3>2, AppendFacts, KeepsAppend DEF Queues
  <2>. QED
    BY <2>1, <2>2
<1>8. /\ reads' \in [Sessions -> Seq(ReadOps)]
      /\ reads'[ss] = << "connected" >>
      /\ \A r \in Sessions \ {ss} : reads'[r] = reads[r]
  <2>1. reads[ss] = << >> /\ Append(reads[ss], "connected") = << "connected" >>
    BY <1>5 DEF Untouched
  <2>2. << "connected" >> \in Seq(ReadOps)
    BY DEF ReadOps
  <2>. QED
    BY <1>3, <1>4, <2>1, <2>2 DEF IInv, TypeOK, SessionTypeOK
<1>9. TypeOK'
  <2>1. replacedAt' \in [Sessions -> Nat]
    <3>1. \A s \in Sessions : Len(delivered[s]) \in Nat
      BY StreamTypes
    <3>. QED
      BY <1>3, <3>1 DEF IInv, TypeOK
  <2>2. /\ sock' \in [Sessions -> {"none", "connecting", "open", "broken", "closed"}]
        /\ serverID' \in [Sessions -> ServerIDs \cup {"none"}]
    BY <1>3, <1>4 DEF IInv, TypeOK, SessionTypeOK
  <2>. QED
    BY <1>1, <1>3, <1>4, <1>7, <1>8, <2>1, <2>2 DEF IInv, TypeOK, SessionTypeOK, Queues
<1>10. \A r \in Sessions : isSocketFailed(r)' = isSocketFailed(r)
  BY <1>3, SameFlags
<1>11. SessionInv(ss)'
  <2>1. consumed[ss] = 0 /\ Len(delivered[ss]) = 0 /\ None(ready', ss)
    BY <1>4, <1>5, <1>7 DEF Untouched, Keeps
  <2>2. OpInv(ss)'
    <3>1. consumed'[ss] = Position("connected", Len(delivered'[ss]))
      BY <1>3, <2>1 DEF Position
    <3>. QED
      BY <1>3, <1>4, <1>5, <1>8, <1>10, <2>1, <3>1, InProgressInv DEF ReadOps, Untouched
  <2>3. serverID'[ss] \in ServerIDs
    BY <1>3, <1>4 DEF IInv, TypeOK, SessionTypeOK
  <2>4. consumed'[ss] <= 2 * Len(sent'[ss])
    BY <1>3, <1>4, StreamTypes
  <2>. QED
    BY <1>3, <1>4, <2>2, <2>3, <2>4 DEF SessionInv, Sessions
<1>12. ASSUME NEW r \in Sessions \ {ss} PROVE SessionInv(r)'
  <2>1. /\ reads'[r] = reads[r] /\ sock'[r] = sock[r] /\ serverID'[r] = serverID[r]
        /\ consumed'[r] = consumed[r] /\ delivered'[r] = delivered[r] /\ sent'[r] = sent[r]
    BY <1>3, <1>8 DEF IInv, TypeOK, SessionTypeOK
  <2>2. created' >= created /\ created' \in Nat /\ (r <= created' => r <= created)
    BY <1>3, <1>4 DEF Sessions
  <2>3. SessionInv(r) /\ TypeOK
    BY DEF IInv
  <2>. QED
    BY <1>7, <1>10, <2>1, <2>2, <2>3, OtherSession
<1>. QED
  BY <1>9, <1>11, <1>12 DEF IInv

--------------------------------------------------------------------------------
(* The theorems *)

LEMMA InitInv == LayerInit => IInv
<1>. SUFFICES ASSUME LayerInit PROVE IInv
  OBVIOUS
<1>1. TypeOK
  <2>1. eventCache \in Seq(EventType)
    <3>1. Event("DisconnectedFromServer", "none", 0, 0) \in EventType
      BY DEF Event, EventType, EventNames, Args
    <3>. QED
      BY <3>1 DEF LayerInit, SessionInit, startUp
  <2>2. /\ reads \in [Sessions -> Seq(ReadOps)]
        /\ writes \in [Sessions -> Seq(WriteType)]
        /\ sent \in [Sessions -> Seq(Frames)] /\ delivered \in [Sessions -> Seq(Frames)]
        /\ posted \in [Sessions -> Seq(Requests)]
        /\ wire \in [Sessions -> Seq(Nat \X (1 .. WriteChunks))]
        /\ ready \in Seq(CompletionType)
    BY DEF LayerInit, SessionInit
  <2>3. /\ stopped \in BOOLEAN
        /\ connecting_timeout \in [Sessions -> BOOLEAN]
        /\ socket_failed \in [Sessions -> BOOLEAN]
    BY DEF LayerInit, SessionInit
  <2>4. /\ sock \in [Sessions -> {"none", "connecting", "open", "broken", "closed"}]
        /\ serverID \in [Sessions -> ServerIDs \cup {"none"}]
        /\ peer \in [Sessions -> {"none", "up", "eof"}]
        /\ consumed \in [Sessions -> Nat] /\ replacedAt \in [Sessions -> Nat]
        /\ current \in Sessions \cup {0} /\ created \in Sessions \cup {0}
    BY DEF LayerInit, SessionInit
  <2>. QED
    BY <2>1, <2>2, <2>3, <2>4 DEF TypeOK, SessionTypeOK
<1>2. ASSUME NEW s \in Sessions PROVE SessionInv(s)
  <2>1. None(ready, s)
    BY DEF LayerInit, SessionInit, None
  <2>2. /\ reads[s] = << >> /\ consumed[s] = 0
        /\ Len(delivered[s]) = 0 /\ Len(sent[s]) = 0
        /\ ~isSocketFailed(s)
    BY DEF LayerInit, SessionInit, isSocketFailed
  <2>3. OpInv(s)
    BY <2>1, <2>2, NoneFits DEF OpInv
  <2>. QED
    BY <2>1, <2>2, <2>3 DEF SessionInv, Untouched, LayerInit, Sessions
<1>. QED
  BY <1>1, <1>2 DEF IInv

LEMMA NextInv == IInv /\ [LayerNext]_layerVars => IInv'
<1>. SUFFICES ASSUME IInv, [LayerNext]_layerVars PROVE IInv'
  OBVIOUS
<1>1. CASE CallConnectTo
  BY <1>1, ConnectToInv DEF CallConnectTo
<1>2. CASE CallWrite
  BY <1>2, WriteInv DEF CallWrite
<1>3. CASE DropEvent
  BY <1>3, DropEventInv
<1>4. CASE PollIdle
  BY <1>4, PollIdleInv
<1>5. ASSUME NEW s \in Sessions, LayerStep(s) PROVE IInv'
  <2>1. UNCHANGED managerVars
    BY <1>5 DEF LayerStep
  <2>2. CASE Handler(s)
    BY <2>1, <2>2, ConnectedInv, HeaderReadInv, BodyReadInv, ClosedInv, WrittenInv DEF Handler
  <2>3. CASE Kernel(s)
    BY <2>1, <2>3, AcceptConnectInv, RefuseConnectInv, CompleteReadInv, FailReadInv,
       WriteSomeInv, FailWriteInv DEF Kernel
  <2>4. CASE \E f \in Frames : PeerSend(s, f)
    BY <2>1, <2>4, PeerSendInv
  <2>5. CASE PeerClose(s)
    BY <2>1, <2>5, PeerCloseInv
  <2>. QED
    BY <1>5, <2>2, <2>3, <2>4, <2>5 DEF LayerStep
<1>6. CASE UNCHANGED layerVars
  <2>1. UNCHANGED << sock, reads, writes, ready, stopped, connecting_timeout, socket_failed,
                    serverID, peer, sent, consumed, delivered, posted, wire, eventCache,
                    current, created, replacedAt >>
    BY <1>6 DEF layerVars, sessionVars, managerVars
  <2>2. TypeOK'
    BY <2>1 DEF IInv, TypeOK, SessionTypeOK
  <2>3. \A r \in Sessions : Keeps(ready, ready', r)
    BY <2>1 DEF Keeps
  <2>. QED
    BY <2>1, <2>2, <2>3, QuietStep
<1>. QED
  BY <1>1, <1>2, <1>3, <1>4, <1>5, <1>6 DEF LayerNext

LEMMA LayerInductive == LayerSpec => []IInv
BY InitInv, NextInv, PTL DEF LayerSpec

\* TypeOK: every variable of the layer keeps its type, the frames handed over
\* and the events they raise included.
THEOREM LayerTypeOK == LayerSpec => []TypeOK
<1>1. IInv => TypeOK
  BY DEF IInv
<1>. QED
  BY <1>1, LayerInductive, PTL

\* OneRead: the handlers of a session never have two connect or read operations
\* between them, whatever the client, the kernel and the server do.
THEOREM LayerOneRead == LayerSpec => []OneRead
<1>1. IInv => OneRead
  <2>. SUFFICES ASSUME IInv, NEW s \in Sessions
                PROVE  /\ Len(reads[s]) <= 1
                       /\ Waiting(s) # {} => reads[s] = << >>
                       /\ \A i, j \in Waiting(s) : i = j
    BY DEF OneRead
  <2>1. CASE reads[s] = << >> /\ Only(ready, s)
    BY <2>1 DEF Waiting, Only, Op
  <2>2. CASE \E h \in ReadOps : reads[s] = << h >> /\ None(ready, s)
    <3>1. Waiting(s) = {}
      BY <2>2 DEF Waiting, None, Op
    <3>. QED
      BY <2>2, <3>1
  <2>. QED
    BY <2>1, <2>2 DEF IInv, SessionInv, OpInv
<1>. QED
  BY <1>1, LayerInductive, PTL

\* Framed: a header read always meets a header, a body read its frame's body.
THEOREM LayerFramed == LayerSpec => []Framed
<1>1. IInv => Framed
  <2>. SUFFICES ASSUME IInv, NEW s \in Sessions
                PROVE  /\ consumed[s] <= 2 * Len(sent[s])
                       /\ \A i \in DOMAIN reads[s] :
                            /\ consumed[s] = Position(reads[s][i], Len(delivered[s]))
                            /\ reads[s][i] = "connected" => delivered[s] = << >>
                       /\ \A i \in Waiting(s) : ~ready[i].err =>
                            IF ready[i].h = "connected"
                            THEN consumed[s] = 0 /\ delivered[s] = << >>
                            ELSE /\ consumed[s] = Position(ready[i].h, Len(delivered[s])) + 1
                                 /\ ready[i].k = consumed[s]
    BY DEF Framed
  <2>1. Len(delivered[s]) = 0 => delivered[s] = << >>
    BY StreamTypes
  <2>2. consumed[s] <= 2 * Len(sent[s])
    BY StreamTypes
  <2>3. CASE /\ reads[s] = << >> /\ Only(ready, s)
             /\ AllFit(ready, s, consumed[s], Len(delivered[s]), sock[s])
    BY <2>1, <2>2, <2>3 DEF Waiting, AllFit, Fits, Op
  <2>4. CASE \E h \in ReadOps : /\ reads[s] = << h >>
                                /\ None(ready, s)
                                /\ consumed[s] = Position(h, Len(delivered[s]))
                                /\ h = "connected" => Len(delivered[s]) = 0
    <3>1. Waiting(s) = {}
      BY <2>4 DEF Waiting, None, Op
    <3>. QED
      BY <2>1, <2>2, <2>4, <3>1
  <2>. QED
    BY <2>3, <2>4 DEF IInv, SessionInv, OpInv
<1>. QED
  BY <1>1, LayerInductive, PTL

--------------------------------------------------------------------------------
(* The stream of frames *)

\* A step that changes no stream and no flag is invisible.
LEMMA Invisible ==
  ASSUME UNCHANGED << sent, delivered, connecting_timeout, socket_failed >>
  PROVE  UNCHANGED Stream!vars
BY DEF Stream!vars, isSocketFailed

\* A step that sets one of the two flags of session s fails its stream.
LEMMA FlagFails ==
  ASSUME TypeOK, NEW s \in Sessions, UNCHANGED << sent, delivered >>,
         \/ /\ connecting_timeout' = [connecting_timeout EXCEPT ![s] = TRUE]
            /\ socket_failed' = socket_failed
         \/ /\ socket_failed' = [socket_failed EXCEPT ![s] = TRUE]
            /\ connecting_timeout' = connecting_timeout
  PROVE  Stream!Next
<1>1. isSocketFailed(s)' = TRUE
  BY DEF isSocketFailed, TypeOK, SessionTypeOK
<1>2. \A r \in Sessions \ {s} : isSocketFailed(r)' = isSocketFailed(r)
  BY FlagOf
<1>3. [r \in Sessions |-> isSocketFailed(r)']
        = [[r \in Sessions |-> isSocketFailed(r)] EXCEPT ![s] = TRUE]
  BY <1>1, <1>2
<1>4. Stream!Fail(s)
  BY <1>3 DEF Stream!Fail
<1>. QED
  BY <1>4 DEF Stream!Next

\* handle_connected fails the stream or is invisible to it.
LEMMA ConnectedStream ==
  ASSUME IInv, NEW s \in Sessions, handle_connected(s)
  PROVE  Stream!Next \/ UNCHANGED Stream!vars
<1>1. UNCHANGED << sent, delivered, socket_failed >>
  BY DEF handle_connected, network
<1>2. CASE Head(ready).err
  BY <1>1, <1>2, FlagFails DEF handle_connected, IInv
<1>3. CASE ~Head(ready).err
  BY <1>1, <1>3, Invisible DEF handle_connected
<1>. QED
  BY <1>2, <1>3

LEMMA HeaderReadStream ==
  ASSUME IInv, NEW s \in Sessions, handle_headerRead(s)
  PROVE  Stream!Next \/ UNCHANGED Stream!vars
<1>1. UNCHANGED << sent, delivered, connecting_timeout >>
  BY DEF handle_headerRead, network
<1>2. CASE Head(ready).err
  BY <1>1, <1>2, FlagFails DEF handle_headerRead, IInv
<1>3. CASE ~Head(ready).err
  BY <1>1, <1>3, Invisible DEF handle_headerRead
<1>. QED
  BY <1>2, <1>3

\* The body that handle_bodyRead finds in buffer_ is the next frame's.
LEMMA NextFrame ==
  ASSUME IInv, NEW s \in Sessions, Runs(s, "body"), ~Head(ready).err
  PROVE  /\ ~isSocketFailed(s)
         /\ Head(ready).k \div 2 = Len(delivered[s]) + 1
         /\ Len(delivered[s]) + 1 \in 1 .. Len(sent[s])
         /\ Len(delivered[s]) < Len(sent[s])
         /\ sent[s][Len(delivered[s]) + 1] \in Frames
<1>. DEFINE n == Len(delivered[s])
<1>1. /\ ~isSocketFailed(s)
      /\ Fits(Head(ready), s, consumed[s], n, sock[s])
  BY RunningOp DEF ReadOps
<1>2. Head(ready).k = consumed[s] /\ consumed[s] = Position("body", n) + 1
  BY <1>1 DEF Fits, Op, ReadOps, Runs
<1>3. /\ n \in Nat /\ Len(sent[s]) \in Nat /\ sent[s] \in Seq(Frames)
      /\ consumed[s] = 2 * n + 2 /\ consumed[s] <= 2 * Len(sent[s])
  <2>1. /\ n \in Nat /\ Len(sent[s]) \in Nat /\ sent[s] \in Seq(Frames)
        /\ consumed[s] <= 2 * Len(sent[s])
    BY StreamTypes
  <2>. QED
    BY <1>2, <2>1 DEF Position
<1>4. Head(ready).k \div 2 = n + 1 /\ n + 1 \in 1 .. Len(sent[s])
  BY <1>2, <1>3, FrameNumber
<1>. QED
  BY <1>1, <1>3, <1>4

\* handle_bodyRead hands over the next frame, and only while no failure of the
\* session has been reported.
LEMMA BodyReadStream ==
  ASSUME IInv, NEW s \in Sessions, handle_bodyRead(s)
  PROVE  Stream!Next
<1>. DEFINE n == Len(delivered[s])
<1>1. UNCHANGED << sent, connecting_timeout >>
  BY DEF handle_bodyRead, network
<1>2. CASE Head(ready).err
  BY <1>1, <1>2, FlagFails DEF handle_bodyRead, IInv
<1>3. CASE ~Head(ready).err
  <2>1. /\ delivered' = [delivered EXCEPT ![s] =
                           Append(@, sent[s][Head(ready).k \div 2])]
        /\ socket_failed' = socket_failed
    BY <1>3 DEF handle_bodyRead
  <2>2. /\ ~isSocketFailed(s) /\ Head(ready).k \div 2 = n + 1
        /\ n < Len(sent[s])
    BY <1>3, NextFrame DEF handle_bodyRead
  <2>3. delivered' = [delivered EXCEPT ![s] = Append(@, sent[s][Len(@) + 1])]
    BY <2>1, <2>2
  <2>4. [r \in Sessions |-> isSocketFailed(r)'] = [r \in Sessions |-> isSocketFailed(r)]
    BY <1>1, <2>1, SameFlags
  <2>5. Stream!Deliver(s)
    BY <1>1, <2>2, <2>3, <2>4 DEF Stream!Deliver
  <2>. QED
    BY <2>5 DEF Stream!Next
<1>. QED
  BY <1>2, <1>3

\* Every other step of the layer leaves the flags alone, and the streams too
\* unless the server sends.
LEMMA OtherStream ==
  ASSUME NEW s \in Sessions, Kernel(s) \/ PeerClose(s) \/ handle_closed(s) \/ handle_written(s)
  PROVE  UNCHANGED Stream!vars
<1>1. UNCHANGED << sent, delivered, connecting_timeout, socket_failed >>
  BY DEF Kernel, AcceptConnect, RefuseConnect, CompleteRead, FailRead, WriteSome, FailWrite,
         PeerClose, handle_closed, handle_written, flags, network
<1>. QED
  BY <1>1, Invisible

LEMMA CallerStream ==
  ASSUME CallConnectTo \/ CallWrite \/ DropEvent \/ PollIdle \/ UNCHANGED layerVars
  PROVE  UNCHANGED Stream!vars
<1>1. CASE CallConnectTo
  <2>1. UNCHANGED << sent, delivered, connecting_timeout, socket_failed >>
    BY <1>1 DEF CallConnectTo, connectTo, flags, network
  <2>. QED
    BY <2>1, Invisible
<1>2. CASE CallWrite
  <2>1. UNCHANGED << sent, delivered, connecting_timeout, socket_failed >>
    BY <1>2 DEF CallWrite, managerWrite, write, flags, network
  <2>. QED
    BY <2>1, Invisible
<1>3. CASE DropEvent \/ PollIdle
  <2>1. UNCHANGED << sent, delivered, connecting_timeout, socket_failed >>
    BY <1>3 DEF DropEvent, PollIdle, flags, network
  <2>. QED
    BY <2>1, Invisible
<1>4. CASE UNCHANGED layerVars
  <2>1. UNCHANGED << sent, delivered, connecting_timeout, socket_failed >>
    BY <1>4 DEF layerVars, sessionVars
  <2>. QED
    BY <2>1, Invisible
<1>. QED
  BY <1>1, <1>2, <1>3, <1>4

LEMMA PeerSendStream ==
  ASSUME NEW s \in Sessions, NEW f \in Frames, PeerSend(s, f)
  PROVE  Stream!Next
<1>1. /\ sent' = [sent EXCEPT ![s] = Append(@, f)]
      /\ UNCHANGED << delivered, connecting_timeout, socket_failed >>
  BY DEF PeerSend, flags
<1>2. [r \in Sessions |-> isSocketFailed(r)'] = [r \in Sessions |-> isSocketFailed(r)]
  BY <1>1, SameFlags
<1>3. Stream!Send(s, f)
  BY <1>1, <1>2 DEF Stream!Send
<1>. QED
  BY <1>3 DEF Stream!Next

LEMMA StreamInit == LayerInit => Stream!Init
<1>. SUFFICES ASSUME LayerInit PROVE Stream!Init
  OBVIOUS
<1>1. /\ sent = [s \in Sessions |-> << >>] /\ delivered = [s \in Sessions |-> << >>]
      /\ \A s \in Sessions : isSocketFailed(s) = FALSE
  BY DEF LayerInit, SessionInit, isSocketFailed
<1>. QED
  BY <1>1 DEF Stream!Init

LEMMA StreamNext == IInv /\ [LayerNext]_layerVars => [Stream!Next]_(Stream!vars)
<1>. SUFFICES ASSUME IInv, [LayerNext]_layerVars
              PROVE  Stream!Next \/ UNCHANGED Stream!vars
  OBVIOUS
<1>1. CASE CallConnectTo \/ CallWrite \/ DropEvent \/ PollIdle \/ UNCHANGED layerVars
  BY <1>1, CallerStream
<1>2. ASSUME NEW s \in Sessions, LayerStep(s)
      PROVE  Stream!Next \/ UNCHANGED Stream!vars
  <2>1. CASE Handler(s)
    BY <2>1, ConnectedStream, HeaderReadStream, BodyReadStream, OtherStream DEF Handler
  <2>2. CASE Kernel(s) \/ PeerClose(s)
    BY <2>2, OtherStream
  <2>3. CASE \E f \in Frames : PeerSend(s, f)
    BY <2>3, PeerSendStream
  <2>. QED
    BY <1>2, <2>1, <2>2, <2>3 DEF LayerStep
<1>. QED
  BY <1>1, <1>2 DEF LayerNext

\* StreamSpec: each connection hands over the server's frames in the order they
\* were sent, each once, and nothing more once isSocketFailed() reports it.
THEOREM LayerStream == LayerSpec => StreamSpec
<1>. QED
  BY StreamInit, StreamNext, LayerInductive, PTL DEF LayerSpec, StreamSpec, Stream!Spec

--------------------------------------------------------------------------------
(* The queue of completed operations, once more: which successes it holds *)

\* The completion c says that operation h of session s succeeded.
Success(c, s, h) == c.s = s /\ c.h = h /\ ~c.err

\* Queue q holds no success of operation h of session s.
Lacks(q, s, h) == \A i \in DOMAIN q : ~Success(q[i], s, h)

\* The close of session s is posted in queue q.
ClosePosted(q, s) == \E i \in DOMAIN q : q[i].s = s /\ q[i].h = "closed"

\* The close runs before the header that has been read is looked at.
CloseFirst(q, s) ==
  \A i \in DOMAIN q : Success(q[i], s, "header") =>
    \E j \in DOMAIN q : j < i /\ q[j].s = s /\ q[j].h = "closed"

--------------------------------------------------------------------------------
(* The inductive invariant of the events and of the replaced sessions *)

\* Session s has raised no event that is still queued.
NoEvents(s) == \A i \in DOMAIN eventCache : eventCache[i].s # s

\* The connection of session s has not been announced.
Unannounced(s) == \/ s > created
                  \/ reads[s] = << "connected" >>
                  \/ ~Lacks(ready, s, "connected")

\* No event before the connection is announced, none ahead of its frame.
EventInv(s) ==
  /\ Unannounced(s) => NoEvents(s)
  /\ \A i \in DOMAIN eventCache :
       eventCache[i].s = s => eventCache[i].k <= Len(delivered[s])

Stale(s) == s <= created /\ s # current

\* A replaced session is closed or about to be.  Once it has delivered one frame
\* since, no body is read or waiting, and a header that was read is looked at
\* only after the close, when no body read can start.
StaleInv(s) ==
  /\ sock[s] = "closed" => reads[s] = << >>
  /\ Stale(s) =>
       /\ sock[s] = "closed" \/ ClosePosted(ready, s)
       /\ Len(delivered[s]) <= replacedAt[s] + 1
       /\ Len(delivered[s]) = replacedAt[s] + 1 =>
            /\ reads[s] # << "body" >> /\ Lacks(ready, s, "body")
            /\ sock[s] = "closed" \/ CloseFirst(ready, s)

DInv == /\ IInv
        /\ current = created
        /\ EventsInOrder
        /\ \A s \in Sessions : EventInv(s) /\ StaleInv(s)

--------------------------------------------------------------------------------
(* Lemmas on the queues *)

\* Replacing queue p by q adds no success of session s and keeps its close ahead.
Settles(p, q, s) ==
  /\ \A h \in ReadOps : Lacks(p, s, h) => Lacks(q, s, h)
  /\ ClosePosted(p, s) => ClosePosted(q, s)
  /\ CloseFirst(p, s) => CloseFirst(q, s)

LEMMA SettlesTail ==
  ASSUME NEW q \in Queues, q # << >>, NEW s \in Sessions,
         ~(Head(q).s = s /\ Head(q).h = "closed")
  PROVE  Settles(q, Tail(q), s)
<1>1. /\ \A i \in DOMAIN Tail(q) : i \in Nat /\ i + 1 \in DOMAIN q /\ Tail(q)[i] = q[i + 1]
      /\ \A j \in DOMAIN q : j \in Nat /\ (j = 1 \/ j - 1 \in DOMAIN Tail(q))
      /\ q[1] = Head(q)
  BY TailFacts DEF Queues
<1>2. \A h \in ReadOps : Lacks(q, s, h) => Lacks(Tail(q), s, h)
  BY <1>1 DEF Lacks
<1>3. ClosePosted(q, s) => ClosePosted(Tail(q), s)
  <2>. SUFFICES ASSUME NEW j \in DOMAIN q, q[j].s = s, q[j].h = "closed"
                PROVE  ClosePosted(Tail(q), s)
    BY DEF ClosePosted
  <2>1. j - 1 \in DOMAIN Tail(q) /\ Tail(q)[j - 1] = q[j]
    BY <1>1
  <2>. QED
    BY <2>1 DEF ClosePosted
<1>4. CloseFirst(q, s) => CloseFirst(Tail(q), s)
  <2>. SUFFICES ASSUME CloseFirst(q, s), NEW i \in DOMAIN Tail(q),
                       Success(Tail(q)[i], s, "header")
                PROVE  \E j \in DOMAIN Tail(q) :
                         j < i /\ Tail(q)[j].s = s /\ Tail(q)[j].h = "closed"
    BY DEF CloseFirst
  <2>1. PICK j \in DOMAIN q : j < i + 1 /\ q[j].s = s /\ q[j].h = "closed"
    BY <1>1 DEF CloseFirst
  <2>2. j # 1
    BY <1>1, <2>1
  <2>3. j - 1 \in DOMAIN Tail(q) /\ Tail(q)[j - 1] = q[j]
    BY <1>1, <2>2
  <2>4. i \in Nat /\ j \in Nat /\ j - 1 < i
    BY <1>1, <2>1
  <2>. QED
    BY <2>1, <2>3, <2>4
<1>. QED
  BY <1>2, <1>3, <1>4 DEF Settles

LEMMA SettlesConcat ==
  ASSUME NEW p \in Queues, NEW q \in Queues, NEW s \in Sessions,
         \A h \in ReadOps : Lacks(q, s, h)
  PROVE  Settles(p, p \o q, s)
<1>1. /\ \A i \in DOMAIN p : i \in Nat /\ i \in DOMAIN (p \o q) /\ (p \o q)[i] = p[i]
      /\ \A i \in DOMAIN (p \o q) :
           \/ i \in DOMAIN p
           \/ \E j \in DOMAIN q : (p \o q)[i] = q[j]
  BY ConcatFacts, SMTT(30) DEF Queues
<1>2. \A i \in DOMAIN (p \o q), h \in ReadOps : Success((p \o q)[i], s, h) => i \in DOMAIN p
  BY <1>1 DEF Lacks
<1>3. \A h \in ReadOps : Lacks(p, s, h) => Lacks(p \o q, s, h)
  BY <1>1, <1>2 DEF Lacks
<1>4. ClosePosted(p, s) => ClosePosted(p \o q, s)
  BY <1>1 DEF ClosePosted
<1>5. CloseFirst(p, s) => CloseFirst(p \o q, s)
  <2>. SUFFICES ASSUME CloseFirst(p, s), NEW i \in DOMAIN (p \o q),
                       Success((p \o q)[i], s, "header")
                PROVE  \E j \in DOMAIN (p \o q) :
                         j < i /\ (p \o q)[j].s = s /\ (p \o q)[j].h = "closed"
    BY DEF CloseFirst
  <2>1. i \in DOMAIN p /\ Success(p[i], s, "header")
    BY <1>1, <1>2 DEF ReadOps
  <2>2. PICK j \in DOMAIN p : j < i /\ p[j].s = s /\ p[j].h = "closed"
    BY <2>1 DEF CloseFirst
  <2>. QED
    BY <1>1, <2>2
<1>. QED
  BY <1>3, <1>4, <1>5 DEF Settles

LEMMA SettlesAppend ==
  ASSUME NEW q \in Queues, NEW c \in CompletionType, NEW s \in Sessions,
         \A h \in ReadOps : ~Success(c, s, h)
  PROVE  Settles(q, Append(q, c), s)
<1>1. << c >> \in Queues /\ Append(q, c) = q \o << c >>
  BY DEF Queues
<1>2. \A h \in ReadOps : Lacks(<< c >>, s, h)
  BY DEF Lacks
<1>. QED
  BY <1>1, <1>2, SettlesConcat

LEMMA SettlesTrans ==
  ASSUME NEW p, NEW q, NEW r, NEW s, Settles(p, q, s), Settles(q, r, s)
  PROVE  Settles(p, r, s)
BY DEF Settles

LEMMA SettlesSame ==
  ASSUME NEW p, NEW s
  PROVE  Settles(p, p, s)
BY DEF Settles

\* The queue without operations of s has no success to look at.
LEMMA NoneSettled ==
  ASSUME NEW q, NEW s, None(q, s)
  PROVE  CloseFirst(q, s) /\ \A h \in ReadOps : Lacks(q, s, h)
BY DEF None, Op, Lacks, CloseFirst, Success, ReadOps

\* Every event of queue q is one of queue p.
FromQueue(p, q) == \A i \in DOMAIN q : \E j \in DOMAIN p : q[i] = p[j]

LEMMA TakeEventOrder ==
  ASSUME IInv, EventsInOrder, TakeEvent
  PROVE  EventsInOrder' /\ FromQueue(eventCache, eventCache')
<1>1. CASE eventCache' = eventCache
  BY <1>1 DEF EventsInOrder, FromQueue
<1>2. CASE eventCache # << >> /\ eventCache' = Tail(eventCache)
  <2>1. eventCache \in Seq(EventType)
    BY DEF IInv, TypeOK, SessionTypeOK
  <2>2. \A i \in DOMAIN eventCache' :
          i \in Nat /\ i + 1 \in DOMAIN eventCache /\ eventCache'[i] = eventCache[i + 1]
    BY <1>2, <2>1, TailFacts
  <2>3. FromQueue(eventCache, eventCache')
    BY <2>2 DEF FromQueue
  <2>4. ASSUME NEW i \in DOMAIN eventCache', NEW j \in DOMAIN eventCache', i < j,
               eventCache'[i].s = eventCache'[j].s
        PROVE  eventCache'[i].k < eventCache'[j].k
    BY <2>2, <2>4 DEF EventsInOrder
  <2>. QED
    BY <2>3, <2>4 DEF EventsInOrder
<1>. QED
  BY <1>1, <1>2 DEF TakeEvent

LEMMA NewEventOrder ==
  ASSUME eventCache \in Seq(EventType), EventsInOrder, NEW e \in EventType,
         eventCache' = eventCache \o << e >>,
         \A i \in DOMAIN eventCache : eventCache[i].s = e.s => eventCache[i].k < e.k
  PROVE  /\ EventsInOrder'
         /\ \A i \in DOMAIN eventCache' :
              eventCache'[i] = e \/ \E j \in DOMAIN eventCache : eventCache'[i] = eventCache[j]
<1>1. eventCache' = Append(eventCache, e)
  OBVIOUS
<1>2. \A i \in DOMAIN eventCache' :
        \/ i = Len(eventCache) + 1 /\ eventCache'[i] = e
        \/ i \in DOMAIN eventCache /\ eventCache'[i] = eventCache[i]
  BY <1>1, AppendFacts
<1>3. \A i \in DOMAIN eventCache : i \in Nat /\ i < Len(eventCache) + 1
  OBVIOUS
<1>4. ASSUME NEW i \in DOMAIN eventCache', NEW j \in DOMAIN eventCache', i < j,
             eventCache'[i].s = eventCache'[j].s
      PROVE  eventCache'[i].k < eventCache'[j].k
  <2>1. i \in DOMAIN eventCache /\ eventCache'[i] = eventCache[i]
    BY <1>2, <1>3, <1>4
  <2>2. CASE j = Len(eventCache) + 1 /\ eventCache'[j] = e
    BY <1>4, <2>1, <2>2
  <2>3. CASE j \in DOMAIN eventCache /\ eventCache'[j] = eventCache[j]
    BY <1>4, <2>1, <2>3 DEF EventsInOrder
  <2>. QED
    BY <1>2, <2>2, <2>3
<1>. QED
  BY <1>2, <1>4 DEF EventsInOrder

--------------------------------------------------------------------------------
(* Steps, by what they do to one session *)

\* No step takes a session back to before its announcement.
StayAnnounced == \A r \in Sessions : Unannounced(r)' => Unannounced(r)

\* A step that leaves the reads, the socket and the deliveries of session r alone.
LEMMA OtherDelivery ==
  ASSUME DInv, IInv', NEW r \in Sessions,
         reads'[r] = reads[r], sock'[r] = sock[r], delivered'[r] = delivered[r],
         replacedAt'[r] = replacedAt[r], r > created' => r > created, Stale(r)' => Stale(r),
         Settles(ready, ready', r),
         \A i \in DOMAIN eventCache' : eventCache'[i].s = r =>
           \E j \in DOMAIN eventCache : eventCache'[i] = eventCache[j]
  PROVE  EventInv(r)' /\ StaleInv(r)' /\ (Unannounced(r)' => Unannounced(r))
<1>1. EventInv(r) /\ StaleInv(r)
  BY DEF DInv
<1>2. Unannounced(r)' => Unannounced(r)
  BY DEF Unannounced, Settles, ReadOps
<1>3. NoEvents(r) => NoEvents(r)'
  BY DEF NoEvents
<1>4. EventInv(r)'
  BY <1>1, <1>2, <1>3 DEF EventInv
<1>5. StaleInv(r)'
  BY <1>1 DEF StaleInv, Settles, ReadOps
<1>. QED
  BY <1>2, <1>4, <1>5

\* A step that leaves them alone for every session.
LEMMA QuietDelivery ==
  ASSUME DInv, IInv', TakeEvent,
         UNCHANGED << reads, sock, delivered, current, created, replacedAt >>,
         \A r \in Sessions : Settles(ready, ready', r)
  PROVE  DInv' /\ StayAnnounced
<1>1. EventsInOrder' /\ FromQueue(eventCache, eventCache')
  BY TakeEventOrder DEF DInv
<1>2. ASSUME NEW r \in Sessions
      PROVE  EventInv(r)' /\ StaleInv(r)' /\ (Unannounced(r)' => Unannounced(r))
  <2>1. Stale(r)' => Stale(r)
    BY DEF Stale
  <2>. QED
    BY <1>1, <2>1, OtherDelivery DEF FromQueue
<1>. QED
  BY <1>1, <1>2 DEF DInv, StayAnnounced

\* A step of session s, once it is clear what it does to that session.
LEMMA SessionDelivery ==
  ASSUME DInv, IInv', NEW s \in Sessions, UNCHANGED << current, created, replacedAt >>,
         EventsInOrder', EventInv(s)', StaleInv(s)', Unannounced(s)' => Unannounced(s),
         \A r \in Sessions \ {s} :
           /\ reads'[r] = reads[r] /\ sock'[r] = sock[r] /\ delivered'[r] = delivered[r]
           /\ Settles(ready, ready', r)
           /\ \A i \in DOMAIN eventCache' : eventCache'[i].s = r =>
                \E j \in DOMAIN eventCache : eventCache'[i] = eventCache[j]
  PROVE  DInv' /\ StayAnnounced
<1>1. ASSUME NEW r \in Sessions \ {s}
      PROVE  EventInv(r)' /\ StaleInv(r)' /\ (Unannounced(r)' => Unannounced(r))
  <2>1. Stale(r)' => Stale(r)
    BY DEF Stale
  <2>. QED
    BY <2>1, OtherDelivery
<1>. QED
  BY <1>1 DEF DInv, StayAnnounced

\* The handler of a connect or read operation of s: it goes on reading or stops.
LEMMA RunningDelivery ==
  ASSUME IInv, NEW s \in Sessions, NEW g \in ReadOps, Runs(s, g),
         NEW h \in {"header", "body"},
         \/ ready' = Tail(ready) /\ reads' = reads
         \/ Read(s, h, Tail(ready))
  PROVE  /\ \A r \in Sessions : Settles(ready, ready', r)
         /\ \A r \in Sessions \ {s} : reads'[r] = reads[r]
         /\ CloseFirst(ready', s) /\ \A o \in ReadOps : Lacks(ready', s, o)
         /\ reads[s] = << >>
         /\ reads'[s] = << >> \/ (sock[s] = "open" /\ reads'[s] = << h >>)
<1>. DEFINE q == Tail(ready)
<1>1. /\ ready \in Queues /\ ready # << >> /\ q \in Queues
      /\ reads[s] = << >> /\ None(q, s)
  BY RunningOp
<1>2. Head(ready).h # "closed"
  BY DEF Runs, ReadOps
<1>3. \A r \in Sessions : Settles(ready, q, r)
  BY <1>1, <1>2, SettlesTail
<1>4. \A r \in Sessions : Settles(q, ready', r)
  <2>1. Failure(s, h) \in CompletionType
    BY DEF Failure, Completion, CompletionType, ReadOps
  <2>2. \A r \in Sessions, o \in ReadOps : ~Success(Failure(s, h), r, o)
    BY DEF Success, Failure, Completion
  <2>3. ready' \in {q, Append(q, Failure(s, h))}
    BY DEF Read
  <2>. QED
    BY <1>1, <2>1, <2>2, <2>3, SettlesAppend, SettlesSame
<1>5. \A r \in Sessions : Settles(ready, ready', r)
  BY <1>3, <1>4, SettlesTrans
<1>6. CloseFirst(ready', s) /\ \A o \in ReadOps : Lacks(ready', s, o)
  BY <1>1, <1>4, NoneSettled DEF Settles
<1>7. /\ \A r \in Sessions \ {s} : reads'[r] = reads[r]
      /\ reads'[s] = << >> \/ (sock[s] = "open" /\ reads'[s] = << h >>)
  <2>1. reads \in [Sessions -> Seq(ReadOps)]
    BY DEF IInv, TypeOK, SessionTypeOK
  <2>2. Append(reads[s], h) = << h >>
    BY <1>1
  <2>. QED
    BY <1>1, <2>1, <2>2 DEF Read
<1>. QED
  BY <1>1, <1>5, <1>6, <1>7

--------------------------------------------------------------------------------
(* The handlers *)

LEMMA DeliveryTypes ==
  ASSUME IInv, NEW s \in Sessions
  PROVE  /\ ready \in Queues /\ eventCache \in Seq(EventType)
         /\ reads \in [Sessions -> Seq(ReadOps)]
         /\ Len(delivered[s]) \in Nat /\ replacedAt[s] \in Nat /\ created \in Nat
         /\ sock \in [Sessions -> {"none", "connecting", "open", "broken", "closed"}]
<1>1. SessionTypeOK /\ created \in Sessions \cup {0} /\ replacedAt \in [Sessions -> Nat]
  BY DEF IInv, TypeOK
<1>2. Len(delivered[s]) \in Nat
  BY StreamTypes
<1>3. created \in Nat /\ replacedAt[s] \in Nat
  BY <1>1 DEF Sessions
<1>. QED
  BY <1>1, <1>2, <1>3 DEF SessionTypeOK, Queues

\* A handler that raises no event.
LEMMA NoEventDelivery ==
  ASSUME DInv, NEW s \in Sessions, UNCHANGED << eventCache, delivered, created >>,
         reads'[s] # << "connected" >>, Lacks(ready', s, "connected")
  PROVE  /\ EventsInOrder' /\ FromQueue(eventCache, eventCache')
         /\ EventInv(s)' /\ (Unannounced(s)' => Unannounced(s))
<1>1. EventsInOrder' /\ FromQueue(eventCache, eventCache')
  BY DEF DInv, EventsInOrder, FromQueue
<1>2. Unannounced(s)' => Unannounced(s)
  BY DEF Unannounced
<1>. QED
  BY <1>1, <1>2 DEF DInv, EventInv, NoEvents

\* A step of session s that delivers nothing and starts no body read.
LEMMA NoFrameDelivery ==
  ASSUME DInv, NEW s \in Sessions, UNCHANGED << delivered, current, created, replacedAt >>,
         sock'[s] = "closed" \/ (sock'[s] = sock[s] /\ Settles(ready, ready', s)),
         sock'[s] = "closed" => reads'[s] = << >>,
         reads'[s] # << "body" >>, Lacks(ready, s, "body") => Lacks(ready', s, "body")
  PROVE  StaleInv(s)'
<1>1. StaleInv(s) /\ (Stale(s)' <=> Stale(s))
  BY DEF DInv, Stale
<1>2. CASE sock'[s] = "closed"
  BY <1>1, <1>2 DEF StaleInv
<1>3. CASE sock'[s] = sock[s] /\ Settles(ready, ready', s)
  BY <1>1, <1>3 DEF StaleInv, Settles
<1>. QED
  BY <1>2, <1>3

LEMMA EventNumbers ==
  ASSUME eventCache \in Seq(EventType), NEW i \in DOMAIN eventCache
  PROVE  eventCache[i].k \in Nat
<1>1. eventCache[i] \in EventType
  OBVIOUS
<1>. QED
  BY <1>1 DEF EventType

LEMMA ConnectedDelivery ==
  ASSUME DInv, IInv', NEW s \in Sessions, handle_connected(s), UNCHANGED managerVars
  PROVE  DInv' /\ StayAnnounced
<1>. DEFINE e == Event(serverID[s], "none", s, 0)
<1>1. /\ Runs(s, "connected") /\ Read(s, "header", Tail(ready))
      /\ UNCHANGED << sock, delivered, serverID, current, created, replacedAt >>
  BY DEF handle_connected, readStart, managerVars
<1>2. /\ IInv /\ "connected" \in ReadOps
      /\ s <= created /\ serverID[s] \in ServerIDs
      /\ Head(ready) = ready[1] /\ 1 \in DOMAIN ready
  <2>1. IInv /\ "connected" \in ReadOps
    BY DEF DInv, ReadOps
  <2>2. s <= created /\ serverID[s] \in ServerIDs /\ ready \in Queues /\ ready # << >>
    BY <1>1, <2>1, RunningOp
  <2>. QED
    BY <2>1, <2>2, TailFacts DEF Queues
<1>3. /\ \A r \in Sessions : Settles(ready, ready', r)
      /\ \A r \in Sessions \ {s} : reads'[r] = reads[r]
      /\ CloseFirst(ready', s) /\ \A o \in ReadOps : Lacks(ready', s, o)
      /\ reads'[s] = << >> \/ (sock[s] = "open" /\ reads'[s] = << "header" >>)
  BY <1>1, <1>2, RunningDelivery
<1>4. StaleInv(s)'
  <2>1. reads'[s] # << "body" >> /\ (sock[s] = "closed" => reads'[s] = << >>)
    BY <1>3
  <2>. QED
    BY <1>1, <1>3, <2>1, NoFrameDelivery DEF ReadOps
<1>5. /\ EventsInOrder' /\ EventInv(s)' /\ (Unannounced(s)' => Unannounced(s))
      /\ \A r \in Sessions \ {s}, i \in DOMAIN eventCache' : eventCache'[i].s = r =>
           \E j \in DOMAIN eventCache : eventCache'[i] = eventCache[j]
  <2>1. CASE Head(ready).err
    <3>1. UNCHANGED eventCache
      BY <2>1 DEF handle_connected
    <3>2. reads'[s] # << "connected" >> /\ Lacks(ready', s, "connected")
      BY <1>3 DEF ReadOps
    <3>. QED
      BY <1>1, <3>1, <3>2, NoEventDelivery DEF FromQueue
  <2>2. CASE ~Head(ready).err
    <3>1. eventCache' = eventCache \o << e >>
      BY <2>2 DEF handle_connected, serverConnectOn
    <3>2. e \in EventType /\ e.s = s /\ e.k = 0
      BY <1>2 DEF Event, EventType, EventNames, Args
    <3>3. NoEvents(s)
      <4>1. ~Lacks(ready, s, "connected")
        BY <1>1, <1>2, <2>2 DEF Lacks, Success, Runs
      <4>. QED
        BY <4>1 DEF DInv, EventInv, Unannounced
    <3>4. eventCache \in Seq(EventType) /\ EventsInOrder
      BY <1>2, DeliveryTypes DEF DInv
    <3>5. /\ EventsInOrder'
          /\ \A i \in DOMAIN eventCache' :
               eventCache'[i] = e \/ \E j \in DOMAIN eventCache : eventCache'[i] = eventCache[j]
      <4>. HIDE DEF e
      <4>. QED
        BY <3>1, <3>2, <3>3, <3>4, NewEventOrder DEF NoEvents
    <3>6. EventInv(s)' /\ ~Unannounced(s)'
      <4>1. ~Unannounced(s)'
        <5>1. ~(s > created')
          BY <1>1, <1>2, DeliveryTypes DEF Sessions
        <5>2. reads'[s] # << "connected" >> /\ Lacks(ready', s, "connected")
          BY <1>3 DEF ReadOps
        <5>. QED
          BY <5>1, <5>2 DEF Unannounced
      <4>2. \A i \in DOMAIN eventCache' : eventCache'[i].s = s => eventCache'[i] = e
        BY <3>3, <3>5 DEF NoEvents
      <4>3. 0 <= Len(delivered'[s])
        BY <1>1, <1>2, DeliveryTypes
      <4>. QED
        BY <3>2, <4>1, <4>2, <4>3 DEF EventInv
    <3>. QED
      BY <3>2, <3>5, <3>6
  <2>. QED
    BY <2>1, <2>2
<1>. QED
  BY <1>1, <1>3, <1>4, <1>5, SessionDelivery

LEMMA HeaderReadDelivery ==
  ASSUME DInv, IInv', NEW s \in Sessions, handle_headerRead(s), UNCHANGED managerVars
  PROVE  DInv' /\ StayAnnounced
<1>1. /\ Runs(s, "header")
      /\ \/ ready' = Tail(ready) /\ reads' = reads
         \/ ~Head(ready).err /\ Read(s, "body", Tail(ready))
      /\ UNCHANGED << sock, delivered, eventCache, current, created, replacedAt >>
  BY DEF handle_headerRead, readBody, managerVars
<1>2. /\ IInv /\ "header" \in ReadOps /\ reads[s] = << >>
      /\ Head(ready) = ready[1] /\ 1 \in DOMAIN ready
      /\ \A j \in DOMAIN ready : j \in Nat /\ ~(j < 1)
  <2>1. IInv /\ "header" \in ReadOps
    BY DEF DInv, ReadOps
  <2>2. ready \in Queues /\ ready # << >> /\ reads[s] = << >>
    BY <1>1, <2>1, RunningOp
  <2>. QED
    BY <2>1, <2>2, TailFacts DEF Queues
<1>3. /\ \A r \in Sessions : Settles(ready, ready', r)
      /\ \A r \in Sessions \ {s} : reads'[r] = reads[r]
      /\ CloseFirst(ready', s) /\ \A o \in ReadOps : Lacks(ready', s, o)
      /\ reads'[s] = << >> \/ (sock[s] = "open" /\ reads'[s] = << "body" >>)
  BY <1>1, <1>2, RunningDelivery
<1>4. StaleInv(s)'
  <2>1. CASE reads'[s] = << >>
    BY <1>1, <1>3, <2>1 DEF DInv, StaleInv, Stale, Settles, ReadOps
  <2>2. CASE reads'[s] # << >>
    <3>1. sock[s] = "open" /\ ~Head(ready).err
      BY <1>1, <1>2, <1>3, <2>2
    <3>2. Success(ready[1], s, "header")
      BY <1>1, <1>2, <3>1 DEF Success, Runs
    <3>3. ~CloseFirst(ready, s)
      BY <1>2, <3>2 DEF CloseFirst
    <3>4. Stale(s) => Len(delivered[s]) # replacedAt[s] + 1
      BY <3>1, <3>3 DEF DInv, StaleInv
    <3>. QED
      BY <1>1, <1>3, <3>1, <3>4 DEF DInv, StaleInv, Stale, Settles
  <2>. QED
    BY <2>1, <2>2
<1>5. /\ EventsInOrder' /\ EventInv(s)' /\ (Unannounced(s)' => Unannounced(s))
      /\ FromQueue(eventCache, eventCache')
  <2>1. reads'[s] # << "connected" >> /\ Lacks(ready', s, "connected")
    BY <1>3 DEF ReadOps
  <2>. QED
    BY <1>1, <2>1, NoEventDelivery
<1>. QED
  BY <1>1, <1>3, <1>4, <1>5, SessionDelivery DEF FromQueue

\* The frame handed over is the next of its session, so its event follows the
\* session's events in the queue.
LEMMA BodyReadDelivery ==
  ASSUME DInv, IInv', NEW s \in Sessions, handle_bodyRead(s), UNCHANGED managerVars
  PROVE  DInv' /\ StayAnnounced
<1>. DEFINE n == Len(delivered[s])
            k == Head(ready).k \div 2
            f == sent[s][k]
<1>1. /\ Runs(s, "body")
      /\ \/ ready' = Tail(ready) /\ reads' = reads
         \/ Read(s, "header", Tail(ready))
      /\ UNCHANGED << sock, current, created, replacedAt >>
  BY DEF handle_bodyRead, readStart, managerVars
<1>2. /\ IInv /\ "body" \in ReadOps /\ reads[s] = << >> /\ s <= created
      /\ Head(ready) = ready[1] /\ 1 \in DOMAIN ready
      /\ n \in Nat /\ replacedAt[s] \in Nat /\ eventCache \in Seq(EventType)
  <2>1. IInv /\ "body" \in ReadOps
    BY DEF DInv, ReadOps
  <2>2. ready \in Queues /\ ready # << >> /\ reads[s] = << >> /\ s <= created
    BY <1>1, <2>1, RunningOp
  <2>. QED
    BY <2>1, <2>2, TailFacts, DeliveryTypes DEF Queues
<1>3. /\ \A r \in Sessions : Settles(ready, ready', r)
      /\ \A r \in Sessions \ {s} : reads'[r] = reads[r]
      /\ CloseFirst(ready', s) /\ \A o \in ReadOps : Lacks(ready', s, o)
      /\ reads'[s] = << >> \/ (sock[s] = "open" /\ reads'[s] = << "header" >>)
  BY <1>1, <1>2, RunningDelivery
<1>4. CASE Head(ready).err
  <2>1. UNCHANGED << eventCache, delivered >>
    BY <1>4 DEF handle_bodyRead
  <2>2. reads'[s] # << "connected" >> /\ Lacks(ready', s, "connected")
    BY <1>3 DEF ReadOps
  <2>3. /\ EventsInOrder' /\ EventInv(s)' /\ (Unannounced(s)' => Unannounced(s))
        /\ FromQueue(eventCache, eventCache')
    BY <1>1, <2>1, <2>2, NoEventDelivery
  <2>4. StaleInv(s)'
    <3>1. reads'[s] # << "body" >> /\ (sock[s] = "closed" => reads'[s] = << >>)
      BY <1>3
    <3>. QED
      BY <1>1, <1>3, <2>1, <3>1, NoFrameDelivery DEF ReadOps
  <2>. QED
    BY <1>1, <1>3, <2>1, <2>3, <2>4, SessionDelivery DEF FromQueue
<1>5. CASE ~Head(ready).err
  <2>1. /\ delivered' = [delivered EXCEPT ![s] = Append(@, f)]
        /\ eventCache' = eventCache \o redirectNetBuffer(s, k, f)
    BY <1>5 DEF handle_bodyRead
  <2>2. k = n + 1 /\ f \in Frames
    BY <1>1, <1>2, <1>5, NextFrame
  <2>3. /\ Len(delivered'[s]) = n + 1
        /\ \A r \in Sessions \ {s} : delivered'[r] = delivered[r]
    <3>1. delivered \in [Sessions -> Seq(Frames)] /\ delivered[s] \in Seq(Frames)
      BY <1>2 DEF IInv, TypeOK, SessionTypeOK
    <3>2. Len(Append(delivered[s], f)) = n + 1
      BY <2>2, <3>1, AppendFacts
    <3>. QED
      BY <2>1, <3>1, <3>2
  <2>4. /\ EventsInOrder'
        /\ \A i \in DOMAIN eventCache' :
             \/ eventCache'[i].s = s /\ eventCache'[i].k = n + 1
             \/ \E j \in DOMAIN eventCache : eventCache'[i] = eventCache[j]
    <3>1. CASE f.type \in DOMAIN distributeRules /\ f.arg # "undecodable"
      <4>. DEFINE e == Event(distributeRules[f.type], f.arg, s, k)
      <4>1. e \in EventType /\ e.s = s /\ e.k = n + 1
        BY <1>2, <2>2, <3>1 DEF Event, EventType, EventNames, Args
      <4>2. eventCache' = eventCache \o << e >>
        BY <2>1, <3>1 DEF redirectNetBuffer
      <4>3. \A i \in DOMAIN eventCache : eventCache[i].s = s => eventCache[i].k < n + 1
        <5>1. \A i \in DOMAIN eventCache : eventCache[i].k \in Nat
          BY <1>2, EventNumbers
        <5>. QED
          BY <1>2, <5>1 DEF DInv, EventInv
      <4>4. EventsInOrder
        BY DEF DInv
      <4>. HIDE DEF e
      <4>. QED
        BY <1>2, <4>1, <4>2, <4>3, <4>4, NewEventOrder
    <3>2. CASE ~(f.type \in DOMAIN distributeRules /\ f.arg # "undecodable")
      <4>1. eventCache' = eventCache \o << >>
        BY <2>1, <3>2 DEF redirectNetBuffer
      <4>2. eventCache' = eventCache
        BY <1>2, <4>1
      <4>. QED
        BY <4>2 DEF DInv, EventsInOrder
    <3>. QED
      BY <3>1, <3>2
  <2>5. EventInv(s)' /\ ~Unannounced(s)'
    <3>1. ~(s > created')
      BY <1>1, <1>2, DeliveryTypes DEF Sessions
    <3>2. reads'[s] # << "connected" >> /\ Lacks(ready', s, "connected")
      BY <1>3 DEF ReadOps
    <3>3. ASSUME NEW i \in DOMAIN eventCache', eventCache'[i].s = s
          PROVE  eventCache'[i].k <= Len(delivered'[s])
      <4>1. CASE eventCache'[i].k = n + 1
        BY <1>2, <2>3, <4>1
      <4>2. CASE \E j \in DOMAIN eventCache : eventCache'[i] = eventCache[j]
        <5>1. PICK j \in DOMAIN eventCache : eventCache'[i] = eventCache[j]
          BY <4>2
        <5>2. eventCache[j].k \in Nat
          BY <1>2, EventNumbers
        <5>3. eventCache[j].k <= n
          BY <3>3, <5>1 DEF DInv, EventInv
        <5>. QED
          BY <1>2, <2>3, <5>1, <5>2, <5>3
      <4>. QED
        BY <2>4, <4>1, <4>2
    <3>. QED
      BY <3>1, <3>2, <3>3 DEF EventInv, Unannounced
  <2>6. StaleInv(s)'
    <3>1. ~Lacks(ready, s, "body")
      BY <1>1, <1>2, <1>5 DEF Lacks, Success, Runs
    <3>2. StaleInv(s)
      BY DEF DInv
    <3>3. Stale(s) => /\ sock[s] = "closed" \/ ClosePosted(ready, s)
                      /\ n + 1 <= replacedAt[s] + 1
      BY <1>2, <3>1, <3>2 DEF StaleInv
    <3>4. reads'[s] # << "body" >> /\ (sock[s] = "closed" => reads'[s] = << >>)
      BY <1>3
    <3>. QED
      BY <1>1, <1>3, <2>3, <3>3, <3>4 DEF StaleInv, Stale, Settles, ReadOps
  <2>7. \A r \in Sessions \ {s}, i \in DOMAIN eventCache' : eventCache'[i].s = r =>
          \E j \in DOMAIN eventCache : eventCache'[i] = eventCache[j]
    BY <2>4
  <2>. QED
    BY <1>1, <1>3, <2>3, <2>4, <2>5, <2>6, <2>7, SessionDelivery
<1>. QED
  BY <1>4, <1>5

LEMMA ClosedDelivery ==
  ASSUME DInv, IInv', NEW s \in Sessions, handle_closed(s), UNCHANGED managerVars
  PROVE  DInv' /\ StayAnnounced
<1>. DEFINE q == Tail(ready) \o AbortedReads(s)
<1>1. /\ sock' = [sock EXCEPT ![s] = "closed"]
      /\ ready' = q \o AbortedWrites(s)
      /\ reads' = [reads EXCEPT ![s] = << >>]
      /\ UNCHANGED << delivered, eventCache, current, created, replacedAt >>
      /\ ready # << >> /\ Head(ready).s = s
  BY DEF handle_closed, Runs, managerVars
<1>2. /\ IInv /\ ready \in Queues /\ Tail(ready) \in Queues
      /\ q \in Queues /\ AbortedReads(s) \in Queues /\ AbortedWrites(s) \in Queues
      /\ \A i \in DOMAIN Tail(ready) : i + 1 \in DOMAIN ready /\ Tail(ready)[i] = ready[i + 1]
  <2>1. IInv /\ ready \in Queues
    BY DeliveryTypes DEF DInv
  <2>2. Tail(ready) \in Queues /\ AbortedReads(s) \in Queues /\ AbortedWrites(s) \in Queues
    BY <1>1, <2>1, TailFacts, AbortedFacts DEF Queues
  <2>. QED
    BY <1>1, <2>1, <2>2, TailFacts, ConcatFacts DEF Queues
<1>3. \A r \in Sessions : Settles(Tail(ready), ready', r)
  <2>1. \A r \in Sessions, h \in ReadOps :
          Lacks(AbortedReads(s), r, h) /\ Lacks(AbortedWrites(s), r, h)
    BY DEF Lacks, Success, AbortedReads, AbortedWrites, Failure, Completion
  <2>2. \A r \in Sessions : Settles(Tail(ready), q, r) /\ Settles(q, ready', r)
    BY <1>1, <1>2, <2>1, SettlesConcat
  <2>. QED
    BY <2>2, SettlesTrans
<1>4. \A r \in Sessions \ {s} :
        /\ Settles(ready, ready', r) /\ reads'[r] = reads[r] /\ sock'[r] = sock[r]
  <2>1. \A r \in Sessions \ {s} : Settles(ready, Tail(ready), r)
    BY <1>1, <1>2, SettlesTail
  <2>2. \A r \in Sessions \ {s} : Settles(ready, ready', r)
    BY <1>3, <2>1, SettlesTrans
  <2>. QED
    BY <1>1, <1>2, <2>2, DeliveryTypes
<1>5. /\ reads'[s] = << >> /\ sock'[s] = "closed"
      /\ \A h \in ReadOps : Lacks(ready, s, h) => Lacks(ready', s, h)
  <2>1. \A h \in ReadOps : Lacks(ready, s, h) => Lacks(Tail(ready), s, h)
    BY <1>2 DEF Lacks
  <2>. QED
    BY <1>1, <1>2, <1>3, <2>1, DeliveryTypes DEF Settles
<1>8. /\ reads'[s] # << "body" >> /\ reads'[s] # << "connected" >>
      /\ UNCHANGED << delivered, eventCache, current, created, replacedAt >>
  <2>1. << >> # << "body" >> /\ << >> # << "connected" >>
    OBVIOUS
  <2>2. reads'[s] = << >>
    BY <1>5
  <2>. QED
    BY <1>1, <2>1, <2>2
<1>6. StaleInv(s)'
  <2>1. Lacks(ready, s, "body") => Lacks(ready', s, "body")
    BY <1>5 DEF ReadOps
  <2>. QED
    BY <1>5, <1>8, <2>1, NoFrameDelivery
<1>7. EventsInOrder' /\ EventInv(s)' /\ (Unannounced(s)' => Unannounced(s))
  <2>1. EventsInOrder'
    BY <1>1 DEF DInv, EventsInOrder
  <2>2. Unannounced(s)' => Unannounced(s)
    BY <1>5, <1>8 DEF Unannounced, ReadOps
  <2>. QED
    BY <1>8, <2>1, <2>2 DEF DInv, EventInv, NoEvents
<1>. QED
  BY <1>1, <1>4, <1>6, <1>7, SessionDelivery

LEMMA WrittenDelivery ==
  ASSUME DInv, IInv', NEW s \in Sessions, handle_written(s), UNCHANGED managerVars
  PROVE  DInv' /\ StayAnnounced
<1>1. /\ UNCHANGED << reads, sock, delivered, eventCache, current, created, replacedAt >>
      /\ ready' \in {Tail(ready), Append(Tail(ready), close(s))}
      /\ ready # << >> /\ Head(ready).h = "written"
  BY DEF handle_written, Runs, managerVars
<1>2. ready \in Queues /\ Tail(ready) \in Queues
  <2>1. ready \in Queues
    BY DeliveryTypes DEF DInv
  <2>. QED
    BY <1>1, <2>1, TailFacts DEF Queues
<1>3. close(s) \in CompletionType /\ \A r \in Sessions, h \in ReadOps : ~Success(close(s), r, h)
  BY DEF close, Completion, CompletionType, Success, ReadOps
<1>4. \A r \in Sessions : Settles(ready, ready', r)
  <2>1. \A r \in Sessions : Settles(ready, Tail(ready), r)
    BY <1>1, <1>2, SettlesTail
  <2>2. \A r \in Sessions : Settles(Tail(ready), ready', r)
    BY <1>1, <1>2, <1>3, SettlesAppend, SettlesSame
  <2>. QED
    BY <2>1, <2>2, SettlesTrans
<1>. QED
  BY <1>1, <1>4, QuietDelivery DEF TakeEvent

--------------------------------------------------------------------------------
(* The kernel *)

\* The operation of s in progress completes with c, a failure or its success.
LEMMA CompleteDelivery ==
  ASSUME DInv, IInv', NEW s \in Sessions, NEW h \in ReadOps, InProgress(s, h),
         NEW c \in CompletionType, c.s = s, c.h = h, Complete(s, c),
         UNCHANGED << delivered, eventCache, current, created, replacedAt >>,
         \A r \in Sessions \ {s} : sock'[r] = sock[r],
         sock'[s] # "closed", sock[s] = "closed" => sock'[s] = sock[s]
  PROVE  DInv' /\ StayAnnounced
<1>1. /\ IInv /\ ready \in Queues /\ reads \in [Sessions -> Seq(ReadOps)]
      /\ created \in Nat
  BY DeliveryTypes DEF DInv
<1>2. reads[s] = << h >> /\ None(ready, s)
  BY <1>1 DEF InProgress, IInv, SessionInv, OpInv
<1>3. sock[s] # "closed"
  BY <1>2 DEF DInv, StaleInv
<1>4. reads' = [reads EXCEPT ![s] = << >>] /\ ready' = Append(ready, c)
  BY <1>2 DEF Complete
<1>5. reads'[s] = << >> /\ \A r \in Sessions \ {s} : reads'[r] = reads[r]
  BY <1>1, <1>4
<1>6. \A r \in Sessions \ {s} : Settles(ready, ready', r)
  <2>1. \A r \in Sessions \ {s}, o \in ReadOps : ~Success(c, r, o)
    BY DEF Success
  <2>. QED
    BY <1>1, <1>4, <2>1, SettlesAppend
<1>7. /\ \A i \in DOMAIN ready : i \in DOMAIN ready' /\ ready'[i] = ready[i] /\ i < Len(ready) + 1
      /\ \A i \in DOMAIN ready' : i \in DOMAIN ready \/ (i = Len(ready) + 1 /\ ready'[i] = c)
  BY <1>1, <1>4, AppendFacts DEF Queues
<1>8. \A i \in DOMAIN ready', o \in ReadOps :
        Success(ready'[i], s, o) => i = Len(ready) + 1 /\ o = h
  BY <1>2, <1>7 DEF None, Op, Success
<1>9. StaleInv(s)'
  <2>1. ClosePosted(ready, s) => ClosePosted(ready', s) /\ CloseFirst(ready', s)
    <3>. SUFFICES ASSUME NEW j \in DOMAIN ready, ready[j].s = s, ready[j].h = "closed"
                  PROVE  ClosePosted(ready', s) /\ CloseFirst(ready', s)
      BY DEF ClosePosted
    <3>1. /\ j \in DOMAIN ready' /\ j < Len(ready) + 1
          /\ ready'[j].s = s /\ ready'[j].h = "closed"
      BY <1>7
    <3>2. \A i \in DOMAIN ready' : Success(ready'[i], s, "header") => i = Len(ready) + 1
      BY <1>8 DEF ReadOps
    <3>. QED
      BY <3>1, <3>2 DEF ClosePosted, CloseFirst
  <2>2. h # "body" => Lacks(ready', s, "body")
    BY <1>8 DEF Lacks, ReadOps
  <2>3. h = "body" => reads[s] = << "body" >>
    BY <1>2
  <2>4. reads'[s] # << "body" >>
    BY <1>5
  <2>5. Stale(s)' <=> Stale(s)
    BY DEF Stale
  <2>. QED
    BY <1>3, <1>5, <2>1, <2>2, <2>3, <2>4, <2>5 DEF DInv, StaleInv
<1>10. EventInv(s)' /\ (Unannounced(s)' => Unannounced(s))
  <2>1. reads'[s] # << "connected" >>
    BY <1>5
  <2>2. ~Lacks(ready', s, "connected") => reads[s] = << "connected" >>
    BY <1>2, <1>8 DEF Lacks, ReadOps
  <2>3. Unannounced(s)' => Unannounced(s)
    BY <2>1, <2>2 DEF Unannounced
  <2>. QED
    BY <2>3 DEF DInv, EventInv, NoEvents
<1>11. EventsInOrder'
  BY DEF DInv, EventsInOrder
<1>. QED
  BY <1>5, <1>6, <1>9, <1>10, <1>11, SessionDelivery

LEMMA ConnectCompletes ==
  ASSUME DInv, IInv', NEW s \in Sessions, AcceptConnect(s) \/ RefuseConnect(s),
         UNCHANGED managerVars
  PROVE  DInv' /\ StayAnnounced
<1>1. PICK c \in {Completion(s, "connected", FALSE, 0), Failure(s, "connected")},
           o \in {"open", "broken"} :
        /\ InProgress(s, "connected") /\ Complete(s, c)
        /\ sock' = [sock EXCEPT ![s] = o]
        /\ UNCHANGED << delivered, eventCache, current, created, replacedAt >>
  BY DEF AcceptConnect, RefuseConnect, managerVars
<1>2. c \in CompletionType /\ c.s = s /\ c.h = "connected" /\ "connected" \in ReadOps
  <2>1. CASE c = Completion(s, "connected", FALSE, 0)
    BY <2>1 DEF Completion, CompletionType, ReadOps
  <2>2. CASE c = Failure(s, "connected")
    BY <2>2 DEF Failure, Completion, CompletionType, ReadOps
  <2>. QED
    BY <2>1, <2>2
<1>3. sock'[s] = o /\ \A r \in Sessions \ {s} : sock'[r] = sock[r]
  BY <1>1, DeliveryTypes DEF DInv
<1>4. sock[s] # "closed"
  BY <1>1 DEF DInv, StaleInv, InProgress
<1>. QED
  BY <1>1, <1>2, <1>3, <1>4, CompleteDelivery

LEMMA ReadCompletes ==
  ASSUME DInv, IInv', NEW s \in Sessions, CompleteRead(s) \/ FailRead(s),
         UNCHANGED managerVars
  PROVE  DInv' /\ StayAnnounced
<1>4. PICK h \in {"header", "body"} :
        /\ InProgress(s, h)
        /\ \/ Complete(s, Completion(s, h, FALSE, consumed[s] + 1))
           \/ Complete(s, Failure(s, h))
        /\ UNCHANGED << sock, delivered, eventCache, current, created, replacedAt >>
  BY DEF CompleteRead, FailRead, managerVars
<1>1. PICK c \in {Completion(s, h, FALSE, consumed[s] + 1), Failure(s, h)} :
        /\ InProgress(s, h) /\ Complete(s, c)
        /\ UNCHANGED << sock, delivered, eventCache, current, created, replacedAt >>
  BY <1>4
<1>2. c \in CompletionType /\ c.s = s /\ c.h = h /\ h \in ReadOps
  <2>1. consumed[s] + 1 \in Nat
    BY StreamTypes DEF DInv
  <2>2. CASE c = Completion(s, h, FALSE, consumed[s] + 1)
    BY <2>1, <2>2 DEF Completion, CompletionType, ReadOps
  <2>3. CASE c = Failure(s, h)
    BY <2>3 DEF Failure, Completion, CompletionType, ReadOps
  <2>. QED
    BY <2>2, <2>3
<1>3. sock[s] # "closed"
  BY <1>1 DEF DInv, StaleInv, InProgress
<1>. QED
  BY <1>1, <1>2, <1>3, CompleteDelivery

LEMMA WriteCompletes ==
  ASSUME DInv, IInv', NEW s \in Sessions, WriteSome(s) \/ FailWrite(s),
         UNCHANGED managerVars
  PROVE  DInv' /\ StayAnnounced
<1>1. PICK c \in {Completion(s, "written", FALSE, 0), Failure(s, "written")} :
        /\ ready' \in {ready, Append(ready, c)}
        /\ UNCHANGED << reads, sock, delivered, eventCache, current, created, replacedAt >>
  BY DEF WriteSome, FailWrite, managerVars
<1>2. /\ ready \in Queues /\ c \in CompletionType
      /\ \A r \in Sessions, h \in ReadOps : ~Success(c, r, h)
  <2>1. ready \in Queues
    BY DeliveryTypes DEF DInv
  <2>2. CASE c = Completion(s, "written", FALSE, 0)
    BY <2>1, <2>2 DEF Completion, CompletionType, Success, ReadOps
  <2>3. CASE c = Failure(s, "written")
    BY <2>1, <2>3 DEF Failure, Completion, CompletionType, Success, ReadOps
  <2>. QED
    BY <2>2, <2>3
<1>3. \A r \in Sessions : Settles(ready, ready', r)
  BY <1>1, <1>2, SettlesAppend, SettlesSame
<1>. QED
  BY <1>1, <1>3, QuietDelivery DEF TakeEvent

--------------------------------------------------------------------------------
(* The callers *)

LEMMA CallerDelivery ==
  ASSUME DInv, IInv', CallWrite \/ DropEvent \/ PollIdle
  PROVE  DInv' /\ StayAnnounced
<1>1. /\ TakeEvent
      /\ UNCHANGED << reads, sock, delivered, current, created, replacedAt >>
  BY DEF CallWrite, DropEvent, PollIdle, TakeEvent, managerWrite, write, managerVars
<1>2. ready' = ready \/ \E s \in Sessions : ready' = Append(ready, Failure(s, "written"))
  BY DEF DInv, IInv, TypeOK, CallWrite, DropEvent, PollIdle, managerWrite, write
<1>3. ready \in Queues
  BY DeliveryTypes DEF DInv, IInv, TypeOK, SessionTypeOK, Queues
<1>4. \A s \in Sessions : /\ Failure(s, "written") \in CompletionType
                          /\ \A r \in Sessions, h \in ReadOps :
                               ~Success(Failure(s, "written"), r, h)
  BY DEF Failure, Completion, CompletionType, Success, ReadOps
<1>5. \A r \in Sessions : Settles(ready, ready', r)
  BY <1>2, <1>3, <1>4, SettlesAppend, SettlesSame
<1>. QED
  BY <1>1, <1>5, QuietDelivery

\* The session that is replaced has delivered no frame since; its close is posted.
LEMMA ConnectToDelivery ==
  ASSUME DInv, IInv', NEW id \in ServerIDs, connectTo(id), TakeEvent
  PROVE  DInv' /\ StayAnnounced
<1>1. IInv /\ created \in Nat /\ created + 1 \in Sessions /\ current = created
  BY BoundsAssumption DEF DInv, connectTo, IInv, TypeOK, Sessions
<1>. PICK ss \in Sessions : ss = created + 1
  BY <1>1
<1>2. /\ created' = ss /\ current' = ss
      /\ sock' = [sock EXCEPT ![ss] = "connecting"]
      /\ reads' = [reads EXCEPT ![ss] = Append(@, "connected")]
      /\ ready' = IF current # 0 THEN Append(ready, close(current)) ELSE ready
      /\ replacedAt' = [s \in Sessions |->
                          IF s = current THEN Len(delivered[s]) ELSE replacedAt[s]]
      /\ UNCHANGED delivered
  BY DEF connectTo, connect
<1>3. EventsInOrder' /\ FromQueue(eventCache, eventCache')
  BY <1>1, TakeEventOrder DEF DInv
<1>4. /\ ready \in Queues /\ Untouched(ss) /\ NoEvents(ss)
      /\ reads \in [Sessions -> Seq(ReadOps)]
      /\ sock \in [Sessions -> {"none", "connecting", "open", "broken", "closed"}]
  <2>1. ss > created
    BY <1>1
  <2>. QED
    BY <1>1, <2>1, DeliveryTypes DEF DInv, IInv, SessionInv, EventInv, Unannounced
<1>5. /\ sock'[ss] = "connecting"
      /\ \A r \in Sessions \ {ss} : reads'[r] = reads[r] /\ sock'[r] = sock[r]
  BY <1>2, <1>4
<1>6. \A r \in Sessions : Settles(ready, ready', r)
  <2>1. CASE current = 0
    BY <1>2, <2>1, SettlesSame
  <2>2. CASE current # 0
    <3>1. current \in Sessions
      BY <1>1, <2>2 DEF IInv, TypeOK
    <3>2. /\ close(current) \in CompletionType
          /\ \A r \in Sessions, h \in ReadOps : ~Success(close(current), r, h)
      BY <3>1 DEF close, Completion, CompletionType, Success, ReadOps
    <3>. QED
      BY <1>2, <1>4, <2>2, <3>2, SettlesAppend
  <2>. QED
    BY <2>1, <2>2
<1>7. EventInv(ss)' /\ StaleInv(ss)'
  <2>1. NoEvents(ss)'
    BY <1>3, <1>4 DEF NoEvents, FromQueue
  <2>2. ~Stale(ss)'
    BY <1>2 DEF Stale
  <2>. QED
    BY <1>5, <2>1, <2>2 DEF EventInv, NoEvents, StaleInv
<1>8. ASSUME NEW r \in Sessions \ {ss}, r # current
      PROVE  EventInv(r)' /\ StaleInv(r)' /\ (Unannounced(r)' => Unannounced(r))
  <2>1. replacedAt'[r] = replacedAt[r]
    BY <1>2, <1>8
  <2>2. (r > created' => r > created) /\ (Stale(r)' => Stale(r))
    BY <1>1, <1>2, <1>8 DEF Stale, Sessions
  <2>. QED
    BY <1>2, <1>3, <1>5, <1>6, <2>1, <2>2, OtherDelivery DEF FromQueue
<1>9. ASSUME NEW r \in Sessions \ {ss}, r = current
      PROVE  EventInv(r)' /\ StaleInv(r)' /\ (Unannounced(r)' => Unannounced(r))
  <2>1. /\ r > created' => r > created
        /\ reads'[r] = reads[r] /\ sock'[r] = sock[r]
        /\ delivered'[r] = delivered[r] /\ replacedAt'[r] = Len(delivered[r])
        /\ Settles(ready, ready', r)
    BY <1>1, <1>2, <1>5, <1>6, <1>9 DEF Sessions
  <2>2. EventInv(r)' /\ (Unannounced(r)' => Unannounced(r))
    <3>1. Unannounced(r)' => Unannounced(r)
      BY <2>1 DEF Unannounced, Settles, ReadOps
    <3>2. NoEvents(r) => NoEvents(r)'
      BY <1>3 DEF NoEvents, FromQueue
    <3>. QED
      BY <1>3, <2>1, <3>1, <3>2 DEF DInv, EventInv, FromQueue
  <2>3. ClosePosted(ready', r)
    <3>1. close(r) \in CompletionType /\ close(r).s = r /\ close(r).h = "closed"
      BY DEF close, Completion, CompletionType, ReadOps
    <3>2. ready' = Append(ready, close(r))
      BY <1>2, <1>9 DEF Sessions
    <3>. QED
      BY <1>4, <3>1, <3>2, AppendFacts DEF ClosePosted, Queues
  <2>4. Len(delivered[r]) \in Nat
    BY <1>1, DeliveryTypes
  <2>5. Len(delivered'[r]) <= replacedAt'[r] + 1 /\ Len(delivered'[r]) # replacedAt'[r] + 1
    BY <2>1, <2>4
  <2>6. StaleInv(r)
    BY DEF DInv
  <2>7. StaleInv(r)'
    BY <2>1, <2>3, <2>5, <2>6 DEF StaleInv
  <2>. QED
    BY <2>2, <2>7
<1>10. Unannounced(ss)
  BY <1>1 DEF Unannounced
<1>. QED
  BY <1>2, <1>3, <1>7, <1>8, <1>9, <1>10 DEF DInv, StayAnnounced

--------------------------------------------------------------------------------
(* The theorems *)

LEMMA DeliveryInit == LayerInit => DInv
<1>. SUFFICES ASSUME LayerInit PROVE DInv
  OBVIOUS
<1>1. /\ IInv /\ current = created /\ created = 0 /\ ready = << >>
      /\ \A s \in Sessions : sock[s] = "none" /\ reads[s] = << >>
      /\ eventCache = << Event("DisconnectedFromServer", "none", 0, 0) >>
  BY InitInv DEF LayerInit, SessionInit, startUp
<1>2. /\ DOMAIN eventCache = {1}
      /\ eventCache[1].s = 0
  BY <1>1 DEF Event
<1>3. EventsInOrder
  BY <1>2 DEF EventsInOrder
<1>4. ASSUME NEW s \in Sessions PROVE EventInv(s) /\ StaleInv(s)
  <2>1. NoEvents(s)
    BY <1>2 DEF NoEvents, Sessions
  <2>2. ~Stale(s)
    BY <1>1 DEF Stale, Sessions
  <2>. QED
    BY <1>1, <2>1, <2>2 DEF EventInv, NoEvents, StaleInv
<1>. QED
  BY <1>1, <1>3, <1>4 DEF DInv

LEMMA DeliveryNext == DInv /\ [LayerNext]_layerVars => DInv' /\ StayAnnounced
<1>. SUFFICES ASSUME DInv, [LayerNext]_layerVars PROVE DInv' /\ StayAnnounced
  OBVIOUS
<1>1. IInv'
  BY NextInv DEF DInv
<1>2. CASE CallConnectTo
  BY <1>1, <1>2, ConnectToDelivery DEF CallConnectTo
<1>3. CASE CallWrite \/ DropEvent \/ PollIdle
  BY <1>1, <1>3, CallerDelivery
<1>4. ASSUME NEW s \in Sessions, LayerStep(s) PROVE DInv' /\ StayAnnounced
  <2>1. UNCHANGED managerVars
    BY <1>4 DEF LayerStep
  <2>2. CASE Handler(s)
    BY <1>1, <2>1, <2>2, ConnectedDelivery, HeaderReadDelivery, BodyReadDelivery,
       ClosedDelivery, WrittenDelivery DEF Handler
  <2>3. CASE Kernel(s)
    BY <1>1, <2>1, <2>3, ConnectCompletes, ReadCompletes, WriteCompletes DEF Kernel
  <2>4. CASE (\E f \in Frames : PeerSend(s, f)) \/ PeerClose(s)
    <3>1. UNCHANGED << ready, reads, sock, delivered, eventCache, current, created, replacedAt >>
      BY <2>1, <2>4 DEF PeerSend, PeerClose, managerVars
    <3>. QED
      BY <1>1, <3>1, SettlesSame, QuietDelivery DEF TakeEvent
  <2>. QED
    BY <1>4, <2>2, <2>3, <2>4 DEF LayerStep
<1>5. CASE UNCHANGED layerVars
  <2>1. UNCHANGED << ready, reads, sock, delivered, eventCache, current, created, replacedAt >>
    BY <1>5 DEF layerVars, sessionVars, managerVars
  <2>. QED
    BY <1>1, <2>1, SettlesSame, QuietDelivery DEF TakeEvent
<1>. QED
  BY <1>2, <1>3, <1>4, <1>5 DEF LayerNext

LEMMA LayerDelivery == LayerSpec => []DInv
BY DeliveryInit, DeliveryNext, PTL DEF LayerSpec

\* EventsInOrder: whatever fails, closes or is replaced in between, the dispatcher
\* is handed the events of a connection in the order of its frames, none twice,
\* and the announcement of the connection before all of them.
THEOREM LayerEventsInOrder == LayerSpec => []EventsInOrder
<1>1. DInv => EventsInOrder
  BY DEF DInv
<1>. QED
  BY <1>1, LayerDelivery, PTL

\* StaleDeliveryBounded: the posted close of a replaced session is overtaken by at
\* most one frame, for every number of sessions and frames.
THEOREM LayerStaleDelivery == LayerSpec => []StaleDeliveryBounded
<1>1. DInv => StaleDeliveryBounded
  <2>. SUFFICES ASSUME DInv, NEW s \in 1 .. created, s # current
                PROVE  Len(delivered[s]) <= replacedAt[s] + 1
    BY DEF StaleDeliveryBounded
  <2>1. s \in Sessions /\ s <= created
    <3>1. created \in Sessions \cup {0}
      BY DEF DInv, IInv, TypeOK
    <3>. QED
      BY <3>1, BoundsAssumption DEF Sessions
  <2>. QED
    BY <2>1 DEF DInv, StaleInv, Stale
<1>. QED
  BY <1>1, LayerDelivery, PTL

--------------------------------------------------------------------------------
(* The client *)

\* The servers send only frames of the protocol.
LEMMA AnswersAreFrames ==
  ASSUME NEW id, NEW req
  PROVE  Answers(id, req) \subseteq Frames
<1>1. CASE id \in {"DirectoryConnected", "WorldConnected"}
           /\ req \in {"RequestWorldList", "RequestUserRegister", "RequestLogin",
                       "RequestCreatePlayer"}
  BY <1>1, ClientAssumption
<1>2. CASE ~(id \in {"DirectoryConnected", "WorldConnected"}
             /\ req \in {"RequestWorldList", "RequestUserRegister", "RequestLogin",
                         "RequestCreatePlayer"})
  <2>1. Answers(id, req) = {}
    BY <1>2 DEF Answers
  <2>. QED
    BY <2>1
<1>. QED
  BY <1>1, <1>2

\* An event is taken from the queue.
LEMMA NowTakes ==
  ASSUME NEW ev, Now(ev)
  PROVE  eventCache # << >> /\ eventCache' = Tail(eventCache) /\ TakeEvent
BY DEF Now, TakeEvent

\* Each handler makes one call on the manager, or none.
LEMMA HandlersCall ==
  ASSUME \/ onDisconnected \/ onDirectoryConnected \/ onWorldListNotify
         \/ onUserRegistered \/ onWorldConnected \/ onLoginNotify \/ onCreatePlayerNotify
  PROVE  CallConnectTo \/ CallWrite \/ DropEvent
<1>1. /\ {"DirectoryConnected", "WorldConnected"} \subseteq ServerIDs
      /\ {"RequestWorldList", "RequestUserRegister", "RequestLogin",
          "RequestCreatePlayer"} \subseteq Requests
  BY ClientAssumption
<1>2. CASE onDisconnected
  BY <1>1, <1>2, NowTakes DEF onDisconnected, ConnectToDirectory, CallConnectTo
<1>3. CASE onDirectoryConnected
  BY <1>1, <1>3, NowTakes DEF onDirectoryConnected, CallWrite
<1>4. CASE onWorldListNotify
  BY <1>1, <1>4, NowTakes DEF onWorldListNotify, CallWrite
<1>5. CASE onUserRegistered
  <2>1. CASE chosenServer
    BY <1>1, <1>5, <2>1, NowTakes DEF onUserRegistered, ConnectToWorld, CallConnectTo
  <2>2. CASE ~chosenServer
    BY <1>5, <2>2, NowTakes DEF onUserRegistered, NoCall, DropEvent
  <2>. QED
    BY <2>1, <2>2
<1>6. CASE onWorldConnected
  BY <1>1, <1>6, NowTakes DEF onWorldConnected, CallWrite
<1>7. CASE onLoginNotify
  <2>1. CASE Head(eventCache).arg = "ET_NO_DATA"
    BY <1>1, <1>7, <2>1, NowTakes DEF onLoginNotify, CallWrite
  <2>2. CASE Head(eventCache).arg # "ET_NO_DATA"
    BY <1>7, <2>2, NowTakes DEF onLoginNotify, NoCall, DropEvent
  <2>. QED
    BY <2>1, <2>2
<1>8. CASE onCreatePlayerNotify
  BY <1>8, NowTakes DEF onCreatePlayerNotify, NoCall, DropEvent
<1>. QED
  BY <1>2, <1>3, <1>4, <1>5, <1>6, <1>7, <1>8

\* The rest of the loop runs a handler, lets poll stop the io_service, or does
\* nothing to the layer.
LEMMA LoopIsLayer ==
  ASSUME TypeOK, Loop
  PROVE  LayerNext \/ UNCHANGED layerVars
<1>1. CASE \/ onDisconnected \/ onDirectoryConnected \/ onWorldListNotify
           \/ onUserRegistered \/ onWorldConnected \/ onLoginNotify \/ onCreatePlayerNotify
  BY <1>1, HandlersCall DEF LayerNext
<1>2. CASE ResolveFails
  BY <1>2 DEF ResolveFails
<1>3. CASE UpdateEnd
  <2>1. UNCHANGED << sock, reads, requests, ready, flags, serverID, network,
                     delivered, eventCache, managerVars >>
    BY <1>3 DEF UpdateEnd
  <2>2. CASE Idle
    <3>1. PollIdle
      BY <1>3, <2>1, <2>2 DEF UpdateEnd, PollIdle
    <3>. QED
      BY <3>1 DEF LayerNext
  <2>3. CASE ~Idle
    <3>1. stopped \in BOOLEAN /\ stopped' = (stopped \/ FALSE)
      BY <1>3, <2>3 DEF UpdateEnd, TypeOK, SessionTypeOK
    <3>2. stopped' = stopped
      BY <3>1
    <3>. QED
      BY <2>1, <3>2 DEF layerVars, sessionVars, requests, flags, network
  <2>. QED
    BY <2>2, <2>3
<1>4. CASE PollRun
  BY <1>4 DEF PollRun, LayerNext, LayerStep
<1>5. CASE PollEnd
  BY <1>5 DEF PollEnd
<1>. QED
  BY <1>1, <1>2, <1>3, <1>4, <1>5 DEF Loop

LEMMA EnvironmentIsLayer ==
  ASSUME NEW s \in Sessions, Environment(s) \/ ServerClose(s)
  PROVE  LayerNext
<1>1. CASE KernelStep(s)
  BY <1>1 DEF KernelStep, Kernel, LayerNext, LayerStep
<1>2. CASE ServerAnswer(s)
  <2>1. PICK f \in Answers(serverID[s], posted[s][served[s] + 1]) : PeerSend(s, f)
    BY <1>2 DEF ServerAnswer
  <2>2. f \in Frames
    BY <2>1, AnswersAreFrames
  <2>3. UNCHANGED managerVars
    BY <1>2 DEF ServerAnswer
  <2>. QED
    BY <2>1, <2>2, <2>3 DEF LayerNext, LayerStep
<1>3. CASE ServerClose(s)
  BY <1>3 DEF ServerClose, LayerNext, LayerStep
<1>. QED
  BY <1>1, <1>2, <1>3 DEF Environment

LEMMA ClientNext == IInv /\ [Next]_vars => [LayerNext]_layerVars
<1>. SUFFICES ASSUME IInv, [Next]_vars PROVE [LayerNext]_layerVars
  OBVIOUS
<1>1. TypeOK
  BY DEF IInv
<1>2. CASE Loop
  BY <1>1, <1>2, LoopIsLayer
<1>3. CASE \E s \in Sessions : Environment(s) \/ ServerClose(s)
  BY <1>3, EnvironmentIsLayer
<1>4. CASE UNCHANGED vars
  BY <1>4 DEF vars
<1>. QED
  BY <1>2, <1>3, <1>4 DEF Next, Done

LEMMA ClientInductive == Spec => []IInv
<1>1. Init => IInv
  BY InitInv DEF Init
<1>2. IInv /\ [Next]_vars => IInv'
  BY ClientNext, NextInv
<1>. QED
  BY <1>1, <1>2, PTL DEF Spec

\* LayerRefined: whatever the loop, the handlers, the faults and the servers do,
\* every step is one the network layer allows its callers.
THEOREM ClientImplementsLayer == Spec => LayerRefined
<1>1. Init => LayerInit
  BY DEF Init
<1>. QED
  BY <1>1, ClientNext, ClientInductive, PTL DEF Spec, LayerRefined, LayerSpec

\* Framed, in the client: no fault, reconnection or interleaving of the loop
\* makes a read meet the wrong half of a frame.
THEOREM ClientFramed == Spec => []Framed
BY ClientImplementsLayer, LayerFramed, PTL DEF LayerRefined

\* OneRead, in the client: no session ever reads twice at a time into its one
\* buffer, whatever the handlers, the faults and the servers do.
THEOREM ClientOneRead == Spec => []OneRead
BY ClientImplementsLayer, LayerOneRead, PTL DEF LayerRefined

\* StreamSpec, in the client: the directory's and the world's frames reach the
\* dispatcher in the order they were sent, each at most once.
THEOREM ClientStream == Spec => StreamSpec
BY ClientImplementsLayer, LayerStream, PTL DEF LayerRefined

\* EventsInOrder, in the client: the handlers run on the events of each server in
\* the order of its frames.
THEOREM ClientEventsInOrder == Spec => []EventsInOrder
BY ClientImplementsLayer, LayerEventsInOrder, PTL DEF LayerRefined

\* StaleDeliveryBounded, in the client: once it moves to the world, the directory
\* gets at most one more frame into the dispatcher.
THEOREM ClientStaleDelivery == Spec => []StaleDeliveryBounded
BY ClientImplementsLayer, LayerStaleDelivery, PTL DEF LayerRefined

--------------------------------------------------------------------------------
(* The conversations.  On each connection the client and the server take     *)
(* turns: at any time one of them has the next move, and the invariant says  *)
(* which, by the numbers of requests posted, answers sent and answers        *)
(* handed over, and by the one event of the session that may be queued.      *)

\* The requests of a conversation with a server, in their order.
Script(id) == IF id = "DirectoryConnected"
              THEN << "RequestWorldList", "RequestUserRegister" >>
              ELSE << "RequestLogin", "RequestCreatePlayer" >>

\* The turns of session s, and what was said.
Turns(s) ==
  LET p == Len(posted[s])  m == Len(sent[s])  d == Len(delivered[s]) IN
  /\ served[s] = m
  /\ d <= m /\ m <= p /\ p <= d + 1 /\ p <= 2
  /\ Unannounced(s) => p = 0
  /\ \A n \in 1 .. p : posted[s][n] = Script(serverID[s])[n]
  /\ \A n \in 1 .. m : sent[s][n] \in Answers(serverID[s], Script(serverID[s])[n])
  /\ \A n \in 1 .. d : delivered[s][n] = sent[s][n]

\* What is written of the requests of session s: only the last may be incomplete,
\* and only while its answer is awaited.
Written(s) ==
  LET p == Len(posted[s])  m == Len(sent[s])  w == Len(wire[s]) IN
  /\ WriteChunks * m <= w /\ w <= WriteChunks * p
  /\ \A i \in 1 .. w :
       wire[s][i] = << 1 + ((i - 1) \div WriteChunks), 1 + ((i - 1) % WriteChunks) >>
  /\ \/ writes[s] = << >>
     \/ \E l \in 1 .. WriteChunks :
          writes[s] = << [msg |-> p, left |-> l] >> /\ w = WriteChunks * p - l

\* The event e that session s may have queued: its announcement or its last frame,
\* while the client has the next move.
Announces(e, s) ==
  LET d == Len(delivered[s]) IN
  /\ e.k = d /\ Len(posted[s]) = d
  /\ e.ev = IF d = 0 THEN serverID[s] ELSE distributeRules[delivered[s][d].type]

\* The directory is the first session and the world the second, which exists only
\* when the conversation with the directory is over.
Roles ==
  /\ created <= 2
  /\ \A s \in 1 .. created :
       serverID[s] = IF s = 1 THEN "DirectoryConnected" ELSE "WorldConnected"
  /\ created = 2 => Len(delivered[1]) = 2 /\ NoEvents(1)

\* The start-up event is there until the first session is created.
StartEvent(e) == e.k = 0 /\ e.ev = "DisconnectedFromServer" /\ created = 0

Tells(e) == IF e.s = 0 THEN StartEvent(e) ELSE Announces(e, e.s)

EventsTell == \A i \in DOMAIN eventCache : Tells(eventCache[i])

CInv == /\ DInv
        /\ served \in [Sessions -> Nat]
        /\ Roles
        /\ EventsTell
        /\ \A s \in Sessions : Turns(s) /\ Written(s)

\* The loop leaves update only when the queue is empty, and only poll fills it.
LoopInv == /\ pc = "poll" /\ ~ran => eventCache = << >>
           /\ pc = "exit" => eventCache = << >>

--------------------------------------------------------------------------------
(* The loop *)

\* No step of the kernel or of a server reaches the program's queue.
LEMMA EnvironmentEvents ==
  ASSUME NEW s \in Sessions, Environment(s) \/ ServerClose(s)
  PROVE  UNCHANGED << eventCache, pc, ran, chosenServer >>
<1>1. CASE KernelStep(s)
  BY <1>1 DEF KernelStep, AcceptConnect, RefuseConnect, CompleteRead, FailRead, WriteSome,
              FailWrite, loopVars
<1>2. CASE ServerAnswer(s)
  BY <1>2 DEF ServerAnswer, PeerSend
<1>3. CASE ServerClose(s)
  BY <1>3 DEF ServerClose, PeerClose, loopVars
<1>. QED
  BY <1>1, <1>2, <1>3 DEF Environment

LEMMA LoopNext == LoopInv /\ [Next]_vars => LoopInv'
<1>. SUFFICES ASSUME LoopInv, [Next]_vars PROVE LoopInv'
  OBVIOUS
<1>1. CASE \/ onDisconnected \/ onDirectoryConnected \/ onWorldListNotify
           \/ onUserRegistered \/ onWorldConnected \/ onLoginNotify \/ onCreatePlayerNotify
  <2>1. pc = "update" /\ pc' = pc
    BY <1>1 DEF onDisconnected, onDirectoryConnected, onWorldListNotify, onUserRegistered,
                onWorldConnected, onLoginNotify, onCreatePlayerNotify, Now, loopVars
  <2>. QED
    BY <2>1 DEF LoopInv
<1>2. CASE ResolveFails
  BY <1>2 DEF ResolveFails, LoopInv
<1>3. CASE UpdateEnd
  BY <1>3 DEF UpdateEnd, LoopInv
<1>4. CASE PollRun
  BY <1>4 DEF PollRun, LoopInv
<1>5. CASE PollEnd
  <2>1. eventCache' = eventCache /\ pc = "poll"
    BY <1>5 DEF PollEnd, layerVars, sessionVars
  <2>2. (pc' = "exit" /\ ~ran) \/ pc' = "update"
    BY <1>5 DEF PollEnd
  <2>. QED
    BY <2>1, <2>2 DEF LoopInv
<1>6. CASE \E s \in Sessions : Environment(s) \/ ServerClose(s)
  BY <1>6, EnvironmentEvents DEF LoopInv
<1>7. CASE UNCHANGED vars
  BY <1>7 DEF vars, layerVars, sessionVars, LoopInv
<1>. QED
  BY <1>1, <1>2, <1>3, <1>4, <1>5, <1>6, <1>7 DEF Next, Loop, Done

\* ExitDrained: the program exits on a failed session only when every event of a
\* frame received before the failure has been handled.
THEOREM ClientExitDrained == Spec => []ExitDrained
<1>1. Init => LoopInv
  BY DEF Init, LoopInv
<1>2. LoopInv => ExitDrained
  BY DEF LoopInv, ExitDrained
<1>. QED
  BY <1>1, <1>2, LoopNext, PTL DEF Spec

--------------------------------------------------------------------------------
(* The turns *)

LEMMA TalkTypes ==
  ASSUME IInv, NEW s \in Sessions
  PROVE  /\ posted \in [Sessions -> Seq(Requests)] /\ posted[s] \in Seq(Requests)
         /\ sent \in [Sessions -> Seq(Frames)] /\ sent[s] \in Seq(Frames)
         /\ delivered \in [Sessions -> Seq(Frames)] /\ delivered[s] \in Seq(Frames)
         /\ wire \in [Sessions -> Seq(Nat \X (1 .. WriteChunks))]
         /\ wire[s] \in Seq(Nat \X (1 .. WriteChunks))
         /\ writes \in [Sessions -> Seq(WriteType)] /\ writes[s] \in Seq(WriteType)
         /\ Len(posted[s]) \in Nat /\ Len(sent[s]) \in Nat
         /\ Len(delivered[s]) \in Nat /\ Len(wire[s]) \in Nat
<1>1. SessionTypeOK
  BY DEF IInv, TypeOK
<1>2. /\ posted \in [Sessions -> Seq(Requests)] /\ sent \in [Sessions -> Seq(Frames)]
      /\ delivered \in [Sessions -> Seq(Frames)]
      /\ wire \in [Sessions -> Seq(Nat \X (1 .. WriteChunks))]
      /\ writes \in [Sessions -> Seq(WriteType)]
  BY <1>1 DEF SessionTypeOK
<1>3. \A S : \A q \in Seq(S) : Len(q) \in Nat
  OBVIOUS
<1>4. /\ posted[s] \in Seq(Requests) /\ sent[s] \in Seq(Frames)
      /\ delivered[s] \in Seq(Frames) /\ wire[s] \in Seq(Nat \X (1 .. WriteChunks))
      /\ writes[s] \in Seq(WriteType)
  BY <1>2
<1>. QED
  BY <1>2, <1>3, <1>4

\* A step that says nothing on session r; at most its write is aborted.
LEMMA TalkKept ==
  ASSUME NEW r \in Sessions, Turns(r), Written(r),
         serverID'[r] = serverID[r], posted'[r] = posted[r], sent'[r] = sent[r],
         delivered'[r] = delivered[r], wire'[r] = wire[r], served'[r] = served[r],
         writes'[r] = writes[r] \/ writes'[r] = << >>,
         Unannounced(r)' => Unannounced(r)
  PROVE  Turns(r)' /\ Written(r)'
<1>1. Turns(r)'
  BY DEF Turns
<1>2. Written(r)'
  BY DEF Written
<1>. QED
  BY <1>1, <1>2

\* A step that queues no event and leaves alone what the queued ones tell.
LEMMA TellKept ==
  ASSUME EventsTell, Roles, FromQueue(eventCache, eventCache'),
         UNCHANGED << created, serverID, posted, delivered >>
  PROVE  EventsTell' /\ Roles'
<1>1. EventsTell'
  <2>. SUFFICES ASSUME NEW i \in DOMAIN eventCache' PROVE Tells(eventCache[i])'
    BY DEF EventsTell
  <2>1. PICK j \in DOMAIN eventCache : eventCache'[i] = eventCache[j]
    BY DEF FromQueue
  <2>2. Tells(eventCache[j])
    BY DEF EventsTell
  <2>. QED
    BY <2>1, <2>2 DEF Tells, StartEvent, Announces
<1>2. NoEvents(1) => NoEvents(1)'
  BY DEF NoEvents, FromQueue
<1>3. Roles'
  BY <1>2 DEF Roles
<1>. QED
  BY <1>1, <1>3

\* A step in which nobody says anything, once it is clear what it does to the queue.
LEMMA SilentTold ==
  ASSUME CInv, DInv', StayAnnounced, EventsTell', Roles',
         UNCHANGED << serverID, posted, sent, delivered, wire, served >>,
         \A r \in Sessions : writes'[r] = writes[r] \/ writes'[r] = << >>
  PROVE  CInv'
<1>1. ASSUME NEW r \in Sessions PROVE Turns(r)' /\ Written(r)'
  BY <1>1, TalkKept DEF CInv, StayAnnounced
<1>. QED
  BY <1>1 DEF CInv

LEMMA SilentTalk ==
  ASSUME CInv, DInv', StayAnnounced, FromQueue(eventCache, eventCache'),
         UNCHANGED << created, serverID, posted, sent, delivered, wire, served >>,
         \A r \in Sessions : writes'[r] = writes[r] \/ writes'[r] = << >>
  PROVE  CInv'
<1>1. EventsTell' /\ Roles'
  BY TellKept DEF CInv
<1>. QED
  BY <1>1, SilentTold

\* A step on session s, once it is clear what is said there.
LEMMA OneTalk ==
  ASSUME CInv, DInv', StayAnnounced, NEW s \in Sessions,
         served' \in [Sessions -> Nat], EventsTell', Roles', Turns(s)', Written(s)',
         \A r \in Sessions \ {s} :
           /\ serverID'[r] = serverID[r] /\ posted'[r] = posted[r] /\ sent'[r] = sent[r]
           /\ delivered'[r] = delivered[r] /\ wire'[r] = wire[r] /\ served'[r] = served[r]
           /\ writes'[r] = writes[r]
  PROVE  CInv'
<1>1. ASSUME NEW r \in Sessions \ {s} PROVE Turns(r)' /\ Written(r)'
  BY <1>1, TalkKept DEF CInv, StayAnnounced
<1>. QED
  BY <1>1 DEF CInv

--------------------------------------------------------------------------------
(* The kernel and the servers *)

LEMMA SameEvents ==
  ASSUME eventCache' = eventCache
  PROVE  FromQueue(eventCache, eventCache')
BY DEF FromQueue

LEMMA KernelTalk ==
  ASSUME CInv, DInv', StayAnnounced, NEW s \in Sessions,
         \/ AcceptConnect(s) \/ RefuseConnect(s) \/ CompleteRead(s) \/ FailRead(s)
         \/ PeerClose(s),
         UNCHANGED << managerVars, served >>
  PROVE  CInv'
<1>1. UNCHANGED << created, serverID, posted, sent, delivered, wire, writes, eventCache >>
  BY DEF AcceptConnect, RefuseConnect, CompleteRead, FailRead, PeerClose, managerVars,
         requests, network
<1>2. UNCHANGED << created, serverID, posted, sent, delivered, wire, served >>
  BY <1>1
<1>3. \A r \in Sessions : writes'[r] = writes[r] \/ writes'[r] = << >>
  BY <1>1
<1>. QED
  BY <1>1, <1>2, <1>3, SameEvents, SilentTalk

\* There is one write in progress, so that it leaves none behind.
LEMMA FailWriteTalk ==
  ASSUME CInv, DInv', StayAnnounced, NEW s \in Sessions, FailWrite(s),
         UNCHANGED << managerVars, served >>
  PROVE  CInv'
<1>1. /\ UNCHANGED << created, serverID, posted, sent, delivered, wire, served >>
      /\ eventCache' = eventCache
      /\ writes[s] # << >> /\ writes' = [writes EXCEPT ![s] = Tail(@)]
  BY DEF FailWrite, managerVars, network
<1>2. writes \in [Sessions -> Seq(WriteType)]
  BY TalkTypes DEF CInv, DInv
<1>3. PICK x : writes[s] = << x >>
  BY <1>1 DEF CInv, Written
<1>4. Tail(writes[s]) = << >>
  BY <1>3
<1>5. \A r \in Sessions : writes'[r] = writes[r] \/ writes'[r] = << >>
  BY <1>1, <1>2, <1>4
<1>. QED
  BY <1>1, <1>5, SameEvents, SilentTalk

LEMMA UpToNext ==
  ASSUME NEW n \in Nat
  PROVE  \A i \in 1 .. n + 1 : i \in 1 .. n \/ i = n + 1
OBVIOUS

LEMMA ChunkNumber ==
  ASSUME NEW p \in Nat, NEW l \in 1 .. WriteChunks, NEW w \in Nat, w = WriteChunks * p - l
  PROVE  /\ 1 + ((w + 1 - 1) \div WriteChunks) = p
         /\ 1 + ((w + 1 - 1) % WriteChunks) = WriteChunks + 1 - l
<1>1. CASE l = 1
  BY <1>1 DEF WriteChunks
<1>2. CASE l = 2
  BY <1>2 DEF WriteChunks
<1>. QED
  BY <1>1, <1>2 DEF WriteChunks

\* The next chunk of the last request goes where it belongs.
LEMMA WriteSomeTalk ==
  ASSUME CInv, DInv', StayAnnounced, NEW s \in Sessions, WriteSome(s),
         UNCHANGED << managerVars, served >>
  PROVE  CInv'
<1>. DEFINE p == Len(posted[s])
            m == Len(sent[s])
            w == Len(wire[s])
            h == Head(writes[s])
            rest == [h EXCEPT !.left = @ - 1]
            c == << h.msg, WriteChunks + 1 - h.left >>
<1>1. /\ UNCHANGED << created, serverID, posted, sent, delivered, served >>
      /\ eventCache' = eventCache
      /\ writes[s] # << >>
      /\ wire' = [wire EXCEPT ![s] = Append(@, c)]
      /\ IF rest.left = 0
         THEN writes' = [writes EXCEPT ![s] = Tail(@)]
         ELSE writes' = [writes EXCEPT ![s] = Append(Tail(@), rest)]
  BY DEF WriteSome, managerVars
<1>2. /\ writes \in [Sessions -> Seq(WriteType)]
      /\ wire \in [Sessions -> Seq(Nat \X (1 .. WriteChunks))]
      /\ wire[s] \in Seq(Nat \X (1 .. WriteChunks))
      /\ p \in Nat /\ m \in Nat /\ w \in Nat
  BY TalkTypes DEF CInv, DInv
<1>3. PICK l \in 1 .. WriteChunks :
        writes[s] = << [msg |-> p, left |-> l] >> /\ w = WriteChunks * p - l
  BY <1>1 DEF CInv, Written
<1>4. /\ h = [msg |-> p, left |-> l] /\ Tail(writes[s]) = << >>
      /\ c = << p, WriteChunks + 1 - l >>
      /\ rest = [msg |-> p, left |-> l - 1] /\ rest.left = l - 1
  BY <1>3
<1>5. c = << 1 + ((w + 1 - 1) \div WriteChunks), 1 + ((w + 1 - 1) % WriteChunks) >>
  BY <1>2, <1>3, <1>4, ChunkNumber
<1>6. c \in Nat \X (1 .. WriteChunks)
  BY <1>2, <1>4 DEF WriteChunks
<1>7. wire'[s] = Append(wire[s], c)
  BY <1>1, <1>2
<1>8. /\ Len(wire'[s]) = w + 1
      /\ \A i \in 1 .. w : wire'[s][i] = wire[s][i]
      /\ wire'[s][w + 1] = c
  <2>. HIDE DEF c
  <2>. QED
    BY <1>2, <1>6, <1>7, AppendFacts
<1>9. writes'[s] = IF l = 1 THEN << >> ELSE << [msg |-> p, left |-> l - 1] >>
  <2>1. CASE l = 1
    <3>1. rest.left = 0
      BY <1>4, <2>1
    <3>2. writes' = [writes EXCEPT ![s] = Tail(@)]
      BY <1>1, <3>1
    <3>. QED
      BY <1>2, <1>4, <2>1, <3>2
  <2>2. CASE l # 1
    <3>1. writes' = [writes EXCEPT ![s] = Append(Tail(@), rest)]
      BY <1>1, <1>4, <2>2
    <3>2. Append(<< >>, [msg |-> p, left |-> l - 1]) = << [msg |-> p, left |-> l - 1] >>
      OBVIOUS
    <3>. QED
      BY <1>2, <1>4, <2>2, <3>1, <3>2
  <2>. QED
    BY <2>1, <2>2
<1>10. Written(s)'
  <2>1. /\ WriteChunks * m <= w + 1 /\ w + 1 <= WriteChunks * p
        /\ w + 1 = WriteChunks * p - (l - 1)
    BY <1>2, <1>3 DEF CInv, Written, WriteChunks
  <2>2. \A i \in 1 .. w + 1 : wire'[s][i] =
          << 1 + ((i - 1) \div WriteChunks), 1 + ((i - 1) % WriteChunks) >>
    <3>1. \A i \in 1 .. w : wire[s][i] =
            << 1 + ((i - 1) \div WriteChunks), 1 + ((i - 1) % WriteChunks) >>
      BY DEF CInv, Written
    <3>2. \A i \in 1 .. w + 1 : i \in 1 .. w \/ i = w + 1
      BY <1>2, UpToNext
    <3>3. SUFFICES ASSUME NEW i \in 1 .. w + 1
                   PROVE  wire'[s][i] =
                            << 1 + ((i - 1) \div WriteChunks), 1 + ((i - 1) % WriteChunks) >>
      OBVIOUS
    <3>4. CASE i = w + 1
      <4>. HIDE DEF c
      <4>. QED
        BY ONLY <1>5, <1>8, <3>4
    <3>5. CASE i \in 1 .. w
      <4>1. wire'[s][i] = wire[s][i]
        BY ONLY <1>8, <3>5
      <4>. QED
        BY ONLY <4>1, <3>1, <3>5
    <3>. QED
      BY ONLY <3>2, <3>3, <3>4, <3>5
  <2>3. \/ writes'[s] = << >>
        \/ \E k \in 1 .. WriteChunks :
             writes'[s] = << [msg |-> p, left |-> k] >> /\ w + 1 = WriteChunks * p - k
    <3>1. CASE l = 1
      BY <1>9, <3>1
    <3>2. CASE l # 1
      <4>1. l - 1 \in 1 .. WriteChunks
        BY <3>2 DEF WriteChunks
      <4>. QED
        BY <1>9, <2>1, <3>2, <4>1
    <3>. QED
      BY <3>1, <3>2
  <2>4. posted'[s] = posted[s] /\ sent'[s] = sent[s] /\ Len(wire'[s]) = w + 1
    BY <1>1, <1>8
  <2>. QED
    BY <2>1, <2>2, <2>3, <2>4 DEF Written
<1>11. Turns(s)'
  BY <1>1 DEF CInv, Turns, StayAnnounced
<1>12. EventsTell' /\ Roles'
  BY <1>1, SameEvents, TellKept DEF CInv
<1>13. \A r \in Sessions \ {s} : wire'[r] = wire[r] /\ writes'[r] = writes[r]
  BY <1>1, <1>2
<1>14. served' \in [Sessions -> Nat]
  BY <1>1 DEF CInv
<1>. QED
  BY <1>1, <1>10, <1>11, <1>12, <1>13, <1>14, OneTalk

\* The server answers a request that is whole, which is the last one posted and
\* has no other answer.
LEMMA ServerAnswerTalk ==
  ASSUME CInv, DInv', StayAnnounced, NEW s \in Sessions, ServerAnswer(s)
  PROVE  CInv'
<1>. DEFINE p == Len(posted[s])
            m == Len(sent[s])
            d == Len(delivered[s])
            w == Len(wire[s])
<1>1. PICK f \in Answers(serverID[s], posted[s][served[s] + 1]) : PeerSend(s, f)
  BY DEF ServerAnswer
<1>2. /\ UNCHANGED << created, serverID, posted, delivered, wire, writes >>
      /\ eventCache' = eventCache
      /\ sent' = [sent EXCEPT ![s] = Append(@, f)]
      /\ served' = [served EXCEPT ![s] = @ + 1]
      /\ Len(wire[s]) >= WriteChunks * (served[s] + 1)
  BY <1>1 DEF ServerAnswer, PeerSend, managerVars, requests, WholeRequest
<1>3. /\ sent \in [Sessions -> Seq(Frames)] /\ sent[s] \in Seq(Frames)
      /\ p \in Nat /\ m \in Nat /\ d \in Nat /\ w \in Nat
  BY TalkTypes DEF CInv, DInv
<1>4. /\ served[s] = m /\ d <= m /\ m <= p /\ p <= d + 1 /\ p <= 2
      /\ WriteChunks * m <= w /\ w <= WriteChunks * p
      /\ served \in [Sessions -> Nat]
  BY DEF CInv, Turns, Written
<1>5. p = m + 1 /\ w = WriteChunks * p
  BY <1>2, <1>3, <1>4, SMTT(30) DEF WriteChunks
<1>6. f \in Frames /\ f \in Answers(serverID[s], Script(serverID[s])[m + 1])
  <2>1. posted[s][m + 1] = Script(serverID[s])[m + 1]
    BY <1>3, <1>5 DEF CInv, Turns
  <2>. QED
    BY <1>1, <1>4, <2>1, AnswersAreFrames
<1>7. /\ Len(sent'[s]) = m + 1
      /\ \A i \in 1 .. m : sent'[s][i] = sent[s][i]
      /\ sent'[s][m + 1] = f
      /\ \A r \in Sessions \ {s} : sent'[r] = sent[r]
  <2>1. sent'[s] = Append(sent[s], f) /\ \A r \in Sessions \ {s} : sent'[r] = sent[r]
    BY <1>2, <1>3
  <2>. QED
    BY <1>3, <1>6, <2>1, AppendFacts
<1>8. served'[s] = m + 1 /\ (\A r \in Sessions \ {s} : served'[r] = served[r])
      /\ served' \in [Sessions -> Nat]
  BY <1>2, <1>3, <1>4
<1>9. Turns(s)'
  <2>1. \A n \in 1 .. m + 1 : sent'[s][n] \in Answers(serverID[s], Script(serverID[s])[n])
    <3>1. \A n \in 1 .. m + 1 : n \in 1 .. m \/ n = m + 1
      BY <1>3, UpToNext
    <3>2. \A n \in 1 .. m : sent[s][n] \in Answers(serverID[s], Script(serverID[s])[n])
      BY DEF CInv, Turns
    <3>. QED
      BY <1>6, <1>7, <3>1, <3>2
  <2>2. \A n \in 1 .. d : delivered[s][n] = sent'[s][n]
    <3>1. \A n \in 1 .. d : n \in 1 .. m
      BY <1>3, <1>4
    <3>2. \A n \in 1 .. d : delivered[s][n] = sent[s][n]
      BY DEF CInv, Turns
    <3>. QED
      BY <1>7, <3>1, <3>2
  <2>3. /\ d <= m + 1 /\ m + 1 <= p /\ p <= d + 1 /\ p <= 2
    BY <1>3, <1>4, <1>5
  <2>4. /\ Unannounced(s)' => p = 0
        /\ \A n \in 1 .. p : posted[s][n] = Script(serverID[s])[n]
    BY DEF CInv, Turns, StayAnnounced
  <2>5. posted'[s] = posted[s] /\ delivered'[s] = delivered[s] /\ serverID'[s] = serverID[s]
    BY <1>2
  <2>. QED
    BY <1>7, <1>8, <2>1, <2>2, <2>3, <2>4, <2>5 DEF Turns
<1>10. Written(s)'
  <2>1. WriteChunks * (m + 1) <= w
    BY <1>3, <1>5
  <2>2. writes[s] = << >>
    <3>1. writes[s] = << >> \/ \E l \in 1 .. WriteChunks : w = WriteChunks * p - l
      BY DEF CInv, Written
    <3>2. \A l \in 1 .. WriteChunks : w # WriteChunks * p - l
      BY <1>3, <1>5 DEF WriteChunks
    <3>. QED
      BY <3>1, <3>2
  <2>3. posted'[s] = posted[s] /\ wire'[s] = wire[s] /\ writes'[s] = << >>
    BY <1>2, <2>2
  <2>4. w <= WriteChunks * p /\ \A i \in 1 .. w :
          wire[s][i] = << 1 + ((i - 1) \div WriteChunks), 1 + ((i - 1) % WriteChunks) >>
    BY DEF CInv, Written
  <2>. QED
    BY <1>7, <2>1, <2>3, <2>4 DEF Written
<1>11. EventsTell' /\ Roles'
  BY <1>2, SameEvents, TellKept DEF CInv
<1>. QED
  BY <1>2, <1>7, <1>8, <1>9, <1>10, <1>11, OneTalk

--------------------------------------------------------------------------------
(* The handlers that poll runs *)

LEMMA NewEvent ==
  ASSUME eventCache \in Seq(EventType), NEW e \in EventType,
         eventCache' = eventCache \o << e >>
  PROVE  \A i \in DOMAIN eventCache' :
           eventCache'[i] = e \/ \E j \in DOMAIN eventCache : eventCache'[i] = eventCache[j]
<1>1. eventCache' = Append(eventCache, e)
  OBVIOUS
<1>. QED
  BY <1>1, AppendFacts

\* The connection is announced before anything is said.
LEMMA ConnectedTalk ==
  ASSUME CInv, DInv', StayAnnounced, NEW s \in Sessions, handle_connected(s),
         UNCHANGED << managerVars, served >>
  PROVE  CInv'
<1>. DEFINE e == Event(serverID[s], "none", s, 0)
<1>1. /\ UNCHANGED << created, serverID, posted, sent, delivered, wire, served, writes >>
      /\ Runs(s, "connected")
  BY DEF handle_connected, managerVars, requests, network
<1>2. IInv /\ "connected" \in ReadOps
  BY DEF CInv, DInv, ReadOps
<1>3. CASE Head(ready).err
  <2>1. eventCache' = eventCache
    BY <1>3 DEF handle_connected
  <2>. QED
    BY <1>1, <2>1, SameEvents, SilentTalk
<1>4. CASE ~Head(ready).err
  <2>1. eventCache' = eventCache \o << e >>
    BY <1>4 DEF handle_connected, serverConnectOn
  <2>2. e \in EventType /\ e.s = s /\ e.k = 0 /\ e.ev = serverID[s]
    <3>1. serverID[s] \in ServerIDs
      BY <1>1, <1>2, RunningOp
    <3>. QED
      BY <3>1 DEF Event, EventType, EventNames, Args
  <2>3. Len(posted[s]) = 0 /\ Len(delivered[s]) = 0
    <3>1. ~Lacks(ready, s, "connected")
      <4>1. ready \in Queues /\ ready # << >>
        BY <1>1, <1>2, RunningOp
      <4>2. Head(ready) = ready[1] /\ 1 \in DOMAIN ready
        BY <4>1, TailFacts DEF Queues
      <4>. QED
        BY <1>1, <1>4, <4>2 DEF Lacks, Success, Runs
    <3>2. Unannounced(s)
      BY <3>1 DEF Unannounced
    <3>3. /\ Len(posted[s]) = 0 /\ Len(delivered[s]) <= Len(sent[s])
          /\ Len(sent[s]) <= Len(posted[s])
      BY <3>2 DEF CInv, Turns
    <3>. QED
      BY <1>2, <3>3, TalkTypes
  <2>4. \A i \in DOMAIN eventCache' :
          eventCache'[i] = e \/ \E j \in DOMAIN eventCache : eventCache'[i] = eventCache[j]
    <3>1. eventCache \in Seq(EventType)
      BY <1>2, DeliveryTypes
    <3>. HIDE DEF e
    <3>. QED
      BY <2>1, <2>2, <3>1, NewEvent
  <2>5. EventsTell'
    <3>. SUFFICES ASSUME NEW i \in DOMAIN eventCache' PROVE Tells(eventCache[i])'
      BY DEF EventsTell
    <3>1. CASE eventCache'[i] = e
      <4>1. s # 0
        BY DEF Sessions
      <4>. HIDE DEF e
      <4>. QED
        BY <1>1, <2>2, <2>3, <3>1, <4>1 DEF Tells, Announces
    <3>2. ASSUME NEW j \in DOMAIN eventCache, eventCache'[i] = eventCache[j]
          PROVE  Tells(eventCache[i])'
      <4>1. Tells(eventCache[j])
        BY DEF CInv, EventsTell
      <4>. QED
        BY <1>1, <3>2, <4>1 DEF Tells, StartEvent, Announces
    <3>. QED
      BY <2>4, <3>1, <3>2
  <2>6. Roles'
    <3>1. created = 2 /\ NoEvents(1) => NoEvents(1)'
      <4>1. created = 2 => s # 1
        BY <2>3, SMTT(30) DEF CInv, Roles
      <4>. HIDE DEF e
      <4>. QED
        BY <2>2, <2>4, <4>1 DEF NoEvents
    <3>. QED
      BY <1>1, <3>1 DEF CInv, Roles
  <2>7. \A r \in Sessions : writes'[r] = writes[r]
    BY <1>1
  <2>. QED
    BY <1>1, <2>5, <2>6, <2>7, SilentTold
<1>. QED
  BY <1>3, <1>4

\* The frame handed over is the answer to the last request, and the session's
\* earlier events are gone.
LEMMA BodyReadTalk ==
  ASSUME CInv, DInv', StayAnnounced, NEW s \in Sessions, handle_bodyRead(s),
         UNCHANGED << managerVars, served >>
  PROVE  CInv'
<1>. DEFINE p == Len(posted[s])
            m == Len(sent[s])
            d == Len(delivered[s])
            k == Head(ready).k \div 2
            f == sent[s][k]
            e == Event(distributeRules[f.type], f.arg, s, k)
            raised == f.type \in DOMAIN distributeRules /\ f.arg # "undecodable"
<1>1. /\ UNCHANGED << created, serverID, posted, sent, wire, served, writes >>
      /\ Runs(s, "body")
  BY DEF handle_bodyRead, managerVars, requests, network
<1>2. /\ IInv
      /\ delivered \in [Sessions -> Seq(Frames)] /\ delivered[s] \in Seq(Frames)
      /\ p \in Nat /\ m \in Nat /\ d \in Nat /\ eventCache \in Seq(EventType)
  BY TalkTypes, DeliveryTypes DEF CInv, DInv
<1>3. CASE Head(ready).err
  <2>1. eventCache' = eventCache /\ delivered' = delivered
    BY <1>3 DEF handle_bodyRead
  <2>. QED
    BY <1>1, <2>1, SameEvents, SilentTalk
<1>4. CASE ~Head(ready).err
  <2>1. /\ delivered' = [delivered EXCEPT ![s] = Append(@, f)]
        /\ eventCache' = IF raised THEN eventCache \o << e >> ELSE eventCache \o << >>
    BY <1>4 DEF handle_bodyRead, redirectNetBuffer
  <2>2. k = d + 1 /\ d + 1 <= m /\ f \in Frames
    BY <1>1, <1>2, <1>4, NextFrame
  <2>3. p = d + 1 /\ m = d + 1 /\ d + 1 <= 2
    <3>1. d <= m /\ m <= p /\ p <= d + 1 /\ p <= 2
      BY DEF CInv, Turns
    <3>. QED
      BY <1>2, <2>2, <3>1
  <2>4. /\ Len(delivered'[s]) = d + 1
        /\ \A i \in 1 .. d : delivered'[s][i] = delivered[s][i]
        /\ delivered'[s][d + 1] = f
        /\ \A r \in Sessions \ {s} : delivered'[r] = delivered[r]
    <3>1. /\ delivered'[s] = Append(delivered[s], f)
          /\ \A r \in Sessions \ {s} : delivered'[r] = delivered[r]
      BY <1>2, <2>1
    <3>. HIDE DEF f
    <3>. QED
      BY <1>2, <2>2, <3>1, AppendFacts
  <2>5. NoEvents(s)
    <3>. SUFFICES ASSUME NEW i \in DOMAIN eventCache, eventCache[i].s = s PROVE FALSE
      BY DEF NoEvents
    <3>1. s # 0
      BY DEF Sessions
    <3>2. p = d
      BY <3>1 DEF CInv, EventsTell, Tells, Announces
    <3>. QED
      BY <1>2, <2>3, <3>2
  <2>6. raised => e \in EventType /\ e.s = s /\ e.k = d + 1 /\ e.ev = distributeRules[f.type]
    <3>1. f.arg \in Args /\ d + 1 \in Nat /\ s \in Sessions \cup {0} /\ k = d + 1
      BY <1>2, <2>2 DEF Args
    <3>2. raised => distributeRules[f.type] \in EventNames
      BY DEF EventNames
    <3>3. e = [ev |-> distributeRules[f.type], arg |-> f.arg, s |-> s, k |-> k]
      BY DEF Event
    <3>. HIDE DEF e, raised, f, k, d
    <3>. QED
      BY ONLY <3>1, <3>2, <3>3 DEF EventType
  <2>7. \A i \in DOMAIN eventCache' :
          \/ raised /\ eventCache'[i] = e
          \/ \E j \in DOMAIN eventCache : eventCache'[i] = eventCache[j]
    <3>. HIDE DEF e, raised
    <3>1. CASE raised
      BY <1>2, <2>1, <2>6, <3>1, NewEvent
    <3>2. CASE ~raised
      BY <1>2, <2>1, <3>2
    <3>. QED
      BY <3>1, <3>2
  <2>8. EventsTell'
    <3>. SUFFICES ASSUME NEW i \in DOMAIN eventCache' PROVE Tells(eventCache[i])'
      BY DEF EventsTell
    <3>1. s # 0 /\ d + 1 # 0
      BY <1>2 DEF Sessions
    <3>2. CASE raised /\ eventCache'[i] = e
      <4>1. /\ eventCache'[i].s = s /\ eventCache'[i].k = d + 1
            /\ eventCache'[i].ev = distributeRules[f.type]
        BY <2>6, <3>2
      <4>2. Len(posted'[s]) = d + 1
        BY <1>1, <2>3
      <4>. HIDE DEF f, e, d
      <4>. QED
        BY <2>4, <3>1, <4>1, <4>2 DEF Tells, Announces
    <3>3. ASSUME NEW j \in DOMAIN eventCache, eventCache'[i] = eventCache[j]
          PROVE  Tells(eventCache[i])'
      <4>1. Tells(eventCache[j]) /\ eventCache[j].s # s
        BY <2>5 DEF CInv, EventsTell, NoEvents
      <4>2. eventCache[j].s \in Sessions \cup {0}
        <5>1. eventCache[j] \in EventType
          BY <1>2
        <5>. QED
          BY <5>1 DEF EventType
      <4>3. eventCache[j].s # 0 => delivered'[eventCache[j].s] = delivered[eventCache[j].s]
        BY <2>4, <4>1, <4>2
      <4>. QED
        BY <1>1, <3>3, <4>1, <4>3 DEF Tells, StartEvent, Announces
    <3>. QED
      BY <2>7, <3>2, <3>3
  <2>9. Roles'
    <3>1. created = 2 => s # 1
      <4>1. d # 2
        <5>. HIDE DEF d, p, m
        <5>. QED
          BY <1>2, <2>3
      <4>2. created = 2 => Len(delivered[1]) = 2
        BY DEF CInv, Roles
      <4>. QED
        BY <4>1, <4>2
    <3>2. created = 2 /\ NoEvents(1) => NoEvents(1)'
      <4>. HIDE DEF e, raised
      <4>. QED
        BY <2>6, <2>7, <3>1 DEF NoEvents
    <3>3. created = 2 => delivered'[1] = delivered[1]
      <4>1. created = 2 => 1 \in Sessions
        BY <1>2, BoundsAssumption DEF IInv, TypeOK, Sessions
      <4>. QED
        BY <2>4, <3>1, <4>1
    <3>. QED
      BY <1>1, <3>2, <3>3 DEF CInv, Roles
  <2>10. Turns(s)'
    <3>1. \A n \in 1 .. d + 1 : delivered'[s][n] = sent[s][n]
      <4>1. \A n \in 1 .. d : delivered[s][n] = sent[s][n]
        BY DEF CInv, Turns
      <4>2. delivered'[s][d + 1] = sent[s][d + 1]
        BY <2>2, <2>4
      <4>. QED
        BY <1>2, <2>4, <4>1, <4>2, UpToNext
    <3>2. d + 1 <= m /\ m <= p /\ p <= d + 1 + 1 /\ p <= 2
      BY <1>2, <2>3
    <3>. HIDE DEF f
    <3>. QED
      BY <1>1, <2>4, <3>1, <3>2 DEF CInv, Turns, StayAnnounced
  <2>11. Written(s)'
    BY <1>1 DEF CInv, Written
  <2>12. served' \in [Sessions -> Nat]
    BY <1>1 DEF CInv
  <2>. QED
    BY <1>1, <2>4, <2>8, <2>9, <2>10, <2>11, <2>12, OneTalk
<1>. QED
  BY <1>3, <1>4

LEMMA HandlerTalk ==
  ASSUME CInv, DInv', StayAnnounced, NEW s \in Sessions, Handler(s),
         UNCHANGED << managerVars, served >>
  PROVE  CInv'
<1>1. CASE handle_headerRead(s) \/ handle_written(s)
  <2>1. /\ UNCHANGED << created, serverID, posted, sent, delivered, wire, served >>
        /\ writes' = writes /\ eventCache' = eventCache
    BY <1>1 DEF handle_headerRead, handle_written, managerVars, requests, network
  <2>. QED
    BY <2>1, SameEvents, SilentTalk
<1>2. CASE handle_closed(s)
  <2>1. /\ UNCHANGED << created, serverID, posted, sent, delivered, wire, served >>
        /\ writes' = [writes EXCEPT ![s] = << >>] /\ eventCache' = eventCache
    BY <1>2 DEF handle_closed, managerVars, network
  <2>2. writes \in [Sessions -> Seq(WriteType)]
    BY TalkTypes DEF CInv, DInv
  <2>3. \A r \in Sessions : writes'[r] = writes[r] \/ writes'[r] = << >>
    BY <2>1, <2>2
  <2>. QED
    BY <2>1, <2>3, SameEvents, SilentTalk
<1>. QED
  BY <1>1, <1>2, ConnectedTalk, BodyReadTalk DEF Handler

--------------------------------------------------------------------------------
(* The handlers of the program *)

\* Only the current session has events queued, or the program's start, and the
\* handlers keep up: there is never more than one event.
LEMMA OneEvent ==
  ASSUME CInv
  PROVE  \A i \in DOMAIN eventCache : eventCache[i].s = created /\ i = 1
<1>1. eventCache \in Seq(EventType) /\ created \in Nat /\ IInv
  <2>1. IInv /\ created \in Sessions \cup {0} /\ eventCache \in Seq(EventType)
    BY DEF CInv, DInv, IInv, TypeOK, SessionTypeOK
  <2>. QED
    BY <2>1 DEF Sessions
<1>2. ASSUME NEW i \in DOMAIN eventCache PROVE eventCache[i].s = created
  <2>1. CASE eventCache[i].s = 0
    BY <2>1 DEF CInv, EventsTell, Tells, StartEvent
  <2>2. CASE eventCache[i].s # 0
    <3>. DEFINE s == eventCache[i].s
    <3>1. s \in Sessions
      <4>1. eventCache[i] \in EventType
        BY <1>1
      <4>. QED
        BY <2>2, <4>1 DEF EventType
    <3>2. ~Unannounced(s)
      BY <3>1 DEF CInv, DInv, EventInv, NoEvents
    <3>3. s \in Nat /\ 1 <= s /\ s <= created
      BY <1>1, <3>1, <3>2 DEF Unannounced, Sessions
    <3>4. created <= 2 /\ (created = 2 => s # 1)
      BY DEF CInv, Roles, NoEvents
    <3>. HIDE DEF s
    <3>5. s = created
      BY <1>1, <3>3, <3>4
    <3>. QED
      BY <3>5 DEF s
  <2>. QED
    BY <2>1, <2>2
<1>3. ASSUME NEW i \in DOMAIN eventCache, NEW j \in DOMAIN eventCache
      PROVE  eventCache[i].k = eventCache[j].k
  <2>1. eventCache[i].s = eventCache[j].s
    BY <1>2
  <2>. QED
    BY <2>1 DEF CInv, EventsTell, Tells, StartEvent, Announces
<1>4. ASSUME NEW i \in DOMAIN eventCache, i # 1 PROVE FALSE
  <2>1. DOMAIN eventCache = 1 .. Len(eventCache) /\ Len(eventCache) \in Nat
    BY <1>1
  <2>2. 1 \in DOMAIN eventCache /\ 1 < i
    BY <1>4, <2>1
  <2>3. eventCache[1].k < eventCache[i].k
    BY <1>2, <2>2 DEF CInv, DInv, EventsInOrder
  <2>4. eventCache[1].k = eventCache[i].k /\ eventCache[1].k \in Nat
    BY <1>1, <1>3, <2>2, EventNumbers
  <2>. QED
    BY <2>3, <2>4
<1>. QED
  BY <1>2, <1>4

\* Taking an event leaves none.
LEMMA NoneLeft ==
  ASSUME CInv, eventCache # << >>, eventCache' = Tail(eventCache)
  PROVE  DOMAIN eventCache' = {}
<1>1. eventCache \in Seq(EventType)
  BY DEF CInv, DInv, IInv, TypeOK, SessionTypeOK
<1>2. DOMAIN eventCache = 1 .. Len(eventCache) /\ Len(eventCache) \in Nat \ {0}
      /\ DOMAIN Tail(eventCache) = 1 .. Len(eventCache) - 1
  BY <1>1, TailFacts
<1>3. Len(eventCache) \in DOMAIN eventCache
  BY <1>2
<1>4. Len(eventCache) = 1
  BY <1>3, OneEvent
<1>. QED
  BY <1>2, <1>4

LEMMA AnswerEvents ==
  /\ \A f \in Answers("DirectoryConnected", "RequestWorldList") :
       distributeRules[f.type] = "WorldListNotify"
  /\ \A f \in Answers("DirectoryConnected", "RequestUserRegister") :
       distributeRules[f.type] = "DirectoryRegisterUserNotify"
  /\ \A f \in Answers("WorldConnected", "RequestLogin") :
       distributeRules[f.type] = "LoginNotify"
  /\ \A f \in Answers("WorldConnected", "RequestCreatePlayer") :
       distributeRules[f.type] = "CreatePlayerNotify"
<1>1. /\ \A f \in Answers("DirectoryConnected", "RequestWorldList") :
           f.type = "ResponseWorldList"
      /\ \A f \in Answers("DirectoryConnected", "RequestUserRegister") :
           f.type = "ResponseUserRegister"
      /\ \A f \in Answers("WorldConnected", "RequestLogin") : f.type = "ResponseLogin"
      /\ \A f \in Answers("WorldConnected", "RequestCreatePlayer") :
           f.type = "ResponseCreatePlayer"
  BY DEF Answers
<1>. QED
  BY <1>1 DEF distributeRules

\* What the handler of event e may conclude of the session s that raised it, which
\* has handed over d frames.
Concludes(ev, s, d) ==
  \/ /\ s = 1 /\ serverID[s] = "DirectoryConnected"
     /\ \/ d = 0 /\ ev = "DirectoryConnected"
        \/ d = 1 /\ ev = "WorldListNotify"
        \/ d = 2 /\ ev = "DirectoryRegisterUserNotify"
  \/ /\ s = 2 /\ serverID[s] = "WorldConnected"
     /\ \/ d = 0 /\ ev = "WorldConnected"
        \/ d = 1 /\ ev = "LoginNotify"
        \/ d = 2 /\ ev = "CreatePlayerNotify"

LEMMA HeadTells ==
  ASSUME CInv, eventCache # << >>
  PROVE  LET e == Head(eventCache) IN
         \/ created = 0 /\ e.ev = "DisconnectedFromServer"
         \/ /\ created \in Sessions /\ current = created /\ ~Unannounced(created)
            /\ Len(posted[created]) = Len(delivered[created])
            /\ Concludes(e.ev, created, Len(delivered[created]))
<1>. DEFINE e == eventCache[1]
            d == Len(delivered[created])
            id == serverID[created]
<1>1. /\ 1 \in DOMAIN eventCache /\ Head(eventCache) = e
      /\ e.s = created /\ created \in Sessions \cup {0} /\ IInv
  <2>1. /\ eventCache \in Seq(EventType) /\ IInv
        /\ created \in Sessions \cup {0}
    BY DEF CInv, DInv, IInv, TypeOK, SessionTypeOK
  <2>2. 1 \in DOMAIN eventCache /\ Head(eventCache) = e
    BY <2>1, TailFacts
  <2>. QED
    BY <2>1, <2>2, OneEvent
<1>2. CASE created = 0
  <2>1. StartEvent(e)
    BY <1>1, <1>2 DEF CInv, EventsTell, Tells
  <2>. QED
    BY <1>1, <1>2, <2>1 DEF StartEvent
<1>3. CASE created # 0
  <2>1. created \in Sessions /\ current = created /\ Announces(e, created)
    BY <1>1, <1>3 DEF CInv, DInv, EventsTell, Tells
  <2>2. ~Unannounced(created)
    BY <1>1, <2>1 DEF CInv, DInv, EventInv, NoEvents
  <2>3. /\ Len(posted[created]) = d
        /\ e.ev = IF d = 0 THEN id ELSE distributeRules[delivered[created][d].type]
    BY <2>1 DEF Announces
  <2>4. d \in Nat /\ d <= 2
    <3>1. d \in Nat
      BY <1>1, <2>1, TalkTypes
    <3>2. Len(posted[created]) <= 2
      BY <2>1 DEF CInv, Turns
    <3>. QED
      BY <2>3, <3>1, <3>2
  <2>5. \/ created = 1 /\ id = "DirectoryConnected"
        \/ created = 2 /\ id = "WorldConnected"
    <3>1. created \in Nat /\ 1 <= created /\ created <= 2
      BY <2>1 DEF CInv, Roles, Sessions
    <3>2. created \in 1 .. created
      BY <3>1
    <3>3. id = IF created = 1 THEN "DirectoryConnected" ELSE "WorldConnected"
      BY <3>2 DEF CInv, Roles
    <3>. HIDE DEF id
    <3>. QED
      BY <3>1, <3>3
  <2>6. d # 0 => delivered[created][d] \in Answers(id, Script(id)[d])
    <3>. SUFFICES ASSUME d # 0 PROVE delivered[created][d] \in Answers(id, Script(id)[d])
      OBVIOUS
    <3>1. /\ \A n \in 1 .. Len(sent[created]) :
               sent[created][n] \in Answers(id, Script(id)[n])
          /\ \A n \in 1 .. d : delivered[created][n] = sent[created][n]
          /\ d <= Len(sent[created])
      BY <2>1 DEF CInv, Turns
    <3>2. d \in 1 .. d /\ d \in 1 .. Len(sent[created])
      <4>1. Len(sent[created]) \in Nat
        BY <1>1, <2>1, TalkTypes
      <4>. HIDE DEF d
      <4>. QED
        BY <2>4, <3>1, <4>1
    <3>. HIDE DEF d, id
    <3>. QED
      BY <3>1, <3>2
  <2>7. Concludes(e.ev, created, d)
    <3>1. CASE d = 0
      BY <2>3, <2>5, <3>1 DEF Concludes
    <3>2. CASE d = 1
      <4>1. CASE created = 1 /\ id = "DirectoryConnected"
        <5>1. Script(id)[d] = "RequestWorldList"
          BY <3>2, <4>1 DEF Script
        <5>2. e.ev = "WorldListNotify"
          BY <2>3, <2>6, <3>2, <4>1, <5>1, AnswerEvents
        <5>. QED
          BY <3>2, <4>1, <5>2 DEF Concludes
      <4>2. CASE created = 2 /\ id = "WorldConnected"
        <5>1. Script(id)[d] = "RequestLogin"
          BY <3>2, <4>2 DEF Script
        <5>2. e.ev = "LoginNotify"
          BY <2>3, <2>6, <3>2, <4>2, <5>1, AnswerEvents
        <5>. QED
          BY <3>2, <4>2, <5>2 DEF Concludes
      <4>. QED
        BY <2>5, <4>1, <4>2
    <3>3. CASE d = 2
      <4>1. CASE created = 1 /\ id = "DirectoryConnected"
        <5>1. Script(id)[d] = "RequestUserRegister"
          BY <3>3, <4>1 DEF Script
        <5>2. e.ev = "DirectoryRegisterUserNotify"
          BY <2>3, <2>6, <3>3, <4>1, <5>1, AnswerEvents
        <5>. QED
          BY <3>3, <4>1, <5>2 DEF Concludes
      <4>2. CASE created = 2 /\ id = "WorldConnected"
        <5>1. Script(id)[d] = "RequestCreatePlayer"
          BY <3>3, <4>2 DEF Script
        <5>2. e.ev = "CreatePlayerNotify"
          BY <2>3, <2>6, <3>3, <4>2, <5>1, AnswerEvents
        <5>. QED
          BY <3>3, <4>2, <5>2 DEF Concludes
      <4>. QED
        BY <2>5, <4>1, <4>2
    <3>. HIDE DEF d
    <3>. QED
      BY <2>4, <3>1, <3>2, <3>3
  <2>. QED
    BY <1>1, <2>1, <2>2, <2>3, <2>7
<1>. QED
  BY <1>2, <1>3

\* The queue is empty afterwards and the roles are the same.
LEMMA TakenTells ==
  ASSUME CInv, eventCache # << >>, eventCache' = Tail(eventCache),
         UNCHANGED << created, serverID, delivered >>
  PROVE  EventsTell' /\ Roles'
<1>1. EventsTell' /\ NoEvents(1)'
  BY NoneLeft DEF EventsTell, NoEvents
<1>. QED
  BY <1>1 DEF CInv, Roles

\* A handler that calls nothing.
LEMMA QuietCall ==
  ASSUME CInv, DInv', StayAnnounced, eventCache # << >>, eventCache' = Tail(eventCache),
         NoCall, served' = served
  PROVE  CInv'
<1>1. UNCHANGED << created, serverID, posted, sent, delivered, wire, writes, served >>
  BY DEF NoCall, managerVars, requests, network
<1>2. EventsTell' /\ Roles'
  BY <1>1, TakenTells
<1>3. \A r \in Sessions : writes'[r] = writes[r]
  BY <1>1
<1>. QED
  BY <1>1, <1>2, <1>3, SilentTold

\* A handler that writes the next request of the script: the last one is answered,
\* so that it is whole and nothing is left of it to write.
LEMMA NextRequest ==
  ASSUME CInv, DInv', StayAnnounced, eventCache # << >>, eventCache' = Tail(eventCache),
         created \in Sessions, current = created, ~Unannounced(created),
         Len(posted[created]) = Len(delivered[created]), Len(delivered[created]) < 2,
         NEW req \in Requests, managerWrite(req), served' = served,
         req = Script(serverID[created])[Len(delivered[created]) + 1]
  PROVE  CInv'
<1>. PICK s \in Sessions : s = created
  OBVIOUS
<1>. DEFINE p == Len(posted[s])
            m == Len(sent[s])
            d == Len(delivered[s])
            w == Len(wire[s])
<1>1. /\ UNCHANGED << created, serverID, sent, delivered, wire, served >>
      /\ posted' = [posted EXCEPT ![s] = Append(@, req)]
      /\ \/ writes' = [writes EXCEPT ![s] =
                         Append(@, [msg |-> p + 1, left |-> WriteChunks])]
         \/ writes' = writes
  <2>1. s # 0 /\ current = s
    BY DEF Sessions
  <2>2. write(s, req) /\ UNCHANGED managerVars
    BY <2>1 DEF managerWrite
  <2>. QED
    BY <2>2 DEF write, managerVars, network
<1>2. /\ posted \in [Sessions -> Seq(Requests)] /\ posted[s] \in Seq(Requests)
      /\ writes \in [Sessions -> Seq(WriteType)]
      /\ p \in Nat /\ m \in Nat /\ d \in Nat /\ w \in Nat
  BY TalkTypes DEF CInv, DInv
<1>3. m = p /\ d = p /\ p < 2
  <2>1. d <= m /\ m <= p
    BY DEF CInv, Turns
  <2>2. p = d /\ d < 2
    OBVIOUS
  <2>. HIDE DEF p, m, d
  <2>. QED
    BY <1>2, <2>1, <2>2
<1>4. w = WriteChunks * p /\ writes[s] = << >>
  <2>1. WriteChunks * m <= w /\ w <= WriteChunks * p
    BY DEF CInv, Written
  <2>2. w = WriteChunks * p
    <3>. HIDE DEF p, m, w
    <3>. QED
      BY <1>2, <1>3, <2>1 DEF WriteChunks
  <2>3. writes[s] = << >> \/ \E l \in 1 .. WriteChunks : w = WriteChunks * p - l
    BY DEF CInv, Written
  <2>4. \A l \in 1 .. WriteChunks : w # WriteChunks * p - l
    BY <1>2, <2>2 DEF WriteChunks
  <2>. QED
    BY <2>2, <2>3, <2>4
<1>5. /\ Len(posted'[s]) = p + 1
      /\ \A n \in 1 .. p : posted'[s][n] = posted[s][n]
      /\ posted'[s][p + 1] = req
      /\ \A r \in Sessions \ {s} : posted'[r] = posted[r]
  <2>1. posted'[s] = Append(posted[s], req) /\ \A r \in Sessions \ {s} : posted'[r] = posted[r]
    BY <1>1, <1>2
  <2>. QED
    BY <1>2, <2>1, AppendFacts
<1>6. /\ \/ writes'[s] = << [msg |-> p + 1, left |-> WriteChunks] >>
         \/ writes'[s] = << >>
      /\ \A r \in Sessions \ {s} : writes'[r] = writes[r]
  <2>1. \A x : Append(<< >>, x) = << x >>
    OBVIOUS
  <2>2. CASE writes' = writes
    BY <1>4, <2>2
  <2>3. CASE writes' = [writes EXCEPT ![s] =
                          Append(@, [msg |-> p + 1, left |-> WriteChunks])]
    BY <1>2, <1>4, <2>1, <2>3
  <2>. QED
    BY <1>1, <2>2, <2>3
<1>7. Turns(s)'
  <2>1. \A n \in 1 .. p + 1 : posted'[s][n] = Script(serverID[s])[n]
    <3>1. \A n \in 1 .. p : posted[s][n] = Script(serverID[s])[n]
      BY DEF CInv, Turns
    <3>2. posted'[s][p + 1] = Script(serverID[s])[p + 1]
      BY <1>5
    <3>. QED
      BY <1>2, <1>5, <3>1, <3>2, UpToNext
  <2>2. d <= m /\ m <= p + 1 /\ p + 1 <= d + 1 /\ p + 1 <= 2
    <3>. HIDE DEF p, m, d
    <3>. QED
      BY <1>2, <1>3
  <2>3. ~Unannounced(s)'
    BY DEF StayAnnounced
  <2>4. serverID'[s] = serverID[s] /\ sent'[s] = sent[s] /\ delivered'[s] = delivered[s]
        /\ served'[s] = served[s]
    BY <1>1
  <2>. QED
    BY <1>5, <2>1, <2>2, <2>3, <2>4 DEF CInv, Turns
<1>8. Written(s)'
  <2>1. WriteChunks * m <= w /\ w <= WriteChunks * (p + 1)
        /\ w = WriteChunks * (p + 1) - WriteChunks
    <3>. HIDE DEF p, m, w
    <3>. QED
      BY <1>2, <1>3, <1>4 DEF WriteChunks
  <2>2. WriteChunks \in 1 .. WriteChunks
    BY DEF WriteChunks
  <2>3. \/ writes'[s] = << >>
        \/ \E l \in 1 .. WriteChunks :
             writes'[s] = << [msg |-> p + 1, left |-> l] >> /\ w = WriteChunks * (p + 1) - l
    BY <1>6, <2>1, <2>2
  <2>4. \A i \in 1 .. w : wire[s][i] =
          << 1 + ((i - 1) \div WriteChunks), 1 + ((i - 1) % WriteChunks) >>
    BY DEF CInv, Written
  <2>5. sent'[s] = sent[s] /\ wire'[s] = wire[s]
    BY <1>1
  <2>. QED
    BY <1>5, <2>1, <2>3, <2>4, <2>5 DEF Written
<1>9. EventsTell' /\ Roles'
  BY <1>1, TakenTells
<1>10. served' \in [Sessions -> Nat]
  BY <1>1 DEF CInv
<1>. QED
  BY <1>1, <1>5, <1>6, <1>7, <1>8, <1>9, <1>10, OneTalk

\* A handler that connects to the next server: the conversation with the one
\* before it is over.
LEMMA NextServer ==
  ASSUME CInv, DInv', StayAnnounced, eventCache # << >>, eventCache' = Tail(eventCache),
         created \in {0, 1}, created = 1 => Len(delivered[1]) = 2,
         connectTo(IF created = 0 THEN "DirectoryConnected" ELSE "WorldConnected"),
         served' = served
  PROVE  CInv'
<1>. DEFINE id == IF created = 0 THEN "DirectoryConnected" ELSE "WorldConnected"
<1>1. created + 1 \in Sessions
  BY BoundsAssumption DEF connectTo, Sessions
<1>. PICK ss \in Sessions : ss = created + 1
  BY <1>1
<1>2. /\ created' = ss
      /\ serverID' = [serverID EXCEPT ![ss] = id]
      /\ UNCHANGED << posted, sent, delivered, wire, writes, served >>
  BY DEF connectTo, connect, requests, network
<1>3. serverID'[ss] = id /\ \A r \in Sessions \ {ss} : serverID'[r] = serverID[r]
  <2>1. serverID \in [Sessions -> ServerIDs \cup {"none"}]
    BY DEF CInv, DInv, IInv, TypeOK, SessionTypeOK
  <2>. QED
    BY <1>2, <2>1
<1>4. /\ Len(posted[ss]) = 0 /\ Len(sent[ss]) = 0 /\ Len(delivered[ss]) = 0
  <2>1. Unannounced(ss)
    BY DEF Unannounced
  <2>2. /\ Len(posted[ss]) = 0 /\ Len(delivered[ss]) <= Len(sent[ss])
        /\ Len(sent[ss]) <= Len(posted[ss])
    BY <2>1 DEF CInv, Turns
  <2>3. Len(sent[ss]) \in Nat /\ Len(delivered[ss]) \in Nat
    BY TalkTypes DEF CInv, DInv
  <2>. QED
    BY <2>2, <2>3
<1>5. Turns(ss)'
  <2>1. /\ Len(posted'[ss]) = 0 /\ Len(sent'[ss]) = 0 /\ Len(delivered'[ss]) = 0
        /\ served'[ss] = 0
    BY <1>2, <1>4 DEF CInv, Turns
  <2>2. 1 .. 0 = {}
    OBVIOUS
  <2>. QED
    BY <2>1, <2>2 DEF Turns
<1>6. Written(ss)'
  BY <1>2 DEF CInv, Written
<1>7. EventsTell' /\ Roles'
  <2>1. EventsTell' /\ NoEvents(1)'
    BY NoneLeft DEF EventsTell, NoEvents
  <2>2. CASE created = 0
    <3>1. created' = 1 /\ ss = 1 /\ serverID'[1] = "DirectoryConnected"
      BY <1>2, <1>3, <2>2
    <3>. QED
      BY <2>1, <3>1 DEF Roles
  <2>3. CASE created = 1
    <3>1. /\ created' = 2 /\ ss = 2 /\ serverID'[2] = "WorldConnected"
          /\ Len(delivered'[1]) = 2
      BY <1>2, <1>3, <2>3
    <3>2. serverID'[1] = "DirectoryConnected"
      <4>1. 1 \in Sessions \ {ss}
        BY <3>1, BoundsAssumption DEF Sessions
      <4>2. serverID[1] = "DirectoryConnected"
        BY <2>3 DEF CInv, Roles
      <4>. QED
        BY <1>3, <4>1, <4>2
    <3>3. \A s \in 1 .. 2 : s = 1 \/ s = 2
      OBVIOUS
    <3>. QED
      BY <2>1, <3>1, <3>2, <3>3 DEF Roles
  <2>. QED
    BY <2>2, <2>3
<1>8. served' \in [Sessions -> Nat]
  BY <1>2 DEF CInv
<1>. QED
  BY <1>2, <1>3, <1>5, <1>6, <1>7, <1>8, OneTalk

\* Each handler finds the session in the state it expects.
LEMMA CallTalk ==
  ASSUME CInv, DInv', StayAnnounced,
         \/ onDisconnected \/ onDirectoryConnected \/ onWorldListNotify
         \/ onUserRegistered \/ onWorldConnected \/ onLoginNotify \/ onCreatePlayerNotify
  PROVE  CInv'
<1>. DEFINE d == Len(delivered[created])
<1>1. /\ {"RequestWorldList", "RequestUserRegister", "RequestLogin",
          "RequestCreatePlayer"} \subseteq Requests
  BY ClientAssumption
<1>2. CASE onDisconnected
  <2>1. /\ Now("DisconnectedFromServer") /\ connectTo("DirectoryConnected")
        /\ served' = served
    BY <1>2 DEF onDisconnected, ConnectToDirectory, loopVars
  <2>2. created = 0
    BY <2>1, HeadTells DEF Now, Concludes
  <2>. QED
    BY <2>1, <2>2, NextServer DEF Now
<1>3. CASE onDirectoryConnected
  <2>1. /\ Now("DirectoryConnected") /\ managerWrite("RequestWorldList")
        /\ served' = served
    BY <1>3 DEF onDirectoryConnected, loopVars
  <2>2. /\ created \in Sessions /\ current = created /\ ~Unannounced(created)
        /\ Len(posted[created]) = d /\ d = 0 /\ serverID[created] = "DirectoryConnected"
    BY <2>1, HeadTells DEF Now, Concludes
  <2>3. Script(serverID[created])[d + 1] = "RequestWorldList" /\ d < 2
    BY <2>2 DEF Script
  <2>. QED
    BY <1>1, <2>1, <2>2, <2>3, NextRequest DEF Now
<1>4. CASE onWorldListNotify
  <2>1. /\ Now("WorldListNotify") /\ managerWrite("RequestUserRegister")
        /\ served' = served
    BY <1>4 DEF onWorldListNotify
  <2>2. /\ created \in Sessions /\ current = created /\ ~Unannounced(created)
        /\ Len(posted[created]) = d /\ d = 1 /\ serverID[created] = "DirectoryConnected"
    BY <2>1, HeadTells DEF Now, Concludes
  <2>3. Script(serverID[created])[d + 1] = "RequestUserRegister" /\ d < 2
    BY <2>2 DEF Script
  <2>. QED
    BY <1>1, <2>1, <2>2, <2>3, NextRequest DEF Now
<1>5. CASE onUserRegistered
  <2>1. /\ Now("DirectoryRegisterUserNotify") /\ served' = served
        /\ connectTo("WorldConnected") \/ NoCall
    BY <1>5 DEF onUserRegistered, ConnectToWorld, loopVars
  <2>2. created = 1 /\ Len(delivered[1]) = 2
    BY <2>1, HeadTells DEF Now, Concludes
  <2>3. CASE NoCall
    BY <2>1, <2>3, QuietCall DEF Now
  <2>4. CASE connectTo("WorldConnected")
    BY <2>1, <2>2, <2>4, NextServer DEF Now
  <2>. QED
    BY <2>1, <2>3, <2>4
<1>6. CASE onWorldConnected
  <2>1. /\ Now("WorldConnected") /\ managerWrite("RequestLogin") /\ served' = served
    BY <1>6 DEF onWorldConnected, loopVars
  <2>2. /\ created \in Sessions /\ current = created /\ ~Unannounced(created)
        /\ Len(posted[created]) = d /\ d = 0 /\ serverID[created] = "WorldConnected"
    BY <2>1, HeadTells DEF Now, Concludes
  <2>3. Script(serverID[created])[d + 1] = "RequestLogin" /\ d < 2
    BY <2>2 DEF Script
  <2>. QED
    BY <1>1, <2>1, <2>2, <2>3, NextRequest DEF Now
<1>7. CASE onLoginNotify
  <2>1. /\ Now("LoginNotify") /\ served' = served
        /\ managerWrite("RequestCreatePlayer") \/ NoCall
    BY <1>7 DEF onLoginNotify, loopVars
  <2>2. /\ created \in Sessions /\ current = created /\ ~Unannounced(created)
        /\ Len(posted[created]) = d /\ d = 1 /\ serverID[created] = "WorldConnected"
    BY <2>1, HeadTells DEF Now, Concludes
  <2>3. Script(serverID[created])[d + 1] = "RequestCreatePlayer" /\ d < 2
    BY <2>2 DEF Script
  <2>4. CASE NoCall
    BY <2>1, <2>4, QuietCall DEF Now
  <2>5. CASE managerWrite("RequestCreatePlayer")
    BY <1>1, <2>1, <2>2, <2>3, <2>5, NextRequest DEF Now
  <2>. QED
    BY <2>1, <2>4, <2>5
<1>8. CASE onCreatePlayerNotify
  BY <1>8, QuietCall DEF onCreatePlayerNotify, Now, loopVars
<1>. QED
  BY <1>2, <1>3, <1>4, <1>5, <1>6, <1>7, <1>8

--------------------------------------------------------------------------------
(* The theorems on the conversations *)

LEMMA TalkInit == Init => CInv
<1>. SUFFICES ASSUME Init PROVE CInv
  OBVIOUS
<1>1. /\ DInv /\ created = 0 /\ served = [s \in Sessions |-> 0]
      /\ eventCache = << Event("DisconnectedFromServer", "none", 0, 0) >>
      /\ \A s \in Sessions : /\ posted[s] = << >> /\ sent[s] = << >> /\ delivered[s] = << >>
                             /\ wire[s] = << >> /\ writes[s] = << >>
  BY DeliveryInit DEF Init, LayerInit, SessionInit, startUp
<1>2. DOMAIN eventCache = {1} /\ Tells(eventCache[1])
  BY <1>1 DEF Event, Tells, StartEvent
<1>3. EventsTell
  BY <1>2 DEF EventsTell
<1>4. Roles
  <2>1. 1 .. 0 = {}
    OBVIOUS
  <2>. QED
    BY <1>1, <2>1 DEF Roles
<1>5. ASSUME NEW s \in Sessions PROVE Turns(s) /\ Written(s)
  <2>1. /\ Len(posted[s]) = 0 /\ Len(sent[s]) = 0 /\ Len(delivered[s]) = 0
        /\ Len(wire[s]) = 0 /\ writes[s] = << >> /\ served[s] = 0
    BY <1>1
  <2>2. 1 .. 0 = {}
    OBVIOUS
  <2>3. Turns(s)
    BY <2>1, <2>2 DEF Turns
  <2>4. Written(s)
    BY <2>1, <2>2 DEF Written, WriteChunks
  <2>. QED
    BY <2>3, <2>4
<1>6. served \in [Sessions -> Nat]
  BY <1>1
<1>. QED
  BY <1>1, <1>3, <1>4, <1>5, <1>6 DEF CInv

LEMMA TalkNext == CInv /\ [Next]_vars => CInv'
<1>. SUFFICES ASSUME CInv, [Next]_vars PROVE CInv'
  OBVIOUS
<1>1. DInv' /\ StayAnnounced
  BY ClientNext, DeliveryNext DEF CInv, DInv
<1>2. CASE \/ onDisconnected \/ onDirectoryConnected \/ onWorldListNotify
           \/ onUserRegistered \/ onWorldConnected \/ onLoginNotify \/ onCreatePlayerNotify
  BY <1>1, <1>2, CallTalk
<1>3. CASE ResolveFails \/ UpdateEnd \/ PollEnd \/ UNCHANGED vars
  <2>1. UNCHANGED << created, serverID, posted, sent, delivered, wire, writes, eventCache, served >>
    BY <1>3 DEF ResolveFails, UpdateEnd, PollEnd, vars, layerVars, sessionVars, managerVars,
                requests, network
  <2>2. \A r \in Sessions : writes'[r] = writes[r]
    BY <2>1
  <2>. QED
    BY <1>1, <2>1, <2>2, SameEvents, SilentTalk
<1>4. CASE PollRun
  <2>1. PICK s \in Sessions : Handler(s)
    BY <1>4 DEF PollRun
  <2>2. UNCHANGED << managerVars, served >>
    BY <1>4 DEF PollRun
  <2>. QED
    BY <1>1, <2>1, <2>2, HandlerTalk
<1>5. ASSUME NEW s \in Sessions, Environment(s) \/ ServerClose(s)
      PROVE  CInv'
  <2>1. CASE ServerAnswer(s)
    BY <1>1, <2>1, ServerAnswerTalk
  <2>2. CASE KernelStep(s)
    <3>1. UNCHANGED << managerVars, served >>
      BY <2>2 DEF KernelStep, loopVars
    <3>. QED
      BY <1>1, <2>2, <3>1, KernelTalk, WriteSomeTalk, FailWriteTalk DEF KernelStep
  <2>3. CASE ServerClose(s)
    <3>1. PeerClose(s) /\ UNCHANGED << managerVars, served >>
      BY <2>3 DEF ServerClose, loopVars
    <3>. QED
      BY <1>1, <3>1, KernelTalk
  <2>. QED
    BY <1>5, <2>1, <2>2, <2>3 DEF Environment
<1>. QED
  BY <1>2, <1>3, <1>4, <1>5 DEF Next, Loop, Done

LEMMA ClientTalk == Spec => []CInv
BY TalkInit, TalkNext, PTL DEF Spec

\* RequestsReachTheirServer: although the manager writes to whatever session is
\* current when a handler runs, every request goes to the server that serves it,
\* whatever fails and however many sessions, frames and requests are allowed.
THEOREM ClientRequestsReachTheirServer == Spec => []RequestsReachTheirServer
<1>1. CInv => RequestsReachTheirServer
  <2>. SUFFICES ASSUME CInv, NEW s \in Sessions, NEW n \in DOMAIN posted[s]
                PROVE  Answers(serverID[s], posted[s][n]) # {}
    BY DEF RequestsReachTheirServer
  <2>. DEFINE p == Len(posted[s])
              id == serverID[s]
  <2>1. posted[s] \in Seq(Requests) /\ p \in Nat /\ created \in Nat
    BY TalkTypes, DeliveryTypes DEF CInv, DInv
  <2>2. n \in 1 .. p /\ p <= 2 /\ posted[s][n] = Script(id)[n]
    <3>1. n \in 1 .. p
      BY <2>1
    <3>. QED
      BY <3>1 DEF CInv, Turns
  <2>3. (n = 1 \/ n = 2) /\ p # 0
    <3>. HIDE DEF p
    <3>. QED
      BY <2>1, <2>2
  <2>4. id = "DirectoryConnected" \/ id = "WorldConnected"
    <3>1. ~Unannounced(s)
      BY <2>3 DEF CInv, Turns
    <3>2. s \in 1 .. created
      BY <2>1, <3>1 DEF Unannounced, Sessions
    <3>. QED
      BY <3>2 DEF CInv, Roles
  <2>5. Script(id)[n] \in (IF id = "DirectoryConnected"
                           THEN {"RequestWorldList", "RequestUserRegister"}
                           ELSE {"RequestLogin", "RequestCreatePlayer"})
    BY <2>3 DEF Script
  <2>6. CASE id = "DirectoryConnected"
    <3>1. CASE posted[s][n] = "RequestWorldList"
      <4>1. [type |-> "ResponseWorldList", arg |-> "some"] \in Answers(id, posted[s][n])
        BY <2>6, <3>1 DEF Answers
      <4>. QED
        BY <4>1
    <3>2. CASE posted[s][n] = "RequestUserRegister"
      <4>1. [type |-> "ResponseUserRegister", arg |-> "ET_OK"] \in Answers(id, posted[s][n])
        BY <2>6, <3>2 DEF Answers
      <4>. QED
        BY <4>1
    <3>. QED
      BY <2>2, <2>5, <2>6, <3>1, <3>2
  <2>7. CASE id = "WorldConnected"
    <3>1. CASE posted[s][n] = "RequestLogin"
      <4>1. [type |-> "ResponseLogin", arg |-> "ET_OK"] \in Answers(id, posted[s][n])
        BY <2>7, <3>1 DEF Answers
      <4>. QED
        BY <4>1
    <3>2. CASE posted[s][n] = "RequestCreatePlayer"
      <4>1. [type |-> "ResponseCreatePlayer", arg |-> "ET_OK"] \in Answers(id, posted[s][n])
        BY <2>7, <3>2 DEF Answers
      <4>. QED
        BY <4>1
    <3>. QED
      BY <2>2, <2>5, <2>7, <3>1, <3>2
  <2>. QED
    BY <2>4, <2>6, <2>7
<1>. QED
  BY <1>1, ClientTalk, PTL

\* WireWhole: although nothing in SockSession::write keeps two async_writes apart,
\* no two of the client's requests ever overlap on a connection.
THEOREM ClientWireWhole == Spec => []WireWhole
<1>1. CInv => WireWhole
  <2>. SUFFICES ASSUME CInv, NEW s \in Sessions, NEW i \in DOMAIN wire[s]
                PROVE  wire[s][i] = << 1 + ((i - 1) \div WriteChunks),
                                       1 + ((i - 1) % WriteChunks) >>
    BY DEF WireWhole
  <2>1. i \in 1 .. Len(wire[s])
    <3>1. wire[s] \in Seq(Nat \X (1 .. WriteChunks))
      BY TalkTypes DEF CInv, DInv
    <3>. QED
      BY <3>1
  <2>. QED
    BY <2>1 DEF CInv, Written
<1>. QED
  BY <1>1, ClientTalk, PTL
================================================================================
