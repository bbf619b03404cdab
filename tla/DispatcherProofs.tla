---------------------------- MODULE DispatcherProofs ----------------------------
(***************************************************************************)
(* The dispatcher runs every event completely before it removes it, and in *)
(* the order of dispatch, for every program: any number of events, of      *)
(* handlers, of handlers that raise, and of events in the queue.           *)
(*                                                                         *)
(* The events in the queue are the last ones queued, in order.  That fixes *)
(* where an event is from its number alone, and splits the events into     *)
(* those handled, the head, and those that have not run yet.               *)
(***************************************************************************)
EXTENDS Dispatcher, SequenceTheorems, TLAPS

--------------------------------------------------------------------------------
(* The inductive invariant *)

\* The number of the event before the head.
Past == queued - Len(eventCache)

\* The queue holds the last events queued, each with the chain it was given.
Numbered ==
  /\ Len(eventCache) <= queued
  /\ \A i \in 1 .. Len(eventCache) :
       /\ eventCache[i].id = Past + i
       /\ eventCache[i].chain = asked[Past + i]

\* Handled events have run completely, the events behind the head not at all.
Settled ==
  /\ \A id \in Ids : id <= Past => ran[id] = asked[id]
  /\ \A id \in Ids : id > Past + 1 => ran[id] = << >>
  /\ eventCache = << >> => \A id \in Ids : id > Past => ran[id] = << >>

\* What has completed of the run in progress.
Running ==
  step > 0 => /\ step <= Len(Chain) + 1
              /\ Len(ran[Past + 1]) = step - 1
              /\ \A j \in 1 .. step - 1 : ran[Past + 1][j] = Chain[j]

IInv == TypeOK /\ Numbered /\ Settled /\ Running

LEMMA QueueFacts ==
  ASSUME TypeOK
  PROVE  /\ eventCache \in Seq(EventType) /\ Len(eventCache) \in Nat
         /\ DOMAIN eventCache = 1 .. Len(eventCache)
         /\ \A i \in 1 .. Len(eventCache) : eventCache[i] \in EventType
BY DEF TypeOK

\* The head of a queue that is not empty.
LEMMA HeadFacts ==
  ASSUME IInv, eventCache # << >>
  PROVE  /\ Head(eventCache) = eventCache[1] /\ Len(eventCache) >= 1
         /\ Head(eventCache).id = Past + 1 /\ Past + 1 \in Ids
         /\ Chain \in Seq(Handlers) /\ Chain = asked[Past + 1]
         /\ Past \in Nat
<1>1. /\ eventCache \in Seq(EventType) /\ Len(eventCache) \in Nat /\ Len(eventCache) >= 1
      /\ Head(eventCache) = eventCache[1] /\ eventCache[1] \in EventType
  BY DEF IInv, TypeOK
<1>2. Len(eventCache) <= queued /\ queued \in Nat
  BY DEF IInv, Numbered, TypeOK
<1>3. eventCache[1].id = Past + 1 /\ eventCache[1].chain = asked[Past + 1]
  BY <1>1 DEF IInv, Numbered
<1>4. eventCache[1].id \in Ids /\ eventCache[1].chain \in Seq(Handlers)
  BY <1>1 DEF EventType
<1>. QED
  BY <1>1, <1>2, <1>3, <1>4 DEF Past, Chain

--------------------------------------------------------------------------------
(* The actions *)

LEMMA DispatchInv ==
  ASSUME IInv, NEW e \in Events, dispatch(e)
  PROVE  IInv'
<1>1. UNCHANGED << handlers, step, ran >>
  BY DEF dispatch
<1>2. CASE e \notin DOMAIN handlers
  <2>1. UNCHANGED vars
    BY <1>1, <1>2 DEF dispatch, vars
  <2>. QED
    BY <2>1 DEF vars, IInv, TypeOK, Numbered, Settled, Running, Past, Chain
<1>3. CASE e \in DOMAIN handlers
  <2>. DEFINE ev == [id |-> queued + 1, event |-> e, chain |-> handlers[e]]
              n == Len(eventCache)
  <2>1. /\ queued < MaxDispatched /\ queued' = queued + 1
        /\ eventCache' = Append(eventCache, ev)
        /\ asked' = [asked EXCEPT ![queued + 1] = handlers[e]]
    BY <1>3 DEF dispatch
  <2>2. queued \in Nat /\ queued + 1 \in Ids /\ handlers[e] \in Seq(Handlers)
    BY <1>3, <2>1, DispatcherAssumption DEF IInv, TypeOK, Ids
  <2>3. ev \in EventType
    BY <2>2 DEF EventType
  <2>4. /\ eventCache \in Seq(EventType) /\ n \in Nat
        /\ eventCache' \in Seq(EventType) /\ Len(eventCache') = n + 1
        /\ \A i \in 1 .. n : eventCache'[i] = eventCache[i]
        /\ eventCache'[n + 1] = ev /\ eventCache' # << >>
    BY <2>1, <2>3, QueueFacts, AppendProperties DEF IInv
  <2>5. /\ asked' \in [Ids -> Seq(Handlers)]
        /\ asked'[queued + 1] = handlers[e]
        /\ \A id \in Ids : id <= queued => asked'[id] = asked[id]
    BY <2>1, <2>2 DEF IInv, TypeOK, Ids
  <2>6. Past' = Past /\ n <= queued
    BY <2>1, <2>2, <2>4 DEF Past, IInv, Numbered
  <2>7. TypeOK'
    BY <1>1, <2>1, <2>2, <2>4, <2>5, DispatcherAssumption DEF IInv, TypeOK
  <2>8. Numbered'
    <3>1. \A i \in 1 .. n : eventCache[i].id = Past + i /\ eventCache[i].chain = asked[Past + i]
      BY DEF IInv, Numbered
    <3>2. \A i \in 1 .. n : Past + i \in Ids /\ Past + i <= queued
      BY <2>1, <2>2, <2>4, <2>6, DispatcherAssumption DEF Past, Ids
    <3>3. ASSUME NEW i \in 1 .. n + 1
          PROVE  eventCache'[i].id = Past + i /\ eventCache'[i].chain = asked'[Past + i]
      <4>1. CASE i <= n
        <5>1. i \in 1 .. n
          BY <2>4, <4>1
        <5>2. eventCache'[i] = eventCache[i] /\ asked'[Past + i] = asked[Past + i]
          BY <2>4, <2>5, <3>2, <5>1
        <5>. QED
          BY <3>1, <5>1, <5>2
      <4>2. CASE i = n + 1
        <5>1. Past + i = queued + 1
          BY <2>2, <2>4, <4>2 DEF Past
        <5>. QED
          BY <2>4, <2>5, <4>2, <5>1
      <4>. QED
        BY <2>4, <4>1, <4>2
    <3>. QED
      BY <2>1, <2>2, <2>4, <2>6, <3>3 DEF Numbered
  <2>9. Settled'
    <3>1. Past \in Nat /\ Past <= queued
      BY <2>2, <2>4, <2>6 DEF Past
    <3>2. ASSUME NEW id \in Ids, id <= Past
          PROVE  ran[id] = asked'[id]
      <4>1. id <= queued
        BY <2>2, <3>1, <3>2 DEF Ids
      <4>2. ran[id] = asked[id]
        BY <3>2 DEF IInv, Settled
      <4>. QED
        BY <2>5, <4>1, <4>2
    <3>3. \A id \in Ids : id > Past + 1 => ran[id] = << >>
      BY DEF IInv, Settled
    <3>. QED
      BY <1>1, <2>4, <2>6, <3>2, <3>3 DEF Settled
  <2>10. Running'
    <3>1. CASE step > 0
      <4>1. eventCache # << >>
        BY <3>1 DEF IInv, TypeOK
      <4>2. n >= 1
        BY <4>1, HeadFacts
      <4>3. Head(eventCache') = Head(eventCache)
        BY <2>4, <4>1, <4>2
      <4>4. Chain' = Chain
        BY <4>3 DEF Chain
      <4>. QED
        BY <1>1, <2>6, <4>4 DEF IInv, Running
    <3>. QED
      BY <1>1, <3>1 DEF Running
  <2>. QED
    BY <2>7, <2>8, <2>9, <2>10 DEF IInv
<1>. QED
  BY <1>2, <1>3

\* A step that touches only the registered chains.
LEMMA ChainsInv ==
  ASSUME IInv, UNCHANGED << eventCache, step, queued, asked, ran >>,
         DOMAIN handlers' \subseteq Events,
         \A e \in DOMAIN handlers' : handlers'[e] \in Seq(Handlers)
  PROVE  IInv'
BY DEF IInv, TypeOK, Numbered, Settled, Running, Past, Chain

LEMMA AddHandlerInv ==
  ASSUME IInv, NEW e \in Events, NEW h \in Handlers, addHandler(e, h)
  PROVE  IInv'
<1>. DEFINE chain == IF e \in DOMAIN handlers THEN handlers[e] ELSE << >>
<1>1. /\ handlers' = [x \in DOMAIN handlers \cup {e} |->
                        IF x = e THEN Append(chain, h) ELSE handlers[x]]
      /\ UNCHANGED << eventCache, step, queued, asked, ran >>
  BY DEF addHandler
<1>2. chain \in Seq(Handlers)
  BY DEF IInv, TypeOK
<1>3. Append(chain, h) \in Seq(Handlers)
  BY <1>2, AppendProperties
<1>. QED
  BY <1>1, <1>3, ChainsInv DEF IInv, TypeOK

LEMMA RemoveHandlerInv ==
  ASSUME IInv, NEW e \in Events, NEW h \in Handlers, removeHandler(e, h)
  PROVE  IInv'
<1>1. PICK i \in 1 .. MaxChain :
        /\ First(e, h, i)
        /\ handlers' = [handlers EXCEPT ![e] =
                          SubSeq(@, 1, i - 1) \o SubSeq(@, i + 1, Len(@))]
        /\ UNCHANGED << eventCache, step, queued, asked, ran >>
  BY DEF removeHandler
<1>2. handlers[e] \in Seq(Handlers) /\ i \in 1 .. Len(handlers[e])
  BY <1>1 DEF First, IInv, TypeOK
<1>3. /\ SubSeq(handlers[e], 1, i - 1) \in Seq(Handlers)
      /\ SubSeq(handlers[e], i + 1, Len(handlers[e])) \in Seq(Handlers)
  BY <1>2
<1>4. SubSeq(handlers[e], 1, i - 1) \o SubSeq(handlers[e], i + 1, Len(handlers[e]))
        \in Seq(Handlers)
  BY <1>3
<1>. QED
  BY <1>1, <1>4, ChainsInv DEF IInv, TypeOK

LEMMA CheckInv ==
  ASSUME IInv, check
  PROVE  IInv'
<1>1. /\ eventCache # << >> /\ step' = 1
      /\ ran' = [ran EXCEPT ![Head(eventCache).id] = << >>]
      /\ UNCHANGED << handlers, eventCache, queued, asked >>
  BY DEF check
<1>2. /\ Head(eventCache).id = Past + 1 /\ Past + 1 \in Ids /\ Past \in Nat
      /\ Chain \in Seq(Handlers)
  BY <1>1, HeadFacts
<1>3. /\ ran' \in [Ids -> Seq(Handlers)] /\ ran'[Past + 1] = << >>
      /\ \A id \in Ids : id # Past + 1 => ran'[id] = ran[id]
  BY <1>1, <1>2 DEF IInv, TypeOK
<1>4. Past' = Past /\ Chain' = Chain
  BY <1>1 DEF Past, Chain
<1>5. TypeOK'
  BY <1>1, <1>3 DEF IInv, TypeOK
<1>6. Numbered'
  BY <1>1, <1>4 DEF IInv, Numbered
<1>7. Settled'
  BY <1>1, <1>2, <1>3, <1>4 DEF IInv, Settled, Ids
<1>8. Running'
  BY <1>1, <1>2, <1>3, <1>4 DEF Running
<1>. QED
  BY <1>5, <1>6, <1>7, <1>8 DEF IInv

LEMMA HandlerReturnsInv ==
  ASSUME IInv, handlerReturns
  PROVE  IInv'
<1>1. /\ eventCache # << >> /\ step > 0 /\ step <= Len(Chain) /\ step' = step + 1
      /\ ran' = [ran EXCEPT ![Head(eventCache).id] = Append(@, Chain[step])]
      /\ UNCHANGED << handlers, eventCache, queued, asked >>
  BY DEF handlerReturns, Calling
<1>2. /\ Head(eventCache).id = Past + 1 /\ Past + 1 \in Ids /\ Past \in Nat
      /\ Chain \in Seq(Handlers) /\ step \in Nat
  BY <1>1, HeadFacts DEF IInv, TypeOK
<1>. DEFINE r == ran[Past + 1]
<1>3. /\ r \in Seq(Handlers) /\ Len(r) = step - 1
      /\ \A j \in 1 .. step - 1 : r[j] = Chain[j]
  BY <1>1, <1>2 DEF IInv, TypeOK, Running
<1>4. Chain[step] \in Handlers
  BY <1>1, <1>2
<1>5. /\ Append(r, Chain[step]) \in Seq(Handlers)
      /\ Len(Append(r, Chain[step])) = step
      /\ \A j \in 1 .. step : Append(r, Chain[step])[j] = Chain[j]
  <2>1. /\ Append(r, Chain[step]) \in Seq(Handlers)
        /\ Len(Append(r, Chain[step])) = step
        /\ \A j \in 1 .. step - 1 : Append(r, Chain[step])[j] = r[j]
        /\ Append(r, Chain[step])[step] = Chain[step]
    BY <1>2, <1>3, <1>4, AppendProperties
  <2>. QED
    BY <1>1, <1>2, <1>3, <2>1
<1>6. /\ ran' \in [Ids -> Seq(Handlers)] /\ ran'[Past + 1] = Append(r, Chain[step])
      /\ \A id \in Ids : id # Past + 1 => ran'[id] = ran[id]
  BY <1>1, <1>2, <1>5 DEF IInv, TypeOK
<1>7. Past' = Past /\ Chain' = Chain
  BY <1>1 DEF Past, Chain
<1>8. TypeOK'
  BY <1>1, <1>2, <1>6 DEF IInv, TypeOK
<1>9. Numbered'
  BY <1>1, <1>7 DEF IInv, Numbered
<1>10. Settled'
  <2>1. Settled /\ Past + 1 > Past
    BY <1>2 DEF IInv
  <2>2. \A id \in Ids : id <= Past \/ id > Past + 1 => ran'[id] = ran[id]
    BY <1>2, <1>6 DEF Ids
  <2>. QED
    BY <1>1, <1>7, <2>1, <2>2 DEF Settled
<1>11. Running'
  BY <1>1, <1>2, <1>5, <1>6, <1>7 DEF Running
<1>. QED
  BY <1>8, <1>9, <1>10, <1>11 DEF IInv

LEMMA HandlerRaisesInv ==
  ASSUME IInv, handlerRaises
  PROVE  IInv'
<1>1. step' = 0 /\ UNCHANGED << handlers, eventCache, queued, asked, ran >>
  BY DEF handlerRaises
<1>. QED
  BY <1>1 DEF IInv, TypeOK, Numbered, Settled, Running, Past, Chain

LEMMA EventDoneInv ==
  ASSUME IInv, eventDone
  PROVE  IInv'
<1>. DEFINE n == Len(eventCache)
<1>1. /\ step > 0 /\ ~Calling
      /\ eventCache' = Tail(eventCache)
      /\ step' = IF eventCache' = << >> THEN 0 ELSE 1
      /\ UNCHANGED << handlers, queued, asked, ran >>
  BY DEF eventDone
<1>2. eventCache # << >>
  BY <1>1 DEF IInv, TypeOK
<1>3. /\ Past \in Nat /\ Past + 1 \in Ids /\ n >= 1 /\ n \in Nat
      /\ Chain \in Seq(Handlers) /\ Chain = asked[Past + 1]
      /\ queued \in Nat /\ queued <= MaxDispatched /\ n <= queued
  BY <1>2, HeadFacts, QueueFacts, DispatcherAssumption DEF IInv, TypeOK, Numbered
<1>4. /\ Tail(eventCache) \in Seq(EventType) /\ Len(Tail(eventCache)) = n - 1
      /\ \A i \in 1 .. n - 1 : Tail(eventCache)[i] = eventCache[i + 1]
  BY <1>2, QueueFacts, HeadTailProperties DEF IInv
<1>5. Past' = Past + 1
  BY <1>1, <1>3, <1>4 DEF Past
<1>6. ran[Past + 1] = asked[Past + 1]
  <2>1. step = Len(Chain) + 1 /\ step \in Nat
    BY <1>1, <1>2, <1>3 DEF Calling, IInv, TypeOK, Running
  <2>2. /\ ran[Past + 1] \in Seq(Handlers) /\ Len(ran[Past + 1]) = Len(Chain)
        /\ \A j \in 1 .. Len(ran[Past + 1]) : ran[Past + 1][j] = Chain[j]
    BY <1>1, <1>3, <2>1 DEF IInv, TypeOK, Running
  <2>. QED
    BY <1>3, <2>2, SeqEqual
<1>7. TypeOK'
  BY <1>1, <1>4 DEF IInv, TypeOK
<1>8. Numbered'
  <2>1. ASSUME NEW i \in 1 .. n - 1
        PROVE  eventCache'[i].id = Past' + i /\ eventCache'[i].chain = asked'[Past' + i]
    <3>1. i + 1 \in 1 .. n /\ Past + (i + 1) = (Past + 1) + i
      BY <1>3
    <3>2. eventCache[i + 1].id = Past + (i + 1) /\ eventCache[i + 1].chain = asked[Past + (i + 1)]
      BY <3>1 DEF IInv, Numbered
    <3>. QED
      BY <1>1, <1>4, <1>5, <3>1, <3>2
  <2>. QED
    BY <1>1, <1>3, <1>4, <2>1 DEF Numbered
<1>9. Settled'
  <2>1. \A id \in Ids : id <= Past + 1 => ran[id] = asked[id]
    <3>1. \A id \in Ids : id <= Past + 1 => id <= Past \/ id = Past + 1
      BY <1>3 DEF Ids
    <3>. QED
      BY <1>6, <3>1 DEF IInv, Settled
  <2>2. \A id \in Ids : id > Past + 1 => ran[id] = << >>
    BY DEF IInv, Settled
  <2>3. \A id \in Ids : id > Past + 2 => id > Past + 1
    BY <1>3 DEF Ids
  <2>. QED
    BY <1>1, <1>3, <1>5, <2>1, <2>2, <2>3 DEF Settled
<1>10. Running'
  <2>1. CASE eventCache' = << >>
    BY <1>1, <2>1 DEF Running
  <2>2. CASE eventCache' # << >>
    <3>1. step' = 1
      BY <1>1, <2>2
    <3>2. n - 1 >= 1
      BY <1>1, <1>3, <1>4, <2>2
    <3>3. Past + 2 \in Ids
      BY <1>3, <3>2, DispatcherAssumption DEF Past, Ids
    <3>4. ran'[Past' + 1] = << >>
      <4>1. Past + 2 > Past + 1 /\ (Past + 1) + 1 = Past + 2
        BY <1>3
      <4>. QED
        BY <1>1, <1>5, <3>3, <4>1 DEF IInv, Settled
    <3>5. Chain' \in Seq(Handlers)
      <4>1. Head(Tail(eventCache)) \in EventType
        BY <1>1, <1>4, <2>2, HeadTailProperties
      <4>. QED
        BY <1>1, <4>1 DEF Chain, EventType
    <3>. QED
      BY <3>1, <3>4, <3>5 DEF Running
  <2>. QED
    BY <2>1, <2>2
<1>. QED
  BY <1>7, <1>8, <1>9, <1>10 DEF IInv

--------------------------------------------------------------------------------
(* The theorems *)

LEMMA InitInv == Init => IInv
<1>. SUFFICES ASSUME Init PROVE IInv
  OBVIOUS
<1>1. /\ handlers = << >> /\ eventCache = << >> /\ step = 0 /\ queued = 0
      /\ asked = [id \in Ids |-> << >>] /\ ran = [id \in Ids |-> << >>]
  BY DEF Init
<1>2. DOMAIN handlers = {} /\ Len(eventCache) = 0
  BY <1>1
<1>3. TypeOK
  BY <1>1, <1>2, DispatcherAssumption DEF TypeOK
<1>4. Numbered /\ Settled /\ Running
  BY <1>1, <1>2 DEF Numbered, Settled, Running, Past, Ids
<1>. QED
  BY <1>3, <1>4 DEF IInv

LEMMA NextInv == IInv /\ [Next]_vars => IInv'
<1>. SUFFICES ASSUME IInv, [Next]_vars PROVE IInv'
  OBVIOUS
<1>1. CASE \E e \in Events : dispatch(e)
  BY <1>1, DispatchInv
<1>2. CASE \E e \in Events, h \in Handlers : addHandler(e, h) \/ removeHandler(e, h)
  BY <1>2, AddHandlerInv, RemoveHandlerInv
<1>3. CASE check \/ handlerReturns \/ handlerRaises \/ eventDone
  BY <1>3, CheckInv, HandlerReturnsInv, HandlerRaisesInv, EventDoneInv
<1>4. CASE UNCHANGED vars
  BY <1>4 DEF vars, IInv, TypeOK, Numbered, Settled, Running, Past, Chain
<1>. QED
  BY <1>1, <1>2, <1>3, <1>4 DEF Next

LEMMA Inductive == Spec => []IInv
BY InitInv, NextInv, PTL DEF Spec

\* TypeOK: in particular, check() never calls a nil event.
THEOREM DispatcherTypeOK == Spec => []TypeOK
<1>1. IInv => TypeOK
  BY DEF IInv
<1>. QED
  BY <1>1, Inductive, PTL

\* EventComplete: an event leaves the queue only after a complete run of the
\* handlers it was dispatched to, and no event overtakes another, however the
\* handlers raise, dispatch, add and remove.
THEOREM DispatcherEventComplete == Spec => []EventComplete
<1>1. IInv => EventComplete
  <2>. SUFFICES ASSUME IInv, NEW id \in 1 .. queued
                PROVE  /\ ~InQueue(id) => ran[id] = asked[id]
                       /\ ran[id] # << >> => \A j \in 1 .. id - 1 : ~InQueue(j)
    BY DEF EventComplete
  <2>. DEFINE n == Len(eventCache)
  <2>1. /\ n \in Nat /\ queued \in Nat /\ n <= queued /\ queued <= MaxDispatched
        /\ Past = queued - n /\ Past \in Nat /\ id \in Ids /\ id \in Nat
        /\ DOMAIN eventCache = 1 .. n
    BY QueueFacts, DispatcherAssumption DEF IInv, TypeOK, Numbered, Past, Ids
  <2>2. \A i \in 1 .. n : eventCache[i].id = Past + i
    BY DEF IInv, Numbered
  <2>3. id > Past => InQueue(id)
    <3>1. ASSUME id > Past PROVE InQueue(id)
      <4>1. id - Past \in 1 .. n /\ Past + (id - Past) = id
        BY <2>1, <3>1
      <4>. QED
        BY <2>1, <2>2, <4>1 DEF InQueue
    <3>. QED
      BY <3>1
  <2>4. ~InQueue(id) => ran[id] = asked[id]
    BY <2>1, <2>3 DEF IInv, Settled
  <2>5. ran[id] # << >> => id <= Past + 1
    BY <2>1 DEF IInv, Settled
  <2>6. \A j \in 1 .. Past : ~InQueue(j)
    BY <2>1, <2>2 DEF InQueue
  <2>. QED
    BY <2>1, <2>4, <2>5, <2>6
<1>. QED
  BY <1>1, Inductive, PTL
================================================================================
