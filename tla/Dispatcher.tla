------------------------------- MODULE Dispatcher -------------------------------
(***************************************************************************)
(* The event dispatcher (source/app/Dispatcher.lua) under any program: the *)
(* callbacks and the handlers dispatch, add and remove handlers as they    *)
(* like, and some handlers raise.  ConnFw uses it with handlers that do    *)
(* none of this.                                                           *)
(*                                                                         *)
(* Events are numbered in the order they are queued.  The arguments of an  *)
(* event travel with it untouched and are left out.                        *)
(***************************************************************************)
EXTENDS Naturals, Sequences

CONSTANTS
  Events, Handlers,
  MayRaise,        \* the handlers that may raise an error
  MaxDispatched,   \* bound: events queued in all
  MaxChain         \* bound: handlers of one event

ASSUME DispatcherAssumption ==
  /\ MayRaise \subseteq Handlers
  /\ MaxDispatched \in Nat
  /\ MaxChain \in Nat

VARIABLES
  handlers,    \* handlers_: the chain of each event that ever had a handler
  eventCache,  \* the queue, [id, event, chain]; chain is the copy t
  step,        \* which handler of the head check() is running, 0 outside check
  queued,      \* how many events have been queued
  asked,       \* by event: the handlers registered when it was dispatched
  ran          \* by event: its handlers that completed in the latest run of it

vars == << handlers, eventCache, step, queued, asked, ran >>

Ids == 1 .. MaxDispatched

--------------------------------------------------------------------------------

\* Mutant: the chain is not copied.
Mutant_liveChain == handlers[Head(eventCache).event]

\* The handlers that running the head of the queue calls.
Chain == Head(eventCache).chain

\* A handler is running.
Calling == step > 0 /\ eventCache # << >> /\ step <= Len(Chain)

\* Where the program calls the dispatcher: from the callbacks, between two
\* updates, or from a handler.
Called == step = 0 \/ Calling

\* dispatch(): an event that never had a handler is dropped.
dispatch(e) ==
  /\ Called
  /\ IF e \in DOMAIN handlers
     THEN /\ queued < MaxDispatched
          /\ queued' = queued + 1
          /\ eventCache' = Append(eventCache,
               [id |-> queued + 1, event |-> e, chain |-> handlers[e]])
          /\ asked' = [asked EXCEPT ![queued + 1] = handlers[e]]
     ELSE UNCHANGED << queued, eventCache, asked >>
  /\ UNCHANGED << handlers, step, ran >>

addHandler(e, h) ==
  /\ Called
  /\ LET chain == IF e \in DOMAIN handlers THEN handlers[e] ELSE << >> IN
     /\ Len(chain) < MaxChain
     /\ handlers' = [x \in DOMAIN handlers \cup {e} |->
                       IF x = e THEN Append(chain, h) ELSE handlers[x]]
  /\ UNCHANGED << eventCache, step, queued, asked, ran >>

\* Position i of the chain of event e is the first of handler h.
First(e, h, i) == /\ e \in DOMAIN handlers
                  /\ i \in DOMAIN handlers[e]
                  /\ handlers[e][i] = h
                  /\ \A j \in 1 .. i - 1 : handlers[e][j] # h

\* removeHandler(): the first entry of h goes; the chain stays, be it empty.
removeHandler(e, h) ==
  /\ Called
  /\ \E i \in 1 .. MaxChain :
       /\ First(e, h, i)
       /\ handlers' = [handlers EXCEPT ![e] =
                         SubSeq(@, 1, i - 1) \o SubSeq(@, i + 1, Len(@))]
  /\ UNCHANGED << eventCache, step, queued, asked, ran >>

\* check() starts on a queue that is not empty.
check ==
  /\ step = 0
  /\ eventCache # << >>
  /\ step' = 1
  /\ ran' = [ran EXCEPT ![Head(eventCache).id] = << >>]
  /\ UNCHANGED << handlers, eventCache, queued, asked >>

handlerReturns ==
  /\ Calling
  /\ ran' = [ran EXCEPT ![Head(eventCache).id] = Append(@, Chain[step])]
  /\ step' = step + 1
  /\ UNCHANGED << handlers, eventCache, queued, asked >>

\* A handler raises, by a removeHandler() of what is not there or otherwise.
\* The error leaves check() and is dropped by the lua_pcall of frameUpdate; the
\* event has not been removed and the next update starts it over.
handlerRaises ==
  /\ Calling
  /\ Chain[step] \in MayRaise
  /\ step' = 0
  /\ UNCHANGED << handlers, eventCache, queued, asked, ran >>

\* Mutant: the event is not removed.
Mutant_eventKept ==
  /\ step > 0 /\ ~Calling
  /\ step' = 1
  /\ ran' = [ran EXCEPT ![Head(eventCache).id] = << >>]
  /\ UNCHANGED << handlers, eventCache, queued, asked >>

\* Mutant: the next event is called without looking whether there is one.
Mutant_neverBreaks ==
  /\ step > 0 /\ ~Calling
  /\ eventCache' = Tail(eventCache)
  /\ step' = 1
  /\ UNCHANGED << handlers, queued, asked, ran >>

\* The whole chain has returned: check() removes the event and goes on with the
\* next, one that a handler has just dispatched included.
eventDone ==
  /\ step > 0 /\ ~Calling
  /\ eventCache' = Tail(eventCache)
  /\ step' = IF eventCache' = << >> THEN 0 ELSE 1
  /\ UNCHANGED << handlers, queued, asked, ran >>

--------------------------------------------------------------------------------

Init == /\ handlers = << >>
        /\ eventCache = << >>
        /\ step = 0
        /\ queued = 0
        /\ asked = [id \in Ids |-> << >>]
        /\ ran = [id \in Ids |-> << >>]

Next == \/ \E e \in Events : dispatch(e)
        \/ \E e \in Events, h \in Handlers : addHandler(e, h) \/ removeHandler(e, h)
        \/ check
        \/ handlerReturns
        \/ handlerRaises
        \/ eventDone

\* frameUpdate calls check() on every turn of the loop, and a handler that does
\* not raise returns.
Fairness == WF_vars(check) /\ WF_vars(handlerReturns) /\ WF_vars(eventDone)

Spec == Init /\ [][Next]_vars /\ Fairness

--------------------------------------------------------------------------------
(* Properties *)

EventType == [id : Ids, event : Events, chain : Seq(Handlers)]

\* The types of the dispatcher's state; check() never calls a nil event.
TypeOK == /\ DOMAIN handlers \subseteq Events
          /\ \A e \in DOMAIN handlers : handlers[e] \in Seq(Handlers)
          /\ eventCache \in Seq(EventType)
          /\ step \in Nat
          /\ step > 0 => eventCache # << >>
          /\ queued \in 0 .. MaxDispatched
          /\ asked \in [Ids -> Seq(Handlers)]
          /\ ran \in [Ids -> Seq(Handlers)]

InQueue(id) == \E i \in DOMAIN eventCache : eventCache[i].id = id

\* An event leaves the queue only after one run in which every handler that was
\* registered when it was dispatched completed, in order, whatever was removed
\* or added since and however often a handler raised before; and no handler of
\* an event runs while an earlier one is still queued.
EventComplete ==
  \A id \in 1 .. queued :
    /\ ~InQueue(id) => ran[id] = asked[id]
    /\ ran[id] # << >> => \A j \in 1 .. id - 1 : ~InQueue(j)

\* A handler that raises holds up everything behind its event, and nothing else
\* does: an event is handled in the end, or the queue stays at an event with such
\* a handler.
HeadOfLine ==
  \A id \in Ids :
    id <= queued ~>
      \/ ~InQueue(id)
      \/ [](/\ eventCache # << >>
            /\ \E i \in DOMAIN Chain : Chain[i] \in MayRaise)
================================================================================
