------------------------------ MODULE FrameStream ------------------------------
(***************************************************************************)
(* What a session promises to the program above it: each connection is a   *)
(* stream that hands over the server's frames in the order they were sent, *)
(* each once, none invented or skipped, and nothing more once the session  *)
(* has been reported failed.  It says nothing of how: no sockets, no       *)
(* chunks, no handlers.  SockSessionManager implements it.                 *)
(***************************************************************************)
EXTENDS Naturals, Sequences

CONSTANTS Sessions, Frames

VARIABLES
  sent,        \* the frames the server sent on each connection
  delivered,   \* the frames the session handed over
  failed       \* what isSocketFailed() answers

vars == << sent, delivered, failed >>

Init == /\ sent = [s \in Sessions |-> << >>]
        /\ delivered = [s \in Sessions |-> << >>]
        /\ failed = [s \in Sessions |-> FALSE]

Send(s, f) == /\ sent' = [sent EXCEPT ![s] = Append(@, f)]
              /\ UNCHANGED << delivered, failed >>

Deliver(s) == /\ ~failed[s]
              /\ Len(delivered[s]) < Len(sent[s])
              /\ delivered' = [delivered EXCEPT ![s] =
                                 Append(@, sent[s][Len(@) + 1])]
              /\ UNCHANGED << sent, failed >>

Fail(s) == /\ failed' = [failed EXCEPT ![s] = TRUE]
           /\ UNCHANGED << sent, delivered >>

Next == \E s \in Sessions : \/ \E f \in Frames : Send(s, f)
                            \/ Deliver(s)
                            \/ Fail(s)

Spec == Init /\ [][Next]_vars
================================================================================
