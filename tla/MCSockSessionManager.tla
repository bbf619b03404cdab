-------------------------- MODULE MCSockSessionManager --------------------------
(* A small network layer for TLC: any frames, any client. *)
EXTENDS SockSessionManager

MCFrames == { [type |-> "ResponseLogin", arg |-> "ET_OK"],
              [type |-> "ResponseLogin", arg |-> "undecodable"] }

OneFrame == { [type |-> "ResponseLogin", arg |-> "ET_OK"] }
================================================================================
