-------------------------------- MODULE MCConnFw --------------------------------
(* The client and its two servers for TLC. *)
EXTENDS ConnFw

MCServerIDs == {"DirectoryConnected", "WorldConnected"}
MCRequests  == {"RequestWorldList", "RequestUserRegister", "RequestLogin",
                "RequestCreatePlayer"}
MCFrames    == UNION {Answers(id, req) : id \in MCServerIDs, req \in MCRequests}
================================================================================
