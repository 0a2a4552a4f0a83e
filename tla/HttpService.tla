---------------------------- MODULE HttpService ----------------------------
(***************************************************************************)
(* What the server promises each client, without file descriptors, epoll   *)
(* or a backlog: a connection is taken up at most once, heard at most once *)
(* and answered at most once, with what had arrived when it was heard; it  *)
(* is dropped only after it was heard or after the client left, unless the *)
(* server could not watch it; and who has something to say is heard.       *)
(***************************************************************************)
EXTENDS Naturals

CONSTANTS
    Conns,  \* connections, each made at most once
    Size    \* segments of the request sent on each

VARIABLES
    up,       \* the server takes and serves connections
    conn,     \* "idle", "queued", "open", "refused" or "closed"
    peer,     \* "up", "fin" or "rst": what the client did with its end
    arrived,  \* segments that have reached the server
    answered  \* segments the answer was made from; 0 without an answer

service == <<up, conn, peer, arrived, answered>>

Init ==
    /\ up = TRUE
    /\ conn = [c \in Conns |-> "idle"]
    /\ peer = [c \in Conns |-> "up"]
    /\ arrived = [c \in Conns |-> 0]
    /\ answered = [c \in Conns |-> 0]

HasNews(c) == arrived[c] > 0 \/ peer[c] # "up"

Enter(c) ==
    /\ up
    /\ conn[c] = "idle"
    /\ conn' = [conn EXCEPT ![c] = "queued"]
    /\ UNCHANGED <<up, peer, arrived, answered>>

Send(c) ==
    /\ conn[c] \in {"queued", "open"}
    /\ peer[c] = "up"
    /\ arrived[c] < Size[c]
    /\ arrived' = [arrived EXCEPT ![c] = @ + 1]
    /\ UNCHANGED <<up, conn, peer, answered>>

Leave(c) ==
    /\ conn[c] \in {"queued", "open"}
    /\ peer[c] = "up"
    /\ \E how \in {"fin", "rst"} : peer' = [peer EXCEPT ![c] = how]
    /\ UNCHANGED <<up, conn, arrived, answered>>

Admit(c) ==
    /\ up
    /\ conn[c] = "queued"
    /\ conn' = [conn EXCEPT ![c] = "open"]
    /\ UNCHANGED <<up, peer, arrived, answered>>

Refuse(c) ==
    /\ up
    /\ conn[c] = "queued"
    /\ conn' = [conn EXCEPT ![c] = "refused"]
    /\ UNCHANGED <<up, peer, arrived, answered>>

\* Heard once: an answer to what had arrived, or none; either way the end.
Hear(c) ==
    /\ up
    /\ conn[c] = "open"
    /\ HasNews(c)
    /\ conn' = [conn EXCEPT ![c] = "closed"]
    /\ \E n \in 0..arrived[c] : answered' = [answered EXCEPT ![c] = n]
    /\ UNCHANGED <<up, peer, arrived>>

Stop ==
    /\ up
    /\ up' = FALSE
    /\ UNCHANGED <<conn, peer, arrived, answered>>

Next ==
    \/ \E c \in Conns :
          Enter(c) \/ Send(c) \/ Leave(c) \/ Admit(c) \/ Refuse(c) \/ Hear(c)
    \/ Stop

Spec == Init /\ [][Next]_service

FairSpec == Spec /\ \A c \in Conns : WF_service(Hear(c))
=============================================================================
