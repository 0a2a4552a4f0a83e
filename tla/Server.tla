------------------------------- MODULE Server -------------------------------
(***************************************************************************)
(* The event loop of server/srcs/server/server.c as main_loop of main.c    *)
(* runs it: one thread that waits on epoll, accepts from a level-triggered *)
(* listener and reads each edge-triggered client exactly once, answers and *)
(* closes.  The clients, the accept queue, the descriptor table and epoll's *)
(* ready list are the environment, modelled as Linux provides them.        *)
(*                                                                         *)
(* The server thread's step is one handler call, or half of one: recv, and *)
(* the callback with what follows it.  Clients and the signal act between  *)
(* any two steps.  A request is a number of segments: how much of it recv  *)
(* finds is what the handlers can tell apart.                              *)
(***************************************************************************)
EXTENDS Integers, Sequences, FiniteSets

CONSTANTS
    Conns,       \* connections, each made at most once
    NoConn,      \* not a connection
    Size,        \* segments of the request sent on each connection
    RecvMax,     \* segments the buffer of m_handle_client_event holds
    FdLimit,     \* descriptors left for clients
    SOMAXCONN,   \* length of the accept queue
    MAX_EVENTS,  \* events taken from epoll at a time
    CallbackErrors,  \* whether m_http_request_handler may return ERROR
    Crashes,     \* segments of a request on which m_http_request_handler may
                 \* fail to return: it then ends the process
    AddFails         \* whether epoll_ctl may fail to add a client

ASSUME ConnsAssumption == NoConn \notin Conns /\ Size \in [Conns -> Nat \ {0}]
ASSUME LimitsAssumption ==
    {RecvMax, FdLimit, SOMAXCONN, MAX_EVENTS} \subseteq Nat \ {0}
ASSUME OptionsAssumption ==
    /\ CallbackErrors \in BOOLEAN /\ AddFails \in BOOLEAN
    /\ Crashes \in [Conns -> SUBSET Nat]

Listener == 0        \* m_sock_server
Fds == 1..FdLimit    \* the clients' descriptors, lowest first

VARIABLES
    spc,         \* where the server thread is
    m_die,
    events,      \* m_events from index i on, with the client each one is for
    received,    \* ret of recv, in segments, while the callback runs
    errfd,       \* descriptor closed again after a handler's ERROR
    fdtab,       \* the client behind each descriptor
    interest,    \* descriptors added to m_epoll_fd
    rdllist,     \* epoll's ready list
    backlog,     \* the listener's accept queue
    conn,        \* "idle", "queued", "open", "refused" or "closed"
    peer,        \* "up", or how the client ended its side: "fin", "rst"
    arrived,     \* segments that reached the server's socket
    answered     \* segments the answer was made from; 0 without an answer

loop == <<spc, m_die, events, received, errfd>>
kernel == <<fdtab, interest, rdllist, backlog>>
client == <<conn, peer, arrived, answered>>
vars == <<loop, kernel, client>>

Running == spc \notin {"failed", "cleaned", "killed"}

-----------------------------------------------------------------------------
(* epoll and the descriptor table.                                         *)

HasNews(c) == arrived[c] > 0 \/ peer[c] # "up"

\* What the kernel finds when it polls a descriptor.
Readable(fd) ==
    IF fd = Listener THEN backlog # <<>>
    ELSE fdtab[fd] # NoConn /\ HasNews(fdtab[fd])

Elements(list) == {list[i] : i \in DOMAIN list}

\* A watched descriptor joins the ready list once, at its end.
Wake(fd) ==
    rdllist' = IF fd \in interest \ Elements(rdllist)
               THEN Append(rdllist, fd) ELSE rdllist

\* Something happened on the client's side of a connection.
WakeClient(c) ==
    IF conn[c] = "open" THEN \E fd \in Fds : fdtab[fd] = c /\ Wake(fd)
    ELSE UNCHANGED rdllist

FreeFds == {fd \in Fds : fdtab[fd] = NoConn}

LowestFree == CHOOSE fd \in FreeFds : \A other \in FreeFds : fd <= other

Position(list, fd) == CHOOSE i \in DOMAIN list : list[i] = fd

\* Nothing is twice on the ready list.
Without(list, fd) ==
    IF fd \notin Elements(list) THEN list
    ELSE SubSeq(list, 1, Position(list, fd) - 1)
           \o SubSeq(list, Position(list, fd) + 1, Len(list))

Init ==
    /\ spc = "test"
    /\ m_die = FALSE
    /\ events = <<>>
    /\ received = 0
    /\ errfd = Listener
    /\ fdtab = [fd \in Fds |-> NoConn]
    /\ interest = {Listener}
    /\ rdllist = <<>>
    /\ backlog = <<>>
    /\ conn = [c \in Conns |-> "idle"]
    /\ peer = [c \in Conns |-> "up"]
    /\ arrived = [c \in Conns |-> 0]
    /\ answered = [c \in Conns |-> 0]

-----------------------------------------------------------------------------
(* The clients and the signal.                                             *)

Connect(c) ==
    /\ Running
    /\ conn[c] = "idle"
    /\ Len(backlog) < SOMAXCONN
    /\ conn' = [conn EXCEPT ![c] = "queued"]
    /\ backlog' = Append(backlog, c)
    /\ Wake(Listener)
    /\ UNCHANGED <<loop, fdtab, interest, peer, arrived, answered>>

Send(c) ==
    /\ conn[c] \in {"queued", "open"}
    /\ peer[c] = "up"
    /\ arrived[c] < Size[c]
    /\ arrived' = [arrived EXCEPT ![c] = @ + 1]
    /\ WakeClient(c)
    /\ UNCHANGED <<loop, fdtab, interest, backlog, conn, peer, answered>>

\* The client closes or resets; a queued connection stays in the queue.
Leave(c) ==
    /\ conn[c] \in {"queued", "open"}
    /\ peer[c] = "up"
    /\ \E how \in {"fin", "rst"} : peer' = [peer EXCEPT ![c] = how]
    /\ WakeClient(c)
    /\ UNCHANGED <<loop, fdtab, interest, backlog, conn, arrived, answered>>

\* signal_handler, on the server thread between two steps of the loop or on
\* the log worker: either way no system call is interrupted.
signal_handler ==
    /\ Running
    /\ ~m_die
    /\ m_die' = TRUE
    /\ UNCHANGED <<spc, events, received, errfd, kernel, client>>

\* A signal while epoll_wait sleeps: EINTR, reported as ERROR, and main_loop
\* returns without server_cleanup.  A process that is stopped and goes on has
\* its epoll_wait interrupted as well, with no handler called.
signal_interrupts ==
    /\ spc = "wait"
    /\ \A fd \in interest : ~Readable(fd)
    /\ m_die' \in {m_die, TRUE}
    /\ spc' = "failed"
    /\ UNCHANGED <<events, received, errfd, kernel, client>>

-----------------------------------------------------------------------------
(* main_loop and server_select.                                            *)

\* The test of m_die at the top of main_loop.
main_loop ==
    /\ spc = "test"
    /\ ~m_die
    /\ spc' = "wait"
    /\ UNCHANGED <<m_die, events, received, errfd, kernel, client>>

\* The loop ends: the listener and the epoll instance are closed, the accept
\* queue goes with the listener, the clients' descriptors stay.
server_cleanup ==
    /\ spc = "test"
    /\ m_die
    /\ spc' = "cleaned"
    /\ interest' = {}
    /\ rdllist' = <<>>
    /\ backlog' = <<>>
    /\ UNCHANGED <<m_die, events, received, errfd, fdtab, client>>

\* The positions of the ready list, up to n, that epoll_wait finds ready.
ReadyUpto(n) == {i \in 1..n : Readable(rdllist[i])}

\* mutant: epoll_wait is given a larger count than the array has room for
ScanEndsWithList(n) == n = Len(rdllist)

\* epoll_wait goes down the ready list until the event array is full.
ScanEnds(n) ==
    \/ Cardinality(ReadyUpto(n)) = MAX_EVENTS /\ Readable(rdllist[n])
    \/ Cardinality(ReadyUpto(n)) < MAX_EVENTS /\ n = Len(rdllist)

\* The numbers of a set from the least to the greatest.
Ascending(S) ==
    {f \in [1..Cardinality(S) -> S] :
        /\ \A x \in S : \E i \in DOMAIN f : f[i] = x
        /\ \A i, j \in DOMAIN f : i < j => f[i] < f[j]}

ClientAt(fd) == IF fd = Listener THEN NoConn ELSE fdtab[fd]

LevelTriggeredNone(fd) == FALSE    \* mutant: the listener is added with EPOLLET

LevelTriggered(fd) == fd = Listener

\* epoll_wait with something to report, in the order of the ready list.  What
\* it looked at leaves the list; the level-triggered listener goes to its end.
server_select ==
    /\ spc = "wait"
    /\ \E n \in DOMAIN rdllist :
          /\ ScanEnds(n)
          /\ ReadyUpto(n) # {}
          /\ \E at \in Ascending(ReadyUpto(n)) :
                events' = [i \in DOMAIN at |->
                    [fd |-> rdllist[at[i]], conn |-> ClientAt(rdllist[at[i]])]]
          /\ rdllist' = SubSeq(rdllist, n + 1, Len(rdllist)) \o
                IF \E i \in ReadyUpto(n) : LevelTriggered(rdllist[i])
                THEN <<Listener>> ELSE <<>>
    /\ spc' = "batch"
    /\ UNCHANGED <<m_die, received, errfd, fdtab, interest, backlog, client>>

\* The second is over and nothing was ready.
server_select_timeout ==
    /\ spc = "wait"
    /\ ReadyUpto(Len(rdllist)) = {}
    /\ rdllist' = <<>>
    /\ spc' = "test"
    /\ UNCHANGED <<m_die, events, received, errfd, fdtab, interest, backlog, client>>

server_select_done ==
    /\ spc = "batch"
    /\ events = <<>>
    /\ spc' = "test"
    /\ UNCHANGED <<m_die, events, received, errfd, kernel, client>>
-----------------------------------------------------------------------------
(* The handlers.                                                           *)

Event == events[1]

\* mutant: a failed accept ends the batch
AdvanceToEnd(failed) == IF failed THEN <<>> ELSE Tail(events)

\* mutant: after an ERROR the loop looks at the same event again
AdvanceUnlessFailed(failed) == IF failed THEN events ELSE Tail(events)

\* mutant: a listener that let a client in is tried again at once
AdvanceUnlessAccepted(failed) ==
    IF Event.fd = Listener /\ ~failed THEN events ELSE Tail(events)

\* The loop of server_select goes on with the next event, whatever a handler
\* returned.
Advance(failed) == Tail(events)

\* close: the descriptor is free, epoll forgets it, the connection is over.
Close(fd) ==
    /\ fdtab' = [fdtab EXCEPT ![fd] = NoConn]
    /\ interest' = interest \ {fd}
    /\ rdllist' = Without(rdllist, fd)
    /\ conn' = [c \in Conns |-> IF fdtab[fd] = c THEN "closed" ELSE conn[c]]

\* mutant: the client is taken off epoll and its descriptor left open
RemoveFromEpollOnly(fd) ==
    /\ interest' = interest \ {fd}
    /\ rdllist' = Without(rdllist, fd)
    /\ UNCHANGED <<fdtab, conn>>

\* mutant: a client that was answered is kept for its next request
KeepAnswered(fd) ==
    IF arrived[fdtab[fd]] > 0 THEN UNCHANGED <<fdtab, interest, rdllist, conn>>
    ELSE Close(fd)

REMOVE_CLIENT(fd) == Close(fd)

\* mutant: a client is hung up on to make room for a new one
EvictForNewClient ==
    /\ FreeFds = {}
    /\ Close(1)
    /\ events' = Tail(events)
    /\ UNCHANGED <<spc, m_die, received, errfd, backlog, peer, arrived, answered>>

\* accept: out of descriptors it fails and leaves the client in the queue;
\* with the queue empty it would block.
m_handle_new_client_accept_fails ==
    /\ FreeFds = {}
    /\ events' = Advance(TRUE)
    /\ UNCHANGED <<spc, m_die, received, errfd, kernel, client>>

\* Accepted and watched.  EPOLL_CTL_ADD reports what arrived before it.
m_handle_new_client_added ==
    /\ FreeFds # {}
    /\ LET c == Head(backlog)
       IN  /\ fdtab' = [fdtab EXCEPT ![LowestFree] = c]
           /\ conn' = [conn EXCEPT ![c] = "open"]
           /\ rdllist' = IF HasNews(c) THEN Append(rdllist, LowestFree) ELSE rdllist
    /\ interest' = interest \cup {LowestFree}
    /\ backlog' = Tail(backlog)
    /\ events' = Advance(FALSE)
    /\ UNCHANGED <<spc, m_die, received, errfd, peer, arrived, answered>>

\* Accepted, not added, closed.
m_handle_new_client_add_fails ==
    /\ AddFails
    /\ FreeFds # {}
    /\ conn' = [conn EXCEPT ![Head(backlog)] = "refused"]
    /\ backlog' = Tail(backlog)
    /\ events' = Advance(TRUE)
    /\ UNCHANGED <<spc, m_die, received, errfd, fdtab, interest, rdllist, peer, arrived,
                   answered>>

m_handle_new_client ==
    /\ spc = "batch"
    /\ events # <<>>
    /\ Event.fd = Listener
    /\ backlog # <<>>
    /\ \/ m_handle_new_client_accept_fails
       \/ m_handle_new_client_added
       \/ m_handle_new_client_add_fails

\* recv finds no data: end of stream, a reset, nothing yet (EAGAIN), or a
\* descriptor that is closed (EBADF).
RecvFails(fd) ==
    \A c \in Conns : fdtab[fd] = c => arrived[c] = 0 \/ peer[c] = "rst"

m_handle_client_event_gone(fd) ==
    /\ RecvFails(fd)
    /\ REMOVE_CLIENT(fd)
    /\ events' = Advance(FALSE)
    /\ UNCHANGED <<spc, m_die, received, errfd, backlog, peer, arrived, answered>>

Received(c) == IF arrived[c] <= RecvMax THEN arrived[c] ELSE RecvMax

\* recv finds data: a reset may overtake what is still there, or not.
m_handle_client_event_recv(fd) ==
    /\ fdtab[fd] # NoConn
    /\ arrived[fdtab[fd]] > 0
    /\ received' = Received(fdtab[fd])
    /\ spc' = "callback"
    /\ UNCHANGED <<m_die, events, errfd, kernel, client>>

m_handle_client_event ==
    /\ spc = "batch"
    /\ events # <<>>
    /\ Event.fd # Listener
    /\ \/ m_handle_client_event_gone(Event.fd)
       \/ m_handle_client_event_recv(Event.fd)

\* The callback answers what was received; the client is removed.
m_handle_client_event_answered ==
    /\ spc = "callback"
    /\ answered' = [answered EXCEPT ![fdtab[Event.fd]] = received]
    /\ spc' = "batch"
    /\ REMOVE_CLIENT(Event.fd)
    /\ received' = 0
    /\ events' = Advance(FALSE)
    /\ UNCHANGED <<m_die, errfd, backlog, peer, arrived>>

\* The callback does not come back.
m_handle_client_event_crashes ==
    /\ spc = "callback"
    /\ received \in Crashes[fdtab[Event.fd]]
    /\ spc' = "killed"
    /\ UNCHANGED <<m_die, events, received, errfd, kernel, client>>

\* The callback returns ERROR: the client is removed, and server_select is
\* told so and will close the descriptor once more.
m_handle_client_event_error ==
    /\ spc = "callback"
    /\ CallbackErrors
    /\ REMOVE_CLIENT(Event.fd)
    /\ received' = 0
    /\ errfd' = Event.fd
    /\ spc' = "errClose"
    /\ UNCHANGED <<m_die, events, backlog, peer, arrived, answered>>

\* epoll_ctl and close on a descriptor that is closed already.
server_select_close_again ==
    /\ spc = "errClose"
    /\ Close(errfd)
    /\ events' = Advance(TRUE)
    /\ spc' = "batch"
    /\ UNCHANGED <<m_die, received, errfd, backlog, peer, arrived, answered>>

-----------------------------------------------------------------------------

ServerWorks ==
    \/ main_loop
    \/ server_cleanup
    \/ server_select
    \/ server_select_timeout
    \/ server_select_done
    \/ m_handle_new_client
    \/ m_handle_client_event
    \/ m_handle_client_event_answered
    \/ m_handle_client_event_crashes
    \/ m_handle_client_event_error
    \/ server_select_close_again

ClientActs == \E c \in Conns : Connect(c) \/ Send(c) \/ Leave(c)

\* The loop is over; stuttering here is not a deadlock.
Ended == ~Running /\ UNCHANGED vars

Next ==
    \/ ClientActs
    \/ signal_handler
    \/ signal_interrupts
    \/ ServerWorks
    \/ Ended

Spec == Init /\ [][Next]_vars

\* The server thread runs; clients may stay silent and no signal need come.
FairSpec == Spec /\ WF_vars(ServerWorks)

-----------------------------------------------------------------------------
(* Safety.                                                                 *)

\* Type correctness.
TypeOK ==
    /\ spc \in {"test", "wait", "batch", "callback", "errClose", "failed",
                "cleaned", "killed"}
    /\ m_die \in BOOLEAN
    /\ events \in Seq([fd : Fds \cup {Listener}, conn : Conns \cup {NoConn}])
    /\ Len(events) <= MAX_EVENTS
    /\ received \in 0..RecvMax
    /\ errfd \in Fds \cup {Listener}
    /\ fdtab \in [Fds -> Conns \cup {NoConn}]
    /\ interest \subseteq Fds \cup {Listener}
    /\ rdllist \in Seq(Fds \cup {Listener})
    /\ backlog \in Seq(Conns)
    /\ conn \in [Conns -> {"idle", "queued", "open", "refused", "closed"}]
    /\ peer \in [Conns -> {"up", "fin", "rst"}]
    /\ arrived \in [Conns -> Nat]
    /\ answered \in [Conns -> Nat]

\* An event not yet handled still speaks of the connection it was reported
\* for: no handler of the same batch has closed that descriptor or let
\* another client have it (server.c:182-202).
NoStaleEvent ==
    \A i \in (IF spc = "errClose" THEN 2 ELSE 1)..Len(events) :
        events[i].fd # Listener =>
            events[i].conn # NoConn /\ fdtab[events[i].fd] = events[i].conn

\* Edge-triggered clients are reported once: as long as the loop runs, a
\* client with something to say is on the ready list or in the batch, or
\* nobody would ever look at it again (server.c:156,182).
NoLostReadiness ==
    Running =>
        \A fd \in Fds :
            Readable(fd) => \/ fd \in Elements(rdllist)
                            \/ \E i \in DOMAIN events : events[i].fd = fd

\* The listener is a blocking socket: accept is called only with somebody in
\* the queue, or the whole server would hang in it (server.c:75,144).
AcceptNeverBlocks ==
    spc = "batch" /\ events # <<>> /\ Event.fd = Listener => backlog # <<>>

\* No descriptor is left open that epoll does not watch: it could never be
\* closed again (server.c:20-25,158-163).
WatchedIffOpen ==
    Running =>
        \A fd \in Fds : fd \in interest <=> fdtab[fd] # NoConn

\* The server hangs up only on the client whose event it handles, and only
\* when that client has sent something or has left: never on another one that
\* has the descriptor by now, and never with the close that follows a handler's
\* ERROR, whose descriptor is closed already (server.c:112,124,127,195-200).
HangsUpOnlyOnItsClient ==
    [][\A c \in Conns :
          conn[c] = "open" /\ conn'[c] # "open" =>
              /\ spc # "errClose"
              /\ events # <<>> /\ Event.fd # Listener /\ Event.conn = c
              /\ HasNews(c)]_vars

-----------------------------------------------------------------------------
(* Liveness, under FairSpec.                                               *)

Over == ~Running

\* A client stays in the accept queue for ever only if from some time on every
\* descriptor is taken: by clients that send nothing, which the loop never
\* hangs up on.
QueuedIsAccepted ==
    \A c \in Conns :
        <>[](conn[c] = "queued" /\ ~Over) => <>[](FreeFds = {})

\* After the signal the loop ends, busy or idle, at the latest with the time
\* limit of epoll_wait.
SignalEndsLoop == m_die ~> Over

-----------------------------------------------------------------------------
(* Refinement.                                                             *)

Service == INSTANCE HttpService WITH up <- Running

\* Per client the server does what the service may do and nothing else: it
\* takes up and answers a client at most once, with what had arrived when it
\* was heard, and hangs up only on one it has something from (server.c:103-205).
ImplementsServiceSteps == Service!Spec

\* Per client the server is the service, fairness included: descriptors,
\* batches and the order of the ready list favour nobody for ever.
ImplementsService == Service!FairSpec
=============================================================================
