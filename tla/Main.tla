---------------------------------- MODULE Main ----------------------------------
(***************************************************************************)
(* The life of the process, main of server/srcs/main.c: it reads the       *)
(* configuration, starts the logger, opens the server, connects to the     *)
(* database and creates the tables, serves until a signal, and ends.  It   *)
(* may be started again over the database and the port that an earlier     *)
(* process left behind.  The logger is its abstract specification          *)
(* LogChannel; the event loop is one state, "main_loop".                   *)
(*                                                                         *)
(* A step is what main does between two calls that can fail or that log.   *)
(* The configured LOG_LEVEL lets every line through.                       *)
(***************************************************************************)
EXTENDS Naturals, Sequences

CONSTANTS
    Capacity,   \* unwritten lines the logger always has room for
    MaxStarts   \* bound on the processes started one after the other

ASSUME BoundsAssumption == {Capacity, MaxStarts} \subseteq Nat

VARIABLES
    pc,          \* where main is; "returned" and "killed" without a process
    ret,         \* what main returned
    config,      \* m_config_content: "null", "set" or "freed"
    m_sock_server,  \* not -1
    m_epoll_fd,     \* not -1
    fds,         \* open: "socket", "epoll", "postgres", and "client" for any
    handlers,    \* signals whose disposition main has changed
    m_die,
    statement,   \* the statement of m_init_dbs whose turn it is
    schema,      \* what exists in the database
    port_in_use, \* connections of an earlier process linger on the port
    failed,      \* history: some call outside the program failed
    logged,      \* history: lines given to log_msg while the log was open
    phase, pending, written, refused,    \* the logger
    starts       \* processes started so far

\* What main and the server log in a start and in an end.
Lines == {"no socket", "initialized", "loop error", "socket closed",
          "epoll closed", "exiting"}

Logger == INSTANCE LogChannel

chan == <<phase, pending, written, refused>>
server == <<m_sock_server, m_epoll_fd, fds>>
database == <<statement, schema>>
process == <<config, handlers, m_die>>
vars == <<pc, ret, process, server, database, port_in_use, failed, logged,
          chan, starts>>

TableOnce(name) == [makes |-> name, if_not_exists |-> FALSE]    \* mutant: CREATE TABLE alone

\* CREATE TABLE IF NOT EXISTS.
Table(name) == [makes |-> name, if_not_exists |-> TRUE]

\* The block that adds the constraint of likes.  It forgives duplicate_object,
\* and Postgres calls a UNIQUE constraint that is there duplicate_table: its
\* index is a relation.
Constraint == [makes |-> "likes_unique_liker_liked", if_not_exists |-> FALSE]

\* The statements of m_init_dbs, in this order.
Statements ==
    <<Table("users"), Table("tags"), Table("user_tags"), Table("pictures"),
      Table("visits"), Table("likes"), Constraint, Table("messages"),
      Table("notifications"), Table("sessions")>>

Alive == pc \notin {"returned", "killed"}

Init ==
    /\ pc = "returned"
    /\ ret = "none"
    /\ config = "null"
    /\ m_sock_server = FALSE
    /\ m_epoll_fd = FALSE
    /\ fds = {}
    /\ handlers = {}
    /\ m_die = FALSE
    /\ statement = 1
    /\ schema = {}
    /\ port_in_use = FALSE
    /\ failed = FALSE
    /\ logged = <<>>
    /\ Logger!Init
    /\ starts = 0

-----------------------------------------------------------------------------

\* log_msg with the log open or not.
log_msg(text) ==
    IF phase = "open"
    THEN /\ Logger!Accept(text) \/ Logger!Refuse(text)
         /\ logged' = Append(logged, text)
    ELSE UNCHANGED <<chan, logged>>

\* The worker thread writes the next line.
log_worker_thread ==
    /\ Alive
    /\ Logger!Deliver
    /\ UNCHANGED <<pc, ret, process, server, database, port_in_use, failed,
                   logged, starts>>

\* A new process: only the database and the port remember the last one.
Start ==
    /\ ~Alive
    /\ starts < MaxStarts
    /\ starts' = starts + 1
    /\ pc' = "parse_config"
    /\ ret' = "none"
    /\ config' = "null"
    /\ m_sock_server' = FALSE
    /\ m_epoll_fd' = FALSE
    /\ fds' = {}
    /\ handlers' = {}
    /\ m_die' = FALSE
    /\ statement' = 1
    /\ failed' = FALSE
    /\ logged' = <<>>
    /\ phase' = "new"
    /\ pending' = <<>>
    /\ written' = <<>>
    /\ refused' = <<>>
    /\ port_in_use' \in {FALSE, port_in_use}
    /\ UNCHANGED schema

\* mutant: a failed parse_config leaves no configuration
ParsedOnlyIf(found) == IF found THEN "set" ELSE "null"

\* The defaults are set before the file is opened.
Parsed(found) == "set"

parse_config ==
    /\ pc = "parse_config"
    /\ \E found \in BOOLEAN :
          /\ config' = Parsed(found)
          /\ pc' = IF found THEN "log_init" ELSE "error"
          /\ failed' = ~found
    /\ UNCHANGED <<ret, handlers, m_die, server, database, port_in_use,
                   logged, chan, starts>>

\* A log file that cannot be opened is no error to main.
log_init ==
    /\ pc = "log_init"
    /\ \/ Logger!Open /\ UNCHANGED failed
       \/ failed' = TRUE /\ UNCHANGED chan
    /\ pc' = "init_plain_socket"
    /\ UNCHANGED <<ret, process, server, database, port_in_use, logged, starts>>

\* bind, for a listener with these options.
Binds(options) == port_in_use => "SO_REUSEADDR" \in options

\* init_plain_socket and what server_init says of its failure.  Nobody looks at
\* the result of setsockopt.
init_plain_socket ==
    /\ pc = "init_plain_socket"
    /\ \E options \in SUBSET {"SO_REUSEADDR"}, fault \in BOOLEAN :
          /\ failed' = (failed \/ fault \/ options # {"SO_REUSEADDR"})
          /\ IF Binds(options) /\ ~fault
             THEN /\ m_sock_server' = TRUE
                  /\ fds' = fds \cup {"socket"}
                  /\ pc' = "server_init"
                  /\ UNCHANGED <<logged, chan>>
             ELSE /\ log_msg("no socket")
                  /\ pc' = "error"
                  /\ UNCHANGED <<m_sock_server, fds>>
    /\ UNCHANGED <<ret, process, m_epoll_fd, database, port_in_use, starts>>

\* epoll_create1 and epoll_ctl, either of which may fail.
server_init ==
    /\ pc = "server_init"
    /\ \/ /\ m_epoll_fd' = TRUE
          /\ fds' = fds \cup {"epoll"}
          /\ log_msg("initialized")
          /\ pc' = "db_init"
          /\ UNCHANGED failed
       \/ /\ failed' = TRUE
          /\ m_epoll_fd' \in BOOLEAN
          /\ fds' = IF m_epoll_fd' THEN fds \cup {"epoll"} ELSE fds
          /\ pc' = "error"
          /\ UNCHANGED <<logged, chan>>
    /\ UNCHANGED <<ret, process, m_sock_server, database, port_in_use, starts>>

\* A connection that is refused is finished at once; one that is made stays.
db_init ==
    /\ pc = "db_init"
    /\ \/ /\ pc' = "m_init_dbs"
          /\ fds' = fds \cup {"postgres"}
          /\ UNCHANGED failed
       \/ /\ pc' = "error"
          /\ failed' = TRUE
          /\ UNCHANGED fds
    /\ UNCHANGED <<ret, process, m_sock_server, m_epoll_fd, database, port_in_use,
                   logged, chan, starts>>

Stmt == Statements[statement]

\* How Postgres takes a statement: not over what is there, unless the statement
\* says so, and no constraint over rows that break it.
Works(broken) ==
    /\ Stmt.makes \in schema => Stmt.if_not_exists
    /\ Stmt = Constraint => ~broken

FailureForgiven == TRUE    \* mutant: the result of no statement is looked at

\* db_tlike_init does not look at the result of its second statement.
FailureIgnored == Stmt = Constraint

NextStatement ==
    /\ statement' = statement + 1
    /\ pc' = IF statement' > Len(Statements) THEN "parse_free_config" ELSE pc

\* One statement of the tables' init functions.  likes may hold rows that break
\* the constraint.  One that was carried out fails if its answer is lost.
m_init_dbs ==
    /\ pc = "m_init_dbs"
    /\ \E broken, fault \in BOOLEAN :
          /\ schema' \in {schema, schema \cup {Stmt.makes}}
          /\ IF Works(broken) THEN fault \/ Stmt.makes \in schema'
                              ELSE schema' = schema
          /\ IF FailureIgnored \/ (Works(broken) /\ ~fault)
             THEN NextStatement /\ UNCHANGED failed
             ELSE /\ pc' = "error"
                  /\ failed' = (failed \/ fault)
                  /\ UNCHANGED statement
    /\ UNCHANGED <<ret, process, server, port_in_use, logged, chan, starts>>

parse_free_config ==
    /\ pc = "parse_free_config"
    /\ config' = "freed"
    /\ pc' = "signal"
    /\ UNCHANGED <<ret, handlers, m_die, server, database, port_in_use, failed,
                   logged, chan, starts>>

\* signal, for SIGPIPE and then for SIGINT.  SIGTERM stays as it is.
signal ==
    /\ pc = "signal"
    /\ IF handlers = {}
       THEN handlers' = {"SIGPIPE"} /\ UNCHANGED pc
       ELSE handlers' = handlers \cup {"SIGINT"} /\ pc' = "main_loop"
    /\ UNCHANGED <<ret, config, m_die, server, database, port_in_use, failed,
                   logged, chan, starts>>

signal_handler ==
    /\ Alive
    /\ "SIGINT" \in handlers
    /\ m_die' = TRUE
    /\ UNCHANGED <<pc, ret, config, handlers, server, database, port_in_use,
                   failed, logged, chan, starts>>

StopNever == FALSE    \* mutant: the loop does not look at m_die

Stop == m_die

\* server_select: clients come and go.
server_select ==
    /\ pc = "main_loop"
    /\ ~Stop
    /\ fds' \in {fds \cup {"client"}, fds \ {"client"}}
    /\ UNCHANGED <<pc, ret, process, m_sock_server, m_epoll_fd, database,
                   port_in_use, failed, logged, chan, starts>>

\* main_loop ends for a signal.  Clients served meanwhile leave connections
\* behind that linger on the port.
main_loop_ends ==
    /\ pc = "main_loop"
    /\ Stop
    /\ port_in_use' \in {port_in_use, TRUE}
    /\ pc' = "cleanup"
    /\ UNCHANGED <<ret, process, server, database, failed, logged, chan, starts>>

\* main_loop ends because server_select failed, be it only that a signal, not
\* always SIGINT, interrupted epoll_wait; main does not look at its result.
main_loop_fails ==
    /\ pc = "main_loop"
    /\ port_in_use' \in {port_in_use, TRUE}
    /\ failed' = TRUE
    /\ log_msg("loop error")
    /\ pc' = "exit"
    /\ UNCHANGED <<ret, process, server, database, starts>>

-----------------------------------------------------------------------------
(* The ends.                                                               *)

\* main's label error.
error ==
    /\ pc = "error"
    /\ config' = "freed"
    /\ pc' = "cleanup"
    /\ ret' = "ERROR"
    /\ UNCHANGED <<handlers, m_die, server, database, port_in_use, failed,
                   logged, chan, starts>>

HasSocketAndEpoll == m_sock_server /\ m_epoll_fd    \* mutant: one test for both

HasSocket == m_sock_server

\* server_cleanup closes the listener, then the epoll instance, each if it is
\* there, and logs either.  No client and no connection to Postgres is closed.
server_cleanup_socket ==
    /\ pc = "cleanup"
    /\ pc' = "cleanup_epoll"
    /\ IF HasSocket
       THEN /\ fds' = fds \ {"socket"}
            /\ m_sock_server' = FALSE
            /\ log_msg("socket closed")
       ELSE UNCHANGED <<fds, m_sock_server, logged, chan>>
    /\ UNCHANGED <<ret, process, m_epoll_fd, database, port_in_use, failed,
                   starts>>

server_cleanup_epoll ==
    /\ pc = "cleanup_epoll"
    /\ pc' = IF ret = "ERROR" THEN "returned" ELSE "exit"
    /\ IF m_epoll_fd
       THEN /\ fds' = fds \ {"epoll"}
            /\ m_epoll_fd' = FALSE
            /\ log_msg("epoll closed")
       ELSE UNCHANGED <<fds, m_epoll_fd, logged, chan>>
    /\ UNCHANGED <<ret, process, m_sock_server, database, port_in_use, failed,
                   starts>>

exit ==
    /\ pc = "exit"
    /\ log_msg("exiting")
    /\ pc' = "log_close"
    /\ UNCHANGED <<ret, process, server, database, port_in_use, failed, starts>>

CloseUnwritten == phase' = "closed" /\ UNCHANGED <<pending, written, refused>>    \* mutant: without the join

CloseLogger == Logger!Close

\* log_close returns when the worker is through.  Without a worker to join
\* the call is undefined: it returns, or the process crashes.
log_close ==
    /\ pc = "log_close"
    /\ \/ /\ CloseLogger
          /\ ret' = "0"
          /\ pc' = "returned"
       \/ /\ phase = "new"
          /\ \/ pc' = "returned" /\ ret' = "0"
             \/ pc' = "killed" /\ UNCHANGED ret
          /\ UNCHANGED chan
    /\ UNCHANGED <<process, server, database, port_in_use, failed, logged,
                   starts>>

\* SIGINT before its handler is there, SIGTERM and SIGKILL at any time, a
\* crash in a request's callback.
Kill ==
    /\ Alive
    /\ pc' = "killed"
    /\ port_in_use' \in {port_in_use, port_in_use \/ pc = "main_loop"}
    /\ UNCHANGED <<ret, process, server, database, failed, logged, chan, starts>>

-----------------------------------------------------------------------------

\* No more processes are started; stuttering here is not a deadlock.
Ended == ~Alive /\ starts = MaxStarts /\ UNCHANGED vars

MainWorks ==
    \/ parse_config
    \/ log_init
    \/ init_plain_socket
    \/ server_init
    \/ db_init
    \/ m_init_dbs
    \/ parse_free_config
    \/ signal
    \/ error
    \/ server_cleanup_socket
    \/ server_cleanup_epoll
    \/ exit
    \/ log_close
    \/ main_loop_ends

Next ==
    \/ Start
    \/ MainWorks
    \/ server_select
    \/ main_loop_fails
    \/ log_worker_thread
    \/ signal_handler
    \/ Kill
    \/ Ended

Spec == Init /\ [][Next]_vars

\* main and the worker run.  That main_loop comes to see m_die is what
\* SignalEndsLoop of Server says.
Fairness ==
    /\ WF_vars(MainWorks)
    /\ WF_vars(log_worker_thread)

FairSpec == Spec /\ Fairness

-----------------------------------------------------------------------------
(* Properties.                                                             *)

Tables == {s.makes : s \in {Statements[k] : k \in DOMAIN Statements} \ {Constraint}}

\* Whatever fails on the way, the loop is entered only with the listener, epoll
\* and the database open, every table there, and both signals taken care of,
\* SIGPIPE before the first client: no failure of the start goes unnoticed but
\* the log's and the constraint's (main.c:79-105).
ServesOnlyWhenReady ==
    pc = "main_loop" =>
        /\ {"socket", "epoll", "postgres"} \subseteq fds
        /\ Tables \subseteq schema
        /\ handlers = {"SIGPIPE", "SIGINT"}

\* Every step that reads the configuration or frees it finds one, and only one
\* step frees it: parse_free_config does not look for a null pointer (config_file.c:79).
ConfigThereWhenUsed ==
    pc \in {"log_init", "init_plain_socket", "db_init", "parse_free_config", "error"} =>
        config = "set"

\* A start fails only if something outside fails in that very start.  What is
\* left behind does not stop it: half the tables or all, rows and a constraint
\* in the way of the constraint's statement, connections that linger on the
\* port (server.c:81, db_gen.c:32, db_table_like.c:41-48).
FaultlessStartServes == pc = "error" => failed

\* main returns with the listener and epoll closed, from whichever step it gave
\* up, and after a failed start with no client; a failed loop alone leaves them
\* to the system.  The clients of a loop that was stopped and the connection to
\* Postgres are never closed (main.c:40-50, 111-114, server.c:237-254).
ListenerClosedOnReturn ==
    pc = "returned" =>
        \/ fds \subseteq {"postgres"}
        \/ ret = "0" /\ (failed \/ fds \subseteq {"postgres", "client"})

Elements(s) == {s[i] : i \in DOMAIN s}

\* s is l, in its order, without the lines in dropped.
IsWithout(s, l, dropped) ==
    \E at \in [DOMAIN s -> DOMAIN l] :
        /\ \A i, j \in DOMAIN s : i < j => at[i] < at[j]
        /\ \A i \in DOMAIN s : s[i] = l[at[i]]
        /\ \A k \in DOMAIN l : l[k] \notin dropped <=> \E i \in DOMAIN s : at[i] = k

\* When main returns 0, each line it gave to an open log is in the file, in
\* its order, or was refused for a full ring.
CleanExitIsComplete ==
    pc = "returned" /\ ret = "0" =>
        pending = <<>> /\ IsWithout(written, logged, Elements(refused))

\* SIGINT, once main handles it, ends the process: the loop, the cleanup and
\* the join of the log worker all come to an end.
SignalEndsProcess == m_die ~> ~Alive
=============================================================================
