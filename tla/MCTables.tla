-------------------------------- MODULE MCTables --------------------------------
(***************************************************************************)
(* An instance of Tables for TLC.  Users of all kinds and two sessions at   *)
(* once would be too many states, and what a user is called or says has no  *)
(* part in what becomes of its sessions: they are made for plain users.    *)
(***************************************************************************)
EXTENDS Tables

Plain(u) == u.username # "bob" /\ u.bio # "text" /\ u.last_online # Timestamp

\* Bounds the states: once a session is made, nobody has the other name, the
\* text or a time of being online.
PlainWithSessions ==
    made # <<>> =>
        /\ \A row \in users : Plain(row)
        /\ \A u \in held : Plain(u) /\ Plain(u.read)
=============================================================================
