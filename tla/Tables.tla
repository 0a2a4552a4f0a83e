--------------------------------- MODULE Tables ---------------------------------
(***************************************************************************)
(* The row operations of server/srcs/db/tables/db_table_user.c and         *)
(* db_table_session.c over two tables of Postgres, one statement at a time: *)
(* the program has one connection and one thread that uses it.  The caller *)
(* holds the user_ts that selects gave it, several at a time, and a        *)
(* session_t, for as long as it likes, while the rows they were read from  *)
(* are written, deleted and made anew.                                     *)
(*                                                                         *)
(* What db_gen.c makes of a call is module DbGen: a column whose argument  *)
(* is NULL is left out, so that INSERT stores its default and UPDATE leaves *)
(* it as it is.  Of the columns of users there is one of each kind: the    *)
(* key, a unique one, a nullable text and a nullable TIMESTAMP; csrf_token  *)
(* of a session goes the way of its user_id.  Times are hours.             *)
(* A statement that the connection loses does what a refused one does and   *)
(* has no step of its own.                                                 *)
(***************************************************************************)
EXTENDS Integers, Sequences, FiniteSets

CONSTANTS
    Names,       \* usernames
    Texts,       \* what a bio may be, not empty
    SessionIds,
    NULL,
    Times,       \* when a new session may expire, as a time_t
    Zone,        \* hours that the clock on the wall is ahead
    Summer,      \* when it is one hour more
    Int32,       \* numbers of 32 bits run from -Int32 to Int32 - 1
    MaxSerial,   \* bound on the ids that are handed out
    MaxHeld,     \* bound on the user_ts held at a time
    MaxMade      \* bound on the sessions that are made

ASSUME TextsAssumption == NULL # "" /\ {NULL, ""} \cap (Names \cup Texts) = {}
ASSUME TimesAssumption == Times \subseteq Int /\ Zone \in Int /\ Int32 \in Nat \ {0}
ASSUME BoundsAssumption == {MaxSerial, MaxHeld, MaxMade} \subseteq Nat

VARIABLES
    users,     \* rows of users, each with the birth number of its user
    sessions,  \* rows of sessions, each with the number of the session and the
               \* number of the one that its user_id was inserted with
    serial,    \* ids the sequence of users.id has handed out
    births,    \* history: users made so far
    made,      \* history: for each session made so far, whom for
    held,      \* the user_ts the caller holds, each with the row it was read from
    session    \* the session_t the caller holds, or NULL

vars == <<users, sessions, serial, births, made, held, session>>

Timestamp == "2025-01-01 00:00:00"

Init ==
    /\ users = {}
    /\ sessions = {}
    /\ serial = 0
    /\ births = 0
    /\ made = <<>>
    /\ held = {}
    /\ session = NULL

-----------------------------------------------------------------------------
(* Postgres.                                                               *)

\* users.id is a key and users.username is unique.
Unique(table) ==
    \A r1, r2 \in table :
        r1 # r2 => r1.id # r2.id /\ r1.username # r2.username

\* An empty string is no TIMESTAMP.
Stored(row) == row.last_online \in {NULL, Timestamp}

-----------------------------------------------------------------------------
(* Users.                                                                  *)

IdOfStruct(id) == id    \* mutant: u->id is passed instead of NULL

\* The argument for the id is NULL: it comes from the sequence.
InsertedId(id) == serial + 1

\* db_tuser_insert_user answers SUCCESS also when the database refuses.
db_tuser_insert_user(id, username, bio, last_online) ==
    /\ serial < MaxSerial
    /\ serial' = serial + 1
    /\ LET row == [id |-> InsertedId(id), username |-> username, bio |-> bio,
                   last_online |-> last_online, born |-> births + 1]
       IN  IF Unique(users \cup {row}) /\ Stored(row)
           THEN users' = users \cup {row} /\ births' = births + 1
           ELSE UNCHANGED <<users, births>>
    /\ UNCHANGED <<sessions, made, held, session>>

\* PQgetvalue returns the empty string for NULL.
PQgetvalue(value) == IF value = NULL THEN "" ELSE value

Struct(row) ==
    [id |-> row.id, username |-> row.username, bio |-> PQgetvalue(row.bio),
     last_online |-> PQgetvalue(row.last_online), dangling |-> FALSE, read |-> row]

\* The result of db_select_user_by_username is cleared before the return: the
\* strings of the user point to memory that is free, and only the numbers can
\* be relied on.
DanglingStruct(row) ==
    [Struct(row) EXCEPT !.username = NULL, !.bio = NULL, !.last_online = NULL,
                        !.dangling = TRUE]

Hold(u) == Cardinality(held) < MaxHeld /\ held' = held \cup {u}

\* The caller takes one user of the array; the result stays for its strings.
db_tuser_select_all_users ==
    /\ \E row \in users : Hold(Struct(row))
    /\ UNCHANGED <<users, sessions, serial, births, made, session>>

\* With no such user the caller's pointer is left alone.
db_select_user_by_username(username) ==
    /\ IF \E row \in users : row.username = username
       THEN \E row \in users : row.username = username /\ Hold(DanglingStruct(row))
       ELSE UNCHANGED held
    /\ UNCHANGED <<users, sessions, serial, births, made, session>>

db_tuser_free_array(u) ==
    /\ held' = held \ {u}
    /\ UNCHANGED <<users, sessions, serial, births, made, session>>

\* The caller changes a user it holds.
Edit(u) ==
    /\ ~u.dangling
    /\ \E new \in {[u EXCEPT !.username = name] : name \in Names}
                  \cup {[u EXCEPT !.bio = bio] : bio \in Texts \cup {NULL}}
                  \cup {[u EXCEPT !.last_online = Timestamp]} :
          held' = (held \ {u}) \cup {new}
    /\ UNCHANGED <<users, sessions, serial, births, made, session>>

Chosen(value, old) == IF value = NULL THEN old ELSE value

\* mutant: the argument of a column goes to the one after it.
UpdatedShifted(row, username, bio, last_online) ==
    [row EXCEPT !.bio = Chosen(username, row.bio)]

\* The row after the UPDATE with these strings.
Updated(row, username, bio, last_online) ==
    [row EXCEPT !.username = Chosen(username, row.username),
                !.bio = Chosen(bio, row.bio),
                !.last_online = Chosen(last_online, row.last_online)]

HitByName(u, row) == row.username = u.username    \* mutant: WHERE username

\* The row of the UPDATE's WHERE clause.
Hit(u, row) == row.id = u.id

UpdateUsers(u, username, bio, last_online) ==
    LET changed == {row \in users : Hit(u, row)}
        table == (users \ changed)
                 \cup {Updated(row, username, bio, last_online) : row \in changed}
    IN  IF Unique(table) /\ \A row \in table : Stored(row)
        THEN users' = table ELSE UNCHANGED users

\* Every column is written as the caller holds it.  With strings that dangle,
\* whatever is in that memory is written.
db_tuser_update_user(u) ==
    /\ IF u.dangling
       THEN \E username \in Names, bio \in Texts \cup {""},
               last_online \in {"", Timestamp} :
                  UpdateUsers(u, username, bio, last_online)
       ELSE UpdateUsers(u, u.username, u.bio, u.last_online)
    /\ UNCHANGED <<sessions, serial, births, made, held, session>>

\* The id is looked up by name and the row deleted by id.  The user's sessions
\* stay.
db_tuser_delete_user_from_pk(name) ==
    /\ LET ids == {row.id : row \in {r \in users : r.username = name}}
       IN  users' = {row \in users : row.id \notin ids}
    /\ UNCHANGED <<sessions, serial, births, made, held, session>>

-----------------------------------------------------------------------------
(* Sessions.                                                               *)

Gmtime(time) == time    \* mutant: gmtime for localtime

\* The clock on the wall, which is what the table stores.
Localtime(time) == time + Zone + (IF time \in Summer THEN 1 ELSE 0)

\* A time_t cut to an int of 32 bits.
Cut(time) == ((time + Int32) % (2 * Int32)) - Int32

\* tm_isdst is whatever it was: mktime takes the clock for winter time or for
\* summer time, whichever the season.
db_gen_parse_timestamp(clock) == {Cut(clock - Zone), Cut(clock - Zone - 1)}

\* For a user the caller holds, be it deleted meanwhile.
db_tsession_insert(session_id, u, expires_at) ==
    /\ Len(made) < MaxMade
    /\ IF \A row \in sessions : row.session_id # session_id
       THEN /\ made' = Append(made, [id |-> u.id, born |-> u.read.born])
            /\ sessions' = sessions \cup
                  {[session_id |-> session_id, user_id |-> u.id,
                    expires_at |-> Localtime(expires_at),
                    number |-> Len(made'), origin |-> Len(made')]}
       ELSE UNCHANGED <<sessions, made>>
    /\ UNCHANGED <<users, serial, births, held, session>>

\* What a session_t may be made of a row.
make_session_from_row(row) ==
    {[session_id |-> row.session_id, user_id |-> row.user_id, origin |-> row.origin,
      expires_at |-> time, read_from |-> row.expires_at, edited |-> FALSE] :
        time \in db_gen_parse_timestamp(row.expires_at)}

\* The caller takes one session of an array.
db_tsession_select_all ==
    /\ \E row \in sessions : session' \in make_session_from_row(row)
    /\ UNCHANGED <<users, sessions, serial, births, made, held>>

db_tsession_select_for_user(user_id) ==
    /\ \E row \in sessions :
          row.user_id = user_id /\ session' \in make_session_from_row(row)
    /\ UNCHANGED <<users, sessions, serial, births, made, held>>

db_tsession_select_by_id(session_id) ==
    /\ IF \E row \in sessions : row.session_id = session_id
       THEN \E row \in sessions :
               row.session_id = session_id /\ session' \in make_session_from_row(row)
       ELSE session' = NULL
    /\ UNCHANGED <<users, sessions, serial, births, made, held>>

db_tsession_free_array ==
    /\ session # NULL
    /\ session' = NULL
    /\ UNCHANGED <<users, sessions, serial, births, made, held>>

\* The caller moves the expiry.
Prolong ==
    /\ session # NULL
    /\ \E time \in Times : session' = [session EXCEPT !.expires_at = time, !.edited = TRUE]
    /\ UNCHANGED <<users, sessions, serial, births, made, held>>

\* user_id, csrf_token and expires_at are written as the caller holds them.
db_tsession_update ==
    /\ session # NULL
    /\ sessions' =
          {IF row.session_id = session.session_id
           THEN [row EXCEPT !.user_id = session.user_id, !.origin = session.origin,
                            !.expires_at = Localtime(session.expires_at)]
           ELSE row : row \in sessions}
    /\ UNCHANGED <<users, serial, births, made, held, session>>

db_tsession_delete_by_id(session_id) ==
    /\ sessions' = {row \in sessions : row.session_id # session_id}
    /\ UNCHANGED <<users, serial, births, made, held, session>>

-----------------------------------------------------------------------------

Next ==
    \/ \E id \in 1..MaxSerial, username \in Names, bio \in Texts \cup {NULL},
          last_online \in {NULL, Timestamp} :
             db_tuser_insert_user(id, username, bio, last_online)
    \/ db_tuser_select_all_users
    \/ \E name \in Names : db_select_user_by_username(name)
    \/ \E u \in held :
          \/ db_tuser_free_array(u)
          \/ Edit(u)
          \/ db_tuser_update_user(u)
    \/ \E name \in Names : db_tuser_delete_user_from_pk(name)
    \/ \E session_id \in SessionIds :
          \/ \E u \in held, expires_at \in Times :
                db_tsession_insert(session_id, u, expires_at)
          \/ db_tsession_select_by_id(session_id)
          \/ db_tsession_delete_by_id(session_id)
    \/ \E user_id \in 1..MaxSerial : db_tsession_select_for_user(user_id)
    \/ db_tsession_select_all
    \/ db_tsession_free_array
    \/ Prolong
    \/ db_tsession_update

Spec == Init /\ [][Next]_vars

-----------------------------------------------------------------------------

\* No foreign key ties a session to its user, and none is deleted with it.
\* Still a session never comes to belong to a user made later: whoever has its
\* user_id is the user it was made for, unless a copy of an earlier session of
\* the same name was written over it (db_table_user.c:61,195, db_table_session.c:57,156).
NeverAnothersSession ==
    \A s \in sessions, row \in users :
        s.origin = s.number /\ row.id = s.user_id => row.born = made[s.number].born

\* The header's words of db_tsession_update (db_table_session.h:65): it changes
\* the expiration and the token, and so leaves the session its user.
UpdateKeepsTheUser ==
    [][db_tsession_update =>
        \A s1 \in sessions, s2 \in sessions' :
            s1.session_id = s2.session_id => s1.user_id = s2.user_id]_vars

\* An UPDATE changes the user it was read from, or nobody: neither a user that
\* took the same name after a deletion nor anyone else (db_table_user.c:223,230).
UpdateHitsItsUser ==
    [][\A u \in held :
        db_tuser_update_user(u) => \A row \in users \ users' : row.born = u.read.born]_vars

AsRead(u) ==
    /\ ~u.dangling
    /\ u.username = u.read.username
    /\ u.bio = PQgetvalue(u.read.bio)
    /\ u.last_online = PQgetvalue(u.read.last_online)

\* A user that is written back as it was read makes the row what was read, but
\* for this: a NULL comes back as the empty string, and if it was that of a
\* TIMESTAMP the whole UPDATE is refused.  So it loses only a NULL if nobody
\* has written the row since, and undoes what somebody has
\* (db_table_user.c:117-130,229-247).
WriteBackIsWhatWasRead ==
    [][\A u \in held : db_tuser_update_user(u) /\ AsRead(u) =>
        /\ users' \subseteq users \cup {[u.read EXCEPT !.bio = PQgetvalue(u.read.bio)]}
        /\ u.read.last_online = NULL => users' = users]_vars

\* mktime with a tm_isdst that was never set takes an expiry for an hour
\* early or late, by the season, and each time that a session is read and
\* written back moves its expiry by that hour.  By more it never moves, as
\* long as it fits the int it is returned in (db_gen.c:127,138,
\* db_table_session.c:31,153).
ExpiryMovesAtMostAnHour ==
    [][db_tsession_update /\ ~session.edited
          /\ session.read_from - Zone \in (1 - Int32)..(Int32 - 1) =>
        \A row \in sessions' \ sessions :
            row.expires_at \in (session.read_from - 1)..(session.read_from + 1)]_vars
=============================================================================
