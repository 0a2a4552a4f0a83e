-------------------------------- MODULE MCDbGen --------------------------------
(***************************************************************************)
(* Instances of DbGen for TLC: a column list of each kind the program's    *)
(* tables have (users, sessions, user_tags), and one whose key comes last. *)
(***************************************************************************)
EXTENDS DbGen

Column(primary, unique, notNull, default) ==
    [is_primary |-> primary, is_unique |-> unique, not_null |-> notNull,
     default_val |-> default]

\* id, a unique name, and a nullable column with a default.
LikeUsers == <<Column(TRUE, FALSE, TRUE, SERIAL), Column(FALSE, TRUE, TRUE, NULL),
               Column(FALSE, FALSE, FALSE, "default")>>

\* A key the caller gives.
LikeSessions == <<Column(TRUE, FALSE, TRUE, NULL), Column(FALSE, FALSE, TRUE, NULL)>>

LikeUserTags == <<Column(TRUE, FALSE, TRUE, NULL), Column(TRUE, FALSE, TRUE, NULL)>>

KeyLast == <<Column(FALSE, FALSE, FALSE, NULL), Column(FALSE, FALSE, TRUE, NULL),
             Column(TRUE, FALSE, TRUE, NULL)>>

MCSchemas == {LikeUsers, LikeSessions, LikeUserTags, KeyLast}

MCSerials == <<"1", "2", "3">>
=============================================================================
