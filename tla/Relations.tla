------------------------------- MODULE Relations -------------------------------
(***************************************************************************)
(* The tables under server/srcs/db/tables that tie rows to users and to    *)
(* each other: tags and user_tags, pictures, visits, likes, messages and   *)
(* notifications.  No table has a foreign key, so an id in a column or in  *)
(* a caller's hands may outlive the row it was read from, and the one      *)
(* constraint that is not part of a table, on likes, is added by each      *)
(* start of the process, which may end at any moment.                      *)
(*                                                                         *)
(* Users are a fixed set of ids: that none is handed out twice is checked  *)
(* in Tables.  Texts (paths, contents, types) and times are left out but   *)
(* for the names of tags.  What db_gen.c makes of a call is module DbGen;  *)
(* a statement that the connection loses does what a refused one does.     *)
(***************************************************************************)
EXTENDS Integers, Functions

CONSTANTS
    Users,     \* ids of users
    TagNames,
    NULL,
    MaxSerial  \* bound on the ids handed out, in all tables together

ASSUME SerialAssumption == MaxSerial \in Nat

Tables == {"tags", "pictures", "visits", "likes", "messages", "notifications"}

VARIABLES
    rows,         \* rows of Tables, each with the number of its birth
    user_tags,    \* rows of user_tags, each with the birth of its tag
    serial,       \* ids the sequence of each table has handed out
    likes_table,  \* the table likes is there
    likes_unique, \* likes_unique_liker_liked is there
    process,      \* "down", "created" or "running"
    lost,         \* history: an ALTER was lost, and the process went on
    held          \* a row the caller has read, or NULL

store == <<rows, user_tags, serial>>
vars == <<store, likes_table, likes_unique, process, lost, held>>

Init ==
    /\ rows = {}
    /\ user_tags = {}
    /\ serial = [t \in Tables |-> 0]
    /\ likes_table = FALSE
    /\ likes_unique = FALSE
    /\ process = "down"
    /\ lost = FALSE
    /\ held = NULL

-----------------------------------------------------------------------------
(* Postgres.                                                               *)

SameColumns(r1, r2) == r1.table = r2.table /\ r1.cols = r2.cols

\* tags.name is unique, and so is a pair of likes once the constraint is there.
Admissible(table) ==
    \A r1, r2 \in table :
        r1 # r2 /\ SameColumns(r1, r2) =>
            r1.table # "tags" /\ (likes_unique => r1.table # "likes")

\* mutant: the smallest id that no row has
IdNotInUse(t) ==
    CHOOSE id \in 1..MaxSerial :
        /\ \A row \in rows : row.table = t => row.id # id
        /\ \A n \in 1..(id - 1) : \E row \in rows : row.table = t /\ row.id = n

\* id is NULL in every INSERT: it comes from the table's sequence.
InsertedId(t) == serial[t] + 1

\* An id is used up also by an INSERT that is refused.
db_gen_insert(t, cols) ==
    /\ process = "running"
    /\ SumFunction(serial) < MaxSerial
    /\ serial' = [serial EXCEPT ![t] = @ + 1]
    /\ LET row == [table |-> t, id |-> InsertedId(t), born |-> serial[t] + 1, cols |-> cols]
       IN  rows' = IF Admissible(rows \cup {row}) THEN rows \cup {row} ELSE rows
    /\ UNCHANGED <<user_tags, likes_table, likes_unique, process, lost, held>>

Named(t, id) == {row \in rows : row.table = t /\ row.id = id}

\* The columns after SET: those that it does not name are kept.
Updated(cols, old) ==
    [name \in DOMAIN old |-> IF name \in DOMAIN cols THEN cols[name] ELSE old[name]]

\* cols are the columns whose arguments are not NULL.  No row is no error.
db_gen_update_by_pk(t, id, cols) ==
    /\ process = "running"
    /\ LET table == (rows \ Named(t, id))
                    \cup {[row EXCEPT !.cols = Updated(cols, @)] : row \in Named(t, id)}
       IN  rows' = IF Admissible(table) THEN table ELSE rows
    /\ UNCHANGED <<user_tags, serial, likes_table, likes_unique, process, lost, held>>

db_gen_delete_by_pk(t, id) ==
    /\ process = "running"
    /\ Named(t, id) # {}
    /\ rows' = rows \ Named(t, id)
    /\ UNCHANGED <<user_tags, serial, likes_table, likes_unique, process, lost, held>>

\* One of the selects of a table: all of them end with rows in the caller's
\* hands, of which it goes on with one.
Select(t) ==
    /\ process = "running"
    /\ \E row \in rows : row.table = t /\ held' = row
    /\ UNCHANGED <<store, likes_table, likes_unique, process, lost>>

Holds(t) == held # NULL /\ held.table = t

\* The array a select made, with all that was copied into it.
free_array ==
    /\ held # NULL
    /\ held' = NULL
    /\ UNCHANGED <<store, likes_table, likes_unique, process, lost>>

-----------------------------------------------------------------------------
(* Tags.                                                                   *)

db_ttag_insert_tag(name) == db_gen_insert("tags", [name |-> name])

\* By name or by id, or out of all of them.
db_ttag_select_tag == Select("tags")

db_ttag_update_tag(id, new_name) ==
    db_gen_update_by_pk("tags", id, [name |-> new_name])

\* The rows of user_tags stay.
db_ttag_delete_tag_from_pk(id) == db_gen_delete_by_pk("tags", id)

\* The pair is the key.  Nothing looks whether the tag is still there.
db_ttag_insert_user_tag(user_id) ==
    /\ process = "running"
    /\ Holds("tags")
    /\ user_tags' =
          IF \E row \in user_tags : row.user_id = user_id /\ row.tag_id = held.id
          THEN user_tags
          ELSE user_tags \cup {[user_id |-> user_id, tag_id |-> held.id, born |-> held.born]}
    /\ UNCHANGED <<rows, serial, likes_table, likes_unique, process, lost, held>>

\* The id of a tag, which may be deleted, and no name.
db_ttag_select_tags_for_user(user_id) ==
    /\ process = "running"
    /\ \E row \in user_tags :
          /\ row.user_id = user_id
          /\ held' = [table |-> "tags", id |-> row.tag_id, born |-> row.born,
                     cols |-> [name |-> NULL]]
    /\ UNCHANGED <<store, likes_table, likes_unique, process, lost>>

\* DELETE ... WHERE user_id = $1 AND tag_id = $2, not by way of db_gen.
db_ttag_delete_user_tag(user_id, tag_id) ==
    /\ process = "running"
    /\ user_tags' = {row \in user_tags : row.user_id # user_id \/ row.tag_id # tag_id}
    /\ user_tags' # user_tags
    /\ UNCHANGED <<rows, serial, likes_table, likes_unique, process, lost, held>>

-----------------------------------------------------------------------------
(* Pictures.                                                               *)

db_tpicture_insert_picture(user_id, is_profile) ==
    db_gen_insert("pictures", [user_id |-> user_id, is_profile |-> is_profile])

\* By user, id or path, or out of all of them.
db_tpicture_select == Select("pictures")

\* The caller may have changed the owner and the flag of what it holds; both are
\* written, and with them the path.
db_tpicture_update_picture(user_id, is_profile) ==
    /\ Holds("pictures")
    /\ db_gen_update_by_pk("pictures", held.id,
          [user_id |-> user_id, is_profile |-> is_profile])

db_tpicture_delete_picture_from_pk(id) == db_gen_delete_by_pk("pictures", id)

-----------------------------------------------------------------------------
(* Visits and likes.                                                       *)

\* Nothing keeps a user from visiting or liking itself.
db_tvisit_insert(viewer_id, viewed_id) ==
    db_gen_insert("visits", [from |-> viewer_id, to |-> viewed_id])

\* By viewer or viewed, or out of all of them.
db_tvisit_select == Select("visits")

db_tvisit_delete_by_pk(id) == db_gen_delete_by_pk("visits", id)

db_tlike_insert(liker_id, liked_id) ==
    db_gen_insert("likes", [from |-> liker_id, to |-> liked_id])

\* By liker or liked, or out of all of them.
db_tlike_select == Select("likes")

db_tlike_delete_by_pk(id) == db_gen_delete_by_pk("likes", id)

-----------------------------------------------------------------------------
(* Messages and notifications.                                             *)

db_tmessage_insert(sender_id, recipient_id, is_read) ==
    db_gen_insert("messages", [from |-> sender_id, to |-> recipient_id, is_read |-> is_read])

\* By sender or recipient, or out of all of them.
db_tmessage_select == Select("messages")

db_tmessage_update_read_status(id, is_read) ==
    db_gen_update_by_pk("messages", id, [is_read |-> is_read])

db_tmessage_delete_by_pk(id) == db_gen_delete_by_pk("messages", id)

\* related_id is the id of what the caller holds, whose table goes with the
\* type, or 0.  is_read is its default.
db_tnotification_insert(user_id) ==
    \E related \in {[table |-> "none", id |-> 0, born |-> 0]} \cup
          (IF held = NULL THEN {}
           ELSE {[table |-> held.table, id |-> held.id, born |-> held.born]}) :
       db_gen_insert("notifications",
          [user_id |-> user_id, related |-> related, is_read |-> FALSE])

\* By user, or out of all of them.
db_tnotification_select == Select("notifications")

db_tnotification_update_read_status(id, is_read) ==
    db_gen_update_by_pk("notifications", id, [is_read |-> is_read])

db_tnotification_delete_by_pk(id) == db_gen_delete_by_pk("notifications", id)

-----------------------------------------------------------------------------
(* The process.                                                            *)

\* mutant: a start that finds the table does not go on to the constraint
InitOnce ==
    /\ process = "down"
    /\ process' = IF likes_table THEN "running" ELSE "created"
    /\ likes_table' = TRUE
    /\ UNCHANGED <<store, likes_unique, lost, held>>

\* The start comes to likes: CREATE TABLE IF NOT EXISTS.
db_tlike_init ==
    /\ process = "down"
    /\ process' = "created"
    /\ likes_table' = TRUE
    /\ UNCHANGED <<store, likes_unique, lost, held>>

\* ALTER TABLE is tried at every start.  It is refused if the constraint is
\* there, or if the rows break it already; an error is ignored, and that of a
\* lost statement as well.
db_tlike_init_alter ==
    /\ process = "created"
    /\ process' = "running"
    /\ \/ /\ likes_unique' = (likes_unique \/
                 \A r1, r2 \in rows :
                     r1 # r2 /\ r1.table = "likes" => ~SameColumns(r1, r2))
          /\ UNCHANGED lost
       \/ lost' = TRUE /\ UNCHANGED likes_unique
    /\ UNCHANGED <<store, likes_table, held>>

\* The process ends, in its start or later, and with it what it holds.
Ends ==
    /\ process # "down"
    /\ process' = "down"
    /\ held' = NULL
    /\ UNCHANGED <<store, likes_table, likes_unique, lost>>

-----------------------------------------------------------------------------

Next ==
    \/ db_tlike_init
    \/ db_tlike_init_alter
    \/ Ends
    \/ \E name \in TagNames : db_ttag_insert_tag(name)
    \/ \E id \in 1..MaxSerial, name \in TagNames : db_ttag_update_tag(id, name)
    \/ \E user_id \in Users :
          \/ db_ttag_insert_user_tag(user_id)
          \/ db_ttag_select_tags_for_user(user_id)
    \/ \E user_id \in Users, tag_id \in 1..MaxSerial : db_ttag_delete_user_tag(user_id, tag_id)
    \/ \E user_id \in Users, flag \in BOOLEAN :
          \/ db_tpicture_insert_picture(user_id, flag)
          \/ db_tpicture_update_picture(user_id, flag)
    \/ \E from, to \in Users :
          \/ db_tvisit_insert(from, to)
          \/ db_tlike_insert(from, to)
          \/ \E flag \in BOOLEAN : db_tmessage_insert(from, to, flag)
    \/ \E user_id \in Users : db_tnotification_insert(user_id)
    \/ \E id \in 1..MaxSerial, flag \in BOOLEAN :
          \/ db_tmessage_update_read_status(id, flag)
          \/ db_tnotification_update_read_status(id, flag)
    \/ db_ttag_select_tag
    \/ db_tpicture_select
    \/ db_tvisit_select
    \/ db_tlike_select
    \/ db_tmessage_select
    \/ db_tnotification_select
    \/ free_array
    \/ \E id \in 1..MaxSerial :
          \/ db_ttag_delete_tag_from_pk(id)
          \/ db_tpicture_delete_picture_from_pk(id)
          \/ db_tvisit_delete_by_pk(id)
          \/ db_tlike_delete_by_pk(id)
          \/ db_tmessage_delete_by_pk(id)
          \/ db_tnotification_delete_by_pk(id)

Spec == Init /\ [][Next]_vars

-----------------------------------------------------------------------------

\* Nobody likes the same user twice, however often the process was started,
\* and stopped between the two statements that make the table and its
\* constraint.  Only a start that lost its ALTER and served nevertheless can
\* have let a pair in twice; no later start can then add the constraint
\* (db_table_like.c:34-49).
LikedOnce ==
    ~lost => \A r1, r2 \in rows :
        r1 # r2 /\ r1.table = "likes" => ~SameColumns(r1, r2)

\* What names a row by its id: a tag of a user, what a notification is about,
\* and what a caller holds.
References ==
    {[table |-> "tags", id |-> row.tag_id, born |-> row.born] : row \in user_tags}
    \cup {row.cols.related : row \in {r \in rows : r.table = "notifications"}}
    \cup (IF held = NULL THEN {}
          ELSE {[table |-> held.table, id |-> held.id, born |-> held.born]})

\* An id that outlives its row names nothing: deleting leaves the tags of
\* users, the notifications and the callers that name the row, and none of them
\* ever comes to speak of a row made later, which a stale picture would be
\* written over and a notification would be shown for (db_table_pic.c:190,
\* db_table_tag.c:159, db_table_notification.c:58).
IdsOutliveNothing ==
    \A ref \in References : \A row \in Named(ref.table, ref.id) : row.born = ref.born
=============================================================================
