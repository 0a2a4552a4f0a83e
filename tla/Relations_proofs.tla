--------------------------- MODULE Relations_proofs ---------------------------
(***************************************************************************)
(* Proofs about Relations for every set of users and of names and any      *)
(* number of ids, starts and lost statements.  RInv is the inductive       *)
(* invariant: where an id comes from, and when likes has its constraint.   *)
(***************************************************************************)
EXTENDS Relations, TLAPS

-----------------------------------------------------------------------------
(* The inductive invariant.                                                *)

\* A row has its four parts, and what a notification is about is one of its columns.
Shaped(row) ==
    /\ row = [table |-> row.table, id |-> row.id, born |-> row.born, cols |-> row.cols]
    /\ row.table = "notifications" => "related" \in DOMAIN row.cols

\* Ids come from the sequence: whatever was born as the nth has the id n, and
\* so has whatever names it.
IdsInv ==
    /\ \A row \in rows : Shaped(row)
    /\ \A row \in rows : row.id = row.born
    /\ \A row \in user_tags : row.tag_id = row.born
    /\ \A row \in rows : row.table = "notifications" =>
          row.cols.related.id = row.cols.related.born
    /\ held # NULL => held.id = held.born

\* No two rows of likes have the same columns.
LikesDistinct(table) ==
    \A r1, r2 \in table : r1 # r2 /\ r1.table = "likes" => ~SameColumns(r1, r2)

\* The constraint holds where it is there, and where it is not nobody has
\* served without it but after a loss.
LikesInv ==
    /\ likes_unique => LikesDistinct(rows)
    /\ ~lost => LikesDistinct(rows)
    /\ process = "running" => likes_unique \/ lost

RInv == IdsInv /\ LikesInv

-----------------------------------------------------------------------------
(* The statements.                                                         *)

\* A table that has the constraint, or of which nothing is known.
LEMMA AdmissibleLikes ==
    ASSUME NEW table, Admissible(table), likes_unique
    PROVE  LikesDistinct(table)
BY DEF Admissible, LikesDistinct

\* A statement changes rows of a running process under the constraint, or
\* after a loss.
LEMMA LikesKept ==
    ASSUME LikesInv, UNCHANGED <<likes_unique, process, lost>>,
           \/ rows' \subseteq rows
           \/ (process = "running" /\ Admissible(rows'))
    PROVE  LikesInv'
<1>1. CASE rows' \subseteq rows
  BY <1>1 DEF LikesInv, LikesDistinct
<1>2. CASE process = "running" /\ Admissible(rows')
  <2>1. likes_unique => LikesDistinct(rows')
    BY <1>2, AdmissibleLikes
  <2>2. ~lost => likes_unique
    BY <1>2 DEF LikesInv
  <2>3. LikesDistinct(rows)' <=> LikesDistinct(rows')
    BY DEF LikesDistinct, SameColumns
  <2> QED
    BY <2>1, <2>2, <2>3 DEF LikesInv
<1> QED
  BY <1>1, <1>2

\* A new row gets its number of birth for an id.
LEMMA InsertStep ==
    ASSUME RInv, NEW t \in Tables, NEW cols, db_gen_insert(t, cols),
           t = "notifications" => "related" \in DOMAIN cols
                                  /\ cols.related.id = cols.related.born
    PROVE  RInv'
<1> DEFINE row == [table |-> t, id |-> serial[t] + 1, born |-> serial[t] + 1, cols |-> cols]
<1>1. /\ process = "running" /\ UNCHANGED <<user_tags, likes_unique, process, lost, held>>
      /\ \/ (Admissible(rows \cup {row}) /\ rows' = rows \cup {row})
         \/ rows' = rows
  BY DEF db_gen_insert, InsertedId
<1>2. /\ row.table = t /\ row.id = row.born /\ row.cols = cols
      /\ row = [table |-> row.table, id |-> row.id, born |-> row.born, cols |-> row.cols]
  OBVIOUS
<1> HIDE DEF row
<1>3. Shaped(row)
  BY <1>2 DEF Shaped
<1>4. \A r \in rows' : r \in rows \/ r = row
  BY <1>1
<1>5. IdsInv'
  BY <1>1, <1>2, <1>3, <1>4 DEF RInv, IdsInv, Shaped
<1>6. LikesInv'
  BY <1>1, LikesKept DEF RInv
<1> QED
  BY <1>5, <1>6 DEF RInv

\* An UPDATE changes columns and nothing else, and not what a notification is
\* about.
LEMMA UpdateStep ==
    ASSUME RInv, NEW t \in Tables, NEW id, NEW cols, db_gen_update_by_pk(t, id, cols),
           t = "notifications" => "related" \notin DOMAIN cols
    PROVE  RInv'
<1> DEFINE new(row) == [row EXCEPT !.cols = Updated(cols, @)]
           table == (rows \ Named(t, id)) \cup {new(row) : row \in Named(t, id)}
<1>1. /\ process = "running"
      /\ UNCHANGED <<user_tags, serial, likes_unique, process, lost, held>>
      /\ (rows' = table /\ Admissible(table)) \/ rows' = rows
  BY DEF db_gen_update_by_pk
<1>2. ASSUME NEW row \in Named(t, id)
      PROVE  /\ Shaped(new(row)) /\ new(row).id = new(row).born
             /\ new(row).table = "notifications" =>
                   new(row).cols.related.id = new(row).cols.related.born
  <2>1. /\ row \in rows /\ row.table = t
        /\ row = [table |-> row.table, id |-> row.id, born |-> row.born, cols |-> row.cols]
        /\ row.id = row.born
    BY DEF Named, RInv, IdsInv, Shaped
  <2> DEFINE merged == Updated(cols, row.cols)
  <2>2. new(row) = [row EXCEPT !.cols = merged]
    BY <2>1
  <2> HIDE DEF merged
  <2>3. new(row) = [table |-> row.table, id |-> row.id, born |-> row.born, cols |-> merged]
    BY <2>1, <2>2
  <2>4. ASSUME row.table = "notifications"
        PROVE  "related" \in DOMAIN merged /\ merged.related = row.cols.related
    BY <2>1, <2>4 DEF merged, Updated, RInv, IdsInv, Shaped
  <2>5. row.table = "notifications" => row.cols.related.id = row.cols.related.born
    BY <2>1 DEF RInv, IdsInv
  <2> HIDE DEF new
  <2> QED
    BY <2>1, <2>3, <2>4, <2>5 DEF Shaped
<1> HIDE DEF new
<1>3. \A r \in rows' : r \in rows \/ \E row \in Named(t, id) : r = new(row)
  BY <1>1
<1>4. IdsInv'
  BY <1>1, <1>2, <1>3 DEF RInv, IdsInv, Shaped
<1>5. LikesInv'
  <2>1. rows' \subseteq rows \/ (process = "running" /\ Admissible(rows'))
    BY <1>1
  <2> QED
    BY <1>1, <2>1, LikesKept DEF RInv
<1> QED
  BY <1>4, <1>5 DEF RInv

\* Rows go; what names them stays.
LEMMA DeleteStep ==
    ASSUME RInv, NEW t, NEW id, db_gen_delete_by_pk(t, id)
    PROVE  RInv'
<1>1. rows' \subseteq rows /\ UNCHANGED <<user_tags, likes_unique, process, lost, held>>
  BY DEF db_gen_delete_by_pk
<1>2. IdsInv'
  BY <1>1 DEF RInv, IdsInv, Shaped
<1>3. LikesInv'
  BY <1>1, LikesKept DEF RInv
<1> QED
  BY <1>2, <1>3 DEF RInv

\* The caller comes to hold a row, or a tag's id, or nothing.
LEMMA HoldStep ==
    ASSUME RInv, UNCHANGED <<store, likes_unique, lost>>,
           process' = process \/ process' = "down",
           held' # NULL => held'.id = held'.born
    PROVE  RInv'
<1>1. UNCHANGED <<rows, user_tags>>
  BY DEF store
<1>2. IdsInv'
  BY <1>1 DEF RInv, IdsInv, Shaped
<1>3. LikesInv'
  BY <1>1 DEF RInv, LikesInv, LikesDistinct, SameColumns
<1> QED
  BY <1>2, <1>3 DEF RInv

\* One of the selects.
LEMMA SelectStep ==
    ASSUME RInv, NEW t, Select(t)
    PROVE  RInv'
<1>1. PICK row \in rows : held' = row /\ UNCHANGED <<store, likes_unique, process, lost>>
  BY DEF Select
<1>2. held'.id = held'.born
  BY <1>1 DEF RInv, IdsInv
<1> QED
  BY <1>1, <1>2, HoldStep

-----------------------------------------------------------------------------
(* The operations that are more than one of these.                         *)

\* Tags of users are made for the tag in hand, and go by its id.
LEMMA UserTagStep ==
    ASSUME RInv, NEW user_id \in Users,
           \/ db_ttag_insert_user_tag(user_id)
           \/ db_ttag_select_tags_for_user(user_id)
           \/ \E tag_id \in 1..MaxSerial : db_ttag_delete_user_tag(user_id, tag_id)
    PROVE  RInv'
<1>1. CASE db_ttag_insert_user_tag(user_id)
  <2> DEFINE new == [user_id |-> user_id, tag_id |-> held.id, born |-> held.born]
  <2>1. /\ held # NULL
        /\ user_tags' \subseteq user_tags \cup {new}
        /\ UNCHANGED <<rows, likes_unique, process, lost, held>>
    BY <1>1 DEF db_ttag_insert_user_tag, Holds
  <2>2. new.tag_id = new.born
    BY <2>1 DEF RInv, IdsInv
  <2> HIDE DEF new
  <2>3. IdsInv'
    BY <2>1, <2>2 DEF RInv, IdsInv, Shaped
  <2>4. LikesInv'
    BY <2>1, LikesKept DEF RInv
  <2> QED
    BY <2>3, <2>4 DEF RInv
<1>2. CASE db_ttag_select_tags_for_user(user_id)
  <2>1. PICK row \in user_tags :
          /\ held' = [table |-> "tags", id |-> row.tag_id, born |-> row.born,
                      cols |-> [name |-> NULL]]
          /\ UNCHANGED <<store, likes_unique, process, lost>>
    BY <1>2 DEF db_ttag_select_tags_for_user
  <2>2. held'.id = held'.born
    BY <2>1 DEF RInv, IdsInv
  <2> QED
    BY <2>1, <2>2, HoldStep
<1>3. CASE \E tag_id \in 1..MaxSerial : db_ttag_delete_user_tag(user_id, tag_id)
  <2>1. /\ user_tags' \subseteq user_tags
        /\ UNCHANGED <<rows, likes_unique, process, lost, held>>
    BY <1>3 DEF db_ttag_delete_user_tag
  <2>2. IdsInv'
    BY <2>1 DEF RInv, IdsInv, Shaped
  <2>3. LikesInv'
    BY <2>1, LikesKept DEF RInv
  <2> QED
    BY <2>2, <2>3 DEF RInv
<1> QED
  BY <1>1, <1>2, <1>3

\* A notification is about what the caller holds, or about nothing.
LEMMA NotificationStep ==
    ASSUME RInv, NEW user_id \in Users, db_tnotification_insert(user_id)
    PROVE  RInv'
<1>1. PICK related \in {[table |-> "none", id |-> 0, born |-> 0]} \cup
             (IF held = NULL THEN {}
              ELSE {[table |-> held.table, id |-> held.id, born |-> held.born]}) :
        db_gen_insert("notifications",
           [user_id |-> user_id, related |-> related, is_read |-> FALSE])
  BY DEF db_tnotification_insert
<1>2. related.id = related.born
  BY <1>1 DEF RInv, IdsInv
<1> DEFINE cols == [user_id |-> user_id, related |-> related, is_read |-> FALSE]
<1>3. "related" \in DOMAIN cols /\ cols.related = related
  OBVIOUS
<1>4. db_gen_insert("notifications", cols)
  BY <1>1
<1> HIDE DEF cols
<1> QED
  BY <1>2, <1>3, <1>4, InsertStep DEF Tables

\* Starts and ends of the process: a start that goes on has the constraint, if
\* the statement was not lost and nobody likes twice.
LEMMA ProcessStep ==
    ASSUME RInv, db_tlike_init \/ db_tlike_init_alter \/ Ends
    PROVE  RInv'
<1>1. CASE db_tlike_init
  <2>1. /\ process = "down" /\ process' = "created"
        /\ UNCHANGED <<rows, user_tags, likes_unique, lost, held>>
    BY <1>1 DEF db_tlike_init, store
  <2> QED
    BY <2>1 DEF RInv, IdsInv, Shaped, LikesInv, LikesDistinct, SameColumns
<1>2. CASE db_tlike_init_alter
  <2>1. /\ process = "created" /\ process' = "running"
        /\ UNCHANGED <<rows, user_tags, held>>
        /\ \/ likes_unique' = (likes_unique \/ LikesDistinct(rows)) /\ lost' = lost
           \/ lost' = TRUE /\ likes_unique' = likes_unique
    BY <1>2 DEF db_tlike_init_alter, store, LikesDistinct
  <2>2. IdsInv'
    BY <2>1 DEF RInv, IdsInv, Shaped
  <2>3. LikesDistinct(rows)' <=> LikesDistinct(rows)
    BY <2>1 DEF LikesDistinct, SameColumns
  <2>4. LikesInv'
    <3>1. CASE lost' = TRUE /\ likes_unique' = likes_unique
      BY <2>1, <2>3, <3>1 DEF RInv, LikesInv
    <3>2. CASE likes_unique' = (likes_unique \/ LikesDistinct(rows)) /\ lost' = lost
      <4>1. likes_unique' <=> likes_unique \/ LikesDistinct(rows)
        BY <3>2
      <4> QED
        BY <2>3, <3>2, <4>1 DEF RInv, LikesInv
    <3> QED
      BY <2>1, <3>1, <3>2
  <2> QED
    BY <2>2, <2>4 DEF RInv
<1>3. CASE Ends
  <2>1. /\ process' = "down" /\ held' = NULL
        /\ UNCHANGED <<store, likes_unique, lost>>
    BY <1>3 DEF Ends
  <2> QED
    BY <2>1, HoldStep
<1> QED
  BY <1>1, <1>2, <1>3

\* The inserts and updates of the six tables.
LEMMA RowStep ==
    ASSUME RInv,
           \/ \E name \in TagNames : db_ttag_insert_tag(name)
           \/ \E id \in 1..MaxSerial, name \in TagNames : db_ttag_update_tag(id, name)
           \/ \E user_id \in Users, flag \in BOOLEAN :
                 db_tpicture_insert_picture(user_id, flag)
           \/ \E user_id \in Users, flag \in BOOLEAN : db_tpicture_update_picture(user_id, flag)
           \/ \E from, to \in Users :
                 \/ db_tvisit_insert(from, to)
                 \/ db_tlike_insert(from, to)
                 \/ \E flag \in BOOLEAN : db_tmessage_insert(from, to, flag)
           \/ \E id \in 1..MaxSerial, flag \in BOOLEAN :
                 \/ db_tmessage_update_read_status(id, flag)
                 \/ db_tnotification_update_read_status(id, flag)
    PROVE  RInv'
<1>1. "tags" \in Tables /\ "pictures" \in Tables /\ "visits" \in Tables
      /\ "likes" \in Tables /\ "messages" \in Tables /\ "notifications" \in Tables
  BY DEF Tables
<1>2. \A b : "related" \notin DOMAIN [is_read |-> b]
  OBVIOUS
<1>3. CASE \E name \in TagNames : db_ttag_insert_tag(name)
  BY <1>1, <1>3, InsertStep DEF db_ttag_insert_tag
<1>4. CASE \E id \in 1..MaxSerial, name \in TagNames : db_ttag_update_tag(id, name)
  BY <1>1, <1>4, UpdateStep DEF db_ttag_update_tag
<1>5. CASE \E user_id \in Users, flag \in BOOLEAN : db_tpicture_insert_picture(user_id, flag)
  BY <1>1, <1>5, InsertStep DEF db_tpicture_insert_picture
<1>6. CASE \E user_id \in Users, flag \in BOOLEAN : db_tpicture_update_picture(user_id, flag)
  BY <1>1, <1>6, UpdateStep DEF db_tpicture_update_picture
<1>7. CASE \E from, to \in Users : db_tvisit_insert(from, to)
  BY <1>1, <1>7, InsertStep DEF db_tvisit_insert
<1>8. CASE \E from, to \in Users : db_tlike_insert(from, to)
  BY <1>1, <1>8, InsertStep DEF db_tlike_insert
<1>9. CASE \E from, to \in Users, flag \in BOOLEAN : db_tmessage_insert(from, to, flag)
  BY <1>1, <1>9, InsertStep DEF db_tmessage_insert
<1>10. CASE \E id \in 1..MaxSerial, flag \in BOOLEAN : db_tmessage_update_read_status(id, flag)
  BY <1>1, <1>10, UpdateStep DEF db_tmessage_update_read_status
<1>11. CASE \E id \in 1..MaxSerial, flag \in BOOLEAN :
               db_tnotification_update_read_status(id, flag)
  BY <1>1, <1>2, <1>11, UpdateStep DEF db_tnotification_update_read_status
<1> QED
  BY <1>3, <1>4, <1>5, <1>6, <1>7, <1>8, <1>9, <1>10, <1>11

\* The selects and deletes of the six tables.
LEMMA SelectDeleteStep ==
    ASSUME RInv,
           \/ db_ttag_select_tag \/ db_tpicture_select \/ db_tvisit_select
           \/ db_tlike_select \/ db_tmessage_select \/ db_tnotification_select
           \/ free_array
           \/ \E id \in 1..MaxSerial :
                 \/ db_ttag_delete_tag_from_pk(id)
                 \/ db_tpicture_delete_picture_from_pk(id)
                 \/ db_tvisit_delete_by_pk(id)
                 \/ db_tlike_delete_by_pk(id)
                 \/ db_tmessage_delete_by_pk(id)
                 \/ db_tnotification_delete_by_pk(id)
    PROVE  RInv'
<1>1. CASE free_array
  BY <1>1, HoldStep DEF free_array
<1>2. CASE \E t \in Tables : Select(t)
  BY <1>2, SelectStep
<1>3. CASE \E t \in Tables, id \in 1..MaxSerial : db_gen_delete_by_pk(t, id)
  BY <1>3, DeleteStep
<1> QED
  BY <1>1, <1>2, <1>3
     DEF Tables, db_ttag_select_tag, db_tpicture_select, db_tvisit_select, db_tlike_select,
         db_tmessage_select, db_tnotification_select, db_ttag_delete_tag_from_pk,
         db_tpicture_delete_picture_from_pk, db_tvisit_delete_by_pk, db_tlike_delete_by_pk,
         db_tmessage_delete_by_pk, db_tnotification_delete_by_pk

\* Before the first start there is no row.
LEMMA RInvInit == Init => RInv
BY DEF Init, RInv, IdsInv, LikesInv, LikesDistinct

\* Every statement of the tables, and every start and end of the process.
LEMMA RInvStep ==
    ASSUME RInv, [Next]_vars
    PROVE  RInv'
<1>1. CASE UNCHANGED vars
  BY <1>1, HoldStep DEF vars, RInv, IdsInv
<1> QED
  BY <1>1, ProcessStep, RowStep, SelectDeleteStep, UserTagStep, NotificationStep DEF Next

-----------------------------------------------------------------------------
(* What the run checks, for every number of ids.                           *)

\* Where ids come from, and when likes has its constraint.
THEOREM RInvInvariant == Spec => []RInv
<1>1. RInv /\ [Next]_vars => RInv'
  BY RInvStep
<1> QED
  BY <1>1, RInvInit, PTL DEF Spec

\* Nobody likes the same user twice, unless a start lost its ALTER.
THEOREM NobodyLikesTwice == Spec => []LikedOnce
<1>1. RInv => LikedOnce
  BY DEF RInv, LikesInv, LikesDistinct, LikedOnce
<1> QED
  BY <1>1, RInvInvariant, PTL

\* An id that outlives its row names nothing.
THEOREM IdsNameNoOther == Spec => []IdsOutliveNothing
<1>1. RInv => IdsOutliveNothing
  <2> SUFFICES ASSUME RInv, NEW ref \in References, NEW row \in Named(ref.table, ref.id)
               PROVE  row.born = ref.born
    BY DEF IdsOutliveNothing
  <2>1. row \in rows /\ row.id = ref.id /\ row.id = row.born
    BY DEF Named, RInv, IdsInv
  <2>2. ref.id = ref.born
    <3>1. CASE \E r \in user_tags : ref = [table |-> "tags", id |-> r.tag_id, born |-> r.born]
      BY <3>1 DEF RInv, IdsInv
    <3>2. CASE \E r \in rows : r.table = "notifications" /\ ref = r.cols.related
      BY <3>2 DEF RInv, IdsInv
    <3>3. CASE held # NULL /\ ref = [table |-> held.table, id |-> held.id, born |-> held.born]
      BY <3>3 DEF RInv, IdsInv
    <3> QED
      BY <3>1, <3>2, <3>3 DEF References
  <2> QED
    BY <2>1, <2>2
<1> QED
  BY <1>1, RInvInvariant, PTL
=============================================================================
