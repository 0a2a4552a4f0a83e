---------------------------- MODULE Tables_proofs ----------------------------
(***************************************************************************)
(* Proofs about Tables for every set of names, texts, sessions and times,  *)
(* every time zone, any number of ids handed out, of sessions made and of  *)
(* copies held.  TInv is the inductive invariant: an id, wherever it is    *)
(* kept, names the user it was handed out for, and a session's user_id is  *)
(* that of a session that was made.                                        *)
(***************************************************************************)
EXTENDS Tables, TLAPS

-----------------------------------------------------------------------------
(* The inductive invariant.                                                *)

\* The strings of a user_t.
NameTypes == Names \cup {NULL}

BioTypes == Texts \cup {NULL, ""}

OnlineTypes == {NULL, "", Timestamp}

UserRows ==
    [id : Nat, username : Names, bio : BioTypes,
     last_online : {NULL, Timestamp}, born : Nat]

SessionRows ==
    [session_id : SessionIds, user_id : Nat, expires_at : Int, number : Nat, origin : Nat]

\* What a user_t and a session_t may be.
UserTypes ==
    [id : Nat, username : NameTypes, bio : BioTypes, last_online : OnlineTypes,
     dangling : BOOLEAN, read : UserRows]

SessionTypes ==
    [session_id : SessionIds, user_id : Nat, origin : Nat,
     expires_at : Int, read_from : Int, edited : BOOLEAN]

\* Types.  A session is described only if one is held.
TypesInv ==
    /\ serial \in Nat /\ births \in Nat
    /\ users \subseteq UserRows
    /\ sessions \subseteq SessionRows
    /\ made \in Seq([id : Nat, born : Nat])
    /\ held \subseteq UserTypes
    /\ \A u \in held : u.id = u.read.id
    /\ session # NULL => session \in SessionTypes

\* Whatever names a user by its id, and the user it was made for or read from.
References ==
    {[id |-> row.id, born |-> row.born] : row \in users}
    \cup {[id |-> u.id, born |-> u.read.born] : u \in held}
    \cup {made[n] : n \in DOMAIN made}

\* An id was handed out once, and names one user for ever.
IdsInv ==
    /\ \A r \in References : r.id \in Nat /\ r.id <= serial
    /\ \A r1, r2 \in References : r1.id = r2.id => r1.born = r2.born

\* A user_id, in a row or in a copy, is the one a session was made with.
FromMade(s) == s.origin \in DOMAIN made /\ s.user_id = made[s.origin].id

SessionsInv ==
    /\ \A row \in sessions : FromMade(row) /\ row.number \in DOMAIN made
    /\ session # NULL => FromMade(session)

\* What the caller holds unchanged is what it has read.
AsReadInv ==
    session # NULL /\ ~session.edited =>
         session.expires_at \in db_gen_parse_timestamp(session.read_from)

TInv == TypesInv /\ IdsInv /\ SessionsInv /\ AsReadInv

-----------------------------------------------------------------------------
(* References.                                                             *)

\* Rows, copies and the sessions made are references.
LEMMA ReferencesFacts ==
    /\ \A row \in users : [id |-> row.id, born |-> row.born] \in References
    /\ \A u \in held : [id |-> u.id, born |-> u.read.born] \in References
    /\ \A n \in DOMAIN made : made[n] \in References
BY DEF References

\* A step that copies references and makes none.
LEMMA NoNewReference ==
    ASSUME IdsInv, serial' = serial, made' = made,
           \A row \in users' : [id |-> row.id, born |-> row.born] \in References,
           \A u \in held' : [id |-> u.id, born |-> u.read.born] \in References
    PROVE  IdsInv'
<1>1. ASSUME NEW r \in References'
      PROVE  r \in References
  <2>1. CASE \E row \in users' : r = [id |-> row.id, born |-> row.born]
    BY <2>1
  <2>2. CASE \E u \in held' : r = [id |-> u.id, born |-> u.read.born]
    BY <2>2
  <2>3. CASE \E n \in DOMAIN made' : r = made'[n]
    BY <2>3, ReferencesFacts
  <2> QED
    BY <2>1, <2>2, <2>3 DEF References
<1> QED
  BY <1>1 DEF IdsInv

\* What is in a sequence is of its type.
LEMMA ItemOf ==
    ASSUME NEW S, NEW seq \in Seq(S), NEW n \in DOMAIN seq
    PROVE  seq[n] \in S
OBVIOUS

\* Two references with one id are to one user.
LEMMA SameBirth ==
    ASSUME IdsInv, NEW id1, NEW born1, NEW id2, NEW born2, id1 = id2,
           [id |-> id1, born |-> born1] \in References,
           [id |-> id2, born |-> born2] \in References
    PROVE  born1 = born2
<1> DEFINE r == [id |-> id1, born |-> born1]
           t == [id |-> id2, born |-> born2]
<1>1. r.id = t.id => r.born = t.born
  BY DEF IdsInv
<1> QED
  BY <1>1

\* The user that has the id of a session, or of a copy, is the one meant.
LEMMA SameUser ==
    ASSUME TInv
    PROVE  /\ \A s \in sessions, row \in users :
                s.origin = s.number /\ row.id = s.user_id => row.born = made[s.number].born
           /\ \A u \in held, row \in users : row.id = u.id => row.born = u.read.born
<1>1. ASSUME NEW s \in sessions, NEW row \in users, s.origin = s.number, row.id = s.user_id
      PROVE  row.born = made[s.number].born
  <2> DEFINE m == made[s.number]
  <2>1. s.number \in DOMAIN made /\ row.id = m.id
    BY <1>1 DEF TInv, SessionsInv, FromMade
  <2>2. m \in [id : Nat, born : Nat]
    <3>1. made \in Seq([id : Nat, born : Nat])
      BY DEF TInv, TypesInv
    <3> QED
      BY <2>1, <3>1, ItemOf
  <2>3. m \in References
    BY <2>1, ReferencesFacts
  <2> HIDE DEF m
  <2>4. m = [id |-> m.id, born |-> m.born]
    BY <2>2
  <2>5. [id |-> m.id, born |-> m.born] \in References
    BY <2>3, <2>4
  <2>6. [id |-> row.id, born |-> row.born] \in References
    BY ReferencesFacts
  <2>7. row.born = m.born
    BY <2>1, <2>5, <2>6, SameBirth DEF TInv
  <2> QED
    BY <2>7 DEF m
<1>2. ASSUME NEW u \in held, NEW row \in users, row.id = u.id
      PROVE  row.born = u.read.born
  BY <1>2, ReferencesFacts, SameBirth DEF TInv
<1> QED
  BY <1>1, <1>2

-----------------------------------------------------------------------------
(* Users.                                                                  *)

\* A copy of a row has its id, and remembers it.
LEMMA StructShape ==
    ASSUME NEW row \in UserRows
    PROVE  /\ Struct(row) \in UserTypes
           /\ Struct(row).id = row.id /\ Struct(row).read = row
           /\ DanglingStruct(row) \in UserTypes
           /\ DanglingStruct(row).id = row.id /\ DanglingStruct(row).read = row
<1>1. /\ Struct(row) \in UserTypes
      /\ Struct(row).id = row.id /\ Struct(row).read = row
  BY DEF UserRows, Struct, PQgetvalue, UserTypes, NameTypes, BioTypes, OnlineTypes
<1> QED
  BY <1>1 DEF DanglingStruct, UserTypes, NameTypes, BioTypes, OnlineTypes

\* A step of the users and of the copies of them that makes no user.
LEMMA UserStep ==
    ASSUME TInv, UNCHANGED <<sessions, serial, births, made, session>>,
           users' \subseteq UserRows,
           \A row \in users' : [id |-> row.id, born |-> row.born] \in References,
           held' \subseteq UserTypes,
           \A u \in held' : /\ u.id = u.read.id
                            /\ [id |-> u.id, born |-> u.read.born] \in References
    PROVE  TInv'
<1>1. TypesInv'
  BY DEF TInv, TypesInv
<1>2. IdsInv'
  BY NoNewReference DEF TInv
<1>3. SessionsInv' /\ AsReadInv'
  BY DEF TInv, SessionsInv, FromMade, AsReadInv
<1> QED
  BY <1>1, <1>2, <1>3 DEF TInv

\* Tables empty, nothing held.
LEMMA TInvInit == Init => TInv
<1> SUFFICES ASSUME Init PROVE TInv
  OBVIOUS
<1>1. DOMAIN <<>> = {} /\ <<>> \in Seq([id : Nat, born : Nat])
  OBVIOUS
<1>2. TypesInv
  BY <1>1 DEF Init, TypesInv
<1>3. References = {}
  BY <1>1 DEF Init, References
<1>4. IdsInv /\ SessionsInv /\ AsReadInv
  BY <1>3 DEF Init, IdsInv, SessionsInv, AsReadInv
<1> QED
  BY <1>2, <1>4 DEF TInv

\* A new user has an id that nobody has named before.
LEMMA InsertUserStep ==
    ASSUME TInv, NEW id \in 1..MaxSerial, NEW username \in Names,
           NEW bio \in Texts \cup {NULL}, NEW last_online \in {NULL, Timestamp},
           db_tuser_insert_user(id, username, bio, last_online)
    PROVE  TInv'
<1> DEFINE row == [id |-> serial + 1, username |-> username, bio |-> bio,
                   last_online |-> last_online, born |-> births + 1]
           new == [id |-> serial + 1, born |-> births + 1]
<1>1. /\ serial' = serial + 1 /\ serial \in Nat /\ births \in Nat
      /\ UNCHANGED <<sessions, made, held, session>>
  BY DEF db_tuser_insert_user, TInv, TypesInv
<1>2. row \in UserRows
  <2>1. serial + 1 \in Nat /\ births + 1 \in Nat
    BY <1>1
  <2>2. bio \in BioTypes
    BY DEF BioTypes
  <2> QED
    BY <2>1, <2>2 DEF UserRows
<1>3. \/ users' = users \cup {row} /\ births' = births + 1
      \/ UNCHANGED <<users, births>>
  BY DEF db_tuser_insert_user, InsertedId
<1>4. row.id = serial + 1 /\ row.born = births + 1
  OBVIOUS
<1> HIDE DEF row
<1>5. TypesInv'
  BY <1>1, <1>2, <1>3 DEF TInv, TypesInv
<1>6. ASSUME NEW r \in References'
      PROVE  r \in References \cup {new}
  <2>1. CASE \E other \in users' : r = [id |-> other.id, born |-> other.born]
    BY <1>3, <1>4, <2>1, ReferencesFacts
  <2>2. CASE \E u \in held' : r = [id |-> u.id, born |-> u.read.born]
    BY <1>1, <2>2, ReferencesFacts
  <2>3. CASE \E n \in DOMAIN made' : r = made'[n]
    BY <1>1, <2>3, ReferencesFacts
  <2> QED
    BY <2>1, <2>2, <2>3 DEF References
<1>7. \A r \in References : r.id \in Nat /\ r.id <= serial
  BY DEF TInv, IdsInv
<1>8. new.id = serial + 1
  OBVIOUS
<1> HIDE DEF new
<1>9. \A r \in References' : r.id \in Nat /\ r.id <= serial'
  BY <1>1, <1>6, <1>7, <1>8
<1>10. ASSUME NEW r1 \in References', NEW r2 \in References', r1.id = r2.id
       PROVE  r1.born = r2.born
  <2>1. CASE r1 \in References /\ r2 \in References
    BY <1>10, <2>1 DEF TInv, IdsInv
  <2>2. CASE r1 \notin References \/ r2 \notin References
    <3>1. r1.id = serial + 1 \/ r2.id = serial + 1
      BY <1>6, <1>8, <2>2
    <3>2. r1 \notin References /\ r2 \notin References
      BY <1>1, <1>7, <1>10, <3>1
    <3> QED
      BY <1>6, <3>2
  <2> QED
    BY <2>1, <2>2
<1>11. SessionsInv' /\ AsReadInv'
  BY <1>1 DEF TInv, SessionsInv, FromMade, AsReadInv
<1> QED
  BY <1>5, <1>9, <1>10, <1>11 DEF TInv, IdsInv

\* The caller reads a user, by name or out of all, lets one go or changes it.
LEMMA ReadUserStep ==
    ASSUME TInv, \/ db_tuser_select_all_users
                 \/ \E name \in Names : db_select_user_by_username(name)
                 \/ \E u \in held : db_tuser_free_array(u) \/ Edit(u)
    PROVE  TInv'
<1>1. UNCHANGED <<users, sessions, serial, births, made, session>>
  BY DEF db_tuser_select_all_users, db_select_user_by_username, db_tuser_free_array, Edit
<1>2. /\ users \subseteq UserRows /\ held \subseteq UserTypes
      /\ \A u \in held : u.id = u.read.id
  BY DEF TInv, TypesInv
<1>3. ASSUME NEW v, held' \subseteq held \cup {v}, v \in UserTypes, v.id = v.read.id,
             [id |-> v.id, born |-> v.read.born] \in References
      PROVE  TInv'
  BY <1>1, <1>2, <1>3, ReferencesFacts, UserStep
<1>4. CASE held' \subseteq held
  BY <1>1, <1>2, <1>4, ReferencesFacts, UserStep
<1>5. CASE \E row \in users : Hold(Struct(row)) \/ Hold(DanglingStruct(row))
  <2>1. PICK row \in users : Hold(Struct(row)) \/ Hold(DanglingStruct(row))
    BY <1>5
  <2>2. [id |-> row.id, born |-> row.born] \in References /\ row \in UserRows
    BY <1>2, ReferencesFacts
  <2> QED
    BY <1>3, <2>1, <2>2, StructShape DEF Hold
<1>6. CASE \E u \in held : Edit(u)
  <2>1. PICK u \in held : Edit(u)
    BY <1>6
  <2>2. PICK new \in {[u EXCEPT !.username = name] : name \in Names}
                   \cup {[u EXCEPT !.bio = bio] : bio \in Texts \cup {NULL}}
                   \cup {[u EXCEPT !.last_online = Timestamp]} :
          held' = (held \ {u}) \cup {new}
    BY <2>1 DEF Edit
  <2>3. u \in UserTypes
    BY <1>2
  <2>4. new \in UserTypes /\ new.id = u.id /\ new.read = u.read
    BY <2>2, <2>3 DEF UserTypes, NameTypes, BioTypes, OnlineTypes
  <2> QED
    BY <1>2, <1>3, <2>2, <2>4, ReferencesFacts
<1> QED
  BY <1>4, <1>5, <1>6
     DEF db_tuser_select_all_users, db_select_user_by_username, db_tuser_free_array

\* The row after an UPDATE with these strings is of its type and has its id.
LEMMA UpdatedShape ==
    ASSUME NEW row \in UserRows, NEW username \in NameTypes,
           NEW bio \in BioTypes, NEW last_online,
           NEW new, new = Updated(row, username, bio, last_online)
    PROVE  /\ new.id = row.id /\ new.born = row.born
           /\ new.username = Chosen(username, row.username)
           /\ new.bio = Chosen(bio, row.bio)
           /\ new.last_online = Chosen(last_online, row.last_online)
           /\ Stored(new) => new \in UserRows
<1>1. /\ new.id = row.id /\ new.born = row.born
      /\ new.username = Chosen(username, row.username)
      /\ new.bio = Chosen(bio, row.bio)
      /\ new.last_online = Chosen(last_online, row.last_online)
      /\ new = [id |-> row.id, username |-> Chosen(username, row.username),
                bio |-> Chosen(bio, row.bio),
                last_online |-> Chosen(last_online, row.last_online), born |-> row.born]
  <2> DEFINE d == Chosen(username, row.username)
             b == Chosen(bio, row.bio)
             l == Chosen(last_online, row.last_online)
  <2>1. new = [row EXCEPT !.username = d, !.bio = b, !.last_online = l]
    BY DEF Updated
  <2> HIDE DEF d, b, l
  <2>2. /\ new.id = row.id /\ new.born = row.born
        /\ new.username = d /\ new.bio = b /\ new.last_online = l
        /\ new = [id |-> row.id, username |-> d, bio |-> b, last_online |-> l,
                  born |-> row.born]
    BY <2>1 DEF UserRows
  <2> QED
    BY <2>2 DEF d, b, l
<1>2. Chosen(username, row.username) \in Names
  BY DEF Chosen, UserRows, NameTypes
<1>3. Chosen(bio, row.bio) \in BioTypes
  BY DEF Chosen, UserRows, BioTypes
<1>4. Stored(new) => new \in UserRows
  BY <1>1, <1>2, <1>3 DEF Stored, UserRows, OnlineTypes
<1> QED
  BY <1>1, <1>4

\* One UPDATE of users: done for the rows with the id of the copy, or refused.
LEMMA UpdateUsersKeeps ==
    ASSUME TInv, NEW u \in held, NEW username \in NameTypes,
           NEW bio \in BioTypes, NEW last_online \in OnlineTypes,
           UpdateUsers(u, username, bio, last_online)
    PROVE  /\ \A row \in users \ users' : row.id = u.id
           /\ \A new \in users' \ users :
                /\ Stored(new)
                /\ \E row \in users :
                     /\ row.id = u.id
                     /\ new = Updated(row, username, bio, last_online)
           /\ last_online = "" => users' = users
<1> DEFINE changed == {row \in users : row.id = u.id}
           table == (users \ changed)
                    \cup {Updated(row, username, bio, last_online) : row \in changed}
<1>1. \/ (\A row \in table : Stored(row)) /\ users' = table
      \/ users' = users
  BY DEF UpdateUsers, Hit
<1>2. ASSUME last_online = "", \A row \in table : Stored(row)
      PROVE  changed = {}
  <2>1. ASSUME NEW row \in changed
        PROVE  FALSE
    <3>1. row \in UserRows
      BY DEF TInv, TypesInv
    <3>2. PICK new : new = Updated(row, username, bio, last_online) /\ Stored(new)
      BY <1>2
    <3>3. new.last_online = Chosen(last_online, row.last_online)
      BY <3>1, <3>2, UpdatedShape
    <3> QED
      BY <1>2, <3>2, <3>3, TextsAssumption DEF Stored, Chosen, Timestamp
  <2> QED
    BY <2>1
<1>3. CASE users' = users
  BY <1>3
<1>4. CASE (\A row \in table : Stored(row)) /\ users' = table
  <2>1. last_online = "" => users' = users
    BY <1>2, <1>4
  <2> QED
    BY <1>4, <2>1
<1> QED
  BY <1>1, <1>3, <1>4

\* db_tuser_update_user is one UPDATE, with the strings of the copy or others.
LEMMA UpdateUserIs ==
    ASSUME TInv, NEW u \in held, db_tuser_update_user(u)
    PROVE  /\ UNCHANGED <<sessions, serial, births, made, held, session>>
           /\ \E username \in NameTypes, bio \in BioTypes,
                 last_online \in OnlineTypes :
                /\ UpdateUsers(u, username, bio, last_online)
                /\ ~u.dangling =>
                     /\ username = u.username /\ bio = u.bio
                     /\ last_online = u.last_online
<1>1. u \in UserTypes
  BY DEF TInv, TypesInv
<1>2. CASE u.dangling
  BY <1>1, <1>2 DEF db_tuser_update_user, BioTypes, OnlineTypes, NameTypes
<1>3. CASE ~u.dangling
  <2>1. u.username \in NameTypes /\ u.bio \in BioTypes
        /\ u.last_online \in OnlineTypes
    BY <1>1 DEF UserTypes
  <2>2. UpdateUsers(u, u.username, u.bio, u.last_online)
    BY <1>3 DEF db_tuser_update_user
  <2> QED
    BY <1>3, <2>1, <2>2 DEF db_tuser_update_user
<1> QED
  BY <1>2, <1>3

\* A copy that is written back as it was read: the row becomes what was read
\* but for a NULL text, or the copy could not be written.
LEMMA WrittenBack ==
    ASSUME TInv, NEW u \in held, AsRead(u), NEW row \in users, row.id = u.id,
           NEW new, new = Updated(row, u.username, u.bio, u.last_online),
           Stored(new)
    PROVE  new = [u.read EXCEPT !.bio = PQgetvalue(u.read.bio)]
<1> DEFINE read == u.read
<1>1. /\ row \in UserRows /\ read \in UserRows /\ u \in UserTypes
      /\ row.id = read.id
  BY DEF TInv, TypesInv, UserTypes
<1>2. row.born = read.born
  BY SameUser
<1>3. /\ u.username = read.username
      /\ u.bio = PQgetvalue(read.bio)
      /\ u.last_online = PQgetvalue(read.last_online)
  BY DEF AsRead
<1>4. /\ new.id = row.id /\ new.born = row.born
      /\ new.username = Chosen(u.username, row.username)
      /\ new.bio = Chosen(u.bio, row.bio)
      /\ new.last_online = Chosen(u.last_online, row.last_online)
      /\ new \in UserRows
  <2> DEFINE name == u.username
             text == u.bio
             last == u.last_online
  <2>1. name \in NameTypes /\ text \in BioTypes
    BY <1>1 DEF UserTypes
  <2>2. new = Updated(row, name, text, last)
    OBVIOUS
  <2> HIDE DEF name, text, last
  <2>3. /\ new.id = row.id /\ new.born = row.born
        /\ new.username = Chosen(name, row.username)
        /\ new.bio = Chosen(text, row.bio)
        /\ new.last_online = Chosen(last, row.last_online)
        /\ new \in UserRows
    BY <1>1, <2>1, <2>2, UpdatedShape
  <2> QED
    BY <2>3 DEF name, text, last
<1> HIDE DEF read
<1>5. NULL # "" /\ NULL \notin Names
  BY TextsAssumption
<1>6. new.username = read.username
  BY <1>1, <1>3, <1>4, <1>5 DEF Chosen, UserRows
<1>7. new.bio = PQgetvalue(read.bio)
  BY <1>3, <1>4, <1>5 DEF Chosen, PQgetvalue
<1>8. new.last_online = read.last_online
  <2>1. PQgetvalue(read.last_online) # NULL
    BY <1>5 DEF PQgetvalue
  <2>2. new.last_online = PQgetvalue(read.last_online)
    BY <1>3, <1>4, <2>1 DEF Chosen
  <2>3. new.last_online \in {NULL, Timestamp}
    BY DEF Stored
  <2> QED
    BY <1>5, <2>2, <2>3 DEF PQgetvalue, Timestamp
<1>9. new = [id |-> read.id, username |-> read.username, bio |-> PQgetvalue(read.bio),
             last_online |-> read.last_online, born |-> read.born]
  BY <1>1, <1>2, <1>4, <1>6, <1>7, <1>8 DEF UserRows
<1>10. new = [read EXCEPT !.bio = PQgetvalue(read.bio)]
  <2> DEFINE b == PQgetvalue(read.bio)
  <2>1. new = [id |-> read.id, username |-> read.username, bio |-> b,
               last_online |-> read.last_online, born |-> read.born]
    BY <1>9
  <2> HIDE DEF b
  <2>2. new = [read EXCEPT !.bio = b]
    <3>1. read = [id |-> read.id, username |-> read.username, bio |-> read.bio,
                  last_online |-> read.last_online, born |-> read.born]
      BY <1>1 DEF UserRows
    <3> QED
      BY <2>1, <3>1
  <2> QED
    BY <2>2 DEF b
<1> QED
  BY <1>10 DEF read

\* A copy is written back, over its row or over nothing.
LEMMA UpdateUserStep ==
    ASSUME TInv, NEW u \in held, db_tuser_update_user(u)
    PROVE  TInv'
<1>1. UNCHANGED <<sessions, serial, births, made, held, session>>
  BY UpdateUserIs
<1>2. PICK username \in NameTypes, bio \in BioTypes,
           last_online \in OnlineTypes : UpdateUsers(u, username, bio, last_online)
  BY UpdateUserIs
<1>3. \A new \in users' \ users :
        /\ Stored(new)
        /\ \E row \in users : row.id = u.id /\ new = Updated(row, username, bio, last_online)
  BY <1>2, UpdateUsersKeeps
<1>4. ASSUME NEW new \in users'
      PROVE  new \in UserRows /\ [id |-> new.id, born |-> new.born] \in References
  <2>1. CASE new \in users
    BY <2>1, ReferencesFacts DEF TInv, TypesInv
  <2>2. CASE new \notin users
    <3>1. PICK row \in users : new = Updated(row, username, bio, last_online)
      BY <1>3, <2>2
    <3>2. row \in UserRows /\ Stored(new)
      BY <1>3, <2>2 DEF TInv, TypesInv
    <3>3. new \in UserRows /\ new.id = row.id /\ new.born = row.born
      BY <3>1, <3>2, UpdatedShape
    <3> QED
      BY <3>3, ReferencesFacts
  <2> QED
    BY <2>1, <2>2
<1>5. held' \subseteq UserTypes /\ \A v \in held' : v.id = v.read.id
  BY <1>1 DEF TInv, TypesInv
<1> QED
  BY <1>1, <1>4, <1>5, ReferencesFacts, UserStep

\* Users go, and leave their sessions and the copies of them behind.
LEMMA DeleteUserStep ==
    ASSUME TInv, NEW name \in Names, db_tuser_delete_user_from_pk(name)
    PROVE  TInv'
<1>1. users' \subseteq users /\ UNCHANGED <<sessions, serial, births, made, held, session>>
  BY DEF db_tuser_delete_user_from_pk
<1>2. users' \subseteq UserRows /\ held' \subseteq UserTypes /\ \A u \in held' : u.id = u.read.id
  BY <1>1 DEF TInv, TypesInv
<1> QED
  BY <1>1, <1>2, ReferencesFacts, UserStep

-----------------------------------------------------------------------------
(* Sessions.                                                               *)

\* The clock on the wall is a number, for every number.
LEMMA LocaltimeInt ==
    \A time \in Int : Localtime(time) \in Int
BY TimesAssumption DEF Localtime

\* A time that fits is read back as it is.
LEMMA CutKeeps ==
    ASSUME NEW t \in (-Int32)..(Int32 - 1)
    PROVE  Cut(t) = t
<1> DEFINE w == 2 * Int32
           a == t + Int32
           q == a \div w
           r == a % w
<1>1. Int32 \in Nat \ {0}
  BY TimesAssumption
<1>2. w \in Nat \ {0} /\ a \in 0..(w - 1) /\ a \in Int
  BY <1>1
<1> HIDE DEF w, a
<1>3. q \in Int /\ r \in 0..(w - 1) /\ a = w * q + r
  BY <1>2
<1>4. q = 0
  BY <1>2, <1>3
<1>5. r = a
  BY <1>2, <1>3, <1>4
<1> QED
  BY <1>1, <1>5 DEF Cut, a, w

\* A cut time is a number.
LEMMA CutInt == \A t \in Int : Cut(t) \in Int
<1> SUFFICES ASSUME NEW t \in Int PROVE Cut(t) \in Int
  OBVIOUS
<1>1. Int32 \in Nat \ {0}
  BY TimesAssumption
<1>2. 2 * Int32 \in Nat \ {0} /\ t + Int32 \in Int
  BY <1>1
<1>3. (t + Int32) % (2 * Int32) \in Int
  BY <1>2
<1> QED
  BY <1>1, <1>3 DEF Cut

\* A step that leaves the users, the copies of them and what was made alone.
LEMMA SessionStep ==
    ASSUME TInv, UNCHANGED <<users, serial, births, made, held>>,
           sessions' \subseteq SessionRows,
           \A row \in sessions' : FromMade(row) /\ row.number \in DOMAIN made,
           session' # NULL =>
             /\ session' \in SessionTypes
             /\ FromMade(session')
             /\ ~session'.edited =>
                   session'.expires_at \in db_gen_parse_timestamp(session'.read_from)
    PROVE  TInv'
<1>1. TypesInv'
  BY DEF TInv, TypesInv
<1>2. IdsInv'
  BY ReferencesFacts, NoNewReference DEF TInv
<1>3. SessionsInv' /\ AsReadInv'
  BY DEF SessionsInv, AsReadInv, FromMade
<1> QED
  BY <1>1, <1>2, <1>3 DEF TInv

\* What a session the caller holds, and does not touch, was known to be.
LEMMA SessionHeld ==
    ASSUME TInv, session' = session, session # NULL
    PROVE  /\ session' \in SessionTypes
           /\ FromMade(session')
           /\ ~session'.edited =>
                 session'.expires_at \in db_gen_parse_timestamp(session'.read_from)
BY DEF TInv, TypesInv, SessionsInv, AsReadInv

\* One more session is made, for a user that is known.
LEMMA OneMoreMade ==
    ASSUME TInv, NEW m \in [id : Nat, born : Nat], m \in References,
           made' = Append(made, m)
    PROVE  /\ made' \in Seq([id : Nat, born : Nat])
           /\ Len(made') \in Nat /\ Len(made') \in DOMAIN made'
           /\ made'[Len(made')] = m
           /\ DOMAIN made \subseteq DOMAIN made'
           /\ \A n \in DOMAIN made : made'[n] = made[n]
           /\ \A n \in DOMAIN made' : made'[n] \in References
<1>1. made \in Seq([id : Nat, born : Nat])
  BY DEF TInv, TypesInv
<1>2. /\ made' \in Seq([id : Nat, born : Nat])
      /\ Len(made') = Len(made) + 1 /\ Len(made) \in Nat
      /\ DOMAIN made' = 1..(Len(made) + 1) /\ DOMAIN made = 1..Len(made)
      /\ made'[Len(made) + 1] = m
      /\ \A n \in 1..Len(made) : made'[n] = made[n]
  BY <1>1
<1>3. ASSUME NEW n \in DOMAIN made'
      PROVE  made'[n] \in References
  <2>1. n = Len(made) + 1 \/ n \in 1..Len(made)
    BY <1>2
  <2> QED
    BY <1>2, <2>1, ReferencesFacts
<1> QED
  BY <1>2, <1>3

\* A session is made for a user the caller holds.
LEMMA InsertSessionStep ==
    ASSUME TInv, NEW session_id \in SessionIds, NEW u \in held, NEW expires_at \in Times,
           db_tsession_insert(session_id, u, expires_at)
    PROVE  TInv'
<1> DEFINE m == [id |-> u.id, born |-> u.read.born]
           new == [session_id |-> session_id, user_id |-> u.id,
                   expires_at |-> Localtime(expires_at),
                   number |-> Len(made'), origin |-> Len(made')]
<1>1. UNCHANGED <<users, serial, births, held, session>>
  BY DEF db_tsession_insert
<1>2. CASE UNCHANGED <<sessions, made>>
  <2>1. sessions' \subseteq SessionRows
    BY <1>2 DEF TInv, TypesInv
  <2>2. \A row \in sessions' : FromMade(row) /\ row.number \in DOMAIN made
    BY <1>2 DEF TInv, SessionsInv
  <2> QED
    BY <1>1, <1>2, <2>1, <2>2, SessionHeld, SessionStep
<1>3. CASE made' = Append(made, m) /\ sessions' = sessions \cup {new}
  <2>1. u.id \in Nat /\ u.read.born \in Nat
    BY DEF TInv, TypesInv, UserTypes, UserRows
  <2>2. m \in [id : Nat, born : Nat] /\ m \in References /\ m.id = u.id
    BY <2>1, ReferencesFacts
  <2> HIDE DEF m
  <2>3. /\ made' \in Seq([id : Nat, born : Nat])
        /\ Len(made') \in Nat /\ Len(made') \in DOMAIN made'
        /\ made'[Len(made')] = m
        /\ DOMAIN made \subseteq DOMAIN made'
        /\ \A n \in DOMAIN made : made'[n] = made[n]
        /\ \A n \in DOMAIN made' : made'[n] \in References
    BY <1>3, <2>2, OneMoreMade
  <2>4. Localtime(expires_at) \in Int
    BY TimesAssumption, LocaltimeInt
  <2>5. /\ new \in SessionRows
        /\ new.user_id = u.id /\ new.number = Len(made') /\ new.origin = Len(made')
    BY <2>1, <2>3, <2>4 DEF SessionRows
  <2> HIDE DEF new
  <2>6. TypesInv'
    BY <1>1, <1>3, <2>3, <2>5 DEF TInv, TypesInv
  <2>7. ASSUME NEW r \in References'
        PROVE  r \in References
    <3>1. CASE \E row \in users' : r = [id |-> row.id, born |-> row.born]
      BY <1>1, <3>1, ReferencesFacts
    <3>2. CASE \E v \in held' : r = [id |-> v.id, born |-> v.read.born]
      BY <1>1, <3>2, ReferencesFacts
    <3>3. CASE \E n \in DOMAIN made' : r = made'[n]
      BY <2>3, <3>3
    <3> QED
      BY <3>1, <3>2, <3>3 DEF References
  <2>8. IdsInv'
    BY <1>1, <2>7 DEF TInv, IdsInv
  <2>9. SessionsInv'
    <3>1. ASSUME NEW row \in sessions'
          PROVE  FromMade(row)' /\ row.number \in DOMAIN made'
      <4>1. CASE row \in sessions
        BY <2>3, <4>1 DEF TInv, SessionsInv, FromMade
      <4>2. CASE row = new
        BY <2>2, <2>3, <2>5, <4>2 DEF FromMade
      <4> QED
        BY <1>3, <4>1, <4>2
    <3>2. session' # NULL => FromMade(session)'
      BY <1>1, <2>3 DEF TInv, SessionsInv, FromMade
    <3> QED
      BY <3>1, <3>2 DEF SessionsInv
  <2>10. AsReadInv'
    BY <1>1 DEF TInv, AsReadInv
  <2> QED
    BY <2>6, <2>8, <2>9, <2>10 DEF TInv
<1> QED
  BY <1>2, <1>3 DEF db_tsession_insert

\* What is made of a row is of the right type and has its origin.
LEMMA MadeFromRow ==
    ASSUME TInv, NEW row \in sessions, NEW s \in make_session_from_row(row)
    PROVE  /\ s \in SessionTypes
           /\ FromMade(s)
           /\ s.expires_at \in db_gen_parse_timestamp(s.read_from)
<1>1. row \in SessionRows
  BY DEF TInv, TypesInv
<1>2. PICK time \in db_gen_parse_timestamp(row.expires_at) :
        s = [session_id |-> row.session_id, user_id |-> row.user_id, origin |-> row.origin,
             expires_at |-> time, read_from |-> row.expires_at, edited |-> FALSE]
  BY DEF make_session_from_row
<1>3. row.expires_at \in Int /\ Zone \in Int
  BY <1>1, TimesAssumption DEF SessionRows
<1>4. time \in Int
  <2>1. row.expires_at - Zone \in Int /\ row.expires_at - Zone - 1 \in Int
    BY <1>3
  <2> QED
    BY <2>1, CutInt DEF db_gen_parse_timestamp
<1>5. FromMade(row)
  BY DEF TInv, SessionsInv
<1> QED
  BY <1>1, <1>2, <1>4, <1>5 DEF SessionRows, SessionTypes, FromMade

\* The caller reads a session, lets it go, or moves its expiry; or rows go.
LEMMA ReadSessionStep ==
    ASSUME TInv, \/ db_tsession_select_all
                 \/ \E user_id \in 1..MaxSerial : db_tsession_select_for_user(user_id)
                 \/ \E session_id \in SessionIds : \/ db_tsession_select_by_id(session_id)
                                                   \/ db_tsession_delete_by_id(session_id)
                 \/ db_tsession_free_array
                 \/ Prolong
    PROVE  TInv'
<1>1. UNCHANGED <<users, serial, births, made, held>> /\ sessions' \subseteq sessions
  BY DEF db_tsession_select_all, db_tsession_select_for_user, db_tsession_select_by_id,
         db_tsession_delete_by_id, db_tsession_free_array, Prolong
<1>2. sessions' \subseteq SessionRows
  BY <1>1 DEF TInv, TypesInv
<1>3. \A row \in sessions' : FromMade(row) /\ row.number \in DOMAIN made
  BY <1>1 DEF TInv, SessionsInv
<1>4. CASE \E row \in sessions : session' \in make_session_from_row(row)
  BY <1>1, <1>2, <1>3, <1>4, MadeFromRow, SessionStep
<1>5. CASE session' = NULL \/ session' = session
  BY <1>1, <1>2, <1>3, <1>5, SessionHeld, SessionStep
<1>6. CASE Prolong
  <2>1. PICK time \in Times :
          session # NULL /\ session' = [session EXCEPT !.expires_at = time, !.edited = TRUE]
    BY <1>6 DEF Prolong
  <2>2. session \in SessionTypes /\ time \in Int /\ FromMade(session)
    BY <2>1, TimesAssumption DEF TInv, TypesInv, SessionsInv
  <2>3. /\ session' \in SessionTypes /\ session'.edited
        /\ session'.user_id = session.user_id /\ session'.origin = session.origin
    BY <2>1, <2>2 DEF SessionTypes
  <2>4. FromMade(session')
    BY <2>2, <2>3 DEF FromMade
  <2> QED
    BY <1>1, <1>2, <1>3, <2>3, <2>4, SessionStep
<1> QED
  BY <1>4, <1>5, <1>6
     DEF db_tsession_select_all, db_tsession_select_for_user, db_tsession_select_by_id,
         db_tsession_delete_by_id, db_tsession_free_array

\* The rows after an UPDATE of the session the caller holds.
LEMMA UpdatedSession ==
    ASSUME TInv, db_tsession_update
    PROVE  /\ session # NULL /\ UNCHANGED <<users, serial, births, made, held, session>>
           /\ \A new \in sessions' :
                \/ new \in sessions
                \/ /\ new \in SessionRows /\ new.number \in DOMAIN made
                   /\ new.user_id = session.user_id /\ new.origin = session.origin
                   /\ new.expires_at = Localtime(session.expires_at)
<1>1. session # NULL /\ UNCHANGED <<users, serial, births, made, held, session>>
  BY DEF db_tsession_update
<1>2. session \in SessionTypes
  BY <1>1 DEF TInv, TypesInv
<1>3. Localtime(session.expires_at) \in Int
  BY <1>2, LocaltimeInt DEF SessionTypes
<1>4. ASSUME NEW new \in sessions', new \notin sessions
      PROVE  /\ new \in SessionRows /\ new.number \in DOMAIN made
             /\ new.user_id = session.user_id /\ new.origin = session.origin
             /\ new.expires_at = Localtime(session.expires_at)
  <2> DEFINE l == Localtime(session.expires_at)
  <2>1. PICK row \in sessions :
          new = [row EXCEPT !.user_id = session.user_id, !.origin = session.origin,
                            !.expires_at = l]
    BY <1>4 DEF db_tsession_update
  <2>2. row \in SessionRows /\ row.number \in DOMAIN made
    BY DEF TInv, TypesInv, SessionsInv
  <2> HIDE DEF l
  <2>3. /\ new.user_id = session.user_id /\ new.origin = session.origin
        /\ new.expires_at = l /\ new.number = row.number
        /\ new = [session_id |-> row.session_id, user_id |-> session.user_id,
                  expires_at |-> l, number |-> row.number, origin |-> session.origin]
    BY <2>1, <2>2 DEF SessionRows
  <2>4. session.user_id \in Nat /\ session.origin \in Nat /\ row.session_id \in SessionIds
        /\ row.number \in Nat
    BY <1>2, <2>2 DEF SessionTypes, SessionRows
  <2>5. l \in Int
    BY <1>3 DEF l
  <2>6. new \in SessionRows
    BY <2>3, <2>4, <2>5 DEF SessionRows
  <2> QED
    BY <2>2, <2>3, <2>6 DEF l
<1> QED
  BY <1>1, <1>4

\* The session is written back as the caller holds it.
LEMMA UpdateSessionStep ==
    ASSUME TInv, db_tsession_update
    PROVE  TInv'
<1>1. session # NULL /\ UNCHANGED <<users, serial, births, made, held, session>>
  BY UpdatedSession
<1>2. sessions' \subseteq SessionRows
  BY UpdatedSession DEF TInv, TypesInv
<1>3. ASSUME NEW row \in sessions'
      PROVE  FromMade(row) /\ row.number \in DOMAIN made
  BY <1>1, UpdatedSession DEF TInv, SessionsInv, FromMade
<1> QED
  BY <1>1, <1>2, <1>3, SessionHeld, SessionStep

\* Every statement, and everything the caller does between two of them.
LEMMA TInvStep ==
    ASSUME TInv, [Next]_vars
    PROVE  TInv'
<1>1. CASE UNCHANGED vars
  <2>1. UNCHANGED <<users, sessions, serial, births, made, held, session>>
    BY <1>1 DEF vars
  <2>2. sessions' \subseteq SessionRows
    BY <2>1 DEF TInv, TypesInv
  <2>3. \A row \in sessions' : FromMade(row) /\ row.number \in DOMAIN made
    BY <2>1 DEF TInv, SessionsInv
  <2> QED
    BY <2>1, <2>2, <2>3, SessionHeld, SessionStep
<1> QED
  BY <1>1, InsertUserStep, ReadUserStep, UpdateUserStep, DeleteUserStep,
     InsertSessionStep, ReadSessionStep, UpdateSessionStep DEF Next

-----------------------------------------------------------------------------
(* What the runs check, for every number of ids.                           *)

\* The tables, the copies of their rows and the ids in both.
THEOREM TInvInvariant == Spec => []TInv
<1>1. TInv /\ [Next]_vars => TInv'
  BY TInvStep
<1> QED
  BY <1>1, TInvInit, PTL DEF Spec

\* A session names the user it was made for, or that of an earlier session
\* whose copy was written over it.
THEOREM OwnSession == Spec => []NeverAnothersSession
<1>1. TInv => NeverAnothersSession
  BY SameUser DEF NeverAnothersSession
<1> QED
  BY <1>1, TInvInvariant, PTL

\* An UPDATE changes the user that the copy was made of, or nobody.
THEOREM HitsItsUser == Spec => UpdateHitsItsUser
<1>1. TInv /\ [Next]_vars =>
        [\A u \in held : db_tuser_update_user(u) =>
            \A row \in users \ users' : row.born = u.read.born]_vars
  <2> SUFFICES ASSUME TInv, NEW u \in held, db_tuser_update_user(u),
                      NEW row \in users \ users'
               PROVE  row.born = u.read.born
    OBVIOUS
  <2>1. row.id = u.id
    BY UpdateUserIs, UpdateUsersKeeps
  <2> QED
    BY <2>1, SameUser
<1> QED
  BY <1>1, TInvInvariant, PTL DEF Spec, UpdateHitsItsUser

\* A copy that is written back as it was read brings back what was read, but
\* for a NULL.
THEOREM WritesWhatWasRead == Spec => WriteBackIsWhatWasRead
<1>1. TInv /\ [Next]_vars =>
        [\A u \in held : db_tuser_update_user(u) /\ AsRead(u) =>
            /\ users' \subseteq users \cup {[u.read EXCEPT !.bio = PQgetvalue(u.read.bio)]}
            /\ u.read.last_online = NULL => users' = users]_vars
  <2> SUFFICES ASSUME TInv, NEW u \in held, db_tuser_update_user(u), AsRead(u)
               PROVE  /\ \A new \in users' \ users :
                            new = [u.read EXCEPT !.bio = PQgetvalue(u.read.bio)]
                      /\ u.read.last_online = NULL => users' = users
    OBVIOUS
  <2>1. UpdateUsers(u, u.username, u.bio, u.last_online)
    BY UpdateUserIs DEF AsRead
  <2>2. /\ u.username \in NameTypes /\ u.bio \in BioTypes
        /\ u.last_online \in OnlineTypes
    BY DEF TInv, TypesInv, UserTypes
  <2>3. /\ \A new \in users' \ users :
             /\ Stored(new)
             /\ \E row \in users :
                  /\ row.id = u.id
                  /\ new = Updated(row, u.username, u.bio, u.last_online)
        /\ u.last_online = "" => users' = users
    BY <2>1, <2>2, UpdateUsersKeeps
  <2>4. u.read.last_online = NULL => u.last_online = ""
    BY DEF AsRead, PQgetvalue
  <2> QED
    BY <2>3, <2>4, WrittenBack
<1> QED
  BY <1>1, TInvInvariant, PTL DEF Spec, WriteBackIsWhatWasRead

\* An expiry that is read and written back moves by one hour at the most.
THEOREM AtMostAnHour == Spec => ExpiryMovesAtMostAnHour
<1>1. TInv /\ [Next]_vars =>
        [db_tsession_update /\ ~session.edited
              /\ session.read_from - Zone \in (1 - Int32)..(Int32 - 1) =>
            \A row \in sessions' \ sessions :
                row.expires_at \in (session.read_from - 1)..(session.read_from + 1)]_vars
  <2> SUFFICES ASSUME TInv, db_tsession_update, ~session.edited,
                      session.read_from - Zone \in (1 - Int32)..(Int32 - 1),
                      NEW row \in sessions' \ sessions
               PROVE  row.expires_at \in (session.read_from - 1)..(session.read_from + 1)
    OBVIOUS
  <2> DEFINE t == session.read_from
             e == session.expires_at
  <2>1. session # NULL /\ row.expires_at = Localtime(e)
    BY UpdatedSession
  <2>2. t \in Int /\ Zone \in Int /\ Int32 \in Nat \ {0}
    BY <2>1, TimesAssumption DEF TInv, TypesInv, SessionTypes
  <2>3. e \in {Cut(t - Zone), Cut(t - Zone - 1)}
    BY <2>1 DEF TInv, AsReadInv, db_gen_parse_timestamp
  <2>4. t - Zone \in (1 - Int32)..(Int32 - 1)
    OBVIOUS
  <2> HIDE DEF t, e
  <2>5. t - Zone \in (-Int32)..(Int32 - 1) /\ t - Zone - 1 \in (-Int32)..(Int32 - 1)
    BY <2>2, <2>4
  <2>6. e = t - Zone \/ e = t - Zone - 1
    BY <2>3, <2>5, CutKeeps
  <2>7. Localtime(e) = e + Zone \/ Localtime(e) = e + Zone + 1
    BY <2>2, <2>6 DEF Localtime
  <2>8. Localtime(e) \in (t - 1)..(t + 1)
    BY <2>2, <2>6, <2>7
  <2> QED
    BY <2>1, <2>8 DEF t
<1> QED
  BY <1>1, TInvInvariant, PTL DEF Spec, ExpiryMovesAtMostAnHour
=============================================================================
