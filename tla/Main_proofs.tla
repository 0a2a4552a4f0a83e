----------------------------- MODULE Main_proofs -----------------------------
(***************************************************************************)
(* Proofs about Main for every number of starts and every size of the      *)
(* logger's ring.  MInv is the inductive invariant: how far a start or an  *)
(* end has come in descriptors, statements, signals and lines logged.      *)
(***************************************************************************)
EXTENDS Main, SequenceTheorems, TLAPS

\* The types, and the flags for what is open.
MainTypes ==
    /\ pc \in {"returned", "killed", "parse_config", "log_init", "init_plain_socket",
               "server_init", "db_init", "m_init_dbs", "parse_free_config", "signal",
               "main_loop", "cleanup", "cleanup_epoll", "exit", "log_close", "error"}
    /\ ret \in {"none", "ERROR", "0"}
    /\ config \in {"null", "set", "freed"}
    /\ m_sock_server \in BOOLEAN /\ m_epoll_fd \in BOOLEAN
    /\ fds \subseteq {"socket", "epoll", "postgres", "client"}
    /\ "socket" \in fds <=> m_sock_server
    /\ "epoll" \in fds <=> m_epoll_fd
    /\ failed \in BOOLEAN

\* A start, before the loop, and one that has failed.
Starting == {"parse_config", "log_init", "init_plain_socket", "server_init", "db_init",
             "m_init_dbs", "parse_free_config", "signal"}

\* How far the start has come, in descriptors, statements and signals.
StartInv ==
    /\ pc \in {"parse_config", "log_init", "init_plain_socket", "server_init"} => ~m_epoll_fd
    /\ pc = "server_init" => m_sock_server
    /\ pc \in {"db_init", "m_init_dbs", "parse_free_config", "signal", "main_loop"} =>
          m_sock_server /\ m_epoll_fd
    /\ pc \in {"m_init_dbs", "parse_free_config", "signal", "main_loop"} => "postgres" \in fds
    /\ pc \in Starting \cup {"error"} => "client" \notin fds /\ ret = "none"
    /\ pc = "main_loop" => ret = "none"
    /\ ret = "ERROR" => "client" \notin fds
    /\ pc \in {"log_init", "init_plain_socket", "server_init", "db_init",
               "m_init_dbs", "parse_free_config", "error"} => config = "set"
    /\ pc \in {"parse_config", "log_init", "init_plain_socket", "server_init",
               "db_init"} => statement = 1
    /\ pc = "m_init_dbs" => statement \in DOMAIN Statements
    /\ pc = "m_init_dbs" =>
          \A k \in 1..(statement - 1) :
              Statements[k] = Constraint \/ Statements[k].makes \in schema
    /\ pc \in {"parse_free_config", "signal", "main_loop"} => Tables \subseteq schema
    /\ pc \in Starting \ {"signal"} => handlers = {}
    /\ pc = "signal" => handlers \in {{}, {"SIGPIPE"}}
    /\ pc = "main_loop" => handlers = {"SIGPIPE", "SIGINT"}

\* How far the end has come.
EndInv ==
    /\ pc = "error" => failed
    /\ pc = "cleanup_epoll" => ~m_sock_server
    /\ pc \in {"exit", "log_close"} => failed \/ (~m_sock_server /\ ~m_epoll_fd)
    /\ pc = "returned" =>
          \/ fds \subseteq {"postgres"}
          \/ ret = "0" /\ (failed \/ fds \subseteq {"postgres", "client"})
    /\ pc = "returned" /\ ret = "0" => pending = <<>>

LoggerTypes ==
    /\ logged \in Seq(Lines)
    /\ pending \in Seq(Lines)
    /\ written \in Seq(Lines)
    /\ refused \in Seq(Lines)

\* What may have been logged so far.
Said ==
    {text \in Lines :
        /\ pc \notin {"parse_config", "log_init", "init_plain_socket", "server_init"}
        /\ pc \in {"db_init", "m_init_dbs", "parse_free_config", "signal", "main_loop"} =>
              text = "initialized"
        /\ pc \in {"error", "cleanup"} => text \in {"no socket", "initialized"}
        /\ pc = "cleanup_epoll" => text \in {"no socket", "initialized", "socket closed"}
        /\ pc = "exit" => text # "exiting"}

SaidInv == Elements(logged) \subseteq Said

LoggerInv ==
    /\ LoggerTypes
    /\ SaidInv
    /\ Elements(refused) \subseteq Elements(logged)
    /\ IsWithout(written \o pending, logged, Elements(refused))

MInv == MainTypes /\ StartInv /\ EndInv /\ LoggerInv

\* A log that was never opened holds nothing.
NewIsEmpty == phase = "new" => pending = <<>>

-----------------------------------------------------------------------------
(* What a log loses and keeps.                                             *)

\* Nothing was logged, nothing is kept.
LEMMA NothingKept == ASSUME NEW R PROVE IsWithout(<<>>, <<>>, R)
<1>1. DOMAIN <<>> = {}
  OBVIOUS
<1>2. PICK at : at \in [{} -> {}]
  <2>1. [i \in {} |-> i] \in [{} -> {}]
    OBVIOUS
  <2> QED
    BY <2>1
<1> QED
  BY <1>1, <1>2 DEF IsWithout

\* The places of a sequence with one more element.
LEMMA PlacesAppend ==
    ASSUME NEW S, NEW s \in Seq(S), NEW x \in S
    PROVE  /\ Append(s, x) \in Seq(S)
           /\ Len(s) \in Nat
           /\ DOMAIN s = 1..Len(s)
           /\ DOMAIN Append(s, x) = 1..(Len(s) + 1)
           /\ \A i \in 1..Len(s) : Append(s, x)[i] = s[i]
           /\ Append(s, x)[Len(s) + 1] = x
           /\ Elements(Append(s, x)) = Elements(s) \cup {x}
<1>1. /\ Append(s, x) \in Seq(S)
      /\ Len(Append(s, x)) = Len(s) + 1
      /\ Append(s, x)[Len(s) + 1] = x
      /\ \A i \in 1..Len(s) : Append(s, x)[i] = s[i]
      /\ DOMAIN Append(s, x) = 1..(Len(s) + 1)
      /\ DOMAIN s = 1..Len(s) /\ Len(s) \in Nat
  OBVIOUS
<1>2. 1..(Len(s) + 1) = 1..Len(s) \cup {Len(s) + 1}
  BY <1>1
<1>3. Elements(Append(s, x)) = Elements(s) \cup {x}
  <2>1. Elements(Append(s, x)) = {Append(s, x)[i] : i \in 1..Len(s) \cup {Len(s) + 1}}
    BY <1>1, <1>2 DEF Elements
  <2>2. Elements(s) = {Append(s, x)[i] : i \in 1..Len(s)}
    BY <1>1 DEF Elements
  <2> QED
    BY <1>1, <2>1, <2>2
<1> QED
  BY <1>1, <1>3

\* A line that is logged and kept is the last one kept.
LEMMA OneMoreKept ==
    ASSUME NEW S, NEW s \in Seq(S), NEW l \in Seq(S), NEW R, NEW x \in S,
           x \notin R, IsWithout(s, l, R)
    PROVE  IsWithout(Append(s, x), Append(l, x), R)
<1> DEFINE t == Append(s, x)
           k == Append(l, x)
           m == Len(s) + 1
           n == Len(l) + 1
<1>1. PICK at \in [DOMAIN s -> DOMAIN l] :
        /\ \A i, j \in DOMAIN s : i < j => at[i] < at[j]
        /\ \A i \in DOMAIN s : s[i] = l[at[i]]
        /\ \A p \in DOMAIN l : l[p] \notin R <=> \E i \in DOMAIN s : at[i] = p
  BY DEF IsWithout
<1>2. /\ Len(s) \in Nat /\ DOMAIN s = 1..(m - 1) /\ DOMAIN t = 1..m
      /\ \A i \in 1..(m - 1) : t[i] = s[i]
      /\ t[m] = x
  BY PlacesAppend
<1>3. /\ Len(l) \in Nat /\ DOMAIN l = 1..(n - 1) /\ DOMAIN k = 1..n
      /\ \A i \in 1..(n - 1) : k[i] = l[i]
      /\ k[n] = x
  BY PlacesAppend
<1>4. m \in Nat \ {0} /\ n \in Nat \ {0}
  BY <1>2, <1>3
<1> DEFINE to == [i \in 1..m |-> IF i = m THEN n ELSE at[i]]
<1>5. \A i \in 1..(m - 1) : at[i] \in 1..(n - 1)
  BY <1>1, <1>2, <1>3
<1> HIDE DEF t, k, m, n
<1>6. to \in [1..m -> 1..n]
  <2>1. ASSUME NEW i \in 1..m PROVE (IF i = m THEN n ELSE at[i]) \in 1..n
    BY <1>4, <1>5
  <2> QED
    BY <2>1
<1>7. \A i \in 1..(m - 1) : to[i] = at[i]
  BY <1>4
<1>8. to[m] = n
  BY <1>4
<1> HIDE DEF to
<1>9. ASSUME NEW i \in 1..m, NEW j \in 1..m, i < j
      PROVE  to[i] < to[j]
  <2>1. i \in 1..(m - 1)
    BY <1>4, <1>9
  <2>2. CASE j = m
    BY <1>4, <1>5, <1>7, <1>8, <2>1, <2>2
  <2>3. CASE j # m
    <3>1. j \in 1..(m - 1)
      BY <1>4, <2>3
    <3> QED
      BY <1>1, <1>2, <1>7, <1>9, <2>1, <3>1
  <2> QED
    BY <2>2, <2>3
<1>10. ASSUME NEW i \in 1..m
       PROVE  t[i] = k[to[i]]
  <2>1. CASE i = m
    BY <1>2, <1>3, <1>8, <2>1
  <2>2. CASE i # m
    <3>1. i \in 1..(m - 1)
      BY <1>4, <2>2
    <3> QED
      BY <1>1, <1>2, <1>3, <1>5, <1>7, <3>1
  <2> QED
    BY <2>1, <2>2
<1>11. ASSUME NEW p \in 1..n
       PROVE  k[p] \notin R <=> \E i \in 1..m : to[i] = p
  <2>1. CASE p = n
    BY <1>3, <1>4, <1>8, <2>1
  <2>2. CASE p # n
    <3>1. p \in 1..(n - 1)
      BY <1>4, <2>2
    <3>2. k[p] \notin R <=> \E i \in 1..(m - 1) : at[i] = p
      BY <1>1, <1>2, <1>3, <3>1
    <3>3. ASSUME NEW i \in 1..m, to[i] = p
          PROVE  i \in 1..(m - 1) /\ at[i] = p
      <4>1. i # m
        BY <1>8, <2>2, <3>3
      <4>2. i \in 1..(m - 1)
        BY <1>4, <4>1
      <4> QED
        BY <1>7, <3>3, <4>2
    <3>4. ASSUME NEW i \in 1..(m - 1), at[i] = p
          PROVE  i \in 1..m /\ to[i] = p
      BY <1>4, <1>7, <3>4
    <3> QED
      BY <3>2, <3>3, <3>4
  <2> QED
    BY <2>1, <2>2
<1>12. IsWithout(t, k, R)
  <2>1. to \in [DOMAIN t -> DOMAIN k]
    BY <1>2, <1>3, <1>6
  <2>2. \A i, j \in DOMAIN t : i < j => to[i] < to[j]
    BY <1>2, <1>9
  <2>3. \A i \in DOMAIN t : t[i] = k[to[i]]
    BY <1>2, <1>10
  <2>4. \A p \in DOMAIN k : k[p] \notin R <=> \E i \in DOMAIN t : to[i] = p
    BY <1>2, <1>3, <1>11
  <2> QED
    BY <2>1, <2>2, <2>3, <2>4 DEF IsWithout
<1> QED
  BY <1>12 DEF t, k

\* A line that is logged for the first time and refused is not kept.
LEMMA OneMoreDropped ==
    ASSUME NEW S, NEW s \in Seq(S), NEW l \in Seq(S), NEW R, NEW x \in S,
           x \notin Elements(l), IsWithout(s, l, R)
    PROVE  IsWithout(s, Append(l, x), R \cup {x})
<1> DEFINE k == Append(l, x)
           n == Len(l) + 1
<1>1. PICK at \in [DOMAIN s -> DOMAIN l] :
        /\ \A i, j \in DOMAIN s : i < j => at[i] < at[j]
        /\ \A i \in DOMAIN s : s[i] = l[at[i]]
        /\ \A p \in DOMAIN l : l[p] \notin R <=> \E i \in DOMAIN s : at[i] = p
  BY DEF IsWithout
<1>2. /\ Len(l) \in Nat /\ DOMAIN l = 1..(n - 1) /\ DOMAIN k = 1..n
      /\ \A i \in 1..(n - 1) : k[i] = l[i]
      /\ k[n] = x
  BY PlacesAppend
<1>3. n \in Nat \ {0}
  BY <1>2
<1> HIDE DEF k, n
<1>4. \A i \in DOMAIN s : at[i] \in 1..(n - 1)
  BY <1>1, <1>2
<1>5. at \in [DOMAIN s -> 1..n]
  <2>1. 1..(n - 1) \subseteq 1..n
    BY <1>3
  <2> QED
    BY <1>1, <1>2, <2>1
<1>6. \A i \in DOMAIN s : s[i] = k[at[i]]
  BY <1>1, <1>2, <1>4
<1>7. ASSUME NEW p \in 1..n
      PROVE  k[p] \notin R \cup {x} <=> \E i \in DOMAIN s : at[i] = p
  <2>1. CASE p = n
    <3>1. n \notin 1..(n - 1)
      BY <1>3
    <3> QED
      BY <1>2, <1>4, <2>1, <3>1
  <2>2. CASE p # n
    <3>1. p \in 1..(n - 1)
      BY <1>3, <2>2
    <3>2. l[p] # x
      BY <1>2, <3>1 DEF Elements
    <3> QED
      BY <1>1, <1>2, <3>1, <3>2
  <2> QED
    BY <2>1, <2>2
<1>8. IsWithout(s, k, R \cup {x})
  <2>1. at \in [DOMAIN s -> DOMAIN k]
    BY <1>2, <1>5
  <2>2. \A p \in DOMAIN k : k[p] \notin R \cup {x} <=> \E i \in DOMAIN s : at[i] = p
    BY <1>2, <1>7
  <2> QED
    BY <1>1, <1>6, <2>1, <2>2 DEF IsWithout
<1> QED
  BY <1>8 DEF k

\* Taking a line from one sequence to the other changes nothing in their order.
LEMMA MovedOver ==
    ASSUME NEW S, NEW a \in Seq(S), NEW b \in Seq(S), b # <<>>
    PROVE  Append(a, Head(b)) \o Tail(b) = a \o b
<1>1. Head(b) \in S /\ Tail(b) \in Seq(S)
  BY HeadTailProperties
<1>2. Append(a, Head(b)) = a \o <<Head(b)>>
  BY <1>1, AppendIsConcat
<1>3. b = <<Head(b)>> \o Tail(b)
  <2>1. Len(b) \in Nat \ {0}
    BY EmptySeq
  <2>2. SubSeq(b, 1, Len(b)) = <<b[1]>> \o SubSeq(b, 2, Len(b))
    <3>1. 1 \in 1..Len(b) /\ Len(b) \in 1..Len(b)
      BY <2>1
    <3>2. SubSeq(b, 1, Len(b)) = <<b[1]>> \o SubSeq(b, 1 + 1, Len(b))
      BY <3>1, SubSeqRecursiveFirst
    <3> QED
      BY <3>2
  <2>3. SubSeq(b, 1, Len(b)) = b /\ Tail(b) = SubSeq(b, 2, Len(b))
    BY SubSeqFull, TailIsSubSeq
  <2>4. Head(b) = b[1]
    OBVIOUS
  <2> QED
    BY <2>2, <2>3, <2>4
<1>4. <<Head(b)>> \in Seq(S)
  BY <1>1
<1>5. (a \o <<Head(b)>>) \o Tail(b) = a \o (<<Head(b)>> \o Tail(b))
  BY <1>1, <1>4, ConcatAssociative
<1> QED
  BY <1>2, <1>3, <1>5

\* A line that joins the end of what is pending is the last of all.
LEMMA JoinedLast ==
    ASSUME NEW S, NEW a \in Seq(S), NEW b \in Seq(S), NEW x \in S
    PROVE  a \o b \in Seq(S) /\ a \o Append(b, x) = Append(a \o b, x)
<1>1. a \o b \in Seq(S)
  BY ConcatProperties
<1>2. Append(b, x) = b \o <<x>> /\ Append(a \o b, x) = (a \o b) \o <<x>>
  BY <1>1, AppendIsConcat
<1>3. <<x>> \in Seq(S)
  OBVIOUS
<1>4. (a \o b) \o <<x>> = a \o (b \o <<x>>)
  BY <1>3, ConcatAssociative
<1> QED
  BY <1>1, <1>2, <1>4

-----------------------------------------------------------------------------
(* The invariant.                                                          *)

\* A step that logs nothing, and comes no nearer to the start.
LEMMA NothingLogged ==
    ASSUME LoggerInv, UNCHANGED <<logged, pending, written, refused>>, Said \subseteq Said'
    PROVE  LoggerInv'
BY DEF LoggerInv, LoggerTypes, SaidInv, Elements

\* log_msg with a line that no step before has logged.
LEMMA LineLogged ==
    ASSUME LoggerInv, NEW text \in Lines, text \notin Said, log_msg(text),
           Said \cup {text} \subseteq Said'
    PROVE  LoggerInv'
<1>1. /\ logged \in Seq(Lines) /\ pending \in Seq(Lines)
      /\ written \in Seq(Lines) /\ refused \in Seq(Lines)
      /\ Elements(logged) \subseteq Said
      /\ Elements(refused) \subseteq Elements(logged)
      /\ IsWithout(written \o pending, logged, Elements(refused))
  BY DEF LoggerInv, LoggerTypes, SaidInv
<1>2. text \notin Elements(logged) /\ text \notin Elements(refused)
  BY <1>1
<1>3. CASE phase = "open" /\ Logger!Accept(text) /\ logged' = Append(logged, text)
  <2>1. /\ pending' = Append(pending, text)
        /\ written' = written /\ refused' = refused
    BY <1>3 DEF Logger!Accept
  <2>2. /\ pending' \in Seq(Lines) /\ logged' \in Seq(Lines)
        /\ Elements(logged') = Elements(logged) \cup {text}
    BY <1>1, <1>3, <2>1, PlacesAppend
  <2>3. /\ written \o pending \in Seq(Lines)
        /\ written \o Append(pending, text) = Append(written \o pending, text)
    BY <1>1, JoinedLast
  <2>4. IsWithout(Append(written \o pending, text), Append(logged, text), Elements(refused))
    BY <1>1, <1>2, <2>3, OneMoreKept
  <2>5. IsWithout(written' \o pending', logged', Elements(refused'))
    BY <1>3, <2>1, <2>3, <2>4
  <2>6. Elements(logged') \subseteq Said' /\ Elements(refused') \subseteq Elements(logged')
    BY <1>1, <2>1, <2>2
  <2> QED
    BY <1>1, <2>1, <2>2, <2>5, <2>6 DEF LoggerInv, LoggerTypes, SaidInv
<1>4. CASE phase = "open" /\ Logger!Refuse(text) /\ logged' = Append(logged, text)
  <2>1. /\ refused' = Append(refused, text)
        /\ written' = written /\ pending' = pending
    BY <1>4 DEF Logger!Refuse
  <2>2. /\ refused' \in Seq(Lines) /\ logged' \in Seq(Lines)
        /\ Elements(logged') = Elements(logged) \cup {text}
        /\ Elements(refused') = Elements(refused) \cup {text}
    BY <1>1, <1>4, <2>1, PlacesAppend
  <2>3. written \o pending \in Seq(Lines)
    BY <1>1, ConcatProperties
  <2>4. IsWithout(written \o pending, Append(logged, text), Elements(refused) \cup {text})
    BY <1>1, <1>2, <2>3, OneMoreDropped
  <2>5. IsWithout(written' \o pending', logged', Elements(refused'))
    BY <1>4, <2>1, <2>2, <2>4
  <2>6. Elements(logged') \subseteq Said' /\ Elements(refused') \subseteq Elements(logged')
    BY <1>1, <2>2
  <2> QED
    BY <1>1, <2>1, <2>2, <2>5, <2>6 DEF LoggerInv, LoggerTypes, SaidInv
<1>5. CASE UNCHANGED <<chan, logged>>
  BY <1>5, NothingLogged DEF chan
<1> QED
  BY <1>3, <1>4, <1>5 DEF log_msg

\* The logger's worker moves a line from what is pending to the file.
LEMMA WorkerStep ==
    ASSUME MInv, log_worker_thread
    PROVE  MInv'
<1>1. /\ pending # <<>> /\ Alive
      /\ written' = Append(written, Head(pending))
      /\ pending' = Tail(pending)
      /\ refused' = refused
      /\ UNCHANGED <<pc, ret, process, server, database, failed, logged>>
  BY DEF log_worker_thread, Logger!Deliver
<1>2. written \in Seq(Lines) /\ pending \in Seq(Lines)
  BY DEF MInv, LoggerInv, LoggerTypes
<1>3. Head(pending) \in Lines /\ pending' \in Seq(Lines)
  BY <1>1, <1>2, HeadTailProperties
<1>4. written' \in Seq(Lines)
  BY <1>1, <1>2, <1>3, PlacesAppend
<1>5. written' \o pending' = written \o pending
  BY <1>1, <1>2, MovedOver
<1>6. Said' = Said
  BY <1>1 DEF Said
<1>7. Elements(refused)' = Elements(refused) /\ Elements(logged)' = Elements(logged)
  BY <1>1 DEF Elements
<1>8. IsWithout(written \o pending, logged, Elements(refused))'
  BY <1>1, <1>5, <1>7 DEF MInv, LoggerInv
<1>9. LoggerInv'
  BY <1>1, <1>3, <1>4, <1>6, <1>7, <1>8 DEF MInv, LoggerInv, LoggerTypes, SaidInv
<1>10. MainTypes'
  BY <1>1 DEF MInv, MainTypes, process, server
<1>11. StartInv'
  BY <1>1 DEF MInv, StartInv, Starting, process, server, database
<1>12. EndInv'
  BY <1>1 DEF MInv, EndInv, Alive, process, server
<1> QED
  BY <1>9, <1>10, <1>11, <1>12 DEF MInv

\* The list of the statements.
LEMMA StatementsShape ==
    /\ Len(Statements) = 10 /\ DOMAIN Statements = 1..10
    /\ \A k \in 1..10 : Statements[k] = Constraint \/ Statements[k].if_not_exists
<1>1. Len(Statements) = 10 /\ DOMAIN Statements = 1..10
  BY DEF Statements
<1>2. ASSUME NEW k \in 1..10
      PROVE  Statements[k] = Constraint \/ Statements[k].if_not_exists
  <2>1. \A name : Table(name).if_not_exists = TRUE
    BY DEF Table
  <2>2. Statements[k] = Constraint \/ \E name : Statements[k] = Table(name)
    BY DEF Statements
  <2> QED
    BY <2>1, <2>2
<1> QED
  BY <1>1, <1>2

\* A new process, whatever the old one left.
LEMMA StartStep ==
    ASSUME MInv, Start
    PROVE  MInv'
<1>1. /\ pc' = "parse_config" /\ ret' = "none" /\ config' = "null"
      /\ m_sock_server' = FALSE /\ m_epoll_fd' = FALSE /\ fds' = {}
      /\ handlers' = {} /\ statement' = 1 /\ failed' = FALSE
  BY DEF Start
<1>2. logged' = <<>> /\ pending' = <<>> /\ written' = <<>> /\ refused' = <<>>
  BY DEF Start
<1>3. <<>> \in Seq(Lines) /\ <<>> \o <<>> = <<>>
  BY EmptySeq, ConcatEmptySeq
<1>4. Elements(<<>>) = {}
  <2>1. DOMAIN <<>> = {}
    OBVIOUS
  <2> QED
    BY <2>1 DEF Elements
<1>5. IsWithout(<<>> \o <<>>, <<>>, Elements(<<>>))
  BY <1>3, NothingKept
<1>6. LoggerInv'
  BY <1>2, <1>3, <1>4, <1>5 DEF LoggerInv, LoggerTypes, SaidInv
<1>7. MainTypes' /\ StartInv' /\ EndInv'
  BY <1>1 DEF MainTypes, StartInv, EndInv, Starting
<1> QED
  BY <1>6, <1>7 DEF MInv

\* Before the first process.
LEMMA MInvInit == Init => MInv
<1> SUFFICES ASSUME Init PROVE MInv
  OBVIOUS
<1>1. /\ pc = "returned" /\ ret = "none" /\ config = "null"
      /\ m_sock_server = FALSE /\ m_epoll_fd = FALSE /\ fds = {}
      /\ handlers = {} /\ statement = 1 /\ failed = FALSE
  BY DEF Init
<1>2. logged = <<>> /\ pending = <<>> /\ written = <<>> /\ refused = <<>>
  BY DEF Init, Logger!Init
<1>3. <<>> \in Seq(Lines) /\ <<>> \o <<>> = <<>>
  BY EmptySeq, ConcatEmptySeq
<1>4. Elements(<<>>) = {}
  <2>1. DOMAIN <<>> = {}
    OBVIOUS
  <2> QED
    BY <2>1 DEF Elements
<1>5. IsWithout(<<>> \o <<>>, <<>>, Elements(<<>>))
  BY <1>3, NothingKept
<1>6. LoggerInv
  BY <1>2, <1>3, <1>4, <1>5 DEF LoggerInv, LoggerTypes, SaidInv
<1>7. MainTypes /\ StartInv /\ EndInv
  BY <1>1 DEF MainTypes, StartInv, EndInv, Starting
<1> QED
  BY <1>6, <1>7 DEF MInv

\* The start, up to the statements.
LEMMA StartUpStep ==
    ASSUME MInv, parse_config \/ log_init \/ init_plain_socket \/ server_init \/ db_init
    PROVE  MInv'
<1> USE DEF MInv
<1>1. CASE parse_config
  <2>1. LoggerInv'
    BY <1>1, NothingLogged DEF parse_config, chan, Said
  <2>2. MainTypes'
    BY <1>1 DEF parse_config, MainTypes, Parsed, server
  <2>3. StartInv' /\ EndInv'
    BY <1>1 DEF parse_config, StartInv, EndInv, Starting, Parsed, server, database
  <2> QED
    BY <2>1, <2>2, <2>3
<1>2. CASE log_init
  <2>1. /\ pc = "log_init" /\ pc' = "init_plain_socket"
        /\ UNCHANGED <<ret, process, server, database, logged>>
        /\ UNCHANGED <<pending, written, refused>>
        /\ failed' \in {failed, TRUE}
    BY <1>2 DEF log_init, Logger!Open, chan
  <2>2. LoggerInv'
    BY <2>1, NothingLogged DEF Said
  <2>3. MainTypes'
    BY <2>1 DEF MainTypes, process, server
  <2>4. StartInv' /\ EndInv'
    BY <2>1 DEF StartInv, EndInv, Starting, process, server, database
  <2> QED
    BY <2>2, <2>3, <2>4
<1>3. CASE init_plain_socket
  <2>1. /\ pc = "init_plain_socket"
        /\ UNCHANGED <<ret, process, m_epoll_fd, database>>
    BY <1>3 DEF init_plain_socket
  <2>2. CASE m_sock_server' = TRUE /\ fds' = fds \cup {"socket"} /\ pc' = "server_init"
             /\ failed' \in BOOLEAN /\ UNCHANGED <<logged, chan>>
    <3>1. LoggerInv'
      BY <2>1, <2>2, NothingLogged DEF chan, Said
    <3>2. MainTypes'
      BY <2>1, <2>2 DEF MainTypes, process
    <3>3. StartInv' /\ EndInv'
      BY <2>1, <2>2 DEF StartInv, EndInv, Starting, process, database
    <3> QED
      BY <3>1, <3>2, <3>3
  <2>3. CASE failed' = TRUE /\ log_msg("no socket") /\ pc' = "error"
             /\ UNCHANGED <<m_sock_server, fds>>
    <3>1. "no socket" \in Lines /\ "no socket" \notin Said /\ Said \cup {"no socket"} \subseteq Said'
      BY <2>1, <2>3 DEF Said, Lines
    <3>2. LoggerInv'
      BY <2>3, <3>1, LineLogged
    <3>3. MainTypes'
      BY <2>1, <2>3 DEF MainTypes, process
    <3>4. StartInv' /\ EndInv'
      BY <2>1, <2>3 DEF StartInv, EndInv, Starting, process, database
    <3> QED
      BY <3>2, <3>3, <3>4
  <2>4. PICK options \in SUBSET {"SO_REUSEADDR"}, fault \in BOOLEAN :
          /\ failed' = (failed \/ fault \/ options # {"SO_REUSEADDR"})
          /\ IF Binds(options) /\ ~fault
             THEN /\ m_sock_server' = TRUE /\ fds' = fds \cup {"socket"}
                  /\ pc' = "server_init" /\ UNCHANGED <<logged, chan>>
             ELSE log_msg("no socket") /\ pc' = "error" /\ UNCHANGED <<m_sock_server, fds>>
    BY <1>3 DEF init_plain_socket
  <2>5. CASE Binds(options) /\ ~fault
    BY <2>2, <2>4, <2>5 DEF MainTypes
  <2>6. CASE ~(Binds(options) /\ ~fault)
    <3>1. fault \/ options # {"SO_REUSEADDR"}
      BY <2>6 DEF Binds
    <3>2. failed' = TRUE
      BY <2>4, <3>1 DEF MainTypes
    <3> QED
      BY <2>3, <2>4, <2>6, <3>2
  <2> QED
    BY <2>5, <2>6
<1>4. CASE server_init
  <2>1. CASE m_epoll_fd' = TRUE /\ fds' = fds \cup {"epoll"} /\ log_msg("initialized")
             /\ pc' = "db_init" /\ UNCHANGED failed
    <3>1. "initialized" \in Lines /\ "initialized" \notin Said
          /\ Said \cup {"initialized"} \subseteq Said'
      BY <1>4, <2>1 DEF server_init, Said, Lines
    <3>2. LoggerInv'
      BY <2>1, <3>1, LineLogged
    <3>3. MainTypes'
      BY <1>4, <2>1 DEF server_init, MainTypes, process
    <3>4. StartInv' /\ EndInv'
      BY <1>4, <2>1 DEF server_init, StartInv, EndInv, Starting, process, database
    <3> QED
      BY <3>2, <3>3, <3>4
  <2>2. CASE failed' = TRUE /\ m_epoll_fd' \in BOOLEAN
             /\ fds' = (IF m_epoll_fd' THEN fds \cup {"epoll"} ELSE fds)
             /\ pc' = "error" /\ UNCHANGED <<logged, chan>>
    <3>1. LoggerInv'
      BY <1>4, <2>2, NothingLogged DEF server_init, chan, Said
    <3>2. m_epoll_fd = FALSE /\ m_sock_server = TRUE
      BY <1>4 DEF server_init, MainTypes, StartInv
    <3>3. MainTypes'
      BY <1>4, <2>2, <3>2 DEF server_init, MainTypes, process
    <3>4. StartInv' /\ EndInv'
      BY <1>4, <2>2 DEF server_init, StartInv, EndInv, Starting, process, database
    <3> QED
      BY <3>1, <3>3, <3>4
  <2> QED
    BY <1>4, <2>1, <2>2 DEF server_init
<1>5. CASE db_init
  <2>1. /\ pc = "db_init" /\ pc' \in {"m_init_dbs", "error"}
        /\ UNCHANGED <<ret, process, m_sock_server, m_epoll_fd, database, logged, chan>>
        /\ failed' \in BOOLEAN /\ (pc' = "error" => failed')
        /\ fds' \in {fds, fds \cup {"postgres"}}
        /\ pc' = "m_init_dbs" => fds' = fds \cup {"postgres"}
    BY <1>5 DEF db_init, MainTypes
  <2>2. LoggerInv'
    BY <2>1, NothingLogged DEF Said, chan
  <2>3. MainTypes'
    BY <2>1 DEF MainTypes, process
  <2>4. StartInv' /\ EndInv'
    BY <2>1, StatementsShape DEF StartInv, EndInv, Starting, process, database
  <2> QED
    BY <2>2, <2>3, <2>4
<1> QED
  BY <1>1, <1>2, <1>3, <1>4, <1>5

\* Where a statement stands when nothing outside fails: done, or the constraint.
LEMMA StatementDone ==
    ASSUME MInv, m_init_dbs
    PROVE  /\ schema \subseteq schema'
           /\ \/ /\ NextStatement /\ failed' = failed
                 /\ Stmt = Constraint \/ Stmt.makes \in schema'
              \/ failed' = TRUE /\ pc' = "error" /\ UNCHANGED statement
<1>1. PICK broken \in BOOLEAN, fault \in BOOLEAN :
        /\ schema' \in {schema, schema \cup {Stmt.makes}}
        /\ IF Works(broken) THEN fault \/ Stmt.makes \in schema'
                            ELSE schema' = schema
        /\ IF FailureIgnored \/ (Works(broken) /\ ~fault)
           THEN NextStatement /\ UNCHANGED failed
           ELSE pc' = "error" /\ failed' = (failed \/ fault) /\ UNCHANGED statement
  BY DEF m_init_dbs
<1>2. Stmt = Constraint \/ Stmt.if_not_exists
  BY StatementsShape DEF MInv, StartInv, m_init_dbs, Stmt
<1>3. CASE FailureIgnored
  BY <1>1, <1>3 DEF FailureIgnored
<1>4. CASE ~FailureIgnored /\ ~fault
  <2>1. Works(broken)
    BY <1>2, <1>4 DEF Works, FailureIgnored
  <2> QED
    BY <1>1, <1>4, <2>1
<1>5. CASE ~FailureIgnored /\ fault
  <2>1. failed' = TRUE /\ pc' = "error" /\ UNCHANGED statement
    BY <1>1, <1>5 DEF MInv, MainTypes
  <2> QED
    BY <1>1, <2>1
<1> QED
  BY <1>3, <1>4, <1>5

\* The statements, one after the other: each is done, or need not be.
LEMMA StatementStep ==
    ASSUME MInv, m_init_dbs
    PROVE  MInv'
<1>1. /\ pc = "m_init_dbs" /\ statement \in 1..10
      /\ UNCHANGED <<ret, process, server, logged, chan>>
      /\ m_sock_server /\ m_epoll_fd /\ config = "set" /\ "postgres" \in fds
      /\ "client" \notin fds /\ ret = "none" /\ handlers = {}
      /\ \A k \in 1..(statement - 1) :
            Statements[k] = Constraint \/ Statements[k].makes \in schema
  BY StatementsShape DEF m_init_dbs, MInv, StartInv, Starting
<1>2. CASE /\ NextStatement
           /\ schema \subseteq schema' /\ failed' = failed
           /\ Stmt = Constraint \/ Stmt.makes \in schema'
  <2>1. statement' = statement + 1 /\ pc' = IF statement' > 10 THEN "parse_free_config" ELSE pc
    BY <1>2, StatementsShape DEF NextStatement
  <2>2. \A k \in 1..statement : Statements[k] = Constraint \/ Statements[k].makes \in schema'
    <3>1. ASSUME NEW k \in 1..statement PROVE k = statement \/ k \in 1..(statement - 1)
      BY <1>1
    <3> QED
      BY <1>1, <1>2, <3>1 DEF Stmt
  <2>3. LoggerInv'
    BY <1>1, <2>1, NothingLogged DEF Said, chan, MInv
  <2>4. MainTypes'
    BY <1>1, <1>2, <2>1 DEF MInv, MainTypes, process, server
  <2>5. CASE statement = 10
    <3>1. pc' = "parse_free_config"
      BY <2>1, <2>5
    <3>2. Tables' \subseteq schema'
      BY <2>2, <2>5, StatementsShape DEF Tables
    <3>3. StartInv' /\ EndInv'
      BY <1>1, <3>1, <3>2 DEF StartInv, EndInv, Starting, process, server
    <3> QED
      BY <2>3, <2>4, <3>3 DEF MInv
  <2>6. CASE statement # 10
    <3>1. pc' = "m_init_dbs" /\ statement' \in 1..10 /\ statement' - 1 = statement
      BY <1>1, <2>1, <2>6
    <3>2. StartInv' /\ EndInv'
      BY <1>1, <2>2, <3>1, StatementsShape DEF StartInv, EndInv, Starting, process, server
    <3> QED
      BY <2>3, <2>4, <3>2 DEF MInv
  <2> QED
    BY <2>5, <2>6
<1>3. CASE failed' = TRUE /\ pc' = "error" /\ UNCHANGED statement
  <2>1. LoggerInv'
    BY <1>1, <1>3, NothingLogged DEF Said, chan, MInv
  <2>2. MainTypes'
    BY <1>1, <1>3 DEF MInv, MainTypes, process, server
  <2>3. StartInv' /\ EndInv'
    BY <1>1, <1>3 DEF StartInv, EndInv, Starting, process, server
  <2> QED
    BY <2>1, <2>2, <2>3 DEF MInv
<1> QED
  BY <1>2, <1>3, StatementDone

\* The loop, from its entry to its end, and what may happen at any time.
LEMMA LoopStep ==
    ASSUME MInv,
           \/ parse_free_config \/ signal \/ signal_handler \/ server_select
           \/ main_loop_ends \/ main_loop_fails \/ Kill
    PROVE  MInv'
<1> USE DEF MInv
<1>1. CASE main_loop_fails
  <2>1. /\ pc = "main_loop" /\ pc' = "exit" /\ failed' = TRUE /\ log_msg("loop error")
        /\ UNCHANGED <<ret, process, server, database>>
    BY <1>1 DEF main_loop_fails
  <2>2. "loop error" \in Lines /\ "loop error" \notin Said
        /\ Said \cup {"loop error"} \subseteq Said'
    BY <2>1 DEF Said, Lines
  <2>3. LoggerInv'
    BY <2>1, <2>2, LineLogged
  <2>4. MainTypes'
    BY <2>1 DEF MainTypes, process, server
  <2>5. StartInv' /\ EndInv'
    BY <2>1 DEF StartInv, EndInv, Starting, process, server
  <2> QED
    BY <2>3, <2>4, <2>5
<1>2. CASE parse_free_config \/ signal
  <2>1. /\ pc \in {"parse_free_config", "signal"} /\ pc' \in {"signal", "main_loop"}
        /\ config' \in {config, "freed"}
        /\ pc = "parse_free_config" => pc' = "signal" /\ handlers' = handlers
        /\ pc = "signal" => \/ pc' = "signal" /\ handlers' = {"SIGPIPE"}
                            \/ pc' = "main_loop" /\ handlers # {}
                                                /\ handlers' = handlers \cup {"SIGINT"}
        /\ UNCHANGED <<ret, server, database, failed, logged, chan>>
    BY <1>2 DEF parse_free_config, signal
  <2>2. LoggerInv'
    BY <2>1, NothingLogged DEF Said, chan
  <2>3. MainTypes'
    BY <2>1 DEF MainTypes, server
  <2>4. StartInv'
    BY <2>1 DEF StartInv, Starting, server, database, Tables
  <2>5. EndInv'
    BY <2>1 DEF EndInv
  <2> QED
    BY <2>2, <2>3, <2>4, <2>5
<1>3. CASE signal_handler
  <2>1. UNCHANGED <<pc, ret, config, handlers, server, database, failed, logged, chan>>
    BY <1>3 DEF signal_handler
  <2>2. LoggerInv'
    BY <2>1, NothingLogged DEF Said, chan
  <2>3. MainTypes'
    BY <2>1 DEF MainTypes, server
  <2>4. StartInv' /\ EndInv'
    BY <2>1 DEF StartInv, EndInv, Starting, server, database, chan, Tables
  <2> QED
    BY <2>2, <2>3, <2>4
<1>4. CASE server_select
  <2>1. /\ pc = "main_loop" /\ fds' \in {fds \cup {"client"}, fds \ {"client"}}
        /\ UNCHANGED <<pc, ret, process, m_sock_server, m_epoll_fd, database, failed,
                       logged, chan>>
    BY <1>4 DEF server_select
  <2>2. LoggerInv'
    BY <2>1, NothingLogged DEF Said, chan
  <2>3. MainTypes'
    BY <2>1 DEF MainTypes, process
  <2>4. ret # "ERROR"
    BY <2>1 DEF StartInv, EndInv, Starting
  <2>5. StartInv' /\ EndInv'
    BY <2>1, <2>4 DEF StartInv, EndInv, Starting, process, database, Tables
  <2> QED
    BY <2>2, <2>3, <2>5
<1>5. CASE main_loop_ends \/ Kill
  <2>1. /\ pc' \in {"cleanup", "killed"} /\ (pc' = "cleanup" => pc = "main_loop")
        /\ UNCHANGED <<ret, process, server, database, failed, logged, chan>>
    BY <1>5 DEF main_loop_ends, Kill
  <2>2. Said \subseteq Said'
    BY <2>1 DEF Said, Lines
  <2>3. LoggerInv'
    BY <2>1, <2>2, NothingLogged DEF chan
  <2>4. MainTypes'
    BY <2>1 DEF MainTypes, process, server
  <2>5. StartInv' /\ EndInv'
    BY <2>1 DEF StartInv, EndInv, Starting, server, process
  <2> QED
    BY <2>3, <2>4, <2>5
<1> QED
  BY <1>1, <1>2, <1>3, <1>4, <1>5

\* The two ends of the process.
LEMMA EndStep ==
    ASSUME MInv, NewIsEmpty, error \/ server_cleanup_socket \/ server_cleanup_epoll \/ exit \/ log_close
    PROVE  MInv'
<1> USE DEF MInv
<1>1. CASE error
  <2>1. /\ pc = "error" /\ pc' = "cleanup" /\ config' = "freed" /\ ret' = "ERROR"
        /\ UNCHANGED <<server, failed, logged, chan>>
    BY <1>1 DEF error
  <2>2. LoggerInv'
    BY <2>1, NothingLogged DEF Said, chan
  <2>3. MainTypes'
    BY <2>1 DEF MainTypes, server
  <2>4. StartInv' /\ EndInv'
    BY <2>1 DEF StartInv, EndInv, Starting, server
  <2> QED
    BY <2>2, <2>3, <2>4
<1>2. CASE server_cleanup_socket
  <2>1. /\ pc = "cleanup" /\ pc' = "cleanup_epoll" /\ m_sock_server' = FALSE
        /\ fds' = fds \ {"socket"}
        /\ UNCHANGED <<ret, process, m_epoll_fd, failed>>
    BY <1>2 DEF server_cleanup_socket, HasSocket, MainTypes
  <2>2. LoggerInv'
    <3>1. "socket closed" \in Lines /\ "socket closed" \notin Said
          /\ Said \cup {"socket closed"} \subseteq Said'
      BY <2>1 DEF Said, Lines
    <3>2. CASE log_msg("socket closed")
      BY <3>1, <3>2, LineLogged
    <3>3. CASE UNCHANGED <<logged, chan>>
      BY <3>1, <3>3, NothingLogged DEF chan
    <3> QED
      BY <1>2, <3>2, <3>3 DEF server_cleanup_socket
  <2>3. MainTypes'
    BY <2>1 DEF MainTypes, process
  <2>4. StartInv' /\ EndInv'
    BY <2>1 DEF StartInv, EndInv, Starting, server
  <2> QED
    BY <2>2, <2>3, <2>4
<1>3. CASE server_cleanup_epoll
  <2>1. /\ pc = "cleanup_epoll" /\ m_epoll_fd' = FALSE
        /\ pc' = IF ret = "ERROR" THEN "returned" ELSE "exit"
        /\ fds' = fds \ {"epoll"}
        /\ UNCHANGED <<ret, process, m_sock_server, failed>>
    BY <1>3 DEF server_cleanup_epoll, MainTypes
  <2>2. LoggerInv'
    <3>1. "epoll closed" \in Lines /\ "epoll closed" \notin Said
          /\ Said \cup {"epoll closed"} \subseteq Said'
      BY <2>1 DEF Said, Lines
    <3>2. CASE log_msg("epoll closed")
      BY <3>1, <3>2, LineLogged
    <3>3. CASE UNCHANGED <<logged, chan>>
      BY <3>1, <3>3, NothingLogged DEF chan
    <3> QED
      BY <1>3, <3>2, <3>3 DEF server_cleanup_epoll
  <2>3. fds' \subseteq {"postgres", "client"} /\ m_sock_server' = FALSE
    BY <2>1 DEF MainTypes, EndInv
  <2>4. MainTypes'
    BY <2>1, <2>3 DEF MainTypes, process
  <2>5. StartInv' /\ EndInv'
    BY <2>1, <2>3 DEF StartInv, EndInv, Starting, server
  <2> QED
    BY <2>2, <2>4, <2>5
<1>4. CASE exit
  <2>1. /\ pc = "exit" /\ pc' = "log_close" /\ log_msg("exiting")
        /\ UNCHANGED <<ret, process, server, failed>>
    BY <1>4 DEF exit
  <2>2. "exiting" \in Lines /\ "exiting" \notin Said /\ Said \cup {"exiting"} \subseteq Said'
    BY <2>1 DEF Said, Lines
  <2>3. LoggerInv'
    BY <2>1, <2>2, LineLogged
  <2>4. MainTypes'
    BY <2>1 DEF MainTypes, process, server
  <2>5. StartInv' /\ EndInv'
    BY <2>1 DEF StartInv, EndInv, Starting, server
  <2> QED
    BY <2>3, <2>4, <2>5
<1>5. CASE log_close
  <2>1. /\ pc = "log_close"
        /\ \/ ret' = "0" /\ pc' = "returned" /\ pending = <<>>
           \/ ret' = ret /\ pc' = "killed"
        /\ UNCHANGED <<process, server, failed, logged, pending, written, refused>>
    BY <1>5 DEF log_close, CloseLogger, Logger!Close, chan, NewIsEmpty
  <2>2. Said \subseteq Said'
    BY <2>1 DEF Said
  <2>3. LoggerInv'
    BY <2>1, <2>2, NothingLogged
  <2>4. MainTypes'
    BY <2>1 DEF MainTypes, process, server
  <2>5. StartInv' /\ EndInv'
    BY <2>1 DEF MainTypes, StartInv, EndInv, Starting, server
  <2> QED
    BY <2>3, <2>4, <2>5
<1> QED
  BY <1>1, <1>2, <1>3, <1>4, <1>5

\* Every step of main, of the logger's worker and of the world around them.
LEMMA MInvStep ==
    ASSUME MInv, NewIsEmpty, [Next]_vars
    PROVE  MInv'
<1>1. CASE UNCHANGED vars
  <2>1. /\ UNCHANGED <<pc, ret, process, server, database, failed, logged>>
        /\ UNCHANGED <<pending, written, refused>>
    BY <1>1 DEF vars, chan
  <2>2. LoggerInv'
    BY <2>1, NothingLogged DEF MInv, Said
  <2>3. MainTypes' /\ StartInv' /\ EndInv'
    BY <2>1 DEF MInv, MainTypes, StartInv, EndInv, Starting, process, server, database, Tables
  <2> QED
    BY <2>2, <2>3 DEF MInv
<1> QED
  BY <1>1, StartUpStep, StatementStep, LoopStep, EndStep, StartStep, WorkerStep
     DEF Next, MainWorks, Ended

-----------------------------------------------------------------------------
(* What the run checks, for every number of starts.                        *)

\* No line enters a log that was not opened.
LEMMA NeverOpened == Spec => []NewIsEmpty
<1>1. Init => NewIsEmpty
  BY DEF Init, Logger!Init, NewIsEmpty
<1>2. NewIsEmpty /\ [Next]_vars => NewIsEmpty'
  <2> SUFFICES ASSUME NewIsEmpty, [Next]_vars PROVE NewIsEmpty'
    OBVIOUS
  <2>1. ASSUME NEW text, log_msg(text)
        PROVE  NewIsEmpty'
    BY <2>1 DEF log_msg, Logger!Accept, Logger!Refuse, NewIsEmpty, chan
  <2>2. CASE log_init
    BY <2>2 DEF log_init, Logger!Open, NewIsEmpty, chan
  <2>3. CASE log_worker_thread \/ Start
    BY <2>3 DEF log_worker_thread, Logger!Deliver, Start, NewIsEmpty
  <2>4. CASE log_close
    BY <2>4 DEF log_close, CloseLogger, Logger!Close, NewIsEmpty, chan
  <2>5. CASE server_init \/ main_loop_fails \/ exit
    <3>1. UNCHANGED chan \/ \E text \in Lines : log_msg(text)
      BY <2>5 DEF server_init, main_loop_fails, exit, Lines
    <3> QED
      BY <2>1, <3>1 DEF NewIsEmpty, chan
  <2>6. CASE server_cleanup_socket \/ server_cleanup_epoll \/ init_plain_socket
    <3>1. UNCHANGED chan \/ \E text \in Lines : log_msg(text)
      BY <2>6 DEF server_cleanup_socket, server_cleanup_epoll, init_plain_socket, Lines
    <3> QED
      BY <2>1, <3>1 DEF NewIsEmpty, chan
  <2>7. CASE parse_config \/ db_init \/ m_init_dbs \/ parse_free_config \/ signal \/ error
    BY <2>7 DEF parse_config, db_init, m_init_dbs, parse_free_config, signal, error,
                NewIsEmpty, chan
  <2>8. CASE main_loop_ends \/ server_select \/ signal_handler \/ Kill \/ UNCHANGED vars
    BY <2>8 DEF main_loop_ends, server_select, signal_handler, Kill, NewIsEmpty, vars, chan
  <2> QED
    BY <2>2, <2>3, <2>4, <2>5, <2>6, <2>7, <2>8 DEF Next, MainWorks, Ended
<1> QED
  BY <1>1, <1>2, PTL DEF Spec

\* Where main is and what it has made, lost and logged there.
THEOREM MInvInvariant == Spec => []MInv
<1>1. MInv /\ NewIsEmpty /\ [Next]_vars => MInv'
  BY MInvStep
<1> QED
  BY <1>1, MInvInit, NeverOpened, PTL DEF Spec

\* The loop is entered only with everything in place.
THEOREM ReadyToServe == Spec => []ServesOnlyWhenReady
<1>1. MInv => ServesOnlyWhenReady
  BY DEF MInv, MainTypes, StartInv, ServesOnlyWhenReady
<1> QED
  BY <1>1, MInvInvariant, PTL

\* Whoever reads the configuration or frees it finds one.
THEOREM ConfigThere == Spec => []ConfigThereWhenUsed
<1>1. MInv => ConfigThereWhenUsed
  BY DEF MInv, StartInv, ConfigThereWhenUsed
<1> QED
  BY <1>1, MInvInvariant, PTL

\* A start fails only for a reason outside the program.
THEOREM FaultlessServes == Spec => []FaultlessStartServes
<1>1. MInv => FaultlessStartServes
  BY DEF MInv, EndInv, FaultlessStartServes
<1> QED
  BY <1>1, MInvInvariant, PTL

\* main returns with the listener and epoll closed, and no client after a failed start.
THEOREM ListenerClosed == Spec => []ListenerClosedOnReturn
<1>1. MInv => ListenerClosedOnReturn
  BY DEF MInv, EndInv, ListenerClosedOnReturn
<1> QED
  BY <1>1, MInvInvariant, PTL

\* After a clean exit the file holds what was logged and not refused.
THEOREM CleanExit == Spec => []CleanExitIsComplete
<1>1. MInv => CleanExitIsComplete
  <2> SUFFICES ASSUME MInv, pc = "returned", ret = "0"
               PROVE  pending = <<>> /\ IsWithout(written, logged, Elements(refused))
    BY DEF CleanExitIsComplete
  <2>1. pending = <<>>
    BY DEF MInv, EndInv
  <2>2. written \o <<>> = written
    BY ConcatEmptySeq DEF MInv, LoggerInv, LoggerTypes
  <2> QED
    BY <2>1, <2>2 DEF MInv, LoggerInv
<1> QED
  BY <1>1, MInvInvariant, PTL
=============================================================================
