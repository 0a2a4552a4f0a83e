---------------------------- MODULE Server_proofs ----------------------------
(***************************************************************************)
(* Proofs about Server for any number of connections and descriptors, any  *)
(* length of the accept queue and of the event array and any request       *)
(* sizes.  IInv is the inductive invariant: the descriptor table agrees    *)
(* with the connections and with what epoll watches, the ready list and    *)
(* the batch name a descriptor once, and what a batch says is still true.  *)
(* The last part is about HttpServer for every request and every way to    *)
(* cut it into segments: what the first part shows of the loop holds of    *)
(* the composition, and from it and from what the router makes of a part   *)
(* of a request follows that every client gets its answer, and gets it     *)
(* once.                                                                   *)
(***************************************************************************)
EXTENDS HttpServer, SequenceTheorems, FiniteSetTheorems, WellFoundedInduction, TLAPS

Injective(s) == \A i, j \in DOMAIN s : s[i] = s[j] => i = j

\* Each client has one descriptor, and those with one are the open ones.
TableInv ==
    /\ \A f, g \in Fds : fdtab[f] = fdtab[g] /\ fdtab[f] # NoConn => f = g
    /\ \A f \in Fds : fdtab[f] # NoConn => conn[fdtab[f]] = "open"
    /\ \A c \in Conns : conn[c] = "open" => \E f \in Fds : fdtab[f] = c

\* The listener is watched as long as the loop runs.
WatchInv == WatchedIffOpen /\ (Running => Listener \in interest)

\* The accept queue holds clients that have not been let in, each once.
QueueInv ==
    /\ Injective(backlog)
    /\ \A i \in DOMAIN backlog : conn[backlog[i]] = "queued"

\* epoll lists what it watches, each descriptor once.
ListInv ==
    /\ Injective(rdllist)
    /\ \A i \in DOMAIN rdllist : rdllist[i] \in interest

\* Where the thread is, and what it has in hand there.
LoopInv ==
    /\ spc \in {"test", "wait", "failed", "cleaned"} => events = <<>>
    /\ spc \in {"callback", "errClose"} => events # <<>> /\ Event.fd \in Fds
    /\ spc = "callback" =>
          fdtab[Event.fd] # NoConn /\ received \in 1..arrived[fdtab[Event.fd]]
    /\ spc = "errClose" => errfd = Event.fd /\ fdtab[errfd] = NoConn

\* The events of a batch are for different descriptors.
Distinct == \A i, j \in DOMAIN events : events[i].fd = events[j].fd => i = j

\* A batch that reports the listener finds somebody in the queue.
ListenerInv ==
    \A i \in DOMAIN events : events[i].fd = Listener => backlog # <<>>

\* A client that was reported has sent something or left.
NewsInv ==
    \A i \in (IF spc = "errClose" THEN 2 ELSE 1)..Len(events) :
        events[i].fd # Listener => HasNews(events[i].conn)

\* Only a client that was heard and hung up on may have an answer.
AnswerInv == \A c \in Conns : conn[c] # "closed" => answered[c] = 0

IInv ==
    /\ TypeOK
    /\ TableInv
    /\ WatchInv
    /\ QueueInv
    /\ ListInv
    /\ LoopInv
    /\ Distinct
    /\ ListenerInv
    /\ NoStaleEvent
    /\ NewsInv
    /\ NoLostReadiness
    /\ AnswerInv

-----------------------------------------------------------------------------
(* Sequences without repetition.                                           *)

\* What a sequence holds is of its type, at every place of its domain.
LEMMA HeldFacts ==
    ASSUME NEW S, NEW s \in Seq(S), NEW i \in DOMAIN s
    PROVE  s[i] \in S
<1>1. DOMAIN s = 1..Len(s)
  BY LenProperties
<1>2. i \in 1..Len(s)
  BY <1>1
<1> QED
  BY <1>2, ElementOfSeq

\* One more element at the end.
LEMMA AppendFacts ==
    ASSUME NEW S, NEW s \in Seq(S), NEW x \in S
    PROVE  /\ Append(s, x) \in Seq(S)
           /\ Elements(Append(s, x)) = Elements(s) \cup {x}
           /\ Injective(s) /\ x \notin Elements(s) => Injective(Append(s, x))
<1>1. /\ Append(s, x) \in Seq(S)
      /\ Len(Append(s, x)) = Len(s) + 1
      /\ Append(s, x)[Len(s) + 1] = x
      /\ \A i \in 1..Len(s) : Append(s, x)[i] = s[i]
      /\ DOMAIN Append(s, x) = 1..(Len(s) + 1)
      /\ DOMAIN s = 1..Len(s) /\ Len(s) \in Nat
  OBVIOUS
<1>2. Elements(Append(s, x)) = Elements(s) \cup {x}
  <2>1. ASSUME NEW y \in Elements(Append(s, x))
        PROVE  y \in Elements(s) \cup {x}
    <3>1. PICK i \in 1..(Len(s) + 1) : Append(s, x)[i] = y
      BY <1>1, <2>1 DEF Elements
    <3>2. i = Len(s) + 1 \/ i \in 1..Len(s)
      BY <1>1
    <3> QED
      BY <1>1, <3>1, <3>2 DEF Elements
  <2>2. ASSUME NEW i \in 1..Len(s)
        PROVE  s[i] \in Elements(Append(s, x))
    <3>1. i \in DOMAIN Append(s, x) /\ Append(s, x)[i] = s[i]
      BY <1>1
    <3> QED
      BY <3>1 DEF Elements
  <2>3. x \in Elements(Append(s, x))
    <3>1. Len(s) + 1 \in DOMAIN Append(s, x)
      BY <1>1
    <3> QED
      BY <1>1, <3>1 DEF Elements
  <2> QED
    BY <1>1, <2>1, <2>2, <2>3 DEF Elements
<1>3. ASSUME Injective(s), x \notin Elements(s)
      PROVE  Injective(Append(s, x))
  <2>1. \A i \in 1..Len(s) : s[i] # x
    BY <1>1, <1>3 DEF Elements
  <2> QED
    BY <1>1, <1>3, <2>1 DEF Injective
<1> QED
  BY <1>1, <1>2, <1>3

\* What remains behind the first element.
LEMMA TailFacts ==
    ASSUME NEW S, NEW s \in Seq(S), s # <<>>
    PROVE  /\ Tail(s) \in Seq(S)
           /\ Len(Tail(s)) = Len(s) - 1 /\ Len(s) \in Nat \ {0}
           /\ Head(s) = s[1] /\ s[1] \in S
           /\ DOMAIN s = 1..Len(s) /\ DOMAIN Tail(s) = 1..(Len(s) - 1)
           /\ \A i \in DOMAIN Tail(s) : i + 1 \in DOMAIN s /\ Tail(s)[i] = s[i + 1]
           /\ \A i \in DOMAIN s : i # 1 => i - 1 \in DOMAIN Tail(s) /\ Tail(s)[i - 1] = s[i]
<1>1. Len(s) \in Nat \ {0} /\ DOMAIN s = 1..Len(s)
  BY EmptySeq
<1>2. /\ Tail(s) \in Seq(S) /\ Len(Tail(s)) = Len(s) - 1
      /\ \A i \in 1..Len(Tail(s)) : Tail(s)[i] = s[i + 1]
  BY HeadTailProperties
<1>3. DOMAIN Tail(s) = 1..(Len(s) - 1)
  BY <1>2
<1>4. Head(s) = s[1] /\ s[1] \in S
  BY <1>1
<1>5. \A i \in DOMAIN s : i # 1 => i - 1 \in 1..(Len(s) - 1) /\ (i - 1) + 1 = i
  BY <1>1
<1> QED
  BY <1>1, <1>2, <1>3, <1>4, <1>5

\* Taking an element out leaves the others, in their order.
LEMMA WithoutFacts ==
    ASSUME NEW S, NEW s \in Seq(S), NEW x, Injective(s)
    PROVE  /\ Without(s, x) \in Seq(S)
           /\ Injective(Without(s, x))
           /\ Elements(Without(s, x)) = Elements(s) \ {x}
<1>1. CASE x \notin Elements(s)
  BY <1>1 DEF Without
<1>2. CASE x \in Elements(s)
  <2> DEFINE p == Position(s, x)
             left == SubSeq(s, 1, p - 1)
             right == SubSeq(s, p + 1, Len(s))
  <2>1. p \in 1..Len(s) /\ s[p] = x /\ Len(s) \in Nat
    BY <1>2 DEF Elements, Position
  <2>2. \A i \in 1..Len(s) : s[i] \in S
    OBVIOUS
  <2> HIDE DEF p
  <2>3. /\ left \in Seq(S) /\ Len(left) = p - 1
        /\ \A i \in 1..(p - 1) : left[i] = s[i]
    <3>1. \A i \in 1..(p - 1) : s[i] \in S
      BY <2>1, <2>2
    <3>2. /\ left \in Seq(S) /\ Len(left) = IF 1 <= p - 1 THEN (p - 1) - 1 + 1 ELSE 0
          /\ \A i \in 1..((p - 1) - 1 + 1) : left[i] = s[1 + i - 1]
      BY <2>1, <3>1, SubSeqProperties
    <3> QED
      BY <2>1, <3>2
  <2>4. /\ right \in Seq(S) /\ Len(right) = Len(s) - p
        /\ \A i \in 1..(Len(s) - p) : right[i] = s[p + i]
    <3>1. \A i \in (p + 1)..Len(s) : s[i] \in S
      BY <2>1, <2>2
    <3>2. /\ right \in Seq(S)
          /\ Len(right) = IF p + 1 <= Len(s) THEN Len(s) - (p + 1) + 1 ELSE 0
          /\ \A i \in 1..(Len(s) - (p + 1) + 1) : right[i] = s[(p + 1) + i - 1]
      BY <2>1, <3>1, SubSeqProperties
    <3> QED
      BY <2>1, <3>2
  <2>5. Without(s, x) = left \o right
    BY <1>2 DEF Without, p
  <2> DEFINE w == left \o right
  <2> HIDE DEF left, right
  <2>6. /\ w \in Seq(S) /\ Len(w) = Len(s) - 1
        /\ \A i \in 1..(Len(s) - 1) : w[i] = IF i <= p - 1 THEN left[i] ELSE right[i - (p - 1)]
    <3>1. Len(left) + Len(right) = Len(s) - 1
      BY <2>1, <2>3, <2>4
    <3> QED
      BY <2>3, <2>4, <3>1, ConcatProperties
  <2> HIDE DEF w
  <2>7. \A i \in 1..(Len(s) - 1) : w[i] = IF i < p THEN s[i] ELSE s[i + 1]
    <3>1. ASSUME NEW i \in 1..(Len(s) - 1), i < p
          PROVE  w[i] = s[i]
      <4>1. i \in 1..(p - 1) /\ i <= p - 1
        BY <2>1, <3>1
      <4> QED
        BY <2>3, <2>6, <4>1
    <3>2. ASSUME NEW i \in 1..(Len(s) - 1), ~(i < p)
          PROVE  w[i] = s[i + 1]
      <4>1. ~(i <= p - 1) /\ i - (p - 1) \in 1..(Len(s) - p)
        BY <2>1, <3>2
      <4>2. right[i - (p - 1)] = s[p + (i - (p - 1))]
        BY <2>4, <4>1
      <4>3. p + (i - (p - 1)) = i + 1
        BY <2>1
      <4> QED
        BY <2>6, <4>1, <4>2, <4>3
    <3> QED
      BY <3>1, <3>2
  <2>8. Injective(w)
    <3> SUFFICES ASSUME NEW i \in 1..(Len(s) - 1), NEW j \in 1..(Len(s) - 1), w[i] = w[j]
                 PROVE  i = j
      BY <2>1, <2>6 DEF Injective
    <3> DEFINE at(k) == IF k < p THEN k ELSE k + 1
    <3>1. at(i) \in 1..Len(s) /\ at(j) \in 1..Len(s)
      BY <2>1
    <3>2. s[at(i)] = s[at(j)]
      BY <2>7
    <3>3. at(i) = at(j)
      BY <3>1, <3>2 DEF Injective
    <3> QED
      BY <2>1, <3>3
  <2>9. Elements(w) = Elements(s) \ {x}
    <3>1. ASSUME NEW i \in 1..(Len(s) - 1)
          PROVE  w[i] \in Elements(s) \ {x}
      <4> DEFINE k == IF i < p THEN i ELSE i + 1
      <4>1. k \in 1..Len(s) /\ k # p /\ w[i] = s[k]
        BY <2>1, <2>7
      <4> QED
        BY <2>1, <4>1 DEF Elements, Injective
    <3>2. ASSUME NEW k \in 1..Len(s), s[k] # x
          PROVE  s[k] \in Elements(w)
      <4> DEFINE i == IF k < p THEN k ELSE k - 1
      <4>1. i \in 1..(Len(s) - 1) /\ w[i] = s[k]
        <5>1. k # p
          BY <2>1, <3>2
        <5> QED
          BY <2>1, <2>7, <5>1
      <4>2. DOMAIN w = 1..(Len(s) - 1)
        BY <2>6
      <4> QED
        BY <4>1, <4>2 DEF Elements
    <3>3. DOMAIN w = 1..(Len(s) - 1) /\ DOMAIN s = 1..Len(s)
      BY <2>6
    <3> QED
      BY <3>1, <3>2, <3>3 DEF Elements
  <2> QED
    BY <2>5, <2>6, <2>8, <2>9 DEF w
<1> QED
  BY <1>1, <1>2

\* The end of a list.
LEMMA RestFacts ==
    ASSUME NEW S, NEW s \in Seq(S), NEW n \in 1..Len(s), Injective(s)
    PROVE  /\ SubSeq(s, n + 1, Len(s)) \in Seq(S)
           /\ Injective(SubSeq(s, n + 1, Len(s)))
           /\ Elements(SubSeq(s, n + 1, Len(s))) = {s[i] : i \in (n + 1)..Len(s)}
<1> DEFINE rest == SubSeq(s, n + 1, Len(s))
<1>1. Len(s) \in Nat /\ n \in Nat /\ n <= Len(s)
  OBVIOUS
<1>2. /\ rest \in Seq(S) /\ Len(rest) = Len(s) - n
      /\ \A i \in 1..(Len(s) - n) : rest[i] = s[n + i]
  <2>1. \A i \in (n + 1)..Len(s) : s[i] \in S
    BY <1>1
  <2>2. /\ rest \in Seq(S)
        /\ Len(rest) = IF n + 1 <= Len(s) THEN Len(s) - (n + 1) + 1 ELSE 0
        /\ \A i \in 1..(Len(s) - (n + 1) + 1) : rest[i] = s[(n + 1) + i - 1]
    BY <1>1, <2>1, SubSeqProperties
  <2> HIDE DEF rest
  <2>3. Len(rest) = Len(s) - n
    BY <1>1, <2>2
  <2>4. ASSUME NEW i \in 1..(Len(s) - n)
        PROVE  rest[i] = s[n + i]
    <3>1. i \in 1..(Len(s) - (n + 1) + 1) /\ (n + 1) + i - 1 = n + i
      BY <1>1
    <3> QED
      BY <2>2, <3>1
  <2> QED
    BY <2>2, <2>3, <2>4
<1> HIDE DEF rest
<1>3. Elements(rest) = {s[i] : i \in (n + 1)..Len(s)}
  <2>1. DOMAIN rest = 1..(Len(s) - n)
    BY <1>2
  <2>2. \A i \in 1..(Len(s) - n) : n + i \in (n + 1)..Len(s)
    BY <1>1
  <2>3. \A k \in (n + 1)..Len(s) : k - n \in 1..(Len(s) - n) /\ n + (k - n) = k
    BY <1>1
  <2>4. \A k \in (n + 1)..Len(s) : rest[k - n] = s[k]
    BY <1>2, <2>3
  <2>5. ASSUME NEW i \in 1..(Len(s) - n)
        PROVE  rest[i] \in {s[k] : k \in (n + 1)..Len(s)}
    BY <1>2, <2>2
  <2>6. ASSUME NEW k \in (n + 1)..Len(s)
        PROVE  s[k] \in Elements(rest)
    BY <2>1, <2>3, <2>4 DEF Elements
  <2> QED
    BY <2>1, <2>5, <2>6 DEF Elements
<1>4. Injective(rest)
  <2> SUFFICES ASSUME NEW i \in 1..(Len(s) - n), NEW j \in 1..(Len(s) - n), rest[i] = rest[j]
               PROVE  i = j
    BY <1>1, <1>2 DEF Injective
  <2>1. n + i \in DOMAIN s /\ n + j \in DOMAIN s /\ s[n + i] = s[n + j]
    BY <1>1, <1>2
  <2>2. n + i = n + j
    BY <2>1 DEF Injective
  <2> QED
    BY <1>1, <2>2
<1> QED
  BY <1>2, <1>3, <1>4 DEF rest

-----------------------------------------------------------------------------
(* The descriptor table and the ready list.                                *)

\* While a descriptor is free there is a lowest one.
LEMMA LowestFreeIsFree ==
    ASSUME FreeFds # {}
    PROVE  LowestFree \in Fds /\ fdtab[LowestFree] = NoConn
<1>1. FreeFds \subseteq Nat /\ \A fd \in FreeFds : fd \in Fds /\ fdtab[fd] = NoConn
  BY DEF FreeFds, Fds
<1>2. PICK fd \in FreeFds : \A other \in FreeFds : ~(<<other, fd>> \in OpToRel(<, Nat))
  BY <1>1, WFMin, NatLessThanWellFounded
<1>3. \A other \in FreeFds : fd <= other
  <2> SUFFICES ASSUME NEW other \in FreeFds, ~(fd <= other)
               PROVE  FALSE
    OBVIOUS
  <2>1. other \in Nat /\ fd \in Nat /\ other < fd
    BY <1>1
  <2>2. <<other, fd>> \in OpToRel(<, Nat)
    BY <2>1 DEF OpToRel
  <2> QED
    BY <1>2, <2>2
<1>4. LowestFree \in FreeFds
  BY <1>2, <1>3 DEF LowestFree
<1> QED
  BY <1>1, <1>4

\* A descriptor that is woken is on the list, if epoll watches it; everything
\* that was on the list stays.
LEMMA WakeKeeps ==
    ASSUME IInv, NEW fd \in Fds \cup {Listener}, Wake(fd), interest' = interest
    PROVE  /\ rdllist' \in Seq(Fds \cup {Listener})
           /\ Elements(rdllist) \subseteq Elements(rdllist')
           /\ fd \in interest => fd \in Elements(rdllist')
           /\ ListInv'
<1>1. rdllist \in Seq(Fds \cup {Listener}) /\ ListInv
  BY DEF IInv, TypeOK
<1>2. CASE fd \in interest \ Elements(rdllist)
  <2>1. rdllist' = Append(rdllist, fd)
    BY <1>2 DEF Wake
  <2>2. /\ rdllist' \in Seq(Fds \cup {Listener})
        /\ Elements(rdllist') = Elements(rdllist) \cup {fd}
        /\ Injective(rdllist')
    BY <1>1, <1>2, <2>1, AppendFacts DEF ListInv
  <2>3. \A i \in DOMAIN rdllist' : rdllist'[i] \in interest
    <3>1. \A x \in Elements(rdllist') : x \in interest
      BY <1>1, <1>2, <2>2 DEF ListInv, Elements
    <3> QED
      BY <3>1 DEF Elements
  <2> QED
    BY <2>2, <2>3 DEF ListInv
<1>3. CASE fd \notin interest \ Elements(rdllist)
  <2>1. rdllist' = rdllist
    BY <1>3 DEF Wake
  <2> QED
    BY <1>1, <1>3, <2>1 DEF ListInv
<1> QED
  BY <1>2, <1>3

\* The same for the descriptor of a client.
LEMMA WakeClientKeeps ==
    ASSUME IInv, NEW c \in Conns, WakeClient(c), UNCHANGED <<interest, fdtab>>
    PROVE  /\ rdllist' \in Seq(Fds \cup {Listener})
           /\ Elements(rdllist) \subseteq Elements(rdllist')
           /\ Running => \A fd \in Fds : fdtab[fd] = c => fd \in Elements(rdllist')
           /\ ListInv'
<1>1. CASE conn[c] = "open"
  <2>1. PICK fd \in Fds : fdtab[fd] = c /\ Wake(fd)
    BY <1>1 DEF WakeClient
  <2>2. c # NoConn
    BY ConnsAssumption
  <2>3. \A f \in Fds : fdtab[f] = c => f = fd
    BY <2>1, <2>2 DEF IInv, TableInv
  <2>4. Running => fd \in interest
    BY <2>1, <2>2 DEF IInv, WatchInv, WatchedIffOpen
  <2> QED
    BY <2>1, <2>3, <2>4, WakeKeeps
<1>2. CASE conn[c] # "open"
  <2>1. rdllist' = rdllist
    BY <1>2 DEF WakeClient
  <2>2. \A fd \in Fds : fdtab[fd] # c
    BY <1>2, ConnsAssumption DEF IInv, TableInv
  <2> QED
    BY <2>1, <2>2 DEF IInv, TypeOK, ListInv
<1> QED
  BY <1>1, <1>2

\* Closing a client's descriptor leaves the table, what epoll watches and the
\* ready list in agreement, and everything else on the list.
LEMMA CloseKeeps ==
    ASSUME IInv, Running, NEW fd \in Fds, Close(fd), UNCHANGED <<backlog, peer, arrived>>
    PROVE  /\ fdtab' \in [Fds -> Conns \cup {NoConn}]
           /\ interest' \subseteq Fds \cup {Listener}
           /\ rdllist' \in Seq(Fds \cup {Listener})
           /\ conn' \in [Conns -> {"idle", "queued", "open", "refused", "closed"}]
           /\ Elements(rdllist') = Elements(rdllist) \ {fd}
           /\ TableInv' /\ WatchInv' /\ QueueInv' /\ ListInv'
<1>1. /\ rdllist \in Seq(Fds \cup {Listener}) /\ Injective(rdllist)
      /\ fdtab \in [Fds -> Conns \cup {NoConn}]
      /\ conn \in [Conns -> {"idle", "queued", "open", "refused", "closed"}]
      /\ backlog \in Seq(Conns) /\ interest \subseteq Fds \cup {Listener}
      /\ Listener \notin Fds /\ NoConn \notin Conns
  BY ConnsAssumption DEF IInv, TypeOK, ListInv, Listener, Fds
<1>2. /\ fdtab' = [fdtab EXCEPT ![fd] = NoConn]
      /\ interest' = interest \ {fd}
      /\ rdllist' = Without(rdllist, fd)
      /\ conn' = [c \in Conns |-> IF fdtab[fd] = c THEN "closed" ELSE conn[c]]
  BY DEF Close
<1>3. /\ rdllist' \in Seq(Fds \cup {Listener}) /\ Injective(rdllist')
      /\ Elements(rdllist') = Elements(rdllist) \ {fd}
  BY <1>1, <1>2, WithoutFacts
<1>4. TableInv'
  <2>1. \A f \in Fds : fdtab'[f] = IF f = fd THEN NoConn ELSE fdtab[f]
    BY <1>1, <1>2
  <2>2. \A f, g \in Fds : fdtab'[f] = fdtab'[g] /\ fdtab'[f] # NoConn => f = g
    BY <2>1 DEF IInv, TableInv
  <2>3. ASSUME NEW f \in Fds, fdtab'[f] # NoConn
        PROVE  conn'[fdtab'[f]] = "open"
    <3>1. f # fd /\ fdtab'[f] = fdtab[f] /\ fdtab[f] # fdtab[fd] /\ fdtab[f] \in Conns
      BY <1>1, <2>1, <2>3 DEF IInv, TableInv
    <3>2. conn[fdtab[f]] = "open"
      BY <2>3, <3>1 DEF IInv, TableInv
    <3>3. conn'[fdtab[f]] = conn[fdtab[f]]
      BY <1>2, <3>1
    <3> QED
      BY <3>1, <3>2, <3>3
  <2>4. ASSUME NEW c \in Conns, conn'[c] = "open"
        PROVE  \E f \in Fds : fdtab'[f] = c
    <3>1. fdtab[fd] # c /\ conn[c] = "open"
      BY <1>2, <2>4
    <3>2. PICK f \in Fds : fdtab[f] = c
      BY <3>1 DEF IInv, TableInv
    <3> QED
      BY <2>1, <3>1, <3>2
  <2> QED
    BY <2>2, <2>3, <2>4 DEF TableInv
<1>5. WatchInv'
  <2>1. /\ \A f \in Fds : f \in interest <=> fdtab[f] # NoConn
        /\ Listener \in interest
    BY DEF IInv, WatchInv, WatchedIffOpen
  <2>2. \A f \in Fds : f \in interest' <=> fdtab'[f] # NoConn
    BY <1>1, <1>2, <2>1
  <2>3. Listener \in interest'
    BY <1>1, <1>2, <2>1
  <2> QED
    BY <2>2, <2>3 DEF WatchInv, WatchedIffOpen
<1>6. QueueInv'
  <2>1. \A i \in DOMAIN backlog : backlog[i] \in Conns /\ backlog[i] # fdtab[fd]
    <3>1. fdtab[fd] \in Conns => conn[fdtab[fd]] = "open"
      BY <1>1 DEF IInv, TableInv
    <3> QED
      BY <1>1, <3>1 DEF IInv, QueueInv
  <2> QED
    BY <1>1, <1>2, <2>1 DEF IInv, QueueInv, Injective
<1>7. ListInv'
  <2>1. \A x \in Elements(rdllist) : x \in interest
    BY DEF IInv, ListInv, Elements
  <2>2. \A x \in Elements(rdllist') : x \in interest'
    BY <1>2, <1>3, <2>1
  <2>3. \A i \in DOMAIN rdllist' : rdllist'[i] \in Elements(rdllist')
    BY DEF Elements
  <2> QED
    BY <1>3, <2>2, <2>3 DEF ListInv
<1>8. /\ fdtab' \in [Fds -> Conns \cup {NoConn}]
      /\ interest' \subseteq Fds \cup {Listener}
      /\ conn' \in [Conns -> {"idle", "queued", "open", "refused", "closed"}]
  BY <1>1, <1>2
<1> QED
  BY <1>3, <1>4, <1>5, <1>6, <1>7, <1>8

\* A step that leaves the table, epoll and the accept queue alone.
LEMMA KernelUnmoved ==
    ASSUME IInv, UNCHANGED <<fdtab, interest, rdllist, backlog, conn>>, Running' => Running
    PROVE  TableInv' /\ WatchInv' /\ QueueInv' /\ ListInv'
BY DEF IInv, TableInv, WatchInv, WatchedIffOpen, QueueInv, ListInv, Injective

-----------------------------------------------------------------------------
(* The batch.                                                              *)

\* What a readable client is, without the listener's case.
LEMMA ClientReadable ==
    ASSUME NEW fd \in Fds
    PROVE  Readable(fd) <=> fdtab[fd] # NoConn /\ HasNews(fdtab[fd])
BY DEF Readable, Listener, Fds

\* The same in the next state.
LEMMA ClientReadableNext ==
    ASSUME NEW fd \in Fds
    PROVE  Readable(fd)' <=> fdtab'[fd] # NoConn /\ HasNews(fdtab[fd])'
BY DEF Readable, Listener, Fds

\* A client that had news has news, so a batch that stays is as true as it was.
LEMMA BatchUnmoved ==
    ASSUME IInv, UNCHANGED <<events, fdtab>>,
           spc' = "errClose" <=> spc = "errClose",
           \A c \in Conns : HasNews(c) => HasNews(c)'
    PROVE  Distinct' /\ NoStaleEvent' /\ NewsInv'
<1> DEFINE first == IF spc = "errClose" THEN 2 ELSE 1
<1>1. Distinct'
  BY DEF IInv, Distinct
<1>2. NoStaleEvent'
  BY DEF IInv, NoStaleEvent
<1>3. NewsInv'
  <2>1. ASSUME NEW i \in first..Len(events), events[i].fd # Listener
        PROVE  HasNews(events[i].conn)'
    <3>1. i \in 1..Len(events)
      BY DEF IInv, TypeOK
    <3>2. events[i].conn \in Conns
      <4>1. events \in Seq([fd : Fds \cup {Listener}, conn : Conns \cup {NoConn}])
        BY DEF IInv, TypeOK
      <4>2. events[i] \in [fd : Fds \cup {Listener}, conn : Conns \cup {NoConn}]
        BY <3>1, <4>1, ElementOfSeq
      <4>3. events[i].conn # NoConn
        BY <2>1 DEF IInv, NoStaleEvent
      <4> QED
        BY <4>2, <4>3
    <3>3. HasNews(events[i].conn)
      BY <2>1 DEF IInv, NewsInv
    <3> QED
      BY <3>2, <3>3 DEF HasNews
  <2> QED
    BY <2>1 DEF NewsInv, HasNews
<1> QED
  BY <1>1, <1>2, <1>3

\* A ready list that only grows loses nobody.
LEMMA ReadinessKept ==
    ASSUME IInv, Running' => Running, UNCHANGED <<events, fdtab, arrived, peer>>,
           Elements(rdllist) \subseteq Elements(rdllist')
    PROVE  NoLostReadiness'
<1>1. \A fd \in Fds : Readable(fd)' <=> Readable(fd)
  BY ClientReadable, ClientReadableNext DEF HasNews
<1> QED
  BY <1>1 DEF IInv, NoLostReadiness

\* The batch without its first event.
LEMMA AdvanceKeeps ==
    ASSUME IInv, events # <<>>, events' = Tail(events)
    PROVE  /\ events' \in Seq([fd : Fds \cup {Listener}, conn : Conns \cup {NoConn}])
           /\ Len(events') <= MAX_EVENTS
           /\ 1 \in DOMAIN events /\ Event.fd \in Fds \cup {Listener}
           /\ \A i \in DOMAIN events' : /\ i + 1 \in DOMAIN events
                                        /\ events'[i] = events[i + 1]
                                        /\ events'[i].fd # Event.fd
           /\ \A i \in DOMAIN events : events[i].fd # Event.fd =>
                                          /\ i - 1 \in DOMAIN events'
                                          /\ events'[i - 1] = events[i]
           /\ Distinct'
<1> DEFINE S == [fd : Fds \cup {Listener}, conn : Conns \cup {NoConn}]
<1>1. /\ events \in Seq(S) /\ Len(events) <= MAX_EVENTS
      /\ MAX_EVENTS \in Nat
  BY LimitsAssumption DEF IInv, TypeOK
<1>2. /\ events' \in Seq(S) /\ Len(events') = Len(events) - 1
      /\ Len(events) \in Nat \ {0}
      /\ events[1] \in S
  BY <1>1, TailFacts
<1>3. DOMAIN events = 1..Len(events) /\ DOMAIN events' = 1..(Len(events) - 1)
  BY <1>1, TailFacts
<1>4. /\ \A i \in DOMAIN events' : i + 1 \in DOMAIN events /\ events'[i] = events[i + 1]
      /\ \A i \in DOMAIN events : i # 1 =>
            i - 1 \in DOMAIN events' /\ events'[i - 1] = events[i]
  BY <1>1, TailFacts
<1>5. 1 \in DOMAIN events
  BY <1>2, <1>3
<1>6. \A i \in DOMAIN events' : i + 1 # 1
  BY <1>2, <1>3
<1>7. \A i \in DOMAIN events' : events'[i].fd # Event.fd
  BY <1>4, <1>5, <1>6 DEF Event, IInv, Distinct
<1>8. Distinct'
  <2> SUFFICES ASSUME NEW i \in DOMAIN events', NEW j \in DOMAIN events',
                      events'[i].fd = events'[j].fd
               PROVE  i = j
    BY DEF Distinct
  <2>1. i + 1 = j + 1
    BY <1>4 DEF IInv, Distinct
  <2> QED
    BY <1>2, <1>3, <2>1
<1>9. Len(events') <= MAX_EVENTS
  BY <1>1, <1>2
<1>10. Event.fd \in Fds \cup {Listener}
  BY <1>2 DEF Event
<1>11. \A i \in DOMAIN events : events[i].fd # Event.fd => i # 1
  BY DEF Event
<1> QED
  BY <1>2, <1>4, <1>5, <1>7, <1>8, <1>9, <1>10, <1>11

\* The rest of the batch is as true as it was, if the other descriptors are.
LEMMA RestUnmoved ==
    ASSUME IInv, events # <<>>, events' = Tail(events), spc' # "errClose",
           UNCHANGED <<arrived, peer>>,
           \A i \in DOMAIN events' :
               events'[i].fd # Listener /\ fdtab[events'[i].fd] # NoConn =>
                   fdtab'[events'[i].fd] = fdtab[events'[i].fd]
    PROVE  NoStaleEvent' /\ NewsInv'
<1>1. /\ events' \in Seq([fd : Fds \cup {Listener}, conn : Conns \cup {NoConn}])
      /\ \A i \in DOMAIN events' : i + 1 \in DOMAIN events /\ events'[i] = events[i + 1]
  BY AdvanceKeeps
<1>2. ASSUME NEW i \in DOMAIN events', events'[i].fd # Listener
      PROVE  /\ events'[i].conn # NoConn
             /\ fdtab'[events'[i].fd] = events'[i].conn
             /\ HasNews(events'[i].conn)
  <2>1. i + 1 \in (IF spc = "errClose" THEN 2 ELSE 1)..Len(events)
    <3>1. i \in Nat \ {0} /\ i + 1 \in 1..Len(events)
      BY <1>1 DEF IInv, TypeOK
    <3> QED
      BY <3>1
  <2>2. /\ events[i + 1].conn # NoConn
        /\ fdtab[events[i + 1].fd] = events[i + 1].conn
        /\ HasNews(events[i + 1].conn)
    BY <1>1, <1>2, <2>1 DEF IInv, NoStaleEvent, NewsInv
  <2> QED
    BY <1>1, <1>2, <2>2
<1>3. 1..Len(events') = DOMAIN events'
  BY <1>1
<1>4. NoStaleEvent'
  BY <1>2, <1>3 DEF NoStaleEvent
<1>5. NewsInv'
  BY <1>2, <1>3 DEF NewsInv, HasNews
<1> QED
  BY <1>4, <1>5

-----------------------------------------------------------------------------
(* The clients and the signal.                                             *)

\* The initial state.
LEMMA IInvInit == Init => IInv
<1> SUFFICES ASSUME Init PROVE IInv
  OBVIOUS
<1>1. TypeOK
  <2>1. RecvMax \in Nat /\ MAX_EVENTS \in Nat
    BY LimitsAssumption
  <2>2. events \in Seq([fd : Fds \cup {Listener}, conn : Conns \cup {NoConn}])
    BY DEF Init
  <2>3. Len(events) = 0
    BY DEF Init
  <2>4. rdllist \in Seq(Fds \cup {Listener}) /\ backlog \in Seq(Conns)
    BY DEF Init
  <2>5. /\ fdtab \in [Fds -> Conns \cup {NoConn}]
        /\ interest \subseteq Fds \cup {Listener}
        /\ errfd \in Fds \cup {Listener}
    BY DEF Init
  <2>6. /\ conn \in [Conns -> {"idle", "queued", "open", "refused", "closed"}]
        /\ peer \in [Conns -> {"up", "fin", "rst"}]
        /\ arrived \in [Conns -> Nat] /\ answered \in [Conns -> Nat]
    BY DEF Init
  <2>7. spc = "test" /\ m_die \in BOOLEAN
    BY DEF Init
  <2>8. received \in 0..RecvMax
    BY <2>1 DEF Init
  <2>9. Len(events) <= MAX_EVENTS
    BY <2>1, <2>3
  <2> QED
    BY <2>2, <2>4, <2>5, <2>6, <2>7, <2>8, <2>9 DEF TypeOK
<1>2. TableInv /\ WatchInv /\ QueueInv /\ ListInv
  BY DEF Init, TableInv, WatchInv, WatchedIffOpen, QueueInv, ListInv,
     Injective, Listener, Fds
<1>3. LoopInv /\ Distinct /\ ListenerInv /\ AnswerInv
  BY DEF Init, LoopInv, Distinct, ListenerInv, AnswerInv
<1>4. NoStaleEvent /\ NewsInv
  BY DEF Init, NoStaleEvent, NewsInv
<1>5. NoLostReadiness
  BY ClientReadable DEF Init, NoLostReadiness
<1> QED
  BY <1>1, <1>2, <1>3, <1>4, <1>5 DEF IInv

\* A client enters the accept queue.
LEMMA ConnectStep ==
    ASSUME IInv, NEW c \in Conns, Connect(c)
    PROVE  IInv'
<1>1. /\ Running /\ conn[c] = "idle"
      /\ conn' = [conn EXCEPT ![c] = "queued"]
      /\ backlog' = Append(backlog, c)
      /\ Wake(Listener)
      /\ UNCHANGED <<spc, m_die, events, received, errfd, fdtab, interest,
                     peer, arrived, answered>>
  BY DEF Connect, loop
<1>2. /\ rdllist' \in Seq(Fds \cup {Listener})
      /\ Elements(rdllist) \subseteq Elements(rdllist') /\ ListInv'
  BY <1>1, WakeKeeps
<1>3. backlog \in Seq(Conns) /\ backlog' \in Seq(Conns) /\ backlog' # <<>>
  BY <1>1 DEF IInv, TypeOK
<1>4. TypeOK'
  <2>1. conn' \in [Conns -> {"idle", "queued", "open", "refused", "closed"}]
    BY <1>1 DEF IInv, TypeOK
  <2> QED
    BY <1>1, <1>2, <1>3, <2>1 DEF IInv, TypeOK
<1>5. TableInv' /\ WatchInv'
  BY <1>1 DEF IInv, TypeOK, TableInv, WatchInv, WatchedIffOpen, Running
<1>6. QueueInv'
  <2>1. c \notin Elements(backlog)
    BY <1>1 DEF IInv, QueueInv, Elements
  <2>2. Injective(backlog') /\ Elements(backlog') = Elements(backlog) \cup {c}
    BY <1>1, <1>3, <2>1, AppendFacts DEF IInv, QueueInv
  <2>3. \A d \in Elements(backlog') : d \in Conns /\ conn'[d] = "queued"
    <3>1. \A d \in Elements(backlog) : d \in Conns /\ conn[d] = "queued"
      BY <1>3 DEF IInv, QueueInv, Elements
    <3> QED
      BY <1>1, <2>2, <3>1 DEF IInv, TypeOK
  <2> QED
    BY <2>2, <2>3 DEF QueueInv, Elements
<1>7. LoopInv' /\ ListenerInv'
  BY <1>1, <1>3 DEF IInv, LoopInv, ListenerInv, Event
<1>8. Distinct' /\ NoStaleEvent' /\ NewsInv'
  BY <1>1, BatchUnmoved DEF HasNews
<1>9. NoLostReadiness'
  BY <1>1, <1>2, ReadinessKept DEF Running
<1>10. AnswerInv'
  BY <1>1 DEF IInv, TypeOK, AnswerInv
<1> QED
  BY <1>2, <1>4, <1>5, <1>6, <1>7, <1>8, <1>9, <1>10 DEF IInv

\* A client's data arrives, or its end: its descriptor is on the ready list.
LEMMA ClientStep ==
    ASSUME IInv, NEW c \in Conns, Send(c) \/ Leave(c)
    PROVE  IInv'
<1>1. /\ WakeClient(c)
      /\ UNCHANGED <<spc, m_die, events, received, errfd, fdtab, interest,
                     backlog, conn, answered>>
  BY DEF Send, Leave, loop
<1>2. /\ arrived' \in [Conns -> Nat] /\ peer' \in [Conns -> {"up", "fin", "rst"}]
      /\ \A d \in Conns : arrived'[d] >= arrived[d]
      /\ \A d \in Conns : d # c => arrived'[d] = arrived[d] /\ peer'[d] = peer[d]
      /\ \A d \in Conns : HasNews(d) => HasNews(d)'
  <2>1. /\ arrived \in [Conns -> Nat] /\ peer \in [Conns -> {"up", "fin", "rst"}]
    BY DEF IInv, TypeOK
  <2>2. CASE Send(c)
    <3>1. arrived' = [arrived EXCEPT ![c] = arrived[c] + 1] /\ peer' = peer
      BY <2>2 DEF Send
    <3> QED
      BY <2>1, <3>1 DEF HasNews
  <2>3. CASE Leave(c)
    <3>1. PICK how \in {"fin", "rst"} : peer' = [peer EXCEPT ![c] = how]
      BY <2>3 DEF Leave
    <3>2. arrived' = arrived /\ how # "up"
      BY <2>3 DEF Leave
    <3>3. peer' \in [Conns -> {"up", "fin", "rst"}]
      BY <2>1, <3>1
    <3>4. \A d \in Conns : arrived'[d] >= arrived[d]
      BY <2>1, <3>2
    <3>5. peer'[c] # "up" /\ \A d \in Conns : d # c => peer'[d] = peer[d]
      BY <2>1, <3>1, <3>2
    <3>6. \A d \in Conns : HasNews(d) => HasNews(d)'
      BY <3>2, <3>5 DEF HasNews
    <3> QED
      BY <2>1, <3>2, <3>3, <3>4, <3>5, <3>6
  <2> QED
    BY <2>2, <2>3
<1>3. /\ rdllist' \in Seq(Fds \cup {Listener})
      /\ Elements(rdllist) \subseteq Elements(rdllist')
      /\ Running => \A fd \in Fds : fdtab[fd] = c => fd \in Elements(rdllist')
      /\ ListInv'
  BY <1>1, WakeClientKeeps
<1>4. TypeOK'
  BY <1>1, <1>2, <1>3 DEF IInv, TypeOK
<1>5. TableInv' /\ WatchInv' /\ QueueInv'
  BY <1>1 DEF IInv, TableInv, WatchInv, WatchedIffOpen, QueueInv, Injective, Running
<1>6. LoopInv'
  <2>1. spc' = "callback" =>
          fdtab'[Event'.fd] # NoConn /\ received' \in 1..arrived'[fdtab'[Event'.fd]]
    <3> SUFFICES ASSUME spc = "callback"
                 PROVE  fdtab[Event.fd] # NoConn /\ received \in 1..arrived'[fdtab[Event.fd]]
      BY <1>1 DEF Event
    <3>1. /\ Event.fd \in Fds /\ fdtab[Event.fd] # NoConn
          /\ received \in 1..arrived[fdtab[Event.fd]]
      BY DEF IInv, LoopInv
    <3>2. fdtab[Event.fd] \in Conns
      BY <3>1 DEF IInv, TypeOK
    <3>3. /\ arrived[fdtab[Event.fd]] \in Nat /\ arrived'[fdtab[Event.fd]] \in Nat
          /\ arrived'[fdtab[Event.fd]] >= arrived[fdtab[Event.fd]]
      BY <1>2, <3>2 DEF IInv, TypeOK
    <3> QED
      BY <3>1, <3>3
  <2> QED
    BY <1>1, <2>1 DEF IInv, LoopInv, Event
<1>7. Distinct' /\ NoStaleEvent' /\ NewsInv'
  BY <1>1, <1>2, BatchUnmoved
<1>8. ListenerInv' /\ AnswerInv'
  BY <1>1 DEF IInv, ListenerInv, AnswerInv
<1>9. NoLostReadiness'
  <2> SUFFICES ASSUME Running', NEW fd \in Fds, Readable(fd)'
               PROVE  fd \in Elements(rdllist') \/ \E i \in DOMAIN events' : events'[i].fd = fd
    BY DEF NoLostReadiness
  <2>1. Running /\ fdtab[fd] # NoConn /\ HasNews(fdtab[fd])' /\ fdtab[fd] \in Conns
    BY <1>1, ClientReadableNext DEF IInv, TypeOK, Running
  <2>2. CASE fdtab[fd] = c
    BY <1>3, <2>1, <2>2
  <2>3. CASE fdtab[fd] # c
    <3>1. HasNews(fdtab[fd])
      BY <1>1, <1>2, <2>1, <2>3 DEF HasNews
    <3>2. Readable(fd)
      BY <2>1, <3>1, ClientReadable
    <3> QED
      BY <1>1, <1>3, <2>1, <3>2 DEF IInv, NoLostReadiness
  <2> QED
    BY <2>2, <2>3
<1> QED
  BY <1>3, <1>4, <1>5, <1>6, <1>7, <1>8, <1>9 DEF IInv

\* A step of the loop itself: the kernel and the clients keep their state, and
\* outside a batch there are no events.
LEMMA LoopOnlyStep ==
    ASSUME IInv, UNCHANGED <<events, received, errfd, kernel, client>>,
           m_die' \in BOOLEAN,
           \/ spc' = spc
           \/ /\ spc \in {"test", "wait", "batch"} /\ events = <<>>
              /\ spc' \in {"test", "wait"}
           \/ spc = "wait" /\ spc' = "failed"
           \/ spc = "callback" /\ spc' = "killed"
    PROVE  IInv'
<1>1. UNCHANGED <<events, received, errfd, fdtab, interest, rdllist, backlog,
                  conn, peer, arrived, answered>>
  BY DEF kernel, client
<1>2. (spc' = "errClose" <=> spc = "errClose") /\ (Running' => Running)
  BY DEF Running
<1>3. TypeOK'
  BY <1>1 DEF IInv, TypeOK
<1>4. TableInv' /\ WatchInv' /\ QueueInv' /\ ListInv'
  BY <1>1, <1>2, KernelUnmoved
<1>5. LoopInv'
  <2>1. CASE spc' = spc
    BY <1>1, <2>1 DEF IInv, LoopInv, Event
  <2>2. CASE spc' # spc
    BY <1>1, <2>2 DEF IInv, LoopInv
  <2> QED
    BY <2>1, <2>2
<1>6. Distinct' /\ NoStaleEvent' /\ NewsInv'
  BY <1>1, <1>2, BatchUnmoved DEF HasNews
<1>7. ListenerInv' /\ AnswerInv'
  BY <1>1 DEF IInv, ListenerInv, AnswerInv
<1>8. NoLostReadiness'
  BY <1>1, <1>2, ReadinessKept
<1> QED
  BY <1>3, <1>4, <1>5, <1>6, <1>7, <1>8 DEF IInv

\* Between batches, when the signal comes, and when a callback does not return.
LEMMA BetweenBatchesStep ==
    ASSUME IInv, \/ signal_handler \/ signal_interrupts \/ main_loop
                 \/ server_select_done \/ m_handle_client_event_crashes
    PROVE  IInv'
<1>1. CASE signal_handler
  BY <1>1, LoopOnlyStep DEF signal_handler
<1>2. CASE signal_interrupts
  <2>1. m_die' \in BOOLEAN
    BY <1>2 DEF signal_interrupts, IInv, TypeOK
  <2> QED
    BY <1>2, <2>1, LoopOnlyStep DEF signal_interrupts
<1>3. CASE main_loop
  <2>1. events = <<>> /\ m_die \in BOOLEAN
    BY <1>3 DEF main_loop, IInv, LoopInv, TypeOK
  <2> QED
    BY <1>3, <2>1, LoopOnlyStep DEF main_loop
<1>4. CASE server_select_done
  BY <1>4, LoopOnlyStep DEF server_select_done, IInv, TypeOK
<1>5. CASE m_handle_client_event_crashes
  BY <1>5, LoopOnlyStep DEF m_handle_client_event_crashes, IInv, TypeOK
<1> QED
  BY <1>1, <1>2, <1>3, <1>4, <1>5

\* The loop ends.
LEMMA CleanupStep ==
    ASSUME IInv, server_cleanup
    PROVE  IInv'
<1>1. /\ spc = "test" /\ m_die /\ spc' = "cleaned"
      /\ interest' = {} /\ rdllist' = <<>> /\ backlog' = <<>>
      /\ UNCHANGED <<m_die, events, received, errfd, fdtab, conn, peer, arrived,
                     answered>>
  BY DEF server_cleanup, client
<1>2. events = <<>> /\ ~Running'
  BY <1>1 DEF IInv, LoopInv, Running
<1>3. TypeOK'
  <2>1. rdllist' \in Seq(Fds \cup {Listener}) /\ backlog' \in Seq(Conns)
    BY <1>1
  <2> QED
    BY <1>1, <2>1 DEF IInv, TypeOK
<1>4. TableInv' /\ WatchInv'
  BY <1>1, <1>2 DEF IInv, TableInv, WatchInv, WatchedIffOpen
<1>5. QueueInv' /\ ListInv'
  BY <1>1 DEF QueueInv, ListInv, Injective
<1>6. LoopInv'
  BY <1>1, <1>2 DEF LoopInv
<1>7. Distinct' /\ NoStaleEvent' /\ NewsInv'
  BY <1>1, BatchUnmoved DEF HasNews
<1>8. ListenerInv' /\ AnswerInv' /\ NoLostReadiness'
  BY <1>1, <1>2 DEF IInv, ListenerInv, AnswerInv, NoLostReadiness
<1> QED
  BY <1>3, <1>4, <1>5, <1>6, <1>7, <1>8 DEF IInv

\* A second without news: who is on the ready list has nothing to say.
LEMMA TimeoutStep ==
    ASSUME IInv, server_select_timeout
    PROVE  IInv'
<1>1. /\ spc = "wait" /\ spc' = "test" /\ rdllist' = <<>>
      /\ UNCHANGED <<m_die, events, received, errfd, fdtab, interest, backlog,
                     conn, peer, arrived, answered>>
  BY DEF server_select_timeout, client
<1>2. events = <<>> /\ Running /\ Running'
  BY <1>1 DEF IInv, LoopInv, Running
<1>3. TypeOK'
  <2>1. rdllist' \in Seq(Fds \cup {Listener})
    BY <1>1
  <2> QED
    BY <1>1, <2>1 DEF IInv, TypeOK
<1>4. TableInv' /\ WatchInv' /\ QueueInv'
  BY <1>1, <1>2 DEF IInv, TableInv, WatchInv, WatchedIffOpen, QueueInv, Injective
<1>5. ListInv'
  BY <1>1 DEF ListInv, Injective
<1>6. LoopInv'
  BY <1>1, <1>2 DEF LoopInv
<1>7. Distinct' /\ NoStaleEvent' /\ NewsInv'
  BY <1>1, BatchUnmoved DEF HasNews
<1>8. ListenerInv' /\ AnswerInv'
  BY <1>1 DEF IInv, ListenerInv, AnswerInv
<1>9. NoLostReadiness'
  <2>1. \A fd \in Fds : Readable(fd)' <=> Readable(fd)
    BY <1>1, ClientReadable, ClientReadableNext DEF HasNews
  <2>2. \A fd \in Elements(rdllist) : ~Readable(fd)
    <3>1. rdllist \in Seq(Fds \cup {Listener})
      BY DEF IInv, TypeOK
    <3>2. \A i \in 1..Len(rdllist) : ~Readable(rdllist[i])
      BY DEF server_select_timeout, ReadyUpto
    <3>3. DOMAIN rdllist = 1..Len(rdllist)
      BY <3>1
    <3> QED
      BY <3>2, <3>3 DEF Elements
  <2>3. DOMAIN events = {}
    BY <1>2
  <2>4. \A fd \in Fds : ~Readable(fd)
    BY <1>2, <2>2, <2>3 DEF IInv, NoLostReadiness
  <2> QED
    BY <2>1, <2>4 DEF NoLostReadiness
<1> QED
  BY <1>3, <1>4, <1>5, <1>6, <1>7, <1>8, <1>9 DEF IInv

\* epoll_wait reports: each descriptor once, the ready ones of the list's
\* beginning, and drops only what it looked at.
LEMMA SelectStep ==
    ASSUME IInv, server_select
    PROVE  IInv'
<1> DEFINE S == [fd : Fds \cup {Listener}, conn : Conns \cup {NoConn}]
<1>1. /\ spc = "wait" /\ spc' = "batch"
      /\ UNCHANGED <<m_die, received, errfd, fdtab, interest, backlog, conn,
                     peer, arrived, answered>>
  BY DEF server_select, client
<1>2. PICK n \in DOMAIN rdllist :
        /\ ScanEnds(n)
        /\ \E at \in Ascending(ReadyUpto(n)) :
              events' = [i \in DOMAIN at |->
                  [fd |-> rdllist[at[i]], conn |-> ClientAt(rdllist[at[i]])]]
        /\ rdllist' = SubSeq(rdllist, n + 1, Len(rdllist)) \o
              IF \E i \in ReadyUpto(n) : LevelTriggered(rdllist[i])
              THEN <<Listener>> ELSE <<>>
  BY DEF server_select
<1> DEFINE R == ReadyUpto(n)
           count == Cardinality(R)
<1>3. PICK at \in Ascending(R) :
        events' = [i \in DOMAIN at |->
            [fd |-> rdllist[at[i]], conn |-> ClientAt(rdllist[at[i]])]]
  BY <1>2
<1>4. /\ rdllist \in Seq(Fds \cup {Listener}) /\ Injective(rdllist)
      /\ fdtab \in [Fds -> Conns \cup {NoConn}]
      /\ Listener \notin Fds
  BY DEF IInv, TypeOK, ListInv, Listener, Fds
<1>5. n \in 1..Len(rdllist) /\ DOMAIN rdllist = 1..Len(rdllist)
  BY <1>4
<1>6. R = {i \in 1..n : Readable(rdllist[i])} /\ R \subseteq 1..Len(rdllist)
  BY <1>4, <1>5 DEF ReadyUpto
<1>7. count \in Nat /\ count <= MAX_EVENTS
  <2>1. IsFiniteSet(1..n) /\ n \in Int
    BY <1>5, FS_Interval
  <2>2. IsFiniteSet(R)
    BY <1>6, <2>1, FS_Subset
  <2>3. count \in Nat
    BY <2>2, FS_CardinalityType
  <2> QED
    BY <1>2, <2>3, LimitsAssumption DEF ScanEnds
<1> HIDE DEF R, count
<1>8. /\ at \in [1..count -> R]
      /\ \A x \in R : \E i \in 1..count : at[i] = x
      /\ \A i, j \in 1..count : i < j => at[i] < at[j]
  BY DEF Ascending, count
<1>9. /\ DOMAIN events' = 1..count
      /\ \A i \in 1..count : /\ at[i] \in R /\ at[i] \in 1..Len(rdllist)
                             /\ events'[i] = [fd |-> rdllist[at[i]],
                                              conn |-> ClientAt(rdllist[at[i]])]
  BY <1>3, <1>6, <1>8
<1>10. ASSUME NEW i \in 1..count
       PROVE  /\ events'[i] \in S
              /\ events'[i].fd = rdllist[at[i]] /\ Readable(events'[i].fd)
              /\ events'[i].fd # Listener =>
                   /\ events'[i].fd \in Fds
                   /\ events'[i].conn = fdtab[events'[i].fd]
                   /\ events'[i].conn # NoConn /\ HasNews(events'[i].conn)
  <2>1. /\ rdllist[at[i]] \in Fds \cup {Listener} /\ Readable(rdllist[at[i]])
    BY <1>4, <1>6, <1>9
  <2>2. ClientAt(rdllist[at[i]]) \in Conns \cup {NoConn}
    BY <1>4, <2>1 DEF ClientAt
  <2>3. rdllist[at[i]] # Listener =>
          /\ ClientAt(rdllist[at[i]]) = fdtab[rdllist[at[i]]]
          /\ fdtab[rdllist[at[i]]] # NoConn /\ HasNews(fdtab[rdllist[at[i]]])
    BY <2>1, ClientReadable DEF ClientAt
  <2> QED
    BY <1>9, <2>1, <2>2, <2>3
<1>11. events' \in Seq(S) /\ Len(events') = count
  <2>1. events' \in [1..count -> S]
    BY <1>3, <1>8, <1>9, <1>10
  <2> HIDE DEF S
  <2>2. events' \in Seq(S)
    BY <1>7, <2>1, SeqDef
  <2>3. DOMAIN events' = 1..Len(events') /\ Len(events') \in Nat
    BY <2>2, LenProperties
  <2>4. Len(events') = count
    BY <1>7, <1>9, <2>3
  <2> QED
    BY <2>2, <2>4
<1>12. /\ rdllist' \in Seq(Fds \cup {Listener})
       /\ Injective(rdllist')
       /\ \A i \in (n + 1)..Len(rdllist) : rdllist[i] \in Elements(rdllist')
       /\ \A x \in Elements(rdllist') :
             x = Listener \/ \E i \in 1..Len(rdllist) : x = rdllist[i]
  <2> DEFINE rest == SubSeq(rdllist, n + 1, Len(rdllist))
  <2>1. /\ rest \in Seq(Fds \cup {Listener}) /\ Injective(rest)
        /\ Elements(rest) = {rdllist[i] : i \in (n + 1)..Len(rdllist)}
    BY <1>4, <1>5, RestFacts
  <2>2. \A i \in (n + 1)..Len(rdllist) : i \in 1..Len(rdllist)
    BY <1>5
  <2>3. CASE \E i \in R : LevelTriggered(rdllist[i])
    <3>1. rdllist' = rest \o <<Listener>>
      BY <1>2, <2>3 DEF R
    <3> HIDE DEF rest
    <3>2. rdllist' = Append(rest, Listener)
      BY <2>1, <3>1, AppendIsConcat
    <3>3. Listener \notin Elements(rest)
      <4>1. PICK i \in R : rdllist[i] = Listener
        BY <2>3 DEF LevelTriggered
      <4>2. i \in 1..n
        BY <1>6
      <4>3. ASSUME NEW k \in (n + 1)..Len(rdllist), rdllist[k] = Listener
            PROVE  FALSE
        <5>1. i = k
          BY <1>4, <1>5, <1>6, <2>2, <4>1, <4>3 DEF Injective
        <5> QED
          BY <1>5, <4>2, <5>1
      <4> QED
        BY <2>1, <4>3
    <3> QED
      BY <2>1, <2>2, <3>2, <3>3, AppendFacts
  <2>4. CASE ~\E i \in R : LevelTriggered(rdllist[i])
    <3>1. rdllist' = rest \o <<>>
      BY <1>2, <2>4 DEF R
    <3> HIDE DEF rest
    <3>2. rdllist' = rest
      BY <2>1, <3>1, ConcatEmptySeq
    <3> QED
      BY <2>1, <2>2, <3>2
  <2> QED
    BY <2>3, <2>4
<1>13. TypeOK'
  BY <1>1, <1>7, <1>11, <1>12 DEF IInv, TypeOK
<1>14. TableInv' /\ WatchInv' /\ QueueInv'
  BY <1>1 DEF IInv, TableInv, WatchInv, WatchedIffOpen, QueueInv, Injective, Running
<1>15. ListInv'
  <2>1. Listener \in interest /\ \A i \in 1..Len(rdllist) : rdllist[i] \in interest
    BY <1>1, <1>5 DEF IInv, WatchInv, ListInv, Running
  <2>2. \A x \in Elements(rdllist') : x \in interest
    BY <1>12, <2>1
  <2> QED
    BY <1>1, <1>12, <2>2 DEF ListInv, Elements
<1>16. LoopInv'
  BY <1>1 DEF LoopInv
<1>17. Distinct'
  <2> SUFFICES ASSUME NEW i \in 1..count, NEW j \in 1..count,
                      events'[i].fd = events'[j].fd
               PROVE  i = j
    BY <1>9 DEF Distinct
  <2>1. at[i] = at[j]
    BY <1>4, <1>5, <1>9, <1>10 DEF Injective
  <2>2. at[i] \in Int /\ i \in Int /\ j \in Int
    BY <1>5, <1>7, <1>9
  <2> QED
    BY <1>8, <2>1, <2>2
<1>18. ListenerInv'
  BY <1>1, <1>9, <1>10 DEF ListenerInv, Readable
<1>19. NoStaleEvent' /\ NewsInv'
  <2>1. (IF spc' = "errClose" THEN 2 ELSE 1)..Len(events') = 1..count
    BY <1>1, <1>11
  <2> QED
    BY <1>1, <1>10, <2>1 DEF NoStaleEvent, NewsInv, HasNews
<1>20. NoLostReadiness'
  <2> SUFFICES ASSUME NEW fd \in Fds, Readable(fd)'
               PROVE  fd \in Elements(rdllist') \/ \E i \in DOMAIN events' : events'[i].fd = fd
    BY DEF NoLostReadiness
  <2>1. Readable(fd)
    BY <1>1, ClientReadable, ClientReadableNext DEF HasNews
  <2>2. DOMAIN events = {}
    BY <1>1 DEF IInv, LoopInv
  <2>3. PICK p \in 1..Len(rdllist) : rdllist[p] = fd
    BY <1>1, <1>5, <2>1, <2>2 DEF IInv, NoLostReadiness, Running, Elements
  <2>4. CASE p \in (n + 1)..Len(rdllist)
    BY <1>12, <2>3, <2>4
  <2>5. CASE p \in 1..n
    <3>1. p \in R
      BY <1>6, <2>1, <2>3, <2>5
    <3>2. PICK i \in 1..count : at[i] = p
      BY <1>8, <3>1
    <3> QED
      BY <1>9, <1>10, <2>3, <3>2
  <2> QED
    BY <1>5, <2>4, <2>5
<1>21. AnswerInv'
  BY <1>1 DEF IInv, AnswerInv
<1> QED
  BY <1>13, <1>14, <1>15, <1>16, <1>17, <1>18, <1>19, <1>20, <1>21 DEF IInv

-----------------------------------------------------------------------------
(* The handlers.                                                           *)

\* An event that is not the first is in the rest of the batch.
LEMMA RestReports ==
    ASSUME IInv, events # <<>>, events' = Tail(events), NEW fd \in Fds,
           fd # Event.fd, \E i \in DOMAIN events : events[i].fd = fd
    PROVE  \E i \in DOMAIN events' : events'[i].fd = fd
<1>1. PICK i \in DOMAIN events : events[i].fd = fd
  OBVIOUS
<1>2. i - 1 \in DOMAIN events' /\ events'[i - 1] = events[i]
  BY <1>1, AdvanceKeeps
<1> QED
  BY <1>1, <1>2

\* Nobody in the queue gets a descriptor, or the first one is turned away: the
\* table and the ready list stay, the listener's event is done.
LEMMA NotAcceptedStep ==
    ASSUME IInv, spc = "batch", events # <<>>, Event.fd = Listener, backlog # <<>>,
           m_handle_new_client_accept_fails \/ m_handle_new_client_add_fails
    PROVE  IInv'
<1>1. /\ events' = Tail(events) /\ spc' = "batch"
      /\ UNCHANGED <<m_die, received, errfd, fdtab, interest, rdllist, peer,
                     arrived, answered>>
      /\ \/ conn' = conn /\ backlog' = backlog
         \/ /\ conn' = [conn EXCEPT ![Head(backlog)] = "refused"]
            /\ backlog' = Tail(backlog)
  BY DEF m_handle_new_client_accept_fails, m_handle_new_client_add_fails,
     Advance, kernel, client
<1>2. /\ events' \in Seq([fd : Fds \cup {Listener}, conn : Conns \cup {NoConn}])
      /\ Len(events') <= MAX_EVENTS /\ Distinct'
      /\ \A i \in DOMAIN events' : events'[i].fd # Listener
  BY <1>1, AdvanceKeeps
<1>3. /\ backlog \in Seq(Conns) /\ Tail(backlog) \in Seq(Conns)
      /\ Head(backlog) = backlog[1] /\ backlog[1] \in Conns /\ 1 \in DOMAIN backlog
      /\ \A i \in DOMAIN Tail(backlog) :
            i # 0 /\ i + 1 \in DOMAIN backlog /\ Tail(backlog)[i] = backlog[i + 1]
  <2>1. backlog \in Seq(Conns)
    BY DEF IInv, TypeOK
  <2>2. /\ Tail(backlog) \in Seq(Conns) /\ Len(backlog) \in Nat \ {0}
        /\ Head(backlog) = backlog[1] /\ backlog[1] \in Conns
    BY <2>1, TailFacts
  <2>3. DOMAIN backlog = 1..Len(backlog) /\ DOMAIN Tail(backlog) = 1..(Len(backlog) - 1)
    BY <2>1, TailFacts
  <2>4. \A i \in DOMAIN Tail(backlog) :
            i + 1 \in DOMAIN backlog /\ Tail(backlog)[i] = backlog[i + 1]
    BY <2>1, TailFacts
  <2>5. 1 \in DOMAIN backlog /\ \A i \in DOMAIN Tail(backlog) : i # 0
    BY <2>2, <2>3
  <2> QED
    BY <2>1, <2>2, <2>4, <2>5
<1>4. conn' \in [Conns -> {"idle", "queued", "open", "refused", "closed"}]
  BY <1>1, <1>3 DEF IInv, TypeOK
<1>5. TypeOK'
  <2>1. backlog' \in Seq(Conns)
    BY <1>1, <1>3
  <2> QED
    BY <1>1, <1>2, <1>4, <2>1 DEF IInv, TypeOK
<1>6. conn[backlog[1]] = "queued"
  BY <1>3 DEF IInv, QueueInv
<1>7. \A c \in Conns : conn'[c] = conn[c] \/ (c = backlog[1] /\ conn'[c] = "refused")
  BY <1>1, <1>3 DEF IInv, TypeOK
<1>8. TableInv'
  BY <1>1, <1>6, <1>7 DEF IInv, TypeOK, TableInv
<1>9. WatchInv' /\ ListInv'
  BY <1>1 DEF IInv, WatchInv, WatchedIffOpen, ListInv, Injective, Running
<1>10. QueueInv'
  <2>1. CASE conn' = conn /\ backlog' = backlog
    BY <2>1 DEF IInv, QueueInv, Injective
  <2>2. CASE conn' = [conn EXCEPT ![backlog[1]] = "refused"] /\ backlog' = Tail(backlog)
    <3>1. \A i \in DOMAIN backlog' : i \in Nat
      BY <1>3, <2>2
    <3>2. Injective(backlog')
      <4> SUFFICES ASSUME NEW i \in DOMAIN backlog', NEW j \in DOMAIN backlog',
                          backlog'[i] = backlog'[j]
                   PROVE  i = j
        BY DEF Injective
      <4>1. i + 1 = j + 1
        BY <1>3, <2>2 DEF IInv, QueueInv, Injective
      <4> QED
        BY <3>1, <4>1
    <3>3. ASSUME NEW i \in DOMAIN backlog'
          PROVE  conn'[backlog'[i]] = "queued"
      <4>1. i + 1 \in DOMAIN backlog /\ i + 1 # 1 /\ backlog'[i] = backlog[i + 1]
        BY <1>3, <2>2, <3>1
      <4>2. backlog[i + 1] # backlog[1] /\ conn[backlog[i + 1]] = "queued"
        BY <1>3, <4>1 DEF IInv, QueueInv, Injective
      <4>3. backlog[i + 1] \in Conns
        BY <1>3, <4>1
      <4> QED
        BY <1>7, <4>1, <4>2, <4>3
    <3> QED
      BY <3>2, <3>3 DEF QueueInv
  <2> QED
    BY <1>1, <1>3, <2>1, <2>2
<1>11. LoopInv' /\ ListenerInv'
  BY <1>1, <1>2 DEF LoopInv, ListenerInv
<1>12. NoStaleEvent' /\ NewsInv'
  BY <1>1, RestUnmoved
<1>13. NoLostReadiness'
  <2> SUFFICES ASSUME NEW fd \in Fds, Readable(fd)'
               PROVE  fd \in Elements(rdllist') \/ \E i \in DOMAIN events' : events'[i].fd = fd
    BY DEF NoLostReadiness
  <2>1. Readable(fd) /\ Running /\ fd # Event.fd
    BY <1>1, ClientReadable, ClientReadableNext DEF HasNews, Running, Listener, Fds
  <2> QED
    BY <1>1, <2>1, RestReports DEF IInv, NoLostReadiness
<1>14. AnswerInv'
  BY <1>1, <1>6, <1>7 DEF IInv, AnswerInv
<1> QED
  BY <1>2, <1>5, <1>8, <1>9, <1>10, <1>11, <1>12, <1>13, <1>14 DEF IInv

\* The oldest client of the queue gets the lowest free descriptor; epoll lists
\* it if something has arrived already.
LEMMA AcceptedStep ==
    ASSUME IInv, spc = "batch", events # <<>>, Event.fd = Listener, backlog # <<>>,
           m_handle_new_client_added
    PROVE  IInv'
<1> DEFINE fd == LowestFree
           c == Head(backlog)
<1>1. /\ FreeFds # {}
      /\ fdtab' = [fdtab EXCEPT ![fd] = c]
      /\ conn' = [conn EXCEPT ![c] = "open"]
      /\ rdllist' = IF HasNews(c) THEN Append(rdllist, fd) ELSE rdllist
      /\ interest' = interest \cup {fd}
      /\ backlog' = Tail(backlog)
      /\ events' = Tail(events) /\ spc' = "batch"
      /\ UNCHANGED <<m_die, received, errfd, peer, arrived, answered>>
  BY DEF m_handle_new_client_added, Advance
<1>2. fd \in Fds /\ fdtab[fd] = NoConn
  BY <1>1, LowestFreeIsFree
<1>3. /\ backlog \in Seq(Conns) /\ backlog' \in Seq(Conns)
      /\ c = backlog[1] /\ c \in Conns /\ 1 \in DOMAIN backlog
      /\ \A i \in DOMAIN backlog' :
            i \in Nat \ {0} /\ i + 1 \in DOMAIN backlog /\ backlog'[i] = backlog[i + 1]
  <2>1. backlog \in Seq(Conns)
    BY DEF IInv, TypeOK
  <2>2. /\ Tail(backlog) \in Seq(Conns) /\ Len(backlog) \in Nat \ {0}
        /\ Head(backlog) = backlog[1] /\ backlog[1] \in Conns
    BY <2>1, TailFacts
  <2>3. DOMAIN backlog = 1..Len(backlog) /\ DOMAIN Tail(backlog) = 1..(Len(backlog) - 1)
    BY <2>1, TailFacts
  <2>4. \A i \in DOMAIN Tail(backlog) :
            i + 1 \in DOMAIN backlog /\ Tail(backlog)[i] = backlog[i + 1]
    BY <2>1, TailFacts
  <2>5. 1 \in DOMAIN backlog /\ \A i \in DOMAIN Tail(backlog) : i \in Nat \ {0}
    BY <2>2, <2>3
  <2> QED
    BY <1>1, <2>1, <2>2, <2>4, <2>5
<1> HIDE DEF fd, c
<1>4. /\ fdtab \in [Fds -> Conns \cup {NoConn}]
      /\ conn \in [Conns -> {"idle", "queued", "open", "refused", "closed"}]
      /\ rdllist \in Seq(Fds \cup {Listener}) /\ NoConn \notin Conns
      /\ Running /\ Running' /\ Listener \notin Fds
  BY <1>1, ConnsAssumption DEF IInv, TypeOK, Running, Listener, Fds
<1>5. /\ \A f \in Fds : fdtab'[f] = IF f = fd THEN c ELSE fdtab[f]
      /\ \A d \in Conns : conn'[d] = IF d = c THEN "open" ELSE conn[d]
      /\ fdtab' \in [Fds -> Conns \cup {NoConn}]
      /\ conn' \in [Conns -> {"idle", "queued", "open", "refused", "closed"}]
  BY <1>1, <1>2, <1>3, <1>4
<1>6. conn[c] = "queued"
  BY <1>3 DEF IInv, QueueInv
<1>7. \A f \in Fds : fdtab[f] # c
  BY <1>3, <1>4, <1>6 DEF IInv, TableInv
<1>8. /\ events' \in Seq([fd : Fds \cup {Listener}, conn : Conns \cup {NoConn}])
      /\ Len(events') <= MAX_EVENTS /\ Distinct'
      /\ \A i \in DOMAIN events' : events'[i].fd # Listener
  BY <1>1, AdvanceKeeps
<1>9. fd \notin interest /\ fd \notin Elements(rdllist)
  <2>1. fd \notin interest
    BY <1>2, <1>4 DEF IInv, WatchInv, WatchedIffOpen
  <2> QED
    BY <2>1 DEF IInv, ListInv, Elements
<1>10. /\ rdllist' \in Seq(Fds \cup {Listener}) /\ Injective(rdllist')
       /\ Elements(rdllist') = Elements(rdllist) \cup IF HasNews(c) THEN {fd} ELSE {}
  <2>1. Injective(rdllist)
    BY DEF IInv, ListInv
  <2>2. CASE HasNews(c)
    <3>1. rdllist' = Append(rdllist, fd)
      BY <1>1, <2>2
    <3> QED
      BY <1>2, <1>4, <1>9, <2>1, <2>2, <3>1, AppendFacts
  <2>3. CASE ~HasNews(c)
    BY <1>1, <1>4, <2>1, <2>3
  <2> QED
    BY <2>2, <2>3
<1>11. TypeOK'
  <2>1. interest' \subseteq Fds \cup {Listener}
    BY <1>1, <1>2 DEF IInv, TypeOK
  <2> QED
    BY <1>1, <1>3, <1>5, <1>8, <1>10, <2>1 DEF IInv, TypeOK
<1>12. TableInv'
  <2>1. ASSUME NEW f \in Fds, NEW g \in Fds, fdtab'[f] = fdtab'[g], fdtab'[f] # NoConn
        PROVE  f = g
    BY <1>5, <1>7, <2>1 DEF IInv, TableInv
  <2>2. ASSUME NEW f \in Fds, fdtab'[f] # NoConn
        PROVE  conn'[fdtab'[f]] = "open"
    <3>1. CASE f = fd
      BY <1>3, <1>5, <3>1
    <3>2. CASE f # fd
      <4>1. fdtab'[f] = fdtab[f] /\ fdtab[f] \in Conns /\ fdtab[f] # c
        BY <1>4, <1>5, <1>7, <2>2, <3>2
      <4>2. conn[fdtab[f]] = "open"
        BY <1>4, <4>1 DEF IInv, TableInv
      <4> QED
        BY <1>5, <4>1, <4>2
    <3> QED
      BY <3>1, <3>2
  <2>3. ASSUME NEW d \in Conns, conn'[d] = "open"
        PROVE  \E f \in Fds : fdtab'[f] = d
    <3>1. CASE d = c
      BY <1>2, <1>5, <3>1
    <3>2. CASE d # c
      <4>1. PICK f \in Fds : fdtab[f] = d
        BY <1>5, <2>3, <3>2 DEF IInv, TableInv
      <4>2. f # fd
        BY <1>2, <1>4, <4>1
      <4> QED
        BY <1>5, <4>1, <4>2
    <3> QED
      BY <3>1, <3>2
  <2> QED
    BY <2>1, <2>2, <2>3 DEF TableInv
<1>13. WatchInv'
  <2>1. Listener \in interest /\ \A f \in Fds : f \in interest <=> fdtab[f] # NoConn
    BY <1>4 DEF IInv, WatchInv, WatchedIffOpen
  <2>2. \A f \in Fds : f \in interest' <=> fdtab'[f] # NoConn
    BY <1>1, <1>3, <1>4, <1>5, <2>1
  <2> QED
    BY <1>1, <2>1, <2>2 DEF WatchInv, WatchedIffOpen
<1>14. QueueInv'
  <2>1. Injective(backlog')
    <3> SUFFICES ASSUME NEW i \in DOMAIN backlog', NEW j \in DOMAIN backlog',
                        backlog'[i] = backlog'[j]
                 PROVE  i = j
      BY DEF Injective
    <3>1. i + 1 = j + 1
      BY <1>3 DEF IInv, QueueInv, Injective
    <3> QED
      BY <1>3, <3>1
  <2>2. ASSUME NEW i \in DOMAIN backlog'
        PROVE  conn'[backlog'[i]] = "queued"
    <3>1. i + 1 \in DOMAIN backlog /\ i + 1 # 1 /\ backlog'[i] = backlog[i + 1]
      BY <1>3
    <3>2. backlog[i + 1] # c /\ conn[backlog[i + 1]] = "queued"
      BY <1>3, <3>1 DEF IInv, QueueInv, Injective
    <3>3. backlog[i + 1] \in Conns
      BY <1>3, <3>1
    <3> QED
      BY <1>5, <3>1, <3>2, <3>3
  <2> QED
    BY <2>1, <2>2 DEF QueueInv
<1>15. ListInv'
  <2>1. \A x \in Elements(rdllist) : x \in interest
    BY DEF IInv, ListInv, Elements
  <2>2. \A x \in Elements(rdllist') : x \in interest'
    BY <1>1, <1>10, <2>1
  <2> QED
    BY <1>10, <2>2 DEF ListInv, Elements
<1>16. LoopInv' /\ ListenerInv'
  BY <1>1, <1>8 DEF LoopInv, ListenerInv
<1>17. NoStaleEvent' /\ NewsInv'
  <2>1. ASSUME NEW i \in DOMAIN events', events'[i].fd # Listener,
               fdtab[events'[i].fd] # NoConn
        PROVE  fdtab'[events'[i].fd] = fdtab[events'[i].fd]
    <3>1. events'[i].fd \in Fds
      <4>1. events'[i] \in [fd : Fds \cup {Listener}, conn : Conns \cup {NoConn}]
        BY <1>8, <2>1, HeldFacts
      <4> QED
        BY <2>1, <4>1
    <3> QED
      BY <1>2, <1>5, <2>1, <3>1
  <2> QED
    BY <1>1, <2>1, RestUnmoved
<1>18. NoLostReadiness'
  <2> SUFFICES ASSUME NEW f \in Fds, Readable(f)'
               PROVE  f \in Elements(rdllist') \/ \E i \in DOMAIN events' : events'[i].fd = f
    BY DEF NoLostReadiness
  <2>1. fdtab'[f] # NoConn /\ HasNews(fdtab'[f])
    BY <1>1, ClientReadableNext DEF HasNews
  <2>2. CASE f = fd
    BY <1>5, <1>10, <2>1, <2>2
  <2>3. CASE f # fd
    <3>1. Readable(f) /\ f # Event.fd
      BY <1>4, <1>5, <2>1, <2>3, ClientReadable
    <3> QED
      BY <1>1, <1>4, <1>10, <3>1, RestReports DEF IInv, NoLostReadiness
  <2> QED
    BY <2>2, <2>3
<1>19. AnswerInv'
  BY <1>1, <1>5, <1>6 DEF IInv, AnswerInv
<1> QED
  BY <1>8, <1>11, <1>12, <1>13, <1>14, <1>15, <1>16, <1>17, <1>18, <1>19 DEF IInv

\* A client's descriptor is closed and its event is done.
LEMMA HungUp ==
    ASSUME IInv, spc \in {"batch", "callback", "errClose"}, spc' = "batch",
           events # <<>>, Event.fd \in Fds, Close(Event.fd), events' = Tail(events),
           UNCHANGED <<backlog, peer, arrived>>
    PROVE  /\ TableInv' /\ WatchInv' /\ QueueInv' /\ ListInv' /\ LoopInv'
           /\ Distinct' /\ ListenerInv' /\ NoStaleEvent' /\ NewsInv'
           /\ NoLostReadiness'
<1>1. Running /\ Listener \notin Fds
  BY DEF Running, Listener, Fds
<1>2. /\ Elements(rdllist') = Elements(rdllist) \ {Event.fd}
      /\ TableInv' /\ WatchInv' /\ QueueInv' /\ ListInv'
  BY <1>1, CloseKeeps
<1>3. \A f \in Fds : fdtab'[f] = IF f = Event.fd THEN NoConn ELSE fdtab[f]
  BY DEF Close, IInv, TypeOK
<1>4. /\ events' \in Seq([fd : Fds \cup {Listener}, conn : Conns \cup {NoConn}])
      /\ Distinct'
      /\ \A i \in DOMAIN events' : /\ i + 1 \in DOMAIN events
                                   /\ events'[i] = events[i + 1]
                                   /\ events'[i].fd # Event.fd
  BY AdvanceKeeps
<1>5. LoopInv'
  BY DEF LoopInv
<1>6. ListenerInv'
  BY <1>4 DEF IInv, ListenerInv
<1>7. NoStaleEvent' /\ NewsInv'
  <2>1. ASSUME NEW i \in DOMAIN events', events'[i].fd # Listener
        PROVE  fdtab'[events'[i].fd] = fdtab[events'[i].fd]
    <3>1. events'[i].fd \in Fds
      <4>1. events'[i] \in [fd : Fds \cup {Listener}, conn : Conns \cup {NoConn}]
        BY <1>4, <2>1, HeldFacts
      <4> QED
        BY <2>1, <4>1
    <3> QED
      BY <1>3, <1>4, <3>1
  <2> QED
    BY <2>1, RestUnmoved
<1>8. NoLostReadiness'
  <2> SUFFICES ASSUME NEW f \in Fds, Readable(f)'
               PROVE  f \in Elements(rdllist') \/ \E i \in DOMAIN events' : events'[i].fd = f
    BY DEF NoLostReadiness
  <2>1. f # Event.fd /\ Readable(f)
    BY <1>3, ClientReadable, ClientReadableNext DEF HasNews
  <2> QED
    BY <1>1, <1>2, <2>1, RestReports DEF IInv, NoLostReadiness
<1> QED
  BY <1>2, <1>4, <1>5, <1>6, <1>7, <1>8

\* Who is hung up on is the client of the descriptor.
LEMMA CloseEnds ==
    ASSUME IInv, NEW fd \in Fds, Close(fd)
    PROVE  /\ \A c \in Conns : conn'[c] = IF fdtab[fd] = c THEN "closed" ELSE conn[c]
           /\ fdtab[fd] \in Conns \cup {NoConn}
BY DEF Close, IInv, TypeOK

\* Nothing to read: the client is removed.
LEMMA GoneStep ==
    ASSUME IInv, spc = "batch", events # <<>>, Event.fd # Listener,
           m_handle_client_event_gone(Event.fd)
    PROVE  IInv'
<1>1. /\ Close(Event.fd) /\ events' = Tail(events) /\ spc' = "batch"
      /\ UNCHANGED <<m_die, received, errfd, backlog, peer, arrived, answered>>
  BY DEF m_handle_client_event_gone, REMOVE_CLIENT, Advance
<1>2. /\ events' \in Seq([fd : Fds \cup {Listener}, conn : Conns \cup {NoConn}])
      /\ Len(events') <= MAX_EVENTS /\ Event.fd \in Fds
  BY <1>1, AdvanceKeeps
<1>3. Running
  BY DEF Running
<1>4. /\ fdtab' \in [Fds -> Conns \cup {NoConn}]
      /\ interest' \subseteq Fds \cup {Listener}
      /\ rdllist' \in Seq(Fds \cup {Listener})
      /\ conn' \in [Conns -> {"idle", "queued", "open", "refused", "closed"}]
  BY <1>1, <1>2, <1>3, CloseKeeps
<1>5. TypeOK'
  BY <1>1, <1>2, <1>4 DEF IInv, TypeOK
<1>6. AnswerInv'
  BY <1>1, <1>2, CloseEnds DEF IInv, AnswerInv
<1> QED
  BY <1>1, <1>2, <1>5, <1>6, HungUp DEF IInv

\* recv fills the buffer with what has arrived, as far as it goes.
LEMMA RecvStep ==
    ASSUME IInv, spc = "batch", events # <<>>, Event.fd # Listener,
           m_handle_client_event_recv(Event.fd)
    PROVE  IInv'
<1> DEFINE c == fdtab[Event.fd]
<1>1. /\ c # NoConn /\ arrived[c] > 0
      /\ received' = Received(c) /\ spc' = "callback"
      /\ UNCHANGED <<m_die, events, errfd, fdtab, interest, rdllist, backlog,
                     conn, peer, arrived, answered>>
  BY DEF m_handle_client_event_recv, kernel, client
<1>2. Event.fd \in Fds /\ c \in Conns
  <2>1. /\ events \in Seq([fd : Fds \cup {Listener}, conn : Conns \cup {NoConn}])
        /\ fdtab \in [Fds -> Conns \cup {NoConn}]
    BY DEF IInv, TypeOK
  <2>2. events[1] \in [fd : Fds \cup {Listener}, conn : Conns \cup {NoConn}]
    BY <2>1, TailFacts
  <2> QED
    BY <1>1, <2>1, <2>2 DEF Event
<1>3. received' \in 0..RecvMax /\ received' \in 1..arrived[c]
  <2>1. arrived[c] \in Nat
    BY <1>2 DEF IInv, TypeOK
  <2>2. RecvMax \in Nat /\ RecvMax > 0
    BY LimitsAssumption
  <2> QED
    BY <1>1, <2>1, <2>2 DEF Received
<1>4. TypeOK'
  BY <1>1, <1>3 DEF IInv, TypeOK
<1>5. TableInv' /\ WatchInv' /\ QueueInv' /\ ListInv'
  BY <1>1, KernelUnmoved DEF Running
<1>6. LoopInv'
  BY <1>1, <1>2, <1>3 DEF LoopInv, Event
<1>7. Distinct' /\ NoStaleEvent' /\ NewsInv'
  BY <1>1, BatchUnmoved DEF HasNews
<1>8. ListenerInv' /\ AnswerInv'
  BY <1>1 DEF IInv, ListenerInv, AnswerInv
<1>9. NoLostReadiness'
  BY <1>1, ReadinessKept DEF Running
<1> QED
  BY <1>4, <1>5, <1>6, <1>7, <1>8, <1>9 DEF IInv

\* The callback answers, the client is removed.
LEMMA AnsweredStep ==
    ASSUME IInv, m_handle_client_event_answered
    PROVE  IInv'
<1>1. /\ spc = "callback" /\ Close(Event.fd) /\ events' = Tail(events)
      /\ answered' = [answered EXCEPT ![fdtab[Event.fd]] = received]
      /\ received' = 0
      /\ UNCHANGED <<m_die, errfd, backlog, peer, arrived>>
  BY DEF m_handle_client_event_answered, REMOVE_CLIENT, Advance
<1>2. spc' = "batch"
  BY DEF m_handle_client_event_answered
<1>3. events # <<>> /\ Event.fd \in Fds /\ fdtab[Event.fd] # NoConn /\ Running
  BY <1>1 DEF IInv, LoopInv, Running
<1>4. /\ events' \in Seq([fd : Fds \cup {Listener}, conn : Conns \cup {NoConn}])
      /\ Len(events') <= MAX_EVENTS
  BY <1>1, <1>3, AdvanceKeeps
<1>5. /\ fdtab' \in [Fds -> Conns \cup {NoConn}]
      /\ interest' \subseteq Fds \cup {Listener}
      /\ rdllist' \in Seq(Fds \cup {Listener})
      /\ conn' \in [Conns -> {"idle", "queued", "open", "refused", "closed"}]
  BY <1>1, <1>3, CloseKeeps
<1>6. received \in Nat /\ answered \in [Conns -> Nat] /\ RecvMax \in Nat
  BY LimitsAssumption DEF IInv, TypeOK
<1>7. answered' \in [Conns -> Nat] /\ received' \in 0..RecvMax
  <2>1. received' \in 0..RecvMax
    BY <1>1, <1>6
  <2>2. answered' \in [Conns -> Nat]
    BY <1>1, <1>6
  <2> QED
    BY <2>1, <2>2
<1>8. TypeOK'
  BY <1>1, <1>2, <1>4, <1>5, <1>7 DEF IInv, TypeOK
<1>9. AnswerInv'
  BY <1>1, <1>3, <1>6, CloseEnds DEF IInv, AnswerInv
<1> QED
  BY <1>1, <1>2, <1>3, <1>8, <1>9, HungUp DEF IInv

\* The callback fails, the client is removed; its event is still the first.
LEMMA ErrorStep ==
    ASSUME IInv, m_handle_client_event_error
    PROVE  IInv'
<1>1. /\ spc = "callback" /\ spc' = "errClose" /\ Close(Event.fd)
      /\ received' = 0 /\ errfd' = Event.fd
      /\ UNCHANGED <<m_die, events, backlog, peer, arrived, answered>>
  BY DEF m_handle_client_event_error, REMOVE_CLIENT
<1>2. /\ events # <<>> /\ Event.fd \in Fds /\ Running
      /\ Listener \notin Fds /\ RecvMax \in Nat
  BY <1>1, LimitsAssumption DEF IInv, LoopInv, Running, Listener, Fds
<1>3. /\ fdtab' \in [Fds -> Conns \cup {NoConn}]
      /\ interest' \subseteq Fds \cup {Listener}
      /\ rdllist' \in Seq(Fds \cup {Listener})
      /\ conn' \in [Conns -> {"idle", "queued", "open", "refused", "closed"}]
      /\ Elements(rdllist') = Elements(rdllist) \ {Event.fd}
      /\ TableInv' /\ WatchInv' /\ QueueInv' /\ ListInv'
  BY <1>1, <1>2, CloseKeeps
<1>4. \A f \in Fds : fdtab'[f] = IF f = Event.fd THEN NoConn ELSE fdtab[f]
  BY <1>1 DEF Close, IInv, TypeOK
<1>5. TypeOK'
  BY <1>1, <1>2, <1>3 DEF IInv, TypeOK
<1>6. LoopInv'
  BY <1>1, <1>2, <1>4 DEF LoopInv, Event
<1>7. Distinct' /\ ListenerInv'
  BY <1>1 DEF IInv, Distinct, ListenerInv
<1>8. NoStaleEvent' /\ NewsInv'
  <2>1. events \in Seq([fd : Fds \cup {Listener}, conn : Conns \cup {NoConn}])
    BY DEF IInv, TypeOK
  <2>2. ASSUME NEW i \in 2..Len(events), events[i].fd # Listener
        PROVE  /\ events[i].conn # NoConn /\ fdtab'[events[i].fd] = events[i].conn
               /\ HasNews(events[i].conn)
    <3>1. i \in 1..Len(events) /\ 1 \in 1..Len(events) /\ i # 1
      BY <2>1
    <3>2. /\ events[i].conn # NoConn /\ fdtab[events[i].fd] = events[i].conn
          /\ HasNews(events[i].conn)
      BY <1>1, <2>2, <3>1 DEF IInv, NoStaleEvent, NewsInv
    <3>3. events[i].fd # Event.fd
      <4>1. DOMAIN events = 1..Len(events)
        BY <2>1
      <4> QED
        BY <3>1, <4>1 DEF IInv, Distinct, Event
    <3>4. events[i].fd \in Fds
      <4>1. events[i] \in [fd : Fds \cup {Listener}, conn : Conns \cup {NoConn}]
        BY <2>1, <3>1, ElementOfSeq
      <4> QED
        BY <2>2, <4>1
    <3> QED
      BY <1>4, <3>2, <3>3, <3>4
  <2> QED
    BY <1>1, <2>2 DEF NoStaleEvent, NewsInv, HasNews
<1>9. NoLostReadiness'
  <2> SUFFICES ASSUME NEW f \in Fds, Readable(f)'
               PROVE  f \in Elements(rdllist') \/ \E i \in DOMAIN events' : events'[i].fd = f
    BY DEF NoLostReadiness
  <2>1. f # Event.fd /\ Readable(f)
    BY <1>1, <1>4, ClientReadable, ClientReadableNext DEF HasNews
  <2> QED
    BY <1>1, <1>2, <1>3, <2>1 DEF IInv, NoLostReadiness
<1>10. AnswerInv'
  BY <1>1, <1>2, CloseEnds DEF IInv, AnswerInv
<1> QED
  BY <1>3, <1>5, <1>6, <1>7, <1>8, <1>9, <1>10 DEF IInv

\* The second close finds the descriptor free and changes nothing.
LEMMA CloseAgainStep ==
    ASSUME IInv, server_select_close_again
    PROVE  IInv'
<1>1. /\ spc = "errClose" /\ spc' = "batch" /\ Close(errfd) /\ events' = Tail(events)
      /\ UNCHANGED <<m_die, received, errfd, backlog, peer, arrived, answered>>
  BY DEF server_select_close_again, Advance
<1>2. /\ events # <<>> /\ errfd = Event.fd /\ Event.fd \in Fds /\ Running
  BY <1>1 DEF IInv, LoopInv, Running
<1>3. /\ events' \in Seq([fd : Fds \cup {Listener}, conn : Conns \cup {NoConn}])
      /\ Len(events') <= MAX_EVENTS
  BY <1>1, <1>2, AdvanceKeeps
<1>4. /\ fdtab' \in [Fds -> Conns \cup {NoConn}]
      /\ interest' \subseteq Fds \cup {Listener}
      /\ rdllist' \in Seq(Fds \cup {Listener})
      /\ conn' \in [Conns -> {"idle", "queued", "open", "refused", "closed"}]
  BY <1>1, <1>2, CloseKeeps
<1>5. TypeOK'
  BY <1>1, <1>3, <1>4 DEF IInv, TypeOK
<1>6. AnswerInv'
  BY <1>1, <1>2, CloseEnds DEF IInv, AnswerInv
<1> QED
  BY <1>1, <1>2, <1>5, <1>6, HungUp DEF IInv

-----------------------------------------------------------------------------
(* Every step preserves the invariant.                                     *)

\* A step that changes nothing.
LEMMA StutterStep ==
    ASSUME IInv, UNCHANGED vars
    PROVE  IInv'
<1>1. UNCHANGED <<spc, m_die, events, received, errfd, kernel, client>>
  BY DEF vars, loop
<1>2. m_die' \in BOOLEAN
  BY <1>1 DEF IInv, TypeOK
<1> QED
  BY <1>1, <1>2, LoopOnlyStep

\* Whichever actor takes the step.
LEMMA IInvStep ==
    ASSUME IInv, [Next]_vars
    PROVE  IInv'
<1>1. CASE ClientActs
  BY <1>1, ConnectStep, ClientStep DEF ClientActs
<1>2. CASE \/ signal_handler \/ signal_interrupts \/ main_loop \/ server_select_done
           \/ m_handle_client_event_crashes
  BY <1>2, BetweenBatchesStep
<1>3. CASE server_cleanup
  BY <1>3, CleanupStep
<1>4. CASE server_select
  BY <1>4, SelectStep
<1>5. CASE server_select_timeout
  BY <1>5, TimeoutStep
<1>6. CASE m_handle_new_client
  BY <1>6, NotAcceptedStep, AcceptedStep DEF m_handle_new_client
<1>7. CASE m_handle_client_event
  BY <1>7, GoneStep, RecvStep DEF m_handle_client_event
<1>8. CASE m_handle_client_event_answered
  BY <1>8, AnsweredStep
<1>9. CASE m_handle_client_event_error
  BY <1>9, ErrorStep
<1>10. CASE server_select_close_again
  BY <1>10, CloseAgainStep
<1>11. CASE UNCHANGED vars
  BY <1>11, StutterStep
<1> QED
  BY <1>1, <1>2, <1>3, <1>4, <1>5, <1>6, <1>7, <1>8, <1>9, <1>10, <1>11
     DEF Next, ServerWorks, Ended

-----------------------------------------------------------------------------
(* What the runs check, for every number of clients, every length of their *)
(* requests and every limit.                                               *)

\* The invariant of the event loop and of the kernel's tables it works on.
THEOREM IInvInvariant == Spec => []IInv
<1>1. IInv /\ [Next]_vars => IInv'
  BY IInvStep
<1> QED
  BY <1>1, IInvInit, PTL DEF Spec

\* The state stays of its type.
THEOREM TypeCorrect == Spec => []TypeOK
<1>1. IInv => TypeOK
  BY DEF IInv
<1> QED
  BY <1>1, IInvInvariant, PTL

\* An event not yet handled speaks of the connection it was reported for.
THEOREM NeverStale == Spec => []NoStaleEvent
<1>1. IInv => NoStaleEvent
  BY DEF IInv
<1> QED
  BY <1>1, IInvInvariant, PTL

\* A client with something to say is on the ready list or in the batch.
THEOREM NothingLost == Spec => []NoLostReadiness
<1>1. IInv => NoLostReadiness
  BY DEF IInv
<1> QED
  BY <1>1, IInvInvariant, PTL

\* accept is called only with somebody in the queue.
THEOREM NeverBlocks == Spec => []AcceptNeverBlocks
<1>1. IInv => AcceptNeverBlocks
  <2> SUFFICES ASSUME IInv, events # <<>>, Event.fd = Listener
               PROVE  backlog # <<>>
    BY DEF AcceptNeverBlocks
  <2>1. events \in Seq([fd : Fds \cup {Listener}, conn : Conns \cup {NoConn}])
    BY DEF IInv, TypeOK
  <2>2. 1 \in DOMAIN events
    BY <2>1
  <2> QED
    BY <2>2 DEF IInv, ListenerInv, Event
<1> QED
  BY <1>1, IInvInvariant, PTL

\* epoll watches the open descriptors and no other.
THEOREM AlwaysWatched == Spec => []WatchedIffOpen
<1>1. IInv => WatchedIffOpen
  BY DEF IInv, WatchInv
<1> QED
  BY <1>1, IInvInvariant, PTL

\* Whoever had a connection and has it no longer is the client of the event.
LEMMA HangUpStep ==
    ASSUME IInv, Next, NEW c \in Conns, conn[c] = "open", conn'[c] # "open"
    PROVE  /\ spc # "errClose"
           /\ events # <<>> /\ Event.fd # Listener /\ Event.conn = c
           /\ HasNews(c)
<1>0. conn \in [Conns -> {"idle", "queued", "open", "refused", "closed"}]
  BY DEF IInv, TypeOK
<1>1. CASE ClientActs
  BY <1>0, <1>1 DEF ClientActs, Connect, Send, Leave
<1>2. CASE \/ signal_handler \/ signal_interrupts \/ main_loop \/ server_select_done
           \/ server_cleanup \/ server_select \/ server_select_timeout
           \/ m_handle_client_event_crashes \/ Ended
  BY <1>2 DEF signal_handler, signal_interrupts, main_loop, server_select_done,
              server_cleanup, server_select, server_select_timeout,
              m_handle_client_event_crashes, Ended, vars, client
<1>3. CASE m_handle_new_client
  <2>1. backlog \in Seq(Conns) /\ backlog # <<>>
    BY <1>3 DEF m_handle_new_client, IInv, TypeOK
  <2>2. 1 \in DOMAIN backlog /\ Head(backlog) = backlog[1]
    BY <2>1
  <2>3. conn[Head(backlog)] = "queued"
    BY <2>2 DEF IInv, QueueInv
  <2> QED
    BY <1>0, <1>3, <2>3
       DEF m_handle_new_client, m_handle_new_client_accept_fails,
           m_handle_new_client_added, m_handle_new_client_add_fails, client
<1>4. ASSUME Close(Event.fd), events # <<>>, Event.fd # Listener, spc # "errClose"
      PROVE  fdtab[Event.fd] = c /\ Event.conn = c /\ HasNews(c)
  <2>1. fdtab[Event.fd] = c
    BY <1>4 DEF Close
  <2>2. events \in Seq([fd : Fds \cup {Listener}, conn : Conns \cup {NoConn}])
    BY DEF IInv, TypeOK
  <2>3. 1 \in 1..Len(events)
    BY <1>4, <2>2
  <2> QED
    BY <1>4, <2>1, <2>3 DEF IInv, NoStaleEvent, NewsInv, Event
<1>5. CASE m_handle_client_event
  <2>1. CASE m_handle_client_event_gone(Event.fd)
    BY <1>4, <1>5, <2>1 DEF m_handle_client_event, m_handle_client_event_gone, REMOVE_CLIENT
  <2>2. CASE m_handle_client_event_recv(Event.fd)
    BY <2>2 DEF m_handle_client_event_recv, client
  <2> QED
    BY <1>5, <2>1, <2>2 DEF m_handle_client_event
<1>6. CASE m_handle_client_event_answered \/ m_handle_client_event_error
  <2>1. spc = "callback" /\ Close(Event.fd)
    BY <1>6 DEF m_handle_client_event_answered, m_handle_client_event_error, REMOVE_CLIENT
  <2>2. events # <<>> /\ Event.fd # Listener
    BY <2>1 DEF IInv, LoopInv, Listener, Fds
  <2> QED
    BY <1>4, <2>1, <2>2
<1>7. CASE server_select_close_again
  <2>1. spc = "errClose" /\ Close(errfd)
    BY <1>7 DEF server_select_close_again
  <2>2. fdtab[errfd] \notin Conns
    BY <2>1, ConnsAssumption DEF IInv, LoopInv
  <2> QED
    BY <2>1, <2>2 DEF Close
<1> QED
  BY <1>1, <1>2, <1>3, <1>5, <1>6, <1>7 DEF Next, ServerWorks

\* The server hangs up only on the client whose event it handles, and only when
\* that client has sent something or has left.
THEOREM OnlyItsClient == Spec => HangsUpOnlyOnItsClient
<1>1. IInv /\ [Next]_vars =>
         [\A c \in Conns :
             conn[c] = "open" /\ conn'[c] # "open" =>
                 /\ spc # "errClose"
                 /\ events # <<>> /\ Event.fd # Listener /\ Event.conn = c
                 /\ HasNews(c)]_vars
  BY HangUpStep
<1> QED
  BY <1>1, IInvInvariant, PTL DEF Spec, HangsUpOnlyOnItsClient

-----------------------------------------------------------------------------
(* The event loop is the service of HttpService, step by step.             *)

\* The clients' steps are theirs in the service too.
LEMMA ServiceClient ==
    ASSUME NEW c \in Conns, Connect(c) \/ Send(c) \/ Leave(c)
    PROVE  Service!Next
<1>1. CASE Connect(c)
  <2>1. Service!Enter(c)
    BY <1>1 DEF Connect, Service!Enter, Running, loop
  <2> QED
    BY <2>1 DEF Service!Next
<1>2. CASE Send(c)
  <2>1. Service!Send(c)
    BY <1>2 DEF Send, Service!Send, Running, loop
  <2> QED
    BY <2>1 DEF Service!Next
<1>3. CASE Leave(c)
  <2>1. Service!Leave(c)
    BY <1>3 DEF Leave, Service!Leave, Running, loop
  <2> QED
    BY <2>1 DEF Service!Next
<1> QED
  BY <1>1, <1>2, <1>3

\* The queue is served from its head, and who is there was not let in before.
LEMMA ServiceAccept ==
    ASSUME IInv, m_handle_new_client
    PROVE  [Service!Next]_Service!service
<1>1. spc = "batch" /\ spc' = "batch" /\ backlog # <<>>
  BY DEF m_handle_new_client, m_handle_new_client_accept_fails,
         m_handle_new_client_added, m_handle_new_client_add_fails
<1>2. Head(backlog) \in Conns /\ conn[Head(backlog)] = "queued"
  <2>1. backlog \in Seq(Conns)
    BY DEF IInv, TypeOK
  <2>2. 1 \in DOMAIN backlog /\ Head(backlog) = backlog[1] /\ Head(backlog) \in Conns
    BY <1>1, <2>1
  <2> QED
    BY <2>2 DEF IInv, QueueInv
<1>3. CASE m_handle_new_client_accept_fails
  BY <1>1, <1>3 DEF m_handle_new_client_accept_fails, client, Service!service, Running
<1>4. CASE m_handle_new_client_added
  <2>1. Service!Admit(Head(backlog))
    BY <1>1, <1>2, <1>4 DEF m_handle_new_client_added, Service!Admit, Running
  <2> QED
    BY <1>2, <2>1 DEF Service!Next
<1>5. CASE m_handle_new_client_add_fails
  <2>1. Service!Refuse(Head(backlog))
    BY <1>1, <1>2, <1>5 DEF m_handle_new_client_add_fails, Service!Refuse, Running
  <2> QED
    BY <1>2, <2>1 DEF Service!Next
<1> QED
  BY <1>3, <1>4, <1>5 DEF m_handle_new_client

\* A client that is hung up on was heard: once, with an answer made from what
\* had arrived, or with none.
LEMMA ServiceHear ==
    ASSUME IInv, NEW fd \in Fds, fdtab[fd] # NoConn, HasNews(fdtab[fd]),
           Running, Running', Close(fd), UNCHANGED <<peer, arrived>>,
           NEW n \in 0..arrived[fdtab[fd]],
           answered' = [answered EXCEPT ![fdtab[fd]] = n]
    PROVE  Service!Next
<1> DEFINE c == fdtab[fd]
<1>1. c \in Conns /\ conn[c] = "open"
  BY DEF IInv, TypeOK, TableInv
<1>2. conn' = [conn EXCEPT ![c] = "closed"]
  <2>1. conn' = [d \in Conns |-> IF c = d THEN "closed" ELSE conn[d]]
    BY DEF Close
  <2>2. conn \in [Conns -> {"idle", "queued", "open", "refused", "closed"}]
    BY DEF IInv, TypeOK
  <2> QED
    BY <1>1, <2>1, <2>2
<1>3. HasNews(c) <=> Service!HasNews(c)
  BY DEF HasNews, Service!HasNews
<1>4. Service!Hear(c)
  BY <1>1, <1>2, <1>3 DEF Service!Hear
<1> QED
  BY <1>1, <1>4 DEF Service!Next

\* Without an answer, the number of segments it was made from stays zero.
LEMMA HeardInVain ==
    ASSUME IInv, NEW c \in Conns, conn[c] = "open", UNCHANGED answered
    PROVE  0 \in 0..arrived[c] /\ answered' = [answered EXCEPT ![c] = 0]
<1>1. answered \in [Conns -> Nat] /\ answered[c] = 0 /\ arrived[c] \in Nat
  BY DEF IInv, TypeOK, AnswerInv
<1> QED
  BY <1>1

\* Nothing could be read: the client had left, and is heard without an answer.
LEMMA ServiceGone ==
    ASSUME IInv, spc = "batch", events # <<>>, Event.fd # Listener,
           m_handle_client_event_gone(Event.fd)
    PROVE  [Service!Next]_Service!service
<1>1. events \in Seq([fd : Fds \cup {Listener}, conn : Conns \cup {NoConn}])
  BY DEF IInv, TypeOK
<1>2. /\ 1 \in DOMAIN events /\ 1 \in 1..Len(events)
      /\ events[1] \in [fd : Fds \cup {Listener}, conn : Conns \cup {NoConn}]
  <2>1. /\ Len(events) \in Nat \ {0}
        /\ DOMAIN events = 1..Len(events)
        /\ events[1] \in [fd : Fds \cup {Listener}, conn : Conns \cup {NoConn}]
    BY <1>1, TailFacts
  <2>2. 1 \in 1..Len(events)
    BY <2>1
  <2> QED
    BY <2>1, <2>2
<1>3. /\ Event.fd \in Fds
      /\ fdtab[Event.fd] # NoConn
      /\ fdtab[Event.fd] = Event.conn
      /\ HasNews(Event.conn)
  BY <1>2 DEF IInv, NoStaleEvent, NewsInv, Event
<1>4. fdtab[Event.fd] \in Conns /\ conn[fdtab[Event.fd]] = "open"
  BY <1>3 DEF IInv, TypeOK, TableInv
<1>5. /\ Close(Event.fd)
      /\ UNCHANGED <<spc, peer, arrived, answered>>
  BY DEF m_handle_client_event_gone, REMOVE_CLIENT
<1>6. Running /\ Running'
  BY <1>5 DEF Running
<1>7. /\ 0 \in 0..arrived[fdtab[Event.fd]]
      /\ answered' = [answered EXCEPT ![fdtab[Event.fd]] = 0]
  BY <1>4, <1>5, HeardInVain
<1>8. Service!Next
  BY <1>3, <1>5, <1>6, <1>7, ServiceHear
<1> QED
  BY <1>8

\* In the callback the client was just heard.
LEMMA ServiceCallback ==
    ASSUME IInv, m_handle_client_event_answered \/ m_handle_client_event_error
    PROVE  Service!Next
<1>1. /\ spc = "callback" /\ Close(Event.fd) /\ UNCHANGED <<peer, arrived>>
      /\ spc' \in {"batch", "errClose"}
  BY DEF m_handle_client_event_answered, m_handle_client_event_error,
         REMOVE_CLIENT
<1>2. /\ Event.fd \in Fds
      /\ fdtab[Event.fd] # NoConn
      /\ received \in 1..arrived[fdtab[Event.fd]]
  BY <1>1 DEF IInv, LoopInv
<1>3. fdtab[Event.fd] \in Conns /\ conn[fdtab[Event.fd]] = "open"
  BY <1>2 DEF IInv, TypeOK, TableInv
<1>4. arrived[fdtab[Event.fd]] \in Nat
  BY <1>3 DEF IInv, TypeOK
<1>5. HasNews(fdtab[Event.fd]) /\ received \in 0..arrived[fdtab[Event.fd]]
  BY <1>2, <1>4 DEF HasNews
<1>6. Running /\ Running'
  BY <1>1 DEF Running
<1>7. CASE m_handle_client_event_answered
  <2>1. answered' = [answered EXCEPT ![fdtab[Event.fd]] = received]
    BY <1>7 DEF m_handle_client_event_answered
  <2> QED
    BY <1>1, <1>2, <1>5, <1>6, <2>1, ServiceHear
<1>8. CASE m_handle_client_event_error
  <2>1. UNCHANGED answered
    BY <1>8 DEF m_handle_client_event_error
  <2>2. /\ 0 \in 0..arrived[fdtab[Event.fd]]
        /\ answered' = [answered EXCEPT ![fdtab[Event.fd]] = 0]
    BY <1>3, <2>1, HeardInVain
  <2> QED
    BY <1>1, <1>2, <1>5, <1>6, <2>2, ServiceHear
<1> QED
  BY <1>7, <1>8

\* The second close finds nothing to close.
LEMMA ServiceCloseAgain ==
    ASSUME IInv, server_select_close_again
    PROVE  UNCHANGED Service!service
<1>1. /\ spc = "errClose" /\ spc' = "batch" /\ Close(errfd)
      /\ UNCHANGED <<peer, arrived, answered>>
  BY DEF server_select_close_again
<1>2. fdtab[errfd] \notin Conns
  BY <1>1, ConnsAssumption DEF IInv, LoopInv
<1>3. conn' = conn
  <2>1. conn' = [c \in Conns |-> IF fdtab[errfd] = c THEN "closed" ELSE conn[c]]
    BY <1>1 DEF Close
  <2>2. conn \in [Conns -> {"idle", "queued", "open", "refused", "closed"}]
    BY DEF IInv, TypeOK
  <2> QED
    BY <1>2, <2>1, <2>2
<1> QED
  BY <1>1, <1>3 DEF Service!service, Running

\* The steps no client can tell, and the three that end the loop.
LEMMA ServiceLoop ==
    ASSUME \/ signal_handler \/ signal_interrupts \/ main_loop \/ server_cleanup
           \/ server_select \/ server_select_timeout \/ server_select_done
           \/ m_handle_client_event_crashes
           \/ \E fd \in Fds : m_handle_client_event_recv(fd) /\ spc = "batch"
           \/ UNCHANGED vars
    PROVE  [Service!Next]_Service!service
<1>1. CASE signal_interrupts \/ server_cleanup \/ m_handle_client_event_crashes
  <2>1. Running /\ ~Running' /\ UNCHANGED client
    BY <1>1 DEF signal_interrupts, server_cleanup, m_handle_client_event_crashes, Running
  <2>2. Service!Stop
    BY <2>1 DEF client, Service!Stop
  <2> QED
    BY <2>2 DEF Service!Next
<1>2. CASE signal_handler \/ UNCHANGED vars
  <2>1. UNCHANGED <<spc, client>>
    BY <1>2 DEF signal_handler, vars, loop
  <2> QED
    BY <2>1 DEF client, Service!service, Running
<1>3. ASSUME UNCHANGED client, Running, Running'
      PROVE  UNCHANGED Service!service
  BY <1>3 DEF client, Service!service
<1>4. CASE main_loop \/ server_select \/ server_select_timeout \/ server_select_done
  <2>1. UNCHANGED client /\ Running /\ Running'
    BY <1>4 DEF main_loop, server_select, server_select_timeout, server_select_done,
                Running
  <2> QED
    BY <1>3, <2>1
<1>5. CASE \E fd \in Fds : m_handle_client_event_recv(fd) /\ spc = "batch"
  <2>1. UNCHANGED client /\ Running /\ Running'
    BY <1>5 DEF m_handle_client_event_recv, Running
  <2> QED
    BY <1>3, <2>1
<1> QED
  BY <1>1, <1>2, <1>4, <1>5

\* A step of the event loop, whatever it is, seen by the clients.
LEMMA ServiceStep ==
    ASSUME IInv, [Next]_vars
    PROVE  [Service!Next]_Service!service
<1>1. CASE ClientActs
  BY <1>1, ServiceClient DEF ClientActs
<1>2. CASE m_handle_new_client
  BY <1>2, ServiceAccept
<1>3. CASE m_handle_client_event
  <2>1. spc = "batch" /\ events # <<>> /\ Event.fd # Listener
    BY <1>3 DEF m_handle_client_event
  <2>2. Event.fd \in Fds
    <3>1. events \in Seq([fd : Fds \cup {Listener}, conn : Conns \cup {NoConn}])
      BY DEF IInv, TypeOK
    <3>2. events[1] \in [fd : Fds \cup {Listener}, conn : Conns \cup {NoConn}]
      BY <2>1, <3>1, TailFacts
    <3> QED
      BY <2>1, <3>2 DEF Event
  <2>3. CASE m_handle_client_event_gone(Event.fd)
    BY <2>1, <2>3, ServiceGone
  <2>4. CASE m_handle_client_event_recv(Event.fd)
    BY <2>1, <2>2, <2>4, ServiceLoop
  <2> QED
    BY <1>3, <2>3, <2>4 DEF m_handle_client_event
<1>4. CASE m_handle_client_event_answered \/ m_handle_client_event_error
  BY <1>4, ServiceCallback
<1>5. CASE server_select_close_again
  BY <1>5, ServiceCloseAgain
<1>6. CASE \/ signal_handler \/ signal_interrupts \/ main_loop \/ server_cleanup
           \/ server_select \/ server_select_timeout \/ server_select_done
           \/ m_handle_client_event_crashes \/ UNCHANGED vars
  BY <1>6, ServiceLoop
<1> QED
  BY <1>1, <1>2, <1>3, <1>4, <1>5, <1>6 DEF Next, ServerWorks, Ended

\* Every step of the event loop is a step of the service or none: a client is
\* taken up, heard and answered at most once, with what had arrived when it
\* was heard, and only one that has something to say is hung up on.
THEOREM ServiceImplemented == Spec => ImplementsServiceSteps
<1>1. Init => Service!Init
  BY DEF Init, Service!Init, Running
<1>2. IInv /\ [Next]_vars => [Service!Next]_Service!service
  BY ServiceStep
<1> QED
  BY <1>1, <1>2, IInvInvariant, PTL DEF Spec, ImplementsServiceSteps, Service!Spec

-----------------------------------------------------------------------------
(* HttpServer: the inductive invariant.                                    *)

\* No more segments arrive, and none are answered, than a client sends.
SegmentsInv == \A c \in Conns : arrived[c] <= Size[c] /\ answered[c] <= Size[c]

\* A client has the reply that the segments it was answered from deserve, and
\* none before it is answered.
ReplyInv ==
    /\ DOMAIN reply = Conns
    /\ \A c \in Conns :
          IF answered[c] = 0 THEN reply[c] = Router!NoReply
          ELSE reply[c] \in Router!Replies(Bytes(c, answered[c]))

HInv == IInv /\ SegmentsInv /\ ReplyInv

-----------------------------------------------------------------------------
(* The first place of a token, as in Router_proofs.                        *)

\* A nonempty set of numbers has a least one.
LEMMA MinIsLeast ==
    ASSUME NEW I, I \subseteq Nat, I # {}
    PROVE  Router!Min(I) \in I /\ \A j \in I : Router!Min(I) <= j
<1>1. PICK i \in I : \A j \in I : ~(<<j, i>> \in OpToRel(<, Nat))
  BY WFMin, NatLessThanWellFounded
<1>2. \A j \in I : i <= j
  <2> SUFFICES ASSUME NEW j \in I, ~(i <= j)
               PROVE  FALSE
    OBVIOUS
  <2>1. i \in Nat /\ j \in Nat /\ j < i
    OBVIOUS
  <2>2. <<j, i>> \in OpToRel(<, Nat)
    BY <2>1 DEF OpToRel
  <2> QED
    BY <1>1, <2>2
<1> QED
  BY <1>2, Zenon DEF Router!Min

\* strchr and the like find the first place of a token, or say there is none.
LEMMA FindFacts ==
    ASSUME NEW S, NEW s \in Seq(S), NEW token
    PROVE  /\ Router!Find(s, token) \in 0..Len(s)
           /\ Router!Find(s, token) # 0 =>
                 /\ s[Router!Find(s, token)] = token
                 /\ \A j \in 1..(Router!Find(s, token) - 1) : s[j] # token
           /\ Router!Find(s, token) = 0 => \A j \in 1..Len(s) : s[j] # token
<1> DEFINE I == {i \in 1..Len(s) : s[i] = token}
<1>1. Len(s) \in Nat
  BY LenProperties
<1>2. Router!Find(s, token) = IF I # {} THEN Router!Min(I) ELSE 0
  BY DEF Router!Find, Router!SelectInSeq
<1>3. I \subseteq Nat
  BY <1>1
<1>4. I # {} => Router!Min(I) \in I /\ \A j \in I : Router!Min(I) <= j
  BY <1>3, MinIsLeast
<1>5. \A i \in 1..Len(s) : i \in I <=> s[i] = token
  OBVIOUS
<1>6. I \subseteq 1..Len(s)
  OBVIOUS
<1> HIDE DEF I
<1>7. CASE I = {}
  BY <1>1, <1>2, <1>5, <1>7
<1>8. CASE I # {}
  <2>1. Router!Find(s, token) \in I /\ \A j \in I : Router!Find(s, token) <= j
    BY <1>2, <1>4, <1>8
  <2>2. Router!Find(s, token) \in 1..Len(s) /\ s[Router!Find(s, token)] = token
    BY <1>5, <1>6, <2>1
  <2>3. ASSUME NEW j \in 1..(Router!Find(s, token) - 1)
        PROVE  s[j] # token
    BY <1>1, <1>5, <2>1, <2>2
  <2> QED
    BY <1>1, <2>2, <2>3
<1> QED
  BY <1>7, <1>8

\* That place is determined by what it is.
LEMMA FindIs ==
    ASSUME NEW S, NEW s \in Seq(S), NEW token, NEW n \in 1..Len(s), s[n] = token,
           \A j \in 1..(n - 1) : s[j] # token
    PROVE  Router!Find(s, token) = n
<1>1. /\ Router!Find(s, token) \in 0..Len(s)
      /\ Router!Find(s, token) # 0 =>
            /\ s[Router!Find(s, token)] = token
            /\ \A j \in 1..(Router!Find(s, token) - 1) : s[j] # token
      /\ Router!Find(s, token) = 0 => \A j \in 1..Len(s) : s[j] # token
  BY FindFacts
<1>2. Len(s) \in Nat
  BY LenProperties
<1> DEFINE f == Router!Find(s, token)
<1> HIDE DEF f
<1>3. f # 0 /\ ~(n < f) /\ ~(f < n)
  BY <1>1, <1>2 DEF f
<1> QED
  BY <1>1, <1>2, <1>3 DEF f

-----------------------------------------------------------------------------
(* What the router makes of a part of a request.                           *)

\* A part of a text is a text.
LEMMA PartFacts ==
    ASSUME NEW S, NEW s \in Seq(S), NEW n \in 0..Len(s)
    PROVE  /\ SubSeq(s, 1, n) \in Seq(S) /\ Len(SubSeq(s, 1, n)) = n
           /\ \A j \in 1..n : SubSeq(s, 1, n)[j] = s[j]
<1>1. Len(s) \in Nat /\ \A j \in 1..n : s[j] \in S
  BY LenProperties, ElementOfSeq
<1>2. /\ SubSeq(s, 1, n) \in Seq(S)
      /\ Len(SubSeq(s, 1, n)) = IF 1 <= n THEN n - 1 + 1 ELSE 0
      /\ \A j \in 1..(n - 1 + 1) : SubSeq(s, 1, n)[j] = s[1 + j - 1]
  BY <1>1, SubSeqProperties
<1> QED
  BY <1>1, <1>2

\* A line that ends in a part of a text is the first line of the text.
LEMMA SameLine ==
    ASSUME NEW S, NEW s \in Seq(S), NEW n \in 0..Len(s), NEW token,
           Router!Find(SubSeq(s, 1, n), token) # 0
    PROVE  /\ Router!Find(s, token) # 0
           /\ Router!UpTo(SubSeq(s, 1, n), token) = Router!UpTo(s, token)
<1> DEFINE part == SubSeq(s, 1, n)
           f == Router!Find(part, token)
<1>1. Len(s) \in Nat
  BY LenProperties
<1>2. part \in Seq(S) /\ Len(part) = n /\ \A j \in 1..n : part[j] = s[j]
  BY PartFacts
<1> HIDE DEF part
<1>3. f \in 1..n /\ part[f] = token /\ \A j \in 1..(f - 1) : part[j] # token
  <2>1. /\ f \in 0..Len(part)
        /\ f # 0 => part[f] = token /\ \A j \in 1..(f - 1) : part[j] # token
    BY <1>2, FindFacts
  <2>2. f # 0
    BY DEF part
  <2> HIDE DEF f
  <2> QED
    BY <1>1, <1>2, <2>1, <2>2
<1> HIDE DEF f
<1>4. f \in 1..Len(s) /\ s[f] = token /\ \A j \in 1..(f - 1) : s[j] # token
  <2>1. \A j \in 1..(f - 1) : j \in 1..n
    BY <1>1, <1>3
  <2> QED
    BY <1>1, <1>2, <1>3, <2>1
<1>5. Router!Find(s, token) = f
  BY <1>4, FindIs
<1>6. SubSeq(part, 1, f - 1) = SubSeq(s, 1, f - 1)
  <2>1. f - 1 \in 0..Len(part) /\ f - 1 \in 0..Len(s)
    BY <1>1, <1>2, <1>3
  <2>2. /\ SubSeq(part, 1, f - 1) \in Seq(S) /\ Len(SubSeq(part, 1, f - 1)) = f - 1
        /\ \A j \in 1..(f - 1) : SubSeq(part, 1, f - 1)[j] = part[j]
    BY <1>2, <2>1, PartFacts
  <2>3. /\ SubSeq(s, 1, f - 1) \in Seq(S) /\ Len(SubSeq(s, 1, f - 1)) = f - 1
        /\ \A j \in 1..(f - 1) : SubSeq(s, 1, f - 1)[j] = s[j]
    BY <2>1, PartFacts
  <2>4. \A j \in 1..(f - 1) : part[j] = s[j]
    BY <1>1, <1>2, <1>3
  <2> QED
    BY <2>2, <2>3, <2>4, SeqEqual
<1>7. f # 0
  BY <1>1, <1>3
<1>8. Router!UpTo(part, token) = SubSeq(part, 1, f - 1)
  BY <1>7 DEF Router!UpTo, Router!Before, f
<1>9. Router!UpTo(s, token) = SubSeq(s, 1, f - 1)
  BY <1>5, <1>7 DEF Router!UpTo, Router!Before
<1> QED
  BY <1>5, <1>6, <1>7, <1>8, <1>9 DEF part

\* What the string functions see of a part is a part of what they see.
LEMMA TextOfPart ==
    ASSUME NEW S, NEW s \in Seq(S), NEW n \in 0..Len(s)
    PROVE  /\ Router!Text(s) \in Seq(S)
           /\ \E k \in 0..Len(Router!Text(s)) :
                 Router!Text(SubSeq(s, 1, n)) = SubSeq(Router!Text(s), 1, k)
<1> DEFINE part == SubSeq(s, 1, n)
           z == Router!Find(s, Router!NUL)
           text == Router!Text(s)
<1>1. Len(s) \in Nat
  BY LenProperties
<1>2. part \in Seq(S) /\ Len(part) = n /\ \A j \in 1..n : part[j] = s[j]
  BY PartFacts
<1>3. CASE Router!Find(part, Router!NUL) # 0
  <2>1. z # 0 /\ Router!Text(part) = text
    BY <1>3, SameLine DEF Router!Text
  <2>2. text = SubSeq(s, 1, z - 1)
    BY <2>1 DEF Router!Text, Router!UpTo, Router!Before
  <2>3. z \in 0..Len(s)
    BY FindFacts
  <2> HIDE DEF z, part
  <2>4. z - 1 \in 0..Len(s)
    BY <1>1, <2>1, <2>3
  <2>5. text \in Seq(S) /\ Len(text) = z - 1
    BY <2>2, <2>4, PartFacts
  <2> HIDE DEF text
  <2>6. text = SubSeq(text, 1, Len(text))
    BY <2>5, SubSeqFull
  <2>7. Len(text) \in 0..Len(text)
    BY <2>5, LenProperties
  <2> QED
    BY <2>1, <2>5, <2>6, <2>7 DEF text, part
<1>4. CASE Router!Find(part, Router!NUL) = 0
  <2>1. Router!Text(part) = part
    BY <1>4 DEF Router!Text, Router!UpTo
  <2>2. z \in 0..Len(s) /\ (z # 0 => s[z] = Router!NUL)
    BY FindFacts
  <2>3. \A j \in 1..Len(part) : part[j] # Router!NUL
    BY <1>2, <1>4, FindFacts
  <2> HIDE DEF z, part
  <2>4. CASE z = 0
    <3>1. text = s
      BY <2>4 DEF Router!Text, Router!UpTo, z
    <3> QED
      BY <2>1, <3>1 DEF part
  <2>5. CASE z # 0
    <3>1. z - 1 \in 0..Len(s) /\ n \in 0..(z - 1)
      BY <1>1, <1>2, <2>2, <2>3, <2>5
    <3>2. text = SubSeq(s, 1, z - 1)
      BY <2>5 DEF Router!Text, Router!UpTo, Router!Before, z
    <3>3. text \in Seq(S) /\ Len(text) = z - 1 /\ \A j \in 1..(z - 1) : text[j] = s[j]
      BY <3>1, <3>2, PartFacts
    <3> HIDE DEF text
    <3>4. /\ SubSeq(text, 1, n) \in Seq(S) /\ Len(SubSeq(text, 1, n)) = n
          /\ \A j \in 1..n : SubSeq(text, 1, n)[j] = text[j]
      BY <3>1, <3>3, PartFacts
    <3>5. \A j \in 1..n : text[j] = part[j]
      BY <1>1, <1>2, <3>1, <3>3
    <3>6. SubSeq(text, 1, n) = part
      BY <1>2, <3>4, <3>5, SeqEqual
    <3> QED
      BY <2>1, <3>1, <3>3, <3>6 DEF text, part
  <2> QED
    BY <2>4, <2>5
<1> QED
  BY <1>3, <1>4

\* A part of a request with its whole line has the line of the request.
LEMMA PartHasLine ==
    ASSUME NEW S, NEW s \in Seq(S), NEW n \in 0..Len(s),
           Router!HasLine(SubSeq(s, 1, n))
    PROVE  /\ Router!HasLine(s)
           /\ Router!FirstLineOf(SubSeq(s, 1, n)) = Router!FirstLineOf(s)
<1>1. PICK k \in 0..Len(Router!Text(s)) :
         Router!Text(SubSeq(s, 1, n)) = SubSeq(Router!Text(s), 1, k)
  BY TextOfPart
<1>2. Router!Text(s) \in Seq(S)
  BY TextOfPart
<1>3. Router!Find(SubSeq(Router!Text(s), 1, k), Router!CRLF) # 0
  BY <1>1 DEF Router!HasLine
<1> QED
  BY <1>1, <1>2, <1>3, SameLine DEF Router!HasLine, Router!FirstLineOf

\* A part of a request whose line fits is answered like the whole if its line is
\* complete, its handler being given the part, and with a 400 if it is not.
LEMMA PartOrBad ==
    ASSUME NEW S, NEW s \in Seq(S), NEW n \in 0..Len(s), Router!LineFits(s),
           NEW r \in Router!Replies(SubSeq(s, 1, n))
    PROVE  \/ r.answer = "400" /\ ~Router!HasLine(SubSeq(s, 1, n))
           \/ /\ \E q \in Router!Replies(s) : SameAnswer(r, q)
              /\ r.answer = "handler" =>
                    r.request = SubSeq(s, 1, n) /\ Router!HasLine(SubSeq(s, 1, n))
<1> DEFINE part == SubSeq(s, 1, n)
<1>1. CASE ~Router!HasLine(part)
  <2>1. Router!RouteOf(part) = NULL /\ Router!LineFits(part)
    BY <1>1 DEF Router!RouteOf, Router!LineFits
  <2>2. r = Router!Refusal("400")
    BY <2>1 DEF Router!Replies, Router!Answers
  <2> QED
    BY <1>1, <2>2 DEF Router!Refusal
<1>2. CASE Router!HasLine(part)
  <2>1. Router!HasLine(s) /\ Router!FirstLineOf(part) = Router!FirstLineOf(s)
    BY <1>2, PartHasLine
  <2> HIDE DEF part
  <2>2. Router!RouteOf(part) = Router!RouteOf(s) /\ Router!LineFits(part)
    BY <1>2, <2>1 DEF Router!RouteOf, Router!LineFits
  <2>3. r \in Router!Answers(part)
    BY <2>2 DEF Router!Replies, part
  <2>4. Router!Replies(s) = Router!Answers(s)
    BY DEF Router!Replies
  <2> DEFINE route == Router!RouteOf(s)
             found == Router!router_find(route)
  <2>5. CASE route = NULL \/ found = {}
    <3>1. r \in Router!Answers(s) /\ r.answer # "handler"
      BY <2>2, <2>3, <2>5 DEF Router!Answers, Router!Refusal
    <3> QED
      BY <2>4, <3>1 DEF SameAnswer
  <2>6. CASE route # NULL /\ found # {}
    <3>1. PICK i \in found : r = Router!EntryReply(i, part)
      BY <2>2, <2>3, <2>6 DEF Router!Answers
    <3>2. Router!EntryReply(i, s) \in Router!Answers(s)
      BY <2>6 DEF Router!Answers
    <3>3. /\ SameAnswer(r, Router!EntryReply(i, s))
          /\ r.answer = "handler" => r.request = part
      BY <3>1 DEF Router!EntryReply, SameAnswer
    <3> QED
      BY <1>2, <2>4, <3>2, <3>3 DEF part
  <2> QED
    BY <2>5, <2>6
<1> QED
  BY <1>1, <1>2

\* What a client has sent so far is a part of its request.
LEMMA BytesArePart ==
    ASSUME NEW c \in Conns, NEW n \in 1..Size[c]
    PROVE  /\ Request[c] \in Seq(Router!Tokens)
           /\ Cuts[c][n] \in 0..Len(Request[c])
           /\ Bytes(c, n) = SubSeq(Request[c], 1, Cuts[c][n])
<1>1. /\ Request[c] \in Seq(Router!Tokens) /\ Cuts[c] \in Seq(1..Tokens(c))
      /\ n \in 1..Len(Cuts[c]) /\ Size[c] \in Nat
  BY CutsAssumption, ConnsAssumption
<1>2. Cuts[c][n] \in 1..Tokens(c) /\ Tokens(c) \in Nat
  BY <1>1, ElementOfSeq, LenProperties DEF Tokens
<1>3. n # 0
  BY <1>1
<1> QED
  BY <1>1, <1>2, <1>3 DEF Bytes, Tokens

-----------------------------------------------------------------------------
(* The steps.                                                              *)

\* Nothing but a client's sending and the callback touches what the segments
\* are counted in.
LEMMA CountsChange ==
    ASSUME [Next]_vars
    PROVE  \/ UNCHANGED <<arrived, answered>>
           \/ answered' = answered /\ \E c \in Conns : Send(c)
           \/ m_handle_client_event_answered
<1>1. CASE ClientActs
  <2>1. PICK c \in Conns : Connect(c) \/ Send(c) \/ Leave(c)
    BY <1>1 DEF ClientActs
  <2>2. CASE Connect(c)
    BY <2>2 DEF Connect
  <2>3. CASE Send(c)
    BY <2>3 DEF Send
  <2>4. CASE Leave(c)
    BY <2>4 DEF Leave
  <2> QED
    BY <2>1, <2>2, <2>3, <2>4
<1>2. CASE signal_handler \/ signal_interrupts
  BY <1>2 DEF signal_handler, signal_interrupts, client
<1>3. CASE ServerWorks
  <2>1. CASE main_loop \/ server_cleanup \/ server_select_timeout \/ server_select_done
    BY <2>1 DEF main_loop, server_cleanup, server_select_timeout, server_select_done, client
  <2>2. CASE server_select
    BY <2>2 DEF server_select, client
  <2>3. CASE m_handle_new_client
    BY <2>3 DEF m_handle_new_client, m_handle_new_client_accept_fails,
                m_handle_new_client_added, m_handle_new_client_add_fails, client
  <2>4. CASE m_handle_client_event
    BY <2>4 DEF m_handle_client_event, m_handle_client_event_gone,
                m_handle_client_event_recv, client
  <2>5. CASE \/ m_handle_client_event_error \/ server_select_close_again
             \/ m_handle_client_event_crashes
    BY <2>5 DEF m_handle_client_event_error, server_select_close_again,
                m_handle_client_event_crashes, client
  <2> QED
    BY <1>3, <2>1, <2>2, <2>3, <2>4, <2>5 DEF ServerWorks
<1>4. CASE Ended \/ UNCHANGED vars
  BY <1>4 DEF Ended, vars, client
<1> QED
  BY <1>1, <1>2, <1>3, <1>4 DEF Next

\* The callback answers a client that is there, has no answer yet, and has sent
\* what it is answered from.
LEMMA WhoIsAnswered ==
    ASSUME IInv, SegmentsInv, m_handle_client_event_answered
    PROVE  /\ fdtab[Event.fd] \in Conns
           /\ answered[fdtab[Event.fd]] = 0
           /\ received \in 1..Size[fdtab[Event.fd]]
           /\ answered' = [answered EXCEPT ![fdtab[Event.fd]] = received]
           /\ arrived' = arrived
<1> DEFINE fd == Event.fd
           c == fdtab[fd]
<1>1. /\ spc = "callback" /\ answered' = [answered EXCEPT ![c] = received]
      /\ arrived' = arrived
  BY DEF m_handle_client_event_answered
<1>2. fd \in Fds /\ c # NoConn /\ received \in 1..arrived[c]
  BY <1>1 DEF IInv, LoopInv
<1>3. fdtab \in [Fds -> Conns \cup {NoConn}] /\ arrived \in [Conns -> Nat]
  BY DEF IInv, TypeOK
<1> HIDE DEF fd
<1>4. c \in Conns
  BY <1>2, <1>3
<1>5. conn[c] = "open"
  BY <1>2, <1>4 DEF IInv, TableInv
<1> HIDE DEF c
<1>6. answered[c] = 0
  BY <1>4, <1>5 DEF IInv, AnswerInv
<1>7. received \in 1..Size[c]
  <2>1. arrived[c] <= Size[c] /\ arrived[c] \in Nat /\ Size[c] \in Nat
    BY <1>3, <1>4, ConnsAssumption DEF SegmentsInv
  <2> QED
    BY <1>2, <2>1
<1> QED
  BY <1>1, <1>4, <1>6, <1>7 DEF c, fd

\* A segment is sent once.
LEMMA SegmentsStep ==
    ASSUME IInv, SegmentsInv, [Next]_vars
    PROVE  SegmentsInv'
<1>1. CASE UNCHANGED <<arrived, answered>>
  BY <1>1 DEF SegmentsInv
<1>2. CASE answered' = answered /\ \E c \in Conns : Send(c)
  <2>1. PICK c \in Conns : arrived[c] < Size[c] /\ arrived' = [arrived EXCEPT ![c] = @ + 1]
    BY <1>2 DEF Send
  <2>2. arrived \in [Conns -> Nat] /\ \A d \in Conns : Size[d] \in Nat
    BY ConnsAssumption DEF IInv, TypeOK
  <2>3. \A d \in Conns : arrived'[d] = IF d = c THEN arrived[c] + 1 ELSE arrived[d]
    BY <2>1, <2>2
  <2>4. ASSUME NEW d \in Conns
        PROVE  arrived'[d] <= Size[d] /\ answered'[d] <= Size[d]
    BY <1>2, <2>1, <2>2, <2>3 DEF SegmentsInv
  <2> QED
    BY <2>4 DEF SegmentsInv
<1>3. CASE m_handle_client_event_answered
  <2> DEFINE c == fdtab[Event.fd]
  <2>1. /\ c \in Conns /\ received \in 1..Size[c] /\ arrived' = arrived
        /\ answered' = [answered EXCEPT ![c] = received]
    BY <1>3, WhoIsAnswered
  <2>2. answered \in [Conns -> Nat] /\ \A d \in Conns : Size[d] \in Nat
    BY ConnsAssumption DEF IInv, TypeOK
  <2> HIDE DEF c
  <2>3. ASSUME NEW d \in Conns
        PROVE  arrived'[d] <= Size[d] /\ answered'[d] <= Size[d]
    BY <2>1, <2>2 DEF SegmentsInv
  <2> QED
    BY <2>3 DEF SegmentsInv
<1> QED
  BY <1>1, <1>2, <1>3, CountsChange

\* What a step does to the replies: one client that had none gets one.
LEMMA WhatReplyChanges ==
    ASSUME HInv, HttpNext
    PROVE  \/ UNCHANGED <<answered, reply>>
           \/ \E c \in Conns, n \in Nat \ {0} : \E r \in Router!Replies(Bytes(c, n)) :
                 /\ answered[c] = 0
                 /\ answered' = [answered EXCEPT ![c] = n]
                 /\ reply' = [reply EXCEPT ![c] = r]
<1>1. CASE answered' = answered
  BY <1>1 DEF HttpNext, m_http_request_handler
<1>2. CASE answered' # answered
  <2> DEFINE c == fdtab[Event.fd]
  <2>1. m_handle_client_event_answered
    BY <1>2, CountsChange DEF HttpNext
  <2>2. /\ c \in Conns /\ received \in 1..Size[c] /\ answered[c] = 0
        /\ answered' = [answered EXCEPT ![c] = received]
    BY <2>1, WhoIsAnswered DEF HInv
  <2>3. PICK r \in Router!Replies(Buffer(c, received)) : reply' = [reply EXCEPT ![c] = r]
    BY <1>2 DEF HttpNext, m_http_request_handler
  <2>4. received \in Nat \ {0} /\ Buffer(c, received) = Bytes(c, received)
    BY <2>2, ConnsAssumption DEF Buffer
  <2> HIDE DEF c
  <2> QED
    BY <2>2, <2>3, <2>4
<1> QED
  BY <1>1, <1>2

\* The reply that goes with the answer.
LEMMA ReplyStep ==
    ASSUME HInv, HttpNext
    PROVE  ReplyInv'
<1>1. CASE UNCHANGED <<answered, reply>>
  BY <1>1 DEF HInv, ReplyInv, Bytes
<1>2. CASE \E c \in Conns, n \in Nat \ {0} : \E r \in Router!Replies(Bytes(c, n)) :
              /\ answered[c] = 0
              /\ answered' = [answered EXCEPT ![c] = n]
              /\ reply' = [reply EXCEPT ![c] = r]
  <2>1. PICK c \in Conns, n \in Nat \ {0} : \E r \in Router!Replies(Bytes(c, n)) :
              /\ answered' = [answered EXCEPT ![c] = n]
              /\ reply' = [reply EXCEPT ![c] = r]
    BY <1>2
  <2>2. PICK r \in Router!Replies(Bytes(c, n)) :
              /\ answered' = [answered EXCEPT ![c] = n]
              /\ reply' = [reply EXCEPT ![c] = r]
    BY <2>1
  <2>3. DOMAIN reply = Conns /\ DOMAIN answered = Conns
    BY DEF HInv, ReplyInv, IInv, TypeOK
  <2>4. DOMAIN reply' = Conns
    BY <2>2, <2>3
  <2>5. ASSUME NEW d \in Conns
        PROVE  IF answered'[d] = 0 THEN reply'[d] = Router!NoReply
               ELSE reply'[d] \in Router!Replies(Bytes(d, answered'[d]))
    <3>1. CASE d = c
      <4>1. answered'[d] = n /\ reply'[d] = r
        BY <2>2, <2>3, <3>1
      <4> QED
        BY <3>1, <4>1
    <3>2. CASE d # c
      <4>1. answered'[d] = answered[d] /\ reply'[d] = reply[d]
        BY <2>2, <2>3, <3>2
      <4> QED
        BY <4>1 DEF HInv, ReplyInv
    <3> QED
      BY <3>1, <3>2
  <2> QED
    BY <2>4, <2>5 DEF ReplyInv, Bytes
<1> QED
  BY <1>1, <1>2, WhatReplyChanges

-----------------------------------------------------------------------------
(* The composition.                                                        *)

\* The loop takes no step in the composition that it would not take alone, and
\* starts as it would.
THEOREM LoopInside == HttpSpec => Spec
<1>1. HttpInit => Init
  BY DEF HttpInit
<1>2. [HttpNext]_httpVars => [Next]_vars
  BY DEF HttpNext, httpVars
<1> QED
  BY <1>1, <1>2, PTL DEF HttpSpec, Spec

\* Nobody has a reply before anybody has sent a segment.
LEMMA HInvInit == HttpInit => HInv
<1> SUFFICES ASSUME HttpInit PROVE HInv
  OBVIOUS
<1>1. Init /\ reply = [c \in Conns |-> Router!NoReply]
  BY DEF HttpInit
<1>2. IInv
  BY <1>1, IInvInit
<1>3. \A c \in Conns : arrived[c] = 0 /\ answered[c] = 0 /\ Size[c] \in Nat
  BY <1>1, ConnsAssumption DEF Init
<1> QED
  BY <1>1, <1>2, <1>3 DEF HInv, SegmentsInv, ReplyInv

\* The composition's step.
LEMMA HInvStep ==
    ASSUME HInv, [HttpNext]_httpVars
    PROVE  HInv'
<1>1. [Next]_vars
  BY DEF HttpNext, httpVars
<1>2. IInv'
  BY <1>1, IInvStep DEF HInv
<1>3. SegmentsInv'
  BY <1>1, SegmentsStep DEF HInv
<1>4. ReplyInv'
  <2>1. CASE UNCHANGED httpVars
    BY <2>1 DEF httpVars, vars, client, HInv, ReplyInv, Bytes
  <2> QED
    BY <2>1, ReplyStep
<1> QED
  BY <1>2, <1>3, <1>4 DEF HInv

\* A client has the reply that the segments it was answered from deserve.
THEOREM HInvInvariant == HttpSpec => []HInv
<1>1. HInv /\ [HttpNext]_httpVars => HInv'
  BY HInvStep
<1> QED
  BY <1>1, HInvInit, PTL DEF HttpSpec

\* Wherever the network cuts the requests and whoever else is there, a client
\* whose line fits is answered as its whole request deserves, or with a 400 if
\* it was heard before its line was complete; a handler is given a beginning of
\* that client's own request, with the line.
THEOREM EachItsAnswer == HttpSpec => []AnswerFitsRequest
<1>1. HInv => AnswerFitsRequest
  <2> SUFFICES ASSUME HInv, NEW c \in Conns, answered[c] # 0, Router!LineFits(Request[c])
               PROVE  \/ reply[c].answer = "400" /\ ~LineArrived(c)
                      \/ /\ \E r \in Router!Replies(Request[c]) : SameAnswer(reply[c], r)
                         /\ reply[c].answer = "handler" => GivenItsRequest(c)
    BY DEF AnswerFitsRequest, HInv, ReplyInv
  <2>1. answered[c] \in 1..Size[c]
    BY ConnsAssumption DEF HInv, SegmentsInv, IInv, TypeOK
  <2>2. /\ Request[c] \in Seq(Router!Tokens)
        /\ Cuts[c][answered[c]] \in 0..Len(Request[c])
        /\ Bytes(c, answered[c]) = SubSeq(Request[c], 1, Cuts[c][answered[c]])
    BY <2>1, BytesArePart
  <2> DEFINE n == Cuts[c][answered[c]]
             part == SubSeq(Request[c], 1, n)
  <2>3. reply[c] \in Router!Replies(part)
    BY <2>2 DEF HInv, ReplyInv
  <2>4. Router!IsPrefix(part, Request[c])
    <3> HIDE DEF n
    <3>1. part \in Seq(Router!Tokens) /\ Len(part) = n
      BY <2>2, PartFacts DEF n
    <3>2. n <= Len(Request[c])
      BY <2>2, LenProperties DEF n
    <3> QED
      BY <3>1, <3>2 DEF Router!IsPrefix
  <2> HIDE DEF n
  <2>5. \/ reply[c].answer = "400" /\ ~Router!HasLine(part)
        \/ /\ \E q \in Router!Replies(Request[c]) : SameAnswer(reply[c], q)
           /\ reply[c].answer = "handler" =>
                 reply[c].request = part /\ Router!HasLine(part)
    BY <2>2, <2>3, PartOrBad DEF n
  <2> QED
    BY <2>2, <2>4, <2>5 DEF LineArrived, GivenItsRequest, n
<1> QED
  BY <1>1, HInvInvariant, PTL

\* Nobody is answered twice: a reply, once there, stays what it is
\* (server.c:120-128 closes the client behind the callback).
RepliesStay ==
    [][\A c \in Conns : reply[c] # Router!NoReply => reply'[c] = reply[c]]_httpVars

\* ... whatever descriptors are reused and whatever events are left in a batch.
THEOREM AnsweredOnce == HttpSpec => RepliesStay
<1>1. HInv /\ [HttpNext]_httpVars =>
         [\A c \in Conns : reply[c] # Router!NoReply => reply'[c] = reply[c]]_httpVars
  <2> SUFFICES ASSUME HInv, HttpNext, NEW d \in Conns, reply[d] # Router!NoReply
               PROVE  reply'[d] = reply[d]
    OBVIOUS
  <2>1. answered[d] # 0 /\ DOMAIN reply = Conns
    BY DEF HInv, ReplyInv
  <2>2. CASE UNCHANGED <<answered, reply>>
    BY <2>2
  <2>3. CASE \E c \in Conns : answered[c] = 0 /\ \E r : reply' = [reply EXCEPT ![c] = r]
    BY <2>1, <2>3
  <2> QED
    BY <2>2, <2>3, WhatReplyChanges
<1> QED
  BY <1>1, HInvInvariant, PTL DEF HttpSpec, RepliesStay
=============================================================================
