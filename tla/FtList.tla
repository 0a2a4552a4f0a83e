------------------------------- MODULE FtList -------------------------------
(***************************************************************************)
(* The intrusive circular list of server/inc/ft_list.c.  A list is a head  *)
(* pointer and the next and prev pointers in the nodes themselves; items   *)
(* is the sequence that the comments of ft_list.h promise after the same   *)
(* calls.  Callers add a node that is in no list and pop one that is in it.*)
(***************************************************************************)
EXTENDS Integers, Sequences, FiniteSets

CONSTANTS
    Nodes,
    NULL

ASSUME NodesAssumption == NULL \notin Nodes /\ IsFiniteSet(Nodes)

FAILURE == -1
INVALID_ARGS == -2

VARIABLES
    head,
    next,
    prev,
    items    \* what ft_list.h says the list is

pointers == <<head, next, prev>>
vars == <<pointers, items>>

Members == {items[i] : i \in DOMAIN items}

Init ==
    /\ head = NULL
    /\ next = [n \in Nodes |-> NULL]
    /\ prev = [n \in Nodes |-> NULL]
    /\ items = <<>>

-----------------------------------------------------------------------------
(* Walks along the pointers.                                               *)

\* The node k steps from the head.
Steps(ptr, k) ==
    LET at[i \in 0..k] == IF i = 0 THEN head ELSE ptr[at[i - 1]]
    IN  at[k]

\* How far a walk from the head goes before its next step is the head again.
LastStep(ptr) ==
    CHOOSE k \in 0..Cardinality(Nodes) :
        /\ ptr[Steps(ptr, k)] = head
        /\ \A i \in 0..(k - 1) : ptr[Steps(ptr, i)] # head

ft_list_get_size ==
    IF head = NULL THEN 0 ELSE LastStep(next) + 1

ft_list_get_lastOfPrev ==    \* mutant: walks the other way
    IF head = NULL THEN NULL ELSE Steps(prev, LastStep(prev))

ft_list_get_last ==
    IF head = NULL THEN NULL ELSE Steps(next, LastStep(next))

\* The walk starts at the head and leaves it before it looks.
ft_list_get_first ==
    IF head = NULL THEN NULL ELSE Steps(prev, LastStep(prev))

ft_list_get_next(n) ==
    IF head = NULL \/ next[n] = head THEN NULL ELSE next[n]

ft_list_get_prev(n) ==
    IF head = NULL \/ prev[n] = head THEN NULL ELSE prev[n]

\* The position of n, counted from 0.
ft_list_find_node(n) ==
    IF head = NULL THEN INVALID_ARGS
    ELSE IF \E k \in 0..LastStep(next) : Steps(next, k) = n
    THEN CHOOSE k \in 0..LastStep(next) : Steps(next, k) = n
    ELSE FAILURE

-----------------------------------------------------------------------------

ft_list_add_last(n) ==
    /\ n \notin Members
    /\ IF head = NULL
       THEN /\ head' = n
            /\ next' = [next EXCEPT ![n] = n]
            /\ prev' = [prev EXCEPT ![n] = n]
       ELSE /\ next' = [next EXCEPT ![prev[head]] = n, ![n] = head]
            /\ prev' = [prev EXCEPT ![n] = prev[head], ![head] = n]
            /\ UNCHANGED head
    /\ items' = Append(items, n)

\* On a list with nodes; on an empty one the code writes through NULL.
ft_list_add_first(n) ==
    /\ n \notin Members
    /\ head # NULL
    /\ prev' = [prev EXCEPT ![ft_list_get_first] = n]
    /\ next' = [next EXCEPT ![n] = ft_list_get_first]
    /\ UNCHANGED head
    /\ items' = <<n>> \o items

PrevKept(n) == prev[n]    \* mutant: the popped node keeps its prev pointer

PrevCleared(n) == NULL

HeadWithout(n) ==
    IF next[n] = n /\ prev[n] = n THEN NULL
    ELSE IF head = n THEN next[n] ELSE head

\* ft_list_pop's effect on the pointers.
Unlink(n) ==
    /\ head' = HeadWithout(n)
    /\ IF next[n] = n /\ prev[n] = n
       THEN /\ next' = [next EXCEPT ![n] = NULL]
            /\ prev' = [prev EXCEPT ![n] = PrevCleared(n)]
       ELSE /\ next' = [next EXCEPT ![prev[n]] = next[n], ![n] = NULL]
            /\ prev' = [prev EXCEPT ![next[n]] = prev[n], ![n] = PrevCleared(n)]

\* The list without its node n: those behind it move up.
Without(n) ==
    LET k == CHOOSE i \in DOMAIN items : items[i] = n
    IN  [i \in 1..(Len(items) - 1) |-> items[IF i < k THEN i ELSE i + 1]]

ft_list_pop(n) ==
    /\ n \in Members
    /\ Unlink(n)
    /\ items' = Without(n)

ft_list_pop_last ==
    /\ items # <<>>
    /\ Unlink(ft_list_get_last)
    /\ items' = SubSeq(items, 1, Len(items) - 1)

ft_list_pop_first ==
    /\ items # <<>>
    /\ Unlink(ft_list_get_first)
    /\ items' = Tail(items)

-----------------------------------------------------------------------------

Next ==
    \/ \E n \in Nodes : ft_list_add_last(n) \/ ft_list_pop(n)
    \/ ft_list_pop_last

Spec == Init /\ [][Next]_vars

\* With the two calls that do not do what the header says.
SpecWithFirst ==
    Init /\ [][\/ Next
               \/ \E n \in Nodes : ft_list_add_first(n)
               \/ ft_list_pop_first]_vars

-----------------------------------------------------------------------------

\* The pointers are one ring through the promised nodes, in order along next
\* and in the opposite order along prev, and a node outside points nowhere:
\* pop undoes add wherever the node stands (ft_list.c:21-25,121-137).  It
\* fixes every pointer, so it is this module's type invariant as well.
RingMatchesItems ==
    LET N == Len(items)
    IN  /\ head = IF N = 0 THEN NULL ELSE items[1]
        /\ \A i \in 1..N : /\ next[items[i]] = items[(i % N) + 1]
                           /\ prev[items[(i % N) + 1]] = items[i]
        /\ \A n \in Nodes \ Members : next[n] = NULL /\ prev[n] = NULL

\* The calls that read the list forwards agree with the promised sequence:
\* its length, its last node, which nodes are in it and each one's successor.
\* Nothing is said of which number find_node answers for a node of the list: a
\* position, where the header has OK (ft_list.h:52).
ForwardReadsAgree ==
    LET N == Len(items)
    IN  /\ ft_list_get_size = N
        /\ N > 0 => ft_list_get_last = items[N]
        /\ \A n \in Nodes : ft_list_find_node(n) >= 0 <=> n \in Members
        /\ \A i \in 1..N :
              ft_list_get_next(items[i]) = IF i = N THEN NULL ELSE items[i + 1]
=============================================================================
