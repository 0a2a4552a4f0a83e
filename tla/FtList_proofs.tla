----------------------------- MODULE FtList_proofs -----------------------------
(***************************************************************************)
(* Proofs about FtList for every finite set of nodes: whatever add_last,   *)
(* pop and pop_last are called, the pointers are one ring through the      *)
(* promised nodes, and the walks along them end and read it right.         *)
(***************************************************************************)
EXTENDS FtList, SequenceTheorems, FiniteSetTheorems, WellFoundedInduction, TLAPS

-----------------------------------------------------------------------------
(* The inductive invariant.                                                *)

\* No node is twice among s[1], ..., s[N].
Distinct(s, N) == \A i, j \in 1..N : s[i] = s[j] => i = j

\* RingMatchesItems without the modulus: the pointers h, nx and pv are one
\* ring through s[1], ..., s[N], and nil elsewhere.
Ring(s, N, h, nx, pv) ==
    /\ N = 0 => h = NULL
    /\ N > 0 => h = s[1] /\ nx[s[N]] = s[1] /\ pv[s[1]] = s[N]
    /\ \A i \in 1..(N - 1) : nx[s[i]] = s[i + 1] /\ pv[s[i + 1]] = s[i]
    /\ \A n \in Nodes : (\A i \in 1..N : s[i] # n) => nx[n] = NULL /\ pv[n] = NULL

Pointers == [Nodes -> Nodes \cup {NULL}]

FInv ==
    /\ items \in Seq(Nodes)
    /\ next \in Pointers
    /\ prev \in Pointers
    /\ Distinct(items, Len(items))
    /\ Ring(items, Len(items), head, next, prev)

-----------------------------------------------------------------------------
(* What the calls do to a ring of N nodes.                                 *)

\* add_last puts its node between the last and the first.
LEMMA RingAdd ==
    ASSUME NEW N \in Nat, \A i \in 1..N : items[i] \in Nodes, Distinct(items, N),
           next \in Pointers, prev \in Pointers, Ring(items, N, head, next, prev),
           NEW n \in Nodes, \A i \in 1..N : items[i] # n,
           items'[N + 1] = n, \A i \in 1..N : items'[i] = items[i],
           N = 0 => next' = [next EXCEPT ![n] = n] /\ prev' = [prev EXCEPT ![n] = n],
           N > 0 => /\ next' = [next EXCEPT ![prev[head]] = n, ![n] = head]
                    /\ prev' = [prev EXCEPT ![n] = prev[head], ![head] = n]
    PROVE  /\ Distinct(items', N + 1)
           /\ Ring(items', N + 1, IF N = 0 THEN n ELSE head, next', prev')
           /\ next' \in Pointers /\ prev' \in Pointers
<1>1. \A i \in 1..(N + 1) : i = N + 1 \/ i \in 1..N
  OBVIOUS
<1>2. Distinct(items', N + 1)
  BY <1>1 DEF Distinct
<1>3. CASE N = 0
  <2>1. \A m \in Nodes : next'[m] = (IF m = n THEN n ELSE next[m]) /\ prev'[m] = IF m = n THEN n ELSE prev[m]
    BY <1>3 DEF Pointers
  <2>2. next' \in Pointers /\ prev' \in Pointers
    BY <1>3 DEF Pointers
  <2>3. items'[1] = n
    BY <1>3
  <2>4. Ring(items', 1, n, next', prev')
    BY <1>3, <2>1, <2>3 DEF Ring
  <2> QED
    BY <1>2, <1>3, <2>2, <2>4
<1>4. CASE N > 0
  <2>1. head = items[1] /\ prev[head] = items[N] /\ next[items[N]] = head /\ head \in Nodes /\ items[N] \in Nodes /\ n # head /\ n # items[N]
    BY <1>4 DEF Ring
  <2>2. \A m \in Nodes : /\ next'[m] = IF m = n THEN head ELSE IF m = items[N] THEN n ELSE next[m]
                         /\ prev'[m] = IF m = head THEN n ELSE IF m = n THEN items[N] ELSE prev[m]
    BY <1>4, <2>1 DEF Pointers
  <2>3. next' \in Pointers /\ prev' \in Pointers
    BY <1>4, <2>1 DEF Pointers
  <2>4. items'[1] = head /\ items'[N] = items[N] /\ items'[N + 1] = n
    BY <1>4, <2>1
  <2>5. next'[items'[N + 1]] = items'[1] /\ prev'[items'[1]] = items'[N + 1]
    BY <2>1, <2>2, <2>4
  <2>6. ASSUME NEW i \in 1..N PROVE next'[items'[i]] = items'[i + 1] /\ prev'[items'[i + 1]] = items'[i]
    <3>1. CASE i = N
      BY <2>1, <2>2, <2>4, <3>1
    <3>2. CASE i \in 1..(N - 1)
      <4>1. /\ items[i] \in Nodes /\ items[i + 1] \in Nodes /\ items'[i] = items[i] /\ items'[i + 1] = items[i + 1]
            /\ next[items[i]] = items[i + 1] /\ prev[items[i + 1]] = items[i] /\ items[i] # n /\ items[i + 1] # n
        BY <3>2 DEF Ring
      <4>2. items[i] # items[N] /\ items[i + 1] # head
        BY <2>1, <3>2 DEF Distinct
      <4> QED
        BY <2>2, <4>1, <4>2
    <3> QED
      BY <3>1, <3>2
  <2>7. ASSUME NEW m \in Nodes, \A i \in 1..(N + 1) : items'[i] # m
        PROVE  next'[m] = NULL /\ prev'[m] = NULL
    <3>1. m # n /\ m # head /\ m # items[N] /\ \A i \in 1..N : items[i] # m
      BY <1>1, <2>1, <2>4, <2>7, <1>4
    <3> QED
      BY <2>2, <3>1 DEF Ring
  <2>8. Ring(items', N + 1, head, next', prev')
    BY <1>4, <2>4, <2>5, <2>6, <2>7 DEF Ring
  <2> QED
    BY <1>2, <1>4, <2>3, <2>8
<1> QED
  BY <1>3, <1>4

\* pop joins the neighbours of its node, wherever that stands.
LEMMA RingPop ==
    ASSUME NEW N \in Nat, \A i \in 1..N : items[i] \in Nodes, Distinct(items, N),
           next \in Pointers, prev \in Pointers, Ring(items, N, head, next, prev),
           NEW k \in 1..N, NEW n, n = items[k],
           \A i \in 1..(N - 1) : items'[i] = IF i < k THEN items[i] ELSE items[i + 1],
           head' = (IF next[n] = n /\ prev[n] = n THEN NULL ELSE IF head = n THEN next[n] ELSE head),
           next[n] = n /\ prev[n] = n =>
              next' = [next EXCEPT ![n] = NULL] /\ prev' = [prev EXCEPT ![n] = NULL],
           ~(next[n] = n /\ prev[n] = n) =>
              /\ next' = [next EXCEPT ![prev[n]] = next[n], ![n] = NULL]
              /\ prev' = [prev EXCEPT ![next[n]] = prev[n], ![n] = NULL]
    PROVE  /\ Distinct(items', N - 1)
           /\ Ring(items', N - 1, head', next', prev')
           /\ next' \in Pointers /\ prev' \in Pointers
<1>1. Distinct(items', N - 1)
  <2> SUFFICES ASSUME NEW i \in 1..(N - 1), NEW j \in 1..(N - 1), items'[i] = items'[j]
               PROVE  i = j
    BY DEF Distinct
  <2> DEFINE a == IF i < k THEN i ELSE i + 1
             b == IF j < k THEN j ELSE j + 1
  <2>1. a \in 1..N /\ b \in 1..N /\ items[a] = items[b]
    OBVIOUS
  <2>2. a = b
    BY <2>1 DEF Distinct
  <2> QED
    BY <2>2
<1>2. CASE N = 1
  <2>1. k = 1 /\ head = n /\ next[n] = n /\ prev[n] = n /\ n \in Nodes
    BY <1>2 DEF Ring
  <2>2. /\ next' \in Pointers /\ prev' \in Pointers
        /\ \A m \in Nodes : next'[m] = (IF m = n THEN NULL ELSE next[m])
                            /\ prev'[m] = IF m = n THEN NULL ELSE prev[m]
    BY <2>1 DEF Pointers
  <2>3. \A m \in Nodes : next'[m] = NULL /\ prev'[m] = NULL
    BY <1>2, <2>1, <2>2 DEF Ring
  <2> QED
    BY <1>1, <1>2, <2>1, <2>2, <2>3 DEF Ring
<1>3. CASE N > 1
  <2> DEFINE before == IF k = 1 THEN N ELSE k - 1
             after == IF k = N THEN 1 ELSE k + 1
  <2>1. /\ before \in 1..N /\ after \in 1..N /\ before # k /\ after # k
        /\ prev[n] = items[before] /\ next[n] = items[after]
    <3>1. prev[n] = items[before]
      <4>1. CASE k = 1
        BY <1>3, <4>1 DEF Ring
      <4>2. CASE k - 1 \in 1..(N - 1)
        BY <4>2 DEF Ring
      <4> QED
        BY <4>1, <4>2
    <3>2. next[n] = items[after]
      BY <1>3 DEF Ring
    <3> QED
      BY <1>3, <3>1, <3>2
  <2>2. /\ n \in Nodes /\ items[before] \in Nodes /\ items[after] \in Nodes
        /\ items[before] # n /\ items[after] # n
    BY <2>1 DEF Distinct
  <2>3. /\ next' \in Pointers /\ prev' \in Pointers
        /\ \A m \in Nodes :
              /\ next'[m] = IF m = n THEN NULL ELSE IF m = items[before] THEN items[after] ELSE next[m]
              /\ prev'[m] = IF m = n THEN NULL ELSE IF m = items[after] THEN items[before] ELSE prev[m]
    BY <2>1, <2>2 DEF Pointers
  <2>4. head' = IF k = 1 THEN items[2] ELSE items[1]
    <3>1. head = items[1] /\ (head = n <=> k = 1)
      BY <1>3 DEF Ring, Distinct
    <3> QED
      BY <1>3, <2>1, <2>2, <3>1
  <2>5. head' = items'[1]
    BY <1>3, <2>4
  <2>6. \A i, j \in 1..N : items[i] = items[j] <=> i = j
    BY DEF Distinct
  <2>7. next'[items'[N - 1]] = items'[1] /\ prev'[items'[1]] = items'[N - 1]
    <3>1. items[1] \in Nodes /\ items[2] \in Nodes /\ items[N] \in Nodes /\ items[N - 1] \in Nodes
          /\ next[items[N]] = items[1] /\ prev[items[1]] = items[N]
      BY <1>3 DEF Ring
    <3>2. items'[N - 1] = (IF k = N THEN items[N - 1] ELSE items[N]) /\ items'[1] = IF k = 1 THEN items[2] ELSE items[1]
      BY <1>3
    <3> HIDE DEF before, after
    <3>3. CASE k = N
      <4>1. before = N - 1 /\ after = 1
        BY <1>3, <3>3 DEF before, after
      <4> QED
        BY <1>3, <2>2, <2>3, <3>1, <3>2, <3>3, <4>1
    <3>4. CASE k = 1
      <4>1. before = N /\ after = 2
        BY <1>3, <3>4 DEF before, after
      <4> QED
        BY <1>3, <2>2, <2>3, <3>1, <3>2, <3>4, <4>1
    <3>5. CASE k # 1 /\ k # N
      <4>1. items[N] # n /\ items[1] # n /\ items[N] # items[before] /\ items[1] # items[after]
        BY <1>3, <2>6, <3>5 DEF before, after
      <4> QED
        BY <2>3, <3>1, <3>2, <3>5, <4>1
    <3> QED
      BY <3>3, <3>4, <3>5
  <2>8. ASSUME NEW i \in 1..(N - 2)
        PROVE  next'[items'[i]] = items'[i + 1] /\ prev'[items'[i + 1]] = items'[i]
    <3>1. CASE i + 1 < k
      <4>1. /\ items'[i] = items[i] /\ items'[i + 1] = items[i + 1] /\ items[i] \in Nodes /\ items[i + 1] \in Nodes
            /\ next[items[i]] = items[i + 1] /\ prev[items[i + 1]] = items[i]
        BY <3>1 DEF Ring
      <4>2. items[i] # n /\ items[i + 1] # n /\ items[i] # items[before] /\ items[i + 1] # items[after]
        BY <2>6, <3>1
      <4> QED
        BY <2>3, <4>1, <4>2
    <3>2. CASE i + 1 = k
      <4>1. items'[i] = items[before] /\ items'[i + 1] = items[after]
        BY <3>2
      <4> QED
        BY <2>2, <2>3, <4>1
    <3>3. CASE k <= i
      <4>1. /\ items'[i] = items[i + 1] /\ items'[i + 1] = items[i + 2] /\ items[i + 1] \in Nodes /\ items[i + 2] \in Nodes
            /\ next[items[i + 1]] = items[i + 2] /\ prev[items[i + 2]] = items[i + 1]
        BY <3>3 DEF Ring
      <4>2. items[i + 1] # n /\ items[i + 2] # n /\ items[i + 1] # items[before] /\ items[i + 2] # items[after]
        BY <2>6, <3>3
      <4> QED
        BY <2>3, <4>1, <4>2
    <3> QED
      BY <3>1, <3>2, <3>3
  <2>9. ASSUME NEW m \in Nodes, \A i \in 1..(N - 1) : items'[i] # m
        PROVE  next'[m] = NULL /\ prev'[m] = NULL
    <3>1. CASE m = n
      BY <2>3, <3>1
    <3>2. CASE m # n
      <4>1. ASSUME NEW i \in 1..N PROVE items[i] # m
        <5>1. CASE i < k
          BY <2>9, <5>1
        <5>2. CASE i = k
          BY <3>2, <5>2
        <5>3. CASE i > k
          <6>1. i - 1 \in 1..(N - 1) /\ items'[i - 1] = items[i]
            BY <5>3
          <6> QED
            BY <2>9, <6>1
        <5> QED
          BY <5>1, <5>2, <5>3
      <4>2. m # items[before] /\ m # items[after] /\ next[m] = NULL /\ prev[m] = NULL
        BY <2>1, <4>1 DEF Ring
      <4> QED
        BY <2>3, <3>2, <4>2
    <3> QED
      BY <3>1, <3>2
  <2> HIDE DEF before, after
  <2> QED
    BY <1>1, <1>3, <2>3, <2>5, <2>7, <2>8, <2>9 DEF Ring
<1> QED
  BY <1>2, <1>3

-----------------------------------------------------------------------------
(* The walks along next.                                                   *)

\* A set with 0 and with the successor of each of its numbers below k has every
\* number up to k: the least one missing would have a predecessor.
LEMMA UpwardsTo ==
    ASSUME NEW k \in Nat, NEW R, 0 \in R, \A i \in 1..k : i - 1 \in R => i \in R
    PROVE  \A i \in 0..k : i \in R
<1> DEFINE missing == (0..k) \ R
<1>1. SUFFICES ASSUME missing # {}
               PROVE  FALSE
  OBVIOUS
<1>2. missing \subseteq Nat
  OBVIOUS
<1>3. PICK i \in missing : \A j \in missing : ~(<<j, i>> \in OpToRel(<, Nat))
  BY <1>1, <1>2, WFMin, NatLessThanWellFounded
<1>4. i \in 1..k
  OBVIOUS
<1>5. i - 1 \notin missing
  <2> SUFFICES ASSUME i - 1 \in missing PROVE FALSE
    OBVIOUS
  <2>1. <<i - 1, i>> \in OpToRel(<, Nat)
    BY <1>4 DEF OpToRel
  <2> QED
    BY <1>3, <2>1
<1>6. i - 1 \in R /\ i \notin R
  BY <1>4, <1>5
<1> QED
  BY <1>4, <1>6

\* What Steps computes, given that something satisfies its recursion.
LEMMA StepsIs ==
    ASSUME NEW ptr, NEW k \in Nat, NEW f,
           f = [i \in 0..k |-> IF i = 0 THEN head ELSE ptr[f[i - 1]]]
    PROVE  Steps(ptr, k) = f[k]
<1> DEFINE Walk(at) == at = [i \in 0..k |-> IF i = 0 THEN head ELSE ptr[at[i - 1]]]
<1>1. Walk(f)
  OBVIOUS
<1>2. Walk(CHOOSE at : Walk(at))
  BY <1>1, Zenon
<1>3. Steps(ptr, k) = (CHOOSE at : Walk(at))[k]
  BY DEF Steps
<1>4. PICK at : Walk(at) /\ Steps(ptr, k) = at[k]
  BY <1>2, <1>3, Zenon
<1>5. f[0] = at[0]
  BY <1>1, <1>4
<1>6. \A i \in 1..k : f[i - 1] = at[i - 1] => f[i] = at[i]
  BY <1>1, <1>4
<1> DEFINE right == {i \in 0..k : f[i] = at[i]}
<1>7. 0 \in right /\ \A i \in 1..k : i - 1 \in right => i \in right
  BY <1>5, <1>6
<1> HIDE DEF right
<1>8. k \in right
  BY <1>7, UpwardsTo
<1> QED
  BY <1>4, <1>8, Zenon DEF right

\* The ring at hand, without Len.
LEMMA RingAtHand ==
    ASSUME FInv
    PROVE  /\ Len(items) \in Nat
           /\ \A i \in 1..Len(items) : items[i] \in Nodes
           /\ Members = {items[i] : i \in 1..Len(items)}
           /\ items = <<>> <=> Len(items) = 0
<1>1. Len(items) \in Nat /\ DOMAIN items = 1..Len(items) /\ items = <<>> <=> Len(items) = 0
  BY LenProperties, EmptySeq DEF FInv
<1>2. \A i \in 1..Len(items) : items[i] \in Nodes
  BY ElementOfSeq DEF FInv
<1> QED
  BY <1>1, <1>2 DEF Members

\* k steps from the first node is the node after k others.
LEMMA StepsForward ==
    ASSUME FInv, NEW k \in 0..(Len(items) - 1)
    PROVE  Steps(next, k) = items[k + 1]
<1> DEFINE N == Len(items)
           f == [i \in 0..k |-> items[i + 1]]
<1>1. N \in Nat /\ Ring(items, N, head, next, prev)
  BY RingAtHand DEF FInv
<1> HIDE DEF N
<1>2. k \in 0..(N - 1)
  BY DEF N
<1>3. ASSUME NEW i \in 0..k
      PROVE  items[i + 1] = IF i = 0 THEN head ELSE next[f[i - 1]]
  <2>1. CASE i = 0
    BY <1>1, <1>2, <2>1 DEF Ring
  <2>2. CASE i # 0
    <3>1. i \in 1..(N - 1) /\ f[i - 1] = items[i]
      BY <1>1, <1>2, <2>2
    <3> QED
      BY <1>1, <2>2, <3>1 DEF Ring
  <2> QED
    BY <2>1, <2>2
<1>4. f = [i \in 0..k |-> IF i = 0 THEN head ELSE next[f[i - 1]]]
  BY <1>3
<1>5. f[k] = items[k + 1] /\ k \in Nat
  BY <1>1, <1>2
<1> HIDE DEF f
<1> QED
  BY <1>4, <1>5, StepsIs

\* There are no more items than nodes.
LEMMA NotMoreItems ==
    ASSUME FInv
    PROVE  Len(items) <= Cardinality(Nodes) /\ Cardinality(Nodes) \in Nat
<1> DEFINE N == Len(items)
<1>1. N \in Nat /\ Distinct(items, N) /\ items \in [1..N -> Nodes]
  BY RingAtHand, LenProperties DEF FInv
<1> HIDE DEF N
<1>2. items \in Injection(1..N, Nodes)
  BY <1>1 DEF Distinct, Injection, IsInjective
<1>3. Cardinality(1..N) <= Cardinality(Nodes) /\ Cardinality(1..N) = N
  <2>1. Cardinality(1..N) <= Cardinality(Nodes)
    BY <1>2, FS_Injection, NodesAssumption
  <2>2. Cardinality(1..N) = N
    BY <1>1, FS_Interval
  <2> QED
    BY <2>1, <2>2
<1>4. Cardinality(Nodes) \in Nat
  BY FS_CardinalityType, NodesAssumption
<1> QED
  BY <1>3, <1>4 DEF N

\* A walk from the head of a list with nodes stops at its last.
LEMMA LastStepForward ==
    ASSUME FInv, items # <<>>
    PROVE  LastStep(next) = Len(items) - 1
<1> DEFINE N == Len(items)
           Stops(k) == /\ next[Steps(next, k)] = head
                       /\ \A i \in 0..(k - 1) : next[Steps(next, i)] # head
<1>1. /\ N \in Nat /\ N > 0 /\ N <= Cardinality(Nodes) /\ Cardinality(Nodes) \in Nat
      /\ Ring(items, N, head, next, prev) /\ Distinct(items, N)
  BY RingAtHand, NotMoreItems DEF FInv
<1>2. \A k \in 0..(N - 1) : Steps(next, k) = items[k + 1]
  BY StepsForward
<1> HIDE DEF N
<1>3. next[Steps(next, N - 1)] = head
  <2>1. Steps(next, N - 1) = items[N]
    BY <1>1, <1>2
  <2> QED
    BY <1>1, <2>1 DEF Ring
<1>4. ASSUME NEW i \in 0..(N - 2)
      PROVE  next[Steps(next, i)] # head
  <2>1. Steps(next, i) = items[i + 1]
    BY <1>1, <1>2
  <2>2. head = items[1] /\ next[items[i + 1]] = items[i + 2]
    BY <1>1 DEF Ring
  <2>3. items[i + 2] # items[1]
    BY <1>1 DEF Distinct
  <2> QED
    BY <2>1, <2>2, <2>3
<1>5. N - 1 \in 0..Cardinality(Nodes) /\ Stops(N - 1)
  BY <1>1, <1>3, <1>4
<1>6. ASSUME NEW k \in 0..Cardinality(Nodes), Stops(k)
      PROVE  k = N - 1
  <2>1. ~(k \in 0..(N - 2))
    BY <1>4, <1>6
  <2>2. ~(N - 1 \in 0..(k - 1))
    BY <1>3, <1>6
  <2> QED
    BY <1>1, <2>1, <2>2
<1>7. LastStep(next) = CHOOSE k \in 0..Cardinality(Nodes) : Stops(k)
  BY DEF LastStep
<1> HIDE DEF Stops
<1>8. LastStep(next) = N - 1
  BY <1>5, <1>6, <1>7
<1> QED
  BY <1>8 DEF N

-----------------------------------------------------------------------------
(* The steps.                                                              *)

\* A function on 1..m is a sequence of length m.
LEMMA FunctionIsSeq ==
    ASSUME NEW S, NEW m \in Nat, NEW f \in [1..m -> S]
    PROVE  f \in Seq(S) /\ Len(f) = m
<1>1. f \in Seq(S)
  BY SeqDef
<1>2. Len(f) \in Nat /\ DOMAIN f = 1..Len(f) /\ DOMAIN f = 1..m
  BY <1>1, LenProperties
<1>3. Len(f) = m
  <2> SUFFICES ASSUME Len(f) # m PROVE FALSE
    OBVIOUS
  <2>1. \A i : i \in 1..Len(f) <=> i \in 1..m
    BY <1>2, Zenon
  <2>2. Len(f) \in Nat
    BY <1>2
  <2>3. CASE Len(f) < m
    <3>1. m \in 1..m /\ m \notin 1..Len(f)
      BY <2>2, <2>3
    <3> QED
      BY <2>1, <3>1
  <2>4. CASE m < Len(f)
    <3>1. Len(f) \in 1..Len(f) /\ Len(f) \notin 1..m
      BY <2>2, <2>4
    <3> QED
      BY <2>1, <3>1
  <2> QED
    BY <2>2, <2>3, <2>4
<1> QED
  BY <1>1, <1>3

\* The head is there exactly with nodes to point to.
LEMMA HeadAtHand ==
    ASSUME FInv
    PROVE  head = NULL <=> items = <<>>
<1>1. /\ Len(items) \in Nat /\ (items = <<>> <=> Len(items) = 0)
      /\ \A i \in 1..Len(items) : items[i] \in Nodes
      /\ Ring(items, Len(items), head, next, prev)
  BY RingAtHand DEF FInv
<1>2. CASE Len(items) = 0
  BY <1>1, <1>2 DEF Ring
<1>3. CASE Len(items) > 0
  BY <1>1, <1>3, NodesAssumption DEF Ring
<1> QED
  BY <1>1, <1>2, <1>3

\* A node that is in no list joins at the end.
LEMMA AddStep ==
    ASSUME FInv, NEW n \in Nodes, ft_list_add_last(n)
    PROVE  FInv'
<1> DEFINE N == Len(items)
<1>1. /\ N \in Nat /\ \A i \in 1..N : items[i] \in Nodes /\ items[i] # n
      /\ Distinct(items, N) /\ Ring(items, N, head, next, prev)
      /\ head = NULL <=> N = 0
  BY RingAtHand, HeadAtHand DEF FInv, ft_list_add_last
<1>2. /\ items' \in Seq(Nodes) /\ Len(items') = N + 1
      /\ items'[N + 1] = n /\ \A i \in 1..N : items'[i] = items[i]
  BY AppendProperties DEF FInv, ft_list_add_last
<1> HIDE DEF N
<1>3. head' = IF N = 0 THEN n ELSE head
  BY <1>1 DEF ft_list_add_last
<1>4. N = 0 => next' = [next EXCEPT ![n] = n] /\ prev' = [prev EXCEPT ![n] = n]
  BY <1>1 DEF ft_list_add_last
<1>5. N > 0 => /\ next' = [next EXCEPT ![prev[head]] = n, ![n] = head]
               /\ prev' = [prev EXCEPT ![n] = prev[head], ![head] = n]
  BY <1>1 DEF ft_list_add_last
<1>6. /\ Distinct(items', N + 1)
      /\ Ring(items', N + 1, IF N = 0 THEN n ELSE head, next', prev')
      /\ next' \in Pointers /\ prev' \in Pointers
  BY <1>1, <1>2, <1>4, <1>5, RingAdd DEF FInv
<1>7. Pointers' = Pointers
  BY DEF Pointers
<1> QED
  BY <1>2, <1>3, <1>6, <1>7 DEF FInv, Ring, Distinct

\* A node leaves, and items moves up behind it.
LEMMA UnlinkStep ==
    ASSUME FInv, NEW k \in 1..Len(items), Unlink(items[k]),
           items' \in Seq(Nodes), Len(items') = Len(items) - 1,
           \A i \in 1..(Len(items) - 1) :
              items'[i] = IF i < k THEN items[i] ELSE items[i + 1]
    PROVE  FInv'
<1> DEFINE N == Len(items)
           n == items[k]
<1>1. /\ N \in Nat /\ \A i \in 1..N : items[i] \in Nodes
      /\ Distinct(items, N) /\ Ring(items, N, head, next, prev)
      /\ next \in Pointers /\ prev \in Pointers
  BY RingAtHand DEF FInv
<1>2. k \in 1..N /\ \A i \in 1..(N - 1) : items'[i] = IF i < k THEN items[i] ELSE items[i + 1]
  OBVIOUS
<1>3. head' = (IF next[n] = n /\ prev[n] = n THEN NULL ELSE IF head = n THEN next[n] ELSE head)
  BY DEF Unlink, HeadWithout
<1>4. next[n] = n /\ prev[n] = n =>
         next' = [next EXCEPT ![n] = NULL] /\ prev' = [prev EXCEPT ![n] = NULL]
  BY DEF Unlink, PrevCleared
<1>5. ~(next[n] = n /\ prev[n] = n) =>
         /\ next' = [next EXCEPT ![prev[n]] = next[n], ![n] = NULL]
         /\ prev' = [prev EXCEPT ![next[n]] = prev[n], ![n] = NULL]
  BY DEF Unlink, PrevCleared
<1> HIDE DEF N
<1>6. /\ Distinct(items', N - 1)
      /\ Ring(items', N - 1, head', next', prev')
      /\ next' \in Pointers /\ prev' \in Pointers
  <2> n = items[k]
    OBVIOUS
  <2> HIDE DEF n
  <2> QED
    BY <1>1, <1>2, <1>3, <1>4, <1>5, RingPop
<1>7. Pointers' = Pointers
  BY DEF Pointers
<1> QED
  BY <1>6, <1>7 DEF FInv, Ring, Distinct, N

\* pop finds its node wherever it stands.
LEMMA PopStep ==
    ASSUME FInv, NEW n \in Nodes, ft_list_pop(n)
    PROVE  FInv'
<1> DEFINE k == CHOOSE i \in DOMAIN items : items[i] = n
           N == Len(items)
<1>1. DOMAIN items = 1..N /\ N \in Nat /\ \A i \in 1..N : items[i] \in Nodes
  BY RingAtHand, LenProperties DEF FInv
<1>2. k \in DOMAIN items /\ items[k] = n
  <2>1. \E i \in DOMAIN items : items[i] = n
    BY DEF ft_list_pop, Members
  <2> QED
    BY <2>1
<1>3. items' = [i \in 1..(N - 1) |-> items[IF i < k THEN i ELSE i + 1]]
  BY DEF ft_list_pop, Without
<1> HIDE DEF k, N
<1>4. k \in 1..N /\ N - 1 \in Nat
  BY <1>1, <1>2
<1>5. \A i \in 1..(N - 1) : items'[i] = IF i < k THEN items[i] ELSE items[i + 1]
  BY <1>3
<1>6. items' \in [1..(N - 1) -> Nodes]
  <2>1. \A i \in 1..(N - 1) : items[IF i < k THEN i ELSE i + 1] \in Nodes
    BY <1>1, <1>4
  <2> QED
    BY <1>3, <2>1
<1>7. items' \in Seq(Nodes) /\ Len(items') = N - 1
  BY <1>4, <1>6, FunctionIsSeq
<1>8. Unlink(items[k])
  BY <1>2 DEF ft_list_pop
<1> QED
  BY <1>4, <1>5, <1>7, <1>8, UnlinkStep DEF N

\* The walk finds the last node, which goes.
LEMMA PopLastStep ==
    ASSUME FInv, ft_list_pop_last
    PROVE  FInv'
<1> DEFINE N == Len(items)
<1>1. /\ N \in Nat /\ N > 0 /\ \A i \in 1..N : items[i] \in Nodes
      /\ head # NULL
  BY RingAtHand, HeadAtHand DEF ft_list_pop_last
<1>2. Unlink(items[N])
  <2>1. ft_list_get_last = Steps(next, N - 1)
    BY <1>1, LastStepForward DEF ft_list_get_last, ft_list_pop_last
  <2>2. Steps(next, N - 1) = items[N - 1 + 1]
    BY <1>1, StepsForward
  <2>3. N - 1 + 1 = N
    BY <1>1
  <2> QED
    BY <2>1, <2>2, <2>3 DEF ft_list_pop_last
<1>3. items' = SubSeq(items, 1, N - 1)
  BY DEF ft_list_pop_last
<1> HIDE DEF N
<1>4. /\ items' \in Seq(Nodes) /\ Len(items') = N - 1
      /\ \A i \in 1..(N - 1) : items'[i] = items[i]
  <2>1. \A i \in 1..(N - 1) : items[i] \in Nodes
    BY <1>1
  <2>2. /\ SubSeq(items, 1, N - 1) \in Seq(Nodes)
        /\ Len(SubSeq(items, 1, N - 1)) = IF 1 <= N - 1 THEN N - 1 - 1 + 1 ELSE 0
        /\ \A i \in 1..(N - 1 - 1 + 1) : SubSeq(items, 1, N - 1)[i] = items[1 + i - 1]
    BY <1>1, <2>1, SubSeqProperties
  <2> QED
    BY <1>1, <1>3, <2>2
<1>5. N \in 1..N /\ \A i \in 1..(N - 1) : i < N
  BY <1>1
<1> QED
  BY <1>2, <1>4, <1>5, UnlinkStep DEF N

\* An empty list is no ring.
LEMMA FInvInit == Init => FInv
<1> SUFFICES ASSUME Init PROVE FInv
  OBVIOUS
<1>1. items \in Seq(Nodes) /\ Len(items) = 0
  BY EmptySeq DEF Init
<1>2. next \in Pointers /\ prev \in Pointers /\ head = NULL
      /\ \A n \in Nodes : next[n] = NULL /\ prev[n] = NULL
  BY DEF Init, Pointers
<1> QED
  BY <1>1, <1>2 DEF FInv, Distinct, Ring

\* Every call of Next.
LEMMA FInvStep ==
    ASSUME FInv, [Next]_vars
    PROVE  FInv'
<1>1. CASE UNCHANGED vars
  BY <1>1 DEF vars, pointers, FInv, Ring, Distinct, Pointers
<1> QED
  BY <1>1, AddStep, PopStep, PopLastStep DEF Next

-----------------------------------------------------------------------------
(* What the run checks, for every set of nodes.                            *)

\* The pointers are one ring through the promised nodes.
THEOREM FInvInvariant == Spec => []FInv
<1>1. FInv /\ [Next]_vars => FInv'
  BY FInvStep
<1> QED
  BY <1>1, FInvInit, PTL DEF Spec

\* ... as the property puts it: in order along next, and in the opposite order
\* along prev, whatever was added and popped.
THEOREM OneRing == Spec => []RingMatchesItems
<1>1. FInv => RingMatchesItems
  <2> SUFFICES ASSUME FInv PROVE RingMatchesItems
    OBVIOUS
  <2> DEFINE N == Len(items)
  <2>1. /\ N \in Nat /\ Members = {items[i] : i \in 1..N}
        /\ Ring(items, N, head, next, prev)
    BY RingAtHand DEF FInv
  <2> HIDE DEF N
  <2>2. head = IF N = 0 THEN NULL ELSE items[1]
    BY <2>1 DEF Ring
  <2>3. ASSUME NEW i \in 1..N
        PROVE  /\ next[items[i]] = items[(i % N) + 1]
               /\ prev[items[(i % N) + 1]] = items[i]
    <3>1. CASE i = N
      <4>1. (i % N) + 1 = 1
        BY <2>1, <3>1
      <4> QED
        BY <2>1, <3>1, <4>1 DEF Ring
    <3>2. CASE i \in 1..(N - 1)
      <4>1. (i % N) + 1 = i + 1
        BY <2>1, <3>2
      <4> QED
        BY <2>1, <3>2, <4>1 DEF Ring
    <3> QED
      BY <2>1, <3>1, <3>2
  <2>4. \A n \in Nodes \ Members : next[n] = NULL /\ prev[n] = NULL
    BY <2>1 DEF Ring
  <2> QED
    BY <2>2, <2>3, <2>4 DEF RingMatchesItems, N
<1> QED
  BY <1>1, FInvInvariant, PTL

\* The calls that read the list forwards end, and agree with the promise.
THEOREM ForwardWalks == Spec => []ForwardReadsAgree
<1>1. FInv => ForwardReadsAgree
  <2> SUFFICES ASSUME FInv PROVE ForwardReadsAgree
    OBVIOUS
  <2> DEFINE N == Len(items)
  <2>1. /\ N \in Nat /\ (items = <<>> <=> N = 0) /\ (head = NULL <=> N = 0)
        /\ \A i \in 1..N : items[i] \in Nodes
        /\ Ring(items, N, head, next, prev) /\ Distinct(items, N)
    BY RingAtHand, HeadAtHand DEF FInv
  <2>2. /\ N > 0 => LastStep(next) = N - 1
        /\ \A k \in 0..(N - 1) : Steps(next, k) = items[k + 1]
    BY <2>1, LastStepForward, StepsForward
  <2> HIDE DEF N
  <2>3. ft_list_get_size = N
    BY <2>1, <2>2 DEF ft_list_get_size
  <2>4. N > 0 => ft_list_get_last = items[N]
    <3>1. N > 0 => Steps(next, N - 1) = items[N - 1 + 1] /\ N - 1 + 1 = N
      BY <2>1, <2>2
    <3> QED
      BY <2>1, <2>2, <3>1 DEF ft_list_get_last
  <2>5. ASSUME NEW n \in Nodes
        PROVE  ft_list_find_node(n) >= 0 <=> n \in Members
    <3>1. Members = {items[i] : i \in 1..N}
      BY DEF Members, FInv, N
    <3>2. CASE N = 0
      BY <2>1, <3>1, <3>2 DEF ft_list_find_node, INVALID_ARGS
    <3>3. CASE N > 0
      <4>1. LastStep(next) = N - 1 /\ head # NULL
        BY <2>1, <2>2, <3>3
      <4>2. n \in Members <=> \E k \in 0..(N - 1) : Steps(next, k) = n
        <5>1. ASSUME NEW i \in 1..N PROVE i - 1 \in 0..(N - 1) /\ Steps(next, i - 1) = items[i]
          BY <2>1, <2>2
        <5>2. ASSUME NEW k \in 0..(N - 1) PROVE k + 1 \in 1..N /\ Steps(next, k) = items[k + 1]
          BY <2>1, <2>2
        <5> QED
          BY <3>1, <5>1, <5>2
      <4>3. CASE n \in Members
        <5> DEFINE at == CHOOSE k \in 0..(N - 1) : Steps(next, k) = n
        <5>1. at \in 0..(N - 1)
          BY <4>2, <4>3
        <5>2. ft_list_find_node(n) = at
          BY <4>1, <4>2, <4>3 DEF ft_list_find_node
        <5> HIDE DEF at
        <5> QED
          BY <4>3, <5>1, <5>2
      <4>4. CASE n \notin Members
        <5>1. ft_list_find_node(n) = FAILURE
          BY <4>1, <4>2, <4>4 DEF ft_list_find_node
        <5> QED
          BY <4>4, <5>1 DEF FAILURE
      <4> QED
        BY <4>3, <4>4
    <3> QED
      BY <2>1, <3>2, <3>3
  <2>6. ASSUME NEW i \in 1..N
        PROVE  ft_list_get_next(items[i]) = IF i = N THEN NULL ELSE items[i + 1]
    <3>1. head = items[1] /\ head # NULL
      BY <2>1 DEF Ring
    <3>2. CASE i = N
      BY <2>1, <3>1, <3>2 DEF ft_list_get_next, Ring
    <3>3. CASE i \in 1..(N - 1)
      <4>1. next[items[i]] = items[i + 1] /\ items[i + 1] # items[1]
        BY <2>1, <3>3 DEF Ring, Distinct
      <4> QED
        BY <3>1, <3>3, <4>1 DEF ft_list_get_next
    <3> QED
      BY <2>1, <3>2, <3>3
  <2> QED
    BY <2>3, <2>4, <2>5, <2>6 DEF ForwardReadsAgree, N
<1> QED
  BY <1>1, FInvInvariant, PTL
=============================================================================
