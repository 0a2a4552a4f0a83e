------------------------------- MODULE Db_proofs -------------------------------
(***************************************************************************)
(* Proofs about Config and DbGen, the two modules in which the program     *)
(* prints a text that someone else takes apart: whatever the file and the  *)
(* schemas are, what arrives is what was meant.                            *)
(***************************************************************************)
EXTENDS Config, DbGen, SequenceTheorems, FiniteSetTheorems, WellFoundedInduction,
        TLAPS

-----------------------------------------------------------------------------
(* Numbers and sequences.                                                  *)

\* A set with 0 and with the successor of each of its numbers below k has every
\* number up to k: the least one missing would have a predecessor.
LEMMA UpwardsTo ==
    ASSUME NEW k \in Nat, NEW R, 0 \in R, \A i \in 1..k : i - 1 \in R => i \in R
    PROVE  \A i \in 0..k : i \in R
<1> DEFINE missing == (0..k) \ R
<1>1. SUFFICES ASSUME missing # {}
               PROVE  FALSE
  OBVIOUS
<1>2. missing \subseteq Nat
  OBVIOUS
<1>3. PICK i \in missing : \A j \in missing : ~(<<j, i>> \in OpToRel(<, Nat))
  BY <1>1, <1>2, WFMin, NatLessThanWellFounded
<1>4. i \in 1..k
  OBVIOUS
<1>5. i - 1 \notin missing
  <2> SUFFICES ASSUME i - 1 \in missing PROVE FALSE
    OBVIOUS
  <2>1. <<i - 1, i>> \in OpToRel(<, Nat)
    BY <1>4 DEF OpToRel
  <2> QED
    BY <1>3, <2>1
<1>6. i - 1 \in R /\ i \notin R
  BY <1>4, <1>5
<1> QED
  BY <1>4, <1>6

\* at[i] is what the first i of the pieces ss are together.
PiecesUpTo(at, ss, n) ==
    /\ at[0] = <<>>
    /\ \A i \in 1..n : at[i] = at[i - 1] \o ss[i]

\* FlattenSeq puts the pieces behind each other, one by one.
LEMMA Flattened ==
    ASSUME NEW S, NEW ss \in Seq(Seq(S))
    PROVE  \E at \in [0..Len(ss) -> Seq(S)] :
                PiecesUpTo(at, ss, Len(ss)) /\ FlattenSeq(ss) = at[Len(ss)]
<1> DEFINE N == Len(ss)
<1>1. N \in Nat /\ \A i \in 1..N : ss[i] \in Seq(S)
  BY LenProperties, ElementOfSeq
<1> HIDE DEF N
<1> DEFINE R == {n \in 0..N : \E at \in [0..n -> Seq(S)] : PiecesUpTo(at, ss, n)}
<1>2. 0 \in R
  <2> DEFINE none == [i \in 0..0 |-> <<>>]
  <2>1. none \in [0..0 -> Seq(S)]
    BY EmptySeq
  <2>2. none[0] = <<>>
    OBVIOUS
  <2> HIDE DEF none
  <2>3. PiecesUpTo(none, ss, 0)
    BY <2>2 DEF PiecesUpTo
  <2> QED
    BY <1>1, <2>1, <2>3
<1>3. \A n \in 1..N : n - 1 \in R => n \in R
  <2> TAKE n \in 1..N
  <2> HAVE n - 1 \in R
  <2>1. PICK at \in [0..(n - 1) -> Seq(S)] : PiecesUpTo(at, ss, n - 1)
    OBVIOUS
  <2> DEFINE more == [i \in 0..n |-> IF i = n THEN at[n - 1] \o ss[n] ELSE at[i]]
  <2>2. n \in Nat /\ n - 1 \in Nat /\ at[n - 1] \o ss[n] \in Seq(S)
    BY <1>1, ConcatProperties
  <2>3. more \in [0..n -> Seq(S)]
    BY <1>1, <2>2
  <2>4. n \in 0..n /\ \A i \in 0..(n - 1) : i \in 0..n /\ i # n
    BY <2>2
  <2>5. /\ \A i \in 0..(n - 1) : more[i] = at[i]
        /\ more[n] = at[n - 1] \o ss[n]
    BY <2>4, Zenon
  <2> HIDE DEF more
  <2>6. PiecesUpTo(more, ss, n)
    <3>1. more[0] = <<>>
      BY <2>1, <2>2, <2>5 DEF PiecesUpTo
    <3>2. ASSUME NEW i \in 1..n PROVE more[i] = more[i - 1] \o ss[i]
      <4>1. CASE i = n
        <5>1. n - 1 \in 0..(n - 1)
          BY <2>2
        <5> QED
          BY <2>5, <4>1, <5>1, Zenon
      <4>2. CASE i # n
        <5>1. i \in 1..(n - 1) /\ i - 1 \in 0..(n - 1) /\ i \in 0..(n - 1)
          BY <2>2, <4>2
        <5> QED
          BY <2>1, <2>5, <5>1 DEF PiecesUpTo
      <4> QED
        BY <4>1, <4>2
    <3> QED
      BY <3>1, <3>2 DEF PiecesUpTo
  <2>7. n \in 0..N
    BY <1>1
  <2> QED
    BY <2>3, <2>6, <2>7
<1> HIDE DEF R
<1>4. N \in R
  <2>1. N \in Nat /\ N \in 0..N
    BY <1>1
  <2>2. \A i \in 0..N : i \in R
    BY <1>2, <1>3, <2>1, UpwardsTo, Zenon
  <2> QED
    BY <2>1, <2>2
<1>5. PICK at \in [0..N -> Seq(S)] : PiecesUpTo(at, ss, N)
  BY <1>4 DEF R
<1>6. FlattenSeq(ss) = at[N]
  <2>1. CASE N = 0
    BY <1>5, <2>1, EmptySeq DEF PiecesUpTo, FlattenSeq, N
  <2>2. CASE N # 0
    <3> DEFINE Flat(f) == f = [i \in 1..N |-> IF i = 1 THEN ss[i] ELSE f[i - 1] \o ss[i]]
               f0 == [i \in 1..N |-> at[i]]
    <3>1. at[1] = ss[1]
      <4>1. 1 \in 1..N /\ 1 - 1 = 0
        BY <1>1, <2>2
      <4>2. at[1] = <<>> \o ss[1]
        BY <1>5, <4>1 DEF PiecesUpTo
      <4> QED
        BY <1>1, <4>1, <4>2, ConcatEmptySeq
    <3>2. Flat(f0)
      <4>1. ASSUME NEW i \in 1..N
            PROVE  at[i] = IF i = 1 THEN ss[i] ELSE f0[i - 1] \o ss[i]
        <5>1. CASE i = 1
          BY <3>1, <5>1
        <5>2. CASE i # 1
          <6>1. f0[i - 1] = at[i - 1]
            BY <1>1, <5>2
          <6>2. at[i] = at[i - 1] \o ss[i]
            BY <1>5 DEF PiecesUpTo
          <6> QED
            BY <5>2, <6>1, <6>2
        <5> QED
          BY <5>1, <5>2
      <4> QED
        BY <4>1
    <3>3. Flat(CHOOSE f : Flat(f))
      BY <3>2, Zenon
    <3>4. FlattenSeq(ss) = (CHOOSE f : Flat(f))[N]
      BY <2>2 DEF FlattenSeq, N
    <3>5. PICK f : Flat(f) /\ FlattenSeq(ss) = f[N]
      BY <3>3, <3>4, Zenon
    <3> DEFINE right == {i \in 0..N : i = 0 \/ f[i] = at[i]}
    <3>6. 0 \in right
      BY <1>1
    <3>7. \A i \in 1..N : i - 1 \in right => i \in right
      <4> TAKE i \in 1..N
      <4> HAVE i - 1 \in right
      <4>1. i \in 0..N
        BY <1>1
      <4>2. CASE i = 1
        BY <3>1, <3>5, <4>1, <4>2
      <4>3. CASE i # 1
        <5>1. f[i] = f[i - 1] \o ss[i]
          BY <3>5, <4>3
        <5>2. f[i - 1] = at[i - 1]
          BY <1>1, <4>3
        <5>3. at[i] = at[i - 1] \o ss[i]
          BY <1>5 DEF PiecesUpTo
        <5> QED
          BY <4>1, <5>1, <5>2, <5>3
      <4> QED
        BY <4>2, <4>3
    <3> HIDE DEF right
    <3>8. N \in right
      <4>1. N \in Nat /\ N \in 0..N
        BY <1>1
      <4>2. \A i \in 0..N : i \in right
        BY <3>6, <3>7, <4>1, UpwardsTo, Zenon
      <4> QED
        BY <4>1, <4>2
    <3> QED
      BY <2>2, <3>5, <3>8 DEF right
  <2> QED
    BY <2>1, <2>2
<1> QED
  BY <1>5, <1>6 DEF N
-----------------------------------------------------------------------------
(* Lists with a separator.                                                 *)

\* The place of i among the numbers of P.
Rank(P, i) == Cardinality({j \in P : j <= i})

\* Rank counts the members of P one by one.
LEMMA RankCounts ==
    ASSUME NEW N \in Nat, NEW P \in SUBSET (1..N)
    PROVE  /\ Rank(P, 0) = 0
           /\ \A n \in 0..N : Rank(P, n) \in Nat
           /\ \A n \in 1..N : Rank(P, n) = Rank(P, n - 1) + (IF n \in P THEN 1 ELSE 0)
           /\ Rank(P, N) = Cardinality(P)
<1>0. \A j \in P : j \in 1..N
  OBVIOUS
<1>1. IsFiniteSet(P)
  <2>1. IsFiniteSet(1..N)
    BY FS_Interval
  <2> QED
    BY <2>1, FS_Subset
<1>2. ASSUME NEW n \in 0..N
      PROVE  IsFiniteSet({j \in P : j <= n}) /\ Rank(P, n) \in Nat
  <2>1. IsFiniteSet({j \in P : j <= n})
    BY <1>1, FS_Subset
  <2> QED
    BY <2>1, FS_CardinalityType DEF Rank
<1>3. Rank(P, 0) = 0
  <2>1. \A j \in P : ~(j <= 0)
    BY <1>0
  <2>2. {j \in P : j <= 0} = {}
    BY <2>1, Zenon
  <2> QED
    BY <2>2, FS_EmptySet DEF Rank
<1>4. ASSUME NEW n \in 1..N
      PROVE  Rank(P, n) = Rank(P, n - 1) + (IF n \in P THEN 1 ELSE 0)
  <2> DEFINE less == {j \in P : j <= n - 1}
  <2>1. IsFiniteSet(less) /\ n \notin less /\ Cardinality(less) \in Nat
    <3>1. n - 1 \in 0..N /\ ~(n <= n - 1)
      OBVIOUS
    <3>2. IsFiniteSet(less) /\ Rank(P, n - 1) \in Nat
      BY <1>2, <3>1
    <3> QED
      BY <3>1, <3>2 DEF Rank
  <2>2. CASE n \in P
    <3> \A j \in P : j <= n <=> j <= n - 1 \/ j = n
      BY <1>0
    <3>1. {j \in P : j <= n} = less \cup {n}
      BY <2>2, Zenon
    <3>2. Cardinality(less \cup {n}) = Cardinality(less) + 1
      BY <2>1, FS_AddElement
    <3> QED
      BY <2>2, <3>1, <3>2 DEF Rank
  <2>3. CASE n \notin P
    <3> \A j \in P : j <= n <=> j <= n - 1
      BY <1>0, <2>3
    <3>1. {j \in P : j <= n} = less
      BY Zenon
    <3> QED
      BY <2>1, <2>3, <3>1 DEF Rank
  <2> QED
    BY <2>2, <2>3
<1>5. Rank(P, N) = Cardinality(P)
  <2> \A j \in P : j <= N
    BY <1>0
  <2>1. {j \in P : j <= N} = P
    BY Zenon
  <2> QED
    BY <2>1 DEF Rank
<1> QED
  BY <1>2, <1>3, <1>4, <1>5

\* A member of P comes after every number below it.
LEMMA RankGrows ==
    ASSUME NEW N \in Nat, NEW P \in SUBSET (1..N)
    PROVE  /\ \A n \in 0..N : \A m \in 0..n : Rank(P, m) <= Rank(P, n)
           /\ \A j \in P : \A i \in 0..(j - 1) : Rank(P, i) < Rank(P, j)
<1> DEFINE rank(n) == Rank(P, n)
<1>1. /\ \A n \in 0..N : rank(n) \in Nat
      /\ \A n \in 1..N : rank(n) = rank(n - 1) + (IF n \in P THEN 1 ELSE 0)
  BY RankCounts
<1> HIDE DEF rank
<1> DEFINE R == {n \in 0..N : \A m \in 0..n : rank(m) <= rank(n)}
<1>2. 0 \in R
  BY <1>1
<1>3. \A n \in 1..N : n - 1 \in R => n \in R
  <2> TAKE n \in 1..N
  <2> HAVE n - 1 \in R
  <2>1. \A m \in 0..(n - 1) : rank(m) <= rank(n - 1)
    OBVIOUS
  <2>2. rank(n - 1) <= rank(n) /\ n \in 0..N /\ n - 1 \in 0..N
    BY <1>1
  <2>3. ASSUME NEW m \in 0..n PROVE rank(m) <= rank(n)
    <3>1. m = n \/ m \in 0..(n - 1)
      OBVIOUS
    <3>2. m \in 0..N
      OBVIOUS
    <3>3. rank(m) \in Nat /\ rank(n) \in Nat /\ rank(n - 1) \in Nat
      BY <1>1, <2>2, <3>2
    <3> QED
      BY <2>1, <2>2, <3>1, <3>3
  <2> QED
    BY <2>2, <2>3
<1> HIDE DEF R
<1>4. \A n \in 0..N : n \in R
  BY <1>2, <1>3, UpwardsTo, Zenon
<1>5. ASSUME NEW j \in P, NEW i \in 0..(j - 1) PROVE rank(i) < rank(j)
  <2>1. j \in 1..N /\ j - 1 \in 0..N /\ i \in 0..N /\ j \in 0..N
    OBVIOUS
  <2>2. rank(i) <= rank(j - 1)
    BY <1>4, <2>1 DEF R
  <2>3. rank(j) = rank(j - 1) + 1
    BY <1>1, <2>1
  <2>4. rank(i) \in Nat /\ rank(j - 1) \in Nat
    BY <1>1, <2>1
  <2> QED
    BY <2>2, <2>3, <2>4
<1> QED
  BY <1>4, <1>5 DEF R, rank

\* Every place up to the last is the place of a member of P.
LEMMA RankHits ==
    ASSUME NEW N \in Nat, NEW P \in SUBSET (1..N), NEW r \in 1..Cardinality(P)
    PROVE  \E i \in P : Rank(P, i) = r
<1> DEFINE rank(n) == Rank(P, n)
<1>1. /\ rank(0) = 0
      /\ \A n \in 0..N : rank(n) \in Nat
      /\ \A n \in 1..N : rank(n) = rank(n - 1) + (IF n \in P THEN 1 ELSE 0)
      /\ rank(N) = Cardinality(P)
  BY RankCounts
<1> HIDE DEF rank
<1> DEFINE R == {n \in 0..N : \A q \in 1..rank(n) : \E i \in P : rank(i) = q}
<1>2. 0 \in R
  BY <1>1
<1>3. \A n \in 1..N : n - 1 \in R => n \in R
  <2> TAKE n \in 1..N
  <2> HAVE n - 1 \in R
  <2>1. n \in 0..N /\ n - 1 \in 0..N /\ rank(n) \in Nat /\ rank(n - 1) \in Nat
    BY <1>1
  <2>2. ASSUME NEW q \in 1..rank(n) PROVE \E i \in P : rank(i) = q
    <3>1. CASE q <= rank(n - 1)
      <4>1. q \in 1..rank(n - 1)
        BY <2>1, <3>1
      <4> QED
        BY <4>1
    <3>2. CASE ~(q <= rank(n - 1))
      <4>1. n \in P /\ rank(n) = q
        BY <1>1, <2>1, <3>2
      <4> QED
        BY <4>1
    <3> QED
      BY <3>1, <3>2
  <2> QED
    BY <2>1, <2>2
<1> HIDE DEF R
<1>4. N \in R
  <2>1. N \in 0..N
    OBVIOUS
  <2> QED
    BY <1>2, <1>3, <2>1, UpwardsTo, Zenon
<1> QED
  BY <1>1, <1>4 DEF R, rank

\* The pieces ss, those of P with an item each and, before a later item or
\* always when trail, a separator.
ItemPieces(ss, N, P, item, sep, trail) ==
    \A i \in 1..N :
        ss[i] = IF i \notin P THEN <<>>
                ELSE IF trail \/ \E j \in P : j > i THEN <<item[i], sep>>
                ELSE <<item[i]>>

\* The items are in the odd places, in order, and the separators in the even
\* ones.
ItemsAndSeparators(list, P, item, sep, trail) ==
    /\ Len(list) = 2 * Cardinality(P) - (IF trail \/ Cardinality(P) = 0 THEN 0 ELSE 1)
    /\ \A i \in P : list[2 * Rank(P, i) - 1] = item[i]
    /\ \A k \in 1..Cardinality(P) : 2 * k <= Len(list) => list[2 * k] = sep

\* Such pieces behind each other are such a list.
LEMMA Joined ==
    ASSUME NEW N \in Nat, NEW P \in SUBSET (1..N), NEW S, NEW item, NEW sep \in S,
           NEW trail \in BOOLEAN, NEW ss \in Seq(Seq(S)), Len(ss) = N,
           \A i \in P : item[i] \in S, ItemPieces(ss, N, P, item, sep, trail)
    PROVE  /\ FlattenSeq(ss) \in Seq(S)
           /\ ItemsAndSeparators(FlattenSeq(ss), P, item, sep, trail)
<1> DEFINE rank(n) == Rank(P, n)
           Later(n) == trail \/ \E j \in P : j > n
           At(s, n) ==
               /\ Len(s) = 2 * rank(n) - (IF rank(n) = 0 \/ Later(n) THEN 0 ELSE 1)
               /\ \A i \in P : i <= n => s[2 * rank(i) - 1] = item[i]
               /\ \A k \in 1..rank(n) : 2 * k <= Len(s) => s[2 * k] = sep
<1>1. \A j \in P : j \in 1..N
  OBVIOUS
<1>2. /\ rank(0) = 0
      /\ \A n \in 0..N : rank(n) \in Nat
      /\ \A n \in 1..N : rank(n) = rank(n - 1) + (IF n \in P THEN 1 ELSE 0)
      /\ rank(N) = Cardinality(P)
  BY RankCounts
<1>3. /\ \A n \in 0..N : \A m \in 0..n : rank(m) <= rank(n)
      /\ \A j \in P : rank(j) >= 1
  <2>1. \A n \in 0..N : \A m \in 0..n : rank(m) <= rank(n)
    BY RankGrows
  <2>2. ASSUME NEW j \in P PROVE rank(j) >= 1
    <3>1. j \in 1..N /\ j \in 0..N /\ j - 1 \in 0..N
      BY <1>1
    <3> QED
      BY <1>2, <3>1
  <2> QED
    BY <2>1, <2>2
<1>4. PICK at \in [0..N -> Seq(S)] : PiecesUpTo(at, ss, N) /\ FlattenSeq(ss) = at[N]
  BY Flattened
<1> HIDE DEF rank, Later
<1>5. At(at[0], 0)
  <2>1. at[0] = <<>> /\ Len(at[0]) = 0
    BY <1>4, EmptySeq DEF PiecesUpTo
  <2>2. \A i \in P : ~(i <= 0)
    BY <1>1
  <2> QED
    BY <1>2, <2>1, <2>2
<1>6. ASSUME NEW n \in 1..N, At(at[n - 1], n - 1) PROVE At(at[n], n)
  <2> DEFINE r == rank(n)
             s == at[n - 1]
             t == at[n]
  <2>1. n \in 0..N /\ n - 1 \in 0..N /\ r \in Nat /\ rank(n - 1) \in Nat
    BY <1>2
  <2>2. s \in Seq(S) /\ t \in Seq(S) /\ Len(s) \in Nat
    BY <2>1, LenProperties
  <2>3. At(s, n - 1) /\ t = s \o ss[n]
    BY <1>4, <1>6 DEF PiecesUpTo
  <2> HIDE DEF s, t, r
  <2>4. CASE n \notin P
    <3>1. t = s
      BY <2>2, <2>3, <2>4, ConcatEmptySeq DEF ItemPieces
    <3>2. rank(n) = rank(n - 1)
      BY <1>2, <2>1, <2>4
    <3>3. Later(n) <=> Later(n - 1)
      <4>1. ASSUME NEW j \in P PROVE j > n <=> j > n - 1
        <5>1. j \in 1..N /\ j # n
          BY <1>1, <2>4
        <5> QED
          BY <5>1
      <4> QED
        BY <4>1 DEF Later
    <3>4. \A i \in P : i <= n <=> i <= n - 1
      BY <1>1, <2>4
    <3>5. At(t, n)
      BY <2>3, <3>1, <3>2, <3>3, <3>4
    <3> QED
      BY <3>5 DEF t
  <2>5. CASE n \in P
    <3>1. rank(n - 1) = r - 1 /\ r >= 1
      <4>1. rank(n) = rank(n - 1) + 1
        BY <1>2, <2>5
      <4>2. \A a, b \in Nat : a = b + 1 => b = a - 1 /\ a >= 1
        OBVIOUS
      <4> QED
        BY <2>1, <4>1, <4>2, Zenon DEF r
    <3>2. Later(n - 1)
      <4>1. n > n - 1
        OBVIOUS
      <4> QED
        BY <2>5, <4>1 DEF Later
    <3>3. Len(s) = 2 * (r - 1)
      BY <2>1, <2>3, <3>1, <3>2
    <3> DEFINE piece == ss[n]
    <3>4. /\ piece \in Seq(S)
          /\ Len(piece) = (IF Later(n) THEN 2 ELSE 1)
          /\ piece[1] = item[n]
          /\ Later(n) => piece[2] = sep
      <4>1. piece = IF Later(n) THEN <<item[n], sep>> ELSE <<item[n]>>
        BY <2>5 DEF Later, ItemPieces
      <4> HIDE DEF piece
      <4> QED
        BY <2>5, <4>1
    <3> HIDE DEF piece
    <3>5. /\ Len(t) = Len(s) + Len(piece)
          /\ \A i \in 1..Len(s) : t[i] = s[i]
          /\ t[Len(s) + 1] = piece[1]
          /\ Later(n) => t[Len(s) + 2] = piece[2]
      <4>1. /\ Len(s \o piece) = Len(s) + Len(piece)
            /\ \A i \in 1..(Len(s) + Len(piece)) : (s \o piece)[i] =
                   IF i <= Len(s) THEN s[i] ELSE piece[i - Len(s)]
        BY <2>2, <3>4, ConcatProperties
      <4>2. t = s \o piece
        BY <2>3 DEF piece
      <4>3. /\ Len(s) \in Nat /\ Len(piece) \in Nat /\ Len(piece) >= 1
            /\ Later(n) => Len(piece) = 2
        BY <2>2, <3>4
      <4>4. \A i \in 1..Len(s) : i \in 1..(Len(s) + Len(piece)) /\ i <= Len(s)
        BY <4>3
      <4>5. Len(s) + 1 \in 1..(Len(s) + Len(piece)) /\ ~(Len(s) + 1 <= Len(s))
        BY <4>3
      <4>6. Later(n) =>
              Len(s) + 2 \in 1..(Len(s) + Len(piece)) /\ ~(Len(s) + 2 <= Len(s))
        <5>1. \A a \in Nat : a + 2 \in 1..(a + 2) /\ ~(a + 2 <= a)
          OBVIOUS
        <5> QED
          BY <4>3, <5>1, Zenon
      <4>7. (Len(s) + 1) - Len(s) = 1 /\ (Len(s) + 2) - Len(s) = 2
        BY <4>3
      <4> QED
        BY <4>1, <4>2, <4>4, <4>5, <4>6, <4>7, Zenon
    <3>6. Len(t) = 2 * r - (IF r = 0 \/ Later(n) THEN 0 ELSE 1)
      <4>1. r \in Nat /\ r # 0 /\ Len(s) = 2 * r - 2
        BY <2>1, <3>1, <3>3
      <4>2. CASE Later(n)
        BY <3>4, <3>5, <4>1, <4>2
      <4>3. CASE ~Later(n)
        BY <3>4, <3>5, <4>1, <4>3
      <4> QED
        BY <4>2, <4>3
    <3>7. ASSUME NEW i \in P, i <= n PROVE t[2 * rank(i) - 1] = item[i]
      <4>1. CASE i = n
        <5>1. 2 * rank(i) - 1 = Len(s) + 1
          BY <2>1, <3>3, <4>1 DEF r
        <5> QED
          BY <3>4, <3>5, <4>1, <5>1
      <4>2. CASE i # n
        <5>1. i <= n - 1 /\ i \in 0..(n - 1) /\ i \in 0..N
          BY <1>1, <3>7, <4>2
        <5>2. rank(i) \in Nat /\ rank(i) >= 1 /\ rank(i) <= r - 1
          BY <1>2, <1>3, <2>1, <3>1, <5>1
        <5>3. 2 * rank(i) - 1 \in 1..Len(s)
          BY <2>1, <3>3, <5>2
        <5> QED
          BY <2>3, <3>5, <5>1, <5>3
      <4> QED
        BY <4>1, <4>2
    <3>8. ASSUME NEW k \in 1..r, 2 * k <= Len(t) PROVE t[2 * k] = sep
      <4>1. CASE k = r
        <5>1. Later(n) /\ 2 * k = Len(s) + 2
          BY <2>1, <3>1, <3>3, <3>6, <3>8, <4>1
        <5> QED
          BY <3>4, <3>5, <5>1
      <4>2. CASE k # r
        <5>1. k \in 1..rank(n - 1) /\ 2 * k \in 1..Len(s) /\ 2 * k <= Len(s)
          BY <2>1, <3>1, <3>3, <4>2
        <5> QED
          BY <2>3, <3>5, <5>1
      <4> QED
        BY <4>1, <4>2
    <3>9. At(t, n)
      BY <3>6, <3>7, <3>8 DEF r
    <3> QED
      BY <3>9 DEF t
  <2> QED
    BY <2>4, <2>5
<1> HIDE DEF At
<1>7. At(at[N], N)
  <2> DEFINE R == {n \in 0..N : At(at[n], n)}
  <2>1. N \in 0..N /\ 0 \in 0..N /\ \A n \in 1..N : n \in 0..N
    OBVIOUS
  <2>2. 0 \in R
    BY <1>5, <2>1
  <2>3. \A n \in 1..N : n - 1 \in R => n \in R
    BY <1>6, <2>1
  <2> HIDE DEF R
  <2>4. N \in R
    BY <2>1, <2>2, <2>3, UpwardsTo, Zenon
  <2> QED
    BY <2>4 DEF R
<1>8. Later(N) <=> trail
  <2>1. \A j \in P : ~(j > N)
    BY <1>1
  <2> QED
    BY <2>1 DEF Later
<1>9. at[N] \in Seq(S) /\ \A i \in P : i <= N
  BY <1>1, <1>4
<1>10. ItemsAndSeparators(at[N], P, item, sep, trail)
  BY <1>2, <1>7, <1>8, <1>9 DEF At, rank, ItemsAndSeparators
<1> QED
  BY <1>4, <1>9, <1>10

\* A function on 1..n is a sequence of length n.
LEMMA FunctionIsSeq ==
    ASSUME NEW S, NEW n \in Nat, NEW f \in [1..n -> S]
    PROVE  f \in Seq(S) /\ Len(f) = n
<1>1. f \in Seq(S)
  BY SeqDef
<1>2. Len(f) \in Nat /\ 1..Len(f) = 1..n
  BY <1>1, LenProperties
<1> QED
  BY <1>1, <1>2

\* The pieces ss, those of P with a value each.
ValuePieces(ss, N, P, value) ==
    \A i \in 1..N : ss[i] = IF i \in P THEN <<value[i]>> ELSE <<>>

\* The values are in the order of P.
ValuesInPlace(list, P, value) ==
    /\ Len(list) = Cardinality(P)
    /\ \A i \in P : Rank(P, i) \in 1..Cardinality(P) /\ list[Rank(P, i)] = value[i]

\* Such pieces behind each other are such a list.
LEMMA Collected ==
    ASSUME NEW N \in Nat, NEW P \in SUBSET (1..N), NEW S, NEW value,
           NEW ss \in Seq(Seq(S)), Len(ss) = N,
           \A i \in P : value[i] \in S, ValuePieces(ss, N, P, value)
    PROVE  FlattenSeq(ss) \in Seq(S) /\ ValuesInPlace(FlattenSeq(ss), P, value)
<1> DEFINE rank(n) == Rank(P, n)
           At(s, n) ==
               /\ Len(s) = rank(n)
               /\ \A i \in P : i <= n => s[rank(i)] = value[i]
<1>1. \A j \in P : j \in 1..N
  OBVIOUS
<1>2. /\ rank(0) = 0
      /\ \A n \in 0..N : rank(n) \in Nat
      /\ \A n \in 1..N : rank(n) = rank(n - 1) + (IF n \in P THEN 1 ELSE 0)
      /\ rank(N) = Cardinality(P)
  BY RankCounts
<1>3. /\ \A n \in 0..N : \A m \in 0..n : rank(m) <= rank(n)
      /\ \A j \in P : rank(j) >= 1
  <2>1. \A n \in 0..N : \A m \in 0..n : rank(m) <= rank(n)
    BY RankGrows
  <2>2. ASSUME NEW j \in P PROVE rank(j) >= 1
    <3>1. j \in 1..N /\ j \in 0..N /\ j - 1 \in 0..N
      BY <1>1
    <3> QED
      BY <1>2, <3>1
  <2> QED
    BY <2>1, <2>2
<1>4. PICK at \in [0..N -> Seq(S)] : PiecesUpTo(at, ss, N) /\ FlattenSeq(ss) = at[N]
  BY Flattened
<1> HIDE DEF rank
<1>5. At(at[0], 0)
  <2>1. at[0] = <<>> /\ Len(at[0]) = 0
    BY <1>4, EmptySeq DEF PiecesUpTo
  <2>2. \A i \in P : ~(i <= 0)
    BY <1>1
  <2> QED
    BY <1>2, <2>1, <2>2
<1>6. ASSUME NEW n \in 1..N, At(at[n - 1], n - 1) PROVE At(at[n], n)
  <2> DEFINE s == at[n - 1]
             t == at[n]
  <2>1. n \in 0..N /\ n - 1 \in 0..N /\ rank(n) \in Nat /\ rank(n - 1) \in Nat
    BY <1>2
  <2>2. s \in Seq(S) /\ t \in Seq(S) /\ Len(s) \in Nat
    BY <2>1, LenProperties
  <2>3. At(s, n - 1) /\ t = s \o ss[n]
    BY <1>4, <1>6 DEF PiecesUpTo
  <2> HIDE DEF s, t
  <2>4. CASE n \notin P
    <3>1. t = s
      BY <2>2, <2>3, <2>4, ConcatEmptySeq DEF ValuePieces
    <3>2. rank(n) = rank(n - 1)
      BY <1>2, <2>1, <2>4
    <3>3. \A i \in P : i <= n <=> i <= n - 1
      BY <1>1, <2>4
    <3>4. At(t, n)
      BY <2>3, <3>1, <3>2, <3>3
    <3> QED
      BY <3>4 DEF t
  <2>5. CASE n \in P
    <3>1. rank(n) = rank(n - 1) + 1
      BY <1>2, <2>5
    <3>2. /\ Len(t) = Len(s) + 1
          /\ \A i \in 1..Len(s) : t[i] = s[i]
          /\ t[Len(s) + 1] = value[n]
      <4>1. <<value[n]>> \in Seq(S) /\ Len(<<value[n]>>) = 1
        BY <2>5
      <4>2. t = s \o <<value[n]>>
        BY <2>3, <2>5 DEF ValuePieces
      <4> QED
        BY <2>2, <4>1, <4>2, ConcatProperties
    <3>3. ASSUME NEW i \in P, i <= n PROVE t[rank(i)] = value[i]
      <4>1. CASE i = n
        BY <2>3, <3>1, <3>2, <4>1
      <4>2. CASE i # n
        <5>1. i <= n - 1 /\ i \in 0..(n - 1) /\ i \in 0..N
          BY <1>1, <3>3, <4>2
        <5>2. rank(i) \in Nat /\ rank(i) >= 1 /\ rank(i) <= rank(n - 1)
          BY <1>2, <1>3, <2>1, <5>1
        <5>3. rank(i) \in 1..Len(s)
          BY <2>1, <2>3, <5>2
        <5> QED
          BY <2>3, <3>2, <5>1, <5>3
      <4> QED
        BY <4>1, <4>2
    <3>4. At(t, n)
      BY <2>3, <3>1, <3>2, <3>3
    <3> QED
      BY <3>4 DEF t
  <2> QED
    BY <2>4, <2>5
<1> HIDE DEF At
<1>7. At(at[N], N)
  <2> DEFINE R == {n \in 0..N : At(at[n], n)}
  <2>1. N \in 0..N /\ 0 \in 0..N /\ \A n \in 1..N : n \in 0..N
    OBVIOUS
  <2>2. 0 \in R
    BY <1>5, <2>1
  <2>3. \A n \in 1..N : n - 1 \in R => n \in R
    BY <1>6, <2>1
  <2> HIDE DEF R
  <2>4. N \in R
    BY <2>1, <2>2, <2>3, UpwardsTo, Zenon
  <2> QED
    BY <2>4 DEF R
<1>8. at[N] \in Seq(S) /\ \A i \in P : i <= N
  BY <1>1, <1>4
<1>9. ASSUME NEW i \in P PROVE rank(i) \in 1..rank(N)
  <2>1. i \in 0..N /\ N \in 0..N
    BY <1>1
  <2>2. rank(i) <= rank(N) /\ rank(i) >= 1 /\ rank(i) \in Nat /\ rank(N) \in Nat
    BY <1>2, <1>3, <2>1
  <2> QED
    BY <2>2
<1> QED
  BY <1>2, <1>4, <1>7, <1>8, <1>9 DEF At, rank, ValuesInPlace
-----------------------------------------------------------------------------
(* The statements.                                                         *)

\* The columns with a value.
Given(cols, values) == {i \in cols : values[i] # NULL}

\* A member of P has a place from 1 to their number.
LEMMA RankIsAPlace ==
    ASSUME NEW N \in Nat, NEW P \in SUBSET (1..N), NEW i \in P
    PROVE  Rank(P, i) \in 1..Cardinality(P)
<1>1. i \in 0..N /\ i - 1 \in 0..N /\ N \in 0..N /\ i \in 1..N
  OBVIOUS
<1>2. Rank(P, i) <= Rank(P, N)
  BY <1>1, RankGrows
<1>3. Rank(P, i) = Rank(P, i - 1) + 1
  BY <1>1, RankCounts
<1>4. Rank(P, i - 1) \in Nat /\ Rank(P, N) \in Nat /\ Rank(P, N) = Cardinality(P)
  BY <1>1, RankCounts
<1> QED
  BY <1>2, <1>3, <1>4

\* The list is well formed and has the item of each of P in its place.
ListOf(list, P, item) ==
    /\ WellFormed(list)
    /\ Len(list) = 2 * Cardinality(P) - 1
    /\ DOMAIN Items(list) = 1..Cardinality(P)
    /\ \A i \in P : Items(list)[Rank(P, i)] = item[i]

\* What is printed for the columns cols is such a list.
LEMMA PrintedListIs ==
    ASSUME NEW N \in Nat, NEW values, Len(values) = N, NEW cols \in SUBSET (1..N),
           Given(cols, values) # {}, NEW item,
           \A i \in Given(cols, values) : item[i] \in Nat \ {0}
    PROVE  ListOf(PrintedList(cols, values, item), Given(cols, values), item)
<1> DEFINE P == Given(cols, values)
           list == PrintedList(cols, values, item)
           C == Cardinality(P)
           Piece(i) == IF i \notin cols \/ values[i] = NULL THEN <<>>
                       ELSE IF More(cols, values, i) THEN <<item[i], Comma>>
                       ELSE <<item[i]>>
           ss == [i \in 1..N |-> Piece(i)]
<1>1. P \in SUBSET (1..N) /\ \A i \in P : item[i] \in Nat
  BY DEF Given
<1>2. C \in Nat \ {0}
  <2>1. IsFiniteSet(1..N)
    BY FS_Interval
  <2>2. IsFiniteSet(P)
    BY <1>1, <2>1, FS_Subset
  <2> QED
    BY <2>2, FS_EmptySet, FS_CardinalityType
<1>3. ss \in Seq(Seq(Nat)) /\ Len(ss) = N
  <2>1. ASSUME NEW i \in 1..N PROVE Piece(i) \in Seq(Nat)
    <3>1. CASE i \notin cols \/ values[i] = NULL
      BY <3>1, EmptySeq
    <3>2. CASE ~(i \notin cols \/ values[i] = NULL)
      <4>1. item[i] \in Nat /\ Comma \in Nat
        BY <1>1, <3>2 DEF Given, Comma
      <4>2. <<item[i], Comma>> \in Seq(Nat) /\ <<item[i]>> \in Seq(Nat)
        BY <4>1
      <4> QED
        BY <3>2, <4>2
    <3> QED
      BY <3>1, <3>2
  <2> HIDE DEF Piece
  <2>2. ss \in [1..N -> Seq(Nat)]
    BY <2>1
  <2> QED
    BY <2>2, FunctionIsSeq
<1>4. ItemPieces(ss, N, P, item, Comma, FALSE)
  <2> SUFFICES ASSUME NEW i \in 1..N
               PROVE  ss[i] = IF i \notin P THEN <<>>
                              ELSE IF FALSE \/ \E j \in P : j > i
                                   THEN <<item[i], Comma>>
                              ELSE <<item[i]>>
    BY Zenon DEF ItemPieces
  <2>1. i \in P <=> ~(i \notin cols \/ values[i] = NULL)
    BY DEF Given
  <2>2. More(cols, values, i) <=> \E j \in P : j > i
    BY DEF More, Given
  <2> HIDE DEF P
  <2> QED
    BY <2>1, <2>2
<1>5. list = FlattenSeq(ss)
  BY DEF PrintedList
<1> HIDE DEF P, ss, C, list
<1>6. /\ FlattenSeq(ss) \in Seq(Nat)
      /\ ItemsAndSeparators(FlattenSeq(ss), P, item, Comma, FALSE)
  <2>1. Comma \in Nat /\ FALSE \in BOOLEAN
    BY DEF Comma
  <2> QED
    BY <1>1, <1>3, <1>4, <2>1, Joined
<1>7. /\ Len(list) = 2 * C - 1
      /\ DOMAIN list = 1..(2 * C - 1)
      /\ \A i \in P : list[2 * Rank(P, i) - 1] = item[i]
      /\ \A k \in 1..C : 2 * k <= 2 * C - 1 => list[2 * k] = Comma
  <2>1. Len(list) = 2 * C - 1
    BY <1>2, <1>5, <1>6 DEF C, ItemsAndSeparators
  <2>2. DOMAIN list = 1..Len(list)
    BY <1>5, <1>6, LenProperties
  <2> QED
    BY <1>5, <1>6, <2>1, <2>2 DEF C, ItemsAndSeparators
<1>8. WellFormed(list)
  <2>1. ASSUME NEW k \in 1..(2 * C - 1) PROVE list[k] = Comma <=> k % 2 = 0
    <3>1. CASE k % 2 = 0
      <4>1. PICK m \in 1..C : k = 2 * m
        <5>1. k = 2 * (k \div 2) /\ k \div 2 \in 1..C
          BY <1>2, <3>1
        <5> QED
          BY <5>1
      <4> QED
        BY <1>2, <1>7, <3>1, <4>1
    <3>2. CASE k % 2 # 0
      <4>1. PICK r \in 1..C : k = 2 * r - 1
        <5>1. k = 2 * ((k + 1) \div 2) - 1 /\ (k + 1) \div 2 \in 1..C
          BY <1>2, <3>2
        <5> QED
          BY <5>1
      <4>2. PICK i \in P : Rank(P, i) = r
        BY <1>1, RankHits DEF C
      <4>3. list[k] = item[i] /\ item[i] # 0
        BY <1>7, <4>1, <4>2 DEF P
      <4> QED
        BY <3>2, <4>3 DEF Comma
    <3> QED
      BY <3>1, <3>2
  <2>2. (2 * C - 1) % 2 = 1
    BY <1>2
  <2> QED
    BY <1>7, <2>1, <2>2 DEF WellFormed
<1>9. DOMAIN Items(list) = 1..C /\ \A k \in 1..C : Items(list)[k] = list[2 * k - 1]
  <2>1. (2 * C - 1 + 1) \div 2 = C
    BY <1>2
  <2> QED
    BY <1>7, <2>1 DEF Items
<1>10. \A i \in P : Items(list)[Rank(P, i)] = item[i]
  <2> TAKE i \in P
  <2>1. Rank(P, i) \in 1..C
    BY <1>1, RankIsAPlace DEF C
  <2> QED
    BY <1>7, <1>9, <2>1
<1> QED
  BY <1>7, <1>8, <1>9, <1>10 DEF P, C, ListOf, list

\* Params has the values in their order.
LEMMA ParamsAre ==
    ASSUME NEW N \in Nat, NEW values, Len(values) = N, NEW cols \in SUBSET (1..N)
    PROVE  /\ Params(cols, values) \in Seq({values[j] : j \in cols})
           /\ ValuesInPlace(Params(cols, values), Given(cols, values), values)
<1> DEFINE S == {values[j] : j \in cols}
           P == Given(cols, values)
           Piece(i) == IF i \in cols /\ values[i] # NULL THEN <<values[i]>> ELSE <<>>
           ss == [i \in 1..N |-> Piece(i)]
<1>1. P \in SUBSET (1..N)
  BY DEF Given
<1>2. ss \in Seq(Seq(S)) /\ Len(ss) = N
  <2>1. ASSUME NEW i \in 1..N PROVE Piece(i) \in Seq(S)
    <3>1. CASE i \in cols /\ values[i] # NULL
      <4>1. values[i] \in S
        BY <3>1 DEF Given
      <4>2. <<values[i]>> \in Seq(S)
        BY <4>1
      <4> QED
        BY <3>1, <4>2
    <3>2. CASE ~(i \in cols /\ values[i] # NULL)
      BY <3>2, EmptySeq
    <3> QED
      BY <3>1, <3>2
  <2> HIDE DEF Piece
  <2>2. ss \in [1..N -> Seq(S)]
    BY <2>1
  <2> QED
    BY <2>2, FunctionIsSeq
<1>3. ValuePieces(ss, N, P, values)
  BY DEF Given, ValuePieces
<1>4. Params(cols, values) = FlattenSeq(ss)
  BY DEF Params
<1>5. \A i \in P : values[i] \in S
  BY DEF Given
<1> HIDE DEF P, ss, S
<1>6. FlattenSeq(ss) \in Seq(S) /\ ValuesInPlace(FlattenSeq(ss), P, values)
  BY <1>1, <1>2, <1>3, <1>5, Collected
<1> QED
  BY <1>4, <1>6 DEF P, S

\* A statement has the lists and the parameters of the columns cols.
StatementFor(stmt, cols, values) ==
    /\ stmt.columns = PrintedList(cols, values, [i \in cols |-> i])
    /\ stmt.placeholders =
           PrintedList(cols, values, [i \in cols |-> Placeholder(cols, values, i)])
    /\ \A k \in 1..Cardinality(Given(cols, values)) :
           stmt.params[k] = Params(cols, values)[k]

\* Such a statement assigns to each of cols that has a value its value.
LEMMA StatementAssigns ==
    ASSUME NEW N \in Nat, NEW values, Len(values) = N, NEW cols \in SUBSET (1..N),
           Given(cols, values) # {}, NEW stmt, StatementFor(stmt, cols, values)
    PROVE  /\ Parses(stmt)
           /\ Assigned(stmt) = [i \in Given(cols, values) |-> values[i]]
<1> DEFINE P == Given(cols, values)
           C == Cardinality(P)
           place(i) == Rank(P, i)
           names == Items(stmt.columns)
           places == Items(stmt.placeholders)
<1>1. P \in SUBSET (1..N) /\ P \subseteq cols
  BY DEF Given
<1>2. \A i \in P : place(i) \in 1..C
  BY <1>1, RankIsAPlace
<1>3. \A i \in cols : Placeholder(cols, values, i) = place(i)
  <2> TAKE i \in cols
  <2>1. {j \in cols : j <= i /\ values[j] # NULL} = {j \in P : j <= i}
    BY DEF Given
  <2> QED
    BY <2>1 DEF Placeholder, Rank
<1>4. /\ WellFormed(stmt.columns)
      /\ Len(stmt.columns) = 2 * C - 1
      /\ DOMAIN names = 1..C
      /\ \A i \in P : names[place(i)] = i
  <2> DEFINE item == [i \in cols |-> i]
  <2>1. \A i \in P : item[i] = i /\ i \in Nat \ {0}
    BY <1>1
  <2> HIDE DEF item
  <2>2. \A i \in Given(cols, values) : item[i] \in Nat \ {0}
    BY <2>1
  <2>3. stmt.columns = PrintedList(cols, values, item)
    BY DEF item, StatementFor
  <2>4. ListOf(stmt.columns, P, item)
    BY <2>2, <2>3, PrintedListIs
  <2> QED
    BY <2>1, <2>4 DEF ListOf
<1>5. /\ WellFormed(stmt.placeholders)
      /\ Len(stmt.placeholders) = 2 * C - 1
      /\ DOMAIN places = 1..C
      /\ \A i \in P : places[place(i)] = place(i)
  <2> DEFINE item == [i \in cols |-> Placeholder(cols, values, i)]
  <2>1. \A i \in P : item[i] = place(i) /\ place(i) \in Nat \ {0}
    BY <1>1, <1>2, <1>3
  <2> HIDE DEF item
  <2>2. \A i \in Given(cols, values) : item[i] \in Nat \ {0}
    BY <2>1
  <2>3. stmt.placeholders = PrintedList(cols, values, item)
    BY DEF item, StatementFor
  <2>4. ListOf(stmt.placeholders, P, item)
    BY <2>2, <2>3, PrintedListIs
  <2> QED
    BY <2>1, <2>4 DEF ListOf
<1>6. \A i \in P : stmt.params[place(i)] = values[i]
  <2>1. ValuesInPlace(Params(cols, values), P, values)
    BY ParamsAre
  <2> QED
    BY <1>2, <2>1 DEF ValuesInPlace, StatementFor
<1>7. Parses(stmt)
  BY <1>4, <1>5 DEF Parses
<1> HIDE DEF P, place
<1>8. \A k \in 1..C : \E i \in P : place(i) = k
  BY <1>1, RankHits DEF place
<1>9. Range(names) = P
  <2>1. \A k \in 1..C : names[k] \in P
    BY <1>4, <1>8
  <2> HIDE DEF names
  <2> QED
    BY <1>2, <1>4, <2>1 DEF Range
<1>10. ASSUME NEW i \in P
       PROVE  stmt.params[places[CHOOSE k \in DOMAIN names : names[k] = i]] = values[i]
  <2>1. \A k \in 1..C : names[k] = i <=> k = place(i)
    BY <1>2, <1>4, <1>8
  <2> HIDE DEF names
  <2>2. (CHOOSE k \in DOMAIN names : names[k] = i) = place(i)
    BY <1>2, <1>4, <2>1
  <2> HIDE DEF places
  <2> QED
    BY <1>5, <1>6, <2>2
<1>11. Assigned(stmt) = [i \in P |-> values[i]]
  <2>1. Assigned(stmt) = [i \in Range(names) |->
              stmt.params[places[CHOOSE k \in DOMAIN names : names[k] = i]]]
    BY DEF Assigned
  <2> HIDE DEF names, places
  <2> QED
    BY <1>9, <1>10, <2>1
<1> QED
  BY <1>7, <1>11 DEF P

\* Two sequences of one element each are a pair.
LEMMA PairOf ==
    ASSUME NEW a, NEW b
    PROVE  <<a>> \o <<b>> = <<a, b>>
<1> DEFINE S == {a, b}
<1>1. <<a>> \in Seq(S) /\ <<b>> \in Seq(S) /\ <<a, b>> \in Seq(S)
  OBVIOUS
<1>2. /\ Len(<<a>>) = 1 /\ Len(<<b>>) = 1 /\ Len(<<a, b>>) = 2
      /\ <<a>>[1] = a /\ <<b>>[1] = b /\ <<a, b>>[1] = a /\ <<a, b>>[2] = b
  OBVIOUS
<1> HIDE DEF S
<1>3. /\ <<a>> \o <<b>> \in Seq(S)
      /\ Len(<<a>> \o <<b>>) = 2
      /\ (<<a>> \o <<b>>)[1] = a
      /\ (<<a>> \o <<b>>)[2] = b
  <2>1. /\ <<a>> \o <<b>> \in Seq(S)
        /\ Len(<<a>> \o <<b>>) = Len(<<a>>) + Len(<<b>>)
        /\ \A i \in 1 .. Len(<<a>>) + Len(<<b>>) : (<<a>> \o <<b>>)[i] =
               IF i <= Len(<<a>>) THEN <<a>>[i] ELSE <<b>>[i - Len(<<a>>)]
    BY <1>1, ConcatProperties
  <2>2. (<<a>> \o <<b>>)[1] = IF 1 <= 1 THEN <<a>>[1] ELSE <<b>>[1 - 1]
    BY <1>2, <2>1
  <2>3. (<<a>> \o <<b>>)[2] = IF 2 <= 1 THEN <<a>>[2] ELSE <<b>>[2 - 1]
    BY <1>2, <2>1
  <2> QED
    BY <1>2, <2>1, <2>2, <2>3
<1>4. \A i \in 1..2 : (<<a>> \o <<b>>)[i] = <<a, b>>[i]
  BY <1>2, <1>3
<1> QED
  BY <1>1, <1>2, <1>3, <1>4, SeqEqual

\* What a statement of CREATE TABLE is.
LEMMA CreateStatementIs ==
    ASSUME schema \in Seq(Range(schema)), PrimaryColumns # {}
    PROVE  /\ WellFormed(ElementsOf(CreateStatement))
           /\ UNION {CreateStatement[k].key : k \in DOMAIN CreateStatement} =
                  PrimaryColumns
<1> DEFINE N == Len(schema)
           many == Cardinality(PrimaryColumns) > 1
           S == [column : Int, key : SUBSET Columns]
           item == [i \in 1..N |-> [column |-> i, key |-> IF InlineKey(i) THEN {i} ELSE {}]]
           sep == [column |-> Comma, key |-> {}]
           clause == [column |-> -1, key |-> PrimaryColumns]
           Piece(i) == <<item[i]>> \o IF Separator(i) THEN <<sep>> ELSE <<>>
           ss == [i \in 1..N |-> Piece(i)]
           list == FlattenSeq(ss)
<1>1. N \in Nat /\ Columns = 1..N
  BY LenProperties DEF Columns
<1>2. PrimaryColumns \subseteq 1..N /\ N >= 1
  BY <1>1 DEF PrimaryColumns
<1>3. /\ IsFiniteSet(PrimaryColumns)
      /\ Cardinality(PrimaryColumns) \in Nat \ {0}
      /\ Cardinality(1..N) = N
  <2>1. IsFiniteSet(1..N) /\ Cardinality(1..N) = N
    BY <1>1, FS_Interval
  <2>2. IsFiniteSet(PrimaryColumns)
    BY <1>2, <2>1, FS_Subset
  <2> QED
    BY <2>1, <2>2, FS_EmptySet, FS_CardinalityType
<1>4. sep \in S /\ clause \in S /\ \A i \in 1..N : item[i] \in S
  BY <1>1, <1>2 DEF Comma
<1>5. \A i \in 1..N : Piece(i) = IF many \/ i < N THEN <<item[i], sep>> ELSE <<item[i]>>
  <2> TAKE i \in 1..N
  <2>1. Separator(i) <=> many \/ i < N
    BY DEF Separator
  <2> HIDE DEF item, sep, S, many
  <2>2. <<item[i]>> \o <<sep>> = <<item[i], sep>>
    BY PairOf
  <2>3. <<item[i]>> \o <<>> = <<item[i]>>
    OBVIOUS
  <2> QED
    BY <2>1, <2>2, <2>3
<1>6. ss \in Seq(Seq(S)) /\ Len(ss) = N
  <2>1. ASSUME NEW i \in 1..N PROVE Piece(i) \in Seq(S)
    <3> HIDE DEF item, sep, S, many
    <3>1. <<item[i], sep>> \in Seq(S) /\ <<item[i]>> \in Seq(S)
      BY <1>4
    <3> HIDE DEF Piece
    <3> QED
      BY <1>5, <3>1
  <2> HIDE DEF Piece
  <2>2. ss \in [1..N -> Seq(S)]
    BY <2>1
  <2> HIDE DEF N, S, ss
  <2> QED
    BY <1>1, <2>2, FunctionIsSeq
<1>7. ItemPieces(ss, N, 1..N, item, sep, many)
  <2>1. \A i \in 1..N : i < N <=> \E j \in 1..N : j > i
    BY <1>1
  <2> HIDE DEF item, sep, Piece, many
  <2> QED
    BY <1>5, <2>1 DEF ItemPieces
<1> HIDE DEF item, sep, clause, S, ss, many
<1>8. list \in Seq(S) /\ ItemsAndSeparators(list, 1..N, item, sep, many)
  <2>1. many \in BOOLEAN /\ 1..N \in SUBSET (1..N)
    BY DEF many
  <2> QED
    BY <1>1, <1>4, <1>6, <1>7, <2>1, Joined
<1> HIDE DEF list, N
<1>9. CreateStatement = list \o IF many THEN <<clause>> ELSE <<>>
  BY <1>1 DEF CreateStatement, list, ss, item, sep, clause, many
<1>10. /\ DOMAIN list = 1..Len(list) /\ Len(list) \in Nat
       /\ Len(list) = 2 * N - (IF many THEN 0 ELSE 1)
       /\ \A r \in 1..N : \E i \in 1..N : list[2 * r - 1] = item[i]
       /\ \A i \in 1..N : \E r \in 1..N : list[2 * r - 1] = item[i]
       /\ \A k \in 1..N : 2 * k <= Len(list) => list[2 * k] = sep
  <2>1. /\ Len(list) = 2 * N - (IF many \/ N = 0 THEN 0 ELSE 1)
        /\ \A i \in 1..N : list[2 * Rank(1..N, i) - 1] = item[i]
        /\ \A k \in 1..N : 2 * k <= Len(list) => list[2 * k] = sep
    BY <1>3, <1>8 DEF ItemsAndSeparators
  <2>2. \A r \in 1..N : \E i \in 1..N : Rank(1..N, i) = r
    BY <1>1, <1>3, RankHits
  <2>3. \A i \in 1..N : Rank(1..N, i) \in 1..N
    BY <1>1, <1>3, RankIsAPlace
  <2>4. DOMAIN list = 1..Len(list) /\ Len(list) \in Nat
    BY <1>8, LenProperties
  <2>5. Len(list) = 2 * N - (IF many THEN 0 ELSE 1)
    BY <1>2, <2>1
  <2>6. \A r \in 1..N : \E i \in 1..N : list[2 * r - 1] = item[i]
    BY <2>1, <2>2
  <2>7. \A i \in 1..N : \E r \in 1..N : list[2 * r - 1] = item[i]
    BY <2>1, <2>3
  <2> QED
    BY <2>1, <2>4, <2>5, <2>6, <2>7
<1>11. /\ \A i \in 1..N : item[i].column = i /\ item[i].key = IF InlineKey(i) THEN {i} ELSE {}
       /\ sep.column = 0 /\ sep.key = {}
       /\ clause.column = -1 /\ clause.key = PrimaryColumns
  BY DEF item, sep, clause, Comma
<1> DEFINE cs == CreateStatement
           last == Len(list) + IF many THEN 1 ELSE 0
<1>12. /\ DOMAIN cs = 1..last
       /\ \A k \in 1..Len(list) : cs[k] = list[k]
       /\ many => cs[last] = clause
  <2>1. CASE many
    <3>1. <<clause>> \in Seq(S) /\ Len(<<clause>>) = 1 /\ <<clause>>[1] = clause
      BY <1>4
    <3>2. /\ cs \in Seq(S)
          /\ Len(cs) = Len(list) + 1
          /\ \A k \in 1..(Len(list) + 1) :
                 cs[k] = IF k <= Len(list) THEN list[k] ELSE <<clause>>[k - Len(list)]
      BY <1>8, <1>9, <2>1, <3>1, ConcatProperties
    <3>3. DOMAIN cs = 1..(Len(list) + 1)
      BY <3>2, LenProperties
    <3>4. last = Len(list) + 1 /\ Len(list) \in Nat
      BY <1>10, <2>1
    <3> HIDE DEF cs, last
    <3>5. \A k \in 1..Len(list) : k \in 1..(Len(list) + 1) /\ k <= Len(list)
      BY <3>4
    <3>6. last \in 1..(Len(list) + 1) /\ ~(last <= Len(list)) /\ last - Len(list) = 1
      BY <3>4
    <3> QED
      BY <3>1, <3>2, <3>3, <3>4, <3>5, <3>6
  <2>2. CASE ~many
    <3>1. cs = list
      BY <1>8, <1>9, <2>2, ConcatEmptySeq
    <3> QED
      BY <1>10, <2>2, <3>1
  <2> HIDE DEF cs, last
  <2> QED
    BY <2>1, <2>2
<1>13. last = IF many THEN 2 * N + 1 ELSE 2 * N - 1
  BY <1>1, <1>10
<1> HIDE DEF cs, last
<1>14. \A k \in 1..last : \/ k % 2 = 0 /\ cs[k] = sep
                          \/ k % 2 = 1 /\ \E i \in 1..N : cs[k] = item[i]
                          \/ k % 2 = 1 /\ many /\ cs[k] = clause
  <2> TAKE k \in 1..last
  <2>1. CASE k % 2 = 0
    <3>1. PICK m \in 1..N : k = 2 * m /\ 2 * m <= Len(list)
      <4>1. k = 2 * (k \div 2) /\ k \div 2 \in 1..N /\ k <= Len(list)
        BY <1>1, <1>10, <1>13, <2>1
      <4> QED
        BY <4>1
    <3>2. k \in 1..Len(list)
      BY <1>10, <3>1
    <3> QED
      BY <1>10, <1>12, <2>1, <3>1, <3>2
  <2>2. CASE k % 2 # 0 /\ k <= Len(list)
    <3>1. PICK r \in 1..N : k = 2 * r - 1
      <4>1. k = 2 * ((k + 1) \div 2) - 1 /\ (k + 1) \div 2 \in 1..N
        BY <1>1, <1>10, <2>2
      <4> QED
        BY <4>1
    <3>2. k \in 1..Len(list) /\ k % 2 = 1
      BY <1>10, <2>2
    <3>3. cs[k] = list[2 * r - 1]
      BY <1>12, <3>1, <3>2
    <3> QED
      BY <1>10, <3>2, <3>3
  <2>3. CASE k % 2 # 0 /\ ~(k <= Len(list))
    <3>1. many /\ k = last /\ k % 2 = 1
      BY <1>1, <1>10, <1>13, <2>3
    <3> QED
      BY <1>12, <3>1
  <2> QED
    BY <2>1, <2>2, <2>3
<1>15. WellFormed(ElementsOf(cs))
  <2> DEFINE el == ElementsOf(cs)
  <2>1. el = [k \in 1..last |-> cs[k].column]
    BY <1>12 DEF ElementsOf
  <2>2. last \in Nat /\ last % 2 = 1
    BY <1>1, <1>2, <1>13
  <2>3. Len(el) = last /\ DOMAIN el = 1..last
    <3>1. el \in [1..last -> {cs[k].column : k \in 1..last}]
      BY <2>1
    <3> QED
      BY <2>1, <2>2, <3>1, FunctionIsSeq
  <2>4. \A k \in 1..last : el[k] = cs[k].column
    BY <2>1
  <2>5. \A k \in 1..last : el[k] = Comma <=> k % 2 = 0
    <3> TAKE k \in 1..last
    <3>1. CASE k % 2 = 0 /\ cs[k] = sep
      BY <1>11, <2>4, <3>1 DEF Comma
    <3>2. CASE k % 2 = 1 /\ \E i \in 1..N : cs[k] = item[i]
      <4>1. PICK i \in 1..N : cs[k] = item[i]
        BY <3>2
      <4>2. el[k] = i /\ i # 0
        <5>1. item[i].column = i
          BY <1>11, Zenon
        <5>3. i # 0
          BY <1>1
        <5>2. el[k] = cs[k].column
          BY <2>4
        <5> QED
          BY <4>1, <5>1, <5>2, <5>3, Zenon
      <4> HIDE DEF el
      <4> QED
        BY <3>2, <4>2 DEF Comma
    <3>3. CASE k % 2 = 1 /\ many /\ cs[k] = clause
      BY <1>11, <2>4, <3>3 DEF Comma
    <3>4. \/ k % 2 = 0 /\ cs[k] = sep
          \/ k % 2 = 1 /\ \E i \in 1..N : cs[k] = item[i]
          \/ k % 2 = 1 /\ many /\ cs[k] = clause
      BY <1>14
    <3> HIDE DEF el
    <3> QED
      BY <3>1, <3>2, <3>3, <3>4
  <2> HIDE DEF el
  <2>6. Len(el) % 2 = 1 /\ \A k \in DOMAIN el : el[k] = Comma <=> k % 2 = 0
    BY <2>2, <2>3, <2>5
  <2> QED
    BY <2>6 DEF WellFormed, el
<1>16. UNION {cs[k].key : k \in DOMAIN cs} = PrimaryColumns
  <2>1. ASSUME NEW k \in 1..last PROVE cs[k].key \subseteq PrimaryColumns
    <3>1. ASSUME NEW i \in 1..N PROVE item[i].key \subseteq PrimaryColumns
      <4>1. InlineKey(i) => i \in PrimaryColumns
        BY <1>1 DEF InlineKey, PrimaryColumns
      <4>2. item[i].key = IF InlineKey(i) THEN {i} ELSE {}
        BY <1>11
      <4> QED
        BY <4>1, <4>2
    <3> QED
      BY <1>11, <1>14, <3>1
  <2>2. ASSUME NEW c \in PrimaryColumns PROVE \E k \in 1..last : c \in cs[k].key
    <3>1. CASE many
      <4>1. last \in 1..last
        BY <1>1, <1>13, <3>1
      <4> QED
        BY <1>11, <1>12, <3>1, <4>1
    <3>2. CASE ~many
      <4>1. c \in 1..N /\ InlineKey(c)
        <5>1. Cardinality(PrimaryColumns) = 1
          BY <1>3, <3>2 DEF many
        <5> QED
          BY <1>2, <5>1 DEF InlineKey, PrimaryColumns
      <4>2. PICK r \in 1..N : list[2 * r - 1] = item[c]
        BY <1>10, <4>1
      <4>3. 2 * r - 1 \in 1..Len(list) /\ 2 * r - 1 \in 1..last
        BY <1>1, <1>10, <1>13
      <4>4. cs[2 * r - 1].key = {c}
        <5>1. cs[2 * r - 1] = item[c]
          BY <1>12, <4>2, <4>3
        <5>2. item[c].key = {c}
          BY <1>11, <4>1
        <5> QED
          BY <5>1, <5>2
      <4> QED
        BY <4>3, <4>4
    <3> QED
      BY <3>1, <3>2
  <2> QED
    BY <1>12, <2>1, <2>2
<1> QED
  BY <1>15, <1>16 DEF cs

\* The schema is a sequence with a first primary column.
LEMMA SchemaIs ==
    ASSUME schema \in Schemas
    PROVE  /\ schema \in Seq(Range(schema))
           /\ Len(schema) \in Nat
           /\ Columns = 1..Len(schema)
           /\ PrimaryColumns # {}
           /\ FirstPrimary \in Columns
<1>1. schema \in Seq(Range(schema))
  BY SchemasAssumption
<1>2. Len(schema) \in Nat /\ Columns = 1..Len(schema)
  BY <1>1, LenProperties DEF Columns
<1>3. PrimaryColumns # {}
  BY KeyAssumption DEF PrimaryColumns, Columns
<1>4. PrimaryColumns \subseteq Columns /\ PrimaryColumns \subseteq Nat
  BY <1>2 DEF PrimaryColumns
<1>5. PICK i \in PrimaryColumns : \A j \in PrimaryColumns : ~(<<j, i>> \in OpToRel(<, Nat))
  BY <1>3, <1>4, WFMin, NatLessThanWellFounded
<1>6. \A j \in PrimaryColumns : i <= j
  <2> TAKE j \in PrimaryColumns
  <2>1. i \in Nat /\ j \in Nat
    BY <1>4
  <2>2. j < i => <<j, i>> \in OpToRel(<, Nat)
    BY <2>1 DEF OpToRel
  <2>3. ~(j < i)
    BY <1>5, <2>2
  <2> QED
    BY <2>1, <2>3
<1>7. FirstPrimary \in PrimaryColumns
  BY <1>6 DEF FirstPrimary
<1> QED
  BY <1>1, <1>2, <1>3, <1>4, <1>7

\* An INSERT assigns the values that are there.
LEMMA InsertIs ==
    ASSUME schema \in Schemas, NEW values \in Arguments(Len(schema)),
           \E i \in Columns : values[i] # NULL
    PROVE  /\ Parses(InsertStatement(values))
           /\ Assigned(InsertStatement(values)) =
                  [i \in Given(Columns, values) |-> values[i]]
<1> DEFINE N == Len(schema)
           stmt == InsertStatement(values)
<1>1. N \in Nat /\ Columns = 1..N /\ Columns \in SUBSET (1..N)
  BY SchemaIs
<1>2. Len(values) = N
  BY <1>1, FunctionIsSeq DEF Arguments
<1>3. Given(Columns, values) # {}
  BY DEF Given
<1>4. StatementFor(stmt, Columns, values)
  BY DEF InsertStatement, StatementFor
<1> HIDE DEF N, stmt
<1> QED
  BY <1>1, <1>2, <1>3, <1>4, StatementAssigns DEF stmt

\* The arguments of an UPDATE, with the key put in its place, are the values of
\* the columns; the key column itself has none.
LEMMA AroundIs ==
    ASSUME schema \in Schemas, NEW args \in Arguments(Len(schema) - 1), NEW pk
    PROVE  /\ Len(ValuesAround(args)) = Len(schema)
           /\ ValuesAround(args)[FirstPrimary] = NULL
           /\ InsertAt(args, FirstPrimary, pk)[FirstPrimary] = pk
           /\ \A i \in Columns \ {FirstPrimary} :
                  ValuesAround(args)[i] = InsertAt(args, FirstPrimary, pk)[i]
           /\ (\E k \in DOMAIN args : args[k] # NULL) =>
                  \E i \in Columns : ValuesAround(args)[i] # NULL
<1> DEFINE N == Len(schema)
           c == FirstPrimary
           values == ValuesAround(args)
           V == Strings \cup {NULL, pk}
           left == SubSeq(args, 1, c - 1)
           right == SubSeq(args, c, Len(args))
<1>1. N \in Nat /\ Columns = 1..N /\ c \in 1..N
  BY SchemaIs
<1>2. args \in [1..(N - 1) -> Strings \cup {NULL}] /\ N - 1 \in Nat
  BY <1>1 DEF Arguments
<1>3. args \in Seq(V) /\ Len(args) = N - 1 /\ \A i \in 1..(N - 1) : args[i] \in V
  <2>1. args \in [1..(N - 1) -> V]
    BY <1>2
  <2> HIDE DEF V, N
  <2> QED
    BY <1>2, <2>1, FunctionIsSeq
<1>4. \A i \in Columns : values[i] = IF i < c THEN args[i]
                                     ELSE IF i = c THEN NULL ELSE args[i - 1]
  BY DEF ValuesAround
<1>5. Len(values) = N
  <2>1. values \in [1..N -> {values[i] : i \in 1..N}]
    BY <1>1 DEF ValuesAround
  <2> HIDE DEF values, N
  <2> QED
    BY <1>1, <2>1, FunctionIsSeq
<1> HIDE DEF N, c, values, V
<1>6. /\ left \in Seq(V) /\ Len(left) = c - 1
      /\ \A i \in 1..(c - 1) : left[i] = args[i]
  <2>1. \A i \in 1..(c - 1) : args[i] \in V
    BY <1>1, <1>3
  <2> QED
    BY <1>1, <2>1, SubSeqProperties
<1>7. /\ right \in Seq(V) /\ Len(right) = N - c
      /\ \A i \in 1..(N - c) : right[i] = args[c + i - 1]
  <2>1. \A i \in c..(N - 1) : args[i] \in V
    BY <1>1, <1>3
  <2>2. right = SubSeq(args, c, N - 1)
    BY <1>3
  <2> QED
    BY <1>1, <2>1, <2>2, SubSeqProperties
<1>8. /\ InsertAt(args, c, pk)[c] = pk
      /\ \A i \in 1..(c - 1) : InsertAt(args, c, pk)[i] = args[i]
      /\ \A i \in (c + 1)..N : InsertAt(args, c, pk)[i] = args[i - 1]
  <2>1. InsertAt(args, c, pk) = (left \o <<pk>>) \o right
    BY DEF InsertAt
  <2> HIDE DEF left, right
  <2>2. <<pk>> \in Seq(V) /\ Len(<<pk>>) = 1 /\ <<pk>>[1] = pk
    BY DEF V
  <2>3. /\ left \o <<pk>> \in Seq(V) /\ Len(left \o <<pk>>) = c
        /\ (left \o <<pk>>)[c] = pk
        /\ \A i \in 1..(c - 1) : (left \o <<pk>>)[i] = args[i]
    BY <1>1, <1>6, <2>2, ConcatProperties
  <2>4. \A i \in 1..N : ((left \o <<pk>>) \o right)[i] =
            IF i <= c THEN (left \o <<pk>>)[i] ELSE right[i - c]
    BY <1>1, <1>7, <2>3, ConcatProperties
  <2>5. \A i \in (c + 1)..N : i - c \in 1..(N - c) /\ c + (i - c) - 1 = i - 1
    BY <1>1
  <2>6. c \in 1..N /\ c <= c /\ \A i \in 1..(c - 1) : i \in 1..N /\ i <= c
    BY <1>1
  <2>7. \A i \in (c + 1)..N : i \in 1..N /\ ~(i <= c)
    BY <1>1
  <2>8. \A i \in (c + 1)..N : right[i - c] = args[i - 1]
    BY <1>7, <2>5
  <2> QED
    BY <2>1, <2>3, <2>4, <2>6, <2>7, <2>8, Zenon
<1>9. \A i \in Columns \ {c} : values[i] = InsertAt(args, c, pk)[i]
  <2> TAKE i \in Columns \ {c}
  <2>1. CASE i < c
    <3>1. i \in 1..(c - 1)
      BY <1>1, <2>1
    <3> QED
      BY <1>4, <1>8, <2>1, <3>1
  <2>2. CASE ~(i < c)
    <3>1. i \in (c + 1)..N /\ i # c
      BY <1>1, <2>2
    <3> QED
      BY <1>4, <1>8, <2>2, <3>1
  <2> QED
    BY <2>1, <2>2
<1>10. ASSUME NEW k \in DOMAIN args, args[k] # NULL
       PROVE  \E i \in Columns : values[i] # NULL
  <2>1. k \in 1..(N - 1)
    BY <1>2
  <2>2. CASE k < c
    <3>1. k \in Columns /\ values[k] = args[k]
      BY <1>1, <1>4, <2>1, <2>2
    <3> QED
      BY <1>10, <3>1
  <2>3. CASE ~(k < c)
    <3>1. k + 1 \in Columns /\ ~(k + 1 < c) /\ k + 1 # c /\ (k + 1) - 1 = k
      BY <1>1, <2>1, <2>3
    <3>2. values[k + 1] = args[k]
      BY <1>4, <3>1
    <3> QED
      BY <1>10, <3>1, <3>2
  <2> QED
    BY <2>2, <2>3
<1>11. values[c] = NULL
  BY <1>1, <1>4
<1> QED
  BY <1>5, <1>8, <1>9, <1>10, <1>11 DEF values, c, N

\* An UPDATE assigns the values that are there, where the key is its last
\* parameter.
LEMMA UpdateIs ==
    ASSUME schema \in Schemas, NEW args \in Arguments(Len(schema) - 1), NEW pk,
           \E i \in Columns : ValuesAround(args)[i] # NULL
    PROVE  LET values == ValuesAround(args)
               stmt == UpdateStatement(pk, values)
           IN  /\ Parses(stmt)
               /\ Assigned(stmt) = [i \in Given(Columns, values) |-> values[i]]
               /\ stmt.where = FirstPrimary
               /\ stmt.params[stmt.whereParam] = pk
<1> DEFINE N == Len(schema)
           values == ValuesAround(args)
           cols == Columns \ {FirstPrimary}
           params == Params(cols, values)
           stmt == UpdateStatement(pk, values)
<1>1. N \in Nat /\ Columns = 1..N /\ cols \in SUBSET (1..N)
  BY SchemaIs
<1>2. Len(values) = N /\ values[FirstPrimary] = NULL
  BY AroundIs
<1>3. Given(cols, values) # {} /\ Given(cols, values) = Given(Columns, values)
  BY <1>2 DEF Given
<1>4. /\ stmt.columns = PrintedList(cols, values, [i \in cols |-> i])
      /\ stmt.placeholders = PrintedList(cols, values,
             [i \in cols |-> Placeholder(cols, values, i)])
      /\ stmt.params = Append(params, pk)
      /\ stmt.where = FirstPrimary
      /\ stmt.whereParam = Len(params) + 1
  BY DEF UpdateStatement
<1> HIDE DEF N, stmt, values, cols
<1>5. /\ Len(params) = Cardinality(Given(cols, values))
      /\ \A k \in 1..Len(params) : stmt.params[k] = params[k]
      /\ stmt.params[Len(params) + 1] = pk
  <2> DEFINE S == {values[j] : j \in cols}
  <2>1. params \in Seq(S) /\ ValuesInPlace(params, Given(cols, values), values)
    BY <1>1, <1>2, ParamsAre
  <2> HIDE DEF S, params
  <2>2. params \in Seq(S \cup {pk}) /\ pk \in S \cup {pk}
    BY <2>1, SeqMonotonic
  <2> QED
    BY <1>4, <2>1, <2>2, AppendProperties DEF ValuesInPlace
<1>6. StatementFor(stmt, cols, values)
  BY <1>4, <1>5 DEF StatementFor
<1>7. Parses(stmt) /\ Assigned(stmt) = [i \in Given(cols, values) |-> values[i]]
  BY <1>1, <1>2, <1>3, <1>6, StatementAssigns
<1> QED
  BY <1>3, <1>4, <1>5, <1>7 DEF stmt, values
-----------------------------------------------------------------------------
(* Every state of DbGen.                                                   *)

\* A call is one of the four with its arguments.
CallIsTyped ==
    \/ call = Idle
    \/ call = [op |-> "create"]
    \/ \E values \in Arguments(Len(schema)) : call = [op |-> "insert", values |-> values]
    \/ \E pk \in KeyValues, args \in Arguments(Len(schema) - 1) :
          call = [op |-> "update", pk |-> pk, args |-> args]
    \/ \E pk \in KeyValues : call = [op |-> "delete", pk |-> pk]

\* A row is a function on the columns.
IsRow(row) == row = [i \in Columns |-> row[i]]

\* The calls and the rows fit the schema, and the key is the one of the table.
DbInv ==
    /\ schema \in Schemas
    /\ CallIsTyped
    /\ created => key = PrimaryColumns
    /\ \A row \in rows : IsRow(row)

\* The calls have what their names say.
LEMMA CallHas ==
    ASSUME CallIsTyped
    PROVE  /\ call.op = "insert" =>
                  /\ call = [op |-> "insert", values |-> call.values]
                  /\ call.values \in Arguments(Len(schema))
           /\ call.op = "update" =>
                  /\ call = [op |-> "update", pk |-> call.pk, args |-> call.args]
                  /\ call.args \in Arguments(Len(schema) - 1)
<1>1. CASE call = Idle
  BY <1>1 DEF Idle
<1>2. CASE call = [op |-> "create"]
  BY <1>2
<1>3. ASSUME NEW values \in Arguments(Len(schema)), call = [op |-> "insert", values |-> values]
      PROVE  call.op = "insert" /\ call.values = values
  BY <1>3
<1>4. ASSUME NEW pk \in KeyValues, NEW args \in Arguments(Len(schema) - 1),
             call = [op |-> "update", pk |-> pk, args |-> args]
      PROVE  call.op = "update" /\ call.pk = pk /\ call.args = args
  BY <1>4
<1>5. ASSUME NEW pk \in KeyValues, call = [op |-> "delete", pk |-> pk]
      PROVE  call.op = "delete"
  BY <1>5
<1> QED
  BY <1>1, <1>2, <1>3, <1>4, <1>5 DEF CallIsTyped

\* What CREATE TABLE, INSERT and UPDATE are in such a state.
LEMMA StatesParse ==
    ASSUME DbInv
    PROVE  StatementsParse
<1>1. WellFormed(ElementsOf(CreateStatement))
  BY SchemaIs, CreateStatementIs DEF DbInv
<1>2. ASSUME call.op = "insert", \E i \in Columns : call.values[i] # NULL
      PROVE  Parses(InsertStatement(call.values))
  <2>1. call.values \in Arguments(Len(schema))
    BY <1>2, CallHas DEF DbInv
  <2> QED
    BY <1>2, <2>1, InsertIs DEF DbInv
<1>3. ASSUME call.op = "update", \E k \in DOMAIN call.args : call.args[k] # NULL
      PROVE  Parses(UpdateStatement(call.pk, ValuesAround(call.args)))
  <2>1. call.args \in Arguments(Len(schema) - 1)
    BY <1>3, CallHas DEF DbInv
  <2>2. \E i \in Columns : ValuesAround(call.args)[i] # NULL
    BY <1>3, <2>1, AroundIs DEF DbInv
  <2> QED
    BY <2>1, <2>2, UpdateIs DEF DbInv
<1> QED
  BY <1>1, <1>2, <1>3 DEF StatementsParse, DbInv

\* What an INSERT does to the rows.
LEMMA InsertStep ==
    ASSUME DbInv, db_gen_insert
    PROVE  /\ call.op = "insert"
           /\ \/ UNCHANGED rows
              \/ rows' = rows \cup {[i \in Columns |->
                            IF call.values[i] # NULL THEN call.values[i] ELSE Default(i)]}
<1> DEFINE values == call.values
           stmt == InsertStatement(values)
<1>1. call.op = "insert" /\ values \in Arguments(Len(schema))
  BY CallHas DEF DbInv, db_gen_insert
<1>2. CASE \A i \in Columns : values[i] = NULL
  BY <1>1, <1>2 DEF db_gen_insert
<1>3. CASE ~\A i \in Columns : values[i] = NULL
  <2>1. Assigned(stmt) = [i \in Given(Columns, values) |-> values[i]]
    BY <1>1, <1>3, InsertIs DEF DbInv
  <2>2. NewRow(stmt) = [i \in Columns |-> IF values[i] # NULL THEN values[i] ELSE Default(i)]
    BY <2>1 DEF NewRow, Given
  <2>3. UNCHANGED rows \/ rows' = rows \cup {NewRow(stmt)}
    BY <1>3 DEF db_gen_insert, Execute
  <2> QED
    BY <1>1, <2>2, <2>3
<1> QED
  BY <1>2, <1>3

\* The row that an UPDATE with the key pk and the arguments args makes of one.
Changed(row, pk, args) ==
    IF row[FirstPrimary] # pk THEN row
    ELSE [i \in Columns |-> IF InsertAt(args, FirstPrimary, pk)[i] = NULL THEN row[i]
                            ELSE InsertAt(args, FirstPrimary, pk)[i]]

\* What an UPDATE does to the rows.
LEMMA UpdateStep ==
    ASSUME DbInv, db_gen_update_by_pk
    PROVE  /\ call.op = "update"
           /\ \/ rc' = ERROR /\ UNCHANGED rows
              \/ rows' = {Changed(row, call.pk, call.args) : row \in rows}
<1> DEFINE pk == call.pk
           args == call.args
           values == ValuesAround(args)
           given == InsertAt(args, FirstPrimary, pk)
           stmt == UpdateStatement(pk, values)
           hit == {row \in rows : row[stmt.where] = stmt.params[stmt.whereParam]}
           table == (rows \ hit) \cup {Updated(row, stmt) : row \in hit}
<1>1. call.op = "update" /\ args \in Arguments(Len(schema) - 1)
  BY CallHas DEF DbInv, db_gen_update_by_pk
<1>2. /\ values[FirstPrimary] = NULL
      /\ given[FirstPrimary] = pk
      /\ \A i \in Columns \ {FirstPrimary} : values[i] = given[i]
  BY <1>1, AroundIs DEF DbInv
<1>3. CASE \A i \in Columns : values[i] = NULL
  <2>1. UNCHANGED rows
    BY <1>3 DEF db_gen_update_by_pk
  <2>2. ASSUME NEW row \in rows PROVE Changed(row, pk, args) = row
    <3>1. CASE row[FirstPrimary] # pk
      BY <3>1 DEF Changed
    <3>2. CASE row[FirstPrimary] = pk
      <4>1. \A i \in Columns : (IF given[i] = NULL THEN row[i] ELSE given[i]) = row[i]
        BY <1>2, <1>3, <3>2
      <4>2. Changed(row, pk, args) = [i \in Columns |-> row[i]]
        BY <3>2, <4>1 DEF Changed
      <4> QED
        BY <4>2 DEF DbInv, IsRow
    <3> QED
      BY <3>1, <3>2
  <2> QED
    BY <1>1, <2>1, <2>2
<1>4. CASE ~\A i \in Columns : values[i] = NULL
  <2>1. /\ Assigned(stmt) = [i \in Given(Columns, values) |-> values[i]]
        /\ stmt.where = FirstPrimary
        /\ stmt.params[stmt.whereParam] = pk
    BY <1>1, <1>4, UpdateIs DEF DbInv
  <2>2. \A row \in rows : row \in hit <=> row[FirstPrimary] = pk
    BY <2>1
  <2>3. ASSUME NEW row \in hit PROVE Updated(row, stmt) = Changed(row, pk, args)
    <3>1. row[FirstPrimary] = pk
      BY <2>2
    <3> HIDE DEF values, stmt
    <3>2. Updated(row, stmt) =
              [i \in Columns |-> IF values[i] # NULL THEN values[i] ELSE row[i]]
      BY <2>1 DEF Updated, Given
    <3> HIDE DEF given
    <3>3. \A i \in Columns : (IF values[i] # NULL THEN values[i] ELSE row[i]) =
                             (IF given[i] = NULL THEN row[i] ELSE given[i])
      BY <1>2, <3>1
    <3>4. Changed(row, pk, args) =
              [i \in Columns |-> IF given[i] = NULL THEN row[i] ELSE given[i]]
      BY <3>1 DEF Changed, given
    <3> QED
      BY <3>2, <3>3, <3>4
  <2>4. \A row \in rows \ hit : Changed(row, pk, args) = row
    BY <2>2 DEF Changed
  <2> HIDE DEF hit
  <2>5. table = {Changed(row, pk, args) : row \in rows}
    <3>1. hit \subseteq rows
      BY DEF hit
    <3> QED
      BY <2>3, <2>4, <3>1
  <2>6. (rc' = ERROR /\ UNCHANGED rows) \/ rows' = table
    BY <1>4 DEF db_gen_update_by_pk, Execute, Return, hit
  <2> QED
    BY <1>1, <2>5, <2>6
<1> QED
  BY <1>3, <1>4

\* The initial states and the steps.
LEMMA DbInvInit == Init => DbInv
BY DEF Init, DbInv, CallIsTyped

\* And every step keeps it.
LEMMA DbInvNext == DbInv /\ [Next]_vars => DbInv'
<1> SUFFICES ASSUME DbInv, [Next]_vars PROVE DbInv'
  OBVIOUS
<1>1. CASE Call
  <2>1. UNCHANGED <<schema, created, key, rows>>
    BY <1>1 DEF Call
  <2>2. CallIsTyped'
    BY <1>1, <2>1 DEF Call, CallIsTyped
  <2> QED
    BY <2>1, <2>2 DEF DbInv, IsRow, Columns, PrimaryColumns
<1>2. CASE Fail
  BY <1>2 DEF Fail, Return, DbInv, CallIsTyped, IsRow, Columns, PrimaryColumns
<1>3. CASE db_gen_create_table
  <2>1. UNCHANGED <<schema, rows>> /\ call' = Idle
    BY <1>3 DEF db_gen_create_table, Reply, Return
  <2>2. key' = PrimaryColumns
    BY <1>3, SchemaIs, CreateStatementIs DEF db_gen_create_table, DbInv
  <2> QED
    BY <2>1, <2>2 DEF DbInv, CallIsTyped, IsRow, Columns, PrimaryColumns
<1>4. CASE db_gen_insert
  <2>1. UNCHANGED <<schema, created, key>> /\ call' = Idle
    BY <1>4 DEF db_gen_insert, Return, Reply, Execute
  <2>2. \A row \in rows' : row = [i \in Columns |-> row[i]]
    BY <1>4, InsertStep DEF DbInv, IsRow
  <2> QED
    BY <2>1, <2>2 DEF DbInv, CallIsTyped, IsRow, Columns, PrimaryColumns
<1>5. CASE db_gen_update_by_pk
  <2>1. UNCHANGED <<schema, created, key>> /\ call' = Idle
    BY <1>5 DEF db_gen_update_by_pk, Return, Reply, Execute
  <2>2. \A row \in rows' : row = [i \in Columns |-> row[i]]
    <3>1. \A row \in rows : row = [i \in Columns |-> row[i]]
      BY DEF DbInv, IsRow
    <3>2. \A row \in rows : Changed(row, call.pk, call.args) =
              [i \in Columns |-> Changed(row, call.pk, call.args)[i]]
      BY <3>1 DEF Changed
    <3>3. CASE UNCHANGED rows
      BY <3>1, <3>3
    <3>4. CASE rows' = {Changed(row, call.pk, call.args) : row \in rows}
      BY <3>2, <3>4
    <3> QED
      BY <1>5, <3>3, <3>4, UpdateStep
  <2> QED
    BY <2>1, <2>2 DEF DbInv, CallIsTyped, IsRow, Columns, PrimaryColumns
<1>6. CASE db_gen_delete_by_pk
  <2>1. UNCHANGED <<schema, created, key>> /\ call' = Idle /\ rows' \subseteq rows
    BY <1>6 DEF db_gen_delete_by_pk, Return, Reply
  <2> QED
    BY <2>1 DEF DbInv, CallIsTyped, IsRow, Columns, PrimaryColumns
<1>7. CASE UNCHANGED vars
  BY <1>7 DEF vars, DbInv, CallIsTyped, IsRow, Columns, PrimaryColumns
<1> QED
  BY <1>1, <1>2, <1>3, <1>4, <1>5, <1>6, <1>7 DEF Next

\* Every state has a schema of the program, a typed call, the declared key and
\* rows with a value for each column.
THEOREM DbInvariant == Spec => []DbInv
BY DbInvInit, DbInvNext, PTL DEF Spec

\* Whatever schema and whatever left-out values, CREATE TABLE, INSERT and UPDATE
\* are statements that parse, and the key is the primary columns.
THEOREM StatementsParseTheorem == Spec => []StatementsParse
BY DbInvariant, StatesParse, PTL

\* An INSERT that changes the table adds one row, with the values passed in
\* their columns and the defaults in the others.
THEOREM InsertStoresItsValuesTheorem == Spec => InsertStoresItsValues
<1>1. DbInv /\ [Next]_vars =>
        [call.op = "insert" /\ rows' # rows =>
            rows' = rows \cup {[i \in Columns |-> IF call.values[i] # NULL THEN call.values[i]
                                                 ELSE Default(i)]}]_vars
  <2> SUFFICES ASSUME DbInv, Next, call.op = "insert", rows' # rows
               PROVE  rows' = rows \cup {[i \in Columns |->
                                  IF call.values[i] # NULL THEN call.values[i]
                                  ELSE Default(i)]}
    BY DEF vars
  <2>1. CASE db_gen_insert
    BY <2>1, InsertStep
  <2>2. ~Call /\ ~Fail /\ ~db_gen_create_table
    BY DEF Call, Fail, db_gen_create_table
  <2>3. ~db_gen_update_by_pk /\ ~db_gen_delete_by_pk
    BY DEF db_gen_update_by_pk, db_gen_delete_by_pk
  <2> QED
    BY <2>1, <2>2, <2>3 DEF Next
<1> QED
  BY <1>1, DbInvariant, PTL DEF Spec, InsertStoresItsValues

\* An UPDATE that succeeds, or whose reply is lost, changes the rows with its key,
\* in the columns that it has a value for, and nothing else.
THEOREM UpdateChangesItsColumnsTheorem == Spec => UpdateChangesItsColumns
<1> DEFINE given == InsertAt(call.args, FirstPrimary, call.pk)
           New(row) == IF row[FirstPrimary] # call.pk THEN row
                       ELSE [i \in Columns |-> IF given[i] = NULL THEN row[i]
                                               ELSE given[i]]
<1>1. DbInv /\ [Next]_vars =>
        [call.op = "update" /\ (rc' = SUCCESS \/ rows' # rows) =>
            rows' = {New(row) : row \in rows}]_vars
  <2> SUFFICES ASSUME DbInv, Next, call.op = "update", rc' = SUCCESS \/ rows' # rows
               PROVE  rows' = {New(row) : row \in rows}
    BY DEF vars
  <2>1. CASE db_gen_update_by_pk
    <3>1. \A row : New(row) = Changed(row, call.pk, call.args)
      BY DEF Changed
    <3>2. rows' = {Changed(row, call.pk, call.args) : row \in rows}
      BY <2>1, UpdateStep DEF SUCCESS, ERROR
    <3> HIDE DEF New
    <3> QED
      BY <3>1, <3>2
  <2>2. ~Call /\ ~Fail /\ ~db_gen_create_table
    BY DEF Call, Fail, db_gen_create_table, Idle, Return, SUCCESS, ERROR
  <2>3. ~db_gen_insert /\ ~db_gen_delete_by_pk
    BY DEF db_gen_insert, db_gen_delete_by_pk
  <2> QED
    BY <2>1, <2>2, <2>3 DEF Next
<1> QED
  BY <1>1, DbInvariant, PTL DEF Spec, UpdateChangesItsColumns
-----------------------------------------------------------------------------
(* Text.                                                                   *)

\* A set of numbers that is not empty has a least one.
LEMMA LeastOf ==
    ASSUME NEW T, T \subseteq Nat, T # {}
    PROVE  \E i \in T : \A j \in T : i <= j
<1>1. PICK i \in T : \A j \in T : ~(<<j, i>> \in OpToRel(<, Nat))
  BY WFMin, NatLessThanWellFounded
<1>2. ASSUME NEW j \in T PROVE i <= j
  <2>1. i \in Nat /\ j \in Nat
    OBVIOUS
  <2>2. j < i => <<j, i>> \in OpToRel(<, Nat)
    BY <2>1 DEF OpToRel
  <2>3. ~(j < i)
    BY <1>1, <2>2
  <2> QED
    BY <2>1, <2>3
<1> QED
  BY <1>2

\* And with a bound it has a greatest one.
LEMMA GreatestOf ==
    ASSUME NEW N \in Nat, NEW T, T \subseteq 0..N, T # {}
    PROVE  \E i \in T : \A j \in T : j <= i
<1> DEFINE U == {u \in 0..N : N - u \in T}
<1>1. U \subseteq Nat
  OBVIOUS
<1>2. ASSUME NEW t \in T PROVE N - t \in U
  <2>1. t \in 0..N
    OBVIOUS
  <2>2. N - t \in 0..N /\ N - (N - t) = t
    BY <2>1
  <2> QED
    BY <2>2
<1>3. U # {}
  BY <1>2
<1>4. PICK u \in U : \A j \in U : u <= j
  BY <1>1, <1>3, LeastOf
<1>5. ASSUME NEW j \in T PROVE j <= N - u
  <2>1. j \in 0..N /\ u \in 0..N
    OBVIOUS
  <2>2. u <= N - j
    BY <1>2, <1>4
  <2> QED
    BY <2>1, <2>2
<1> QED
  BY <1>4, <1>5

\* The part of a sequence from a to b.
LEMMA PartOf ==
    ASSUME NEW S, NEW s \in Seq(S), NEW a \in 1..(Len(s) + 1), NEW b \in (a - 1)..Len(s)
    PROVE  /\ SubSeq(s, a, b) \in Seq(S)
           /\ Len(SubSeq(s, a, b)) = b - a + 1
           /\ \A k \in 1..(b - a + 1) : SubSeq(s, a, b)[k] = s[a + k - 1]
<1>1. Len(s) \in Nat
  BY LenProperties
<1>2. ASSUME NEW k \in a..b PROVE s[k] \in S
  <2>1. k \in 1..Len(s)
    BY <1>1
  <2> QED
    BY <2>1, ElementOfSeq
<1>3. a \in Int /\ b \in Int /\ (~(a <= b) => b - a + 1 = 0)
  BY <1>1
<1> QED
  BY <1>2, <1>3, SubSeqProperties

\* What is behind the first m.
LEMMA SuffixOf ==
    ASSUME NEW S, NEW s \in Seq(S), NEW m \in 0..Len(s)
    PROVE  /\ SubSeq(s, m + 1, Len(s)) \in Seq(S)
           /\ Len(SubSeq(s, m + 1, Len(s))) = Len(s) - m
           /\ \A k \in 1..(Len(s) - m) : SubSeq(s, m + 1, Len(s))[k] = s[m + k]
<1> DEFINE a == m + 1
           N == Len(s)
<1>1. N \in Nat
  BY LenProperties
<1>2. a \in 1..(N + 1) /\ N \in (a - 1)..N /\ N - a + 1 = N - m
  BY <1>1
<1>3. \A k \in 1..(N - m) : a + k - 1 = m + k
  BY <1>1
<1> HIDE DEF a
<1>4. /\ SubSeq(s, a, N) \in Seq(S)
      /\ Len(SubSeq(s, a, N)) = N - a + 1
      /\ \A k \in 1..(N - a + 1) : SubSeq(s, a, N)[k] = s[a + k - 1]
  BY <1>2, PartOf
<1> HIDE DEF N
<1>5. /\ SubSeq(s, a, N) \in Seq(S)
      /\ Len(SubSeq(s, a, N)) = N - m
      /\ \A k \in 1..(N - m) : SubSeq(s, a, N)[k] = s[m + k]
  BY <1>2, <1>3, <1>4
<1> QED
  BY <1>5 DEF a, N

\* A part of a part is a part.
LEMMA PartOfPart ==
    ASSUME NEW S, NEW s \in Seq(S), NEW a \in 1..(Len(s) + 1), NEW b \in (a - 1)..Len(s),
           NEW c \in 1..(b - a + 2), NEW d \in (c - 1)..(b - a + 1)
    PROVE  SubSeq(SubSeq(s, a, b), c, d) = SubSeq(s, a + c - 1, a + d - 1)
<1> DEFINE t == SubSeq(s, a, b)
           left == SubSeq(t, c, d)
           right == SubSeq(s, a + c - 1, a + d - 1)
<1>1. Len(s) \in Nat
  BY LenProperties
<1>2. t \in Seq(S) /\ Len(t) = b - a + 1 /\ \A k \in 1..(b - a + 1) : t[k] = s[a + k - 1]
  BY PartOf
<1>3. c \in 1..(Len(t) + 1) /\ d \in (c - 1)..Len(t)
  BY <1>1, <1>2
<1> HIDE DEF t
<1>4. left \in Seq(S) /\ Len(left) = d - c + 1 /\ \A k \in 1..(d - c + 1) : left[k] = t[c + k - 1]
  BY <1>2, <1>3, PartOf
<1>5. a + c - 1 \in 1..(Len(s) + 1) /\ a + d - 1 \in ((a + c - 1) - 1)..Len(s)
  BY <1>1
<1>6. /\ right \in Seq(S)
      /\ Len(right) = (a + d - 1) - (a + c - 1) + 1
      /\ \A k \in 1..((a + d - 1) - (a + c - 1) + 1) : right[k] = s[(a + c - 1) + k - 1]
  BY <1>5, PartOf
<1>7. (a + d - 1) - (a + c - 1) + 1 = d - c + 1
  BY <1>1
<1> HIDE DEF left, right
<1>8. ASSUME NEW k \in 1..(d - c + 1) PROVE left[k] = right[k]
  <2>1. c + k - 1 \in 1..(b - a + 1) /\ a + (c + k - 1) - 1 = (a + c - 1) + k - 1
    BY <1>1
  <2>2. left[k] = s[a + (c + k - 1) - 1]
    BY <1>2, <1>4, <2>1
  <2>3. right[k] = s[(a + c - 1) + k - 1]
    BY <1>6, <1>7
  <2> QED
    BY <2>1, <2>2, <2>3
<1>9. Len(left) = Len(right) /\ \A k \in 1..Len(left) : left[k] = right[k]
  BY <1>4, <1>6, <1>7, <1>8
<1> QED
  BY <1>4, <1>6, <1>9, SeqEqual DEF left, right, t

\* FirstOf is the one place with what it asks for.
LEMMA FirstOfIs ==
    ASSUME NEW s, Len(s) \in Nat, NEW i \in 1..(Len(s) + 1), NEW tokens,
           NEW j \in i..(Len(s) + 1), j = Len(s) + 1 \/ s[j] \in tokens,
           \A k \in i..(j - 1) : s[k] \notin tokens
    PROVE  FirstOf(s, i, tokens) = j
<1> DEFINE Is(m) == /\ m = Len(s) + 1 \/ s[m] \in tokens
                    /\ \A k \in i..(m - 1) : s[k] \notin tokens
<1>1. Is(j)
  OBVIOUS
<1>2. ASSUME NEW m \in i..(Len(s) + 1), Is(m) PROVE m = j
  <2>1. CASE m < j
    <3>1. m \in i..(j - 1) /\ m # Len(s) + 1
      BY <2>1
    <3> QED
      BY <1>2, <3>1
  <2>2. CASE j < m
    <3>1. j \in i..(m - 1) /\ j # Len(s) + 1
      BY <2>2
    <3> QED
      BY <1>2, <3>1
  <2> QED
    BY <2>1, <2>2
<1>3. FirstOf(s, i, tokens) = CHOOSE m \in i..(Len(s) + 1) : Is(m)
  BY DEF FirstOf
<1> HIDE DEF Is
<1> QED
  BY <1>1, <1>2, <1>3

\* There is always one.
LEMMA FirstOfExists ==
    ASSUME NEW s, Len(s) \in Nat, NEW i \in 1..(Len(s) + 1), NEW tokens
    PROVE  FirstOf(s, i, tokens) \in i..(Len(s) + 1)
<1> DEFINE T == {j \in i..(Len(s) + 1) : j = Len(s) + 1 \/ s[j] \in tokens}
<1>1. T \subseteq Nat /\ Len(s) + 1 \in T
  OBVIOUS
<1>2. PICK j \in T : \A k \in T : j <= k
  BY <1>1, LeastOf
<1>3. ASSUME NEW k \in i..(j - 1) PROVE s[k] \notin tokens
  <2>1. k \in i..(Len(s) + 1) /\ ~(j <= k)
    BY <1>1
  <2> QED
    BY <1>2, <2>1
<1>4. j \in i..(Len(s) + 1) /\ (j = Len(s) + 1 \/ s[j] \in tokens)
  OBVIOUS
<1> QED
  BY <1>3, <1>4, FirstOfIs

\* Either all of s is in tokens, or there are a first and a last place that is
\* not.
LEMMA EndsOf ==
    ASSUME NEW s, Len(s) \in Nat, NEW tokens, ~(\A j \in 1..Len(s) : s[j] \in tokens)
    PROVE  \E f \in 1..Len(s) : \E l \in f..Len(s) :
               /\ s[f] \notin tokens /\ s[l] \notin tokens
               /\ \A j \in 1..Len(s) : s[j] \notin tokens => f <= j /\ j <= l
<1> DEFINE T == {j \in 1..Len(s) : s[j] \notin tokens}
<1>1. T # {} /\ T \subseteq Nat /\ T \subseteq 0..Len(s)
  OBVIOUS
<1>2. PICK f \in T : \A j \in T : f <= j
  BY <1>1, LeastOf
<1>3. PICK l \in T : \A j \in T : j <= l
  BY <1>1, GreatestOf
<1>4. f \in 1..Len(s) /\ l \in f..Len(s)
  BY <1>2
<1> QED
  BY <1>2, <1>3, <1>4

\* SkipBlanks takes off what is before the first that is not blank.
LEMMA SkipBlanksIs ==
    ASSUME NEW S, NEW s \in Seq(S), NEW f \in 1..(Len(s) + 1),
           f = Len(s) + 1 \/ s[f] \notin Blank, \A j \in 1..(f - 1) : s[j] \in Blank
    PROVE  SkipBlanks(s) = SubSeq(s, f, Len(s))
<1> DEFINE words == {i \in DOMAIN s : s[i] \notin Blank}
           Is(i) == i \in words \cup {Len(s) + 1} /\ \A j \in words : i <= j
<1>1. Len(s) \in Nat /\ DOMAIN s = 1..Len(s)
  BY LenProperties
<1>2. \A j \in words : f <= j /\ j \in 1..Len(s)
  <2> TAKE j \in words
  <2>1. j \in 1..Len(s) /\ s[j] \notin Blank
    BY <1>1
  <2>2. ~(j \in 1..(f - 1))
    BY <2>1
  <2> QED
    BY <1>1, <2>1, <2>2
<1>3. Is(f)
  BY <1>1, <1>2
<1>4. ASSUME NEW i \in 1..(Len(s) + 1), Is(i) PROVE i = f
  <2>1. i = Len(s) + 1 \/ f <= i
    BY <1>2, <1>4
  <2>2. f = Len(s) + 1 \/ i <= f
    BY <1>3, <1>4
  <2>3. f = Len(s) + 1 => words = {}
    BY <1>1, <1>2
  <2> HIDE DEF words
  <2>4. words = {} => i = Len(s) + 1
    BY <1>4
  <2> QED
    BY <1>1, <2>1, <2>2, <2>3, <2>4
<1>5. SkipBlanks(s) = From(s, CHOOSE i \in 1..(Len(s) + 1) : Is(i))
  BY DEF SkipBlanks
<1> HIDE DEF Is
<1>6. (CHOOSE i \in 1..(Len(s) + 1) : Is(i)) = f
  BY <1>3, <1>4
<1> QED
  BY <1>5, <1>6 DEF From

\* CutBlanks takes off what is after the last that is not blank.
LEMMA CutBlanksIs ==
    ASSUME NEW S, NEW s \in Seq(S), NEW l \in 0..Len(s),
           l = 0 \/ s[l] \notin Blank, \A j \in (l + 1)..Len(s) : s[j] \in Blank
    PROVE  CutBlanks(s) = SubSeq(s, 1, l)
<1> DEFINE N == Len(s)
           t == Reverse(s)
           f == N - l + 1
           u == SubSeq(t, f, N)
           left == Reverse(u)
           right == SubSeq(s, 1, l)
<1>1. N \in Nat /\ \A i \in 1..N : s[i] \in S
  BY LenProperties, ElementOfSeq
<1>2. t \in Seq(S) /\ Len(t) = N /\ \A i \in 1..N : t[i] = s[N - i + 1]
  <2>1. \A i \in 1..N : N - i + 1 \in 1..N
    BY <1>1
  <2>2. t = [i \in 1..N |-> s[(N - i) + 1]]
    BY DEF Reverse
  <2>3. t \in [1..N -> S]
    BY <1>1, <2>1, <2>2
  <2> HIDE DEF N, t
  <2> QED
    BY <1>1, <2>2, <2>3, FunctionIsSeq
<1>3. l \in 0..N /\ f \in 1..(N + 1)
  BY <1>1
<1> HIDE DEF t
<1>4. SkipBlanks(t) = u
  <2>1. f = N + 1 \/ t[f] \notin Blank
    <3>1. CASE l = 0
      BY <1>1, <3>1
    <3>2. CASE l # 0
      <4>1. f \in 1..N /\ N - f + 1 = l
        BY <1>1, <1>3, <3>2
      <4> QED
        BY <1>2, <3>2, <4>1
    <3> QED
      BY <3>1, <3>2
  <2>2. ASSUME NEW j \in 1..(f - 1) PROVE t[j] \in Blank
    <3>1. j \in 1..N /\ N - j + 1 \in (l + 1)..N
      BY <1>1, <1>3
    <3> QED
      BY <1>2, <3>1
  <2> HIDE DEF N, f
  <2> QED
    BY <1>2, <1>3, <2>1, <2>2, SkipBlanksIs
<1>5. u \in Seq(S) /\ Len(u) = l /\ \A k \in 1..l : u[k] = s[l - k + 1]
  <2>1. f \in 1..(Len(t) + 1) /\ N \in (f - 1)..Len(t) /\ N - f + 1 = l
    BY <1>1, <1>2, <1>3
  <2>2. u \in Seq(S) /\ Len(u) = N - f + 1 /\ \A k \in 1..(N - f + 1) : u[k] = t[f + k - 1]
    BY <1>2, <2>1, PartOf
  <2>3. \A k \in 1..l : f + k - 1 \in 1..N /\ N - (f + k - 1) + 1 = l - k + 1
    BY <1>1, <1>3
  <2> HIDE DEF N, f, u
  <2>4. ASSUME NEW k \in 1..l PROVE u[k] = s[l - k + 1]
    <3>1. u[k] = t[f + k - 1]
      BY <2>1, <2>2
    <3>2. t[f + k - 1] = s[N - (f + k - 1) + 1]
      BY <1>2, <2>3
    <3> QED
      BY <2>3, <3>1, <3>2
  <2> QED
    BY <2>1, <2>2, <2>4
<1> HIDE DEF u
<1>6. left \in Seq(S) /\ Len(left) = l /\ \A i \in 1..l : left[i] = s[i]
  <2>1. \A i \in 1..l : l - i + 1 \in 1..l /\ l - (l - i + 1) + 1 = i /\ i \in 1..N
    BY <1>1, <1>3
  <2>2. left = [i \in 1..l |-> u[(l - i) + 1]]
    BY <1>5 DEF Reverse
  <2>3. \A i \in 1..l : left[i] = s[i]
    BY <1>5, <2>1, <2>2
  <2>4. left \in [1..l -> S]
    BY <1>1, <1>5, <2>1, <2>2
  <2>5. l \in Nat
    BY <1>3
  <2> HIDE DEF left
  <2> QED
    BY <2>3, <2>4, <2>5, FunctionIsSeq
<1>7. right \in Seq(S) /\ Len(right) = l /\ \A i \in 1..l : right[i] = s[i]
  <2>1. 1 \in 1..(Len(s) + 1) /\ l \in (1 - 1)..Len(s) /\ l - 1 + 1 = l
    BY <1>1, <1>3
  <2>2. \A i \in 1..l : 1 + i - 1 = i
    BY <1>3
  <2> QED
    BY <2>1, <2>2, PartOf
<1>8. CutBlanks(s) = left
  BY <1>4 DEF CutBlanks, t
<1> HIDE DEF left, right, N, f
<1>9. left = right
  BY <1>6, <1>7, SeqEqual
<1> QED
  BY <1>8, <1>9 DEF right

\* Stripped takes off both.
LEMMA StrippedIs ==
    ASSUME NEW S, NEW s \in Seq(S)
    PROVE  /\ (\A j \in 1..Len(s) : s[j] = SP) => Stripped(s) = <<>>
           /\ \A f \in 1..Len(s) : \A l \in f..Len(s) :
                  /\ s[f] # SP /\ s[l] # SP
                  /\ \A j \in 1..Len(s) : s[j] # SP => f <= j /\ j <= l
                  => Stripped(s) = SubSeq(s, f, l)
<1> DEFINE words == {i \in DOMAIN s : s[i] # SP}
<1>1. Len(s) \in Nat /\ DOMAIN s = 1..Len(s)
  BY LenProperties
<1>2. ASSUME \A j \in 1..Len(s) : s[j] = SP PROVE Stripped(s) = <<>>
  <2>1. words = {}
    BY <1>1, <1>2
  <2> QED
    BY <2>1 DEF Stripped
<1>3. ASSUME NEW f \in 1..Len(s), NEW l \in f..Len(s), s[f] # SP, s[l] # SP,
             \A j \in 1..Len(s) : s[j] # SP => f <= j /\ j <= l
      PROVE  Stripped(s) = SubSeq(s, f, l)
  <2>1. f \in words /\ l \in words /\ \A j \in words : f <= j /\ j <= l /\ j \in Nat
    BY <1>1, <1>3
  <2>2. f \in Nat /\ l \in Nat
    BY <1>1
  <2> HIDE DEF words
  <2>3. (CHOOSE i \in words : \A j \in words : i <= j) = f
    <3>1. \A i \in words : (\A j \in words : i <= j) => i = f
      BY <2>1, <2>2
    <3> QED
      BY <2>1, <3>1
  <2>4. (CHOOSE i \in words : \A j \in words : j <= i) = l
    <3>1. \A i \in words : (\A j \in words : j <= i) => i = l
      BY <2>1, <2>2
    <3> QED
      BY <2>1, <3>1
  <2>5. words # {}
    BY <2>1
  <2>6. Stripped(s) = IF words = {} THEN <<>>
                      ELSE SubSeq(s, CHOOSE i \in words : \A j \in words : i <= j,
                                     CHOOSE i \in words : \A j \in words : j <= i)
    BY DEF Stripped, words
  <2> QED
    BY <2>3, <2>4, <2>5, <2>6
<1> QED
  BY <1>2, <1>3

\* What a text is made of.
Tokens == STRING \cup {SP, EQ, HASH, NL} \cup Keys

\* Trimming the piece that has s, and the end of its line or not, gives s
\* without the blanks around it.
LEMMA TrimIsStrip ==
    ASSUME NEW s \in Seq(Tokens), ~Contains(s, NL), NEW t \in Seq(Tokens),
           Len(t) \in {Len(s), Len(s) + 1},
           \A j \in 1..Len(s) : t[j] = s[j],
           \A j \in (Len(s) + 1)..Len(t) : t[j] = NL
    PROVE  CutBlanks(SkipBlanks(t)) = Stripped(s)
<1>1. Len(s) \in Nat /\ Len(t) \in Nat /\ Len(s) <= Len(t)
  BY LenProperties
<1>2. \A j \in 1..Len(s) : s[j] \in Blank <=> s[j] = SP
  BY DEF Contains, Blank, SP, NL
<1>3. CASE \A j \in 1..Len(s) : s[j] \in {SP}
  <2>1. Stripped(s) = <<>>
    BY <1>3, StrippedIs
  <2>2. \A j \in 1..Len(t) : t[j] \in Blank
    BY <1>1, <1>2, <1>3 DEF Blank
  <2>3. SkipBlanks(t) = SubSeq(t, Len(t) + 1, Len(t))
    <3>1. Len(t) + 1 \in 1..(Len(t) + 1) /\ (Len(t) + 1) - 1 = Len(t)
      BY <1>1
    <3>2. \A j \in 1..((Len(t) + 1) - 1) : t[j] \in Blank
      BY <2>2, <3>1
    <3> QED
      BY <3>1, <3>2, SkipBlanksIs
  <2>4. SubSeq(t, Len(t) + 1, Len(t)) = <<>>
    BY <1>1, SubSeqEmpty
  <2>5. CutBlanks(<<>>) = SubSeq(<<>>, 1, 0)
    <3>1. <<>> \in Seq(Tokens) /\ Len(<<>>) = 0
      BY EmptySeq
    <3>2. 0 \in 0..Len(<<>>) /\ \A j \in (0 + 1)..Len(<<>>) : <<>>[j] \in Blank
      BY <3>1
    <3> QED
      BY <3>1, <3>2, CutBlanksIs
  <2>6. SubSeq(<<>>, 1, 0) = <<>>
    BY SubSeqEmpty
  <2> QED
    BY <2>1, <2>3, <2>4, <2>5, <2>6
<1>4. CASE ~\A j \in 1..Len(s) : s[j] \in {SP}
  <2>1. PICK f \in 1..Len(s) : \E l \in f..Len(s) :
               /\ s[f] \notin {SP} /\ s[l] \notin {SP}
               /\ \A j \in 1..Len(s) : s[j] \notin {SP} => f <= j /\ j <= l
    BY <1>1, <1>4, EndsOf
  <2>2. PICK l \in f..Len(s) :
               /\ s[f] # SP /\ s[l] # SP
               /\ \A j \in 1..Len(s) : s[j] # SP => f <= j /\ j <= l
    BY <2>1
  <2>3. Stripped(s) = SubSeq(s, f, l)
    BY <2>2, StrippedIs
  <2> DEFINE u == SubSeq(t, f, Len(t))
             n == l - f + 1
  <2>4. SkipBlanks(t) = u
    <3>1. f \in 1..(Len(t) + 1) /\ t[f] \notin Blank
      BY <1>1, <1>2, <2>2
    <3>2. ASSUME NEW j \in 1..(f - 1) PROVE t[j] \in Blank
      <4>1. j \in 1..Len(s) /\ ~(f <= j)
        BY <1>1
      <4> QED
        BY <1>2, <2>2, <4>1
    <3> QED
      BY <3>1, <3>2, SkipBlanksIs
  <2>5. /\ u \in Seq(Tokens) /\ Len(u) = Len(t) - f + 1
        /\ \A k \in 1..(Len(t) - f + 1) : u[k] = t[f + k - 1]
    <3>1. f \in 1..(Len(t) + 1) /\ Len(t) \in (f - 1)..Len(t)
      BY <1>1
    <3> QED
      BY <3>1, PartOf
  <2>6. n \in 1..(Len(t) - f + 1) /\ f + n - 1 = l
    BY <1>1
  <2> HIDE DEF u
  <2>7. CutBlanks(u) = SubSeq(u, 1, n)
    <3>1. n \in 0..Len(u) /\ u[n] \notin Blank
      BY <1>1, <1>2, <2>2, <2>5, <2>6
    <3>2. ASSUME NEW j \in (n + 1)..Len(u) PROVE u[j] \in Blank
      <4>1. j \in 1..(Len(t) - f + 1) /\ f + j - 1 \in 1..Len(t) /\ ~(f + j - 1 <= l)
        BY <1>1, <2>5, <2>6
      <4>2. u[j] = t[f + j - 1]
        BY <2>5, <4>1
      <4>3. CASE f + j - 1 \in 1..Len(s)
        BY <1>2, <2>2, <4>1, <4>2, <4>3
      <4>4. CASE f + j - 1 \in (Len(s) + 1)..Len(t)
        BY <4>2, <4>4 DEF Blank
      <4> QED
        BY <1>1, <4>1, <4>3, <4>4
    <3> HIDE DEF n
    <3> QED
      BY <2>5, <3>1, <3>2, CutBlanksIs
  <2>8. SubSeq(u, 1, n) = SubSeq(t, f, l)
    <3>1. /\ f \in 1..(Len(t) + 1) /\ Len(t) \in (f - 1)..Len(t)
          /\ 1 \in 1..(Len(t) - f + 2) /\ n \in (1 - 1)..(Len(t) - f + 1)
          /\ f + 1 - 1 = f
      BY <1>1, <2>6
    <3> HIDE DEF n
    <3> QED
      BY <2>6, <3>1, PartOfPart DEF u
  <2>9. SubSeq(t, f, l) = SubSeq(s, f, l)
    <3>1. f \in 1..(Len(t) + 1) /\ l \in (f - 1)..Len(t)
      BY <1>1
    <3>2. f \in 1..(Len(s) + 1) /\ l \in (f - 1)..Len(s)
      BY <1>1
    <3>3. /\ SubSeq(t, f, l) \in Seq(Tokens) /\ Len(SubSeq(t, f, l)) = l - f + 1
          /\ \A k \in 1..(l - f + 1) : SubSeq(t, f, l)[k] = t[f + k - 1]
      BY <3>1, PartOf
    <3>4. /\ SubSeq(s, f, l) \in Seq(Tokens) /\ Len(SubSeq(s, f, l)) = l - f + 1
          /\ \A k \in 1..(l - f + 1) : SubSeq(s, f, l)[k] = s[f + k - 1]
      BY <3>2, PartOf
    <3>5. \A k \in 1..(l - f + 1) : f + k - 1 \in 1..Len(s)
      BY <1>1
    <3> QED
      BY <3>3, <3>4, <3>5, SeqEqual
  <2> QED
    BY <2>3, <2>4, <2>7, <2>8, <2>9
<1> QED
  BY <1>3, <1>4

-----------------------------------------------------------------------------
(* A line.                                                                 *)

\* The line says that key is text.
LineSays(line, key_, text) ==
    \E n \in DOMAIN line :
        /\ line[n] = EQ
        /\ ~Contains(Before(line, n), EQ)
        /\ Stripped(Before(line, n)) = <<key_>>
        /\ Stripped(From(line, n + 1)) = text

\* A line, read with its end or without it, is taken for what it says.
LEMMA LineIsRead ==
    ASSUME NEW line \in Seq(Tokens), ~Contains(line, NL), NEW piece \in Seq(Tokens),
           Len(piece) \in {Len(line), Len(line) + 1},
           \A j \in 1..Len(line) : piece[j] = line[j],
           \A j \in (Len(line) + 1)..Len(piece) : piece[j] = NL,
           NEW k \in Keys
    PROVE  /\ (\E text : LineSays(line, k, text)) <=>
                  ~Skipped(piece) /\ KeyText(piece) = <<k>>
           /\ \A text : LineSays(line, k, text) => ValueText(piece) = text
<1> DEFINE L == Len(line)
           M == Len(piece)
<1>1. L \in Nat /\ M \in Nat /\ L <= M /\ DOMAIN line = 1..L
  BY LenProperties
<1>2. \A j \in 1..L : line[j] # NL /\ (line[j] \in Blank <=> line[j] = SP)
  BY DEF Contains, Blank, SP, NL
<1>3. ASSUME ~Contains(line, EQ)
      PROVE  Skipped(piece) /\ \A text : ~LineSays(line, k, text)
  <2>1. \A text : ~LineSays(line, k, text)
    BY <1>1, <1>3 DEF LineSays, Contains
  <2>2. \A j \in 1..M : piece[j] # EQ
    BY <1>1, <1>3 DEF Contains, EQ, NL
  <2>3. CASE \A j \in 1..M : piece[j] \in Blank
    <3>1. SkipBlanks(piece) = SubSeq(piece, M + 1, M)
      <4>1. M + 1 \in 1..(M + 1) /\ (M + 1) - 1 = M
        BY <1>1
      <4>2. \A j \in 1..((M + 1) - 1) : piece[j] \in Blank
        BY <2>3, <4>1
      <4> QED
        BY <4>1, <4>2, SkipBlanksIs
    <3>2. SkipBlanks(piece) = <<>>
      BY <1>1, <3>1, SubSeqEmpty
    <3> QED
      BY <2>1, <3>2 DEF Skipped
  <2>4. CASE ~\A j \in 1..M : piece[j] \in Blank
    <3>1. PICK f \in 1..M : \E l \in f..M :
               /\ piece[f] \notin Blank /\ piece[l] \notin Blank
               /\ \A j \in 1..M : piece[j] \notin Blank => f <= j /\ j <= l
      BY <1>1, <2>4, EndsOf
    <3>2. SkipBlanks(piece) = SubSeq(piece, f, M)
      <4>1. f \in 1..(M + 1)
        BY <1>1
      <4>2. ASSUME NEW j \in 1..(f - 1) PROVE piece[j] \in Blank
        <5>1. j \in 1..M /\ ~(f <= j)
          BY <1>1
        <5> QED
          BY <3>1, <5>1
      <4> QED
        BY <3>1, <4>1, <4>2, SkipBlanksIs
    <3>3. /\ Len(SubSeq(piece, f, M)) = M - f + 1
          /\ \A i \in 1..(M - f + 1) : SubSeq(piece, f, M)[i] = piece[f + i - 1]
      <4>1. f \in 1..(M + 1) /\ M \in (f - 1)..M
        BY <1>1
      <4> QED
        BY <4>1, PartOf
    <3>4. \A i \in 1..(M - f + 1) : f + i - 1 \in 1..M
      BY <1>1
    <3>5. ~Contains(SkipBlanks(piece), EQ)
      BY <2>2, <3>2, <3>3, <3>4 DEF Contains
    <3> QED
      BY <2>1, <3>5 DEF Skipped
  <2> QED
    BY <2>3, <2>4
<1>4. ASSUME Contains(line, EQ)
      PROVE  /\ (\E text : LineSays(line, k, text)) <=>
                    ~Skipped(piece) /\ KeyText(piece) = <<k>>
             /\ \A text : LineSays(line, k, text) => ValueText(piece) = text
  <2> DEFINE T == {j \in 1..L : line[j] = EQ}
  <2>1. T # {} /\ T \subseteq Nat
    BY <1>1, <1>4 DEF Contains
  <2>2. PICK n \in T : \A j \in T : n <= j
    BY <2>1, LeastOf
  <2>3. n \in 1..L /\ line[n] = EQ /\ \A j \in 1..(n - 1) : line[j] # EQ
    <3>1. n \in 1..L /\ line[n] = EQ
      OBVIOUS
    <3>2. ASSUME NEW j \in 1..(n - 1) PROVE line[j] # EQ
      <4>1. j \in 1..L /\ ~(n <= j)
        BY <1>1, <3>1
      <4> QED
        BY <2>2, <4>1
    <3> QED
      BY <3>1, <3>2
  <2> HIDE DEF T
  <2> DEFINE before == SubSeq(line, 1, n - 1)
             after == SubSeq(line, n + 1, L)
  <2>4. /\ before \in Seq(Tokens) /\ Len(before) = n - 1
        /\ \A i \in 1..(n - 1) : before[i] = line[i]
    <3>1. 1 \in 1..(L + 1) /\ n - 1 \in (1 - 1)..L /\ (n - 1) - 1 + 1 = n - 1
      BY <1>1, <2>3
    <3>2. \A i \in 1..(n - 1) : 1 + i - 1 = i
      BY <1>1, <2>3
    <3> QED
      BY <3>1, <3>2, PartOf
  <2>5. /\ after \in Seq(Tokens) /\ Len(after) = L - n
        /\ \A i \in 1..(L - n) : after[i] = line[n + i]
    <3>1. n + 1 \in 1..(L + 1) /\ L \in ((n + 1) - 1)..L /\ L - (n + 1) + 1 = L - n
      BY <1>1, <2>3
    <3>2. \A i \in 1..(L - n) : (n + 1) + i - 1 = n + i
      BY <1>1, <2>3
    <3> QED
      BY <3>1, <3>2, PartOf
  \* The first = is the only one that can part the line.
  <2>6. \A text : LineSays(line, k, text) <=>
                      Stripped(before) = <<k>> /\ Stripped(after) = text
    <3>1. ~Contains(before, EQ)
      BY <2>3, <2>4 DEF Contains
    <3>2. ASSUME NEW m \in 1..L, line[m] = EQ, ~Contains(SubSeq(line, 1, m - 1), EQ)
          PROVE  m = n
      <4>1. n <= m
        <5>1. CASE m < n
          <6>1. m \in 1..(n - 1)
            BY <1>1, <2>3, <5>1
          <6> QED
            BY <2>3, <3>2, <6>1
        <5> QED
          BY <1>1, <2>3, <5>1
      <4>2. CASE n < m
        <5>1. /\ 1 \in 1..(L + 1) /\ m - 1 \in (1 - 1)..L /\ n \in 1..(m - 1)
              /\ (m - 1) - 1 + 1 = m - 1 /\ 1 + n - 1 = n
          BY <1>1, <2>3, <4>2
        <5>2. Len(SubSeq(line, 1, m - 1)) = m - 1 /\ SubSeq(line, 1, m - 1)[n] = line[n]
          BY <5>1, PartOf
        <5> QED
          BY <2>3, <3>2, <5>1, <5>2 DEF Contains
      <4> QED
        BY <1>1, <2>3, <4>1, <4>2
    <3> HIDE DEF before, after
    <3>3. before = Before(line, n) /\ after = From(line, n + 1)
      BY DEF before, after, Before, From
    <3>4. \A m \in 1..L : line[m] = EQ /\ ~Contains(Before(line, m), EQ) <=> m = n
      BY <2>3, <3>1, <3>2, <3>3 DEF Before
    <3>5. \A text : LineSays(line, k, text) <=>
              \E m \in 1..L : /\ line[m] = EQ /\ ~Contains(Before(line, m), EQ)
                              /\ Stripped(Before(line, m)) = <<k>>
                              /\ Stripped(From(line, m + 1)) = text
      BY <1>1 DEF LineSays
    <3> QED
      BY <2>3, <3>3, <3>4, <3>5
  <2>7. n \in 1..M /\ piece[n] = EQ /\ piece[n] \notin Blank
    BY <1>1, <2>3 DEF Blank, EQ, SP, NL
  <2>8. PICK f \in 1..M : \E l \in f..M :
               /\ piece[f] \notin Blank /\ piece[l] \notin Blank
               /\ \A j \in 1..M : piece[j] \notin Blank => f <= j /\ j <= l
    BY <1>1, <2>7, EndsOf
  <2>9. f <= n /\ piece[f] \notin Blank /\ \A j \in 1..(f - 1) : piece[j] \in Blank
    <3>1. f <= n
      BY <2>7, <2>8
    <3>2. ASSUME NEW j \in 1..(f - 1) PROVE piece[j] \in Blank
      <4>1. j \in 1..M /\ ~(f <= j)
        BY <1>1
      <4> QED
        BY <2>8, <4>1
    <3> QED
      BY <2>8, <3>1, <3>2
  <2> DEFINE p == SubSeq(piece, f, M)
             m == n - f + 1
  <2>10. SkipBlanks(piece) = p
    <3>1. f \in 1..(M + 1)
      BY <1>1
    <3> QED
      BY <2>9, <3>1, SkipBlanksIs
  <2>11. /\ p \in Seq(Tokens) /\ Len(p) = M - f + 1
         /\ \A i \in 1..(M - f + 1) : p[i] = piece[f + i - 1]
    <3>1. f \in 1..(M + 1) /\ M \in (f - 1)..M
      BY <1>1
    <3> QED
      BY <3>1, PartOf
  <2>12. m \in 1..Len(p) /\ f + m - 1 = n /\ p[m] = EQ
    BY <1>1, <2>3, <2>7, <2>9, <2>11
  <2>13. FirstOf(p, 1, {EQ}) = m
    <3>1. Len(p) \in Nat /\ 1 \in 1..(Len(p) + 1) /\ m \in 1..(Len(p) + 1)
      BY <1>1, <2>11, <2>12
    <3>2. ASSUME NEW i \in 1..(m - 1) PROVE p[i] \notin {EQ}
      <4>1. i \in 1..(M - f + 1) /\ f + i - 1 \in 1..(n - 1) /\ f + i - 1 \in 1..L
        BY <1>1, <2>3, <2>9
      <4> QED
        BY <2>3, <2>11, <4>1
    <3> HIDE DEF p, m
    <3> QED
      BY <2>12, <3>1, <3>2, FirstOfIs
  \* The text before the = is trimmed like the one before the = of the line.
  <2>14. KeyText(piece) = Stripped(before)
    <3>1. Before(p, m) = SubSeq(line, f, n - 1)
      <4>1. Before(p, m) = SubSeq(p, 1, m - 1)
        BY DEF Before
      <4>2. /\ f \in 1..(M + 1) /\ M \in (f - 1)..M /\ 1 \in 1..(M - f + 2)
            /\ m - 1 \in (1 - 1)..(M - f + 1) /\ f + 1 - 1 = f /\ f + (m - 1) - 1 = n - 1
        BY <1>1, <2>3, <2>9
      <4>3. Before(p, m) = SubSeq(piece, f, n - 1)
        BY <4>1, <4>2, PartOfPart
      <4>4. /\ f \in 1..(M + 1) /\ n - 1 \in (f - 1)..M
            /\ f \in 1..(L + 1) /\ n - 1 \in (f - 1)..L
        BY <1>1, <2>3, <2>9
      <4>5. /\ SubSeq(piece, f, n - 1) \in Seq(Tokens)
            /\ Len(SubSeq(piece, f, n - 1)) = (n - 1) - f + 1
            /\ \A i \in 1..((n - 1) - f + 1) : SubSeq(piece, f, n - 1)[i] = piece[f + i - 1]
        BY <4>4, PartOf
      <4>6. /\ SubSeq(line, f, n - 1) \in Seq(Tokens)
            /\ Len(SubSeq(line, f, n - 1)) = (n - 1) - f + 1
            /\ \A i \in 1..((n - 1) - f + 1) : SubSeq(line, f, n - 1)[i] = line[f + i - 1]
        BY <4>4, PartOf
      <4>7. \A i \in 1..((n - 1) - f + 1) : f + i - 1 \in 1..L
        BY <1>1, <2>3, <2>9
      <4>8. SubSeq(piece, f, n - 1) = SubSeq(line, f, n - 1)
        BY <4>5, <4>6, <4>7, SeqEqual
      <4> QED
        BY <4>3, <4>8
    <3>2. SkipBlanks(before) = SubSeq(line, f, n - 1)
      <4>1. f \in 1..(Len(before) + 1) /\ (f = Len(before) + 1 \/ f \in 1..(n - 1))
        BY <1>1, <2>3, <2>4, <2>9
      <4>2. f = Len(before) + 1 \/ before[f] \notin Blank
        BY <1>1, <2>3, <2>4, <2>9, <4>1
      <4>3. ASSUME NEW j \in 1..(f - 1) PROVE before[j] \in Blank
        <5>1. j \in 1..(n - 1) /\ j \in 1..L
          BY <1>1, <2>3, <2>9
        <5> QED
          BY <2>4, <2>9, <5>1
      <4>4. SkipBlanks(before) = SubSeq(before, f, n - 1)
        <5> HIDE DEF before
        <5> QED
          BY <2>4, <4>1, <4>2, <4>3, SkipBlanksIs
      <4>5. /\ 1 \in 1..(L + 1) /\ n - 1 \in (1 - 1)..L
            /\ f \in 1..((n - 1) - 1 + 2) /\ n - 1 \in (f - 1)..((n - 1) - 1 + 1)
            /\ 1 + f - 1 = f /\ 1 + (n - 1) - 1 = n - 1
        BY <1>1, <2>3, <2>9
      <4>6. SubSeq(before, f, n - 1) = SubSeq(line, f, n - 1)
        BY <4>5, PartOfPart
      <4> QED
        BY <4>4, <4>6
    <3>3. CutBlanks(SkipBlanks(before)) = Stripped(before)
      <4>1. \A i \in 1..(n - 1) : i \in 1..L
        BY <1>1, <2>3
      <4>2. ~Contains(before, NL)
        BY <1>2, <2>4, <4>1 DEF Contains
      <4>3. Len(before) \in {Len(before), Len(before) + 1}
            /\ \A j \in (Len(before) + 1)..Len(before) : before[j] = NL
        BY <1>1, <2>3, <2>4
      <4> HIDE DEF before
      <4> QED
        BY <2>4, <4>2, <4>3, TrimIsStrip
    <3> HIDE DEF p, m, before
    <3>4. KeyText(piece) = CutBlanks(Before(p, m))
      BY <2>10, <2>13 DEF KeyText
    <3> QED
      BY <3>1, <3>2, <3>3, <3>4
  <2>15. ValueText(piece) = Stripped(after)
    <3> DEFINE t == SubSeq(piece, n + 1, M)
    <3>1. /\ t \in Seq(Tokens) /\ Len(t) = M - n
          /\ \A i \in 1..(M - n) : t[i] = piece[n + i]
      <4>1. n \in 0..M
        BY <1>1, <2>3
      <4> QED
        BY <4>1, SuffixOf
    <3>2. From(p, m + 1) = t
      <4>1. /\ n \in Nat /\ M \in Nat /\ f \in Nat
            /\ 1 <= f /\ f <= n /\ n <= M
        BY <1>1, <2>7, <2>9
      <4>2. \A a, b, c \in Nat : 1 <= a /\ a <= b /\ b <= c =>
                /\ b - a + 1 \in 0..(c - a + 1)
                /\ (c - a + 1) - (b - a + 1) = c - b
                /\ \A k_ \in 1..(c - b) : /\ (b - a + 1) + k_ \in 1..(c - a + 1)
                                         /\ a + ((b - a + 1) + k_) - 1 = b + k_
        OBVIOUS
      <4> HIDE DEF M, p
      <4>3. /\ m \in 0..(M - f + 1) /\ (M - f + 1) - m = M - n
            /\ \A k_ \in 1..(M - n) : m + k_ \in 1..(M - f + 1) /\ f + (m + k_) - 1 = n + k_
        BY <4>1, <4>2, Zenon
      <4> HIDE DEF m
      <4>4. m \in 0..Len(p)
        BY <2>11, <4>3
      <4>5. /\ From(p, m + 1) \in Seq(Tokens) /\ Len(From(p, m + 1)) = Len(p) - m
            /\ \A k_ \in 1..(Len(p) - m) : From(p, m + 1)[k_] = p[m + k_]
        BY <2>11, <4>4, SuffixOf DEF From
      <4>6. /\ Len(From(p, m + 1)) = M - n
            /\ \A k_ \in 1..(M - n) : From(p, m + 1)[k_] = piece[n + k_]
        <5>1. Len(p) - m = M - n
          BY <2>11, <4>3
        <5>2. ASSUME NEW k_ \in 1..(M - n) PROVE From(p, m + 1)[k_] = piece[n + k_]
          <6>1. From(p, m + 1)[k_] = p[m + k_]
            BY <4>5, <5>1
          <6>2. p[m + k_] = piece[f + (m + k_) - 1]
            BY <2>11, <4>3
          <6> QED
            BY <4>3, <6>1, <6>2
        <5> QED
          BY <4>5, <5>1, <5>2
      <4> HIDE DEF t
      <4> QED
        BY <3>1, <4>5, <4>6, SeqEqual
    <3>3. /\ Len(t) \in {Len(after), Len(after) + 1}
          /\ \A j \in 1..Len(after) : t[j] = after[j]
          /\ \A j \in (Len(after) + 1)..Len(t) : t[j] = NL
      <4>1. \A i \in 1..(L - n) : i \in 1..(M - n) /\ n + i \in 1..L
        BY <1>1, <2>3
      <4>2. \A i \in (L - n + 1)..(M - n) : i \in 1..(M - n) /\ n + i \in (L + 1)..M
        BY <1>1, <2>3
      <4>3. M = L \/ M = L + 1
        OBVIOUS
      <4>4. M - n \in {L - n, (L - n) + 1}
        BY <1>1, <2>3, <4>3
      <4> HIDE DEF t, after
      <4> QED
        BY <2>5, <3>1, <4>1, <4>2, <4>4
    <3>4. ~Contains(after, NL)
      <4>1. \A i \in 1..(L - n) : n + i \in 1..L
        BY <1>1, <2>3
      <4> QED
        BY <1>2, <2>5, <4>1 DEF Contains
    <3> HIDE DEF t, after
    <3>5. CutBlanks(SkipBlanks(t)) = Stripped(after)
      BY <2>5, <3>1, <3>3, <3>4, TrimIsStrip
    <3> HIDE DEF p, m
    <3>6. ValueText(piece) = CutBlanks(SkipBlanks(From(p, m + 1)))
      BY <2>10, <2>13 DEF ValueText
    <3> QED
      BY <3>2, <3>5, <3>6
  \* A comment has no key: it would begin with the #.
  <2>16. Stripped(before) = <<k>> => ~Skipped(piece)
    <3> SUFFICES ASSUME Stripped(before) = <<k>>, Skipped(piece) PROVE FALSE
      OBVIOUS
    <3>1. p # <<>> /\ Contains(p, EQ) /\ p[1] = piece[f]
      <4>1. Len(p) # 0 /\ 1 \in 1..(M - f + 1) /\ f + 1 - 1 = f
        BY <1>1, <2>11
      <4> HIDE DEF m
      <4> QED
        BY <2>11, <2>12, <4>1, EmptySeq DEF Contains
    <3>2. piece[f] = HASH
      BY <2>10, <3>1 DEF Skipped
    <3>3. f < n /\ f \in 1..(n - 1) /\ f \in 1..L
      BY <1>1, <2>3, <2>7, <2>9, <3>2 DEF HASH, EQ
    <3>4. before[f] = HASH /\ line[f] = HASH
      BY <2>4, <3>2, <3>3
    <3>5. ~\A j \in 1..(n - 1) : before[j] \in {SP}
      BY <3>3, <3>4 DEF HASH, SP
    <3>6. PICK g \in 1..(n - 1) : \E l \in g..(n - 1) :
               /\ before[g] \notin {SP} /\ before[l] \notin {SP}
               /\ \A j \in 1..(n - 1) : before[j] \notin {SP} => g <= j /\ j <= l
      <4>1. Len(before) \in Nat /\ Len(before) = n - 1
        BY <1>1, <2>3, <2>4
      <4> HIDE DEF before
      <4>2. ~\A j \in 1..Len(before) : before[j] \in {SP}
        BY <3>5, <4>1
      <4>3. \E g \in 1..Len(before) : \E l \in g..Len(before) :
               /\ before[g] \notin {SP} /\ before[l] \notin {SP}
               /\ \A j \in 1..Len(before) : before[j] \notin {SP} => g <= j /\ j <= l
        BY <4>1, <4>2, EndsOf
      <4> QED
        BY <4>1, <4>3
    <3>7. PICK l \in g..(n - 1) :
               /\ before[g] # SP /\ before[l] # SP
               /\ \A j \in 1..(n - 1) : before[j] # SP => g <= j /\ j <= l
      BY <3>6
    <3>8. g = f
      <4>1. g <= f
        BY <3>3, <3>4, <3>7 DEF HASH, SP
      <4>2. CASE g < f
        <5>1. g \in 1..(f - 1) /\ g \in 1..L
          BY <1>1, <2>3, <4>2
        <5>2. piece[g] = before[g]
          BY <2>4, <5>1
        <5> QED
          BY <1>2, <2>9, <3>7, <5>1, <5>2
      <4> QED
        BY <3>3, <4>1, <4>2
    <3>9. Stripped(before) = SubSeq(before, g, l)
      <4>1. l \in g..Len(before) /\ g \in 1..Len(before)
        BY <2>4
      <4> HIDE DEF before
      <4> QED
        BY <2>4, <3>7, <4>1, StrippedIs
    <3>10. SubSeq(before, g, l)[1] = before[g]
      <4>1. /\ g \in 1..(Len(before) + 1) /\ l \in (g - 1)..Len(before)
            /\ 1 \in 1..(l - g + 1) /\ g + 1 - 1 = g
        BY <1>1, <2>3, <2>4
      <4> HIDE DEF before
      <4> QED
        BY <2>4, <4>1, PartOf
    <3>11. k = HASH
      <4>1. <<k>>[1] = k
        OBVIOUS
      <4> QED
        BY <3>4, <3>8, <3>9, <3>10, <4>1
    <3> QED
      BY <3>11, KeysAssumption
  <2> HIDE DEF before, after
  <2> QED
    BY <2>6, <2>14, <2>15, <2>16
<1>5. CASE Contains(line, EQ)
  BY <1>4, <1>5
<1>6. CASE ~Contains(line, EQ)
  BY <1>3, <1>6
<1> QED
  BY <1>5, <1>6
-----------------------------------------------------------------------------
(* The file.                                                               *)

\* tail[i] is what the pieces ss behind the first i are together.
TailsOf(tail, ss, N) ==
    /\ tail[N] = <<>>
    /\ \A i \in 1..N : tail[i - 1] = ss[i] \o tail[i]

\* The text is front and then back.
Parts(S, text, front, back) ==
    front \in Seq(S) /\ back \in Seq(S) /\ text = front \o back

\* Where front has two parts itself, the text can be parted between those.
LEMMA PartedBefore ==
    ASSUME NEW S, NEW text, NEW front, NEW back, NEW first, NEW second,
           Parts(S, text, front, back), Parts(S, front, first, second)
    PROVE  Parts(S, text, first, second \o back)
<1>1. first \in Seq(S) /\ second \in Seq(S) /\ back \in Seq(S)
  BY DEF Parts
<1>2. second \o back \in Seq(S)
  BY <1>1, ConcatProperties
<1>3. (first \o second) \o back = first \o (second \o back)
  BY <1>1, ConcatAssociative
<1> QED
  BY <1>1, <1>2, <1>3 DEF Parts

\* FlattenSeq can be taken off piece by piece from the front.
LEMMA FlattenedHasTails ==
    ASSUME NEW S, NEW ss \in Seq(Seq(S))
    PROVE  \E tail \in [0..Len(ss) -> Seq(S)] :
                TailsOf(tail, ss, Len(ss)) /\ FlattenSeq(ss) = tail[0]
<1> DEFINE N == Len(ss)
<1>1. N \in Nat /\ \A i \in 1..N : ss[i] \in Seq(S)
  BY LenProperties, ElementOfSeq
<1>2. PICK at \in [0..N -> Seq(S)] : PiecesUpTo(at, ss, N) /\ FlattenSeq(ss) = at[N]
  BY Flattened
<1> HIDE DEF N
<1> DEFINE Back(back, d) == /\ back[0] = <<>>
                            /\ \A j \in 1..d : back[j] = ss[N - j + 1] \o back[j - 1]
                            /\ at[N] = at[N - d] \o back[d]
           R == {d \in 0..N : \E back \in [0..d -> Seq(S)] : Back(back, d)}
<1>3. 0 \in R
  <2> DEFINE none == [i \in 0..0 |-> <<>>]
  <2>1. none \in [0..0 -> Seq(S)]
    BY EmptySeq
  <2>2. none[0] = <<>>
    OBVIOUS
  <2> HIDE DEF none
  <2>3. at[N] = at[N - 0] \o none[0]
    <3>1. N \in 0..N /\ N - 0 = N
      BY <1>1
    <3>2. at[N] \in Seq(S)
      BY <3>1
    <3> QED
      BY <2>2, <3>1, <3>2, ConcatEmptySeq
  <2>4. Back(none, 0)
    BY <2>2, <2>3
  <2> HIDE DEF Back
  <2> QED
    BY <1>1, <2>1, <2>4
<1>4. \A d \in 1..N : d - 1 \in R => d \in R
  <2> TAKE d \in 1..N
  <2> HAVE d - 1 \in R
  <2>1. PICK back \in [0..(d - 1) -> Seq(S)] : Back(back, d - 1)
    OBVIOUS
  <2> DEFINE n == N - d + 1
             more == [i \in 0..d |-> IF i = d THEN ss[n] \o back[d - 1] ELSE back[i]]
  <2>2. /\ d \in Nat /\ d - 1 \in Nat /\ n \in 1..N /\ N - (d - 1) = n /\ n - 1 = N - d
        /\ d - 1 \in 0..(d - 1) /\ n - 1 \in 0..N /\ n \in 0..N
    BY <1>1
  <2> HIDE DEF n, Back
  <2>3. ss[n] \in Seq(S) /\ back[d - 1] \in Seq(S) /\ at[n - 1] \in Seq(S)
    BY <1>1, <2>2
  <2>4. ss[n] \o back[d - 1] \in Seq(S)
    BY <2>3, ConcatProperties
  <2>5. more \in [0..d -> Seq(S)]
    BY <2>2, <2>4
  <2>6. d \in 0..d /\ \A i \in 0..(d - 1) : i \in 0..d /\ i # d
    BY <2>2
  <2>7. /\ \A i \in 0..(d - 1) : more[i] = back[i]
        /\ more[d] = ss[n] \o back[d - 1]
    BY <2>6, Zenon
  <2> HIDE DEF more
  <2>8. more[0] = <<>>
    BY <2>1, <2>2, <2>7 DEF Back
  <2>9. ASSUME NEW j \in 1..d PROVE more[j] = ss[N - j + 1] \o more[j - 1]
    <3>1. CASE j = d
      BY <2>2, <2>7, <3>1, Zenon DEF n
    <3>2. CASE j # d
      <4>1. j \in 1..(d - 1) /\ j - 1 \in 0..(d - 1) /\ j \in 0..(d - 1)
        BY <2>2, <3>2
      <4> QED
        BY <2>1, <2>7, <4>1 DEF Back
    <3> QED
      BY <3>1, <3>2
  <2>10. at[N] = at[N - d] \o more[d]
    <3>1. at[N] = at[n] \o back[d - 1]
      BY <2>1, <2>2 DEF Back
    <3>2. at[n] = at[n - 1] \o ss[n]
      BY <1>2, <2>2 DEF PiecesUpTo
    <3>3. at[n] \in Seq(S)
      BY <2>2
    <3>4. Parts(S, at[N], at[n], back[d - 1]) /\ Parts(S, at[n], at[n - 1], ss[n])
      BY <2>3, <3>1, <3>2, <3>3 DEF Parts
    <3>5. Parts(S, at[N], at[n - 1], ss[n] \o back[d - 1])
      BY <3>4, PartedBefore
    <3> QED
      BY <2>2, <2>7, <3>5 DEF Parts
  <2>11. Back(more, d)
    BY <2>8, <2>9, <2>10 DEF Back
  <2>12. d \in 0..N
    BY <1>1
  <2> QED
    BY <2>5, <2>11, <2>12
<1>5. N \in R
  <2> HIDE DEF R
  <2>1. N \in Nat /\ N \in 0..N
    BY <1>1
  <2>2. \A i \in 0..N : i \in R
    BY <1>3, <1>4, <2>1, UpwardsTo, Zenon
  <2> QED
    BY <2>1, <2>2
<1>6. PICK back \in [0..N -> Seq(S)] : Back(back, N)
  BY <1>5
<1> DEFINE tail == [i \in 0..N |-> back[N - i]]
<1>7. \A i \in 0..N : N - i \in 0..N
  BY <1>1
<1>8. tail \in [0..N -> Seq(S)]
  BY <1>7
<1>9. \A i \in 0..N : tail[i] = back[N - i]
  OBVIOUS
<1> HIDE DEF tail
<1>10. TailsOf(tail, ss, N)
  <2>1. tail[N] = <<>>
    <3>1. N \in 0..N /\ N - N = 0
      BY <1>1
    <3> QED
      BY <1>6, <1>9, <3>1
  <2>2. ASSUME NEW i \in 1..N PROVE tail[i - 1] = ss[i] \o tail[i]
    <3> DEFINE j == N - i + 1
    <3>1. /\ i \in 0..N /\ i - 1 \in 0..N /\ j \in 1..N /\ N - (i - 1) = j
          /\ N - i = j - 1 /\ N - j + 1 = i
      BY <1>1
    <3> HIDE DEF j
    <3>2. back[j] = ss[N - j + 1] \o back[j - 1]
      BY <1>6, <3>1
    <3> QED
      BY <1>9, <3>1, <3>2
  <2> QED
    BY <2>1, <2>2 DEF TailsOf
<1>11. at[N] = tail[0]
  <2>1. N - 0 = N /\ N - N = 0 /\ 0 \in 0..N /\ N \in 0..N
    BY <1>1
  <2>2. back[N] \in Seq(S)
    BY <2>1
  <2>3. at[N] = <<>> \o back[N]
    BY <1>2, <1>6, <2>1 DEF PiecesUpTo
  <2> QED
    BY <1>9, <2>1, <2>2, <2>3, ConcatEmptySeq
<1> QED
  BY <1>2, <1>8, <1>10, <1>11 DEF N

\* Without its last element, s behind r is r with s behind it that lacks it.
LEMMA LastCut ==
    ASSUME NEW S, NEW r \in Seq(S), NEW s \in Seq(S), s # <<>>
    PROVE  SubSeq(r \o s, 1, Len(r \o s) - 1) = r \o SubSeq(s, 1, Len(s) - 1)
<1> DEFINE a == Len(r)
           b == Len(s)
           left == SubSeq(r \o s, 1, (a + b) - 1)
           cut == SubSeq(s, 1, b - 1)
<1>1. a \in Nat /\ b \in Nat \ {0}
  BY LenProperties, EmptySeq
<1>2. /\ r \o s \in Seq(S) /\ Len(r \o s) = a + b
      /\ \A i \in 1..(a + b) : (r \o s)[i] = IF i <= a THEN r[i] ELSE s[i - a]
  BY ConcatProperties
<1>3. /\ cut \in Seq(S) /\ Len(cut) = b - 1 /\ \A i \in 1..(b - 1) : cut[i] = s[i]
  <2>1. 1 \in 1..(b + 1) /\ b - 1 \in (1 - 1)..b /\ (b - 1) - 1 + 1 = b - 1
    BY <1>1
  <2>2. \A i \in 1..(b - 1) : 1 + i - 1 = i
    BY <1>1
  <2> QED
    BY <2>1, <2>2, PartOf
<1> HIDE DEF a, b
<1>4. /\ left \in Seq(S) /\ Len(left) = (a + b) - 1
      /\ \A i \in 1..((a + b) - 1) : left[i] = (r \o s)[i]
  <2>1. /\ 1 \in 1..(Len(r \o s) + 1) /\ (a + b) - 1 \in (1 - 1)..Len(r \o s)
        /\ ((a + b) - 1) - 1 + 1 = (a + b) - 1
    BY <1>1, <1>2
  <2>2. \A i \in 1..((a + b) - 1) : 1 + i - 1 = i
    BY <1>1
  <2> QED
    BY <1>2, <2>1, <2>2, PartOf
<1> HIDE DEF cut, left
<1>5. /\ r \o cut \in Seq(S) /\ Len(r \o cut) = a + (b - 1)
      /\ \A i \in 1..(a + (b - 1)) : (r \o cut)[i] = IF i <= a THEN r[i] ELSE cut[i - a]
  BY <1>3, ConcatProperties DEF a
<1>6. Len(left) = Len(r \o cut)
  BY <1>1, <1>4, <1>5
<1>7. ASSUME NEW i \in 1..Len(left) PROVE left[i] = (r \o cut)[i]
  <2>1. i \in 1..((a + b) - 1) /\ i \in 1..(a + b) /\ i \in 1..(a + (b - 1))
    BY <1>1, <1>4
  <2>2. left[i] = IF i <= a THEN r[i] ELSE s[i - a]
    BY <1>2, <1>4, <2>1
  <2>3. CASE i <= a
    BY <1>5, <2>1, <2>2, <2>3
  <2>4. CASE ~(i <= a)
    <3>1. i - a \in 1..(b - 1)
      BY <1>1, <2>1, <2>4
    <3> QED
      BY <1>3, <1>5, <2>1, <2>2, <2>4, <3>1
  <2> QED
    BY <2>3, <2>4
<1> QED
  BY <1>2, <1>4, <1>5, <1>6, <1>7, SeqEqual DEF left, cut, a, b

\* tail[i] is what is behind the first i lines of the file, the last of which may
\* lack its end.
FileTails(tail) ==
    /\ tail \in [0..Len(lines) -> Seq(Tokens)]
    /\ tail[Len(lines)] = <<>>
    /\ \A i \in 1..Len(lines) : \E end \in {<<NL>>, <<>>} :
           /\ tail[i - 1] = (lines[i] \o end) \o tail[i]
           /\ end = <<>> => i = Len(lines)

\* What the lines are.
LEMMA LinesAre ==
    ASSUME lines \in Seq(Lines)
    PROVE  /\ Len(lines) \in Nat /\ DOMAIN lines = 1..Len(lines)
           /\ \A i \in 1..Len(lines) : lines[i] \in Seq(Tokens) /\ ~Contains(lines[i], NL)
<1>1. \A i \in 1..Len(lines) : lines[i] \in Seq(STRING) /\ ~Contains(lines[i], NL)
  BY ElementOfSeq, LinesAssumption
<1>2. STRING \subseteq Tokens
  BY DEF Tokens
<1>3. \A i \in 1..Len(lines) : lines[i] \in Seq(Tokens)
  BY <1>1, <1>2, SeqMonotonic
<1> QED
  BY <1>1, <1>3, LenProperties

\* One element by itself.
LEMMA OneIs ==
    ASSUME NEW S, NEW x, x \in S
    PROVE  <<x>> \in Seq(S) /\ Len(<<x>>) = 1 /\ <<x>>[1] = x
OBVIOUS

\* The end of a line.
LEMMA EndIs ==
    NL \in Tokens /\ <<NL>> \in Seq(Tokens) /\ Len(<<NL>>) = 1 /\ <<NL>>[1] = NL
<1>1. NL \in Tokens
  BY DEF Tokens
<1> QED
  BY <1>1

\* parse_config is given such a text.
LEMMA FileHasTails ==
    ASSUME lines \in Seq(Lines), NEW text \in {FlatFile, Before(FlatFile, Len(FlatFile))}
    PROVE  \E tail : FileTails(tail) /\ tail[0] = text
<1> DEFINE N == Len(lines)
           ss == [i \in DOMAIN lines |-> Append(lines[i], NL)]
           S == Tokens
<1>1. /\ N \in Nat /\ DOMAIN lines = 1..N /\ NL \in S /\ <<NL>> \in Seq(S) /\ Len(<<NL>>) = 1
      /\ \A i \in 1..N : lines[i] \in Seq(S)
  BY LinesAre, EndIs
<1>2. \A i \in 1..N : Append(lines[i], NL) = lines[i] \o <<NL>> /\ Append(lines[i], NL) \in Seq(S)
  BY <1>1, AppendProperties, AppendIsConcat
<1> HIDE DEF N, S
<1>3. ss \in [1..N -> Seq(S)] /\ \A i \in 1..N : ss[i] = lines[i] \o <<NL>>
  BY <1>1, <1>2
<1> HIDE DEF ss
<1>4. ss \in Seq(Seq(S)) /\ Len(ss) = N
  BY <1>1, <1>3, FunctionIsSeq
<1>5. PICK tail \in [0..N -> Seq(S)] : TailsOf(tail, ss, N) /\ FlattenSeq(ss) = tail[0]
  BY <1>4, FlattenedHasTails
<1>6. FlatFile = tail[0]
  BY <1>5 DEF FlatFile, ss
<1>7. \A i \in 1..N : i \in 0..N /\ i - 1 \in 0..N
  BY <1>1
<1>8. CASE text = FlatFile
  <2>1. ASSUME NEW i \in 1..N PROVE tail[i - 1] = (lines[i] \o <<NL>>) \o tail[i]
    BY <1>3, <1>5 DEF TailsOf
  <2>2. <<NL>> # <<>>
    OBVIOUS
  <2>3. FileTails(tail)
    BY <1>5, <2>1, <2>2 DEF FileTails, TailsOf, N, S
  <2> QED
    BY <1>6, <1>8, <2>3
<1>9. CASE text = Before(FlatFile, Len(FlatFile))
  <2> DEFINE Cut(s) == SubSeq(s, 1, Len(s) - 1)
             short == [i \in 0..N |-> IF i = N THEN <<>> ELSE Cut(tail[i])]
  <2>1. ASSUME NEW i \in 1..N
        PROVE  /\ tail[i - 1] = (lines[i] \o <<NL>>) \o tail[i] /\ tail[i - 1] # <<>>
               /\ lines[i] \o <<NL>> \in Seq(S) /\ tail[i] \in Seq(S)
    <3>1. tail[i - 1] = ss[i] \o tail[i]
      BY <1>5 DEF TailsOf
    <3>2. /\ ss[i] \in Seq(S) /\ tail[i] \in Seq(S) /\ ss[i] = lines[i] \o <<NL>>
          /\ lines[i] \in Seq(S)
      BY <1>1, <1>3, <1>7
    <3>3. Len(lines[i]) \in Nat /\ Len(ss[i]) = Len(lines[i]) + 1
      BY <1>1, <3>2, ConcatProperties, LenProperties
    <3>4. Len(ss[i] \o tail[i]) = Len(ss[i]) + Len(tail[i]) /\ Len(tail[i]) \in Nat
      BY <3>2, ConcatProperties, LenProperties
    <3>5. ss[i] \o tail[i] # <<>>
      BY <3>3, <3>4, EmptySeq
    <3> QED
      BY <3>1, <3>2, <3>5
  <2>2. \A i \in 0..N : Cut(tail[i]) \in Seq(S)
    <3> TAKE i \in 0..N
    <3>1. tail[i] \in Seq(S)
      BY <1>5
    <3>2. Len(tail[i]) \in Nat
      BY <3>1, LenProperties
    <3>3. CASE Len(tail[i]) = 0
      <4>1. Len(tail[i]) - 1 < 1 /\ Len(tail[i]) - 1 \in Int
        BY <3>3
      <4> QED
        BY <4>1, SubSeqEmpty, EmptySeq
    <3>4. CASE Len(tail[i]) # 0
      <4>1. 1 \in 1..(Len(tail[i]) + 1) /\ Len(tail[i]) - 1 \in (1 - 1)..Len(tail[i])
        BY <3>2, <3>4
      <4> QED
        BY <3>1, <4>1, PartOf
    <3> QED
      BY <3>3, <3>4
  <2>3. short \in [0..N -> Seq(S)]
    BY <2>2, EmptySeq
  <2>4. short[N] = <<>> /\ \A i \in 0..N : i # N => short[i] = Cut(tail[i])
    BY <1>1
  <2>5. short[0] = text
    <3>1. text = Cut(tail[0])
      BY <1>6, <1>9 DEF Before
    <3>2. CASE N = 0
      <4>1. tail[0] = <<>>
        BY <1>5, <3>2 DEF TailsOf
      <4>2. Len(<<>>) = 0 /\ 0 - 1 < 1 /\ 0 - 1 \in Int
        OBVIOUS
      <4>3. Cut(<<>>) = <<>>
        BY <4>2, SubSeqEmpty
      <4> QED
        BY <2>4, <3>1, <3>2, <4>1, <4>3
    <3>3. CASE N # 0
      <4>1. 0 \in 0..N
        BY <1>1
      <4> HIDE DEF short, Cut
      <4> QED
        BY <2>4, <3>1, <3>3, <4>1
    <3> QED
      BY <3>2, <3>3
  <2> HIDE DEF short
  <2>6. ASSUME NEW i \in 1..N
        PROVE  \E end \in {<<NL>>, <<>>} : /\ short[i - 1] = (lines[i] \o end) \o short[i]
                                           /\ end = <<>> => i = N
    <3>1. i - 1 \in 0..N /\ i - 1 # N /\ lines[i] \in Seq(S) /\ i \in 0..N
      BY <1>1
    <3>2. short[i - 1] = Cut((lines[i] \o <<NL>>) \o tail[i])
      BY <2>1, <2>4, <3>1
    <3>3. CASE i = N
      <4>1. tail[i] = <<>> /\ short[i] = <<>>
        BY <1>5, <2>4, <3>3 DEF TailsOf
      <4>2. (lines[i] \o <<NL>>) \o tail[i] = lines[i] \o <<NL>>
        BY <2>1, <4>1, ConcatEmptySeq
      <4>3. Cut(lines[i] \o <<NL>>) = lines[i] \o Cut(<<NL>>)
        BY <1>1, <3>1, LastCut
      <4>4. Cut(<<NL>>) = <<>>
        BY <1>1, SubSeqEmpty
      <4> HIDE DEF Cut
      <4>5. short[i - 1] = lines[i] \o <<>>
        BY <3>2, <4>2, <4>3, <4>4
      <4>6. (lines[i] \o <<>>) \o <<>> = lines[i] \o <<>>
        BY <3>1, ConcatEmptySeq
      <4> QED
        BY <3>3, <4>1, <4>5, <4>6
    <3>4. CASE i # N
      <4>1. i + 1 \in 1..N /\ (i + 1) - 1 = i
        BY <1>1, <3>4
      <4>2. tail[i] # <<>>
        BY <2>1, <4>1
      <4>3. Cut((lines[i] \o <<NL>>) \o tail[i]) = (lines[i] \o <<NL>>) \o Cut(tail[i])
        BY <2>1, <4>2, LastCut
      <4>4. short[i] = Cut(tail[i])
        BY <2>4, <3>1, <3>4
      <4>5. <<NL>> # <<>>
        OBVIOUS
      <4> HIDE DEF Cut
      <4>6. short[i - 1] = (lines[i] \o <<NL>>) \o short[i]
        BY <3>2, <4>3, <4>4
      <4> QED
        BY <4>5, <4>6
    <3> QED
      BY <3>3, <3>4
  <2>7. FileTails(short)
    BY <2>3, <2>4, <2>6 DEF FileTails, N, S
  <2> QED
    BY <2>5, <2>7
<1> QED
  BY <1>8, <1>9

\* The piece is the line, with its end or without it.
IsLine(piece, line) ==
    /\ piece \in Seq(Tokens)
    /\ Len(piece) \in {Len(line), Len(line) + 1}
    /\ \A j \in 1..Len(line) : piece[j] = line[j]
    /\ \A j \in (Len(line) + 1)..Len(piece) : piece[j] = NL

\* fgets ends at the least of the three.
LEMMA PieceEndIs ==
    ASSUME rest \in Seq(Tokens), NEW n \in Nat,
           n \in {FirstOf(rest, 1, {NL}), LineMax, Len(rest)},
           n <= FirstOf(rest, 1, {NL}), n <= LineMax, n <= Len(rest)
    PROVE  PieceEnd = n
<1>1. Len(rest) \in Nat
  BY LenProperties
<1>2. FirstOf(rest, 1, {NL}) \in 1..(Len(rest) + 1)
  <2>1. 1 \in 1..(Len(rest) + 1)
    BY <1>1
  <2> QED
    BY <1>1, <2>1, FirstOfExists
<1>3. LineMax \in Nat
  BY BuffersAssumption
<1> DEFINE end == FirstOf(rest, 1, {NL})
           Ends(m) == m <= end /\ m <= LineMax /\ m <= Len(rest)
<1> HIDE DEF end
<1>4. \A m \in {end, LineMax, Len(rest)} : Ends(m) => m = n
  BY <1>1, <1>2, <1>3 DEF end
<1>5. n \in {end, LineMax, Len(rest)} /\ Ends(n)
  BY DEF end
<1>6. PieceEnd = CHOOSE m \in {end, LineMax, Len(rest)} : Ends(m)
  BY DEF PieceEnd, end
<1> HIDE DEF Ends
<1> QED
  BY <1>4, <1>5, <1>6

\* What fgets reads is the line that rest begins with, when the line fits; of a
\* line that just fits, the end is left.
LEMMA LineIsTaken ==
    ASSUME NEW line \in Seq(Tokens), ~Contains(line, NL), Len(line) <= LineMax,
           NEW end \in {<<NL>>, <<>>}, NEW t \in Seq(Tokens), end = <<>> => t = <<>>,
           rest = (line \o end) \o t
    PROVE  /\ IsLine(SubSeq(rest, 1, PieceEnd), line)
           /\ From(rest, PieceEnd + 1) =
                  IF end # <<>> /\ Len(line) = LineMax THEN <<NL>> \o t ELSE t
<1> DEFINE L == Len(line)
           E == Len(end)
           T == Len(t)
           m == IF end # <<>> /\ L # LineMax THEN L + 1 ELSE L
           after == IF end # <<>> /\ L = LineMax THEN <<NL>> \o t ELSE t
<1>1. L \in Nat /\ T \in Nat /\ LineMax \in Nat \ {0} /\ L <= LineMax
  BY LenProperties, BuffersAssumption
<1>2. /\ end \in Seq(Tokens) /\ (end = <<>> <=> E = 0) /\ (end # <<>> <=> E = 1)
      /\ E \in {0, 1} /\ (end # <<>> => end[1] = NL) /\ (E = 0 => T = 0)
  <2>1. <<>> \in Seq(Tokens) /\ Len(<<>>) = 0
    BY EmptySeq
  <2>2. CASE end = <<NL>>
    BY <2>2, EndIs DEF E
  <2>3. CASE end = <<>>
    <3>1. E = 0 /\ T = 0
      BY <2>1, <2>3
    <3> QED
      BY <2>1, <2>3, <3>1
  <2> QED
    BY <2>2, <2>3
<1> HIDE DEF L, E, T
<1>3. /\ line \o end \in Seq(Tokens) /\ Len(line \o end) = L + E
      /\ \A j \in 1..(L + E) : (line \o end)[j] = IF j <= L THEN line[j] ELSE end[j - L]
  BY <1>2, ConcatProperties DEF L, E
<1>4. /\ rest \in Seq(Tokens) /\ Len(rest) = (L + E) + T
      /\ \A j \in 1..((L + E) + T) :
             rest[j] = IF j <= L + E THEN (line \o end)[j] ELSE t[j - (L + E)]
  BY <1>3, ConcatProperties DEF T
<1>5. \A j \in 1..L : rest[j] = line[j] /\ rest[j] # NL
  <2> TAKE j \in 1..L
  <2>1. j \in 1..(L + E) /\ j \in 1..((L + E) + T) /\ j <= L /\ j <= L + E
    BY <1>1, <1>2
  <2>2. rest[j] = line[j]
    BY <1>3, <1>4, <2>1
  <2> QED
    BY <2>2 DEF Contains, L
<1>6. end # <<>> => rest[L + 1] = NL
  <2> SUFFICES ASSUME end # <<>> PROVE rest[L + 1] = NL
    OBVIOUS
  <2>1. /\ L + 1 \in 1..(L + E) /\ L + 1 \in 1..((L + E) + T) /\ ~(L + 1 <= L)
        /\ L + 1 <= L + E /\ (L + 1) - L = 1
    BY <1>1, <1>2
  <2> QED
    BY <1>2, <1>3, <1>4, <2>1
<1>7. FirstOf(rest, 1, {NL}) = L + 1
  <2>1. Len(rest) \in Nat /\ 1 \in 1..(Len(rest) + 1) /\ L + 1 \in 1..(Len(rest) + 1)
    BY <1>1, <1>2, <1>4
  <2>2. L + 1 = Len(rest) + 1 \/ rest[L + 1] \in {NL}
    BY <1>1, <1>2, <1>4, <1>6
  <2>3. \A j \in 1..((L + 1) - 1) : rest[j] \notin {NL}
    <3>1. (L + 1) - 1 = L
      BY <1>1
    <3> QED
      BY <1>5, <3>1
  <2> QED
    BY <2>1, <2>2, <2>3, FirstOfIs
<1>8. PieceEnd = m
  <2>1. /\ m \in Nat /\ m \in {L + 1, LineMax, Len(rest)}
        /\ m <= L + 1 /\ m <= LineMax /\ m <= Len(rest)
    <3>1. CASE end = <<>>
      BY <1>1, <1>2, <1>4, <3>1
    <3>2. CASE end # <<>> /\ L # LineMax
      BY <1>1, <1>2, <1>4, <3>2
    <3>3. CASE end # <<>> /\ L = LineMax
      BY <1>1, <1>2, <1>4, <3>3
    <3> QED
      BY <3>1, <3>2, <3>3
  <2> HIDE DEF m
  <2> QED
    BY <1>4, <1>7, <2>1, PieceEndIs
<1>9. m \in {L, L + 1} /\ m \in 0..Len(rest) /\ (m = L + 1 => end # <<>>)
  BY <1>1, <1>2, <1>4
<1>10. /\ SubSeq(rest, 1, m) \in Seq(Tokens) /\ Len(SubSeq(rest, 1, m)) = m
       /\ \A j \in 1..m : SubSeq(rest, 1, m)[j] = rest[j]
  <2> HIDE DEF m
  <2>1. 1 \in 1..(Len(rest) + 1) /\ m \in (1 - 1)..Len(rest) /\ m - 1 + 1 = m
    BY <1>1, <1>4, <1>9
  <2>2. \A j \in 1..m : 1 + j - 1 = j
    BY <1>9
  <2> QED
    BY <1>4, <2>1, <2>2, PartOf
<1>11. SubSeq(rest, m + 1, Len(rest)) = after
  <2>1. /\ SubSeq(rest, m + 1, Len(rest)) \in Seq(Tokens)
        /\ Len(SubSeq(rest, m + 1, Len(rest))) = Len(rest) - m
        /\ \A j \in 1..(Len(rest) - m) : SubSeq(rest, m + 1, Len(rest))[j] = rest[m + j]
    <3> HIDE DEF m
    <3>1. m \in 0..Len(rest)
      BY <1>9
    <3> QED
      BY <1>4, <3>1, SuffixOf
  <2> DEFINE left == SubSeq(rest, m + 1, Len(rest))
  <2>2. /\ left \in Seq(Tokens) /\ Len(left) = Len(rest) - m
        /\ \A j \in 1..(Len(rest) - m) : left[j] = rest[m + j]
    BY <2>1
  <2>3. CASE end # <<>> /\ L = LineMax
    <3>1. m = L /\ after = end \o t
      BY <2>3
    <3>2. /\ end \o t \in Seq(Tokens) /\ Len(end \o t) = E + T
          /\ \A j \in 1..(E + T) : (end \o t)[j] = IF j <= E THEN end[j] ELSE t[j - E]
      BY <1>2, ConcatProperties DEF E, T
    <3>3. E = 1 /\ Len(rest) - L = E + T
      BY <1>1, <1>2, <1>4, <2>3
    <3>4. ASSUME NEW j \in 1..(E + T) PROVE (end \o t)[j] = rest[L + j]
      <4>1. CASE j = 1
        BY <1>1, <1>2, <1>6, <2>3, <3>2, <3>3, <4>1
      <4>2. CASE j # 1
        <5>1. /\ ~(j <= E) /\ L + j \in 1..((L + E) + T) /\ ~(L + j <= L + E)
              /\ (L + j) - (L + E) = j - E
          BY <1>1, <3>3, <4>2
        <5> QED
          BY <1>4, <3>2, <5>1
      <4> QED
        BY <4>1, <4>2
    <3> HIDE DEF m, after, left
    <3>5. Len(left) = Len(after) /\ \A j \in 1..Len(left) : left[j] = after[j]
      BY <2>2, <3>1, <3>2, <3>3, <3>4
    <3>6. left \in Seq(Tokens) /\ after \in Seq(Tokens)
      BY <2>2, <3>1, <3>2, <3>4
    <3>7. left = after
      BY <3>5, <3>6, SeqEqual
    <3> QED
      BY <3>7 DEF left
  <2>4. CASE ~(end # <<>> /\ L = LineMax)
    <3>1. m = L + E /\ after = t
      BY <1>1, <1>2, <2>4
    <3>2. Len(rest) - (L + E) = T
      BY <1>1, <1>2, <1>4
    <3>3. ASSUME NEW j \in 1..T PROVE t[j] = rest[(L + E) + j]
      <4>1. /\ (L + E) + j \in 1..((L + E) + T) /\ ~((L + E) + j <= L + E)
            /\ ((L + E) + j) - (L + E) = j
        BY <1>1, <1>2
      <4> QED
        BY <1>4, <4>1
    <3>4. t \in Seq(Tokens) /\ Len(t) = T
      BY DEF T
    <3> HIDE DEF m, after, left
    <3>5. Len(left) = Len(after) /\ \A j \in 1..Len(left) : left[j] = after[j]
      BY <2>2, <3>1, <3>2, <3>3, <3>4
    <3>6. left \in Seq(Tokens) /\ after \in Seq(Tokens)
      BY <2>2, <3>1, <3>2, <3>4
    <3>7. left = after
      BY <3>5, <3>6, SeqEqual
    <3> QED
      BY <3>7 DEF left
  <2> QED
    BY <2>3, <2>4
<1>12. \A j \in (L + 1)..m : j \in 1..m /\ rest[j] = NL
  <2> TAKE j \in (L + 1)..m
  <2>1. m = L + 1 /\ j = L + 1
    BY <1>1, <1>9
  <2> QED
    BY <1>1, <1>6, <1>9, <2>1
<1>13. \A j \in 1..L : j \in 1..m
  BY <1>1, <1>9
<1> HIDE DEF m, after
<1> QED
  BY <1>5, <1>8, <1>9, <1>10, <1>11, <1>12, <1>13 DEF From, IsLine, after, L

\* The line says nothing of the key.
Silent(line, key_) == \A text : ~LineSays(line, key_, text)

\* What such a piece does to the settings.
LEMMA LineIsAssigned ==
    ASSUME NEW line \in Seq(Tokens), ~Contains(line, NL), NEW piece, IsLine(piece, line),
           NEW content, NEW k \in Keys
    PROVE  /\ Silent(line, k) => Assign(content, piece)[k] = content[k]
           /\ \A text : LineSays(line, k, text)
                            => Assign(content, piece)[k] = Converted(k, text)
<1>1. /\ (\E text : LineSays(line, k, text)) <=> ~Skipped(piece) /\ KeyText(piece) = <<k>>
      /\ \A text : LineSays(line, k, text) => ValueText(piece) = text
  BY LineIsRead DEF IsLine
<1>2. Assign(content, piece)[k] =
          IF ~Skipped(piece) /\ KeyText(piece) = <<k>>
          THEN Converted(k, ValueText(piece)) ELSE content[k]
  BY DEF Assign
<1>3. ASSUME Silent(line, k) PROVE Assign(content, piece)[k] = content[k]
  BY <1>1, <1>2, <1>3 DEF Silent
<1>4. ASSUME NEW text, LineSays(line, k, text)
      PROVE  Assign(content, piece)[k] = Converted(k, text)
  <2>1. ~Skipped(piece) /\ KeyText(piece) = <<k>> /\ ValueText(piece) = text
    BY <1>1, <1>4
  <2> QED
    BY <1>2, <2>1
<1> QED
  BY <1>3, <1>4

\* The setting of k is what the last of the first n lines about it says, or its
\* default.
SaysUpTo(content, n, k) ==
    \/ /\ \A i \in 1..n : Silent(lines[i], k)
       /\ content[k] = Defaults[k]
    \/ \E i \in 1..n : \E text :
           /\ LineSays(lines[i], k, text)
           /\ content[k] = Converted(k, text)
           /\ \A j \in (i + 1)..n : Silent(lines[j], k)

\* One line more.
LEMMA SaysMore ==
    ASSUME NEW n \in Nat, NEW k, NEW content, NEW more, SaysUpTo(content, n, k),
           Silent(lines[n + 1], k) => more[k] = content[k],
           \A text : LineSays(lines[n + 1], k, text) => more[k] = Converted(k, text)
    PROVE  SaysUpTo(more, n + 1, k)
<1>1. \A i \in 1..(n + 1) : i \in 1..n \/ i = n + 1
  OBVIOUS
<1>2. CASE Silent(lines[n + 1], k)
  <2>1. CASE /\ \A i \in 1..n : Silent(lines[i], k)
             /\ content[k] = Defaults[k]
    BY <1>1, <1>2, <2>1 DEF SaysUpTo
  <2>2. ASSUME NEW i \in 1..n, NEW text, LineSays(lines[i], k, text),
               content[k] = Converted(k, text),
               \A j \in (i + 1)..n : Silent(lines[j], k)
        PROVE  SaysUpTo(more, n + 1, k)
    <3>1. i \in 1..(n + 1)
      OBVIOUS
    <3>2. \A j \in (i + 1)..(n + 1) : j \in (i + 1)..n \/ j = n + 1
      OBVIOUS
    <3>3. \A j \in (i + 1)..(n + 1) : Silent(lines[j], k)
      BY <1>2, <2>2, <3>2
    <3> QED
      BY <1>2, <2>2, <3>1, <3>3 DEF SaysUpTo
  <2> QED
    BY <2>1, <2>2 DEF SaysUpTo
<1>3. CASE ~Silent(lines[n + 1], k)
  <2>1. PICK text : LineSays(lines[n + 1], k, text)
    BY <1>3 DEF Silent
  <2>2. n + 1 \in 1..(n + 1) /\ \A j \in ((n + 1) + 1)..(n + 1) : FALSE
    OBVIOUS
  <2> QED
    BY <2>1, <2>2 DEF SaysUpTo
<1> QED
  BY <1>2, <1>3

\* All n lines are read, and what they say is in place.
HasRead(n) ==
    /\ \A k \in Keys : SaysUpTo(m_config_content, n, k)
    /\ \E tail : FileTails(tail) /\ rest \in {tail[n], <<NL>> \o tail[n]}

\* A piece is the next line, or the end that the last one left.
LEMMA FgetsStep ==
    ASSUME lines \in Seq(Lines), LinesFit, NEW n \in 0..Len(lines), HasRead(n), fgets
    PROVE  \E m \in 0..Len(lines) : HasRead(m)'
<1> DEFINE N == Len(lines)
           piece == SubSeq(rest, 1, PieceEnd)
<1>1. /\ N \in Nat /\ DOMAIN lines = 1..N
      /\ \A i \in 1..N : lines[i] \in Seq(Tokens) /\ ~Contains(lines[i], NL)
  BY LinesAre
<1>2. \A i \in 1..N : Len(lines[i]) <= LineMax
  BY <1>1 DEF LinesFit
<1>3. PICK tail : FileTails(tail) /\ rest \in {tail[n], <<NL>> \o tail[n]}
  BY DEF HasRead
<1>4. /\ rest # <<>> /\ lines' = lines /\ rest' = From(rest, PieceEnd + 1)
      /\ m_config_content' = Assign(m_config_content, piece)
  BY DEF fgets
<1>5. /\ tail \in [0..N -> Seq(Tokens)] /\ tail[n] \in Seq(Tokens) /\ tail[N] = <<>>
      /\ n \in Nat /\ FileTails(tail)'
  BY <1>3, <1>4 DEF FileTails
<1>6. <<NL>> # <<>>
  OBVIOUS

\* The end that was left: a line that says nothing.
<1>7. CASE rest = <<NL>> \o tail[n]
  <2>1. /\ <<>> \in Seq(Tokens) /\ ~Contains(<<>>, NL) /\ Len(<<>>) = 0
        /\ 0 <= LineMax /\ LineMax # 0 /\ <<NL>> \in {<<NL>>, <<>>}
    BY EmptySeq, BuffersAssumption DEF Contains
  <2>2. <<NL>> \in Seq(Tokens) /\ <<>> \o <<NL>> = <<NL>>
    <3>1. <<NL>> \in Seq(Tokens)
      BY EndIs
    <3> QED
      BY <3>1, ConcatEmptySeq
  <2>3. rest = (<<>> \o <<NL>>) \o tail[n]
    BY <1>7, <2>2
  <2>4. /\ IsLine(piece, <<>>)
        /\ From(rest, PieceEnd + 1) =
               IF <<NL>> # <<>> /\ Len(<<>>) = LineMax THEN <<NL>> \o tail[n] ELSE tail[n]
    BY <1>5, <1>6, <2>1, <2>3, LineIsTaken
  <2>5. \A k : Silent(<<>>, k)
    BY DEF Silent, LineSays
  <2> HIDE DEF piece
  <2>6. \A k \in Keys : Assign(m_config_content, piece)[k] = m_config_content[k]
    <3> DEFINE none == <<>>
    <3>1. none \in Seq(Tokens) /\ ~Contains(none, NL) /\ IsLine(piece, none)
      BY <2>1, <2>4
    <3>2. \A k : Silent(none, k)
      BY <2>5
    <3> HIDE DEF none
    <3> QED
      BY <3>1, <3>2, LineIsAssigned
  <2>7. rest' = tail[n]
    BY <1>4, <2>1, <2>4
  <2>8. ASSUME NEW k \in Keys PROVE SaysUpTo(m_config_content, n, k)'
    <3>1. m_config_content'[k] = m_config_content[k]
      BY <1>4, <2>6
    <3>2. SaysUpTo(m_config_content, n, k)
      BY DEF HasRead
    <3> QED
      BY <1>4, <3>1, <3>2 DEF SaysUpTo
  <2>9. HasRead(n)'
    BY <1>5, <2>7, <2>8 DEF HasRead
  <2> QED
    BY <1>4, <2>9

\* The next line.
<1>8. CASE rest = tail[n]
  <2>1. n \in 0..(N - 1) /\ n + 1 \in 1..N /\ (n + 1) - 1 = n /\ n + 1 \in 0..N
    BY <1>1, <1>4, <1>5, <1>8
  <2> DEFINE line == lines[n + 1]
  <2>2. PICK end \in {<<NL>>, <<>>} : /\ tail[n] = (line \o end) \o tail[n + 1]
                                      /\ end = <<>> => n + 1 = N
    BY <1>3, <2>1 DEF FileTails
  <2>3. line \in Seq(Tokens) /\ ~Contains(line, NL) /\ Len(line) <= LineMax
    BY <1>1, <1>2, <2>1
  <2>4. tail[n + 1] \in Seq(Tokens) /\ (end = <<>> => tail[n + 1] = <<>>)
    BY <1>5, <2>1, <2>2
  <2> HIDE DEF line
  <2>5. /\ IsLine(piece, line)
        /\ From(rest, PieceEnd + 1) =
               IF end # <<>> /\ Len(line) = LineMax THEN <<NL>> \o tail[n + 1] ELSE tail[n + 1]
    BY <1>8, <2>2, <2>3, <2>4, LineIsTaken
  <2> HIDE DEF piece
  <2>6. rest' \in {tail[n + 1], <<NL>> \o tail[n + 1]}
    BY <1>4, <2>5
  <2>7. ASSUME NEW k \in Keys PROVE SaysUpTo(m_config_content, n + 1, k)'
    <3>1. /\ Silent(line, k) => m_config_content'[k] = m_config_content[k]
          /\ \A text : LineSays(line, k, text) => m_config_content'[k] = Converted(k, text)
      BY <1>4, <2>3, <2>5, LineIsAssigned
    <3>2. SaysUpTo(m_config_content, n, k)
      BY DEF HasRead
    <3>3. SaysUpTo(m_config_content', n + 1, k)
      BY <1>5, <3>1, <3>2, SaysMore DEF line
    <3> QED
      BY <1>4, <3>3 DEF SaysUpTo
  <2>8. HasRead(n + 1)'
    BY <1>5, <2>6, <2>7 DEF HasRead
  <2> QED
    BY <1>4, <2>1, <2>8
<1> QED
  BY <1>3, <1>7, <1>8

\* At the end of the file nothing is left to say.
LEMMA EndStep ==
    ASSUME lines \in Seq(Lines), NEW n \in 0..Len(lines), HasRead(n), rest = <<>>
    PROVE  \A k \in Keys : SaysUpTo(m_config_content, Len(lines), k)
<1> DEFINE N == Len(lines)
<1>1. /\ N \in Nat /\ n \in Nat
      /\ \A i \in 1..N : lines[i] \in Seq(Tokens) /\ ~Contains(lines[i], NL)
  BY LinesAre
<1>2. PICK tail : FileTails(tail) /\ rest \in {tail[n], <<NL>> \o tail[n]}
  BY DEF HasRead
<1>3. /\ tail \in [0..N -> Seq(Tokens)] /\ tail[n] \in Seq(Tokens)
  BY <1>2 DEF FileTails
<1>4. tail[n] = <<>>
  <2>1. <<NL>> \in Seq(Tokens) /\ <<NL>> # <<>>
    BY EndIs
  <2>2. <<NL>> \o tail[n] # <<>>
    <3> DEFINE a == <<NL>>
               b == tail[n]
    <3>1. a \in Seq(Tokens) /\ b \in Seq(Tokens) /\ a # <<>>
      BY <1>3, <2>1
    <3> HIDE DEF a, b
    <3>2. a \o b # <<>>
      BY <3>1, ConcatEqualIffEmpty
    <3> QED
      BY <3>2 DEF a, b
  <2> QED
    BY <1>2, <2>2
<1>5. \A k \in Keys : SaysUpTo(m_config_content, n, k)
  BY DEF HasRead
<1>6. CASE n = N
  BY <1>5, <1>6
<1>7. CASE n # N
  <2>1. n + 1 \in 1..N /\ (n + 1) - 1 = n /\ n + 1 \in 0..N
    BY <1>1, <1>7
  <2> DEFINE line == lines[n + 1]
  <2>2. PICK end \in {<<NL>>, <<>>} : /\ tail[n] = (line \o end) \o tail[n + 1]
                                      /\ end = <<>> => n + 1 = N
    BY <1>2, <2>1 DEF FileTails
  <2>3. line \in Seq(Tokens) /\ tail[n + 1] \in Seq(Tokens)
    BY <1>1, <1>3, <2>1
  <2>4. end \in Seq(Tokens)
    BY EndIs, EmptySeq
  <2> HIDE DEF line
  <2>5. line \o end \in Seq(Tokens)
    BY <2>3, <2>4, ConcatProperties
  <2>6. line \o end = <<>>
    <3> DEFINE a == line \o end
               b == tail[n + 1]
    <3>1. a \in Seq(Tokens) /\ b \in Seq(Tokens) /\ a \o b = <<>>
      BY <1>4, <2>2, <2>3, <2>5
    <3> HIDE DEF a, b
    <3>2. a = <<>>
      BY <3>1, ConcatEqualIffEmpty
    <3> QED
      BY <3>2 DEF a
  <2>7. line = <<>> /\ end = <<>>
    BY <2>3, <2>4, <2>6, ConcatEqualIffEmpty
  <2>8. \A k : Silent(line, k) /\ ~\E text : LineSays(line, k, text)
    BY <2>7 DEF Silent, LineSays
  <2>9. ASSUME NEW k \in Keys PROVE SaysUpTo(m_config_content, n + 1, k)
    BY <1>1, <1>5, <2>8, SaysMore DEF line
  <2> QED
    BY <2>2, <2>7, <2>9
<1> QED
  BY <1>6, <1>7

\* What the last line about k says, or the default, is what the file means.
LEMMA SaysWhatIsMeant ==
    ASSUME lines \in Seq(Lines), NEW k \in Keys, NEW content,
           SaysUpTo(content, Len(lines), k)
    PROVE  content[k] = Meant(k)
<1> DEFINE N == Len(lines)
           Texts(i) == {Stripped(From(lines[i], m + 1)) : m \in DOMAIN lines[i]}
<1>1. /\ N \in Nat /\ DOMAIN lines = 1..N
      /\ \A i \in 1..N : lines[i] \in Seq(Tokens) /\ ~Contains(lines[i], NL)
  BY LinesAre
<1>2. \A i, text : Says(i, k, text) <=> LineSays(lines[i], k, text)
  BY DEF Says, LineSays
<1>3. \A i, text : LineSays(lines[i], k, text) => text \in Texts(i)
  BY DEF LineSays
<1>4. ASSUME NEW i \in 1..N, NEW one, NEW other,
             LineSays(lines[i], k, one), LineSays(lines[i], k, other)
      PROVE  one = other
  <2> DEFINE line == lines[i]
  <2>1. /\ line \in Seq(Tokens) /\ ~Contains(line, NL) /\ Len(line) \in Nat
        /\ LineSays(line, k, one) /\ LineSays(line, k, other)
    BY <1>1, <1>4, LenProperties
  <2> HIDE DEF line
  <2>2. /\ Len(line) \in {Len(line), Len(line) + 1}
        /\ \A j \in 1..Len(line) : line[j] = line[j]
        /\ \A j \in (Len(line) + 1)..Len(line) : line[j] = NL
    BY <2>1
  <2>3. \A text : LineSays(line, k, text) => ValueText(line) = text
    BY <2>1, <2>2, LineIsRead
  <2> QED
    BY <2>1, <2>3
<1>5. \A i : i \in Sayings(k) <=> i \in 1..N /\ ~Silent(lines[i], k)
  <2>1. Sayings(k) = {i \in DOMAIN lines : \E text \in Texts(i) : Says(i, k, text)}
    BY DEF Sayings
  <2> HIDE DEF Texts
  <2> QED
    BY <1>1, <1>2, <1>3, <2>1 DEF Silent
<1>6. CASE /\ \A i \in 1..N : Silent(lines[i], k)
           /\ content[k] = Defaults[k]
  <2>1. Sayings(k) = {}
    BY <1>5, <1>6
  <2> QED
    BY <1>6, <2>1 DEF Meant
<1>7. ASSUME NEW i \in 1..N, NEW text, LineSays(lines[i], k, text),
             content[k] = Converted(k, text),
             \A j \in (i + 1)..N : Silent(lines[j], k)
      PROVE  content[k] = Meant(k)
  <2>1. i \in Sayings(k)
    BY <1>5, <1>7 DEF Silent
  <2>2. ASSUME NEW j \in Sayings(k) PROVE j <= i
    <3>1. j \in 1..N /\ ~(j \in (i + 1)..N)
      BY <1>5, <1>7
    <3> QED
      BY <1>1, <3>1
  <2>3. (CHOOSE m \in Sayings(k) : \A j \in Sayings(k) : j <= m) = i
    <3>1. \A m \in Sayings(k) : m \in Nat
      BY <1>1, <1>5
    <3>2. \A m \in Sayings(k) : (\A j \in Sayings(k) : j <= m) => m = i
      BY <2>1, <2>2, <3>1
    <3> QED
      BY <2>1, <2>2, <3>2
  <2> DEFINE Latest == CHOOSE m \in Sayings(k) : \A j \in Sayings(k) : j <= m
             Chosen(last) == CHOOSE t \in Texts(last) : Says(last, k, t)
  <2>4. Chosen(i) = text
    <3>1. text \in Texts(i) /\ Says(i, k, text)
      BY <1>2, <1>3, <1>7
    <3>2. \A t \in Texts(i) : Says(i, k, t) => t = text
      BY <1>2, <1>4, <1>7
    <3> HIDE DEF Texts
    <3> QED
      BY <3>1, <3>2
  <2>5. Meant(k) = IF Sayings(k) = {} THEN Defaults[k] ELSE Converted(k, Chosen(Latest))
    BY DEF Meant
  <2>6. Latest = i
    BY <2>3
  <2> HIDE DEF Latest, Chosen
  <2>7. Sayings(k) # {}
    BY <2>1
  <2>8. Meant(k) = Converted(k, Chosen(i))
    BY <2>5, <2>6, <2>7
  <2> QED
    BY <1>7, <2>4, <2>8
<1> QED
  BY <1>6, <1>7 DEF SaysUpTo

\* Between two pieces the first lines are read, and behind the last one the
\* settings are theirs.
ConfigInv ==
    /\ lines \in Seq(Lines)
    /\ phase \in {"writing", "reading", "parsed", "failed", "asked"}
    /\ phase = "reading" /\ LinesFit => \E n \in 0..Len(lines) : HasRead(n)
    /\ phase \in {"parsed", "asked"} /\ LinesFit
           => \A k \in Keys : SaysUpTo(m_config_content, Len(lines), k)
    /\ phase = "asked" => asked = Parameters(Settings(conninfo))

\* It holds in the beginning.
LEMMA ConfigInvInit == ConfigInit => ConfigInv
BY EmptySeq DEF ConfigInit, ConfigInv

\* And every step keeps it.
LEMMA ConfigInvNext == ConfigInv /\ [ConfigNext]_configVars => ConfigInv'
<1> SUFFICES ASSUME ConfigInv, [ConfigNext]_configVars
             PROVE  ConfigInv'
  OBVIOUS
<1>1. CASE Write
  <2>1. lines' \in Seq(Lines) /\ phase' = "writing"
    <3>1. PICK line \in Lines : lines' = Append(lines, line)
      BY <1>1 DEF Write
    <3> QED
      BY <1>1, <3>1, AppendProperties DEF Write, ConfigInv
  <2> QED
    BY <2>1 DEF ConfigInv
<1>2. CASE parse_config
  <2>1. /\ lines' = lines /\ lines \in Seq(Lines) /\ m_config_content' = Defaults
        /\ phase' \in {"reading", "failed"}
        /\ phase' = "reading" => rest' \in {FlatFile, Before(FlatFile, Len(FlatFile))}
    BY <1>2 DEF parse_config, m_init_config_content, ConfigInv
  <2>2. ASSUME phase' = "reading" PROVE HasRead(0)'
    <3>1. PICK tail : FileTails(tail) /\ tail[0] = rest'
      BY <2>1, <2>2, FileHasTails
    <3>2. FileTails(tail)'
      BY <2>1, <3>1 DEF FileTails
    <3>3. \A k \in Keys : SaysUpTo(m_config_content, 0, k)'
      <4>1. \A i \in 1..0 : FALSE
        OBVIOUS
      <4> QED
        BY <2>1, <4>1 DEF SaysUpTo
    <3> QED
      BY <3>1, <3>2, <3>3 DEF HasRead
  <2>3. 0 \in 0..Len(lines)'
    BY <2>1, LinesAre
  <2> QED
    BY <2>1, <2>2, <2>3 DEF ConfigInv
<1>3. CASE fgets
  <2>1. lines' = lines /\ lines \in Seq(Lines) /\ phase = "reading" /\ phase' = "reading"
    BY <1>3 DEF fgets, ConfigInv
  <2>2. ASSUME LinesFit' PROVE \E n \in 0..Len(lines) : HasRead(n)'
    <3>1. LinesFit
      BY <2>1, <2>2 DEF LinesFit
    <3>2. PICK n \in 0..Len(lines) : HasRead(n)
      BY <2>1, <3>1 DEF ConfigInv
    <3> QED
      BY <1>3, <2>1, <3>1, <3>2, FgetsStep
  <2> QED
    BY <2>1, <2>2 DEF ConfigInv
<1>4. CASE parse_config_returns
  <2>1. /\ lines' = lines /\ lines \in Seq(Lines) /\ phase = "reading" /\ phase' = "parsed"
        /\ m_config_content' = m_config_content /\ rest = <<>>
    BY <1>4 DEF parse_config_returns, ConfigInv
  <2>2. ASSUME LinesFit', NEW k \in Keys
        PROVE  SaysUpTo(m_config_content, Len(lines), k)'
    <3>1. LinesFit
      BY <2>1, <2>2 DEF LinesFit
    <3>2. PICK n \in 0..Len(lines) : HasRead(n)
      BY <2>1, <3>1 DEF ConfigInv
    <3>3. SaysUpTo(m_config_content, Len(lines), k)
      BY <2>1, <3>2, EndStep
    <3> QED
      BY <2>1, <3>3 DEF SaysUpTo
  <2> QED
    BY <2>1, <2>2 DEF ConfigInv
<1>5. CASE db_init
  <2>1. /\ lines' = lines /\ lines \in Seq(Lines) /\ phase = "parsed" /\ phase' = "asked"
        /\ m_config_content' = m_config_content
        /\ asked' = Parameters(Settings(conninfo))
    BY <1>5 DEF db_init, ConfigInv
  <2>2. ASSUME LinesFit', NEW k \in Keys
        PROVE  SaysUpTo(m_config_content, Len(lines), k)'
    <3>1. LinesFit
      BY <2>1, <2>2 DEF LinesFit
    <3>2. SaysUpTo(m_config_content, Len(lines), k)
      BY <2>1, <3>1 DEF ConfigInv
    <3> QED
      BY <2>1, <3>2 DEF SaysUpTo
  <2>3. conninfo' = conninfo
    BY <2>1 DEF conninfo, Printed, Argument
  <2>4. Parameters(Settings(conninfo))' = Parameters(Settings(conninfo))
    BY <2>3 DEF Parameters, Settings
  <2> QED
    BY <2>1, <2>2, <2>4 DEF ConfigInv
<1>6. CASE Done \/ UNCHANGED configVars
  <2>1. /\ lines' = lines /\ rest' = rest /\ m_config_content' = m_config_content
        /\ phase' = phase /\ asked' = asked
    BY <1>6 DEF Done, configVars
  <2>2. conninfo' = conninfo
    BY <2>1 DEF conninfo, Printed, Argument
  <2>3. LinesFit' = LinesFit
    BY <2>1 DEF LinesFit
  <2>4. \A n : HasRead(n) => HasRead(n)'
    BY <2>1 DEF HasRead, SaysUpTo, FileTails
  <2>5. \A k : SaysUpTo(m_config_content, Len(lines), k)
                => SaysUpTo(m_config_content, Len(lines), k)'
    BY <2>1 DEF SaysUpTo
  <2>6. Parameters(Settings(conninfo))' = Parameters(Settings(conninfo))
    BY <2>2 DEF Parameters, Settings
  <2> QED
    BY <2>1, <2>3, <2>4, <2>5, <2>6 DEF ConfigInv
<1> QED
  BY <1>1, <1>2, <1>3, <1>4, <1>5, <1>6 DEF ConfigNext

\* So it always holds (config_file.c:87-187, db.c:117-136).
THEOREM ConfigInvariant == ConfigSpec => []ConfigInv
BY ConfigInvInit, ConfigInvNext, PTL DEF ConfigSpec

\* Whatever is in the file, as long as its lines fit the buffer, each setting is
\* what the last line about it says, or its default (config_file.c:87-187).
THEOREM ReadsWhatIsMeantTheorem == ConfigSpec => []ReadsWhatIsMeant
<1>1. ConfigInv => ReadsWhatIsMeant
  BY SaysWhatIsMeant DEF ConfigInv, ReadsWhatIsMeant
<1> QED
  BY <1>1, ConfigInvariant, PTL
-----------------------------------------------------------------------------
(* The text that is printed for libpq.                                     *)

\* A recursion that only looks further on has a solution: it is found from the
\* end.
LEMMA LooksOn ==
    ASSUME NEW M \in Nat, NEW here, NEW next
    PROVE  \E f : f = [i \in 1..M |-> IF next[i] \in (i + 1)..M THEN here[i] \o f[next[i]]
                                      ELSE here[i]]
<1> DEFINE At(r, i) == IF next[i] \in (i + 1)..M THEN here[i] \o r[next[i]] ELSE here[i]
           R == {d \in 0..M : \E r : \A i \in (M - d + 1)..M : r[i] = At(r, i)}
<1>1. 0 \in R
  <2>1. \A i \in (M - 0 + 1)..M : FALSE
    OBVIOUS
  <2> QED
    BY <2>1
<1>2. \A d \in 1..M : d - 1 \in R => d \in R
  <2> TAKE d \in 1..M
  <2> HAVE d - 1 \in R
  <2> DEFINE n == M - d + 1
  <2>1. n \in 1..M /\ M - (d - 1) + 1 = n + 1 /\ d \in 0..M
    OBVIOUS
  <2> HIDE DEF n, At
  <2>2. PICK r : \A i \in (n + 1)..M : r[i] = At(r, i)
    BY <2>1
  <2> DEFINE more == [i \in n..M |-> IF i = n THEN At(r, n) ELSE r[i]]
  <2>3. \A i \in (n + 1)..M : i \in n..M /\ i # n
    BY <2>1
  <2>4. n \in n..M
    BY <2>1
  <2>5. more[n] = At(r, n) /\ \A i \in (n + 1)..M : more[i] = r[i]
    BY <2>3, <2>4, Zenon
  <2> HIDE DEF more
  <2>6. ASSUME NEW i \in n..M PROVE more[i] = At(more, i)
    <3>1. \A j \in (i + 1)..M : more[j] = r[j]
      BY <2>1, <2>5
    <3>2. At(more, i) = At(r, i)
      BY <3>1 DEF At
    <3>3. i = n \/ i \in (n + 1)..M
      BY <2>1
    <3> QED
      BY <2>2, <2>5, <3>2, <3>3
  <2>7. \A i \in (M - d + 1)..M : more[i] = At(more, i)
    BY <2>6 DEF n
  <2> QED
    BY <2>1, <2>7
<1>3. M \in R
  <2> HIDE DEF R
  <2>1. M \in 0..M
    OBVIOUS
  <2>2. \A i \in 0..M : i \in R
    BY <1>1, <1>2, UpwardsTo, Zenon
  <2> QED
    BY <2>1, <2>2
<1>4. PICK r : \A i \in (M - M + 1)..M : r[i] = At(r, i)
  BY <1>3
<1>5. M - M + 1 = 1
  OBVIOUS
<1> DEFINE f == [i \in 1..M |-> r[i]]
<1>6. ASSUME NEW i \in 1..M PROVE r[i] = At(f, i)
  <2>1. \A j \in (i + 1)..M : f[j] = r[j]
    OBVIOUS
  <2> HIDE DEF f
  <2>2. At(f, i) = At(r, i)
    BY <2>1
  <2> QED
    BY <1>4, <1>5, <2>2
<1>7. f = [i \in 1..M |-> At(f, i)]
  BY <1>6, Zenon
<1> QED
  BY <1>7

\* What is behind anything but a backslash is not escaped.
LEMMA NotEscaped ==
    ASSUME NEW s, NEW i \in Nat, s[i - 1] # BS
    PROVE  ~Escaped(s, i)
<1>1. ASSUME NEW n \in 1..(i - 1), \A j \in (i - n)..(i - 1) : s[j] = BS
      PROVE  FALSE
  <2>1. i - 1 \in (i - n)..(i - 1)
    OBVIOUS
  <2> QED
    BY <1>1, <2>1
<1> QED
  BY <1>1 DEF Escaped

\* FirstBare is the one place with what it asks for.
LEMMA FirstBareIs ==
    ASSUME NEW s, Len(s) \in Nat, NEW i \in 1..(Len(s) + 1), NEW token,
           NEW j \in i..(Len(s) + 1), j = Len(s) + 1 \/ (s[j] = token /\ ~Escaped(s, j)),
           \A k \in i..(j - 1) : s[k] # token \/ Escaped(s, k)
    PROVE  FirstBare(s, i, token) = j
<1> DEFINE Bare(m) == s[m] = token /\ ~Escaped(s, m)
           Is(m) == /\ m = Len(s) + 1 \/ Bare(m)
                    /\ \A k \in i..(m - 1) : ~Bare(k)
<1>1. FirstBare(s, i, token) = CHOOSE m \in i..(Len(s) + 1) : Is(m)
  <2>1. \A m : Is(m) <=> /\ m = Len(s) + 1 \/ (s[m] = token /\ ~Escaped(s, m))
                        /\ \A k \in i..(m - 1) : s[k] # token \/ Escaped(s, k)
    OBVIOUS
  <2> HIDE DEF Is
  <2> QED
    BY <2>1 DEF FirstBare
<1>2. Is(j)
  OBVIOUS
<1> HIDE DEF Bare
<1>3. ASSUME NEW m \in i..(Len(s) + 1), Is(m) PROVE m = j
  <2>1. CASE m < j
    <3>1. m \in i..(j - 1) /\ m # Len(s) + 1
      BY <2>1
    <3> QED
      BY <1>2, <1>3, <3>1
  <2>2. CASE j < m
    <3>1. j \in i..(m - 1) /\ j # Len(s) + 1
      BY <2>2
    <3> QED
      BY <1>2, <1>3, <3>1
  <2> QED
    BY <2>1, <2>2
<1> HIDE DEF Is
<1> QED
  BY <1>1, <1>2, <1>3

\* There is always one.
LEMMA FirstBareExists ==
    ASSUME NEW s, Len(s) \in Nat, NEW i \in 1..(Len(s) + 1), NEW token
    PROVE  FirstBare(s, i, token) \in i..(Len(s) + 1)
<1> DEFINE T == {j \in i..(Len(s) + 1) : j = Len(s) + 1 \/ (s[j] = token /\ ~Escaped(s, j))}
<1>1. T \subseteq Nat /\ Len(s) + 1 \in T
  OBVIOUS
<1>2. PICK j \in T : \A k \in T : j <= k
  BY <1>1, LeastOf
<1>3. ASSUME NEW k \in i..(j - 1) PROVE s[k] # token \/ Escaped(s, k)
  <2>1. k \in i..(Len(s) + 1) /\ ~(j <= k)
    BY <1>1
  <2> QED
    BY <1>2, <2>1
<1>4. j \in i..(Len(s) + 1) /\ (j = Len(s) + 1 \/ (s[j] = token /\ ~Escaped(s, j)))
  OBVIOUS
<1> QED
  BY <1>3, <1>4, FirstBareIs

\* A text without backslashes is read as it stands.
LEMMA UnescapedIs ==
    ASSUME NEW S, NEW s \in Seq(S), \A j \in 1..Len(s) : s[j] # BS
    PROVE  Unescaped(s) = s
<1> DEFINE N == Len(s)
           ss == [j \in 1..N |-> <<s[j]>>]
<1>1. N \in Nat /\ DOMAIN s = 1..N /\ \A j \in 1..N : s[j] \in S
  BY LenProperties, ElementOfSeq
<1>2. Unescaped(s) = FlattenSeq(ss)
  BY <1>1 DEF Unescaped
<1>3. \A j \in 1..N : ss[j] = <<s[j]>>
  OBVIOUS
<1>4. \A j \in 1..N : <<s[j]>> \in Seq(S) /\ Len(<<s[j]>>) = 1 /\ <<s[j]>>[1] = s[j]
  BY <1>1, OneIs
<1>5. ss \in Seq(Seq(S)) /\ Len(ss) = N
  <2>1. DOMAIN ss = 1..N
    OBVIOUS
  <2> HIDE DEF N
  <2>2. ss \in [1..N -> Seq(S)]
    BY <1>4
  <2> HIDE DEF ss
  <2>3. ss \in Seq(Seq(S))
    BY <1>1, <2>2
  <2> QED
    BY <1>1, <2>1, <2>3, LenProperties
<1> HIDE DEF ss, N
<1>6. PICK at \in [0..N -> Seq(S)] : PiecesUpTo(at, ss, N) /\ FlattenSeq(ss) = at[N]
  BY <1>5, Flattened
<1> DEFINE R == {n \in 0..N : Len(at[n]) = n /\ \A k \in 1..n : at[n][k] = s[k]}
<1>7. 0 \in R
  <2>1. at[0] = <<>>
    BY <1>6 DEF PiecesUpTo
  <2>2. Len(<<>>) = 0 /\ 0 \in 0..N /\ \A k \in 1..0 : FALSE
    BY <1>1
  <2> QED
    BY <2>1, <2>2
<1>8. \A n \in 1..N : n - 1 \in R => n \in R
  <2> TAKE n \in 1..N
  <2> HAVE n - 1 \in R
  <2>1. n - 1 \in 0..N /\ n \in 0..N
    BY <1>1
  <2>2. /\ at[n - 1] \in Seq(S) /\ Len(at[n - 1]) = n - 1
        /\ \A k \in 1..(n - 1) : at[n - 1][k] = s[k]
    BY <1>6, <2>1
  <2>3. at[n] = at[n - 1] \o <<s[n]>>
    BY <1>3, <1>6 DEF PiecesUpTo
  <2> DEFINE w == at[n]
             u == at[n - 1]
             one == <<s[n]>>
  <2>4. one \in Seq(S) /\ Len(one) = 1 /\ one[1] = s[n]
    BY <1>4
  <2>5. u \in Seq(S) /\ Len(u) = n - 1 /\ w = u \o one /\ \A k \in 1..(n - 1) : u[k] = s[k]
    BY <2>2, <2>3
  <2> HIDE DEF w, u, one
  <2>6. Len(w) = n /\ \A k \in 1..n : w[k] = IF k <= n - 1 THEN u[k] ELSE one[k - (n - 1)]
    <3>1. /\ Len(w) = Len(u) + Len(one)
          /\ \A k \in 1..(Len(u) + Len(one)) :
                 w[k] = IF k <= Len(u) THEN u[k] ELSE one[k - Len(u)]
      BY <2>4, <2>5, ConcatProperties
    <3>2. (n - 1) + 1 = n
      OBVIOUS
    <3> QED
      BY <2>4, <2>5, <3>1, <3>2
  <2>7. ASSUME NEW k \in 1..n PROVE w[k] = s[k]
    <3>1. k \in 1..(n - 1) \/ (k = n /\ k - (n - 1) = 1 /\ ~(k <= n - 1))
      OBVIOUS
    <3> QED
      BY <2>4, <2>5, <2>6, <3>1
  <2> QED
    BY <2>1, <2>6, <2>7 DEF w
<1>9. N \in R
  <2> HIDE DEF R
  <2>1. N \in 0..N
    BY <1>1
  <2>2. \A n \in 0..N : n \in R
    BY <1>1, <1>7, <1>8, UpwardsTo, Zenon
  <2> QED
    BY <2>1, <2>2
<1>10. at[N] \in Seq(S) /\ Len(at[N]) = N /\ \A k \in 1..N : at[N][k] = s[k]
  BY <1>1, <1>6, <1>9
<1>11. at[N] = s
  BY <1>10, SeqEqual DEF N
<1> QED
  BY <1>2, <1>6, <1>11

\* The places that libpq finds from place i on.
NameAt(text, i) == FirstOf(text, i, Range(text) \ {SP})

NameEnd(text, i) == FirstOf(text, NameAt(text, i), {SP, EQ})

EqualsAt(text, i) == FirstOf(text, NameEnd(text, i), Range(text) \ {SP})

ValueAt(text, i) == FirstOf(text, EqualsAt(text, i) + 1, Range(text) \ {SP})

Quoted(text, i) == ValueAt(text, i) <= Len(text) /\ text[ValueAt(text, i)] = QUOTE

ValueFrom(text, i) == IF Quoted(text, i) THEN ValueAt(text, i) + 1 ELSE ValueAt(text, i)

ValueEnd(text, i) ==
    FirstBare(text, ValueFrom(text, i), IF Quoted(text, i) THEN QUOTE ELSE SP)

Behind(text, i) == IF Quoted(text, i) THEN ValueEnd(text, i) + 1 ELSE ValueEnd(text, i)

\* Nothing is left.
NoName(text, i) == NameAt(text, i) > Len(text)

\* What is there is not a setting.
NoSetting(text, i) ==
    \/ EqualsAt(text, i) > Len(text)
    \/ text[EqualsAt(text, i)] # EQ
    \/ SubSeq(text, NameAt(text, i), NameEnd(text, i) - 1) \notin {<<k>> : k \in Range(DbKeys)}
    \/ Quoted(text, i) /\ ValueEnd(text, i) > Len(text)

\* The setting that is read.
SettingAt(text, i) ==
    [key |-> text[NameAt(text, i)],
     value |-> Unescaped(SubSeq(text, ValueFrom(text, i), ValueEnd(text, i) - 1))]

\* f is what is read from each place on.
ReadFrom(f, text) ==
    f = [i \in 1..(Len(text) + 1) |->
            IF NoName(text, i) THEN <<>>
            ELSE IF NoSetting(text, i) THEN <<[key |-> REFUSED, value |-> <<>>]>>
            ELSE <<SettingAt(text, i)>> \o f[Behind(text, i)]]

\* Settings is what is read from the first place on.
LEMMA SettingsAre ==
    ASSUME NEW text, Len(text) \in Nat
    PROVE  \E f : ReadFrom(f, text) /\ Settings(text) = f[1]
<1> DEFINE T == Len(text)
           Goes(i) == ~NoName(text, i) /\ ~NoSetting(text, i)
           next == [i \in 1..(T + 1) |-> IF Goes(i) THEN Behind(text, i) ELSE 0]
           here == [i \in 1..(T + 1) |->
                        IF NoName(text, i) THEN <<>>
                        ELSE IF NoSetting(text, i) THEN <<[key |-> REFUSED, value |-> <<>>]>>
                        ELSE <<SettingAt(text, i)>>]
<1>1. ASSUME NEW i \in 1..(T + 1), Goes(i)
      PROVE  Behind(text, i) \in (i + 1)..(T + 1)
  <2>1. NameAt(text, i) \in i..(T + 1)
    BY FirstOfExists DEF NameAt
  <2>2. NameAt(text, i) \in 1..(T + 1)
    BY <2>1
  <2>3. NameEnd(text, i) \in NameAt(text, i)..(T + 1)
    BY <2>2, FirstOfExists DEF NameEnd
  <2>4. NameEnd(text, i) \in 1..(T + 1)
    BY <2>2, <2>3
  <2>5. EqualsAt(text, i) \in NameEnd(text, i)..(T + 1)
    BY <2>4, FirstOfExists DEF EqualsAt
  <2>6. EqualsAt(text, i) + 1 \in 1..(T + 1)
    BY <1>1, <2>4, <2>5 DEF NoSetting
  <2>7. ValueAt(text, i) \in (EqualsAt(text, i) + 1)..(T + 1)
    BY <2>6, FirstOfExists DEF ValueAt
  <2>8. ValueAt(text, i) \in 1..(T + 1)
    BY <2>6, <2>7
  <2>9. i + 1 <= ValueAt(text, i)
    BY <2>1, <2>3, <2>5, <2>7
  <2>10. CASE Quoted(text, i)
    <3>1. /\ ValueFrom(text, i) = ValueAt(text, i) + 1
          /\ ValueFrom(text, i) \in 1..(T + 1)
      BY <2>8, <2>10 DEF Quoted, ValueFrom
    <3>2. ValueEnd(text, i) \in ValueFrom(text, i)..(T + 1)
      BY <3>1, FirstBareExists DEF ValueEnd
    <3>3. ~(ValueEnd(text, i) > T)
      BY <1>1, <2>10 DEF NoSetting
    <3>4. Behind(text, i) = ValueEnd(text, i) + 1
      BY <2>10 DEF Behind
    <3> QED
      BY <2>8, <2>9, <3>1, <3>2, <3>3, <3>4
  <2>11. CASE ~Quoted(text, i)
    <3>1. ValueFrom(text, i) = ValueAt(text, i) /\ Behind(text, i) = ValueEnd(text, i)
      BY <2>11 DEF ValueFrom, Behind
    <3>2. ValueEnd(text, i) \in ValueFrom(text, i)..(T + 1)
      BY <2>8, <3>1, FirstBareExists DEF ValueEnd
    <3> QED
      BY <2>8, <2>9, <3>1, <3>2
  <2> QED
    BY <2>10, <2>11
<1>2. T + 1 \in Nat
  OBVIOUS
<1>3. PICK f : f = [i \in 1..(T + 1) |->
                        IF next[i] \in (i + 1)..(T + 1) THEN here[i] \o f[next[i]]
                        ELSE here[i]]
  <2> HIDE DEF next, here, T
  <2> QED
    BY <1>2, LooksOn
<1>4. ASSUME NEW i \in 1..(T + 1)
      PROVE  (IF next[i] \in (i + 1)..(T + 1) THEN here[i] \o f[next[i]] ELSE here[i])
                 = IF NoName(text, i) THEN <<>>
                   ELSE IF NoSetting(text, i) THEN <<[key |-> REFUSED, value |-> <<>>]>>
                   ELSE <<SettingAt(text, i)>> \o f[Behind(text, i)]
  <2>1. next[i] = (IF Goes(i) THEN Behind(text, i) ELSE 0) /\ ~(0 \in (i + 1)..(T + 1))
    OBVIOUS
  <2>2. here[i] = IF NoName(text, i) THEN <<>>
                  ELSE IF NoSetting(text, i) THEN <<[key |-> REFUSED, value |-> <<>>]>>
                  ELSE <<SettingAt(text, i)>>
    OBVIOUS
  <2> HIDE DEF next, here, T
  <2> QED
    BY <1>1, <2>1, <2>2
<1>5. ReadFrom(f, text)
  <2> HIDE DEF next, here
  <2> QED
    BY <1>3, <1>4 DEF ReadFrom
<1>6. Settings(text) = (CHOOSE g : ReadFrom(g, text))[1]
  BY DEF Settings, ReadFrom, NoName, NoSetting, SettingAt, Behind, ValueEnd, ValueFrom,
         Quoted, ValueAt, EqualsAt, NameEnd, NameAt
<1>7. ReadFrom(CHOOSE g : ReadFrom(g, text), text)
  BY <1>5, Zenon
<1> QED
  BY <1>6, <1>7

\* The text ends with t.
EndsWith(text, t) ==
    /\ t \in Seq(Tokens)
    /\ Len(t) <= Len(text)
    /\ \A j \in 1..Len(t) : text[Len(text) - Len(t) + j] = t[j]

\* Then it ends with the end of t.
LEMMA EndsWithTail ==
    ASSUME NEW text \in Seq(Tokens), NEW s \in Seq(Tokens), NEW t \in Seq(Tokens), NEW w,
           w = s \o t, EndsWith(text, w)
    PROVE  EndsWith(text, t)
<1> DEFINE T == Len(text)
           m == Len(s)
           n == Len(t)
<1>1. T \in Nat /\ m \in Nat /\ n \in Nat
  BY LenProperties
<1>2. /\ w \in Seq(Tokens) /\ Len(w) = m + n
      /\ \A j \in 1..(m + n) : w[j] = IF j <= m THEN s[j] ELSE t[j - m]
  BY ConcatProperties
<1> HIDE DEF T, m, n
<1>3. m + n <= T /\ \A j \in 1..(m + n) : text[T - (m + n) + j] = w[j]
  BY <1>2 DEF EndsWith, T
<1>4. ASSUME NEW j \in 1..n PROVE text[T - n + j] = t[j]
  <2>1. /\ m + j \in 1..(m + n) /\ ~(m + j <= m) /\ (m + j) - m = j
        /\ T - (m + n) + (m + j) = T - n + j
    BY <1>1
  <2>2. text[T - (m + n) + (m + j)] = w[m + j]
    BY <1>3, <2>1
  <2>3. w[m + j] = t[j]
    BY <1>2, <2>1
  <2> QED
    BY <2>1, <2>2, <2>3
<1> QED
  BY <1>1, <1>3, <1>4 DEF EndsWith, T, n

\* A setting as it is printed: a blank but for the first one, the key, the = and
\* the value.
Setting(blank, k, value) == blank \o <<k, EQ>> \o value

\* A setting and what follows it.
SettingAnd(blank, k, value, t) == Setting(blank, k, value) \o t

\* w is r and then s.
IsJoined(w, r, a, s, c) ==
    /\ w \in Seq(Tokens) /\ Len(w) = a + c
    /\ \A j \in 1..(a + c) : w[j] = IF j <= a THEN r[j] ELSE s[j - a]

\* That is what concatenation does.
LEMMA JoinedIs ==
    ASSUME NEW r, NEW s, r \in Seq(Tokens), s \in Seq(Tokens), NEW a, a = Len(r),
           NEW c, c = Len(s), NEW w, w = r \o s
    PROVE  IsJoined(w, r, a, s, c)
BY ConcatProperties DEF IsJoined

\* What a text w that begins with a setting and goes on with t is made of.
BeginsWith(w, b, k, value, v, t, n) ==
    /\ Len(w) = b + 2 + v + n
    /\ b = 1 => w[1] = SP
    /\ w[b + 1] = k /\ w[b + 2] = EQ
    /\ \A j \in 1..v : w[b + 2 + j] = value[j]
    /\ \A j \in 1..n : w[b + 2 + v + j] = t[j]

\* It is made of that.
LEMMA SettingHas ==
    ASSUME NEW blank, NEW k, NEW value, NEW t, NEW w, NEW b, NEW v, NEW n,
           blank \in Seq(Tokens), k \in Keys, value \in Seq(Tokens), t \in Seq(Tokens),
           w = SettingAnd(blank, k, value, t),
           b \in {0, 1}, b = Len(blank), b = 1 => blank[1] = SP,
           v = Len(value), n = Len(t)
    PROVE  Setting(blank, k, value) \in Seq(Tokens) /\ BeginsWith(w, b, k, value, v, t, n)
<1> DEFINE name == <<k, EQ>>
           s == blank \o name
           u == s \o value
<1>1. v \in Nat /\ n \in Nat
  BY LenProperties
<1>2. name \in Seq(Tokens) /\ Len(name) = 2 /\ name[1] = k /\ name[2] = EQ
  <2>1. k \in Tokens /\ EQ \in Tokens
    BY DEF Tokens
  <2> QED
    BY <2>1
<1> HIDE DEF name
<1>3. u = Setting(blank, k, value)
  BY DEF Setting, name
<1> HIDE DEF s, u
<1>4. /\ s \in Seq(Tokens) /\ Len(s) = b + 2
      /\ \A j \in 1..(b + 2) : s[j] = IF j <= b THEN blank[j] ELSE name[j - b]
  <2>1. s = blank \o name
    BY DEF s
  <2>2. IsJoined(s, blank, b, name, 2)
    BY <1>2, <2>1, JoinedIs
  <2> QED
    BY <2>2 DEF IsJoined
<1>5. /\ u \in Seq(Tokens) /\ Len(u) = (b + 2) + v
      /\ \A j \in 1..((b + 2) + v) : u[j] = IF j <= b + 2 THEN s[j] ELSE value[j - (b + 2)]
  <2>1. u = s \o value
    BY DEF u
  <2>2. IsJoined(u, s, b + 2, value, v)
    BY <1>4, <2>1, JoinedIs
  <2> QED
    BY <2>2 DEF IsJoined
<1>6. /\ Len(w) = ((b + 2) + v) + n
      /\ \A j \in 1..(((b + 2) + v) + n) :
             w[j] = IF j <= (b + 2) + v THEN u[j] ELSE t[j - ((b + 2) + v)]
  <2>1. w = u \o t
    BY <1>3 DEF SettingAnd
  <2>2. IsJoined(w, u, (b + 2) + v, t, n)
    BY <1>5, <2>1, JoinedIs
  <2> QED
    BY <2>2 DEF IsJoined
<1>7. ASSUME NEW j \in 1..(b + 2) PROVE w[j] = IF j <= b THEN blank[j] ELSE name[j - b]
  <2>1. /\ j \in 1..((b + 2) + v) /\ j \in 1..(((b + 2) + v) + n) /\ j <= b + 2
        /\ j <= (b + 2) + v
    BY <1>1
  <2> QED
    BY <1>4, <1>5, <1>6, <2>1
<1>8. b = 1 => w[1] = SP
  <2>1. b = 1 => 1 \in 1..(b + 2) /\ 1 <= b
    OBVIOUS
  <2>2. b = 1 => w[1] = blank[1]
    BY <1>7, <2>1
  <2> QED
    BY <2>2
<1>9. w[b + 1] = k /\ w[b + 2] = EQ
  <2>1. /\ b + 1 \in 1..(b + 2) /\ ~(b + 1 <= b) /\ (b + 1) - b = 1
        /\ b + 2 \in 1..(b + 2) /\ ~(b + 2 <= b) /\ (b + 2) - b = 2
    BY <1>1
  <2> QED
    BY <1>2, <1>7, <2>1
<1>10. ASSUME NEW j \in 1..v PROVE w[b + 2 + j] = value[j]
  <2>1. /\ b + 2 + j \in 1..((b + 2) + v) /\ b + 2 + j \in 1..(((b + 2) + v) + n)
        /\ ~(b + 2 + j <= b + 2) /\ b + 2 + j <= (b + 2) + v /\ (b + 2 + j) - (b + 2) = j
    BY <1>1
  <2> QED
    BY <1>5, <1>6, <2>1
<1>11. ASSUME NEW j \in 1..n PROVE w[b + 2 + v + j] = t[j]
  <2>1. /\ b + 2 + v + j \in 1..(((b + 2) + v) + n)
        /\ ~(b + 2 + v + j <= (b + 2) + v) /\ (b + 2 + v + j) - ((b + 2) + v) = j
    BY <1>1
  <2> QED
    BY <1>6, <2>1
<1>12. Setting(blank, k, value) \in Seq(Tokens)
  BY <1>3, <1>5
<1>13. Len(w) = b + 2 + v + n
  BY <1>1, <1>6
<1> HIDE DEF u
<1> QED
  BY <1>8, <1>9, <1>10, <1>11, <1>12, <1>13, Zenon DEF BeginsWith

\* Where the = of a setting is in the text that ends with it, and what is around.
SettingStands(text, p, e, k, value, q) ==
    /\ text \in Seq(Tokens) /\ k \in Keys /\ value \in Seq(Tokens)
    /\ e \in 2..Len(text) /\ p \in {e - 2, e - 1} \ {0}
    /\ p = e - 2 => text[p] = SP
    /\ text[e - 1] = k /\ text[e] = EQ
    /\ \A j \in 1..Len(value) : text[e + j] = value[j]
    /\ q = e + Len(value) + 1
    /\ q \in 1..(Len(text) + 1)
    /\ q = Len(text) + 1 \/ text[q] = SP

\* libpq reads that setting, and goes on behind it.
LEMMA SettingIsRead ==
    ASSUME NEW text, NEW p, NEW e, NEW k \in Range(DbKeys), NEW value, NEW q,
           SettingStands(text, p, e, k, value, q), Plain(value)
    PROVE  /\ ~NoName(text, p) /\ ~NoSetting(text, p)
           /\ SettingAt(text, p) = [key |-> k, value |-> value]
           /\ Behind(text, p) = q
<1> DEFINE T == Len(text)
           v == Len(value)
           words == Range(text) \ {SP}
<1>1. /\ text \in Seq(Tokens) /\ k \in Keys /\ value \in Seq(Tokens)
      /\ p = e - 2 => text[p] = SP
      /\ text[e - 1] = k /\ text[e] = EQ
      /\ \A j \in 1..v : text[e + j] = value[j]
      /\ q = T + 1 \/ text[q] = SP
  BY DEF SettingStands
<1>2. T \in Nat /\ v \in Nat /\ DOMAIN text = 1..T
  BY <1>1, LenProperties
<1>3. /\ v # 0 /\ value[1] # QUOTE
      /\ \A j \in 1..v : value[j] # SP
      /\ \A j \in 1..v : value[j] # BS
  BY <1>1, <1>2, EmptySeq DEF Plain, Contains
<1> HIDE DEF T, v
<1>4. e \in Nat /\ p \in Nat /\ q \in Nat
  BY <1>2 DEF SettingStands, T, v
<1>5. /\ 2 <= e /\ e <= T /\ (p = e - 2 \/ p = e - 1) /\ 1 <= p
      /\ q = e + v + 1 /\ q <= T + 1 /\ 1 <= v
  BY <1>2, <1>3, <1>4 DEF SettingStands, T, v
<1>6. k # SP /\ k # EQ /\ EQ # SP
  <2>1. k # SP /\ k # EQ
    BY <1>1, KeysAssumption
  <2> QED
    BY <2>1 DEF EQ, SP
<1>7. \A j \in 1..T : text[j] # SP => text[j] \in words
  BY <1>2 DEF Range
<1> HIDE DEF words
<1>8. SP \notin words
  BY DEF words
<1>9. /\ p \in 1..(T + 1) /\ e - 1 \in p..(T + 1) /\ e - 1 \in 1..T
      /\ e - 1 \in 1..(T + 1) /\ e \in (e - 1)..(T + 1) /\ e \in 1..(T + 1) /\ e \in 1..T
      /\ e \in e..(T + 1) /\ e + 1 \in 1..(T + 1) /\ e + 1 \in (e + 1)..(T + 1)
      /\ e + 1 \in 1..T /\ q \in (e + 1)..(T + 1) /\ 1 \in 1..v
  BY <1>2, <1>4, <1>5
<1>10. NameAt(text, p) = e - 1
  <2>1. text[e - 1] \in words
    BY <1>1, <1>6, <1>7, <1>9
  <2>2. ASSUME NEW j \in p..((e - 1) - 1) PROVE text[j] \notin words
    <3>1. p = e - 2 /\ j = p
      BY <1>4, <1>5
    <3> QED
      BY <1>1, <1>8, <3>1
  <2> QED
    BY <1>2, <1>9, <2>1, <2>2, FirstOfIs DEF NameAt, words, T
<1>11. NameEnd(text, p) = e
  <2> DEFINE marks == {SP, EQ}
  <2>1. ASSUME NEW j \in (e - 1)..(e - 1) PROVE text[j] \notin marks
    <3>1. j = e - 1
      BY <1>4
    <3> QED
      BY <1>1, <1>6, <3>1
  <2>2. text[e] \in marks
    BY <1>1
  <2>3. NameEnd(text, p) = FirstOf(text, e - 1, marks)
    BY <1>10 DEF NameEnd
  <2> HIDE DEF marks
  <2>4. FirstOf(text, e - 1, marks) = e
    BY <1>2, <1>9, <2>1, <2>2, FirstOfIs DEF T
  <2> QED
    BY <2>3, <2>4
<1>12. EqualsAt(text, p) = e
  <2>1. text[e] \in words
    BY <1>1, <1>6, <1>7, <1>9
  <2>2. \A j \in e..(e - 1) : FALSE
    BY <1>4
  <2> QED
    BY <1>2, <1>9, <1>11, <2>1, <2>2, FirstOfIs DEF EqualsAt, words, T
<1>13. ValueAt(text, p) = e + 1
  <2>1. text[e + 1] \in words
    BY <1>1, <1>3, <1>7, <1>9
  <2>2. \A j \in (e + 1)..((e + 1) - 1) : FALSE
    BY <1>4
  <2> QED
    BY <1>2, <1>9, <1>12, <2>1, <2>2, FirstOfIs DEF ValueAt, words, T
<1>14. ~Quoted(text, p)
  BY <1>1, <1>3, <1>9, <1>13 DEF Quoted
<1>15. ValueFrom(text, p) = e + 1
  BY <1>13, <1>14 DEF ValueFrom
<1>16. ValueEnd(text, p) = q
  <2>1. ASSUME NEW j \in (e + 1)..(q - 1) PROVE text[j] # SP
    <3>1. j - e \in 1..v /\ e + (j - e) = j
      BY <1>2, <1>4, <1>5
    <3> QED
      BY <1>1, <1>3, <3>1
  <2>2. ~Escaped(text, q)
    <3>1. v \in 1..v /\ e + v = q - 1
      BY <1>2, <1>4, <1>5
    <3>2. text[q - 1] # BS
      BY <1>1, <1>3, <3>1
    <3> QED
      BY <1>4, <3>2, NotEscaped
  <2>3. ValueEnd(text, p) = FirstBare(text, e + 1, SP)
    BY <1>14, <1>15 DEF ValueEnd
  <2> QED
    BY <1>1, <1>2, <1>9, <2>1, <2>2, <2>3, FirstBareIs DEF T
<1>17. Behind(text, p) = q
  BY <1>14, <1>16 DEF Behind
<1>18. SubSeq(text, e - 1, e - 1) = <<k>>
  <2> DEFINE c == e - 1
             name == SubSeq(text, c, c)
  <2>1. /\ c \in 1..(Len(text) + 1) /\ c \in (c - 1)..Len(text)
        /\ c - c + 1 = 1 /\ c + 1 - 1 = c /\ 1 \in 1..1 /\ text[c] = k
    BY <1>1, <1>2, <1>4, <1>9 DEF T
  <2> HIDE DEF c
  <2>2. name \in Seq(Tokens) /\ Len(name) = 1 /\ name[1] = k
    BY <1>1, <2>1, PartOf
  <2> HIDE DEF name
  <2>3. k \in Tokens
    BY <1>1 DEF Tokens
  <2>4. <<k>> \in Seq(Tokens) /\ Len(<<k>>) = 1 /\ <<k>>[1] = k
    BY <2>3, OneIs
  <2>5. name = <<k>>
    BY <2>2, <2>4, SeqEqual
  <2> QED
    BY <2>5 DEF name, c
<1>19. SubSeq(text, e + 1, q - 1) = value
  <2> DEFINE part == SubSeq(text, e + 1, q - 1)
  <2>1. /\ e + 1 \in 1..(Len(text) + 1) /\ q - 1 \in ((e + 1) - 1)..Len(text)
        /\ (q - 1) - (e + 1) + 1 = v
    BY <1>2, <1>4, <1>5, <1>9 DEF T
  <2>2. \A j \in 1..v : (e + 1) + j - 1 = e + j
    BY <1>2, <1>4
  <2>3. /\ part \in Seq(Tokens) /\ Len(part) = (q - 1) - (e + 1) + 1
        /\ \A j \in 1..((q - 1) - (e + 1) + 1) : part[j] = text[(e + 1) + j - 1]
    BY <1>1, <2>1, PartOf
  <2> HIDE DEF part
  <2>4. part \in Seq(Tokens) /\ Len(part) = v /\ \A j \in 1..v : part[j] = value[j]
    BY <1>1, <2>1, <2>2, <2>3
  <2>5. part = value
    BY <1>1, <2>4, SeqEqual DEF v
  <2> QED
    BY <2>5 DEF part
<1>20. ~NoName(text, p)
  BY <1>2, <1>9, <1>10 DEF NoName, T
<1>21. ~NoSetting(text, p)
  <2>1. ~(e > Len(text))
    BY <1>2, <1>4, <1>5 DEF T
  <2>2. text[EqualsAt(text, p)] = EQ /\ ~(EqualsAt(text, p) > Len(text))
    BY <1>1, <1>12, <2>1
  <2>3. SubSeq(text, NameAt(text, p), NameEnd(text, p) - 1) = <<k>>
    BY <1>10, <1>11, <1>18
  <2>4. <<k>> \in {<<j>> : j \in Range(DbKeys)}
    OBVIOUS
  <2> QED
    BY <1>14, <2>2, <2>3, <2>4, Zenon DEF NoSetting
<1>22. SettingAt(text, p) = [key |-> k, value |-> value]
  <2>1. Unescaped(value) = value
    BY <1>1, <1>3, UnescapedIs DEF v
  <2> QED
    BY <1>1, <1>10, <1>15, <1>16, <1>19, <2>1 DEF SettingAt
<1> QED
  BY <1>17, <1>20, <1>21, <1>22, Zenon

\* The places p, e and q of a setting, its = and what follows it, in a text of
\* T tokens that ends with it and n more.
Around(b, v, n, T, p, q, e) ==
    /\ p \in Nat /\ p \in 1..(T + 1) /\ T - (b + 2 + v + n) = p - 1
    /\ e \in 2..T /\ q = e + v + 1 /\ q \in 1..(T + 1)
    /\ 1 \in 1..(b + 2 + v + n) /\ p - 1 + 1 = p
    /\ b + 1 \in 1..(b + 2 + v + n) /\ p - 1 + (b + 1) = e - 1
    /\ b + 2 \in 1..(b + 2 + v + n) /\ p - 1 + (b + 2) = e
    /\ p \in {e - 2, e - 1} \ {0} /\ (p = e - 2 => b = 1)
    /\ \A j \in 1..v : b + 2 + j \in 1..(b + 2 + v + n) /\ p - 1 + (b + 2 + j) = e + j
    /\ n = 0 => q = T + 1
    /\ n # 0 => /\ b + 2 + v + 1 \in 1..(b + 2 + v + n)
               /\ p - 1 + (b + 2 + v + 1) = q /\ 1 \in 1..n

\* They are around it.
LEMMA SettingPlaces ==
    ASSUME NEW b, NEW v, NEW n, NEW T, b \in 0..1, v \in Nat, n \in Nat, T \in Nat,
           b + 2 + v + n <= T, NEW p, p = T - (b + 2 + v + n) + 1, NEW q, q = T - n + 1,
           NEW e, e = p + b + 1
    PROVE  Around(b, v, n, T, p, q, e)
BY DEF Around

\* A text that ends with w, which begins with a setting.
LEMMA SettingStandsThere ==
    ASSUME NEW text, NEW w, NEW b, NEW k, NEW value, NEW v, NEW t, NEW n, NEW T,
           BeginsWith(w, b, k, value, v, t, n), EndsWith(text, w),
           b \in {0, 1}, v \in Nat, n \in Nat, T \in Nat, T = Len(text), v = Len(value),
           text \in Seq(Tokens), k \in Keys, value \in Seq(Tokens), n # 0 => t[1] = SP,
           NEW p, p = T - Len(w) + 1, NEW q, q = T - n + 1, NEW e, e = p + b + 1
    PROVE  p \in 1..(T + 1) /\ SettingStands(text, p, e, k, value, q)
<1> DEFINE L == b + 2 + v + n
<1>1. /\ Len(w) = L
      /\ b = 1 => w[1] = SP
      /\ w[b + 1] = k /\ w[b + 2] = EQ
      /\ \A j \in 1..v : w[b + 2 + j] = value[j]
      /\ \A j \in 1..n : w[b + 2 + v + j] = t[j]
  BY Zenon DEF BeginsWith
<1>2. L <= T /\ \A j \in 1..L : text[T - L + j] = w[j]
  BY <1>1, Zenon DEF EndsWith
<1>3. p = T - L + 1
  BY <1>1, Zenon
<1>4. /\ p \in Nat /\ p \in 1..(T + 1) /\ T - L = p - 1
      /\ e \in 2..T /\ q = e + v + 1 /\ q \in 1..(T + 1)
      /\ 1 \in 1..L /\ p - 1 + 1 = p
      /\ b + 1 \in 1..L /\ p - 1 + (b + 1) = e - 1
      /\ b + 2 \in 1..L /\ p - 1 + (b + 2) = e
      /\ p \in {e - 2, e - 1} \ {0} /\ (p = e - 2 => b = 1)
      /\ \A j \in 1..v : b + 2 + j \in 1..L /\ p - 1 + (b + 2 + j) = e + j
      /\ n = 0 => q = T + 1
      /\ n # 0 => b + 2 + v + 1 \in 1..L /\ p - 1 + (b + 2 + v + 1) = q /\ 1 \in 1..n
  <2>1. b + 2 + v + n <= T /\ p = T - (b + 2 + v + n) + 1
    BY <1>2, <1>3, Zenon
  <2>2. b \in 0..1
    OBVIOUS
  <2>3. Around(b, v, n, T, p, q, e)
    BY <2>1, <2>2, SettingPlaces, Zenon
  <2> QED
    BY <2>3, Zenon DEF Around
<1> HIDE DEF L
<1>5. \A j \in 1..L : text[p - 1 + j] = w[j]
  BY <1>2, <1>4, Zenon
<1>6. text[e - 1] = k /\ text[e] = EQ
  BY <1>1, <1>4, <1>5, Zenon
<1>7. p = e - 2 => text[p] = SP
  BY <1>1, <1>4, <1>5, Zenon
<1>8. ASSUME NEW j \in 1..v PROVE text[e + j] = value[j]
  <2>1. b + 2 + j \in 1..L /\ p - 1 + (b + 2 + j) = e + j
    BY <1>4, Zenon
  <2>2. text[p - 1 + (b + 2 + j)] = w[b + 2 + j]
    BY <1>5, <2>1, Zenon
  <2>3. w[b + 2 + j] = value[j]
    BY <1>1, Zenon
  <2> QED
    BY <2>1, <2>2, <2>3, Zenon
<1>9. q = T + 1 \/ text[q] = SP
  BY <1>1, <1>4, <1>5, Zenon
<1>10. \A j \in 1..Len(value) : text[e + j] = value[j]
  BY <1>8, Zenon
<1>11. /\ e \in 2..Len(text) /\ q = e + Len(value) + 1 /\ q \in 1..(Len(text) + 1)
       /\ q = Len(text) + 1 \/ text[q] = SP
  BY <1>4, <1>9, Zenon
<1> QED
  BY <1>4, <1>6, <1>7, <1>10, <1>11, Zenon DEF SettingStands

\* w is a setting and what follows it.
IsSettingAnd(w, blank, k, value, t) ==
    /\ blank \in Seq(Tokens) /\ Len(blank) \in 0..1
    /\ Len(blank) = 1 => blank[1] = SP
    /\ k \in Keys /\ value \in Seq(Tokens) /\ t \in Seq(Tokens)
    /\ w = SettingAnd(blank, k, value, t)

\* Where the end t of a text begins.
EndAt(text, t) == Len(text) - Len(t) + 1

\* The setting stands in the text between the ends w and t.
StandsBetween(text, w, k, value, t) ==
    /\ EndAt(text, w) \in 1..(Len(text) + 1)
    /\ \E e : SettingStands(text, EndAt(text, w), e, k, value, EndAt(text, t))

\* That is how a text goes on that ends with a setting and what follows it.
LEMMA SettingGoesOn ==
    ASSUME NEW text, NEW w, NEW blank, NEW k, NEW value, NEW t, text \in Seq(Tokens),
           IsSettingAnd(w, blank, k, value, t), t = <<>> \/ t[1] = SP, EndsWith(text, w)
    PROVE  EndsWith(text, t) /\ StandsBetween(text, w, k, value, t)
<1> DEFINE T == Len(text)
           p == EndAt(text, w)
           q == EndAt(text, t)
           b == Len(blank)
           v == Len(value)
           n == Len(t)
           e == p + b + 1
<1>1. /\ blank \in Seq(Tokens) /\ b \in 0..1 /\ b \in {0, 1} /\ (b = 1 => blank[1] = SP)
      /\ k \in Keys /\ value \in Seq(Tokens) /\ t \in Seq(Tokens)
      /\ w = SettingAnd(blank, k, value, t)
  BY DEF IsSettingAnd
<1>2. T \in Nat /\ n \in Nat /\ v \in Nat
  BY <1>1, LenProperties
<1>3. n # 0 => t[1] = SP
  BY <1>1, EmptySeq
<1>4. Setting(blank, k, value) \in Seq(Tokens) /\ BeginsWith(w, b, k, value, v, t, n)
  BY <1>1, SettingHas, Zenon
<1>5. w = Setting(blank, k, value) \o t
  BY <1>1 DEF SettingAnd
<1>6. EndsWith(text, t)
  BY <1>1, <1>4, <1>5, EndsWithTail
<1>7. p = T - Len(w) + 1 /\ q = T - n + 1
  BY DEF EndAt
<1> HIDE DEF p, q
<1>8. p \in 1..(T + 1) /\ SettingStands(text, p, e, k, value, q)
  BY <1>1, <1>2, <1>3, <1>4, <1>7, SettingStandsThere, Zenon
<1> QED
  BY <1>6, <1>8, Zenon DEF StandsBetween, p, q

\* What is read from place p on is a setting and what is read from place q on.
ReadsAt(f, p, k, value, q) == f[p] = <<[key |-> k, value |-> value]>> \o f[q]

\* What is read from a setting on begins with that setting.
LEMMA ReadsSetting ==
    ASSUME NEW text, NEW f, NEW p, NEW e, NEW k, NEW value, NEW q,
           ReadFrom(f, text), p \in 1..(Len(text) + 1), k \in Range(DbKeys),
           SettingStands(text, p, e, k, value, q), Plain(value)
    PROVE  ReadsAt(f, p, k, value, q)
<1>1. f[p] = IF NoName(text, p) THEN <<>>
             ELSE IF NoSetting(text, p) THEN <<[key |-> REFUSED, value |-> <<>>]>>
             ELSE <<SettingAt(text, p)>> \o f[Behind(text, p)]
  BY DEF ReadFrom
<1>2. /\ ~NoName(text, p) /\ ~NoSetting(text, p)
      /\ SettingAt(text, p) = [key |-> k, value |-> value]
      /\ Behind(text, p) = q
  BY SettingIsRead, Zenon
<1> QED
  BY <1>1, <1>2, Zenon DEF ReadsAt

\* And nothing is read at the end of the text.
LEMMA ReadsNoMore ==
    ASSUME NEW text, NEW f, ReadFrom(f, text), Len(text) \in Nat
    PROVE  f[Len(text) + 1] = <<>>
<1> DEFINE T == Len(text)
<1>1. T + 1 \in 1..(T + 1)
  OBVIOUS
<1>2. NameAt(text, T + 1) \in (T + 1)..(T + 1)
  BY <1>1, FirstOfExists DEF NameAt
<1>3. NoName(text, T + 1)
  BY <1>2 DEF NoName
<1>4. f[T + 1] = IF NoName(text, T + 1) THEN <<>>
                 ELSE IF NoSetting(text, T + 1) THEN <<[key |-> REFUSED, value |-> <<>>]>>
                 ELSE <<SettingAt(text, T + 1)>> \o f[Behind(text, T + 1)]
  BY <1>1 DEF ReadFrom
<1> QED
  BY <1>3, <1>4, Zenon

\* g[i] is what is left of g[0] behind the first i of rec.
OneOff(g, rec, N) == g[N] = <<>> /\ \A i \in 1..N : g[i - 1] = <<rec[i]>> \o g[i]

\* s is the first N of rec.
IsAll(s, rec, N) == Len(s) = N /\ DOMAIN s = 1..N /\ \A j \in 1..N : s[j] = rec[j]

\* What is taken off one by one is rec.
LEMMA OneByOne ==
    ASSUME NEW N \in Nat, NEW rec, NEW g, OneOff(g, rec, N)
    PROVE  IsAll(g[0], rec, N)
<1> DEFINE S == {rec[i] : i \in 1..N}
<1>0. \A i \in 1..N : rec[i] \in S
  OBVIOUS
<1> HIDE DEF S
<1> DEFINE Has(d, s) == /\ s \in Seq(S) /\ Len(s) = d
                        /\ \A j \in 1..d : s[j] = rec[N - d + j]
           R == {d \in 0..N : Has(d, g[N - d])}
<1>1. 0 \in R
  <2>1. <<>> \in Seq(S) /\ Len(<<>>) = 0 /\ N - 0 = N /\ \A j \in 1..0 : FALSE
    BY EmptySeq
  <2>2. Has(0, g[N - 0])
    BY <2>1 DEF OneOff
  <2> QED
    BY <2>2
<1>2. \A d \in 1..N : d - 1 \in R => d \in R
  <2> TAKE d \in 1..N
  <2> HAVE d - 1 \in R
  <2> DEFINE i == N - d + 1
             s == g[i]
             w == g[N - d]
             x == rec[i]
  <2>1. /\ i \in 1..N /\ N - (d - 1) = i /\ i - 1 = N - d /\ d \in 0..N /\ d - 1 \in Nat
        /\ N - d + 1 = i
        /\ \A j \in 1..(d - 1) : N - (d - 1) + j = N - d + (j + 1)
        /\ \A j \in 1..d : j = 1 \/ (j - 1 \in 1..(d - 1) /\ ~(j <= 1))
        /\ 1 + (d - 1) = d
    OBVIOUS
  <2>2. Has(d - 1, s)
    BY <2>1
  <2>3. x \in S /\ w = <<x>> \o s
    BY <1>0, <2>1 DEF OneOff
  <2> HIDE DEF i, s, w, x
  <2>4. s \in Seq(S) /\ Len(s) = d - 1 /\ \A j \in 1..(d - 1) : s[j] = rec[N - (d - 1) + j]
    BY <2>2
  <2>5. <<x>> \in Seq(S) /\ Len(<<x>>) = 1 /\ <<x>>[1] = x
    BY <2>3, OneIs
  <2>6. /\ w \in Seq(S) /\ Len(w) = 1 + (d - 1)
        /\ \A j \in 1..(1 + (d - 1)) : w[j] = IF j <= 1 THEN <<x>>[j] ELSE s[j - 1]
    BY <2>3, <2>4, <2>5, ConcatProperties
  <2>7. ASSUME NEW j \in 1..d PROVE w[j] = rec[N - d + j]
    <3>1. CASE j = 1
      <4>1. w[1] = x
        BY <2>1, <2>5, <2>6
      <4> QED
        BY <2>1, <3>1, <4>1 DEF x
    <3>2. CASE j # 1
      <4>1. j - 1 \in 1..(d - 1) /\ ~(j <= 1) /\ N - (d - 1) + (j - 1) = N - d + j
        BY <2>1, <3>2
      <4>2. w[j] = s[j - 1]
        BY <2>1, <2>6, <4>1
      <4> QED
        BY <2>4, <4>1, <4>2
    <3> QED
      BY <3>1, <3>2
  <2>8. Has(d, w)
    BY <2>1, <2>6, <2>7
  <2> QED
    BY <2>1, <2>8 DEF w
<1>3. N \in R
  <2> HIDE DEF R
  <2>1. N \in 0..N
    OBVIOUS
  <2>2. \A d \in 0..N : d \in R
    BY <1>1, <1>2, UpwardsTo, Zenon
  <2> QED
    BY <2>1, <2>2
<1>4. N - N = 0 /\ \A j \in 1..N : N - N + j = j
  OBVIOUS
<1>5. Has(N, g[0])
  BY <1>3, <1>4
<1> HIDE DEF R
<1> QED
  BY <1>4, <1>5, LenProperties DEF IsAll

\* The blank before setting i.
BlankAt(i) == IF i = 1 THEN <<>> ELSE <<SP>>

\* tail[i] is what follows setting i in the printed text.
PrintedTails(tail, keys, vals, N) ==
    /\ tail[N] = <<>>
    /\ \A i \in 0..N : tail[i] \in Seq(Tokens)
    /\ \A i \in 1..N : IsSettingAnd(tail[i - 1], BlankAt(i), keys[i], vals[i], tail[i])

\* What that blank is made of.
LEMMA BlankIs ==
    ASSUME NEW i
    PROVE  /\ BlankAt(i) \in Seq(Tokens) /\ Len(BlankAt(i)) \in 0..1
           /\ Len(BlankAt(i)) = 1 => BlankAt(i)[1] = SP
           /\ i # 1 => Len(BlankAt(i)) = 1
<1>1. SP \in Tokens
  BY DEF Tokens
<1>2. <<SP>> \in Seq(Tokens) /\ Len(<<SP>>) = 1 /\ <<SP>>[1] = SP
  BY <1>1, OneIs
<1>3. <<>> \in Seq(Tokens) /\ Len(<<>>) = 0
  BY EmptySeq
<1>4. CASE i = 1
  BY <1>3, <1>4 DEF BlankAt
<1>5. CASE i # 1
  <2>1. BlankAt(i) = <<SP>>
    BY <1>5 DEF BlankAt
  <2> QED
    BY <1>2, <2>1
<1> QED
  BY <1>4, <1>5

\* Every tail of the printed text is its end, and between those are the settings.
LEMMA SettingsStand ==
    ASSUME NEW N \in Nat, NEW tail, NEW keys, NEW vals, PrintedTails(tail, keys, vals, N),
           NEW text, text = tail[0], NEW i \in 1..N
    PROVE  StandsBetween(text, tail[i - 1], keys[i], vals[i], tail[i])
<1>1. /\ tail[N] = <<>>
      /\ \A j \in 0..N : tail[j] \in Seq(Tokens)
      /\ \A j \in 1..N : IsSettingAnd(tail[j - 1], BlankAt(j), keys[j], vals[j], tail[j])
  BY DEF PrintedTails
<1>2. text \in Seq(Tokens)
  <2>1. 0 \in 0..N
    OBVIOUS
  <2> QED
    BY <1>1, <2>1
<1>3. ASSUME NEW j \in 1..N PROVE tail[j] = <<>> \/ tail[j][1] = SP
  <2>1. CASE j = N
    BY <1>1, <2>1
  <2>2. CASE j # N
    <3> DEFINE m == j + 1
    <3>1. m \in 1..N /\ m \in 0..N /\ m - 1 = j /\ m # 1
      BY <2>2
    <3> HIDE DEF m
    <3>2. IsSettingAnd(tail[j], BlankAt(m), keys[m], vals[m], tail[m])
      BY <1>1, <3>1
    <3>3. /\ BlankAt(m) \in Seq(Tokens) /\ Len(BlankAt(m)) \in {0, 1}
          /\ Len(BlankAt(m)) = 1 => BlankAt(m)[1] = SP
          /\ keys[m] \in Keys /\ vals[m] \in Seq(Tokens) /\ tail[m] \in Seq(Tokens)
          /\ tail[j] = SettingAnd(BlankAt(m), keys[m], vals[m], tail[m])
      BY <3>2 DEF IsSettingAnd
    <3>4. BeginsWith(tail[j], Len(BlankAt(m)), keys[m], vals[m], Len(vals[m]), tail[m],
                     Len(tail[m]))
      BY <3>3, SettingHas, Zenon
    <3>5. Len(BlankAt(m)) = 1
      BY <3>1, BlankIs, Zenon
    <3> QED
      BY <3>4, <3>5, Zenon DEF BeginsWith
  <2> QED
    BY <2>1, <2>2
<1>4. ASSUME NEW j \in 1..N, EndsWith(text, tail[j - 1])
      PROVE  /\ EndsWith(text, tail[j])
             /\ StandsBetween(text, tail[j - 1], keys[j], vals[j], tail[j])
  <2>1. IsSettingAnd(tail[j - 1], BlankAt(j), keys[j], vals[j], tail[j])
    BY <1>1
  <2> QED
    BY <1>2, <1>3, <1>4, <2>1, SettingGoesOn, Zenon
<1>5. \A j \in 0..N : EndsWith(text, tail[j])
  <2> DEFINE R == {j \in 0..N : EndsWith(text, tail[j])}
  <2>1. 0 \in R
    <3>1. Len(text) \in Nat
      BY <1>2, LenProperties
    <3>2. EndsWith(text, text)
      <4>1. Len(text) <= Len(text) /\ \A j : Len(text) - Len(text) + j = 0 + j
        BY <3>1
      <4>2. \A j \in 1..Len(text) : Len(text) - Len(text) + j = j
        BY <3>1
      <4> QED
        BY <1>2, <4>1, <4>2 DEF EndsWith
    <3>3. 0 \in 0..N
      OBVIOUS
    <3> QED
      BY <3>2, <3>3
  <2>2. \A j \in 1..N : j - 1 \in R => j \in R
    <3> TAKE j \in 1..N
    <3>1. j \in 0..N
      OBVIOUS
    <3> QED
      BY <1>4, <3>1
  <2> HIDE DEF R
  <2>3. \A j \in 0..N : j \in R
    BY <2>1, <2>2, UpwardsTo, Zenon
  <2> QED
    BY <2>3 DEF R
<1>6. i - 1 \in 0..N
  OBVIOUS
<1>7. EndsWith(text, tail[i - 1])
  BY <1>5, <1>6, Zenon
<1> QED
  BY <1>4, <1>7, Zenon

\* All settings are read from the printed text, and nothing else.
LEMMA PrintedIsRead ==
    ASSUME NEW N \in Nat, NEW tail, NEW keys, NEW vals, PrintedTails(tail, keys, vals, N),
           NEW text, text = tail[0],
           \A i \in 1..N : keys[i] \in Range(DbKeys) /\ Plain(vals[i])
    PROVE  /\ Len(Settings(text)) = N
           /\ DOMAIN Settings(text) = 1..N
           /\ \A i \in 1..N : Settings(text)[i] = [key |-> keys[i], value |-> vals[i]]
<1> DEFINE rec == [i \in 1..N |-> [key |-> keys[i], value |-> vals[i]]]
           T == Len(text)
<1>1. tail[N] = <<>> /\ \A j \in 0..N : tail[j] \in Seq(Tokens)
  BY DEF PrintedTails
<1>2. T \in Nat
  <2>1. 0 \in 0..N
    OBVIOUS
  <2> QED
    BY <1>1, <2>1, LenProperties
<1>3. PICK f : ReadFrom(f, text) /\ Settings(text) = f[1]
  BY <1>2, SettingsAre
<1> DEFINE At(i) == EndAt(text, tail[i])
           g == [i \in 0..N |-> f[At(i)]]
<1>4. ASSUME NEW i \in 1..N PROVE g[i - 1] = <<rec[i]>> \o g[i]
  <2>1. i \in 0..N /\ i - 1 \in 0..N
    OBVIOUS
  <2>2. At(i - 1) \in 1..(T + 1) /\ \E e : SettingStands(text, At(i - 1), e, keys[i], vals[i], At(i))
    BY SettingsStand, Zenon DEF StandsBetween
  <2>3. g[i - 1] = f[At(i - 1)] /\ g[i] = f[At(i)]
    BY <2>1, Zenon
  <2>4. rec[i] = [key |-> keys[i], value |-> vals[i]]
    OBVIOUS
  <2> HIDE DEF At, g, rec
  <2>5. f[At(i - 1)] = <<[key |-> keys[i], value |-> vals[i]]>> \o f[At(i)]
    <3>1. PICK e : SettingStands(text, At(i - 1), e, keys[i], vals[i], At(i))
      BY <2>2, Zenon
    <3>2. keys[i] \in Range(DbKeys) /\ Plain(vals[i])
      OBVIOUS
    <3>3. ReadFrom(f, text) /\ At(i - 1) \in 1..(Len(text) + 1)
      BY <1>3, <2>2
    <3> DEFINE P == At(i - 1)
               q == At(i)
               k == keys[i]
               value == vals[i]
    <3>4. /\ SettingStands(text, P, e, k, value, q) /\ P \in 1..(Len(text) + 1)
          /\ k \in Range(DbKeys) /\ Plain(value)
      BY <3>1, <3>2, <3>3
    <3> HIDE DEF P, q, k, value
    <3>5. ReadsAt(f, P, k, value, q)
      BY <3>3, <3>4, ReadsSetting, Zenon
    <3> QED
      BY <3>5, Zenon DEF ReadsAt, P, q, k, value
  <2> QED
    BY <2>3, <2>4, <2>5, Zenon
<1>5. g[N] = <<>>
  <2>1. N \in 0..N
    OBVIOUS
  <2>2. At(N) = T + 1
    <3>1. Len(tail[N]) = 0
      BY <1>1, EmptySeq
    <3> QED
      BY <1>2, <3>1 DEF EndAt
  <2>3. f[T + 1] = <<>>
    BY <1>2, <1>3, ReadsNoMore
  <2> HIDE DEF At
  <2> QED
    BY <2>1, <2>2, <2>3
<1>6. g[0] = Settings(text)
  <2>1. 0 \in 0..N
    OBVIOUS
  <2>2. At(0) = 1
    BY <1>2 DEF EndAt
  <2> HIDE DEF At
  <2> QED
    BY <1>3, <2>1, <2>2
<1>7. \A i \in 1..N : rec[i] = [key |-> keys[i], value |-> vals[i]]
  OBVIOUS
<1> HIDE DEF g, rec
<1>8. OneOff(g, rec, N)
  BY <1>4, <1>5 DEF OneOff
<1>9. IsAll(g[0], rec, N)
  BY <1>8, OneByOne, Zenon
<1> QED
  BY <1>6, <1>7, <1>9 DEF IsAll

\* What is left without the blanks around it is a text as well.
LEMMA StrippedIsText ==
    ASSUME NEW S, NEW s \in Seq(S)
    PROVE  Stripped(s) \in Seq(S)
<1>1. Len(s) \in Nat
  BY LenProperties
<1>2. CASE \A j \in 1..Len(s) : s[j] = SP
  BY <1>2, StrippedIs, EmptySeq
<1>3. CASE ~(\A j \in 1..Len(s) : s[j] = SP)
  <2>1. ~(\A j \in 1..Len(s) : s[j] \in {SP})
    BY <1>3
  <2>2. PICK f \in 1..Len(s) : \E l \in f..Len(s) :
               /\ s[f] \notin {SP} /\ s[l] \notin {SP}
               /\ \A j \in 1..Len(s) : s[j] \notin {SP} => f <= j /\ j <= l
    BY <1>1, <2>1, EndsOf
  <2>3. PICK l \in f..Len(s) :
               /\ s[f] \notin {SP} /\ s[l] \notin {SP}
               /\ \A j \in 1..Len(s) : s[j] \notin {SP} => f <= j /\ j <= l
    BY <2>2
  <2>4. Stripped(s) = SubSeq(s, f, l)
    BY <2>3, StrippedIs
  <2>5. f \in 1..(Len(s) + 1) /\ l \in (f - 1)..Len(s)
    BY <1>1
  <2> QED
    BY <2>4, <2>5, PartOf
<1> QED
  BY <1>2, <1>3

\* A setting that is not a number or a flag is a text.
LEMMA ContentIsText ==
    ASSUME lines \in Seq(Lines), NEW k \in StringKeys, NEW content,
           SaysUpTo(content, Len(lines), k)
    PROVE  content[k] \in Seq(Tokens)
<1>1. STRING \subseteq Tokens
  BY DEF Tokens
<1>2. Defaults[k] \in Seq(Tokens)
  BY <1>1, KeysAssumption, SeqMonotonic
<1>3. ASSUME NEW i \in 1..Len(lines), NEW text, LineSays(lines[i], k, text),
             content[k] = Converted(k, text)
      PROVE  content[k] \in Seq(Tokens)
  <2> DEFINE line == lines[i]
  <2>1. line \in Seq(Tokens)
    BY LinesAre
  <2>2. LineSays(line, k, text)
    BY <1>3
  <2> HIDE DEF line
  <2>3. PICK n \in 1..Len(line) : Stripped(From(line, n + 1)) = text
    BY <2>1, <2>2, LenProperties DEF LineSays
  <2>4. n \in 0..Len(line)
    BY <2>1, LenProperties
  <2>5. From(line, n + 1) \in Seq(Tokens)
    BY <2>1, <2>4, SuffixOf DEF From
  <2>6. text \in Seq(Tokens)
    BY <2>3, <2>5, StrippedIsText
  <2>7. k \notin NumberKeys /\ k \notin FlagKeys
    BY KeysAssumption
  <2>8. Converted(k, text) = text
    BY <2>7 DEF Converted
  <2> QED
    BY <1>3, <2>6, <2>8
<1> QED
  BY <1>2, <1>3 DEF SaysUpTo

\* The printed text consists of the five settings.
LEMMA PrintedHasTails ==
    ASSUME \A i \in 1..Len(DbKeys) : Argument(i) \in Seq(Tokens)
    PROVE  \E tail : /\ PrintedTails(tail, DbKeys, [i \in 1..Len(DbKeys) |-> Argument(i)],
                                     Len(DbKeys))
                     /\ Printed = tail[0]
<1> DEFINE N == Len(DbKeys)
           vals == [i \in 1..N |-> Argument(i)]
           ss == [i \in 1..N |-> Setting(BlankAt(i), DbKeys[i], Argument(i))]
<1>1. N \in Nat /\ DOMAIN DbKeys = 1..N /\ \A i \in 1..N : DbKeys[i] \in StringKeys
  BY KeysAssumption, LenProperties, ElementOfSeq
<1>2. \A i \in 1..N : DbKeys[i] \in Keys
  BY <1>1 DEF Keys
<1>3. Printed = FlattenSeq(ss)
  BY <1>1 DEF Printed, Setting, BlankAt
<1>4. ASSUME NEW i \in 1..N PROVE Setting(BlankAt(i), DbKeys[i], Argument(i)) \in Seq(Tokens)
  <2>1. BlankAt(i) \in Seq(Tokens)
    BY BlankIs, Zenon
  <2>2. EQ \in Tokens /\ DbKeys[i] \in Tokens
    BY <1>2 DEF Tokens
  <2> DEFINE name == <<DbKeys[i], EQ>>
             blank == BlankAt(i)
             value == Argument(i)
  <2>3. name \in Seq(Tokens)
    BY <2>2
  <2>4. blank \in Seq(Tokens) /\ value \in Seq(Tokens)
    BY <2>1
  <2>5. Setting(BlankAt(i), DbKeys[i], Argument(i)) = blank \o name \o value
    BY DEF Setting
  <2> HIDE DEF name, blank, value
  <2>6. blank \o name \in Seq(Tokens)
    BY <2>3, <2>4, ConcatProperties
  <2> QED
    BY <2>4, <2>5, <2>6, ConcatProperties
<1>5. ss \in Seq(Seq(Tokens)) /\ Len(ss) = N
  <2>1. \A i \in 1..N : ss[i] \in Seq(Tokens)
    BY <1>4
  <2> HIDE DEF N
  <2>2. ss \in [1..N -> Seq(Tokens)]
    BY <2>1
  <2>3. DOMAIN ss = 1..N
    OBVIOUS
  <2> HIDE DEF ss
  <2>4. ss \in Seq(Seq(Tokens))
    BY <1>1, <2>2
  <2> QED
    BY <1>1, <2>3, <2>4, LenProperties
<1>6. \A i \in 1..N : ss[i] = Setting(BlankAt(i), DbKeys[i], Argument(i)) /\ vals[i] = Argument(i)
  OBVIOUS
<1> HIDE DEF ss, vals, N
<1>7. PICK tail \in [0..N -> Seq(Tokens)] : TailsOf(tail, ss, N) /\ FlattenSeq(ss) = tail[0]
  BY <1>5, FlattenedHasTails
<1>8. ASSUME NEW i \in 1..N
      PROVE  IsSettingAnd(tail[i - 1], BlankAt(i), DbKeys[i], vals[i], tail[i])
  <2>1. i \in 0..N
    BY <1>1
  <2>2. tail[i] \in Seq(Tokens)
    BY <1>7, <2>1
  <2>3. tail[i - 1] = ss[i] \o tail[i]
    BY <1>7 DEF TailsOf
  <2>4. ss[i] = Setting(BlankAt(i), DbKeys[i], vals[i])
    BY <1>6
  <2>5. tail[i - 1] = SettingAnd(BlankAt(i), DbKeys[i], vals[i], tail[i])
    BY <2>3, <2>4, Zenon DEF SettingAnd
  <2>6. vals[i] \in Seq(Tokens)
    BY <1>6 DEF N
  <2>7. /\ BlankAt(i) \in Seq(Tokens) /\ Len(BlankAt(i)) \in 0..1
        /\ Len(BlankAt(i)) = 1 => BlankAt(i)[1] = SP
    BY BlankIs, Zenon
  <2> QED
    BY <1>2, <2>2, <2>5, <2>6, <2>7, Zenon DEF IsSettingAnd
<1>9. PrintedTails(tail, DbKeys, vals, N)
  <2>1. tail[N] = <<>> /\ \A i \in 0..N : tail[i] \in Seq(Tokens)
    BY <1>7 DEF TailsOf
  <2> QED
    BY <1>8, <2>1 DEF PrintedTails
<1> QED
  BY <1>3, <1>7, <1>9 DEF N, vals

\* A connection is asked for what has been read.
LEMMA ParametersAre ==
    ASSUME NEW settings, DOMAIN settings = 1..Len(DbKeys),
           \A i \in 1..Len(DbKeys) :
               settings[i] = [key |-> DbKeys[i], value |-> m_config_content[DbKeys[i]]]
    PROVE  Parameters(settings) = [k \in Range(DbKeys) |-> m_config_content[k]]
<1> DEFINE N == Len(DbKeys)
           set(k) == {i \in DOMAIN settings : settings[i].key = k}
           latest(k) == CHOOSE i \in set(k) : \A j \in set(k) : j <= i
<1>1. N \in Nat /\ DOMAIN DbKeys = 1..N /\ \A i \in 1..N : DbKeys[i] \in StringKeys
  BY KeysAssumption, LenProperties, ElementOfSeq
<1>2. ASSUME NEW i \in 1..N
      PROVE  settings[i].key = DbKeys[i] /\ settings[i].value = m_config_content[DbKeys[i]]
  OBVIOUS
<1>3. ASSUME NEW i \in DOMAIN settings PROVE settings[i].key # REFUSED
  <2>1. settings[i].key \in Keys
    BY <1>1, <1>2 DEF Keys
  <2> QED
    BY <2>1, KeysAssumption
<1>4. ASSUME NEW k \in Range(DbKeys)
      PROVE  set(k) # {} /\ settings[latest(k)].value = m_config_content[k]
  <2>1. PICK i \in 1..N : DbKeys[i] = k
    BY <1>1 DEF Range
  <2>2. i \in set(k)
    BY <1>2, <2>1
  <2>3. set(k) \subseteq 0..N
    BY <1>1
  <2>4. \E m \in set(k) : \A j \in set(k) : j <= m
    BY <1>1, <2>2, <2>3, GreatestOf
  <2>5. latest(k) \in set(k)
    <3> HIDE DEF set
    <3> QED
      BY <2>4
  <2>6. latest(k) \in 1..N /\ settings[latest(k)].key = k
    BY <2>5
  <2> HIDE DEF latest
  <2>7. DbKeys[latest(k)] = k
    BY <1>2, <2>6
  <2> QED
    BY <1>2, <2>2, <2>6, <2>7
<1>5. Parameters(settings) = IF \E i \in DOMAIN settings : settings[i].key = REFUSED
                             THEN REFUSED
                             ELSE [k \in Range(DbKeys) |->
                                      IF set(k) = {} THEN <<>> ELSE settings[latest(k)].value]
  BY DEF Parameters
<1> HIDE DEF set, latest
<1>6. ~(\E i \in DOMAIN settings : settings[i].key = REFUSED)
  BY <1>3
<1>7. Parameters(settings) = [k \in Range(DbKeys) |->
                                  IF set(k) = {} THEN <<>> ELSE settings[latest(k)].value]
  BY <1>5, <1>6, Zenon
<1> QED
  BY <1>4, <1>7

\* What is printed is read as it was meant.
LEMMA PrintedIsMeant ==
    ASSUME lines \in Seq(Lines),
           \A k \in Keys : SaysUpTo(m_config_content, Len(lines), k),
           \A k \in Range(DbKeys) : Plain(Meant(k)), Len(Printed) <= ConnMax
    PROVE  Parameters(Settings(conninfo)) = [k \in Range(DbKeys) |-> Meant(k)]
<1> DEFINE N == Len(DbKeys)
           vals == [i \in 1..N |-> Argument(i)]
<1>1. N \in Nat /\ DOMAIN DbKeys = 1..N
  BY KeysAssumption, LenProperties
<1>2. \A i \in 1..N : DbKeys[i] \in StringKeys /\ DbKeys[i] \in Keys
  BY KeysAssumption, ElementOfSeq DEF Keys
<1>3. \A i \in 1..N : DbKeys[i] \in Range(DbKeys)
  BY <1>1 DEF Range
<1>4. \A k \in Range(DbKeys) : k \in Keys
  BY <1>1, <1>2 DEF Range
<1>5. \A k \in Range(DbKeys) : m_config_content[k] = Meant(k)
  BY <1>4, SaysWhatIsMeant
<1>6. \A i \in 1..N : Argument(i) \in Seq(Tokens)
  BY <1>2, ContentIsText DEF Argument
<1>7. PICK tail : PrintedTails(tail, DbKeys, vals, N) /\ Printed = tail[0]
  BY <1>6, PrintedHasTails
<1>8. ASSUME NEW i \in 1..N PROVE DbKeys[i] \in Range(DbKeys) /\ Plain(vals[i])
  <2>1. vals[i] = Meant(DbKeys[i])
    BY <1>3, <1>5 DEF Argument
  <2> QED
    BY <1>3, <2>1
<1>9. /\ DOMAIN Settings(Printed) = 1..N
      /\ \A i \in 1..N : Settings(Printed)[i] = [key |-> DbKeys[i], value |-> vals[i]]
  <2> HIDE DEF N, vals
  <2> QED
    BY <1>1, <1>7, <1>8, PrintedIsRead
<1>10. conninfo = Printed
  <2>1. Printed \in Seq(Tokens)
    <3>1. 0 \in 0..N
      BY <1>1
    <3> QED
      BY <1>7, <3>1 DEF PrintedTails
  <2>2. Len(Printed) \in Nat /\ SubSeq(Printed, 1, Len(Printed)) = Printed
    BY <2>1, LenProperties, SubSeqFull
  <2>3. ~(Len(Printed) < ConnMax) => ConnMax = Len(Printed)
    BY <2>2, BuffersAssumption
  <2> QED
    BY <2>2, <2>3 DEF conninfo
<1>11. \A i \in 1..N : Settings(Printed)[i] = [key |-> DbKeys[i],
                                               value |-> m_config_content[DbKeys[i]]]
  BY <1>9 DEF Argument
<1>12. Parameters(Settings(Printed)) = [k \in Range(DbKeys) |-> m_config_content[k]]
  <2> DEFINE settings == Settings(Printed)
  <2>1. DOMAIN settings = 1..Len(DbKeys)
    BY <1>9
  <2>2. \A i \in 1..Len(DbKeys) :
            settings[i] = [key |-> DbKeys[i], value |-> m_config_content[DbKeys[i]]]
    BY <1>11
  <2> HIDE DEF settings
  <2>3. Parameters(settings) = [k \in Range(DbKeys) |-> m_config_content[k]]
    BY <2>1, <2>2, ParametersAre
  <2> QED
    BY <2>3 DEF settings
<1> QED
  BY <1>5, <1>10, <1>12

\* Postgres is asked for what the file means (db.c:117-136, config_file.c:87-187).
THEOREM AsksForWhatIsMeantTheorem == ConfigSpec => []AsksForWhatIsMeant
<1>1. ConfigInv => AsksForWhatIsMeant
  BY PrintedIsMeant DEF ConfigInv, AsksForWhatIsMeant
<1> QED
  BY <1>1, ConfigInvariant, PTL
===============================================================================
