----------------------------- MODULE Router_proofs -----------------------------
(***************************************************************************)
(* Proofs about Router for every set of words and paths, every size of the *)
(* table and of first_line, and every length of a request: what the two    *)
(* parsers cut out of it, and which handler is called for a request whose  *)
(* line fits.                                                              *)
(***************************************************************************)
EXTENDS Router, SequenceTheorems, WellFoundedInduction, TLAPS

-----------------------------------------------------------------------------
(* The first place of a token, and what is before and after it.            *)

\* A nonempty set of numbers has a least one, which is its Min.
LEMMA MinIsLeast ==
    ASSUME NEW I, I \subseteq Nat, I # {}
    PROVE  Min(I) \in I /\ \A j \in I : Min(I) <= j
<1>1. PICK i \in I : \A j \in I : ~(<<j, i>> \in OpToRel(<, Nat))
  BY WFMin, NatLessThanWellFounded
<1>2. \A j \in I : i <= j
  <2> SUFFICES ASSUME NEW j \in I, ~(i <= j)
               PROVE  FALSE
    OBVIOUS
  <2>1. i \in Nat /\ j \in Nat /\ j < i
    OBVIOUS
  <2>2. <<j, i>> \in OpToRel(<, Nat)
    BY <2>1 DEF OpToRel
  <2> QED
    BY <1>1, <2>2
<1> QED
  BY <1>2, Zenon DEF Min

\* strchr and the like find the first place of a token, or say there is none.
LEMMA FindFacts ==
    ASSUME NEW S, NEW s \in Seq(S), NEW token
    PROVE  /\ Find(s, token) \in 0..Len(s)
           /\ Find(s, token) # 0 =>
                 /\ s[Find(s, token)] = token
                 /\ \A j \in 1..(Find(s, token) - 1) : s[j] # token
           /\ Find(s, token) = 0 => \A j \in 1..Len(s) : s[j] # token
<1> DEFINE I == {i \in 1..Len(s) : s[i] = token}
<1>1. Len(s) \in Nat
  BY LenProperties
<1>2. Find(s, token) = IF I # {} THEN Min(I) ELSE 0
  BY DEF Find, SelectInSeq
<1>3. I \subseteq Nat
  BY <1>1
<1>4. I # {} => Min(I) \in I /\ \A j \in I : Min(I) <= j
  BY <1>3, MinIsLeast
<1>5. \A i \in 1..Len(s) : i \in I <=> s[i] = token
  OBVIOUS
<1>6. I \subseteq 1..Len(s)
  OBVIOUS
<1> HIDE DEF I
<1>7. CASE I = {}
  BY <1>1, <1>2, <1>5, <1>7
<1>8. CASE I # {}
  <2>1. Find(s, token) \in I /\ \A j \in I : Find(s, token) <= j
    BY <1>2, <1>4, <1>8
  <2>2. Find(s, token) \in 1..Len(s) /\ s[Find(s, token)] = token
    BY <1>5, <1>6, <2>1
  <2>3. ASSUME NEW j \in 1..(Find(s, token) - 1)
        PROVE  s[j] # token
    BY <1>1, <1>5, <2>1, <2>2
  <2> QED
    BY <1>1, <2>2, <2>3
<1> QED
  BY <1>7, <1>8

\* That place is determined by what it is.
LEMMA FindIs ==
    ASSUME NEW S, NEW s \in Seq(S), NEW token, NEW n \in 1..Len(s), s[n] = token,
           \A j \in 1..(n - 1) : s[j] # token
    PROVE  Find(s, token) = n
<1>1. /\ Find(s, token) \in 0..Len(s)
      /\ Find(s, token) # 0 =>
            /\ s[Find(s, token)] = token
            /\ \A j \in 1..(Find(s, token) - 1) : s[j] # token
      /\ Find(s, token) = 0 => \A j \in 1..Len(s) : s[j] # token
  BY FindFacts
<1>2. Len(s) \in Nat
  BY LenProperties
<1> DEFINE f == Find(s, token)
<1> HIDE DEF f
<1>3. f # 0 /\ ~(n < f) /\ ~(f < n)
  BY <1>1, <1>2 DEF f
<1> QED
  BY <1>1, <1>2, <1>3 DEF f

\* What is before a place and what is after it are its neighbourhood.
LEMMA Pieces ==
    ASSUME NEW S, NEW s \in Seq(S), NEW i \in 1..Len(s)
    PROVE  /\ Before(s, i) \in Seq(S) /\ After(s, i) \in Seq(S)
           /\ Len(Before(s, i)) = i - 1 /\ Len(After(s, i)) = Len(s) - i
           /\ \A j \in 1..(i - 1) : Before(s, i)[j] = s[j]
           /\ \A j \in 1..(Len(s) - i) : After(s, i)[j] = s[i + j]
<1> DEFINE N == Len(s)
<1>1. N \in Nat /\ i \in 1..N /\ \A j \in 1..N : s[j] \in S
  BY LenProperties, ElementOfSeq
<1> HIDE DEF N
<1>2. /\ Before(s, i) \in Seq(S)
      /\ Len(Before(s, i)) = IF 1 <= i - 1 THEN (i - 1) - 1 + 1 ELSE 0
      /\ \A j \in 1..((i - 1) - 1 + 1) : Before(s, i)[j] = s[1 + j - 1]
  <2>1. 1 \in Int /\ i - 1 \in Int /\ \A j \in 1..(i - 1) : s[j] \in S
    BY <1>1
  <2> QED
    BY <2>1, SubSeqProperties DEF Before
<1>3. /\ After(s, i) \in Seq(S)
      /\ Len(After(s, i)) = IF i + 1 <= N THEN N - (i + 1) + 1 ELSE 0
      /\ \A j \in 1..(N - (i + 1) + 1) : After(s, i)[j] = s[(i + 1) + j - 1]
  <2>1. i + 1 \in Int /\ N \in Int /\ \A j \in (i + 1)..N : s[j] \in S
    BY <1>1
  <2> QED
    BY <2>1, SubSeqProperties DEF After, N
<1>4. \A j \in 1..(i - 1) : Before(s, i)[j] = s[j]
  BY <1>1, <1>2
<1>5. \A j \in 1..(N - i) : After(s, i)[j] = s[i + j]
  BY <1>1, <1>3
<1>6. Len(Before(s, i)) = i - 1 /\ Len(After(s, i)) = N - i
  BY <1>1, <1>2, <1>3
<1> QED
  BY <1>2, <1>3, <1>4, <1>5, <1>6 DEF N

\* What is before some places, those, and what is after them are the whole.
LEMMA Rejoined ==
    ASSUME NEW S, NEW s \in Seq(S), NEW i \in 1..Len(s), NEW k \in i..Len(s)
    PROVE  s = (Before(s, i) \o SubSeq(s, i, k)) \o After(s, k)
<1> DEFINE N == Len(s)
<1>1. N \in Nat /\ i \in 1..N /\ k \in i..N /\ i - 1 + 1 = i
  BY LenProperties
<1>2. s = SubSeq(s, 1, N)
  BY SubSeqFull
<1>3. SubSeq(s, 1, i - 1) \o SubSeq(s, i - 1 + 1, k) = SubSeq(s, 1, k)
  <2>1. 1 \in 1..(N + 1) /\ i - 1 \in (1 - 1)..N /\ k \in (i - 1)..N
    BY <1>1
  <2> QED
    BY <2>1, ConcatAdjacentSubSeq
<1>4. SubSeq(s, 1, k) \o SubSeq(s, k + 1, N) = SubSeq(s, 1, N)
  <2>1. 1 \in 1..(N + 1) /\ k \in (1 - 1)..N /\ N \in k..N
    BY <1>1
  <2> QED
    BY <2>1, ConcatAdjacentSubSeq
<1> HIDE DEF N
<1> QED
  BY <1>1, <1>2, <1>3, <1>4 DEF Before, After, N

\* One place.
LEMMA RejoinedAt ==
    ASSUME NEW S, NEW s \in Seq(S), NEW i \in 1..Len(s)
    PROVE  s = (Before(s, i) \o <<s[i]>>) \o After(s, i)
<1>1. Len(s) \in Nat /\ i \in Int /\ i \in i..Len(s) /\ s[i] \in S
  BY LenProperties, ElementOfSeq
<1>2. SubSeq(s, i, i) = <<s[i]>>
  <2>1. /\ SubSeq(s, i, i) \in Seq(S)
        /\ Len(SubSeq(s, i, i)) = IF i <= i THEN i - i + 1 ELSE 0
        /\ \A j \in 1..(i - i + 1) : SubSeq(s, i, i)[j] = s[i + j - 1]
    <3>1. \A j \in i..i : s[j] \in S
      BY <1>1
    <3> QED
      BY <1>1, <3>1, SubSeqProperties
  <2>2. Len(SubSeq(s, i, i)) = 1 /\ SubSeq(s, i, i)[1] = s[i]
    BY <1>1, <2>1
  <2>3. <<s[i]>> \in Seq(S) /\ Len(<<s[i]>>) = 1 /\ <<s[i]>>[1] = s[i]
    BY <1>1
  <2>4. \A j \in 1..1 : SubSeq(s, i, i)[j] = <<s[i]>>[j]
    BY <2>2, <2>3
  <2> QED
    BY <2>1, <2>2, <2>3, <2>4, SeqEqual
<1> QED
  BY <1>1, <1>2, Rejoined

\* Three pieces may be put behind a text together or one by one.
SameBehind(x, a, b, c) == x \o ((a \o b) \o c) = ((x \o a) \o b) \o c

\* ... for all texts.
LEMMA OneByOne ==
    ASSUME NEW x \in Seq(Tokens), NEW a \in Seq(Tokens), NEW b \in Seq(Tokens),
           NEW c \in Seq(Tokens)
    PROVE  SameBehind(x, a, b, c)
<1>1. a \o b \in Seq(Tokens) /\ x \o a \in Seq(Tokens) /\ x \o (a \o b) \in Seq(Tokens)
  BY ConcatProperties
<1>2. x \o ((a \o b) \o c) = (x \o (a \o b)) \o c
  BY <1>1, ConcatAssociative
<1>3. x \o (a \o b) = (x \o a) \o b
  BY ConcatAssociative
<1> QED
  BY <1>2, <1>3, Zenon DEF SameBehind

\* strstr finds a blank line where there are two line ends.
LEMMA BlankLineFacts ==
    ASSUME NEW S, NEW s \in Seq(S), FindBlankLine(s) # 0
    PROVE  /\ FindBlankLine(s) \in 1..(Len(s) - 1)
           /\ s[FindBlankLine(s)] = CRLF /\ s[FindBlankLine(s) + 1] = CRLF
<1> DEFINE starts == {i \in 1..(Len(s) - 1) : s[i] = CRLF /\ s[i + 1] = CRLF}
<1>1. Len(s) \in Nat
  BY LenProperties
<1>2. FindBlankLine(s) = IF starts = {} THEN 0 ELSE Min(starts)
  BY DEF FindBlankLine, Min
<1>3. starts \subseteq Nat
  BY <1>1
<1>4. starts # {} => Min(starts) \in starts
  BY <1>3, MinIsLeast
<1>5. FindBlankLine(s) \in starts
  BY <1>2, <1>4
<1> QED
  BY <1>5

-----------------------------------------------------------------------------
(* The two parsers.                                                        *)

\* Up to a token that is there.
LEMMA UpToIs ==
    ASSUME NEW s, NEW token, Find(s, token) # 0
    PROVE  UpTo(s, token) = Before(s, Find(s, token))
BY DEF UpTo

\* What the string functions see of a buffer is a part of it.
LEMMA TextFacts ==
    ASSUME NEW bytes \in Seq(Tokens)
    PROVE  Text(bytes) \in Seq(Tokens) /\ Len(Text(bytes)) \in 0..Len(bytes)
<1> DEFINE z == Find(bytes, NUL)
<1>1. z \in 0..Len(bytes) /\ Len(bytes) \in Nat
  BY FindFacts, LenProperties
<1>2. CASE z = 0
  BY <1>1, <1>2 DEF Text, UpTo
<1>3. CASE z # 0
  <2>1. z \in 1..Len(bytes) /\ Text(bytes) = Before(bytes, z)
    BY <1>1, <1>3 DEF Text, UpTo
  <2> HIDE DEF z
  <2>2. Before(bytes, z) \in Seq(Tokens) /\ Len(Before(bytes, z)) = z - 1
    BY <2>1, Pieces
  <2> QED
    BY <1>1, <2>1, <2>2
<1> QED
  BY <1>2, <1>3

\* What both parsers cut out of a request is the same path.
LEMMA SamePath ==
    ASSUME NEW bytes, router_parse_http_request(bytes) # ERROR
    PROVE  router_parse_http_request(bytes).route = RouteOf(bytes)
BY DEF router_parse_http_request, RouteOf, UpTo

\* The pieces of a request that the second parser takes, in their order.
LEMMA PiecesInOrder ==
    ASSUME NEW bytes \in Seq(Tokens), router_parse_http_request(bytes) # ERROR
    PROVE  \E n \in 0..Len(bytes) :
              LET parsed == router_parse_http_request(bytes)
                  text == Text(bytes)
                  version == SubSeq(text, n + 1, Find(text, CRLF) - 1)
                  body == IF parsed.body = NULL THEN <<>> ELSE parsed.body
              IN  text = parsed.method \o <<SP>> \o parsed.route \o <<SP>>
                          \o version \o <<CRLF>> \o parsed.headers
                          \o <<CRLF, CRLF>> \o body
<1> DEFINE text == Text(bytes)
           f == Find(text, CRLF)
           line == UpTo(text, CRLF)
           m == Find(line, SP)
           afterMethod == After(line, m)
           p == Find(afterMethod, SP)
           rest == After(text, f)
           b == FindBlankLine(rest)
           body == After(rest, b + 1)
           version == SubSeq(text, m + p + 1, f - 1)
           parsed == router_parse_http_request(bytes)
<1>1. /\ f # 0 /\ m # 0 /\ p # 0 /\ b # 0
      /\ parsed = [method |-> Before(line, m), route |-> Before(afterMethod, p),
                   headers |-> Before(rest, b),
                   body |-> IF f + (b + 1) < Len(bytes) THEN body ELSE NULL]
  BY DEF router_parse_http_request, BodyStart, FirstLineOf, HasLine
<1>0. text \in Seq(Tokens) /\ Len(text) \in 0..Len(bytes)
  BY TextFacts
<1> HIDE DEF text
<1>2. f \in 1..Len(text) /\ text[f] = CRLF
  <2>1. f \in 0..Len(text) /\ (f # 0 => text[f] = CRLF)
    BY <1>0, FindFacts
  <2> QED
    BY <1>1, <2>1
<1>3. /\ line \in Seq(Tokens) /\ Len(line) = f - 1
      /\ \A j \in 1..(f - 1) : line[j] = text[j]
  <2>1. line = Before(text, f)
    BY <1>1, UpToIs
  <2> HIDE DEF line, f
  <2> QED
    BY <1>0, <1>2, <2>1, Pieces
<1>4. m \in 1..Len(line) /\ line[m] = SP
  <2> HIDE DEF line
  <2>1. m \in 0..Len(line) /\ (m # 0 => line[m] = SP)
    BY <1>3, FindFacts
  <2> QED
    BY <1>1, <2>1
<1>5. /\ Before(line, m) \in Seq(Tokens)
      /\ afterMethod \in Seq(Tokens) /\ Len(afterMethod) = Len(line) - m
      /\ \A j \in 1..(Len(line) - m) : afterMethod[j] = line[m + j]
  <2> HIDE DEF line, m
  <2> QED
    BY <1>3, <1>4, Pieces
<1>6. p \in 1..Len(afterMethod) /\ afterMethod[p] = SP
  <2> HIDE DEF afterMethod
  <2>1. p \in 0..Len(afterMethod) /\ (p # 0 => afterMethod[p] = SP)
    BY <1>5, FindFacts
  <2> QED
    BY <1>1, <2>1
<1>7. rest \in Seq(Tokens) /\ Len(rest) = Len(text) - f
  BY <1>0, <1>2, Pieces
<1>8. b \in 1..(Len(rest) - 1) /\ rest[b] = CRLF /\ rest[b + 1] = CRLF
  <2> HIDE DEF rest
  <2> QED
    BY <1>1, <1>7, BlankLineFacts
<1> HIDE DEF f, line, m, afterMethod, p, rest, b, body, version, parsed
<1>9. text = (line \o <<CRLF>>) \o rest
  <2>1. line = Before(text, f)
    BY <1>1, UpToIs DEF line, f
  <2>2. text = (Before(text, f) \o <<text[f]>>) \o After(text, f)
    BY <1>0, <1>2, RejoinedAt
  <2> QED
    BY <1>2, <2>1, <2>2 DEF rest
<1>10. line = (Before(line, m) \o <<SP>>) \o afterMethod
  <2>1. line = (Before(line, m) \o <<line[m]>>) \o After(line, m)
    BY <1>3, <1>4, RejoinedAt
  <2> QED
    BY <1>4, <2>1 DEF afterMethod
<1>11. afterMethod = (Before(afterMethod, p) \o <<SP>>) \o After(afterMethod, p)
  <2>1. afterMethod = (Before(afterMethod, p) \o <<afterMethod[p]>>) \o After(afterMethod, p)
    BY <1>5, <1>6, RejoinedAt
  <2> QED
    BY <1>6, <2>1
<1>12. rest = (Before(rest, b) \o <<CRLF, CRLF>>) \o body
  <2>1. /\ b \in 1..Len(rest) /\ b + 1 \in b..Len(rest) /\ Len(rest) \in Nat
        /\ rest[b] \in Tokens /\ rest[b + 1] \in Tokens
    <3>1. Len(rest) \in Nat /\ b \in 1..Len(rest) /\ b + 1 \in 1..Len(rest)
      BY <1>7, <1>8, LenProperties
    <3> QED
      BY <1>7, <3>1, ElementOfSeq
  <2>2. SubSeq(rest, b, b + 1) = <<CRLF, CRLF>>
    <3>1. \A j \in b..(b + 1) : rest[j] \in Tokens
      <4>1. \A j \in b..(b + 1) : j = b \/ j = b + 1
        BY <2>1
      <4> QED
        BY <2>1, <4>1
    <3>2. b \in Int /\ b + 1 \in Int
      BY <2>1
    <3>3. /\ SubSeq(rest, b, b + 1) \in Seq(Tokens)
          /\ Len(SubSeq(rest, b, b + 1)) = IF b <= b + 1 THEN (b + 1) - b + 1 ELSE 0
          /\ \A j \in 1..((b + 1) - b + 1) : SubSeq(rest, b, b + 1)[j] = rest[b + j - 1]
      BY <3>1, <3>2, SubSeqProperties
    <3>4. /\ Len(SubSeq(rest, b, b + 1)) = 2
          /\ SubSeq(rest, b, b + 1)[1] = CRLF /\ SubSeq(rest, b, b + 1)[2] = CRLF
      <4>1. 1 \in 1..((b + 1) - b + 1) /\ 2 \in 1..((b + 1) - b + 1)
            /\ b + 1 - 1 = b /\ b + 2 - 1 = b + 1
        BY <2>1
      <4>2. Len(SubSeq(rest, b, b + 1)) = 2
        BY <2>1, <3>3
      <4> QED
        BY <1>8, <3>3, <4>1, <4>2
    <3>5. /\ <<CRLF, CRLF>> \in Seq(Tokens) /\ Len(<<CRLF, CRLF>>) = 2
          /\ <<CRLF, CRLF>>[1] = CRLF /\ <<CRLF, CRLF>>[2] = CRLF
      BY DEF Tokens
    <3>6. \A j \in 1..2 : SubSeq(rest, b, b + 1)[j] = <<CRLF, CRLF>>[j]
      <4>1. \A j \in 1..2 : j = 1 \/ j = 2
        OBVIOUS
      <4> QED
        BY <3>4, <3>5, <4>1
    <3> QED
      BY <3>3, <3>4, <3>5, <3>6, SeqEqual
  <2>3. rest = (Before(rest, b) \o SubSeq(rest, b, b + 1)) \o After(rest, b + 1)
    BY <1>7, <2>1, Rejoined
  <2> QED
    BY <2>2, <2>3 DEF body
<1>13. /\ After(afterMethod, p) = version
       /\ m + p \in 0..Len(text)
  <2>1. /\ Len(text) \in Nat /\ f \in 1..Len(text) /\ m \in 1..(f - 1)
        /\ Len(afterMethod) = f - 1 - m /\ p \in 1..(f - 1 - m)
    BY <1>0, <1>2, <1>3, <1>4, <1>5, <1>6, LenProperties
  <2>2. \A j \in 1..(f - 1 - m) : afterMethod[j] = text[m + j]
    <3> SUFFICES ASSUME NEW j \in 1..(f - 1 - m)
                 PROVE  afterMethod[j] = text[m + j]
      OBVIOUS
    <3>1. m + j \in 1..(f - 1)
      BY <2>1
    <3> QED
      BY <1>3, <1>5, <3>1
  <2>3. /\ After(afterMethod, p) \in Seq(Tokens)
        /\ Len(After(afterMethod, p)) = Len(afterMethod) - p
        /\ \A j \in 1..(Len(afterMethod) - p) : After(afterMethod, p)[j] = afterMethod[p + j]
    BY <1>5, <1>6, Pieces
  <2>4. \A j \in 1..(f - 1 - m - p) : After(afterMethod, p)[j] = text[m + p + j]
    <3> SUFFICES ASSUME NEW j \in 1..(f - 1 - m - p)
                 PROVE  After(afterMethod, p)[j] = text[m + p + j]
      OBVIOUS
    <3>1. p + j \in 1..(f - 1 - m) /\ j \in 1..(Len(afterMethod) - p) /\ m + (p + j) = m + p + j
      BY <2>1
    <3> QED
      BY <2>2, <2>3, <3>1
  <2>5. /\ version \in Seq(Tokens)
        /\ Len(version) = IF m + p + 1 <= f - 1 THEN (f - 1) - (m + p + 1) + 1 ELSE 0
        /\ \A j \in 1..((f - 1) - (m + p + 1) + 1) : version[j] = text[(m + p + 1) + j - 1]
    <3>1. m + p + 1 \in Int /\ f - 1 \in Int
      BY <2>1
    <3>2. \A j \in (m + p + 1)..(f - 1) : text[j] \in Tokens
      <4>1. \A j \in (m + p + 1)..(f - 1) : j \in 1..Len(text)
        BY <2>1
      <4> QED
        BY <1>0, <4>1, ElementOfSeq
    <3> QED
      BY <3>1, <3>2, SubSeqProperties DEF version
  <2>6. Len(version) = f - 1 - m - p /\ Len(After(afterMethod, p)) = f - 1 - m - p
    BY <2>1, <2>3, <2>5
  <2>7. \A j \in 1..(f - 1 - m - p) : version[j] = text[m + p + j]
    <3>1. \A j \in 1..(f - 1 - m - p) :
             j \in 1..((f - 1) - (m + p + 1) + 1) /\ (m + p + 1) + j - 1 = m + p + j
      BY <2>1
    <3> QED
      BY <2>5, <3>1
  <2>8. After(afterMethod, p) = version
    BY <2>3, <2>4, <2>5, <2>6, <2>7, SeqEqual
  <2> QED
    BY <2>1, <2>8
<1>14. /\ parsed.method = Before(line, m) /\ parsed.route = Before(afterMethod, p)
       /\ parsed.headers = Before(rest, b)
       /\ body = IF parsed.body = NULL THEN <<>> ELSE parsed.body
  <2>1. body \in Seq(Tokens)
    <3>1. b + 1 \in 1..Len(rest)
      BY <1>7, <1>8, LenProperties
    <3> QED
      BY <1>7, <3>1, Pieces DEF body
  <2>2. body # NULL
    BY <2>1, WordsAssumption
  <2>3. CASE f + (b + 1) < Len(bytes)
    BY <1>1, <2>2, <2>3
  <2>4. CASE ~(f + (b + 1) < Len(bytes))
    <3>1. Len(body) = Len(rest) - (b + 1) /\ Len(body) \in Nat
      <4>1. b + 1 \in 1..Len(rest)
        BY <1>7, <1>8, LenProperties
      <4> QED
        BY <1>7, <2>1, <4>1, Pieces, LenProperties DEF body
    <3>2. Len(body) = 0
      BY <1>0, <1>2, <1>7, <1>8, <2>4, <3>1, LenProperties
    <3>3. body = <<>>
      BY <2>1, <3>2, EmptySeq
    <3> QED
      BY <1>1, <2>4, <3>3
  <2> QED
    BY <2>3, <2>4
<1>15. /\ Before(afterMethod, p) \in Seq(Tokens) /\ Before(rest, b) \in Seq(Tokens)
       /\ version \in Seq(Tokens) /\ body \in Seq(Tokens)
       /\ <<SP>> \in Seq(Tokens) /\ <<CRLF>> \in Seq(Tokens) /\ <<CRLF, CRLF>> \in Seq(Tokens)
  <2>1. b \in 1..Len(rest) /\ b + 1 \in 1..Len(rest)
    BY <1>7, <1>8, LenProperties
  <2>2. Before(rest, b) \in Seq(Tokens) /\ body \in Seq(Tokens)
    BY <1>7, <2>1, Pieces DEF body
  <2>3. Before(afterMethod, p) \in Seq(Tokens) /\ version \in Seq(Tokens)
    BY <1>5, <1>6, <1>13, Pieces
  <2>4. SP \in Tokens /\ CRLF \in Tokens
    BY DEF Tokens
  <2> QED
    BY <2>2, <2>3, <2>4
<1> DEFINE start == Before(line, m) \o <<SP>>
           line2 == ((start \o Before(afterMethod, p)) \o <<SP>>) \o version
<1>16. start \in Seq(Tokens) /\ line2 \in Seq(Tokens)
  BY <1>5, <1>15, ConcatProperties
<1>17. line = line2
  <2>1. line = start \o ((Before(afterMethod, p) \o <<SP>>) \o version)
    BY <1>10, <1>11, <1>13, Zenon
  <2> HIDE DEF start
  <2>2. start \o ((Before(afterMethod, p) \o <<SP>>) \o version)
        = ((start \o Before(afterMethod, p)) \o <<SP>>) \o version
    <3> DEFINE s == <<SP>>
               r == Before(afterMethod, p)
    <3>1. start \in Seq(Tokens) /\ r \in Seq(Tokens) /\ s \in Seq(Tokens) /\ version \in Seq(Tokens)
      BY <1>15, <1>16
    <3> HIDE DEF s, r
    <3>2. SameBehind(start, r, s, version)
      BY <3>1, OneByOne
    <3> QED
      BY <3>2, Zenon DEF SameBehind, s, r
  <2> QED
    BY <2>1, <2>2, Zenon
<1>18. text = (((line2 \o <<CRLF>>) \o Before(rest, b)) \o <<CRLF, CRLF>>) \o body
  <2> HIDE DEF line2
  <2>1. line2 \o <<CRLF>> \in Seq(Tokens)
    BY <1>15, <1>16, ConcatProperties
  <2>2. (line2 \o <<CRLF>>) \o ((Before(rest, b) \o <<CRLF, CRLF>>) \o body)
        = (((line2 \o <<CRLF>>) \o Before(rest, b)) \o <<CRLF, CRLF>>) \o body
    <3> DEFINE x == line2 \o <<CRLF>>
               h == Before(rest, b)
               blank == <<CRLF, CRLF>>
    <3>1. x \in Seq(Tokens) /\ h \in Seq(Tokens) /\ blank \in Seq(Tokens) /\ body \in Seq(Tokens)
      BY <1>15, <2>1
    <3> HIDE DEF x, h, blank
    <3>2. SameBehind(x, h, blank, body)
      BY <3>1, OneByOne
    <3> QED
      BY <3>2, Zenon DEF SameBehind, x, h, blank
  <2>3. text = (line2 \o <<CRLF>>) \o ((Before(rest, b) \o <<CRLF, CRLF>>) \o body)
    BY <1>9, <1>12, <1>17, Zenon
  <2> QED
    BY <2>2, <2>3, Zenon
<1>19. m + p \in 0..Len(bytes)
  BY <1>0, <1>13, LenProperties
<1> QED
  BY <1>14, <1>18, <1>19 DEF parsed, version, f, text

-----------------------------------------------------------------------------
(* The router.                                                             *)

\* A handler is called for the path that the first parser read in the request,
\* if its line fits, and is given what the parser had.
RouterInv ==
    /\ request \in Seq(Tokens)
    /\ Called =>
          /\ reply.request \in Seq(Tokens)
          /\ LineFits(reply.request) => reply.path = RouteOf(reply.request)

\* The entry whose handler is called has the path that was looked up.
LEMMA CalledForItsPath ==
    ASSUME NEW bytes, NEW r \in Replies(bytes), r.answer = "handler"
    PROVE  r.request = bytes /\ (LineFits(bytes) => r.path = RouteOf(bytes))
<1>1. CASE LineFits(bytes)
  <2>1. PICK i \in router_find(RouteOf(bytes)) : r = EntryReply(i, bytes)
    BY <1>1 DEF Replies, Answers, Refusal
  <2> QED
    BY <2>1 DEF EntryReply, router_find
<1>2. CASE ~LineFits(bytes)
  <2>1. PICK i \in DOMAIN m_routes : r = EntryReply(i, bytes)
    BY <1>2 DEF Replies, AnyAnswers, Refusal
  <2> QED
    BY <1>2, <2>1 DEF EntryReply
<1> QED
  BY <1>1, <1>2

\* Before the first connection nothing has arrived and nothing was answered.
LEMMA RouterInvInit == Init => RouterInv
<1> SUFFICES ASSUME Init PROVE RouterInv
  OBVIOUS
<1>1. request \in Seq(Tokens)
  BY EmptySeq DEF Init
<1> QED
  BY <1>1 DEF Init, RouterInv, Called, NoReply

\* Bytes arrive, entries come and go, requests are answered.
LEMMA RouterInvStep ==
    ASSUME RouterInv, [Next]_vars
    PROVE  RouterInv'
<1>1. CASE Arrive
  <2>1. request' \in Seq(Tokens)
    BY <1>1, AppendProperties DEF Arrive, RouterInv
  <2>2. ~Called'
    BY <1>1 DEF Arrive, Called, NoReply
  <2> QED
    BY <2>1, <2>2 DEF RouterInv
<1>2. CASE NextConnection
  <2>1. request' \in Seq(Tokens)
    BY <1>2, EmptySeq DEF NextConnection
  <2>2. ~Called'
    BY <1>2 DEF NextConnection, Called, NoReply
  <2> QED
    BY <2>1, <2>2 DEF RouterInv
<1>3. CASE router_handle_http_request
  <2>1. reply' \in Replies(request) /\ request' = request
    BY <1>3 DEF router_handle_http_request
  <2>2. Called' => /\ reply'.request = request
                   /\ LineFits(request) => reply'.path = RouteOf(request)
    BY <2>1, CalledForItsPath DEF Called
  <2> QED
    BY <2>1, <2>2 DEF RouterInv, RouteOf, LineFits, HasLine, FirstLineOf, Text
<1>4. CASE router_handle_http_request_crashes
  BY <1>4 DEF router_handle_http_request_crashes, RouterInv, Called, Crashed
<1>5. CASE UNCHANGED <<request, reply>>
  BY <1>5 DEF RouterInv, Called, RouteOf, LineFits, HasLine, FirstLineOf, Text
<1> QED
  BY <1>1, <1>2, <1>3, <1>4, <1>5
     DEF Next, vars, router_add, router_delete, router_clear, Ended

\* A request is made of tokens, and a handler called for the path in it if its
\* line fits in first_line.
THEOREM RouterInvInvariant == Spec => []RouterInv
<1>1. RouterInv /\ [Next]_vars => RouterInv'
  BY RouterInvStep
<1> QED
  BY <1>1, RouterInvInit, PTL DEF Spec

\* A handler that parses its request finds the path it was registered for,
\* whatever else was registered, deleted or cleared meanwhile, if the request's
\* line fits in first_line.
THEOREM HandlersPath == Spec => []HandlerSeesItsPath
<1>1. RouterInv => HandlerSeesItsPath
  BY SamePath DEF RouterInv, HandlerSeesItsPath
<1> QED
  BY <1>1, RouterInvInvariant, PTL

\* The pieces of a parsed request put together are the request up to its first
\* byte 0.
THEOREM NothingLostInParsing == Spec => []PiecesMakeTheRequest
<1>1. RouterInv => PiecesMakeTheRequest
  BY PiecesInOrder DEF RouterInv, PiecesMakeTheRequest, Parsed
<1> QED
  BY <1>1, RouterInvInvariant, PTL

=============================================================================
