----------------------- MODULE HttpRequestHelperProofs -----------------------
(***************************************************************************)
(* The URLs and the answers of http_request_helper.h, for every URL, every *)
(* map of parameters and every answer: a reader that takes a URL apart has *)
(* the parameters back, and an answer's response is found.  Loops are      *)
(* reasoned about as in CJsonProofs: by the values they go through.        *)
(***************************************************************************)
EXTENDS HttpRequestHelper, CJsonProofs, FiniteSetTheorems

Free(t, b) == \A i \in 1 .. Len(t) : t[i] # b

-----------------------------------------------------------------------------
(* The order of names *)

\* A name is not before itself.
LEMMA NotBeforeItself ==
  ASSUME NEW a \in Seq(Int)
  PROVE  ~Before(a, a)
BY DEF Before

\* Of two names one is before the other: they differ at a first place, or one of them
\* is over there.
LEMMA OneIsBefore ==
  ASSUME NEW a \in Seq(Int), NEW b \in Seq(Int), a # b
  PROVE  Before(a, b) \/ Before(b, a)
<1> DEFINE S == {k \in Nat : k >= 1 /\ (k > Len(a) \/ k > Len(b) \/ a[k] # b[k])}
<1>1. Len(a) \in Nat /\ Len(b) \in Nat
  OBVIOUS
<1>2. Len(a) + 1 \in S
  BY <1>1
<1>3. S \in SUBSET Nat /\ S # {}
  BY <1>2
<1> HIDE DEF S
<1>4. PICK m \in S : \A i \in S : m <= i
  BY <1>3, LeastNumber
<1>5. m \in Nat /\ m >= 1 /\ (m > Len(a) \/ m > Len(b) \/ a[m] # b[m])
  BY <1>4 DEF S
<1>6. \A i \in 1 .. m - 1 : i <= Len(a) /\ i <= Len(b) /\ a[i] = b[i]
  <2> SUFFICES ASSUME NEW i \in 1 .. m - 1
               PROVE  i <= Len(a) /\ i <= Len(b) /\ a[i] = b[i]
    OBVIOUS
  <2>1. i \in Nat /\ i >= 1 /\ ~(m <= i)
    BY <1>5
  <2>2. i \notin S
    BY <1>4, <2>1
  <2>3. ~(i > Len(a) \/ i > Len(b) \/ a[i] # b[i])
    BY <2>1, <2>2 DEF S
  <2>4. QED
    BY <1>1, <2>1, <2>3
<1>7. m - 1 <= Len(a) /\ m - 1 <= Len(b)
  BY <1>1, <1>5, <1>6
<1>8. CASE m > Len(a)
  <2>1. m - 1 = Len(a)
    BY <1>1, <1>5, <1>7, <1>8
  <2>2. Len(a) # Len(b)
    <3> SUFFICES ASSUME Len(a) = Len(b)
                 PROVE  FALSE
      OBVIOUS
    <3>1. \A i \in 1 .. Len(a) : a[i] = b[i]
      BY <1>6, <2>1
    <3>2. QED
      BY <3>1, SeqEqual
  <2>3. Len(a) < Len(b)
    BY <1>1, <1>7, <2>1, <2>2
  <2>4. Len(a) \in 0 .. Len(a) /\ \A i \in 1 .. Len(a) : a[i] = b[i]
    BY <1>1, <1>6, <2>1
  <2>5. QED
    BY <1>1, <2>3, <2>4 DEF Before
<1>9. CASE m <= Len(a) /\ m > Len(b)
  <2>1. m - 1 = Len(b) /\ Len(b) < Len(a)
    BY <1>1, <1>5, <1>7, <1>9
  <2>2. QED
    BY <1>1, <1>6, <2>1 DEF Before
<1>10. CASE m <= Len(a) /\ m <= Len(b)
  <2>1. m \in 1 .. Len(a) /\ m \in 1 .. Len(b)
    BY <1>1, <1>5, <1>10
  <2>2. a[m] \in Int /\ b[m] \in Int /\ a[m] # b[m]
    BY <1>1, <1>5, <1>10, <2>1
  <2>3. m - 1 \in 0 .. Len(a) /\ m - 1 \in 0 .. Len(b) /\ m - 1 < Len(a) /\ m - 1 < Len(b)
        /\ (m - 1) + 1 = m
    BY <1>1, <2>1
  <2>4. CASE a[m] < b[m]
    BY <1>6, <2>3, <2>4 DEF Before
  <2>5. CASE b[m] < a[m]
    BY <1>6, <2>3, <2>5 DEF Before
  <2>6. QED
    BY <2>2, <2>4, <2>5
<1>11. QED
  BY <1>1, <1>5, <1>8, <1>9, <1>10

\* What is before a name is before all the names behind it.
LEMMA BeforeIsTransitive ==
  ASSUME NEW a \in Seq(Int), NEW b \in Seq(Int), NEW c \in Seq(Int), Before(a, b), Before(b, c)
  PROVE  Before(a, c)
<1>1. Len(a) \in Nat /\ Len(b) \in Nat /\ Len(c) \in Nat
  OBVIOUS
<1>2. PICK n \in 0 .. Len(a) : /\ n < Len(b) /\ \A i \in 1 .. n : a[i] = b[i]
                               /\ n < Len(a) => a[n + 1] < b[n + 1]
  BY DEF Before
<1>3. PICK m \in 0 .. Len(b) : /\ m < Len(c) /\ \A i \in 1 .. m : b[i] = c[i]
                               /\ m < Len(b) => b[m + 1] < c[m + 1]
  BY DEF Before
<1>4. CASE n < m
  <2>1. n < Len(c) /\ \A i \in 1 .. n : a[i] = c[i]
    BY <1>1, <1>2, <1>3, <1>4
  <2>2. n + 1 \in 1 .. m /\ b[n + 1] = c[n + 1]
    BY <1>1, <1>2, <1>3, <1>4
  <2>3. QED
    BY <1>2, <2>1, <2>2 DEF Before
<1>5. CASE n = m
  <2>1. \A i \in 1 .. n : a[i] = c[i]
    BY <1>2, <1>3, <1>5
  <2>2. ASSUME n < Len(a)
        PROVE  a[n + 1] < c[n + 1]
    <3>1. n + 1 \in 1 .. Len(a) /\ n + 1 \in 1 .. Len(b) /\ n + 1 \in 1 .. Len(c)
      BY <1>1, <1>2, <1>3, <1>5, <2>2
    <3>2. a[n + 1] \in Int /\ b[n + 1] \in Int /\ c[n + 1] \in Int
      BY <3>1
    <3>3. a[n + 1] < b[n + 1] /\ b[n + 1] < c[n + 1]
      BY <1>2, <1>3, <1>5, <2>2
    <3>4. QED
      BY <3>2, <3>3
  <2>3. QED
    BY <1>2, <1>3, <1>5, <2>1, <2>2 DEF Before
<1>6. CASE m < n
  <2>1. m < Len(c) /\ \A i \in 1 .. m : a[i] = c[i]
    BY <1>1, <1>2, <1>3, <1>6
  <2>2. m + 1 \in 1 .. n /\ a[m + 1] = b[m + 1] /\ m < Len(b) /\ m \in 0 .. Len(a)
    BY <1>1, <1>2, <1>3, <1>6
  <2>3. QED
    BY <1>3, <2>1, <2>2 DEF Before
<1>7. QED
  BY <1>1, <1>2, <1>3, <1>4, <1>5, <1>6

\* The names of a map.
IsMap(map) ==
  /\ IsFiniteSet(map) /\ map \subseteq Seq(Int) \X Seq(Int)
  /\ \A p, q \in map : p[1] = q[1] => p = q

\* An element of a map is counted for every element behind it and not for itself.
LEMMA RankGrows ==
  ASSUME NEW map, IsMap(map), NEW p \in map, NEW q \in map, Before(p[1], q[1])
  PROVE  Rank(p, map) < Rank(q, map)
<1> DEFINE P == {r \in map : Before(r[1], p[1])}
           Q == {r \in map : Before(r[1], q[1])}
<1>1. \A r \in map : r[1] \in Seq(Int)
  BY DEF IsMap
<1>2. P \subseteq Q
  BY <1>1, BeforeIsTransitive
<1>3. p \in Q /\ p \notin P
  BY <1>1, NotBeforeItself
<1>4. Q \subseteq map /\ P # Q
  BY <1>3
<1>5. Rank(p, map) = Cardinality(P) /\ Rank(q, map) = Cardinality(Q)
  BY DEF Rank
<1> HIDE DEF P, Q
<1>6. IsFiniteSet(Q)
  BY <1>4, FS_Subset DEF IsMap
<1>7. IsFiniteSet(P) /\ Cardinality(P) <= Cardinality(Q) /\ Cardinality(P) # Cardinality(Q)
  BY <1>2, <1>4, <1>6, FS_Subset
<1>8. Cardinality(P) \in Nat /\ Cardinality(Q) \in Nat
  BY <1>6, <1>7, FS_CardinalityType
<1>9. QED
  BY <1>5, <1>7, <1>8

\* The ranks of a map are the numbers below its size.
LEMMA RankIsBelow ==
  ASSUME NEW map, IsMap(map), NEW p \in map
  PROVE  Rank(p, map) \in 0 .. Cardinality(map) - 1
<1> DEFINE P == {r \in map : Before(r[1], p[1])}
<1>1. p[1] \in Seq(Int)
  BY DEF IsMap
<1>2. P \subseteq map /\ p \notin P
  BY <1>1, NotBeforeItself
<1>3. Rank(p, map) = Cardinality(P)
  BY DEF Rank
<1> HIDE DEF P
<1>4. IsFiniteSet(map)
  BY DEF IsMap
<1>5. IsFiniteSet(P) /\ Cardinality(P) <= Cardinality(map) /\ Cardinality(P) # Cardinality(map)
  BY <1>2, <1>4, FS_Subset
<1>6. Cardinality(P) \in Nat /\ Cardinality(map) \in Nat
  BY <1>4, <1>5, FS_CardinalityType
<1>7. QED
  BY <1>3, <1>5, <1>6

\* Each is the rank of one element.
LEMMA EveryRank ==
  ASSUME NEW map, IsMap(map)
  PROVE  /\ \A p, q \in map : Rank(p, map) = Rank(q, map) => p = q
         /\ \A r \in 0 .. Cardinality(map) - 1 : \E p \in map : Rank(p, map) = r
<1>1. ASSUME NEW p \in map, NEW q \in map, Rank(p, map) = Rank(q, map)
      PROVE  p = q
  <2>1. p[1] \in Seq(Int) /\ q[1] \in Seq(Int)
    BY DEF IsMap
  <2>2. Rank(p, map) \in Int
    BY RankIsBelow
  <2>3. ~Before(p[1], q[1]) /\ ~Before(q[1], p[1])
    <3>1. CASE Before(p[1], q[1])
      <4>1. Rank(p, map) < Rank(q, map)
        BY <3>1, RankGrows
      <4>2. QED
        BY <1>1, <2>2, <4>1
    <3>2. CASE Before(q[1], p[1])
      <4>1. Rank(q, map) < Rank(p, map)
        BY <3>2, RankGrows
      <4>2. QED
        BY <1>1, <2>2, <4>1
    <3>3. QED
      BY <3>1, <3>2
  <2>4. p[1] = q[1]
    BY <2>1, <2>3, OneIsBefore
  <2>5. QED
    BY <2>4 DEF IsMap
<1> DEFINE N == Cardinality(map)
           f == [p \in map |-> Rank(p, map)]
           T == 0 .. N - 1
<1>2. IsFiniteSet(map) /\ N \in Nat
  BY FS_CardinalityType DEF IsMap
<1>3. \A p \in map : Rank(p, map) \in T
  BY RankIsBelow
<1>4. f \in [map -> T] /\ \A p \in map : f[p] = Rank(p, map)
  BY <1>3
<1>5. IsFiniteSet(T) /\ Cardinality(T) = N
  <2>1. 0 \in Int /\ N - 1 \in Int
    BY <1>2
  <2>2. IsFiniteSet(T) /\ Cardinality(T) = IF 0 > N - 1 THEN 0 ELSE N - 1 - 0 + 1
    BY <2>1, FS_Interval
  <2> HIDE DEF N
  <2>3. QED
    BY <1>2, <2>2
<1> HIDE DEF f, T
<1>6. f \in Injection(map, T)
  BY <1>1, <1>4 DEF Injection, IsInjective
<1>7. f \in Surjection(map, T)
  BY <1>2, <1>5, <1>6, FS_Injection
<1>8. \A r \in T : \E p \in map : Rank(p, map) = r
  BY <1>4, <1>7 DEF Surjection
<1>9. QED
  BY <1>1, <1>8 DEF T

\* A std::map is walked through every element once, the names in their order.
THEOREM MapIsWalkedInOrder ==
  ASSUME NEW map, IsMap(map)
  PROVE  /\ Cardinality(map) \in Nat
         /\ InOrder(map) \in [1 .. Cardinality(map) -> map]
         /\ map = {InOrder(map)[i] : i \in 1 .. Cardinality(map)}
         /\ \A i, j \in 1 .. Cardinality(map) :
              i < j => Before(InOrder(map)[i][1], InOrder(map)[j][1])
<1> DEFINE N == Cardinality(map)
           w == InOrder(map)
           At(i) == CHOOSE p \in map : Rank(p, map) = i - 1
<1>1. N \in Nat
  BY FS_CardinalityType DEF IsMap
<1>2. \A i \in 1 .. N : At(i) \in map /\ Rank(At(i), map) = i - 1
  <2> SUFFICES ASSUME NEW i \in 1 .. N
               PROVE  At(i) \in map /\ Rank(At(i), map) = i - 1
    OBVIOUS
  <2>1. i - 1 \in 0 .. N - 1
    BY <1>1
  <2>2. \E p \in map : Rank(p, map) = i - 1
    BY <2>1, EveryRank
  <2>3. QED
    BY <2>2
<1>3. w = [i \in 1 .. N |-> At(i)]
  BY DEF InOrder
<1> HIDE DEF At, w
<1>4. w \in [1 .. N -> map] /\ \A i \in 1 .. N : Rank(w[i], map) = i - 1
  BY <1>2, <1>3
<1>5. ASSUME NEW p \in map
      PROVE  p \in {w[i] : i \in 1 .. N}
  <2> DEFINE i == Rank(p, map) + 1
  <2>1. Rank(p, map) \in 0 .. N - 1
    BY RankIsBelow
  <2>2. i \in 1 .. N /\ i - 1 = Rank(p, map)
    BY <1>1, <2>1
  <2>3. Rank(w[i], map) = Rank(p, map) /\ w[i] \in map
    BY <1>4, <2>2
  <2>4. w[i] = p
    BY <2>3, EveryRank
  <2>5. QED
    BY <2>2, <2>4
<1>6. ASSUME NEW i \in 1 .. N, NEW j \in 1 .. N, i < j
      PROVE  Before(w[i][1], w[j][1])
  <2>1. w[i] \in map /\ w[j] \in map /\ Rank(w[i], map) < Rank(w[j], map)
    BY <1>1, <1>4, <1>6
  <2>2. w[i][1] \in Seq(Int) /\ w[j][1] \in Seq(Int)
    BY <2>1 DEF IsMap
  <2>3. Rank(w[i], map) \in Int /\ Rank(w[j], map) \in Int
    BY <2>1, RankIsBelow
  <2>4. ~Before(w[j][1], w[i][1])
    <3> SUFFICES ASSUME Before(w[j][1], w[i][1])
                 PROVE  FALSE
      OBVIOUS
    <3>1. Rank(w[j], map) < Rank(w[i], map)
      BY <2>1, RankGrows
    <3>2. QED
      BY <2>1, <2>3, <3>1
  <2>5. w[i][1] # w[j][1]
    <3> SUFFICES ASSUME w[i][1] = w[j][1]
                 PROVE  FALSE
      OBVIOUS
    <3>1. w[i] = w[j]
      BY <2>1 DEF IsMap
    <3>2. QED
      BY <2>1, <2>3, <3>1
  <2>6. QED
    BY <2>2, <2>4, <2>5, OneIsBefore
<1>7. QED
  BY <1>1, <1>4, <1>5, <1>6 DEF w

-----------------------------------------------------------------------------
(* Percent encoding *)

\* Upper case digits mean what lower case ones do.
LEMMA UpperDigit ==
  ASSUME NEW n \in 0 .. 15
  PROVE  /\ UpperHex(n) \in CharByte /\ UpperHex(n) \notin {Question, Ampersand, Equals, Percent}
         /\ HexValue(UpperHex(n)) = n
<1>1. CASE n < 10
  <2>1. UpperHex(n) = 48 + n
    BY <1>1 DEF UpperHex, Zero
  <2>2. HexValue(UpperHex(n)) = n
    BY <1>1, <2>1, SMT DEF HexValue, Digits, Zero, Nine
  <2>3. QED
    BY <1>1, <2>1, <2>2, SMT DEF CharByte, Byte, NUL, Question, Ampersand, Equals, Percent
<1>2. CASE n >= 10
  <2>1. UpperHex(n) = 55 + n
    BY <1>2 DEF UpperHex
  <2>2. HexValue(UpperHex(n)) = n
    BY <1>2, <2>1, SMT DEF HexValue, Digits, Zero, Nine
  <2>3. QED
    BY <1>2, <2>1, <2>2, SMT DEF CharByte, Byte, NUL, Question, Ampersand, Equals, Percent
<1>3. QED
  BY <1>1, <1>2

\* A byte is left as it is, when it separates nothing, or becomes two digits of its value.
LEMMA EncodedByte ==
  ASSUME NEW b \in CharByte
  PROVE  /\ PercentEncoded(b) \in Seq(CharByte)
         /\ \A c \in {Question, Ampersand, Equals} : Free(PercentEncoded(b), c)
         /\ \/ PercentEncoded(b) = <<b>> /\ b # Percent
            \/ \E h, l \in CharByte :
                 /\ PercentEncoded(b) = <<Percent, h, l>> /\ h # Percent /\ l # Percent
                 /\ HexValue(h) * 16 + HexValue(l) = b
<1>1. b \in Nat /\ 0 < b /\ b < 256
  BY SMT DEF CharByte, Byte, NUL
<1>2. CASE b \in Unreserved
  <2>1. b \notin {Question, Ampersand, Equals, Percent}
    BY <1>2, SMT DEF Unreserved, Digits, Zero, Nine, Minus, Dot, Question, Ampersand, Equals, Percent
  <2>2. PercentEncoded(b) = <<b>>
    BY <1>2 DEF PercentEncoded
  <2>3. QED
    BY <2>1, <2>2 DEF Free
<1>3. CASE b \notin Unreserved
  <2> DEFINE h == UpperHex(b \div 16)
             l == UpperHex(b % 16)
  <2>1. b \div 16 \in 0 .. 15 /\ b % 16 \in 0 .. 15 /\ (b \div 16) * 16 + (b % 16) = b
    BY <1>1, SMT
  <2>2. PercentEncoded(b) = <<Percent, h, l>>
    BY <1>3 DEF PercentEncoded
  <2>3. /\ h \in CharByte /\ h \notin {Question, Ampersand, Equals, Percent}
        /\ l \in CharByte /\ l \notin {Question, Ampersand, Equals, Percent}
        /\ HexValue(h) = b \div 16 /\ HexValue(l) = b % 16
    BY <2>1, UpperDigit
  <2>4. Percent \in CharByte /\ Percent \notin {Question, Ampersand, Equals}
    BY SMT DEF CharByte, Byte, NUL, Question, Ampersand, Equals, Percent
  <2> HIDE DEF h, l
  <2>5. HexValue(h) * 16 + HexValue(l) = b
    BY <2>1, <2>3
  <2>6. \A c \in {Question, Ampersand, Equals} : Free(<<Percent, h, l>>, c)
    BY <2>3, <2>4 DEF Free
  <2>7. QED
    BY <2>2, <2>3, <2>4, <2>5, <2>6
<1>4. QED
  BY <1>2, <1>3

\* The loop of curl_easy_escape.
Escapes(s, f) ==
  f = [n \in 0 .. Len(s) |-> IF n = 0 THEN <<>> ELSE f[n - 1] \o PercentEncoded(s[n])]

LEMMA EscapingLoop ==
  ASSUME NEW s \in Seq(CharByte)
  PROVE  \E f : Escapes(s, f) /\ curl_easy_escape(s) = f[Len(s)]
<1> DEFINE N == Len(s)
           V == Seq(CharByte)
           base == <<>>
           step == [n \in 1 .. N |-> [t \in V |-> t \o PercentEncoded(s[n])]]
<1>1. N \in Nat /\ \A n \in 1 .. N : s[n] \in CharByte
  OBVIOUS
<1>2. \A t \in V, n \in 1 .. N : t \o PercentEncoded(s[n]) \in V
  BY <1>1, EncodedByte, ConcatProperties
<1>3. base \in V
  OBVIOUS
<1> HIDE DEF V
<1>4. Steps(N, V, step)
  BY <1>2 DEF Steps
<1>5. PICK f : Course(f, N, V, base, step)
  <2> HIDE DEF step, N, base
  <2>1. QED
    BY <1>1, <1>3, <1>4, LoopRuns
<1>6. Escapes(s, f)
  <2>1. ASSUME NEW n \in 0 .. N
        PROVE  f[n] = IF n = 0 THEN <<>> ELSE f[n - 1] \o PercentEncoded(s[n])
    <3>1. CASE n = 0
      BY <1>5, <3>1 DEF Course
    <3>2. CASE n # 0
      <4>1. n \in 1 .. N /\ n - 1 \in 0 .. N
        BY <1>1, <3>2
      <4>2. f[n - 1] \in V /\ f[n] = step[n][f[n - 1]]
        BY <1>5, <4>1 DEF Course
      <4>3. f[n] = f[n - 1] \o PercentEncoded(s[n])
        BY <4>1, <4>2
      <4>4. QED
        BY <3>2, <4>3
    <3>3. QED
      BY <3>1, <3>2
  <2>2. QED
    BY <1>5, <2>1 DEF Course, Escapes
<1>7. curl_easy_escape(s) = (CHOOSE f_1 : Escapes(s, f_1))[N]
  BY DEF curl_easy_escape, Escapes
<1>8. QED
  BY <1>6, <1>7

\* A text is decoded byte by byte.
Decodes(t, f) ==
  f = [n \in 0 .. Len(t) |->
        IF n = 0 THEN <<>>
        ELSE IF n > 2 /\ t[n - 2] = Percent
             THEN Append(f[n - 1], HexValue(t[n - 1]) * 16 + HexValue(t[n]))
        ELSE IF t[n] = Percent \/ (n > 1 /\ t[n - 1] = Percent) THEN f[n - 1]
        ELSE Append(f[n - 1], t[n])]

Decoded(t, n, s) ==
  IF n > 2 /\ t[n - 2] = Percent THEN Append(s, HexValue(t[n - 1]) * 16 + HexValue(t[n]))
  ELSE IF t[n] = Percent \/ (n > 1 /\ t[n - 1] = Percent) THEN s
  ELSE Append(s, t[n])

LEMMA DecodingLoop ==
  ASSUME NEW t \in Seq(CharByte)
  PROVE  \E f : /\ Unescape(t) = f[Len(t)] /\ f[0] = <<>>
                /\ \A n \in 1 .. Len(t) : f[n] = Decoded(t, n, f[n - 1])
<1> DEFINE N == Len(t)
           V == Seq(Int)
           base == <<>>
           step == [n \in 1 .. N |-> [s \in V |-> Decoded(t, n, s)]]
<1>1. N \in Nat /\ \A n \in 1 .. N : t[n] \in Int
  BY CharsAreInts
<1>2. \A s \in V, n \in 1 .. N : Decoded(t, n, s) \in V
  <2> SUFFICES ASSUME NEW s \in V, NEW n \in 1 .. N
               PROVE  Decoded(t, n, s) \in V
    OBVIOUS
  <2>1. \A b : HexValue(b) \in Int \/ b \notin Int
    BY SMTT(60) DEF HexValue, Digits, Zero, Nine
  <2>2. CASE n > 2 /\ t[n - 2] = Percent
    <3>1. t[n - 1] \in Int /\ t[n] \in Int
      BY <1>1, <2>2
    <3>2. HexValue(t[n - 1]) * 16 + HexValue(t[n]) \in Int
      BY <2>1, <3>1
    <3>3. QED
      BY <2>2, <3>2, AppendProperties DEF Decoded
  <2>3. CASE ~(n > 2 /\ t[n - 2] = Percent)
    BY <1>1, <2>3, AppendProperties DEF Decoded
  <2>4. QED
    BY <2>2, <2>3
<1>3. base \in V
  OBVIOUS
<1> HIDE DEF V
<1>4. Steps(N, V, step)
  BY <1>2 DEF Steps
<1>5. PICK f : Course(f, N, V, base, step)
  <2> HIDE DEF step, N, base
  <2>1. QED
    BY <1>1, <1>3, <1>4, LoopRuns
<1>6. \A n \in 1 .. N : f[n] = Decoded(t, n, f[n - 1])
  <2> SUFFICES ASSUME NEW n \in 1 .. N
               PROVE  f[n] = Decoded(t, n, f[n - 1])
    OBVIOUS
  <2>1. n - 1 \in 0 .. N
    BY <1>1
  <2>2. f[n - 1] \in V /\ f[n] = step[n][f[n - 1]]
    BY <1>5, <2>1 DEF Course
  <2>3. QED
    BY <2>2
<1>7. Decodes(t, f)
  <2> HIDE DEF step
  <2>1. f \in [0 .. N -> V] /\ f[0] = <<>>
    BY <1>5 DEF Course
  <2>2. f = [n \in 0 .. N |-> IF n = 0 THEN <<>> ELSE Decoded(t, n, f[n - 1])]
    BY <1>1, <1>6, <2>1
  <2>3. QED
    BY <2>2 DEF Decodes, Decoded
<1>8. ASSUME NEW f_1, Decodes(t, f_1)
      PROVE  f_1[0] = <<>> /\ \A n \in 1 .. N : f_1[n] = Decoded(t, n, f_1[n - 1])
  <2>1. f_1[0] = <<>>
    BY <1>1, <1>8 DEF Decodes
  <2>2. ASSUME NEW n \in 1 .. N
        PROVE  f_1[n] = Decoded(t, n, f_1[n - 1])
    <3>1. n \in 0 .. N /\ n # 0
      BY <1>1
    <3>2. QED
      BY <1>8, <3>1 DEF Decodes, Decoded
  <2>3. QED
    BY <2>1, <2>2
<1>9. Unescape(t) = (CHOOSE f_1 : Decodes(t, f_1))[N]
  BY DEF Unescape, Decodes
<1>10. Decodes(t, CHOOSE f_1 : Decodes(t, f_1))
  <2> HIDE DEF Decodes
  <2>1. QED
    BY <1>7
<1>11. QED
  BY <1>8, <1>9, <1>10

\* One byte more changes nothing of what is decoded of the bytes ahead of it.
LEMMA OneByteMore ==
  ASSUME NEW t \in Seq(CharByte), NEW b \in CharByte
  PROVE  Unescape(Append(t, b)) = Decoded(Append(t, b), Len(t) + 1, Unescape(t))
<1> DEFINE N == Len(t)
           u == Append(t, b)
<1>1. N \in Nat /\ u \in Seq(CharByte) /\ Len(u) = N + 1 /\ \A i \in 1 .. N : u[i] = t[i]
  BY AppendProperties
<1>2. PICK f : /\ Unescape(t) = f[N] /\ f[0] = <<>>
               /\ \A n \in 1 .. N : f[n] = Decoded(t, n, f[n - 1])
  BY DecodingLoop
<1> HIDE DEF N, u
<1>3. PICK g : /\ Unescape(u) = g[N + 1] /\ g[0] = <<>>
               /\ \A n \in 1 .. N + 1 : g[n] = Decoded(u, n, g[n - 1])
  BY <1>1, DecodingLoop
<1> DEFINE S == {n \in 0 .. N : f[n] = g[n]}
<1>4. 0 \in S
  BY <1>1, <1>2, <1>3
<1>5. ASSUME NEW n \in 0 .. N, n < N, n \in S
      PROVE  n + 1 \in S
  <2>1. n + 1 \in 1 .. N /\ n + 1 \in 1 .. N + 1 /\ (n + 1) - 1 = n /\ f[n] = g[n]
    BY <1>1, <1>5
  <2>2. f[n + 1] = Decoded(t, n + 1, f[n]) /\ g[n + 1] = Decoded(u, n + 1, f[n])
    BY <1>2, <1>3, <2>1
  <2>3. Decoded(t, n + 1, f[n]) = Decoded(u, n + 1, f[n])
    <3> DEFINE m == n + 1
    <3>1. m \in 1 .. N /\ (m > 1 => m - 1 \in 1 .. N) /\ (m > 2 => m - 2 \in 1 .. N)
      BY <1>1, <2>1
    <3> HIDE DEF m
    <3>2. u[m] = t[m] /\ (m > 1 => u[m - 1] = t[m - 1]) /\ (m > 2 => u[m - 2] = t[m - 2])
      BY <1>1, <3>1
    <3>3. m > 2 => m > 1
      BY <3>1
    <3>4. Decoded(t, m, f[n]) = Decoded(u, m, f[n])
      BY <3>2, <3>3 DEF Decoded
    <3>5. QED
      BY <3>4 DEF m
  <2>4. QED
    BY <2>1, <2>2, <2>3
<1> HIDE DEF S
<1>6. N \in S
  <2>1. 0 .. N \subseteq S
    BY <1>1, <1>4, <1>5, CountingUp
  <2>2. QED
    BY <1>1, <2>1
<1>7. f[N] = g[N] /\ N + 1 \in 1 .. N + 1 /\ (N + 1) - 1 = N
  BY <1>1, <1>6 DEF S
<1>8. Unescape(u) = Decoded(u, N + 1, Unescape(t))
  BY <1>2, <1>3, <1>7
<1>9. QED
  BY <1>8 DEF N, u

\* No percent sign waits for its digits.
Clean(t) == \A i \in 1 .. Len(t) : i >= Len(t) - 1 => t[i] # Percent

\* What is encoded for a byte is decoded to the byte.
LEMMA ByteIsDecoded ==
  ASSUME NEW t \in Seq(CharByte), Clean(t), NEW b \in CharByte
  PROVE  LET u == t \o PercentEncoded(b)
         IN  u \in Seq(CharByte) /\ Clean(u) /\ Unescape(u) = Append(Unescape(t), b)
<1> DEFINE u == t \o PercentEncoded(b)
           N == Len(t)
<1>1. N \in Nat
  OBVIOUS
<1>2. \A i \in 1 .. N : i >= N - 1 => t[i] # Percent
  BY DEF Clean
<1>3. Percent \in CharByte
  BY SMT DEF Percent, CharByte, Byte, NUL
<1> HIDE DEF N
<1>4. CASE PercentEncoded(b) = <<b>> /\ b # Percent
  <2>1. u = Append(t, b)
    BY <1>4, AppendIsConcat
  <2>2. u \in Seq(CharByte) /\ Len(u) = N + 1 /\ u[N + 1] = b /\ \A i \in 1 .. N : u[i] = t[i]
    BY <2>1, AppendProperties DEF N
  <2>3. Unescape(u) = Decoded(u, N + 1, Unescape(t))
    BY <2>1, OneByteMore DEF N
  <2> HIDE DEF u
  <2>4. (N + 1 > 2 => u[(N + 1) - 2] # Percent) /\ (N + 1 > 1 => u[(N + 1) - 1] # Percent)
    <3>1. ASSUME N + 1 > 2
          PROVE  u[(N + 1) - 2] # Percent
      <4>1. (N + 1) - 2 \in 1 .. N /\ (N + 1) - 2 >= N - 1
        BY <1>1, <3>1
      <4>2. QED
        BY <1>2, <2>2, <4>1
    <3>2. ASSUME N + 1 > 1
          PROVE  u[(N + 1) - 1] # Percent
      <4>1. (N + 1) - 1 \in 1 .. N /\ (N + 1) - 1 >= N - 1
        BY <1>1, <3>2
      <4>2. QED
        BY <1>2, <2>2, <4>1
    <3>3. QED
      BY <3>1, <3>2
  <2>5. Decoded(u, N + 1, Unescape(t)) = Append(Unescape(t), b)
    BY <1>4, <2>2, <2>4 DEF Decoded
  <2>6. Clean(u)
    <3> SUFFICES ASSUME NEW i \in 1 .. N + 1, i >= (N + 1) - 1
                 PROVE  u[i] # Percent
      BY <2>2 DEF Clean
    <3>1. CASE i = N + 1
      BY <1>4, <2>2, <3>1
    <3>2. CASE i # N + 1
      <4>1. i \in 1 .. N /\ i >= N - 1
        BY <1>1, <3>2
      <4>2. QED
        BY <1>2, <2>2, <4>1
    <3>3. QED
      BY <3>1, <3>2
  <2>7. QED
    BY <2>2, <2>3, <2>5, <2>6 DEF u
<1>5. ASSUME NEW h \in CharByte, NEW l \in CharByte, PercentEncoded(b) = <<Percent, h, l>>,
             h # Percent, l # Percent, HexValue(h) * 16 + HexValue(l) = b
      PROVE  u \in Seq(CharByte) /\ Clean(u) /\ Unescape(u) = Append(Unescape(t), b)
  <2> DEFINE t1 == Append(t, Percent)
             t2 == Append(t1, h)
             t3 == Append(t2, l)
  <2>1. /\ t1 \in Seq(CharByte) /\ Len(t1) = N + 1 /\ t1[N + 1] = Percent
        /\ \A i \in 1 .. N : t1[i] = t[i]
    BY <1>3, AppendProperties DEF N
  <2>2. Unescape(t1) = Decoded(t1, N + 1, Unescape(t))
    BY <1>3, OneByteMore DEF N
  <2>3. u = t3
    <3>1. u \in Seq(CharByte) /\ t3 \in Seq(CharByte) /\ Len(u) = Len(t3)
          /\ \A i \in 1 .. Len(u) : u[i] = t3[i]
      BY <1>3, <1>5
    <3> HIDE DEF u, t3
    <3>2. QED
      BY <3>1, SeqEqual
  <2> HIDE DEF t1
  <2>4. /\ t2 \in Seq(CharByte) /\ Len(t2) = N + 2 /\ t2[N + 2] = h
        /\ \A i \in 1 .. N + 1 : t2[i] = t1[i]
    <3>1. t2 \in Seq(CharByte) /\ Len(t2) = Len(t1) + 1 /\ t2[Len(t1) + 1] = h
          /\ \A i \in 1 .. Len(t1) : t2[i] = t1[i]
      BY <2>1, AppendProperties
    <3> HIDE DEF t2
    <3>2. Len(t1) + 1 = N + 2
      BY <1>1, <2>1
    <3>3. QED
      BY <2>1, <3>1, <3>2
  <2>5. Unescape(t2) = Decoded(t2, N + 2, Unescape(t1))
    <3>1. Unescape(t2) = Decoded(t2, Len(t1) + 1, Unescape(t1))
      BY <2>1, OneByteMore
    <3>2. Len(t1) + 1 = N + 2
      BY <1>1, <2>1
    <3>3. QED
      BY <3>1, <3>2
  <2> HIDE DEF t2
  <2>6. /\ t3 \in Seq(CharByte) /\ Len(t3) = N + 3 /\ t3[N + 3] = l
        /\ \A i \in 1 .. N + 2 : t3[i] = t2[i]
    <3>1. t3 \in Seq(CharByte) /\ Len(t3) = Len(t2) + 1 /\ t3[Len(t2) + 1] = l
          /\ \A i \in 1 .. Len(t2) : t3[i] = t2[i]
      BY <2>4, AppendProperties
    <3> HIDE DEF t3
    <3>2. Len(t2) + 1 = N + 3
      BY <1>1, <2>4
    <3>3. QED
      BY <2>4, <3>1, <3>2
  <2>7. Unescape(t3) = Decoded(t3, N + 3, Unescape(t2))
    <3>1. Unescape(t3) = Decoded(t3, Len(t2) + 1, Unescape(t2))
      BY <2>4, OneByteMore
    <3>2. Len(t2) + 1 = N + 3
      BY <1>1, <2>4
    <3>3. QED
      BY <3>1, <3>2
  <2> HIDE DEF t3, u
  <2>8. Unescape(t1) = Unescape(t)
    <3>1. N + 1 > 2 => t1[(N + 1) - 2] # Percent
      <4> SUFFICES ASSUME N + 1 > 2
                   PROVE  t1[(N + 1) - 2] # Percent
        OBVIOUS
      <4>1. (N + 1) - 2 \in 1 .. N /\ (N + 1) - 2 >= N - 1
        BY <1>1
      <4>2. QED
        BY <1>2, <2>1, <4>1
    <3>2. QED
      BY <2>1, <2>2, <3>1 DEF Decoded
  <2>9. Unescape(t2) = Unescape(t1)
    <3>1. N + 2 > 2 => t2[(N + 2) - 2] # Percent
      <4> SUFFICES ASSUME N + 2 > 2
                   PROVE  t2[(N + 2) - 2] # Percent
        OBVIOUS
      <4>1. (N + 2) - 2 = N /\ N \in 1 .. N /\ N >= N - 1 /\ N \in 1 .. N + 1
        BY <1>1
      <4>2. t2[N] = t[N] /\ t[N] # Percent
        BY <1>2, <2>1, <2>4, <4>1
      <4>3. QED
        BY <4>1, <4>2
    <3>2. N + 2 > 1 /\ (N + 2) - 1 = N + 1 /\ N + 1 \in 1 .. N + 1
      BY <1>1
    <3>3. t2[(N + 2) - 1] = Percent
      BY <2>1, <2>4, <3>2
    <3>4. QED
      BY <2>5, <3>1, <3>2, <3>3 DEF Decoded
  <2>10. Unescape(t3) = Append(Unescape(t), b)
    <3>1. N + 3 > 2 /\ (N + 3) - 2 = N + 1 /\ (N + 3) - 1 = N + 2
          /\ N + 1 \in 1 .. N + 1 /\ N + 1 \in 1 .. N + 2 /\ N + 2 \in 1 .. N + 2
      BY <1>1
    <3>2. t3[(N + 3) - 2] = Percent /\ t3[(N + 3) - 1] = h /\ t3[N + 3] = l
      BY <2>1, <2>4, <2>6, <3>1
    <3>3. Unescape(t3) = Append(Unescape(t2), HexValue(h) * 16 + HexValue(l))
      BY <2>7, <3>1, <3>2 DEF Decoded
    <3>4. QED
      BY <1>5, <2>8, <2>9, <3>3
  <2>11. Clean(t3)
    <3> SUFFICES ASSUME NEW i \in 1 .. N + 3, i >= (N + 3) - 1
                 PROVE  t3[i] # Percent
      BY <2>6 DEF Clean
    <3>1. i = N + 2 \/ i = N + 3
      BY <1>1
    <3>2. N + 2 \in 1 .. N + 2
      BY <1>1
    <3>3. QED
      BY <1>5, <2>4, <2>6, <3>1, <3>2
  <2>12. QED
    BY <2>3, <2>6, <2>10, <2>11
<1>6. QED
  <2>1. \/ PercentEncoded(b) = <<b>> /\ b # Percent
        \/ \E h, l \in CharByte :
             /\ PercentEncoded(b) = <<Percent, h, l>> /\ h # Percent /\ l # Percent
             /\ HexValue(h) * 16 + HexValue(l) = b
    BY EncodedByte
  <2> HIDE DEF u
  <2>2. u \in Seq(CharByte) /\ Clean(u) /\ Unescape(u) = Append(Unescape(t), b)
    BY <1>4, <1>5, <2>1 DEF u
  <2>3. QED
    BY <2>2 DEF u

\* Whatever a name or a value holds, its encoding separates nothing and is decoded to
\* it (http_request_helper.h:87-91).
THEOREM EncodedIsDecoded ==
  ASSUME NEW s \in Seq(CharByte)
  PROVE  /\ curl_easy_escape(s) \in Seq(CharByte)
         /\ \A c \in {Question, Ampersand, Equals} : Free(curl_easy_escape(s), c)
         /\ Unescape(curl_easy_escape(s)) = s
<1> DEFINE N == Len(s)
           Separators == {Question, Ampersand, Equals}
<1>1. N \in Nat /\ \A n \in 1 .. N : s[n] \in CharByte
  OBVIOUS
<1>2. PICK f : Escapes(s, f) /\ curl_easy_escape(s) = f[N]
  BY EscapingLoop
<1>3. f[0] = <<>> /\ \A n \in 1 .. N : f[n] = f[n - 1] \o PercentEncoded(s[n])
  <2>1. f[0] = <<>>
    BY <1>1, <1>2 DEF Escapes
  <2>2. ASSUME NEW n \in 1 .. N
        PROVE  f[n] = f[n - 1] \o PercentEncoded(s[n])
    <3>1. n \in 0 .. N /\ n # 0
      BY <1>1
    <3>2. QED
      BY <1>2, <3>1 DEF Escapes
  <2>3. QED
    BY <2>1, <2>2
<1> DEFINE Means(n) == /\ f[n] \in Seq(CharByte) /\ Clean(f[n])
                       /\ \A c \in Separators : Free(f[n], c)
                       /\ Unescape(f[n]) = SubSeq(s, 1, n)
           S == {n \in 0 .. N : Means(n)}
<1> HIDE DEF Separators
<1>4. 0 \in S
  <2>1. <<>> \in Seq(CharByte) /\ Len(<<>>) = 0
    OBVIOUS
  <2>2. Clean(<<>>) /\ \A c \in Separators : Free(<<>>, c)
    BY <2>1 DEF Clean, Free
  <2>3. Unescape(<<>>) = <<>>
    BY <2>1, DecodingLoop
  <2>4. SubSeq(s, 1, 0) = <<>>
    BY SubSeqEmpty
  <2>5. Means(0)
    BY <1>3, <2>1, <2>2, <2>3, <2>4
  <2> HIDE DEF Means
  <2>6. QED
    BY <1>1, <2>5
<1>5. ASSUME NEW n \in 0 .. N, n < N, n \in S
      PROVE  n + 1 \in S
  <2> DEFINE b == s[n + 1]
             e == PercentEncoded(b)
  <2>1. n + 1 \in 0 .. N /\ n + 1 \in 1 .. N /\ (n + 1) - 1 = n
    BY <1>1, <1>5
  <2>2. f[n + 1] = f[n] \o e /\ b \in CharByte
    BY <1>1, <1>3, <2>1
  <2>3. /\ f[n] \in Seq(CharByte) /\ Clean(f[n]) /\ Unescape(f[n]) = SubSeq(s, 1, n)
        /\ \A c \in Separators : Free(f[n], c)
    BY <1>5
  <2>4. e \in Seq(CharByte) /\ \A c \in Separators : Free(e, c)
    BY <2>2, EncodedByte DEF Separators
  <2> HIDE DEF b
  <2>5. /\ f[n + 1] \in Seq(CharByte) /\ Clean(f[n + 1])
        /\ Unescape(f[n + 1]) = Append(SubSeq(s, 1, n), b)
    BY <2>2, <2>3, ByteIsDecoded
  <2> HIDE DEF e
  <2>6. ASSUME NEW c \in Separators
        PROVE  Free(f[n + 1], c)
    <3> SUFFICES ASSUME NEW i \in 1 .. Len(f[n + 1])
                 PROVE  f[n + 1][i] # c
      BY DEF Free
    <3> DEFINE x == f[n]
    <3>1. x \in Seq(CharByte) /\ f[n + 1] = x \o e /\ Free(x, c) /\ Free(e, c)
      BY <2>2, <2>3, <2>4, <2>6
    <3> HIDE DEF x
    <3>2. /\ Len(x) \in Nat /\ Len(e) \in Nat /\ i \in 1 .. Len(x) + Len(e)
          /\ f[n + 1][i] = IF i <= Len(x) THEN x[i] ELSE e[i - Len(x)]
      BY <2>4, <3>1, ConcatProperties
    <3>3. CASE i <= Len(x)
      BY <3>1, <3>2, <3>3 DEF Free
    <3>4. CASE ~(i <= Len(x))
      <4>1. i - Len(x) \in 1 .. Len(e)
        BY <3>2, <3>4
      <4>2. QED
        BY <3>1, <3>2, <3>4, <4>1 DEF Free
    <3>5. QED
      BY <3>3, <3>4
  <2>7. Append(SubSeq(s, 1, n), b) = SubSeq(s, 1, n + 1)
    BY <1>1, <2>1, <2>2 DEF b
  <2>8. Means(n + 1)
    BY <2>5, <2>6, <2>7
  <2> HIDE DEF Means
  <2>9. QED
    BY <2>1, <2>8
<1>6. 0 .. N \subseteq S
  <2> HIDE DEF S
  <2>1. QED
    BY <1>1, <1>4, <1>5, CountingUp
<1>7. Means(N)
  <2> HIDE DEF Means
  <2>1. N \in 0 .. N
    BY <1>1
  <2>2. QED
    BY <1>6, <2>1
<1>8. SubSeq(s, 1, N) = s
  BY SubSeqFull
<1>9. QED
  BY <1>2, <1>7, <1>8 DEF Separators

\* Names that are different are encoded differently.
LEMMA EncodingIsInjective ==
  ASSUME NEW s \in Seq(CharByte), NEW t \in Seq(CharByte),
         curl_easy_escape(s) = curl_easy_escape(t)
  PROVE  s = t
<1>1. Unescape(curl_easy_escape(s)) = s /\ Unescape(curl_easy_escape(t)) = t
  BY EncodedIsDecoded
<1>2. QED
  BY <1>1

\* What the parameters of a call are: a map of C strings.
IsParams(map) ==
  /\ IsFiniteSet(map) /\ map \subseteq Seq(CharByte) \X Seq(CharByte)
  /\ \A p, q \in map : p[1] = q[1] => p = q

\* No parameter is lost when they are put into a map under their encoded names.
LEMMA NoParameterIsLost ==
  ASSUME NEW map, IsParams(map)
  PROVE  /\ IsMap(EncodedParams(map))
         /\ Cardinality(EncodedParams(map)) = Cardinality(map)
         /\ EncodedParams(map) \subseteq Seq(CharByte) \X Seq(CharByte)
<1> DEFINE E(p) == <<curl_easy_escape(p[1]), curl_easy_escape(p[2])>>
           T == EncodedParams(map)
           f == [p \in map |-> E(p)]
<1>1. T = {E(p) : p \in map}
  BY DEF EncodedParams
<1>2. \A p \in map : p[1] \in Seq(CharByte) /\ p[2] \in Seq(CharByte) /\ p = <<p[1], p[2]>>
  BY DEF IsParams
<1>3. \A p \in map : E(p) \in Seq(CharByte) \X Seq(CharByte)
  BY <1>2, EncodedIsDecoded
<1>4. \A p, q \in map : E(p)[1] = E(q)[1] => p = q
  <2> SUFFICES ASSUME NEW p \in map, NEW q \in map, E(p)[1] = E(q)[1]
               PROVE  p = q
    OBVIOUS
  <2>1. curl_easy_escape(p[1]) = curl_easy_escape(q[1])
    OBVIOUS
  <2>2. p[1] = q[1]
    BY <1>2, <2>1, EncodingIsInjective
  <2>3. QED
    BY <2>2 DEF IsParams
<1> HIDE DEF E, T
<1>5. f \in Bijection(map, T)
  <2>1. f \in [map -> T]
    BY <1>1
  <2>2. \A p, q \in map : f[p] = f[q] => p = q
    BY <1>4
  <2>3. \A t \in T : \E p \in map : f[p] = t
    BY <1>1
  <2> HIDE DEF f
  <2>4. QED
    BY <2>1, <2>2, <2>3 DEF Bijection, Injection, Surjection, IsInjective
<1>6. IsFiniteSet(T) /\ Cardinality(T) = Cardinality(map)
  <2>1. ExistsBijection(map, T)
    BY <1>5 DEF ExistsBijection
  <2>2. IsFiniteSet(map)
    BY DEF IsParams
  <2>3. QED
    BY <2>1, <2>2, FS_Bijection
<1>7. T \subseteq Seq(CharByte) \X Seq(CharByte)
  BY <1>1, <1>3
<1>8. T \subseteq Seq(Int) \X Seq(Int)
  BY <1>7, CharsAreInts
<1>9. \A p, q \in T : p[1] = q[1] => p = q
  BY <1>1, <1>4
<1>10. QED
  BY <1>6, <1>7, <1>8, <1>9 DEF IsMap, T

-----------------------------------------------------------------------------
(* How a URL is read *)

\* A byte between two texts.
LEMMA JoinedByByte ==
  ASSUME NEW a \in Seq(Int), NEW b \in Int, NEW x \in Seq(Int)
  PROVE  LET t == Append(a, b) \o x
             N == Len(a)
             M == Len(x)
         IN  /\ t \in Seq(Int) /\ Len(t) = N + 1 + M /\ DOMAIN t = 1 .. N + 1 + M
             /\ t[N + 1] = b /\ \A i \in 1 .. N : t[i] = a[i]
             /\ \A i \in 1 .. M : t[N + 1 + i] = x[i]
<1> DEFINE t == Append(a, b) \o x
           N == Len(a)
           M == Len(x)
<1>0. N \in Nat /\ M \in Nat
  OBVIOUS
<1> DEFINE c == Append(a, b)
<1>1. c \in Seq(Int) /\ Len(c) = N + 1 /\ c[N + 1] = b /\ \A i \in 1 .. N : c[i] = a[i]
  BY AppendProperties
<1> HIDE DEF c
<1>2. /\ c \o x \in Seq(Int) /\ Len(c \o x) = N + 1 + M
      /\ \A i \in 1 .. N + 1 + M : (c \o x)[i] = IF i <= N + 1 THEN c[i] ELSE x[i - (N + 1)]
  <2>1. /\ c \o x \in Seq(Int) /\ Len(c \o x) = Len(c) + Len(x)
        /\ \A i \in 1 .. Len(c) + Len(x) :
             (c \o x)[i] = IF i <= Len(c) THEN c[i] ELSE x[i - Len(c)]
    BY <1>1, ConcatProperties
  <2>2. Len(c) + Len(x) = N + 1 + M
    BY <1>1
  <2>3. QED
    BY <1>1, <2>1, <2>2
<1>3. t = c \o x
  BY DEF c
<1> HIDE DEF t, N, M
<1>4. DOMAIN t = 1 .. N + 1 + M
  BY <1>2, <1>3, LenProperties
<1>5. \A i \in 1 .. N + 1 : t[i] = c[i]
  BY <1>0, <1>2, <1>3
<1>6. \A i \in 1 .. M : t[N + 1 + i] = x[i]
  <2> SUFFICES ASSUME NEW i \in 1 .. M
               PROVE  t[N + 1 + i] = x[i]
    OBVIOUS
  <2> DEFINE k == N + 1 + i
  <2>1. k \in 1 .. N + 1 + M /\ ~(k <= N + 1) /\ k - (N + 1) = i
    BY <1>0
  <2>2. t[k] = x[k - (N + 1)]
    BY <1>2, <1>3, <2>1
  <2>3. QED
    BY <2>1, <2>2
<1>7. N + 1 \in 1 .. N + 1 /\ \A i \in 1 .. N : i \in 1 .. N + 1
  BY <1>0
<1>8. /\ t \in Seq(Int) /\ Len(t) = N + 1 + M /\ DOMAIN t = 1 .. N + 1 + M
      /\ t[N + 1] = b /\ \A i \in 1 .. N : t[i] = a[i]
      /\ \A i \in 1 .. M : t[N + 1 + i] = x[i]
  BY <1>1, <1>2, <1>3, <1>4, <1>5, <1>6, <1>7
<1>9. QED
  BY <1>8 DEF t, N, M

\* A text is cut at the first place of a byte.
LEMMA CutAtByte ==
  ASSUME NEW a \in Seq(Int), NEW b \in Int, NEW x \in Seq(Int), Free(a, b)
  PROVE  LET t == Append(a, b) \o x IN Ahead(t, b) = a /\ Past(t, b) = x
<1> DEFINE t == Append(a, b) \o x
           N == Len(a)
           M == Len(x)
<1>1. N \in Nat /\ M \in Nat /\ \A i \in 1 .. N : a[i] # b
  BY DEF Free
<1>2. /\ t \in Seq(Int) /\ Len(t) = N + 1 + M /\ DOMAIN t = 1 .. N + 1 + M
      /\ t[N + 1] = b /\ \A i \in 1 .. N : t[i] = a[i]
      /\ \A i \in 1 .. M : t[N + 1 + i] = x[i]
  BY JoinedByByte
<1> HIDE DEF t, N, M
<1>3. Place(t, b) = N + 1
  <2> DEFINE IsFirst(i) == t[i] = b /\ \A j \in 1 .. i - 1 : t[j] # b
  <2>1. N + 1 \in DOMAIN t /\ IsFirst(N + 1)
    <3>1. N + 1 \in DOMAIN t /\ t[N + 1] = b
      BY <1>1, <1>2
    <3>2. \A j \in 1 .. N : t[j] # b
      BY <1>1, <1>2
    <3>3. (N + 1) - 1 = N
      BY <1>1
    <3>4. QED
      BY <3>1, <3>2, <3>3
  <2>2. ASSUME NEW i \in DOMAIN t, IsFirst(i)
        PROVE  i = N + 1
    <3>1. i \in 1 .. N + 1 + M
      BY <1>2
    <3>2. ~(i < N + 1)
      <4> SUFFICES ASSUME i < N + 1
                   PROVE  FALSE
        OBVIOUS
      <4>1. i \in 1 .. N
        BY <1>1, <3>1
      <4>2. QED
        BY <1>1, <1>2, <2>2, <4>1
    <3>3. ~(N + 1 < i)
      <4> SUFFICES ASSUME N + 1 < i
                   PROVE  FALSE
        OBVIOUS
      <4>1. N + 1 \in 1 .. i - 1
        BY <1>1, <3>1
      <4>2. QED
        BY <1>2, <2>2, <4>1
    <3>4. QED
      BY <1>1, <3>1, <3>2, <3>3
  <2>3. Place(t, b) = CHOOSE i \in DOMAIN t : IsFirst(i)
    BY <2>1 DEF Place
  <2> HIDE DEF IsFirst
  <2>4. QED
    BY <2>1, <2>2, <2>3
<1>4. Ahead(t, b) = a
  <2>1. Ahead(t, b) = SubSeq(t, 1, N)
    BY <1>1, <1>3 DEF Ahead
  <2>2. \A i \in 1 .. N : t[i] \in Int
    BY <1>1, <1>2
  <2>3. SubSeq(t, 1, N) \in Seq(Int) /\ Len(SubSeq(t, 1, N)) = N
        /\ \A i \in 1 .. N : SubSeq(t, 1, N)[i] = t[i]
    BY <1>1, <1>2
  <2>4. QED
    BY <1>2, <2>1, <2>3, SeqEqual DEF N
<1>5. Past(t, b) = x
  <2> DEFINE r == SubSeq(t, N + 2, N + 1 + M)
  <2>1. Past(t, b) = r
    BY <1>1, <1>2, <1>3 DEF Past
  <2>2. r \in Seq(Int) /\ Len(r) = M /\ \A i \in 1 .. M : r[i] = t[N + 1 + i]
    <3> DEFINE m == N + 2
               n == N + 1 + M
    <3>1. m \in Int /\ n \in Int /\ n - m + 1 = M /\ (~(m <= n) => M = 0)
      BY <1>1
    <3>2. \A i \in m .. n : t[i] \in Int
      BY <1>1, <1>2
    <3>3. r = SubSeq(t, m, n)
      OBVIOUS
    <3>4. \A i \in 1 .. M : m + i - 1 = N + 1 + i
      BY <1>1
    <3> HIDE DEF r, m, n
    <3>5. /\ r \in Seq(Int) /\ Len(r) = IF m <= n THEN n - m + 1 ELSE 0
          /\ \A i \in 1 .. n - m + 1 : r[i] = t[m + i - 1]
      BY <3>1, <3>2, <3>3, SubSeqProperties
    <3>6. QED
      BY <3>1, <3>4, <3>5
  <2> HIDE DEF r
  <2>3. r = x
    BY <1>2, <2>2, SeqEqual DEF M
  <2>4. QED
    BY <2>1, <2>3
<1>6. QED
  BY <1>4, <1>5 DEF t

\* A text without the byte is one part.
LEMMA OnePart ==
  ASSUME NEW x \in Seq(Int), NEW b \in Int, Free(x, b)
  PROVE  Marks(x, b) = {} /\ Parts(x, b) = {x}
<1> DEFINE N == Len(x)
<1>1. N \in Nat /\ DOMAIN x = 1 .. N
  OBVIOUS
<1>2. Marks(x, b) = {}
  BY <1>1 DEF Marks, Free
<1>3. Ends(x, b) = {0, N + 1}
  BY <1>2 DEF Ends
<1>4. SubSeq(x, 1, N) = x
  BY SubSeqFull
<1> HIDE DEF N
<1>5. {e \in Ends(x, b) \X Ends(x, b) : Adjacent(x, b, e[1], e[2])} = {<<0, N + 1>>}
  <2>1. Adjacent(x, b, 0, N + 1)
    BY <1>1, <1>3 DEF Adjacent
  <2>2. ASSUME NEW i \in {0, N + 1}, NEW j \in {0, N + 1}, Adjacent(x, b, i, j)
        PROVE  i = 0 /\ j = N + 1
    BY <1>1, <2>2 DEF Adjacent
  <2>3. QED
    BY <1>3, <2>1, <2>2
<1>6. SubSeq(x, 0 + 1, (N + 1) - 1) = x
  <2>1. 0 + 1 = 1 /\ (N + 1) - 1 = N
    BY <1>1
  <2>2. QED
    BY <1>4, <2>1 DEF N
<1>7. Parts(x, b) = {SubSeq(x, e[1] + 1, e[2] - 1) : e \in {<<0, N + 1>>}}
  BY <1>5 DEF Parts
<1>8. QED
  BY <1>2, <1>6, <1>7

\* A byte and a text without it behind another are one part more.
LEMMA OnePartMore ==
  ASSUME NEW t \in Seq(Int), NEW b \in Int, NEW x \in Seq(Int), Free(x, b)
  PROVE  LET w == Append(t, b) \o x
         IN  /\ Marks(w, b) = Marks(t, b) \cup {Len(t) + 1}
             /\ Parts(w, b) = Parts(t, b) \cup {x}
<1> DEFINE w == Append(t, b) \o x
           N == Len(t)
           M == Len(x)
           Last1 == N + 1 + M + 1
<1>1. N \in Nat /\ M \in Nat /\ \A i \in 1 .. M : x[i] # b
  BY DEF Free
<1>2. /\ w \in Seq(Int) /\ Len(w) = N + 1 + M /\ DOMAIN w = 1 .. N + 1 + M
      /\ w[N + 1] = b /\ \A i \in 1 .. N : w[i] = t[i]
      /\ \A i \in 1 .. M : w[N + 1 + i] = x[i]
  BY JoinedByByte
<1>3. DOMAIN t = 1 .. N /\ t \in Seq(Int) /\ Len(t) = N
  OBVIOUS
<1> HIDE DEF w, N
<1>4. Marks(w, b) = Marks(t, b) \cup {N + 1}
  <2>1. ASSUME NEW i \in Marks(w, b)
        PROVE  i \in Marks(t, b) \cup {N + 1}
    <3>1. i \in 1 .. N + 1 + M /\ w[i] = b
      BY <1>2 DEF Marks
    <3>2. CASE i <= N
      BY <1>1, <1>2, <1>3, <3>1, <3>2 DEF Marks
    <3>3. CASE i > N + 1
      <4>1. i - (N + 1) \in 1 .. M /\ N + 1 + (i - (N + 1)) = i
        BY <1>1, <3>1, <3>3
      <4>2. w[N + 1 + (i - (N + 1))] = x[i - (N + 1)]
        BY <1>2, <4>1
      <4>3. QED
        BY <1>1, <3>1, <4>1, <4>2
    <3>4. QED
      BY <1>1, <3>1, <3>2, <3>3
  <2>2. ASSUME NEW i \in Marks(t, b) \cup {N + 1}
        PROVE  i \in Marks(w, b)
    <3>1. CASE i = N + 1
      BY <1>1, <1>2, <3>1 DEF Marks
    <3>2. CASE i \in Marks(t, b)
      <4>1. i \in 1 .. N /\ t[i] = b
        BY <1>3, <3>2 DEF Marks
      <4>2. i \in 1 .. N + 1 + M /\ w[i] = t[i]
        BY <1>1, <1>2, <4>1
      <4>3. QED
        BY <1>2, <4>1, <4>2 DEF Marks
    <3>3. QED
      BY <3>1, <3>2
  <2>3. QED
    BY <2>1, <2>2
<1>5. Ends(w, b) = Ends(t, b) \cup {Last1}
  <2>1. Ends(w, b) = {0, Len(w) + 1} \cup Marks(w, b) /\ Ends(t, b) = {0, N + 1} \cup Marks(t, b)
    BY DEF Ends, N
  <2>2. Len(w) + 1 = Last1
    BY <1>2
  <2>3. QED
    BY <1>4, <2>1, <2>2
<1>6. N + 1 \in Ends(t, b) /\ \A i \in Ends(t, b) : i \in 0 .. N + 1
  <2>1. Ends(t, b) = {0, N + 1} \cup Marks(t, b)
    BY DEF Ends, N
  <2>2. \A i \in Marks(t, b) : i \in 1 .. N
    BY <1>3 DEF Marks
  <2>3. QED
    BY <1>1, <2>1, <2>2
<1>7. Last1 \in Nat /\ Last1 > N + 1
  BY <1>1
<1> HIDE DEF Last1
<1> DEFINE E == Ends(t, b)
           F == Ends(w, b)
<1>8. \A i, j \in E : Adjacent(w, b, i, j) <=> Adjacent(t, b, i, j)
  <2> SUFFICES ASSUME NEW i \in E, NEW j \in E
               PROVE  Adjacent(w, b, i, j) <=> Adjacent(t, b, i, j)
    OBVIOUS
  <2>1. i \in 0 .. N + 1 /\ j \in 0 .. N + 1
    BY <1>6
  <2>2. ~(i < Last1 /\ Last1 < j)
    BY <1>1, <1>7, <2>1
  <2>3. QED
    BY <1>5, <2>2 DEF Adjacent
<1>9. \A i \in E : Adjacent(w, b, i, Last1) <=> i = N + 1
  <2> SUFFICES ASSUME NEW i \in E
               PROVE  Adjacent(w, b, i, Last1) <=> i = N + 1
    OBVIOUS
  <2>1. i \in 0 .. N + 1
    BY <1>6
  <2>2. CASE i = N + 1
    <3>1. \A k \in F : ~(i < k /\ k < Last1)
      BY <1>1, <1>5, <1>6, <1>7, <2>2
    <3>2. QED
      BY <1>7, <2>2, <3>1 DEF Adjacent
  <2>3. CASE i # N + 1
    <3>1. i < N + 1 /\ N + 1 < Last1 /\ N + 1 \in F
      BY <1>1, <1>5, <1>6, <1>7, <2>1, <2>3
    <3>2. QED
      BY <2>3, <3>1 DEF Adjacent
  <2>4. QED
    BY <2>2, <2>3
<1>10. \A i \in F : ~Adjacent(w, b, Last1, i)
  <2> SUFFICES ASSUME NEW i \in F
               PROVE  ~(Last1 < i)
    BY DEF Adjacent
  <2>1. i \in 0 .. N + 1 \/ i = Last1
    BY <1>5, <1>6
  <2>2. QED
    BY <1>1, <1>7, <2>1
<1>11. \A i, j \in E : SubSeq(w, i + 1, j - 1) = SubSeq(t, i + 1, j - 1)
  <2> SUFFICES ASSUME NEW i \in E, NEW j \in E
               PROVE  SubSeq(w, i + 1, j - 1) = SubSeq(t, i + 1, j - 1)
    OBVIOUS
  <2>1. i \in 0 .. N + 1 /\ j \in 0 .. N + 1
    BY <1>6
  <2> DEFINE m == i + 1
             n == j - 1
             y == SubSeq(w, m, n)
             z == SubSeq(t, m, n)
  <2>2. m \in Int /\ n \in Int /\ \A k \in m .. n : k \in 1 .. N
    BY <1>1, <2>1
  <2>3. \A k \in m .. n : w[k] = t[k] /\ t[k] \in Int /\ w[k] \in Int
    BY <1>2, <1>3, <2>2
  <2> HIDE DEF m, n
  <2>4. /\ y \in Seq(Int) /\ Len(y) = IF m <= n THEN n - m + 1 ELSE 0
        /\ \A k \in 1 .. n - m + 1 : y[k] = w[m + k - 1]
    BY <2>2, <2>3, SubSeqProperties
  <2>5. /\ z \in Seq(Int) /\ Len(z) = IF m <= n THEN n - m + 1 ELSE 0
        /\ \A k \in 1 .. n - m + 1 : z[k] = t[m + k - 1]
    BY <2>2, <2>3, SubSeqProperties
  <2> HIDE DEF y, z
  <2>6. \A k \in 1 .. Len(y) : y[k] = z[k]
    <3> SUFFICES ASSUME NEW k \in 1 .. Len(y)
                 PROVE  y[k] = z[k]
      OBVIOUS
    <3>1. k \in 1 .. n - m + 1 /\ m + k - 1 \in m .. n
      BY <2>2, <2>4
    <3>2. QED
      BY <2>3, <2>4, <2>5, <3>1
  <2>7. y = z
    BY <2>4, <2>5, <2>6, SeqEqual
  <2>8. QED
    BY <2>7 DEF y, z, m, n
<1>12. SubSeq(w, (N + 1) + 1, Last1 - 1) = x
  <2> DEFINE m == (N + 1) + 1
             n == Last1 - 1
             y == SubSeq(w, m, n)
  <2>1. m \in Int /\ n \in Int /\ n - m + 1 = M /\ (~(m <= n) => M = 0)
    BY <1>1 DEF Last1
  <2>2. \A k \in m .. n : w[k] \in Int
    BY <1>1, <1>2 DEF Last1
  <2>3. \A k \in 1 .. M : m + k - 1 = N + 1 + k
    BY <1>1
  <2> HIDE DEF m, n
  <2>4. /\ y \in Seq(Int) /\ Len(y) = IF m <= n THEN n - m + 1 ELSE 0
        /\ \A k \in 1 .. n - m + 1 : y[k] = w[m + k - 1]
    BY <2>1, <2>2, SubSeqProperties
  <2> HIDE DEF y, M
  <2>5. Len(y) = M /\ \A k \in 1 .. M : y[k] = x[k]
    BY <1>2, <2>1, <2>3, <2>4
  <2>6. y = x
    BY <2>4, <2>5, SeqEqual DEF M
  <2>7. QED
    BY <2>6 DEF y, m, n
<1>13. {e \in F \X F : Adjacent(w, b, e[1], e[2])}
         = {e \in E \X E : Adjacent(t, b, e[1], e[2])} \cup {<<N + 1, Last1>>}
  <2> HIDE DEF E, F
  <2>1. F = E \cup {Last1} /\ N + 1 \in E
    BY <1>5, <1>6 DEF E, F
  <2>2. Adjacent(w, b, N + 1, Last1)
    BY <1>9, <2>1
  <2>3. QED
    BY <1>8, <1>9, <1>10, <2>1, <2>2
<1>14. Parts(w, b) = Parts(t, b) \cup {x}
  <2> DEFINE A == {e \in E \X E : Adjacent(t, b, e[1], e[2])}
             G == {e \in F \X F : Adjacent(w, b, e[1], e[2])}
             part(e) == SubSeq(w, e[1] + 1, e[2] - 1)
  <2>1. Parts(w, b) = {part(e) : e \in G}
    BY DEF Parts
  <2>2. Parts(t, b) = {SubSeq(t, e[1] + 1, e[2] - 1) : e \in A}
    BY DEF Parts
  <2>3. \A e \in A : part(e) = SubSeq(t, e[1] + 1, e[2] - 1)
    BY <1>11
  <2>4. part(<<N + 1, Last1>>) = x
    BY <1>12
  <2>5. G = A \cup {<<N + 1, Last1>>}
    BY <1>13
  <2> HIDE DEF A, G, part
  <2>6. QED
    BY <2>1, <2>2, <2>3, <2>4, <2>5
<1>15. QED
  BY <1>4, <1>14 DEF w, N

\* A byte that is in neither of two texts nor between them is not in the text they make.
LEMMA FreeOfByte ==
  ASSUME NEW a \in Seq(Int), NEW b \in Int, NEW x \in Seq(Int), NEW c,
         Free(a, c), Free(x, c), b # c
  PROVE  Free(Append(a, b) \o x, c)
<1> DEFINE t == Append(a, b) \o x
           N == Len(a)
           M == Len(x)
<1>1. N \in Nat /\ M \in Nat /\ (\A i \in 1 .. N : a[i] # c) /\ \A i \in 1 .. M : x[i] # c
  BY DEF Free
<1>2. /\ Len(t) = N + 1 + M
      /\ t[N + 1] = b /\ \A i \in 1 .. N : t[i] = a[i]
      /\ \A i \in 1 .. M : t[N + 1 + i] = x[i]
  BY JoinedByByte
<1> HIDE DEF t, N, M
<1>3. ASSUME NEW i \in 1 .. N + 1 + M
      PROVE  t[i] # c
  <2>1. CASE i <= N
    <3>1. i \in 1 .. N
      BY <1>1, <2>1
    <3>2. QED
      BY <1>1, <1>2, <3>1
  <2>2. CASE i = N + 1
    BY <1>2, <2>2
  <2>3. CASE i > N + 1
    <3>1. i - (N + 1) \in 1 .. M /\ N + 1 + (i - (N + 1)) = i
      BY <1>1, <2>3
    <3>2. t[N + 1 + (i - (N + 1))] = x[i - (N + 1)]
      BY <1>2, <3>1
    <3>3. QED
      BY <1>1, <3>1, <3>2
  <2>4. QED
    BY <1>1, <2>1, <2>2, <2>3
<1>4. Free(t, c)
  BY <1>2, <1>3 DEF Free
<1>5. QED
  BY <1>4 DEF t

-----------------------------------------------------------------------------
(* The URL of a call *)

\* name=value
Pair(p) == Append(p[1], Equals) \o p[2]



LEMMA SeparatorsAreBytes ==
  /\ Question \in CharByte /\ Ampersand \in CharByte /\ Equals \in CharByte /\ CharByte \subseteq Int
  /\ Question # Ampersand /\ Question # Equals /\ Ampersand # Equals
BY SMT DEF CharByte, Byte, NUL, Question, Ampersand, Equals

\* A parameter goes behind a question mark or behind an ampersand.
LEMMA ParameterIsAdded ==
  ASSUME NEW u \in Seq(CharByte), NEW p \in Seq(CharByte) \X Seq(CharByte)
  PROVE  /\ Pair(p) \in Seq(CharByte) /\ Added(u, p) \in Seq(CharByte)
         /\ Last(u) = Question => Added(u, p) = u \o Pair(p)
         /\ Last(u) # Question => Added(u, p) = Append(u, Ampersand) \o Pair(p)
<1> DEFINE x == IF Last(u) = Question THEN u ELSE Append(u, Ampersand)
           a == p[1]
           e == <<Equals>>
           v == p[2]
<1>1. a \in Seq(CharByte) /\ v \in Seq(CharByte) /\ e \in Seq(CharByte)
  BY SeparatorsAreBytes
<1>2. x \in Seq(CharByte)
  BY SeparatorsAreBytes, AppendProperties
<1>3. Added(u, p) = ((x \o a) \o e) \o v
  BY DEF Added
<1>4. Pair(p) = (a \o e) \o v
  BY <1>1, SeparatorsAreBytes, AppendIsConcat DEF Pair
<1>5. x = (IF Last(u) = Question THEN u ELSE Append(u, Ampersand))
  OBVIOUS
<1> HIDE DEF x, a, e, v
<1>6. ((x \o a) \o e) \o v = x \o ((a \o e) \o v)
  <2>1. a \o e \in Seq(CharByte)
    BY <1>1, ConcatProperties
  <2>2. (x \o a) \o e = x \o (a \o e)
    BY <1>1, <1>2, SMTT(60)
  <2> DEFINE ae == a \o e
  <2>3. ae \in Seq(CharByte)
    BY <2>1
  <2>4. (x \o a) \o e = x \o ae
    BY <2>2
  <2> HIDE DEF ae
  <2>5. (x \o ae) \o v = x \o (ae \o v)
    BY <1>1, <1>2, <2>3, SMTT(60)
  <2>6. ((x \o a) \o e) \o v = x \o (ae \o v)
    BY <2>4, <2>5
  <2>7. QED
    BY <2>6 DEF ae
<1>7. (a \o e) \o v \in Seq(CharByte)
  BY <1>1, ConcatProperties
<1>8. x \o ((a \o e) \o v) \in Seq(CharByte)
  BY <1>2, <1>7, ConcatProperties
<1>9. QED
  BY <1>3, <1>4, <1>5, <1>6, <1>7, <1>8

\* The second loop of escapeParams.
Merges(url, map, f) ==
  LET walk == InOrder(EncodedParams(map))
  IN  f = [i \in 0 .. Len(walk) |->
            IF i = 0 THEN IF map = {} THEN url ELSE Append(url, Question)
            ELSE Added(f[i - 1], walk[i])]

LEMMA NumberedIsSeq ==
  ASSUME NEW S, NEW n \in Nat, NEW f \in [1 .. n -> S]
  PROVE  f \in Seq(S) /\ Len(f) = n
OBVIOUS

LEMMA MergingLoop ==
  ASSUME NEW url \in Seq(CharByte), NEW map, IsParams(map)
  PROVE  LET walk == InOrder(EncodedParams(map))
         IN  \E f : /\ escapeParams(url, map) = f[Len(walk)]
                    /\ f \in [0 .. Len(walk) -> Seq(CharByte)]
                    /\ f[0] = IF map = {} THEN url ELSE Append(url, Question)
                    /\ \A i \in 1 .. Len(walk) : f[i] = Added(f[i - 1], walk[i])
<1> DEFINE T == EncodedParams(map)
           walk == InOrder(T)
           N == Len(walk)
           V == Seq(CharByte)
           base == IF map = {} THEN url ELSE Append(url, Question)
           step == [i \in 1 .. N |-> [u \in V |-> Added(u, walk[i])]]
<1>1. N \in Nat /\ \A i \in 1 .. N : walk[i] \in Seq(CharByte) \X Seq(CharByte)
  <2>1. IsMap(T) /\ T \subseteq Seq(CharByte) \X Seq(CharByte)
    BY NoParameterIsLost
  <2> HIDE DEF T, walk
  <2>2. Cardinality(T) \in Nat /\ walk \in [1 .. Cardinality(T) -> T]
    BY <2>1, MapIsWalkedInOrder DEF walk
  <2>3. Len(walk) = Cardinality(T)
    BY <2>2, NumberedIsSeq
  <2>4. QED
    BY <2>1, <2>2, <2>3
<1>2. base \in V
  BY SeparatorsAreBytes, AppendProperties
<1>3. \A u \in V, i \in 1 .. N : Added(u, walk[i]) \in V
  BY <1>1, ParameterIsAdded
<1> HIDE DEF V, walk, T
<1>4. Steps(N, V, step)
  BY <1>3 DEF Steps
<1>5. PICK f : Course(f, N, V, base, step)
  <2> HIDE DEF step, N, base
  <2>1. QED
    BY <1>1, <1>2, <1>4, LoopRuns
<1>6. f \in [0 .. N -> V] /\ f[0] = base /\ \A i \in 1 .. N : f[i] = Added(f[i - 1], walk[i])
  <2>1. ASSUME NEW i \in 1 .. N
        PROVE  f[i] = Added(f[i - 1], walk[i])
    <3>1. i - 1 \in 0 .. N
      BY <1>1
    <3>2. f[i - 1] \in V /\ f[i] = step[i][f[i - 1]]
      BY <1>5, <3>1 DEF Course
    <3>3. QED
      BY <3>2
  <2>2. QED
    BY <1>5, <2>1 DEF Course
<1>7. \A g : Merges(url, map, g) <=>
               g = [i \in 0 .. N |-> IF i = 0 THEN base ELSE Added(g[i - 1], walk[i])]
  BY DEF Merges, walk, T
<1> HIDE DEF base, N
<1>8. Merges(url, map, f)
  BY <1>1, <1>6, <1>7
<1>9. ASSUME NEW g, Merges(url, map, g)
      PROVE  /\ g[0] = base /\ \A i \in 1 .. N : g[i] = Added(g[i - 1], walk[i])
             /\ g \in [0 .. N -> V]
  <2>1. g = [i \in 0 .. N |-> IF i = 0 THEN base ELSE Added(g[i - 1], walk[i])]
    BY <1>7, <1>9
  <2>2. g[0] = base
    BY <1>1, <2>1
  <2>3. ASSUME NEW i \in 1 .. N
        PROVE  g[i] = Added(g[i - 1], walk[i])
    <3>1. i \in 0 .. N /\ i # 0
      BY <1>1
    <3>2. QED
      BY <2>1, <3>1
  <2> DEFINE S == {i \in 0 .. N : g[i] \in V}
  <2>4. 0 \in S
    BY <1>1, <1>2, <2>2
  <2>5. ASSUME NEW i \in 0 .. N, i < N, i \in S
        PROVE  i + 1 \in S
    <3>1. i + 1 \in 1 .. N /\ i + 1 \in 0 .. N /\ (i + 1) - 1 = i
      BY <1>1, <2>5
    <3>2. g[i + 1] = Added(g[i], walk[i + 1]) /\ g[i] \in V
      BY <2>3, <2>5, <3>1
    <3>3. QED
      BY <1>3, <3>1, <3>2
  <2> HIDE DEF S
  <2>6. 0 .. N \subseteq S
    BY <1>1, <2>4, <2>5, CountingUp
  <2>7. \A i \in 0 .. N : g[i] \in V
    BY <2>6 DEF S
  <2>8. QED
    BY <2>1, <2>2, <2>3, <2>7
<1>10. escapeParams(url, map) = (CHOOSE g : Merges(url, map, g))[N]
  BY DEF escapeParams, Merges, N, walk, T
<1>11. Merges(url, map, CHOOSE g : Merges(url, map, g))
  <2>1. QED
    BY <1>8
<1>12. QED
  BY <1>9, <1>10, <1>11 DEF N, walk, T, base, V

\* What a parameter of a URL is: free of what separates parameters, and read back.
LEMMA PairIsRead ==
  ASSUME NEW map, IsParams(map), NEW p \in EncodedParams(map)
  PROVE  /\ Pair(p) \in Seq(CharByte) /\ Len(Pair(p)) > 0
         /\ Free(Pair(p), Question) /\ Free(Pair(p), Ampersand)
         /\ Ahead(Pair(p), Equals) = p[1] /\ Past(Pair(p), Equals) = p[2]
<1>1. PICK q \in map : p = <<curl_easy_escape(q[1]), curl_easy_escape(q[2])>>
  BY DEF EncodedParams
<1>2. q[1] \in Seq(CharByte) /\ q[2] \in Seq(CharByte)
  BY DEF IsParams
<1>3. /\ p[1] \in Seq(CharByte) /\ \A c \in {Question, Ampersand, Equals} : Free(p[1], c)
      /\ p[2] \in Seq(CharByte) /\ \A c \in {Question, Ampersand, Equals} : Free(p[2], c)
  BY <1>1, <1>2, EncodedIsDecoded
<1>4. p[1] \in Seq(Int) /\ p[2] \in Seq(Int) /\ Equals \in Int
  BY <1>3, CharsAreInts, SeparatorsAreBytes
<1>5. Equals # Question /\ Equals # Ampersand
  BY SeparatorsAreBytes
<1>6. Free(Pair(p), Question) /\ Free(Pair(p), Ampersand)
  BY <1>3, <1>4, <1>5, FreeOfByte DEF Pair
<1>7. Ahead(Pair(p), Equals) = p[1] /\ Past(Pair(p), Equals) = p[2]
  BY <1>3, <1>4, CutAtByte DEF Pair
<1>8. Len(Pair(p)) > 0
  <2> DEFINE n == Len(p[1])
             m == Len(p[2])
  <2>1. Len(Pair(p)) = n + 1 + m
    BY <1>4, JoinedByByte DEF Pair
  <2>2. n \in Nat /\ m \in Nat
    BY <1>4
  <2> HIDE DEF n, m
  <2>3. QED
    BY <2>1, <2>2
<1>9. Pair(p) \in Seq(CharByte)
  BY <1>3, SeparatorsAreBytes, AppendProperties, ConcatProperties DEF Pair
<1>10. QED
  BY <1>6, <1>7, <1>8, <1>9

\* The last byte of a text that has one.
LEMMA LastOfJoined ==
  ASSUME NEW a \in Seq(Int), NEW b \in Int, NEW x \in Seq(Int), NEW c, Free(x, c), b # c \/ Len(x) > 0
  PROVE  Last(Append(a, b) \o x) # c
<1> DEFINE t == Append(a, b) \o x
           N == Len(a)
           M == Len(x)
<1>1. N \in Nat /\ M \in Nat /\ \A i \in 1 .. M : x[i] # c
  BY DEF Free
<1>2. /\ Len(t) = N + 1 + M /\ t[N + 1] = b /\ \A i \in 1 .. M : t[N + 1 + i] = x[i]
  BY JoinedByByte
<1>3. b # c \/ M > 0
  OBVIOUS
<1> HIDE DEF t, N, M
<1>4. CASE M > 0
  <2>1. M \in 1 .. M
    BY <1>1, <1>4
  <2>2. t[N + 1 + M] # c
    BY <1>1, <1>2, <2>1
  <2>3. QED
    BY <1>2, <2>2 DEF Last, t
<1>5. CASE M = 0
  <2>1. N + 1 + M = N + 1
    BY <1>1, <1>5
  <2>2. t[Len(t)] = b /\ b # c
    BY <1>1, <1>2, <1>3, <1>5, <2>1
  <2>3. QED
    BY <2>2 DEF Last, t
<1>6. QED
  BY <1>1, <1>4, <1>5

\* The query of a call: as many parts as parameters, each name=value of one of them.
IsQuery(q, walk, k) ==
  /\ q \in Seq(CharByte) /\ Len(q) > 0 /\ Free(q, Question)
  /\ Parts(q, Ampersand) = {Pair(walk[j]) : j \in 1 .. k}
  /\ IsFiniteSet(Marks(q, Ampersand)) /\ Cardinality(Marks(q, Ampersand)) = k - 1

\* A parameter more makes a longer query.
LEMMA QueryGrows ==
  ASSUME NEW walk, NEW k \in Nat, k >= 1, NEW q, IsQuery(q, walk, k), NEW x, x = Pair(walk[k + 1]),
         x \in Seq(CharByte), Free(x, Question), Free(x, Ampersand)
  PROVE  IsQuery(Append(q, Ampersand) \o x, walk, k + 1)
<1> DEFINE r == Append(q, Ampersand) \o x
<1>1. q \in Seq(CharByte) /\ q \in Seq(Int) /\ x \in Seq(Int) /\ Ampersand \in Int
  BY CharsAreInts, SeparatorsAreBytes DEF IsQuery
<1>2. r \in Seq(CharByte)
  BY <1>1, SeparatorsAreBytes, AppendProperties, ConcatProperties
<1>3. Len(r) > 0
  <2>1. Len(r) = Len(q) + 1 + Len(x)
    BY <1>1, JoinedByByte
  <2>2. Len(q) \in Nat /\ Len(x) \in Nat
    BY <1>1
  <2>3. QED
    BY <2>1, <2>2
<1>4. Free(r, Question)
  BY <1>1, FreeOfByte, SeparatorsAreBytes DEF IsQuery
<1>5. /\ Marks(r, Ampersand) = Marks(q, Ampersand) \cup {Len(q) + 1}
      /\ Parts(r, Ampersand) = Parts(q, Ampersand) \cup {x}
  BY <1>1, OnePartMore
<1> HIDE DEF r
<1>6. Len(q) + 1 \notin Marks(q, Ampersand)
  <2>1. DOMAIN q = 1 .. Len(q) /\ Len(q) \in Nat
    BY <1>1
  <2>2. QED
    BY <2>1 DEF Marks
<1>7. IsFiniteSet(Marks(r, Ampersand)) /\ Cardinality(Marks(r, Ampersand)) = (k + 1) - 1
  <2> DEFINE Old == Marks(q, Ampersand)
             mark == Len(q) + 1
  <2>1. IsFiniteSet(Old) /\ Cardinality(Old) = k - 1 /\ mark \notin Old
    BY <1>6 DEF IsQuery
  <2>2. Marks(r, Ampersand) = Old \cup {mark}
    BY <1>5
  <2> HIDE DEF Old, mark
  <2>3. IsFiniteSet(Old \cup {mark}) /\ Cardinality(Old \cup {mark}) = Cardinality(Old) + 1
    BY <2>1, FS_AddElement
  <2>4. QED
    BY <2>1, <2>2, <2>3
<1>8. Parts(r, Ampersand) = {Pair(walk[j]) : j \in 1 .. k + 1}
  <2>1. Parts(r, Ampersand) = {Pair(walk[j]) : j \in 1 .. k} \cup {Pair(walk[k + 1])}
    BY <1>5 DEF IsQuery
  <2>2. 1 .. k + 1 = (1 .. k) \cup {k + 1}
    OBVIOUS
  <2>3. QED
    BY <2>1, <2>2
<1>9. QED
  BY <1>2, <1>3, <1>4, <1>7, <1>8 DEF IsQuery, r

\* What escapeParams makes of parameters: the URL, a question mark and the query, which
\* separates them at the ampersands (http_request_helper.h:93-102).
THEOREM UrlHasQuery ==
  ASSUME NEW url \in Seq(CharByte), NEW map, IsParams(map), map # {}
  PROVE  LET walk == InOrder(EncodedParams(map))
         IN  \E q : /\ IsQuery(q, walk, Cardinality(map))
                    /\ escapeParams(url, map) = Append(url, Question) \o q
<1> DEFINE T == EncodedParams(map)
           walk == InOrder(T)
           N == Cardinality(map)
           start == Append(url, Question)
<1>1. IsMap(T) /\ Cardinality(T) = N
  BY NoParameterIsLost
<1>2. N \in Nat /\ N >= 1
  <2>1. IsFiniteSet(map)
    BY DEF IsParams
  <2>2. N \in Nat /\ N # 0
    BY <2>1, FS_CardinalityType, FS_EmptySet
  <2>3. QED
    BY <2>2
<1>3. walk \in [1 .. N -> T] /\ Len(walk) = N
  <2> HIDE DEF T, N
  <2>1. walk \in [1 .. N -> T]
    BY <1>1, MapIsWalkedInOrder
  <2>2. QED
    BY <1>2, <2>1, NumberedIsSeq
<1>4. PICK f : /\ escapeParams(url, map) = f[N]
               /\ f \in [0 .. N -> Seq(CharByte)]
               /\ f[0] = start
               /\ \A i \in 1 .. N : f[i] = Added(f[i - 1], walk[i])
  <2>1. \E f : /\ escapeParams(url, map) = f[Len(walk)]
               /\ f \in [0 .. Len(walk) -> Seq(CharByte)]
               /\ f[0] = IF map = {} THEN url ELSE start
               /\ \A i \in 1 .. Len(walk) : f[i] = Added(f[i - 1], walk[i])
    BY MergingLoop
  <2> HIDE DEF walk, N, start
  <2>2. QED
    BY <1>3, <2>1
<1>5. start \in Seq(CharByte) /\ start \in Seq(Int) /\ Last(start) = Question
      /\ url \in Seq(Int) /\ Question \in Int
  <2>1. start \in Seq(CharByte) /\ Len(start) = Len(url) + 1 /\ start[Len(url) + 1] = Question
    BY SeparatorsAreBytes, AppendProperties
  <2>2. QED
    BY <2>1, CharsAreInts, SeparatorsAreBytes DEF Last
<1>6. \A i \in 1 .. N :
        /\ Pair(walk[i]) \in Seq(CharByte) /\ Len(Pair(walk[i])) > 0
        /\ Free(Pair(walk[i]), Question) /\ Free(Pair(walk[i]), Ampersand)
        /\ walk[i] \in Seq(CharByte) \X Seq(CharByte)
  <2>1. T \subseteq Seq(CharByte) \X Seq(CharByte)
    BY NoParameterIsLost
  <2> HIDE DEF walk
  <2>2. \A i \in 1 .. N : walk[i] \in T
    BY <1>3
  <2>3. QED
    BY <2>1, <2>2, PairIsRead
<1> DEFINE Has(k) == \E q : IsQuery(q, walk, k) /\ f[k] = start \o q
           S == {k \in 0 .. N : k = 0 \/ Has(k)}
<1> HIDE DEF T, walk, N
<1>7. 0 \in S
  BY <1>2
<1>8. ASSUME NEW k \in 0 .. N, k < N, k \in S
      PROVE  k + 1 \in S
  <2>1. k + 1 \in 1 .. N /\ k + 1 \in 0 .. N /\ (k + 1) - 1 = k
    BY <1>2, <1>8
  <2> DEFINE x == Pair(walk[k + 1])
  <2>2. x \in Seq(CharByte) /\ Len(x) > 0 /\ Free(x, Question) /\ Free(x, Ampersand)
    BY <1>6, <2>1
  <2>3. /\ f[k + 1] = Added(f[k], walk[k + 1]) /\ f[k] \in Seq(CharByte)
        /\ walk[k + 1] \in Seq(CharByte) \X Seq(CharByte)
    BY <1>4, <1>6, <2>1
  <2>4. CASE k = 0
    <3>1. f[k + 1] = start \o x
      <4>1. f[k] = start /\ Last(f[k]) = Question
        BY <1>4, <1>5, <2>4
      <4> HIDE DEF start
      <4>2. QED
        BY <2>3, <4>1, ParameterIsAdded
    <3>2. x \in Seq(Int) /\ Ampersand \in Int
      BY <2>2, CharsAreInts, SeparatorsAreBytes
    <3>3. Marks(x, Ampersand) = {} /\ Parts(x, Ampersand) = {x}
      BY <2>2, <3>2, OnePart
    <3>4. {Pair(walk[j]) : j \in 1 .. k + 1} = {x}
      <4>1. 1 .. k + 1 = {k + 1}
        BY <2>4
      <4>2. QED
        BY <4>1
    <3> HIDE DEF x, start
    <3>5. IsFiniteSet(Marks(x, Ampersand)) /\ Cardinality(Marks(x, Ampersand)) = (k + 1) - 1
      BY <2>4, <3>3, FS_EmptySet
    <3>6. IsQuery(x, walk, k + 1)
      BY <2>2, <3>3, <3>4, <3>5 DEF IsQuery
    <3>7. QED
      BY <2>1, <3>1, <3>6
  <2>5. CASE k # 0
    <3>1. k \in Nat /\ k >= 1
      BY <2>5
    <3>2. PICK q : IsQuery(q, walk, k) /\ f[k] = start \o q
      BY <1>8, <2>5
    <3>3. q \in Seq(CharByte) /\ q \in Seq(Int) /\ Len(q) > 0 /\ Free(q, Question)
      BY <3>2, CharsAreInts DEF IsQuery
    <3>4. Last(f[k]) # Question
      BY <1>5, <3>2, <3>3, LastOfJoined
    <3>5. f[k + 1] = Append(f[k], Ampersand) \o x
      BY <2>3, <3>4, ParameterIsAdded
    <3> DEFINE r == Append(q, Ampersand) \o x
    <3>6. IsQuery(r, walk, k + 1)
      <4>1. x = Pair(walk[k + 1])
        OBVIOUS
      <4> HIDE DEF x
      <4>2. QED
        BY <2>2, <3>1, <3>2, <4>1, QueryGrows
    <3> HIDE DEF x, start
    <3>7. Append(start \o q, Ampersand) \o x = start \o (Append(q, Ampersand) \o x)
      <4> DEFINE c == Append(q, Ampersand)
      <4>1. c \in Seq(CharByte)
        BY <3>3, SeparatorsAreBytes, AppendProperties
      <4>2. Append(start \o q, Ampersand) = start \o c
        <5> DEFINE e == <<Ampersand>>
                   s == start \o q
        <5>1. e \in Seq(CharByte)
          BY SeparatorsAreBytes
        <5>2. c = q \o e
          BY <3>3, SeparatorsAreBytes, AppendIsConcat
        <5>3. Append(s, Ampersand) = s \o e
          <6>1. s \in Seq(CharByte)
            BY <1>5, <3>3, ConcatProperties
          <6>2. QED
            BY <6>1, SeparatorsAreBytes, AppendIsConcat
        <5> HIDE DEF e, c
        <5>4. (start \o q) \o e = start \o (q \o e)
          <6>1. start \in Seq(CharByte)
            BY <1>5
          <6>2. q \in Seq(CharByte)
            BY <3>3
          <6>3. QED
            BY <5>1, <6>1, <6>2
        <5>5. QED
          BY <5>2, <5>3, <5>4
      <4> HIDE DEF c
      <4>3. (start \o c) \o x = start \o (c \o x)
        BY <1>5, <2>2, <4>1, SMTT(60)
      <4>4. QED
        BY <4>2, <4>3 DEF c
    <3>8. f[k + 1] = start \o r
      BY <3>2, <3>5, <3>7
    <3> HIDE DEF r
    <3>9. QED
      BY <2>1, <3>6, <3>8
  <2>6. QED
    BY <2>4, <2>5
<1>9. 0 .. N \subseteq S
  <2> HIDE DEF S
  <2>1. QED
    BY <1>2, <1>7, <1>8, CountingUp
<1>10. Has(N)
  <2> HIDE DEF Has
  <2>1. N \in 0 .. N /\ N # 0
    BY <1>2
  <2>2. QED
    BY <1>9, <2>1
<1>11. QED
  BY <1>4, <1>10 DEF N, walk, T

-----------------------------------------------------------------------------
(* Calls *)

\* What every call has made of its parameters, and what has arrived of an answer.
CallIsMade ==
  /\ request = "form" => params \in Params /\ wire = escapeParams(Url, params)
  /\ request = "answer" =>
       /\ response \in Responses
       /\ \E n \in 0 .. Len(Whole(response)) : wire = SubSeq(Whole(response), 1, n)

\* It holds from the first state on.
THEOREM CallIsMadeHolds == HelperSpec => []CallIsMade
<1>1. HelperInit => CallIsMade
  BY DEF HelperInit, CallIsMade
<1>2. CallIsMade /\ [HelperNext]_helperVars => CallIsMade'
  <2> SUFFICES ASSUME CallIsMade, [HelperNext]_helperVars
               PROVE  CallIsMade'
    OBVIOUS
  <2>1. CASE PostForm
    BY <2>1 DEF PostForm, CallIsMade
  <2>2. CASE AnswerArrives
    <3>1. PICK chars \in Responses :
            /\ request' = "answer" /\ response' = chars
            /\ wire' \in {SubSeq(Whole(chars), 1, n) : n \in 0 .. Len(Whole(chars))}
      BY <2>2 DEF AnswerArrives
    <3>2. PICK n \in 0 .. Len(Whole(chars)) : wire' = SubSeq(Whole(chars), 1, n)
      BY <3>1
    <3>3. Whole(response)' = Whole(chars)
      BY <3>1 DEF Whole
    <3>4. QED
      BY <3>1, <3>2, <3>3 DEF CallIsMade
  <2>3. CASE UNCHANGED helperVars
    BY <2>3 DEF helperVars, CallIsMade, Whole
  <2>4. QED
    BY <2>1, <2>2, <2>3 DEF HelperNext
<1>3. QED
  BY <1>1, <1>2, PTL DEF HelperSpec

\* A text without the byte is all ahead of it.
LEMMA AllAhead ==
  ASSUME NEW x \in Seq(Int), NEW b, Free(x, b)
  PROVE  Ahead(x, b) = x
<1>1. DOMAIN x = 1 .. Len(x) /\ Len(x) \in Nat
  OBVIOUS
<1>2. Place(x, b) = Len(x) + 1
  BY <1>1 DEF Place, Free
<1>3. Place(x, b) - 1 = Len(x)
  BY <1>1, <1>2
<1>4. Ahead(x, b) = SubSeq(x, 1, Len(x))
  BY <1>3 DEF Ahead
<1>5. QED
  BY <1>4, SubSeqFull

\* A parameter as a reader takes it from a part of a query.
Param(t) == <<Unescape(Ahead(t, Equals)), Unescape(Past(t, Equals))>>

\* The parts of a query are the parameters.
LEMMA PartsAreParameters ==
  ASSUME NEW map, IsParams(map)
  PROVE  LET walk == InOrder(EncodedParams(map))
         IN  {Param(t) : t \in {Pair(walk[j]) : j \in 1 .. Cardinality(map)}} = map
<1> DEFINE T == EncodedParams(map)
           walk == InOrder(T)
           N == Cardinality(map)
<1>1. {walk[j] : j \in 1 .. N} = T
  <2>1. IsMap(T) /\ Cardinality(T) = N
    BY NoParameterIsLost
  <2> HIDE DEF T, N
  <2>2. QED
    BY <2>1, MapIsWalkedInOrder
<1>2. \A p \in map : /\ <<curl_easy_escape(p[1]), curl_easy_escape(p[2])>> \in T
                     /\ Param(Pair(<<curl_easy_escape(p[1]), curl_easy_escape(p[2])>>)) = p
  <2> SUFFICES ASSUME NEW p \in map
               PROVE  /\ <<curl_easy_escape(p[1]), curl_easy_escape(p[2])>> \in T
                      /\ Param(Pair(<<curl_easy_escape(p[1]), curl_easy_escape(p[2])>>)) = p
    OBVIOUS
  <2> DEFINE e == <<curl_easy_escape(p[1]), curl_easy_escape(p[2])>>
  <2>1. e \in T
    BY DEF EncodedParams
  <2>2. e[1] = curl_easy_escape(p[1]) /\ e[2] = curl_easy_escape(p[2])
    OBVIOUS
  <2>3. p[1] \in Seq(CharByte) /\ p[2] \in Seq(CharByte) /\ p = <<p[1], p[2]>>
    BY DEF IsParams
  <2> HIDE DEF e
  <2>4. Ahead(Pair(e), Equals) = e[1] /\ Past(Pair(e), Equals) = e[2]
    BY <2>1, PairIsRead
  <2>5. Unescape(e[1]) = p[1] /\ Unescape(e[2]) = p[2]
    BY <2>2, <2>3, EncodedIsDecoded
  <2>6. Param(Pair(e)) = p
    BY <2>3, <2>4, <2>5 DEF Param
  <2>7. QED
    BY <2>1, <2>6 DEF e
<1>3. \A e \in T : \E p \in map : e = <<curl_easy_escape(p[1]), curl_easy_escape(p[2])>>
  BY DEF EncodedParams
<1> HIDE DEF T, walk, N
<1>4. {Param(t) : t \in {Pair(walk[j]) : j \in 1 .. N}} = {Param(Pair(e)) : e \in T}
  BY <1>1
<1>5. {Param(Pair(e)) : e \in T} = map
  <2> DEFINE E(p) == <<curl_easy_escape(p[1]), curl_easy_escape(p[2])>>
             R(e) == Param(Pair(e))
  <2>1. (\A p \in map : E(p) \in T /\ R(E(p)) = p) /\ \A e \in T : \E p \in map : e = E(p)
    BY <1>2, <1>3
  <2> HIDE DEF E, R
  <2>2. {R(e) : e \in T} = map
    BY <2>1
  <2>3. QED
    BY <2>2 DEF R
<1>6. QED
  BY <1>4, <1>5 DEF T, walk, N

\* A URL without parameters is left as it is.
LEMMA NothingIsAdded ==
  ASSUME NEW url \in Seq(CharByte)
  PROVE  escapeParams(url, {}) = url
<1> DEFINE T == EncodedParams({})
           walk == InOrder(T)
<1>1. IsParams({})
  BY FS_EmptySet DEF IsParams
<1>2. IsMap(T) /\ Cardinality(T) = 0
  BY <1>1, NoParameterIsLost, FS_EmptySet
<1>3. Len(walk) = 0
  <2> HIDE DEF T
  <2>1. walk \in [1 .. 0 -> T]
    BY <1>2, MapIsWalkedInOrder
  <2>2. QED
    BY <2>1, NumberedIsSeq
<1>4. \E f : escapeParams(url, {}) = f[Len(walk)] /\ f[0] = url
  BY <1>1, MergingLoop
<1>5. QED
  BY <1>3, <1>4

\* Whoever takes a URL apart has the parameters, whatever separators are in them
\* (http_request_helper.h:83-105, 119-128).
THEOREM UrlIsUnderstood == HelperSpec => []UrlMeansParams
<1>1. CallIsMade => UrlMeansParams
  <2> SUFFICES ASSUME CallIsMade, request = "form"
               PROVE  LET query == Past(wire, Question)
                      IN  /\ Ahead(wire, Question) = Url
                          /\ IF params = {} THEN wire = Url
                             ELSE /\ {Param(t) : t \in Parts(query, Ampersand)} = params
                                  /\ Cardinality(Marks(query, Ampersand)) + 1 = Cardinality(params)
    BY DEF UrlMeansParams, Param
  <2>1. IsParams(params) /\ wire = escapeParams(Url, params)
    BY HelperAssumption DEF CallIsMade, IsParams
  <2>2. Url \in Seq(CharByte) /\ Url \in Seq(Int) /\ Free(Url, Question) /\ Question \in Int
    <3>1. Url \in Seq(CharByte) /\ \A i \in DOMAIN Url : Url[i] # Question
      BY HelperAssumption
    <3>2. QED
      BY <3>1, CharsAreInts, SeparatorsAreBytes DEF Free
  <2>3. CASE params = {}
    <3>1. wire = Url
      BY <2>1, <2>2, <2>3, NothingIsAdded
    <3>2. QED
      BY <2>2, <2>3, <3>1, AllAhead
  <2>4. CASE params # {}
    <3> DEFINE walk == InOrder(EncodedParams(params))
               N == Cardinality(params)
    <3>1. PICK q : IsQuery(q, walk, N) /\ wire = Append(Url, Question) \o q
      BY <2>1, <2>2, <2>4, UrlHasQuery
    <3>2. q \in Seq(Int)
      BY <3>1, CharsAreInts DEF IsQuery
    <3>3. Ahead(wire, Question) = Url /\ Past(wire, Question) = q
      BY <2>2, <3>1, <3>2, CutAtByte
    <3>4. {Param(t) : t \in Parts(q, Ampersand)} = params
      <4>1. Parts(q, Ampersand) = {Pair(walk[j]) : j \in 1 .. N}
        BY <3>1 DEF IsQuery
      <4>2. {Param(t) : t \in {Pair(walk[j]) : j \in 1 .. N}} = params
        BY <2>1, PartsAreParameters
      <4> HIDE DEF walk, N
      <4>3. QED
        BY <4>1, <4>2
    <3>5. Cardinality(Marks(q, Ampersand)) + 1 = N
      <4>1. N \in Nat /\ Cardinality(Marks(q, Ampersand)) = N - 1
        BY <2>1, <3>1, FS_CardinalityType DEF IsQuery, IsParams
      <4> HIDE DEF N
      <4>2. QED
        BY <4>1
    <3>6. QED
      BY <2>4, <3>3, <3>4, <3>5
  <2>5. QED
    BY <2>3, <2>4
<1>2. QED
  BY <1>1, CallIsMadeHolds, PTL

\* A prefix of an answer.
LEMMA AnswerParts ==
  ASSUME NEW chars \in Seq(CharByte), NEW n \in 0 .. Len(Whole(chars))
  PROVE  LET t == SubSeq(Whole(chars), 1, n)
         IN  /\ Whole(chars) \in Seq(Int) /\ Len(Whole(chars)) = Len(chars) + 15
             /\ t \in Seq(Int) /\ Len(t) = n
             /\ \A i \in 1 .. Len(chars) : 13 + i <= n => t[13 + i] = chars[i]
             /\ 13 + Len(chars) + 1 <= n => t[13 + Len(chars) + 1] = Quote
             /\ Len(ResponseStart) = 13
<1> DEFINE w == Whole(chars)
           k == Len(chars)
           ends == <<Quote, CloseObject>>
           b == ResponseStart \o chars
           t == SubSeq(w, 1, n)
<1>1. chars \in Seq(Int) /\ k \in Nat /\ ends \in Seq(Int) /\ Len(ends) = 2 /\ ends[1] = Quote
  BY CharsAreInts DEF Quote, CloseObject
<1>2. ResponseStart \in Seq(Int) /\ Len(ResponseStart) = 13
  BY SMT DEF ResponseStart
<1>3. /\ b \in Seq(Int) /\ Len(b) = 13 + k
      /\ \A i \in 1 .. 13 + k : b[i] = IF i <= 13 THEN ResponseStart[i] ELSE chars[i - 13]
  <2> DEFINE s == ResponseStart
  <2>1. s \in Seq(Int) /\ chars \in Seq(Int) /\ Len(s) = 13 /\ Len(chars) = k
    BY <1>1, <1>2
  <2> HIDE DEF s, k
  <2>2. /\ s \o chars \in Seq(Int) /\ Len(s \o chars) = Len(s) + Len(chars)
        /\ \A i \in 1 .. Len(s) + Len(chars) :
             (s \o chars)[i] = IF i <= Len(s) THEN s[i] ELSE chars[i - Len(s)]
    BY <2>1, ConcatProperties
  <2>3. QED
    BY <2>1, <2>2 DEF s
<1>4. w = b \o ends
  BY DEF Whole
<1> HIDE DEF w, b, ends, k
<1>5. /\ w \in Seq(Int) /\ Len(w) = 13 + k + 2
      /\ \A i \in 1 .. 13 + k + 2 : w[i] = IF i <= 13 + k THEN b[i] ELSE ends[i - (13 + k)]
  <2>1. b \in Seq(Int) /\ ends \in Seq(Int) /\ Len(b) = 13 + k /\ Len(ends) = 2
    BY <1>1, <1>3
  <2>2. /\ b \o ends \in Seq(Int) /\ Len(b \o ends) = Len(b) + Len(ends)
        /\ \A i \in 1 .. Len(b) + Len(ends) :
             (b \o ends)[i] = IF i <= Len(b) THEN b[i] ELSE ends[i - Len(b)]
    BY <2>1, ConcatProperties
  <2>3. QED
    BY <1>4, <2>1, <2>2
<1>6. n \in 0 .. Len(w) /\ n \in 0 .. 13 + k + 2
  BY <1>5 DEF w
<1>7. t \in Seq(Int) /\ Len(t) = n /\ \A i \in 1 .. n : t[i] = w[i]
  BY <1>1, <1>5, <1>6
<1> HIDE DEF t
<1>8. \A i \in 1 .. k : 13 + i <= n => t[13 + i] = chars[i]
  <2> SUFFICES ASSUME NEW i \in 1 .. k, 13 + i <= n
               PROVE  t[13 + i] = chars[i]
    OBVIOUS
  <2> DEFINE j == 13 + i
  <2>1. j \in 1 .. n /\ j \in 1 .. 13 + k + 2 /\ j \in 1 .. 13 + k /\ j <= 13 + k
        /\ ~(j <= 13) /\ j - 13 = i
    BY <1>1, <1>6
  <2> HIDE DEF j
  <2>2. t[j] = chars[i]
    BY <1>3, <1>5, <1>7, <2>1
  <2>3. QED
    BY <2>2 DEF j
<1>9. 13 + k + 1 <= n => t[13 + k + 1] = Quote
  <2> SUFFICES ASSUME 13 + k + 1 <= n
               PROVE  t[13 + k + 1] = Quote
    OBVIOUS
  <2> DEFINE j == 13 + k + 1
  <2>1. j \in 1 .. n /\ j \in 1 .. 13 + k + 2 /\ ~(j <= 13 + k) /\ j - (13 + k) = 1
    BY <1>1, <1>6
  <2> HIDE DEF j
  <2>2. t[j] = ends[1]
    BY <1>5, <1>7, <2>1
  <2>3. QED
    BY <1>1, <2>2 DEF j
<1>10. 13 + k + 2 = k + 15
  BY <1>1
<1>11. QED
  BY <1>2, <1>5, <1>7, <1>8, <1>9, <1>10 DEF w, t, k

\* A text is the beginning of another that has its bytes in its places.
LEMMA PrefixByBytes ==
  ASSUME NEW s \in Seq(Int), NEW y \in Seq(Int), Len(s) <= Len(y),
         \A i \in 1 .. Len(s) : s[i] = y[i]
  PROVE  IsPrefix(s, y)
<1> DEFINE n == Len(s)
           z == SubSeq(y, 1, n)
<1>1. n \in Nat /\ SubSeq(s, 1, n) = s
  BY SubSeqFull
<1>2. \A i \in 1 .. n : y[i] \in Int
  BY <1>1
<1>3. z \in Seq(Int) /\ Len(z) = n /\ \A i \in 1 .. n : z[i] = y[i]
  BY <1>1, <1>2
<1> HIDE DEF z
<1>4. z = s
  BY <1>3, SeqEqual
<1>5. QED
  BY <1>1, <1>4 DEF IsPrefix, z

\* What is taken out of an answer that came up to its byte n.
LEMMA ResponseOfPart ==
  ASSUME NEW t \in Seq(Int), NEW n \in Nat, Len(t) = n, Len(ResponseStart) = 13
  PROVE  LET r == getResponseFromJson(t)
             m == IF n < 15 THEN n ELSE n - 2
         IN  /\ n = 0 => ~r.thrown /\ r.chars = <<>>
             /\ n \in 1 .. 12 => r.thrown
             /\ n > 12 => /\ ~r.thrown /\ r.chars \in Seq(Int) /\ Len(r.chars) = m - 13
                          /\ \A i \in 1 .. m - 13 : r.chars[i] = t[13 + i]
<1> DEFINE r == getResponseFromJson(t)
           m == IF n < 15 THEN n ELSE n - 2
           part == SubSeq(t, 14, m)
<1>1. t = <<>> <=> n = 0
  BY EmptySeq
<1>2. CASE n = 0
  <2>1. r = [thrown |-> FALSE, chars |-> t]
    BY <1>1, <1>2 DEF getResponseFromJson
  <2>2. QED
    BY <1>1, <1>2, <2>1
<1>3. CASE n \in 1 .. 12
  <2>1. r = [thrown |-> TRUE, chars |-> <<>>]
    BY <1>1, <1>3 DEF getResponseFromJson
  <2>2. QED
    BY <1>3, <2>1
<1>4. CASE n > 12
  <2>1. 13 + 1 = 14
    OBVIOUS
  <2>2. r = [thrown |-> FALSE, chars |-> part]
    <3> DEFINE length == Len(t) - Len(ResponseStart) - 2
               end == IF length < 0 THEN Len(t) ELSE Len(ResponseStart) + length
    <3>1. t # <<>> /\ ~(Len(t) < Len(ResponseStart)) /\ Len(ResponseStart) + 1 = 14
      BY <1>1, <1>4, <2>1
    <3>2. end = m
      BY <1>4
    <3>3. r = [thrown |-> FALSE, chars |-> SubSeq(t, Len(ResponseStart) + 1, end)]
      BY <3>1 DEF getResponseFromJson
    <3> HIDE DEF end
    <3>4. SubSeq(t, Len(ResponseStart) + 1, end) = part
      BY <3>1, <3>2
    <3>5. QED
      BY <3>3, <3>4
  <2>3. m \in Int /\ m - 14 + 1 = m - 13 /\ (~(14 <= m) => m - 13 = 0)
        /\ \A i \in 14 .. m : i \in 1 .. n
    BY <1>4
  <2>4. \A i \in 14 .. m : t[i] \in Int
    BY <2>3
  <2> DEFINE u == 14
  <2>5. u \in Int /\ \A i \in 1 .. m - 13 : u + i - 1 = 13 + i
    BY <2>3
  <2>6. part = SubSeq(t, u, m)
    OBVIOUS
  <2>7. \A i \in u .. m : t[i] \in Int
    BY <2>4
  <2>8. m - u + 1 = m - 13 /\ (~(u <= m) => m - 13 = 0)
    BY <2>3
  <2> HIDE DEF m, u, part
  <2>9. /\ part \in Seq(Int) /\ Len(part) = IF u <= m THEN m - u + 1 ELSE 0
        /\ \A i \in 1 .. m - u + 1 : part[i] = t[u + i - 1]
    BY <2>3, <2>5, <2>6, <2>7, SubSeqProperties
  <2>10. part \in Seq(Int) /\ Len(part) = m - 13 /\ \A i \in 1 .. m - 13 : part[i] = t[13 + i]
    BY <2>5, <2>8, <2>9
  <2>11. ~r.thrown /\ r.chars = part
    BY <2>2
  <2>12. ~(n = 0) /\ ~(n \in 1 .. 12)
    BY <1>4
  <2> HIDE DEF r
  <2>13. QED
    BY <1>4, <2>10, <2>11, <2>12 DEF r, m
<1>5. QED
  BY <1>2, <1>3, <1>4

\* A response is found in an answer that came whole, and nothing in front of it is taken
\* for a response in one that did not (http_request_helper.h:72-81).
THEOREM AnswerIsUnderstood == HelperSpec => []ResponseIsFound
<1>1. CallIsMade => ResponseIsFound
  <2> SUFFICES ASSUME CallIsMade, request = "answer"
               PROVE  LET r == getResponseFromJson(wire)
                      IN  /\ wire = Whole(response) => ~r.thrown /\ r.chars = response
                          /\ ~r.thrown => IsPrefix(r.chars, response \o <<Quote>>)
    BY DEF ResponseIsFound
  <2> DEFINE r == getResponseFromJson(wire)
             k == Len(response)
             y == response \o <<Quote>>
  <2>1. response \in Seq(CharByte)
    BY HelperAssumption DEF CallIsMade
  <2>2. PICK n \in 0 .. Len(Whole(response)) : wire = SubSeq(Whole(response), 1, n)
    BY DEF CallIsMade
  <2>3. response \in Seq(Int) /\ k \in Nat
    BY <2>1, CharsAreInts
  <2>4. /\ Len(Whole(response)) = k + 15 /\ wire \in Seq(Int) /\ Len(wire) = n
        /\ \A i \in 1 .. k : 13 + i <= n => wire[13 + i] = response[i]
        /\ 13 + k + 1 <= n => wire[13 + k + 1] = Quote
        /\ Len(ResponseStart) = 13
    BY <2>1, <2>2, AnswerParts
  <2>5. /\ y \in Seq(Int) /\ Len(y) = k + 1 /\ y[k + 1] = Quote
        /\ \A i \in 1 .. k : y[i] = response[i]
    BY <2>3 DEF Quote
  <2>6. n \in 0 .. k + 15 /\ n \in Nat
    BY <2>3, <2>4
  <2> DEFINE m == IF n < 15 THEN n ELSE n - 2
  <2>7. /\ n = 0 => ~r.thrown /\ r.chars = <<>>
        /\ n \in 1 .. 12 => r.thrown
        /\ n > 12 => /\ ~r.thrown /\ r.chars \in Seq(Int) /\ Len(r.chars) = m - 13
                     /\ \A i \in 1 .. m - 13 : r.chars[i] = wire[13 + i]
    BY <2>4, <2>6, ResponseOfPart
  <2> HIDE DEF r, k, y
  <2>8. ASSUME wire = Whole(response)
        PROVE  ~r.thrown /\ r.chars = response
    <3>1. n = k + 15 /\ n > 12 /\ m - 13 = k /\ \A i \in 1 .. k : 13 + i <= n
      BY <2>3, <2>4, <2>6, <2>8
    <3>2. ~r.thrown /\ r.chars \in Seq(Int) /\ Len(r.chars) = k
          /\ \A i \in 1 .. k : r.chars[i] = response[i]
      BY <2>4, <2>7, <3>1
    <3>3. r.chars = response
      BY <2>3, <3>2, SeqEqual DEF k
    <3>4. QED
      BY <3>2, <3>3
  <2>9. ASSUME ~r.thrown
        PROVE  IsPrefix(r.chars, y)
    <3>1. CASE n = 0
      <4>1. r.chars = <<>> /\ <<>> \in Seq(Int) /\ Len(<<>>) = 0
        BY <2>7, <3>1
      <4>2. Len(<<>>) <= Len(y) /\ \A i \in 1 .. Len(<<>>) : <<>>[i] = y[i]
        BY <2>3, <2>5, <4>1
      <4>3. IsPrefix(<<>>, y)
        BY <2>5, <4>1, <4>2, PrefixByBytes
      <4>4. QED
        BY <4>1, <4>3
    <3>2. CASE n > 12
      <4> DEFINE s == r.chars
                 L == m - 13
      <4>1. s \in Seq(Int) /\ Len(s) = L /\ \A i \in 1 .. L : s[i] = wire[13 + i]
        BY <2>7, <3>2
      <4>2. L \in Nat /\ L <= k + 1 /\ \A i \in 1 .. L : 13 + i <= n
        BY <2>3, <2>6, <3>2
      <4> HIDE DEF s, L
      <4>3. \A i \in 1 .. L : s[i] = y[i]
        <5> SUFFICES ASSUME NEW i \in 1 .. L
                     PROVE  s[i] = y[i]
          OBVIOUS
        <5>1. CASE i <= k
          <6>1. i \in 1 .. k /\ 13 + i <= n
            BY <2>3, <4>2, <5>1
          <6>2. QED
            BY <2>4, <2>5, <4>1, <6>1
        <5>2. CASE i = k + 1
          <6>1. 13 + i <= n /\ 13 + i = 13 + k + 1
            BY <2>3, <4>2, <5>2
          <6>2. wire[13 + i] = Quote
            BY <2>4, <6>1
          <6>3. QED
            BY <2>5, <4>1, <5>2, <6>2
        <5>3. QED
          BY <2>3, <4>2, <5>1, <5>2
      <4>4. IsPrefix(s, y)
        BY <2>5, <4>1, <4>2, <4>3, PrefixByBytes
      <4>5. QED
        BY <4>4 DEF s
    <3>3. CASE n \in 1 .. 12
      BY <2>7, <2>9, <3>3
    <3>4. QED
      BY <2>6, <3>1, <3>2, <3>3
  <2>10. QED
    BY <2>8, <2>9 DEF r, y
<1>2. QED
  BY <1>1, CallIsMadeHolds, PTL
=============================================================================
