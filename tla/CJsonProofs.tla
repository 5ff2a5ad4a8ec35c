----------------------------- MODULE CJsonProofs -----------------------------
(***************************************************************************)
(* The strings of cJSON.c, for every INT_MAX, every buffer and every       *)
(* string.  What ensure promises a piece of a print: the room that was     *)
(* asked for and one byte more, or a failure, and no byte of the print     *)
(* lost on the way.  What print_string_ptr makes of it: a string that fits *)
(* the length counted for it.  What a \uXXXX escape becomes: the UTF-8 of  *)
(* its character.                                                          *)
(***************************************************************************)
EXTENDS CJsonPieces, CJsonUtf16, SequenceTheorems, WellFoundedInduction, TLAPS

PrintbufferType ==
  [bytes : Seq(Int), length : Nat, offset : Nat, depth : Int, noalloc : BOOLEAN,
   format : BOOLEAN, realloc : BOOLEAN, fuel : Nat, live : Int, null : BOOLEAN,
   ok : BOOLEAN, overflow : BOOLEAN]

\* A block holds as many bytes as its length says, INT_MAX at most.
IsBuffer(p) ==
  /\ p \in PrintbufferType
  /\ Len(p.bytes) = p.length
  /\ p.length <= INT_MAX

\* What is printed so far lies inside the block, which a copy by hand needs as well.
InBlock(p) == p.offset < p.length

\* Bytes numbered from 1 are a sequence.
LEMMA FunctionIsSeq ==
  ASSUME NEW n \in Nat, NEW f \in [1 .. n -> Int]
  PROVE  f \in Seq(Int) /\ Len(f) = n
OBVIOUS

\* A block that moves has the new length and keeps what was printed.
LEMMA GrownBuffer ==
  ASSUME NEW p, IsBuffer(p), InBlock(p), NEW n \in 1 .. INT_MAX, p.length <= n
  PROVE  LET g == Grown(p, n)
         IN  /\ IsBuffer(g) /\ g.overflow = p.overflow /\ g.offset = p.offset
             /\ g.ok => /\ p.ok /\ g.length = n
                        /\ \A i \in 1 .. p.offset : g.bytes[i] = p.bytes[i]
<1> DEFINE kept == IF p.realloc THEN p.length ELSE p.offset + 1
           new == [i \in 1 .. n |-> IF i <= kept /\ i <= p.length THEN p.bytes[i] ELSE Junk]
           g == Grown(p, n)
<1>1. /\ p \in PrintbufferType /\ Len(p.bytes) = p.length /\ p.length <= INT_MAX
      /\ INT_MAX \in Nat \ {0} /\ n \in Nat
      /\ p.bytes \in Seq(Int) /\ p.length \in Nat /\ p.offset \in Nat /\ p.offset < p.length
      /\ p.ok \in BOOLEAN /\ p.overflow \in BOOLEAN /\ p.fuel \in Nat /\ p.live \in Int
      /\ p.live - 1 \in Int
  BY BufferAssumption DEF IsBuffer, InBlock, PrintbufferType
<1>2. CASE p.fuel = 0
  <2>1. g = [p EXCEPT !.ok = FALSE, !.bytes = <<>>, !.length = 0, !.null = TRUE, !.live = @ - 1]
    BY <1>2 DEF Grown
  <2>2. <<>> \in Seq(Int) /\ Len(<<>>) = 0
    OBVIOUS
  <2>3. g \in PrintbufferType
    <3>1. ASSUME NEW e \in Seq(Int), NEW l \in Int
          PROVE  [p EXCEPT !.ok = FALSE, !.bytes = e, !.length = 0, !.null = TRUE, !.live = l]
                   \in PrintbufferType
      BY <1>1 DEF PrintbufferType
    <3>2. QED
      BY <1>1, <2>1, <2>2, <3>1
  <2>4. g.bytes = <<>> /\ g.length = 0 /\ ~g.ok /\ g.overflow = p.overflow /\ g.offset = p.offset
    BY <1>1, <2>1 DEF PrintbufferType
  <2>5. QED
    BY <1>1, <2>2, <2>3, <2>4 DEF IsBuffer
<1>3. CASE p.fuel # 0
  <2>1. g = [p EXCEPT !.bytes = new, !.overflow = @ \/ kept > p.length, !.length = n, !.fuel = @ - 1]
    BY <1>3 DEF Grown
  <2>2. \A i \in 1 .. n : new[i] \in Int
    <3>1. \A i \in 1 .. p.length : p.bytes[i] \in Int
      BY <1>1
    <3>2. QED
      BY <1>1, <3>1 DEF Junk
  <2>3. new \in Seq(Int) /\ Len(new) = n
    BY <1>1, <2>2
  <2>4. kept \in Nat /\ ~(kept > p.length) /\ p.offset <= kept
    BY <1>1
  <2>5. \A i \in 1 .. p.offset : new[i] = p.bytes[i]
    BY <1>1, <2>4
  <2> HIDE DEF new, kept
  <2>6. g.bytes = new /\ g.length = n /\ g.offset = p.offset /\ g.ok = p.ok
    BY <1>1, <2>1 DEF PrintbufferType
  <2>7. g.overflow = p.overflow
    BY <1>1, <2>1, <2>4 DEF PrintbufferType
  <2>8. g \in PrintbufferType
    <3>1. p.fuel - 1 \in Nat /\ (p.overflow \/ kept > p.length) \in BOOLEAN
      BY <1>1, <1>3
    <3>2. QED
      BY <1>1, <2>1, <2>3, <3>1 DEF PrintbufferType
  <2>9. QED
    BY <1>1, <2>3, <2>5, <2>6, <2>7, <2>8 DEF IsBuffer
<1>4. QED
  BY <1>2, <1>3

\* ensure never hands out less than was asked for and one byte more, never goes past
\* INT_MAX, reads no byte outside the old block, and keeps all that was printed,
\* whichever way the block moved (cJSON.c:371-456).
THEOREM EnsureMakesRoom ==
  ASSUME NEW p, IsBuffer(p), InBlock(p), NEW needed \in Nat
  PROVE  LET q == Ensured(p, needed)
         IN  /\ IsBuffer(q) /\ q.overflow = p.overflow /\ q.offset = p.offset
             /\ q.ok => /\ q.offset + needed + 1 <= q.length
                        /\ \A i \in 1 .. p.offset : q.bytes[i] = p.bytes[i]
<1> DEFINE wanted == needed + p.offset + 1
           newsize == IF wanted > INT_MAX \div 2 THEN INT_MAX ELSE wanted * 2
           q == Ensured(p, needed)
<1>1. /\ p \in PrintbufferType /\ Len(p.bytes) = p.length /\ p.length <= INT_MAX
      /\ INT_MAX \in Nat \ {0} /\ p.length \in Nat /\ p.offset \in Nat /\ p.offset < p.length
      /\ p.ok \in BOOLEAN
  BY BufferAssumption DEF IsBuffer, InBlock, PrintbufferType
<1>2. wanted \in Nat
  BY <1>1
<1>3. /\ IsBuffer(Failed(p)) /\ ~Failed(p).ok
      /\ Failed(p).overflow = p.overflow /\ Failed(p).offset = p.offset
  BY <1>1 DEF Failed, IsBuffer, PrintbufferType
<1>4. CASE ~p.ok
  <2>1. q = p
    BY <1>4 DEF Ensured
  <2>2. QED
    BY <1>4, <2>1
<1>5. CASE p.ok /\ wanted <= p.length
  <2>1. q = p \/ q = Failed(p)
    BY <1>5 DEF Ensured
  <2>2. QED
    BY <1>1, <1>3, <1>5, <2>1
<1>6. CASE p.ok /\ wanted > p.length /\ (needed > INT_MAX \/ p.noalloc \/ wanted > INT_MAX)
  <2>1. q = Failed(p)
    BY <1>1, <1>2, <1>6 DEF Ensured
  <2>2. QED
    BY <1>3, <2>1
<1>7. CASE p.ok /\ wanted > p.length /\ ~(needed > INT_MAX \/ p.noalloc \/ wanted > INT_MAX)
  <2>1. q = Grown(p, newsize)
    BY <1>1, <1>2, <1>7 DEF Ensured
  <2>2. newsize \in 1 .. INT_MAX /\ wanted <= newsize /\ p.length <= newsize
    BY <1>1, <1>2, <1>7, SMTT(30)
  <2> HIDE DEF newsize
  <2>3. /\ IsBuffer(q) /\ q.overflow = p.overflow /\ q.offset = p.offset
        /\ q.ok => q.length = newsize /\ \A i \in 1 .. p.offset : q.bytes[i] = p.bytes[i]
    BY <2>1, <2>2, GrownBuffer
  <2>4. QED
    BY <1>1, <1>2, <2>2, <2>3
<1>8. QED
  BY <1>1, <1>2, <1>4, <1>5, <1>6, <1>7

\* What is written inside the block changes the bytes there and nothing else.
LEMMA WrittenInside ==
  ASSUME NEW q, IsBuffer(q), NEW at \in Nat, NEW piece \in Seq(Int),
         q.ok => q.offset + at + Len(piece) <= q.length
  PROVE  LET w == Written(q, at, piece)
             first == q.offset + at
         IN  /\ IsBuffer(w) /\ w.overflow = q.overflow /\ w.offset = q.offset
             /\ w.ok = q.ok /\ w.length = q.length
             /\ q.ok => \A i \in 1 .. q.length :
                          w.bytes[i] = IF i > first /\ i <= first + Len(piece)
                                       THEN piece[i - first] ELSE q.bytes[i]
<1> DEFINE first == q.offset + at
           new == [i \in DOMAIN q.bytes |->
                     IF i > first /\ i <= first + Len(piece) THEN piece[i - first] ELSE q.bytes[i]]
           w == Written(q, at, piece)
<1>1. /\ q \in PrintbufferType /\ Len(q.bytes) = q.length /\ q.length <= INT_MAX
      /\ q.bytes \in Seq(Int) /\ q.length \in Nat /\ q.offset \in Nat /\ Len(piece) \in Nat
      /\ q.ok \in BOOLEAN /\ q.overflow \in BOOLEAN
  BY DEF IsBuffer, PrintbufferType
<1>2. CASE ~q.ok
  <2>1. w = q
    BY <1>2 DEF Written
  <2>2. QED
    BY <1>2, <2>1
<1>3. CASE q.ok
  <2>1. w = [q EXCEPT !.bytes = new, !.overflow = @ \/ first + Len(piece) > q.length]
    BY <1>3 DEF Written
  <2>2. DOMAIN q.bytes = 1 .. q.length /\ \A i \in 1 .. q.length : q.bytes[i] \in Int
    BY <1>1
  <2>3. first \in Nat /\ ~(first + Len(piece) > q.length)
    BY <1>1, <1>3
  <2>4. \A i \in 1 .. q.length : new[i] \in Int
    <3>1. \A j \in 1 .. Len(piece) : piece[j] \in Int
      OBVIOUS
    <3>2. QED
      BY <1>1, <2>2, <2>3, <3>1
  <2>5. new \in Seq(Int) /\ Len(new) = q.length
    <3>1. new = [i \in 1 .. q.length |-> new[i]]
      BY <2>2
    <3> HIDE DEF new
    <3>2. new \in [1 .. q.length -> Int]
      BY <2>4, <3>1
    <3>3. q.length \in Nat
      BY <1>1
    <3>4. QED
      BY <3>2, <3>3, FunctionIsSeq
  <2>6. \A i \in 1 .. q.length :
          new[i] = IF i > first /\ i <= first + Len(piece) THEN piece[i - first] ELSE q.bytes[i]
    BY <2>2
  <2> HIDE DEF new, first
  <2>7. /\ w.bytes = new /\ w.length = q.length /\ w.offset = q.offset
        /\ w.overflow = q.overflow /\ w.ok = q.ok
    BY <1>1, <2>1, <2>3 DEF PrintbufferType
  <2>8. w \in PrintbufferType
    BY <1>1, <2>1, <2>3, <2>5 DEF PrintbufferType
  <2>9. IsBuffer(w)
    BY <1>1, <2>5, <2>7, <2>8 DEF IsBuffer
  <2>10. QED
    BY <2>6, <2>7, <2>9 DEF first
<1>4. QED
  BY <1>1, <1>2, <1>3

\* w is p with a piece printed `at` places behind its offset, in a block that has the
\* room that was needed, or a print that failed; nothing outside the block was touched.
HasPiece(w, p, needed, at, piece) ==
  /\ IsBuffer(w) /\ w.overflow = p.overflow /\ w.offset = p.offset
  /\ w.ok => /\ p.offset + needed + 1 <= w.length
             /\ \A i \in 1 .. p.offset : w.bytes[i] = p.bytes[i]
             /\ \A i \in 1 .. Len(piece) : w.bytes[p.offset + at + i] = piece[i]

\* What was ensured may be written, with its NUL: no piece of at most needed + 1 bytes
\* leaves the block, it is there afterwards, and so is what was printed before
\* (cJSON.c:371-456).
THEOREM WhatIsEnsuredFits ==
  ASSUME NEW p, IsBuffer(p), InBlock(p), NEW needed \in Nat,
         NEW at \in Nat, NEW piece \in Seq(Int), at + Len(piece) <= needed + 1
  PROVE  HasPiece(Written(Ensured(p, needed), at, piece), p, needed, at, piece)
<1> DEFINE q == Ensured(p, needed)
           w == Written(q, at, piece)
           first == p.offset + at
<1>1. /\ IsBuffer(q) /\ q.overflow = p.overflow /\ q.offset = p.offset
      /\ q.ok => /\ q.offset + needed + 1 <= q.length
                 /\ \A i \in 1 .. p.offset : q.bytes[i] = p.bytes[i]
  BY EnsureMakesRoom
<1> HIDE DEF q
<1>2. q.offset \in Nat /\ p.offset \in Nat /\ q.length \in Nat /\ Len(piece) \in Nat
  BY <1>1 DEF IsBuffer, PrintbufferType
<1>3. q.ok => q.offset + at + Len(piece) <= q.length
  BY <1>1, <1>2
<1>4. /\ IsBuffer(w) /\ w.overflow = q.overflow /\ w.offset = q.offset
      /\ w.ok = q.ok /\ w.length = q.length
      /\ q.ok => \A i \in 1 .. q.length :
                   w.bytes[i] = IF i > first /\ i <= first + Len(piece)
                                THEN piece[i - first] ELSE q.bytes[i]
  BY <1>1, <1>3, WrittenInside
<1> HIDE DEF w
<1>5. ASSUME q.ok
      PROVE  \A i \in 1 .. p.offset : w.bytes[i] = p.bytes[i]
  <2>1. \A i \in 1 .. p.offset : i \in 1 .. q.length /\ ~(i > first)
    BY <1>1, <1>2, <1>5
  <2>2. \A i \in 1 .. p.offset : w.bytes[i] = q.bytes[i]
    BY <1>4, <1>5, <2>1
  <2>3. QED
    BY <1>1, <1>5, <2>2
<1>6. ASSUME q.ok, NEW i \in 1 .. Len(piece)
      PROVE  w.bytes[first + i] = piece[i]
  <2>1. first \in Nat /\ first + Len(piece) <= q.length
    BY <1>1, <1>2, <1>3, <1>6, SMTT(30)
  <2> HIDE DEF first
  <2>2. first + i \in 1 .. q.length /\ first + i > first /\ first + i <= first + Len(piece)
        /\ (first + i) - first = i
    BY <1>2, <2>1
  <2>3. QED
    BY <1>4, <1>6, <2>2
<1>7. QED
  BY <1>1, <1>4, <1>5, <1>6 DEF q, w, HasPiece

-----------------------------------------------------------------------------
(* Escapes *)

\* What a \uXXXX can say, and the characters there are.
IsUnit(code) == code \in Nat /\ code < 65536
IsCharacter(code) == code \in Nat /\ code <= 1114111

\* A character that is no half of a pair.
IsScalar(code) == IsCharacter(code) /\ ~IsHighSurrogate(code) /\ ~IsLowSurrogate(code)

\* Two and three times six bits.
LEMMA SixBits ==
  ASSUME NEW n \in Nat
  PROVE  /\ n \div 4096 = (n \div 64) \div 64
         /\ n \div 262144 = (n \div 4096) \div 64
<1>1. n \div 4096 = (n \div 64) \div 64
  BY SMT
<1>2. n \div 262144 = (n \div 4096) \div 64
  BY SMT
<1>3. QED
  BY <1>1, <1>2, SMT

\* What the bits of a first byte say of the length is no part of the character.
LEMMA LeadBits ==
  /\ \A n \in 0 .. 31 : (192 + n) % 32 = n
  /\ \A n \in 0 .. 15 : (224 + n) % 16 = n
  /\ \A n \in 0 .. 7 : (240 + n) % 8 = n
BY SMT

\* UTF-8 can be read back: a character's bytes are bytes, four at most, and they
\* encode it.
LEMMA Utf8Encodes ==
  ASSUME NEW code, IsCharacter(code)
  PROVE  /\ Utf8(code) \in Seq(Byte)
         /\ CharacterOf(Utf8(code)) = code
         /\ Len(Utf8(code)) \in Nat /\ Len(Utf8(code)) <= 4
         /\ IsUnit(code) => Len(Utf8(code)) <= 3
<1> USE DEF IsUnit, IsCharacter
<1> DEFINE six == code \div 64
           twelve == code \div 4096
           eighteen == code \div 262144
<1>1. /\ six \in Nat /\ twelve \in Nat /\ eighteen \in Nat
      /\ code = 64 * six + (code % 64) /\ code % 64 \in 0 .. 63
      /\ six = 64 * twelve + (six % 64) /\ six % 64 \in 0 .. 63
      /\ twelve = 64 * eighteen + (twelve % 64) /\ twelve % 64 \in 0 .. 63
  <2>1. six \in Nat /\ code = 64 * six + (code % 64) /\ code % 64 \in 0 .. 63
    BY SMT
  <2>2. six \div 64 = twelve /\ twelve \div 64 = eighteen
    BY SixBits, SMT
  <2> HIDE DEF six
  <2>3. twelve \in Nat /\ six = 64 * twelve + (six % 64) /\ six % 64 \in 0 .. 63
    BY <2>1, <2>2, SMT
  <2> HIDE DEF twelve
  <2>4. eighteen \in Nat /\ twelve = 64 * eighteen + (twelve % 64) /\ twelve % 64 \in 0 .. 63
    BY <2>2, <2>3, SMT
  <2>5. QED
    BY <2>1, <2>3, <2>4, SMT
<1> HIDE DEF six, twelve, eighteen
<1>2. /\ Continuation(code) \in Byte /\ Continuation(code) % 64 = code % 64
      /\ Continuation(six) \in Byte /\ Continuation(six) % 64 = six % 64
      /\ Continuation(twelve) \in Byte /\ Continuation(twelve) % 64 = twelve % 64
  <2>1. ASSUME NEW n \in Nat
        PROVE  Continuation(n) \in Byte /\ Continuation(n) % 64 = n % 64
    BY SMT DEF Continuation, Byte
  <2>2. QED
    BY <1>1, <2>1, SMT
<1>3. CASE code < 128
  <2>1. Utf8(code) = <<code>>
    BY <1>3, SMT DEF Utf8
  <2>2. code \in Byte
    BY <1>3, SMT DEF Byte
  <2>3. QED
    BY <1>3, <2>1, <2>2, SMT DEF CharacterOf
<1>4. CASE 128 <= code /\ code < 2048
  <2>1. Utf8(code) = <<192 + six, Continuation(code)>>
    BY <1>4, SMT DEF Utf8, six
  <2>2. six \in 0 .. 31
    BY <1>1, <1>4, SMT
  <2>3. 192 + six \in Byte /\ (192 + six) % 32 = six
    BY <2>2, LeadBits, SMT DEF Byte
  <2>4. CharacterOf(Utf8(code)) = six * 64 + (code % 64)
    BY <1>2, <2>1, <2>3, SMT DEF CharacterOf
  <2>5. QED
    BY <1>1, <1>2, <1>4, <2>1, <2>3, <2>4, SMT
<1>5. CASE 2048 <= code /\ code < 65536
  <2>1. Utf8(code) = <<224 + twelve, Continuation(six), Continuation(code)>>
    BY <1>5, SMT DEF Utf8, six, twelve
  <2>2. twelve \in 0 .. 15
    BY <1>1, <1>5, SMT
  <2>3. 224 + twelve \in Byte /\ (224 + twelve) % 16 = twelve
    BY <2>2, LeadBits, SMT DEF Byte
  <2>4. CharacterOf(Utf8(code)) = (twelve * 64 + (six % 64)) * 64 + (code % 64)
    BY <1>2, <2>1, <2>3, SMT DEF CharacterOf
  <2>5. QED
    BY <1>1, <1>2, <1>5, <2>1, <2>3, <2>4, SMT
<1>6. CASE 65536 <= code
  <2>1. Utf8(code) = <<240 + eighteen, Continuation(twelve), Continuation(six), Continuation(code)>>
    BY <1>6, SMT DEF Utf8, six, twelve, eighteen
  <2>2. eighteen \in 0 .. 4
    BY <1>1, SMT
  <2>3. 240 + eighteen \in Byte /\ (240 + eighteen) % 8 = eighteen
    BY <2>2, LeadBits, SMT DEF Byte
  <2>4. CharacterOf(Utf8(code)) =
          ((eighteen * 64 + (twelve % 64)) * 64 + (six % 64)) * 64 + (code % 64)
    BY <1>2, <2>1, <2>3, SMT DEF CharacterOf
  <2>5. QED
    BY <1>1, <1>2, <1>6, <2>1, <2>3, <2>4, SMT
<1>7. QED
  BY <1>3, <1>4, <1>5, <1>6, SMT

\* A hexadecimal digit has the value it was made from, and no digit more than 15.
LEMMA HexDigits ==
  /\ \A n \in 0 .. 15 : HexDigit(n) \in Byte /\ HexValue(HexDigit(n)) = n
  /\ \A b \in Int : HexValue(b) \in -1 .. 15
<1>1. ASSUME NEW n \in 0 .. 15
      PROVE  HexDigit(n) \in Byte /\ HexValue(HexDigit(n)) = n
  <2>1. CASE n < 10
    <3>1. HexDigit(n) = 48 + n
      BY <2>1, SMT DEF HexDigit, Zero
    <3>2. QED
      BY <2>1, <3>1, SMT DEF HexValue, Digits, Zero, Nine, Byte
  <2>2. CASE n >= 10
    <3>1. HexDigit(n) = 87 + n
      BY <2>2, SMT DEF HexDigit
    <3>2. QED
      BY <2>2, <3>1, SMT DEF HexValue, Digits, Zero, Nine, Byte
  <2>3. QED
    BY <2>1, <2>2, SMT
<1>2. ASSUME NEW b \in Int
      PROVE  HexValue(b) \in -1 .. 15
  BY SMT DEF HexValue, Digits, Zero, Nine
<1>3. QED
  BY <1>1, <1>2, SMT

\* Four digits are read as the number they were made from.
LEMMA FourDigits ==
  ASSUME NEW n \in Nat, n < 65536
  PROVE  ParseHex4(<<HexDigit(n \div 4096), HexDigit((n \div 256) % 16),
                     HexDigit((n \div 16) % 16), HexDigit(n % 16)>>) = n
<1> DEFINE one == n % 16
           two == (n \div 16) % 16
           three == (n \div 256) % 16
           four == n \div 4096
<1>1. one \in 0 .. 15 /\ two \in 0 .. 15 /\ three \in 0 .. 15 /\ four \in 0 .. 15
  BY SMT
<1>2. ((four * 16 + three) * 16 + two) * 16 + one = n
  <2>1. n = 16 * (n \div 16) + one
    BY SMT
  <2>2. n \div 16 = 16 * (n \div 256) + two
    BY SMT
  <2>3. n \div 256 = 16 * four + three
    BY SMT
  <2>4. QED
    BY <1>1, <2>1, <2>2, <2>3, SMT
<1> HIDE DEF one, two, three, four
<1>3. /\ HexValue(HexDigit(one)) = one /\ HexValue(HexDigit(two)) = two
      /\ HexValue(HexDigit(three)) = three /\ HexValue(HexDigit(four)) = four
  BY <1>1, HexDigits, SMT
<1>4. ParseHex4(<<HexDigit(four), HexDigit(three), HexDigit(two), HexDigit(one)>>)
        = ((four * 16 + three) * 16 + two) * 16 + one
  <2> DEFINE d == <<HexDigit(four), HexDigit(three), HexDigit(two), HexDigit(one)>>
  <2>1. /\ HexValue(d[1]) = four /\ HexValue(d[2]) = three
        /\ HexValue(d[3]) = two /\ HexValue(d[4]) = one
    BY <1>3, SMT
  <2> HIDE DEF d
  <2>2. ~\E i \in 1 .. 4 : HexValue(d[i]) = -1
    BY <1>1, <2>1, SMT
  <2>3. ParseHex4(d) = ((four * 16 + three) * 16 + two) * 16 + one
    BY <2>1, <2>2, SMT DEF ParseHex4
  <2>4. QED
    BY <2>3, SMT DEF d
<1>5. QED
  BY <1>2, <1>4, SMT DEF one, two, three, four

\* Four bytes of any kind are read as a number of two bytes.
LEMMA FourBytes ==
  ASSUME NEW d \in Seq(Int), Len(d) = 4
  PROVE  IsUnit(ParseHex4(d))
<1> USE DEF IsUnit
<1>1. d[1] \in Int /\ d[2] \in Int /\ d[3] \in Int /\ d[4] \in Int
  BY SMT
<1>2. /\ HexValue(d[1]) \in -1 .. 15 /\ HexValue(d[2]) \in -1 .. 15
      /\ HexValue(d[3]) \in -1 .. 15 /\ HexValue(d[4]) \in -1 .. 15
  BY <1>1, HexDigits, SMTT(30)
<1>3. CASE \E i \in 1 .. 4 : HexValue(d[i]) = -1
  BY <1>3, SMT DEF ParseHex4
<1>4. CASE ~\E i \in 1 .. 4 : HexValue(d[i]) = -1
  <2>1. ParseHex4(d)
          = ((HexValue(d[1]) * 16 + HexValue(d[2])) * 16 + HexValue(d[3])) * 16 + HexValue(d[4])
    BY <1>4, SMT DEF ParseHex4
  <2>2. /\ HexValue(d[1]) \in 0 .. 15 /\ HexValue(d[2]) \in 0 .. 15
        /\ HexValue(d[3]) \in 0 .. 15 /\ HexValue(d[4]) \in 0 .. 15
    BY <1>2, <1>4, SMT
  <2> DEFINE a == HexValue(d[1])
             b == HexValue(d[2])
             c == HexValue(d[3])
             e == HexValue(d[4])
  <2>3. ParseHex4(d) = ((a * 16 + b) * 16 + c) * 16 + e
    BY <2>1
  <2> HIDE DEF a, b, c, e
  <2>4. a \in 0 .. 15 /\ b \in 0 .. 15 /\ c \in 0 .. 15 /\ e \in 0 .. 15
    BY <2>2, SMT DEF a, b, c, e
  <2>5. QED
    BY <2>3, <2>4, SMT
<1>5. QED
  BY <1>3, <1>4, SMT

\* So are four bytes of a text.
LEMMA FourOfText ==
  ASSUME NEW t \in Seq(Byte), NEW m \in Nat \ {0}, NEW n \in Nat, n = m + 3, n <= Len(t)
  PROVE  /\ SubSeq(t, m, n) \in Seq(Int) /\ Len(SubSeq(t, m, n)) = 4
         /\ SubSeq(t, m, n)[1] = t[m] /\ SubSeq(t, m, n)[2] = t[m + 1]
         /\ SubSeq(t, m, n)[3] = t[m + 2] /\ SubSeq(t, m, n)[4] = t[m + 3]
         /\ IsUnit(ParseHex4(SubSeq(t, m, n)))
<1>1. \A i \in m .. n : t[i] \in Int
  <2>1. Byte \subseteq Int
    BY SMT DEF Byte
  <2>2. \A i \in 1 .. Len(t) : t[i] \in Byte
    BY SMT
  <2>3. \A i \in m .. n : i \in 1 .. Len(t)
    BY SMT
  <2>4. QED
    BY <2>1, <2>2, <2>3, Zenon
<1>2. /\ SubSeq(t, m, n) \in Seq(Int)
      /\ Len(SubSeq(t, m, n)) = IF m <= n THEN n - m + 1 ELSE 0
      /\ \A i \in 1 .. n - m + 1 : SubSeq(t, m, n)[i] = t[m + i - 1]
  BY <1>1, SubSeqProperties
<1>3. /\ SubSeq(t, m, n) \in Seq(Int) /\ Len(SubSeq(t, m, n)) = 4
      /\ SubSeq(t, m, n)[1] = t[m] /\ SubSeq(t, m, n)[2] = t[m + 1]
      /\ SubSeq(t, m, n)[3] = t[m + 2] /\ SubSeq(t, m, n)[4] = t[m + 3]
  BY <1>2, SMT
<1>4. IsUnit(ParseHex4(SubSeq(t, m, n)))
  <2> DEFINE d == SubSeq(t, m, n)
  <2>1. d \in Seq(Int) /\ Len(d) = 4
    BY <1>3
  <2> HIDE DEF d
  <2>2. IsUnit(ParseHex4(d))
    BY <2>1, FourBytes
  <2>3. QED
    BY <2>2 DEF d
<1>5. QED
  BY <1>3, <1>4, SMT

\* What the two codes of a text make of it.
LEMMA EscapeCases ==
  ASSUME NEW t, NEW first, NEW second,
         first = ParseHex4(SubSeq(t, 3, 6)), second = ParseHex4(SubSeq(t, 9, 12))
  PROVE  LET r == Utf16ToUtf8(t)
             pair == Len(t) >= 12 /\ t[7] = Backslash /\ t[8] = LowerU /\ IsLowSurrogate(second)
         IN  /\ Len(t) < 6 => r = [length |-> 0, bytes |-> <<>>]
             /\ ~(Len(t) < 6) /\ ~IsHighSurrogate(first) =>
                  r = IF IsLowSurrogate(first) THEN [length |-> 0, bytes |-> <<>>]
                      ELSE [length |-> 6, bytes |-> Utf8(first)]
             /\ ~(Len(t) < 6) /\ IsHighSurrogate(first) /\ ~pair /\ Len(t) \in Nat =>
                  r = [length |-> 0, bytes |-> <<>>]
             /\ ~(Len(t) < 6) /\ IsHighSurrogate(first) /\ pair /\ Len(t) \in Nat =>
                  r = [length |-> 12, bytes |-> Utf8(PairCodepoint(first, second))]
BY SMT DEF Utf16ToUtf8

\* A pair never stands for more than the last character.
LEMMA PairIsCharacter ==
  ASSUME NEW first, IsUnit(first), NEW second, IsUnit(second)
  PROVE  IsCharacter(PairCodepoint(first, second))
<1> USE DEF IsUnit, IsCharacter
<1>1. first % 1024 \in Nat /\ first % 1024 < 1024 /\ second % 1024 \in Nat /\ second % 1024 < 1024
  BY SMT
<1>2. QED
  BY <1>1, SMT DEF PairCodepoint

\* An escape never reads past the closing quote, and its character takes half the bytes
\* it was written in at most: this is why the block counted for a string, one byte less
\* for each escape in it, is large enough (cJSON.c:575-693, 696-757).
THEOREM EscapesShrink ==
  ASSUME NEW t \in Seq(Byte)
  PROVE  LET r == Utf16ToUtf8(t)
         IN  /\ r.length \in {0, 6, 12} /\ r.length <= Len(t)
             /\ r.bytes \in Seq(Byte)
             /\ 2 * Len(r.bytes) <= r.length
<1> DEFINE first == ParseHex4(SubSeq(t, 3, 6))
           second == ParseHex4(SubSeq(t, 9, 12))
           r == Utf16ToUtf8(t)
           Good(x) == /\ x.length \in {0, 6, 12} /\ x.length <= Len(t)
                      /\ x.bytes \in Seq(Byte)
                      /\ 2 * Len(x.bytes) <= x.length
<1>1. Len(t) \in Nat
  BY SMT
<1>2. Good([length |-> 0, bytes |-> <<>>])
  BY <1>1, SMT
<1>3. ASSUME Len(t) >= 6
      PROVE  IsUnit(first)
  <2>1. 3 \in Nat \ {0} /\ 6 \in Nat /\ 6 = 3 + 3 /\ 6 <= Len(t)
    BY <1>1, <1>3, SMT
  <2>2. QED
    BY <2>1, FourOfText, SMT
<1>4. ASSUME Len(t) >= 12
      PROVE  IsUnit(second)
  <2>1. 9 \in Nat \ {0} /\ 12 \in Nat /\ 12 = 9 + 3 /\ 12 <= Len(t)
    BY <1>1, <1>4, SMT
  <2>2. QED
    BY <2>1, FourOfText, SMT
<1>5. ASSUME Len(t) >= 6
      PROVE  Good([length |-> 6, bytes |-> Utf8(first)])
  <2>1. IsUnit(first)
    BY <1>3, <1>5
  <2> HIDE DEF first
  <2>2. IsCharacter(first)
    BY <2>1, SMT DEF IsUnit, IsCharacter
  <2>3. Utf8(first) \in Seq(Byte) /\ Len(Utf8(first)) \in Nat /\ Len(Utf8(first)) <= 3
    BY <2>1, <2>2, Utf8Encodes
  <2>4. QED
    BY <1>1, <1>5, <2>3, SMT
<1>6. ASSUME Len(t) >= 12
      PROVE  Good([length |-> 12, bytes |-> Utf8(PairCodepoint(first, second))])
  <2> DEFINE code == PairCodepoint(first, second)
  <2>1. IsUnit(first) /\ IsUnit(second)
    BY <1>1, <1>3, <1>4, <1>6, SMT
  <2> HIDE DEF first, second
  <2>2. IsCharacter(code)
    BY <2>1, PairIsCharacter
  <2> HIDE DEF code
  <2>3. Utf8(code) \in Seq(Byte) /\ Len(Utf8(code)) \in Nat /\ Len(Utf8(code)) <= 4
    BY <2>2, Utf8Encodes
  <2>4. QED
    BY <1>1, <1>6, <2>3, SMT DEF code
<1>7. Good(r)
  <2>1. /\ Len(t) < 6 => r = [length |-> 0, bytes |-> <<>>]
        /\ Len(t) >= 6 =>
             \/ r = [length |-> 0, bytes |-> <<>>]
             \/ r = [length |-> 6, bytes |-> Utf8(first)]
             \/ Len(t) >= 12 /\ r = [length |-> 12, bytes |-> Utf8(PairCodepoint(first, second))]
    BY <1>1, EscapeCases, SMT
  <2> HIDE DEF r, first, second, Good
  <2>2. QED
    BY <1>1, <1>2, <1>5, <1>6, <2>1, SMT
<1>8. QED
  BY <1>7, SMT

\* The escape of a unit has six bytes, the digits behind the first two.
LEMMA UnitDigits ==
  ASSUME NEW n, IsUnit(n)
  PROVE  LET e == EscapeOfUnit(n)
         IN  /\ e[1] = Backslash /\ e[2] = LowerU
             /\ e \in Seq(Int) /\ Len(e) = 6
             /\ ParseHex4(<<e[3], e[4], e[5], e[6]>>) = n
<1>1. n \in Nat /\ n < 65536
  BY SMT DEF IsUnit
<1> DEFINE four == HexDigit(n \div 4096)
           three == HexDigit((n \div 256) % 16)
           two == HexDigit((n \div 16) % 16)
           one == HexDigit(n % 16)
<1>2. /\ n % 16 \in 0 .. 15 /\ (n \div 16) % 16 \in 0 .. 15
      /\ (n \div 256) % 16 \in 0 .. 15 /\ n \div 4096 \in 0 .. 15
  BY <1>1, SMT
<1>3. four \in Int /\ three \in Int /\ two \in Int /\ one \in Int
  BY <1>2, HexDigits, SMTT(30) DEF Byte
<1>4. ParseHex4(<<four, three, two, one>>) = n
  BY <1>1, FourDigits, SMT
<1>5. EscapeOfUnit(n) = <<Backslash, LowerU, four, three, two, one>>
  BY DEF EscapeOfUnit
<1> HIDE DEF four, three, two, one
<1>6. QED
  BY <1>3, <1>4, <1>5, SMT DEF Backslash, LowerU

\* A text that has the escape of a unit at a place is read as the unit there.
LEMMA UnitIsRead ==
  ASSUME NEW n, IsUnit(n), NEW t \in Seq(Byte), NEW m \in Nat, m + 6 <= Len(t),
         \A i \in 1 .. 6 : t[m + i] = EscapeOfUnit(n)[i]
  PROVE  /\ t[m + 1] = Backslash /\ t[m + 2] = LowerU
         /\ ParseHex4(SubSeq(t, m + 3, m + 6)) = n
<1> DEFINE e == EscapeOfUnit(n)
           d == SubSeq(t, m + 3, m + 6)
<1>1. /\ e[1] = Backslash /\ e[2] = LowerU
      /\ ParseHex4(<<e[3], e[4], e[5], e[6]>>) = n
  BY UnitDigits
<1>2. /\ t[m + 1] = e[1] /\ t[m + 2] = e[2] /\ t[m + 3] = e[3]
      /\ t[m + 4] = e[4] /\ t[m + 5] = e[5] /\ t[m + 6] = e[6]
  BY SMT
<1>3. /\ m + 3 \in Nat \ {0} /\ m + 6 \in Nat /\ m + 6 = (m + 3) + 3 /\ m + 6 <= Len(t)
      /\ (m + 3) + 1 = m + 4 /\ (m + 3) + 2 = m + 5
  BY SMTT(30)
<1>4. /\ d \in Seq(Int) /\ Len(d) = 4
      /\ d[1] = t[m + 3] /\ d[2] = t[m + 4] /\ d[3] = t[m + 5] /\ d[4] = t[m + 6]
  <2>1. /\ d \in Seq(Int) /\ Len(d) = 4
        /\ d[1] = t[m + 3] /\ d[2] = t[(m + 3) + 1]
        /\ d[3] = t[(m + 3) + 2] /\ d[4] = t[(m + 3) + 3]
    BY <1>3, FourOfText
  <2>2. QED
    BY <1>3, <2>1
<1> HIDE DEF d, e
<1>5. d = <<e[3], e[4], e[5], e[6]>>
  BY <1>2, <1>4, SMT
<1>6. QED
  BY <1>1, <1>2, <1>5 DEF d, e

\* A text begins with another.
Begins(t, s) == Len(s) <= Len(t) /\ \A i \in 1 .. Len(s) : t[i] = s[i]

\* The halves of the pair of a character, and the character they are put together to.
LEMMA PairOfCharacter ==
  ASSUME NEW code, IsScalar(code), ~(code < 65536)
  PROVE  LET high == 55296 + (code - 65536) \div 1024
             low  == 56320 + (code % 1024)
         IN  /\ IsUnit(high) /\ IsHighSurrogate(high)
             /\ IsUnit(low) /\ IsLowSurrogate(low)
             /\ PairCodepoint(high, low) = code
<1> DEFINE n == code - 65536
           over == n \div 1024
           under == code % 1024
<1>1. code \in Nat /\ 65536 <= code /\ code <= 1114111
  BY SMT DEF IsScalar, IsCharacter
<1>2. over \in Nat /\ over < 1024 /\ under \in Nat /\ under < 1024
  BY <1>1, SMT
<1>3. code = 65536 + over * 1024 + under
  BY <1>1, SMT
<1> HIDE DEF n, over, under
<1>4. (55296 + over) % 1024 = over /\ (56320 + under) % 1024 = under
  BY <1>2, SMT
<1>5. PairCodepoint(55296 + over, 56320 + under) = code
  BY <1>3, <1>4, SMT DEF PairCodepoint
<1>6. /\ IsUnit(55296 + over) /\ IsHighSurrogate(55296 + over)
      /\ IsUnit(56320 + under) /\ IsLowSurrogate(56320 + under)
  BY <1>2, SMT DEF IsUnit, IsHighSurrogate, IsLowSurrogate
<1>7. QED
  BY <1>5, <1>6, SMT DEF n, over, under

\* The two halves of a pair, one behind the other.
LEMMA SixAndSix ==
  ASSUME NEW h \in Seq(Int), NEW l \in Seq(Int), Len(h) = 6, Len(l) = 6
  PROVE  Len(h \o l) = 12 /\ \A i \in 1 .. 6 : (h \o l)[i] = h[i] /\ (h \o l)[6 + i] = l[i]
<1>1. /\ Len(h \o l) = Len(h) + Len(l)
      /\ \A i \in 1 .. Len(h) + Len(l) : (h \o l)[i] = IF i <= Len(h) THEN h[i] ELSE l[i - Len(h)]
  BY ConcatProperties
<1>2. Len(h \o l) = 12
  BY <1>1, SMT
<1>3. ASSUME NEW i \in 1 .. 6
      PROVE  (h \o l)[i] = h[i] /\ (h \o l)[6 + i] = l[i]
  <2>1. /\ i \in 1 .. Len(h) + Len(l) /\ i <= Len(h)
        /\ 6 + i \in 1 .. Len(h) + Len(l) /\ ~(6 + i <= Len(h)) /\ (6 + i) - Len(h) = i
    BY SMT
  <2>2. (h \o l)[i] = h[i]
    BY <1>1, <2>1
  <2>3. (h \o l)[6 + i] = l[(6 + i) - Len(h)]
    BY <1>1, <2>1
  <2>4. QED
    BY <2>1, <2>2, <2>3
<1>4. QED
  BY <1>2, <1>3

\* Every character's escape, a pair of them outside the basic plane, is read whole and
\* becomes the character's UTF-8, whatever follows it (cJSON.c:539-693).
THEOREM EscapeMeansCharacter ==
  ASSUME NEW code, IsScalar(code), NEW t \in Seq(Byte), Begins(t, EscapeOf(code))
  PROVE  LET r == Utf16ToUtf8(t)
         IN  /\ r.length = Len(EscapeOf(code))
             /\ r.bytes = Utf8(code) /\ CharacterOf(r.bytes) = code
<1> DEFINE first == ParseHex4(SubSeq(t, 3, 6))
           second == ParseHex4(SubSeq(t, 9, 12))
           r == Utf16ToUtf8(t)
<1>1. Len(t) \in Nat
  BY SMT
<1>2. CharacterOf(Utf8(code)) = code
  BY Utf8Encodes DEF IsScalar
<1>3. CASE code < 65536
  <2>1. IsUnit(code) /\ ~IsHighSurrogate(code) /\ ~IsLowSurrogate(code)
    BY <1>3, SMT DEF IsScalar, IsCharacter, IsUnit
  <2>2. EscapeOf(code) = EscapeOfUnit(code)
    BY <1>3, SMT DEF EscapeOf
  <2>3. Len(EscapeOf(code)) = 6
    BY <2>1, <2>2, UnitDigits
  <2>4. Len(t) >= 6 /\ \A i \in 1 .. 6 : t[i] = EscapeOfUnit(code)[i]
    BY <2>2, <2>3, SMT DEF Begins
  <2>5. first = code
    <3>1. /\ 0 \in Nat /\ 0 + 3 = 3 /\ 0 + 6 = 6 /\ 0 + 6 <= Len(t)
          /\ \A i \in 1 .. 6 : t[0 + i] = EscapeOfUnit(code)[i]
      BY <1>1, <2>4, SMT
    <3>2. ParseHex4(SubSeq(t, 0 + 3, 0 + 6)) = code
      BY <2>1, <3>1, UnitIsRead
    <3>3. QED
      BY <3>1, <3>2
  <2>6. r = [length |-> 6, bytes |-> Utf8(code)]
    BY <1>1, <2>1, <2>4, <2>5, EscapeCases, SMT
  <2>7. QED
    BY <1>2, <2>3, <2>6, SMT
<1>4. CASE ~(code < 65536)
  <2> DEFINE high == 55296 + (code - 65536) \div 1024
             low == 56320 + (code % 1024)
  <2>1. /\ IsUnit(high) /\ IsHighSurrogate(high) /\ IsUnit(low) /\ IsLowSurrogate(low)
        /\ PairCodepoint(high, low) = code
    BY <1>4, PairOfCharacter, SMT
  <2>2. EscapeOf(code) = EscapeOfUnit(high) \o EscapeOfUnit(low)
    BY <1>4, SMT DEF EscapeOf
  <2> HIDE DEF high, low
  <2>3. /\ Len(EscapeOf(code)) = 12
        /\ \A i \in 1 .. 6 : EscapeOf(code)[i] = EscapeOfUnit(high)[i]
        /\ \A i \in 1 .. 6 : EscapeOf(code)[6 + i] = EscapeOfUnit(low)[i]
    <3> DEFINE h == EscapeOfUnit(high)
               l == EscapeOfUnit(low)
    <3>1. h \in Seq(Int) /\ Len(h) = 6 /\ l \in Seq(Int) /\ Len(l) = 6
      BY <2>1, UnitDigits
    <3> HIDE DEF h, l
    <3>2. Len(h \o l) = 12 /\ \A i \in 1 .. 6 : (h \o l)[i] = h[i] /\ (h \o l)[6 + i] = l[i]
      BY <3>1, SixAndSix
    <3>3. QED
      BY <2>2, <3>2 DEF h, l
  <2>4. /\ Len(t) >= 12 /\ \A i \in 1 .. 6 : t[i] = EscapeOfUnit(high)[i]
        /\ \A i \in 1 .. 6 : t[6 + i] = EscapeOfUnit(low)[i]
    BY <1>1, <2>3, SMTT(30) DEF Begins
  <2>5. first = high
    <3>1. /\ 0 \in Nat /\ 0 + 3 = 3 /\ 0 + 6 = 6 /\ 0 + 6 <= Len(t)
          /\ \A i \in 1 .. 6 : t[0 + i] = EscapeOfUnit(high)[i]
      BY <1>1, <2>4, SMT
    <3>2. ParseHex4(SubSeq(t, 0 + 3, 0 + 6)) = high
      BY <2>1, <3>1, UnitIsRead
    <3>3. QED
      BY <3>1, <3>2
  <2>6. t[7] = Backslash /\ t[8] = LowerU /\ second = low
    <3>1. /\ 6 \in Nat /\ 6 + 1 = 7 /\ 6 + 2 = 8 /\ 6 + 3 = 9 /\ 6 + 6 = 12 /\ 6 + 6 <= Len(t)
          /\ \A i \in 1 .. 6 : t[6 + i] = EscapeOfUnit(low)[i]
      BY <1>1, <2>4, SMT
    <3>2. /\ t[6 + 1] = Backslash /\ t[6 + 2] = LowerU
          /\ ParseHex4(SubSeq(t, 6 + 3, 6 + 6)) = low
      BY <2>1, <3>1, UnitIsRead
    <3>3. QED
      BY <3>1, <3>2
  <2>7. r = [length |-> 12, bytes |-> Utf8(code)]
    BY <1>1, <2>1, <2>4, <2>5, <2>6, EscapeCases, SMT
  <2>8. QED
    BY <1>2, <2>3, <2>7, SMT
<1>5. QED
  BY <1>3, <1>4

-----------------------------------------------------------------------------
(* Strings in print *)

\* Every set of numbers has a least one.
LEMMA LeastNumber ==
  ASSUME NEW S \in SUBSET Nat, S # {}
  PROVE  \E m \in S : \A i \in S : m <= i
<1> DEFINE R == OpToRel(<, Nat)
<1>1. IsWellFoundedOn(R, Nat)
  BY NatLessThanWellFounded
<1>2. \A i, j \in Nat : <<i, j>> \in R <=> i < j
  BY DEF OpToRel
<1> HIDE DEF R
<1>3. PICK m \in S : \A i \in S : ~(<<i, m>> \in R)
  BY <1>1, WFMin
<1>4. \A i \in S : ~(i < m)
  BY <1>2, <1>3
<1>5. QED
  BY <1>4

\* What holds of 0 and of the successor of whatever it holds of, holds of all numbers
\* up to a bound.
LEMMA CountingUp ==
  ASSUME NEW N \in Nat, NEW S, 0 \in S, \A n \in 0 .. N : n < N /\ n \in S => n + 1 \in S
  PROVE  0 .. N \subseteq S
<1> SUFFICES ASSUME (0 .. N) \ S # {}
             PROVE  FALSE
  OBVIOUS
<1>1. (0 .. N) \ S \in SUBSET Nat
  OBVIOUS
<1>2. PICK m \in (0 .. N) \ S : \A i \in (0 .. N) \ S : m <= i
  BY <1>1, LeastNumber
<1>3. m \in 0 .. N /\ m # 0 /\ m \notin S
  BY <1>2
<1>4. m - 1 \in 0 .. N /\ m - 1 < N /\ (m - 1) + 1 = m /\ ~(m <= m - 1)
  BY <1>3
<1>5. m - 1 \in S
  BY <1>2, <1>4
<1>6. QED
  BY <1>3, <1>4, <1>5

\* The steps of a loop over N bytes, and the values it goes through.
Steps(N, V, step) == step \in [1 .. N -> [V -> V]]
Course(f, N, V, base, step) ==
  /\ f \in [0 .. N -> V]
  /\ f[0] = base /\ \A n \in 1 .. N : f[n] = step[n][f[n - 1]]

\* Every loop has a course.
LEMMA LoopRuns ==
  ASSUME NEW N \in Nat, NEW V, NEW base \in V, NEW step, Steps(N, V, step)
  PROVE  \E f : Course(f, N, V, base, step)
<1> USE DEF Steps, Course
<1> DEFINE Runs(k, f) == f[0] = base /\ \A n \in 1 .. k : f[n] = step[n][f[n - 1]]
           S == {k \in 0 .. N : \E f \in [0 .. k -> V] : Runs(k, f)}
<1>1. 0 \in S
  <2> DEFINE f == [n \in 0 .. 0 |-> base]
  <2>1. f \in [0 .. 0 -> V] /\ Runs(0, f)
    OBVIOUS
  <2>2. 0 \in 0 .. N
    OBVIOUS
  <2> HIDE DEF f, Runs
  <2>3. QED
    BY <2>1, <2>2
<1>2. ASSUME NEW k \in 0 .. N, k < N, k \in S
      PROVE  k + 1 \in S
  <2>1. PICK f \in [0 .. k -> V] : Runs(k, f)
    BY <1>2
  <2> DEFINE g == [n \in 0 .. k + 1 |-> IF n <= k THEN f[n] ELSE step[k + 1][f[k]]]
  <2>2. k + 1 \in 1 .. N /\ f[k] \in V /\ step[k + 1][f[k]] \in V
    BY <1>2
  <2>3. g \in [0 .. k + 1 -> V]
    BY <2>2
  <2>4. \A n \in 0 .. k : g[n] = f[n]
    OBVIOUS
  <2>5. g[k + 1] = step[k + 1][f[k]]
    OBVIOUS
  <2> HIDE DEF g
  <2>6. Runs(k + 1, g)
    <3>1. g[0] = base
      BY <2>1, <2>4
    <3>2. ASSUME NEW n \in 1 .. k + 1
          PROVE  g[n] = step[n][g[n - 1]]
      <4>1. CASE n = k + 1
        <5>1. n - 1 = k /\ k \in 0 .. k
          BY <4>1
        <5>2. QED
          BY <2>4, <2>5, <4>1, <5>1
      <4>2. CASE n # k + 1
        <5>1. n \in 1 .. k /\ n \in 0 .. k /\ n - 1 \in 0 .. k
          BY <4>2
        <5>2. QED
          BY <2>1, <2>4, <5>1
      <4>3. QED
        BY <4>1, <4>2
    <3>3. QED
      BY <3>1, <3>2
  <2>7. QED
    BY <2>2, <2>3, <2>6
<1> HIDE DEF S
<1>3. 0 .. N \subseteq S
  BY <1>1, <1>2, CountingUp
<1>4. N \in S
  BY <1>3
<1>5. QED
  BY <1>4 DEF S

\* Each byte becomes as much longer as was counted for it, and never a NUL.
LEMMA EscapedByte ==
  ASSUME NEW c \in CharByte
  PROVE  /\ Escaped(c) \in Seq(CharByte)
         /\ EscapeLength(c) \in Nat /\ Len(Escaped(c)) = 1 + EscapeLength(c)
<1>1. c \in Nat /\ 0 < c /\ c < 256 /\ CharByte = 1 .. 255
  BY SMT DEF CharByte, Byte, NUL
<1>2. DOMAIN ShortEscape = {8, 12, 10, 13, 9} /\ \A b \in {8, 12, 10, 13, 9} : ShortEscape[b] \in CharByte
  BY <1>1, SMT DEF ShortEscape
<1>3. CASE c \in {Quote, Backslash}
  <2>1. Escaped(c) = <<Backslash, c>> /\ EscapeLength(c) = 1
    BY <1>2, <1>3, SMT DEF Escaped, EscapeLength, Quote, Backslash
  <2>2. QED
    BY <1>1, <2>1, SMT DEF Backslash
<1>4. CASE c \in DOMAIN ShortEscape
  <2>1. Escaped(c) = <<Backslash, ShortEscape[c]>> /\ EscapeLength(c) = 1
    BY <1>2, <1>4, SMT DEF Escaped, EscapeLength, Quote, Backslash
  <2>2. ShortEscape[c] \in CharByte
    BY <1>2, <1>4
  <2>3. QED
    BY <1>1, <2>1, <2>2, SMT DEF Backslash
<1>5. CASE c < 32 /\ c \notin DOMAIN ShortEscape
  <2>1. /\ Escaped(c) = <<Backslash, LowerU, Zero, Zero, HexDigit(c \div 16), HexDigit(c % 16)>>
        /\ EscapeLength(c) = 5
    BY <1>2, <1>5, SMT DEF Escaped, EscapeLength, Quote, Backslash
  <2>2. HexDigit(c \div 16) \in CharByte /\ HexDigit(c % 16) \in CharByte
    BY <1>1, <1>5, SMT DEF HexDigit, Zero
  <2>3. QED
    BY <1>1, <2>1, <2>2, SMT DEF Backslash, LowerU, Zero
<1>6. CASE ~(c \in {Quote, Backslash}) /\ ~(c \in DOMAIN ShortEscape) /\ ~(c < 32)
  <2>1. Escaped(c) = <<c>> /\ EscapeLength(c) = 0
    BY <1>2, <1>6, SMT DEF Escaped, EscapeLength, Quote, Backslash
  <2>2. QED
    BY <2>1, SMT
<1>7. QED
  BY <1>3, <1>4, <1>5, <1>6

\* The loop that counts, byte by byte.
LEMMA CountingLoop ==
  ASSUME NEW chars \in Seq(CharByte)
  PROVE  \E f : /\ f = [n \in 0 .. Len(chars) |->
                          IF n = 0 THEN 0 ELSE f[n - 1] + 1 + EscapeLength(chars[n])]
                /\ OutputLength(chars) = f[Len(chars)]
<1> DEFINE N == Len(chars)
           V == Nat
           Counts(f) == f = [n \in 0 .. N |->
                               IF n = 0 THEN 0 ELSE f[n - 1] + 1 + EscapeLength(chars[n])]
           step == [n \in 1 .. N |-> [m \in V |-> m + 1 + EscapeLength(chars[n])]]
<1>1. N \in Nat /\ \A n \in 1 .. N : chars[n] \in CharByte
  OBVIOUS
<1>2. \A n \in 1 .. N : EscapeLength(chars[n]) \in Nat
  BY <1>1, EscapedByte
<1>3. 0 \in V /\ \A m \in V, n \in 1 .. N : m + 1 + EscapeLength(chars[n]) \in V
  BY <1>2
<1> HIDE DEF V
<1>4. Steps(N, V, step)
  BY <1>3 DEF Steps
<1>5. PICK f : Course(f, N, V, 0, step)
  <2> DEFINE base == 0
  <2>1. base \in V
    BY <1>3
  <2> HIDE DEF step, N, base
  <2>2. \E f : Course(f, N, V, base, step)
    BY <1>1, <1>4, <2>1, LoopRuns
  <2>3. QED
    BY <2>2 DEF base
<1>6. Counts(f)
  <2>1. ASSUME NEW n \in 0 .. N
        PROVE  f[n] = IF n = 0 THEN 0 ELSE f[n - 1] + 1 + EscapeLength(chars[n])
    <3>1. CASE n = 0
      BY <1>5, <3>1 DEF Course
    <3>2. CASE n # 0
      <4>1. n \in 1 .. N /\ n - 1 \in 0 .. N
        BY <1>1, <3>2
      <4>2. f[n - 1] \in V /\ f[n] = step[n][f[n - 1]]
        BY <1>5, <4>1 DEF Course
      <4>3. f[n] = f[n - 1] + 1 + EscapeLength(chars[n])
        BY <4>1, <4>2
      <4>4. QED
        BY <3>2, <4>3
    <3>3. QED
      BY <3>1, <3>2
  <2>2. QED
    BY <1>5, <2>1 DEF Course
<1>7. OutputLength(chars) = (CHOOSE g : Counts(g))[N]
  BY DEF OutputLength
<1>8. Counts(CHOOSE g : Counts(g))
  <2> HIDE DEF Counts
  <2>1. QED
    BY <1>6
<1>9. QED
  BY <1>7, <1>8

\* The loop that writes, byte by byte.
LEMMA WritingLoop ==
  ASSUME NEW chars \in Seq(CharByte)
  PROVE  \E f : /\ f = [n \in 0 .. Len(chars) |->
                          IF n = 0 THEN <<>> ELSE f[n - 1] \o Escaped(chars[n])]
                /\ Output(chars) = f[Len(chars)]
<1> DEFINE N == Len(chars)
           V == Seq(CharByte)
           Writes(f) == f = [n \in 0 .. N |->
                               IF n = 0 THEN <<>> ELSE f[n - 1] \o Escaped(chars[n])]
           step == [n \in 1 .. N |-> [s \in V |-> s \o Escaped(chars[n])]]
<1>1. N \in Nat /\ \A n \in 1 .. N : chars[n] \in CharByte
  OBVIOUS
<1>2. \A n \in 1 .. N : Escaped(chars[n]) \in V
  BY <1>1, EscapedByte
<1>3. \A s \in V, n \in 1 .. N : s \o Escaped(chars[n]) \in V
  BY <1>2, ConcatProperties
<1> HIDE DEF V
<1>4. Steps(N, V, step)
  BY <1>3 DEF Steps
<1>5. PICK f : Course(f, N, V, <<>>, step)
  <2> DEFINE base == <<>>
  <2>1. base \in V
    BY DEF V
  <2> HIDE DEF step, N, base
  <2>2. \E f : Course(f, N, V, base, step)
    BY <1>1, <1>4, <2>1, LoopRuns
  <2>3. QED
    BY <2>2 DEF base
<1>6. Writes(f)
  <2>1. ASSUME NEW n \in 0 .. N
        PROVE  f[n] = IF n = 0 THEN <<>> ELSE f[n - 1] \o Escaped(chars[n])
    <3>1. CASE n = 0
      BY <1>5, <3>1 DEF Course
    <3>2. CASE n # 0
      <4>1. n \in 1 .. N /\ n - 1 \in 0 .. N
        BY <1>1, <3>2
      <4>2. f[n - 1] \in V /\ f[n] = step[n][f[n - 1]]
        BY <1>5, <4>1 DEF Course
      <4>3. f[n] = f[n - 1] \o Escaped(chars[n])
        BY <4>1, <4>2
      <4>4. QED
        BY <3>2, <4>3
    <3>3. QED
      BY <3>1, <3>2
  <2>2. QED
    BY <1>5, <2>1 DEF Course
<1>7. Output(chars) = (CHOOSE g : Writes(g))[N]
  BY DEF Output
<1>8. Writes(CHOOSE g : Writes(g))
  <2> HIDE DEF Writes
  <2>1. QED
    BY <1>6
<1>9. QED
  BY <1>7, <1>8

\* The length that is counted before a string is written is the length that is written,
\* whatever has to be escaped in it, and no NUL is in between (cJSON.c:853-940).
THEOREM CountedIsWritten ==
  ASSUME NEW chars \in Seq(CharByte)
  PROVE  /\ Output(chars) \in Seq(CharByte)
         /\ OutputLength(chars) \in Nat
         /\ Len(Output(chars)) = OutputLength(chars)
<1> DEFINE N == Len(chars)
<1>1. N \in Nat /\ \A n \in 1 .. N : chars[n] \in CharByte
  OBVIOUS
<1>2. PICK f : /\ f = [n \in 0 .. N |-> IF n = 0 THEN 0 ELSE f[n - 1] + 1 + EscapeLength(chars[n])]
               /\ OutputLength(chars) = f[N]
  BY CountingLoop
<1>3. PICK g : /\ g = [n \in 0 .. N |-> IF n = 0 THEN <<>> ELSE g[n - 1] \o Escaped(chars[n])]
               /\ Output(chars) = g[N]
  BY WritingLoop
<1> DEFINE Agree(n) == g[n] \in Seq(CharByte) /\ f[n] \in Nat /\ Len(g[n]) = f[n]
           S == {n \in 0 .. N : Agree(n)}
<1> HIDE DEF N
<1>4. 0 \in S
  <2>1. 0 \in 0 .. N /\ f[0] = 0 /\ g[0] = <<>>
    BY <1>1, <1>2, <1>3
  <2>2. <<>> \in Seq(CharByte) /\ Len(<<>>) = 0
    OBVIOUS
  <2>3. Agree(0)
    BY <2>1, <2>2
  <2> HIDE DEF Agree
  <2>4. QED
    BY <2>1, <2>3
<1>5. ASSUME NEW n \in 0 .. N, n < N, n \in S
      PROVE  n + 1 \in S
  <2>1. n + 1 \in 0 .. N /\ n + 1 \in 1 .. N /\ n + 1 # 0 /\ (n + 1) - 1 = n
    BY <1>1, <1>5
  <2>2. f[n + 1] = f[n] + 1 + EscapeLength(chars[n + 1]) /\ g[n + 1] = g[n] \o Escaped(chars[n + 1])
    BY <1>2, <1>3, <2>1
  <2> DEFINE e == Escaped(chars[n + 1])
  <2>3. e \in Seq(CharByte) /\ EscapeLength(chars[n + 1]) \in Nat /\ Len(e) = 1 + EscapeLength(chars[n + 1])
    BY <1>1, <2>1, EscapedByte
  <2> HIDE DEF e
  <2>4. g[n] \in Seq(CharByte) /\ f[n] \in Nat /\ Len(g[n]) = f[n]
    BY <1>5
  <2>5. g[n] \o e \in Seq(CharByte) /\ Len(g[n] \o e) = Len(g[n]) + Len(e)
    BY <2>3, <2>4, ConcatProperties
  <2>6. g[n + 1] = g[n] \o e /\ f[n + 1] = f[n] + (1 + EscapeLength(chars[n + 1]))
    <3>1. g[n + 1] = g[n] \o e
      BY <2>2 DEF e
    <3> DEFINE a == f[n]
               b == EscapeLength(chars[n + 1])
    <3>2. f[n + 1] = a + 1 + b /\ a \in Nat /\ b \in Nat
      BY <2>2, <2>3, <2>4
    <3> HIDE DEF a, b
    <3>3. f[n + 1] = a + (1 + b)
      BY <3>2
    <3>4. QED
      BY <3>1, <3>3 DEF a, b
  <2>7. f[n + 1] \in Nat /\ Len(g[n + 1]) = f[n + 1]
    <3>1. Len(g[n + 1]) = Len(g[n]) + Len(e)
      BY <2>5, <2>6
    <3>2. Len(g[n + 1]) = f[n] + (1 + EscapeLength(chars[n + 1]))
      BY <2>3, <2>4, <3>1
    <3>3. f[n + 1] \in Nat
      BY <2>3, <2>4, <2>6
    <3>4. QED
      BY <2>6, <3>2, <3>3
  <2>8. Agree(n + 1)
    BY <2>5, <2>6, <2>7
  <2> HIDE DEF Agree
  <2>9. QED
    BY <2>1, <2>8
<1>6. 0 .. N \subseteq S
  <2> HIDE DEF S
  <2>1. QED
    BY <1>1, <1>4, <1>5, CountingUp
<1>7. N \in S
  BY <1>1, <1>6
<1>8. QED
  BY <1>2, <1>3, <1>7 DEF N

\* Bytes are numbers.
LEMMA CharsAreInts ==
  ASSUME NEW s \in Seq(CharByte)
  PROVE  s \in Seq(Int)
<1>1. CharByte \subseteq Int
  BY SMT DEF CharByte, Byte, NUL
<1>2. Len(s) \in Nat /\ s = [i \in 1 .. Len(s) |-> s[i]] /\ \A i \in 1 .. Len(s) : s[i] \in CharByte
  OBVIOUS
<1>3. s \in [1 .. Len(s) -> Int]
  BY <1>1, <1>2
<1>4. QED
  BY <1>2, <1>3, FunctionIsSeq

\* A string in print is its quotes with its characters between them, and a NUL.
IsPrinted(chars, at, bytes) ==
  /\ bytes[at + 1] = Quote
  /\ \A i \in 1 .. OutputLength(chars) : bytes[at + 1 + i] = Output(chars)[i]
  /\ bytes[at + OutputLength(chars) + 2] = Quote
  /\ bytes[at + OutputLength(chars) + 3] = NUL

\* A string is printed whole, in whatever block and however much of it is escaped: the
\* room was counted right, the closing quote goes directly behind the last character,
\* nothing in front is touched and nothing outside the block (cJSON.c:825-942).
THEOREM StringIsPrinted ==
  ASSUME NEW p, IsBuffer(p), InBlock(p), NEW chars \in Seq(CharByte)
  PROVE  LET w == PrintString(chars, p)
         IN  /\ IsBuffer(w) /\ w.overflow = p.overflow /\ w.offset = p.offset
             /\ w.ok => /\ p.offset + OutputLength(chars) + 3 <= w.length
                        /\ \A i \in 1 .. p.offset : w.bytes[i] = p.bytes[i]
                        /\ IsPrinted(chars, p.offset, w.bytes)
<1> DEFINE n == OutputLength(chars)
           text == <<Quote>> \o Output(chars)
           end == <<Quote, NUL>>
           v == Written(Ensured(p, n + 3), 0, text)
           w == Written(v, n + 1, end)
           o == p.offset
<1>1. n \in Nat /\ Output(chars) \in Seq(CharByte) /\ Len(Output(chars)) = n
  BY CountedIsWritten
<1>2. o \in Nat
  BY DEF IsBuffer, PrintbufferType
<1>3. /\ text \in Seq(Int) /\ Len(text) = n + 1
      /\ text[1] = Quote /\ \A i \in 1 .. n : text[1 + i] = Output(chars)[i]
  <2> DEFINE quote == <<Quote>>
  <2>1. Output(chars) \in Seq(Int)
    BY <1>1, CharsAreInts
  <2>2. quote \in Seq(Int) /\ Len(quote) = 1 /\ quote[1] = Quote
    BY DEF Quote
  <2> HIDE DEF quote
  <2>3. /\ quote \o Output(chars) \in Seq(Int)
        /\ Len(quote \o Output(chars)) = Len(quote) + Len(Output(chars))
        /\ \A i \in 1 .. Len(quote) + Len(Output(chars)) :
             (quote \o Output(chars))[i] =
               IF i <= Len(quote) THEN quote[i] ELSE Output(chars)[i - Len(quote)]
    BY <2>1, <2>2, ConcatProperties
  <2>4. text = quote \o Output(chars)
    BY DEF quote
  <2> HIDE DEF text, n
  <2>5. Len(text) = n + 1 /\ text \in Seq(Int)
    BY <1>1, <2>2, <2>3, <2>4
  <2>6. text[1] = Quote
    <3>1. 1 \in 1 .. Len(quote) + Len(Output(chars)) /\ 1 <= Len(quote)
      BY <1>1, <2>2
    <3>2. QED
      BY <2>2, <2>3, <2>4, <3>1
  <2>7. ASSUME NEW i \in 1 .. n
        PROVE  text[1 + i] = Output(chars)[i]
    <3>1. /\ 1 + i \in 1 .. Len(quote) + Len(Output(chars)) /\ ~(1 + i <= Len(quote))
          /\ (1 + i) - Len(quote) = i
      BY <1>1, <2>2
    <3>2. QED
      BY <2>3, <2>4, <3>1
  <2>8. QED
    BY <2>5, <2>6, <2>7
<1>4. end \in Seq(Int) /\ Len(end) = 2 /\ end[1] = Quote /\ end[2] = NUL
  BY DEF Quote, NUL
<1> HIDE DEF n, text, end
<1>5. /\ IsBuffer(v) /\ v.overflow = p.overflow /\ v.offset = p.offset
      /\ v.ok => /\ o + n + 4 <= v.length
                 /\ \A i \in 1 .. o : v.bytes[i] = p.bytes[i]
                 /\ \A i \in 1 .. n + 1 : v.bytes[o + i] = text[i]
  <2> DEFINE needed == n + 3
             at == 0
  <2>1. needed \in Nat /\ at \in Nat /\ at + Len(text) <= needed + 1
    BY <1>1, <1>3
  <2>2. v = Written(Ensured(p, needed), at, text)
    OBVIOUS
  <2> HIDE DEF v, needed, at
  <2>3. HasPiece(v, p, needed, at, text)
    BY <1>3, <2>1, <2>2, WhatIsEnsuredFits
  <2>4. p.offset + needed + 1 = o + n + 4 /\ p.offset + at = o
    BY <1>1, <1>2 DEF needed, at
  <2>5. QED
    BY <1>3, <2>3, <2>4 DEF HasPiece
<1> HIDE DEF v
<1>6. n + 1 \in Nat /\ (v.ok => v.offset + (n + 1) + Len(end) <= v.length)
  <2>1. v.length \in Nat
    BY <1>5 DEF IsBuffer, PrintbufferType
  <2>2. QED
    BY <1>1, <1>2, <1>4, <1>5, <2>1
<1> DEFINE first == v.offset + (n + 1)
<1>7. /\ IsBuffer(w) /\ w.overflow = v.overflow /\ w.offset = v.offset
      /\ w.ok = v.ok /\ w.length = v.length
      /\ v.ok => \A i \in 1 .. v.length :
                   w.bytes[i] = IF i > first /\ i <= first + Len(end) THEN end[i - first] ELSE v.bytes[i]
  BY <1>4, <1>5, <1>6, WrittenInside
<1> HIDE DEF w
<1>8. first = o + n + 1 /\ first \in Nat /\ v.length \in Nat
  BY <1>1, <1>2, <1>5 DEF IsBuffer, PrintbufferType
<1> HIDE DEF first
<1>9. ASSUME v.ok
      PROVE  \A i \in 1 .. o + n + 1 : w.bytes[i] = v.bytes[i]
  <2>1. \A i \in 1 .. o + n + 1 : i \in 1 .. v.length /\ ~(i > first)
    BY <1>1, <1>2, <1>5, <1>8, <1>9
  <2>2. QED
    BY <1>7, <1>9, <2>1
<1>10. ASSUME v.ok
       PROVE  w.bytes[o + n + 2] = Quote /\ w.bytes[o + n + 3] = NUL
  <2>1. o + n + 4 <= v.length /\ first + Len(end) = o + n + 3
    BY <1>1, <1>2, <1>4, <1>5, <1>8, <1>10
  <2> DEFINE l == v.length
             e == first + Len(end)
  <2>2. o \in Nat /\ n \in Nat /\ l \in Nat /\ first = o + n + 1 /\ o + n + 4 <= l /\ e = o + n + 3
    BY <1>1, <1>2, <1>8, <2>1
  <2> HIDE DEF l, e, o
  <2>3. /\ o + n + 2 \in 1 .. l /\ o + n + 2 > first /\ o + n + 2 <= e /\ (o + n + 2) - first = 1
        /\ o + n + 3 \in 1 .. l /\ o + n + 3 > first /\ o + n + 3 <= e /\ (o + n + 3) - first = 2
    BY <2>2
  <2>4. w.bytes[o + n + 2] = end[1]
    BY <1>7, <1>10, <2>3 DEF l, e, o
  <2>5. w.bytes[o + n + 3] = end[2]
    BY <1>7, <1>10, <2>3 DEF l, e, o
  <2>6. QED
    BY <1>4, <2>4, <2>5
<1>11. ASSUME v.ok
       PROVE  /\ \A i \in 1 .. o : w.bytes[i] = p.bytes[i]
              /\ w.bytes[o + 1] = Quote
              /\ \A i \in 1 .. n : w.bytes[o + 1 + i] = Output(chars)[i]
  <2>1. /\ \A i \in 1 .. o : i \in 1 .. o + n + 1
        /\ 1 \in 1 .. n + 1 /\ o + 1 \in 1 .. o + n + 1
        /\ \A i \in 1 .. n : 1 + i \in 1 .. n + 1 /\ o + 1 + i = o + (1 + i) /\ o + 1 + i \in 1 .. o + n + 1
    BY <1>1, <1>2, SMTT(30)
  <2>2. QED
    BY <1>3, <1>5, <1>9, <1>11, <2>1, SMTT(30)
<1>12. PrintString(chars, p) = w
  BY DEF PrintString, w, v, n, text, end
<1>13. o + n + 3 <= v.length \/ ~v.ok
  BY <1>1, <1>2, <1>5, <1>8, SMTT(30)
<1>14. QED
  BY <1>5, <1>7, <1>10, <1>11, <1>12, <1>13 DEF IsPrinted, n

\* update_offset finds the end of the string just printed, so the next piece is written
\* directly behind its closing quote, inside the block (cJSON.c:459-469).
THEOREM NextPieceFollows ==
  ASSUME NEW p, IsBuffer(p), InBlock(p), NEW chars \in Seq(CharByte), PrintString(chars, p).ok
  PROVE  LET u == Updated(PrintString(chars, p))
         IN  /\ IsBuffer(u) /\ InBlock(u) /\ u.ok /\ u.overflow = p.overflow
             /\ u.offset = p.offset + OutputLength(chars) + 2
             /\ u.bytes = PrintString(chars, p).bytes
<1> DEFINE n == OutputLength(chars)
           w == PrintString(chars, p)
           o == p.offset
           end == o + n + 3
           ends == {i \in w.offset + 1 .. w.length : w.bytes[i] = 0}
           least == CHOOSE i \in ends : \A j \in ends : i <= j
           u == Updated(w)
<1>1. n \in Nat /\ Output(chars) \in Seq(CharByte) /\ Len(Output(chars)) = n
  BY CountedIsWritten
<1>2. o \in Nat
  BY DEF IsBuffer, PrintbufferType
<1>3. /\ IsBuffer(w) /\ w.overflow = p.overflow /\ w.offset = o /\ w.ok
      /\ end <= w.length /\ IsPrinted(chars, o, w.bytes)
  BY StringIsPrinted
<1> HIDE DEF n, w, o
<1>4. /\ w \in PrintbufferType /\ w.length \in Nat /\ w.offset \in Nat /\ w.offset = o
      /\ Len(w.bytes) = w.length /\ w.length <= INT_MAX
  BY <1>3 DEF IsBuffer, PrintbufferType
<1>5. end \in Nat /\ end \in ends
  <2>1. w.bytes[end] = 0
    BY <1>3 DEF IsPrinted, NUL, n
  <2>2. end \in Nat /\ end \in w.offset + 1 .. w.length
    BY <1>1, <1>2, <1>3, <1>4
  <2>3. QED
    BY <2>1, <2>2
<1>6. ASSUME NEW i \in Nat, o < i, i < end
      PROVE  w.bytes[i] # 0
  <2>1. CASE i = o + 1
    BY <1>3, <2>1 DEF IsPrinted, Quote
  <2>2. CASE i = o + n + 2
    BY <1>3, <2>2 DEF IsPrinted, Quote, n
  <2>3. CASE ~(i = o + 1) /\ ~(i = o + n + 2)
    <3> DEFINE k == i - (o + 1)
    <3>1. k \in 1 .. n /\ i = o + 1 + k
      BY <1>1, <1>2, <1>6, <2>3
    <3> HIDE DEF k
    <3>2. w.bytes[i] = Output(chars)[k]
      BY <1>3, <3>1 DEF IsPrinted, n
    <3>3. Output(chars)[k] \in CharByte
      BY <1>1, <3>1
    <3>4. 0 \notin CharByte
      BY DEF CharByte, NUL
    <3>5. QED
      BY <3>2, <3>3, <3>4
  <2>4. QED
    BY <2>1, <2>2, <2>3
<1>7. \A j \in ends : end <= j
  <2>1. ASSUME NEW j \in ends
        PROVE  end <= j
    <3>1. j \in Nat /\ o < j /\ w.bytes[j] = 0
      BY <1>2, <1>4
    <3>2. ~(j < end)
      BY <1>6, <3>1
    <3>3. QED
      BY <1>5, <3>1, <3>2
  <2>2. QED
    BY <2>1
<1>8. least = end
  <2>1. ends \subseteq Nat
    BY <1>2, <1>4
  <2> HIDE DEF ends, end
  <2>2. least \in ends /\ \A j \in ends : least <= j
    BY <1>5, <1>7
  <2> HIDE DEF least
  <2>3. least <= end /\ end <= least
    BY <1>5, <1>7, <2>2
  <2>4. least \in Nat
    BY <2>1, <2>2
  <2>5. QED
    BY <1>5, <2>3, <2>4
<1>9. u = [w EXCEPT !.offset = @ + (least - 1 - w.offset)]
  <2>1. ends # {}
    BY <1>5
  <2>2. u = Advanced(w, least - 1 - w.offset)
    BY <1>3, <2>1 DEF Updated
  <2>3. QED
    BY <1>3, <2>2 DEF Advanced
<1>10. w.offset + (least - 1 - w.offset) = o + n + 2 /\ o + n + 2 \in Nat
  <2>1. w.offset = o /\ least = o + n + 3
    BY <1>4, <1>8
  <2>2. o \in Nat /\ n \in Nat
    BY <1>1, <1>2
  <2> HIDE DEF least, w, n, o
  <2>3. \A s \in Nat, e \in Nat, m \in Nat :
           e = s + m + 3 => s + (e - 1 - s) = s + m + 2 /\ s + m + 2 \in Nat
    OBVIOUS
  <2>4. least \in Nat
    BY <2>1, <2>2
  <2>5. o + (least - 1 - o) = o + n + 2 /\ o + n + 2 \in Nat
    BY <2>1, <2>2, <2>3, <2>4
  <2>6. QED
    BY <2>1, <2>5
<1>11. u = [w EXCEPT !.offset = o + n + 2]
  BY <1>9, <1>10
<1> HIDE DEF u, end
<1>12. /\ u.offset = o + n + 2 /\ u.length = w.length /\ u.bytes = w.bytes
       /\ u.ok = w.ok /\ u.overflow = w.overflow /\ u \in PrintbufferType
  BY <1>4, <1>10, <1>11 DEF PrintbufferType
<1>13. o + n + 2 < w.length
  BY <1>1, <1>2, <1>3, <1>4 DEF end
<1>14. IsBuffer(u) /\ InBlock(u)
  BY <1>4, <1>12, <1>13 DEF IsBuffer, InBlock
<1>15. QED
  BY <1>3, <1>12, <1>14 DEF u, w, n, o

\* So is the next piece behind a text of fixed length: every step of a print leaves a
\* buffer that the next one may use, or a print that failed (cJSON.c:371-456, 1433-1492,
\* 1604-1715).
THEOREM StepStaysInBlock ==
  ASSUME NEW p, IsBuffer(p), InBlock(p), NEW text \in Seq(CharByte)
  PROVE  LET u == Stepped(text, p)
         IN  /\ IsBuffer(u) /\ u.overflow = p.overflow
             /\ u.ok => /\ InBlock(u) /\ u.offset = p.offset + Len(text)
                        /\ \A i \in 1 .. p.offset : u.bytes[i] = p.bytes[i]
                        /\ \A i \in 1 .. Len(text) : u.bytes[p.offset + i] = text[i]
<1> DEFINE n == Len(text)
           piece == Append(text, NUL)
           needed == n + 1
           at == 0
           w == Written(Ensured(p, needed), at, piece)
           u == Advanced(w, n)
           o == p.offset
<1>1. text \in Seq(Int) /\ NUL \in Int /\ n \in Nat
  BY CharsAreInts DEF NUL
<1>2. /\ piece \in Seq(Int) /\ Len(piece) = n + 1
      /\ \A i \in 1 .. n : piece[i] = text[i]
  BY <1>1, AppendProperties
<1>3. needed \in Nat /\ at \in Nat /\ at + Len(piece) <= needed + 1
  BY <1>1, <1>2
<1>4. Stepped(text, p) = u
  BY DEF Stepped, Piece
<1> HIDE DEF needed, at, piece, w
<1>5. HasPiece(w, p, needed, at, piece)
  BY <1>2, <1>3, WhatIsEnsuredFits DEF w
<1>6. /\ w \in PrintbufferType /\ w.offset = o /\ w.overflow = p.overflow /\ o \in Nat
      /\ w.ok \in BOOLEAN /\ w.length \in Nat
      /\ w.ok => o + n + 2 <= w.length
  <2>1. /\ w \in PrintbufferType /\ w.offset = o /\ w.overflow = p.overflow /\ w.ok \in BOOLEAN
        /\ w.length \in Nat /\ o \in Nat
    BY <1>5 DEF HasPiece, IsBuffer, PrintbufferType
  <2>2. w.ok => o + needed + 1 <= w.length
    BY <1>5 DEF HasPiece
  <2>3. o + needed + 1 = o + n + 2
    BY <1>1, <2>1, SMTT(30) DEF needed
  <2>4. QED
    BY <2>1, <2>2, <2>3
<1>7. CASE ~w.ok
  <2>1. u = w
    BY <1>7 DEF Advanced
  <2>2. QED
    BY <1>4, <1>5, <1>6, <1>7, <2>1 DEF HasPiece
<1>8. CASE w.ok
  <2>1. u = [w EXCEPT !.offset = o + n] /\ o + n \in Nat
    BY <1>1, <1>6, <1>8 DEF Advanced
  <2> HIDE DEF u, n
  <2>2. /\ u \in PrintbufferType /\ u.offset = o + n /\ u.length = w.length
        /\ u.bytes = w.bytes /\ u.overflow = w.overflow
    BY <1>6, <2>1 DEF PrintbufferType
  <2>3. IsBuffer(u)
    BY <1>5, <2>2 DEF HasPiece, IsBuffer
  <2>4. InBlock(u)
    BY <1>1, <1>6, <1>8, <2>2 DEF InBlock
  <2>5. /\ \A i \in 1 .. o : w.bytes[i] = p.bytes[i]
        /\ \A i \in 1 .. n : w.bytes[o + i] = text[i]
    <3>1. o + at = o
      BY <1>6 DEF at
    <3>2. \A i \in 1 .. n : i \in 1 .. Len(piece)
      BY <1>1, <1>2
    <3>3. QED
      BY <1>2, <1>5, <1>8, <3>1, <3>2 DEF HasPiece
  <2>6. QED
    BY <1>4, <1>6, <2>2, <2>3, <2>4, <2>5 DEF n
<1>9. QED
  BY <1>6, <1>7, <1>8
=============================================================================
