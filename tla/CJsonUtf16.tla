------------------------------ MODULE CJsonUtf16 ------------------------------
(***************************************************************************)
(* The \uXXXX escapes of cJSON.c: four hexadecimal digits, a pair of them  *)
(* for a character outside the basic plane, and the UTF-8 bytes they stand *)
(* for.  What they mean is said in the second part.                        *)
(***************************************************************************)
EXTENDS CJsonBytes

\* The value of a hexadecimal digit, -1 of any other byte.
HexValue(b) ==
  CASE b \in Digits    -> b - Zero
    [] b \in 65 .. 70  -> b - 55
    [] b \in 97 .. 102 -> b - 87
    [] OTHER           -> -1

\* parse_hex4: four digits; 0 when one of them is none.
ParseHex4(d) ==
  IF \E i \in 1 .. 4 : HexValue(d[i]) = -1 THEN 0
  ELSE ((HexValue(d[1]) * 16 + HexValue(d[2])) * 16 + HexValue(d[3])) * 16 + HexValue(d[4])

IsHighSurrogate(code) == 55296 <= code /\ code <= 56319   \* 0xD800 .. 0xDBFF
IsLowSurrogate(code)  == 56320 <= code /\ code <= 57343   \* 0xDC00 .. 0xDFFF

\* Mutated form: the plane of the pair is left out.
PairCodepointInPlane(first, second) == (first % 1024) * 1024 + (second % 1024)

\* 0x10000 + (((first_code & 0x3FF) << 10) | (second_code & 0x3FF))
PairCodepoint(first, second) == 65536 + (first % 1024) * 1024 + (second % 1024)

\* Bytes of the encoding behind the first: six bits each.
Continuation(code) == 128 + (code % 64)

\* The UTF-8 encoding, one to four bytes.
Utf8(code) ==
  CASE code < 128 -> <<code>>
    [] 128 <= code /\ code < 2048 -> <<192 + (code \div 64), Continuation(code)>>
    [] 2048 <= code /\ code < 65536 ->
         <<224 + (code \div 4096), Continuation(code \div 64), Continuation(code)>>
    [] 65536 <= code ->
         <<240 + (code \div 262144), Continuation(code \div 4096),
           Continuation(code \div 64), Continuation(code)>>

\* utf16_literal_to_utf8 on the bytes from the backslash to the closing quote: how
\* many of them it read (0: it failed) and what it wrote.
Utf16ToUtf8(in) ==
  LET Fail == [length |-> 0, bytes |-> <<>>]
      Pair(first_code, second_code) ==
        IF Len(in) < 12 \/ in[7] # Backslash \/ in[8] # LowerU \/ ~IsLowSurrogate(second_code)
        THEN Fail
        ELSE [length |-> 12, bytes |-> Utf8(PairCodepoint(first_code, second_code))]
      Character(first_code) ==
        IF IsHighSurrogate(first_code) THEN Pair(first_code, ParseHex4(SubSeq(in, 9, 12)))
        ELSE IF IsLowSurrogate(first_code) THEN Fail
        ELSE [length |-> 6, bytes |-> Utf8(first_code)]
  IN  IF Len(in) < 6 THEN Fail ELSE Character(ParseHex4(SubSeq(in, 3, 6)))

-----------------------------------------------------------------------------
(* What they mean *)

\* The UTF-16 escapes of a character.
EscapeOfUnit(n) ==
  <<Backslash, LowerU, HexDigit(n \div 4096), HexDigit((n \div 256) % 16),
    HexDigit((n \div 16) % 16), HexDigit(n % 16)>>

EscapeOf(code) ==
  IF code < 65536 THEN EscapeOfUnit(code)
  ELSE EscapeOfUnit(55296 + (code - 65536) \div 1024) \o EscapeOfUnit(56320 + (code % 1024))

\* The character that UTF-8 bytes encode: the bits of the first byte behind those that
\* say how many bytes there are, and six of each other byte.
CharacterOf(bytes) ==
  LET Bits(i) == bytes[i] % 64
  IN  CASE Len(bytes) = 1 -> bytes[1]
        [] Len(bytes) = 2 -> (bytes[1] % 32) * 64 + Bits(2)
        [] Len(bytes) = 3 -> ((bytes[1] % 16) * 64 + Bits(2)) * 64 + Bits(3)
        [] Len(bytes) = 4 -> (((bytes[1] % 8) * 64 + Bits(2)) * 64 + Bits(3)) * 64 + Bits(4)
=============================================================================
