----------------------------- MODULE CJsonBytes -----------------------------
(***************************************************************************)
(* Texts as cJSON.c sees them: sequences of bytes, a C string ends at the  *)
(* first NUL.  Values as a caller means them: a literal, a number, a       *)
(* string of bytes without NUL, an array of values, an object of members.  *)
(***************************************************************************)
EXTENDS Integers, Sequences, SequencesExt

Byte == 0 .. 255

NUL == 0
Tab == 9
Newline == 10
Return == 13
Blank == 32
Quote == 34
Plus == 43
Comma == 44
Minus == 45
Dot == 46
Slash == 47
Zero == 48
Nine == 57
Colon == 58
OpenArray == 91
Backslash == 92
CloseArray == 93
OpenObject == 123
CloseObject == 125
Star == 42
LowerU == 117

\* The bytes a C string may hold.
CharByte == Byte \ {NUL}

Null  == <<110, 117, 108, 108>>
True  == <<116, 114, 117, 101>>
False == <<102, 97, 108, 115, 101>>
BOM   == <<239, 187, 191>>

\* The letter behind a backslash that stands for a control byte: \b \f \n \r \t
ShortEscape == [c \in {8, 12, 10, 13, 9} |->
  CASE c = 8 -> 98 [] c = 12 -> 102 [] c = 10 -> 110 [] c = 13 -> 114 [] c = 9 -> 116]

Digits == Zero .. Nine

HexDigit(n) == IF n < 10 THEN Zero + n ELSE 87 + n

\* What a C string holds of the bytes written to it.
CString(bytes) ==
  LET end == SelectInSeq(bytes, LAMBDA b : b = NUL)
  IN  IF end = 0 THEN bytes ELSE SubSeq(bytes, 1, end - 1)

Literal(word)  == [type |-> "literal", word |-> word]
\* Numbers are mantissa * 10^exponent, the mantissa without zeros at its end.
NumberOf(m, e) == [type |-> "number", mantissa |-> m, exponent |-> e]
StringOf(s)    == [type |-> "string", chars |-> s]
ArrayOf(items) == [type |-> "array", items |-> items]
\* Members are pairs of a name and a value.
ObjectOf(members) == [type |-> "object", members |-> members]

\* The decimal digits of a natural number.
Decimal[n \in Nat] ==
  IF n < 10 THEN <<Zero + n>> ELSE Append(Decimal[n \div 10], Zero + (n % 10))

\* sprintf("%1.15g") of a number small enough to need no exponent.
NumberText(v) ==
  (IF v.mantissa < 0 THEN <<Minus>> ELSE <<>>)
    \o Decimal[(IF v.mantissa < 0 THEN -v.mantissa ELSE v.mantissa) * 10 ^ v.exponent]
=============================================================================
