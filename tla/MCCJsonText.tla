----------------------------- MODULE MCCJsonText -----------------------------
(***************************************************************************)
(* An instance of CJsonText and the request helper for TLC: values of      *)
(* every kind, nested, with every kind of escape, in blocks and limits     *)
(* small enough to be reached, maps of up to two parameters with every     *)
(* separator in them, and answers broken off everywhere.                   *)
(***************************************************************************)
EXTENDS HttpRequestBody

A == StringOf(<<97>>)
One == NumberOf(1, 0)

MCValues == {
  Literal(Null), Literal(True), Literal(False),
  NumberOf(0, 0), NumberOf(-7, 0), NumberOf(1, 1),
  StringOf(<<>>), A, StringOf(<<34, 92>>), StringOf(<<1, 9>>), StringOf(<<195, 169, 32>>),
  ArrayOf(<<>>), ArrayOf(<<One>>), ArrayOf(<<A, Literal(True)>>),
  ArrayOf(<<ArrayOf(<<One>>), ArrayOf(<<>>)>>), ArrayOf(<<ArrayOf(<<ArrayOf(<<>>)>>)>>),
  ObjectOf(<<>>), ObjectOf(<< <<<<97>>, One>> >>),
  ObjectOf(<< <<<<97>>, One>>, <<<<98>>, A>> >>),
  ObjectOf(<< <<<<97>>, ObjectOf(<< <<<<>>, One>> >>)>> >>),
  ArrayOf(<<ObjectOf(<< <<<<97>>, Literal(Null)>> >>)>>),
  ObjectOf(<< <<<<97>>, ArrayOf(<<One, One>>)>> >>)}

\* Both sides of every limit of the encodings.
MCCodes == {0, 1, 127, 128, 2047, 2048, 55295, 57344, 65535, 65536, 66560, 1114111}

\* //" and a newline, a quote between stars, stars alone
MCComments == {<<47, 47, 34, 10>>, <<47, 42, 34, 42, 47>>, <<47, 42, 42, 47>>}

\* " + , - . / 0 1 : [ \ ] e n u { } and a blank, a newline, a control byte, a letter
MCAlphabet == {34, 44, 45, 46, 47, 49, 58, 91, 92, 93, 101, 110, 117, 123, 125, 32, 97}

\* Names and values with every separator in them, in both orders before and after they
\* are encoded.
MCBodies == {
  {}, {<<<<97>>, <<98>>>>}, {<<<<97>>, <<38, 61, 63>>>>}, {<<<<97>>, <<37, 34>>>>},
  {<<<<>>, <<>>>>}, {<<<<61>>, <<61>>>>}, {<<<<97>>, <<>>>>, <<<<98>>, <<>>>>},
  {<<<<97>>, <<32>>>>, <<<<38>>, <<195, 169>>>>}, {<<<<97>>, <<>>>>, <<<<97, 98>>, <<>>>>},
  {<<<<126>>, <<>>>>, <<<<195>>, <<>>>>}}

\* Nothing, letters of which one name begins with the other, a separator each, a byte
\* behind the unreserved ones: in both orders before and after they are encoded.
MCNames == {<<>>, <<97>>, <<97, 98>>, <<Ampersand>>, <<Equals>>, <<126>>, <<195, 169>>}
MCChars == {<<>>, <<98>>, <<Ampersand, Equals, Question>>, <<Percent, 50>>}

MCParams == {map \in UNION {{{p, q} : p, q \in MCNames \X MCChars}, {{}}} :
              \A p, q \in map : p[1] = q[1] => p = q}

MCUrl == <<97>>

\* Nothing, a letter, a quote and a bracket
MCResponses == {<<>>, <<97>>, <<97, 34, 125>>}
=============================================================================
