------------------------------ MODULE HttpTexts ------------------------------
(***************************************************************************)
(* The texts http_request_helper.h makes of parameters and of an answer.   *)
(* Parameters are a std::map: a set of pairs of a name and a value, the    *)
(* names distinct, walked in the order of the names.                       *)
(***************************************************************************)
EXTENDS CJsonUtf16, FiniteSets

Question == 63
Ampersand == 38
Equals == 61
Percent == 37

\* The order of std::string.
Before(a, b) ==
  \E n \in 0 .. Len(a) :
    /\ n < Len(b) /\ \A i \in 1 .. n : a[i] = b[i]
    /\ n < Len(a) => a[n + 1] < b[n + 1]

\* A map from its first name to its last.
Rank(p, map) == Cardinality({q \in map : Before(q[1], p[1])})
InOrder(map) == [i \in 1 .. Cardinality(map) |-> CHOOSE p \in map : Rank(p, map) = i - 1]

-----------------------------------------------------------------------------
(* URLs *)

\* curl_easy_escape
Unreserved == Digits \cup (65 .. 90) \cup (97 .. 122) \cup {Minus, Dot, 95, 126}
UpperHex(n) == IF n < 10 THEN Zero + n ELSE 55 + n
PercentEncoded(b) ==
  IF b \in Unreserved THEN <<b>> ELSE <<Percent, UpperHex(b \div 16), UpperHex(b % 16)>>

curl_easy_escape(s) ==
  LET escaped[n \in 0 .. Len(s)] ==
        IF n = 0 THEN <<>> ELSE escaped[n - 1] \o PercentEncoded(s[n])
  IN  escaped[Len(s)]

\* Mutated form: the values are put in as they are.
EscapedNames(map) == {<<curl_easy_escape(p[1]), p[2]>> : p \in map}

\* The first loop of escapeParams: a map with encoded names and values.
EncodedParams(map) == {<<curl_easy_escape(p[1]), curl_easy_escape(p[2])>> : p \in map}

\* The second: name=value, with & between and ? in front.
Added(url, p) ==
  (IF Last(url) = Question THEN url ELSE Append(url, Ampersand)) \o p[1] \o <<Equals>> \o p[2]

escapeParams(url, map) ==
  LET walk == InOrder(EncodedParams(map))
      merged[i \in 0 .. Len(walk)] ==
        IF i = 0 THEN IF map = {} THEN url ELSE Append(url, Question)
        ELSE Added(merged[i - 1], walk[i])
  IN  merged[Len(walk)]

-----------------------------------------------------------------------------
(* Answers *)

\* {"response":" , whose bytes are counted but not looked at
ResponseStart == <<123, 34, 114, 101, 115, 112, 111, 110, 115, 101, 34, 58, 34>>

\* Mutated form: the quote and the bracket behind are not taken off.
ResponseWithEnd(input) ==
  IF input = <<>> THEN [thrown |-> FALSE, chars |-> input]
  ELSE IF Len(input) < Len(ResponseStart) THEN [thrown |-> TRUE, chars |-> <<>>]
  ELSE [thrown |-> FALSE, chars |-> SubSeq(input, Len(ResponseStart) + 1, Len(input))]

\* getResponseFromJson: substr throws when it starts behind the end; a length below
\* zero wraps and takes the rest.
getResponseFromJson(input) ==
  LET length == Len(input) - Len(ResponseStart) - 2
  IN  IF input = <<>> THEN [thrown |-> FALSE, chars |-> input]
      ELSE IF Len(input) < Len(ResponseStart) THEN [thrown |-> TRUE, chars |-> <<>>]
      ELSE [thrown |-> FALSE,
            chars |-> SubSeq(input, Len(ResponseStart) + 1,
                             IF length < 0 THEN Len(input) ELSE Len(ResponseStart) + length)]

-----------------------------------------------------------------------------
(* How a URL is read *)

\* The first place of a byte in a text, and what is ahead of it and behind it.
Place(t, b) ==
  IF \E i \in DOMAIN t : t[i] = b
  THEN CHOOSE i \in DOMAIN t : t[i] = b /\ \A j \in 1 .. i - 1 : t[j] # b
  ELSE Len(t) + 1
Ahead(t, b) == SubSeq(t, 1, Place(t, b) - 1)
Past(t, b) == SubSeq(t, Place(t, b) + 1, Len(t))

\* The parts of a text between the places of a byte.
Marks(t, b) == {i \in DOMAIN t : t[i] = b}
Ends(t, b) == {0, Len(t) + 1} \cup Marks(t, b)
Adjacent(t, b, i, j) == i < j /\ \A k \in Ends(t, b) : ~(i < k /\ k < j)
Parts(t, b) ==
  {SubSeq(t, e[1] + 1, e[2] - 1) : e \in {e \in Ends(t, b) \X Ends(t, b) : Adjacent(t, b, e[1], e[2])}}

\* Percent and two digits are one byte, which is there when the second digit is read.
Unescape(t) ==
  LET decoded[n \in 0 .. Len(t)] ==
        IF n = 0 THEN <<>>
        ELSE IF n > 2 /\ t[n - 2] = Percent
             THEN Append(decoded[n - 1], HexValue(t[n - 1]) * 16 + HexValue(t[n]))
        ELSE IF t[n] = Percent \/ (n > 1 /\ t[n - 1] = Percent) THEN decoded[n - 1]
        ELSE Append(decoded[n - 1], t[n])
  IN  decoded[Len(t)]
=============================================================================
