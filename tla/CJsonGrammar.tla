----------------------------- MODULE CJsonGrammar -----------------------------
(***************************************************************************)
(* What cJSON reads and writes, said without buffers and offsets: which    *)
(* bytes are a text, and how a value is rendered.  The code is checked     *)
(* against these in module CJsonText.  Unlike the JSON of RFC 8259 it      *)
(* takes every byte from 1 to 32 for whitespace, control bytes in strings, *)
(* and the numbers of strtod.                                              *)
(***************************************************************************)
EXTENDS CJsonParse, CJsonPrint

\* Without the whitespace at its ends.
Trimmed(t) ==
  LET solid == {i \in DOMAIN t : t[i] > 32}
  IN  IF solid = {} THEN <<>> ELSE SubSeq(t, Min(solid), Max(solid))

Inside(t) == SubSeq(t, 2, Len(t) - 1)
Enclosed(t, open, close) == Len(t) > 1 /\ t[1] = open /\ Last(t) = close
Behind(t, n) == SubSeq(t, n + 1, Len(t))

IsHexEscape(t) == Len(t) >= 6 /\ t[1] = Backslash /\ t[2] = LowerU

RECURSIVE AreChars(_)
AreChars(t) ==
  \/ t = <<>>
  \/ t[1] \notin {Quote, Backslash} /\ AreChars(Tail(t))
  \/ /\ Len(t) > 1
     /\ t[1] = Backslash
     /\ t[2] \in {Quote, Backslash, Slash} \cup {ShortEscape[c] : c \in DOMAIN ShortEscape}
     /\ AreChars(Behind(t, 2))
  \/ /\ IsHexEscape(t)
     /\ LET code == ParseHex4(SubSeq(t, 3, 6))
            rest == Behind(t, 6)
        IN  \/ ~IsHighSurrogate(code) /\ ~IsLowSurrogate(code) /\ AreChars(rest)
            \/ /\ IsHighSurrogate(code)
               /\ IsHexEscape(rest)
               /\ IsLowSurrogate(ParseHex4(SubSeq(rest, 3, 6)))
               /\ AreChars(Behind(rest, 6))

IsStringText(t) == Enclosed(t, Quote, Quote) /\ AreChars(Inside(t))
IsNumberText(t) == Len(t) <= NumberLength /\ t[1] # Plus /\ t[1] # Dot /\ IsNumber(t)

\* A value with at most `depth` containers around any of its parts; one or more items
\* with commas between them; a member.
RECURSIVE IsValueText(_, _), AreItems(_, _, _)
IsMember(t, depth) ==
  \E i \in DOMAIN t :
    /\ t[i] = Colon
    /\ IsStringText(Trimmed(SubSeq(t, 1, i - 1)))
    /\ IsValueText(Trimmed(Behind(t, i)), depth)

AreItems(t, depth, named) ==
  LET IsItem(x) == IF named THEN IsMember(x, depth) ELSE IsValueText(Trimmed(x), depth)
  IN  \/ IsItem(t)
      \/ \E i \in DOMAIN t :
           t[i] = Comma /\ IsItem(SubSeq(t, 1, i - 1)) /\ AreItems(Behind(t, i), depth, named)

IsValueText(t, depth) ==
  /\ t # <<>>
  /\ \/ t \in {Null, True, False} \/ IsNumberText(t) \/ IsStringText(t)
     \/ /\ depth > 0
        /\ \/ /\ Enclosed(t, OpenArray, CloseArray)
              /\ Trimmed(Inside(t)) = <<>> \/ AreItems(Inside(t), depth - 1, FALSE)
           \/ /\ Enclosed(t, OpenObject, CloseObject)
              /\ Trimmed(Inside(t)) = <<>> \/ AreItems(Inside(t), depth - 1, TRUE)

IsText(t) == IsValueText(Trimmed(IF Len(t) > 3 /\ SubSeq(t, 1, 3) = BOM THEN Behind(t, 3) ELSE t),
                         CJSON_NESTING_LIMIT)

\* Every \u is followed by four hexadecimal digits.
HexEscapesAreWhole(t) ==
  \A i \in 1 .. Len(t) - 1 :
    t[i] = Backslash /\ t[i + 1] = LowerU =>
      Len(t) >= i + 5 /\ \A j \in i + 2 .. i + 5 : HexValue(t[j]) >= 0

-----------------------------------------------------------------------------
Joined(parts, separator) ==
  FoldLeftDomain(LAMBDA t, i : t \o (IF i = 1 THEN <<>> ELSE separator) \o parts[i], <<>>, parts)

Quoted(s) == <<Quote>> \o FlattenSeq([i \in DOMAIN s |-> Escaped(s[i])]) \o <<Quote>>

\* What a value looks like in print, `depth` containers deep.
RECURSIVE Rendered(_, _, _)
Rendered(v, format, depth) ==
  LET Line(n) == IF format THEN Tabs(n) ELSE <<>>
      Break == IF format THEN <<Newline>> ELSE <<>>
      Member(m) == Line(depth + 1) \o Quoted(m[1]) \o (IF format THEN <<Colon, Tab>> ELSE <<Colon>>)
                     \o Rendered(m[2], format, depth + 1)
  IN  CASE v.type = "literal" -> v.word
        [] v.type = "number" -> NumberText(v)
        [] v.type = "string" -> Quoted(v.chars)
        [] v.type = "array" ->
             <<OpenArray>>
               \o Joined([i \in DOMAIN v.items |-> Rendered(v.items[i], format, depth + 1)],
                         IF format THEN <<Comma, Blank>> ELSE <<Comma>>)
               \o <<CloseArray>>
        [] v.type = "object" ->
             <<OpenObject>> \o Break
               \o Joined([i \in DOMAIN v.members |-> Member(v.members[i])], <<Comma>> \o Break)
               \o (IF v.members = <<>> THEN <<>> ELSE Break) \o Line(depth) \o <<CloseObject>>

\* How many containers are around the innermost part, itself included.
RECURSIVE Nesting(_)
Nesting(v) ==
  LET parts == CASE v.type = "array" -> ToSet(v.items)
                 [] v.type = "object" -> {m[2] : m \in ToSet(v.members)}
                 [] OTHER -> {}
  IN  IF v.type \notin {"array", "object"} THEN 0
      ELSE 1 + Max({0} \cup {Nesting(x) : x \in parts})
=============================================================================
