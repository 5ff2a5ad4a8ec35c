----------------------------- MODULE CJsonMinify -----------------------------
(***************************************************************************)
(* cJSON_Minify: whitespace and comments outside strings are taken out of  *)
(* a text, in place.  read is the position, from 1, in the text with its   *)
(* NUL; overrun tells that the NUL was passed.                             *)
(***************************************************************************)
EXTENDS CJsonBytes

\* From position i: the first place that satisfies Stop, or the NUL.
Until(content, i, Stop(_)) ==
  i - 1 + SelectInSeq(SubSeq(content, i, Len(content)), LAMBDA b : b = NUL \/ Stop(b))

\* Past the closing quote of the string that is open at i; behind a backslash a quote
\* closes nothing, and the NUL of an open string is copied and passed like a quote.
RECURSIVE StringEnd(_, _)
StringEnd(content, i) ==
  IF i > Len(content) \/ content[i] \in {NUL, Quote} THEN i + 1
  ELSE StringEnd(content, IF content[i] = Backslash THEN i + 2 ELSE i + 1)

\* Past a comment; an open one ends two bytes behind the NUL.
RECURSIVE CommentEnd(_, _)
CommentEnd(content, i) ==
  IF content[i] = NUL \/ (content[i] = Star /\ content[i + 1] = Slash) THEN i + 2
  ELSE CommentEnd(content, i + 1)

RECURSIVE MinifiedFrom(_, _, _)

\* Mutated form: a backslash hides no quote.
MinifiedPlainStrings(content, i, out) ==
  IF i > Len(content) THEN [text |-> out, overrun |-> TRUE]
  ELSE IF content[i] = NUL THEN [text |-> out, overrun |-> FALSE]
  ELSE IF content[i] \in {Blank, Tab, Return, Newline} THEN MinifiedFrom(content, i + 1, out)
  ELSE LET end == IF content[i] = Quote
                  THEN 1 + Until(content, i + 1, LAMBDA b : b = Quote) ELSE i + 1
       IN  MinifiedFrom(content, end, out \o SubSeq(content, i, end - 1))

MinifiedFrom(content, i, out) ==
  LET next == IF i < Len(content) THEN content[i + 1] ELSE NUL
      end == IF content[i] = Quote THEN StringEnd(content, i + 1) ELSE i + 1
  IN  IF i > Len(content) \/ end > Len(content) + 1 THEN [text |-> out, overrun |-> TRUE]
      ELSE IF content[i] = NUL THEN [text |-> out, overrun |-> FALSE]
      ELSE IF content[i] \in {Blank, Tab, Return, Newline} THEN MinifiedFrom(content, i + 1, out)
      ELSE IF content[i] = Slash /\ next = Slash
           THEN MinifiedFrom(content, Until(content, i, LAMBDA b : b = Newline), out)
      ELSE IF content[i] = Slash /\ next = Star
           THEN MinifiedFrom(content, CommentEnd(content, i), out)
      ELSE MinifiedFrom(content, end, out \o SubSeq(content, i, end - 1))

Minified(text) == MinifiedFrom(Append(text, NUL), 1, <<>>)
=============================================================================
