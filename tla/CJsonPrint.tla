------------------------------ MODULE CJsonPrint ------------------------------
(***************************************************************************)
(* cJSON_Print and its variants: a value is printed into a printbuffer,    *)
(* each piece after room was ensured for it.  A step of a print that has   *)
(* failed changes nothing, as the code returns at once.                    *)
(***************************************************************************)
EXTENDS CJsonPieces

CONSTANT default_buffer_size
ASSUME PrintAssumption == default_buffer_size \in 1 .. INT_MAX

RECURSIVE PrintValue(_, _)

\* print_array
PrintArray(items, p) ==
  LET opened == Deeper(Advanced(Written(Ensured(p, 1), 0, <<OpenArray>>), 1), 1)
      separator == IF p.format THEN <<Comma, Blank>> ELSE <<Comma>>
      Element(q, i) ==
        LET printed == Updated(PrintValue(items[i], q))
        IN  IF i = Len(items) THEN printed ELSE Stepped(separator, printed)
  IN  Deeper(Piece(<<CloseArray>>, FoldLeftDomain(Element, opened, items)), -1)

\* print_object
PrintObject(members, p) ==
  LET opening == IF p.format THEN <<OpenObject, Newline>> ELSE <<OpenObject>>
      colon == IF p.format THEN <<Colon, Tab>> ELSE <<Colon>>
      opened == Deeper(Advanced(Written(Ensured(p, Len(opening) + 1), 0, opening), Len(opening)), 1)
      Member(q, i) ==
        LET indent == IF q.format THEN Tabs(q.depth) ELSE <<>>
            indented == IF q.format
                        THEN Advanced(Written(Ensured(q, q.depth), 0, indent), q.depth) ELSE q
            named == Updated(PrintString(members[i][1], indented))
            valued == Updated(PrintValue(members[i][2],
                        Advanced(Written(Ensured(named, Len(colon)), 0, colon), Len(colon))))
        IN  Stepped((IF i < Len(members) THEN <<Comma>> ELSE <<>>)
                      \o (IF q.format THEN <<Newline>> ELSE <<>>), valued)
      filled == FoldLeftDomain(Member, opened, members)
      closing == Append(IF p.format THEN Tabs(p.depth) ELSE <<>>, CloseObject)
  IN  Deeper(Written(Ensured(filled, IF p.format THEN filled.depth + 1 ELSE 2), 0,
                     Append(closing, NUL)), -1)

\* print_value; print_number prints the text sprintf gives it and steps over it.
PrintValue(v, p) ==
  CASE v.type = "literal" -> Piece(v.word, p)
    [] v.type = "number"  -> Stepped(NumberText(v), p)
    [] v.type = "string"  -> PrintString(v.chars, p)
    [] v.type = "array"   -> PrintArray(v.items, p)
    [] v.type = "object"  -> PrintObject(v.members, p)

\* Mutated form: the print is given back in the block it was made in, cut one short.
ShrunkShort(p) ==
  IF p.fuel = 0 THEN Released(p)
  ELSE [p EXCEPT !.bytes = SubSeq(@, 1, p.offset), !.length = p.offset]

\* The end of print: the block is cut down to the text and its NUL, by realloc or by
\* a copy into a new block.
Shrunk(p) ==
  IF p.fuel = 0 THEN Released(p)
  ELSE [p EXCEPT !.bytes = SubSeq(@, 1, p.offset + 1), !.length = p.offset + 1]

\* print: cJSON_Print and cJSON_PrintUnformatted.
print(v, format, realloc, fuel) ==
  IF fuel = 0 THEN Failed(Printbuffer(0, FALSE, format, realloc, 0, 0))
  ELSE LET p == Updated(PrintValue(v, Printbuffer(default_buffer_size, FALSE, format, realloc, fuel - 1, 1)))
       IN  IF p.ok THEN Shrunk(p) ELSE Released(p)

\* cJSON_PrintBuffered: the caller guesses the size.
PrintBuffered(v, prebuffer, format, realloc, fuel) ==
  IF fuel = 0 THEN Failed(Printbuffer(0, FALSE, format, realloc, 0, 0))
  ELSE LET p == PrintValue(v, Printbuffer(prebuffer, FALSE, format, realloc, fuel - 1, 1))
       IN  IF p.ok THEN p ELSE Released(p)

\* cJSON_PrintPreallocated: the caller's buffer, which never grows.
PrintPreallocated(v, length, format) ==
  PrintValue(v, Printbuffer(length, TRUE, format, TRUE, 0, 0))
=============================================================================
