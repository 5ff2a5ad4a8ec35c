------------------------------ MODULE CJsonParse ------------------------------
(***************************************************************************)
(* cJSON_Parse: one pass over a buffer, each function moving its offset.   *)
(* A parse is a record: content (the text and its NUL), offset, depth, ok, *)
(* item (the value parsed last), fuel and live (allocations as in module   *)
(* PrintBuffer) and overflow (a string was longer than its block).         *)
(***************************************************************************)
EXTENDS CJsonUtf16, FiniteSetsExt

CONSTANTS
  CJSON_NESTING_LIMIT,
  NumberLength          \* bytes a number may have: 63 in the code

ASSUME ParseAssumption == CJSON_NESTING_LIMIT \in Nat /\ NumberLength \in Nat \ {0}

Input(text, fuel) ==
  [content |-> Append(text, NUL), offset |-> 0, depth |-> 0, ok |-> TRUE,
   item |-> Literal(Null), fuel |-> fuel, live |-> 0, overflow |-> FALSE]

CanAccess(s) == s.offset < Len(s.content)
At(s) == s.content[s.offset + 1]
Is(s, b) == CanAccess(s) /\ At(s) = b
Moved(s, n) == [s EXCEPT !.offset = @ + n]
Rejected(s) == [s EXCEPT !.ok = FALSE]
Freed(s, n) == [s EXCEPT !.ok = FALSE, !.live = @ - n]
Holding(s, v) == [s EXCEPT !.item = v]

Allocated(s) == IF s.fuel = 0 THEN Rejected(s) ELSE [s EXCEPT !.fuel = @ - 1, !.live = @ + 1]

LookingAt(s, word) ==
  /\ s.offset + Len(word) <= Len(s.content)
  /\ SubSeq(s.content, s.offset + 1, s.offset + Len(word)) = word

\* buffer_skip_whitespace: to the next byte above 32, or to the NUL, which is skipped
\* too and stepped back to.
SkipWhitespace(s) ==
  LET solid == {i \in s.offset .. Len(s.content) - 1 : s.content[i + 1] > 32}
  IN  [s EXCEPT !.offset = IF solid = {} THEN Len(s.content) - 1 ELSE Min(solid)]

\* skip_utf8_bom
SkipBom(s) == IF s.offset + 4 < Len(s.content) /\ LookingAt(s, BOM) THEN Moved(s, 3) ELSE s

\* Allocations that hold a value: an item each, and its text and its name.
RECURSIVE Blocks(_)
Blocks(v) ==
  CASE v.type = "string" -> 2
    [] v.type = "array"  -> 1 + FoldSeq(LAMBDA x, n : n + Blocks(x), 0, v.items)
    [] v.type = "object" -> 1 + FoldSeq(LAMBDA x, n : n + 1 + Blocks(x[2]), 0, v.members)
    [] OTHER -> 1

-----------------------------------------------------------------------------
(* Numbers *)

IsInteger(t) == t # <<>> /\ ToSet(t) \subseteq Digits

Unsigned(t) == IF t # <<>> /\ t[1] \in {Plus, Minus} THEN Tail(t) ELSE t

\* Where the exponent begins, and the point: 0 when there is none.
ExponentAt(t) == SelectInSeq(t, LAMBDA b : b \in {69, 101})
BaseOf(t) == IF ExponentAt(t) = 0 THEN t ELSE SubSeq(t, 1, ExponentAt(t) - 1)
ExponentOf(t) == IF ExponentAt(t) = 0 THEN <<Zero>> ELSE SubSeq(t, ExponentAt(t) + 1, Len(t))
FractionOf(t) ==
  LET at == SelectInSeq(t, LAMBDA b : b = Dot) IN IF at = 0 THEN <<>> ELSE SubSeq(t, at + 1, Len(t))

\* [sign] digits [. digits] [e [sign] digits], a digit at least before the exponent.
IsNumber(t) ==
  LET base == Unsigned(BaseOf(t))
      digits == SelectSeq(base, LAMBDA b : b # Dot)
  IN  /\ IsInteger(digits)
      /\ Len(base) - Len(digits) <= 1
      /\ IsInteger(Unsigned(ExponentOf(t)))

IntegerOf(t) ==
  LET n == FoldLeft(LAMBDA m, b : m * 10 + b - Zero, 0, Unsigned(t))
  IN  IF t[1] = Minus THEN -n ELSE n

RECURSIVE Normal(_, _)
Normal(m, e) ==
  IF m = 0 THEN NumberOf(0, 0)
  ELSE IF m % 10 = 0 THEN Normal(m \div 10, e + 1) ELSE NumberOf(m, e)

ValueOfNumber(t) ==
  Normal(IntegerOf(SelectSeq(BaseOf(t), LAMBDA b : b # Dot)),
         IntegerOf(ExponentOf(t)) - Len(FractionOf(BaseOf(t))))

\* parse_number: the bytes a number may consist of, at most NumberLength, are copied;
\* strtod takes the longest number at their beginning.
ParseNumber(s) ==
  LET rest == SubSeq(s.content, s.offset + 1, Len(s.content))
      stop == SelectInSeq(rest, LAMBDA b : b \notin Digits \cup {Plus, Minus, Dot, 69, 101})
      copied == SubSeq(rest, 1, Min({stop - 1, NumberLength}))
      lengths == {n \in 1 .. Len(copied) : IsNumber(SubSeq(copied, 1, n))}
  IN  IF lengths = {} THEN Rejected(s)
      ELSE Moved(Holding(s, ValueOfNumber(SubSeq(copied, 1, Max(lengths)))), Max(lengths))

-----------------------------------------------------------------------------
(* Strings *)

RECURSIVE Scan(_, _, _)

\* Mutated form: a backslash hides no quote.
ScanPlain(content, i, skipped) ==
  IF i >= Len(content) THEN [found |-> FALSE, end |-> i, skipped |-> skipped]
  ELSE IF content[i + 1] = Quote THEN [found |-> TRUE, end |-> i, skipped |-> skipped]
  ELSE Scan(content, i + 1, skipped)

\* The first loop of parse_string: where the string ends, escapes skipped over.
Scan(content, i, skipped) ==
  IF i >= Len(content) THEN [found |-> FALSE, end |-> i, skipped |-> skipped]
  ELSE IF content[i + 1] = Quote THEN [found |-> TRUE, end |-> i, skipped |-> skipped]
  ELSE IF content[i + 1] = Backslash THEN Scan(content, i + 2, skipped + 1)
  ELSE Scan(content, i + 1, skipped)

\* The byte an escape of one letter stands for; NUL when there is no such escape.
Unescaped(letter) ==
  IF letter \in {Quote, Backslash, Slash} THEN letter
  ELSE IF \E c \in DOMAIN ShortEscape : ShortEscape[c] = letter
       THEN CHOOSE c \in DOMAIN ShortEscape : ShortEscape[c] = letter ELSE NUL

\* The second loop: what the bytes up to the closing quote, the last of `quoted`, stand
\* for, and where it stopped.
RECURSIVE Decode(_, _, _)
Decode(quoted, i, out) ==
  LET Stopped(ok) == [ok |-> ok, at |-> i, out |-> out]
      Hex(code) ==
        IF code.length = 0 THEN Stopped(FALSE)
        ELSE Decode(quoted, i + code.length, out \o code.bytes)
      Short(byte) ==
        IF byte = NUL THEN Stopped(FALSE) ELSE Decode(quoted, i + 2, Append(out, byte))
  IN  IF i >= Len(quoted) THEN Stopped(TRUE)
      ELSE IF quoted[i] # Backslash THEN Decode(quoted, i + 1, Append(out, quoted[i]))
      ELSE IF quoted[i + 1] = LowerU THEN Hex(Utf16ToUtf8(SubSeq(quoted, i, Len(quoted) - 1)))
      ELSE Short(Unescaped(quoted[i + 1]))

\* allocation_length + sizeof(""): the string with its opening quote, without one
\* byte of each escape, and a NUL.
AllocationLength(start, scan) == scan.end - start - scan.skipped + 1

\* parse_string
ParseString(s) ==
  LET Decoded(filled, scan, d) ==
        IF d.ok THEN [filled EXCEPT !.item = StringOf(CString(d.out)), !.offset = scan.end + 1]
        ELSE Freed([filled EXCEPT !.offset = s.offset + d.at], 1)
      Filled(output, scan, d) ==
        Decoded([output EXCEPT
                   !.overflow = @ \/ Len(d.out) + 1 > AllocationLength(s.offset, scan)], scan, d)
      Scanned(output, scan) ==
        IF ~Is(s, Quote) \/ ~scan.found \/ ~output.ok THEN Rejected(Moved(s, 1))
        ELSE Filled(output, scan, Decode(SubSeq(s.content, s.offset + 2, scan.end + 1), 1, <<>>))
  IN  Scanned(Allocated(s), Scan(s.content, s.offset + 1, 0))

-----------------------------------------------------------------------------
(* Values *)

RECURSIVE ParseValue(_), ParseItems(_, _), ParseMembers(_, _)

\* Mutated form: the depth is not given back.
ClosedDeep(s, v) == Moved([s EXCEPT !.item = v], 1)

\* The list ends: the container takes its items.
Closed(s, v) == Moved([s EXCEPT !.depth = @ - 1, !.item = v], 1)

\* The loop of parse_array.  When an item cannot be allocated or parsed, or no comma
\* and no bracket follows, the items are deleted, the unfinished one with them.
ParseItems(s, items) ==
  LET Separated(after, all) ==
        IF Is(after, Comma) THEN ParseItems(after, all)
        ELSE IF Is(after, CloseArray) THEN Closed(after, ArrayOf(all))
        ELSE Freed(after, Blocks(ArrayOf(all)) - 1)
      Read(read) ==
        IF read.ok THEN Separated(SkipWhitespace(read), Append(items, read.item))
        ELSE Freed(read, Blocks(ArrayOf(items)))
      Begun(new) ==
        IF new.ok THEN Read(ParseValue(SkipWhitespace(new)))
        ELSE Freed(s, Blocks(ArrayOf(items)) - 1)
  IN  Begun(Allocated(Moved(s, 1)))

\* Mutated form: the name of the member that failed is not deleted.
ParseMembersKeepingName(s, members) ==
  LET before == Blocks(ObjectOf(members)) - 1
      Separated(after, all) ==
        IF Is(after, Comma) THEN ParseMembers(after, all)
        ELSE IF Is(after, CloseObject) THEN Closed(after, ObjectOf(all))
        ELSE Freed(after, Blocks(ObjectOf(all)) - 1)
      Read(read, chars) ==
        IF read.ok THEN Separated(SkipWhitespace(read), Append(members, <<chars, read.item>>))
        ELSE Freed(read, before + 1)
      Named(colon) ==
        IF Is(colon, Colon)
        THEN Read(ParseValue(SkipWhitespace(Moved(colon, 1))), colon.item.chars)
        ELSE Freed(colon, before + 1)
      Begun(new) ==
        IF new.ok
        THEN LET NameRead(n) == IF n.ok THEN Named(SkipWhitespace(n)) ELSE Freed(n, before + 1)
             IN  NameRead(ParseString(SkipWhitespace(new)))
        ELSE Freed(s, before)
  IN  Begun(Allocated(Moved(s, 1)))

\* The loop of parse_object: a name, a colon, a value.
ParseMembers(s, members) ==
  LET before == Blocks(ObjectOf(members)) - 1
      Separated(after, all) ==
        IF Is(after, Comma) THEN ParseMembers(after, all)
        ELSE IF Is(after, CloseObject) THEN Closed(after, ObjectOf(all))
        ELSE Freed(after, Blocks(ObjectOf(all)) - 1)
      Read(read, chars) ==
        IF read.ok THEN Separated(SkipWhitespace(read), Append(members, <<chars, read.item>>))
        ELSE Freed(read, before + 2)
      Named(colon) ==
        IF Is(colon, Colon)
        THEN Read(ParseValue(SkipWhitespace(Moved(colon, 1))), colon.item.chars)
        ELSE Freed(colon, before + 2)
      Begun(new) ==
        IF new.ok
        THEN LET NameRead(n) == IF n.ok THEN Named(SkipWhitespace(n)) ELSE Freed(n, before + 1)
             IN  NameRead(ParseString(SkipWhitespace(new)))
        ELSE Freed(s, before)
  IN  Begun(Allocated(Moved(s, 1)))

\* parse_array and parse_object up to their loop, which steps back to the bracket or
\* the byte in front of the first item.
Opened(s) == SkipWhitespace([s EXCEPT !.offset = @ + 1, !.depth = @ + 1])

ParseArray(s) ==
  LET Inside(inner) ==
        IF s.depth >= CJSON_NESTING_LIMIT THEN Rejected(s)
        ELSE IF Is(inner, CloseArray) THEN Closed(inner, ArrayOf(<<>>))
        ELSE ParseItems(Moved(inner, -1), <<>>)
  IN  Inside(Opened(s))

ParseObject(s) ==
  LET Inside(inner) ==
        IF s.depth >= CJSON_NESTING_LIMIT THEN Rejected(s)
        ELSE IF Is(inner, CloseObject) THEN Closed(inner, ObjectOf(<<>>))
        ELSE ParseMembers(Moved(inner, -1), <<>>)
  IN  Inside(Opened(s))

\* parse_value
ParseValue(s) ==
  IF \E word \in {Null, False, True} : LookingAt(s, word)
  THEN LET word == CHOOSE w \in {Null, False, True} : LookingAt(s, w)
       IN  Moved(Holding(s, Literal(word)), Len(word))
  ELSE IF Is(s, Quote) THEN ParseString(s)
  ELSE IF At(s) \in Digits \cup {Minus} THEN ParseNumber(s)
  ELSE IF Is(s, OpenArray) THEN ParseArray(s)
  ELSE IF Is(s, OpenObject) THEN ParseObject(s)
  ELSE Rejected(s)

-----------------------------------------------------------------------------
\* Where the error is said to be: the offset, or the last byte when it is past it.
ErrorPosition(s) == IF s.offset < Len(s.content) THEN s.offset ELSE Len(s.content) - 1

\* cJSON_ParseWithOpts.  A text that must end with the value (strict) may end with
\* whitespace.
Parse(text, strict, fuel) ==
  LET Failure(s) == [s EXCEPT !.offset = ErrorPosition(s)]
      Ended(end) ==
        IF strict /\ ~Is(end, NUL) THEN Failure(Freed(end, Blocks(end.item))) ELSE end
      Read(read) ==
        IF read.ok THEN Ended(IF strict THEN SkipWhitespace(read) ELSE read)
        ELSE Failure(Freed(read, 1))
      Begun(new) ==
        IF new.ok THEN Read(ParseValue(SkipWhitespace(SkipBom(new)))) ELSE Failure(new)
  IN  Begun(Allocated(Input(text, fuel)))
=============================================================================
