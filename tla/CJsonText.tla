------------------------------ MODULE CJsonText ------------------------------
(***************************************************************************)
(* A text on its way through cJSON.c: a value is printed by one of the     *)
(* four print calls, or a text comes from elsewhere; on the way its bytes  *)
(* may change; then it may be parsed or minified.                          *)
(***************************************************************************)
EXTENDS CJsonGrammar, CJsonMinify

CONSTANTS
  Values,      \* the values printed
  Codes,       \* characters that arrive as \u escapes
  Comments,    \* comments a text may have
  Alphabet,    \* bytes that change on the way
  Sizes,       \* buffers a caller passes or guesses
  Fuel,        \* how many allocations of a call succeed, in the calls looked at
  MaxEdits     \* bound: bytes that change

ASSUME TextAssumption ==
  /\ Sizes \subseteq 0 .. INT_MAX
  /\ Fuel \subseteq Nat
  /\ MaxEdits \in Nat

VARIABLES
  reallocate,  \* whether the allocator in use has a realloc
  call,        \* the call that made the text: "none", "print", "buffered", "preallocated", or
               \* "escape", "commented", and those of the modules that extend this one
  source,      \* what it was made from: a value or a character
  format, size, \* its arguments
  printed,     \* the printbuffer it left
  text,        \* the bytes on the way
  edits        \* how many of them changed

vars == <<reallocate, call, source, format, size, printed, text, edits>>

Untouched == Printbuffer(0, FALSE, FALSE, TRUE, 0, 0)

Init ==
  /\ reallocate = TRUE
  /\ call = "none"
  /\ source = Literal(Null)
  /\ format = FALSE
  /\ size = 0
  /\ printed = Untouched
  /\ text = <<>>
  /\ edits = 0

\* cJSON_InitHooks: the caller gives a malloc and a free, or leaves them as they are;
\* realloc is used with malloc and free only.
InitHooks ==
  \E malloc_fn, free_fn \in {"default", "own"} :
    /\ call = "none"
    /\ reallocate' = (malloc_fn = "default" /\ free_fn = "default")
    /\ UNCHANGED <<call, source, format, size, printed, text, edits>>

\* The call returns p; what it printed is the text.
Returns(name, v, f, n, p) ==
  /\ call = "none"
  /\ call' = name
  /\ source' = v
  /\ format' = f
  /\ size' = n
  /\ printed' = p
  /\ text' = IF p.ok THEN CString(p.bytes) ELSE <<>>
  /\ UNCHANGED <<reallocate, edits>>

CallPrint ==
  \E v \in Values, f \in BOOLEAN, fuel \in Fuel :
    Returns("print", v, f, default_buffer_size, print(v, f, reallocate, fuel))

\* A guess of 0 without a realloc makes ensure copy a byte of an empty block.
CallPrintBuffered ==
  \E v \in Values, f \in BOOLEAN, fuel \in Fuel, n \in Sizes :
    /\ reallocate \/ n > 0
    /\ Returns("buffered", v, f, n, PrintBuffered(v, n, f, reallocate, fuel))

CallPrintPreallocated ==
  \E v \in Values, f \in BOOLEAN, n \in Sizes :
    Returns("preallocated", v, f, n, PrintPreallocated(v, n, f))

ArriveEscaped ==
  \E c \in Codes :
    /\ call = "none"
    /\ call' = "escape"
    /\ source' = c
    /\ text' = <<Quote>> \o EscapeOf(c) \o <<Quote>>
    /\ UNCHANGED <<reallocate, format, size, printed, edits>>

\* A print with a comment in front of it, behind it, or behind its opening bracket.
ArriveCommented ==
  \E v \in Values, f \in BOOLEAN, c \in Comments :
    LET t == Rendered(v, f, 0)
    IN  /\ call = "none"
        /\ call' = "commented"
        /\ source' = v
        /\ format' = f
        /\ text' \in {SubSeq(t, 1, n) \o c \o SubSeq(t, n + 1, Len(t)) :
                       n \in {0, Len(t)} \cup IF v.type \in {"array", "object"} THEN {1} ELSE {}}
        /\ UNCHANGED <<reallocate, size, printed, edits>>

\* A byte is lost, changed or added.
ByteChanges ==
  /\ edits < MaxEdits
  /\ call \in {"print", "escape"}
  /\ edits' = edits + 1
  /\ \E i \in 1 .. Len(text) + 1, b \in Alphabet :
       text' \in {InsertAt(text, i, b)} \cup
                 IF i > Len(text) THEN {} ELSE {ReplaceAt(text, i, b), RemoveAt(text, i)}
  /\ UNCHANGED <<reallocate, call, source, format, size, printed>>

Next ==
  \/ InitHooks
  \/ CallPrint \/ CallPrintBuffered \/ CallPrintPreallocated
  \/ ArriveEscaped \/ ArriveCommented \/ ByteChanges

Spec == Init /\ [][Next]_vars

-----------------------------------------------------------------------------
WasPrinted == call \in {"print", "buffered", "preallocated"}
Enough == Max(Fuel)

TypeOK ==
  /\ reallocate \in BOOLEAN
  /\ call \in STRING
  /\ printed.length = Len(printed.bytes) /\ printed.length \in 0 .. INT_MAX
  /\ printed.offset \in Nat /\ printed.depth \in Nat
  /\ text \in Seq(1 .. 255)
  /\ edits \in 0 .. MaxEdits

\* No print writes or reads outside its block, although each piece of text counts its
\* own length beforehand and the depth of the tabs changes on the way
\* (cJSON.c:371-469, 825-950, 1433-1492, 1604-1715).
PrintStaysInBlock == ~printed.overflow

\* A print that fails leaves no block behind, one that succeeds the block it returns
\* (cJSON.c:407-451, 1085-1188).
PrintOwnsOneBlock ==
  call \in {"print", "buffered"} => printed.live = IF printed.ok THEN 1 ELSE 0

\* However a print ends, its buffer is a block of the length it says, nothing outside was
\* touched, and what the caller does not get is freed (cJSON.c:371-469, 1085-1207).
PrintIsSafe == TypeOK /\ PrintStaysInBlock /\ PrintOwnsOneBlock

\* What is printed is the value, whichever call printed it and however often the
\* block moved (cJSON.c:472-535, 825-950, 1265-1336, 1433-1492, 1604-1715).
PrintIsRendering ==
  WasPrinted /\ printed.ok /\ edits = 0 =>
    text = Rendered(source, format, 0) /\ NUL \in ToSet(printed.bytes)

\* A preallocated buffer is enough exactly when it has one byte more than the text and
\* its NUL: the "5 bytes more" of cJSON.h:152 are never needed (cJSON.c:371-402, 1190-1207).
PreallocatedNeedsOneByte ==
  call = "preallocated" =>
    (printed.ok <=> size >= Len(Rendered(source, format, 0)) + 2)

ParsesTo(t, v) ==
  LET Gave(p) == p.ok /\ p.item = v IN Gave(Parse(t, TRUE, Enough))

\* A text that is printed and not changed is parsed back to the value, whitespace and
\* escapes included, as long as it is not nested too deep (cJSON.c:696-822, 998-1080,
\* 1339-1601).
PrintedIsParsedBack ==
  WasPrinted /\ printed.ok /\ edits = 0 =>
    (ParsesTo(text, source) <=> Nesting(source) <= CJSON_NESTING_LIMIT)

\* Parsing accepts the texts of the grammar and no others, whatever byte was lost,
\* changed or added (cJSON.c:264-338, 696-822, 1210-1262, 1339-1430, 1495-1601).
AcceptsTheGrammar == HexEscapesAreWhole(text) => (Parse(text, TRUE, Enough).ok <=> IsText(text))

\* A parse that fails frees all it had allocated; one that succeeds holds the blocks of
\* its value.
FreesOnFailure(p) == p.live = IF p.ok THEN Blocks(p.item) ELSE 0

\* The place of the error, or the end of the value, lies inside the text or at its NUL.
EndsInsideText(p) == p.offset \in 0 .. Len(text)

\* The block estimated for a string is never too small for what its escapes decode to.
StringsFitTheirBlock(p) == ~p.overflow

\* Whatever the text is and at whichever byte or allocation a parse fails, it stays inside
\* its blocks, frees what it drops and stops inside the text (cJSON.c:696-822, 961-1080,
\* 1339-1601).
ParseIsSafe ==
  LET Safe(p) == FreesOnFailure(p) /\ EndsInsideText(p) /\ StringsFitTheirBlock(p)
  IN  \A fuel \in Fuel, strict \in BOOLEAN : Safe(Parse(text, strict, fuel))

\* A \u escape, or a pair of them, becomes the UTF-8 of its character (cJSON.c:575-693).
EscapesMeanTheirCharacter ==
  LET Means(chars, c) == IF c = NUL THEN chars = <<>> ELSE chars # <<>> /\ CharacterOf(chars) = c
      Gave(p) == p.ok /\ Means(p.item.chars, source)
  IN  call = "escape" /\ edits = 0 => Gave(Parse(text, TRUE, Enough))

\* Minifying a text keeps its value, with comments or without, and stays inside the
\* text; one that does not parse may take it past the NUL (cJSON.c:2631-2699).
MinifyKeepsValue ==
  LET Value(p) ==
        IF p.ok /\ ~(Len(text) > 2 /\ SubSeq(text, 1, 3) = BOM) THEN {p.item}
        ELSE IF call = "commented" /\ edits = 0 /\ Nesting(source) <= CJSON_NESTING_LIMIT
             THEN {source} ELSE {}
      Kept(m, v) == ~m.overrun /\ ParsesTo(m.text, v)
  IN  \A v \in Value(Parse(text, TRUE, Enough)) : Kept(Minified(text), v)
=============================================================================
