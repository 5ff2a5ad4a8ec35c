----------------------------- MODULE CJsonPieces -----------------------------
(***************************************************************************)
(* The pieces cJSON_Print puts together: a string with its escapes, whose  *)
(* length is counted before it is written, and a text of fixed length.     *)
(***************************************************************************)
EXTENDS CJsonBytes, PrintBuffer

\* What a byte of a string becomes in print.
Escaped(c) ==
  CASE c \in {Quote, Backslash}  -> <<Backslash, c>>
    [] c \in DOMAIN ShortEscape  -> <<Backslash, ShortEscape[c]>>
    [] c < 32 /\ c \notin DOMAIN ShortEscape ->
         <<Backslash, LowerU, Zero, Zero, HexDigit(c \div 16), HexDigit(c % 16)>>
    [] OTHER -> <<c>>

\* escape_characters: by how many bytes it becomes longer, counted beforehand.
EscapeLength(c) ==
  CASE c \in {Quote, Backslash} \cup DOMAIN ShortEscape -> 1
    [] c < 32 /\ c \notin DOMAIN ShortEscape -> 5
    [] OTHER -> 0

\* The loop that counts the bytes of a string in print, and the loop that writes them.
OutputLength(chars) ==
  LET counted[n \in 0 .. Len(chars)] ==
        IF n = 0 THEN 0 ELSE counted[n - 1] + 1 + EscapeLength(chars[n])
  IN  counted[Len(chars)]

Output(chars) ==
  LET written[n \in 0 .. Len(chars)] ==
        IF n = 0 THEN <<>> ELSE written[n - 1] \o Escaped(chars[n])
  IN  written[Len(chars)]

\* print_string_ptr: the closing quote goes where the count says the string ends.
PrintString(chars, p) ==
  Written(Written(Ensured(p, OutputLength(chars) + 3), 0, <<Quote>> \o Output(chars)),
          OutputLength(chars) + 1, <<Quote, NUL>>)

\* A piece of print that ends in a NUL, and the step over it without the NUL.
Piece(text, p) == Written(Ensured(p, Len(text) + 1), 0, Append(text, NUL))
Stepped(text, p) == Advanced(Piece(text, p), Len(text))

Tabs(n) == [i \in 1 .. n |-> Tab]
=============================================================================
