------------------------------- MODULE Escape -------------------------------
(***************************************************************************)
(* The bytes of a string and the literals they are written as: what        *)
(* nbuf_print_escaped writes and what nbuf_unescape makes of it (util.c).  *)
(* Characters are the numbers of their bytes.                              *)
(***************************************************************************)
EXTENDS Integers, Sequences, SequencesExt, TLC

NL == 10
QUOTE == 34
BACKSLASH == 92
ZERO == 48
LETTER_x == 120

\* <ctype.h> in the C locale
Digit == 48 .. 57
OctDigit == 48 .. 55
HexDigit == Digit \cup 65 .. 70 \cup 97 .. 102
Alpha == 65 .. 90 \cup 97 .. 122
Alnum == Alpha \cup Digit
Space == 9 .. 13 \cup {32}
Printable == 32 .. 126

\* The control characters that have a letter of their own: a b t n v f r
Letter == 7 :> 97 @@ 8 :> 98 @@ 9 :> 116 @@ 10 :> 110 @@ 11 :> 118 @@ 12 :> 102 @@ 13 :> 114

HexValue(c) == IF c \in Digit THEN c - 48 ELSE IF c < 97 THEN c - 55 ELSE c - 87

-----------------------------------------------------------------------------
(* nbuf_print_escaped *)

\* %o, or %03o
Octal(ch, wide) ==
    LET digits == <<ZERO + ch \div 64, ZERO + ((ch \div 8) % 8), ZERO + (ch % 8)>>
    IN  IF wide \/ ch >= 64 THEN digits ELSE IF ch >= 8 THEN Tail(digits) ELSE <<digits[3]>>

\* Mutant: the next character is not looked at.
Piece_Short(s, i, loose) ==
    CASE s[i] \in DOMAIN Letter -> <<BACKSLASH, Letter[s[i]]>>
      [] s[i] \in {QUOTE, BACKSLASH} -> <<BACKSLASH, s[i]>>
      [] s[i] \in Printable \ {QUOTE, BACKSLASH} \/ (loose /\ s[i] >= 128) -> <<s[i]>>
      [] OTHER -> <<BACKSLASH>> \o Octal(s[i], FALSE)

\* How the byte s[i] is written: in full if a digit follows the escape.
Piece(s, i, loose) ==
    LET digitNext == i < Len(s) /\ s[i + 1] \in Digit
    IN  CASE s[i] \in DOMAIN Letter -> <<BACKSLASH, Letter[s[i]]>>
          [] s[i] \in {QUOTE, BACKSLASH} -> <<BACKSLASH, s[i]>>
          [] s[i] \in Printable \ {QUOTE, BACKSLASH} \/ (loose /\ s[i] >= 128) -> <<s[i]>>
          [] OTHER -> <<BACKSLASH>> \o Octal(s[i], digitNext)

\* A literal that grows past maxCol is closed and goes on in the next line.
Printed(s, maxCol, loose) ==
    LET put(acc, i) ==
            LET break == maxCol > 0 /\ acc.col + 6 > maxCol
                piece == Piece(s, i, loose)
            IN  [col |-> Len(piece) + IF break THEN 0 ELSE acc.col,
                 out |-> acc.out \o (IF break THEN <<QUOTE, NL, QUOTE>> ELSE <<>>) \o piece]
    IN  <<QUOTE>> \o FoldLeftDomain(put, [col |-> 0, out |-> <<>>], s).out \o <<QUOTE>>

-----------------------------------------------------------------------------
(* nbuf_unescape on the characters of text from `from' up to `end' *)

\* The octal digits at i, three at most
OctalRun(text, i, end) ==
    CHOOSE n \in 0 .. 3 :
        /\ \A k \in 0 .. n - 1 : i + k < end /\ text[i + k] \in OctDigit
        /\ n = 3 \/ i + n >= end \/ text[i + n] \notin OctDigit

IsHex(text, i, end) ==
    i + 2 < end /\ text[i] = LETTER_x /\ text[i + 1] \in HexDigit /\ text[i + 2] \in HexDigit

\* The byte that the escape at i, past the backslash, stands for, and where it ends
Escape(text, i, end) ==
    LET n == OctalRun(text, i, end)
        value[k \in 0 .. n] == IF k = 0 THEN 0 ELSE 8 * value[k - 1] + text[i + k - 1] - ZERO
        letters == {c \in DOMAIN Letter : Letter[c] = text[i]}
    IN  CASE IsHex(text, i, end) ->
                [byte |-> 16 * HexValue(text[i + 1]) + HexValue(text[i + 2]), next |-> i + 3]
          [] ~IsHex(text, i, end) /\ n > 0 -> [byte |-> value[n] % 256, next |-> i + n]
          [] OTHER -> [byte |-> IF letters = {} THEN text[i] ELSE CHOOSE c \in letters : TRUE,
                       next |-> i + 1]

\* The bytes written, before the '\0', and where the last escape ended
Unescaped(text, from, end) ==
    LET rest[i \in from .. end + 1] ==
            LET at == IF text[i] = BACKSLASH THEN Escape(text, i + 1, end)
                      ELSE [byte |-> text[i], next |-> i + 1]
            IN  IF i >= end THEN [bytes |-> <<>>, stop |-> i]
                ELSE [rest[at.next] EXCEPT !.bytes = <<at.byte>> \o @]
    IN  rest[from]
=============================================================================
