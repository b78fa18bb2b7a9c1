-------------------------------- MODULE Lexer --------------------------------
(***************************************************************************)
(* The lexer (lex.c) over the characters of one input, and what parse_str  *)
(* of parse.c makes of the string literals it finds: adjacent ones are one *)
(* string.  One action is one turn of nbuf_lex: spaces are skipped, then   *)
(* a comment is passed over or a token returned.  A loop over characters   *)
(* is the stretch of text it consumes.                                     *)
(***************************************************************************)
EXTENDS Escape, FiniteSets

CONSTANTS Inputs,    \* texts to read
          Strings,   \* strings to print and to read back
          MaxCols    \* values of max_col for nbuf_print_escaped, 0 for none

VARIABLES
    text,            \* the input
    bytes,           \* the string the text was printed from; <<-1>> if it was not
    token, input,    \* position of the token, and of the next character
    lineno,
    pc,              \* "lex", in nbuf_lex; "token", back from it; "end"
    kind,            \* the token returned: a Token_ value or a character
    str,             \* bytes of the string under construction; <<>> outside parse_str
    strings,         \* history: the strings read
    tokens           \* history: the tokens returned, [kind, from, to]

vars == <<text, bytes, token, input, lineno, pc, kind, str, strings, tokens>>

EOF == 256
ID == 257
INT == 258
FLT == 259
STR == 260
UNK == 261

SLASH == 47
STAR == 42
HASH == 35
MINUS == 45
PLUS == 43
DOT == 46
X == {88, LETTER_x}
E == {69, 101}
UNDERSCORE == 95

\* GETC: the character at p
Ch(p) == IF p > Len(text) THEN EOF ELSE text[p]

\* Where a loop that reads on over characters in C, from p on, stops
Past(C, p) ==
    CHOOSE q \in p .. Len(text) + 1 : Ch(q) \notin C /\ \A r \in p .. q - 1 : Ch(r) \in C

Newlines(p, q) == Cardinality({r \in p .. q - 1 : text[r] = NL})

Init ==
    /\ \/ text \in Inputs /\ bytes = <<-1>>
       \/ /\ bytes \in Strings
          /\ \E maxCol \in MaxCols, loose \in BOOLEAN : text = Printed(bytes, maxCol, loose)
    /\ token = 1 /\ input = 1 /\ lineno = 1 /\ pc = "lex" /\ kind = EOF
    /\ str = <<>> /\ strings = <<>> /\ tokens = <<>>

-----------------------------------------------------------------------------
(* nbuf_lex *)

\* skipspaces
Start == Past(Space, input)

\* The token of kind k from Start up to `to', over `lines' newlines, is returned.
Return(k, to, lines) ==
    /\ pc' = "token" /\ kind' = k
    /\ token' = Start /\ input' = to
    /\ lineno' = lineno + Newlines(input, Start) + lines
    /\ tokens' = Append(tokens, [kind |-> k, from |-> Start, to |-> to])
    /\ UNCHANGED <<text, bytes, str, strings>>

\* goto reinput
Reinput(to, lines) ==
    /\ token' = Start /\ input' = to
    /\ lineno' = lineno + Newlines(input, Start) + lines
    /\ UNCHANGED <<text, bytes, pc, kind, str, strings, tokens>>

End ==
    /\ pc = "lex" /\ Start > Len(text)
    /\ pc' = "token" /\ kind' = EOF /\ input' = Start
    /\ lineno' = lineno + Newlines(input, Start)
    /\ UNCHANGED <<text, bytes, token, str, strings, tokens>>

\* Mutant: skipline gives back what it read.
LineComment_Stays ==
    /\ pc = "lex"
    /\ Ch(Start) = HASH \/ (Ch(Start) = SLASH /\ Ch(Start + 1) = SLASH)
    /\ Reinput(Start, 0)

\* skipline leaves the newline to skipspaces.
LineComment ==
    /\ pc = "lex"
    /\ Ch(Start) = HASH \/ (Ch(Start) = SLASH /\ Ch(Start + 1) = SLASH)
    /\ Reinput(Past(0 .. 255 \ {NL}, Start), 0)

\* Where the comment ends whose text begins at p: the end of the input if it is not closed
CommentEnd(p) ==
    LET closed == {q \in p .. Len(text) : Ch(q) = STAR /\ Ch(q + 1) = SLASH}
    IN  IF closed = {} THEN Len(text) + 1 ELSE 2 + CHOOSE q \in closed : \A r \in closed : q <= r

\* Mutant: the newline after a star is not counted.
LongComment_Stars ==
    /\ pc = "lex" /\ Ch(Start) = SLASH /\ Ch(Start + 1) = STAR
    /\ Reinput(CommentEnd(Start + 2),
               Cardinality({r \in Start .. CommentEnd(Start + 2) - 1 :
                                text[r] = NL /\ text[r - 1] # STAR}))

\* skiplong
LongComment ==
    /\ pc = "lex" /\ Ch(Start) = SLASH /\ Ch(Start + 1) = STAR
    /\ Reinput(CommentEnd(Start + 2), Newlines(Start, CommentEnd(Start + 2)))

\* An integer from its first digit p: where it ends, and its base
Integer(p) ==
    CASE Ch(p) = ZERO /\ Ch(p + 1) \in X -> [to |-> Past(HexDigit, p + 2), base |-> 16]
      [] Ch(p) = ZERO /\ Ch(p + 1) \in OctDigit -> [to |-> Past(OctDigit, p + 1), base |-> 8]
      [] Ch(p) = ZERO /\ Ch(p + 1) \notin X \cup OctDigit -> [to |-> p + 1, base |-> 10]
      [] OTHER -> [to |-> Past(Digit, p + 1), base |-> 10]

\* Mutant: any base may have a fraction and an exponent.
Fraction_AnyBase(n) ==
    LET frac == IF Ch(n.to) = DOT THEN Past(Digit, n.to + 1) ELSE n.to
        exp == IF Ch(frac + 1) \in {PLUS, MINUS} THEN frac + 2 ELSE frac + 1
    IN  IF Ch(frac) \in E THEN Past(Digit, exp) ELSE frac

\* A fraction and an exponent may follow a decimal integer, with any number of digits.
Fraction(n) ==
    LET frac == IF Ch(n.to) = DOT THEN Past(Digit, n.to + 1) ELSE n.to
        exp == IF Ch(frac + 1) \in {PLUS, MINUS} THEN frac + 2 ELSE frac + 1
    IN  IF n.base # 10 THEN n.to ELSE IF Ch(frac) \in E THEN Past(Digit, exp) ELSE frac

\* scannum
Number ==
    LET n == Integer(IF Ch(Start) = MINUS THEN Start + 1 ELSE Start)
        to == Fraction(n)
    IN  /\ pc = "lex"
        /\ Ch(Start) \in Digit \/ (Ch(Start) = MINUS /\ Ch(Start + 1) \in Digit)
        /\ Return(IF Ch(to) \in Alnum THEN UNK ELSE IF to > n.to THEN FLT ELSE INT, to, 0)

\* Mutant: the character after the identifier is not put back.
Ident_NoUnget ==
    /\ pc = "lex" /\ Ch(Start) \in Alpha \cup {UNDERSCORE}
    /\ Return(ID, Past(Alnum \cup {UNDERSCORE}, Start + 1) + 1, 0)

\* scanident
Ident ==
    /\ pc = "lex" /\ Ch(Start) \in Alpha \cup {UNDERSCORE}
    /\ Return(ID, Past(Alnum \cup {UNDERSCORE}, Start + 1), 0)

\* scanstr past the opening quote: where it stops, the newlines it counts, and
\* whether there is a closing quote.  A character after a backslash is not looked at.
Literal(p) ==
    LET from[q \in p .. Len(text) + 2] ==
            CASE Ch(q) = QUOTE -> [to |-> q + 1, lines |-> 0, closed |-> TRUE]
              [] Ch(q) # QUOTE /\ q >= Len(text) -> [to |-> Len(text) + 1, lines |-> 0, closed |-> FALSE]
              [] Ch(q) = BACKSLASH /\ q < Len(text) -> from[q + 2]
              [] OTHER -> [from[q + 1] EXCEPT !.lines = @ + IF Ch(q) = NL THEN 1 ELSE 0]
    IN  from[p]

String ==
    LET lit == Literal(Start + 1)
    IN  /\ pc = "lex" /\ Ch(Start) = QUOTE
        /\ Return(IF lit.closed THEN STR ELSE UNK, lit.to, lit.lines)

\* Any other character is a token; a slash or a minus only on its own.
Punct ==
    LET c == Ch(Start)
    IN  /\ pc = "lex" /\ c \notin Alnum \cup {EOF, UNDERSCORE, HASH, QUOTE}
        /\ c = SLASH => Ch(Start + 1) \notin {STAR, SLASH}
        /\ c = MINUS => Ch(Start + 1) \notin Digit
        /\ Return(c, Start + 1, 0)

-----------------------------------------------------------------------------
(* parse_str, for the strings among the tokens *)

\* The '\0' of the literal before is removed, and one added.
Joined(s, more) == Front(s) \o more \o <<0>>

\* A literal, with its quotes, is unescaped behind those before it.
TakeLiteral ==
    /\ pc = "token" /\ kind = STR
    /\ str' = Joined(IF str = <<>> THEN <<0>> ELSE str, Unescaped(text, token + 1, input - 1).bytes)
    /\ pc' = "lex"
    /\ UNCHANGED <<text, bytes, token, input, lineno, kind, strings, tokens>>

\* Any other token ends the string before it.
TakeOther ==
    /\ pc = "token" /\ kind # STR
    /\ strings' = IF str = <<>> THEN strings ELSE Append(strings, str)
    /\ str' = <<>>
    /\ pc' = IF kind \in {EOF, UNK} THEN "end" ELSE "lex"
    /\ UNCHANGED <<text, bytes, token, input, lineno, kind, tokens>>

Next ==
    \/ End \/ LineComment \/ LongComment \/ Number \/ Ident \/ String \/ Punct
    \/ TakeLiteral \/ TakeOther

\* nbuf_lex and its callers run until the input ends.
Spec == Init /\ [][Next]_vars /\ WF_vars(Next)

-----------------------------------------------------------------------------
TypeOK ==
    /\ token \in 1 .. input /\ input \in 1 .. Len(text) + 1 /\ lineno \in Nat
    /\ pc \in {"lex", "token", "end"} /\ kind \in 0 .. UNK
    /\ str \in Seq(0 .. 255) /\ strings \in Seq(Seq(0 .. 255))

\* scanstr and nbuf_unescape agree on where a literal ends: the last escape in
\* it stops at the closing quote and never takes the quote for its character.
EscapesEndAtQuote ==
    \A t \in ToSet(tokens) :
        t.kind = STR => Unescaped(text, t.from + 1, t.to - 1).stop = t.to - 1

\* A string that nbuf_print_escaped wrote, broken into lines or not, is read
\* back byte for byte and as one string.
LiteralsRead ==
    /\ EscapesEndAtQuote
    /\ pc = "end" /\ bytes # <<-1>> => strings = <<Append(bytes, 0)>>

\* The forms listed at lex.c:114, and what the code takes beyond them: 0x
\* without a digit, a fraction or an exponent without digits.
AllIn(s, C) == ToSet(s) \subseteq C
IsDec(s) == s = <<ZERO>> \/ (s # <<>> /\ s[1] \in Digit \ {ZERO} /\ AllIn(s, Digit))
IsOct(s) == Len(s) >= 2 /\ s[1] = ZERO /\ AllIn(s, OctDigit)
IsHexInt(s) == Len(s) >= 2 /\ s[1] = ZERO /\ s[2] \in X /\ AllIn(Tail(Tail(s)), HexDigit)
IsInt(s) == IsDec(s) \/ IsOct(s) \/ IsHexInt(s)
IsFrac(s) == s = <<>> \/ (s[1] = DOT /\ AllIn(Tail(s), Digit))
IsExp(s) ==
    \/ s = <<>>
    \/ /\ s[1] \in E
       /\ AllIn(Tail(s), Digit) \/ (Len(s) > 1 /\ s[2] \in {PLUS, MINUS} /\ AllIn(Tail(Tail(s)), Digit))
IsFloat(s) ==
    \E i, j \in 0 .. Len(s) :
        /\ i <= j /\ IsDec(SubSeq(s, 1, i))
        /\ IsFrac(SubSeq(s, i + 1, j)) /\ IsExp(SubSeq(s, j + 1, Len(s)))

\* A number token is the longest number that the text goes on with, an integer
\* if it has neither fraction nor exponent; a letter or digit right after it
\* makes it an error.
NumbersRead ==
    \A t \in ToSet(tokens) :
        LET first == IF Ch(t.from) = MINUS THEN t.from + 1 ELSE t.from
            Upto(q) == SubSeq(text, first, q - 1)
        IN  Ch(first) \in Digit =>
            /\ IsInt(Upto(t.to)) \/ IsFloat(Upto(t.to))
            /\ \A q \in t.to + 1 .. Len(text) + 1 : ~IsInt(Upto(q)) /\ ~IsFloat(Upto(q))
            /\ t.kind = IF Ch(t.to) \in Alnum THEN UNK ELSE IF IsInt(Upto(t.to)) THEN INT ELSE FLT

\* A newline in a literal that has a backslash before it is part of an escape.
Escaped(r) ==
    \E t \in ToSet(tokens) :
        /\ t.kind = STR /\ t.from < r /\ r < t.to
        /\ \E b \in t.from + 1 .. r - 1 :
               /\ (r - b) % 2 = 1 /\ \A q \in b .. r - 1 : text[q] = BACKSLASH
               /\ text[b - 1] # BACKSLASH \/ b = t.from + 1

\* The line that errors are reported at is the line that was reached: each
\* newline is counted once, in spaces, comments and literals, though not after
\* a backslash in a literal.
LinesCounted ==
    kind # UNK => lineno = 1 + Cardinality({r \in 1 .. input - 1 : text[r] = NL /\ ~Escaped(r)})

\* The lexer always comes to the end of its input.
LexerEnds == <>(pc = "end")
=============================================================================
