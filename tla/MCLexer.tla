------------------------------ MODULE MCLexer ------------------------------
(* Instance of Lexer: all short texts over the characters that one scanner *)
(* tells apart, and all short strings over bytes printed in different ways.*)
EXTENDS Lexer

Texts(C, n) == UNION {[1 .. k -> C] : k \in 0 .. n}

\* "  \  newline  a  x  1
InLiterals == {QUOTE, BACKSLASH, NL, 97, LETTER_x, 49}
\* 0  1  8  x  e  .  -
InNumbers == {ZERO, 49, 56, LETTER_x, 101, DOT, MINUS}
\* /  *  #  newline  a  space
InComments == {SLASH, STAR, HASH, NL, 97, 32}

MCInputs ==
    {<<QUOTE>> \o s : s \in Texts(InLiterals, 5)} \cup Texts(InNumbers, 5) \cup Texts(InComments, 5)

\* \0  \a  newline  "  \  1  8  x  31  177  200
MCStrings == Texts({0, 7, NL, QUOTE, BACKSLASH, 49, 56, LETTER_x, 31, 127, 200}, 3)
MCMaxCols == {0, 7}
=============================================================================
