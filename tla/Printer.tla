------------------------------- MODULE Printer -------------------------------
(***************************************************************************)
(* The text format printer (print.c): the tokens it writes for a message   *)
(* of the schema of Message, each with its value.  It looks at nothing but *)
(* the buffer, through the same functions as the generated getters.        *)
(***************************************************************************)
EXTENDS Message, SequencesExt

Token(f, v) == [f |-> f, v |-> v]
CloseBrace == Token("}", 0)
Comment == Token("comment", 0)

\* nbuf_MsgDef_fields, in the order of the schema
FieldNames == <<"x", "s", "n", "r", "xs", "ss">>

ScalarField(b, o) == IF HasScalar(o) THEN <<Token("x", GetScalar(b, o))>> ELSE <<>>

\* A string that is missing is printed as an empty one.
StrField(b, o) == <<Token("s", GetStr(b, o))>>

ScalarFields(b, xs) == [i \in 1 .. xs.n |-> Token("xs", ScalarAt(b, xs, i))]

\* Mutant: an element that is empty is left out, as an empty field would be.
StrFields_NonEmpty(b, ss) ==
    SelectSeq([i \in 1 .. ss.n |-> Token("ss", StrAt(b, ss, i))], LAMBDA t : t.v # 0)
StrFields(b, ss) == [i \in 1 .. ss.n |-> Token("ss", StrAt(b, ss, i))]

\* print_msg and, for each field, print_field; below the limit of the depth
\* only a comment tells of the message.
RECURSIVE PrintMsg(_, _, _, _)
PrintMsg(b, o, depth, limit) ==
    LET MsgFields(f, r) == FlattenSeq(
            [i \in 1 .. r.n |->
                <<Token(f, 0)>> \o PrintMsg(b, Element(r, i), depth + 1, limit) \o <<CloseBrace>>])
        Field(f) == CASE f = "x" -> ScalarField(b, o)
                      [] f = "s" -> StrField(b, o)
                      [] f \in {"n", "r"} -> MsgFields(f, Raw(b, o, f))
                      [] f = "xs" -> ScalarFields(b, Raw(b, o, f))
                      [] f = "ss" -> StrFields(b, Raw(b, o, f))
    IN  IF depth >= limit THEN <<Comment>>
        ELSE FlattenSeq([i \in DOMAIN FieldNames |-> Field(FieldNames[i])])

\* nbuf_print
Printed(b, o, limit) == PrintMsg(b, o, 0, limit)

\* The limit was met somewhere in the message.
CutShort(printed) == Comment \in ToSet(printed)

\* What the lexer makes of the text: comments are no tokens.
Lexed(printed) == SelectSeq(printed, LAMBDA t : t # Comment) \o <<Token("EOF", 0)>>
=============================================================================
