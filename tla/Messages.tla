------------------------------ MODULE Messages ------------------------------
(***************************************************************************)
(* Messages on their ways: a program builds one with the generated         *)
(* accessors (Accessors), the printer turns it into text (Printer), the    *)
(* parser reads the text into another buffer (TextParser), and the raw     *)
(* decoder walks over the buffers (RawDecoder), as nbufc -decode, -encode  *)
(* and -decode_raw do.  The parser also reads any other text.              *)
(***************************************************************************)
EXTENDS TextParser, Accessors, Printer, RawDecoder

CONSTANTS BuiltBound   \* the bounds of a parse of what was printed

VARIABLE stage   \* "building" a message; "printed", in full or "cut" at the limit of
                 \* the depth; or "text": the input is any other text

msgVars == <<vars, accVars, stage>>

IdleAccessors ==
    /\ made = NewBuf(0) /\ version = CHOOSE ver \in Versions : TRUE
    /\ handles = <<>> /\ seen = <<>> /\ calls = 0
    /\ call = [name |-> "read", h |-> 0, i |-> 0, v |-> 0, ok |-> TRUE]

MsgInit ==
    \/ stage = "text" /\ Init /\ IdleAccessors
    \/ /\ stage = "building" /\ AccInit
       /\ pc = "idle" /\ tok = "EOF" /\ n = 0 /\ text = <<>> /\ bound = BuiltBound
       /\ bufs = <<NewBuf(0)>> /\ stack = <<>> /\ oldlen = 0 /\ parses = 0 /\ results = <<>>
       /\ scattered = FALSE /\ dirty = FALSE

Build == stage = "building" /\ AccNext /\ UNCHANGED <<vars, stage>>

\* nbuf_print of the root, and the text in the hands of the lexer; no call of a
\* setter follows.
PrintRoot ==
    /\ stage = "building" /\ handles # <<>>
    /\ \E printed \in {Printed(made, handles[1], bound.depth)} :
           /\ stage' = IF CutShort(printed) THEN "cut" ELSE "printed"
           /\ text' = <<Token("BOF", 0)>> \o Lexed(printed)
    /\ UNCHANGED <<pc, tok, n, bound, bufs, stack, oldlen, parses, results, scattered, dirty>>
    /\ calls' = MaxCalls /\ call' = [name |-> "read", h |-> 1, i |-> 0, v |-> 0, ok |-> TRUE]
    /\ UNCHANGED <<made, version, handles, seen>>

Parse == stage # "building" /\ Next /\ UNCHANGED <<accVars, stage>>

MsgNext == Build \/ PrintRoot \/ Parse

MsgSpec == MsgInit /\ [][MsgNext]_msgVars

-----------------------------------------------------------------------------
\* A printed message parses back to the same message, with the defaults of the
\* fields an older version lacks; and the parser refuses it only if it is nested
\* deeper than the limit that the printer and the parser both have.
RoundTrip ==
    /\ stage = "printed" => pc \notin {"failed", "aborted"}
    /\ stage \in {"printed", "cut"} /\ pc = "done" =>
           Decode(bufs[1], Last(results).o, bound.depth) = Decode(made, handles[1], bound.depth)

\* Whatever was built or parsed, calls that failed half way and parses that
\* failed included, the objects lie in a row: the raw decoder gets to the end of
\* the buffer, and meets the header of every object the program has.
RawShowsAll ==
    LET ofMade == DecodeRaw(made)
        ofParsed == DecodeRaw(bufs[1])
    IN  /\ ofMade.ok
        /\ \A o \in ToSet(handles) : o.n = 1 => HdrOffset(made, o) \in ofMade.headers
        /\ pc \in {"done", "failed"} =>
               ofParsed.ok /\ \A r \in ToSet(results) : r.o.off - 4 \in ofParsed.headers
=============================================================================
