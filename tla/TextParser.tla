----------------------------- MODULE TextParser -----------------------------
(***************************************************************************)
(* The text format parser (parse.c) at work on one output buffer: it reads *)
(* tokens one ahead and builds the message in wire format as it goes, for  *)
(* messages of the schema                                                  *)
(*                                                                         *)
(*    message M { uint32 x; string s; M n; M[] r; uint32[] xs;             *)
(*                string[] ss; }                                           *)
(*                                                                         *)
(* which has one field of each kind the parser tells apart.  The elements  *)
(* of an array of messages or strings lie in a row at the end of their     *)
(* buffer, so what hangs off them is built in a new buffer, which is       *)
(* appended once the array is complete.                                    *)
(*                                                                         *)
(* stack holds a frame for each running parse_alloced_msg ("msg") and      *)
(* parse_repeated_field ("rep"); with each message goes doc, the document  *)
(* read so far, a ghost the finished buffer is compared with.              *)
(***************************************************************************)
EXTENDS Message, Sequences, SequencesExt

CONSTANTS Bounds,    \* the sets of bounds an instance explores: records of
                     \*   fields, the fields the input may name
                     \*   tokens, the field names in all inputs together
                     \*   depth, opt->max_depth
                     \*   parses, the calls of nbuf_parse on the buffer
          Outputs    \* the buffers nbuf_parse may be given

ASSUME BoundsAssumption ==
    \A bd \in Bounds : bd.fields \subseteq DOMAIN EmptyDoc /\ bd.depth \in Nat

\* nbuf_init_ex has cleared the memory, and what lies in it was allocated since.
ASSUME OutputsAssumption ==
    \A b \in Outputs :
        /\ b = [mem |-> [i \in 0 .. Words(b.cap) - 1 |-> b.mem[i]],
                len |-> b.len, cap |-> b.cap, grows |-> b.grows]
        /\ b.cap \in Nat /\ b.len \in 0 .. b.cap
        /\ \A i \in Words(b.len) .. Words(b.cap) - 1 : b.mem[i] = 0

VARIABLES
    pc,        \* "idle", "parsing", "done", "failed", or "aborted" by an assertion
    tok,       \* the token ahead: a field's name, "}", "EOF", or "value" past the
               \* name of a repeated field
    n,         \* field names read; the n-th value in the input is n
    text,      \* the tokens of a given input from the one ahead on, each with its
               \* value; <<>> if the input is any input within the bounds
    bound,     \* the bounds of this behaviour
    bufs,      \* the output buffer, then the new buffers; ctx->buf is the last
    stack,     \* the frames, innermost last
    oldlen,    \* length of the output buffer when nbuf_parse was called
    parses,    \* calls of nbuf_parse
    results,   \* history: the messages parsed with success
    scattered, \* history: a repeated field of the running parse came in two runs
    dirty      \* history: an earlier parse on the buffer failed

vars == <<pc, tok, n, text, bound, bufs, stack, oldlen, parses, results, scattered, dirty>>

-----------------------------------------------------------------------------
(* Frames: o or first, the object, lies in buffer bufs[b] *)

MsgFrame(b, o) == [kind |-> "msg", b |-> b, o |-> o, doc |-> EmptyDoc]

\* it: the element being read; items: the documents of those before it
RepFrame(b, o, f) == [kind |-> "rep", b |-> b, first |-> o, it |-> o, f |-> f, items |-> <<>>]

Top == Last(stack)
Below == stack[Len(stack) - 1]
Cur == Len(bufs)
Depth == Len(SelectSeq(stack, LAMBDA fr : fr.kind = "msg"))

\* Mutant: the limit itself is refused.
TooDeep_AtLimit == Depth >= bound.depth

\* parse_alloced_msg refuses a message nested as deep.
TooDeep == Depth > bound.depth

InMsg == pc = "parsing" /\ Top.kind = "msg" /\ ~TooDeep
InRep == pc = "parsing" /\ Top.kind = "rep"
AtElement == InRep /\ tok = "value"
AfterElement == InRep /\ tok # "value"

\* The frame fr after an element that means item
Advance(fr, item) == [fr EXCEPT !.it.off = @ + ObjSize(fr.it), !.items = Append(@, item)]

\* NEXT, past a value, when `read' field names have been read
NextToken(read) ==
    \/ /\ text = <<>>
       /\ tok' \in (IF read < bound.tokens THEN bound.fields ELSE {}) \cup {"}", "EOF"}
       /\ UNCHANGED text
    \/ /\ text # <<>>
       /\ text' = Tail(text) /\ tok' = Head(text').f

\* A field's name is read, and the value it announces: one of `any' input's, or
\* that of the given input
Read == n' = IF text = <<>> THEN n + 1 ELSE n
Value(any) == IF text = <<>> THEN any ELSE {Head(text).v}

SetTop(fr) == stack' = ReplaceAt(stack, Len(stack), fr)
Keep(b) == ReplaceAt(bufs, Cur, b)   \* b is the new value of the current buffer

-----------------------------------------------------------------------------
Init ==
    /\ pc = "idle" /\ tok = "EOF" /\ n = 0 /\ text = <<>> /\ bound \in Bounds
    /\ \E b \in Outputs : bufs = <<b>>
    /\ stack = <<>> /\ oldlen = 0 /\ parses = 0 /\ results = <<>>
    /\ scattered = FALSE /\ dirty = FALSE

\* nbuf_parse
Begin ==
    LET b == bufs[1]
    IN  /\ pc \in {"idle", "done", "failed"} /\ parses < bound.parses
        /\ CanAlloc(b, Start(b) - b.len + 4 + 4 * MsgPsize + MsgSsize)
        /\ pc' = "parsing" /\ parses' = parses + 1
        /\ oldlen' = b.len
        /\ bufs' = <<AllocObj(b, MsgSsize, MsgPsize)>>
        /\ stack' = <<MsgFrame(1, NewObj(b, MsgSsize, MsgPsize))>>
        /\ scattered' = FALSE /\ dirty' = (dirty \/ pc = "failed")
        /\ NextToken(n)
        /\ UNCHANGED <<n, bound, results>>

\* parse_single_field: a scalar goes into the scalar part of the message.
Scalar ==
    /\ InMsg /\ tok = "x"
    /\ Read /\ NextToken(n')
    /\ LET o == Top.o
           b == bufs[Top.b]
       IN  \E v \in Value({n'}) :
               /\ bufs' = [bufs EXCEPT ![Top.b] = SetWord(b, o.off + 4 * o.psize, v)]
               /\ SetTop([Top EXCEPT !.doc.x = v])
    /\ UNCHANGED <<pc, bound, oldlen, parses, results, scattered, dirty>>

\* parse_str on the current buffer b: a string of one character and its '\0'.
StrObj(b) == NewArr(b, 1, 1, 0)
WithStr(b, v) == ResizeArr(SetWord(Alloc(AllocArr(b, 1, 1, 0), 1), StrObj(b).off, v), StrObj(b), 2)

\* parse_str on an empty string takes back what it allocated.
WithoutStr(b) == [SetWord(AllocArr(b, 1, 1, 0), StrObj(b).off, 0) EXCEPT !.len = b.len]
CanStr(b) == CanAlloc(b, Start(b) - b.len + 6)

\* The string v, or the empty string 0, becomes pointer i of object o in bufs[k].
StrInto(k, o, i, v) ==
    LET b == Last(bufs)
        bs == Keep(WithStr(b, v))
    IN  IF v = 0 THEN Keep(WithoutStr(b))
        ELSE [bs EXCEPT ![k] = SetP(@, o, i, HdrOffset(Last(bs), StrObj(b)), k = Cur)]

\* An empty string leaves the field alone, whatever it held.
String ==
    /\ InMsg /\ tok = "s" /\ CanStr(Last(bufs))
    /\ Read /\ NextToken(n')
    /\ \E v \in Value({0, n'}) :
           /\ bufs' = StrInto(Top.b, Top.o, Index["s"], v)
           /\ SetTop([Top EXCEPT !.doc.s = IF v = 0 THEN @ ELSE v])
    /\ UNCHANGED <<pc, bound, oldlen, parses, results, scattered, dirty>>

\* parse_msg for the value of a singular field: the message is allocated where
\* the current buffer ends, its parent learns of it when it is complete.
NestedMsg ==
    LET b == Last(bufs)
    IN  /\ InMsg /\ tok = "n"
        /\ CanAlloc(b, Start(b) - b.len + 4 + 4 * MsgPsize + MsgSsize)
        /\ Read /\ NextToken(n')
        /\ bufs' = Keep(AllocObj(b, MsgSsize, MsgPsize))
        /\ stack' = Append(stack, MsgFrame(Cur, NewObj(b, MsgSsize, MsgPsize)))
        /\ UNCHANGED <<pc, bound, oldlen, parses, results, scattered, dirty>>

\* The `}' of a message: it becomes its parent's field n, or the next element.
CloseMsg ==
    LET fr == Top
        parent == Below
        lower == Front(stack)
        Into(g) == stack' = ReplaceAt(lower, Len(lower), g)
    IN  /\ InMsg /\ tok = "}" /\ Len(stack) > 1
        /\ NextToken(n)
        /\ \/ /\ parent.kind = "msg"
              /\ bufs' = [bufs EXCEPT ![parent.b] =
                     SetP(@, parent.o, Index["n"], HdrOffset(bufs[fr.b], fr.o), parent.b = fr.b)]
              /\ Into([parent EXCEPT !.doc.n = <<fr.doc>>])
           \/ /\ parent.kind = "rep"
              /\ Into(Advance(parent, fr.doc))
              /\ UNCHANGED bufs
        /\ UNCHANGED <<pc, n, bound, oldlen, parses, results, scattered, dirty>>

-----------------------------------------------------------------------------
(* parse_repeated_field *)

\* Mutant: a new buffer only for elements that are messages.
NeedsBuf_Messages(f) == f = "r"
NeedsBuf(f) == ElemPsize(f) > 0

\* The field is not null: it is scattered over the message.
WasSet(f) == ObjP(bufs[Top.b], Top.o, Index[f]).n # 0

\* The array begins with one element; a new buffer takes what elements point to.
RepBegin(f) ==
    LET b == Last(bufs)
        grown == Keep(AllocArr(b, 1, ElemSsize(f), ElemPsize(f)))
    IN  /\ InMsg /\ tok = f
        /\ ~WasSet(f)
        /\ CanAlloc(b, Start(b) - b.len + 8 + 4 * ElemPsize(f) + ElemSsize(f))
        /\ Read /\ tok' = "value"
        /\ bufs' = IF NeedsBuf(f) THEN Append(grown, NewBuf(0)) ELSE grown
        /\ stack' = Append(stack, RepFrame(Cur, NewArr(b, 1, ElemSsize(f), ElemPsize(f)), f))
        /\ scattered' = (scattered \/ Top.doc[f] # <<>>)
        /\ UNCHANGED <<pc, text, bound, oldlen, parses, results, dirty>>

ScalarElement ==
    /\ AtElement /\ Top.f = "xs"
    /\ NextToken(n)
    /\ \E v \in Value({n}) :
           /\ bufs' = [bufs EXCEPT ![Top.b] = SetWord(@, Top.it.off, v)]
           /\ SetTop(Advance(Top, v))
    /\ UNCHANGED <<pc, n, bound, oldlen, parses, results, scattered, dirty>>

StringElement ==
    /\ AtElement /\ Top.f = "ss" /\ CanStr(Last(bufs))
    /\ NextToken(n)
    /\ \E v \in Value({0, n}) :
           /\ bufs' = StrInto(Top.b, Top.it, 0, v)
           /\ SetTop(Advance(Top, v))
    /\ UNCHANGED <<pc, n, bound, oldlen, parses, results, scattered, dirty>>

MsgElement ==
    /\ AtElement /\ Top.f = "r"
    /\ NextToken(n)
    /\ stack' = Append(stack, MsgFrame(Top.b, Top.it))
    /\ UNCHANGED <<pc, n, bound, bufs, oldlen, parses, results, scattered, dirty>>

\* The same field again: the array takes one more element.
RepMore ==
    LET b == bufs[Top.b]
    IN  /\ AfterElement /\ tok = Top.f
        /\ b.len = Top.it.off
        /\ CanAlloc(b, ObjSize(Top.it))
        /\ Read /\ tok' = "value"
        /\ bufs' = [bufs EXCEPT ![Top.b] = Alloc(b, ObjSize(Top.it))]
        /\ UNCHANGED <<pc, text, bound, stack, oldlen, parses, results, scattered, dirty>>

\* The buffer of the finished array at the top, and what is asserted of it
Resized(fr) == ResizeArr(bufs[fr.b], fr.first, Len(fr.items))
Complete(fr) ==
    IF fr.first.psize > 0 THEN FixArr(Resized(fr), fr.first, Len(fr.items), Last(bufs)) ELSE Resized(fr)
RepAsserts(fr) ==
    IF tok = fr.f THEN bufs[fr.b].len = fr.it.off
    ELSE /\ AtEnd(bufs[fr.b], fr.first, Len(fr.items))
         /\ fr.first.psize > 0 => Fixable(Resized(fr), fr.first, Len(fr.items), Last(bufs))

\* Another token: the array gets its length, the new buffer is appended to it
\* and dropped, and the message's field is set.
RepFinish ==
    LET fr == Top
        msg == Below
        b == Complete(fr)
        bs == [i \in 1 .. fr.b |-> IF i = fr.b THEN b ELSE bufs[i]]
        lower == Front(stack)
    IN  /\ AfterElement /\ tok # fr.f /\ RepAsserts(fr)
        /\ fr.first.psize > 0 => CanAlloc(bufs[fr.b], b.len - bufs[fr.b].len)
        /\ bufs' = [bs EXCEPT ![msg.b] =
                SetP(@, msg.o, Index[fr.f], HdrOffset(b, fr.first), msg.b = fr.b)]
        /\ stack' = ReplaceAt(lower, Len(lower), [msg EXCEPT !.doc[fr.f] = @ \o fr.items])
        /\ UNCHANGED <<pc, tok, n, text, bound, oldlen, parses, results, scattered, dirty>>

-----------------------------------------------------------------------------
\* The root message is complete at the end of the input.
Finish ==
    /\ InMsg /\ tok = "EOF" /\ Len(stack) = 1
    /\ pc' = "done"
    /\ results' = Append(results,
           [o |-> Top.o, doc |-> Top.doc, read |-> Decode(bufs[1], Top.o, bound.depth),
            scattered |-> scattered, dirty |-> dirty])
    /\ stack' = <<>>
    /\ UNCHANGED <<tok, n, text, bound, bufs, oldlen, parses, scattered, dirty>>

\* Mutant: the buffer is emptied.
Fail_Empties ==
    /\ pc = "parsing"
    /\ pc' = "failed" /\ stack' = <<>>
    /\ bufs' = <<[bufs[1] EXCEPT !.len = 0]>>
    /\ UNCHANGED <<tok, n, text, bound, oldlen, parses, results, scattered, dirty>>

\* What the parser refuses in a text whose tokens and values are right
Refused ==
    \/ TooDeep
    \/ tok = "}" /\ Len(stack) = 1
    \/ tok = "EOF" /\ Len(stack) > 1
    \/ tok \in Repeated /\ WasSet(tok)

\* Any error, at any token: a field or value that does not fit (half a string
\* may be written then), an allocation that fails, too deep a nesting.  A given
\* text has no wrong values, and is read into a buffer that grows.
Fail ==
    /\ pc = "parsing"
    /\ text # <<>> => Top.kind = "msg" /\ Refused
    /\ pc' = "failed" /\ stack' = <<>>
    /\ \E b \in {bufs[1]} \cup (IF InMsg /\ tok = "s" /\ Cur = 1 /\ CanStr(bufs[1])
                               THEN {WithStr(bufs[1], n + 1)} ELSE {}) :
           bufs' = <<[b EXCEPT !.len = oldlen]>>
    /\ UNCHANGED <<tok, n, text, bound, oldlen, parses, results, scattered, dirty>>

\* An assertion of the code does not hold: the program stops.
Abort ==
    /\ AfterElement /\ ~RepAsserts(Top)
    /\ pc' = "aborted"
    /\ UNCHANGED <<tok, n, text, bound, bufs, stack, oldlen, parses, results, scattered, dirty>>

Next ==
    \/ Begin \/ Scalar \/ String \/ NestedMsg \/ CloseMsg
    \/ (\E f \in Repeated : RepBegin(f))
    \/ ScalarElement \/ StringElement \/ MsgElement \/ RepMore \/ RepFinish
    \/ Finish \/ Fail \/ Abort

Spec == Init /\ [][Next]_vars

-----------------------------------------------------------------------------
TypeOK ==
    /\ pc \in {"idle", "parsing", "done", "failed", "aborted"}
    /\ tok \in DOMAIN EmptyDoc \cup {"}", "EOF", "value"}
    /\ n \in 0 .. bound.tokens /\ parses \in 0 .. bound.parses /\ oldlen \in 0 .. M - 1
    /\ \A b \in ToSet(bufs) : b.len <= b.cap /\ b.cap < M /\ b.mem \in [0 .. Words(b.cap) - 1 -> 0 .. M - 1]
    /\ \A fr \in ToSet(stack) : fr.kind \in {"msg", "rep"} /\ fr.b \in DOMAIN bufs
    /\ scattered \in BOOLEAN /\ dirty \in BOOLEAN

\* A message that was parsed reads back, through the accessors, as the document
\* that was written: no value is lost, and no pointer into a temporary buffer
\* survives, however arrays and messages nest.
Faithful ==
    \A r \in ToSet(results) : ~r.scattered /\ ~r.dirty => r.read = r.doc

\* A later parse on the same buffer, failed or not, in the middle or at its
\* end, never changes a message that was parsed there before.
EarlierIntact ==
    \A r \in ToSet(results) : ~r.dirty => Decode(bufs[1], r.o, bound.depth) = r.read

\* parse.c:272: "sub-messages should not allocate on this buffer".  Every array
\* under construction, the outer ones of a nest included, is the last thing in
\* its buffer, or it could not take another element.
ArraysAtEnd ==
    \A k \in DOMAIN stack :
        LET fr == stack[k]
            open == k < Len(stack) \/ tok = "value"
        IN  pc = "parsing" /\ fr.kind = "rep" =>
                bufs[fr.b].len = fr.it.off + (IF open THEN ObjSize(fr.it) ELSE 0)

\* No assertion of the parser, of nbuf_resize_arr or of nbuf_fix_arr fails on
\* a buffer on which no parse has failed, now or with the next element.
NoAbort == (pc = "aborted" => dirty) /\ ArraysAtEnd

\* test.c:208 expects a scattered repeated field to be refused.
ScatteredRefused == \A r \in ToSet(results) : ~r.dirty => ~r.scattered

\* parse.c:378: a failed parse restores the buffer "as if nothing happened": the
\* next one reads back as it would have on a fresh buffer.
FailureLeavesNoTrace == \A r \in ToSet(results) : ~r.scattered => r.read = r.doc
=============================================================================
