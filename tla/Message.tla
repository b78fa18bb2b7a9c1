------------------------------- MODULE Message -------------------------------
(***************************************************************************)
(* Messages of the schema                                                  *)
(*                                                                         *)
(*    message M { uint32 x; string s; M n; M[] r; uint32[] xs;             *)
(*                string[] ss; }                                           *)
(*                                                                         *)
(* which has one field of each kind that the parser, the printer and the   *)
(* generators of code tell apart: how the library knows it, and how the    *)
(* generated getters read an object of it.                                 *)
(***************************************************************************)
EXTENDS Wire, Sequences

Repeated == {"r", "xs", "ss"}
Index == [s |-> 0, n |-> 1, r |-> 2, xs |-> 3, ss |-> 4]   \* FieldDef.offset of the pointers
MsgSsize == 4
MsgPsize == 5

\* A message's header has room for its sizes: in the program, 15 and 14 bits.
ASSUME HeaderAssumption == MsgSsize < SN /\ MsgPsize < PN

\* The object an element of a repeated field is.
ElemSsize(f) == CASE f = "r" -> MsgSsize [] f = "xs" -> 4 [] f = "ss" -> 0
ElemPsize(f) == CASE f = "r" -> MsgPsize [] f = "xs" -> 0 [] f = "ss" -> 1

-----------------------------------------------------------------------------
(* Getters.  An object may be of an older version of M, which had only the *)
(* first of the pointers, or no scalars: a field it lacks reads as unset.  *)

\* nbuf_obj_s: the scalar field lies within the scalar part.
HasScalar(o) == o.ssize >= MsgSsize
GetScalar(b, o) == IF HasScalar(o) THEN WordAt(b, o.off + 4 * o.psize) ELSE 0

\* M_raw_f: the object, or first element, of a pointer field and its number
Raw(b, o, f) == ObjP(b, o, Index[f])
GetStr(b, o) == ReadStr(b, Raw(b, o, "s"))

\* The i-th element of the array of scalars, or of strings, that begins with o
ScalarAt(b, o, i) == WordAt(b, Element(o, i).off)
StrAt(b, o, i) == ReadStr(b, ObjP(b, Element(o, i), 0))

\* A document: 0 is an unset number or empty string, <<>> an unset n.
EmptyDoc == [x |-> 0, s |-> 0, n |-> <<>>, r |-> <<>>, xs |-> <<>>, ss |-> <<>>]

\* All of a message, down to a depth, for a message may contain itself.
Decode(b, o, depth) ==
    LET D[d \in Nat] ==
            [m \in Objects |->
                LET n == Raw(b, m, "n")
                    r == Raw(b, m, "r")
                    xs == Raw(b, m, "xs")
                    ss == Raw(b, m, "ss")
                IN  IF d = 0 \/ m.ssize > MsgSsize \/ m.psize > MsgPsize THEN EmptyDoc
                    ELSE [x |-> GetScalar(b, m),
                          s |-> GetStr(b, m),
                          n |-> IF n.n = 0 THEN <<>> ELSE <<D[d - 1][n]>>,
                          r |-> [i \in 1 .. r.n |-> D[d - 1][Element(r, i)]],
                          xs |-> [i \in 1 .. xs.n |-> ScalarAt(b, xs, i)],
                          ss |-> [i \in 1 .. ss.n |-> StrAt(b, ss, i)]]]
    IN  D[depth][o]
=============================================================================
