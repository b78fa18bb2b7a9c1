------------------------------- MODULE Layout -------------------------------
(***************************************************************************)
(* The layout pass of the schema compiler (complete_message_defs in        *)
(* compile.c): field by field, it gives every field of a message its       *)
(* offset, in bytes of the scalar part or in pointers of the pointer part, *)
(* and closes the message with its sizes.  Field types arrive resolved;    *)
(* a name that does not resolve ends the pass.                             *)
(***************************************************************************)
EXTENDS Integers

CONSTANTS U16,        \* values of the uint16 fields offset, ssize and psize
          MaxFields,  \* bound on the fields of a message
          Elements    \* indices of array elements whose addresses are looked at

\* 2^16 in the program; only its being a multiple of the word size matters.
ASSUME U16Assumption == U16 \in Nat \ {0} /\ U16 % 4 = 0
ASSUME MaxFieldsAssumption == MaxFields \in Nat \ {0}
ASSUME ElementsAssumption == Elements \subseteq Nat

WORD == 4
ScalarSizes == {1, 2, 4, 8}   \* 1 << type_id of the scalar types; an enum has 2

VARIABLES
    pc,         \* "fields", "closed" (the message has its sizes) or "failed"
    m,          \* number of fields laid out
    kind,       \* kind[i]: "scalar", or "pointer" (string, message, repeated)
    size,       \* size[i]: the size of the i-th field's value, 0 for a pointer
    offset,     \* offset[i]: FieldDef.offset as stored
    ssize, psize, maxAlign,   \* the locals of the pass
    stored      \* MsgDef.ssize and MsgDef.psize as stored, once closed

vars == <<pc, m, kind, size, offset, ssize, psize, maxAlign, stored>>

Empty == [i \in 1 .. 0 |-> 0]
Add(f, x) == [i \in 1 .. m + 1 |-> IF i = m + 1 THEN x ELSE f[i]]
Larger(a, b) == IF a > b THEN a ELSE b

\* Mutant: a value is aligned to its own size, whatever that is.
Align_Size(sz) == sz

\* A value wider than a word is only aligned to a word.
Align(sz) == IF sz > WORD THEN WORD ELSE sz

\* Mutant: rounds down.
RoundUp_Down(x, a) == (x \div a) * a

\* (x + a - 1) & ~(a - 1), for a power of two a.
RoundUp(x, a) == ((x + a - 1) \div a) * a

Init ==
    /\ pc = "fields"
    /\ m = 0 /\ kind = Empty /\ size = Empty /\ offset = Empty
    /\ ssize = 0 /\ psize = 0 /\ maxAlign = 0
    /\ stored = [ssize |-> 0, psize |-> 0]

\* Mutant: the pointer is counted before it gets its offset.
PointerField_CountsFirst ==
    /\ pc = "fields" /\ m < MaxFields
    /\ m' = m + 1
    /\ kind' = Add(kind, "pointer") /\ size' = Add(size, 0)
    /\ offset' = Add(offset, (psize + 1) % U16)
    /\ psize' = psize + 1
    /\ UNCHANGED <<pc, ssize, maxAlign, stored>>

PointerField ==
    /\ pc = "fields" /\ m < MaxFields
    /\ m' = m + 1
    /\ kind' = Add(kind, "pointer") /\ size' = Add(size, 0)
    /\ offset' = Add(offset, psize % U16)
    /\ psize' = psize + 1
    /\ UNCHANGED <<pc, ssize, maxAlign, stored>>

ScalarField(sz) ==
    LET at == RoundUp(ssize, Align(sz))
    IN  /\ pc = "fields" /\ m < MaxFields
        /\ m' = m + 1
        /\ kind' = Add(kind, "scalar") /\ size' = Add(size, sz)
        /\ offset' = Add(offset, at % U16)
        /\ ssize' = at + sz
        /\ maxAlign' = Larger(maxAlign, Align(sz))
        /\ UNCHANGED <<pc, psize, stored>>

\* Mutant: the size of the message is not padded.
Close_NoPadding ==
    /\ pc = "fields" /\ m > 0
    /\ pc' = "closed"
    /\ stored' = [ssize |-> ssize % U16, psize |-> psize % U16]
    /\ UNCHANGED <<m, kind, size, offset, ssize, psize, maxAlign>>

\* Mutant: the pointers are forgotten in the alignment of the message.
Close_ScalarsOnly ==
    LET total == IF maxAlign = 0 THEN ssize ELSE RoundUp(ssize, maxAlign)
    IN  /\ pc = "fields" /\ m > 0
        /\ pc' = "closed"
        /\ ssize' = total
        /\ stored' = [ssize |-> total % U16, psize |-> psize % U16]
        /\ UNCHANGED <<m, kind, size, offset, psize, maxAlign>>

\* After its last field (the grammar asks for one) the message is padded so
\* that the next element of an array of it is aligned as well.
Close ==
    LET align == IF psize > 0 THEN WORD ELSE maxAlign
        total == RoundUp(ssize, align)
    IN  /\ pc = "fields" /\ m > 0
        /\ pc' = "closed"
        /\ ssize' = total /\ maxAlign' = align
        /\ stored' = [ssize |-> total % U16, psize |-> psize % U16]
        /\ UNCHANGED <<m, kind, size, offset, psize>>

\* The loop goes on with the next message definition.
NextMessage ==
    /\ pc = "closed" /\ pc' = "fields"
    /\ m' = 0 /\ kind' = Empty /\ size' = Empty /\ offset' = Empty
    /\ ssize' = 0 /\ psize' = 0 /\ maxAlign' = 0
    /\ stored' = [ssize |-> 0, psize |-> 0]

\* A field's type name resolves in no schema in sight: the compilation fails.
Unresolved ==
    /\ pc = "fields"
    /\ pc' = "failed"
    /\ UNCHANGED <<m, kind, size, offset, ssize, psize, maxAlign, stored>>

Next ==
    \/ PointerField \/ (\E sz \in ScalarSizes : ScalarField(sz))
    \/ Close \/ NextMessage \/ Unresolved

Spec == Init /\ [][Next]_vars

-----------------------------------------------------------------------------
TypeOK ==
    /\ pc \in {"fields", "closed", "failed"}
    /\ m \in 0 .. MaxFields
    /\ kind \in [1 .. m -> {"scalar", "pointer"}]
    /\ size \in [1 .. m -> ScalarSizes \cup {0}]
    /\ offset \in [1 .. m -> 0 .. U16 - 1]
    /\ ssize \in Nat /\ psize \in Nat /\ maxAlign \in {0, 1, 2, 4}
    /\ stored \in [ssize : 0 .. U16 - 1, psize : 0 .. U16 - 1]

Fields(k) == {i \in 1 .. m : kind[i] = k}
Scalars == Fields("scalar")

\* The sizes fit the 16 bits they are stored in; nothing in the code checks it.
Fits == ssize < U16 /\ psize <= U16

\* Bytes from the start of element e of an array of the message to scalar i.
Address(e, i) == e * (WORD * stored.psize + stored.ssize) + WORD * stored.psize + offset[i]

\* No two fields share storage: scalars lie one after the other, pointers in
\* slots of their own.  A setter of one field never changes another.
NoOverlap ==
    Fits => /\ \A i, j \in Scalars : i < j => offset[i] + size[i] <= offset[j]
            /\ \A i, j \in Fields("pointer") : i < j => offset[i] < offset[j]

\* Every field lies inside the object the allocator makes from the stored
\* sizes, so that its accessor never finds it out of range.
InsideObject ==
    Fits /\ psize < U16 /\ pc = "closed" =>
        /\ \A i \in Scalars : offset[i] + size[i] <= stored.ssize
        /\ \A i \in Fields("pointer") : offset[i] < stored.psize

\* A scalar is aligned to its size, or to a word if it is wider, in every
\* element of an array: C loads it through a pointer of its own type.
AlignedInArrays ==
    pc = "closed" => \A e \in Elements, i \in Scalars : Address(e, i) % Align(size[i]) = 0

\* wire.txt: "If psize > 0, ssize must be a multiple of word size".
WordMultiple == pc = "closed" /\ psize > 0 => stored.ssize % WORD = 0
=============================================================================
