-------------------------------- MODULE Wire --------------------------------
(***************************************************************************)
(* The object layer of nbuf.h and nbuf.c: how objects, arrays, strings and *)
(* pointers are laid down in a buffer and read back.  A buffer is a value  *)
(* of four fields: mem, its words; len and cap, in bytes; grows, whether   *)
(* it was given nbuf_alloc_ex to grow with.  An operator named for a       *)
(* function that writes returns the buffer after the call.                 *)
(*                                                                         *)
(* Words are 32 bits in the program.  Here a word is a number below M, in  *)
(* which a header keeps the program's order of fields: the header bit, the *)
(* byte-array bit, the array bit, ssize, psize.                            *)
(***************************************************************************)
EXTENDS Integers

CONSTANTS SN, PN    \* number of values of ssize and psize: 2^15 and 2^14

ASSUME SNAssumption == SN \in Nat \ {0, 1}
ASSUME PNAssumption == PN \in Nat \ {0, 1}

ARR == SN * PN
BARR == 2 * ARR
HDR == 4 * ARR
M == 8 * ARR

Has(word, bit) == (word \div bit) % 2 = 1
Header(ssize, psize) == HDR + ssize * PN + psize
Ssize(hdr) == (hdr \div PN) % SN
Psize(hdr) == hdr % PN

ObjSize(o) == 4 * o.psize + o.ssize

\* nbuf_advance, from the first element of an array to the i-th, counted from 1
Element(o, i) == [o EXCEPT !.off = @ + (i - 1) * ObjSize(o)]

-----------------------------------------------------------------------------
(* Buffers *)

Words(bytes) == (bytes + 3) \div 4
WordAt(b, off) == b.mem[off \div 4]
SetWord(b, off, w) == [b EXCEPT !.mem[off \div 4] = w]

\* nbuf_init_ex for cap bytes
NewBuf(cap) == [mem |-> [i \in 0 .. Words(cap) - 1 |-> 0], len |-> 0, cap |-> cap, grows |-> TRUE]

\* Mutant: one turn of the loop must do.
Grown_Once(cap, newlen) == IF cap < 4 THEN 4 ELSE cap + cap \div 2

\* Mutant: the last byte is forgotten.
Grown_Short(cap, newlen) ==
    LET f[c \in Nat] == IF c + 1 >= newlen THEN c ELSE f[c + c \div 2]
    IN  f[IF cap < 4 THEN 4 ELSE cap]

\* The capacity nbuf_alloc_ex settles on
Grown(cap, newlen) ==
    LET f[c \in Nat] == IF c >= newlen THEN c ELSE f[c + c \div 2]
    IN  f[IF cap < 4 THEN 4 ELSE cap]

CanAlloc(b, size) == b.grows \/ b.len + size <= b.cap

\* nbuf_alloc; when the buffer grows, all that lies beyond len reads 0
Alloc(b, size) ==
    LET newlen == b.len + size
        cap == IF newlen > b.cap THEN Grown(b.cap, newlen) ELSE b.cap
        mem == [i \in 0 .. Words(cap) - 1 |-> IF 4 * i < b.len THEN b.mem[i] ELSE 0]
    IN  [b EXCEPT !.len = newlen, !.cap = cap, !.mem = IF newlen > b.cap THEN mem ELSE @]

\* nbuf_alloc_aligned to a word: where the block starts, and the buffer after
Start(b) == 4 * Words(b.len)
AllocAligned(b, size) == Alloc(b, Start(b) - b.len + size)

-----------------------------------------------------------------------------
(* Objects: o = [n, off, ssize, psize], n the number nbuf_get_obj returns *)

Object(n, off, ssize, psize) == [n |-> n, off |-> off, ssize |-> ssize, psize |-> psize]
Null == Object(0, 0, 0, 0)
Objects == [n : Nat, off : Nat, ssize : Nat, psize : Nat]

\* nbuf_get_obj: malformed input reads as no object
GetObj(b, off) ==
    LET hdr == WordAt(b, off)
        isBytes == Has(hdr, BARR)
        isArray == ~isBytes /\ Has(hdr, ARR)
        first == off + (IF isArray THEN 8 ELSE 4)
        o == IF isBytes THEN Object(hdr % BARR, first, 1, 0)
             ELSE Object(IF isArray THEN WordAt(b, off + 4) ELSE 1, first, Ssize(hdr), Psize(hdr))
    IN  IF /\ off + 4 <= b.len /\ Has(hdr, HDR)
           /\ first <= b.len
           /\ first + o.n * ObjSize(o) <= b.len
        THEN o ELSE Null

\* nbuf_obj_hdr_offset: the word before an object is its header, or the length of an array
HdrOffset(b, o) == IF Has(WordAt(b, o.off - 4), HDR) THEN o.off - 4 ELSE o.off - 8

\* nbuf_alloc_obj: the object, the buffer after
NewObj(b, ssize, psize) == Object(1, Start(b) + 4, ssize, psize)
AllocObj(b, ssize, psize) ==
    SetWord(AllocAligned(b, 4 + 4 * psize + ssize), Start(b), Header(ssize, psize))

\* nbuf_alloc_arr for k elements: the first one, the buffer after
IsBytes(ssize, psize) == ssize = 1 /\ psize = 0
NewArr(b, k, ssize, psize) ==
    Object(k, Start(b) + (IF IsBytes(ssize, psize) THEN 4 ELSE 8), ssize, psize)
AllocArr(b, k, ssize, psize) ==
    LET at == Start(b)
    IN  IF IsBytes(ssize, psize)
        THEN SetWord(AllocAligned(b, 4 + k), at, HDR + BARR + k)
        ELSE SetWord(SetWord(AllocAligned(b, 8 + k * (4 * psize + ssize)), at,
                             Header(ssize, psize) + ARR), at + 4, k)

\* nbuf_resize_arr, and what it asserts: the array is the last thing in its buffer
AtEnd(b, o, n) == o.off + n * ObjSize(o) = b.len
ResizeArr(b, o, n) ==
    LET hdr == HdrOffset(b, o)
    IN  IF Has(WordAt(b, hdr), BARR)
        THEN SetWord(b, hdr, (WordAt(b, hdr) \div BARR) * BARR + n)
        ELSE SetWord(b, hdr + 4, n)

\* nbuf_alloc_str, for the empty string 0 or a string of one character v
StrLen(v) == IF v = 0 THEN 1 ELSE 2
AllocStr(b, v) == SetWord(AllocArr(b, StrLen(v), 1, 0), Start(b) + 4, v)

-----------------------------------------------------------------------------
(* Pointers: word i of object o *)

PtrOffset(o, i) == o.off + 4 * i

\* nbuf_obj2str: an object that is missing reads as the empty string
ReadStr(b, o) == IF o.n = 0 THEN 0 ELSE WordAt(b, o.off)

\* nbuf_obj_p
ObjP(b, o, i) ==
    LET rel == WordAt(b, PtrOffset(o, i))
        off == (PtrOffset(o, i) + 4 * rel) % M
    IN  IF i >= o.psize \/ rel = 0 \/ off >= b.len THEN Null ELSE GetObj(b, off)

\* nbuf_obj_set_p: the distance, in words, to a header in the same buffer, or
\* the complement of the position of a header in another one
SetP(b, o, i, hdr, same) ==
    SetWord(b, PtrOffset(o, i),
            IF same THEN ((hdr - PtrOffset(o, i)) % M) \div 4 ELSE M - 1 - hdr \div 4)

\* Mutant: only the first pointer of an element is fixed.
Pointers_First(o, n) == {o.off + e * ObjSize(o) : e \in 0 .. n - 1}

\* nbuf_fix_arr: newbuf is appended, and each pointer of the n elements of the
\* array at o turned from a position in newbuf into a distance
Pointers(o, n) == {o.off + e * ObjSize(o) + 4 * i : e \in 0 .. n - 1, i \in 0 .. o.psize - 1}

FixedPtr(b, ptr) == (M - 1 - WordAt(b, ptr) + Start(b) \div 4 - ptr \div 4) % M
FixArr(b, o, n, newbuf) ==
    LET c == IF newbuf.len > 0 THEN AllocAligned(b, newbuf.len) ELSE b
        p == Start(b) \div 4
        copied == p .. p + Words(newbuf.len) - 1
    IN  [c EXCEPT !.mem = [w \in DOMAIN c.mem |->
            IF w \in copied THEN newbuf.mem[w - p]
            ELSE IF 4 * w \in Pointers(o, n) /\ c.mem[w] # 0 THEN FixedPtr(b, 4 * w)
            ELSE c.mem[w]]]

\* What nbuf_fix_arr asserts of the pointers it finds
Fixable(b, o, n, newbuf) ==
    \A ptr \in {q \in Pointers(o, n) : WordAt(b, q) # 0} :
        newbuf.len > 0 /\ ptr + 4 * FixedPtr(b, ptr) < Start(b) + newbuf.len
=============================================================================
