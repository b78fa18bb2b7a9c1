------------------------------ MODULE Accessors ------------------------------
(***************************************************************************)
(* The C code nbufc generates for the schema of Message (lang_c.c), called *)
(* by a program that builds messages in one buffer: each action is a call  *)
(* of one generated function.  The buffer grows or has a fixed capacity,   *)
(* and the program may have been compiled with an older version of the     *)
(* schema, whose objects are smaller, and be given this version's code.    *)
(***************************************************************************)
EXTENDS Message, SequencesExt

CONSTANTS Versions,   \* the sizes objects are allocated with: records of ssize and psize
          Rooms,      \* capacities of fixed buffers; 0: a buffer that grows
          MaxCalls,   \* bound on the calls
          Numbers,    \* values of the scalars
          Strings,    \* 0 is the empty string
          Lengths     \* lengths of arrays

VARIABLES made,      \* the buffer
          version,   \* the sizes of this program's objects
          handles,   \* the objects the program has handles of
          seen,      \* what the program reads, through all its handles
          calls,     \* number of calls
          call       \* the last call: see ObjectStore

accVars == <<made, version, handles, seen, calls, call>>

AccInit ==
    /\ \E room \in Rooms : made = [NewBuf(room) EXCEPT !.grows = room = 0]
    /\ version \in Versions
    /\ handles = <<>> /\ seen = <<>> /\ calls = 0
    /\ call = [name |-> "read", h |-> 0, i |-> 0, v |-> 0, ok |-> TRUE]

-----------------------------------------------------------------------------
(* Reading through handles *)

\* The handle, among hs, of an object that a getter returned
HandleOf(hs, o) == IF o.n = 0 THEN 0 ELSE CHOOSE h \in DOMAIN hs : hs[h].off = o.off

Fields(b, hs, o) ==
    LET r == Raw(b, o, "r")
        xs == Raw(b, o, "xs")
        ss == Raw(b, o, "ss")
    IN  [x |-> GetScalar(b, o), s |-> GetStr(b, o), n |-> HandleOf(hs, Raw(b, o, "n")),
         r |-> [i \in 1 .. r.n |-> HandleOf(hs, Element(r, i))],
         xs |-> [i \in 1 .. xs.n |-> ScalarAt(b, xs, i)],
         ss |-> [i \in 1 .. ss.n |-> StrAt(b, ss, i)]]

-----------------------------------------------------------------------------
(* Calls *)

\* The call leaves the buffer b and the handles hs.
Leaves(b, hs) ==
    \E c \in {b} : made' = c /\ handles' = hs /\ seen' = [h \in DOMAIN hs |-> Fields(c, hs, hs[h])]

Called(name, h, i, v, ok) ==
    /\ calls < MaxCalls /\ calls' = calls + 1
    /\ call' = [name |-> name, h |-> h, i |-> i, v |-> v, ok |-> ok]
    /\ UNCHANGED version

\* nbuf_alloc_aligned grants size bytes.
Room(size) == CanAlloc(made, Start(made) - made.len + size)
RoomForObj == Room(4 + ObjSize(version))
RoomForArr(k, ssize, psize) == Room((IF IsBytes(ssize, psize) THEN 4 ELSE 8) + k * (ssize + 4 * psize))

\* Mutant: the pointers of an older object are not counted.
CanPoint_Always(o, i) == TRUE

\* nbuf_obj_set_p for pointer i of o, if there is one, to the object with its
\* header at hdr
CanPoint(o, i) == i < o.psize
Point(b, o, i, hdr) == IF CanPoint(o, i) THEN SetP(b, o, i, hdr, TRUE) ELSE b

\* alloc_M
AllocM ==
    /\ handles = <<>>
    /\ Leaves(IF RoomForObj THEN AllocObj(made, version.ssize, version.psize) ELSE made,
              IF RoomForObj THEN <<NewObj(made, version.ssize, version.psize)>> ELSE <<>>)
    /\ Called("alloc", 0, 0, 0, RoomForObj)

\* M_set_x
SetX(h, v) ==
    LET o == handles[h]
    IN  /\ Leaves(IF HasScalar(o) THEN SetWord(made, o.off + 4 * o.psize, v) ELSE made, handles)
        /\ Called("set_x", h, 0, v, HasScalar(o))

\* M_set_s: the string is allocated before it is known whether the field is there.
SetS(h, v) ==
    LET o == handles[h]
        room == RoomForArr(StrLen(v), 1, 0)
    IN  /\ Leaves(IF room THEN Point(AllocStr(made, v), o, Index["s"], Start(made)) ELSE made, handles)
        /\ Called("set_s", h, 0, v, room /\ CanPoint(o, Index["s"]))

\* M_set_raw_n, for an object that is no element of an array of several
SetRawN(h, g) ==
    LET o == handles[h]
    IN  /\ handles[g].n = 1
        /\ Leaves(Point(made, o, Index["n"], HdrOffset(made, handles[g])), handles)
        /\ Called("set_n", h, 0, g, CanPoint(o, Index["n"]))

\* M_alloc_n
AllocN(h) ==
    LET o == handles[h]
        new == NewObj(made, version.ssize, version.psize)
        with == AllocObj(made, version.ssize, version.psize)
        ok == RoomForObj /\ CanPoint(o, Index["n"])
    IN  /\ Leaves(IF RoomForObj THEN Point(with, o, Index["n"], HdrOffset(with, new)) ELSE made,
                  IF ok THEN Append(handles, new) ELSE handles)
        /\ Called("alloc_n", h, 0, 0, ok)

\* An array of k elements becomes pointer i of o.
PointToArr(o, i, k, ssize, psize) ==
    LET with == AllocArr(made, k, ssize, psize)
    IN  Point(with, o, i, HdrOffset(with, NewArr(made, k, ssize, psize)))

\* M_alloc_r: the program gets the first element and may advance to the others.
AllocR(h, k) ==
    LET o == handles[h]
        room == RoomForArr(k, version.ssize, version.psize)
        ok == room /\ CanPoint(o, Index["r"])
        first == NewArr(made, k, version.ssize, version.psize)
    IN  /\ Leaves(IF room THEN PointToArr(o, Index["r"], k, version.ssize, version.psize) ELSE made,
                  IF ok THEN handles \o [i \in 1 .. k |-> Element(first, i)] ELSE handles)
        /\ Called("alloc_r", h, 0, k, ok)

\* M_alloc_xs: the field is looked for first.
AllocXs(h, k) ==
    LET o == handles[h]
        ok == CanPoint(o, Index["xs"]) /\ RoomForArr(k, ElemSsize("xs"), 0)
    IN  /\ Leaves(IF ok THEN PointToArr(o, Index["xs"], k, ElemSsize("xs"), 0) ELSE made, handles)
        /\ Called("alloc_xs", h, 0, k, ok)

\* M_alloc_ss
AllocSs(h, k) ==
    LET o == handles[h]
        room == RoomForArr(k, 0, ElemPsize("ss"))
    IN  /\ Leaves(IF room THEN PointToArr(o, Index["ss"], k, 0, ElemPsize("ss")) ELSE made, handles)
        /\ Called("alloc_ss", h, 0, k, room /\ CanPoint(o, Index["ss"]))

\* M_set_xs, for an element the array has or the one past it
SetXs(h, i, v) ==
    LET xs == Raw(made, handles[h], "xs")
    IN  /\ i <= xs.n + 1
        /\ Leaves(IF i <= xs.n THEN SetWord(made, Element(xs, i).off, v) ELSE made, handles)
        /\ Called("set_xs", h, i, v, i <= xs.n)

\* M_set_ss: here the element is looked for before the string is allocated.
SetSs(h, i, v) ==
    LET ss == Raw(made, handles[h], "ss")
        ok == i <= ss.n /\ RoomForArr(StrLen(v), 1, 0)
    IN  /\ i <= ss.n + 1
        /\ Leaves(IF ok THEN Point(AllocStr(made, v), Element(ss, i), 0, Start(made)) ELSE made, handles)
        /\ Called("set_ss", h, i, v, ok)

AccNext ==
    \/ AllocM
    \/ \E h \in DOMAIN handles :
        \/ AllocN(h)
        \/ \E g \in DOMAIN handles : SetRawN(h, g)
        \/ \E k \in Lengths : AllocR(h, k) \/ AllocXs(h, k) \/ AllocSs(h, k)
        \/ \E v \in Numbers : SetX(h, v) \/ (\E i \in 1 .. 2 : SetXs(h, i, v))
        \/ \E v \in Strings : SetS(h, v) \/ (\E i \in 1 .. 2 : SetSs(h, i, v))

-----------------------------------------------------------------------------
Store == INSTANCE ObjectStore WITH objects <- seen

\* Calls of the generated functions in any order implement an object store: what
\* was set is read back, through every handle and every way to an object, and
\* setting one field, an array that is replaced or a call that fails half way
\* after it has allocated, disturbs no other.
ImplementsStore == Store!Spec
=============================================================================
