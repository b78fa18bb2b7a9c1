------------------------------- MODULE FileIO -------------------------------
(***************************************************************************)
(* Loading a file into a buffer (util.c): a regular file is mapped, any    *)
(* other one read until its end, by reads that may return less than they   *)
(* were asked for.  The i-th byte of the file is the number i, so that a   *)
(* byte lost, repeated or moved shows.  A build without mmap() reads       *)
(* regular files, too: they are not `mappable' here.                       *)
(***************************************************************************)
EXTENDS Integers

CONSTANTS BUFSIZ,     \* bytes asked for at a time
          MaxSize,    \* bound on the size of a file
          MaxRoom     \* bound on what a buffer gains beyond what it must when it grows

ASSUME BufsizAssumption == BUFSIZ \in Nat \ {0}
ASSUME MaxSizeAssumption == MaxSize \in Nat
ASSUME MaxRoomAssumption == MaxRoom \in Nat

VARIABLES
    mappable, size,  \* of the open file
    pos,             \* how far read() has come
    base,            \* buf->base: "null", "heap", "mapped", "unset" before any initialisation
    len, cap,        \* of the buffer
    mem,             \* its bytes, a function on 0 .. cap - 1, or on the mapped file
    maps,            \* mappings that exist
    io,              \* "none"; "open", in nbuf_load_fd; "read", in its loop; "back"
    ret              \* what nbuf_load_fd returned

ioVars == <<mappable, size, pos, base, len, cap, mem, maps, io, ret>>

File(n) == [i \in 0 .. n - 1 |-> i + 1]
Zeros(n) == [i \in 0 .. n - 1 |-> 0]

Init ==
    /\ mappable = FALSE /\ size = 0 /\ pos = 0
    /\ base = "unset" /\ len = 0 /\ cap = 0 /\ mem = Zeros(0)
    /\ maps = 0 /\ io = "none" /\ ret = 0

\* nbuf_load_fp is called for a file, with a buffer on the caller's stack that
\* is or is not initialised to NULL.
LoadFp(b) ==
    /\ io = "none"
    /\ mappable' \in BOOLEAN /\ size' \in 0 .. MaxSize /\ pos' = 0
    /\ base' = b /\ len' = 0 /\ cap' = 0 /\ mem' = Zeros(0)
    /\ io' = "open"
    /\ UNCHANGED <<maps, ret>>

Answer(n) == io' = "back" /\ ret' = n

\* fstat() fails: nothing is stored in the buffer.
StatFails ==
    /\ io = "open" /\ Answer(0)
    /\ UNCHANGED <<mappable, size, pos, base, len, cap, mem, maps>>

\* mmap() of a file that is not empty
Map ==
    /\ io = "open" /\ mappable /\ size > 0
    /\ cap' = 0
    /\ \/ /\ base' = "mapped" /\ len' = size /\ mem' = File(size)
          /\ maps' = maps + 1 /\ Answer(size)
       \/ /\ base' = "null" /\ len' = 0 /\ mem' = Zeros(0)
          /\ maps' = maps /\ Answer(0)
    /\ UNCHANGED <<mappable, size, pos>>

\* nbuf_load_fd_read
ReadBegins ==
    /\ io = "open" /\ ~(mappable /\ size > 0)
    /\ base' = "null" /\ len' = 0 /\ cap' = 0 /\ mem' = Zeros(0)
    /\ io' = "read"
    /\ UNCHANGED <<mappable, size, pos, maps, ret>>

\* nbuf_alloc(buf, BUFSIZ), and the length taken back: c is the capacity then
Grown(c) == IF cap >= len + BUFSIZ THEN c = cap ELSE c \in len + BUFSIZ .. len + BUFSIZ + MaxRoom
Moved(c) == [i \in 0 .. c - 1 |-> IF i < cap /\ (c = cap \/ i < len) THEN mem[i] ELSE 0]

\* Mutant: as much is read as was asked for, or it is the end of the file.
ReadSome_ShortIsLast ==
    /\ io = "read"
    /\ \E c \in cap .. len + BUFSIZ + MaxRoom :
           /\ Grown(c) /\ base' = "heap" /\ cap' = c
           /\ \E n \in 1 .. c - len :
                  /\ pos + n <= size
                  /\ mem' = [i \in 0 .. c - 1 |-> IF len <= i /\ i < len + n
                                                  THEN pos + (i - len) + 1 ELSE Moved(c)[i]]
                  /\ len' = len + n /\ pos' = pos + n
                  /\ IF n < c - len THEN Answer(len') ELSE UNCHANGED <<io, ret>>
    /\ UNCHANGED <<mappable, size, maps>>

\* read() returns n bytes, however few.
ReadSome ==
    /\ io = "read"
    /\ \E c \in cap .. len + BUFSIZ + MaxRoom :
           /\ Grown(c) /\ base' = "heap" /\ cap' = c
           /\ \E n \in 1 .. c - len :
                  /\ pos + n <= size
                  /\ mem' = [i \in 0 .. c - 1 |-> IF len <= i /\ i < len + n
                                                  THEN pos + (i - len) + 1 ELSE Moved(c)[i]]
                  /\ len' = len + n /\ pos' = pos + n
    /\ UNCHANGED <<mappable, size, maps, io, ret>>

\* read() returns 0.
ReadEnd ==
    /\ io = "read" /\ pos = size
    /\ \E c \in cap .. len + BUFSIZ + MaxRoom : Grown(c) /\ base' = "heap" /\ cap' = c /\ mem' = Moved(c)
    /\ Answer(len)
    /\ UNCHANGED <<mappable, size, pos, len, maps>>

\* No memory, or read() returns -1, also when it was interrupted.
ReadFails ==
    /\ io = "read"
    /\ base' = "null" /\ len' = 0 /\ cap' = 0 /\ mem' = Zeros(0)
    /\ Answer(0)
    /\ UNCHANGED <<mappable, size, pos, maps>>

\* nbuf_clear.  realloc_mapped leaves the fields as they are; a buffer that was
\* never initialised has no function to call.
Clear ==
    /\ io = "back" /\ base # "unset"
    /\ IF base = "mapped"
       THEN maps' = maps - 1 /\ UNCHANGED <<base, len, cap, mem>>
       ELSE base' = "null" /\ len' = 0 /\ cap' = 0 /\ mem' = Zeros(0) /\ maps' = maps
    /\ io' = "none"
    /\ UNCHANGED <<mappable, size, pos, ret>>

LoadStep == StatFails \/ Map \/ ReadBegins \/ ReadSome \/ ReadEnd \/ ReadFails

Next == LoadFp("null") \/ LoadFp("unset") \/ LoadStep \/ Clear

Spec == Init /\ [][Next]_ioVars

-----------------------------------------------------------------------------
TypeOK ==
    /\ mappable \in BOOLEAN /\ size \in 0 .. MaxSize /\ pos \in 0 .. size
    /\ base \in {"null", "heap", "mapped", "unset"}
    /\ len \in Nat /\ cap \in Nat /\ ret \in Nat /\ maps \in {0, 1}
    /\ io \in {"none", "open", "read", "back"}
    /\ base # "mapped" => mem \in [0 .. cap - 1 -> 0 .. MaxSize] /\ len <= cap

\* A load that says it succeeded has the whole file in the buffer, each byte in
\* its place, however the reads were cut and the buffer grew.
LoadedWhole ==
    io = "back" /\ ret > 0 =>
        /\ ret = size /\ len = size
        /\ \A i \in 0 .. size - 1 : mem[i] = i + 1
=============================================================================
