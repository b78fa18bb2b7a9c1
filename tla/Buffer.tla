------------------------------- MODULE Buffer -------------------------------
(***************************************************************************)
(* struct nbuf_buf (nbuf.h) and its growth function nbuf_alloc_ex          *)
(* (nbuf.c): one buffer driven by a client that may call any operation of  *)
(* the API in any order.  A buffer is read-only memory, caller memory of a *)
(* fixed capacity, or heap memory that grows; base, len, cap and realloc   *)
(* are the four fields of the struct.  nbuf_alloc is split where it calls  *)
(* out: the request, each turn of the growth loop, and realloc(), which    *)
(* may fail.                                                               *)
(***************************************************************************)
EXTENDS Integers

CONSTANTS WORD,     \* sizeof (nbuf_word_t), the least capacity after growth
          Byte,     \* byte values the client stores; 0 is the null byte
          Aligns,   \* alignments the client asks for; 1 is plain nbuf_alloc
          MaxLen    \* bound on the length of the buffer

ASSUME WordAssumption == WORD \in Nat /\ WORD >= 2
ASSUME ByteAssumption == 0 \in Byte
ASSUME AlignAssumption == Aligns \subseteq Nat \ {0}
ASSUME MaxLenAssumption == MaxLen \in Nat

VARIABLES
    base,     \* "null", or the memory base points to: "caller" or "heap"
    len, cap, \* the fields of the same name
    realloc,  \* the function the buffer grows with: nbuf_alloc_ex or NULL
    block,    \* bytes of the memory at base that exist
    mem,      \* their contents, a function on 0 .. block - 1
    pc,       \* "ready", or where the running nbuf_alloc stands: "grow", "realloc"
    req,      \* the running request: its size and the padding before it
    newcap,   \* the local newcap of nbuf_alloc_ex
    ret,      \* the last request's answer; ok = FALSE is the NULL pointer
    dirty     \* history: len was lowered since memory was last zeroed to cap

fields == <<base, len, cap, realloc>>
vars == <<base, len, cap, realloc, block, mem, pc, req, newcap, ret, dirty>>

Request == [size : Nat, pad : Nat]
Answer == [ok : BOOLEAN, at : Nat, size : Nat]
Nothing == [ok |-> FALSE, at |-> 0, size |-> 0]
Zeros(n) == [i \in 0 .. n - 1 |-> 0]
Grows == realloc = "nbuf_alloc_ex"

Init ==
    /\ base = "null" /\ len = 0 /\ cap = 0 /\ realloc = "NULL"
    /\ block = 0 /\ mem = Zeros(0)
    /\ pc = "ready" /\ req = [size |-> 0, pad |-> 0] /\ newcap = 0
    /\ ret = Nothing /\ dirty = FALSE

\* A buffer is given memory only before its first use or after nbuf_clear:
\* initialising a live one would lose its heap block.
Unused == pc = "ready" /\ base = "null"

InitRo ==
    /\ Unused
    /\ \E n \in 1 .. MaxLen : \E m \in [0 .. n - 1 -> Byte] :
           /\ base' = "caller" /\ len' = n /\ cap' = 0 /\ realloc' = "NULL"
           /\ block' = n /\ mem' = m
    /\ ret' = Nothing /\ dirty' = FALSE
    /\ UNCHANGED <<pc, req, newcap>>

InitRw ==
    /\ Unused
    /\ \E n \in 1 .. MaxLen : \E m \in [0 .. n - 1 -> Byte] :
           /\ base' = "caller" /\ len' = 0 /\ cap' = n /\ realloc' = "NULL"
           /\ block' = n /\ mem' = m
    /\ ret' = Nothing /\ dirty' = TRUE
    /\ UNCHANGED <<pc, req, newcap>>

\* nbuf_init_ex: malloc() is not called for 0 bytes, and may fail.
InitEx ==
    /\ Unused
    /\ \E n \in 0 .. MaxLen :
           \/ n > 0 /\ base' = "heap" /\ cap' = n /\ block' = n /\ mem' = Zeros(n)
           \/ base' = "null" /\ cap' = 0 /\ block' = 0 /\ mem' = Zeros(0)
    /\ len' = 0 /\ realloc' = "nbuf_alloc_ex"
    /\ ret' = Nothing /\ dirty' = FALSE
    /\ UNCHANGED <<pc, req, newcap>>

\* Mutant: the capacity outlives the block.
Clear_KeepsCap ==
    /\ pc = "ready"
    /\ base' = "null" /\ len' = 0
    /\ block' = 0 /\ mem' = Zeros(0)
    /\ ret' = Nothing /\ dirty' = FALSE
    /\ UNCHANGED <<cap, realloc, pc, req, newcap>>

\* nbuf_clear; through nbuf_alloc_ex(buf, 0) the heap block is freed.
Clear ==
    /\ pc = "ready"
    /\ base' = "null" /\ len' = 0 /\ cap' = 0
    /\ block' = 0 /\ mem' = Zeros(0)
    /\ ret' = Nothing /\ dirty' = FALSE
    /\ UNCHANGED <<realloc, pc, req, newcap>>

-----------------------------------------------------------------------------
(* nbuf_alloc, nbuf_alloc_aligned, nbuf_add, nbuf_add1                     *)

\* Mutant: (-len) % align with C's sign.
Pad_Signed(align) == 0 - (len % align)

Pad(align) == LET pad == len % align IN IF pad = 0 THEN 0 ELSE align - pad

\* Mutant: the padding is left out of the pointer.
Granted_Unaligned(r, from) == [ok |-> TRUE, at |-> from, size |-> r.size]

\* The pointer handed out for the request r when the buffer ends at `from'.
Granted(r, from) == [ok |-> TRUE, at |-> from + r.pad, size |-> r.size]

\* Mutant: growth starts from any capacity, also from 0.
Least_Any(c) == c

\* Growth starts from one word at least.
Least(c) == IF c < WORD THEN WORD ELSE c

\* Nothing asked of a buffer without memory is granted as base + 0: NULL.
Alloc(size, align) ==
    LET r == [size |-> size, pad |-> Pad(align)]
        newlen == len + size + r.pad
    IN  /\ pc = "ready" /\ newlen <= MaxLen
        /\ \/ /\ cap >= newlen
              /\ len' = newlen
              /\ ret' = IF base = "null" THEN Nothing ELSE Granted(r, len)
              /\ UNCHANGED <<pc, req, newcap>>
           \/ /\ cap < newlen /\ ~Grows
              /\ ret' = Nothing
              /\ UNCHANGED <<len, pc, req, newcap>>
           \/ /\ cap < newlen /\ Grows
              /\ pc' = "grow" /\ req' = r
              /\ newcap' = Least(cap)
              /\ UNCHANGED <<len, ret>>
        /\ UNCHANGED <<base, cap, realloc, block, mem, dirty>>

Needed == len + req.size + req.pad

\* One turn of the loop of nbuf_alloc_ex, or its exit.
Grow ==
    /\ pc = "grow"
    /\ \/ /\ newcap < Needed
          /\ newcap' = newcap + newcap \div 2
          /\ pc' = pc
       \/ /\ newcap >= Needed
          /\ pc' = "realloc"
          /\ newcap' = newcap
    /\ UNCHANGED <<fields, block, mem, req, ret, dirty>>

\* Mutant: what realloc() adds is not cleared.
ReallocOk_NoMemset ==
    /\ pc = "realloc"
    /\ \E b \in Byte : mem' = [i \in 0 .. newcap - 1 |-> IF i < len THEN mem[i] ELSE b]
    /\ base' = "heap" /\ block' = newcap /\ cap' = newcap
    /\ ret' = Granted(req, len) /\ len' = Needed
    /\ dirty' = FALSE /\ pc' = "ready"
    /\ UNCHANGED <<realloc, req, newcap>>

\* Mutant: memset() begins at the base.
ReallocOk_ClearsAll ==
    /\ pc = "realloc"
    /\ mem' = Zeros(newcap)
    /\ base' = "heap" /\ block' = newcap /\ cap' = newcap
    /\ ret' = Granted(req, len) /\ len' = Needed
    /\ dirty' = FALSE /\ pc' = "ready"
    /\ UNCHANGED <<realloc, req, newcap>>

\* realloc() keeps the old block's bytes; memset() then zeroes all from len.
ReallocOk ==
    /\ pc = "realloc"
    /\ mem' = [i \in 0 .. newcap - 1 |-> IF i < len THEN mem[i] ELSE 0]
    /\ base' = "heap" /\ block' = newcap /\ cap' = newcap
    /\ ret' = Granted(req, len) /\ len' = Needed
    /\ dirty' = FALSE /\ pc' = "ready"
    /\ UNCHANGED <<realloc, req, newcap>>

\* Mutant: the capacity is stored before realloc() is known to have worked.
ReallocFails_CapFirst ==
    /\ pc = "realloc"
    /\ cap' = newcap
    /\ ret' = Nothing /\ pc' = "ready"
    /\ UNCHANGED <<base, len, realloc, block, mem, req, newcap, dirty>>

\* realloc() returns NULL: the old block is still there, and still in use.
ReallocFails ==
    /\ pc = "realloc"
    /\ ret' = Nothing /\ pc' = "ready"
    /\ UNCHANGED <<fields, block, mem, req, newcap, dirty>>

\* The client stores over the region it was given (nbuf_add and nbuf_add1 do).
Fill(b) ==
    /\ pc = "ready" /\ ret.ok
    /\ mem' = [i \in DOMAIN mem |->
                 IF ret.at <= i /\ i < ret.at + ret.size THEN b ELSE mem[i]]
    /\ ret' = Nothing
    /\ UNCHANGED <<fields, block, pc, req, newcap, dirty>>

\* Clients pop bytes by storing to the len field, as parse.c and compile.c do.
Truncate(n) ==
    /\ pc = "ready" /\ n < len
    /\ len' = n /\ dirty' = TRUE /\ ret' = Nothing
    /\ UNCHANGED <<base, cap, realloc, block, mem, pc, req, newcap>>

Next ==
    \/ InitRo \/ InitRw \/ InitEx \/ Clear
    \/ \E size \in 0 .. MaxLen, align \in Aligns : Alloc(size, align)
    \/ Grow \/ ReallocOk \/ ReallocFails
    \/ \E b \in Byte : Fill(b)
    \/ \E n \in 0 .. MaxLen : Truncate(n)

\* nbuf_alloc runs to its return once called; the client may stop calling.
Spec == Init /\ [][Next]_vars /\ WF_vars(Grow) /\ WF_vars(ReallocOk \/ ReallocFails)

-----------------------------------------------------------------------------
TypeOK ==
    /\ base \in {"null", "caller", "heap"} /\ realloc \in {"NULL", "nbuf_alloc_ex"}
    /\ len \in 0 .. MaxLen /\ cap \in Nat /\ block \in Nat /\ newcap \in Nat
    /\ mem \in [0 .. block - 1 -> Byte]
    /\ pc \in {"ready", "grow", "realloc"}
    /\ req \in Request /\ ret \in Answer /\ dirty \in BOOLEAN

\* Every byte below len, and every byte the buffer believes it may still hand
\* out below cap, exists in the memory at base, whatever mixture of in-place
\* allocation, growth, failed growth and popping led there.
InBounds == len <= block /\ cap <= block

\* The assertion nbuf_alloc_ex makes before it grows (nbuf.c:17): the base is
\* NULL exactly when the capacity is 0.
GrowAssertion == pc = "grow" => ((base = "null") <=> (cap = 0))

\* A buffer that owns its memory hands out null bytes as long as the client
\* has popped nothing since the last growth: the object allocators rely on it,
\* they write headers only, and an unset field must read as 0 or null.
FreshIsZero == Grows /\ ~dirty => \A i \in len .. block - 1 : mem[i] = 0

\* realloc() is called only with a capacity that holds the request.
GrownEnough == pc = "realloc" => newcap >= Needed

\* A pointer handed out covers exactly the end of the buffer, past every byte
\* that was allocated before: no two live allocations overlap.
RegionsAreFresh ==
    [][ret' # ret /\ ret'.ok => ret'.at >= len /\ ret'.at + ret'.size = len' /\ len' <= block']_vars

\* While nbuf_alloc runs, realloc() failing or moving the block included, the
\* bytes that were in the buffer stay there unchanged.
GrowthKeepsBytes ==
    [][pc # "ready" => len' >= len /\ \A i \in 0 .. len - 1 : mem'[i] = mem[i]]_vars

\* The growth loop ends: nbuf_alloc always answers.  (newcap / 2 is not 0
\* because the loop starts from at least one word.)
AllocReturns == (pc # "ready") ~> (pc = "ready")

\* The buffer is a string of bytes to its clients.
Content == [i \in 0 .. len - 1 |-> mem[i]]
Bytes == INSTANCE ByteString WITH size <- len, content <- Content
ImplementsByteString == Bytes!Spec
=============================================================================
