---------------------------- MODULE BufferProofs ----------------------------
(***************************************************************************)
(* Proofs about Buffer, for every word size, byte alphabet, set of         *)
(* alignments and length bound.                                            *)
(***************************************************************************)
EXTENDS Buffer, TLAPS

USE WordAssumption, ByteAssumption, AlignAssumption, MaxLenAssumption

\* A NULL buffer is empty, and nbuf_alloc_ex only ever sees memory it owns.
Owned ==
    /\ base = "null" => cap = 0 /\ block = 0 /\ len = 0
    /\ Grows => base # "caller"
    /\ Grows /\ cap = 0 => base = "null"
    /\ Grows => block = cap

\* What holds between the call of nbuf_alloc_ex and its return.
Growing ==
    pc # "ready" => Grows /\ cap < Needed /\ Needed <= MaxLen /\ newcap >= WORD /\ newcap >= cap

\* The region of the last answer ends where the buffer ends.
RegionIsTail == ret.ok => ret.at + ret.size = len /\ base # "null"

IInv == TypeOK /\ InBounds /\ Owned /\ Growing /\ GrownEnough /\ RegionIsTail /\ FreshIsZero

\* The three parts of the type invariant: the struct, its memory, the call.
FieldsOK ==
    /\ base \in {"null", "caller", "heap"} /\ realloc \in {"NULL", "nbuf_alloc_ex"}
    /\ len \in 0 .. MaxLen /\ cap \in Nat /\ block \in Nat
MemOK == mem \in [0 .. block - 1 -> Byte]
CallOK ==
    /\ newcap \in Nat /\ pc \in {"ready", "grow", "realloc"}
    /\ req \in Request /\ ret \in Answer /\ dirty \in BOOLEAN

\* The padding is a natural number: nothing is ever allocated backwards.
LEMMA PadIsNat ==
    ASSUME TypeOK, NEW align \in Aligns
    PROVE  Pad(align) \in Nat
<1>1. align \in Nat \ {0} /\ len \in Nat
  BY DEF TypeOK
<1>2. len % align \in 0 .. align - 1
  BY <1>1
<1> QED
  BY <1>1, <1>2 DEF Pad

\* Zeroed memory is memory.
LEMMA ZerosType ==
    ASSUME NEW n \in Nat
    PROVE  Zeros(n) \in [0 .. n - 1 -> Byte] /\ \A i \in 0 .. n - 1 : Zeros(n)[i] = 0
BY DEF Zeros

LEMMA InitInv == Init => IInv
<1> SUFFICES ASSUME Init PROVE IInv
  OBVIOUS
<1>1. TypeOK
  <2>1. block = 0 /\ mem = Zeros(0)
    BY DEF Init
  <2>2. MemOK
    BY <2>1, ZerosType DEF MemOK
  <2>3. FieldsOK
    BY DEF Init, FieldsOK
  <2>4. CallOK
    BY DEF Init, CallOK, Request, Answer, Nothing
  <2> QED
    BY <2>2, <2>3, <2>4 DEF TypeOK, FieldsOK, MemOK, CallOK
<1>2. InBounds /\ Owned /\ Growing /\ GrownEnough /\ RegionIsTail /\ FreshIsZero
  BY DEF Init, InBounds, Owned, Grows, Growing, GrownEnough, RegionIsTail, FreshIsZero, Nothing
<1> QED
  BY <1>1, <1>2 DEF IInv

\* One step of nbuf_alloc up to the growth loop.
LEMMA AllocInv ==
    ASSUME IInv, NEW size \in 0 .. MaxLen, NEW align \in Aligns, Alloc(size, align)
    PROVE  IInv'
<1> DEFINE r == [size |-> size, pad |-> Pad(align)]
           newlen == len + size + r.pad
<1>1. r \in Request /\ newlen \in Nat /\ newlen >= len
  BY PadIsNat DEF IInv, TypeOK, Request
<1>2. pc = "ready" /\ newlen <= MaxLen /\ UNCHANGED <<base, cap, realloc, block, mem, dirty>>
  BY DEF Alloc, Least
<1>3. CASE cap >= newlen /\ len' = newlen
           /\ ret' = (IF base = "null" THEN Nothing ELSE Granted(r, len))
           /\ UNCHANGED <<pc, req, newcap>>
  <2>1. ret' \in Answer
    BY <1>1, <1>3 DEF Granted, Nothing, Answer, Request, IInv, TypeOK
  <2>2. RegionIsTail'
    BY <1>1, <1>2, <1>3 DEF RegionIsTail, Granted, Nothing, IInv, TypeOK, Request
  <2>3. TypeOK'
    BY <1>1, <1>2, <1>3, <2>1 DEF IInv, TypeOK
  <2>4. (InBounds /\ Owned /\ Growing /\ GrownEnough /\ FreshIsZero)'
    BY <1>1, <1>2, <1>3
       DEF IInv, TypeOK, InBounds, Owned, Grows, Growing, GrownEnough, FreshIsZero, Request
  <2> QED
    BY <2>2, <2>3, <2>4 DEF IInv
<1>4. CASE ret' = Nothing /\ UNCHANGED <<len, pc, req, newcap>>
  BY <1>2, <1>4
     DEF IInv, TypeOK, InBounds, Owned, Grows, Growing, GrownEnough, RegionIsTail,
         FreshIsZero, Needed, Nothing, Answer
<1>5. CASE /\ cap < newlen /\ Grows /\ pc' = "grow" /\ req' = r
           /\ newcap' = (IF cap < WORD THEN WORD ELSE cap)
           /\ UNCHANGED <<len, ret>>
  BY <1>1, <1>2, <1>5
     DEF IInv, TypeOK, InBounds, Owned, Grows, Growing, GrownEnough, RegionIsTail,
         FreshIsZero, Needed, Answer, Request
<1> QED
  BY <1>3, <1>4, <1>5 DEF Alloc, Least

\* A turn of the growth loop only raises newcap.
LEMMA GrowInv ==
    ASSUME IInv, Grow
    PROVE  IInv'
<1>1. newcap + newcap \div 2 \in Nat /\ newcap + newcap \div 2 >= newcap
  BY DEF IInv, TypeOK
<1>2. newcap' \in Nat /\ newcap' >= newcap /\ pc' \in {"grow", "realloc"} /\ pc = "grow"
  BY <1>1 DEF Grow, IInv, TypeOK
<1>3. pc' = "realloc" => newcap' >= Needed
  BY DEF Grow, IInv, TypeOK
<1> QED
  BY <1>2, <1>3
     DEF Grow, fields, IInv, TypeOK, InBounds, Owned, Grows, Growing, GrownEnough, RegionIsTail,
         FreshIsZero, Needed, Answer, Request

LEMMA ReallocInv ==
    ASSUME IInv, ReallocOk \/ ReallocFails
    PROVE  IInv'
<1>1. CASE ReallocFails
  BY <1>1
     DEF ReallocFails, fields, Nothing, IInv, TypeOK, InBounds, Owned, Grows, Growing, GrownEnough,
         RegionIsTail, FreshIsZero, Needed, Answer, Request
<1>2. CASE ReallocOk
  <2>1. /\ newcap \in Nat /\ newcap >= Needed /\ newcap > 0
        /\ Needed \in 0 .. MaxLen /\ len \in Nat /\ Needed >= len
    BY <1>2 DEF ReallocOk, IInv, TypeOK, GrownEnough, Growing, Needed, Request
  <2>2. mem' \in [0 .. newcap - 1 -> Byte]
    <3>1. \A i \in 0 .. newcap - 1 : i < len => i \in 0 .. block - 1
      BY <2>1 DEF IInv, TypeOK, InBounds
    <3>2. \A i \in 0 .. newcap - 1 : (IF i < len THEN mem[i] ELSE 0) \in Byte
      BY <3>1 DEF IInv, TypeOK
    <3> QED
      BY <1>2, <3>2 DEF ReallocOk
  <2>3. \A i \in Needed .. newcap - 1 : mem'[i] = 0
    BY <1>2, <2>1 DEF ReallocOk
  <2>4. Granted(req, len) \in Answer /\ Granted(req, len).at + Granted(req, len).size = Needed
    BY <2>1 DEF Granted, Answer, Needed, Request, IInv, TypeOK
  <2>5. /\ base' = "heap" /\ block' = newcap /\ cap' = newcap /\ len' = Needed
        /\ ret' = Granted(req, len) /\ dirty' = FALSE /\ pc' = "ready"
        /\ UNCHANGED <<realloc, req, newcap>>
    BY <1>2 DEF ReallocOk
  <2>6. TypeOK'
    BY <2>1, <2>2, <2>4, <2>5 DEF IInv, TypeOK
  <2>7. (InBounds /\ Owned /\ Growing /\ GrownEnough)'
    BY <2>1, <2>5 DEF InBounds, Owned, Grows, Growing, GrownEnough
  <2>8. (RegionIsTail /\ FreshIsZero)'
    BY <2>1, <2>3, <2>4, <2>5 DEF Grows, RegionIsTail, FreshIsZero
  <2> QED
    BY <2>6, <2>7, <2>8 DEF IInv
<1> QED
  BY <1>1, <1>2

LEMMA ClientInv ==
    ASSUME IInv, InitRo \/ InitRw \/ InitEx \/ Clear
    PROVE  IInv'
<1>1. /\ pc' = "ready" /\ UNCHANGED <<pc, req, newcap>>
      /\ ret' = Nothing /\ Nothing \in Answer /\ dirty' \in BOOLEAN
  BY DEF InitRo, InitRw, InitEx, Clear, Unused, Nothing, Answer
<1>2. CallOK'
  BY <1>1 DEF IInv, TypeOK, CallOK
<1>3. Growing' /\ GrownEnough' /\ RegionIsTail'
  BY <1>1 DEF Grows, Growing, GrownEnough, RegionIsTail, Nothing
<1>4. FieldsOK' /\ MemOK' /\ InBounds' /\ Owned' /\ FreshIsZero'
  <2>1. CASE InitRo
    <3>1. PICK n \in 1 .. MaxLen : \E m \in [0 .. n - 1 -> Byte] :
             /\ base' = "caller" /\ len' = n /\ cap' = 0 /\ realloc' = "NULL"
             /\ block' = n /\ mem' = m
      BY <2>1 DEF InitRo
    <3>2. MemOK'
      BY <3>1 DEF MemOK
    <3> QED
      BY <3>1, <3>2 DEF FieldsOK, InBounds, Owned, Grows, FreshIsZero
  <2>2. CASE InitRw
    <3>1. PICK n \in 1 .. MaxLen : \E m \in [0 .. n - 1 -> Byte] :
             /\ base' = "caller" /\ len' = 0 /\ cap' = n /\ realloc' = "NULL"
             /\ block' = n /\ mem' = m
      BY <2>2 DEF InitRw
    <3>2. MemOK'
      BY <3>1 DEF MemOK
    <3> QED
      BY <3>1, <3>2 DEF FieldsOK, InBounds, Owned, Grows, FreshIsZero
  <2>3. CASE InitEx
    <3>1. PICK n \in 0 .. MaxLen :
             \/ n > 0 /\ base' = "heap" /\ cap' = n /\ block' = n /\ mem' = Zeros(n)
             \/ base' = "null" /\ cap' = 0 /\ block' = 0 /\ mem' = Zeros(0)
      BY <2>3 DEF InitEx
    <3>2. /\ block' \in Nat /\ mem' \in [0 .. block' - 1 -> Byte]
          /\ \A i \in 0 .. block' - 1 : mem'[i] = 0
      BY <3>1, ZerosType
    <3>3. len' = 0 /\ realloc' = "nbuf_alloc_ex"
      BY <2>3 DEF InitEx
    <3>4. FieldsOK' /\ InBounds' /\ Owned'
      BY <3>1, <3>3 DEF FieldsOK, InBounds, Owned, Grows
    <3>5. MemOK'
      BY <3>2 DEF MemOK
    <3> QED
      BY <3>2, <3>3, <3>4, <3>5 DEF FreshIsZero
  <2>4. CASE Clear
    <3>1. /\ base' = "null" /\ len' = 0 /\ cap' = 0 /\ block' = 0 /\ mem' = Zeros(0)
          /\ realloc' = realloc /\ realloc \in {"NULL", "nbuf_alloc_ex"}
      BY <2>4 DEF Clear, IInv, TypeOK
    <3>2. MemOK'
      BY <3>1, ZerosType DEF MemOK
    <3> QED
      BY <3>1, <3>2 DEF FieldsOK, InBounds, Owned, Grows, FreshIsZero
  <2> QED
    BY <2>1, <2>2, <2>3, <2>4
<1>5. TypeOK'
  BY <1>2, <1>4 DEF TypeOK, FieldsOK, MemOK, CallOK
<1> QED
  BY <1>3, <1>4, <1>5 DEF IInv

LEMMA StoreInv ==
    ASSUME IInv, (\E b \in Byte : Fill(b)) \/ (\E n \in 0 .. MaxLen : Truncate(n))
    PROVE  IInv'
<1>1. ASSUME NEW b \in Byte, Fill(b) PROVE IInv'
  <2>1. mem' \in [0 .. block - 1 -> Byte]
    BY <1>1 DEF Fill, IInv, TypeOK
  <2>2. \A i \in len .. block - 1 : mem'[i] = mem[i]
    BY <1>1 DEF Fill, IInv, TypeOK, RegionIsTail, Answer
  <2> QED
    BY <1>1, <2>1, <2>2
       DEF Fill, fields, Nothing, IInv, TypeOK, InBounds, Owned, Grows, Growing, GrownEnough,
           RegionIsTail, FreshIsZero, Needed, Answer
<1>2. ASSUME NEW n \in 0 .. MaxLen, Truncate(n) PROVE IInv'
  BY <1>2
     DEF Truncate, Nothing, IInv, TypeOK, InBounds, Owned, Grows, Growing, GrownEnough,
         RegionIsTail, FreshIsZero, Needed, Answer
<1> QED
  BY <1>1, <1>2

LEMMA NextInv == IInv /\ [Next]_vars => IInv'
<1> SUFFICES ASSUME IInv, [Next]_vars PROVE IInv'
  OBVIOUS
<1>1. CASE UNCHANGED vars
  BY <1>1
     DEF vars, IInv, TypeOK, InBounds, Owned, Grows, Growing, GrownEnough, RegionIsTail,
         FreshIsZero, Needed, Answer, Request
<1> QED
  BY <1>1, AllocInv, GrowInv, ReallocInv, ClientInv, StoreInv DEF Next

LEMMA Invariance == Spec => []IInv
BY InitInv, NextInv, PTL DEF Spec

-----------------------------------------------------------------------------
\* Every reachable state of a buffer is well typed: struct nbuf_buf and the
\* call under way in nbuf_alloc_ex, for every bound on the length.
THEOREM TypeCorrect == Spec => []TypeOK
BY Invariance, PTL DEF IInv

\* The memory below len and cap always exists, and realloc() is asked for
\* enough (InBounds, GrownEnough).
THEOREM MemorySafe == Spec => [](InBounds /\ GrownEnough)
<1>1. IInv => InBounds /\ GrownEnough
  BY DEF IInv, TypeOK, InBounds, Owned, Grows, Growing, GrownEnough
<1> QED
  BY <1>1, Invariance, PTL

\* The assertion of nbuf.c:17 never fires, after whatever calls the buffer is
\* grown (GrowAssertion).
THEOREM GrowAssertionHolds == Spec => []GrowAssertion
<1>1. IInv => GrowAssertion
  BY DEF IInv, TypeOK, Owned, Grows, Growing, GrowAssertion
<1> QED
  BY <1>1, Invariance, PTL

\* A heap buffer hands out null bytes until the client pops some.
THEOREM FreshZero == Spec => []FreshIsZero
BY Invariance, PTL DEF IInv

\* Allocations never overlap: a granted region starts at or after the old end
\* and ends at the new one, inside the memory.
THEOREM FreshRegions == Spec => RegionsAreFresh
<1>1. ASSUME IInv, IInv', [Next]_vars
      PROVE  ret' # ret /\ ret'.ok => ret'.at >= len /\ ret'.at + ret'.size = len' /\ len' <= block'
  <2>1. ret'.ok => ret'.at + ret'.size = len' /\ len' <= block'
    BY <1>1 DEF IInv, RegionIsTail, InBounds
  <2> SUFFICES ASSUME ret' # ret, ret'.ok PROVE ret'.at >= len
    BY <2>1
  <2>2. CASE ReallocOk
    BY <1>1, <2>2 DEF ReallocOk, Granted, IInv, TypeOK, Request
  <2>3. ASSUME NEW size \in 0 .. MaxLen, NEW align \in Aligns, Alloc(size, align)
        PROVE  ret'.at >= len
    BY <1>1, <2>3, PadIsNat DEF Alloc, Granted, Nothing, IInv, TypeOK
  <2>4. CASE InitRo \/ InitRw \/ InitEx \/ Clear \/ ReallocFails
    BY <2>4 DEF InitRo, InitRw, InitEx, Clear, ReallocFails, Nothing
  <2>5. CASE (\E b \in Byte : Fill(b)) \/ (\E n \in 0 .. MaxLen : Truncate(n))
    BY <2>5 DEF Fill, Truncate, Nothing
  <2>6. CASE Grow \/ UNCHANGED vars
    BY <2>6 DEF Grow, vars
  <2> QED
    BY <1>1, <2>2, <2>3, <2>4, <2>5, <2>6 DEF Next
<1> QED
  BY <1>1, Invariance, PTL DEF Spec, RegionsAreFresh

\* A step of nbuf_alloc_ex leaves the bytes of the buffer where they are.
LEMMA GrowthStep ==
    ASSUME IInv, [Next]_vars, pc # "ready"
    PROVE  len' >= len /\ \A i \in 0 .. len - 1 : mem'[i] = mem[i]
<1>1. CASE ReallocOk
  <2>1. /\ newcap \in Nat /\ Needed >= len /\ newcap >= Needed /\ len \in Nat
        /\ len' = Needed
        /\ mem' = [i \in 0 .. newcap - 1 |-> IF i < len THEN mem[i] ELSE 0]
    BY <1>1 DEF ReallocOk, IInv, TypeOK, GrownEnough, Needed, Request
  <2>2. Needed \in Int
    BY <1>1 DEF IInv, TypeOK, Needed, Request
  <2> QED
    BY <2>1, <2>2
<1>2. CASE Grow \/ ReallocFails \/ UNCHANGED vars
  BY <1>2 DEF Grow, ReallocFails, fields, vars, IInv, TypeOK
<1> QED
  BY <1>1, <1>2
     DEF Next, InitRo, InitRw, InitEx, Clear, Unused, Alloc, Fill, Truncate

\* No byte of the buffer changes while nbuf_alloc runs.
THEOREM GrowthKeeps == Spec => GrowthKeepsBytes
<1>1. IInv /\ [Next]_vars /\ pc # "ready"
        => len' >= len /\ \A i \in 0 .. len - 1 : mem'[i] = mem[i]
  BY GrowthStep
<1> QED
  BY <1>1, Invariance, PTL DEF Spec, GrowthKeepsBytes

-----------------------------------------------------------------------------
(* The buffer implements a string of bytes.                                *)

\* A byte that stays in the buffer keeps its value.
KeepsCommon == \A i \in 0 .. len - 1 : i < len' => mem'[i] = mem[i]

LEMMA ContentType == IInv => Bytes!TypeOK
<1> SUFFICES ASSUME IInv PROVE Bytes!TypeOK
  OBVIOUS
<1>1. \A i \in 0 .. len - 1 : i \in 0 .. block - 1
  BY DEF IInv, TypeOK, InBounds
<1>2. Content \in [0 .. len - 1 -> Byte]
  BY <1>1 DEF Content, IInv, TypeOK
<1> QED
  BY <1>2 DEF Bytes!TypeOK, Bytes!Strings, IInv, TypeOK

\* The indexes below n; kept folded when n is a primed length.
Upto(n) == 0 .. n - 1

LEMMA Below ==
    ASSUME NEW m \in Nat, NEW n \in Nat, n <= m, NEW i \in Upto(n)
    PROVE  i \in Upto(m) /\ i < m
BY DEF Upto

\* A step that keeps the common bytes lengthens, shortens or keeps the string.
LEMMA KeepingStep ==
    ASSUME IInv, IInv', KeepsCommon
    PROVE  [Bytes!Next]_(Bytes!vars)
<1>1. len \in Nat /\ len' \in Nat
  BY DEF IInv, TypeOK
<1>2. Bytes!TypeOK'
  BY ContentType, PTL
<1>3. \A i \in Upto(len) : Content[i] = mem[i]
  BY DEF Content, Upto
<1>4. \A i \in Upto(len') : Content'[i] = mem'[i]
  BY DEF Content, Upto
<1>5. \A i \in Upto(len) : i < len' => mem'[i] = mem[i]
  BY DEF KeepsCommon, Upto
<1>6. CASE len' > len
  <2>1. \A i \in Upto(len) : Content'[i] = Content[i]
    BY <1>1, <1>3, <1>4, <1>5, <1>6, Below
  <2> QED
    BY <1>2, <1>6, <2>1 DEF Bytes!Next, Bytes!Extend, Bytes!Kept, Upto
<1>7. CASE len' < len
  <2>1. \A i \in Upto(len') : Content'[i] = Content[i]
    BY <1>1, <1>3, <1>4, <1>5, <1>7, Below
  <2> QED
    BY <1>2, <1>7, <2>1 DEF Bytes!Next, Bytes!Shrink, Bytes!Kept, Upto
<1>8. CASE len' = len
  <2>1. Content' = Content
    BY <1>1, <1>8 DEF Content, KeepsCommon
  <2> QED
    BY <1>8, <2>1 DEF Bytes!vars
<1> QED
  BY <1>1, <1>6, <1>7, <1>8

\* A store into the granted region overwrites a stretch of the string.
LEMMA FillStep ==
    ASSUME IInv, NEW b \in Byte, Fill(b)
    PROVE  Bytes!Overwrite
<1> DEFINE lo == ret.at
           hi == ret.at + ret.size
<1>1. len \in Nat /\ lo \in 0 .. len /\ hi \in 0 .. len /\ len' = len /\ len <= block
  BY DEF Fill, fields, IInv, TypeOK, RegionIsTail, InBounds, Answer
<1>2. mem' = [i \in DOMAIN mem |-> IF lo <= i /\ i < hi THEN b ELSE mem[i]]
      /\ DOMAIN mem = 0 .. block - 1 /\ block \in Nat
  BY DEF Fill, IInv, TypeOK
<1>3. Content' = [i \in 0 .. len - 1 |-> IF lo <= i /\ i < hi THEN b ELSE Content[i]]
  BY <1>1, <1>2 DEF Content
<1> QED
  BY <1>1, <1>3 DEF Bytes!Overwrite

\* Every operation of nbuf_buf, growth included, is an operation on a string of
\* bytes or invisible: capacities and reallocation do not show through.
THEOREM Implements == Spec => ImplementsByteString
<1>1. Init => Bytes!Init
  BY InitInv, ContentType DEF Bytes!Init
<1>2. ASSUME IInv, IInv', [Next]_vars PROVE [Bytes!Next]_(Bytes!vars)
  <2>1. CASE \E b \in Byte : Fill(b)
    BY <1>2, <2>1, FillStep DEF Bytes!Next
  <2>2. ASSUME ~(\E b \in Byte : Fill(b)) PROVE KeepsCommon
    <3>1. CASE InitRo \/ InitRw \/ InitEx \/ Clear
      <4>1. len = 0 \/ len' = 0
        BY <1>2, <3>1 DEF InitRo, InitRw, InitEx, Clear, Unused, IInv, Owned
      <4> QED
        BY <1>2, <4>1 DEF KeepsCommon, IInv, TypeOK
    <3>2. CASE ReallocOk
      BY <1>2, <3>2, GrowthStep DEF KeepsCommon, ReallocOk
    <3>3. CASE \/ Grow \/ ReallocFails \/ UNCHANGED vars \/ \E n \in 0 .. MaxLen : Truncate(n)
               \/ \E size \in 0 .. MaxLen, align \in Aligns : Alloc(size, align)
      BY <3>3 DEF Grow, ReallocFails, Truncate, Alloc, fields, vars, KeepsCommon
    <3> QED
      BY <1>2, <2>2, <3>1, <3>2, <3>3 DEF Next
  <2> QED
    BY <1>2, <2>1, <2>2, KeepingStep
<1> QED
  BY <1>1, <1>2, Invariance, PTL DEF Spec, ImplementsByteString, Bytes!Spec
=============================================================================
