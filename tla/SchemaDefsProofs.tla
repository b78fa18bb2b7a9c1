-------------------------- MODULE SchemaDefsProofs --------------------------
(***************************************************************************)
(* Proofs about SchemaDefs: the arrays of a schema in the making, and what *)
(* the code asserts of them, for every number of files, definitions and    *)
(* items, every name and every value, and every width of a word.           *)
(***************************************************************************)
EXTENDS SchemaDefs, WireProofs

DefKinds == {"enums", "messages"}

-----------------------------------------------------------------------------
(* Arrays in the making *)

\* The array a at the end of b has a.n complete elements, and no other one;
\* what they point to lies below len in another buffer.
Whole(b, a, ssize, psize, len) ==
    /\ a = [first |-> a.first, n |-> a.n] /\ a.n \in Nat
    /\ a.n > 0 =>
           /\ IsArr(b, a.first) /\ a.first.ssize = ssize /\ a.first.psize = psize
           /\ AtEnd(b, a.first, a.n) /\ PtrsTo(b, a.first, a.n, len)

\* The array a at the end of b has one element more, which is begun.
Partial(b, a, ssize, psize, len) ==
    /\ a = [first |-> a.first, n |-> a.n] /\ a.n \in Nat
    /\ IsArr(b, a.first) /\ a.first.ssize = ssize /\ a.first.psize = psize
    /\ AtEnd(b, a.first, a.n + 1) /\ PtrsTo(b, a.first, a.n, len)

LEMMA NoArrWhole == ASSUME NEW b, NEW ssize, NEW psize, NEW len PROVE Whole(b, NoArr, ssize, psize, len)
BY DEF NoArr, Whole

\* An array takes one more element: in the buffer of the array nothing is lost.
LEMMA ElemBegins ==
    ASSUME NEW b, IsBuf(b), NEW ssize \in Nat, ssize % 4 = 0, NEW psize \in Nat, NEW len,
           NEW a, Whole(b, a, ssize, psize, len),
           NEW d, d = BeginArr(b, a, ssize, psize), NEW c, c = WithElem(b, a, ssize, psize)
    PROVE  Kept(b, c, {}) /\ Partial(c, d, ssize, psize, len) /\ d.n = a.n
<1>1. CASE a.n = 0
  <2>1. PICK o : o = NewArr(b, 1, ssize, psize)
    OBVIOUS
  <2>2. c = AllocArr(b, 1, ssize, psize) /\ d = [first |-> o, n |-> 0]
    BY <1>1, <2>1 DEF WithElem, BeginArr
  <2>3. /\ Kept(b, c, {}) /\ IsArr(c, o) /\ o.ssize = ssize /\ o.psize = psize
        /\ c.len = o.off + ObjSize(o)
    BY <2>1, <2>2, AllocArrIs
  <2>4. d.first = o /\ d.n = 0 /\ d = [first |-> d.first, n |-> d.n]
    BY <2>2
  <2>5. AtEnd(c, o, 0 + 1)
    <3>1. o.off + (0 + 1) * ObjSize(o) = o.off + 0 * ObjSize(o) + ObjSize(o) /\ 0 * ObjSize(o) = 0 /\ o.off \in Nat
          /\ o.off + 0 * ObjSize(o) = o.off
      BY <2>3 DEF IsArr, IsFirst, ObjSize
    <3> QED
      BY <2>3, <3>1 DEF AtEnd
  <2>6. PtrsTo(c, o, 0, len)
    BY DEF PtrsTo, Pointers
  <2> QED
    BY <1>1, <2>3, <2>4, <2>5, <2>6 DEF Partial
<1>2. CASE a.n # 0
  <2>1. PICK o, n : n \in Nat /\ o = a.first /\ n = a.n /\ a = [first |-> o, n |-> n]
    BY DEF Whole
  <2>2. IsArr(b, o) /\ o.ssize = ssize /\ o.psize = psize /\ AtEnd(b, o, n) /\ PtrsTo(b, o, n, len)
    BY <1>2, <2>1 DEF Whole
  <2>3. PICK size \in Nat : size = ObjSize(o)
    BY <2>2 DEF IsArr, IsFirst, ObjSize
  <2>4. c = Alloc(b, size) /\ d = a
    BY <1>2, <2>1, <2>3 DEF WithElem, BeginArr
  <2>5. Kept(b, c, {}) /\ c.len = b.len + size
    BY <2>4, AllocIs
  <2>6. IsArr(c, o)
    BY <2>2, <2>5, ArrKept
  <2>7. o.off + n * ObjSize(o) = b.len /\ o.off + (n + 1) * ObjSize(o) = b.len + size
    <3>1. PICK e : e = Element(o, n + 1)
      OBVIOUS
    <3>2. e.off = o.off + n * ObjSize(o) /\ o.off + (n + 1) * ObjSize(o) = e.off + ObjSize(o)
      <4>1. IsFirst(o) /\ n \in Nat
        BY <2>1, <2>2 DEF IsArr
      <4> QED
        BY <3>1, <4>1, ElementIs
    <3> QED
      BY <2>2, <2>3, <3>2 DEF AtEnd
  <2>8. PtrsTo(c, o, n, len)
    <3> SUFFICES ASSUME NEW q \in Pointers(o, n) PROVE PtrTo(c.mem[q \div 4], len)
      BY DEF PtrsTo
    <3>1. q \in Nat /\ q = 4 * (q \div 4) /\ q + 4 <= b.len /\ b.len \in Nat
      BY <2>1, <2>2, <2>7, PointersWithin DEF IsArr, IsBuf
    <3>2. q \div 4 \in Nat \ {} /\ 4 * (q \div 4) < b.len
      BY <3>1
    <3>3. c.mem[q \div 4] = b.mem[q \div 4]
      BY <2>5, <3>2, Zenon DEF Kept
    <3> QED
      BY <2>2, <3>3 DEF PtrsTo
  <2>9. AtEnd(c, o, n + 1)
    BY <2>5, <2>7 DEF AtEnd
  <2> QED
    BY <2>1, <2>2, <2>4, <2>5, <2>6, <2>8, <2>9 DEF Partial
<1> QED
  BY <1>1, <1>2

\* Where the element is that is begun
LEMMA InMakingIs ==
    ASSUME NEW b, IsBuf(b), NEW ssize, NEW psize, NEW len, NEW a, Partial(b, a, ssize, psize, len),
           NEW e, e = InMaking(a)
    PROVE  /\ e.off \in Nat /\ e.off % 4 = 0 /\ e.off >= 8 /\ e.psize = psize /\ e.ssize = ssize
           /\ ssize \in Nat /\ psize \in Nat /\ e.off \div 4 >= a.first.off \div 4
           /\ e.off = a.first.off + a.n * ObjSize(a.first)
           /\ b.len = e.off + 4 * psize + ssize
           /\ \A q \in Pointers(a.first, a.n) : q \in Nat /\ q \div 4 \in Nat /\ q \div 4 < e.off \div 4
<1>1. PICK o, n : n \in Nat /\ o = a.first /\ n = a.n
  BY DEF Partial
<1>2. IsFirst(o) /\ o.ssize = ssize /\ o.psize = psize /\ AtEnd(b, o, n + 1)
  BY <1>1 DEF Partial, IsArr
<1>3. e = Element(o, n + 1)
  BY <1>1 DEF InMaking
<1>4. /\ e.off \in Nat /\ e.off % 4 = 0 /\ e.off >= o.off /\ e.psize = o.psize /\ e.ssize = o.ssize
      /\ e.off = o.off + n * ObjSize(o) /\ o.off + (n + 1) * ObjSize(o) = e.off + ObjSize(o)
      /\ \A q \in Pointers(o, n) : q \div 4 < e.off \div 4
  <2>1. IsFirst(o) /\ n \in Nat /\ e = Element(o, n + 1)
    BY <1>1, <1>2, <1>3
  <2>2. /\ e.off \in Nat /\ e.off % 4 = 0 /\ e.off >= o.off
        /\ e.off = o.off + n * ObjSize(o) /\ e.ssize = o.ssize /\ e.psize = o.psize
        /\ ObjSize(e) = ObjSize(o) /\ ObjSize(o) \in Nat
        /\ o.off + (n + 1) * ObjSize(o) = e.off + ObjSize(o)
        /\ \A q \in Pointers(o, n) : q \div 4 < e.off \div 4
    BY <2>1, ElementIs, Zenon
  <2> QED
    BY <2>2
<1>5. ssize \in Nat /\ psize \in Nat /\ ObjSize(o) = 4 * psize + ssize /\ o.off \in Nat /\ 8 <= o.off
  BY <1>2 DEF IsFirst, ObjSize
<1>6. b.len = e.off + 4 * psize + ssize
  BY <1>2, <1>4, <1>5 DEF AtEnd
<1>7. \A q \in Pointers(o, n) : q \in Nat /\ q \div 4 \in Nat /\ q \div 4 < e.off \div 4
  <2> SUFFICES ASSUME NEW q \in Pointers(o, n) PROVE q \in Nat /\ q \div 4 \in Nat /\ q \div 4 < e.off \div 4
    OBVIOUS
  <2>1. q \in Nat
    BY <1>1, <1>2, PointersWithin
  <2> QED
    BY <1>4, <2>1
<1> QED
  BY <1>1, <1>2, <1>4, <1>5, <1>6, <1>7

\* Stores to the element that is begun leave the complete ones alone.
LEMMA PartialKept ==
    ASSUME NEW b, IsBuf(b), NEW ssize, NEW psize, NEW len \in Nat, NEW a, Partial(b, a, ssize, psize, len),
           NEW c, NEW S, Kept(b, c, S), c.len = b.len, NEW more \in Nat, len <= more,
           \A i \in S : i >= InMaking(a).off \div 4 /\ i \in Nat
    PROVE  Partial(c, a, ssize, psize, more)
<1>1. PICK o, n : n \in Nat /\ o = a.first /\ n = a.n /\ a = [first |-> o, n |-> n]
  BY DEF Partial
<1>2. /\ IsArr(b, o) /\ IsFirst(o) /\ o.ssize = ssize /\ o.psize = psize
      /\ AtEnd(b, o, n + 1) /\ PtrsTo(b, o, n, len)
  BY <1>1 DEF Partial, IsArr
<1>3. PICK e : e = InMaking(a)
  OBVIOUS
<1>4. /\ e.off \in Nat /\ e.off = o.off + n * ObjSize(o) /\ e.off \div 4 >= o.off \div 4
      /\ ssize \in Nat /\ psize \in Nat /\ b.len = e.off + 4 * psize + ssize
      /\ \A q \in Pointers(o, n) : q \in Nat /\ q \div 4 \in Nat /\ q \div 4 < e.off \div 4
  BY <1>1, <1>3, InMakingIs
<1>5. IsArr(c, o)
  <2>1. o.off \in Nat
    BY <1>2 DEF IsFirst
  <2>2. o.off \div 4 - 1 \notin S
    BY <1>3, <1>4, <2>1
  <2> QED
    BY <1>2, <2>2, ArrKept
<1>6. PtrsTo(c, o, n, more)
  <2>1. \A q \in Pointers(o, n) : q \div 4 \notin S
    BY <1>3, <1>4
  <2>2. o.off + n * ObjSize(o) <= b.len
    BY <1>4
  <2> QED
    BY <1>1, <1>2, <2>1, <2>2, PtrsKept
<1>7. AtEnd(c, o, n + 1)
  BY <1>2 DEF AtEnd
<1> QED
  BY <1>1, <1>2, <1>5, <1>6, <1>7 DEF Partial

\* Its pointer i, which lies in word w, is set to v.
PointerStored(b, c, a, psize, i, v, w) ==
    /\ i \in Nat /\ i < psize /\ w = InMaking(a).off \div 4 + i
    /\ c = SetWord(b, PtrOffset(InMaking(a), i), v)

LEMMA PointerSet ==
    ASSUME NEW b, IsBuf(b), NEW ssize, NEW psize, NEW len \in Nat, NEW a, Partial(b, a, ssize, psize, len),
           NEW c, NEW i, NEW v, NEW w, PointerStored(b, c, a, psize, i, v, w)
    PROVE  /\ Kept(b, c, {w}) /\ c.len = b.len /\ c.mem[w] = v
           /\ Partial(c, a, ssize, psize, len)
<1>1. PICK e : /\ e = InMaking(a) /\ i \in Nat /\ i < psize /\ w = e.off \div 4 + i
               /\ c = SetWord(b, PtrOffset(e, i), v)
  BY DEF PointerStored
<1>2. /\ e.off \in Nat /\ e.off % 4 = 0 /\ e.off >= 8 /\ e.psize = psize /\ e.ssize = ssize
      /\ ssize \in Nat /\ psize \in Nat /\ b.len = e.off + 4 * psize + ssize
  BY <1>1, InMakingIs
<1>3. PICK ptr \in Nat : ptr = PtrOffset(e, i) /\ ptr < b.len /\ ptr \div 4 = e.off \div 4 + i
  <2>1. e.off + 4 * i \in Nat /\ e.off + 4 * i < b.len /\ (e.off + 4 * i) \div 4 = e.off \div 4 + i
    BY <1>1, <1>2
  <2> QED
    BY <2>1 DEF PtrOffset
<1>5. c = SetWord(b, ptr, v)
  BY <1>1, <1>3
<1>6. Kept(b, c, {w}) /\ c.len = b.len /\ c.mem[w] = v
  <2>1. IsBuf(b) /\ ptr \in Nat /\ ptr < b.len
    BY <1>3
  <2>2. ASSUME NEW x
        PROVE  /\ Kept(b, SetWord(b, ptr, x), {ptr \div 4}) /\ SetWord(b, ptr, x).len = b.len
               /\ SetWord(b, ptr, x).mem[ptr \div 4] = x
    BY <2>1, SetWordIs
  <2>3. Kept(b, c, {ptr \div 4}) /\ c.len = b.len /\ c.mem[ptr \div 4] = v
    BY <1>5, <2>2
  <2>4. ptr \div 4 = w
    BY <1>1, <1>3
  <2> QED
    BY <2>3, <2>4
<1>7. w \in Nat /\ w >= InMaking(a).off \div 4
  BY <1>1, <1>2
<1>8. Partial(c, a, ssize, psize, len)
  <2>1. \A k \in {w} : k >= InMaking(a).off \div 4 /\ k \in Nat
    BY <1>7
  <2>2. len <= len /\ len \in Nat /\ IsBuf(b) /\ Partial(b, a, ssize, psize, len)
    OBVIOUS
  <2>3. PICK S : S = {w}
    OBVIOUS
  <2>4. Kept(b, c, S) /\ c.len = b.len /\ \A k \in S : k >= InMaking(a).off \div 4 /\ k \in Nat
    BY <1>6, <2>1, <2>3
  <2> QED
    BY <2>2, <2>4, PartialKept
<1> QED
  BY <1>6, <1>8

\* The element that is begun is complete when its pointers are set.
LEMMA ElemEnds ==
    ASSUME NEW b, IsBuf(b), NEW ssize, NEW psize, NEW len, NEW a, Partial(b, a, ssize, psize, len),
           \A i \in 0 .. psize - 1 : PtrTo(b.mem[InMaking(a).off \div 4 + i], len),
           NEW d, d = [a EXCEPT !.n = @ + 1]
    PROVE  Whole(b, d, ssize, psize, len) /\ d.n = a.n + 1 /\ d.n > 0
<1>1. PICK o, n : n \in Nat /\ o = a.first /\ n = a.n /\ a = [first |-> o, n |-> n]
  BY DEF Partial
<1>2. /\ IsArr(b, o) /\ o.ssize = ssize /\ o.psize = psize
      /\ AtEnd(b, o, n + 1) /\ PtrsTo(b, o, n, len)
  BY <1>1 DEF Partial
<1>3. PICK e : e = InMaking(a)
  OBVIOUS
<1>4. e.off \in Nat /\ e.off = o.off + n * ObjSize(o) /\ e.psize = psize /\ psize \in Nat
  BY <1>1, <1>3, InMakingIs
<1>5. \A i \in 0 .. o.psize - 1 : PtrTo(b.mem[(o.off + n * ObjSize(o) + 4 * i) \div 4], len)
  <2> SUFFICES ASSUME NEW i \in 0 .. o.psize - 1
               PROVE  PtrTo(b.mem[(o.off + n * ObjSize(o) + 4 * i) \div 4], len)
    OBVIOUS
  <2>1. (e.off + 4 * i) \div 4 = e.off \div 4 + i
    BY <1>2, <1>4
  <2> QED
    BY <1>2, <1>3, <1>4, <2>1
<1>6. PtrsTo(b, o, n + 1, len)
  BY <1>1, <1>2, <1>5, PtrsMore
<1>7. d = [first |-> o, n |-> n + 1]
  BY <1>1
<1>8. d.first = o /\ d.n = n + 1 /\ d = [first |-> d.first, n |-> d.n] /\ n + 1 \in Nat
  BY <1>1, <1>7
<1> QED
  BY <1>1, <1>2, <1>6, <1>8 DEF Whole

\* An array that ends gets its length, and what its pointers refer to is
\* appended: none of the assertions on the way fails.
LEMMA ArrEnds ==
    ASSUME NEW b, IsBuf(b), NEW ssize, NEW psize, NEW newbuf, IsBuf(newbuf), NEW a, a.n > 0,
           Whole(b, a, ssize, psize, newbuf.len), NEW c, c = Finished(b, a, newbuf)
    PROVE  /\ IsBuf(c) /\ b.len <= c.len
           /\ HdrOffset(c, a.first) \in Nat /\ HdrOffset(c, a.first) < c.len
           /\ Fixable(Resized(b, a), a.first, a.n, newbuf)
<1>1. PICK o, n : n \in Nat /\ o = a.first /\ n = a.n
  BY DEF Whole
<1>2. IsArr(b, o) /\ AtEnd(b, o, n) /\ PtrsTo(b, o, n, newbuf.len)
  BY <1>1 DEF Whole
<1>3. IsFirst(o) /\ o.off <= b.len /\ o.off \in Nat /\ o.off % 4 = 0 /\ o.off >= 8
  BY <1>2 DEF IsArr, IsFirst
<1>4. PICK r : r = Resized(b, a)
  OBVIOUS
<1>5. Kept(b, r, {o.off \div 4 - 2, o.off \div 4 - 1}) /\ r.len = b.len
  BY <1>1, <1>2, <1>4, ResizeArrIs DEF Resized
<1>6. IsBuf(r) /\ b.len \in Nat /\ newbuf.len \in Nat
  BY <1>5 DEF Kept, IsBuf
<1>7. o.off + n * ObjSize(o) = b.len
  BY <1>2 DEF AtEnd
<1>8. PtrsTo(r, o, n, newbuf.len)
  <2>1. \A q \in Pointers(o, n) : q \div 4 \notin {o.off \div 4 - 2, o.off \div 4 - 1}
    <3> SUFFICES ASSUME NEW q \in Pointers(o, n) PROVE q \div 4 >= o.off \div 4
      BY <1>3
    <3>1. q \in Nat /\ q >= o.off
      BY <1>1, <1>3, PointersWithin
    <3> QED
      BY <1>3, <3>1
  <2>2. o.off + n * ObjSize(o) <= b.len /\ newbuf.len <= newbuf.len
    BY <1>6, <1>7
  <2> QED
    BY <1>1, <1>2, <1>3, <1>5, <1>6, <2>1, <2>2, PtrsKept
<1>9. Fixable(r, o, n, newbuf)
  <2>1. o.off + n * ObjSize(o) <= r.len
    BY <1>5, <1>6, <1>7
  <2> QED
    BY <1>1, <1>3, <1>6, <1>8, <2>1, FixableIs
<1>10. c = FixArr(r, o, n, newbuf)
  BY <1>1, <1>4 DEF Finished
<1>11. Kept(r, c, {q \div 4 : q \in Pointers(o, n)})
  BY <1>6, <1>10, FixArrIs
<1>12. IsBuf(c) /\ b.len <= c.len
  BY <1>5, <1>11 DEF Kept
<1>13. PICK hdr \in Nat : hdr = HdrOffset(c, o) /\ hdr \in {o.off - 4, o.off - 8}
  BY <1>3, HdrOffsetIs
<1>14. hdr < c.len
  BY <1>3, <1>6, <1>12, <1>13 DEF IsBuf
<1> QED
  BY <1>1, <1>4, <1>9, <1>12, <1>13, <1>14

-----------------------------------------------------------------------------
(* The inductive invariant *)

\* What the program has built where it stands: the array of definitions, and
\* within a definition that of its items; pointers into the other buffers lie
\* below their lengths.
BuildInv ==
    /\ IsBuf(ss) /\ buf = <<buf[1], buf[2]>> /\ IsBuf(buf[1]) /\ IsBuf(buf[2])
    /\ pc \in {"enums", "values", "messages", "fields"} => ss.len >= 20
    /\ \A k \in DefKinds :
           /\ pc = k =>
                  /\ Whole(ss, defs, DefSsize(k), DefPsize, buf[1].len)
                  /\ buf[2].len = 0 /\ (defs.n = 0 => buf[1].len = 0)
           /\ pc = ItemsOf(k) =>
                  /\ Partial(ss, defs, DefSsize(k), DefPsize, buf[1].len)
                  /\ PtrTo(ss.mem[InMaking(defs).off \div 4], buf[1].len)
                  /\ Whole(buf[1], items, ItemSsize(k), ItemPsize, buf[2].len)
                  /\ items.n = 0 => buf[2].len = 0
    /\ pc \in {"idle", "complete"} => defs = NoArr /\ buf[1].len = 0 /\ buf[2].len = 0
    /\ pc = "idle" => typenames = <<>>

LEMMA KindsDiffer ==
    ASSUME NEW k \in DefKinds
    PROVE  /\ ItemsOf(k) \in {"values", "fields"} /\ k \in {"enums", "messages"}
           /\ \A j \in DefKinds : ItemsOf(j) # k /\ (ItemsOf(j) = ItemsOf(k) => j = k)
           /\ DefSsize(k) \in Nat /\ DefSsize(k) % 4 = 0 /\ ItemSsize(k) \in {4, 8}
           /\ DefPsize = 2 /\ ItemPsize = 1
BY DEF DefKinds, ItemsOf, DefSsize, ItemSsize, DefPsize, ItemPsize

LEMMA InitBuilds == Init => BuildInv
<1> SUFFICES ASSUME Init PROVE BuildInv
  OBVIOUS
<1>1. IsBuf(NewBuf(0)) /\ NewBuf(0).len = 0
  BY NewBufIs
<1>2. /\ ss = NewBuf(0) /\ buf[1] = NewBuf(0) /\ buf[2] = NewBuf(0) /\ buf = <<buf[1], buf[2]>>
      /\ pc = "idle" /\ defs = NoArr /\ typenames = <<>>
  BY DEF Init
<1> QED
  BY <1>1, <1>2 DEF BuildInv, DefKinds, ItemsOf

\* A pointer of the schema object is set.
LEMMA SchemaPtrSet ==
    ASSUME NEW b, IsBuf(b), b.len >= 20, NEW i \in 0 .. 3, NEW hdr, NEW same
    PROVE  IsBuf(SetP(b, SchemaObj, i, hdr, same)) /\ SetP(b, SchemaObj, i, hdr, same).len >= 20
<1>1. PICK o : o = SchemaObj
  OBVIOUS
<1>2. IsBuf(b) /\ PtrOffset(o, i) \in Nat /\ PtrOffset(o, i) < b.len
  <2>1. o.off = 4
    BY <1>1 DEF SchemaObj, Object
  <2>2. PtrOffset(o, i) = 4 + 4 * i /\ b.len \in Nat
    BY <2>1 DEF PtrOffset, IsBuf
  <2> QED
    BY <2>2
<1>3. ASSUME NEW h, NEW near
      PROVE  Kept(b, SetP(b, o, i, h, near), {PtrOffset(o, i) \div 4}) /\ SetP(b, o, i, h, near).len = b.len
  BY <1>2, SetPIs
<1> QED
  BY <1>1, <1>3 DEF Kept

\* A string that hangs off it
LEMMA AddStrIs ==
    ASSUME NEW b, IsBuf(b), b.len >= 20, NEW i \in {0, 1}, NEW v
    PROVE  IsBuf(AddStr(b, SchemaObj, i, v)) /\ AddStr(b, SchemaObj, i, v).len >= 20
<1>1. PICK d : d = AllocStr(b, v)
  OBVIOUS
<1>2. IsBuf(d) /\ d.len >= 20
  <2>1. IsBuf(d) /\ b.len <= d.len /\ b.len \in Nat /\ d.len \in Nat
    BY <1>1, AllocStrIs DEF Kept, IsBuf
  <2> QED
    BY <2>1
<1>3. i \in 0 .. 3
  OBVIOUS
<1>4. ASSUME NEW h, NEW near
      PROVE  IsBuf(SetP(d, SchemaObj, i, h, near)) /\ SetP(d, SchemaObj, i, h, near).len >= 20
  BY <1>2, <1>3, SchemaPtrSet
<1> QED
  BY <1>1, <1>4 DEF AddStr

LEMMA BeginFileBuilds == ASSUME BuildInv, BeginFile PROVE BuildInv'
<1>1. PICK b0 : b0 = AllocObj(NewBuf(0), 0, SchemaPsize)
  OBVIOUS
<1>2. IsBuf(b0) /\ b0.len >= 20
  <2>1. IsBuf(NewBuf(0)) /\ NewBuf(0).len = 0
    BY NewBufIs
  <2>2. Kept(NewBuf(0), b0, {}) /\ b0.len = Start(NewBuf(0)) + 4 + 4 * SchemaPsize + 0
    BY <1>1, <2>1, AllocObjIs DEF SchemaPsize
  <2>3. Start(NewBuf(0)) \in Nat
    BY <2>1, StartIs
  <2> QED
    BY <2>2, <2>3 DEF Kept, SchemaPsize
<1>3. PICK b : b = AddStr(b0, SchemaObj, 1, 1)
  OBVIOUS
<1>4. IsBuf(b) /\ b.len >= 20
  BY <1>2, <1>3, AddStrIs
<1>5. PICK pkg : ss' = IF pkg = 0 THEN b ELSE AddStr(b, SchemaObj, 0, pkg)
  BY <1>1, <1>3 DEF BeginFile
<1>6. IsBuf(ss') /\ ss'.len >= 20
  <2>1. CASE pkg = 0
    BY <1>4, <1>5, <2>1
  <2>2. CASE pkg # 0
    BY <1>4, <1>5, <2>2, AddStrIs
  <2> QED
    BY <2>1, <2>2
<1>7. /\ pc = "idle" /\ pc' = "enums" /\ UNCHANGED <<buf, defs>>
      /\ defs = NoArr /\ buf[1].len = 0 /\ buf[2].len = 0
  BY DEF BeginFile, BuildInv
<1>8. \A k \in DefKinds : Whole(ss', defs', DefSsize(k), DefPsize, buf'[1].len)
  BY <1>7, NoArrWhole
<1>9. \A k \in DefKinds : pc' # ItemsOf(k)
  BY <1>7 DEF ItemsOf
<1> QED
  BY <1>6, <1>7, <1>8, <1>9 DEF BuildInv
\* The name of a definition lies in buf[1] when its element points there.
LEMMA DefBeginBuilds == ASSUME BuildInv, NEW k \in DefKinds, DefBegin(k) PROVE BuildInv'
<1>1. PICK name : buf' = [buf EXCEPT ![1] = AllocStr(@, name)]
  BY DEF DefBegin
<1>2. PICK ssize \in Nat : ssize = DefSsize(k) /\ ssize % 4 = 0
  BY KindsDiffer
<1>3. PICK b, c, d, b1 : /\ b = ss /\ c = WithElem(ss, defs, ssize, DefPsize)
                         /\ d = BeginArr(ss, defs, ssize, DefPsize) /\ b1 = buf[1]
  OBVIOUS
<1>4. /\ pc = k /\ pc' = ItemsOf(k) /\ defs' = d /\ items' = NoArr
      /\ ss' = SetP(c, InMaking(d), 0, Start(b1), FALSE)
  BY <1>2, <1>3 DEF DefBegin
<1>5. /\ IsBuf(b) /\ b.len >= 20 /\ IsBuf(b1) /\ Whole(b, defs, ssize, DefPsize, b1.len)
      /\ buf = <<b1, buf[2]>> /\ IsBuf(buf[2]) /\ buf[2].len = 0
  BY <1>2, <1>3, <1>4 DEF BuildInv, DefKinds
<1>6. Kept(b, c, {}) /\ Partial(c, d, ssize, DefPsize, b1.len)
  <2>1. DefPsize \in Nat /\ c = WithElem(b, defs, ssize, DefPsize) /\ d = BeginArr(b, defs, ssize, DefPsize)
    BY <1>3 DEF DefPsize
  <2> QED
    BY <1>2, <1>5, <2>1, ElemBegins
<1>7. PICK b2 : b2 = AllocStr(b1, name)
  OBVIOUS
<1>8. /\ IsBuf(b2) /\ b1.len \in Nat /\ b2.len \in Nat /\ b1.len <= b2.len
      /\ Start(b1) \in Nat /\ Start(b1) < b2.len
  <2>1. Kept(b1, b2, {}) /\ b2.len > Start(b1) /\ Start(b1) \in Nat
    BY <1>5, <1>7, AllocStrIs, StartIs
  <2>2. IsBuf(b2) /\ b1.len <= b2.len
    BY <2>1 DEF Kept
  <2>3. b1.len \in Nat /\ b2.len \in Nat
    BY <1>5, <2>2 DEF IsBuf
  <2> QED
    BY <2>1, <2>2, <2>3
<1>9. PICK e : e = ss'
  OBVIOUS
<1>10. /\ Kept(c, e, {InMaking(d).off \div 4 + 0}) /\ e.len = c.len
       /\ e.mem[InMaking(d).off \div 4 + 0] = M - 1 - Start(b1) \div 4
       /\ Partial(e, d, ssize, DefPsize, b1.len)
  <2>1. PICK v, i, p, len, w :
            /\ v = M - 1 - Start(b1) \div 4 /\ i = 0 /\ p = DefPsize /\ len = b1.len
            /\ w = InMaking(d).off \div 4 + i /\ PointerStored(c, e, d, p, i, v, w)
    BY <1>4, <1>9 DEF SetP, DefPsize, PointerStored
  <2>2. IsBuf(c) /\ len \in Nat /\ Partial(c, d, ssize, p, len) /\ PointerStored(c, e, d, p, i, v, w)
    BY <1>6, <1>8, <2>1 DEF Kept
  <2>3. Kept(c, e, {w}) /\ e.len = c.len /\ e.mem[w] = v /\ Partial(e, d, ssize, p, len)
    BY <2>2, PointerSet
  <2> QED
    BY <2>1, <2>3
<1>11. IsBuf(c) /\ IsBuf(e) /\ e.len >= 20
  BY <1>5, <1>6, <1>10 DEF Kept, IsBuf
<1>12. PICK w : w = InMaking(d).off \div 4 /\ w \in Nat /\ w + 0 = w
  BY <1>6, <1>11, InMakingIs
<1>13. PtrTo(e.mem[w], b2.len)
  BY <1>8, <1>10, <1>12, PtrToHdr
<1>14. Partial(e, d, ssize, DefPsize, b2.len)
  <2>1. IsBuf(e) /\ Kept(e, e, {}) /\ e.len = e.len /\ \A i \in {} : i >= InMaking(d).off \div 4 /\ i \in Nat
    BY <1>11, KeptItself
  <2>2. b1.len \in Nat /\ b2.len \in Nat /\ b1.len <= b2.len /\ Partial(e, d, ssize, DefPsize, b1.len)
    BY <1>8, <1>10
  <2> QED
    BY <2>1, <2>2, PartialKept
<1>15. buf' = <<b2, buf[2]>> /\ buf'[1] = b2 /\ buf'[2] = buf[2]
  BY <1>1, <1>3, <1>5, <1>7
<1>16. /\ \A j \in DefKinds : pc' # j /\ (pc' = ItemsOf(j) => j = k)
       /\ pc' \in {"values", "fields"}
  BY <1>4, KindsDiffer
<1>17. Whole(buf'[1], items', ItemSsize(k), ItemPsize, buf'[2].len)
  BY <1>4, NoArrWhole
<1>18. \A j \in DefKinds :
           pc' = ItemsOf(j) =>
               /\ Partial(ss', defs', DefSsize(j), DefPsize, buf'[1].len)
               /\ PtrTo(ss'.mem[InMaking(defs').off \div 4], buf'[1].len)
               /\ Whole(buf'[1], items', ItemSsize(j), ItemPsize, buf'[2].len)
               /\ items'.n = 0 => buf'[2].len = 0
  BY <1>2, <1>4, <1>5, <1>9, <1>12, <1>13, <1>14, <1>15, <1>16, <1>17
<1> QED
  BY <1>5, <1>8, <1>9, <1>11, <1>15, <1>16, <1>18 DEF BuildInv

\* The scalars of an element lie in the words S, behind its pointer; two are set.
HalvesStored(b, c, a, ssize, i, S) ==
    /\ i \in {0, 2} /\ 2 * i < ssize /\ S = {InMaking(a).off \div 4 + 1, InMaking(a).off \div 4 + 2}
    /\ \E x, y : c = SetHalves(b, InMaking(a), i, x, y)

LEMMA HalvesSet ==
    ASSUME NEW b, IsBuf(b), NEW ssize, NEW len, NEW a, Partial(b, a, ssize, ItemPsize, len),
           NEW c, NEW i, NEW S, HalvesStored(b, c, a, ssize, i, S)
    PROVE  Kept(b, c, S) /\ c.len = b.len
<1>1. PICK e, x, y : /\ e = InMaking(a) /\ i \in {0, 2} /\ 2 * i < ssize /\ c = SetHalves(b, e, i, x, y)
                     /\ S = {e.off \div 4 + 1, e.off \div 4 + 2}
  BY DEF HalvesStored
<1>2. /\ e.off \in Nat /\ e.off % 4 = 0 /\ e.psize = 1
      /\ ssize \in Nat /\ b.len = e.off + 4 * 1 + ssize
  <2>1. /\ e.off \in Nat /\ e.off % 4 = 0 /\ e.psize = ItemPsize
        /\ ssize \in Nat /\ b.len = e.off + 4 * ItemPsize + ssize
    BY <1>1, InMakingIs
  <2> QED
    BY <2>1 DEF ItemPsize
<1>3. PICK at \in Nat : at = HalfOffset(e, i) /\ at < b.len /\ at \div 4 \in {e.off \div 4 + 1, e.off \div 4 + 2}
  <2>1. HalfOffset(e, i) = e.off + 4 + 2 * i
    BY <1>1, <1>2 DEF HalfOffset
  <2>2. (e.off + 4 + 2 * i) \div 4 \in {e.off \div 4 + 1, e.off \div 4 + 2}
    BY <1>1, <1>2
  <2>3. e.off + 4 + 2 * i \in Nat /\ e.off + 4 + 2 * i < b.len
    BY <1>1, <1>2
  <2> QED
    BY <2>1, <2>2, <2>3
<1>4. PICK v : c = SetWord(b, at, v)
  BY <1>1, <1>3 DEF SetHalves
<1>5. Kept(b, c, {at \div 4}) /\ c.len = b.len
  <2>1. IsBuf(b) /\ at \in Nat /\ at < b.len
    BY <1>3
  <2>2. ASSUME NEW z PROVE Kept(b, SetWord(b, at, z), {at \div 4}) /\ SetWord(b, at, z).len = b.len
    BY <2>1, SetWordIs
  <2> QED
    BY <1>4, <2>2
<1>6. Kept(b, c, {e.off \div 4 + 1, e.off \div 4 + 2})
  <2>1. \A j \in {at \div 4} : j \in Nat /\ 4 * j < b.len => j \in {e.off \div 4 + 1, e.off \div 4 + 2}
    BY <1>3
  <2> QED
    BY <1>5, <2>1, KeptBut
<1> QED
  BY <1>1, <1>5, <1>6

\* The buffer e of the items d before the next one's scalars are stored: the
\* pointer to its name, in word w, is set.
ItemBegun(k, e, d, w) == e = WithNamedItem(k) /\ d = NextItem(k) /\ w = InMaking(d).off \div 4

LEMMA ItemBegins ==
    ASSUME BuildInv, NEW k \in DefKinds, pc = ItemsOf(k), NEW e, NEW d, NEW w, ItemBegun(k, e, d, w)
    PROVE  /\ IsBuf(e) /\ Kept(buf[1], e, {w}) /\ e.mem[w] = M - 1 - Start(buf[2]) \div 4
           /\ Partial(e, d, ItemSsize(k), ItemPsize, buf[2].len) /\ w \in Nat
<1>1. PICK ssize \in Nat : ssize = ItemSsize(k) /\ ssize % 4 = 0
  BY KindsDiffer
<1>2. PICK b, c, b2, len : b = buf[1] /\ c = WithElem(b, items, ssize, ItemPsize) /\ b2 = buf[2] /\ len = b2.len
  OBVIOUS
<1>3. IsBuf(b) /\ IsBuf(b2) /\ Whole(b, items, ssize, ItemPsize, len) /\ len \in Nat
  BY <1>1, <1>2 DEF BuildInv, IsBuf
<1>4. Kept(b, c, {}) /\ Partial(c, d, ssize, ItemPsize, len)
  <2>1. ItemPsize \in Nat /\ d = BeginArr(b, items, ssize, ItemPsize)
    BY <1>1, <1>2 DEF ItemPsize, NextItem, ItemBegun
  <2> QED
    BY <1>1, <1>2, <1>3, <2>1, ElemBegins
<1>5. IsBuf(c) /\ w \in Nat /\ w + 0 = w
  <2>1. IsBuf(c)
    BY <1>4 DEF Kept
  <2>2. InMaking(d).off \in Nat
    BY <1>4, <2>1, InMakingIs
  <2> QED
    BY <2>1, <2>2 DEF ItemBegun
<1>6. PICK v, i, p : /\ v = M - 1 - Start(b2) \div 4 /\ i = 0 /\ p = ItemPsize
                     /\ PointerStored(c, e, d, p, i, v, w)
  BY <1>1, <1>2, <1>5 DEF SetP, ItemPsize, PointerStored, WithNamedItem, ItemBegun, NextItem
<1>7. Kept(c, e, {w}) /\ e.len = c.len /\ e.mem[w] = v /\ Partial(e, d, ssize, p, len)
  <2>1. IsBuf(c) /\ len \in Nat /\ Partial(c, d, ssize, p, len) /\ PointerStored(c, e, d, p, i, v, w)
    BY <1>3, <1>4, <1>5, <1>6
  <2> QED
    BY <2>1, PointerSet
<1>8. Kept(b, e, {w})
  <2>1. Kept(b, e, {} \cup {w})
    BY <1>3, <1>4, <1>7, KeptTwice
  <2> QED
    BY <2>1
<1>9. IsBuf(e)
  BY <1>7 DEF Kept
<1> QED
  BY <1>1, <1>2, <1>5, <1>6, <1>7, <1>8, <1>9

\* A longer buffer holds what a shorter one does.
LEMMA PtrToMore ==
    ASSUME NEW w, NEW len \in Nat, NEW more \in Nat, len <= more, PtrTo(w, len)
    PROVE  PtrTo(w, more)
BY DEF PtrTo

\* With its scalars stored, whatever they are, the item is complete.
LEMMA ItemAdded ==
    ASSUME BuildInv, NEW k \in DefKinds, pc = ItemsOf(k), NEW e, NEW d, NEW w, ItemBegun(k, e, d, w),
           NEW c, NEW S, S \subseteq {w + 1, w + 2}, Kept(e, c, S), c.len = e.len,
           NEW sym, buf' = <<c, AllocStr(buf[2], sym)>>, items' = [d EXCEPT !.n = @ + 1],
           UNCHANGED <<pc, ss, defs>>
    PROVE  BuildInv'
<1>1. PICK b1, b2, b3, len, more : /\ b1 = buf[1] /\ b2 = buf[2] /\ b3 = AllocStr(b2, sym)
                                   /\ len = b2.len /\ more = b3.len
  OBVIOUS
<1>2. PICK ssize, psize : ssize = ItemSsize(k) /\ psize = ItemPsize
  OBVIOUS
<1>3. /\ IsBuf(e) /\ Kept(b1, e, {w}) /\ e.mem[w] = M - 1 - Start(b2) \div 4
      /\ Partial(e, d, ssize, psize, len) /\ w \in Nat
  BY <1>1, <1>2, ItemBegins
<1>4. /\ IsBuf(ss) /\ IsBuf(b1) /\ IsBuf(b2) /\ ss.len >= 20
      /\ Partial(ss, defs, DefSsize(k), DefPsize, b1.len)
      /\ PtrTo(ss.mem[InMaking(defs).off \div 4], b1.len)
  BY <1>1, KindsDiffer DEF BuildInv
<1>5. /\ IsBuf(b3) /\ len \in Nat /\ more \in Nat /\ len <= more
      /\ Start(b2) \in Nat /\ Start(b2) < more
  <2>1. Kept(b2, b3, {}) /\ b3.len > Start(b2)
    BY <1>1, <1>4, AllocStrIs
  <2>2. IsBuf(b3) /\ b2.len <= b3.len /\ IsBuf(b2)
    BY <1>4, <2>1 DEF Kept
  <2>3. b2.len \in Nat /\ b3.len \in Nat
    BY <2>2 DEF IsBuf
  <2>4. Start(b2) \in Nat
    BY <1>4, StartIs
  <2> QED
    BY <1>1, <2>1, <2>2, <2>3, <2>4
<1>6. IsBuf(c) /\ b1.len \in Nat /\ c.len \in Nat /\ b1.len <= c.len
  BY <1>3, <1>4 DEF Kept, IsBuf
<1>7. Partial(c, d, ssize, psize, more)
  <2>1. \A i \in S : i >= InMaking(d).off \div 4 /\ i \in Nat
    BY <1>3 DEF ItemBegun
  <2> QED
    BY <1>3, <1>5, <2>1, PartialKept
<1>8. PtrTo(c.mem[w], more)
  <2>1. w \notin S
    BY <1>3
  <2>2. 4 * w < e.len
    <3>1. PICK f : f = InMaking(d)
      OBVIOUS
    <3>2. f.off \in Nat /\ psize \in Nat /\ ssize \in Nat /\ e.len = f.off + 4 * psize + ssize
      BY <1>3, <3>1, InMakingIs
    <3>3. psize = 1
      BY <1>2 DEF ItemPsize
    <3> QED
      BY <3>1, <3>2, <3>3 DEF ItemBegun
  <2>3. c.mem[w] = e.mem[w]
    BY <1>3, <2>1, <2>2 DEF Kept
  <2> QED
    BY <1>3, <1>5, <2>3, PtrToHdr
<1>9. Whole(c, items', ssize, psize, more) /\ items'.n # 0
  <2>1. \A i \in 0 .. psize - 1 : PtrTo(c.mem[InMaking(d).off \div 4 + i], more)
    <3>1. psize = 1 /\ w + 0 = w
      BY <1>2, <1>3 DEF ItemPsize
    <3> QED
      BY <1>8, <3>1 DEF ItemBegun
  <2>2. PICK its : its = items'
    OBVIOUS
  <2>3. IsBuf(c) /\ its = [d EXCEPT !.n = @ + 1] /\ Partial(c, d, ssize, psize, more)
    BY <1>6, <1>7, <2>2
  <2>4. Whole(c, its, ssize, psize, more) /\ its.n > 0 /\ its.n = d.n + 1
    BY <2>1, <2>3, ElemEnds
  <2>5. its.n # 0
    BY <2>4
  <2> QED
    BY <2>2, <2>4, <2>5
<1>10. Partial(ss, defs, DefSsize(k), DefPsize, c.len)
  <2>1. Kept(ss, ss, {}) /\ \A i \in {} : i >= InMaking(defs).off \div 4 /\ i \in Nat
    BY <1>4, KeptItself
  <2> QED
    BY <1>4, <1>6, <2>1, PartialKept
<1>11. PtrTo(ss.mem[InMaking(defs).off \div 4], c.len)
  BY <1>4, <1>6, PtrToMore
<1>12. buf' = <<c, b3>> /\ buf'[1] = c /\ buf'[2] = b3 /\ pc' = ItemsOf(k) /\ ss' = ss /\ defs' = defs
  BY <1>1
<1>13. pc' \in {"values", "fields"} /\ \A j \in DefKinds : pc' # j /\ (pc' = ItemsOf(j) => j = k)
  BY <1>12, KindsDiffer
<1>14. \A j \in DefKinds :
           pc' = ItemsOf(j) =>
               /\ Partial(ss', defs', DefSsize(j), DefPsize, buf'[1].len)
               /\ PtrTo(ss'.mem[InMaking(defs').off \div 4], buf'[1].len)
               /\ Whole(buf'[1], items', ItemSsize(j), ItemPsize, buf'[2].len)
               /\ items'.n = 0 => buf'[2].len = 0
  BY <1>1, <1>2, <1>9, <1>10, <1>11, <1>12, <1>13
<1> QED
  BY <1>4, <1>5, <1>6, <1>12, <1>13, <1>14 DEF BuildInv

LEMMA EnumValBuilds == ASSUME BuildInv, EnumVal PROVE BuildInv'
<1> DEFINE k == "enums"
<1>1. k \in DefKinds /\ pc = ItemsOf(k) /\ UNCHANGED <<pc, ss, defs>>
  BY DEF EnumVal, DefKinds, ItemsOf
<1>2. PICK e, d, w : ItemBegun(k, e, d, w)
  BY DEF ItemBegun
<1>3. PICK x, y, c, sym : /\ c = SetHalves(e, InMaking(d), 0, x, y) /\ buf' = <<c, AllocStr(buf[2], sym)>>
                          /\ items' = [d EXCEPT !.n = @ + 1]
  BY <1>2 DEF EnumVal, SetHalf, ItemBegun
<1> HIDE DEF k
<1>4. IsBuf(e) /\ Partial(e, d, ItemSsize(k), ItemPsize, buf[2].len)
  BY <1>1, <1>2, ItemBegins
<1>5. PICK i, ssize, len, S : /\ i = 0 /\ ssize = ItemSsize(k) /\ len = buf[2].len
                              /\ S = {w + 1, w + 2} /\ HalvesStored(e, c, d, ssize, i, S)
  <2>1. 0 \in {0, 2} /\ 2 * 0 < ItemSsize(k)
    BY <1>1, KindsDiffer
  <2> QED
    BY <1>2, <1>3, <2>1 DEF HalvesStored, ItemBegun
<1>6. Kept(e, c, S) /\ c.len = e.len
  <2>1. IsBuf(e) /\ Partial(e, d, ssize, ItemPsize, len) /\ HalvesStored(e, c, d, ssize, i, S)
    BY <1>4, <1>5
  <2> QED
    BY <2>1, HalvesSet
<1> QED
  BY <1>1, <1>2, <1>3, <1>5, <1>6, ItemAdded

\* FieldScalars stores twice, to the two words behind the pointer.
LEMMA FieldScalarsSet ==
    ASSUME NEW b, IsBuf(b), NEW ssize \in Nat, 4 < ssize, NEW len \in Nat, NEW a, Partial(b, a, ssize, ItemPsize, len),
           NEW kind, NEW import, NEW id, NEW offset, NEW c,
           c = FieldScalars(b, InMaking(a), kind, import, id, offset),
           NEW S, S = {InMaking(a).off \div 4 + 1, InMaking(a).off \div 4 + 2}
    PROVE  Kept(b, c, S) /\ c.len = b.len
<1>1. PICK c1, i, j : /\ c1 = SetHalves(b, InMaking(a), KIND, kind, import) /\ i = 0 /\ j = 2
                      /\ c = SetHalves(c1, InMaking(a), TYPE_ID, id, offset)
  BY DEF FieldScalars
<1>2. PICK psize : psize = ItemPsize
  OBVIOUS
<1>3. HalvesStored(b, c1, a, ssize, i, S) /\ HalvesStored(c1, c, a, ssize, j, S)
  BY <1>1 DEF HalvesStored, KIND, TYPE_ID
<1>4. Kept(b, c1, S) /\ c1.len = b.len
  BY <1>3, HalvesSet
<1>5. IsBuf(c1) /\ Partial(c1, a, ssize, ItemPsize, len)
  <2>1. \A k \in S : k >= InMaking(a).off \div 4 /\ k \in Nat
    <3>1. InMaking(a).off \in Nat
      BY InMakingIs
    <3> QED
      BY <3>1
  <2>2. IsBuf(c1) /\ len <= len
    BY <1>4 DEF Kept
  <2>3. IsBuf(b) /\ Partial(b, a, ssize, psize, len)
    BY <1>2
  <2>4. Partial(c1, a, ssize, psize, len)
    BY <1>4, <2>1, <2>2, <2>3, PartialKept
  <2> QED
    BY <1>2, <2>2, <2>4
<1>6. Kept(c1, c, S) /\ c.len = c1.len
  BY <1>3, <1>5, HalvesSet
<1>7. Kept(b, c, S \cup S)
  BY <1>4, <1>6, KeptTwice
<1> QED
  BY <1>4, <1>6, <1>7

LEMMA FieldDefBuilds == ASSUME BuildInv, FieldDef PROVE BuildInv'
<1> DEFINE k == "messages"
<1>1. k \in DefKinds /\ pc = ItemsOf(k) /\ UNCHANGED <<pc, ss, defs>> /\ ItemSsize(k) = 8
  BY DEF FieldDef, DefKinds, ItemsOf, ItemSsize
<1>2. PICK e, d, w : ItemBegun(k, e, d, w)
  BY DEF ItemBegun
<1>3. PICK kind, import, id, offset, c, sym :
          /\ c = FieldScalars(e, InMaking(d), kind, import, id, offset)
          /\ buf' = <<c, AllocStr(buf[2], sym)>> /\ items' = [d EXCEPT !.n = @ + 1]
  BY <1>2 DEF FieldDef, ItemBegun
<1> HIDE DEF k
<1>4. IsBuf(e) /\ Partial(e, d, ItemSsize(k), ItemPsize, buf[2].len) /\ buf[2].len \in Nat
  BY <1>1, <1>2, ItemBegins DEF BuildInv, IsBuf
<1>5. PICK ssize, len, S : ssize = 8 /\ len = buf[2].len /\ S = {w + 1, w + 2}
  OBVIOUS
<1>6. Kept(e, c, S) /\ c.len = e.len
  <2>1. S = {InMaking(d).off \div 4 + 1, InMaking(d).off \div 4 + 2}
    BY <1>2, <1>5 DEF ItemBegun
  <2>2. /\ IsBuf(e) /\ Partial(e, d, ssize, ItemPsize, len) /\ len \in Nat /\ ssize \in Nat /\ 4 < ssize
        /\ c = FieldScalars(e, InMaking(d), kind, import, id, offset)
    BY <1>1, <1>3, <1>4, <1>5
  <2> QED
    BY <2>1, <2>2, FieldScalarsSet
<1> QED
  BY <1>1, <1>2, <1>3, <1>5, <1>6, ItemAdded

LEMMA EmptiedIs == ASSUME NEW b, IsBuf(b) PROVE IsBuf(Emptied(b)) /\ Emptied(b).len = 0
<1>1. PICK e : e = Emptied(b)
  OBVIOUS
<1>2. b = [mem |-> b.mem, len |-> b.len, cap |-> b.cap, grows |-> b.grows]
      /\ b.mem = [i \in 0 .. Words(b.cap) - 1 |-> b.mem[i]] /\ b.cap \in Nat
  BY DEF IsBuf
<1>3. e = [mem |-> b.mem, len |-> 0, cap |-> b.cap, grows |-> b.grows]
  BY <1>1, <1>2 DEF Emptied
<1>4. e.mem = b.mem /\ e.len = 0 /\ e.cap = b.cap /\ e.grows = b.grows
  BY <1>3
<1>5. e = [mem |-> [i \in 0 .. Words(e.cap) - 1 |-> e.mem[i]], len |-> e.len, cap |-> e.cap, grows |-> e.grows]
  BY <1>2, <1>3, <1>4, Zenon
<1>6. e.len \in Nat /\ e.cap \in Nat /\ e.len <= e.cap
  BY <1>2, <1>4
<1>7. IsBuf(e)
  BY <1>5, <1>6 DEF IsBuf
<1> QED
  BY <1>1, <1>4, <1>7

\* The definition is complete with its pointer to the items.
LEMMA EndItemsBuilds == ASSUME BuildInv, NEW k \in DefKinds, EndItems(k) PROVE BuildInv'
<1>1. PICK b1, b2, c, ssize, psize, len :
          /\ b1 = buf[1] /\ b2 = buf[2] /\ c = Finished(b1, items, b2)
          /\ ssize = DefSsize(k) /\ psize = DefPsize /\ len = b1.len
  OBVIOUS
<1>2. PICK hdr : hdr = HdrOffset(c, items.first)
  OBVIOUS
<1>3. /\ pc = ItemsOf(k) /\ pc' = k /\ items.n > 0 /\ buf' = <<c, Emptied(b2)>>
      /\ ss' = SetP(ss, InMaking(defs), 1, hdr, FALSE)
      /\ defs' = [defs EXCEPT !.n = @ + 1]
  BY <1>1, <1>2 DEF EndItems
<1>4. /\ IsBuf(ss) /\ IsBuf(b1) /\ IsBuf(b2) /\ ss.len >= 20
      /\ Partial(ss, defs, ssize, psize, len) /\ PtrTo(ss.mem[InMaking(defs).off \div 4], len)
      /\ Whole(b1, items, ItemSsize(k), ItemPsize, b2.len)
  BY <1>1, <1>3, KindsDiffer DEF BuildInv
<1>5. IsBuf(c) /\ b1.len <= c.len /\ hdr \in Nat /\ hdr < c.len
  BY <1>1, <1>2, <1>3, <1>4, ArrEnds
<1>6. PICK more : more = c.len /\ more \in Nat /\ len \in Nat /\ len <= more
  BY <1>1, <1>4, <1>5 DEF IsBuf
<1>7. PICK s, w, v : s = ss' /\ w = InMaking(defs).off \div 4 + 1 /\ v = M - 1 - hdr \div 4
  OBVIOUS
<1>8. Kept(ss, s, {w}) /\ s.len = ss.len /\ s.mem[w] = v /\ Partial(s, defs, ssize, psize, len)
  <2>1. PICK i : i = 1 /\ PointerStored(ss, s, defs, psize, i, v, w)
    BY <1>1, <1>3, <1>7 DEF SetP, DefPsize, PointerStored
  <2>2. IsBuf(ss) /\ len \in Nat /\ Partial(ss, defs, ssize, psize, len)
    BY <1>4, <1>6
  <2> QED
    BY <2>1, <2>2, PointerSet
<1>9. IsBuf(s) /\ s.len >= 20
  BY <1>4, <1>8 DEF Kept
<1>10. PtrTo(s.mem[w], more)
  BY <1>5, <1>6, <1>7, <1>8, PtrToHdr
<1>11. PICK u \in Nat : u = InMaking(defs).off \div 4 /\ u + 1 = w /\ 4 * u < ss.len
  <2>1. PICK f : f = InMaking(defs)
    OBVIOUS
  <2>2. f.off \in Nat /\ psize \in Nat /\ ssize \in Nat /\ ss.len = f.off + 4 * psize + ssize
    BY <1>4, <2>1, InMakingIs
  <2>3. psize = 2
    BY <1>1 DEF DefPsize
  <2> QED
    BY <1>7, <2>1, <2>2, <2>3
<1>12. PtrTo(s.mem[u], more)
  <2>1. u \notin {w} /\ s.mem[u] = ss.mem[u]
    BY <1>8, <1>11 DEF Kept
  <2>2. PtrTo(ss.mem[u], len)
    BY <1>4, <1>11
  <2> QED
    BY <1>6, <2>1, <2>2, PtrToMore
<1>13. Partial(s, defs, ssize, psize, more)
  <2>1. Kept(s, s, {}) /\ \A i \in {} : i >= InMaking(defs).off \div 4 /\ i \in Nat
    BY <1>9, KeptItself
  <2> QED
    BY <1>6, <1>8, <1>9, <2>1, PartialKept
<1>14. Whole(s, defs', ssize, psize, more) /\ defs'.n # 0
  <2>1. \A i \in 0 .. psize - 1 : PtrTo(s.mem[InMaking(defs).off \div 4 + i], more)
    <3>1. psize = 2 /\ u + 0 = u
      BY <1>1 DEF DefPsize
    <3> QED
      BY <1>10, <1>11, <1>12, <3>1
  <2>2. PICK a : a = defs'
    OBVIOUS
  <2>3. IsBuf(s) /\ a = [defs EXCEPT !.n = @ + 1] /\ Partial(s, defs, ssize, psize, more)
    BY <1>3, <1>9, <1>13, <2>2
  <2>4. Whole(s, a, ssize, psize, more) /\ a.n = defs.n + 1 /\ a.n > 0
    BY <2>1, <2>3, ElemEnds
  <2>5. a.n # 0
    BY <2>4
  <2> QED
    BY <2>2, <2>4, <2>5
<1>15. PICK e : e = Emptied(b2) /\ IsBuf(e) /\ e.len = 0
  BY <1>4, EmptiedIs
<1>16. buf' = <<c, e>> /\ buf'[1] = c /\ buf'[2] = e
  BY <1>3, <1>15
<1>17. \A j \in DefKinds : pc' # ItemsOf(j) /\ (pc' = j => j = k)
  BY <1>3, KindsDiffer
<1>18. pc' \notin {"idle", "complete"}
  BY <1>3 DEF DefKinds
<1>19. \A j \in DefKinds : pc' = j =>
           /\ Whole(ss', defs', DefSsize(j), DefPsize, buf'[1].len)
           /\ buf'[2].len = 0 /\ (defs'.n = 0 => buf'[1].len = 0)
  BY <1>1, <1>6, <1>7, <1>14, <1>15, <1>16, <1>17
<1> QED
  BY <1>5, <1>7, <1>9, <1>15, <1>16, <1>17, <1>18, <1>19 DEF BuildInv

\* An array of definitions that has none is left out.
LEMMA EndDefsBuilds == ASSUME BuildInv, NEW k \in DefKinds, EndDefs(k) PROVE BuildInv'
<1>1. PICK b1, b2, c : b1 = buf[1] /\ b2 = buf[2] /\ c = Finished(ss, defs, b1)
  OBVIOUS
<1>2. /\ pc = k /\ pc' \in {"messages", "complete"} /\ defs' = NoArr
      /\ IF defs.n = 0 THEN UNCHANGED <<ss, buf>>
         ELSE /\ ss' = SetP(c, SchemaObj, DefsIndex(k), HdrOffset(c, defs.first), TRUE)
              /\ buf' = [buf EXCEPT ![1] = Emptied(b1)]
  BY <1>1 DEF EndDefs
<1>3. /\ IsBuf(ss) /\ IsBuf(b1) /\ IsBuf(b2) /\ buf = <<b1, b2>> /\ ss.len >= 20
      /\ Whole(ss, defs, DefSsize(k), DefPsize, b1.len) /\ b2.len = 0 /\ (defs.n = 0 => b1.len = 0)
  BY <1>1, <1>2, KindsDiffer DEF BuildInv
<1>4. /\ IsBuf(ss') /\ ss'.len >= 20
      /\ buf' = <<buf'[1], buf'[2]>> /\ IsBuf(buf'[1]) /\ IsBuf(buf'[2]) /\ buf'[1].len = 0 /\ buf'[2].len = 0
  <2>1. CASE defs.n = 0
    BY <1>2, <1>3, <2>1
  <2>2. CASE defs.n # 0
    <3>1. defs.n > 0
      BY <1>3, <2>2 DEF Whole
    <3>2. IsBuf(c) /\ ss.len <= c.len
      BY <1>1, <1>3, <3>1, ArrEnds
    <3>3. c.len >= 20
      BY <1>3, <3>2 DEF IsBuf
    <3>4. PICK i, hdr : i = DefsIndex(k) /\ hdr = HdrOffset(c, defs.first) /\ i \in 0 .. 3
      BY DEF DefsIndex
    <3>5. ASSUME NEW same PROVE IsBuf(SetP(c, SchemaObj, i, hdr, same)) /\ SetP(c, SchemaObj, i, hdr, same).len >= 20
      BY <3>2, <3>3, <3>4, SchemaPtrSet
    <3>6. IsBuf(ss') /\ ss'.len >= 20
      BY <1>2, <2>2, <3>4, <3>5
    <3>7. PICK e : e = Emptied(b1) /\ IsBuf(e) /\ e.len = 0
      BY <1>3, EmptiedIs
    <3>8. buf' = <<e, b2>> /\ buf'[1] = e /\ buf'[2] = b2
      BY <1>2, <1>3, <2>2, <3>7
    <3> QED
      BY <1>3, <3>6, <3>7, <3>8
  <2> QED
    BY <2>1, <2>2
<1>5. \A j \in DefKinds : Whole(ss', defs', DefSsize(j), DefPsize, buf'[1].len)
  BY <1>2, NoArrWhole
<1>6. \A j \in DefKinds : pc' # ItemsOf(j)
  BY <1>2 DEF ItemsOf
<1> QED
  BY <1>2, <1>4, <1>5, <1>6 DEF BuildInv

LEMMA NextBuilds == BuildInv /\ [Next]_vars => BuildInv'
<1> SUFFICES ASSUME BuildInv, [Next]_vars PROVE BuildInv'
  OBVIOUS
<1>1. CASE BeginFile
  BY <1>1, BeginFileBuilds
<1>2. ASSUME NEW k \in DefKinds, DefBegin(k) PROVE BuildInv'
  BY <1>2, DefBeginBuilds
<1>3. ASSUME NEW k \in DefKinds, EndItems(k) PROVE BuildInv'
  BY <1>3, EndItemsBuilds
<1>4. ASSUME NEW k \in DefKinds, EndDefs(k) PROVE BuildInv'
  BY <1>4, EndDefsBuilds
<1>5. CASE EnumVal
  BY <1>5, EnumValBuilds
<1>6. CASE FieldDef
  BY <1>6, FieldDefBuilds
<1>7. CASE Complete
  <2>1. pc = "complete" /\ pc' = "idle" /\ typenames' = <<>> /\ ss' = NewBuf(0) /\ UNCHANGED <<buf, defs>>
    BY <1>7 DEF Complete
  <2>2. IsBuf(NewBuf(0))
    BY NewBufIs
  <2>3. defs = NoArr /\ buf[1].len = 0 /\ buf[2].len = 0
    BY <2>1 DEF BuildInv
  <2> QED
    BY <2>1, <2>2, <2>3 DEF BuildInv, DefKinds, ItemsOf
<1>8. CASE CannotResolve
  <2>1. pc' = "unresolved" /\ UNCHANGED <<ss, buf, defs>>
    BY <1>8 DEF CannotResolve
  <2> QED
    BY <2>1 DEF BuildInv, DefKinds, ItemsOf
<1>9. CASE Fail
  <2>1. PICK b : b = NewBuf(0)
    OBVIOUS
  <2>2. pc' = "failed" /\ ss' = b /\ buf' = <<b, b>> /\ buf'[1] = b /\ buf'[2] = b
    BY <1>9, <2>1 DEF Fail
  <2>3. IsBuf(b)
    BY <2>1, NewBufIs
  <2> QED
    BY <2>2, <2>3 DEF BuildInv, DefKinds, ItemsOf
<1>10. CASE UNCHANGED vars
  BY <1>10 DEF vars, BuildInv
<1> QED
  BY <1>1, <1>2, <1>3, <1>4, <1>5, <1>6, <1>7, <1>8, <1>9, <1>10 DEF Next, DefKinds

THEOREM BuildInvariant == Spec => []BuildInv
<1> QED
  BY InitBuilds, NextBuilds, PTL DEF Spec

-----------------------------------------------------------------------------
\* nbuf_resize_arr and nbuf_fix_arr find each array that ends at the end of its
\* buffer, with pointers into the buffer that is appended: no assertion fails.
THEOREM NoAssertionFails == Spec => []AssertsHold
<1>1. ASSUME BuildInv PROVE AssertsHold
  <2>1. IsBuf(ss) /\ IsBuf(buf[1]) /\ IsBuf(buf[2])
    BY <1>1 DEF BuildInv
  <2>2. ASSUME NEW k \in DefKinds, pc = ItemsOf(k)
        PROVE  AtEnd(ss, defs.first, defs.n + 1)
    BY <1>1, <2>2 DEF BuildInv, Partial
  <2>3. ASSUME NEW k \in DefKinds, pc = ItemsOf(k), items.n > 0
        PROVE  /\ AtEnd(buf[1], items.first, items.n)
               /\ Fixable(Resized(buf[1], items), items.first, items.n, buf[2])
    <3>1. Whole(buf[1], items, ItemSsize(k), ItemPsize, buf[2].len)
      BY <1>1, <2>3 DEF BuildInv
    <3>2. Fixable(Resized(buf[1], items), items.first, items.n, buf[2])
      BY <2>1, <2>3, <3>1, ArrEnds
    <3> QED
      BY <2>3, <3>1, <3>2 DEF Whole
  <2>4. ASSUME NEW k \in DefKinds, pc = k, defs.n > 0
        PROVE  /\ AtEnd(ss, defs.first, defs.n)
               /\ Fixable(Resized(ss, defs), defs.first, defs.n, buf[1])
    <3>1. Whole(ss, defs, DefSsize(k), DefPsize, buf[1].len)
      BY <1>1, <2>4 DEF BuildInv
    <3>2. Fixable(Resized(ss, defs), defs.first, defs.n, buf[1])
      BY <2>1, <2>4, <3>1, ArrEnds
    <3> QED
      BY <2>4, <3>1, <3>2 DEF Whole
  <2>5. {"values", "fields"} = {ItemsOf(k) : k \in DefKinds}
    BY DEF DefKinds, ItemsOf
  <2> QED
    BY <2>2, <2>3, <2>4, <2>5 DEF AssertsHold, DefKinds
<1> QED
  BY <1>1, BuildInvariant, PTL

\* Every file finds the context's buffers empty and no name left to resolve,
\* whatever the files before it held.
THEOREM FilesStartClean == Spec => []CleanBetweenFiles
<1>1. BuildInv => CleanBetweenFiles
  BY DEF BuildInv, CleanBetweenFiles
<1> QED
  BY <1>1, BuildInvariant, PTL
=============================================================================
