-------------------------- MODULE TextParserProofs --------------------------
(***************************************************************************)
(* Proofs about TextParser: no assertion of the parser fails, and what was *)
(* parsed stays as it was, for every input, every limit of the depth,      *)
(* every number of parses on one buffer and every width of a word.         *)
(*                                                                         *)
(* The invariant speaks of bs, the buffers, and st, the frames, whatever   *)
(* the state they are in, for an action changes both in several steps; val *)
(* tells whether an element of the innermost array is due, and clean       *)
(* whether no parse has failed on the buffer.                              *)
(***************************************************************************)
EXTENDS TextParser, WireProofs, SequenceTheorems

\* A sequence, of whatever elements
IsSequence(s) == Len(s) \in Nat /\ s = [i \in 1 .. Len(s) |-> s[i]]

IsMsg(fr) == fr = [kind |-> "msg", b |-> fr.b, o |-> fr.o, doc |-> fr.doc]
IsRep(fr) ==
    /\ fr = [kind |-> "rep", b |-> fr.b, first |-> fr.first, it |-> fr.it, f |-> fr.f, items |-> fr.items]
    /\ fr.f \in Repeated /\ IsSequence(fr.items)
IsFrame(fr) == IF fr.kind = "msg" THEN IsMsg(fr) ELSE IsRep(fr)

-----------------------------------------------------------------------------
(* The frames *)

\* The buffer that what hangs off frame k is built in
Home(st, k) ==
    IF st[k].kind = "rep" THEN st[k].b + (IF NeedsBuf(st[k].f) THEN 1 ELSE 0)
    ELSE IF k > 1 /\ st[k - 1].kind = "rep" THEN st[k].b + 1
    ELSE st[k].b

\* A frame on an array is the element that is due; any other one is where it should be.
Link(st, k) ==
    IF st[k - 1].kind = "rep"
    THEN st[k].kind = "msg" /\ st[k].b = st[k - 1].b /\ st[k - 1].f = "r" /\ st[k].o = st[k - 1].it
    ELSE st[k].b = Home(st, k - 1)

\* Inner frames lie in later buffers; but for its element, what is on an array
\* lies in a later buffer than the array.
Chain(st, m) ==
    /\ IsSequence(st) /\ Len(st) >= 1
    /\ \A k \in 1 .. Len(st) :
           IsFrame(st[k]) /\ st[k].b \in 1 .. m /\ (k > 1 => Link(st, k))
    /\ st[1].kind = "msg" /\ st[1].b = 1
    /\ \A k \in 1 .. Len(st) : \A j \in 1 .. k - 1 :
           st[j].b <= st[k].b /\ (st[j].kind = "rep" /\ k # j + 1 => st[j].b < st[k].b)
    /\ Home(st, Len(st)) = m

\* An array is not the first thing in a buffer with a message.
Apart(st) ==
    \A k \in 1 .. Len(st) : \A j \in 1 .. k - 1 :
        st[j].kind = "msg" /\ st[k].kind = "rep" /\ st[j].b = st[k].b => st[k].first.off >= 12

-----------------------------------------------------------------------------
(* The buffers *)

\* With memory in use up to len, and the word behind it maybe stored to
GoodBuf(b, clean) == IsBuf(b) /\ (clean => Clear(b, Words(b.len) + 1))

\* A message in b, its header in front of it
MsgIn(b, o) ==
    /\ o = Object(1, o.off, MsgSsize, MsgPsize)
    /\ o.off \in Nat /\ o.off % 4 = 0 /\ o.off >= 4 /\ o.off + 24 <= b.len
    /\ o.off >= 8 \/ Has(b.mem[0], HDR)

\* An array of m elements at the end of b
ArrIn(b, fr, m) ==
    /\ IsArr(b, fr.first) /\ fr.first.ssize = ElemSsize(fr.f) /\ fr.first.psize = ElemPsize(fr.f)
    /\ fr.it = Element(fr.first, Len(fr.items) + 1)
    /\ AtEnd(b, fr.first, m)

\* What its pointers point to is in the next buffer.
ArrClean(bs, fr, m) ==
    fr.first.psize > 0 =>
        /\ Clear(bs[fr.b], bs[fr.b].len \div 4)
        /\ PtrsTo(bs[fr.b], fr.first, m, bs[fr.b + 1].len)

Started(st, val, k) == Len(st[k].items) + (IF k < Len(st) \/ val THEN 1 ELSE 0)

FrameIn(bs, fr, m, clean) ==
    IF fr.kind = "msg" THEN MsgIn(bs[fr.b], fr.o)
    ELSE ArrIn(bs[fr.b], fr, m) /\ (clean => ArrClean(bs, fr, m))

Memory(bs, st, val, clean) ==
    /\ IsSequence(bs)
    /\ \A i \in 1 .. Len(bs) : GoodBuf(bs[i], clean)
    /\ \A k \in 1 .. Len(st) : FrameIn(bs, st[k], Started(st, val, k), clean)

Under(bs, st, val, clean) == Chain(st, Len(bs)) /\ Apart(st) /\ Memory(bs, st, val, clean)

IInv ==
    /\ text = <<>> /\ bound \in Bounds
    /\ IsSequence(bufs) /\ Len(bufs) >= 1
    /\ oldlen \in Nat
    /\ pc \in {"idle", "done", "failed"} => Len(bufs) = 1 /\ IsBuf(bufs[1])
    /\ pc \in {"idle", "done"} /\ ~dirty => Clear(bufs[1], Words(bufs[1].len) + 1)
    /\ pc \in {"parsing", "aborted"} =>
           Under(bufs, stack, tok = "value", ~dirty) /\ oldlen <= stack[1].o.off
    /\ pc = "aborted" => dirty

-----------------------------------------------------------------------------
(* Sequences *)

\* t is s but for its i-th element, which is e.
Differs(s, t, i, e) ==
    /\ IsSequence(t) /\ Len(t) = Len(s) /\ t[i] = e
    /\ \A j \in 1 .. Len(s) : j # i => t[j] = s[j]

\* A function on 1 .. k is a sequence.
LEMMA RowIs ==
    ASSUME NEW k \in Nat, NEW s, s = [i \in 1 .. k |-> s[i]]
    PROVE  IsSequence(s) /\ Len(s) = k
<1> DEFINE S == {s[i] : i \in 1 .. k}
<1>1. s \in [1 .. k -> S]
  <2>1. \A i \in 1 .. k : s[i] \in S
    OBVIOUS
  <2> HIDE DEF S
  <2> QED
    BY <2>1
<1> HIDE DEF S
<1>2. s \in Seq(S)
  BY <1>1, SeqDef
<1>3. Len(s) = k
  BY <1>1, <1>2, LenProperties
<1> QED
  BY <1>3 DEF IsSequence

\* One element of a sequence is replaced.
LEMMA ReplaceIs ==
    ASSUME NEW s, IsSequence(s), NEW i \in 1 .. Len(s), NEW e
    PROVE  Differs(s, [s EXCEPT ![i] = e], i, e)
<1>1. PICK k, t : k \in Nat /\ k = Len(s) /\ t = [s EXCEPT ![i] = e]
  BY DEF IsSequence
<1>2. s = [j \in 1 .. k |-> s[j]]
  BY <1>1 DEF IsSequence
<1>3. DOMAIN s = 1 .. k
  BY <1>2
<1>4. t = [j \in 1 .. k |-> IF j = i THEN e ELSE s[j]]
  BY <1>1, <1>3
<1>5. t = [j \in 1 .. k |-> t[j]] /\ t[i] = e /\ \A j \in 1 .. k : j # i => t[j] = s[j]
  BY <1>1, <1>4
<1>6. IsSequence(t) /\ Len(t) = k
  BY <1>1, <1>5, RowIs
<1> QED
  BY <1>1, <1>5, <1>6 DEF Differs

\* An element is appended.
LEMMA AppendIs ==
    ASSUME NEW s, IsSequence(s), NEW e
    PROVE  /\ IsSequence(Append(s, e)) /\ Len(Append(s, e)) = Len(s) + 1
           /\ Append(s, e)[Len(s) + 1] = e
           /\ \A j \in 1 .. Len(s) : Append(s, e)[j] = s[j]
<1>1. PICK k, t : k \in Nat /\ k = Len(s) /\ t = Append(s, e)
  BY DEF IsSequence
<1> DEFINE S == {s[i] : i \in 1 .. k} \cup {e}
<1>2. s \in Seq(S)
  <2>1. \A i \in 1 .. k : s[i] \in S
    OBVIOUS
  <2>2. s = [i \in 1 .. k |-> s[i]]
    BY <1>1 DEF IsSequence
  <2> HIDE DEF S
  <2>3. s \in [1 .. k -> S]
    BY <2>1, <2>2
  <2> QED
    BY <1>1, <2>3, SeqDef
<1>3. e \in S
  OBVIOUS
<1> HIDE DEF S
<1>4. /\ t \in Seq(S) /\ Len(t) = k + 1 /\ t[k + 1] = e
      /\ \A j \in 1 .. k : t[j] = s[j]
  BY <1>1, <1>2, <1>3, AppendProperties
<1>5. t = [j \in 1 .. k + 1 |-> t[j]]
  <2>1. t \in [1 .. k + 1 -> S]
    BY <1>4, LenProperties
  <2> QED
    BY <2>1
<1>6. IsSequence(t)
  BY <1>1, <1>4, <1>5 DEF IsSequence
<1> QED
  BY <1>1, <1>4, <1>6

\* A sequence without its last element
LEMMA FrontIs ==
    ASSUME NEW s, IsSequence(s), Len(s) >= 1
    PROVE  /\ IsSequence(Front(s)) /\ Len(Front(s)) = Len(s) - 1
           /\ \A j \in 1 .. Len(s) - 1 : Front(s)[j] = s[j]
<1>1. PICK k \in Nat : k = Len(s) - 1 /\ k + 1 = Len(s)
  BY DEF IsSequence
<1> DEFINE t == SubSeq(s, 1, k)
<1> DEFINE S == {s[i] : i \in 1 .. k + 1}
<1>2. \A i \in 1 .. k : s[i] \in S
  OBVIOUS
<1> HIDE DEF S, t
<1>3. /\ t \in Seq(S) /\ Len(t) = IF 1 <= k THEN k - 1 + 1 ELSE 0
      /\ \A i \in 1 .. k - 1 + 1 : t[i] = s[1 + i - 1]
  <2>1. 1 \in Int /\ k \in Int
    OBVIOUS
  <2> QED
    BY <1>2, <2>1, SubSeqProperties DEF t
<1>4. k - 1 + 1 = k /\ \A i \in 1 .. k : 1 + i - 1 = i
  OBVIOUS
<1>5. Len(t) = k /\ \A i \in 1 .. k : t[i] = s[i]
  BY <1>3, <1>4
<1>6. t \in [1 .. k -> S]
  BY <1>3, <1>5, LenProperties
<1>7. t = [i \in 1 .. k |-> t[i]]
  BY <1>6
<1>8. IsSequence(t)
  BY <1>5, <1>7 DEF IsSequence
<1>9. t = Front(s)
  BY <1>1 DEF Front, t
<1> QED
  BY <1>1, <1>5, <1>8, <1>9

\* A sequence of one element
LEMMA SingletonIs ==
    ASSUME NEW e
    PROVE  IsSequence(<<e>>) /\ Len(<<e>>) = 1 /\ <<e>>[1] = e
<1>1. PICK s : s = <<e>>
  OBVIOUS
<1>2. s = [i \in 1 .. 1 |-> s[i]] /\ s[1] = e /\ Len(s) = 1
  BY <1>1
<1> QED
  BY <1>1, <1>2 DEF IsSequence

-----------------------------------------------------------------------------
(* What the parser writes at the end of the last buffer *)

\* A buffer that keeps the words of another one is as good.
LEMMA GoodFrom ==
    ASSUME NEW b, NEW c, NEW clean, GoodBuf(b, clean), IsBuf(c), b.len <= c.len,
           clean => Clear(c, Words(b.len) + 1)
    PROVE  GoodBuf(c, clean)
<1>1. PICK x \in Nat, y \in Nat : x = b.len /\ y = c.len /\ x <= y /\ c.cap \in Nat
  BY DEF GoodBuf, IsBuf
<1>2. Words(x) + 1 \in Int /\ Words(y) + 1 \in Int /\ Words(x) + 1 <= Words(y) + 1
  BY <1>1 DEF Words
<1>3. ASSUME clean PROVE Clear(c, Words(y) + 1)
  BY <1>1, <1>2, <1>3, ClearFrom
<1> QED
  BY <1>1, <1>3 DEF GoodBuf

\* A message is allocated.
LEMMA NewMsg ==
    ASSUME NEW b, NEW clean, GoodBuf(b, clean), NEW o, o = NewObj(b, MsgSsize, MsgPsize),
           NEW c, c = AllocObj(b, MsgSsize, MsgPsize)
    PROVE  GoodBuf(c, clean) /\ Kept(b, c, {}) /\ MsgIn(c, o)
<1>1. IsBuf(b) /\ MsgSsize = 4 /\ MsgPsize = 5
  BY DEF GoodBuf, MsgSsize, MsgPsize
<1>2. Kept(b, c, {}) /\ c.len = Start(b) + 4 + 4 * 5 + 4
  BY <1>1, AllocObjIs
<1>3. c.mem[Start(b) \div 4] = Header(4, 5)
  BY <1>1, AllocObjHeader
<1>4. PICK w \in Nat : Start(b) = 4 * w /\ Start(b) \div 4 = w
  BY <1>1, StartIs
<1>5. GoodBuf(c, clean)
  <2>1. clean => Clear(c, Words(b.len) + 1)
    BY <1>1, AllocObjClear DEF GoodBuf
  <2> QED
    BY <1>2, <2>1, GoodFrom DEF Kept
<1>6. o = Object(1, 4 * w + 4, 4, 5) /\ o.off = 4 * w + 4
  BY <1>1, <1>4 DEF NewObj, Object
<1>7. Has(Header(4, 5), HDR)
  <2>1. 4 * PN + 5 \in Nat /\ 4 * PN + 5 < HDR
    <3>1. SN * PN >= PN + PN /\ SN * PN \in Nat /\ PN \in Nat /\ PN >= 2
      BY SNAssumption, PNAssumption
    <3>2. HDR = 4 * (SN * PN)
      BY DEF HDR, ARR
    <3> QED
      BY <3>1, <3>2
  <2>2. Header(4, 5) = HDR + (4 * PN + 5)
    BY <2>1, MIsNat, PNAssumption DEF Header
  <2> QED
    BY <2>1, <2>2, HeaderHas
<1>8. o.off >= 8 \/ Has(c.mem[0], HDR)
  <2>1. CASE w = 0
    BY <1>3, <1>4, <1>7, <2>1
  <2>2. CASE w # 0
    BY <1>6, <2>2
  <2> QED
    BY <2>1, <2>2
<1>9. MsgIn(c, o)
  <2>1. o.off \in Nat /\ o.off % 4 = 0 /\ o.off >= 4 /\ o.off + 24 <= c.len
    BY <1>2, <1>4, <1>6
  <2> QED
    BY <1>1, <1>6, <1>8, <2>1 DEF MsgIn
<1> QED
  BY <1>2, <1>5, <1>9

\* What is at the end of a buffer is given up.
LEMMA ShortIs ==
    ASSUME NEW b, IsBuf(b), NEW len \in Nat, len <= b.len, NEW c, c = [b EXCEPT !.len = len]
    PROVE  IsBuf(c) /\ c.mem = b.mem /\ c.len = len /\ c.cap = b.cap
<1>1. b = [mem |-> b.mem, len |-> b.len, cap |-> b.cap, grows |-> b.grows]
      /\ b.mem = [i \in 0 .. Words(b.cap) - 1 |-> b.mem[i]]
      /\ b.cap \in Nat /\ b.len \in Nat /\ b.len <= b.cap
  BY DEF IsBuf
<1>2. len <= b.cap
  BY <1>1
<1>3. c = [mem |-> b.mem, len |-> len, cap |-> b.cap, grows |-> b.grows]
  BY <1>1
<1>4. c.mem = b.mem /\ c.len = len /\ c.cap = b.cap /\ c.grows = b.grows
  BY <1>3
<1>5. c = [mem |-> [i \in 0 .. Words(c.cap) - 1 |-> c.mem[i]],
           len |-> c.len, cap |-> c.cap, grows |-> c.grows]
  BY <1>1, <1>3, <1>4
<1>6. c.len \in Nat /\ c.cap \in Nat /\ c.len <= c.cap
  BY <1>1, <1>2, <1>4
<1> QED
  BY <1>4, <1>5, <1>6, Zenon DEF IsBuf

\* The array of a string is begun: its header, and after it a byte.
LEMMA StrBegun ==
    ASSUME NEW b, NEW clean, GoodBuf(b, clean), NEW c, c = AllocArr(b, 1, 1, 0),
           NEW w, w = Words(b.len)
    PROVE  /\ w \in Nat /\ Start(b) = 4 * w /\ StrObj(b).off = 4 * w + 4 /\ 4 * w >= b.len /\ b.len \in Nat
           /\ IsBuf(c) /\ Kept(b, c, {}) /\ c.len = 4 * w + 5 /\ c.mem[w] = HDR + BARR + 1
           /\ clean => Clear(c, w + 1)
<1>1. IsBuf(b) /\ b.len \in Nat
  BY DEF GoodBuf, IsBuf
<1>2. w \in Nat /\ 4 * w >= b.len /\ Start(b) = 4 * w
  BY <1>1, WordsIs DEF Start
<1>3. IsBytes(1, 0)
  BY DEF IsBytes
<1>4. PICK c1 : c1 = AllocAligned(b, 4 + 1)
  OBVIOUS
<1>5. IsBuf(c1) /\ Kept(b, c1, {}) /\ c1.len = 4 * w + 5 /\ (clean => Clear(c1, w + 1))
  <2>1. Kept(b, c1, {}) /\ c1.len = Start(b) + (4 + 1)
    BY <1>1, <1>4, AllocAlignedIs
  <2>2. w + 1 \in Nat
    BY <1>2
  <2>3. clean => Clear(c1, w + 1)
    BY <1>1, <1>4, <2>2, AllocAlignedClear DEF GoodBuf
  <2> QED
    BY <1>2, <2>1, <2>3 DEF Kept
<1>6. c = SetWord(c1, 4 * w, HDR + BARR + 1)
  BY <1>2, <1>3, <1>4 DEF AllocArr
<1>7. PICK v : v = HDR + BARR + 1
  OBVIOUS
<1>8. PICK at \in Nat : at = 4 * w /\ at \div 4 = w
  BY <1>2
<1>9. IsBuf(c) /\ Kept(c1, c, {at \div 4}) /\ c.len = c1.len /\ c.mem[at \div 4] = v
  <2>1. IsBuf(c1) /\ at \in Nat /\ at < c1.len /\ c = SetWord(c1, at, v)
    BY <1>2, <1>5, <1>6, <1>7, <1>8
  <2> QED
    BY ONLY <2>1, SetWordTo
<1>10. Kept(b, c, {})
  <2>1. Kept(b, c, {} \cup {w})
    BY <1>1, <1>5, <1>8, <1>9, KeptTwice
  <2>2. \A i \in {} \cup {w} : i \in Nat /\ 4 * i < b.len => i \in {}
    BY <1>1, <1>2
  <2> QED
    BY <2>1, <2>2, KeptBut
<1>11. clean => Clear(c, w + 1)
  <2>1. (4 * w) \div 4 < w + 1 /\ w + 1 \in Nat
    BY <1>2
  <2> QED
    BY <1>5, <1>6, <1>7, <2>1, SetWordClear
<1>12. StrObj(b).off = 4 * w + 4
  BY <1>2, <1>3 DEF StrObj, NewArr, Object
<1> QED
  BY <1>1, <1>2, <1>5, <1>7, <1>8, <1>9, <1>10, <1>11, <1>12

\* The header of a string
LEMMA StrHeader ==
    /\ Has(HDR + BARR + 1, HDR) /\ Has(HDR + BARR + 1, BARR)
    /\ Has(((HDR + BARR + 1) \div BARR) * BARR + 2, HDR)
<1>1. PICK a \in Nat : a = ARR /\ a >= 4 /\ BARR = 2 * a /\ HDR = 4 * a
  BY MIsNat DEF BARR, HDR
<1>2. Has(HDR + (BARR + 1), HDR) /\ Has(HDR + (BARR + 2), HDR)
  <2>1. BARR + 1 \in Nat /\ BARR + 1 < HDR /\ BARR + 2 \in Nat /\ BARR + 2 < HDR
    BY <1>1
  <2> QED
    BY <2>1, HeaderHas
<1>3. (HDR + BARR + 1) \div BARR = 3
  <2>1. PICK d \in Nat : d = BARR /\ d > 1
    BY <1>1
  <2>2. (3 * d + 1) \div d = 3
    BY <2>1, QuotientIs
  <2>3. HDR + BARR + 1 = 3 * d + 1
    BY <1>1, <2>1
  <2> QED
    BY <2>1, <2>2, <2>3
<1>4. HDR + BARR + 1 = HDR + (BARR + 1) /\ 3 * BARR + 2 = HDR + (BARR + 2)
  BY <1>1
<1> QED
  BY <1>2, <1>3, <1>4 DEF Has

\* A string of one character is complete.
LEMMA WithStrIs ==
    ASSUME NEW b, NEW clean, GoodBuf(b, clean), NEW v, NEW c, c = WithStr(b, v)
    PROVE  /\ GoodBuf(c, clean) /\ Kept(b, c, {})
           /\ HdrOffset(c, StrObj(b)) \in Nat /\ HdrOffset(c, StrObj(b)) < c.len
           /\ HdrOffset(c, StrObj(b)) = 4 * Words(b.len) /\ c.mem[Words(b.len)] = HDR + BARR + 2
           /\ c.len = 4 * Words(b.len) + 6 /\ Words(b.len) \in Nat /\ 4 * Words(b.len) >= b.len
<1>1. PICK w : w = Words(b.len)
  OBVIOUS
<1>2. PICK c0 : c0 = AllocArr(b, 1, 1, 0)
  OBVIOUS
<1>3. /\ w \in Nat /\ Start(b) = 4 * w /\ StrObj(b).off = 4 * w + 4 /\ 4 * w >= b.len /\ b.len \in Nat
      /\ IsBuf(c0) /\ Kept(b, c0, {}) /\ c0.len = 4 * w + 5 /\ c0.mem[w] = HDR + BARR + 1
      /\ clean => Clear(c0, w + 1)
  BY <1>1, <1>2, StrBegun
<1>4. PICK at \in Nat, to \in Nat : /\ at = 4 * w /\ at \div 4 = w
                                     /\ to = at + 4 /\ to - 4 = at /\ to \div 4 = w + 1
  BY <1>3
<1>5. PICK c1 : c1 = Alloc(c0, 1)
  OBVIOUS
<1>6. IsBuf(c1) /\ Kept(c0, c1, {}) /\ c1.len = at + 6 /\ (clean => Clear(c1, w + 1))
  <2>1. Kept(c0, c1, {}) /\ c1.len = c0.len + 1
    BY <1>3, <1>5, AllocIs
  <2>2. w + 1 \in Nat
    BY <1>3
  <2>3. clean => Clear(c1, w + 1)
    BY <1>3, <1>5, <2>2, AllocClear
  <2> QED
    BY <1>3, <1>4, <2>1, <2>3 DEF Kept
<1>7. PICK c2 : c2 = SetWord(c1, to, v)
  OBVIOUS
<1>8. IsBuf(c2) /\ Kept(c1, c2, {to \div 4}) /\ c2.len = c1.len
  <2>1. IsBuf(c1) /\ to \in Nat /\ to < c1.len /\ c2 = SetWord(c1, to, v)
    BY <1>4, <1>6, <1>7
  <2> QED
    BY ONLY <2>1, SetWordTo
<1>9. c2.mem[w] = HDR + BARR + 1
  <2>1. c1.mem[w] = c0.mem[w]
    BY <1>3, <1>6 DEF Kept
  <2>2. c2.mem[w] = c1.mem[w]
    BY <1>3, <1>4, <1>6, <1>8 DEF Kept
  <2> QED
    BY <1>3, <2>1, <2>2
<1>10. HdrOffset(c2, StrObj(b)) = at /\ WordAt(c2, at) = HDR + BARR + 1
  BY <1>3, <1>4, <1>9, StrHeader DEF HdrOffset, WordAt
<1>11. PICK word : word = ((HDR + BARR + 1) \div BARR) * BARR + 2
  OBVIOUS
<1>12. c = SetWord(c2, at, word)
  <2>1. c = ResizeArr(c2, StrObj(b), 2)
    BY <1>2, <1>3, <1>4, <1>5, <1>7 DEF WithStr
  <2> QED
    BY <1>10, <1>11, <2>1, StrHeader DEF ResizeArr
<1>13. IsBuf(c) /\ Kept(c2, c, {at \div 4}) /\ c.len = c2.len /\ c.mem[at \div 4] = word
  <2>1. IsBuf(c2) /\ at \in Nat /\ at < c2.len /\ c = SetWord(c2, at, word)
    BY <1>6, <1>8, <1>12
  <2> QED
    BY ONLY <2>1, SetWordTo
<1>14. HdrOffset(c, StrObj(b)) = at
  BY <1>3, <1>4, <1>11, <1>13, StrHeader DEF HdrOffset, WordAt
<1>15. Kept(b, c, {})
  <2>1. IsBuf(b)
    BY DEF GoodBuf
  <2>2. Kept(b, c1, {} \cup {})
    BY <1>3, <1>6, <2>1, KeptTwice
  <2>3. Kept(b, c2, ({} \cup {}) \cup {to \div 4})
    BY <1>8, <2>1, <2>2, KeptTwice
  <2>4. Kept(b, c, (({} \cup {}) \cup {to \div 4}) \cup {at \div 4})
    BY <1>13, <2>1, <2>3, KeptTwice
  <2>5. \A i \in (({} \cup {}) \cup {to \div 4}) \cup {at \div 4} : i \in Nat /\ 4 * i < b.len => i \in {}
    BY <1>3, <1>4
  <2> QED
    BY <2>4, <2>5, KeptBut
<1>16. GoodBuf(c, clean)
  <2>1. ASSUME clean PROVE Clear(c, w + 2)
    <3>1. w + 1 \in Int /\ w + 2 \in Nat /\ w + 1 <= w + 2 /\ c1.cap \in Nat /\ w + 1 < w + 2 /\ w < w + 2
      <4>1. w \in Nat /\ c1.cap \in Nat
        BY <1>3, <1>6 DEF IsBuf
      <4> QED
        BY ONLY <4>1
    <3>2. Clear(c1, w + 2)
      BY <1>6, <2>1, <3>1, ClearFrom
    <3>3. Clear(c2, w + 2)
      BY <1>4, <1>6, <1>7, <3>1, <3>2, SetWordClear
    <3> QED
      BY <1>4, <1>8, <1>12, <3>1, <3>3, SetWordClear
  <2>2. Words(c.len) + 1 \in Int /\ w + 2 <= Words(c.len) + 1 /\ w + 2 \in Int /\ c.cap \in Nat
    <3>1. c.len = 4 * w + 6 /\ c.cap \in Nat
      BY <1>4, <1>6, <1>8, <1>13 DEF IsBuf
    <3>2. Words(4 * w + 6) = w + 2
      BY <1>3 DEF Words
    <3> QED
      BY <1>3, <3>1, <3>2
  <2>3. clean => Clear(c, Words(c.len) + 1)
    BY <2>1, <2>2, ClearFrom
  <2> QED
    BY <1>13, <2>3 DEF GoodBuf
<1>17. word = HDR + BARR + 2
  <2>1. 1 < BARR
    BY MIsNat DEF BARR
  <2> QED
    BY <1>11, <2>1, BytesHeader
<1> QED
  BY <1>1, <1>3, <1>4, <1>6, <1>8, <1>13, <1>14, <1>15, <1>16, <1>17

\* What was allocated for an empty string is taken back.
LEMMA WithoutStrIs ==
    ASSUME NEW b, NEW clean, GoodBuf(b, clean), NEW c, c = WithoutStr(b)
    PROVE  GoodBuf(c, clean) /\ Kept(b, c, {}) /\ c.len = b.len
<1>1. PICK w : w = Words(b.len)
  OBVIOUS
<1>2. PICK c0 : c0 = AllocArr(b, 1, 1, 0)
  OBVIOUS
<1>3. /\ w \in Nat /\ Start(b) = 4 * w /\ StrObj(b).off = 4 * w + 4 /\ 4 * w >= b.len /\ b.len \in Nat
      /\ IsBuf(c0) /\ Kept(b, c0, {}) /\ c0.len = 4 * w + 5 /\ c0.mem[w] = HDR + BARR + 1
      /\ clean => Clear(c0, w + 1)
  BY <1>1, <1>2, StrBegun
<1>4. PICK to \in Nat : to = 4 * w + 4 /\ to \div 4 = w + 1
  BY <1>3
<1>5. PICK c1 : c1 = SetWord(c0, to, 0)
  OBVIOUS
<1>6. PICK zero : zero = 0
  OBVIOUS
<1>7. IsBuf(c1) /\ Kept(c0, c1, {to \div 4}) /\ c1.len = c0.len /\ c1.mem[to \div 4] = zero
  <2>1. IsBuf(c0) /\ to \in Nat /\ to < c0.len /\ c1 = SetWord(c0, to, zero)
    BY <1>3, <1>4, <1>5, <1>6
  <2> QED
    BY ONLY <2>1, SetWordTo
<1>8. clean => Clear(c1, w + 1)
  <2>1. w + 1 \in Nat
    BY <1>3
  <2> QED
    BY <1>3, <1>5, <2>1, SetZeroClear
<1>9. c = [c1 EXCEPT !.len = b.len]
  BY <1>2, <1>3, <1>4, <1>5 DEF WithoutStr
<1>10. PICK len \in Nat : len = b.len /\ len <= c1.len
  <2>1. b.len <= 4 * w + 5
    BY <1>3
  <2> QED
    BY <1>3, <1>7, <2>1
<1>11. IsBuf(c) /\ c.mem = c1.mem /\ c.len = len /\ c.cap = c1.cap
  BY <1>7, <1>9, <1>10, ShortIs
<1>12. Kept(b, c, {})
  <2>1. IsBuf(b)
    BY DEF GoodBuf
  <2>2. Kept(b, c1, {} \cup {to \div 4})
    BY <1>3, <1>7, <2>1, KeptTwice
  <2>3. \A i \in {} \cup {to \div 4} : i \in Nat /\ 4 * i < b.len => i \in {}
    BY <1>3, <1>4
  <2>4. Kept(b, c1, {})
    BY <2>2, <2>3, KeptBut
  <2>5. b.len <= c.len
    BY <1>10, <1>11
  <2> QED
    BY <1>11, <2>4, <2>5, Zenon DEF Kept
<1>13. clean => Clear(c, Words(b.len) + 1)
  BY <1>1, <1>8, <1>11 DEF Clear
<1>14. GoodBuf(c, clean)
  BY <1>1, <1>10, <1>11, <1>13 DEF GoodBuf
<1> QED
  BY <1>10, <1>11, <1>12, <1>14

-----------------------------------------------------------------------------
(* What becomes of the frames *)

\* g is the frame of the message fr with another document.
SameMsg(fr, g) == IsMsg(g) /\ g.kind = "msg" /\ g.b = fr.b /\ g.o = fr.o

\* A message with another document
LEMMA DocIs ==
    ASSUME NEW fr, NEW d, NEW g, g = [kind |-> "msg", b |-> fr.b, o |-> fr.o, doc |-> d]
    PROVE  SameMsg(fr, g)
BY DEF IsMsg, SameMsg

\* What is known of every frame of a chain
LEMMA ChainIs ==
    ASSUME NEW st, NEW m \in Nat, Chain(st, m)
    PROVE  /\ Len(st) \in Nat /\ Len(st) >= 1 /\ Len(st) \in 1 .. Len(st) /\ IsSequence(st)
           /\ \A k \in 1 .. Len(st) :
                  /\ IsFrame(st[k]) /\ st[k].b \in Nat /\ st[k].b >= 1 /\ st[k].b <= m
                  /\ st[k].kind \in {"msg", "rep"}
           /\ Last(st) = st[Len(st)]
<1>1. Len(st) \in Nat /\ Len(st) >= 1 /\ IsSequence(st)
  BY DEF Chain, IsSequence
<1>2. \A k \in 1 .. Len(st) :
          /\ IsFrame(st[k]) /\ st[k].b \in Nat /\ st[k].b >= 1 /\ st[k].b <= m
  BY DEF Chain
<1>3. \A k \in 1 .. Len(st) : st[k].kind \in {"msg", "rep"}
  <2> SUFFICES ASSUME NEW k \in 1 .. Len(st), st[k].kind # "msg" PROVE st[k].kind = "rep"
    OBVIOUS
  <2>1. IsRep(st[k])
    BY <1>2 DEF IsFrame
  <2> QED
    BY <2>1 DEF IsRep
<1> QED
  BY <1>1, <1>2, <1>3 DEF Last

\* What lies on an array is built elsewhere, so that the array stays at the end.
LEMMA RepsBelow ==
    ASSUME NEW st, NEW m \in Nat, Chain(st, m), NEW k \in 1 .. Len(st), st[k].kind = "rep",
           k < Len(st) \/ NeedsBuf(st[k].f)
    PROVE  st[k].b < m
<1>1. PICK z \in Nat : z = Len(st) /\ z >= 1
  BY ChainIs
<1>2. PICK b \in Nat, c \in Nat : b = st[k].b /\ c = st[z].b /\ c <= m
  BY <1>1, ChainIs
<1>3. Home(st, z) = m
  BY <1>1 DEF Chain
<1>4. CASE k = z
  BY <1>1, <1>2, <1>3, <1>4 DEF Home
<1>5. CASE k = z - 1
  <2>1. Link(st, z) /\ z - 1 = k /\ z > 1
    BY <1>1, <1>5 DEF Chain
  <2>2. st[z].kind = "msg" /\ c = b
    BY <1>2, <2>1 DEF Link
  <2>3. m = c + 1
    BY <1>2, <1>3, <2>1, <2>2 DEF Home
  <2> QED
    BY <1>2, <2>2, <2>3
<1>6. CASE k < z - 1
  <2>1. z \in 1 .. Len(st) /\ k \in 1 .. z - 1 /\ z # k + 1
    BY <1>1, <1>6
  <2>2. b < c
    BY <1>2, <2>1 DEF Chain
  <2> QED
    BY <1>2, <2>2
<1> QED
  BY <1>1, <1>4, <1>5, <1>6

\* The innermost frame goes on.
LEMMA TopStep ==
    ASSUME NEW st, NEW m \in Nat, Chain(st, m), Apart(st), NEW z, z = Len(st),
           NEW g, IsFrame(g), g.kind = st[z].kind, g.b = st[z].b,
           g.kind = "msg" => g.o = st[z].o,
           g.kind = "rep" => g.f = st[z].f /\ g.first = st[z].first,
           NEW t, Differs(st, t, z, g)
    PROVE  Chain(t, m) /\ Apart(t)
<1>1. z \in Nat /\ z >= 1
  BY ChainIs
<1>2. IsSequence(t) /\ Len(t) = z /\ t[z] = g /\ \A k \in 1 .. z : k # z => t[k] = st[k]
  BY DEF Differs
<1>3. \A k \in 1 .. z :
          /\ IsFrame(t[k]) /\ t[k].kind = st[k].kind /\ t[k].b = st[k].b
          /\ t[k].kind = "msg" => t[k].o = st[k].o
          /\ t[k].kind = "rep" => t[k].f = st[k].f /\ t[k].first = st[k].first
  <2> SUFFICES ASSUME NEW k \in 1 .. z
               PROVE  /\ IsFrame(t[k]) /\ t[k].kind = st[k].kind /\ t[k].b = st[k].b
                      /\ t[k].kind = "msg" => t[k].o = st[k].o
                      /\ t[k].kind = "rep" => t[k].f = st[k].f /\ t[k].first = st[k].first
    OBVIOUS
  <2>1. CASE k = z
    BY <1>2, <2>1
  <2>2. CASE k # z
    BY <1>2, <2>2, ChainIs
  <2> QED
    BY <2>1, <2>2
<1>4. \A k \in 1 .. z : st[k].kind \in {"msg", "rep"}
  BY ChainIs
<1>5. \A k \in 1 .. z : Home(t, k) = Home(st, k)
  <2> SUFFICES ASSUME NEW k \in 1 .. z PROVE Home(t, k) = Home(st, k)
    OBVIOUS
  <2>1. k > 1 => k - 1 \in 1 .. z
    BY <1>1
  <2> QED
    BY <1>3, <2>1 DEF Home
<1>6. \A k \in 1 .. z : k > 1 => Link(t, k)
  <2> SUFFICES ASSUME NEW k \in 1 .. z, k > 1 PROVE Link(t, k)
    OBVIOUS
  <2>1. k - 1 \in 1 .. z /\ k - 1 # z
    BY <1>1
  <2>2. t[k - 1] = st[k - 1] /\ Home(t, k - 1) = Home(st, k - 1)
    BY <1>2, <1>5, <2>1
  <2>3. Link(st, k)
    BY DEF Chain
  <2> QED
    BY <1>3, <2>2, <2>3 DEF Link
<1>7. \A k \in 1 .. z : st[k].b \in 1 .. m
  BY DEF Chain
<1>8. st[1].kind = "msg" /\ st[1].b = 1 /\ 1 \in 1 .. z /\ Home(st, z) = m /\ z \in 1 .. z
  BY <1>1 DEF Chain
<1>9. \A k \in 1 .. z : \A j \in 1 .. k - 1 :
          /\ t[j].b <= t[k].b /\ (t[j].kind = "rep" /\ k # j + 1 => t[j].b < t[k].b)
          /\ t[j].kind = "msg" /\ t[k].kind = "rep" /\ t[j].b = t[k].b => t[k].first.off >= 12
  <2> SUFFICES ASSUME NEW k \in 1 .. z, NEW j \in 1 .. k - 1
               PROVE  /\ t[j].b <= t[k].b /\ (t[j].kind = "rep" /\ k # j + 1 => t[j].b < t[k].b)
                      /\ t[j].kind = "msg" /\ t[k].kind = "rep" /\ t[j].b = t[k].b => t[k].first.off >= 12
    OBVIOUS
  <2>1. j \in 1 .. z
    BY <1>1
  <2>2. st[j].b <= st[k].b /\ (st[j].kind = "rep" /\ k # j + 1 => st[j].b < st[k].b)
    BY DEF Chain
  <2>3. st[j].kind = "msg" /\ st[k].kind = "rep" /\ st[j].b = st[k].b => st[k].first.off >= 12
    BY DEF Apart
  <2> QED
    BY <1>3, <2>1, <2>2, <2>3
<1>10. Chain(t, m)
  BY <1>1, <1>2, <1>3, <1>5, <1>6, <1>7, <1>8, <1>9 DEF Chain
<1>11. Apart(t)
  BY <1>2, <1>9 DEF Apart
<1> QED
  BY <1>10, <1>11

\* The innermost frame is done.
LEMMA PopChain ==
    ASSUME NEW st, NEW m \in Nat, Chain(st, m), Apart(st), NEW z, z = Len(st), z >= 2,
           NEW t, t = Front(st), NEW home, home = Home(st, z - 1)
    PROVE  /\ Chain(t, home) /\ Apart(t) /\ Len(t) = z - 1
           /\ \A k \in 1 .. z - 1 : t[k] = st[k]
           /\ home = IF st[z].kind = "msg" THEN m ELSE st[z].b
           /\ st[z].kind = "rep" => st[z - 1].kind = "msg"
<1>1. PICK y \in Nat : y = z - 1 /\ y >= 1 /\ z = y + 1 /\ z \in Nat
  <2>1. Len(st) \in Nat
    BY DEF Chain, IsSequence
  <2>2. z \in Nat /\ z >= 2
    BY <2>1
  <2> QED
    BY ONLY <2>2
<1>2. IsSequence(t) /\ Len(t) = y /\ \A k \in 1 .. y : t[k] = st[k]
  <2>1. IsSequence(st) /\ Len(st) >= 1
    BY ChainIs
  <2>2. /\ IsSequence(Front(st)) /\ Len(Front(st)) = Len(st) - 1
        /\ \A j \in 1 .. Len(st) - 1 : Front(st)[j] = st[j]
    BY <2>1, FrontIs
  <2> QED
    BY <1>1, <2>2
<1>3. Link(st, z) /\ Home(st, z) = m /\ z \in 1 .. Len(st) /\ y \in 1 .. Len(st)
  BY <1>1 DEF Chain
<1>4. PICK b \in Nat, c \in Nat : b = st[y].b /\ c = st[z].b
  BY <1>3, ChainIs
<1>5. home = (IF st[z].kind = "msg" THEN m ELSE c) /\ (st[z].kind = "rep" => st[y].kind = "msg")
  <2>1. CASE st[y].kind = "rep"
    <3>1. st[z].kind = "msg" /\ c = b /\ st[y].f = "r"
      BY <1>1, <1>3, <1>4, <2>1 DEF Link
    <3>2. m = c + 1
      BY <1>1, <1>3, <1>4, <2>1, <3>1 DEF Home
    <3>3. home = b + 1
      BY <1>1, <1>4, <2>1, <3>1 DEF Home, NeedsBuf, ElemPsize, MsgPsize
    <3> QED
      BY <3>1, <3>2, <3>3
  <2>2. CASE st[y].kind # "rep"
    <3>1. c = home
      BY <1>1, <1>3, <1>4, <2>2 DEF Link
    <3>2. st[z].kind = "msg" => m = c
      BY <1>1, <1>3, <1>4, <2>2 DEF Home
    <3>3. st[y].kind = "msg"
      BY <1>3, <2>2, ChainIs
    <3>4. st[z].kind \in {"msg", "rep"}
      BY <1>3, ChainIs
    <3> QED
      BY <3>1, <3>2, <3>3, <3>4
  <2> QED
    BY <2>1, <2>2
<1>6. home \in Nat /\ b <= home
  <2>1. CASE st[y].kind = "rep"
    BY <1>1, <1>4, <2>1 DEF Home
  <2>2. CASE st[y].kind # "rep"
    BY <1>1, <1>4, <2>2 DEF Home
  <2> QED
    BY <2>1, <2>2
<1>7. \A k \in 1 .. y : Home(t, k) = Home(st, k) /\ (k > 1 => Link(t, k))
  <2> SUFFICES ASSUME NEW k \in 1 .. y
               PROVE  Home(t, k) = Home(st, k) /\ (k > 1 => Link(t, k))
    OBVIOUS
  <2>1. t[k] = st[k] /\ (k > 1 => t[k - 1] = st[k - 1] /\ k - 1 \in 1 .. y)
    BY <1>1, <1>2
  <2>2. Home(t, k) = Home(st, k)
    BY <2>1 DEF Home
  <2>3. k > 1 => Link(st, k)
    BY <1>1 DEF Chain
  <2>4. k > 1 => Home(t, k - 1) = Home(st, k - 1)
    <3> SUFFICES ASSUME k > 1 PROVE Home(t, k - 1) = Home(st, k - 1)
      OBVIOUS
    <3>1. PICK i \in 1 .. y : i = k - 1
      BY <2>1
    <3>2. t[i] = st[i] /\ (i > 1 => t[i - 1] = st[i - 1])
      BY <1>1, <1>2, <3>1
    <3> QED
      BY <3>1, <3>2 DEF Home
  <2> QED
    BY <2>1, <2>2, <2>3, <2>4 DEF Link
<1>8. \A k \in 1 .. y : IsFrame(t[k]) /\ t[k].b \in 1 .. home
  <2> SUFFICES ASSUME NEW k \in 1 .. y PROVE IsFrame(t[k]) /\ t[k].b \in 1 .. home
    OBVIOUS
  <2>1. IsFrame(st[k]) /\ st[k].b \in Nat /\ st[k].b >= 1
    BY <1>1, ChainIs
  <2>2. st[k].b <= b
    <3>1. CASE k = y
      BY <1>4, <2>1, <3>1
    <3>2. CASE k # y
      <4>1. k \in 1 .. y - 1
        BY <1>1, <3>2
      <4> QED
        BY <1>1, <1>3, <1>4, <4>1 DEF Chain
    <3> QED
      BY <3>1, <3>2
  <2> QED
    BY <1>2, <1>4, <1>6, <2>1, <2>2
<1>9. \A k \in 1 .. y : \A j \in 1 .. k - 1 :
          /\ t[j].b <= t[k].b /\ (t[j].kind = "rep" /\ k # j + 1 => t[j].b < t[k].b)
          /\ t[j].kind = "msg" /\ t[k].kind = "rep" /\ t[j].b = t[k].b => t[k].first.off >= 12
  <2> SUFFICES ASSUME NEW k \in 1 .. y, NEW j \in 1 .. k - 1
               PROVE  /\ t[j].b <= t[k].b /\ (t[j].kind = "rep" /\ k # j + 1 => t[j].b < t[k].b)
                      /\ t[j].kind = "msg" /\ t[k].kind = "rep" /\ t[j].b = t[k].b => t[k].first.off >= 12
    OBVIOUS
  <2>1. j \in 1 .. y /\ k \in 1 .. Len(st)
    BY <1>1
  <2>2. st[j].b <= st[k].b /\ (st[j].kind = "rep" /\ k # j + 1 => st[j].b < st[k].b)
    BY <2>1 DEF Chain
  <2>3. st[j].kind = "msg" /\ st[k].kind = "rep" /\ st[j].b = st[k].b => st[k].first.off >= 12
    BY <2>1 DEF Apart
  <2> QED
    BY <1>2, <2>1, <2>2, <2>3
<1>10. t[1].kind = "msg" /\ t[1].b = 1 /\ Home(t, y) = home
  <2>1. st[1].kind = "msg" /\ st[1].b = 1 /\ 1 \in 1 .. y /\ y \in 1 .. y
    BY <1>1 DEF Chain
  <2>2. home = Home(st, y)
    BY <1>1
  <2> QED
    BY <1>2, <1>7, <2>1, <2>2
<1>11. Chain(t, home)
  BY <1>1, <1>2, <1>7, <1>8, <1>9, <1>10 DEF Chain
<1>12. Apart(t)
  BY <1>1, <1>2, <1>9 DEF Apart
<1> QED
  BY <1>1, <1>2, <1>4, <1>5, <1>11, <1>12

\* t is st, whose last buffer is m, with the frame fr, which goes on in buffer home.
Pushed(st, m, fr, t, home) ==
    LET z == Len(st)
    IN  /\ m \in Nat /\ Chain(st, m) /\ Apart(st) /\ IsFrame(fr) /\ t = Append(st, fr)
        /\ IF st[z].kind = "rep"
           THEN fr.kind = "msg" /\ fr.b = st[z].b /\ st[z].f = "r" /\ fr.o = st[z].it
           ELSE fr.b = m
        /\ fr.kind = "rep" =>
               \A j \in 1 .. z : st[j].kind = "msg" /\ st[j].b = fr.b => fr.first.off >= 12
        /\ home = IF fr.kind = "rep" THEN fr.b + (IF NeedsBuf(fr.f) THEN 1 ELSE 0) ELSE m

\* A frame is put on the innermost one.
LEMMA PushChain ==
    ASSUME NEW st, NEW m, NEW fr, NEW t, NEW home, Pushed(st, m, fr, t, home), NEW z, z = Len(st)
    PROVE  Chain(t, home) /\ Apart(t) /\ Len(t) = z + 1 /\ t[z + 1] = fr /\ \A k \in 1 .. z : t[k] = st[k]
<1> SUFFICES ASSUME m \in Nat, Chain(st, m), Apart(st), IsFrame(fr),
                    IF st[z].kind = "rep"
                    THEN fr.kind = "msg" /\ fr.b = st[z].b /\ st[z].f = "r" /\ fr.o = st[z].it
                    ELSE fr.b = m,
                    fr.kind = "rep" =>
                        \A j \in 1 .. z : st[j].kind = "msg" /\ st[j].b = fr.b => fr.first.off >= 12,
                    t = Append(st, fr),
                    home = IF fr.kind = "rep" THEN fr.b + (IF NeedsBuf(fr.f) THEN 1 ELSE 0) ELSE m
             PROVE  /\ Chain(t, home) /\ Apart(t) /\ Len(t) = z + 1 /\ t[z + 1] = fr
                    /\ \A k \in 1 .. z : t[k] = st[k]
  BY DEF Pushed
<1>1. z \in Nat /\ z >= 1 /\ IsSequence(st) /\ z \in 1 .. z
  BY ChainIs
<1>2. PICK y \in Nat : y = z + 1 /\ y - 1 = z /\ y > 1
  BY <1>1
<1>3. IsSequence(t) /\ Len(t) = y /\ t[y] = fr /\ \A k \in 1 .. z : t[k] = st[k]
  <2>1. /\ IsSequence(Append(st, fr)) /\ Len(Append(st, fr)) = Len(st) + 1
        /\ Append(st, fr)[Len(st) + 1] = fr
        /\ \A j \in 1 .. Len(st) : Append(st, fr)[j] = st[j]
    BY <1>1, AppendIs
  <2> QED
    BY <1>2, <2>1
<1>4. PICK b \in Nat : b = st[z].b /\ b >= 1 /\ b <= m
  BY <1>1, ChainIs
<1>5. st[z].kind \in {"msg", "rep"} /\ Home(st, z) = m
  BY <1>1, ChainIs DEF Chain
<1>6. PICK c \in Nat : c = fr.b /\ c >= 1 /\ b <= c /\ c <= m
  BY <1>4
<1>7. fr.kind \in {"msg", "rep"} /\ (fr.kind = "rep" => c = m)
  <2>1. fr.kind # "msg" => IsRep(fr)
    BY DEF IsFrame
  <2>2. fr.kind # "msg" => fr.kind = "rep"
    BY <2>1 DEF IsRep
  <2> QED
    BY <1>5, <1>6, <2>2
<1>8. \A k \in 1 .. z : Home(t, k) = Home(st, k) /\ (k > 1 => Link(t, k))
  <2> SUFFICES ASSUME NEW k \in 1 .. z
               PROVE  Home(t, k) = Home(st, k) /\ (k > 1 => Link(t, k))
    OBVIOUS
  <2>1. t[k] = st[k] /\ (k > 1 => t[k - 1] = st[k - 1] /\ k - 1 \in 1 .. z)
    BY <1>1, <1>3
  <2>2. Home(t, k) = Home(st, k)
    BY <2>1 DEF Home
  <2>3. k > 1 => Link(st, k)
    BY DEF Chain
  <2>4. k > 1 => Home(t, k - 1) = Home(st, k - 1)
    <3> SUFFICES ASSUME k > 1 PROVE Home(t, k - 1) = Home(st, k - 1)
      OBVIOUS
    <3>1. PICK i \in 1 .. z : i = k - 1
      BY <2>1
    <3>2. t[i] = st[i] /\ (i > 1 => t[i - 1] = st[i - 1])
      BY <1>1, <1>3, <3>1
    <3> QED
      BY <3>1, <3>2 DEF Home
  <2> QED
    BY <2>1, <2>2, <2>3, <2>4 DEF Link
<1>9. Link(t, y)
  <2>1. t[z] = st[z] /\ Home(t, z) = m
    BY <1>1, <1>3, <1>5, <1>8
  <2>2. CASE st[z].kind = "rep"
    BY <1>2, <1>3, <2>1, <2>2 DEF Link
  <2>3. CASE st[z].kind # "rep"
    BY <1>2, <1>3, <2>1, <2>3 DEF Link
  <2> QED
    BY <2>2, <2>3
<1>10. Home(t, y) = home
  <2>1. t[z] = st[z]
    BY <1>1, <1>3
  <2>2. CASE fr.kind = "rep"
    BY <1>2, <1>3, <2>2 DEF Home
  <2>3. CASE fr.kind = "msg" /\ st[z].kind = "rep"
    <3>1. m = b + 1
      BY <1>4, <1>5, <2>3 DEF Home, NeedsBuf, ElemPsize, MsgPsize
    <3> QED
      BY <1>2, <1>3, <1>4, <2>1, <2>3, <3>1 DEF Home
  <2>4. CASE fr.kind = "msg" /\ st[z].kind # "rep"
    BY <1>2, <1>3, <2>1, <2>4 DEF Home
  <2> QED
    BY <1>7, <2>2, <2>3, <2>4
<1>11. home \in Nat /\ home >= m
  BY <1>6, <1>7
<1>12. \A k \in 1 .. y : IsFrame(t[k]) /\ t[k].b \in 1 .. home
  <2> SUFFICES ASSUME NEW k \in 1 .. y PROVE IsFrame(t[k]) /\ t[k].b \in 1 .. home
    OBVIOUS
  <2>1. CASE k = y
    BY <1>3, <1>6, <1>11, <2>1
  <2>2. CASE k # y
    <3>1. k \in 1 .. z
      BY <1>1, <1>2, <2>2
    <3>2. IsFrame(st[k]) /\ st[k].b \in Nat /\ st[k].b >= 1 /\ st[k].b <= m
      BY <3>1, ChainIs
    <3> QED
      BY <1>3, <1>11, <3>1, <3>2
  <2> QED
    BY <2>1, <2>2
<1>13. \A k \in 1 .. y : \A j \in 1 .. k - 1 :
          /\ t[j].b <= t[k].b /\ (t[j].kind = "rep" /\ k # j + 1 => t[j].b < t[k].b)
          /\ t[j].kind = "msg" /\ t[k].kind = "rep" /\ t[j].b = t[k].b => t[k].first.off >= 12
  <2> SUFFICES ASSUME NEW k \in 1 .. y, NEW j \in 1 .. k - 1
               PROVE  /\ t[j].b <= t[k].b /\ (t[j].kind = "rep" /\ k # j + 1 => t[j].b < t[k].b)
                      /\ t[j].kind = "msg" /\ t[k].kind = "rep" /\ t[j].b = t[k].b => t[k].first.off >= 12
    OBVIOUS
  <2>1. j \in 1 .. z /\ t[j] = st[j]
    BY <1>1, <1>2, <1>3
  <2>2. CASE k = y
    <3>1. st[j].b \in Nat /\ st[j].b <= b
      <4>1. CASE j = z
        BY <1>4, <4>1
      <4>2. CASE j # z
        <5>1. j \in 1 .. z - 1
          BY <1>1, <2>1, <4>2
        <5>2. st[j].b <= st[z].b
          BY <1>1, <5>1 DEF Chain
        <5> QED
          BY <1>4, <2>1, <5>2, ChainIs
      <4> QED
        BY <4>1, <4>2
    <3>2. st[j].kind = "rep" /\ j # z => st[j].b < c
      <4> SUFFICES ASSUME st[j].kind = "rep", j # z PROVE st[j].b < c
        OBVIOUS
      <4>1. j \in 1 .. z - 1
        BY <1>1, <2>1
      <4>2. CASE j = z - 1
        <5>1. Link(st, z) /\ z > 1
          BY <1>1, <4>1 DEF Chain
        <5>2. st[z].kind = "msg" /\ st[z].b = st[j].b
          BY <4>2, <5>1 DEF Link
        <5>3. m = b + 1
          BY <1>4, <1>5, <4>2, <5>1, <5>2 DEF Home
        <5> QED
          BY <1>4, <1>6, <5>2, <5>3
      <4>3. CASE j # z - 1
        <5>1. st[j].b < st[z].b
          BY <1>1, <4>1, <4>3 DEF Chain
        <5> QED
          BY <1>4, <1>6, <3>1, <5>1
      <4> QED
        BY <4>2, <4>3
    <3> QED
      BY <1>2, <1>3, <1>6, <2>1, <2>2, <3>1, <3>2
  <2>3. CASE k # y
    <3>1. k \in 1 .. z /\ t[k] = st[k]
      BY <1>1, <1>2, <1>3, <2>3
    <3>2. st[j].b <= st[k].b /\ (st[j].kind = "rep" /\ k # j + 1 => st[j].b < st[k].b)
      BY <3>1 DEF Chain
    <3>3. st[j].kind = "msg" /\ st[k].kind = "rep" /\ st[j].b = st[k].b => st[k].first.off >= 12
      BY <3>1 DEF Apart
    <3> QED
      BY <2>1, <3>1, <3>2, <3>3
  <2> QED
    BY <2>2, <2>3
<1>14. t[1].kind = "msg" /\ t[1].b = 1
  <2>1. st[1].kind = "msg" /\ st[1].b = 1 /\ 1 \in 1 .. z
    BY <1>1 DEF Chain
  <2> QED
    BY <1>3, <2>1
<1>15. Chain(t, home)
  <2>1. \A k \in 1 .. y : k > 1 => Link(t, k)
    <3> SUFFICES ASSUME NEW k \in 1 .. y, k > 1 PROVE Link(t, k)
      OBVIOUS
    <3>1. k = y \/ k \in 1 .. z
      BY <1>1, <1>2
    <3> QED
      BY <1>8, <1>9, <3>1
  <2> QED
    BY <1>2, <1>3, <1>10, <1>12, <1>13, <1>14, <2>1, SMTT(30) DEF Chain
<1>16. Apart(t)
  BY <1>3, <1>13 DEF Apart
<1> QED
  BY <1>2, <1>3, <1>15, <1>16

-----------------------------------------------------------------------------
(* What becomes of the objects and arrays of the frames *)

\* A message stays where it is while its buffer keeps the header.
LEMMA MsgKept ==
    ASSUME NEW b, NEW o, MsgIn(b, o), NEW c, NEW S, Kept(b, c, S), o.off >= 8 \/ 0 \notin S, b.len \in Nat
    PROVE  MsgIn(c, o)
<1>1. b.len <= c.len /\ c.len \in Nat /\ o.off \in Nat /\ o.off + 24 <= b.len /\ o.off >= 4
  BY DEF Kept, IsBuf, MsgIn
<1>2. 0 \notin S => c.mem[0] = b.mem[0]
  <2> SUFFICES ASSUME 0 \notin S PROVE c.mem[0] = b.mem[0]
    OBVIOUS
  <2>1. 0 \in Nat \ S /\ 4 * 0 < b.len
    BY <1>1
  <2> QED
    BY <2>1, Zenon DEF Kept
<1>3. o.off + 24 <= c.len
  BY <1>1
<1> QED
  BY <1>2, <1>3 DEF MsgIn

\* An array stays where it is while its buffer keeps the header.
LEMMA ArrKeptIn ==
    ASSUME NEW b, IsBuf(b), NEW fr, NEW m, ArrIn(b, fr, m), NEW c, NEW S, Kept(b, c, S),
           c.len = b.len, fr.first.off \div 4 - 1 \notin S
    PROVE  ArrIn(c, fr, m)
<1>1. IsArr(c, fr.first)
  <2>1. IsArr(b, fr.first)
    BY DEF ArrIn
  <2> QED
    BY <2>1, ArrKept
<1> QED
  BY <1>1 DEF ArrIn, AtEnd

\* An array in use: what the lemmas about arrays ask for
LEMMA ArrInIs ==
    ASSUME NEW b, IsBuf(b), NEW fr, NEW m, ArrIn(b, fr, m)
    PROVE  /\ IsArr(b, fr.first) /\ IsFirst(fr.first) /\ fr.first.off \in Nat /\ fr.first.off >= 8
           /\ b.len \in Nat /\ fr.first.off + m * ObjSize(fr.first) = b.len
           /\ fr.first.off + m * ObjSize(fr.first) <= b.len
           /\ fr.it = Element(fr.first, Len(fr.items) + 1)
           /\ fr.first.ssize = ElemSsize(fr.f) /\ fr.first.psize = ElemPsize(fr.f)
<1>1. b.len \in Nat /\ fr.first.off + m * ObjSize(fr.first) = b.len
  BY DEF ArrIn, AtEnd, IsBuf
<1>2. fr.first.off + m * ObjSize(fr.first) <= b.len
  <2>1. PICK x \in Nat : x = b.len
    BY <1>1
  <2> QED
    BY <1>1, <2>1
<1> QED
  BY <1>1, <1>2 DEF ArrIn, IsArr, IsFirst

\* A frame does not notice what happens in other buffers, if they only grow.
LEMMA FrameSame ==
    ASSUME NEW bs, NEW cs, NEW fr, IsFrame(fr), NEW m, fr.kind = "rep" => m \in Nat, NEW clean,
           FrameIn(bs, fr, m, clean), IsBuf(bs[fr.b]), cs[fr.b] = bs[fr.b],
           fr.kind = "rep" /\ NeedsBuf(fr.f) =>
               IsBuf(bs[fr.b + 1]) /\ IsBuf(cs[fr.b + 1]) /\ bs[fr.b + 1].len <= cs[fr.b + 1].len
    PROVE  FrameIn(cs, fr, m, clean)
<1>1. CASE fr.kind = "msg"
  BY <1>1 DEF FrameIn
<1>2. CASE fr.kind # "msg"
  <2>1. fr.kind = "rep"
    BY <1>2 DEF IsFrame, IsRep
  <2>2. ArrIn(bs[fr.b], fr, m)
    BY <1>2 DEF FrameIn
  <2>3. ASSUME clean, fr.first.psize > 0
        PROVE  PtrsTo(cs[fr.b], fr.first, m, cs[fr.b + 1].len)
    <3>1. NeedsBuf(fr.f)
      BY <2>2, <2>3 DEF ArrIn, NeedsBuf
    <3>2. bs[fr.b + 1].len \in Nat /\ cs[fr.b + 1].len \in Nat /\ bs[fr.b + 1].len <= cs[fr.b + 1].len
      BY <2>1, <3>1 DEF IsBuf
    <3>3. PtrsTo(bs[fr.b], fr.first, m, bs[fr.b + 1].len)
      BY <1>2, <2>3 DEF FrameIn, ArrClean
    <3>4. IsFirst(fr.first) /\ fr.first.off + m * ObjSize(fr.first) <= bs[fr.b].len
      BY <2>2, ArrInIs
    <3>5. Kept(bs[fr.b], bs[fr.b], {})
      BY KeptItself
    <3>6. PtrsTo(bs[fr.b], fr.first, m, cs[fr.b + 1].len)
      BY <2>1, <3>2, <3>3, <3>4, <3>5, PtrsKept
    <3> QED
      BY <3>6
  <2>4. clean => ArrClean(cs, fr, m)
    BY <1>2, <2>3 DEF ArrClean, FrameIn
  <2> QED
    BY <1>2, <2>2, <2>4 DEF FrameIn
<1> QED
  BY <1>1, <1>2

\* The elements begun of an array are those complete, and perhaps one more.
LEMMA StartedIs ==
    ASSUME NEW st, NEW val, NEW k, IsFrame(st[k]), st[k].kind = "rep"
    PROVE  Started(st, val, k) \in Nat
<1>1. Len(st[k].items) \in Nat
  BY DEF IsFrame, IsRep, IsSequence
<1>2. PICK d : d = IF k < Len(st) \/ val THEN 1 ELSE 0
  OBVIOUS
<1>3. d = 0 \/ d = 1
  BY <1>2, Zenon
<1>4. Started(st, val, k) = Len(st[k].items) + d
  BY <1>2, Zenon DEF Started
<1> QED
  BY <1>1, <1>3, <1>4

\* Below the innermost frame, an element is begun in each array.
LEMMA StartedBelow ==
    ASSUME NEW st, NEW val, NEW k, k < Len(st) \/ val
    PROVE  Started(st, val, k) = Len(st[k].items) + 1
BY Zenon DEF Started

\* In the innermost array one is, if its value is the token ahead.
LEMMA StartedTop ==
    ASSUME NEW st, NEW val, NEW k, ~(k < Len(st)), ~val
    PROVE  Started(st, val, k) = Len(st[k].items) + 0
BY Zenon DEF Started

\* One buffer changes, and the frames on it are in order.
LEMMA BufferStep ==
    ASSUME NEW bs, NEW st, NEW val, NEW clean, Under(bs, st, val, clean),
           NEW i \in 1 .. Len(bs), NEW c, GoodBuf(c, clean), bs[i].len <= c.len,
           NEW cs, Differs(bs, cs, i, c), NEW late,
           late = val \/ st[Len(st)].kind = "msg" \/ st[Len(st)].b = i,
           \A k \in 1 .. Len(st) : st[k].b = i => FrameIn(cs, st[k], Started(st, late, k), clean)
    PROVE  Under(cs, st, late, clean)
<1>1. PICK m \in Nat : m = Len(bs)
  BY DEF Under, Memory, IsSequence
<1>2. Chain(st, m) /\ Apart(st)
  BY <1>1 DEF Under
<1>3. IsSequence(cs) /\ Len(cs) = m /\ cs[i] = c /\ \A j \in 1 .. m : j # i => cs[j] = bs[j]
  BY <1>1 DEF Differs
<1>4. \A j \in 1 .. m : GoodBuf(bs[j], clean)
  BY <1>1 DEF Under, Memory
<1>5. \A j \in 1 .. m : GoodBuf(cs[j], clean)
  BY <1>3, <1>4
<1>6. \A j \in 1 .. m : IsBuf(bs[j]) /\ IsBuf(cs[j]) /\ bs[j].len \in Nat /\ cs[j].len \in Nat /\ bs[j].len <= cs[j].len
  <2> SUFFICES ASSUME NEW j \in 1 .. m
               PROVE  IsBuf(bs[j]) /\ IsBuf(cs[j]) /\ bs[j].len \in Nat /\ cs[j].len \in Nat /\ bs[j].len <= cs[j].len
    OBVIOUS
  <2>1. IsBuf(bs[j]) /\ IsBuf(cs[j]) /\ bs[j].len \in Nat /\ cs[j].len \in Nat
    BY <1>4, <1>5 DEF GoodBuf, IsBuf
  <2>2. bs[j].len <= cs[j].len
    BY <1>3, <2>1
  <2> QED
    BY <2>1, <2>2
<1>7. ASSUME NEW k \in 1 .. Len(st), st[k].b # i
      PROVE  FrameIn(cs, st[k], Started(st, late, k), clean)
  <2>1. /\ IsFrame(st[k]) /\ st[k].b \in 1 .. m /\ st[k].kind \in {"msg", "rep"}
        /\ FrameIn(bs, st[k], Started(st, val, k), clean)
    BY <1>2, ChainIs DEF Under, Memory
  <2>2. cs[st[k].b] = bs[st[k].b] /\ IsBuf(bs[st[k].b])
    BY <1>3, <1>6, <1>7, <2>1
  <2>3. CASE st[k].kind = "msg"
    BY <2>1, <2>2, <2>3 DEF FrameIn
  <2>4. CASE st[k].kind = "rep"
    <3>1. Started(st, late, k) = Started(st, val, k) /\ Started(st, val, k) \in Nat
      <4>1. Started(st, val, k) \in Nat
        BY <2>1, <2>4, StartedIs
      <4>2. k < Len(st) \/ k = Len(st)
        BY <1>2, ChainIs
      <4>3. CASE k < Len(st)
        BY <4>1, <4>3, Zenon DEF Started
      <4>4. CASE ~(k < Len(st))
        <5>1. late = val
          BY <1>7, <2>4, <4>2, <4>4
        <5> QED
          BY <4>1, <5>1
      <4> QED
        BY <4>3, <4>4
    <3>2. NeedsBuf(st[k].f) => IsBuf(bs[st[k].b + 1]) /\ IsBuf(cs[st[k].b + 1])
                               /\ bs[st[k].b + 1].len <= cs[st[k].b + 1].len
      <4> SUFFICES ASSUME NeedsBuf(st[k].f)
                   PROVE  IsBuf(bs[st[k].b + 1]) /\ IsBuf(cs[st[k].b + 1])
                          /\ bs[st[k].b + 1].len <= cs[st[k].b + 1].len
        OBVIOUS
      <4>1. st[k].b < m
        BY <1>2, <2>4, RepsBelow
      <4>2. st[k].b + 1 \in 1 .. m
        BY <2>1, <4>1
      <4> QED
        BY <1>6, <4>2
    <3> QED
      BY <2>1, <2>2, <3>1, <3>2, FrameSame
  <2> QED
    BY <2>1, <2>3, <2>4
<1>8. \A k \in 1 .. Len(st) : FrameIn(cs, st[k], Started(st, late, k), clean)
  BY <1>7
<1>9. Memory(cs, st, late, clean)
  BY <1>3, <1>5, <1>8 DEF Memory
<1> QED
  BY <1>2, <1>3, <1>9 DEF Under

\* An array in the buffer of the innermost frame is that frame, or has it as its element.
LEMMA OnTop ==
    ASSUME NEW st, NEW m \in Nat, Chain(st, m), NEW z, z = Len(st), NEW k \in 1 .. z,
           st[k].kind = "rep", st[k].b = st[z].b
    PROVE  \/ k = z
           \/ /\ k = z - 1 /\ z > 1 /\ st[z].kind = "msg"
              /\ st[z].o = st[k].it /\ st[k].f = "r"
<1>1. z \in Nat /\ z >= 1 /\ z \in 1 .. Len(st) /\ st[z].b \in Nat
  BY ChainIs
<1>2. CASE k < z - 1
  <2>1. k \in 1 .. z - 1 /\ z # k + 1
    BY <1>1, <1>2
  <2>2. st[k].b < st[z].b
    BY <1>1, <2>1 DEF Chain
  <2> QED
    BY <1>1, <2>2
<1>3. CASE k = z - 1
  <2>1. z > 1 /\ z - 1 = k
    BY <1>1, <1>3
  <2>2. Link(st, z)
    BY <1>1, <2>1 DEF Chain
  <2> QED
    BY <2>1, <2>2 DEF Link
<1>4. k = z \/ k = z - 1 \/ k < z - 1
  BY <1>1
<1> QED
  BY <1>2, <1>3, <1>4

\* What lies behind the pointers of the last element is none of them.
LEMMA NotAPointer ==
    ASSUME NEW o, IsFirst(o), NEW j \in Nat, NEW e, e = Element(o, j + 1),
           NEW off \in Nat, off >= e.off + 4 * o.psize
    PROVE  off \notin Pointers(o, j + 1)
<1>1. /\ e.off \in Nat /\ e.off = o.off + j * ObjSize(o) /\ o.psize \in Nat
      /\ \A q \in Pointers(o, j) : q \div 4 < e.off \div 4
  <2>1. IsFirst(o) /\ j \in Nat /\ e = Element(o, j + 1)
    OBVIOUS
  <2>2. /\ e.off \in Nat /\ e.off = o.off + j * ObjSize(o)
        /\ \A q \in Pointers(o, j) : q \div 4 < e.off \div 4
    BY ONLY <2>1, ElementIs
  <2> QED
    BY <2>2 DEF IsFirst
<1>2. Pointers(o, j + 1) = Pointers(o, j) \cup {o.off + j * ObjSize(o) + 4 * i : i \in 0 .. o.psize - 1}
  BY PointersMore
<1>3. off \notin Pointers(o, j)
  <2>1. off \div 4 >= e.off \div 4
    BY <1>1
  <2> QED
    BY <1>1, <2>1
<1>4. off \notin {o.off + j * ObjSize(o) + 4 * i : i \in 0 .. o.psize - 1}
  <2> SUFFICES ASSUME NEW i \in 0 .. o.psize - 1, off = o.off + j * ObjSize(o) + 4 * i PROVE FALSE
    OBVIOUS
  <2>1. off = e.off + 4 * i
    BY <1>1
  <2> QED
    BY <1>1, <2>1
<1> QED
  BY <1>2, <1>3, <1>4

\* What an element of an array points to is in the next buffer.
LEMMA NextBuf ==
    ASSUME NEW bs, NEW st, NEW val, NEW clean, Under(bs, st, val, clean), NEW k \in 1 .. Len(st),
           st[k].kind = "rep", k < Len(st) \/ NeedsBuf(st[k].f)
    PROVE  st[k].b + 1 \in 1 .. Len(bs) /\ st[k].b \in 1 .. Len(bs) /\ st[k].b + 1 # st[k].b
<1>1. PICK m \in Nat : m = Len(bs)
  BY DEF Under, Memory, IsSequence
<1>2. Chain(st, m)
  BY <1>1 DEF Under
<1>3. st[k].b < m
  BY <1>2, RepsBelow
<1>4. st[k].b \in Nat /\ st[k].b >= 1
  BY <1>2, ChainIs
<1> QED
  BY <1>1, <1>3, <1>4

\* The innermost message gets a scalar or a pointer.
LEMMA TopStore ==
    ASSUME NEW bs, NEW st, NEW val, NEW clean, Under(bs, st, val, clean),
           NEW z, z = Len(st), NEW fr, fr = st[z], fr.kind = "msg", NEW i \in 0 .. 5, NEW w,
           clean /\ z > 1 /\ st[z - 1].kind = "rep" /\ i < 5 => PtrTo(w, bs[fr.b + 1].len),
           NEW c, c = SetWord(bs[fr.b], fr.o.off + 4 * i, w), NEW cs, Differs(bs, cs, fr.b, c)
    PROVE  Under(cs, st, val, clean)
<1>1. PICK m \in Nat : m = Len(bs)
  BY DEF Under, Memory, IsSequence
<1>2. Chain(st, m)
  BY <1>1 DEF Under
<1>3. z \in Nat /\ z >= 1 /\ z \in 1 .. z /\ IsFrame(fr) /\ fr.b \in 1 .. m
  BY <1>2, ChainIs
<1>4. PICK b : b = bs[fr.b]
  OBVIOUS
<1>5. GoodBuf(b, clean) /\ IsBuf(b) /\ b.len \in Nat /\ MsgIn(b, fr.o)
  <2>1. GoodBuf(b, clean)
    BY <1>1, <1>3, <1>4 DEF Under, Memory
  <2>2. FrameIn(bs, fr, Started(st, val, z), clean)
    BY <1>3 DEF Under, Memory
  <2> QED
    BY <1>4, <2>1, <2>2 DEF GoodBuf, IsBuf, FrameIn
<1>6. PICK off \in Nat : off = fr.o.off + 4 * i /\ off % 4 = 0 /\ off >= 4 /\ off + 4 <= b.len
                         /\ off < b.len /\ off \div 4 # 0
  <2>1. PICK o \in Nat : o = fr.o.off /\ o % 4 = 0 /\ o >= 4 /\ o + 24 <= b.len
    BY <1>5 DEF MsgIn
  <2>2. PICK x \in Nat : o = 4 * x /\ x >= 1
    BY <2>1
  <2>3. PICK len \in Nat : len = b.len
    BY <1>5
  <2>4. /\ 4 * (x + i) \in Nat /\ (4 * (x + i)) % 4 = 0 /\ 4 * (x + i) >= 4
        /\ (4 * (x + i)) \div 4 = x + i /\ x + i # 0
    BY <2>2
  <2>5. 4 * (x + i) = o + 4 * i /\ 4 * (x + i) + 4 <= len /\ 4 * (x + i) < len
    BY <2>1, <2>2, <2>3
  <2> QED
    BY <2>1, <2>3, <2>4, <2>5
<1>7. IsBuf(c) /\ Kept(b, c, {off \div 4}) /\ c.len = b.len /\ c.mem[off \div 4] = w
  <2>1. IsBuf(b) /\ off \in Nat /\ off < b.len /\ c = SetWord(b, off, w)
    BY <1>4, <1>5, <1>6
  <2> QED
    BY ONLY <2>1, SetWordTo
<1>8. GoodBuf(c, clean)
  <2>1. Words(b.len) + 1 \in Nat /\ off \div 4 < Words(b.len) + 1
    BY <1>5, <1>6 DEF Words
  <2>2. ASSUME clean PROVE Clear(c, Words(b.len) + 1)
    <3>1. Clear(b, Words(b.len) + 1)
      BY <1>5, <2>2 DEF GoodBuf
    <3>2. c = SetWord(b, off, w)
      BY <1>4, <1>6
    <3> QED
      BY <1>5, <2>1, <3>1, <3>2, SetWordClear
  <2> QED
    BY <1>7, <2>2 DEF GoodBuf
<1>9. IsSequence(cs) /\ Len(cs) = m /\ cs[fr.b] = c /\ \A j \in 1 .. m : j # fr.b => cs[j] = bs[j]
  BY <1>1 DEF Differs
<1>10. ASSUME NEW k \in 1 .. z, st[k].b = fr.b
       PROVE  FrameIn(cs, st[k], Started(st, val, k), clean)
  <2>1. st[k].kind \in {"msg", "rep"} /\ FrameIn(bs, st[k], Started(st, val, k), clean) /\ IsFrame(st[k])
    BY <1>2, ChainIs DEF Under, Memory
  <2>2. CASE st[k].kind = "msg"
    <3>1. MsgIn(b, st[k].o)
      BY <1>4, <1>10, <2>1, <2>2 DEF FrameIn
    <3>2. 0 \notin {off \div 4}
      BY <1>6
    <3>3. MsgIn(c, st[k].o)
      BY <1>5, <1>7, <3>1, <3>2, MsgKept
    <3> QED
      BY <1>9, <1>10, <2>2, <3>3 DEF FrameIn
  <2>3. CASE st[k].kind = "rep"
    <3>1. k = z - 1 /\ z > 1 /\ fr.o = st[k].it /\ st[k].f = "r"
      <4>1. st[k].b = st[z].b
        BY <1>10
      <4>2. \/ k = z
            \/ /\ k = z - 1 /\ z > 1 /\ st[z].kind = "msg"
               /\ st[z].o = st[k].it /\ st[k].f = "r"
        BY <1>2, <2>3, <4>1, OnTop
      <4> QED
        BY <2>3, <4>2
    <3>2. PICK g : g = st[k]
      OBVIOUS
    <3>3. PICK j \in Nat : j = Len(g.items)
      BY <2>1, <2>3, <3>2 DEF IsFrame, IsRep, IsSequence
    <3>4. Started(st, val, k) = j + 1
      <4>1. k < Len(st)
        BY <1>3, <3>1
      <4> QED
        BY <3>2, <3>3, <4>1, StartedBelow
    <3>5. ArrIn(b, g, j + 1) /\ (clean => ArrClean(bs, g, j + 1))
      BY <1>4, <1>10, <2>1, <2>3, <3>2, <3>4 DEF FrameIn
    <3>6. /\ IsFirst(g.first) /\ g.first.off \in Nat /\ g.first.off >= 8
          /\ g.first.off + (j + 1) * ObjSize(g.first) <= b.len
          /\ g.it = Element(g.first, j + 1) /\ g.first.psize = 5
      BY <1>5, <3>1, <3>2, <3>3, <3>5, ArrInIs DEF ElemPsize, MsgPsize
    <3>7. g.it.off \in Nat /\ g.it.off >= g.first.off
      <4>1. IsFirst(g.first) /\ j \in Nat /\ g.it = Element(g.first, j + 1)
        BY <3>3, <3>6
      <4> QED
        BY ONLY <4>1, ElementIs
    <3>8. off = g.it.off + 4 * i
      BY <1>6, <3>1, <3>2
    <3>9. ArrIn(c, g, j + 1)
      <4>1. off \div 4 >= g.first.off \div 4 /\ g.first.off \div 4 \in Int /\ off \div 4 \in Int
        <5>1. PICK x \in Nat, y \in Nat : x = g.first.off /\ y = g.it.off /\ y >= x
          BY <3>6, <3>7
        <5>2. off = y + 4 * i
          BY <3>8, <5>1
        <5> QED
          BY ONLY <5>1, <5>2, i \in 0 .. 5, x \in Nat, y \in Nat
      <4>2. g.first.off \div 4 - 1 \notin {off \div 4}
        BY <4>1
      <4> QED
        BY <1>5, <1>7, <3>5, <4>2, ArrKeptIn
    <3>10. g.b + 1 \in 1 .. m /\ g.b + 1 # fr.b /\ g.b = fr.b
      BY <1>1, <1>3, <1>10, <2>3, <3>1, <3>2, NextBuf
    <3>11. cs[g.b + 1] = bs[g.b + 1] /\ cs[g.b] = c /\ bs[g.b] = b
      BY <1>4, <1>9, <3>10
    <3>12. ASSUME clean PROVE ArrClean(cs, g, j + 1)
      <4>1. Clear(b, b.len \div 4) /\ PtrsTo(b, g.first, j + 1, bs[g.b + 1].len)
        BY <3>5, <3>6, <3>11, <3>12 DEF ArrClean
      <4>2. c = SetWord(b, off, w)
        BY <1>4, <1>6
      <4>3. Clear(c, c.len \div 4)
        <5>1. b.len \div 4 \in Nat /\ off \div 4 < b.len \div 4
          BY <1>5, <1>6, SMTT(30)
        <5> QED
          BY <1>5, <1>7, <4>1, <4>2, <5>1, SetWordClear
      <4>4. PtrTo(w, bs[g.b + 1].len) \/ off \notin Pointers(g.first, j + 1)
        <5>1. CASE i < 5
          <6>1. st[z - 1].kind = "rep"
            BY <2>3, <3>1
          <6>2. PtrTo(w, bs[fr.b + 1].len)
            BY <3>1, <3>12, <5>1, <6>1
          <6> QED
            BY <3>10, <6>2
        <5>2. CASE ~(i < 5)
          <6>1. off >= g.it.off + 4 * g.first.psize
            BY <3>6, <3>7, <3>8, <5>2
          <6> QED
            BY <3>3, <3>6, <6>1, NotAPointer
        <5> QED
          BY <5>1, <5>2
      <4>5. PICK len : len = bs[g.b + 1].len
        OBVIOUS
      <4>6. PtrsTo(c, g.first, j + 1, len)
        <5>1. /\ IsBuf(b) /\ IsFirst(g.first) /\ j + 1 \in Nat
              /\ g.first.off + (j + 1) * ObjSize(g.first) <= b.len
              /\ PtrsTo(b, g.first, j + 1, len) /\ off \in Nat /\ off < b.len /\ off % 4 = 0
              /\ (PtrTo(w, len) \/ off \notin Pointers(g.first, j + 1))
          BY <1>5, <1>6, <3>3, <3>6, <4>1, <4>4, <4>5
        <5>2. PtrsTo(SetWord(b, off, w), g.first, j + 1, len)
          BY ONLY <5>1, PtrsStore
        <5> QED
          BY <4>2, <5>2
      <4> QED
        BY <3>11, <4>3, <4>5, <4>6 DEF ArrClean
    <3> QED
      BY <1>9, <1>10, <2>3, <3>2, <3>4, <3>9, <3>11, <3>12 DEF FrameIn
  <2> QED
    BY <2>1, <2>2, <2>3
<1>11. b.len <= c.len
  BY <1>5, <1>7
<1>12. \A k \in 1 .. Len(st) : st[k].b = fr.b => FrameIn(cs, st[k], Started(st, val, k), clean)
  BY <1>10
<1>13. bs[fr.b].len <= c.len /\ fr.b \in 1 .. Len(bs)
  BY <1>1, <1>3, <1>4, <1>11
<1> QED
  BY <1>8, <1>12, <1>13, BufferStep, SMTT(30)

\* Something is built in the last buffer.
LEMMA GrowCur ==
    ASSUME NEW bs, NEW st, NEW val, NEW clean, Under(bs, st, val, clean), NEW m, m = Len(bs),
           st[Len(st)].kind = "rep" => NeedsBuf(st[Len(st)].f),
           NEW c, GoodBuf(c, clean), Kept(bs[m], c, {}), NEW cs, Differs(bs, cs, m, c)
    PROVE  Under(cs, st, val, clean)
<1>1. m \in Nat /\ Chain(st, m)
  BY DEF Under, Memory, IsSequence
<1>2. m \in 1 .. Len(bs) /\ GoodBuf(bs[m], clean)
  <2>1. 1 \in 1 .. Len(st)
    BY <1>1, ChainIs
  <2>2. 1 <= m
    BY <1>1, <2>1, ChainIs
  <2> QED
    BY <1>1, <2>2 DEF Under, Memory
<1>3. bs[m].len \in Nat /\ bs[m].len <= c.len
  BY <1>2 DEF GoodBuf, IsBuf, Kept
<1>4. cs[m] = c
  BY DEF Differs
<1>5. ASSUME NEW k \in 1 .. Len(st), st[k].b = m
      PROVE  FrameIn(cs, st[k], Started(st, val, k), clean)
  <2>1. st[k].kind \in {"msg", "rep"} /\ FrameIn(bs, st[k], Started(st, val, k), clean)
    BY <1>1, ChainIs DEF Under, Memory
  <2>2. CASE st[k].kind = "rep"
    <3>1. k < Len(st) \/ NeedsBuf(st[k].f)
      <4>1. k < Len(st) \/ k = Len(st)
        BY <1>1, ChainIs
      <4> QED
        BY <2>2, <4>1
    <3>2. st[k].b < m
      BY <1>1, <2>2, <3>1, RepsBelow
    <3> QED
      BY <1>1, <1>5, <3>2
  <2>3. CASE st[k].kind = "msg"
    <3>1. MsgIn(bs[m], st[k].o)
      BY <1>5, <2>1, <2>3 DEF FrameIn
    <3>2. MsgIn(c, st[k].o)
      BY <1>3, <3>1, MsgKept
    <3> QED
      BY <1>4, <1>5, <2>3, <3>2 DEF FrameIn
  <2> QED
    BY <2>1, <2>2, <2>3
<1>6. \A k \in 1 .. Len(st) : st[k].b = m => FrameIn(cs, st[k], Started(st, val, k), clean)
  BY <1>5
<1> QED
  BY <1>2, <1>3, <1>6, BufferStep

\* What is known of the array of the innermost frame: j elements are complete,
\* and d more are begun.
ArrFacts(b, g, j, d) ==
    /\ j \in Nat /\ d \in {0, 1} /\ g.f \in Repeated
    /\ IsBuf(b) /\ b.len \in Nat /\ ArrIn(b, g, j + d)
    /\ IsFirst(g.first) /\ g.first.off \in Nat /\ g.first.off >= 8
    /\ g.first.off + (j + d) * ObjSize(g.first) = b.len
    /\ g.first.ssize = ElemSsize(g.f) /\ g.first.psize = ElemPsize(g.f)
    /\ g.it = Element(g.first, j + 1) /\ g.it.off \in Nat /\ g.it.off >= g.first.off /\ g.it.off % 4 = 0
    /\ g.it.off = g.first.off + j * ObjSize(g.first) /\ ObjSize(g.it) = ObjSize(g.first)
    /\ ObjSize(g.first) \in Nat /\ g.it.psize = g.first.psize
    /\ g.first.off + (j + 1) * ObjSize(g.first) = g.it.off + ObjSize(g.first)

\* The facts about an array of the stack
LEMMA ArrFactsHold ==
    ASSUME NEW b, IsBuf(b), NEW g, NEW j, j \in Nat, j = Len(g.items), NEW d, d \in {0, 1},
           g.f \in Repeated, ArrIn(b, g, j + d)
    PROVE  ArrFacts(b, g, j, d)
<1>1. PICK o, e : o = g.first /\ e = g.it
  OBVIOUS
<1>2. PICK m : m = j + d
  OBVIOUS
<1>3. /\ IsArr(b, g.first) /\ IsFirst(g.first) /\ g.first.off \in Nat /\ g.first.off >= 8
      /\ b.len \in Nat /\ g.first.off + m * ObjSize(g.first) = b.len
      /\ g.first.off + m * ObjSize(g.first) <= b.len
      /\ g.it = Element(g.first, Len(g.items) + 1)
      /\ g.first.ssize = ElemSsize(g.f) /\ g.first.psize = ElemPsize(g.f)
  BY <1>2, ArrInIs
<1>4. IsFirst(o) /\ e = Element(o, j + 1)
  BY <1>1, <1>3
<1>5. /\ e.off \in Nat /\ e.off % 4 = 0 /\ e.off >= o.off
      /\ e.off = o.off + j * ObjSize(o) /\ e.ssize = o.ssize /\ e.psize = o.psize
      /\ ObjSize(e) = ObjSize(o) /\ ObjSize(o) \in Nat
      /\ o.off + (j + 1) * ObjSize(o) = e.off + ObjSize(o)
      /\ \A q \in Pointers(o, j) : q \div 4 < e.off \div 4
  BY ONLY <1>4, j \in Nat, ElementIs
<1> QED
  BY <1>1, <1>2, <1>3, <1>5 DEF ArrFacts

\* The facts about the innermost array
LEMMA TopArr ==
    ASSUME NEW bs, NEW st, NEW val, NEW clean, Under(bs, st, val, clean), NEW z, z = Len(st),
           NEW g, g = st[z], g.kind = "rep", NEW b, b = bs[g.b], NEW j, j = Len(g.items),
           NEW d, d \in {0, 1}, IF val THEN d = 1 ELSE d = 0
    PROVE  /\ Started(st, val, z) = j + d
           /\ g.b \in 1 .. Len(bs) /\ GoodBuf(b, clean) /\ (clean => ArrClean(bs, g, j + d))
           /\ ArrFacts(b, g, j, d)
<1>1. PICK m \in Nat : m = Len(bs) /\ Chain(st, m)
  BY DEF Under, Memory, IsSequence
<1>2. z \in 1 .. Len(st) /\ ~(z < Len(st)) /\ IsFrame(g) /\ g.b \in 1 .. m
  BY <1>1, ChainIs
<1>3. j \in Nat /\ g.f \in Repeated
  BY <1>2 DEF IsFrame, IsRep, IsSequence
<1>4. Started(st, val, z) = j + d
  <2>1. CASE val
    BY <2>1, StartedBelow
  <2>2. CASE ~val
    <3>1. d = 0
      BY <2>2
    <3> QED
      BY <1>2, <2>2, <3>1, StartedTop
  <2> QED
    BY <2>1, <2>2
<1>5. GoodBuf(b, clean) /\ FrameIn(bs, g, j + d, clean)
  BY <1>1, <1>2, <1>4 DEF Under, Memory
<1>6. IsBuf(b) /\ ArrIn(b, g, j + d) /\ (clean => ArrClean(bs, g, j + d))
  BY <1>5 DEF GoodBuf, FrameIn
<1>7. ArrFacts(b, g, j, d)
  BY <1>3, <1>6, ArrFactsHold
<1> QED
  BY <1>1, <1>2, <1>4, <1>5, <1>6, <1>7

\* An element that is one word is stored.
LEMMA ElemStore ==
    ASSUME NEW bs, NEW st, NEW val, val, NEW clean, Under(bs, st, val, clean), NEW z, z = Len(st),
           NEW g, g = st[z], g.kind = "rep", g.f \in {"xs", "ss"}, NEW w,
           clean /\ g.f = "ss" => PtrTo(w, bs[g.b + 1].len),
           NEW c, c = SetWord(bs[g.b], g.it.off, w), NEW cs, Differs(bs, cs, g.b, c)
    PROVE  Under(cs, st, val, clean)
<1>1. PICK m \in Nat : m = Len(bs) /\ Chain(st, m)
  BY DEF Under, Memory, IsSequence
<1>2. PICK j, d, b : j = Len(g.items) /\ d = 1 /\ b = bs[g.b]
  OBVIOUS
<1>3. /\ Started(st, val, z) = j + 1
      /\ g.b \in 1 .. Len(bs) /\ GoodBuf(b, clean) /\ (clean => ArrClean(bs, g, j + 1))
      /\ ArrFacts(b, g, j, 1)
  <2>1. /\ Started(st, val, z) = j + d
        /\ g.b \in 1 .. Len(bs) /\ GoodBuf(b, clean) /\ (clean => ArrClean(bs, g, j + d))
        /\ ArrFacts(b, g, j, d)
    <3>1. Under(bs, st, val, clean) /\ z = Len(st) /\ g = st[z] /\ g.kind = "rep" /\ b = bs[g.b]
          /\ j = Len(g.items) /\ d \in {0, 1} /\ (IF val THEN d = 1 ELSE d = 0)
      BY <1>2, Zenon
    <3> QED
      BY ONLY <3>1, TopArr
  <2> QED
    BY <1>2, <2>1
<1>4. /\ j \in Nat /\ IsBuf(b) /\ b.len \in Nat /\ ArrIn(b, g, j + 1)
      /\ IsFirst(g.first) /\ g.first.off \in Nat /\ g.first.off >= 8
      /\ g.first.ssize = ElemSsize(g.f) /\ g.first.psize = ElemPsize(g.f)
      /\ g.it = Element(g.first, j + 1) /\ g.it.off \in Nat /\ g.it.off >= g.first.off /\ g.it.off % 4 = 0
      /\ g.first.off + (j + 1) * ObjSize(g.first) = g.it.off + ObjSize(g.first)
      /\ g.first.off + (j + 1) * ObjSize(g.first) = b.len
  BY <1>3 DEF ArrFacts
<1>5. ObjSize(g.first) = 4
  BY <1>4 DEF ObjSize, ElemSsize, ElemPsize
<1>6. PICK off \in Nat : off = g.it.off /\ b.len = off + 4 /\ off % 4 = 0 /\ off >= 8
  BY <1>4, <1>5
<1>7. IsBuf(c) /\ Kept(b, c, {off \div 4}) /\ c.len = b.len /\ c.mem[off \div 4] = w
  <2>1. off < b.len
    BY ONLY <1>6, off \in Nat
  <2>2. IsBuf(b) /\ off \in Nat /\ off < b.len /\ c = SetWord(b, off, w)
    BY <1>2, <1>4, <1>6, <2>1
  <2> QED
    BY ONLY <2>2, SetWordTo
<1>8. PICK len \in Nat :
          /\ len = b.len /\ c = SetWord(b, off, w) /\ off < len /\ off >= 8 /\ off % 4 = 0
          /\ off \div 4 \in Nat /\ off \div 4 < len \div 4 /\ off \div 4 < Words(len) + 1
          /\ len \div 4 \in Nat /\ Words(len) + 1 \in Nat /\ off \div 4 # 0
  <2>1. PICK x \in Nat : off = 4 * x /\ x >= 2
    BY <1>6
  <2>2. PICK len \in Nat : len = b.len /\ len = 4 * x + 4
    BY <1>4, <1>6, <2>1
  <2>3. (4 * x) \div 4 = x /\ (4 * x + 4) \div 4 = x + 1 /\ (4 * x + 4 + 3) \div 4 = x + 1
    OBVIOUS
  <2>4. off \div 4 = x /\ len \div 4 = x + 1 /\ Words(len) = x + 1
    BY ONLY <2>1, <2>2, <2>3 DEF Words
  <2>5. c = SetWord(b, off, w)
    BY <1>2, <1>6
  <2>6. off < len /\ off % 4 = 0 /\ off >= 8
    <3>1. off < len
      BY <2>1, <2>2
    <3> QED
      BY <1>6, <3>1
  <2>7. /\ off \div 4 \in Nat /\ off \div 4 < len \div 4 /\ off \div 4 < Words(len) + 1
        /\ len \div 4 \in Nat /\ Words(len) + 1 \in Nat /\ off \div 4 # 0
    BY <2>1, <2>4
  <2> QED
    BY <2>2, <2>5, <2>6, <2>7
<1>9. GoodBuf(c, clean)
  <2>1. ASSUME clean PROVE Clear(c, Words(len) + 1)
    <3>1. Clear(b, Words(len) + 1)
      BY <1>3, <1>8, <2>1 DEF GoodBuf
    <3>2. /\ IsBuf(b) /\ Clear(b, Words(len) + 1) /\ Words(len) + 1 \in Nat
          /\ off \div 4 < Words(len) + 1 /\ c = SetWord(b, off, w)
      BY <1>4, <1>8, <3>1
    <3> QED
      BY ONLY <3>2, SetWordClear
  <2>2. c.len = len
    BY <1>7, <1>8
  <2> QED
    BY <1>7, <2>1, <2>2 DEF GoodBuf
<1>10. cs[g.b] = c /\ \A i \in 1 .. m : i # g.b => cs[i] = bs[i]
  BY <1>1 DEF Differs
<1>11. ArrIn(c, g, j + 1)
  <2>1. g.first.off \div 4 - 1 \notin {off \div 4}
    <3>1. PICK x \in Nat : x = g.first.off /\ x <= off
      BY <1>4, <1>6
    <3> QED
      BY <3>1
  <2> QED
    BY <1>4, <1>7, <2>1, ArrKeptIn
<1>12. ASSUME clean PROVE ArrClean(cs, g, j + 1)
  <2> SUFFICES ASSUME g.first.psize > 0 PROVE ArrClean(cs, g, j + 1)
    BY DEF ArrClean
  <2>1. g.f = "ss" /\ NeedsBuf(g.f)
    BY <1>4 DEF ElemPsize, NeedsBuf
  <2>2. g.b + 1 \in 1 .. m /\ g.b + 1 # g.b
    <3>1. z \in 1 .. Len(st)
      BY <1>1, ChainIs
    <3> QED
      BY <1>1, <2>1, <3>1, NextBuf
  <2>3. PICK more : more = bs[g.b + 1].len /\ more = cs[g.b + 1].len
    BY <1>10, <2>2
  <2>4. Clear(b, len \div 4) /\ PtrsTo(b, g.first, j + 1, more)
    <3>1. bs[g.b] = b /\ b.len = len
      BY <1>2, <1>8
    <3>2. ArrClean(bs, g, j + 1) /\ g.first.psize > 0
      BY <1>3, <1>12
    <3> QED
      BY <2>3, <3>1, <3>2 DEF ArrClean
  <2>5. Clear(c, len \div 4)
    <3>1. /\ IsBuf(b) /\ Clear(b, len \div 4) /\ len \div 4 \in Nat
          /\ off \div 4 < len \div 4 /\ c = SetWord(b, off, w)
      BY <1>4, <1>8, <2>4
    <3> QED
      BY ONLY <3>1, SetWordClear
  <2>6. PtrsTo(c, g.first, j + 1, more)
    <3>1. /\ IsBuf(b) /\ IsFirst(g.first) /\ j + 1 \in Nat
          /\ g.first.off + (j + 1) * ObjSize(g.first) <= b.len
          /\ PtrsTo(b, g.first, j + 1, more) /\ off \in Nat /\ off < b.len /\ off % 4 = 0
          /\ (PtrTo(w, more) \/ off \notin Pointers(g.first, j + 1))
      BY <1>4, <1>6, <1>12, <2>1, <2>3, <2>4
    <3>2. PtrsTo(SetWord(b, off, w), g.first, j + 1, more)
      BY ONLY <3>1, PtrsStore
    <3> QED
      BY <1>8, <3>2
  <2> QED
    <3>1. c.len = len /\ cs[g.b] = c
      BY <1>7, <1>8, <1>10
    <3> QED
      BY <2>3, <2>5, <2>6, <3>1 DEF ArrClean
<1>13. ASSUME NEW k \in 1 .. z, st[k].b = g.b
       PROVE  FrameIn(cs, st[k], Started(st, val, k), clean)
  <2>1. st[k].kind \in {"msg", "rep"} /\ FrameIn(bs, st[k], Started(st, val, k), clean)
    BY <1>1, ChainIs DEF Under, Memory
  <2>2. CASE st[k].kind = "msg"
    <3>1. MsgIn(b, st[k].o) /\ 0 \notin {off \div 4}
      BY <1>2, <1>8, <1>13, <2>1, <2>2 DEF FrameIn
    <3>2. MsgIn(c, st[k].o)
      BY <1>4, <1>7, <3>1, MsgKept
    <3> QED
      BY <1>10, <1>13, <2>2, <3>2 DEF FrameIn
  <2>3. CASE st[k].kind = "rep"
    <3>1. k = z
      BY <1>1, <1>13, <2>3, OnTop
    <3> QED
      BY <1>3, <1>10, <1>11, <1>12, <2>3, <3>1 DEF FrameIn
  <2> QED
    BY <2>1, <2>2, <2>3
<1>14. \A k \in 1 .. Len(st) : st[k].b = g.b => FrameIn(cs, st[k], Started(st, val, k), clean)
  BY <1>13
<1>15. bs[g.b].len <= c.len /\ g.b \in 1 .. Len(bs)
  <2>1. bs[g.b].len = b.len /\ c.len = b.len /\ b.len = off + 4
    BY <1>2, <1>6, <1>7
  <2> QED
    BY ONLY <1>3, <2>1, off \in Nat
<1>16. /\ Under(bs, st, val, clean) /\ g.b \in 1 .. Len(bs) /\ GoodBuf(c, clean)
       /\ bs[g.b].len <= c.len /\ Differs(bs, cs, g.b, c) /\ val = val
       /\ \A k \in 1 .. Len(st) : st[k].b = g.b => FrameIn(cs, st[k], Started(st, val, k), clean)
  BY <1>9, <1>14, <1>15
<1> QED
  BY ONLY <1>16, BufferStep

\* The pointers of the element that is due in array g of buffer c are null.
ElementNull(c, g) ==
    \A k \in 0 .. g.first.psize - 1 :
        c.mem[(g.first.off + Len(g.items) * ObjSize(g.first) + 4 * k) \div 4] = 0

\* The array of the innermost frame takes one more element.
LEMMA MoreStep ==
    ASSUME NEW bs, NEW st, NEW val, ~val, NEW clean, Under(bs, st, val, clean), NEW z, z = Len(st),
           NEW g, g = st[z], g.kind = "rep", bs[g.b].len = g.it.off,
           NEW c, c = Alloc(bs[g.b], ObjSize(g.it)), NEW cs, Differs(bs, cs, g.b, c)
    PROVE  /\ Under(cs, st, TRUE, clean) /\ Kept(bs[g.b], c, {})
           /\ clean => ElementNull(c, g)
<1>1. PICK m \in Nat : m = Len(bs) /\ Chain(st, m)
  BY DEF Under, Memory, IsSequence
<1>2. PICK j, d, b : j = Len(g.items) /\ d = 0 /\ b = bs[g.b]
  OBVIOUS
<1>3. /\ g.b \in 1 .. Len(bs) /\ GoodBuf(b, clean) /\ (clean => ArrClean(bs, g, j + 0))
      /\ ArrFacts(b, g, j, 0)
  <2>1. /\ Started(st, val, z) = j + d
        /\ g.b \in 1 .. Len(bs) /\ GoodBuf(b, clean) /\ (clean => ArrClean(bs, g, j + d))
        /\ ArrFacts(b, g, j, d)
    <3>1. Under(bs, st, val, clean) /\ z = Len(st) /\ g = st[z] /\ g.kind = "rep" /\ b = bs[g.b]
          /\ j = Len(g.items) /\ d \in {0, 1} /\ (IF val THEN d = 1 ELSE d = 0)
      BY <1>2, Zenon
    <3> QED
      BY ONLY <3>1, TopArr
  <2> QED
    BY <1>2, <2>1
<1>4. PICK size : size = ObjSize(g.first)
  OBVIOUS
<1>5. /\ j \in Nat /\ IsBuf(b) /\ b.len \in Nat /\ ArrIn(b, g, j)
      /\ IsFirst(g.first) /\ g.first.off \in Nat /\ g.first.off + j * size = b.len
      /\ g.it.off = b.len /\ ObjSize(g.it) = size /\ size \in Nat
      /\ g.first.off + (j + 1) * size = b.len + size
      /\ g.it.off % 4 = 0 /\ g.it.psize = g.first.psize /\ g.first.psize \in Nat
  <2>1. /\ j \in Nat /\ IsBuf(b) /\ b.len \in Nat /\ ArrIn(b, g, j + 0)
        /\ IsFirst(g.first) /\ g.first.off \in Nat
        /\ g.first.off + (j + 0) * ObjSize(g.first) = b.len
        /\ ObjSize(g.it) = ObjSize(g.first)
        /\ ObjSize(g.first) \in Nat /\ g.it.off % 4 = 0 /\ g.it.psize = g.first.psize
        /\ g.first.off + (j + 1) * ObjSize(g.first) = g.it.off + ObjSize(g.first)
    BY <1>3 DEF ArrFacts
  <2>2. j + 0 = j /\ g.it.off = b.len /\ g.first.psize \in Nat
    BY <1>2, <2>1 DEF IsFirst
  <2>3. g.first.off + (j + 1) * size = b.len + size
    BY <1>4, <2>1, <2>2
  <2> QED
    BY <1>4, <2>1, <2>2, <2>3
<1>6. IsBuf(c) /\ Kept(b, c, {}) /\ c.len = b.len + size
  <2>1. Kept(b, c, {}) /\ c.len = b.len + size
    BY <1>2, <1>5, AllocIs
  <2> QED
    BY <2>1 DEF Kept
<1>7. GoodBuf(c, clean)
  <2>1. b.len <= c.len /\ Words(b.len) + 1 \in Nat
    <3>1. Words(b.len) \in Nat
      BY <1>5, WordsIs
    <3> QED
      BY <1>6, <3>1 DEF Kept
  <2>2. ASSUME clean PROVE Clear(c, Words(b.len) + 1)
    <3>1. Clear(b, Words(b.len) + 1)
      BY <1>3, <2>2 DEF GoodBuf
    <3> QED
      BY <1>2, <1>5, <2>1, <3>1, AllocClear
  <2> QED
    BY <1>3, <1>6, <2>1, <2>2, GoodFrom
<1>8. cs[g.b] = c /\ \A i \in 1 .. m : i # g.b => cs[i] = bs[i]
  BY <1>1 DEF Differs
<1>9. ArrIn(c, g, j + 1)
  <2>1. IsArr(b, g.first)
    BY <1>5 DEF ArrIn
  <2>2. IsArr(c, g.first)
    BY <1>5, <1>6, <2>1, ArrKept
  <2>3. AtEnd(c, g.first, j + 1)
    BY <1>4, <1>5, <1>6 DEF AtEnd
  <2> QED
    BY <1>5, <2>2, <2>3 DEF ArrIn
<1>10. ASSUME clean
       PROVE  /\ ArrClean(cs, g, j + 1)
              /\ \A i \in 0 .. g.first.psize - 1 : c.mem[(g.first.off + j * ObjSize(g.first) + 4 * i) \div 4] = 0
  <2> SUFFICES ASSUME g.first.psize > 0
               PROVE  /\ ArrClean(cs, g, j + 1)
                      /\ \A i \in 0 .. g.first.psize - 1 :
                             c.mem[(g.first.off + j * ObjSize(g.first) + 4 * i) \div 4] = 0
    BY <1>5 DEF ArrClean
  <2>1. PICK x \in Nat, k \in Nat : b.len = 4 * x /\ b.len \div 4 = x /\ c.len = 4 * x + k /\ k = size
    <3>1. PICK x \in Nat : g.it.off = 4 * x
      <4>1. PICK off \in Nat : off = g.it.off /\ off % 4 = 0
        BY <1>5
      <4>2. \E x \in Nat : off = 4 * x
        BY <4>1
      <4> QED
        BY <4>1, <4>2
    <3>2. (4 * x) \div 4 = x
      OBVIOUS
    <3> QED
      BY <1>5, <1>6, <3>1, <3>2
  <2>2. ArrClean(bs, g, j + 0) /\ j + 0 = j
    BY <1>3, <1>5, <1>10
  <2>3. Clear(b, x) /\ PtrsTo(b, g.first, j, bs[g.b + 1].len)
    BY <1>2, <2>1, <2>2 DEF ArrClean
  <2>4. Clear(c, x)
    BY <1>2, <1>5, <2>1, <2>3, AllocClear
  <2>5. Clear(c, c.len \div 4)
    <3>1. c.len \div 4 \in Int /\ x <= c.len \div 4 /\ c.cap \in Nat
      <4>1. (4 * x + k) \div 4 \in Int /\ x <= (4 * x + k) \div 4
        OBVIOUS
      <4> QED
        BY <1>6, <2>1, <4>1 DEF IsBuf
    <3> QED
      BY <2>4, <3>1, ClearFrom
  <2>6. NeedsBuf(g.f)
    BY <1>5 DEF ArrIn, NeedsBuf
  <2>7. g.b + 1 \in 1 .. Len(bs) /\ g.b + 1 # g.b
    <3>1. z \in 1 .. Len(st)
      BY <1>1, ChainIs
    <3> QED
      BY <2>6, <3>1, NextBuf
  <2>8. PICK more \in Nat : more = bs[g.b + 1].len /\ more = cs[g.b + 1].len
    <3>1. GoodBuf(bs[g.b + 1], clean)
      BY <2>7 DEF Under, Memory
    <3> QED
      BY <1>1, <1>8, <2>7, <3>1 DEF GoodBuf, IsBuf
  <2>9. PtrsTo(c, g.first, j, more)
    <3>1. g.first.off + j * ObjSize(g.first) <= b.len
      <4>1. PICK len \in Nat : len = b.len
        BY <1>5
      <4> QED
        BY <1>4, <1>5, <4>1
    <3>2. /\ IsBuf(b) /\ IsFirst(g.first) /\ j \in Nat /\ more \in Nat
          /\ PtrsTo(b, g.first, j, more) /\ g.first.off + j * ObjSize(g.first) <= b.len
          /\ Kept(b, c, {}) /\ more <= more
      BY <1>5, <1>6, <2>3, <2>8, <3>1, SMTT(30)
    <3> QED
      BY ONLY <3>2, PtrsKept
  <2>10. \A i \in 0 .. g.first.psize - 1 : c.mem[(g.first.off + j * ObjSize(g.first) + 4 * i) \div 4] = 0
    <3> SUFFICES ASSUME NEW i \in 0 .. g.first.psize - 1
                 PROVE  c.mem[(g.first.off + j * ObjSize(g.first) + 4 * i) \div 4] = 0
      OBVIOUS
    <3>1. i \in Nat /\ 4 * x + 4 * i < 4 * x + k
      <4>1. PICK p \in Nat, ss \in Nat : p = g.first.psize /\ ss = g.first.ssize
        BY <1>5 DEF IsFirst
      <4>2. i \in Nat /\ i <= p - 1
        BY <4>1
      <4>3. k = 4 * p + ss
        BY <1>4, <2>1, <4>1 DEF ObjSize
      <4>4. 4 * x + 4 * i < 4 * x + (4 * p + ss)
        BY <4>2
      <4> QED
        BY ONLY <4>2, <4>3, <4>4
    <3>2. (g.first.off + j * ObjSize(g.first) + 4 * i) \div 4 = x + i
      <4>1. g.first.off + j * ObjSize(g.first) + 4 * i = 4 * (x + i)
        BY <1>4, <1>5, <2>1, <3>1
      <4>2. (4 * (x + i)) \div 4 = x + i
        BY <3>1
      <4> QED
        BY <4>1, <4>2
    <3>3. x + i \in x .. Words(c.cap) - 1
      <4>1. PICK cap \in Nat : cap = c.cap /\ 4 * x + 4 * i < cap
        <5>1. c.cap \in Nat /\ c.len <= c.cap
          BY <1>6 DEF IsBuf
        <5> QED
          BY ONLY <2>1, <3>1, <5>1, x \in Nat, k \in Nat
      <4>2. 4 * Words(cap) >= cap /\ Words(cap) \in Nat
        BY WordsIs
      <4> QED
        BY <3>1, <4>1, <4>2
    <3> QED
      BY <2>4, <3>2, <3>3 DEF Clear
  <2>11. PtrsTo(c, g.first, j + 1, more)
    <3>1. \A i \in 0 .. g.first.psize - 1 :
              PtrTo(c.mem[(g.first.off + j * ObjSize(g.first) + 4 * i) \div 4], more)
      BY <2>10 DEF PtrTo
    <3> QED
      BY <1>5, <2>9, <3>1, PtrsMore
  <2> QED
    BY <1>8, <2>5, <2>8, <2>10, <2>11 DEF ArrClean
<1>11. ASSUME NEW k \in 1 .. z, st[k].b = g.b
       PROVE  FrameIn(cs, st[k], Started(st, TRUE, k), clean)
  <2>1. st[k].kind \in {"msg", "rep"} /\ FrameIn(bs, st[k], Started(st, val, k), clean)
    BY <1>1, ChainIs DEF Under, Memory
  <2>2. CASE st[k].kind = "msg"
    <3>1. MsgIn(b, st[k].o)
      BY <1>2, <1>11, <2>1, <2>2 DEF FrameIn
    <3>2. MsgIn(c, st[k].o)
      BY <1>5, <1>6, <3>1, MsgKept
    <3> QED
      BY <1>8, <1>11, <2>2, <3>2 DEF FrameIn
  <2>3. CASE st[k].kind = "rep"
    <3>1. k = z
      BY <1>1, <1>11, <2>3, OnTop
    <3>2. Started(st, TRUE, k) = j + 1
      BY <1>2, <3>1, StartedBelow
    <3> QED
      BY <1>8, <1>9, <1>10, <2>3, <3>1, <3>2 DEF FrameIn
  <2> QED
    BY <2>1, <2>2, <2>3
<1>12. /\ Under(bs, st, val, clean) /\ g.b \in 1 .. Len(bs) /\ GoodBuf(c, clean)
       /\ bs[g.b].len <= c.len /\ Differs(bs, cs, g.b, c)
       /\ (TRUE = val \/ st[Len(st)].kind = "msg" \/ st[Len(st)].b = g.b)
       /\ \A k \in 1 .. Len(st) : st[k].b = g.b => FrameIn(cs, st[k], Started(st, TRUE, k), clean)
  <2>1. bs[g.b].len <= c.len
    BY <1>2, <1>5, <1>6
  <2> QED
    BY <1>3, <1>7, <1>11, <2>1
<1>13. Under(cs, st, TRUE, clean)
  BY ONLY <1>12, BufferStep
<1> QED
  BY <1>2, <1>6, <1>10, <1>13 DEF ElementNull

-----------------------------------------------------------------------------
(* What the parser does to the frames *)

\* The outermost message stays where it is.
SameRoot(st, t) == t[1].o = st[1].o

\* The document of the innermost message changes.
LEMMA SetDoc ==
    ASSUME NEW bs, NEW st, NEW val, NEW clean, Under(bs, st, val, clean), NEW z, z = Len(st),
           st[z].kind = "msg", NEW g, SameMsg(st[z], g), NEW t, t = ReplaceAt(st, z, g), NEW late
    PROVE  Under(bs, t, late, clean) /\ SameRoot(st, t)
<1>1. PICK m \in Nat : m = Len(bs) /\ Chain(st, m) /\ Apart(st)
  BY DEF Under, Memory, IsSequence
<1>2. z \in 1 .. Len(st) /\ IsFrame(st[z]) /\ IsSequence(st) /\ z \in Nat
  BY <1>1, ChainIs
<1>3. IsFrame(g) /\ g.kind = "msg" /\ g.b = st[z].b /\ g.o = st[z].o
  BY DEF IsFrame, SameMsg
<1>4. Differs(st, t, z, g)
  BY <1>1, <1>2, ReplaceIs DEF ReplaceAt
<1>5. Chain(t, m) /\ Apart(t)
  BY <1>1, <1>3, <1>4, TopStep
<1>6. Len(t) = z /\ t[z] = g /\ \A k \in 1 .. z : k # z => t[k] = st[k]
  BY <1>4 DEF Differs
<1>7. ASSUME NEW k \in 1 .. z PROVE FrameIn(bs, t[k], Started(t, late, k), clean)
  <2>1. FrameIn(bs, st[k], Started(st, val, k), clean)
    BY DEF Under, Memory
  <2>2. CASE k = z
    BY <1>3, <1>6, <2>1, <2>2 DEF FrameIn
  <2>3. CASE k # z
    <3>1. k < Len(st) /\ k < Len(t) /\ t[k] = st[k]
      BY <1>2, <1>6, <2>3
    <3>2. Started(t, late, k) = Started(st, val, k)
      BY <3>1, StartedBelow
    <3> QED
      BY <2>1, <3>1, <3>2
  <2> QED
    BY <2>2, <2>3
<1>8. Memory(bs, t, late, clean)
  BY <1>6, <1>7 DEF Memory, Under
<1>9. SameRoot(st, t)
  BY <1>2, <1>3, <1>6 DEF SameRoot
<1> QED
  BY <1>1, <1>5, <1>8, <1>9 DEF Under

\* An element of the innermost array is complete.
LEMMA AdvanceIs ==
    ASSUME NEW fr, fr.kind = "rep", IsFrame(fr), NEW item, NEW j, j = Len(fr.items), IsFirst(fr.first),
           fr.it = Element(fr.first, j + 1), NEW g, g = Advance(fr, item)
    PROVE  /\ IsFrame(g) /\ g.kind = "rep" /\ g.b = fr.b /\ g.first = fr.first /\ g.f = fr.f
           /\ Len(g.items) = j + 1 /\ g.it = Element(fr.first, j + 1 + 1)
<1>1. /\ fr = [kind |-> "rep", b |-> fr.b, first |-> fr.first, it |-> fr.it, f |-> fr.f, items |-> fr.items]
      /\ fr.f \in Repeated /\ IsSequence(fr.items) /\ j \in Nat
  BY DEF IsFrame, IsRep, IsSequence
<1>2. PICK it, items : /\ it = [fr.it EXCEPT !.off = @ + ObjSize(fr.it)]
                       /\ items = Append(fr.items, item)
  OBVIOUS
<1>3. g = [kind |-> "rep", b |-> fr.b, first |-> fr.first, it |-> it, f |-> fr.f, items |-> items]
  BY <1>1, <1>2 DEF Advance
<1>4. IsSequence(items) /\ Len(items) = j + 1
  <2>1. /\ IsSequence(Append(fr.items, item)) /\ Len(Append(fr.items, item)) = Len(fr.items) + 1
        /\ Append(fr.items, item)[Len(fr.items) + 1] = item
        /\ \A i \in 1 .. Len(fr.items) : Append(fr.items, item)[i] = fr.items[i]
    BY <1>1, AppendIs
  <2> QED
    BY <1>2, <2>1
<1>5. it = Element(fr.first, j + 1 + 1)
  <2>1. PICK size : size = ObjSize(fr.first)
    OBVIOUS
  <2>2. PICK e : e = fr.it
    OBVIOUS
  <2>3. /\ e.off \in Nat /\ e.off = fr.first.off + j * size /\ e.ssize = fr.first.ssize
        /\ e.psize = fr.first.psize /\ ObjSize(e) = size /\ size \in Nat
        /\ fr.first.off + (j + 1) * size = e.off + size
    <3>1. PICK o : o = fr.first
      OBVIOUS
    <3>2. IsFirst(o) /\ j \in Nat /\ e = Element(o, j + 1)
      BY <1>1, <2>2, <3>1
    <3>3. /\ e.off \in Nat /\ e.off % 4 = 0 /\ e.off >= o.off
          /\ e.off = o.off + j * ObjSize(o) /\ e.ssize = o.ssize /\ e.psize = o.psize
          /\ ObjSize(e) = ObjSize(o) /\ ObjSize(o) \in Nat
          /\ o.off + (j + 1) * ObjSize(o) = e.off + ObjSize(o)
          /\ \A q \in Pointers(o, j) : q \div 4 < e.off \div 4
      BY ONLY <3>2, ElementIs
    <3> QED
      BY <2>1, <3>1, <3>3
  <2>4. fr.first = [n |-> 1, off |-> fr.first.off, ssize |-> fr.first.ssize, psize |-> fr.first.psize]
        /\ fr.first.off \in Nat
    BY DEF IsFirst, Object
  <2>5. Element(fr.first, j + 1 + 1) =
            [n |-> 1, off |-> fr.first.off + (j + 1) * size, ssize |-> fr.first.ssize, psize |-> fr.first.psize]
    <3>1. j + 1 + 1 - 1 = j + 1
      BY <1>1
    <3> QED
      BY <2>1, <2>4, <3>1 DEF Element
  <2>6. e = [n |-> 1, off |-> e.off, ssize |-> e.ssize, psize |-> e.psize]
    <3>1. j + 1 - 1 = j
      BY <1>1
    <3>2. e = [n |-> 1, off |-> fr.first.off + j * size, ssize |-> fr.first.ssize, psize |-> fr.first.psize]
      BY <2>1, <2>2, <2>4, <3>1 DEF Element
    <3> QED
      BY <3>2
  <2>7. it = [n |-> 1, off |-> e.off + size, ssize |-> e.ssize, psize |-> e.psize]
    BY <1>2, <2>2, <2>3, <2>6
  <2> QED
    BY <2>3, <2>5, <2>7
<1>6. IsRep(g) /\ g.kind = "rep" /\ g.b = fr.b /\ g.first = fr.first /\ g.f = fr.f /\ g.items = items /\ g.it = it
  <2>1. g.kind = "rep" /\ g.b = fr.b /\ g.first = fr.first /\ g.f = fr.f /\ g.items = items /\ g.it = it
    BY <1>3
  <2> QED
    BY <1>1, <1>3, <1>4, <2>1 DEF IsRep
<1> QED
  BY <1>4, <1>5, <1>6 DEF IsFrame

\* The element that was due is complete.
LEMMA AdvanceStep ==
    ASSUME NEW bs, NEW st, NEW val, val, NEW clean, Under(bs, st, val, clean), NEW z, z = Len(st),
           st[z].kind = "rep", NEW item, NEW t, t = ReplaceAt(st, z, Advance(st[z], item))
    PROVE  Under(bs, t, FALSE, clean) /\ SameRoot(st, t)
<1>1. PICK m, fr, g : /\ m \in Nat /\ m = Len(bs) /\ Chain(st, m) /\ Apart(st)
                   /\ fr = st[z] /\ g = Advance(fr, item)
  BY DEF Under, Memory, IsSequence
<1>2. z \in 1 .. Len(st) /\ IsFrame(fr) /\ IsSequence(st) /\ z \in Nat
  BY <1>1, ChainIs
<1>3. PICK j, d, b : j = Len(fr.items) /\ d = 1 /\ b = bs[fr.b]
  OBVIOUS
<1>4. /\ Started(st, val, z) = j + 1 /\ (clean => ArrClean(bs, fr, j + 1))
      /\ ArrFacts(b, fr, j, 1)
  <2>1. /\ Started(st, val, z) = j + d
        /\ fr.b \in 1 .. Len(bs) /\ GoodBuf(b, clean) /\ (clean => ArrClean(bs, fr, j + d))
        /\ ArrFacts(b, fr, j, d)
    <3>1. Under(bs, st, val, clean) /\ z = Len(st) /\ fr = st[z] /\ fr.kind = "rep" /\ b = bs[fr.b]
          /\ j = Len(fr.items) /\ d \in {0, 1} /\ (IF val THEN d = 1 ELSE d = 0)
      BY <1>1, <1>3, Zenon
    <3> QED
      BY ONLY <3>1, TopArr
  <2> QED
    BY <1>3, <2>1
<1>5. j \in Nat /\ ArrIn(b, fr, j + 1) /\ IsFirst(fr.first) /\ fr.it = Element(fr.first, j + 1)
  BY <1>4 DEF ArrFacts
<1>6. /\ IsFrame(g) /\ g.kind = "rep" /\ g.b = fr.b /\ g.first = fr.first /\ g.f = fr.f
      /\ Len(g.items) = j + 1 /\ g.it = Element(fr.first, j + 1 + 1)
  <2>1. /\ fr.kind = "rep" /\ IsFrame(fr) /\ j = Len(fr.items) /\ IsFirst(fr.first)
        /\ fr.it = Element(fr.first, j + 1) /\ g = Advance(fr, item)
    BY <1>1, <1>2, <1>3, <1>5
  <2> QED
    BY ONLY <2>1, AdvanceIs
<1>7. Differs(st, t, z, g)
  BY <1>1, <1>2, ReplaceIs DEF ReplaceAt
<1>8. Chain(t, m) /\ Apart(t)
  BY <1>1, <1>2, <1>6, <1>7, TopStep
<1>9. Len(t) = z /\ t[z] = g /\ \A k \in 1 .. z : k # z => t[k] = st[k]
  BY <1>7 DEF Differs
<1>10. ASSUME NEW k \in 1 .. z PROVE FrameIn(bs, t[k], Started(t, FALSE, k), clean)
  <2>1. CASE k = z
    <3>1. Started(t, FALSE, z) = j + 1
      <4>1. ~(z < Len(t)) /\ ~FALSE
        BY <1>2, <1>9
      <4>2. Started(t, FALSE, z) = Len(t[z].items) + 0
        BY <4>1, StartedTop
      <4>3. Len(t[z].items) = j + 1 /\ j + 1 + 0 = j + 1
        BY <1>5, <1>6, <1>9
      <4> QED
        BY <4>2, <4>3
    <3>2. ArrIn(b, g, j + 1) /\ (clean => ArrClean(bs, g, j + 1))
      BY <1>4, <1>5, <1>6 DEF ArrIn, ArrClean
    <3> QED
      BY <1>3, <1>6, <1>9, <2>1, <3>1, <3>2 DEF FrameIn
  <2>2. CASE k # z
    <3>1. k < Len(st) /\ k < Len(t) /\ t[k] = st[k]
      BY <1>2, <1>9, <2>2
    <3>2. Started(t, FALSE, k) = Started(st, val, k)
      BY <3>1, Zenon DEF Started
    <3>3. FrameIn(bs, st[k], Started(st, val, k), clean)
      BY DEF Under, Memory
    <3> QED
      BY <3>1, <3>2, <3>3
  <2> QED
    BY <2>1, <2>2
<1>11. Memory(bs, t, FALSE, clean)
  BY <1>9, <1>10 DEF Memory, Under
<1>12. SameRoot(st, t)
  <2>1. st[1].kind = "msg"
    BY <1>1 DEF Chain
  <2> QED
    BY <1>2, <1>9, <2>1 DEF SameRoot
<1> QED
  BY <1>1, <1>8, <1>11, <1>12 DEF Under

\* The innermost message is complete.
LEMMA PopMsg ==
    ASSUME NEW bs, NEW st, NEW val, NEW clean, Under(bs, st, val, clean), NEW z, z = Len(st), z >= 2,
           st[z].kind = "msg", NEW t, t = Front(st), NEW late, late
    PROVE  Under(bs, t, late, clean) /\ SameRoot(st, t) /\ Len(t) = z - 1 /\ t[z - 1] = st[z - 1]
<1>1. PICK m, home : m \in Nat /\ m = Len(bs) /\ Chain(st, m) /\ Apart(st) /\ home = Home(st, z - 1)
  BY DEF Under, Memory, IsSequence
<1>2. /\ Chain(t, home) /\ Apart(t) /\ Len(t) = z - 1
      /\ \A k \in 1 .. z - 1 : t[k] = st[k]
      /\ home = IF st[z].kind = "msg" THEN m ELSE st[z].b
      /\ st[z].kind = "rep" => st[z - 1].kind = "msg"
  <2>1. /\ m \in Nat /\ Chain(st, m) /\ Apart(st) /\ z = Len(st) /\ z >= 2 /\ t = Front(st)
        /\ home = Home(st, z - 1)
    BY <1>1
  <2> QED
    BY ONLY <2>1, PopChain
<1>3. ASSUME NEW k \in 1 .. Len(t) PROVE FrameIn(bs, t[k], Started(t, late, k), clean)
  <2>1. z \in Nat
    BY <1>1, ChainIs
  <2>2. k \in 1 .. Len(st) /\ k < Len(st) /\ t[k] = st[k]
    BY <1>2, <2>1
  <2>3. Started(t, late, k) = Started(st, val, k)
    BY <2>2, StartedBelow
  <2>4. FrameIn(bs, st[k], Started(st, val, k), clean)
    BY <2>2 DEF Under, Memory
  <2> QED
    BY <2>2, <2>3, <2>4
<1>4. Memory(bs, t, late, clean)
  BY <1>3 DEF Memory, Under
<1>5. 1 \in 1 .. z - 1 /\ z - 1 \in 1 .. z - 1 /\ home = m
  BY <1>1, <1>2, ChainIs
<1> QED
  BY <1>1, <1>2, <1>4, <1>5 DEF Under, SameRoot

\* A message is begun.
LEMMA PushMsg ==
    ASSUME NEW bs, NEW st, NEW val, NEW clean, Under(bs, st, val, clean), NEW z, z = Len(st), NEW i, NEW o,
           IF st[z].kind = "rep" THEN val /\ i = st[z].b /\ st[z].f = "r" /\ o = st[z].it
           ELSE i = Len(bs),
           MsgIn(bs[i], o), NEW t, t = Append(st, MsgFrame(i, o)), NEW late
    PROVE  Under(bs, t, late, clean) /\ SameRoot(st, t)
<1>1. PICK m, fr : m \in Nat /\ m = Len(bs) /\ Chain(st, m) /\ Apart(st) /\ fr = MsgFrame(i, o)
  BY DEF Under, Memory, IsSequence
<1>2. z \in Nat /\ z \in 1 .. Len(st) /\ z >= 1
  BY <1>1, ChainIs
<1>3. fr.kind = "msg" /\ fr.b = i /\ fr.o = o /\ IsFrame(fr)
  <2>1. fr = [kind |-> "msg", b |-> i, o |-> o, doc |-> EmptyDoc]
    BY <1>1 DEF MsgFrame
  <2>2. fr.kind = "msg" /\ fr.b = i /\ fr.o = o /\ fr.doc = EmptyDoc
    BY <2>1
  <2> QED
    BY <2>1, <2>2 DEF IsFrame, IsMsg
<1>4. Chain(t, m) /\ Apart(t) /\ Len(t) = z + 1 /\ t[z + 1] = fr /\ \A k \in 1 .. z : t[k] = st[k]
  <2>1. Pushed(st, m, fr, t, m)
    BY <1>1, <1>3 DEF Pushed
  <2>2. Pushed(st, m, fr, t, m) /\ z = Len(st)
    BY <2>1
  <2> QED
    BY ONLY <2>2, PushChain
<1>5. ASSUME NEW k \in 1 .. Len(t) PROVE FrameIn(bs, t[k], Started(t, late, k), clean)
  <2>1. CASE k = z + 1
    BY <1>3, <1>4, <2>1 DEF FrameIn
  <2>2. CASE k # z + 1
    <3>1. k \in 1 .. z /\ t[k] = st[k] /\ k < Len(t)
      BY <1>2, <1>4, <2>2
    <3>2. Started(t, late, k) = Len(st[k].items) + 1
      BY <3>1, StartedBelow
    <3>3. FrameIn(bs, st[k], Started(st, val, k), clean)
      BY <3>1 DEF Under, Memory
    <3>4. CASE st[k].kind = "msg"
      BY <3>1, <3>3, <3>4 DEF FrameIn
    <3>5. CASE st[k].kind # "msg"
      <4>1. k < Len(st) \/ val
        <5>1. k < z \/ k = z
          BY <1>2, <3>1
        <5>2. st[k].kind = "rep"
          BY <1>1, <3>1, <3>5, ChainIs
        <5> QED
          BY <5>1, <5>2
      <4>2. Started(st, val, k) = Len(st[k].items) + 1
        BY <4>1, StartedBelow
      <4> QED
        BY <3>1, <3>2, <3>3, <4>2
    <3> QED
      BY <3>4, <3>5
  <2> QED
    BY <2>1, <2>2
<1>6. Memory(bs, t, late, clean)
  BY <1>5 DEF Memory, Under
<1>7. SameRoot(st, t)
  BY <1>2, <1>4 DEF SameRoot
<1> QED
  BY <1>1, <1>4, <1>6, <1>7 DEF Under

\* The element that is due in an array of messages is a message.
LEMMA ElementMsg ==
    ASSUME NEW bs, NEW st, NEW val, val, NEW clean, Under(bs, st, val, clean), NEW z, z = Len(st),
           NEW g, g = st[z], g.kind = "rep", g.f = "r"
    PROVE  MsgIn(bs[g.b], g.it)
<1>1. PICK j, d, b : j = Len(g.items) /\ d = 1 /\ b = bs[g.b]
  OBVIOUS
<1>2. ArrFacts(b, g, j, d)
  <2>1. Under(bs, st, val, clean) /\ z = Len(st) /\ g = st[z] /\ g.kind = "rep" /\ b = bs[g.b]
        /\ j = Len(g.items) /\ d \in {0, 1} /\ (IF val THEN d = 1 ELSE d = 0)
    BY <1>1, Zenon
  <2>2. /\ Started(st, val, z) = j + d
        /\ g.b \in 1 .. Len(bs) /\ GoodBuf(b, clean) /\ (clean => ArrClean(bs, g, j + d))
        /\ ArrFacts(b, g, j, d)
    BY ONLY <2>1, TopArr
  <2> QED
    BY <2>2
<1>3. PICK o, e : o = g.first /\ e = g.it
  OBVIOUS
<1>4. /\ j \in Nat /\ b.len \in Nat /\ IsFirst(o) /\ o.off \in Nat /\ o.off >= 8
      /\ o.off + (j + 1) * ObjSize(o) = b.len /\ o.ssize = ElemSsize(g.f) /\ o.psize = ElemPsize(g.f)
      /\ e = Element(o, j + 1) /\ e.off \in Nat /\ e.off >= o.off /\ e.off % 4 = 0
      /\ o.off + (j + 1) * ObjSize(o) = e.off + ObjSize(o)
  BY <1>1, <1>2, <1>3 DEF ArrFacts
<1>5. o = [n |-> 1, off |-> o.off, ssize |-> 4, psize |-> 5] /\ ObjSize(o) = 24
  <2>1. o.ssize = 4 /\ o.psize = 5
    BY <1>4 DEF ElemSsize, ElemPsize, MsgSsize, MsgPsize
  <2> QED
    BY <1>4, <2>1 DEF IsFirst, Object, ObjSize
<1>6. e = Object(1, e.off, MsgSsize, MsgPsize)
  <2>1. e = [o EXCEPT !.off = @ + (j + 1 - 1) * ObjSize(o)]
    BY <1>4 DEF Element
  <2>2. e = [n |-> 1, off |-> o.off + (j + 1 - 1) * ObjSize(o), ssize |-> 4, psize |-> 5]
    BY <1>5, <2>1
  <2> QED
    BY <2>2 DEF Object, MsgSsize, MsgPsize
<1>7. e.off + 24 <= b.len /\ e.off >= 8 /\ e.off >= 4
  <2>1. PICK x \in Nat, y \in Nat, w \in Nat : x = o.off /\ y = e.off /\ w = b.len
    BY <1>4
  <2>2. y + 24 = w /\ y >= x /\ x >= 8
    BY <1>4, <1>5, <2>1
  <2> QED
    BY <2>1, <2>2
<1>8. MsgIn(b, e)
  BY <1>4, <1>6, <1>7 DEF MsgIn
<1> QED
  BY <1>1, <1>3, <1>8

\* An array is begun: c is the buffer with its first element, and ds has the new
\* buffer too if there is to be one.
LEMMA PushRep ==
    ASSUME NEW bs, NEW st, NEW val, NEW clean, Under(bs, st, val, clean), NEW z, z = Len(st),
           st[z].kind = "msg", NEW f \in Repeated, NEW m, m = Len(bs),
           NEW o, o = NewArr(bs[m], 1, ElemSsize(f), ElemPsize(f)),
           NEW c, c = AllocArr(bs[m], 1, ElemSsize(f), ElemPsize(f)), NEW cs, Differs(bs, cs, m, c),
           NEW ds, ds = (IF NeedsBuf(f) THEN Append(cs, NewBuf(0)) ELSE cs),
           NEW t, t = Append(st, RepFrame(m, o, f)), NEW late, late
    PROVE  Under(ds, t, late, clean) /\ SameRoot(st, t)
<1>1. m \in Nat /\ Chain(st, m) /\ Apart(st)
  BY DEF Under, Memory, IsSequence
<1>2. PICK b, fr : b = bs[m] /\ fr = RepFrame(m, o, f)
  OBVIOUS
<1>3. z \in Nat /\ z >= 1 /\ z \in 1 .. Len(st) /\ m >= 1 /\ m \in 1 .. Len(bs)
  BY <1>1, ChainIs
<1>4. GoodBuf(b, clean) /\ IsBuf(b) /\ b.len \in Nat
  BY <1>2, <1>3 DEF Under, Memory, GoodBuf, IsBuf
<1>5. PICK ss \in Nat, ps \in Nat : ss = ElemSsize(f) /\ ps = ElemPsize(f) /\ ss % 4 = 0
  <2>1. f \in {"r", "xs", "ss"}
    BY DEF Repeated
  <2>2. f = "r" => ElemSsize(f) = 4 /\ ElemPsize(f) = 5
    BY DEF ElemSsize, ElemPsize, MsgSsize, MsgPsize
  <2>3. f = "xs" => ElemSsize(f) = 4 /\ ElemPsize(f) = 0
    BY DEF ElemSsize, ElemPsize
  <2>4. f = "ss" => ElemSsize(f) = 0 /\ ElemPsize(f) = 1
    BY DEF ElemSsize, ElemPsize
  <2>5. 4 % 4 = 0 /\ 0 % 4 = 0
    OBVIOUS
  <2> QED
    BY ONLY <2>1, <2>2, <2>3, <2>4, <2>5
<1>6. /\ Kept(b, c, {}) /\ IsArr(c, o) /\ o.ssize = ss /\ o.psize = ps
      /\ o.off >= b.len + 8 /\ c.len = o.off + ObjSize(o)
  BY <1>2, <1>4, <1>5, AllocArrIs
<1>7. PICK off \in Nat, len \in Nat, size \in Nat : /\ off = o.off /\ len = c.len /\ size = ObjSize(o)
                                                    /\ len = off + size /\ off % 4 = 0 /\ IsFirst(o)
  <2>1. IsFirst(o)
    BY <1>6 DEF IsArr
  <2>2. ObjSize(o) \in Nat /\ o.off \in Nat /\ o.off % 4 = 0
    BY ONLY <2>1 DEF IsFirst, ObjSize
  <2>3. c.len \in Nat
    BY <1>6 DEF Kept, IsBuf
  <2> QED
    BY <1>6, <2>1, <2>2, <2>3
<1>8. ASSUME clean PROVE Clear(c, off \div 4)
  <2>1. Clear(b, Words(b.len) + 1)
    BY <1>4, <1>8 DEF GoodBuf
  <2> QED
    BY <1>2, <1>4, <1>5, <1>7, <2>1, AllocArrClear
<1>9. GoodBuf(c, clean)
  <2>1. ASSUME clean PROVE Clear(c, Words(len) + 1)
    <3>1. off \div 4 \in Int /\ Words(len) + 1 \in Int /\ off \div 4 <= Words(len) + 1
      <4>1. off <= len
        BY <1>7
      <4> QED
        BY ONLY <4>1, off \in Nat, len \in Nat DEF Words
    <3>2. c.cap \in Nat
      BY <1>6 DEF Kept, IsBuf
    <3> QED
      BY <1>8, <2>1, <3>1, <3>2, ClearFrom
  <2> QED
    BY <1>6, <1>7, <2>1 DEF GoodBuf, Kept
<1>10. Under(cs, st, val, clean)
  <2>1. /\ Under(bs, st, val, clean) /\ m = Len(bs) /\ (st[Len(st)].kind = "rep" => NeedsBuf(st[Len(st)].f))
        /\ GoodBuf(c, clean) /\ Kept(bs[m], c, {}) /\ Differs(bs, cs, m, c)
    BY <1>2, <1>6, <1>9
  <2> QED
    BY ONLY <2>1, GrowCur
<1>11. IsSequence(cs) /\ Len(cs) = m /\ cs[m] = c
  BY DEF Differs
<1>12. PICK home : home \in Nat /\ home = (IF NeedsBuf(f) THEN m + 1 ELSE m) /\ home >= m
  BY <1>1
<1>13. IsSequence(ds) /\ Len(ds) = home /\ \A i \in 1 .. m : ds[i] = cs[i]
  <2>1. CASE NeedsBuf(f)
    <3>1. /\ IsSequence(Append(cs, NewBuf(0))) /\ Len(Append(cs, NewBuf(0))) = Len(cs) + 1
          /\ Append(cs, NewBuf(0))[Len(cs) + 1] = NewBuf(0)
          /\ \A j \in 1 .. Len(cs) : Append(cs, NewBuf(0))[j] = cs[j]
      BY <1>11, AppendIs
    <3> QED
      BY <1>11, <1>12, <2>1, <3>1
  <2>2. CASE ~NeedsBuf(f)
    BY <1>11, <1>12, <2>2
  <2> QED
    BY <2>1, <2>2
<1>14. NeedsBuf(f) => ds[m + 1] = NewBuf(0)
  BY <1>11, AppendIs
<1>15. \A i \in 1 .. home : GoodBuf(ds[i], clean)
  <2> SUFFICES ASSUME NEW i \in 1 .. home PROVE GoodBuf(ds[i], clean)
    OBVIOUS
  <2>1. CASE i \in 1 .. m
    BY <1>10, <1>11, <1>13, <2>1 DEF Under, Memory
  <2>2. CASE i \notin 1 .. m
    <3>1. NeedsBuf(f) /\ i = m + 1
      BY <1>1, <1>12, <2>2
    <3>2. PICK e : e = NewBuf(0)
      OBVIOUS
    <3>3. IsBuf(e) /\ e.len = 0 /\ ds[i] = e
      <4>1. 0 \in Nat
        OBVIOUS
      <4> QED
        BY <1>14, <3>1, <3>2, <4>1, NewBufIs
    <3>4. Clear(e, Words(e.len) + 1)
      BY <3>2 DEF Clear, NewBuf, Words
    <3> QED
      BY <3>3, <3>4 DEF GoodBuf
  <2> QED
    BY <2>1, <2>2
<1>16. /\ fr.kind = "rep" /\ fr.b = m /\ fr.first = o /\ fr.it = o /\ fr.f = f /\ Len(fr.items) = 0
       /\ IsFrame(fr)
  <2>1. fr = [kind |-> "rep", b |-> m, first |-> o, it |-> o, f |-> f, items |-> <<>>]
    BY <1>2 DEF RepFrame
  <2>2. fr.kind = "rep" /\ fr.b = m /\ fr.first = o /\ fr.it = o /\ fr.f = f /\ fr.items = <<>>
    BY <2>1
  <2>3. IsSequence(<<>>) /\ Len(<<>>) = 0
    BY DEF IsSequence
  <2> QED
    BY <2>1, <2>2, <2>3 DEF IsFrame, IsRep
<1>17. ASSUME NEW j \in 1 .. z, st[j].kind = "msg", st[j].b = m PROVE o.off >= 12
  <2>1. FrameIn(bs, st[j], Started(st, val, j), clean)
    BY DEF Under, Memory
  <2>2. MsgIn(b, st[j].o)
    BY <1>2, <1>17, <2>1 DEF FrameIn
  <2>3. PICK x \in Nat, y \in Nat : x = st[j].o.off /\ y = b.len /\ x >= 4 /\ x + 24 <= y
    BY <1>4, <2>2 DEF MsgIn
  <2>4. off >= y + 8 /\ o.off = off
    BY <1>6, <1>7, <2>3
  <2> QED
    BY ONLY <2>3, <2>4, x \in Nat, y \in Nat, off \in Nat
<1>18. Chain(t, home) /\ Apart(t) /\ Len(t) = z + 1 /\ t[z + 1] = fr /\ \A k \in 1 .. z : t[k] = st[k]
  <2>1. home = IF fr.kind = "rep" THEN fr.b + (IF NeedsBuf(fr.f) THEN 1 ELSE 0) ELSE m
    BY <1>1, <1>12, <1>16
  <2>2. Pushed(st, m, fr, t, home) /\ z = Len(st)
    BY <1>1, <1>2, <1>16, <1>17, <2>1 DEF Pushed
  <2> QED
    BY ONLY <2>2, PushChain
<1>19. ArrIn(c, fr, 1)
  <2>1. fr.it = Element(fr.first, Len(fr.items) + 1)
    <3>1. o = [n |-> 1, off |-> off, ssize |-> ss, psize |-> ps]
      BY <1>6, <1>7 DEF IsFirst, Object
    <3>2. off + (0 + 1 - 1) * ObjSize(o) = off
      BY <1>7
    <3>3. Element(o, 0 + 1) = [n |-> 1, off |-> off + (0 + 1 - 1) * ObjSize(o), ssize |-> ss, psize |-> ps]
      BY <3>1 DEF Element
    <3> QED
      BY <1>16, <3>1, <3>2, <3>3
  <2>2. AtEnd(c, o, 1)
    BY <1>7 DEF AtEnd
  <2> QED
    BY <1>5, <1>6, <1>16, <2>1, <2>2 DEF ArrIn
<1>20. ASSUME clean PROVE ArrClean(ds, fr, 1)
  <2> SUFFICES ASSUME o.psize > 0 PROVE ArrClean(ds, fr, 1)
    BY <1>16 DEF ArrClean
  <2>1. ds[m] = c
    BY <1>3, <1>11, <1>13
  <2>2. PICK more : more = ds[m + 1].len
    OBVIOUS
  <2>3. PtrsTo(c, o, 1, more)
    <3>1. IsBuf(c) /\ IsFirst(o) /\ 1 \in Nat /\ o.off + 1 * ObjSize(o) <= c.len /\ Clear(c, o.off \div 4)
      BY <1>6, <1>7, <1>8, <1>20 DEF Kept
    <3> QED
      BY ONLY <3>1, ZeroPtrs
  <2>4. Clear(c, c.len \div 4)
    <3>1. off \div 4 \in Int /\ c.len \div 4 \in Int /\ off \div 4 <= c.len \div 4
      <4>1. off <= len /\ c.len = len
        BY <1>7
      <4> QED
        BY ONLY <4>1, off \in Nat, len \in Nat
    <3>2. c.cap \in Nat
      BY <1>6 DEF Kept, IsBuf
    <3> QED
      BY <1>8, <1>20, <3>1, <3>2, ClearFrom
  <2> QED
    BY <1>16, <2>1, <2>2, <2>3, <2>4 DEF ArrClean
<1>21. ASSUME NEW k \in 1 .. z PROVE FrameIn(ds, st[k], Started(t, late, k), clean)
  <2>1. /\ IsFrame(st[k]) /\ st[k].kind \in {"msg", "rep"} /\ st[k].b \in 1 .. m
        /\ FrameIn(cs, st[k], Started(st, val, k), clean)
    BY <1>1, <1>10, ChainIs DEF Under, Memory, Chain
  <2>2. ds[st[k].b] = cs[st[k].b] /\ IsBuf(cs[st[k].b])
    BY <1>10, <1>11, <1>13, <2>1 DEF Under, Memory, GoodBuf
  <2>3. CASE st[k].kind = "msg"
    BY <2>1, <2>2, <2>3 DEF FrameIn
  <2>4. CASE st[k].kind = "rep"
    <3>1. k # z /\ k < Len(st) /\ k < Len(t)
      BY <1>3, <1>18, <2>4
    <3>2. Started(t, late, k) = Started(st, val, k) /\ Started(st, val, k) \in Nat
      <4>1. Started(st, val, k) \in Nat
        BY <2>1, <2>4, StartedIs
      <4>2. Started(st, val, k) = Len(st[k].items) + 1 /\ Started(t, late, k) = Len(t[k].items) + 1
        BY <3>1, StartedBelow
      <4> QED
        BY <1>18, <4>1, <4>2
    <3>3. NeedsBuf(st[k].f) => IsBuf(cs[st[k].b + 1]) /\ IsBuf(ds[st[k].b + 1])
                               /\ cs[st[k].b + 1].len <= ds[st[k].b + 1].len
      <4>1. st[k].b + 1 \in 1 .. m
        BY <1>10, <1>11, <2>4, <3>1, NextBuf
      <4>2. ds[st[k].b + 1] = cs[st[k].b + 1] /\ IsBuf(cs[st[k].b + 1])
        BY <1>10, <1>11, <1>13, <4>1 DEF Under, Memory, GoodBuf
      <4>3. PICK more \in Nat : more = cs[st[k].b + 1].len
        BY <4>2 DEF IsBuf
      <4>4. more <= more
        OBVIOUS
      <4> QED
        BY <4>2, <4>3, <4>4
    <3> QED
      BY <2>1, <2>2, <3>2, <3>3, FrameSame
  <2> QED
    BY <2>1, <2>3, <2>4
<1>22. FrameIn(ds, fr, Started(t, late, z + 1), clean)
  <2>1. Started(t, late, z + 1) = Len(t[z + 1].items) + 1
    BY ZenonT(60), StartedBelow
  <2>2. Started(t, late, z + 1) = 1
    <3>1. Len(t[z + 1].items) = 0
      BY <1>16, <1>18
    <3> QED
      BY ONLY <2>1, <3>1
  <2>3. ds[m] = c
    BY <1>3, <1>11, <1>13
  <2> QED
    BY <1>16, <1>19, <1>20, <2>2, <2>3 DEF FrameIn
<1>23. \A k \in 1 .. Len(t) : FrameIn(ds, t[k], Started(t, late, k), clean)
  <2> SUFFICES ASSUME NEW k \in 1 .. Len(t) PROVE FrameIn(ds, t[k], Started(t, late, k), clean)
    OBVIOUS
  <2>1. k = z + 1 \/ k \in 1 .. z
    BY <1>3, <1>18
  <2> QED
    BY <1>18, <1>21, <1>22, <2>1
<1>24. Memory(ds, t, late, clean)
  BY <1>13, <1>15, <1>23 DEF Memory
<1>25. SameRoot(st, t)
  BY <1>3, <1>18 DEF SameRoot
<1> QED
  BY <1>13, <1>18, <1>24, <1>25 DEF Under

\* The array g, whose elements are complete, with what they point to
Finished(bs, g) ==
    LET r == ResizeArr(bs[g.b], g.first, Len(g.items))
    IN  IF g.first.psize > 0 THEN FixArr(r, g.first, Len(g.items), bs[Len(bs)]) ELSE r

\* What becomes of the buffer of an array when it is finished
LEMMA FinishedIs ==
    ASSUME NEW bs, NEW st, NEW val, ~val, NEW clean, Under(bs, st, val, clean), NEW z, z = Len(st),
           NEW g, g = st[z], g.kind = "rep", NEW c, c = Finished(bs, g), NEW b, b = bs[g.b]
    PROVE  /\ g.b \in 1 .. Len(bs) /\ IsBuf(b) /\ GoodBuf(c, clean)
           /\ \E S : Kept(b, c, S) /\ (g.first.off >= 12 => 0 \notin S)
           /\ HdrOffset(c, g.first) \in Nat /\ HdrOffset(c, g.first) < c.len
<1>1. PICK j, d : j = Len(g.items) /\ d = 0
  OBVIOUS
<1>2. /\ g.b \in 1 .. Len(bs) /\ GoodBuf(b, clean) /\ (clean => ArrClean(bs, g, j + 0))
      /\ ArrFacts(b, g, j, 0)
  <2>1. /\ Started(st, val, z) = j + d
        /\ g.b \in 1 .. Len(bs) /\ GoodBuf(b, clean) /\ (clean => ArrClean(bs, g, j + d))
        /\ ArrFacts(b, g, j, d)
    <3>1. Under(bs, st, val, clean) /\ z = Len(st) /\ g = st[z] /\ g.kind = "rep" /\ b = bs[g.b]
          /\ j = Len(g.items) /\ d \in {0, 1} /\ (IF val THEN d = 1 ELSE d = 0)
      BY <1>1, Zenon
    <3> QED
      BY ONLY <3>1, TopArr
  <2> QED
    BY <1>1, <2>1
<1>3. PICK o : o = g.first
  OBVIOUS
<1>4. /\ j \in Nat /\ IsBuf(b) /\ IsArr(b, o) /\ IsFirst(o) /\ o.off \in Nat /\ o.off >= 8 /\ o.off % 4 = 0
      /\ b.len \in Nat /\ b.len % 4 = 0 /\ o.off <= b.len /\ o.off + j * ObjSize(o) <= b.len
      /\ o.psize \in Nat
  <2>1. /\ j \in Nat /\ IsBuf(b) /\ b.len \in Nat /\ ArrIn(b, g, j + 0)
        /\ IsFirst(o) /\ o.off \in Nat /\ o.off >= 8
        /\ o.off + (j + 0) * ObjSize(o) = b.len /\ g.it.off \in Nat /\ g.it.off >= o.off
        /\ g.it.off % 4 = 0 /\ g.it.off = o.off + j * ObjSize(o)
    BY <1>2, <1>3 DEF ArrFacts
  <2>2. j + 0 = j /\ IsArr(b, o) /\ o.psize \in Nat /\ o.off % 4 = 0
    BY <1>3, <2>1 DEF ArrIn, IsFirst
  <2>3. PICK x \in Nat, y \in Nat : x = o.off /\ y = b.len /\ y = g.it.off /\ y >= x
    BY <2>1, <2>2
  <2>4. y <= y
    OBVIOUS
  <2> QED
    BY <2>1, <2>2, <2>3, <2>4
<1>5. PICK x \in Nat, w \in Nat : /\ o.off = 4 * x /\ o.off \div 4 = x /\ x >= 2 /\ b.len = 4 * w
                                  /\ b.len \div 4 = w /\ Words(b.len) = w /\ x <= w
  <2>1. PICK p \in Nat, q \in Nat : p = o.off /\ q = b.len /\ p % 4 = 0 /\ q % 4 = 0 /\ p >= 8 /\ p <= q
    BY <1>4
  <2>2. PICK x \in Nat, w \in Nat : p = 4 * x /\ q = 4 * w
    BY <2>1
  <2>3. (4 * x) \div 4 = x /\ (4 * w) \div 4 = w /\ (4 * w + 3) \div 4 = w
    OBVIOUS
  <2>4. x >= 2 /\ x <= w
    BY ONLY <2>1, <2>2, x \in Nat, w \in Nat
  <2> QED
    BY <2>1, <2>2, <2>3, <2>4 DEF Words
<1>6. PICK r : r = ResizeArr(b, o, j)
  OBVIOUS
<1>7. IsBuf(r) /\ Kept(b, r, {x - 2, x - 1}) /\ r.len = b.len
  <2>1. /\ Kept(b, r, {o.off \div 4 - 2, o.off \div 4 - 1}) /\ r.len = b.len
    BY <1>4, <1>6, ResizeArrIs
  <2> QED
    BY <1>5, <2>1 DEF Kept
<1>8. ASSUME NEW at \in Nat, Clear(b, at), x <= at PROVE Clear(r, at)
  <2>1. o.off \div 4 <= at
    BY <1>5, <1>8
  <2> QED
    BY <1>4, <1>6, <1>8, <2>1, ResizeArrClear
<1>9. PICK S : /\ Kept(b, c, S) /\ GoodBuf(c, clean) /\ (x >= 3 => 0 \notin S) /\ b.len <= c.len
  <2>1. CASE ~(o.psize > 0)
    <3>1. c = r
      BY <1>1, <1>3, <1>6, <2>1 DEF Finished
    <3>2. ASSUME clean PROVE Clear(r, Words(b.len) + 1)
      <4>1. Words(b.len) + 1 \in Nat /\ x <= Words(b.len) + 1 /\ Clear(b, Words(b.len) + 1)
        BY <1>2, <1>5, <3>2 DEF GoodBuf
      <4> QED
        BY <1>8, <4>1
    <3>3. GoodBuf(r, clean)
      BY <1>7, <3>2 DEF GoodBuf
    <3>4. x >= 3 => 0 \notin {x - 2, x - 1}
      OBVIOUS
    <3>5. PICK T : T = {x - 2, x - 1}
      OBVIOUS
    <3>6. Kept(b, c, T) /\ GoodBuf(c, clean) /\ (x >= 3 => 0 \notin T) /\ b.len <= c.len
      BY <1>7, <3>1, <3>3, <3>4, <3>5 DEF Kept
    <3> QED
      BY ONLY <3>6
  <2>2. CASE o.psize > 0
    <3>1. PICK newbuf : newbuf = bs[Len(bs)]
      OBVIOUS
    <3>2. IsBuf(newbuf)
      <4>1. Len(bs) \in 1 .. Len(bs)
        BY <1>2
      <4> QED
        BY <3>1, <4>1 DEF Under, Memory, GoodBuf
    <3>3. c = FixArr(r, o, j, newbuf)
      BY <1>1, <1>3, <1>6, <2>2, <3>1 DEF Finished
    <3>4. PICK P : P = {q \div 4 : q \in Pointers(o, j)}
      OBVIOUS
    <3>5. Kept(r, c, P) /\ c.len = IF newbuf.len > 0 THEN Start(r) + newbuf.len ELSE r.len
      <4>1. IsBuf(r) /\ IsBuf(newbuf) /\ c = FixArr(r, o, j, newbuf)
        BY <1>7, <3>2, <3>3 DEF Kept
      <4>2. /\ Kept(r, c, {q \div 4 : q \in Pointers(o, j)})
            /\ c.len = IF newbuf.len > 0 THEN Start(r) + newbuf.len ELSE r.len
            /\ FoundAt(newbuf, c, Start(r) \div 4)
            /\ PointersFixed(r, o, j, c)
        BY ONLY <4>1, FixArrIs
      <4> QED
        BY <3>4, <4>2
    <3>6. Kept(b, c, {x - 2, x - 1} \cup P) /\ b.len <= c.len
      <4>1. Kept(b, c, {x - 2, x - 1} \cup P)
        BY <1>4, <1>7, <3>5, KeptTwice
      <4> QED
        BY <4>1 DEF Kept
    <3>7. x >= 3 => 0 \notin {x - 2, x - 1} \cup P
      <4> SUFFICES ASSUME x >= 3, NEW q \in Pointers(o, j), q \div 4 = 0 PROVE FALSE
        BY <3>4
      <4>1. q \in Nat /\ q % 4 = 0 /\ q = 4 * (q \div 4) /\ q >= o.off /\ q + 4 <= o.off + j * ObjSize(o)
        BY <1>4, PointersWithin
      <4> QED
        BY <1>5, <4>1
    <3>8. ASSUME clean PROVE Clear(c, Words(c.len) + 1)
      <4>1. Clear(b, w)
        BY <1>2, <1>3, <1>5, <2>2, <3>8 DEF ArrClean
      <4>2. Clear(r, Words(r.len))
        BY <1>5, <1>7, <1>8, <4>1
      <4>3. o.off + j * ObjSize(o) <= r.len
        BY <1>4, <1>7
      <4>4. Clear(c, Words(c.len))
        BY <1>4, <1>7, <3>2, <3>3, <4>2, <4>3, FixArrClear
      <4>5. c.len \in Nat /\ c.cap \in Nat
        BY <3>5 DEF Kept, IsBuf
      <4>6. Words(c.len) \in Int /\ Words(c.len) + 1 \in Int /\ Words(c.len) <= Words(c.len) + 1
        BY <4>5, WordsIs
      <4> QED
        BY <4>4, <4>5, <4>6, ClearFrom
    <3>9. GoodBuf(c, clean)
      BY <3>5, <3>8 DEF GoodBuf, Kept
    <3>10. PICK T : T = {x - 2, x - 1} \cup P
      OBVIOUS
    <3>11. Kept(b, c, T) /\ GoodBuf(c, clean) /\ (x >= 3 => 0 \notin T) /\ b.len <= c.len
      BY <3>6, <3>7, <3>9, <3>10
    <3> QED
      BY ONLY <3>11
  <2> QED
    BY <2>1, <2>2
<1>10. HdrOffset(c, o) \in Nat /\ HdrOffset(c, o) < c.len
  <2>1. /\ HdrOffset(c, o) \in Nat /\ HdrOffset(c, o) % 4 = 0
        /\ HdrOffset(c, o) \in {o.off - 4, o.off - 8}
    BY <1>4, HdrOffsetIs
  <2>2. PICK len \in Nat, off \in Nat : len = c.len /\ off = o.off /\ off <= len
    <3>1. c.len \in Nat
      BY <1>9 DEF GoodBuf, IsBuf
    <3>2. PICK bl \in Nat, cl \in Nat : bl = b.len /\ cl = c.len /\ bl <= cl
      BY <1>4, <1>9, <3>1
    <3>3. PICK off \in Nat : off = o.off /\ off <= bl
      BY <1>4, <3>2
    <3> QED
      BY <3>2, <3>3
  <2> QED
    BY <2>1, <2>2
<1>11. g.first.off >= 12 => x >= 3
  BY <1>3, <1>5
<1> QED
  BY <1>2, <1>3, <1>4, <1>9, <1>10, <1>11

\* Between two elements of the innermost array
OnArr(bs, st, val, clean, z, g) ==
    ~val /\ Under(bs, st, val, clean) /\ z = Len(st) /\ g = st[z] /\ g.kind = "rep"

\* The innermost array is finished, and the buffer built for its elements dropped.
LEMMA PopRep ==
    ASSUME NEW bs, NEW st, NEW val, NEW clean, NEW z, NEW g, OnArr(bs, st, val, clean, z, g),
           NEW c, c = Finished(bs, g),
           NEW cs, cs = [i \in 1 .. g.b |-> IF i = g.b THEN c ELSE bs[i]],
           NEW t, t = Front(st), NEW late
    PROVE  /\ Under(cs, t, late, clean) /\ SameRoot(st, t) /\ Len(cs) = g.b /\ cs[g.b] = c
           /\ z >= 2 /\ Len(t) = z - 1 /\ t[z - 1] = st[z - 1] /\ t[z - 1].kind = "msg"
           /\ HdrOffset(c, g.first) \in Nat /\ HdrOffset(c, g.first) < c.len
<1> USE DEF OnArr
<1>1. PICK m, home : /\ m \in Nat /\ m = Len(bs) /\ Chain(st, m) /\ Apart(st) /\ home = Home(st, z - 1)
  BY DEF Under, Memory, IsSequence
<1>2. z \in Nat /\ z >= 2 /\ z \in 1 .. Len(st)
  <2>1. z \in Nat /\ z >= 1 /\ st[1].kind = "msg"
    BY <1>1, ChainIs DEF Chain
  <2> QED
    BY <2>1
<1>3. /\ Chain(t, home) /\ Apart(t) /\ Len(t) = z - 1
      /\ \A k \in 1 .. z - 1 : t[k] = st[k]
      /\ home = IF st[z].kind = "msg" THEN m ELSE st[z].b
      /\ st[z].kind = "rep" => st[z - 1].kind = "msg"
  <2>1. /\ m \in Nat /\ Chain(st, m) /\ Apart(st) /\ z = Len(st) /\ z >= 2 /\ t = Front(st)
        /\ home = Home(st, z - 1)
    BY <1>1, <1>2
  <2> QED
    BY ONLY <2>1, PopChain
<1>4. PICK b : b = bs[g.b]
  OBVIOUS
<1>5. /\ g.b \in 1 .. Len(bs) /\ IsBuf(b) /\ GoodBuf(c, clean)
      /\ \E S : Kept(b, c, S) /\ (g.first.off >= 12 => 0 \notin S)
      /\ HdrOffset(c, g.first) \in Nat /\ HdrOffset(c, g.first) < c.len
  BY <1>4, FinishedIs
<1>6. PICK S : Kept(b, c, S) /\ (g.first.off >= 12 => 0 \notin S)
  BY <1>5
<1>7. PICK y \in Nat : y = g.b /\ y >= 1 /\ y <= Len(bs)
  BY <1>1, <1>5
<1>8. IsSequence(cs) /\ Len(cs) = g.b /\ cs[g.b] = c /\ \A i \in 1 .. y : i # g.b => cs[i] = bs[i]
  <2>1. cs[g.b] = c /\ \A i \in 1 .. y : i # g.b => cs[i] = bs[i]
    BY <1>7
  <2>2. cs = [i \in 1 .. y |-> cs[i]]
    BY <1>7
  <2>3. IsSequence(cs) /\ Len(cs) = y
    BY <2>2, RowIs
  <2> QED
    BY <1>7, <2>1, <2>3
<1>9. \A i \in 1 .. y : i \in 1 .. Len(bs) /\ GoodBuf(bs[i], clean) /\ GoodBuf(cs[i], clean)
  <2> SUFFICES ASSUME NEW i \in 1 .. y
               PROVE  i \in 1 .. Len(bs) /\ GoodBuf(bs[i], clean) /\ GoodBuf(cs[i], clean)
    OBVIOUS
  <2>1. i \in 1 .. Len(bs)
    BY <1>1, <1>7
  <2>2. GoodBuf(bs[i], clean)
    BY <2>1 DEF Under, Memory
  <2> QED
    BY <1>5, <1>8, <2>1, <2>2
<1>10. \A i \in 1 .. y : IsBuf(bs[i]) /\ IsBuf(cs[i]) /\ bs[i].len <= cs[i].len
  <2> SUFFICES ASSUME NEW i \in 1 .. y PROVE IsBuf(bs[i]) /\ IsBuf(cs[i]) /\ bs[i].len <= cs[i].len
    OBVIOUS
  <2>1. IsBuf(bs[i]) /\ IsBuf(cs[i])
    BY <1>9 DEF GoodBuf
  <2>2. CASE i = g.b
    BY <1>4, <1>6, <1>8, <2>1, <2>2 DEF Kept
  <2>3. CASE i # g.b
    <3>1. PICK len \in Nat : len = bs[i].len /\ len = cs[i].len
      BY <1>8, <2>1, <2>3 DEF IsBuf
    <3> QED
      BY <2>1, <3>1
  <2> QED
    BY <2>1, <2>2, <2>3
<1>11. ASSUME NEW k \in 1 .. z - 1 PROVE FrameIn(cs, t[k], Started(t, late, k), clean)
  <2>1. /\ k \in 1 .. z /\ k \in 1 .. Len(st) /\ k < Len(st) /\ k < z /\ t[k] = st[k] /\ k \in 1 .. Len(t)
    BY <1>2, <1>3
  <2>2. IsFrame(st[k]) /\ st[k].kind \in {"msg", "rep"} /\ FrameIn(bs, st[k], Started(st, val, k), clean)
    BY <1>1, <2>1, ChainIs DEF Under, Memory
  <2>3. PICK at \in Nat : at = st[k].b /\ at >= 1 /\ at <= y
    <3>1. st[k].b \in Nat /\ st[k].b >= 1
      BY <1>1, <2>1, ChainIs
    <3>2. st[k].b <= st[z].b
      BY <1>1, <1>2 DEF Chain
    <3> QED
      BY <1>7, <3>1, <3>2
  <2>4. CASE st[k].kind = "msg"
    <3>1. CASE at = y
      <4>1. MsgIn(b, st[k].o)
        BY <1>4, <1>7, <2>2, <2>3, <2>4, <3>1 DEF FrameIn
      <4>2. g.first.off >= 12
        BY <1>1, <1>2, <1>7, <2>3, <2>4, <3>1 DEF Apart
      <4>3. MsgIn(c, st[k].o)
        <5>1. b.len \in Nat
          BY <1>5 DEF IsBuf
        <5> QED
          BY <1>6, <4>1, <4>2, <5>1, MsgKept
      <4> QED
        BY <1>7, <1>8, <2>1, <2>3, <2>4, <3>1, <4>3 DEF FrameIn
    <3>2. CASE at # y
      <4>1. cs[st[k].b] = bs[st[k].b]
        BY <1>7, <1>8, <2>3, <3>2
      <4> QED
        BY <2>1, <2>2, <2>4, <4>1 DEF FrameIn
    <3> QED
      BY <3>1, <3>2
  <2>5. CASE st[k].kind = "rep"
    <3>1. at # y
      <4> SUFFICES ASSUME at = y PROVE FALSE
        OBVIOUS
      <4>1. st[k].b = st[z].b
        BY <1>7, <2>3
      <4>2. \/ k = z
            \/ /\ k = z - 1 /\ z > 1 /\ st[z].kind = "msg"
               /\ st[z].o = st[k].it /\ st[k].f = "r"
        BY <1>1, <2>1, <2>5, <4>1, OnTop
      <4> QED
        BY <2>1, <4>2
    <3>2. cs[st[k].b] = bs[st[k].b] /\ IsBuf(bs[st[k].b]) /\ st[k].b + 1 \in 1 .. y
      <4>1. at \in 1 .. y /\ at + 1 \in 1 .. y /\ at # g.b
        BY <1>7, <2>3, <3>1
      <4>2. cs[at] = bs[at] /\ IsBuf(bs[at])
        BY <1>8, <1>10, <4>1
      <4> QED
        BY <2>3, <4>1, <4>2
    <3>3. IsBuf(bs[st[k].b + 1]) /\ IsBuf(cs[st[k].b + 1]) /\ bs[st[k].b + 1].len <= cs[st[k].b + 1].len
      BY <1>10, <3>2
    <3>4. Started(t, late, k) = Started(st, val, k) /\ Started(st, val, k) \in Nat
      <4>1. Started(st, val, k) \in Nat
        BY <2>2, <2>5, StartedIs
      <4>2. k < Len(t)
        <5>1. st[z - 1].kind = "msg"
          BY <1>3
        <5>2. k # z - 1
          BY <2>5, <5>1
        <5> QED
          BY <1>2, <1>3, <5>2
      <4>3. Started(st, val, k) = Len(st[k].items) + 1 /\ Started(t, late, k) = Len(t[k].items) + 1
        BY <2>1, <4>2, StartedBelow
      <4> QED
        BY <2>1, <4>1, <4>3
    <3> QED
      BY <2>1, <2>2, <3>2, <3>3, <3>4, FrameSame
  <2> QED
    BY <2>2, <2>4, <2>5
<1>12. Memory(cs, t, late, clean)
  <2>1. \A i \in 1 .. Len(cs) : GoodBuf(cs[i], clean)
    BY <1>7, <1>8, <1>9
  <2>2. \A k \in 1 .. Len(t) : FrameIn(cs, t[k], Started(t, late, k), clean)
    BY <1>3, <1>11
  <2> QED
    BY <1>8, <2>1, <2>2 DEF Memory
<1>13. Under(cs, t, late, clean)
  <2>1. home = Len(cs)
    BY <1>3, <1>8
  <2> QED
    BY <1>3, <1>12, <2>1 DEF Under
<1>14. z - 1 \in 1 .. z - 1 /\ 1 \in 1 .. z - 1
  BY <1>2
<1> QED
  BY <1>2, <1>3, <1>5, <1>8, <1>13, <1>14 DEF SameRoot

-----------------------------------------------------------------------------
(* Pointers to what is complete *)

\* Where the header of a message is
LEMMA MsgHdr ==
    ASSUME NEW b, b.len \in Nat, NEW o, MsgIn(b, o)
    PROVE  HdrOffset(b, o) \in Nat /\ HdrOffset(b, o) < b.len
<1>1. PICK off \in Nat, len \in Nat : /\ off = o.off /\ len = b.len /\ off % 4 = 0 /\ off >= 4 /\ off + 24 <= len
                                      /\ (off >= 8 \/ Has(b.mem[0], HDR))
  BY DEF MsgIn
<1>2. CASE off >= 8
  BY <1>1, <1>2 DEF HdrOffset
<1>3. CASE ~(off >= 8)
  <2>1. off = 4
    BY <1>1, <1>3
  <2>2. WordAt(b, off - 4) = b.mem[0]
    <3>1. (off - 4) \div 4 = 0
      BY <2>1
    <3> QED
      BY <3>1 DEF WordAt
  <2>3. HdrOffset(b, o) = 0
    BY <1>1, <1>3, <2>1, <2>2 DEF HdrOffset
  <2> QED
    BY <1>1, <2>3
<1> QED
  BY <1>2, <1>3

\* What is complete at the end of the last buffer is tied to the innermost message.
LEMMA SetPtr ==
    ASSUME NEW bs, NEW st, NEW val, NEW clean, Under(bs, st, val, clean), NEW z, z = Len(st),
           NEW fr, fr = st[z], fr.kind = "msg", NEW i \in 0 .. 4, NEW m, m = Len(bs),
           NEW hdr, hdr \in Nat, hdr < bs[m].len,
           NEW c, c = SetP(bs[fr.b], fr.o, i, hdr, fr.b = m), NEW cs, cs = [bs EXCEPT ![fr.b] = c]
    PROVE  Under(cs, st, val, clean)
<1>1. m \in Nat /\ Chain(st, m) /\ z \in Nat /\ z >= 1 /\ z \in 1 .. Len(st) /\ fr.b \in 1 .. m /\ fr.b \in Nat
  <2>1. m \in Nat /\ Chain(st, m)
    BY DEF Under, Memory, IsSequence
  <2> QED
    BY <2>1, ChainIs DEF Chain
<1>2. PICK w : w = IF fr.b = m THEN ((hdr - PtrOffset(fr.o, i)) % M) \div 4 ELSE M - 1 - hdr \div 4
  OBVIOUS
<1>3. c = SetWord(bs[fr.b], fr.o.off + 4 * i, w)
  BY <1>2 DEF SetP, PtrOffset
<1>4. ASSUME z > 1, st[z - 1].kind = "rep" PROVE PtrTo(w, bs[fr.b + 1].len)
  <2>1. Home(st, z) = m
    BY <1>1 DEF Chain
  <2>2. m = fr.b + 1
    BY <1>4, <2>1 DEF Home
  <2>3. w = M - 1 - hdr \div 4
    BY <1>1, <1>2, <2>2
  <2>4. bs[m].len \in Nat
    <3>1. m \in 1 .. Len(bs)
      BY <1>1
    <3> QED
      BY <3>1 DEF Under, Memory, GoodBuf, IsBuf
  <2>5. PICK len : len = bs[m].len
    OBVIOUS
  <2>6. hdr \in Nat /\ len \in Nat /\ hdr < len
    BY <2>4, <2>5
  <2>7. PtrTo(M - 1 - hdr \div 4, len)
    BY ONLY <2>6, PtrToHdr
  <2> QED
    BY <2>2, <2>3, <2>5, <2>7
<1>5. Differs(bs, cs, fr.b, c)
  <2>1. IsSequence(bs) /\ fr.b \in 1 .. Len(bs)
    BY <1>1 DEF Under, Memory
  <2> QED
    BY <2>1, ReplaceIs
<1>6. PICK k : k = i /\ k \in 0 .. 5
  OBVIOUS
<1>7. /\ Under(bs, st, val, clean) /\ z = Len(st) /\ fr = st[z] /\ fr.kind = "msg" /\ k \in 0 .. 5
      /\ (clean /\ z > 1 /\ st[z - 1].kind = "rep" /\ k < 5 => PtrTo(w, bs[fr.b + 1].len))
      /\ c = SetWord(bs[fr.b], fr.o.off + 4 * k, w) /\ Differs(bs, cs, fr.b, c)
  BY <1>3, <1>4, <1>5, <1>6
<1> QED
  BY ONLY <1>7, TopStore

\* The same for a string that is an element
LEMMA SetElem ==
    ASSUME NEW bs, NEW st, NEW val, val, NEW clean, Under(bs, st, val, clean), NEW z, z = Len(st),
           NEW g, g = st[z], g.kind = "rep", g.f = "ss", NEW m, m = Len(bs),
           NEW hdr, hdr \in Nat, hdr < bs[m].len,
           NEW c, c = SetP(bs[g.b], g.it, 0, hdr, g.b = m), NEW cs, cs = [bs EXCEPT ![g.b] = c]
    PROVE  Under(cs, st, val, clean)
<1>1. m \in Nat /\ Chain(st, m) /\ z \in 1 .. Len(st) /\ g.b \in 1 .. m /\ g.b \in Nat
  <2>1. m \in Nat /\ Chain(st, m)
    BY DEF Under, Memory, IsSequence
  <2> QED
    BY <2>1, ChainIs DEF Chain
<1>2. m = g.b + 1
  BY <1>1 DEF Chain, Home, NeedsBuf, ElemPsize
<1>3. PICK w : w = M - 1 - hdr \div 4
  OBVIOUS
<1>4. c = SetWord(bs[g.b], g.it.off, w)
  <2>1. g.it.off \in Nat
    <3>1. PICK j, d, b : j = Len(g.items) /\ d = 1 /\ b = bs[g.b]
      OBVIOUS
    <3>2. Under(bs, st, val, clean) /\ z = Len(st) /\ g = st[z] /\ g.kind = "rep" /\ b = bs[g.b]
          /\ j = Len(g.items) /\ d \in {0, 1} /\ (IF val THEN d = 1 ELSE d = 0)
      BY <3>1, Zenon
    <3>3. /\ Started(st, val, z) = j + d
          /\ g.b \in 1 .. Len(bs) /\ GoodBuf(b, clean) /\ (clean => ArrClean(bs, g, j + d))
          /\ ArrFacts(b, g, j, d)
      BY ONLY <3>2, TopArr
    <3> QED
      BY <3>3 DEF ArrFacts
  <2>2. g.it.off + 4 * 0 = g.it.off
    BY <2>1
  <2>3. ~(g.b = m)
    BY <1>1, <1>2
  <2> QED
    BY <1>3, <2>2, <2>3 DEF SetP, PtrOffset
<1>5. PtrTo(w, bs[g.b + 1].len)
  <2>1. bs[m].len \in Nat
    <3>1. m \in 1 .. Len(bs)
      BY <1>1
    <3> QED
      BY <3>1 DEF Under, Memory, GoodBuf, IsBuf
  <2>2. PICK len : len = bs[m].len
    OBVIOUS
  <2>3. hdr \in Nat /\ len \in Nat /\ hdr < len
    BY <2>1, <2>2
  <2>4. PtrTo(M - 1 - hdr \div 4, len)
    BY ONLY <2>3, PtrToHdr
  <2> QED
    BY <1>2, <1>3, <2>2, <2>4
<1>6. Differs(bs, cs, g.b, c)
  <2>1. IsSequence(bs) /\ g.b \in 1 .. Len(bs)
    BY <1>1 DEF Under, Memory
  <2> QED
    BY <2>1, ReplaceIs
<1>7. /\ val /\ Under(bs, st, val, clean) /\ z = Len(st) /\ g = st[z] /\ g.kind = "rep" /\ g.f \in {"xs", "ss"}
      /\ (clean /\ g.f = "ss" => PtrTo(w, bs[g.b + 1].len))
      /\ c = SetWord(bs[g.b], g.it.off, w) /\ Differs(bs, cs, g.b, c)
  BY <1>4, <1>5, <1>6
<1> QED
  BY ONLY <1>7, ElemStore

\* What the parser asserts of the innermost array, between two of its elements
LEMMA AssertsHold ==
    ASSUME NEW bs, NEW st, NEW val, NEW clean, clean, NEW z, NEW g, OnArr(bs, st, val, clean, z, g), NEW j, j = Len(g.items),
           NEW r, r = ResizeArr(bs[g.b], g.first, j)
    PROVE  /\ bs[g.b].len = g.it.off /\ AtEnd(bs[g.b], g.first, j)
           /\ g.first.psize > 0 => Fixable(r, g.first, j, bs[Len(bs)])
<1> USE DEF OnArr
<1>1. PICK d, b : d = 0 /\ b = bs[g.b]
  OBVIOUS
<1>2. (clean => ArrClean(bs, g, j + 0)) /\ ArrFacts(b, g, j, 0)
  <2>1. Under(bs, st, val, clean) /\ z = Len(st) /\ g = st[z] /\ g.kind = "rep" /\ b = bs[g.b]
        /\ j = Len(g.items) /\ d \in {0, 1} /\ (IF val THEN d = 1 ELSE d = 0)
    BY <1>1, Zenon
  <2>2. /\ Started(st, val, z) = j + d
        /\ g.b \in 1 .. Len(bs) /\ GoodBuf(b, clean) /\ (clean => ArrClean(bs, g, j + d))
        /\ ArrFacts(b, g, j, d)
    BY ONLY <2>1, TopArr
  <2> QED
    BY <1>1, <2>2
<1>3. PICK o : o = g.first
  OBVIOUS
<1>4. /\ j \in Nat /\ j + 0 = j /\ IsBuf(b) /\ b.len \in Nat /\ IsArr(b, o) /\ IsFirst(o)
      /\ o.off + j * ObjSize(o) = b.len /\ g.it.off = b.len /\ o.off \in Nat /\ o.off >= 8 /\ o.off % 4 = 0
      /\ o.psize = ElemPsize(g.f)
  <2>1. /\ j \in Nat /\ IsBuf(b) /\ b.len \in Nat /\ ArrIn(b, g, j + 0)
        /\ IsFirst(o) /\ o.off \in Nat /\ o.off >= 8
        /\ o.off + (j + 0) * ObjSize(o) = b.len
        /\ g.it.off = o.off + j * ObjSize(o) /\ o.psize = ElemPsize(g.f)
    BY <1>2, <1>3 DEF ArrFacts
  <2>2. j + 0 = j
    BY <2>1
  <2>3. IsArr(b, o) /\ o.off % 4 = 0
    BY <1>3, <2>1 DEF ArrIn, IsFirst
  <2> QED
    BY <2>1, <2>2, <2>3
<1>5. ASSUME o.psize > 0 PROVE Fixable(r, o, j, bs[Len(bs)])
  <2>1. PICK m : m \in Nat /\ m = Len(bs) /\ Chain(st, m)
    BY DEF Under, Memory, IsSequence
  <2>2. z \in 1 .. Len(st) /\ Home(st, z) = m
    BY <2>1, ChainIs DEF Chain
  <2>3. NeedsBuf(g.f)
    BY <1>4, <1>5 DEF NeedsBuf
  <2>4. m = g.b + 1 /\ m \in 1 .. Len(bs)
    BY <2>1, <2>2, <2>3, NextBuf DEF Home
  <2>5. PICK newbuf : newbuf = bs[m]
    OBVIOUS
  <2>6. IsBuf(newbuf) /\ newbuf.len \in Nat
    BY <2>4, <2>5 DEF Under, Memory, GoodBuf, IsBuf
  <2>7. PtrsTo(b, o, j, newbuf.len)
    BY <1>1, <1>2, <1>3, <1>4, <1>5, <2>4, <2>5 DEF ArrClean
  <2>8. Kept(b, r, {o.off \div 4 - 2, o.off \div 4 - 1}) /\ r.len = b.len
    <3>1. IsBuf(b) /\ IsArr(b, o) /\ r = ResizeArr(b, o, j)
      BY <1>1, <1>3, <1>4
    <3>2. Kept(b, ResizeArr(b, o, j), {o.off \div 4 - 2, o.off \div 4 - 1}) /\ ResizeArr(b, o, j).len = b.len
      BY ONLY <3>1, ResizeArrIs
    <3> QED
      BY <3>1, <3>2
  <2>9. PICK S : S = {o.off \div 4 - 2, o.off \div 4 - 1}
    OBVIOUS
  <2>10. \A q \in Pointers(o, j) : q \div 4 \notin S
    <3> SUFFICES ASSUME NEW q \in Pointers(o, j) PROVE q \div 4 \notin S
      OBVIOUS
    <3>1. q \in Nat /\ q % 4 = 0 /\ q = 4 * (q \div 4) /\ q >= o.off /\ q + 4 <= o.off + j * ObjSize(o)
      BY <1>4, PointersWithin
    <3>2. PICK x \in Nat : x = o.off /\ x <= q
      BY <1>4, <3>1
    <3>3. q \div 4 >= x \div 4 /\ x \div 4 \in Int /\ q \div 4 \in Int
      BY <3>1, <3>2
    <3> QED
      BY <2>9, <3>2, <3>3
  <2>11. o.off + j * ObjSize(o) <= b.len /\ o.off + j * ObjSize(o) <= r.len
    <3>1. PICK len \in Nat : len = b.len
      BY <1>4
    <3> QED
      BY <1>4, <2>8, <3>1
  <2>12. PICK len : len = newbuf.len /\ len \in Nat /\ len <= len
    BY <2>6
  <2>13. PtrsTo(r, o, j, len)
    <3>1. /\ IsBuf(b) /\ IsFirst(o) /\ j \in Nat /\ len \in Nat /\ PtrsTo(b, o, j, len)
          /\ o.off + j * ObjSize(o) <= b.len /\ Kept(b, r, S) /\ len <= len
          /\ \A q \in Pointers(o, j) : q \div 4 \notin S
      BY <1>4, <2>7, <2>8, <2>9, <2>10, <2>11, <2>12
    <3> QED
      BY ONLY <3>1, PtrsKept
  <2>14. Fixable(r, o, j, newbuf)
    <3>1. /\ IsBuf(r) /\ IsFirst(o) /\ j \in Nat /\ o.off + j * ObjSize(o) <= r.len /\ IsBuf(newbuf)
          /\ PtrsTo(r, o, j, newbuf.len)
      BY <1>4, <2>6, <2>8, <2>11, <2>12, <2>13 DEF Kept
    <3> QED
      BY ONLY <3>1, FixableIs
  <2> QED
    BY <2>1, <2>5, <2>14
<1> QED
  BY <1>1, <1>3, <1>4, <1>5 DEF AtEnd

-----------------------------------------------------------------------------
(* The steps of the parser *)

\* What is known while a parse runs
LEMMA Running ==
    ASSUME IInv, pc = "parsing"
    PROVE  /\ Under(bufs, stack, tok = "value", ~dirty) /\ text = <<>> /\ bound \in Bounds
           /\ IsSequence(bufs) /\ Len(bufs) \in Nat /\ Len(bufs) \in 1 .. Len(bufs)
           /\ Last(bufs) = bufs[Len(bufs)] /\ GoodBuf(bufs[Len(bufs)], ~dirty)
           /\ IsSequence(stack) /\ Len(stack) \in Nat /\ Len(stack) \in 1 .. Len(stack)
           /\ Top = stack[Len(stack)]
           /\ Top.kind \in {"msg", "rep"} /\ Top.b \in 1 .. Len(bufs)
           /\ Top.kind = "msg" => IsMsg(Top) /\ MsgIn(bufs[Top.b], Top.o)
           /\ Top.kind = "rep" => IsRep(Top)
<1>1. /\ Under(bufs, stack, tok = "value", ~dirty) /\ text = <<>> /\ bound \in Bounds
      /\ IsSequence(bufs) /\ Len(bufs) >= 1
  BY DEF IInv
<1>2. Len(bufs) \in Nat /\ Len(bufs) \in 1 .. Len(bufs) /\ Last(bufs) = bufs[Len(bufs)]
  BY <1>1 DEF IsSequence, Last
<1>3. Chain(stack, Len(bufs)) /\ Memory(bufs, stack, tok = "value", ~dirty)
  BY <1>1 DEF Under
<1>4. GoodBuf(bufs[Len(bufs)], ~dirty)
  BY <1>2, <1>3 DEF Memory
<1>5. /\ Len(stack) \in Nat /\ Len(stack) \in 1 .. Len(stack) /\ IsSequence(stack) /\ Top = stack[Len(stack)]
      /\ IsFrame(Top) /\ Top.kind \in {"msg", "rep"}
  BY <1>2, <1>3, ChainIs DEF Top
<1>6. Top.b \in 1 .. Len(bufs)
  BY <1>3, <1>5 DEF Chain
<1>7. Top.kind = "msg" => IsMsg(Top) /\ MsgIn(bufs[Top.b], Top.o)
  <2>1. FrameIn(bufs, Top, Started(stack, tok = "value", Len(stack)), ~dirty)
    BY <1>3, <1>5 DEF Memory
  <2> QED
    BY <1>5, <2>1 DEF IsFrame, FrameIn
<1>8. Top.kind = "rep" => IsRep(Top)
  BY <1>5 DEF IsFrame
<1> QED
  BY <1>1, <1>2, <1>4, <1>5, <1>6, <1>7, <1>8

\* Past a value, no value is ahead.
LEMMA NextTokenIs ==
    ASSUME text = <<>>, bound \in Bounds, NEW read, NextToken(read)
    PROVE  text' = <<>> /\ tok' # "value"
<1>1. bound.fields \subseteq {"x", "s", "n", "r", "xs", "ss"}
  BY BoundsAssumption DEF EmptyDoc
<1>2. /\ text' = text
      /\ tok' \in (IF read < bound.tokens THEN bound.fields ELSE {}) \cup {"}", "EOF"}
  BY DEF NextToken
<1> QED
  BY <1>1, <1>2

\* A step within a parse
LEMMA GoesOn ==
    ASSUME IInv, pc = "parsing", pc' = "parsing", text' = <<>>, bound' = bound, oldlen' = oldlen,
           Under(bufs', stack', tok' = "value", ~dirty'), SameRoot(stack, stack')
    PROVE  IInv'
<1>1. Chain(stack', Len(bufs')) /\ IsSequence(bufs')
  BY DEF Under, Memory
<1>2. PICK m : m \in Nat /\ m = Len(bufs') /\ Chain(stack', m)
  BY <1>1 DEF IsSequence
<1>3. m >= 1
  <2>1. 1 \in 1 .. Len(stack')
    BY <1>2, ChainIs
  <2>2. stack'[1].b \in 1 .. m
    BY <1>2, <2>1 DEF Chain
  <2> QED
    BY <1>2, <2>2
<1>4. oldlen' <= stack'[1].o.off
  BY DEF IInv, SameRoot
<1> QED
  BY <1>1, <1>2, <1>3, <1>4 DEF IInv

\* A scalar field
LEMMA ScalarStep == ASSUME IInv, Scalar PROVE IInv'
<1>1. pc = "parsing" /\ Top.kind = "msg"
  BY DEF Scalar, InMsg
<1>2. PICK v : /\ bufs' = [bufs EXCEPT ![Top.b] = SetWord(bufs[Top.b], Top.o.off + 4 * Top.o.psize, v)]
               /\ stack' = ReplaceAt(stack, Len(stack), [Top EXCEPT !.doc.x = v])
  BY DEF Scalar, SetTop
<1>3. /\ pc' = pc /\ bound' = bound /\ oldlen' = oldlen /\ dirty' = dirty
      /\ NextToken(n')
  BY DEF Scalar
<1>4. PICK bs, cs, st, t, z, val, clean, late, clean2, fr :
          /\ bs = bufs /\ cs = bufs' /\ st = stack /\ t = stack' /\ z = Len(st) /\ fr = Top
          /\ val = (tok = "value") /\ clean = ~dirty /\ late = (tok' = "value") /\ clean2 = ~dirty'
  OBVIOUS
<1>5. /\ Under(bs, st, val, clean) /\ IsSequence(bs) /\ fr = st[z] /\ fr.b \in 1 .. Len(bs)
      /\ fr.kind = "msg" /\ IsMsg(fr) /\ MsgIn(bs[fr.b], fr.o) /\ text = <<>> /\ bound \in Bounds
  BY <1>1, <1>4, Running
<1>6. clean2 = clean
  BY <1>3, <1>4
<1>7. PICK c : c = SetWord(bs[fr.b], fr.o.off + 4 * fr.o.psize, v) /\ cs = [bs EXCEPT ![fr.b] = c]
  BY <1>2, <1>4
<1>8. Under(cs, st, val, clean)
  <2>1. Differs(bs, cs, fr.b, c)
    BY <1>5, <1>7, ReplaceIs
  <2>2. PICK i : i = 5 /\ i \in 0 .. 5
    OBVIOUS
  <2>3. fr.o.psize = i
    BY <1>5, <2>2 DEF MsgIn, Object, MsgPsize
  <2>4. c = SetWord(bs[fr.b], fr.o.off + 4 * i, v)
    BY <1>7, <2>3
  <2>5. ~(i < 5)
    BY <2>2
  <2>6. /\ Under(bs, st, val, clean) /\ z = Len(st) /\ fr = st[z] /\ fr.kind = "msg" /\ i \in 0 .. 5
        /\ (clean /\ z > 1 /\ st[z - 1].kind = "rep" /\ i < 5 => PtrTo(v, bs[fr.b + 1].len))
        /\ c = SetWord(bs[fr.b], fr.o.off + 4 * i, v) /\ Differs(bs, cs, fr.b, c)
    BY <1>4, <1>5, <2>1, <2>2, <2>4, <2>5
  <2> QED
    BY ONLY <2>6, TopStore
<1>9. Under(cs, t, late, clean) /\ SameRoot(st, t)
  <2>1. PICK g, d : g = [fr EXCEPT !.doc.x = v] /\ d = [fr.doc EXCEPT !.x = v]
    OBVIOUS
  <2>2. g = [kind |-> "msg", b |-> fr.b, o |-> fr.o, doc |-> d]
    BY <1>5, <2>1 DEF IsMsg
  <2>3. SameMsg(st[z], g)
    BY <1>5, <2>2, DocIs
  <2>4. /\ Under(cs, st, val, clean) /\ z = Len(st) /\ st[z].kind = "msg" /\ SameMsg(st[z], g)
        /\ t = ReplaceAt(st, z, g)
    BY <1>2, <1>4, <1>5, <1>8, <2>1, <2>3
  <2>5. Under(cs, t, late, clean)
    BY ONLY <2>4, SetDoc
  <2>6. SameRoot(st, t)
    BY ONLY <2>4, SetDoc
  <2> QED
    BY ONLY <2>4, SetDoc
<1>10. Under(bufs', stack', tok' = "value", ~dirty') /\ SameRoot(stack, stack')
  BY <1>4, <1>6, <1>9
<1>11. text' = <<>>
  BY <1>3, <1>5, NextTokenIs
<1> QED
  BY <1>1, <1>3, <1>10, <1>11, GoesOn

\* A string at the end of the last buffer
StrOr(b, v) == IF v = 0 THEN WithoutStr(b) ELSE WithStr(b, v)
Pointable(b, hdr) == hdr \in Nat /\ hdr < b.len

StrEnds(bs, cs, st, val, clean, m, c, v) ==
    /\ Under(bs, st, val, clean) /\ m = Len(bs)
    /\ st[Len(st)].kind = "rep" => NeedsBuf(st[Len(st)].f)
    /\ c = StrOr(bs[m], v) /\ cs = ReplaceAt(bs, m, c)

\* A string is allocated at the end of the last buffer.
LEMMA StrBuf ==
    ASSUME NEW bs, NEW cs, NEW st, NEW val, NEW clean, NEW m, NEW c, NEW v,
           StrEnds(bs, cs, st, val, clean, m, c, v)
    PROVE  /\ Under(cs, st, val, clean) /\ Len(cs) = m /\ Last(cs) = c /\ cs[m] = c
           /\ v # 0 => Pointable(c, HdrOffset(c, StrObj(bs[m])))
<1> USE DEF StrEnds
<1>1. IsSequence(bs) /\ m \in 1 .. Len(bs) /\ GoodBuf(bs[m], clean)
  <2>1. PICK k \in Nat : k = m /\ Chain(st, k)
    BY DEF Under, Memory, IsSequence
  <2>2. 1 \in 1 .. Len(st)
    BY <2>1, ChainIs
  <2>3. st[1].b \in 1 .. k
    BY <2>1, <2>2 DEF Chain
  <2> QED
    BY <2>1, <2>3 DEF Under, Memory
<1>2. Differs(bs, cs, m, c)
  BY <1>1, ReplaceIs DEF ReplaceAt
<1>3. /\ GoodBuf(c, clean) /\ Kept(bs[m], c, {})
      /\ v # 0 => Pointable(c, HdrOffset(c, StrObj(bs[m])))
  <2>1. CASE v = 0
    BY <1>1, <2>1, WithoutStrIs DEF StrOr
  <2>2. CASE v # 0
    BY <1>1, <2>2, WithStrIs DEF StrOr, Pointable
  <2> QED
    BY <2>1, <2>2
<1>4. /\ Under(bs, st, val, clean) /\ m = Len(bs) /\ (st[Len(st)].kind = "rep" => NeedsBuf(st[Len(st)].f))
      /\ GoodBuf(c, clean) /\ Kept(bs[m], c, {}) /\ Differs(bs, cs, m, c)
  BY <1>2, <1>3
<1>5. Under(cs, st, val, clean)
  BY ONLY <1>4, GrowCur
<1> QED
  BY <1>1, <1>2, <1>3, <1>5 DEF Differs, Last

\* A string field
LEMMA StringStep == ASSUME IInv, String PROVE IInv'
<1>1. pc = "parsing" /\ Top.kind = "msg"
  BY DEF String, InMsg
<1>2. PICK v, d : /\ bufs' = StrInto(Top.b, Top.o, Index["s"], v)
                  /\ stack' = ReplaceAt(stack, Len(stack), [Top EXCEPT !.doc.s = d])
  BY DEF String, SetTop
<1>3. /\ pc' = pc /\ bound' = bound /\ oldlen' = oldlen /\ dirty' = dirty
      /\ NextToken(n')
  BY DEF String
<1>4. PICK bs, cs, st, t, z, val, clean, late, clean2, fr, m :
          /\ bs = bufs /\ cs = bufs' /\ st = stack /\ t = stack' /\ z = Len(st) /\ fr = Top /\ m = Len(bs)
          /\ val = (tok = "value") /\ clean = ~dirty /\ late = (tok' = "value") /\ clean2 = ~dirty'
  OBVIOUS
<1>5. /\ Under(bs, st, val, clean) /\ IsSequence(bs) /\ fr = st[z] /\ Last(bs) = bs[m]
      /\ fr.kind = "msg" /\ IsMsg(fr) /\ text = <<>> /\ bound \in Bounds
  BY <1>1, <1>4, Running
<1>6. clean2 = clean
  BY <1>3, <1>4
<1>7. PICK c, ds : c = StrOr(bs[m], v) /\ ds = ReplaceAt(bs, m, c)
  OBVIOUS
<1>8. /\ Under(ds, st, val, clean) /\ Len(ds) = m /\ Last(ds) = c /\ ds[m] = c
      /\ v # 0 => Pointable(c, HdrOffset(c, StrObj(bs[m])))
  <2>1. StrEnds(bs, ds, st, val, clean, m, c, v)
    BY <1>4, <1>5, <1>7 DEF StrEnds
  <2> QED
    BY ONLY <2>1, StrBuf
<1>9. Under(cs, st, val, clean)
  <2>1. CASE v = 0
    <3>1. cs = ds
      BY <1>2, <1>4, <1>5, <1>7, <2>1 DEF StrInto, Keep, Cur, StrOr
    <3> QED
      BY <1>8, <3>1
  <2>2. CASE v # 0
    <3>1. PICK hdr, e : hdr = HdrOffset(c, StrObj(bs[m])) /\ e = SetP(ds[fr.b], fr.o, 0, hdr, fr.b = m)
      OBVIOUS
    <3>2. cs = [ds EXCEPT ![fr.b] = e]
      BY <1>2, <1>4, <1>5, <1>7, <1>8, <2>2, <3>1 DEF StrInto, Keep, Cur, Index, StrOr
    <3>3. PICK i : i = 0 /\ i \in 0 .. 4
      OBVIOUS
    <3>4. /\ Under(ds, st, val, clean) /\ z = Len(st) /\ fr = st[z] /\ fr.kind = "msg" /\ i \in 0 .. 4
          /\ m = Len(ds) /\ hdr \in Nat /\ hdr < ds[m].len
          /\ e = SetP(ds[fr.b], fr.o, i, hdr, fr.b = m) /\ cs = [ds EXCEPT ![fr.b] = e]
      BY <1>4, <1>5, <1>8, <2>2, <3>1, <3>2, <3>3 DEF Pointable
    <3> QED
      BY ONLY <3>4, SetPtr
  <2> QED
    BY <2>1, <2>2
<1>10. Under(cs, t, late, clean) /\ SameRoot(st, t)
  <2>1. PICK g, dd : g = [fr EXCEPT !.doc.s = d] /\ dd = [fr.doc EXCEPT !.s = d]
    OBVIOUS
  <2>2. g = [kind |-> "msg", b |-> fr.b, o |-> fr.o, doc |-> dd]
    BY <1>5, <2>1 DEF IsMsg
  <2>3. SameMsg(st[z], g)
    BY <1>5, <2>2, DocIs
  <2>4. /\ Under(cs, st, val, clean) /\ z = Len(st) /\ st[z].kind = "msg" /\ SameMsg(st[z], g)
        /\ t = ReplaceAt(st, z, g)
    BY <1>2, <1>4, <1>5, <1>9, <2>1, <2>3
  <2>5. Under(cs, t, late, clean)
    BY ONLY <2>4, SetDoc
  <2>6. SameRoot(st, t)
    BY ONLY <2>4, SetDoc
  <2> QED
    BY <2>5, <2>6
<1>11. Under(bufs', stack', tok' = "value", ~dirty') /\ SameRoot(stack, stack')
  BY <1>4, <1>6, <1>10
<1>12. text' = <<>>
  BY <1>3, <1>5, NextTokenIs
<1> QED
  BY <1>1, <1>3, <1>11, <1>12, GoesOn

\* A message field
LEMMA NestedMsgStep == ASSUME IInv, NestedMsg PROVE IInv'
<1>1. pc = "parsing" /\ Top.kind = "msg"
  BY DEF NestedMsg, InMsg
<1>2. /\ bufs' = Keep(AllocObj(Last(bufs), MsgSsize, MsgPsize))
      /\ stack' = Append(stack, MsgFrame(Cur, NewObj(Last(bufs), MsgSsize, MsgPsize)))
      /\ pc' = pc /\ bound' = bound /\ oldlen' = oldlen /\ dirty' = dirty /\ NextToken(n')
  BY DEF NestedMsg
<1>3. PICK bs, cs, st, t, z, val, clean, late, clean2, m, b, c, o :
          /\ bs = bufs /\ cs = bufs' /\ st = stack /\ t = stack' /\ z = Len(st) /\ m = Len(bs)
          /\ val = (tok = "value") /\ clean = ~dirty /\ late = (tok' = "value") /\ clean2 = ~dirty'
          /\ b = Last(bufs) /\ c = AllocObj(b, MsgSsize, MsgPsize) /\ o = NewObj(b, MsgSsize, MsgPsize)
  OBVIOUS
<1>4. /\ Under(bs, st, val, clean) /\ IsSequence(bs) /\ b = bs[m] /\ GoodBuf(b, clean)
      /\ m \in 1 .. Len(bs) /\ st[z].kind = "msg" /\ text = <<>> /\ bound \in Bounds
  BY <1>1, <1>3, Running
<1>5. clean2 = clean
  BY <1>2, <1>3
<1>6. GoodBuf(c, clean) /\ Kept(b, c, {}) /\ MsgIn(c, o)
  BY <1>3, <1>4, NewMsg
<1>7. Differs(bs, cs, m, c)
  BY <1>2, <1>3, <1>4, ReplaceIs DEF Keep, Cur, ReplaceAt
<1>8. Under(cs, st, val, clean)
  <2>1. /\ Under(bs, st, val, clean) /\ m = Len(bs) /\ (st[Len(st)].kind = "rep" => NeedsBuf(st[Len(st)].f))
        /\ GoodBuf(c, clean) /\ Kept(bs[m], c, {}) /\ Differs(bs, cs, m, c)
    BY <1>3, <1>4, <1>6, <1>7
  <2> QED
    BY ONLY <2>1, GrowCur
<1>9. Under(cs, t, late, clean) /\ SameRoot(st, t)
  <2>1. /\ Under(cs, st, val, clean) /\ z = Len(st)
        /\ (IF st[z].kind = "rep" THEN val /\ m = st[z].b /\ st[z].f = "r" /\ o = st[z].it
            ELSE m = Len(cs))
        /\ MsgIn(cs[m], o) /\ t = Append(st, MsgFrame(m, o))
    BY <1>2, <1>3, <1>4, <1>6, <1>7, <1>8 DEF Differs, Cur
  <2>2. Under(cs, t, late, clean)
    BY ONLY <2>1, PushMsg
  <2>3. SameRoot(st, t)
    BY ONLY <2>1, PushMsg
  <2> QED
    BY <2>2, <2>3
<1>10. Under(bufs', stack', tok' = "value", ~dirty') /\ SameRoot(stack, stack')
  BY <1>3, <1>5, <1>9
<1>11. text' = <<>>
  BY <1>2, <1>4, NextTokenIs
<1> QED
  BY <1>1, <1>2, <1>10, <1>11, GoesOn

\* The document of a message changes in one place.
LEMMA NewDoc ==
    ASSUME NEW bs, NEW st, NEW val, NEW clean, Under(bs, st, val, clean), NEW z, z = Len(st),
           NEW fr, fr = st[z], fr.kind = "msg", NEW d, NEW g,
           g = [kind |-> "msg", b |-> fr.b, o |-> fr.o, doc |-> d],
           NEW t, t = ReplaceAt(st, z, g), NEW late
    PROVE  Under(bs, t, late, clean) /\ SameRoot(st, t)
<1>1. SameMsg(st[z], g)
  <2>1. IsFrame(st[z])
    <3>1. PICK m : m = Len(bs) /\ m \in Nat /\ Chain(st, m)
      BY DEF Under, Memory, IsSequence
    <3> QED
      BY <3>1, ChainIs
  <2> QED
    BY <2>1, DocIs DEF IsFrame
<1>2. /\ Under(bs, st, val, clean) /\ z = Len(st) /\ st[z].kind = "msg" /\ SameMsg(st[z], g)
      /\ t = ReplaceAt(st, z, g)
  BY <1>1
<1>3. Under(bs, t, late, clean)
  BY ONLY <1>2, SetDoc
<1>4. SameRoot(st, t)
  BY ONLY <1>2, SetDoc
<1> QED
  BY <1>3, <1>4

\* The end of a message field
LEMMA CloseMsgStep == ASSUME IInv, CloseMsg PROVE IInv'
<1>1. pc = "parsing" /\ Top.kind = "msg" /\ Len(stack) > 1
  BY DEF CloseMsg, InMsg
<1>2. pc' = pc /\ bound' = bound /\ oldlen' = oldlen /\ dirty' = dirty /\ NextToken(n)
  BY DEF CloseMsg
<1>3. PICK bs, cs, st, t, u, z, y, val, clean, late, clean2, fr, g, m :
          /\ bs = bufs /\ cs = bufs' /\ st = stack /\ t = Front(st) /\ u = stack' /\ fr = Top /\ g = Below
          /\ z = Len(st) /\ y = z - 1 /\ m = Len(bs)
          /\ val = (tok = "value") /\ clean = ~dirty /\ late = (tok' = "value") /\ clean2 = ~dirty'
  OBVIOUS
<1>4. /\ Under(bs, st, val, clean) /\ IsSequence(bs) /\ fr = st[z] /\ fr.kind = "msg" /\ z \in Nat /\ z > 1
      /\ g = st[y] /\ m \in Nat /\ GoodBuf(bs[m], clean) /\ MsgIn(bs[fr.b], fr.o)
      /\ text = <<>> /\ bound \in Bounds
  BY <1>1, <1>3, Running DEF Below
<1>5. clean2 = clean /\ ~late /\ text' = <<>>
  BY <1>2, <1>3, <1>4, NextTokenIs
<1>6. PICK yes : yes
  OBVIOUS
<1>7. Under(bs, t, yes, clean) /\ SameRoot(st, t) /\ Len(t) = y /\ t[y] = g
  <2>1. Under(bs, st, val, clean) /\ z = Len(st) /\ z >= 2 /\ st[z].kind = "msg" /\ t = Front(st) /\ yes
    BY <1>3, <1>4, <1>6
  <2>2. Under(bs, t, yes, clean)
    BY ONLY <2>1, PopMsg
  <2>3. SameRoot(st, t)
    BY ONLY <2>1, PopMsg
  <2>4. Len(t) = z - 1 /\ \A j \in 1 .. z - 1 : t[j] = st[j]
    BY <1>1, <1>3, Running, FrontIs
  <2> QED
    BY <1>3, <1>4, <2>2, <2>3, <2>4
<1>8. Chain(st, m) /\ z \in 1 .. Len(st)
  BY <1>3, <1>4 DEF Under
<1>9. CASE g.kind = "msg"
  <2>1. fr.b = m
    <3>1. Home(st, z) = m /\ st[z - 1].kind = "msg"
      BY <1>3, <1>4, <1>8, <1>9 DEF Chain
    <3> QED
      BY <1>4, <3>1 DEF Home
  <2>2. PICK hdr : hdr = HdrOffset(bs[m], fr.o) /\ hdr \in Nat /\ hdr < bs[m].len
    BY <1>4, <2>1, MsgHdr DEF GoodBuf, IsBuf
  <2>3. PICK c, i : i = 1 /\ i \in 0 .. 4 /\ c = SetP(bs[g.b], g.o, i, hdr, g.b = m)
    OBVIOUS
  <2>4. cs = [bs EXCEPT ![g.b] = c]
    BY <1>3, <1>9, <2>1, <2>2, <2>3 DEF CloseMsg, Index
  <2>5. u = ReplaceAt(t, y, [g EXCEPT !.doc.n = <<fr.doc>>])
    BY <1>3, <1>7, <1>9 DEF CloseMsg
  <2>6. Under(cs, t, yes, clean)
    <3>1. /\ Under(bs, t, yes, clean) /\ y = Len(t) /\ g = t[y] /\ g.kind = "msg" /\ i \in 0 .. 4
          /\ m = Len(bs) /\ hdr \in Nat /\ hdr < bs[m].len
          /\ c = SetP(bs[g.b], g.o, i, hdr, g.b = m) /\ cs = [bs EXCEPT ![g.b] = c]
      BY <1>3, <1>7, <1>9, <2>2, <2>3, <2>4
    <3> QED
      BY ONLY <3>1, SetPtr
  <2>7. PICK d, e : d = [g.doc EXCEPT !.n = <<fr.doc>>] /\ e = [g EXCEPT !.doc.n = <<fr.doc>>]
    OBVIOUS
  <2>8. e = [kind |-> "msg", b |-> g.b, o |-> g.o, doc |-> d]
    <3>1. IsMsg(g)
      <4>1. IsFrame(st[y]) /\ y \in 1 .. Len(st)
        BY <1>3, <1>4, <1>8, ChainIs
      <4> QED
        BY <1>4, <1>9, <4>1 DEF IsFrame
    <3> QED
      BY <2>7, <3>1 DEF IsMsg
  <2>9. /\ Under(cs, t, yes, clean) /\ y = Len(t) /\ g = t[y] /\ g.kind = "msg"
        /\ e = [kind |-> "msg", b |-> g.b, o |-> g.o, doc |-> d] /\ u = ReplaceAt(t, y, e)
    BY <1>7, <1>9, <2>5, <2>6, <2>7, <2>8
  <2>10. Under(cs, u, late, clean)
    BY ONLY <2>9, NewDoc
  <2>11. SameRoot(t, u)
    BY ONLY <2>9, NewDoc
  <2>12. Under(bufs', stack', tok' = "value", ~dirty') /\ SameRoot(stack, stack')
    BY <1>3, <1>5, <1>7, <2>10, <2>11 DEF SameRoot
  <2> QED
    BY <1>1, <1>2, <1>5, <2>12, GoesOn
<1>10. CASE g.kind = "rep"
  <2>1. cs = bs /\ u = ReplaceAt(t, y, Advance(g, fr.doc))
    BY <1>3, <1>7, <1>10 DEF CloseMsg
  <2>2. PICK item : item = fr.doc
    OBVIOUS
  <2>3. /\ Under(bs, t, yes, clean) /\ yes /\ y = Len(t) /\ t[y].kind = "rep"
        /\ u = ReplaceAt(t, y, Advance(t[y], item))
    BY <1>6, <1>7, <1>10, <2>1, <2>2
  <2>4. Under(bs, u, FALSE, clean)
    BY ONLY <2>3, AdvanceStep
  <2>5. SameRoot(t, u)
    BY ONLY <2>3, AdvanceStep
  <2>6. Under(bufs', stack', tok' = "value", ~dirty') /\ SameRoot(stack, stack')
    BY <1>3, <1>5, <1>7, <2>1, <2>4, <2>5 DEF SameRoot
  <2> QED
    BY <1>1, <1>2, <1>5, <2>6, GoesOn
<1> QED
  BY <1>3, <1>9, <1>10 DEF CloseMsg

\* The name of a repeated field
LEMMA RepBeginStep == ASSUME IInv, NEW f \in Repeated, RepBegin(f) PROVE IInv'
<1>1. pc = "parsing" /\ Top.kind = "msg"
  BY DEF RepBegin, InMsg
<1>2. /\ pc' = pc /\ bound' = bound /\ oldlen' = oldlen /\ dirty' = dirty /\ text' = text /\ tok' = "value"
      /\ stack' = Append(stack, RepFrame(Cur, NewArr(Last(bufs), 1, ElemSsize(f), ElemPsize(f)), f))
  BY DEF RepBegin
<1>3. PICK bs, ds, st, t, z, val, clean, late, clean2, m :
          /\ bs = bufs /\ ds = bufs' /\ st = stack /\ t = stack' /\ z = Len(st) /\ m = Len(bs)
          /\ val = (tok = "value") /\ clean = ~dirty /\ late = (tok' = "value") /\ clean2 = ~dirty'
  OBVIOUS
<1>4. PICK cs, c, o :
          /\ c = AllocArr(bs[m], 1, ElemSsize(f), ElemPsize(f))
          /\ o = NewArr(bs[m], 1, ElemSsize(f), ElemPsize(f)) /\ cs = ReplaceAt(bs, m, c)
  OBVIOUS
<1>5. /\ Under(bs, st, val, clean) /\ IsSequence(bs) /\ Last(bs) = bs[m] /\ m \in 1 .. Len(bs)
      /\ st[z].kind = "msg" /\ text = <<>>
  BY <1>1, <1>3, Running
<1>6. clean2 = clean /\ late
  BY <1>2, <1>3
<1>7. Differs(bs, cs, m, c)
  BY <1>4, <1>5, ReplaceIs DEF ReplaceAt
<1>8. ds = (IF NeedsBuf(f) THEN Append(cs, NewBuf(0)) ELSE cs)
  BY <1>3, <1>4, <1>5 DEF RepBegin, Keep, Cur
<1>9. /\ Under(bs, st, val, clean) /\ z = Len(st) /\ st[z].kind = "msg" /\ f \in Repeated /\ m = Len(bs)
      /\ o = NewArr(bs[m], 1, ElemSsize(f), ElemPsize(f))
      /\ c = AllocArr(bs[m], 1, ElemSsize(f), ElemPsize(f)) /\ Differs(bs, cs, m, c)
      /\ ds = (IF NeedsBuf(f) THEN Append(cs, NewBuf(0)) ELSE cs)
      /\ t = Append(st, RepFrame(m, o, f)) /\ late
  BY <1>2, <1>3, <1>4, <1>5, <1>6, <1>7, <1>8 DEF Cur
<1>10. Under(ds, t, late, clean)
  BY ONLY <1>9, PushRep
<1>11. SameRoot(st, t)
  BY ONLY <1>9, PushRep
<1>12. Under(bufs', stack', tok' = "value", ~dirty') /\ SameRoot(stack, stack')
  BY <1>3, <1>6, <1>10, <1>11
<1> QED
  BY <1>1, <1>2, <1>5, <1>12, GoesOn

\* An element of an array of scalars
LEMMA ScalarElementStep == ASSUME IInv, ScalarElement PROVE IInv'
<1>1. pc = "parsing" /\ tok = "value" /\ Top.kind = "rep" /\ Top.f = "xs"
  BY DEF ScalarElement, AtElement, InRep
<1>2. PICK v : /\ bufs' = [bufs EXCEPT ![Top.b] = SetWord(@, Top.it.off, v)]
               /\ stack' = ReplaceAt(stack, Len(stack), Advance(Top, v))
  BY DEF ScalarElement, SetTop
<1>3. pc' = pc /\ bound' = bound /\ oldlen' = oldlen /\ dirty' = dirty /\ NextToken(n)
  BY DEF ScalarElement
<1>4. PICK bs, cs, st, t, z, val, clean, late, clean2, g :
          /\ bs = bufs /\ cs = bufs' /\ st = stack /\ t = stack' /\ z = Len(st) /\ g = Top
          /\ val = (tok = "value") /\ clean = ~dirty /\ late = (tok' = "value") /\ clean2 = ~dirty'
  OBVIOUS
<1>5. /\ Under(bs, st, val, clean) /\ IsSequence(bs) /\ g = st[z] /\ g.b \in 1 .. Len(bs)
      /\ g.kind = "rep" /\ g.f = "xs" /\ val /\ text = <<>> /\ bound \in Bounds
  BY <1>1, <1>4, Running
<1>6. clean2 = clean /\ ~late /\ text' = <<>>
  BY <1>3, <1>4, <1>5, NextTokenIs
<1>7. PICK c : c = SetWord(bs[g.b], g.it.off, v) /\ cs = [bs EXCEPT ![g.b] = c]
  BY <1>2, <1>4
<1>8. Under(cs, st, val, clean)
  <2>1. Differs(bs, cs, g.b, c)
    BY <1>5, <1>7, ReplaceIs
  <2>2. /\ val /\ Under(bs, st, val, clean) /\ z = Len(st) /\ g = st[z] /\ g.kind = "rep"
        /\ g.f \in {"xs", "ss"} /\ (clean /\ g.f = "ss" => PtrTo(v, bs[g.b + 1].len))
        /\ c = SetWord(bs[g.b], g.it.off, v) /\ Differs(bs, cs, g.b, c)
    BY <1>4, <1>5, <1>7, <2>1
  <2> QED
    BY ONLY <2>2, ElemStore
<1>9. /\ val /\ Under(cs, st, val, clean) /\ z = Len(st) /\ st[z].kind = "rep"
      /\ t = ReplaceAt(st, z, Advance(st[z], v))
  BY <1>2, <1>4, <1>5, <1>8
<1>10. Under(cs, t, FALSE, clean)
  BY ONLY <1>9, AdvanceStep
<1>11. SameRoot(st, t)
  BY ONLY <1>9, AdvanceStep
<1>12. Under(bufs', stack', tok' = "value", ~dirty') /\ SameRoot(stack, stack')
  BY <1>4, <1>6, <1>10, <1>11
<1> QED
  BY <1>1, <1>3, <1>6, <1>12, GoesOn

\* An element of an array of strings
LEMMA StringElementStep == ASSUME IInv, StringElement PROVE IInv'
<1>1. pc = "parsing" /\ tok = "value" /\ Top.kind = "rep" /\ Top.f = "ss"
  BY DEF StringElement, AtElement, InRep
<1>2. PICK v : /\ bufs' = StrInto(Top.b, Top.it, 0, v)
               /\ stack' = ReplaceAt(stack, Len(stack), Advance(Top, v))
  BY DEF StringElement, SetTop
<1>3. pc' = pc /\ bound' = bound /\ oldlen' = oldlen /\ dirty' = dirty /\ NextToken(n)
  BY DEF StringElement
<1>4. PICK bs, cs, st, t, z, val, clean, late, clean2, g, m :
          /\ bs = bufs /\ cs = bufs' /\ st = stack /\ t = stack' /\ z = Len(st) /\ g = Top /\ m = Len(bs)
          /\ val = (tok = "value") /\ clean = ~dirty /\ late = (tok' = "value") /\ clean2 = ~dirty'
  OBVIOUS
<1>5. /\ Under(bs, st, val, clean) /\ IsSequence(bs) /\ g = st[z] /\ Last(bs) = bs[m]
      /\ g.kind = "rep" /\ g.f = "ss" /\ val /\ text = <<>> /\ bound \in Bounds
  BY <1>1, <1>4, Running
<1>6. clean2 = clean /\ ~late /\ text' = <<>>
  BY <1>3, <1>4, <1>5, NextTokenIs
<1>7. PICK c, ds : c = StrOr(bs[m], v) /\ ds = ReplaceAt(bs, m, c)
  OBVIOUS
<1>8. /\ Under(ds, st, val, clean) /\ Len(ds) = m /\ Last(ds) = c /\ ds[m] = c
      /\ v # 0 => Pointable(c, HdrOffset(c, StrObj(bs[m])))
  <2>1. NeedsBuf("ss")
    BY DEF NeedsBuf, ElemPsize
  <2>2. StrEnds(bs, ds, st, val, clean, m, c, v)
    BY <1>4, <1>5, <1>7, <2>1 DEF StrEnds
  <2> QED
    BY ONLY <2>2, StrBuf
<1>9. Under(cs, st, val, clean)
  <2>1. CASE v = 0
    <3>1. cs = ds
      BY <1>2, <1>4, <1>5, <1>7, <2>1 DEF StrInto, Keep, Cur, StrOr
    <3> QED
      BY <1>8, <3>1
  <2>2. CASE v # 0
    <3>1. PICK hdr, e : hdr = HdrOffset(c, StrObj(bs[m])) /\ e = SetP(ds[g.b], g.it, 0, hdr, g.b = m)
      OBVIOUS
    <3>2. cs = [ds EXCEPT ![g.b] = e]
      BY <1>2, <1>4, <1>5, <1>7, <1>8, <2>2, <3>1 DEF StrInto, Keep, Cur, StrOr
    <3>3. /\ val /\ Under(ds, st, val, clean) /\ z = Len(st) /\ g = st[z] /\ g.kind = "rep" /\ g.f = "ss"
          /\ m = Len(ds) /\ hdr \in Nat /\ hdr < ds[m].len
          /\ e = SetP(ds[g.b], g.it, 0, hdr, g.b = m) /\ cs = [ds EXCEPT ![g.b] = e]
      BY <1>4, <1>5, <1>8, <2>2, <3>1, <3>2 DEF Pointable
    <3> QED
      BY ONLY <3>3, SetElem
  <2> QED
    BY <2>1, <2>2
<1>10. /\ val /\ Under(cs, st, val, clean) /\ z = Len(st) /\ st[z].kind = "rep"
       /\ t = ReplaceAt(st, z, Advance(st[z], v))
  BY <1>2, <1>4, <1>5, <1>9
<1>11. Under(cs, t, FALSE, clean)
  BY ONLY <1>10, AdvanceStep
<1>12. SameRoot(st, t)
  BY ONLY <1>10, AdvanceStep
<1>13. Under(bufs', stack', tok' = "value", ~dirty') /\ SameRoot(stack, stack')
  BY <1>4, <1>6, <1>11, <1>12
<1> QED
  BY <1>1, <1>3, <1>6, <1>13, GoesOn

\* An element of an array of messages begins.
LEMMA MsgElementStep == ASSUME IInv, MsgElement PROVE IInv'
<1>1. pc = "parsing" /\ tok = "value" /\ Top.kind = "rep" /\ Top.f = "r"
  BY DEF MsgElement, AtElement, InRep
<1>2. /\ pc' = pc /\ bound' = bound /\ oldlen' = oldlen /\ dirty' = dirty /\ bufs' = bufs /\ NextToken(n)
      /\ stack' = Append(stack, MsgFrame(Top.b, Top.it))
  BY DEF MsgElement
<1>3. PICK bs, st, t, z, val, clean, late, clean2, g, i, o :
          /\ bs = bufs /\ st = stack /\ t = stack' /\ z = Len(st) /\ g = Top /\ i = g.b /\ o = g.it
          /\ val = (tok = "value") /\ clean = ~dirty /\ late = (tok' = "value") /\ clean2 = ~dirty'
  OBVIOUS
<1>4. /\ Under(bs, st, val, clean) /\ g = st[z] /\ g.kind = "rep" /\ g.f = "r" /\ val
      /\ text = <<>> /\ bound \in Bounds
  BY <1>1, <1>3, Running
<1>5. clean2 = clean /\ text' = <<>>
  BY <1>2, <1>3, <1>4, NextTokenIs
<1>6. MsgIn(bs[g.b], g.it)
  <2>1. val /\ Under(bs, st, val, clean) /\ z = Len(st) /\ g = st[z] /\ g.kind = "rep" /\ g.f = "r"
    BY <1>3, <1>4
  <2> QED
    BY ONLY <2>1, ElementMsg
<1>7. /\ Under(bs, st, val, clean) /\ z = Len(st)
      /\ (IF st[z].kind = "rep" THEN val /\ i = st[z].b /\ st[z].f = "r" /\ o = st[z].it ELSE i = Len(bs))
      /\ MsgIn(bs[i], o) /\ t = Append(st, MsgFrame(i, o))
  BY <1>2, <1>3, <1>4, <1>6
<1>8. Under(bs, t, late, clean)
  BY ONLY <1>7, PushMsg
<1>9. SameRoot(st, t)
  BY ONLY <1>7, PushMsg
<1>10. Under(bufs', stack', tok' = "value", ~dirty') /\ SameRoot(stack, stack')
  BY <1>2, <1>3, <1>5, <1>8, <1>9
<1> QED
  BY <1>1, <1>2, <1>5, <1>10, GoesOn

\* The name of the array's field again
LEMMA RepMoreStep == ASSUME IInv, RepMore PROVE IInv'
<1>1. pc = "parsing" /\ tok # "value" /\ Top.kind = "rep" /\ bufs[Top.b].len = Top.it.off
  BY DEF RepMore, AfterElement, InRep
<1>2. /\ pc' = pc /\ bound' = bound /\ oldlen' = oldlen /\ dirty' = dirty /\ text' = text
      /\ stack' = stack /\ tok' = "value"
      /\ bufs' = [bufs EXCEPT ![Top.b] = Alloc(bufs[Top.b], ObjSize(Top.it))]
  BY DEF RepMore
<1>3. PICK bs, cs, st, z, val, clean, late, clean2, g :
          /\ bs = bufs /\ cs = bufs' /\ st = stack /\ z = Len(st) /\ g = Top
          /\ val = (tok = "value") /\ clean = ~dirty /\ late = (tok' = "value") /\ clean2 = ~dirty'
  OBVIOUS
<1>4. /\ Under(bs, st, val, clean) /\ g = st[z] /\ g.kind = "rep" /\ ~val /\ bs[g.b].len = g.it.off
      /\ IsSequence(bs) /\ g.b \in 1 .. Len(bs) /\ text = <<>>
  BY <1>1, <1>3, Running
<1>5. clean2 = clean /\ late
  BY <1>2, <1>3
<1>6. PICK c : c = Alloc(bs[g.b], ObjSize(g.it)) /\ cs = [bs EXCEPT ![g.b] = c]
  BY <1>2, <1>3
<1>7. Differs(bs, cs, g.b, c)
  BY <1>4, <1>6, ReplaceIs
<1>8. Under(cs, st, TRUE, clean)
  <2>1. /\ ~val /\ Under(bs, st, val, clean) /\ z = Len(st) /\ g = st[z] /\ g.kind = "rep"
        /\ bs[g.b].len = g.it.off /\ c = Alloc(bs[g.b], ObjSize(g.it)) /\ Differs(bs, cs, g.b, c)
    BY <1>3, <1>4, <1>6, <1>7
  <2> QED
    BY ONLY <2>1, MoreStep
<1>9. Under(bufs', stack', tok' = "value", ~dirty') /\ SameRoot(stack, stack')
  BY <1>2, <1>3, <1>5, <1>8 DEF SameRoot
<1> QED
  BY <1>1, <1>2, <1>4, <1>9, GoesOn

\* An assertion that does not hold: then an earlier parse has failed.
LEMMA AbortStep == ASSUME IInv, Abort PROVE IInv'
<1>1. pc = "parsing" /\ tok # "value" /\ Top.kind = "rep" /\ ~RepAsserts(Top)
  BY DEF Abort, AfterElement, InRep
<1>2. UNCHANGED <<tok, text, bound, bufs, stack, oldlen, dirty>> /\ pc' = "aborted"
  BY DEF Abort
<1>3. dirty
  <2> SUFFICES ASSUME ~dirty PROVE FALSE
    OBVIOUS
  <2>1. PICK bs, st, z, val, clean, g, j, r :
            /\ bs = bufs /\ st = stack /\ z = Len(st) /\ g = Top /\ j = Len(g.items)
            /\ val = (tok = "value") /\ clean = ~dirty /\ r = ResizeArr(bs[g.b], g.first, j)
    OBVIOUS
  <2>2. /\ OnArr(bs, st, val, clean, z, g) /\ clean
        /\ j = Len(g.items) /\ r = ResizeArr(bs[g.b], g.first, j)
    BY <1>1, <2>1, Running DEF OnArr
  <2>3. /\ bs[g.b].len = g.it.off /\ AtEnd(bs[g.b], g.first, j)
        /\ g.first.psize > 0 => Fixable(r, g.first, j, bs[Len(bs)])
    BY ONLY <2>2, AssertsHold
  <2>4. RepAsserts(g)
    BY <1>1, <2>1, <2>3, Running DEF RepAsserts, Resized
  <2> QED
    BY <1>1, <2>1, <2>4
<1>4. Under(bufs', stack', tok' = "value", ~dirty') /\ oldlen' <= stack'[1].o.off
  BY <1>1, <1>2 DEF IInv
<1> QED
  BY <1>1, <1>2, <1>3, <1>4 DEF IInv

\* The end of an array, and of the buffer for what its elements point to
LEMMA RepFinishStep == ASSUME IInv, RepFinish PROVE IInv'
<1>1. pc = "parsing" /\ tok # "value" /\ Top.kind = "rep"
  BY DEF RepFinish, AfterElement, InRep
<1>2. UNCHANGED <<pc, tok, text, bound, oldlen, dirty>>
  BY DEF RepFinish
<1>3. PICK bs, es, st, t, u, z, y, val, clean, g, fr :
          /\ bs = bufs /\ es = bufs' /\ st = stack /\ t = Front(st) /\ u = stack' /\ g = Top /\ fr = Below
          /\ z = Len(st) /\ y = z - 1 /\ val = (tok = "value") /\ clean = ~dirty
  OBVIOUS
<1>4. /\ OnArr(bs, st, val, clean, z, g) /\ fr = st[y] /\ IsRep(g) /\ Last(bs) = bs[Len(bs)]
      /\ text = <<>>
  BY <1>1, <1>3, Running DEF OnArr, Below
<1>5. PICK c, cs, m, late : /\ c = Finished(bs, g) /\ m = g.b /\ late = (tok' = "value")
                            /\ cs = [i \in 1 .. g.b |-> IF i = g.b THEN c ELSE bs[i]]
  OBVIOUS
<1>6. /\ Under(cs, t, late, clean) /\ SameRoot(st, t) /\ Len(cs) = g.b /\ cs[g.b] = c
      /\ z >= 2 /\ Len(t) = z - 1 /\ t[z - 1] = st[z - 1] /\ t[z - 1].kind = "msg"
      /\ HdrOffset(c, g.first) \in Nat /\ HdrOffset(c, g.first) < c.len
  <2>1. /\ OnArr(bs, st, val, clean, z, g) /\ c = Finished(bs, g)
        /\ cs = [i \in 1 .. g.b |-> IF i = g.b THEN c ELSE bs[i]] /\ t = Front(st)
    BY <1>3, <1>4, <1>5
  <2> QED
    BY ONLY <2>1, PopRep
<1>7. PICK hdr, i, e, d, h :
          /\ hdr = HdrOffset(c, g.first) /\ i = Index[g.f] /\ e = SetP(cs[fr.b], fr.o, i, hdr, fr.b = m)
          /\ d = [fr.doc EXCEPT ![g.f] = @ \o g.items] /\ h = [fr EXCEPT !.doc[g.f] = @ \o g.items]
  OBVIOUS
<1>8. es = [cs EXCEPT ![fr.b] = e] /\ u = ReplaceAt(t, y, h)
  <2>1. Complete(g) = c
    BY <1>3, <1>4, <1>5 DEF Complete, Resized, Finished
  <2> QED
    BY <1>3, <1>5, <1>6, <1>7, <2>1 DEF RepFinish
<1>9. Under(es, t, late, clean)
  <2>1. i \in 0 .. 4
    BY <1>4, <1>7 DEF IsRep, Repeated, Index
  <2>2. /\ Under(cs, t, late, clean) /\ y = Len(t) /\ fr = t[y] /\ fr.kind = "msg" /\ i \in 0 .. 4
        /\ m = Len(cs) /\ hdr \in Nat /\ hdr < cs[m].len
        /\ e = SetP(cs[fr.b], fr.o, i, hdr, fr.b = m) /\ es = [cs EXCEPT ![fr.b] = e]
    BY <1>3, <1>4, <1>5, <1>6, <1>7, <1>8, <2>1
  <2> QED
    BY ONLY <2>2, SetPtr
<1>10. /\ Under(es, t, late, clean) /\ y = Len(t) /\ fr = t[y] /\ fr.kind = "msg"
       /\ h = [kind |-> "msg", b |-> fr.b, o |-> fr.o, doc |-> d] /\ u = ReplaceAt(t, y, h)
  <2>1. IsMsg(fr)
    <3>1. PICK k : k = Len(bs) /\ k \in Nat /\ Chain(st, k)
      BY <1>4 DEF OnArr, Under, Memory, IsSequence
    <3>2. y \in 1 .. Len(st)
      BY <1>3, <1>6, <3>1, ChainIs
    <3>3. IsFrame(st[y])
      BY <3>1, <3>2, ChainIs
    <3> QED
      BY <1>3, <1>4, <1>6, <3>3 DEF IsFrame
  <2> QED
    BY <1>3, <1>4, <1>6, <1>7, <1>8, <1>9, <2>1 DEF IsMsg
<1>11. Under(es, u, late, clean)
  BY ONLY <1>10, NewDoc
<1>12. SameRoot(t, u)
  BY ONLY <1>10, NewDoc
<1>13. Under(bufs', stack', tok' = "value", ~dirty') /\ SameRoot(stack, stack')
  BY <1>2, <1>3, <1>5, <1>6, <1>11, <1>12 DEF SameRoot
<1> QED
  BY <1>1, <1>2, <1>4, <1>13, GoesOn

\* The message is read.
LEMMA FinishStep == ASSUME IInv, Finish PROVE IInv'
<1>1. pc = "parsing" /\ Len(stack) = 1 /\ pc' = "done" /\ UNCHANGED <<tok, text, bound, bufs, oldlen, dirty>>
  BY DEF Finish, InMsg
<1>2. Under(bufs, stack, tok = "value", ~dirty)
  BY <1>1 DEF IInv
<1>3. Len(bufs) = 1
  <2>1. Home(stack, 1) = Len(bufs) /\ stack[1].kind = "msg" /\ stack[1].b = 1
    BY <1>1, <1>2 DEF Under, Chain
  <2> QED
    BY <2>1 DEF Home
<1>4. GoodBuf(bufs[1], ~dirty)
  BY <1>2, <1>3 DEF Under, Memory
<1> QED
  BY <1>1, <1>3, <1>4 DEF IInv, GoodBuf

\* An error
LEMMA FailStep == ASSUME IInv, Fail PROVE IInv'
<1>1. /\ pc = "parsing" /\ pc' = "failed" /\ UNCHANGED <<text, bound, oldlen, dirty>>
      /\ \E b \in {bufs[1], WithStr(bufs[1], n + 1)} : bufs' = <<[b EXCEPT !.len = oldlen]>>
  BY DEF Fail
<1>2. PICK b : /\ b = bufs[1] \/ b = WithStr(bufs[1], n + 1)
               /\ bufs' = <<[b EXCEPT !.len = oldlen]>>
  BY <1>1
<1>3. /\ Under(bufs, stack, tok = "value", ~dirty) /\ oldlen \in Nat /\ oldlen <= stack[1].o.off
      /\ 1 \in 1 .. Len(bufs) /\ 1 \in 1 .. Len(stack) /\ stack[1].b = 1 /\ stack[1].kind = "msg"
  <2>1. Under(bufs, stack, tok = "value", ~dirty) /\ Len(bufs) \in Nat /\ Len(bufs) \in 1 .. Len(bufs)
        /\ Len(stack) \in Nat /\ Len(stack) \in 1 .. Len(stack)
    BY <1>1, Running
  <2> QED
    BY <1>1, <2>1 DEF IInv, Under, Chain
<1>4. GoodBuf(bufs[1], ~dirty) /\ MsgIn(bufs[1], stack[1].o)
  BY <1>3 DEF Under, Memory, FrameIn
<1>5. oldlen <= bufs[1].len
  <2>1. PICK x \in Nat, y \in Nat : x = stack[1].o.off /\ y = bufs[1].len /\ x + 24 <= y
    BY <1>4 DEF MsgIn, GoodBuf, IsBuf
  <2> QED
    BY <1>3, <2>1
<1>6. IsBuf(b) /\ oldlen <= b.len
  <2>1. CASE b = bufs[1]
    BY <1>4, <1>5, <2>1 DEF GoodBuf
  <2>2. CASE b = WithStr(bufs[1], n + 1)
    <3>1. Kept(bufs[1], b, {})
      BY <1>4, <2>2, WithStrIs
    <3>2. PICK x \in Nat, y \in Nat : x = bufs[1].len /\ y = b.len /\ x <= y /\ IsBuf(b)
      BY <1>4, <3>1 DEF Kept, GoodBuf, IsBuf
    <3> QED
      BY <1>3, <1>5, <3>2
  <2> QED
    BY <1>2, <2>1, <2>2
<1>7. PICK c : c = [b EXCEPT !.len = oldlen] /\ bufs' = <<c>>
  BY <1>2
<1>8. IsBuf(c)
  BY <1>3, <1>6, <1>7, ShortIs
<1>9. IsSequence(bufs') /\ Len(bufs') = 1 /\ bufs'[1] = c
  BY <1>7, SingletonIs
<1> QED
  BY <1>1, <1>8, <1>9 DEF IInv

\* A message alone
LEMMA RootIs ==
    ASSUME NEW c, NEW clean, GoodBuf(c, clean), NEW o, MsgIn(c, o), NEW bs, bs = <<c>>,
           NEW st, st = <<MsgFrame(1, o)>>, NEW val
    PROVE  Under(bs, st, val, clean)
<1>1. PICK fr : fr = MsgFrame(1, o)
  OBVIOUS
<1>2. fr.kind = "msg" /\ fr.b = 1 /\ fr.o = o /\ IsFrame(fr)
  BY <1>1 DEF MsgFrame, IsFrame, IsMsg
<1>3. IsSequence(bs) /\ Len(bs) = 1 /\ bs[1] = c /\ IsSequence(st) /\ Len(st) = 1 /\ st[1] = fr
  BY <1>1, SingletonIs
<1>4. Chain(st, Len(bs)) /\ Apart(st)
  BY <1>2, <1>3 DEF Chain, Apart, Home
<1>5. Memory(bs, st, val, clean)
  BY <1>2, <1>3 DEF Memory, FrameIn
<1> QED
  BY <1>4, <1>5 DEF Under

\* nbuf_parse is called.
LEMMA BeginStep == ASSUME IInv, Begin PROVE IInv'
<1>1. PICK b, o, c, clean : /\ b = bufs[1] /\ o = NewObj(b, MsgSsize, MsgPsize)
                            /\ c = AllocObj(b, MsgSsize, MsgPsize) /\ clean = ~dirty'
  OBVIOUS
<1>2. /\ pc \in {"idle", "done", "failed"} /\ pc' = "parsing" /\ oldlen' = b.len
      /\ bufs' = <<c>> /\ stack' = <<MsgFrame(1, o)>> /\ dirty' = (dirty \/ pc = "failed")
      /\ NextToken(n) /\ bound' = bound
  BY <1>1 DEF Begin
<1>3. IsBuf(b) /\ text = <<>> /\ bound \in Bounds /\ (pc \in {"idle", "done"} /\ ~dirty => Clear(b, Words(b.len) + 1))
  BY <1>1, <1>2 DEF IInv
<1>4. GoodBuf(b, clean)
  BY <1>1, <1>2, <1>3 DEF GoodBuf
<1>5. GoodBuf(c, clean) /\ MsgIn(c, o)
  BY <1>1, <1>4, NewMsg
<1>6. Under(bufs', stack', tok' = "value", ~dirty')
  <2>1. PICK val, bs, st : val = (tok' = "value") /\ bs = <<c>> /\ st = <<MsgFrame(1, o)>>
    OBVIOUS
  <2>2. Under(bs, st, val, clean)
    BY <1>5, <2>1, RootIs
  <2> QED
    BY <1>1, <1>2, <2>1, <2>2
<1>7. oldlen' \in Nat /\ oldlen' <= stack'[1].o.off
  <2>1. PICK x \in Nat, y \in Nat : x = b.len /\ y = Start(b) /\ x <= y
    BY <1>3, StartIs DEF IsBuf
  <2>2. stack'[1].o = o
    BY <1>2, SingletonIs DEF MsgFrame
  <2>3. o.off = y + 4
    BY <1>1, <2>1 DEF NewObj, Object
  <2> QED
    BY <1>2, <2>1, <2>2, <2>3
<1>8. text' = <<>>
  BY <1>2, <1>3, NextTokenIs
<1>9. IsSequence(bufs') /\ Len(bufs') >= 1
  BY <1>2, SingletonIs
<1> QED
  BY <1>2, <1>3, <1>6, <1>7, <1>8, <1>9 DEF IInv

\* The first state
LEMMA FirstState == ASSUME Init PROVE IInv
<1>1. PICK b \in Outputs : bufs = <<b>>
  BY DEF Init
<1>2. /\ pc = "idle" /\ text = <<>> /\ bound \in Bounds /\ oldlen = 0
  BY DEF Init
<1>3. IsBuf(b) /\ Clear(b, Words(b.len))
  BY OutputsAssumption DEF IsBuf, Clear
<1>4. Clear(b, Words(b.len) + 1)
  <2>1. b.len \in Nat /\ b.cap \in Nat
    BY <1>3 DEF IsBuf
  <2>2. Words(b.len) \in Int /\ Words(b.len) + 1 \in Int /\ Words(b.len) <= Words(b.len) + 1
    BY <2>1 DEF Words
  <2> QED
    BY <1>3, <2>1, <2>2, ClearFrom
<1>5. IsSequence(bufs) /\ Len(bufs) = 1 /\ bufs[1] = b
  BY <1>1, SingletonIs
<1> QED
  BY <1>2, <1>3, <1>4, <1>5 DEF IInv

-----------------------------------------------------------------------------
(* Every state *)

\* The invariant is kept by every step.
LEMMA Step == ASSUME IInv, [Next]_vars PROVE IInv'
<1>1. CASE Begin
  BY <1>1, BeginStep
<1>2. CASE Scalar
  BY <1>2, ScalarStep
<1>3. CASE String
  BY <1>3, StringStep
<1>4. CASE NestedMsg
  BY <1>4, NestedMsgStep
<1>5. CASE CloseMsg
  BY <1>5, CloseMsgStep
<1>6. CASE \E f \in Repeated : RepBegin(f)
  BY <1>6, RepBeginStep
<1>7. CASE ScalarElement
  BY <1>7, ScalarElementStep
<1>8. CASE StringElement
  BY <1>8, StringElementStep
<1>9. CASE MsgElement
  BY <1>9, MsgElementStep
<1>10. CASE RepMore
  BY <1>10, RepMoreStep
<1>11. CASE RepFinish
  BY <1>11, RepFinishStep
<1>12. CASE Finish
  BY <1>12, FinishStep
<1>13. CASE Fail
  BY <1>13, FailStep
<1>14. CASE Abort
  BY <1>14, AbortStep
<1>15. CASE UNCHANGED vars
  <2>1. UNCHANGED <<pc, tok, text, bound, bufs, stack, oldlen, dirty>>
    BY <1>15 DEF vars
  <2>2. pc \in {"parsing", "aborted"} =>
            Under(bufs', stack', tok' = "value", ~dirty') /\ oldlen' <= stack'[1].o.off
    BY <2>1 DEF IInv
  <2> QED
    BY <2>1, <2>2 DEF IInv
<1> QED
  BY <1>1, <1>2, <1>3, <1>4, <1>5, <1>6, <1>7, <1>8, <1>9, <1>10, <1>11, <1>12, <1>13, <1>14, <1>15 DEF Next

\* What the invariant says of the assertions
LEMMA NoneAborts == ASSUME IInv PROVE NoAbort
<1>1. ArraysAtEnd
  <2> SUFFICES ASSUME pc = "parsing", NEW k \in DOMAIN stack, stack[k].kind = "rep"
               PROVE  bufs[stack[k].b].len =
                          stack[k].it.off + (IF k < Len(stack) \/ tok = "value" THEN ObjSize(stack[k].it) ELSE 0)
    BY DEF ArraysAtEnd
  <2>1. PICK bs, st, val, clean, m, b, g, j :
            /\ bs = bufs /\ st = stack /\ val = (tok = "value") /\ clean = ~dirty
            /\ m = Len(bs) /\ g = st[k] /\ b = bs[g.b] /\ j = Len(g.items)
    OBVIOUS
  <2>2. Under(bs, st, val, clean) /\ m \in Nat /\ Chain(st, m)
    BY <2>1, Running DEF Under
  <2>3. k \in 1 .. Len(st)
    BY <2>1, <2>2 DEF Chain, IsSequence
  <2>4. /\ IsRep(g) /\ g.b \in 1 .. m /\ ArrIn(b, g, Started(st, val, k)) /\ IsBuf(b)
    <3>1. IsFrame(g) /\ g.b \in 1 .. m /\ FrameIn(bs, g, Started(st, val, k), clean)
      BY <2>1, <2>2, <2>3 DEF Under, Chain, Memory
    <3>2. GoodBuf(b, clean)
      BY <2>1, <2>2, <3>1 DEF Under, Memory
    <3> QED
      BY <2>1, <3>1, <3>2 DEF IsFrame, FrameIn, GoodBuf
  <2>5. PICK d : d = IF k < Len(st) \/ val THEN 1 ELSE 0
    OBVIOUS
  <2>6. Started(st, val, k) = j + d /\ d \in {0, 1} /\ j \in Nat /\ g.f \in Repeated
    BY <2>1, <2>4, <2>5 DEF Started, IsRep, IsSequence
  <2>7. ArrFacts(b, g, j, d)
    <3>1. /\ IsBuf(b) /\ j \in Nat /\ j = Len(g.items) /\ d \in {0, 1} /\ g.f \in Repeated
          /\ ArrIn(b, g, j + d)
      BY <2>1, <2>4, <2>6
    <3> QED
      BY ONLY <3>1, ArrFactsHold
  <2>8. PICK size \in Nat, at \in Nat, len \in Nat :
            /\ size = ObjSize(g.first) /\ size = ObjSize(g.it) /\ at = g.it.off /\ len = b.len
            /\ g.first.off + j * size = at /\ g.first.off + (j + d) * size = len
            /\ g.first.off + (j + 1) * size = at + size
    BY <2>7 DEF ArrFacts
  <2>9. CASE k < Len(st) \/ val
    <3>1. len = at + size
      BY <2>5, <2>8, <2>9
    <3> QED
      BY <2>1, <2>8, <2>9, <3>1
  <2>10. CASE ~(k < Len(st) \/ val)
    <3>1. j + d = j
      BY <2>5, <2>6, <2>10
    <3>2. len = at + 0
      BY <2>8, <3>1
    <3> QED
      BY <2>1, <2>8, <2>10, <3>2
  <2> QED
    BY <2>9, <2>10
<1> QED
  BY <1>1 DEF IInv, NoAbort

\* In every state the frames and the buffers are as IInv has them: each frame in
\* the buffer its place in the nest gives it, a message where its header is, an
\* array at the end of its buffer, and in an array under construction only
\* pointers into the buffer that nbuf_fix_arr will append.
THEOREM InvariantHolds == Spec => []IInv
<1>1. Init => IInv
  BY FirstState
<1>2. IInv /\ [Next]_vars => IInv'
  BY Step
<1> QED
  BY <1>1, <1>2, PTL DEF Spec

\* No assertion of the parser, of nbuf_resize_arr or of nbuf_fix_arr fails on a
\* buffer on which no parse has failed, and every array under construction, the
\* outer ones of a nest included, can take another element (parse.c:272).
THEOREM NothingAborts == Spec => []NoAbort
<1>1. IInv => NoAbort
  BY NoneAborts
<1> QED
  BY <1>1, InvariantHolds, PTL

-----------------------------------------------------------------------------
(* What Decode reads *)

\* The messages of depth d, when g has those they contain
Level(b, d, g) ==
    [m \in Objects |->
        LET child == Raw(b, m, "n")
            r == Raw(b, m, "r")
            xs == Raw(b, m, "xs")
            ss == Raw(b, m, "ss")
        IN  IF d = 0 \/ m.ssize > MsgSsize \/ m.psize > MsgPsize THEN EmptyDoc
            ELSE [x |-> GetScalar(b, m),
                  s |-> GetStr(b, m),
                  n |-> IF child.n = 0 THEN <<>> ELSE <<g[child]>>,
                  r |-> [i \in 1 .. r.n |-> g[Element(r, i)]],
                  xs |-> [i \in 1 .. xs.n |-> ScalarAt(b, xs, i)],
                  ss |-> [i \in 1 .. ss.n |-> StrAt(b, ss, i)]]]

\* The function that Decode takes a value of
Levels(b, D) == D = [d \in Nat |-> Level(b, d, D[d - 1])]

\* At depth 0 nothing is read.
LEMMA LevelZero == ASSUME NEW b, NEW g, NEW h PROVE Level(b, 0, g) = Level(b, 0, h)
BY DEF Level

\* D up to depth k
UpToLevel(b, k, P) == P = [d \in 0 .. k |-> Level(b, d, P[d - 1])]

\* The levels up to a depth, one by one
LEMMA LevelUpTo ==
    ASSUME NEW b, NEW k \in Nat, NEW P, UpToLevel(b, k, P), NEW d \in 0 .. k
    PROVE  P[d] = Level(b, d, P[d - 1])
BY DEF UpToLevel

\* One more level can be had,
LEMMA OneMoreLevel ==
    ASSUME NEW b, NEW k \in Nat, NEW P, UpToLevel(b, k, P)
    PROVE  \E Q : UpToLevel(b, k + 1, Q)
<1> DEFINE Q == [d \in 0 .. k + 1 |-> IF d <= k THEN P[d] ELSE Level(b, k + 1, P[k])]
<1>1. ASSUME NEW d \in 0 .. k + 1 PROVE Q[d] = Level(b, d, Q[d - 1])
  <2>1. CASE d = 0
    <3>1. Q[0] = Level(b, 0, P[0 - 1])
      BY DEF UpToLevel
    <3> HIDE DEF Q
    <3> QED
      BY <2>1, <3>1, LevelZero
  <2>2. CASE d # 0 /\ d <= k
    <3>1. d - 1 \in 0 .. k + 1 /\ d - 1 <= k /\ d \in 0 .. k
      BY <2>2
    <3>2. Q[d] = P[d] /\ Q[d - 1] = P[d - 1]
      BY <2>2, <3>1
    <3>3. P[d] = Level(b, d, P[d - 1])
      BY <3>1 DEF UpToLevel
    <3> HIDE DEF Q
    <3> QED
      BY <3>2, <3>3
  <2>3. CASE d = k + 1
    <3>1. Q[k + 1] = Level(b, k + 1, P[k]) /\ Q[k] = P[k] /\ k + 1 - 1 = k
      OBVIOUS
    <3> HIDE DEF Q
    <3> QED
      BY <2>3, <3>1
  <2>4. d = 0 \/ (d # 0 /\ d <= k) \/ d = k + 1
    OBVIOUS
  <2> HIDE DEF Q
  <2> QED
    BY <2>1, <2>2, <2>3, <2>4
<1>2. Q = [d \in 0 .. k + 1 |-> Q[d]]
  OBVIOUS
<1> HIDE DEF Q
<1>3. Q = [d \in 0 .. k + 1 |-> Level(b, d, Q[d - 1])]
  BY <1>1, <1>2
<1> QED
  BY <1>3 DEF UpToLevel

\* in one way only,
LEMMA SameLevels ==
    ASSUME NEW b, NEW j \in Nat, NEW P, UpToLevel(b, j, P), NEW k \in Nat, j <= k, NEW Q, UpToLevel(b, k, Q)
    PROVE  P[j] = Q[j]
<1> DEFINE Same == {d \in Nat : d <= j => P[d] = Q[d]}
<1>1. 0 \in Same
  <2>1. P[0] = Level(b, 0, P[0 - 1]) /\ Q[0] = Level(b, 0, Q[0 - 1])
    <3>1. 0 \in 0 .. j /\ 0 \in 0 .. k
      OBVIOUS
    <3> QED
      BY <3>1, LevelUpTo
  <2>2. P[0] = Q[0]
    BY <2>1, LevelZero
  <2> QED
    BY <2>2
<1>2. ASSUME NEW d \in Nat, d \in Same PROVE d + 1 \in Same
  <2> SUFFICES ASSUME d + 1 <= j PROVE P[d + 1] = Q[d + 1]
    OBVIOUS
  <2>1. d + 1 \in 0 .. j /\ d + 1 \in 0 .. k /\ d + 1 - 1 = d /\ P[d] = Q[d]
    BY <1>2
  <2>2. P[d + 1] = Level(b, d + 1, P[d + 1 - 1]) /\ Q[d + 1] = Level(b, d + 1, Q[d + 1 - 1])
    BY <2>1 DEF UpToLevel
  <2> QED
    BY <2>1, <2>2
<1>3. Nat \subseteq Same
  <2> HIDE DEF Same
  <2> QED
    BY <1>1, <1>2, NatSetInduction
<1> QED
  BY <1>3

\* and so there are the levels of all depths.
LEMMA LevelsExist == ASSUME NEW b PROVE \E D : Levels(b, D)
<1> DEFINE Has1 == {k \in Nat : \E P : UpToLevel(b, k, P)}
<1>1. 0 \in Has1
  <2> DEFINE P == [d \in 0 .. 0 |-> Level(b, 0, 0)]
  <2>1. P = [d \in 0 .. 0 |-> Level(b, d, P[d - 1])]
    <3>1. ASSUME NEW d \in 0 .. 0 PROVE Level(b, 0, 0) = Level(b, d, P[d - 1])
      <4> HIDE DEF P
      <4>1. d = 0
        OBVIOUS
      <4> QED
        BY <4>1, LevelZero
    <3>2. P = [d \in 0 .. 0 |-> P[d]] /\ \A d \in 0 .. 0 : P[d] = Level(b, 0, 0)
      OBVIOUS
    <3> HIDE DEF P
    <3> QED
      BY <3>1, <3>2
  <2> HIDE DEF P
  <2>2. UpToLevel(b, 0, P)
    BY <2>1 DEF UpToLevel
  <2> QED
    BY <2>2
<1>2. ASSUME NEW k \in Nat, k \in Has1 PROVE k + 1 \in Has1
  BY <1>2, OneMoreLevel
<1>3. Nat \subseteq Has1
  <2> HIDE DEF Has1
  <2> QED
    BY <1>1, <1>2, NatSetInduction
<1> DEFINE G(k) == CHOOSE P : UpToLevel(b, k, P)
<1>4. ASSUME NEW k \in Nat PROVE UpToLevel(b, k, G(k))
  BY <1>3
<1> DEFINE D == [d \in Nat |-> G(d)[d]]
<1> HIDE DEF G, Has1
<1>5. ASSUME NEW d \in Nat PROVE D[d] = Level(b, d, D[d - 1])
  <2>1. D[d] = G(d)[d]
    OBVIOUS
  <2>2. G(d)[d] = Level(b, d, G(d)[d - 1])
    BY <1>4 DEF UpToLevel
  <2>3. CASE d = 0
    <3> HIDE DEF D
    <3> QED
      BY <2>1, <2>2, <2>3, LevelZero
  <2>4. CASE d # 0
    <3>1. d - 1 \in Nat /\ d - 1 <= d /\ D[d - 1] = G(d - 1)[d - 1]
      BY <2>4
    <3>2. UpToLevel(b, d, G(d)) /\ UpToLevel(b, d - 1, G(d - 1))
      BY <1>4, <3>1
    <3>3. G(d - 1)[d - 1] = G(d)[d - 1]
      BY <3>1, <3>2, SameLevels
    <3> HIDE DEF D
    <3> QED
      BY <2>1, <2>2, <3>1, <3>3
  <2> QED
    BY <2>3, <2>4
<1>6. D = [d \in Nat |-> D[d]]
  OBVIOUS
<1> HIDE DEF D
<1>7. D = [d \in Nat |-> Level(b, d, D[d - 1])]
  BY <1>5, <1>6
<1> QED
  BY <1>7 DEF Levels

\* Decode reads from the level of its depth.
LEMMA DecodeIs ==
    ASSUME NEW b
    PROVE  \E D : Levels(b, D) /\ \A o, depth : Decode(b, o, depth) = D[depth][o]
<1>1. PICK D : D = CHOOSE E : Levels(b, E)
  OBVIOUS
<1>2. Levels(b, D)
  BY <1>1, LevelsExist
<1>3. \A o, depth : Decode(b, o, depth) = D[depth][o]
  BY <1>1, Zenon DEF Decode, Levels, Level
<1> QED
  BY <1>2, <1>3

\* The buffer b as it was when it had L bytes
Cut(b, L) == [mem |-> b.mem, len |-> L]

\* The words below L are the same in c.
SameTo(b, c, L) == \A w \in Nat : 4 * w < L => c.mem[w] = b.mem[w]

\* The pointers of an object, and an object with n elements, below L
Rooted(o, t, L) ==
    /\ o \in Objects /\ o.off + ObjSize(o) <= L
    /\ \A i \in 0 .. o.psize - 1 : \E w \in t.ptrs : o.off + 4 * i = 4 * w
Found(g, t, L) ==
    \/ g = Null
    \/ /\ g \in Objects /\ ObjSize(g) >= 1 /\ g.off + g.n * ObjSize(g) <= L
       /\ \A q \in Pointers(g, g.n) : \E w \in t.ptrs : q = 4 * w

\* In c all is as it was in b when that had L bytes.
Agree(b, c, L, t) ==
    /\ L \in Nat /\ L < M /\ c.len \in Nat /\ L <= c.len
    /\ Typed(Cut(b, L), t) /\ SameTo(b, c, L)

\* Buffers that agree carry the same kinds.
LEMMA AgreeCarries ==
    ASSUME NEW b, NEW c, NEW L, NEW t, Agree(b, c, L, t)
    PROVE  Carries(Cut(b, L), t, c, t, 0) /\ Carries(Cut(b, L), t, Cut(b, L), t, 0)
<1>1. Cut(b, L).mem = b.mem /\ Cut(b, L).len = L
  BY DEF Cut
<1>2. \A w \in t.fixed \cup t.ptrs : w \in Nat /\ w + 0 = w /\ 4 * w < L
  BY <1>1 DEF Agree, Typed, Kinds
<1>3. \A w \in t.fixed : c.mem[w + 0] = b.mem[w]
  BY <1>2 DEF Agree, SameTo
<1> QED
  BY <1>1, <1>2, <1>3 DEF Carries, Agree

\* A pointer is read as it was.
LEMMA PtrRead ==
    ASSUME NEW b, NEW c, NEW L, NEW t, Agree(b, c, L, t), NEW o, Rooted(o, t, L), NEW i \in Nat,
           NEW w, w = b.mem[(o.off + 4 * i) \div 4]
    PROVE  /\ ObjP(c, o, i) = IF i >= o.psize \/ w = 0 THEN Null ELSE GetObj(Cut(b, L), o.off + 4 * i + 4 * w)
           /\ Found(ObjP(c, o, i), t, L)
<1>1. o.off \in Nat /\ o.psize \in Nat /\ L \in Nat /\ Cut(b, L).mem = b.mem /\ Cut(b, L).len = L
  BY DEF Rooted, Objects, Agree, Cut
<1>2. CASE i >= o.psize
  BY <1>2 DEF ObjP, Found
<1>3. CASE i < o.psize
  <2>1. PICK v \in t.ptrs : o.off + 4 * i = 4 * v
    BY <1>1, <1>3 DEF Rooted
  <2>2. v \in Nat /\ 4 * v < L /\ (o.off + 4 * i) \div 4 = v /\ c.mem[v] = b.mem[v] /\ Near(Cut(b, L), t, v)
    BY <1>1, <2>1 DEF Agree, Typed, Kinds, SameTo
  <2>3. w = b.mem[v] /\ WordAt(c, PtrOffset(o, i)) = w /\ PtrOffset(o, i) = 4 * v
    BY <2>1, <2>2 DEF WordAt, PtrOffset
  <2>4. CASE w = 0
    BY <2>3, <2>4 DEF ObjP, Found
  <2>5. CASE w # 0
    <3>1. w \in Nat /\ Leads(Cut(b, L), t, v + w)
      BY <1>1, <2>2, <2>3, <2>5 DEF Near
    <3>2. PICK g : g = GetObj(Cut(b, L), 4 * (v + w))
      OBVIOUS
    <3>3. g \in Objects /\ g # Null /\ ObjSize(g) >= 1 /\ \A q \in Pointers(g, g.n) : \E z \in t.ptrs : q = 4 * z
      BY <3>1, <3>2 DEF Leads
    <3>4. 4 * (v + w) + 4 <= L /\ GetObj(c, 4 * (v + w)) = g /\ g.off + g.n * ObjSize(g) <= L
      <4>1. Copied(Cut(b, L), c, v + w, 0) /\ v + w + 0 = v + w
        BY <1>1, <2>2, <3>1, AgreeCarries DEF Leads, Carries, Copied
      <4>2. GetObj(c, 4 * (v + w)) = Moved(g, 4 * 0) /\ 4 * (v + w) + 4 <= L /\ g.off + g.n * ObjSize(g) <= L
        BY <1>1, <3>2, <3>3, <4>1, GetObjMoved
      <4>3. Moved(g, 0) = g
        BY <3>3, MovedIs
      <4> QED
        BY <4>2, <4>3
    <3>5. o.off + 4 * i + 4 * w = 4 * (v + w) /\ 4 * v + 4 * w = 4 * (v + w)
      BY <2>1, <2>2, <3>1
    <3>6. (4 * v + 4 * w) % M = 4 * (v + w) /\ 4 * (v + w) < c.len
      <4>1. 4 * (v + w) \in Nat /\ 4 * (v + w) < M /\ M \in Nat /\ M > 0
        BY <2>2, <3>1, <3>4, MIsNat DEF Agree
      <4>2. L <= c.len /\ c.len \in Nat
        BY DEF Agree
      <4>3. PICK h : h = 4 * (v + w)
        OBVIOUS
      <4>4. h % M = h
        BY <4>1, <4>3, SmallRemainder
      <4>5. 4 * v + 4 * w = h /\ 4 * (v + w) < c.len
        BY <1>1, <2>2, <3>1, <3>4, <3>5, <4>1, <4>2, <4>3
      <4>6. (4 * v + 4 * w) % M = 4 * (v + w)
        BY <4>3, <4>4, <4>5, Zenon
      <4> QED
        BY <4>5, <4>6
    <3>7. ObjP(c, o, i) = g
      <4>1. ~(i >= o.psize) /\ WordAt(c, PtrOffset(o, i)) = w /\ w # 0
        BY <1>1, <1>3, <2>3, <2>5
      <4>2. (PtrOffset(o, i) + 4 * w) % M = 4 * (v + w) /\ ~(4 * (v + w) >= c.len)
        BY <2>2, <2>3, <3>1, <3>6 DEF Agree
      <4> QED
        BY <3>4, <4>1, <4>2 DEF ObjP
    <3> QED
      BY <1>1, <1>3, <2>5, <3>2, <3>3, <3>4, <3>5, <3>7 DEF Found
  <2> QED
    BY <2>4, <2>5
<1> QED
  BY <1>1, <1>2, <1>3

\* A pointer of a message leads to the same in both buffers.
LEMMA SamePtr ==
    ASSUME NEW b, NEW c, NEW L, NEW t, Agree(b, b, L, t), Agree(b, c, L, t), NEW o, Rooted(o, t, L), NEW i \in Nat
    PROVE  ObjP(c, o, i) = ObjP(b, o, i) /\ Found(ObjP(b, o, i), t, L)
<1>1. PICK w : w = b.mem[(o.off + 4 * i) \div 4]
  OBVIOUS
<1> QED
  BY <1>1, PtrRead

\* The elements of an array that was found are rooted.
LEMMA ElementRooted ==
    ASSUME NEW g, NEW t, NEW L \in Nat, Found(g, t, L), NEW i \in 1 .. g.n
    PROVE  /\ Rooted(Element(g, i), t, L) /\ g.n \in Nat /\ g \in Objects
           /\ Element(g, i).off \in Nat /\ Element(g, i).off < L
           /\ Element(g, 1) = g
<1>1. g \in Objects /\ ObjSize(g) >= 1 /\ g.off + g.n * ObjSize(g) <= L
  <2>1. g # Null
    BY DEF Null, Object
  <2> QED
    BY <2>1 DEF Found
<1>2. PICK s \in Nat : s = ObjSize(g) /\ s >= 1
  BY <1>1 DEF Objects, ObjSize
<1>3. g.n \in Nat /\ g.off \in Nat /\ g.psize \in Nat /\ i \in Nat /\ i >= 1 /\ i <= g.n
  BY <1>1 DEF Objects
<1>4. PICK k \in Nat : k = (i - 1) * s
  <2>1. i - 1 \in Nat
    BY <1>3
  <2> QED
    BY <1>2, <2>1
<1>5. k + s <= g.n * s
  <2>1. PICK d \in Nat : g.n = i + d
    <3>1. g.n - i \in Nat /\ g.n = i + (g.n - i)
      BY <1>3
    <3> QED
      BY <3>1
  <2>2. g.n * s = i * s + d * s /\ d * s \in Nat
    BY <1>2, <1>3, <2>1
  <2>3. i * s = k + s
    BY <1>2, <1>3, <1>4
  <2>4. i * s \in Nat
    BY <1>2, <1>3
  <2> QED
    BY <1>2, <2>2, <2>3, <2>4
<1>6. PICK e : e = Element(g, i)
  OBVIOUS
<1>7. e = [g EXCEPT !.off = @ + k]
  BY <1>2, <1>4, <1>6 DEF Element
<1>8. e \in Objects /\ e.off = g.off + k /\ e.psize = g.psize /\ ObjSize(e) = s
  BY <1>1, <1>2, <1>7 DEF Objects, ObjSize
<1>9. ASSUME NEW j \in 0 .. e.psize - 1 PROVE \E w \in t.ptrs : e.off + 4 * j = 4 * w
  <2>1. PICK x \in Nat : x = i - 1
    BY <1>3
  <2>2. x \in 0 .. g.n - 1 /\ j \in 0 .. g.psize - 1
    BY <1>3, <1>8, <2>1
  <2>3. g.off + x * ObjSize(g) + 4 * j \in Pointers(g, g.n)
    BY <2>2 DEF Pointers
  <2>4. g.off + x * ObjSize(g) + 4 * j = e.off + 4 * j
    BY <1>2, <1>4, <1>8, <2>1
  <2>5. g # Null
    BY <1>3 DEF Null, Object
  <2> QED
    BY <2>3, <2>4, <2>5 DEF Found
<1>10. e.off + ObjSize(e) <= L /\ e.off \in Nat /\ e.off < L
  <2>1. PICK y \in Nat : y = g.n * s
    BY <1>2, <1>3
  <2> QED
    BY <1>1, <1>2, <1>3, <1>4, <1>5, <1>8, <2>1
<1>11. Element(g, 1) = g
  <2>1. (1 - 1) * ObjSize(g) = 0
    BY <1>2
  <2>2. Element(g, 1) = [g EXCEPT !.off = @ + 0]
    BY <2>1 DEF Element
  <2> QED
    BY <1>1, <1>3, <2>2 DEF Objects
<1> QED
  BY <1>1, <1>3, <1>6, <1>8, <1>9, <1>10, <1>11 DEF Rooted

\* Messages of depth d are read as they were, if the ones they contain are.
LEMMA SameLevel ==
    ASSUME NEW b, NEW c, NEW L, NEW t, Agree(b, b, L, t), Agree(b, c, L, t), NEW d \in Nat, NEW g, NEW h,
           d # 0 => \A x : Rooted(x, t, L) => g[x] = h[x],
           NEW m, Rooted(m, t, L)
    PROVE  Level(b, d, g)[m] = Level(c, d, h)[m]
<1> DEFINE End(k) == d = 0 \/ k.ssize > MsgSsize \/ k.psize > MsgPsize
           Body(a, k, e, ns, rs, xs, ss) ==
               IF End(k) THEN EmptyDoc
               ELSE [x |-> GetScalar(a, k), s |-> GetStr(a, k),
                     n |-> IF ns.n = 0 THEN <<>> ELSE <<e[ns]>>,
                     r |-> [i \in 1 .. rs.n |-> e[Element(rs, i)]],
                     xs |-> [i \in 1 .. xs.n |-> ScalarAt(a, xs, i)],
                     ss |-> [i \in 1 .. ss.n |-> StrAt(a, ss, i)]]
           Of(a, k, e) == Body(a, k, e, Raw(a, k, "n"), Raw(a, k, "r"), Raw(a, k, "xs"), Raw(a, k, "ss"))
<1>0. L \in Nat /\ m \in Objects /\ m.off \in Nat /\ m.psize \in Nat /\ m.ssize \in Nat
  BY DEF Agree, Rooted, Objects
<1>1. Level(b, d, g)[m] = Of(b, m, g) /\ Level(c, d, h)[m] = Of(c, m, h)
  BY <1>0 DEF Level
<1>2. CASE End(m)
  BY <1>1, <1>2
<1>3. CASE ~End(m)
  <2>1. PICK ns, rs, xs, ss, str :
            /\ ns = Raw(b, m, "n") /\ rs = Raw(b, m, "r") /\ xs = Raw(b, m, "xs") /\ ss = Raw(b, m, "ss")
            /\ str = Raw(b, m, "s")
    OBVIOUS
  <2>2. /\ Raw(c, m, "n") = ns /\ Raw(c, m, "r") = rs /\ Raw(c, m, "xs") = xs /\ Raw(c, m, "ss") = ss
        /\ Raw(c, m, "s") = str
        /\ Found(ns, t, L) /\ Found(rs, t, L) /\ Found(xs, t, L) /\ Found(ss, t, L) /\ Found(str, t, L)
    <3>1. ASSUME NEW i \in Nat PROVE ObjP(c, m, i) = ObjP(b, m, i) /\ Found(ObjP(b, m, i), t, L)
      BY SamePtr
    <3>2. /\ Index["n"] = 1 /\ Index["r"] = 2 /\ Index["xs"] = 3 /\ Index["ss"] = 4 /\ Index["s"] = 0
      BY DEF Index
    <3> QED
      BY <2>1, <3>1, <3>2 DEF Raw
  <2>3. ASSUME NEW off \in Nat, off < L PROVE WordAt(c, off) = WordAt(b, off)
    <3>1. off \div 4 \in Nat /\ 4 * (off \div 4) < L
      BY <1>0, <2>3
    <3> QED
      BY <3>1 DEF Agree, SameTo, WordAt
  <2>4. d # 0
    BY <1>3
  <2>5. GetScalar(b, m) = GetScalar(c, m)
    <3>1. CASE m.ssize >= 4
      <4>1. m.off + 4 * m.psize \in Nat /\ m.off + 4 * m.psize < L
        BY <1>0, <3>1 DEF Rooted, ObjSize
      <4> QED
        BY <2>3, <4>1 DEF GetScalar
    <3>2. CASE ~(m.ssize >= 4)
      BY <3>2 DEF GetScalar, HasScalar, MsgSsize
    <3> QED
      BY <3>1, <3>2
  <2>6. ASSUME NEW x, Found(x, t, L) PROVE ReadStr(b, x) = ReadStr(c, x)
    <3>1. CASE x.n = 0
      BY <3>1 DEF ReadStr
    <3>2. CASE x.n # 0
      <4>1. x # Null
        BY <3>2 DEF Null, Object
      <4>2. x \in Objects
        BY <2>6, <4>1 DEF Found
      <4>3. 1 \in 1 .. x.n
        BY <3>2, <4>2 DEF Objects
      <4>4. x.off \in Nat /\ x.off < L
        BY <1>0, <2>6, <4>3, ElementRooted
      <4> QED
        BY <2>3, <4>4 DEF ReadStr
    <3> QED
      BY <3>1, <3>2
  <2>7. GetStr(b, m) = GetStr(c, m)
    BY <2>1, <2>2, <2>6 DEF GetStr
  <2>8. (IF ns.n = 0 THEN <<>> ELSE <<g[ns]>>) = (IF ns.n = 0 THEN <<>> ELSE <<h[ns]>>)
    <3>1. CASE ns.n # 0
      <4>1. ns # Null
        BY <3>1 DEF Null, Object
      <4>2. ns \in Objects
        BY <2>2, <4>1 DEF Found
      <4>3. 1 \in 1 .. ns.n
        BY <3>1, <4>2 DEF Objects
      <4>4. Rooted(ns, t, L)
        BY <1>0, <2>2, <4>3, ElementRooted
      <4> QED
        BY <2>4, <4>4
    <3> QED
      BY <3>1
  <2>9. [i \in 1 .. rs.n |-> g[Element(rs, i)]] = [i \in 1 .. rs.n |-> h[Element(rs, i)]]
    <3>1. ASSUME NEW i \in 1 .. rs.n PROVE g[Element(rs, i)] = h[Element(rs, i)]
      <4>1. Rooted(Element(rs, i), t, L)
        BY <1>0, <2>2, ElementRooted
      <4> QED
        BY <2>4, <4>1
    <3> QED
      BY <3>1
  <2>10. [i \in 1 .. xs.n |-> ScalarAt(b, xs, i)] = [i \in 1 .. xs.n |-> ScalarAt(c, xs, i)]
    <3>1. ASSUME NEW i \in 1 .. xs.n PROVE ScalarAt(b, xs, i) = ScalarAt(c, xs, i)
      BY <1>0, <2>2, <2>3, ElementRooted DEF ScalarAt
    <3> QED
      BY <3>1
  <2>11. [i \in 1 .. ss.n |-> StrAt(b, ss, i)] = [i \in 1 .. ss.n |-> StrAt(c, ss, i)]
    <3>1. ASSUME NEW i \in 1 .. ss.n PROVE StrAt(b, ss, i) = StrAt(c, ss, i)
      <4>1. Rooted(Element(ss, i), t, L)
        BY <1>0, <2>2, ElementRooted
      <4>2. ObjP(c, Element(ss, i), 0) = ObjP(b, Element(ss, i), 0) /\ Found(ObjP(b, Element(ss, i), 0), t, L)
        BY <4>1, SamePtr
      <4> QED
        BY <2>6, <4>2 DEF StrAt
    <3> QED
      BY <3>1
  <2>12. Of(b, m, g) = Body(b, m, g, ns, rs, xs, ss) /\ Of(c, m, h) = Body(c, m, h, ns, rs, xs, ss)
    BY <2>1, <2>2
  <2>13. Body(b, m, g, ns, rs, xs, ss) = Body(c, m, h, ns, rs, xs, ss)
    BY <2>5, <2>7, <2>8, <2>9, <2>10, <2>11
  <2> QED
    BY <1>1, <2>12, <2>13
<1> QED
  BY <1>2, <1>3

\* What is complete below L is read from c as it was from b.
LEMMA SameDecode ==
    ASSUME NEW b, NEW c, NEW L, NEW t, Agree(b, b, L, t), Agree(b, c, L, t), NEW o, Rooted(o, t, L),
           NEW depth \in Nat
    PROVE  Decode(c, o, depth) = Decode(b, o, depth)
<1>1. PICK D : Levels(b, D) /\ Decode(b, o, depth) = D[depth][o]
  BY DecodeIs
<1>2. PICK E : Levels(c, E) /\ Decode(c, o, depth) = E[depth][o]
  BY DecodeIs
<1> DEFINE Same == {d \in Nat : \A x : Rooted(x, t, L) => D[d][x] = E[d][x]}
<1>3. ASSUME NEW d \in Nat, d # 0 => d - 1 \in Same PROVE d \in Same
  <2>1. D[d] = Level(b, d, D[d - 1]) /\ E[d] = Level(c, d, E[d - 1])
    BY <1>1, <1>2 DEF Levels
  <2>2. d # 0 => \A x : Rooted(x, t, L) => D[d - 1][x] = E[d - 1][x]
    BY <1>3
  <2>3. ASSUME NEW x, Rooted(x, t, L) PROVE D[d][x] = E[d][x]
    <3>1. PICK g, h : g = D[d - 1] /\ h = E[d - 1]
      OBVIOUS
    <3>2. Level(b, d, g)[x] = Level(c, d, h)[x]
      BY <2>2, <2>3, <3>1, SameLevel
    <3> QED
      BY <2>1, <3>1, <3>2
  <2> QED
    BY <2>3
<1>4. Nat \subseteq Same
  <2> HIDE DEF Same
  <2>1. 0 \in Same
    BY <1>3
  <2>2. ASSUME NEW k \in Nat, k \in Same PROVE k + 1 \in Same
    <3>1. k + 1 \in Nat /\ k + 1 - 1 = k
      OBVIOUS
    <3> QED
      BY <1>3, <2>2, <3>1
  <2> QED
    BY <2>1, <2>2, NatSetInduction
<1> QED
  BY <1>1, <1>2, <1>4

\* The message o is complete in b when that has L bytes.
Lasts(b, L, o) == \E t : Agree(b, b, L, t) /\ Rooted(o, t, L)

\* Later on, when the first L bytes are the same, it still is, and is read as it was.
LEMMA LastsOn ==
    ASSUME NEW b, NEW L, NEW o, Lasts(b, L, o), NEW c, SameTo(b, c, L),
           NEW K \in Nat, L <= K, K <= c.len, K < M, c.len \in Nat, NEW depth \in Nat
    PROVE  Lasts(c, K, o) /\ Decode(c, o, depth) = Decode(b, o, depth)
<1>1. PICK t : Agree(b, b, L, t) /\ Rooted(o, t, L)
  BY DEF Lasts
<1>2. L \in Nat /\ Agree(b, c, L, t)
  BY <1>1 DEF Agree
<1>3. Agree(c, c, K, t)
  <2>1. Cut(b, L).mem = b.mem /\ Cut(b, L).len = L /\ Cut(c, K).mem = c.mem /\ Cut(c, K).len = K
    BY DEF Cut
  <2>2. Kinds(Cut(b, L), t) /\ \A w \in t.fixed \cup t.ptrs \cup t.data : w \in Nat /\ 4 * w < L
    BY <1>2, <2>1 DEF Agree, Typed, Kinds
  <2>3. \A w \in t.fixed \cup t.ptrs \cup t.data : 4 * w < K
    BY <1>2, <2>2
  <2>4. Kinds(Cut(c, K), t)
    BY <2>1, <2>2, <2>3 DEF Kinds
  <2>5. Carries(Cut(b, L), t, Cut(c, K), t, 0)
    <3>1. \A w \in t.fixed : c.mem[w + 0] = b.mem[w] /\ w + 0 = w
      BY <2>2 DEF SameTo
    <3>2. \A w \in t.ptrs : w + 0 = w
      BY <2>2
    <3> QED
      BY <1>2, <2>1, <2>2, <3>1, <3>2 DEF Carries
  <2>6. \A w \in t.ptrs : w \in t.ptrs /\ Cut(c, K).mem[w] = Cut(b, L).mem[w]
    BY <2>1, <2>2 DEF SameTo
  <2>7. Typed(Cut(c, K), t)
    BY <1>2, <2>4, <2>5, <2>6, TypedStep DEF Agree
  <2>8. SameTo(c, c, K)
    BY DEF SameTo
  <2> QED
    BY <2>7, <2>8 DEF Agree
<1>4. Rooted(o, t, K)
  <2>1. o.off + ObjSize(o) <= L /\ o.off \in Nat /\ ObjSize(o) \in Nat
    BY <1>1 DEF Rooted, Objects, ObjSize
  <2> QED
    BY <1>1, <1>2, <2>1 DEF Rooted
<1>5. Decode(c, o, depth) = Decode(b, o, depth)
  BY <1>1, <1>2, SameDecode
<1> QED
  BY <1>3, <1>4, <1>5 DEF Lasts

-----------------------------------------------------------------------------
(* What the words of all buffers are *)

\* The pointers of b lead to objects, unless a parse has failed before.
Sound(b, t, clean) == Kinds(b, t) /\ (clean => \A w \in t.ptrs : Near(b, t, w))

\* A message that may be pointed to once it is complete
MsgTyped(b, t, o) ==
    \E x \in Nat :
        /\ o.off = 4 * x + 4 /\ x \in t.fixed /\ b.mem[x] = Header(MsgSsize, MsgPsize)
        /\ \A i \in 0 .. 4 : x + 1 + i \in t.ptrs
        /\ x + 6 \in t.data

\* An array under construction, with n elements: it lies behind all that is of
\* a kind, and its pointers are positions in the next buffer.
ArrTyped(bs, T, clean, fr, num) ==
    \E x \in Nat :
        /\ fr.first.off = 4 * x + 8 /\ bs[fr.b].mem[x] = Header(ElemSsize(fr.f), ElemPsize(fr.f)) + ARR
        /\ \A w \in T[fr.b].fixed \cup T[fr.b].ptrs \cup T[fr.b].data : w < x
        /\ clean /\ NeedsBuf(fr.f) =>
               \A q \in Pointers(fr.first, num) : Far(bs[fr.b].mem[q \div 4], bs[fr.b + 1], T[fr.b + 1])

OnArray(st, k) == k > 1 /\ st[k - 1].kind = "rep"
FrameTyped(bs, T, clean, fr, onArray, num) ==
    IF fr.kind = "rep" THEN ArrTyped(bs, T, clean, fr, num)
    ELSE onArray \/ MsgTyped(bs[fr.b], T[fr.b], fr.o)

\* T tells the kinds of the words of each buffer: what is in the first L bytes of
\* the output buffer is fixed.
Held(bs, st, val, clean, L, T) ==
    /\ T = [k \in Nat |-> T[k]]
    /\ \A w \in Nat : 4 * w < L => w \in T[1].fixed
    /\ \A k \in 1 .. Len(bs) : Sound(bs[k], T[k], clean)
    /\ \A k \in 1 .. Len(st) : FrameTyped(bs, T, clean, st[k], OnArray(st, k), Started(st, val, k))

\* A buffer changes, and the kinds of its words are those of before, or more.
Retyped(b, t, c, u, clean) == Carries(b, t, c, u, 0) /\ t.data \subseteq u.data /\ Sound(c, u, clean)

\* A buffer carries what it had at the same words.
LEMMA CarriesHere ==
    ASSUME NEW b, NEW t, NEW c, NEW u, Carries(b, t, c, u, 0)
    PROVE  /\ \A w \in t.fixed : w \in Nat /\ w \in u.fixed /\ c.mem[w] = b.mem[w]
           /\ \A w \in t.ptrs : w \in Nat /\ w \in u.ptrs
<1>1. \A w \in Nat : w + 0 = w
  OBVIOUS
<1> QED
  BY <1>1 DEF Carries

\* Buffer i becomes c, while the innermost frame may begin an element.
Changes(bs, st, val, i, c, cs, late) ==
    /\ \E m \in Nat : Chain(st, m) /\ m <= Len(bs)
    /\ Len(bs) \in Nat /\ i \in 1 .. Len(bs) /\ Differs(bs, cs, i, c)
    /\ late = val \/ st[Len(st)].kind = "msg" \/ st[Len(st)].b = i
ArrsTyped(bs, st, val, clean, T, i) ==
    \A k \in 1 .. Len(st) :
        st[k].kind = "rep" /\ st[k].b = i => ArrTyped(bs, T, clean, st[k], Started(st, val, k))
With(T, i, u) == [k \in Nat |-> IF k = i THEN u ELSE T[k]]

\* A buffer changes, and nothing that is of a kind is lost.
LEMMA HeldStep ==
    ASSUME NEW bs, NEW st, NEW val, NEW clean, NEW L, NEW T, Held(bs, st, val, clean, L, T),
           NEW i, NEW c, NEW cs, NEW late, Changes(bs, st, val, i, c, cs, late),
           NEW u, Retyped(bs[i], T[i], c, u, clean), NEW U, U = With(T, i, u),
           ArrsTyped(cs, st, late, clean, U, i)
    PROVE  Held(cs, st, late, clean, L, U) /\ SameTo(bs[1], cs[1], L)
<1>0. PICK m \in Nat : Chain(st, m) /\ m <= Len(bs) /\ Len(bs) \in Nat /\ i \in 1 .. Len(bs) /\ Differs(bs, cs, i, c)
  BY DEF Changes
<1>1. /\ U = [k \in Nat |-> U[k]] /\ U[i] = u /\ \A k \in Nat : k # i => U[k] = T[k]
  BY <1>0 DEF With
<1>2. cs[i] = c /\ Len(cs) = Len(bs) /\ \A k \in 1 .. Len(bs) : k # i => cs[k] = bs[k]
  BY <1>0 DEF Differs
<1>3. Carries(bs[i], T[i], c, u, 0) /\ T[i].data \subseteq u.data /\ Sound(c, u, clean)
  BY DEF Retyped
<1>4. /\ \A w \in T[i].fixed : w \in u.fixed /\ c.mem[w] = bs[i].mem[w]
      /\ \A w \in T[i].ptrs : w \in u.ptrs
  BY <1>3, CarriesHere
<1>5. /\ \A w \in Nat : 4 * w < L => w \in T[1].fixed
      /\ \A k \in 1 .. Len(bs) : Sound(bs[k], T[k], clean)
  BY DEF Held
<1>6. (\A w \in Nat : 4 * w < L => w \in U[1].fixed) /\ SameTo(bs[1], cs[1], L)
  <2>1. CASE i = 1
    BY <1>0, <1>1, <1>2, <1>4, <1>5, <2>1 DEF SameTo
  <2>2. CASE i # 1
    <3>1. 1 \in 1 .. Len(bs) /\ 1 \in Nat
      BY <1>0
    <3>2. cs[1] = bs[1] /\ U[1] = T[1]
      BY <1>1, <1>2, <2>2, <3>1
    <3> QED
      BY <1>5, <3>2 DEF SameTo
  <2> QED
    BY <2>1, <2>2
<1>7. ASSUME NEW k \in 1 .. Len(cs) PROVE Sound(cs[k], U[k], clean)
  <2>1. k \in Nat /\ k \in 1 .. Len(bs) /\ Sound(bs[k], T[k], clean)
    BY <1>2, <1>5
  <2>2. CASE k = i
    BY <1>1, <1>2, <1>3, <2>2
  <2>3. CASE k # i
    <3>1. cs[k] = bs[k] /\ U[k] = T[k]
      BY <1>1, <1>2, <2>1, <2>3
    <3> QED
      BY <2>1, <3>1
  <2> QED
    BY <2>2, <2>3
<1>8. ASSUME NEW k \in 1 .. Len(st)
      PROVE  FrameTyped(cs, U, clean, st[k], OnArray(st, k), Started(st, late, k))
  <2>1. /\ FrameTyped(bs, T, clean, st[k], OnArray(st, k), Started(st, val, k))
        /\ st[k].b \in Nat /\ st[k].b \in 1 .. Len(bs) /\ st[k].kind \in {"msg", "rep"}
        /\ Len(st) \in Nat
    BY <1>0, ChainIs DEF Held
  <2>2. CASE st[k].kind = "rep" /\ st[k].b = i
    BY <2>2 DEF FrameTyped, ArrsTyped
  <2>3. CASE st[k].kind = "rep" /\ st[k].b # i
    <3>1. Started(st, late, k) = Started(st, val, k)
      <4>1. CASE k < Len(st)
        BY <4>1, StartedBelow
      <4>2. CASE k >= Len(st)
        <5>1. late = val
          BY <2>1, <2>3, <4>2 DEF Changes
        <5> QED
          BY <5>1
      <4> QED
        BY <2>1, <4>1, <4>2
    <3>2. PICK x \in Nat :
              /\ st[k].first.off = 4 * x + 8 /\ bs[st[k].b].mem[x] = Header(ElemSsize(st[k].f), ElemPsize(st[k].f)) + ARR
              /\ \A w \in T[st[k].b].fixed \cup T[st[k].b].ptrs \cup T[st[k].b].data : w < x
              /\ clean /\ NeedsBuf(st[k].f) =>
                     \A q \in Pointers(st[k].first, Started(st, val, k)) :
                         Far(bs[st[k].b].mem[q \div 4], bs[st[k].b + 1], T[st[k].b + 1])
      BY <2>1, <2>3 DEF FrameTyped, ArrTyped
    <3>3. cs[st[k].b] = bs[st[k].b] /\ U[st[k].b] = T[st[k].b]
      BY <1>1, <1>2, <2>1, <2>3
    <3>4. ASSUME NeedsBuf(st[k].f), NEW v, Far(v, bs[st[k].b + 1], T[st[k].b + 1])
          PROVE  Far(v, cs[st[k].b + 1], U[st[k].b + 1])
      <4>1. st[k].b < m
        BY <1>0, <2>3, <3>4, RepsBelow
      <4>2. st[k].b + 1 \in 1 .. Len(bs)
        BY <1>0, <2>1, <4>1
      <4>3. CASE st[k].b + 1 = i
        BY <1>1, <1>2, <1>3, <3>4, <4>3, FarMoved
      <4>4. CASE st[k].b + 1 # i
        BY <1>1, <1>2, <3>4, <4>2, <4>4
      <4> QED
        BY <4>3, <4>4
    <3> QED
      BY <2>3, <3>1, <3>2, <3>3, <3>4 DEF FrameTyped, ArrTyped
  <2>4. CASE st[k].kind # "rep" /\ st[k].b = i
    BY <1>1, <1>2, <1>3, <1>4, <2>1, <2>4 DEF FrameTyped, MsgTyped
  <2>5. CASE st[k].kind # "rep" /\ st[k].b # i
    BY <1>1, <1>2, <2>1, <2>5 DEF FrameTyped
  <2> QED
    BY <2>2, <2>3, <2>4, <2>5
<1> QED
  BY <1>1, <1>6, <1>7, <1>8 DEF Held

\* Where the header of what a frame is about begins
HdrOf(fr) == IF fr.kind = "msg" THEN fr.o.off - 4 ELSE fr.first.off - 8

\* In one buffer, what a message will point to lies behind it.
Ordered(st) ==
    \A k \in 1 .. Len(st) :
        k > 1 /\ st[k - 1].kind = "msg" /\ st[k - 1].b = st[k].b => st[k - 1].o.off + 24 <= HdrOf(st[k])

\* Frames of the same object or array
SameFrame(g, h) ==
    /\ g.kind \in {"msg", "rep"} /\ h.kind = g.kind /\ h.b = g.b
    /\ g.kind = "msg" => h.o = g.o
    /\ g.kind = "rep" => h.first = g.first /\ h.f = g.f

\* A frame moves on in its array or its document only.
LEMMA SameFrameTyped ==
    ASSUME NEW bs, NEW T, NEW clean, NEW g, NEW h, SameFrame(g, h), NEW on, NEW num,
           FrameTyped(bs, T, clean, g, on, num)
    PROVE  FrameTyped(bs, T, clean, h, on, num)
  BY DEF FrameTyped, ArrTyped, SameFrame

\* The innermost frames go on, or are done.
LEMMA StackStep ==
    ASSUME NEW bs, NEW st, NEW val, NEW clean, NEW L, NEW T, Held(bs, st, val, clean, L, T), Ordered(st),
           NEW t, NEW late, Len(st) \in Nat, Len(t) \in Nat, Len(t) <= Len(st),
           \A k \in 1 .. Len(t) :
               SameFrame(st[k], t[k]) /\ (st[k].kind = "rep" => Started(t, late, k) = Started(st, val, k))
    PROVE  Held(bs, t, late, clean, L, T) /\ Ordered(t)
<1>1. ASSUME NEW k \in 1 .. Len(t)
      PROVE  FrameTyped(bs, T, clean, t[k], OnArray(t, k), Started(t, late, k))
  <2>1. k \in 1 .. Len(st) /\ k \in Nat
    OBVIOUS
  <2>2. FrameTyped(bs, T, clean, st[k], OnArray(st, k), Started(st, val, k))
    BY <2>1 DEF Held
  <2>3. OnArray(st, k) <=> OnArray(t, k)
    <3>1. CASE k > 1
      <4>1. k - 1 \in 1 .. Len(t)
        BY <3>1
      <4> QED
        BY <4>1 DEF OnArray, SameFrame
    <3> QED
      BY <2>1, <3>1 DEF OnArray
  <2>4. CASE st[k].kind = "rep"
    BY <2>2, <2>4, SameFrameTyped DEF FrameTyped, SameFrame
  <2>5. CASE st[k].kind # "rep"
    BY <2>2, <2>3, <2>5 DEF FrameTyped, SameFrame
  <2> QED
    BY <2>4, <2>5
<1>2. Ordered(t)
  <2> SUFFICES ASSUME NEW k \in 1 .. Len(t), k > 1, t[k - 1].kind = "msg", t[k - 1].b = t[k].b
               PROVE  t[k - 1].o.off + 24 <= HdrOf(t[k])
    BY DEF Ordered
  <2>1. k \in 1 .. Len(st) /\ k - 1 \in 1 .. Len(t)
    OBVIOUS
  <2>2. SameFrame(st[k], t[k]) /\ SameFrame(st[k - 1], t[k - 1])
    BY <2>1
  <2>3. HdrOf(t[k]) = HdrOf(st[k])
    BY <2>2 DEF HdrOf, SameFrame
  <2>4. st[k - 1].o.off + 24 <= HdrOf(st[k])
    BY <2>1, <2>2 DEF Ordered, SameFrame
  <2> QED
    BY <2>2, <2>3, <2>4 DEF SameFrame
<1> QED
  BY <1>1, <1>2 DEF Held

\* t is st with a frame fr whose words are of their kinds.
PushedTyped(bs, st, val, clean, L, T, fr, t, late) ==
    LET z == Len(st)
    IN  /\ Held(bs, st, val, clean, L, T) /\ Ordered(st) /\ IsSequence(st) /\ t = Append(st, fr)
        /\ st[z].kind = "rep" => val
        /\ IF fr.kind = "rep" THEN ArrTyped(bs, T, clean, fr, Started(t, late, z + 1))
           ELSE (z >= 1 /\ st[z].kind = "rep") \/ MsgTyped(bs[fr.b], T[fr.b], fr.o)
        /\ z >= 1 /\ st[z].kind = "msg" /\ st[z].b = fr.b => st[z].o.off + 24 <= HdrOf(fr)

\* A frame is put on the innermost one.
LEMMA PushStep ==
    ASSUME NEW bs, NEW st, NEW val, NEW clean, NEW L, NEW T, NEW fr, NEW t, NEW late,
           PushedTyped(bs, st, val, clean, L, T, fr, t, late)
    PROVE  Held(bs, t, late, clean, L, T) /\ Ordered(t)
<1>0. PICK z : /\ z = Len(st) /\ Held(bs, st, val, clean, L, T) /\ Ordered(st) /\ IsSequence(st) /\ t = Append(st, fr)
               /\ st[z].kind = "rep" => val
               /\ IF fr.kind = "rep" THEN ArrTyped(bs, T, clean, fr, Started(t, late, z + 1))
                  ELSE (z >= 1 /\ st[z].kind = "rep") \/ MsgTyped(bs[fr.b], T[fr.b], fr.o)
               /\ z >= 1 /\ st[z].kind = "msg" /\ st[z].b = fr.b => st[z].o.off + 24 <= HdrOf(fr)
  BY Zenon DEF PushedTyped
<1>1. /\ z \in Nat /\ Len(t) = z + 1 /\ t[z + 1] = fr
      /\ \A k \in 1 .. z : t[k] = st[k]
  BY <1>0, AppendIs DEF IsSequence
<1>2. ASSUME NEW k \in 1 .. z
      PROVE  FrameTyped(bs, T, clean, t[k], OnArray(t, k), Started(t, late, k))
  <2>1. FrameTyped(bs, T, clean, st[k], OnArray(st, k), Started(st, val, k)) /\ t[k] = st[k]
    BY <1>0, <1>1 DEF Held
  <2>2. OnArray(st, k) <=> OnArray(t, k)
    <3>1. CASE k > 1
      <4>1. k - 1 \in 1 .. z
        BY <1>0, <1>1, <3>1
      <4> QED
        BY <1>0, <1>1, <4>1 DEF OnArray
    <3> QED
      BY <1>0, <1>1, <3>1 DEF OnArray
  <2>3. CASE st[k].kind = "rep"
    <3>1. k < Len(t) /\ (k < Len(st) \/ val)
      BY <1>0, <1>1, <2>3
    <3>2. Started(t, late, k) = Len(t[k].items) + 1
      BY <1>0, <3>1, StartedBelow
    <3>3. Started(st, val, k) = Len(st[k].items) + 1
      BY <1>0, <3>1, StartedBelow
    <3> QED
      BY <1>0, <2>1, <2>3, <3>2, <3>3 DEF FrameTyped
  <2>4. CASE st[k].kind # "rep"
    BY <1>0, <2>1, <2>2, <2>4 DEF FrameTyped
  <2> QED
    BY <1>0, <2>3, <2>4
<1>3. FrameTyped(bs, T, clean, t[z + 1], OnArray(t, z + 1), Started(t, late, z + 1))
  <2>1. OnArray(t, z + 1) <=> z >= 1 /\ st[z].kind = "rep"
    BY <1>0, <1>1 DEF OnArray
  <2> QED
    BY <1>0, <1>1, <2>1 DEF FrameTyped
<1>4. \A k \in 1 .. Len(t) : k \in 1 .. z \/ k = z + 1
  BY <1>0, <1>1
<1>5. Ordered(t)
  <2> SUFFICES ASSUME NEW k \in 1 .. Len(t), k > 1, t[k - 1].kind = "msg", t[k - 1].b = t[k].b
               PROVE  t[k - 1].o.off + 24 <= HdrOf(t[k])
    BY <1>0 DEF Ordered
  <2>1. k - 1 \in 1 .. z /\ t[k - 1] = st[k - 1]
    BY <1>0, <1>1
  <2>2. CASE k = z + 1
    BY <1>0, <1>1, <2>1, <2>2
  <2>3. CASE k \in 1 .. z
    BY <1>0, <1>1, <2>1, <2>3 DEF Ordered
  <2> QED
    BY <1>0, <1>4, <2>2, <2>3
<1> QED
  BY <1>0, <1>2, <1>3, <1>4, <1>5 DEF Held

\* The document of the innermost message changes.
LEMMA DocTyped ==
    ASSUME NEW bs, NEW st, NEW val, NEW clean, NEW L, NEW T, Held(bs, st, val, clean, L, T), Ordered(st),
           Under(bs, st, val, clean), NEW z, z = Len(st), st[z].kind = "msg",
           NEW g, SameMsg(st[z], g), NEW t, t = ReplaceAt(st, z, g), NEW late
    PROVE  Held(bs, t, late, clean, L, T) /\ Ordered(t)
<1>1. /\ z \in Nat /\ z >= 1 /\ z \in 1 .. z /\ IsSequence(st)
      /\ \A k \in 1 .. z : st[k].kind \in {"msg", "rep"}
  BY ChainIs DEF Under, Memory, IsSequence
<1>2. Differs(st, t, z, g)
  BY <1>1, ReplaceIs DEF ReplaceAt
<1>3. t[z] = g /\ Len(t) = z /\ \A k \in 1 .. z : k # z => t[k] = st[k]
  BY <1>2 DEF Differs
<1>4. ASSUME NEW k \in 1 .. Len(t)
      PROVE  SameFrame(st[k], t[k]) /\ (st[k].kind = "rep" => Started(t, late, k) = Started(st, val, k))
  <2>1. CASE k = z
    BY <1>1, <1>3, <2>1 DEF SameFrame, SameMsg
  <2>2. CASE k # z
    <3>1. k < Len(t) /\ k < Len(st) /\ t[k] = st[k] /\ st[k].kind \in {"msg", "rep"}
      BY <1>1, <1>3, <2>2
    <3>2. Started(t, late, k) = Len(t[k].items) + 1
      BY <3>1, StartedBelow
    <3>3. Started(st, val, k) = Len(st[k].items) + 1
      BY <3>1, StartedBelow
    <3> QED
      BY <3>1, <3>2, <3>3 DEF SameFrame
  <2> QED
    BY <2>1, <2>2
<1>5. Len(st) \in Nat /\ Len(t) \in Nat /\ Len(t) <= Len(st)
  BY <1>1, <1>3
<1> QED
  BY <1>4, <1>5, StackStep

\* The element that was due is complete.
LEMMA AdvanceTyped ==
    ASSUME NEW bs, NEW st, NEW val, val, NEW clean, NEW L, NEW T, Held(bs, st, val, clean, L, T), Ordered(st),
           Under(bs, st, val, clean), NEW z, z = Len(st), st[z].kind = "rep",
           NEW item, NEW t, t = ReplaceAt(st, z, Advance(st[z], item))
    PROVE  Held(bs, t, FALSE, clean, L, T) /\ Ordered(t)
<1>1. /\ z \in Nat /\ z >= 1 /\ z \in 1 .. z /\ IsSequence(st) /\ IsFrame(st[z])
      /\ \A k \in 1 .. z : st[k].kind \in {"msg", "rep"}
  BY ChainIs DEF Under, Memory, IsSequence
<1>2. PICK g : g = Advance(st[z], item)
  OBVIOUS
<1>3. /\ g.kind = "rep" /\ g.b = st[z].b /\ g.first = st[z].first /\ g.f = st[z].f
      /\ Len(g.items) = Len(st[z].items) + 1 /\ Len(st[z].items) \in Nat
  <2>1. IsFirst(st[z].first) /\ st[z].it = Element(st[z].first, Len(st[z].items) + 1)
    BY <1>1 DEF Under, Memory, FrameIn, ArrIn, IsArr
  <2>2. Len(st[z].items) \in Nat
    BY <1>1 DEF IsFrame, IsRep, IsSequence
  <2>3. PICK fr, j : fr = st[z] /\ j = Len(fr.items)
    OBVIOUS
  <2>4. /\ fr.kind = "rep" /\ IsFrame(fr) /\ j = Len(fr.items) /\ IsFirst(fr.first)
        /\ fr.it = Element(fr.first, j + 1) /\ g = Advance(fr, item)
    BY <1>1, <1>2, <2>1, <2>3
  <2>5. g.kind = "rep" /\ g.b = fr.b /\ g.first = fr.first /\ g.f = fr.f /\ Len(g.items) = j + 1
    BY ONLY <2>4, AdvanceIs
  <2> QED
    BY <2>2, <2>3, <2>5
<1>4. Differs(st, t, z, g)
  BY <1>1, <1>2, ReplaceIs DEF ReplaceAt
<1>5. t[z] = g /\ Len(t) = z /\ \A k \in 1 .. z : k # z => t[k] = st[k]
  BY <1>4 DEF Differs
<1>6. ASSUME NEW k \in 1 .. Len(t)
      PROVE  SameFrame(st[k], t[k]) /\ (st[k].kind = "rep" => Started(t, FALSE, k) = Started(st, val, k))
  <2>1. CASE k = z
    <3>1. ~(k < Len(t)) /\ ~FALSE
      BY <1>1, <1>5, <2>1
    <3>2. Started(t, FALSE, k) = Len(t[k].items) + 0
      BY ONLY <3>1, StartedTop
    <3>3. Started(st, val, k) = Len(st[k].items) + 1
      BY StartedBelow
    <3>4. Started(t, FALSE, k) = Started(st, val, k)
      <4>1. PICK j \in Nat : j = Len(st[z].items)
        BY <1>3
      <4>2. Len(t[k].items) = j + 1 /\ j + 1 + 0 = j + 1 /\ Len(st[k].items) = j
        BY <1>3, <1>5, <2>1, <4>1
      <4> QED
        BY <3>2, <3>3, <4>2, Zenon
    <3> QED
      BY <1>3, <1>5, <2>1, <3>4 DEF SameFrame
  <2>2. CASE k # z
    <3>1. k < Len(t) /\ k < Len(st) /\ t[k] = st[k] /\ st[k].kind \in {"msg", "rep"}
      BY <1>1, <1>5, <2>2
    <3>2. Started(t, FALSE, k) = Len(t[k].items) + 1
      BY <3>1, StartedBelow
    <3>3. Started(st, val, k) = Len(st[k].items) + 1
      BY <3>1, StartedBelow
    <3> QED
      BY <3>1, <3>2, <3>3 DEF SameFrame
  <2> QED
    BY <2>1, <2>2
<1>7. Len(st) \in Nat /\ Len(t) \in Nat /\ Len(t) <= Len(st)
  BY <1>1, <1>5
<1>8. PICK late : late = FALSE
  OBVIOUS
<1>9. /\ Held(bs, st, val, clean, L, T) /\ Ordered(st)
      /\ \A k \in 1 .. Len(t) :
             SameFrame(st[k], t[k]) /\ (st[k].kind = "rep" => Started(t, late, k) = Started(st, val, k))
  BY <1>6, <1>8, Zenon
<1>10. Held(bs, t, late, clean, L, T) /\ Ordered(t)
  BY ONLY <1>7, <1>9, StackStep
<1> QED
  BY <1>8, <1>10, Zenon

\* The innermost frame is done.
LEMMA PopTyped ==
    ASSUME NEW bs, NEW st, NEW val, NEW clean, NEW L, NEW T, Held(bs, st, val, clean, L, T), Ordered(st),
           Under(bs, st, val, clean), NEW z, z = Len(st), z >= 2, NEW t, t = Front(st), NEW late, late
    PROVE  Held(bs, t, late, clean, L, T) /\ Ordered(t)
<1>1. /\ z \in Nat /\ IsSequence(st) /\ \A k \in 1 .. z : st[k].kind \in {"msg", "rep"}
  BY ChainIs DEF Under, Memory, IsSequence
<1>2. Len(t) = z - 1 /\ \A k \in 1 .. z - 1 : t[k] = st[k]
  BY <1>1, FrontIs
<1>3. ASSUME NEW k \in 1 .. Len(t)
      PROVE  SameFrame(st[k], t[k]) /\ (st[k].kind = "rep" => Started(t, late, k) = Started(st, val, k))
  <2>1. k < Len(st) /\ t[k] = st[k] /\ st[k].kind \in {"msg", "rep"}
    BY <1>1, <1>2
  <2>2. Started(t, late, k) = Len(t[k].items) + 1
    BY StartedBelow
  <2>3. Started(st, val, k) = Len(st[k].items) + 1
    BY <2>1, StartedBelow
  <2> QED
    BY <2>1, <2>2, <2>3 DEF SameFrame
<1>4. Len(st) \in Nat /\ Len(t) \in Nat /\ Len(t) <= Len(st)
  BY <1>1, <1>2
<1>5. /\ Held(bs, st, val, clean, L, T) /\ Ordered(st)
      /\ \A k \in 1 .. Len(t) :
             SameFrame(st[k], t[k]) /\ (st[k].kind = "rep" => Started(t, late, k) = Started(st, val, k))
  BY <1>3
<1> QED
  BY ONLY <1>4, <1>5, StackStep

-----------------------------------------------------------------------------
(* What the parser does to the words of a buffer *)

\* A pointer leads to the same as before.
LEMMA NearHere ==
    ASSUME NEW b, NEW t, NEW c, NEW u, Carries(b, t, c, u, 0), NEW w \in Nat, Near(b, t, w), c.mem[w] = b.mem[w]
    PROVE  Near(c, u, w)
<1>1. w + 0 = w
  OBVIOUS
<1> QED
  BY <1>1, NearMoved

\* The kinds of words stay when a buffer grows.
LEMMA KindsKept ==
    ASSUME NEW b, NEW t, Kinds(b, t), NEW c, NEW S, Kept(b, c, S)
    PROVE  Kinds(c, t)
<1>1. b.len \in Nat /\ c.len \in Nat /\ b.len <= c.len
  BY DEF Kinds, Kept, IsBuf
<1>2. \A w \in t.fixed \cup t.ptrs \cup t.data : w \in Nat /\ 4 * w < c.len
  BY <1>1 DEF Kinds
<1> QED
  BY <1>1, <1>2 DEF Kinds

\* Nothing fixed is stored to, and the pointers that are lead to objects.
LEMMA Retype ==
    ASSUME NEW b, NEW t, NEW clean, Sound(b, t, clean), NEW c, NEW S, Kept(b, c, S), \A w \in S : w \notin t.fixed,
           NEW u, t.fixed \subseteq u.fixed, t.ptrs \subseteq u.ptrs, t.data \subseteq u.data, Kinds(c, u),
           clean => \A w \in u.ptrs : (w \in t.ptrs /\ w \notin S) \/ Near(c, u, w)
    PROVE  Retyped(b, t, c, u, clean)
<1>1. Carries(b, t, c, u, 0)
  BY CarriesKept DEF Sound
<1>2. ASSUME clean, NEW w \in u.ptrs PROVE Near(c, u, w)
  <2>1. CASE w \in t.ptrs /\ w \notin S
    <3>1. w \in Nat /\ 4 * w < b.len /\ Near(b, t, w)
      BY <1>2, <2>1 DEF Sound, Kinds
    <3>2. c.mem[w] = b.mem[w]
      BY <2>1, <3>1 DEF Kept
    <3> QED
      BY <1>1, <3>1, <3>2, NearHere
  <2>2. CASE Near(c, u, w)
    BY <2>2
  <2> QED
    BY <1>2, <2>1, <2>2
<1> QED
  BY <1>1, <1>2 DEF Retyped, Sound

\* A store to words that are not fixed
LEMMA RetypeSame ==
    ASSUME NEW b, NEW t, NEW clean, Sound(b, t, clean), NEW c, NEW S, Kept(b, c, S), \A w \in S : w \notin t.fixed,
           clean => \A w \in S : w \in t.ptrs => Near(c, t, w)
    PROVE  Retyped(b, t, c, t, clean)
<1>1. Kinds(c, t)
  BY KindsKept DEF Sound
<1>2. clean => \A w \in t.ptrs : (w \in t.ptrs /\ w \notin S) \/ Near(c, t, w)
  OBVIOUS
<1> QED
  BY <1>1, <1>2, Retype

\* Something is built at the end of the last buffer, of the kinds u.
LEMMA GrowTyped ==
    ASSUME NEW bs, NEW st, NEW val, NEW clean, NEW L, NEW T, Held(bs, st, val, clean, L, T),
           Under(bs, st, val, clean), NEW m, m = Len(bs),
           st[Len(st)].kind = "rep" => NeedsBuf(st[Len(st)].f),
           NEW c, NEW u, Retyped(bs[m], T[m], c, u, clean), NEW cs, Differs(bs, cs, m, c),
           NEW U, U = With(T, m, u)
    PROVE  Held(cs, st, val, clean, L, U) /\ SameTo(bs[1], cs[1], L)
<1>1. m \in Nat /\ Chain(st, m)
  BY DEF Under, Memory, IsSequence
<1>2. Len(st) \in Nat /\ Len(st) >= 1 /\ st[1].b \in 1 .. m
  BY <1>1, ChainIs
<1>3. m \in 1 .. m
  BY <1>1, <1>2
<1>4. ASSUME NEW k \in 1 .. Len(st), st[k].kind = "rep", st[k].b = m
      PROVE  FALSE
  <2>1. k < Len(st) \/ NeedsBuf(st[k].f)
    BY <1>2, <1>4
  <2>2. st[k].b < m
    BY <1>1, <1>4, <2>1, RepsBelow
  <2> QED
    BY <1>1, <1>4, <2>2
<1>5. ArrsTyped(cs, st, val, clean, U, m) /\ Changes(bs, st, val, m, c, cs, val)
  BY <1>1, <1>3, <1>4 DEF ArrsTyped, Changes
<1> QED
  BY <1>5, HeldStep

\* The kinds of t, and those of a message whose header is at word h
MsgKinds(t, h) ==
    [fixed |-> t.fixed \cup {h}, ptrs |-> t.ptrs \cup {h + 1 + i : i \in 0 .. 4}, data |-> t.data \cup {h + 6}]
ObjKinds(t, h) == [fixed |-> t.fixed \cup {h}, ptrs |-> t.ptrs, data |-> t.data]

\* A message is allocated.
LEMMA NewMsgTyped ==
    ASSUME NEW b, NEW clean, GoodBuf(b, clean), NEW t, Sound(b, t, clean),
           NEW o, o = NewObj(b, MsgSsize, MsgPsize), NEW c, c = AllocObj(b, MsgSsize, MsgPsize),
           NEW h, h = Words(b.len), NEW u, u = MsgKinds(t, h)
    PROVE  /\ h \in Nat /\ 4 * h >= b.len /\ o.off = 4 * h + 4
           /\ Retyped(b, t, c, u, clean) /\ MsgTyped(c, u, o)
<1>1. IsBuf(b) /\ b.len \in Nat /\ MsgSsize = 4 /\ MsgPsize = 5 /\ MsgSsize \in Nat /\ MsgPsize \in Nat
  BY DEF GoodBuf, IsBuf, MsgSsize, MsgPsize
<1>2. h \in Nat /\ 4 * h >= b.len /\ Start(b) = 4 * h /\ (4 * h) \div 4 = h
  BY <1>1, WordsIs DEF Start
<1>3. Kept(b, c, {}) /\ c.len = Start(b) + 4 + 4 * MsgPsize + MsgSsize
  BY <1>1, AllocObjIs
<1>4. c.len = 4 * h + 28 /\ IsBuf(c) /\ c.len <= c.cap /\ c.cap \in Nat
  BY <1>1, <1>2, <1>3 DEF Kept, IsBuf
<1>5. c.mem[h] = Header(MsgSsize, MsgPsize)
  BY <1>1, <1>2, AllocObjHeader
<1>6. o.off = 4 * h + 4
  BY <1>2 DEF NewObj, Object
<1>7. /\ \A w \in t.fixed \cup t.ptrs \cup t.data : w \in Nat /\ w < h
      /\ \A w \in t.fixed : w \notin t.ptrs /\ w \notin t.data
      /\ \A w \in t.ptrs : w \notin t.data
  BY <1>1, <1>2 DEF Sound, Kinds
<1>8. /\ u.fixed = t.fixed \cup {h} /\ u.ptrs = t.ptrs \cup {h + 1 + i : i \in 0 .. 4} /\ u.data = t.data \cup {h + 6}
  BY DEF MsgKinds
<1>9. Kinds(c, u)
  <2>1. \A w \in u.fixed : w \in Nat /\ w <= h
    BY <1>2, <1>7, <1>8
  <2>2. \A w \in u.ptrs : w \in Nat /\ w <= h + 5 /\ (w \in t.ptrs \/ w > h)
    BY <1>2, <1>7, <1>8
  <2>3. \A w \in u.data : w \in Nat /\ w <= h + 6 /\ (w \in t.data \/ w = h + 6)
    BY <1>2, <1>7, <1>8
  <2>4. \A w \in u.fixed \cup u.ptrs \cup u.data : w \in Nat /\ 4 * w < c.len
    BY <1>2, <1>4, <2>1, <2>2, <2>3
  <2>5. \A w \in u.fixed : w \notin u.ptrs /\ w \notin u.data
    BY <1>2, <1>7, <1>8, <2>1, <2>2, <2>3
  <2>6. \A w \in u.ptrs : w \notin u.data
    BY <1>2, <1>7, <1>8, <2>2, <2>3
  <2> QED
    BY <1>4, <2>4, <2>5, <2>6 DEF Kinds, IsBuf
<1>10. ASSUME clean, NEW w \in u.ptrs PROVE (w \in t.ptrs /\ w \notin {}) \/ Near(c, u, w)
  <2>1. SUFFICES ASSUME NEW i \in 0 .. 4, w = h + 1 + i PROVE c.mem[w] = 0
    BY <1>8 DEF Near
  <2>2. Clear(c, Words(b.len) + 1)
    BY <1>1, <1>10, AllocObjClear DEF GoodBuf
  <2>3. 4 * Words(c.cap) >= c.cap /\ Words(c.cap) \in Nat
    BY <1>4, WordsIs
  <2>4. w \in h + 1 .. Words(c.cap) - 1
    BY <1>2, <1>4, <2>1, <2>3
  <2> QED
    BY <2>2, <2>4 DEF Clear
<1>11. Retyped(b, t, c, u, clean)
  <2>1. \A w \in {} : w \notin t.fixed
    OBVIOUS
  <2>2. t.fixed \subseteq u.fixed /\ t.ptrs \subseteq u.ptrs /\ t.data \subseteq u.data
    BY <1>8
  <2> QED
    BY <1>3, <1>9, <1>10, <2>1, <2>2, Retype
<1>12. MsgTyped(c, u, o)
  BY <1>2, <1>5, <1>6, <1>8 DEF MsgTyped
<1> QED
  BY <1>2, <1>6, <1>11, <1>12

\* A message can be pointed to.
LEMMA MsgLeads ==
    ASSUME NEW b, b.len \in Nat, NEW t, NEW o, MsgTyped(b, t, o), o.off + 24 <= b.len
    PROVE  \E x \in Nat : o.off = 4 * x + 4 /\ HdrOffset(b, o) = 4 * x /\ Leads(b, t, x)
<1>1. PICK x \in Nat :
          /\ o.off = 4 * x + 4 /\ x \in t.fixed /\ b.mem[x] = Header(MsgSsize, MsgPsize)
          /\ \A i \in 0 .. 4 : x + 1 + i \in t.ptrs
  BY DEF MsgTyped
<1>2. MsgSsize \in Nat /\ MsgSsize < SN /\ MsgPsize \in Nat /\ MsgPsize < PN /\ MsgSsize = 4 /\ MsgPsize = 5
  BY HeaderAssumption DEF MsgSsize, MsgPsize
<1>3. (4 * x) \div 4 = x /\ o.off - 4 = 4 * x /\ 4 * x \in Nat
  BY <1>1
<1>4. HdrOffset(b, o) = 4 * x
  <2>1. PICK y : y = MsgSsize * PN + MsgPsize
    OBVIOUS
  <2>2. y \in Nat /\ y < ARR
    BY <1>2, <2>1, FieldsFit
  <2>3. Has(HDR + y, HDR)
    BY <2>2, HeaderBits
  <2>4. Header(MsgSsize, MsgPsize) = HDR + y
    BY <1>2, <2>1, MIsNat, PNAssumption DEF Header
  <2> QED
    BY <1>1, <1>3, <2>3, <2>4 DEF HdrOffset, WordAt
<1>5. GetObj(b, 4 * x) = Object(1, 4 * x + 4, MsgSsize, MsgPsize)
  <2>1. 4 * x \in Nat /\ 4 * x + 4 <= b.len /\ b.mem[(4 * x) \div 4] = Header(MsgSsize, MsgPsize)
        /\ 4 * x + 4 + (4 * MsgPsize + MsgSsize) <= b.len
    BY <1>1, <1>2, <1>3
  <2> QED
    BY <1>2, <2>1, GetObjIs
<1>6. PICK g : g = Object(1, 4 * x + 4, 4, 5)
  OBVIOUS
<1>7. g \in Objects /\ g # Null /\ ObjSize(g) = 24 /\ g.off = 4 * x + 4 /\ g.n = 1 /\ g.psize = 5
  BY <1>6 DEF Objects, Object, Null, ObjSize
<1>8. \A q \in Pointers(g, g.n) : \E w \in t.ptrs : q = 4 * w
  <2> SUFFICES ASSUME NEW q \in Pointers(g, 1) PROVE \E w \in t.ptrs : q = 4 * w
    BY <1>7
  <2>1. PICK i \in 0 .. 4 : q = 4 * x + 4 + 0 * 24 + 4 * i
    BY <1>7 DEF Pointers
  <2>2. q = 4 * (x + 1 + i)
    BY <2>1
  <2> QED
    BY <1>1, <2>2
<1>9. Leads(b, t, x)
  BY <1>1, <1>2, <1>5, <1>6, <1>7, <1>8 DEF Leads
<1> QED
  BY <1>1, <1>4, <1>9

\* A string can be pointed to.
LEMMA StrTyped ==
    ASSUME NEW b, NEW clean, GoodBuf(b, clean), NEW t, Sound(b, t, clean), NEW v, NEW c, c = WithStr(b, v),
           NEW h, h = Words(b.len), NEW u, u = ObjKinds(t, h)
    PROVE  /\ h \in Nat /\ 4 * h >= b.len /\ HdrOffset(c, StrObj(b)) = 4 * h
           /\ Retyped(b, t, c, u, clean) /\ Leads(c, u, h)
<1>1. /\ GoodBuf(c, clean) /\ Kept(b, c, {}) /\ HdrOffset(c, StrObj(b)) = 4 * h /\ c.mem[h] = HDR + BARR + 2
      /\ c.len = 4 * h + 6 /\ h \in Nat /\ 4 * h >= b.len
  BY WithStrIs
<1>2. b.len \in Nat /\ c.len \in Nat
  BY <1>1 DEF Sound, Kinds
<1>3. /\ \A w \in t.fixed \cup t.ptrs \cup t.data : w \in Nat /\ w < h
      /\ \A w \in t.fixed : w \notin t.ptrs /\ w \notin t.data
      /\ \A w \in t.ptrs : w \notin t.data
  BY <1>1, <1>2 DEF Sound, Kinds
<1>4. u.fixed = t.fixed \cup {h} /\ u.ptrs = t.ptrs /\ u.data = t.data
  BY DEF ObjKinds
<1>5. Kinds(c, u)
  BY <1>1, <1>2, <1>3, <1>4 DEF Kinds
<1>6. Retyped(b, t, c, u, clean)
  <2>1. \A w \in {} : w \notin t.fixed
    OBVIOUS
  <2>2. t.fixed \subseteq u.fixed /\ t.ptrs \subseteq u.ptrs /\ t.data \subseteq u.data
    BY <1>4
  <2>3. clean => \A w \in u.ptrs : (w \in t.ptrs /\ w \notin {}) \/ Near(c, u, w)
    BY <1>4
  <2> QED
    BY <1>1, <1>5, <2>1, <2>2, <2>3, Retype
<1>7. GetObj(c, 4 * h) = Object(2, 4 * h + 4, 1, 0)
  <2>1. 2 < BARR
    BY MIsNat DEF BARR
  <2>2. 4 * h \in Nat /\ (4 * h) \div 4 = h /\ 4 * h + 4 + 2 <= c.len
    BY <1>1
  <2> QED
    BY <1>1, <1>2, <2>1, <2>2, GetStrIs
<1>8. Leads(c, u, h)
  <2>1. PICK g : g = Object(2, 4 * h + 4, 1, 0)
    OBVIOUS
  <2>2. g \in Objects /\ g # Null /\ ObjSize(g) = 1 /\ g.off = 4 * h + 4 /\ g.psize = 0
    BY <1>1, <2>1 DEF Objects, Object, Null, ObjSize
  <2>3. Pointers(g, g.n) = {}
    BY <2>2 DEF Pointers
  <2> QED
    BY <1>1, <1>4, <1>7, <2>1, <2>2, <2>3 DEF Leads
<1> QED
  BY <1>1, <1>6, <1>8

\* The value v is stored to word w.
Stored(b, c, w, v) == w \in Nat /\ Kept(b, c, {w}) /\ c.mem[w] = v

\* A store within the array of frame k
LEMMA ArrStoreTyped ==
    ASSUME NEW bs, NEW st, NEW val, NEW clean, NEW L, NEW T, Held(bs, st, val, clean, L, T),
           Under(bs, st, val, clean), NEW k \in 1 .. Len(st), NEW g, g = st[k], g.kind = "rep",
           NEW num, num = Started(st, val, k), NEW c, NEW w, NEW v, Stored(bs[g.b], c, w, v),
           4 * w >= g.first.off, NEW cs, Differs(bs, cs, g.b, c),
           clean /\ NeedsBuf(g.f) /\ 4 * w \in Pointers(g.first, num) => Far(v, bs[g.b + 1], T[g.b + 1])
    PROVE  ArrTyped(cs, T, clean, g, num) /\ Retyped(bs[g.b], T[g.b], c, T[g.b], clean)
<1>1. Chain(st, Len(bs)) /\ Len(bs) \in Nat /\ IsFrame(g) /\ g.b \in 1 .. Len(bs)
  BY ChainIs DEF Under, Memory, IsSequence
<1>2. ArrIn(bs[g.b], g, num) /\ IsBuf(bs[g.b])
  BY <1>1 DEF Under, Memory, FrameIn, GoodBuf
<1>3. /\ IsFirst(g.first) /\ g.first.off \in Nat /\ g.first.off >= 8 /\ bs[g.b].len \in Nat
      /\ g.first.off + num * ObjSize(g.first) <= bs[g.b].len
  BY <1>2, ArrInIs
<1>4. num \in Nat
  BY <1>1, StartedIs
<1>5. PICK x \in Nat :
        /\ g.first.off = 4 * x + 8 /\ bs[g.b].mem[x] = Header(ElemSsize(g.f), ElemPsize(g.f)) + ARR
        /\ \A y \in T[g.b].fixed \cup T[g.b].ptrs \cup T[g.b].data : y < x
        /\ clean /\ NeedsBuf(g.f) =>
               \A q \in Pointers(g.first, num) : Far(bs[g.b].mem[q \div 4], bs[g.b + 1], T[g.b + 1])
  <2>1. FrameTyped(bs, T, clean, g, OnArray(st, k), num)
    BY DEF Held
  <2> QED
    BY <2>1 DEF FrameTyped, ArrTyped
<1>6. Sound(bs[g.b], T[g.b], clean)
  BY <1>1 DEF Held
<1>7. w \in Nat /\ w > x + 1 /\ Kept(bs[g.b], c, {w}) /\ c.mem[w] = v
  BY <1>5 DEF Stored
<1>8. Retyped(bs[g.b], T[g.b], c, T[g.b], clean)
  <2>1. w \notin T[g.b].fixed /\ w \notin T[g.b].ptrs
    BY <1>5, <1>7
  <2>2. /\ \A y \in {w} : y \notin T[g.b].fixed
        /\ clean => \A y \in {w} : y \in T[g.b].ptrs => Near(c, T[g.b], y)
    BY <2>1
  <2> QED
    BY <1>6, <1>7, <2>2, RetypeSame
<1>9. cs[g.b] = c /\ \A j \in 1 .. Len(bs) : j # g.b => cs[j] = bs[j]
  BY DEF Differs
<1>10. cs[g.b].mem[x] = Header(ElemSsize(g.f), ElemPsize(g.f)) + ARR
  <2>1. x \in Nat \ {w}
    BY <1>7
  <2>2. 4 * x < bs[g.b].len
    <3>1. num * ObjSize(g.first) \in Nat
      <4>1. PICK s \in Nat : s = ObjSize(g.first)
        BY <1>3 DEF IsFirst, ObjSize
      <4> QED
        BY <1>4, <4>1
    <3> QED
      BY <1>3, <1>5, <3>1
  <2>3. c.mem[x] = bs[g.b].mem[x]
    BY <1>7, <2>1, <2>2 DEF Kept
  <2> QED
    BY <1>5, <1>9, <2>3
<1>11. ASSUME clean, NeedsBuf(g.f), NEW q \in Pointers(g.first, num)
       PROVE  Far(cs[g.b].mem[q \div 4], cs[g.b + 1], T[g.b + 1])
  <2>1. g.b + 1 \in 1 .. Len(bs) /\ g.b + 1 # g.b
    BY <1>11, NextBuf
  <2>2. cs[g.b + 1] = bs[g.b + 1]
    BY <1>9, <2>1
  <2>3. q \in Nat /\ q = 4 * (q \div 4) /\ q + 4 <= g.first.off + num * ObjSize(g.first)
    BY <1>3, <1>4, PointersWithin
  <2>4. CASE q \div 4 = w
    BY <1>7, <1>9, <1>11, <2>2, <2>3, <2>4
  <2>5. CASE q \div 4 # w
    <3>1. q \div 4 \in Nat \ {w} /\ 4 * (q \div 4) < bs[g.b].len
      <4>1. PICK e : e = num * ObjSize(g.first)
        OBVIOUS
      <4>2. PICK y : y = q \div 4
        OBVIOUS
      <4>3. y \in Nat
        BY <2>3, <4>2
      <4>4. ObjSize(g.first) \in Nat
        BY <1>3 DEF IsFirst, ObjSize
      <4>5. e \in Nat
        BY <1>4, <4>1, <4>4
      <4> QED
        BY <1>3, <2>3, <2>5, <4>1, <4>2, <4>3, <4>5, SMTT(20)
    <3>2. c.mem[q \div 4] = bs[g.b].mem[q \div 4]
      BY <1>7, <3>1 DEF Kept
    <3> QED
      BY <1>5, <1>9, <1>11, <2>2, <3>2
  <2> QED
    BY <2>4, <2>5
<1>12. /\ x \in Nat /\ g.first.off = 4 * x + 8
       /\ \A y \in T[g.b].fixed \cup T[g.b].ptrs \cup T[g.b].data : y < x
  BY <1>5
<1>13. ArrTyped(cs, T, clean, g, num)
  BY <1>10, <1>11, <1>12 DEF ArrTyped
<1> QED
  BY <1>8, <1>13

\* What may be stored to pointer w of a message, or scalar, on an array or not
MayPoint(bs, T, fr, onArray, w, v) ==
    IF onArray THEN Far(v, bs[fr.b + 1], T[fr.b + 1])
    ELSE v = 0 \/ (v \in Nat /\ Leads(bs[fr.b], T[fr.b], w + v))

\* The innermost message gets a scalar or a pointer.
LEMMA TopStoreTyped ==
    ASSUME NEW bs, NEW st, NEW val, NEW clean, NEW L, NEW T, Held(bs, st, val, clean, L, T),
           Under(bs, st, val, clean), NEW z, z = Len(st), NEW fr, fr = st[z], fr.kind = "msg",
           NEW c, NEW w, NEW v, Stored(bs[fr.b], c, w, v), NEW i \in 0 .. 5, fr.o.off + 4 * i = 4 * w,
           clean /\ i < 5 => MayPoint(bs, T, fr, OnArray(st, z), w, v),
           NEW cs, Differs(bs, cs, fr.b, c)
    PROVE  Held(cs, st, val, clean, L, T) /\ SameTo(bs[1], cs[1], L)
<1>1. /\ Chain(st, Len(bs)) /\ Len(bs) \in Nat /\ fr.b \in Nat /\ fr.b \in 1 .. Len(bs)
      /\ z \in Nat /\ z >= 1 /\ z \in 1 .. Len(st)
  BY ChainIs DEF Under, Memory, IsSequence
<1>2. Sound(bs[fr.b], T[fr.b], clean) /\ w \in Nat /\ Kept(bs[fr.b], c, {w}) /\ c.mem[w] = v
  BY <1>1 DEF Held, Stored
<1>3. ASSUME NEW k \in 1 .. Len(st), st[k].kind = "rep", st[k].b = fr.b
      PROVE  k = z - 1 /\ z > 1 /\ fr.o = st[k].it /\ st[k].f = "r" /\ OnArray(st, z)
  BY <1>1, <1>3, OnTop DEF OnArray
<1>4. /\ Retyped(bs[fr.b], T[fr.b], c, T[fr.b], clean)
      /\ ArrsTyped(cs, st, val, clean, T, fr.b)
  <2>1. CASE ~OnArray(st, z)
    <3>1. FrameTyped(bs, T, clean, fr, OnArray(st, z), Started(st, val, z))
      BY <1>1 DEF Held
    <3>2. PICK x \in Nat :
              /\ fr.o.off = 4 * x + 4
              /\ \A j \in 0 .. 4 : x + 1 + j \in T[fr.b].ptrs
              /\ x + 6 \in T[fr.b].data
      BY <2>1, <3>1 DEF FrameTyped, MsgTyped
    <3>3. w = x + 1 + i
      BY <1>2, <3>2
    <3>4. IF i < 5 THEN w \in T[fr.b].ptrs ELSE w \in T[fr.b].data
      <4>1. i < 5 => i \in 0 .. 4
        OBVIOUS
      <4>2. i >= 5 => w = x + 6
        BY <3>3
      <4> QED
        BY <3>2, <3>3, <4>1, <4>2
    <3>5. /\ w \notin T[fr.b].fixed
          /\ w \in T[fr.b].ptrs => i < 5
      BY <1>2, <3>4 DEF Sound, Kinds
    <3>6. ASSUME clean, i < 5 PROVE Near(c, T[fr.b], w)
      <4>1. CASE v = 0
        BY <1>2, <4>1 DEF Near
      <4>2. CASE v # 0
        <5>1. v \in Nat /\ Leads(bs[fr.b], T[fr.b], w + v)
          BY <2>1, <3>6, <4>2 DEF MayPoint
        <5>2. Carries(bs[fr.b], T[fr.b], c, T[fr.b], 0)
          BY <1>2, <3>5, CarriesKept DEF Sound
        <5>3. Leads(c, T[fr.b], w + v + 0) /\ w + v + 0 = w + v
          BY <1>2, <5>1, <5>2, LeadsMoved
        <5> QED
          BY <1>2, <5>1, <5>3 DEF Near
      <4> QED
        BY <4>1, <4>2
    <3>7. Retyped(bs[fr.b], T[fr.b], c, T[fr.b], clean)
      <4>1. /\ \A y \in {w} : y \notin T[fr.b].fixed
            /\ clean => \A y \in {w} : y \in T[fr.b].ptrs => Near(c, T[fr.b], y)
        BY <3>5, <3>6
      <4> QED
        BY <1>2, <4>1, RetypeSame
    <3> QED
      BY <1>3, <2>1, <3>7 DEF ArrsTyped
  <2>2. CASE OnArray(st, z)
    <3>1. PICK g, k : k = z - 1 /\ g = st[k]
      OBVIOUS
    <3>2. k \in 1 .. Len(st) /\ k \in Nat /\ k < Len(st) /\ g.kind = "rep" /\ z > 1
      BY <1>1, <2>2, <3>1 DEF OnArray
    <3>3. g.b = fr.b /\ fr.o = g.it /\ g.f = "r"
      BY <1>1, <2>2, <3>1, <3>2 DEF Chain, Link
    <3>4. PICK num : num = Started(st, val, k)
      OBVIOUS
    <3>5. PICK j \in Nat : j = Len(g.items)
      BY <1>1, <3>1, <3>2, ChainIs DEF IsFrame, IsRep, IsSequence
    <3>6. num = j + 1
      BY <3>1, <3>2, <3>4, <3>5, StartedBelow
    <3>7. /\ IsFirst(g.first) /\ g.it = Element(g.first, j + 1) /\ g.first.psize = 5
      <4>1. ArrIn(bs[g.b], g, num) /\ IsBuf(bs[g.b])
        BY <1>1, <3>1, <3>2, <3>3, <3>4 DEF Under, Memory, FrameIn, GoodBuf
      <4> QED
        BY <3>3, <3>5, <4>1, ArrInIs DEF ElemPsize, MsgPsize
    <3>8. g.it.off \in Nat /\ g.it.off >= g.first.off /\ g.first.off \in Nat
      BY <3>7, ElementIs DEF IsFirst
    <3>9. 4 * w >= g.first.off
      BY <1>2, <3>3, <3>8
    <3>10. ASSUME clean, 4 * w \in Pointers(g.first, num) PROVE Far(v, bs[g.b + 1], T[g.b + 1])
      <4>1. CASE i < 5
        BY <2>2, <3>3, <3>10, <4>1 DEF MayPoint
      <4>2. CASE i >= 5
        <5>1. 4 * w >= g.it.off + 4 * g.first.psize /\ 4 * w \in Nat
          BY <1>2, <3>3, <3>7, <3>8, <4>2
        <5>2. 4 * w \notin Pointers(g.first, j + 1)
          BY <3>7, <5>1, NotAPointer
        <5> QED
          BY <3>6, <3>10, <5>2
      <4> QED
        BY <4>1, <4>2
    <3>11. ArrTyped(cs, T, clean, g, num) /\ Retyped(bs[g.b], T[g.b], c, T[g.b], clean)
      <4>1. /\ Held(bs, st, val, clean, L, T) /\ Under(bs, st, val, clean) /\ k \in 1 .. Len(st)
            /\ g = st[k] /\ g.kind = "rep" /\ num = Started(st, val, k) /\ Stored(bs[g.b], c, w, v)
            /\ 4 * w >= g.first.off /\ Differs(bs, cs, g.b, c)
            /\ clean /\ NeedsBuf(g.f) /\ 4 * w \in Pointers(g.first, num) => Far(v, bs[g.b + 1], T[g.b + 1])
        BY <3>1, <3>2, <3>3, <3>4, <3>9, <3>10
      <4> QED
        BY ONLY <4>1, ArrStoreTyped
    <3> QED
      BY <1>3, <3>1, <3>3, <3>4, <3>11 DEF ArrsTyped
  <2> QED
    BY <2>1, <2>2
<1>5. T = With(T, fr.b, T[fr.b])
  BY DEF Held, With
<1>6. Changes(bs, st, val, fr.b, c, cs, val)
  BY <1>1 DEF Changes
<1> QED
  BY <1>4, <1>5, <1>6, HeldStep

\* An element that is one word is stored.
LEMMA ElemStoreTyped ==
    ASSUME NEW bs, NEW st, NEW val, NEW clean, NEW L, NEW T, Held(bs, st, val, clean, L, T),
           Under(bs, st, val, clean), NEW z, z = Len(st), NEW g, g = st[z], g.kind = "rep",
           NEW c, NEW w, NEW v, Stored(bs[g.b], c, w, v), 4 * w = g.it.off,
           clean /\ NeedsBuf(g.f) => Far(v, bs[g.b + 1], T[g.b + 1]),
           NEW cs, Differs(bs, cs, g.b, c)
    PROVE  Held(cs, st, val, clean, L, T) /\ SameTo(bs[1], cs[1], L)
<1>1. /\ Chain(st, Len(bs)) /\ Len(bs) \in Nat /\ g.b \in Nat /\ g.b \in 1 .. Len(bs)
      /\ z \in Nat /\ z >= 1 /\ z \in 1 .. Len(st) /\ IsFrame(g)
  BY ChainIs DEF Under, Memory, IsSequence
<1>2. ASSUME NEW k \in 1 .. Len(st), st[k].kind = "rep", st[k].b = g.b
      PROVE  k = z
  BY <1>1, <1>2, OnTop
<1>3. PICK num : num = Started(st, val, z)
  OBVIOUS
<1>4. 4 * w >= g.first.off
  <2>1. PICK j \in Nat : j = Len(g.items)
    BY <1>1 DEF IsFrame, IsRep, IsSequence
  <2>2. ArrIn(bs[g.b], g, num) /\ IsBuf(bs[g.b])
    BY <1>1, <1>3 DEF Under, Memory, FrameIn, GoodBuf
  <2>3. IsFirst(g.first) /\ g.it = Element(g.first, j + 1) /\ g.first.off \in Nat
    BY <2>1, <2>2, ArrInIs
  <2>4. g.it.off \in Nat /\ g.it.off >= g.first.off
    BY ONLY <2>3, j \in Nat, ElementIs, ZenonT(30)
  <2> QED
    BY <2>3, <2>4
<1>5. ArrTyped(cs, T, clean, g, num) /\ Retyped(bs[g.b], T[g.b], c, T[g.b], clean)
  <2>1. /\ Held(bs, st, val, clean, L, T) /\ Under(bs, st, val, clean) /\ z \in 1 .. Len(st)
        /\ g = st[z] /\ g.kind = "rep" /\ num = Started(st, val, z) /\ Stored(bs[g.b], c, w, v)
        /\ 4 * w >= g.first.off /\ Differs(bs, cs, g.b, c)
        /\ clean /\ NeedsBuf(g.f) /\ 4 * w \in Pointers(g.first, num) => Far(v, bs[g.b + 1], T[g.b + 1])
    BY <1>1, <1>3, <1>4
  <2> QED
    BY ONLY <2>1, ArrStoreTyped
<1>6. ArrsTyped(cs, st, val, clean, T, g.b)
  BY <1>2, <1>3, <1>5 DEF ArrsTyped
<1>7. T = With(T, g.b, T[g.b])
  BY DEF Held, With
<1>8. Changes(bs, st, val, g.b, c, cs, val)
  BY <1>1 DEF Changes
<1> QED
  BY <1>5, <1>6, <1>7, <1>8, HeldStep

\* What is complete in the last buffer, its header at word x, is tied to the
\* innermost message.
PtrSet(bs, st, val, clean, L, T, fr, i, x, c, cs) ==
    LET m == Len(bs)
    IN  /\ Held(bs, st, val, clean, L, T) /\ Under(bs, st, val, clean)
        /\ fr = st[Len(st)] /\ fr.kind = "msg" /\ i \in 0 .. 4 /\ x \in Nat /\ 4 * x < M
        /\ fr.b = m => fr.o.off + 24 <= 4 * x
        /\ clean => Leads(bs[m], T[m], x)
        /\ c = SetP(bs[fr.b], fr.o, i, 4 * x, fr.b = m) /\ cs = [bs EXCEPT ![fr.b] = c]

\* A pointer of the innermost message is set.
LEMMA SetPtrTyped ==
    ASSUME NEW bs, NEW st, NEW val, NEW clean, NEW L, NEW T, NEW fr, NEW i \in 0 .. 4, NEW x \in Nat,
           NEW c, NEW cs, PtrSet(bs, st, val, clean, L, T, fr, i, x, c, cs),
           NEW z, z = Len(st), NEW m, m = Len(bs)
    PROVE  Held(cs, st, val, clean, L, T) /\ SameTo(bs[1], cs[1], L)
<1> USE DEF PtrSet
<1>1. /\ m \in Nat /\ Chain(st, m) /\ z \in Nat /\ z >= 1 /\ z \in 1 .. Len(st)
      /\ fr.b \in 1 .. m /\ fr.b \in Nat
  <2>1. m \in Nat /\ Chain(st, m)
    BY DEF Under, Memory, IsSequence
  <2> QED
    BY <2>1, ChainIs DEF Chain
<1>2. MsgIn(bs[fr.b], fr.o) /\ IsBuf(bs[fr.b])
  BY <1>1 DEF Under, Memory, FrameIn, GoodBuf
<1>3. fr.o.off \in Nat /\ fr.o.off % 4 = 0 /\ fr.o.off + 24 <= bs[fr.b].len /\ bs[fr.b].len \in Nat
  BY <1>2 DEF MsgIn, IsBuf
<1>4. PICK w \in Nat : fr.o.off + 4 * i = 4 * w
  <2>1. PICK off : off = fr.o.off
    OBVIOUS
  <2>2. off \in Nat /\ off % 4 = 0
    BY ONLY <1>3, <2>1
  <2>3. \E w \in Nat : off + 4 * i = 4 * w
    <3>1. off = 4 * (off \div 4) /\ off \div 4 \in Nat
      BY ONLY <2>2
    <3>2. off + 4 * i = 4 * (off \div 4 + i) /\ off \div 4 + i \in Nat
      BY ONLY <3>1, i \in 0 .. 4
    <3> QED
      BY ONLY <3>2
  <2> QED
    BY ONLY <2>1, <2>3
<1>5. PtrOffset(fr.o, i) = 4 * w /\ 4 * w < bs[fr.b].len /\ (fr.b = m => x >= w)
  <2>1. PICK off, len : off = fr.o.off /\ len = bs[fr.b].len
    OBVIOUS
  <2>2. off \in Nat /\ off + 24 <= len /\ len \in Nat /\ off + 4 * i = 4 * w
    BY ONLY <1>3, <1>4, <2>1
  <2>3. 4 * w < len
    BY ONLY <2>2, i \in 0 .. 4, w \in Nat
  <2>4. ASSUME fr.b = m PROVE x >= w
    <3>1. off + 24 <= 4 * x
      BY <2>1, <2>4, Zenon
    <3> QED
      BY ONLY <2>2, <3>1, i \in 0 .. 4, w \in Nat, x \in Nat
  <2> QED
    BY ONLY <1>4, <2>1, <2>3, <2>4 DEF PtrOffset
<1>6. PICK same, b : same = (fr.b = m) /\ b = bs[fr.b]
  OBVIOUS
<1>7. /\ Kept(b, c, {w})
      /\ fr.b = m /\ x >= w /\ 4 * x < M => c.mem[w] = x - w
      /\ fr.b # m => c.mem[w] = M - 1 - x
  <2>1. IsBuf(b) /\ w \in Nat /\ PtrOffset(fr.o, i) = 4 * w /\ 4 * w < b.len /\ c = SetP(b, fr.o, i, 4 * x, same)
    BY <1>2, <1>5, <1>6, Zenon
  <2>2. Puts(b, fr.o, i, w, x, same, c)
    BY <2>1 DEF Puts
  <2>3. w \in Nat /\ x \in Nat
    OBVIOUS
  <2>4. /\ Kept(b, c, {w}) /\ c.len = b.len
        /\ same /\ x >= w /\ 4 * x < M => c.mem[w] = x - w
        /\ ~same => c.mem[w] = M - 1 - x
    BY ONLY <2>2, <2>3, SetPValue
  <2> QED
    BY <1>6, <2>4, Zenon
<1>8. PICK v : v = c.mem[w]
  OBVIOUS
<1>9. ASSUME clean PROVE MayPoint(bs, T, fr, OnArray(st, z), w, v)
  <2>1. Home(st, z) = m
    BY <1>1 DEF Chain
  <2>2. CASE OnArray(st, z)
    <3>1. m = fr.b + 1
      BY <1>1, <2>1, <2>2 DEF Home, OnArray
    <3>2. fr.b # m
      BY ONLY <1>1, <3>1
    <3>3. v = M - 1 - x
      BY <1>7, <1>8, <3>2, Zenon
    <3> QED
      BY <1>9, <2>2, <3>1, <3>3 DEF MayPoint, Far
  <2>3. CASE ~OnArray(st, z)
    <3>1. fr.b = m
      BY <1>1, <2>1, <2>3 DEF Home, OnArray
    <3>2. v = x - w /\ x >= w
      BY <1>5, <1>7, <1>8, <3>1, Zenon
    <3>3. v \in Nat /\ w + v = x
      BY <3>2
    <3> QED
      BY <1>9, <2>3, <3>1, <3>3 DEF MayPoint
  <2> QED
    BY <2>2, <2>3
<1>10. Differs(bs, cs, fr.b, c)
  <2>1. IsSequence(bs) /\ fr.b \in 1 .. Len(bs)
    BY <1>1 DEF Under, Memory
  <2> QED
    BY <2>1, ReplaceIs
<1>11. PICK k : k = i /\ k \in 0 .. 5
  OBVIOUS
<1>12. /\ Held(bs, st, val, clean, L, T) /\ Under(bs, st, val, clean) /\ z = Len(st) /\ fr = st[z] /\ fr.kind = "msg"
       /\ Stored(bs[fr.b], c, w, v) /\ k \in 0 .. 5 /\ fr.o.off + 4 * k = 4 * w
       /\ (clean /\ k < 5 => MayPoint(bs, T, fr, OnArray(st, z), w, v))
       /\ Differs(bs, cs, fr.b, c)
  BY <1>4, <1>6, <1>7, <1>8, <1>9, <1>10, <1>11 DEF Stored
<1> QED
  BY ONLY <1>12, TopStoreTyped

\* The same for a string that is an element
ElemSet(bs, st, val, clean, L, T, g, x, c, cs) ==
    LET m == Len(bs)
    IN  /\ val /\ Held(bs, st, val, clean, L, T) /\ Under(bs, st, val, clean)
        /\ g = st[Len(st)] /\ g.kind = "rep" /\ g.f = "ss" /\ x \in Nat
        /\ clean => Leads(bs[m], T[m], x)
        /\ c = SetP(bs[g.b], g.it, 0, 4 * x, g.b = m) /\ cs = [bs EXCEPT ![g.b] = c]

\* The pointer of the element being read is set.
LEMMA SetElemTyped ==
    ASSUME NEW bs, NEW st, NEW val, NEW clean, NEW L, NEW T, NEW g, NEW x \in Nat, NEW c, NEW cs,
           ElemSet(bs, st, val, clean, L, T, g, x, c, cs), NEW z, z = Len(st), NEW m, m = Len(bs)
    PROVE  Held(cs, st, val, clean, L, T) /\ SameTo(bs[1], cs[1], L)
<1> USE DEF ElemSet
<1>1. m \in Nat /\ Chain(st, m) /\ z \in 1 .. Len(st) /\ g.b \in 1 .. m /\ g.b \in Nat
  <2>1. m \in Nat /\ Chain(st, m)
    BY DEF Under, Memory, IsSequence
  <2> QED
    BY <2>1, ChainIs DEF Chain
<1>2. m = g.b + 1
  BY <1>1 DEF Chain, Home, NeedsBuf, ElemPsize
<1>3. PICK b : b = bs[g.b]
  OBVIOUS
<1>4. g.it.off \in Nat /\ g.it.off % 4 = 0 /\ g.it.off < b.len /\ IsBuf(b)
  <2>1. PICK j, d : j = Len(g.items) /\ d = 1
    OBVIOUS
  <2>2. Under(bs, st, val, clean) /\ z = Len(st) /\ g = st[z] /\ g.kind = "rep" /\ b = bs[g.b]
        /\ j = Len(g.items) /\ d \in {0, 1} /\ (IF val THEN d = 1 ELSE d = 0)
    BY <1>3, <2>1, Zenon
  <2>3. /\ Started(st, val, z) = j + d
        /\ g.b \in 1 .. Len(bs) /\ GoodBuf(b, clean) /\ (clean => ArrClean(bs, g, j + d))
        /\ ArrFacts(b, g, j, d)
    BY ONLY <2>2, TopArr
  <2>4. ObjSize(g.first) = 4
    BY <2>3 DEF ArrFacts, ObjSize, ElemSsize, ElemPsize
  <2>5. /\ g.it.off \in Nat /\ g.it.off % 4 = 0 /\ b.len \in Nat
        /\ g.first.off + (j + 1) * ObjSize(g.first) = b.len
        /\ g.first.off + (j + 1) * ObjSize(g.first) = g.it.off + ObjSize(g.first)
    BY <2>1, <2>3 DEF ArrFacts
  <2>6. b.len = g.it.off + 4
    BY <2>4, <2>5, Zenon
  <2> QED
    BY <2>3, <2>5, <2>6 DEF GoodBuf
<1>5. PICK w \in Nat : g.it.off = 4 * w
  <2>1. PICK off : off = g.it.off
    OBVIOUS
  <2>2. off \in Nat /\ off % 4 = 0
    BY ONLY <1>4, <2>1
  <2>3. \E w \in Nat : off = 4 * w
    BY ONLY <2>2
  <2> QED
    BY ONLY <2>1, <2>3
<1>6. PICK same : same = (g.b = m) /\ ~same
  <2>1. g.b # m
    BY ONLY <1>1, <1>2
  <2> QED
    BY <2>1, Zenon
<1>7. Kept(b, c, {w}) /\ (~same => c.mem[w] = M - 1 - x)
  <2>1. PtrOffset(g.it, 0) = 4 * w
    BY <1>4, <1>5 DEF PtrOffset
  <2>2. /\ IsBuf(b) /\ w \in Nat /\ PtrOffset(g.it, 0) = 4 * w /\ 4 * w < b.len
        /\ c = SetP(b, g.it, 0, 4 * x, same)
    BY <1>3, <1>4, <1>5, <1>6, <2>1
  <2>5. PICK o, i : o = g.it /\ i = 0
    OBVIOUS
  <2>3. Puts(b, o, i, w, x, same, c)
    BY <2>2, <2>5 DEF Puts
  <2>6. w \in Nat /\ x \in Nat
    OBVIOUS
  <2>4. /\ Kept(b, c, {w}) /\ c.len = b.len
        /\ same /\ x >= w /\ 4 * x < M => c.mem[w] = x - w
        /\ ~same => c.mem[w] = M - 1 - x
    BY ONLY <2>3, <2>6, SetPValue
  <2> QED
    BY ONLY <2>4
<1>8. PICK v : v = M - 1 - x
  OBVIOUS
<1>9. clean => Far(v, bs[g.b + 1], T[g.b + 1])
  BY <1>2, <1>8 DEF Far
<1>10. Differs(bs, cs, g.b, c)
  <2>1. IsSequence(bs) /\ g.b \in 1 .. Len(bs)
    BY <1>1 DEF Under, Memory
  <2> QED
    BY <2>1, ReplaceIs
<1>11. /\ Held(bs, st, val, clean, L, T) /\ Under(bs, st, val, clean) /\ z = Len(st) /\ g = st[z] /\ g.kind = "rep"
       /\ Stored(bs[g.b], c, w, v) /\ 4 * w = g.it.off
       /\ (clean /\ NeedsBuf(g.f) => Far(v, bs[g.b + 1], T[g.b + 1]))
       /\ Differs(bs, cs, g.b, c)
  BY <1>3, <1>5, <1>6, <1>7, <1>8, <1>9, <1>10 DEF Stored
<1> QED
  BY ONLY <1>11, ElemStoreTyped

\* The sizes of elements are those of the three repeated fields.
LEMMA ElemSizes ==
    ASSUME NEW f \in Repeated
    PROVE  /\ ElemSsize(f) \in Nat /\ ElemSsize(f) % 4 = 0 /\ ElemSsize(f) < SN
           /\ ElemPsize(f) \in Nat /\ ElemPsize(f) < PN /\ 4 * ElemPsize(f) + ElemSsize(f) >= 4
           /\ NeedsBuf(f) <=> ElemPsize(f) > 0
<1>1. f \in {"r", "xs", "ss"} /\ 4 < SN /\ 5 < PN /\ 4 % 4 = 0 /\ 0 % 4 = 0
  BY HeaderAssumption DEF Repeated, MsgSsize, MsgPsize
<1>2. f = "r" => ElemSsize(f) = 4 /\ ElemPsize(f) = 5
  BY DEF ElemSsize, ElemPsize, MsgSsize, MsgPsize
<1>3. f = "xs" => ElemSsize(f) = 4 /\ ElemPsize(f) = 0
  BY DEF ElemSsize, ElemPsize
<1>4. f = "ss" => ElemSsize(f) = 0 /\ ElemPsize(f) = 1
  BY DEF ElemSsize, ElemPsize
<1>5. NeedsBuf(f) <=> ElemPsize(f) > 0
  BY DEF NeedsBuf
<1>6. 0 < SN /\ 0 < PN /\ 1 < PN
  BY <1>1, SNAssumption, PNAssumption
<1> QED
  BY ONLY <1>1, <1>2, <1>3, <1>4, <1>5, <1>6

\* An array is begun: it lies behind all that is of a kind, and its pointers are null.
LEMMA NewArrTyped ==
    ASSUME NEW b, NEW clean, GoodBuf(b, clean), NEW t, Sound(b, t, clean), NEW f \in Repeated,
           NEW o, o = NewArr(b, 1, ElemSsize(f), ElemPsize(f)),
           NEW c, c = AllocArr(b, 1, ElemSsize(f), ElemPsize(f))
    PROVE  /\ Retyped(b, t, c, t, clean)
           /\ \E x \in Nat :
                  /\ o.off = 4 * x + 8 /\ c.mem[x] = Header(ElemSsize(f), ElemPsize(f)) + ARR /\ 4 * x >= b.len
                  /\ \A w \in t.fixed \cup t.ptrs \cup t.data : w < x
                  /\ clean => \A q \in Pointers(o, 1) : c.mem[q \div 4] = 0
<1>1. PICK ss \in Nat, ps \in Nat : ss = ElemSsize(f) /\ ps = ElemPsize(f) /\ ss % 4 = 0
  BY ElemSizes
<1>2. IsBuf(b) /\ b.len \in Nat
  BY DEF GoodBuf, IsBuf
<1>3. PICK x : x = Words(b.len)
  OBVIOUS
<1>4. x \in Nat /\ o.off = 4 * x + 8 /\ c.mem[x] = Header(ss, ps) + ARR
  <2>1. IsBuf(b) /\ ss \in Nat /\ ss % 4 = 0 /\ ps \in Nat /\ o = NewArr(b, 1, ss, ps) /\ c = AllocArr(b, 1, ss, ps)
        /\ x = Words(b.len)
    BY <1>1, <1>2, <1>3
  <2> QED
    BY ONLY <2>1, AllocArrHeader
<1>5. 4 * x >= b.len
  BY <1>2, <1>3, WordsIs
<1>6. Kept(b, c, {}) /\ IsArr(c, o) /\ c.len = o.off + ObjSize(o)
  BY <1>1, <1>2, AllocArrIs
<1>7. Retyped(b, t, c, t, clean)
  <2>1. /\ \A w \in {} : w \notin t.fixed
        /\ clean => \A w \in {} : w \in t.ptrs => Near(c, t, w)
    OBVIOUS
  <2> QED
    BY <1>6, <2>1, RetypeSame
<1>8. \A w \in t.fixed \cup t.ptrs \cup t.data : w < x
  BY <1>2, <1>4, <1>5 DEF Sound, Kinds
<1>9. ASSUME clean, NEW q \in Pointers(o, 1) PROVE c.mem[q \div 4] = 0
  <2>1. Clear(c, o.off \div 4)
    <3>1. IsBuf(b) /\ ss \in Nat /\ ss % 4 = 0 /\ ps \in Nat /\ o = NewArr(b, 1, ss, ps) /\ c = AllocArr(b, 1, ss, ps)
          /\ Clear(b, Words(b.len) + 1)
      BY <1>1, <1>2, <1>9 DEF GoodBuf
    <3> QED
      BY ONLY <3>1, AllocArrClear
  <2>2. IsFirst(o) /\ o.off \in Nat /\ o.off % 4 = 0
    BY <1>6 DEF IsArr, IsFirst
  <2>3. q \in Nat /\ q = 4 * (q \div 4) /\ q >= o.off /\ q + 4 <= o.off + 1 * ObjSize(o)
    BY <2>2, PointersWithin
  <2>4. c.len \in Nat /\ c.cap \in Nat /\ c.len <= c.cap /\ ObjSize(o) \in Nat
    BY <1>6, <2>2 DEF Kept, IsBuf, IsFirst, ObjSize
  <2>5. q + 4 <= c.cap
    <3>1. 1 * ObjSize(o) = ObjSize(o)
      BY <2>4
    <3> QED
      BY <1>4, <1>6, <2>3, <2>4, <3>1
  <2>6. Words(c.cap) \in Nat /\ 4 * Words(c.cap) >= c.cap
    BY <2>4, WordsIs
  <2>7. q \div 4 \in o.off \div 4 .. Words(c.cap) - 1
    BY ONLY <2>2, <2>3, <2>4, <2>5, <2>6
  <2> QED
    BY <2>1, <2>7 DEF Clear
<1> QED
  BY <1>1, <1>4, <1>5, <1>7, <1>8, <1>9

\* A new buffer has nothing in it.
NoKinds == [fixed |-> {}, ptrs |-> {}, data |-> {}]

WithBuf(bs, st, val, clean, L, T, m, ds, U) ==
    /\ Held(bs, st, val, clean, L, T) /\ Under(bs, st, val, clean) /\ st[Len(st)].kind = "msg"
    /\ m = Len(bs) /\ ds = Append(bs, NewBuf(0)) /\ U = With(T, m + 1, NoKinds)

\* A new buffer for what elements point to
LEMMA NewBufTyped ==
    ASSUME NEW bs, NEW st, NEW val, NEW clean, NEW L, NEW T, NEW m, NEW ds, NEW U,
           WithBuf(bs, st, val, clean, L, T, m, ds, U)
    PROVE  /\ Held(ds, st, val, clean, L, U) /\ SameTo(bs[1], ds[1], L)
           /\ U[m] = T[m] /\ \A k \in 1 .. m : ds[k] = bs[k]
<1>0. /\ Held(bs, st, val, clean, L, T) /\ Under(bs, st, val, clean) /\ st[Len(st)].kind = "msg"
      /\ m = Len(bs) /\ ds = Append(bs, NewBuf(0)) /\ U = With(T, m + 1, NoKinds)
  BY DEF WithBuf
<1>1. m \in Nat /\ Chain(st, m) /\ IsSequence(bs)
  BY <1>0 DEF Under, Memory, IsSequence
<1>2. Len(st) \in Nat /\ Len(st) >= 1 /\ m >= 1
  BY <1>0, <1>1, ChainIs
<1>3. Len(ds) = m + 1 /\ ds[m + 1] = NewBuf(0) /\ \A k \in 1 .. m : ds[k] = bs[k]
  BY <1>0, <1>1, AppendIs
<1>4. /\ U = [k \in Nat |-> U[k]] /\ U[m + 1] = NoKinds /\ \A k \in 1 .. m : U[k] = T[k]
  BY <1>0, <1>1 DEF With
<1>5. Sound(NewBuf(0), NoKinds, clean)
  BY <1>0 DEF Sound, Kinds, NoKinds, NewBuf
<1>6. /\ \A w \in Nat : 4 * w < L => w \in T[1].fixed
      /\ \A k \in 1 .. m : Sound(bs[k], T[k], clean)
  BY <1>0 DEF Held
<1>7. ASSUME NEW k \in 1 .. m + 1 PROVE Sound(ds[k], U[k], clean)
  <2>1. CASE k = m + 1
    BY <1>0, <1>3, <1>4, <1>5, <2>1
  <2>2. CASE k # m + 1
    <3>1. k \in 1 .. m
      BY <1>0, <1>1, <2>2
    <3> QED
      BY <1>0, <1>3, <1>4, <1>6, <3>1
  <2> QED
    BY <1>0, <2>1, <2>2
<1>8. ASSUME NEW k \in 1 .. Len(st)
      PROVE  FrameTyped(ds, U, clean, st[k], OnArray(st, k), Started(st, val, k))
  <2>1. FrameTyped(bs, T, clean, st[k], OnArray(st, k), Started(st, val, k))
    BY <1>0 DEF Held
  <2>2. st[k].b \in 1 .. m /\ st[k].b \in Nat
    BY <1>0, <1>1, ChainIs
  <2>3. ds[st[k].b] = bs[st[k].b] /\ U[st[k].b] = T[st[k].b]
    BY <1>0, <1>3, <1>4, <2>2
  <2>4. CASE st[k].kind = "rep"
    <3>1. k < Len(st)
      BY <1>0, <1>2, <2>4
    <3>2. st[k].b < m
      BY <1>0, <1>1, <2>4, <3>1, RepsBelow
    <3>3. st[k].b + 1 \in 1 .. m
      BY <1>0, <1>1, <2>2, <3>2
    <3>4. ds[st[k].b + 1] = bs[st[k].b + 1] /\ U[st[k].b + 1] = T[st[k].b + 1]
      BY <1>0, <1>3, <1>4, <3>3
    <3> QED
      BY <1>0, <2>1, <2>3, <2>4, <3>4 DEF FrameTyped, ArrTyped
  <2>5. CASE st[k].kind # "rep"
    BY <1>0, <2>1, <2>3, <2>5 DEF FrameTyped
  <2> QED
    BY <1>0, <2>4, <2>5
<1>9. \A w \in Nat : 4 * w < L => w \in U[1].fixed
  <2>1. 1 \in 1 .. m
    BY <1>1, <1>2
  <2>2. U[1] = T[1]
    BY <1>4, <2>1, Zenon
  <2> QED
    BY <1>6, <2>2
<1>10. Held(ds, st, val, clean, L, U)
  BY <1>0, <1>3, <1>4, <1>7, <1>8, <1>9 DEF Held
<1>11. SameTo(bs[1], ds[1], L)
  <2>1. ds[1] = bs[1]
    BY <1>0, <1>1, <1>2, <1>3
  <2> QED
    BY <1>0, <2>1 DEF SameTo
<1> QED
  BY <1>0, <1>1, <1>2, <1>3, <1>4, <1>10, <1>11

\* What is the same after each of two steps is the same after both.
LEMMA SameTwice ==
    ASSUME NEW b, NEW c, NEW d, NEW L, SameTo(b, c, L), SameTo(c, d, L)
    PROVE  SameTo(b, d, L)
  BY DEF SameTo

\* An array is begun.
LEMMA PushRepTyped ==
    ASSUME NEW bs, NEW st, NEW val, NEW clean, NEW L, NEW T, Held(bs, st, val, clean, L, T), Ordered(st),
           Under(bs, st, val, clean), NEW z, z = Len(st), st[z].kind = "msg", NEW f \in Repeated, NEW m, m = Len(bs),
           NEW o, o = NewArr(bs[m], 1, ElemSsize(f), ElemPsize(f)),
           NEW c, c = AllocArr(bs[m], 1, ElemSsize(f), ElemPsize(f)), NEW cs, Differs(bs, cs, m, c),
           NEW ds, ds = (IF NeedsBuf(f) THEN Append(cs, NewBuf(0)) ELSE cs),
           NEW t, t = Append(st, RepFrame(m, o, f)), NEW late, late
    PROVE  /\ \E U : Held(ds, t, late, clean, L, U)
           /\ Ordered(t) /\ SameTo(bs[1], ds[1], L)
<1>1. m \in Nat /\ Chain(st, m) /\ IsSequence(bs)
  BY DEF Under, Memory, IsSequence
<1>2. z \in Nat /\ z >= 1 /\ z \in 1 .. Len(st) /\ m >= 1 /\ m \in 1 .. Len(bs) /\ IsSequence(st)
  BY <1>1, ChainIs
<1>3. PICK b : b = bs[m]
  OBVIOUS
<1>4. GoodBuf(b, clean) /\ IsBuf(b) /\ b.len \in Nat /\ Sound(b, T[m], clean)
  BY <1>2, <1>3 DEF Under, Memory, GoodBuf, IsBuf, Held
<1>5. /\ Retyped(b, T[m], c, T[m], clean)
      /\ \E x \in Nat :
             /\ o.off = 4 * x + 8 /\ c.mem[x] = Header(ElemSsize(f), ElemPsize(f)) + ARR /\ 4 * x >= b.len
             /\ \A w \in T[m].fixed \cup T[m].ptrs \cup T[m].data : w < x
             /\ clean => \A q \in Pointers(o, 1) : c.mem[q \div 4] = 0
  BY <1>3, <1>4, NewArrTyped
<1>6. With(T, m, T[m]) = T
  <2>1. T = [k \in Nat |-> T[k]]
    BY DEF Held
  <2>2. With(T, m, T[m]) = [k \in Nat |-> T[k]]
    BY DEF With
  <2> QED
    BY <2>1, <2>2
<1>7. Held(cs, st, val, clean, L, T) /\ SameTo(bs[1], cs[1], L)
  <2>1. /\ Held(bs, st, val, clean, L, T) /\ Under(bs, st, val, clean) /\ m = Len(bs)
        /\ (st[Len(st)].kind = "rep" => NeedsBuf(st[Len(st)].f))
        /\ Retyped(bs[m], T[m], c, T[m], clean) /\ Differs(bs, cs, m, c) /\ T = With(T, m, T[m])
    BY <1>3, <1>5, <1>6
  <2> QED
    BY ONLY <2>1, GrowTyped
<1>8. Under(ds, t, late, clean)
  <2>1. /\ Under(bs, st, val, clean) /\ z = Len(st) /\ st[z].kind = "msg" /\ f \in Repeated /\ m = Len(bs)
        /\ o = NewArr(bs[m], 1, ElemSsize(f), ElemPsize(f))
        /\ c = AllocArr(bs[m], 1, ElemSsize(f), ElemPsize(f)) /\ Differs(bs, cs, m, c)
        /\ ds = (IF NeedsBuf(f) THEN Append(cs, NewBuf(0)) ELSE cs)
        /\ t = Append(st, RepFrame(m, o, f)) /\ late
    OBVIOUS
  <2> QED
    BY ONLY <2>1, PushRep
<1>9. IsSequence(cs) /\ Len(cs) = m /\ cs[m] = c
  BY DEF Differs
<1>10. PICK U : /\ Held(ds, st, val, clean, L, U) /\ SameTo(cs[1], ds[1], L)
                /\ U[m] = T[m] /\ ds[m] = c
  <2>1. CASE NeedsBuf(f)
    <3>1. ds = Append(cs, NewBuf(0)) /\ ds[m] = c /\ m \in 1 .. Len(ds)
      <4>1. Len(Append(cs, NewBuf(0))) = m + 1 /\ Append(cs, NewBuf(0))[m] = c
        BY <1>2, <1>9, AppendIs
      <4> QED
        BY <1>1, <1>2, <2>1, <4>1
    <3>2. GoodBuf(c, clean)
      BY <1>8, <3>1 DEF Under, Memory
    <3>3. Kept(bs[m], c, {})
      <4>1. PICK ss \in Nat, ps \in Nat : ss = ElemSsize(f) /\ ps = ElemPsize(f) /\ ss % 4 = 0
        BY ElemSizes
      <4>2. IsBuf(b) /\ o = NewArr(b, 1, ss, ps) /\ c = AllocArr(b, 1, ss, ps)
        BY <1>3, <1>4, <4>1
      <4>3. Kept(b, c, {})
        BY <4>1, <4>2, AllocArrIs
      <4> QED
        BY <1>3, <4>3
    <3>4. Under(cs, st, val, clean)
      <4>1. /\ Under(bs, st, val, clean) /\ m = Len(bs) /\ (st[Len(st)].kind = "rep" => NeedsBuf(st[Len(st)].f))
            /\ GoodBuf(c, clean) /\ Kept(bs[m], c, {}) /\ Differs(bs, cs, m, c)
        BY <3>2, <3>3
      <4> QED
        BY ONLY <4>1, GrowCur
    <3>5. PICK V : V = With(T, m + 1, NoKinds)
      OBVIOUS
    <3>6. WithBuf(cs, st, val, clean, L, T, m, ds, V)
      BY <1>7, <1>9, <3>1, <3>4, <3>5 DEF WithBuf
    <3>7. /\ Held(ds, st, val, clean, L, V) /\ SameTo(cs[1], ds[1], L)
          /\ V[m] = T[m] /\ \A k \in 1 .. m : ds[k] = cs[k]
      BY ONLY <3>6, NewBufTyped
    <3> QED
      BY <3>1, <3>7
  <2>2. CASE ~NeedsBuf(f)
    BY <1>7, <1>9, <2>2 DEF SameTo
  <2> QED
    BY <2>1, <2>2
<1>11. PICK fr : fr = RepFrame(m, o, f)
  OBVIOUS
<1>12. fr.kind = "rep" /\ fr.b = m /\ fr.first = o /\ fr.f = f /\ fr.items = <<>>
  BY <1>11 DEF RepFrame
<1>13. Len(t) = z + 1 /\ t[z + 1] = fr
  BY <1>2, <1>11, AppendIs
<1>14. Started(t, late, z + 1) = 1
  <2>1. Started(t, late, z + 1) = Len(t[z + 1].items) + 1
    BY ZenonT(60), StartedBelow
  <2>2. Len(t[z + 1].items) = 0
    BY <1>12, <1>13
  <2> QED
    BY ONLY <2>1, <2>2
<1>15. ArrTyped(ds, U, clean, fr, 1)
  <2>1. PICK x \in Nat :
             /\ o.off = 4 * x + 8 /\ c.mem[x] = Header(ElemSsize(f), ElemPsize(f)) + ARR
             /\ \A w \in T[m].fixed \cup T[m].ptrs \cup T[m].data : w < x
             /\ clean => \A q \in Pointers(o, 1) : c.mem[q \div 4] = 0
    BY <1>5
  <2> QED
    BY <1>10, <1>12, <2>1 DEF ArrTyped, Far
<1>16. fr.kind = "rep" /\ ArrTyped(ds, U, clean, fr, Started(t, late, z + 1))
  BY <1>12, <1>14, <1>15
<1>17. ASSUME st[z].b = fr.b PROVE st[z].o.off + 24 <= HdrOf(fr)
  <2>1. MsgIn(b, st[z].o)
    <3>1. FrameIn(bs, st[z], Started(st, val, z), clean)
      BY <1>2 DEF Under, Memory
    <3> QED
      BY <1>3, <1>12, <1>17, <3>1 DEF FrameIn
  <2>2. PICK off \in Nat : off = st[z].o.off /\ off + 24 <= b.len
    BY <2>1 DEF MsgIn
  <2>3. PICK x \in Nat : o.off = 4 * x + 8 /\ 4 * x >= b.len
    BY <1>5
  <2>4. HdrOf(fr) = o.off - 8
    BY <1>12 DEF HdrOf
  <2>5. PICK len \in Nat : len = b.len
    BY <1>4
  <2> QED
    BY ONLY <2>2, <2>3, <2>4, <2>5
<1>18. PushedTyped(ds, st, val, clean, L, U, fr, t, late)
  BY <1>2, <1>10, <1>11, <1>16, <1>17, Zenon DEF PushedTyped
<1>19. Held(ds, t, late, clean, L, U) /\ Ordered(t)
  BY ONLY <1>18, PushStep
<1> QED
  BY <1>7, <1>10, <1>19, SameTwice

\* Nothing but buffer i has other kinds.
LEMMA WithSame ==
    ASSUME NEW bs, NEW st, NEW val, NEW clean, NEW L, NEW T, Held(bs, st, val, clean, L, T), NEW i
    PROVE  With(T, i, T[i]) = T
<1>1. T = [k \in Nat |-> T[k]]
  BY DEF Held
<1>2. With(T, i, T[i]) = [k \in Nat |-> T[k]]
  BY DEF With
<1> QED
  BY <1>1, <1>2

\* Between two elements of the innermost array, at its end
MoreTo(bs, st, val, clean, L, T, g, c, cs) ==
    /\ ~val /\ Held(bs, st, val, clean, L, T) /\ Under(bs, st, val, clean)
    /\ g = st[Len(st)] /\ g.kind = "rep" /\ bs[g.b].len = g.it.off
    /\ c = Alloc(bs[g.b], ObjSize(g.it)) /\ Differs(bs, cs, g.b, c)

\* The array of the innermost frame takes one more element, whose pointers are null.
LEMMA MoreTyped ==
    ASSUME NEW bs, NEW st, NEW val, NEW clean, NEW L, NEW T, NEW g, NEW c, NEW cs,
           MoreTo(bs, st, val, clean, L, T, g, c, cs), NEW late, late
    PROVE  Held(cs, st, late, clean, L, T) /\ SameTo(bs[1], cs[1], L)
<1>0. PICK z : /\ ~val /\ Held(bs, st, val, clean, L, T) /\ Under(bs, st, val, clean) /\ z = Len(st)
               /\ g = st[z] /\ g.kind = "rep" /\ bs[g.b].len = g.it.off
               /\ c = Alloc(bs[g.b], ObjSize(g.it)) /\ Differs(bs, cs, g.b, c)
  BY Zenon DEF MoreTo
<1>1. PICK m \in Nat : m = Len(bs) /\ Chain(st, m)
  BY <1>0 DEF Under, Memory, IsSequence
<1>2. /\ z \in Nat /\ z >= 1 /\ z \in 1 .. z /\ g.b \in 1 .. m /\ IsFrame(g)
      /\ \A k \in 1 .. z : st[k].kind \in {"msg", "rep"}
  BY <1>0, <1>1, ChainIs
<1>3. PICK b, t, j : b = bs[g.b] /\ t = T[g.b] /\ j = Len(g.items)
  OBVIOUS
<1>4. j \in Nat /\ Started(st, val, z) = j /\ Started(st, late, z) = j + 1
  <2>1. j \in Nat
    BY <1>0, <1>2, <1>3 DEF IsFrame, IsRep, IsSequence
  <2>2. ~(z < Len(st)) /\ ~val
    BY <1>0, <1>2
  <2>3. Started(st, val, z) = Len(st[z].items) + 0
    BY ONLY <2>2, StartedTop
  <2>4. Started(st, late, z) = Len(st[z].items) + 1
    BY StartedBelow
  <2>5. j = Len(st[z].items) /\ j + 0 = j
    BY <1>0, <1>3, <2>1
  <2> QED
    BY <2>1, <2>3, <2>4, <2>5, Zenon
<1>5. /\ IsBuf(b) /\ b.len \in Nat /\ IsFirst(g.first) /\ g.first.off \in Nat
      /\ g.first.off + j * ObjSize(g.first) <= b.len
  <2>1. GoodBuf(bs[g.b], clean) /\ FrameIn(bs, g, Started(st, val, z), clean)
    BY <1>0, <1>1, <1>2 DEF Under, Memory
  <2>2. IsBuf(b) /\ ArrIn(b, g, j)
    BY <1>0, <1>3, <1>4, <2>1 DEF GoodBuf, FrameIn
  <2> QED
    BY <2>2, ArrInIs
<1>6. /\ Kept(b, c, {})
      /\ clean => \A k \in 0 .. g.first.psize - 1 : c.mem[(g.first.off + j * ObjSize(g.first) + 4 * k) \div 4] = 0
  <2>1. /\ ~val /\ Under(bs, st, val, clean) /\ z = Len(st) /\ g = st[z] /\ g.kind = "rep"
        /\ bs[g.b].len = g.it.off /\ c = Alloc(bs[g.b], ObjSize(g.it)) /\ Differs(bs, cs, g.b, c)
    BY <1>0
  <2>2. /\ Under(cs, st, TRUE, clean) /\ Kept(bs[g.b], c, {})
        /\ clean => ElementNull(c, g)
    BY ONLY <2>1, MoreStep
  <2> QED
    BY <1>3, <2>2 DEF ElementNull
<1>7. PICK x \in Nat :
        /\ g.first.off = 4 * x + 8 /\ b.mem[x] = Header(ElemSsize(g.f), ElemPsize(g.f)) + ARR
        /\ \A w \in t.fixed \cup t.ptrs \cup t.data : w < x
        /\ clean /\ NeedsBuf(g.f) =>
               \A q \in Pointers(g.first, j) : Far(b.mem[q \div 4], bs[g.b + 1], T[g.b + 1])
  <2>1. FrameTyped(bs, T, clean, g, OnArray(st, z), Started(st, val, z))
    BY <1>0, <1>2 DEF Held
  <2> QED
    BY <1>0, <1>3, <1>4, <2>1 DEF FrameTyped, ArrTyped
<1>8. Retyped(b, t, c, t, clean)
  <2>1. Sound(b, t, clean)
    BY <1>0, <1>1, <1>2, <1>3 DEF Held
  <2>2. /\ \A w \in {} : w \notin t.fixed
        /\ clean => \A w \in {} : w \in t.ptrs => Near(c, t, w)
    OBVIOUS
  <2> QED
    BY <1>6, <2>1, <2>2, RetypeSame
<1>9. cs[g.b] = c /\ \A i \in 1 .. m : i # g.b => cs[i] = bs[i]
  BY <1>0, <1>1 DEF Differs
<1>10. j * ObjSize(g.first) \in Nat
  <2>1. PICK s \in Nat : s = ObjSize(g.first)
    BY <1>5 DEF IsFirst, ObjSize
  <2> QED
    BY <1>4, <2>1
<1>11. c.mem[x] = b.mem[x]
  <2>1. 4 * x < b.len /\ x \in Nat \ {}
    BY <1>5, <1>7, <1>10
  <2> QED
    BY <1>6, <2>1 DEF Kept
<1>12. ASSUME clean, NeedsBuf(g.f), NEW q \in Pointers(g.first, j + 1)
       PROVE  Far(c.mem[q \div 4], cs[g.b + 1], T[g.b + 1])
  <2>1. cs[g.b + 1] = bs[g.b + 1]
    <3>1. g.b + 1 \in 1 .. Len(bs) /\ g.b + 1 # g.b
      BY <1>0, <1>2, <1>12, NextBuf
    <3> QED
      BY <1>1, <1>9, <3>1
  <2>2. \/ q \in Pointers(g.first, j)
        \/ \E i \in 0 .. g.first.psize - 1 : q = g.first.off + j * ObjSize(g.first) + 4 * i
    BY <1>4, <1>12, PointersMore
  <2>3. CASE q \in Pointers(g.first, j)
    <3>1. q \in Nat /\ q = 4 * (q \div 4) /\ q + 4 <= g.first.off + j * ObjSize(g.first)
      BY <1>4, <1>5, <2>3, PointersWithin
    <3>2. q \div 4 \in Nat \ {} /\ 4 * (q \div 4) < b.len
      BY <1>5, <1>10, <3>1
    <3>3. c.mem[q \div 4] = b.mem[q \div 4]
      BY <1>6, <3>2 DEF Kept
    <3> QED
      BY <1>7, <1>12, <2>1, <2>3, <3>3
  <2>4. CASE \E i \in 0 .. g.first.psize - 1 : q = g.first.off + j * ObjSize(g.first) + 4 * i
    <3>1. c.mem[q \div 4] = 0
      BY <1>6, <1>12, <2>4
    <3> QED
      BY <3>1 DEF Far
  <2> QED
    BY <2>2, <2>3, <2>4
<1>13. ArrTyped(cs, T, clean, g, j + 1)
  BY <1>3, <1>7, <1>9, <1>11, <1>12 DEF ArrTyped
<1>14. ArrsTyped(cs, st, late, clean, T, g.b)
  <2> SUFFICES ASSUME NEW k \in 1 .. Len(st), st[k].kind = "rep", st[k].b = g.b
               PROVE  ArrTyped(cs, T, clean, st[k], Started(st, late, k))
    BY DEF ArrsTyped
  <2>1. k = z
    BY <1>0, <1>1, OnTop
  <2> QED
    BY <1>0, <1>4, <1>13, <2>1
<1>15. Changes(bs, st, val, g.b, c, cs, late)
  BY <1>0, <1>1, <1>2 DEF Changes
<1>16. With(T, g.b, T[g.b]) = T
  BY <1>0, WithSame
<1>17. /\ Held(bs, st, val, clean, L, T) /\ Changes(bs, st, val, g.b, c, cs, late)
       /\ Retyped(bs[g.b], T[g.b], c, t, clean) /\ T = With(T, g.b, t)
       /\ ArrsTyped(cs, st, late, clean, T, g.b)
  BY <1>0, <1>3, <1>8, <1>14, <1>15, <1>16
<1> QED
  BY ONLY <1>17, HeldStep

-----------------------------------------------------------------------------
(* The end of an array *)

\* A complete array of j elements for field f is the last thing in b, which has
\* p words; its header is at word x, behind all that is of a kind.
Ends(b, t, clean, o, j, x, p, f) ==
    /\ IsBuf(b) /\ Sound(b, t, clean) /\ IsArr(b, o) /\ f \in Repeated
    /\ j \in Nat /\ x \in Nat /\ p \in Nat /\ b.len = 4 * p
    /\ o.off = 4 * x + 8 /\ o.off + j * ObjSize(o) = b.len
    /\ o.ssize = ElemSsize(f) /\ o.psize = ElemPsize(f) /\ b.mem[x] = Header(ElemSsize(f), ElemPsize(f)) + ARR
    /\ \A w \in t.fixed \cup t.ptrs \cup t.data : w < x

\* The kinds of t, of the array, and, p words further on, those of v
ArrKinds(t, x, o, j, v, p) ==
    [fixed |-> t.fixed \cup {x, x + 1} \cup {w + p : w \in v.fixed},
     ptrs |-> t.ptrs \cup {q \div 4 : q \in Pointers(o, j)} \cup {w + p : w \in v.ptrs},
     data |-> t.data]

\* The pointers of its elements lie from word x + 2 on, below word p.
PointersIn(o, j, x, p) ==
    \A q \in Pointers(o, j) : q \in Nat /\ q = 4 * (q \div 4) /\ q \div 4 >= x + 2 /\ q \div 4 < p

\* The array has got its length.
LEMMA LengthSet ==
    ASSUME NEW b, NEW t, NEW clean, NEW o, NEW j, NEW x, NEW p, NEW f, Ends(b, t, clean, o, j, x, p, f),
           NEW r, r = ResizeArr(b, o, j)
    PROVE  /\ IsBuf(r) /\ Kept(b, r, {x + 1}) /\ r.len = b.len /\ r.mem[x + 1] = j /\ r.mem[x] = b.mem[x]
           /\ IsFirst(o) /\ x + 2 <= p /\ PointersIn(o, j, x, p)
<1>1. PICK ss \in Nat, ps \in Nat : ss = ElemSsize(f) /\ ps = ElemPsize(f) /\ ss < SN /\ ps < PN
  BY ElemSizes DEF Ends
<1>2. /\ IsBuf(b) /\ IsArr(b, o) /\ IsFirst(o) /\ j \in Nat /\ x \in Nat /\ p \in Nat /\ b.len = 4 * p /\ o.off = 4 * x + 8
      /\ o.off + j * ObjSize(o) = b.len /\ b.mem[x] = Header(ss, ps) + ARR
  BY <1>1 DEF Ends, IsArr
<1>3. Kept(b, r, {x + 1}) /\ r.len = b.len /\ r.mem[x + 1] = j
  <2>1. IsBuf(b) /\ IsArr(b, o) /\ ArrHeader(b, o, x, ss, ps) /\ r = ResizeArr(b, o, j)
    BY <1>1, <1>2 DEF ArrHeader
  <2> QED
    BY ONLY <2>1, ResizeArrStores
<1>4. PICK s \in Nat : s = ObjSize(o) /\ j * s \in Nat
  <2>1. PICK s \in Nat : s = ObjSize(o)
    BY <1>2 DEF IsFirst, ObjSize
  <2> QED
    BY <1>2, <2>1
<1>5. x + 2 <= p
  BY <1>2, <1>4
<1>6. r.mem[x] = b.mem[x]
  <2>1. x \in Nat \ {x + 1} /\ 4 * x < b.len
    BY <1>2, <1>5
  <2> QED
    BY <1>3, <2>1 DEF Kept
<1>7. ASSUME NEW q \in Pointers(o, j)
      PROVE  q \in Nat /\ q = 4 * (q \div 4) /\ q \div 4 >= x + 2 /\ q \div 4 < p
  <2>1. q \in Nat /\ q = 4 * (q \div 4) /\ q >= o.off /\ q + 4 <= o.off + j * ObjSize(o)
    BY <1>2, PointersWithin
  <2>2. PICK y : y = q \div 4
    OBVIOUS
  <2>3. y \in Nat /\ 4 * y >= 4 * x + 8 /\ 4 * y + 4 <= 4 * p
    BY <1>2, <2>1, <2>2
  <2>4. y >= x + 2 /\ y < p
    BY ONLY <1>2, <2>3
  <2> QED
    BY <2>1, <2>2, <2>4
<1> QED
  BY <1>2, <1>3, <1>5, <1>6, <1>7 DEF Kept, PointersIn

\* It can be pointed to.
LEMMA ArrLeads ==
    ASSUME NEW b, NEW t, NEW clean, NEW o, NEW j, NEW x, NEW p, NEW f, Ends(b, t, clean, o, j, x, p, f),
           NEW c, c.len \in Nat, b.len <= c.len, c.mem[x] = b.mem[x], c.mem[x + 1] = j,
           NEW v, NEW d, NEW u, u = ArrKinds(t, x, o, j, v, d)
    PROVE  Leads(c, u, x)
<1>1. PICK ss \in Nat, ps \in Nat : /\ ss = ElemSsize(f) /\ ps = ElemPsize(f) /\ ss < SN /\ ps < PN
                                    /\ 4 * ps + ss >= 4
  BY ElemSizes DEF Ends
<1>2. /\ IsFirst(o) /\ j \in Nat /\ x \in Nat /\ b.len \in Nat /\ o.off = 4 * x + 8
      /\ o.off + j * ObjSize(o) = b.len /\ b.mem[x] = Header(ss, ps) + ARR
      /\ o.ssize = ss /\ o.psize = ps
  BY <1>1 DEF Ends, IsArr, IsBuf
<1>3. PICK s \in Nat : s = 4 * ps + ss /\ ObjSize(o) = s /\ j * s \in Nat
  BY <1>1, <1>2 DEF ObjSize
<1>4. PICK h \in Nat : h = 4 * x /\ h \div 4 = x /\ (h + 4) \div 4 = x + 1
  BY <1>2
<1>5. GetObj(c, h) = Object(j, h + 8, ss, ps)
  <2>1. h + 8 + j * s <= c.len /\ h + 8 <= c.len
    BY <1>2, <1>3, <1>4
  <2>2. c.mem[h \div 4] = Header(ss, ps) + ARR /\ c.mem[(h + 4) \div 4] = j
    BY <1>2, <1>4
  <2> QED
    BY <1>1, <1>2, <1>3, <2>1, <2>2, GetArrIs
<1>6. PICK g : g = GetObj(c, 4 * x) /\ g = Object(j, 4 * x + 8, ss, ps)
  BY <1>4, <1>5
<1>7. g \in Objects /\ g # Null /\ ObjSize(g) >= 1 /\ g.off = o.off /\ g.n = j /\ g.psize = o.psize
      /\ ObjSize(g) = ObjSize(o)
  <2>1. g.off = 4 * x + 8 /\ g.n = j /\ g.psize = ps /\ g.ssize = ss
    BY <1>6 DEF Object
  <2>2. g \in Objects
    BY <1>2, <1>6 DEF Object, Objects
  <2>3. g # Null
    BY <1>2, <2>1 DEF Null, Object
  <2> QED
    BY <1>1, <1>2, <1>3, <2>1, <2>2, <2>3 DEF ObjSize
<1>8. \A q \in Pointers(g, g.n) : \E w \in u.ptrs : q = 4 * w
  <2>1. Pointers(g, g.n) = Pointers(o, j)
    BY <1>7 DEF Pointers
  <2>2. \A q \in Pointers(o, j) : q = 4 * (q \div 4)
    BY <1>2, PointersWithin
  <2>3. \A q \in Pointers(o, j) : q \div 4 \in u.ptrs
    BY DEF ArrKinds
  <2> QED
    BY <2>1, <2>2, <2>3
<1>9. x \in u.fixed /\ x + 1 \in u.fixed
  BY DEF ArrKinds
<1> QED
  BY <1>2, <1>6, <1>7, <1>8, <1>9 DEF Leads

\* Its header is found.
LEMMA HdrBack ==
    ASSUME NEW b, NEW t, NEW clean, NEW o, NEW j, NEW x, NEW p, NEW f, Ends(b, t, clean, o, j, x, p, f),
           NEW c, c.mem[x + 1] = j, b.len < M
    PROVE  HdrOffset(c, o) = 4 * x
<1>1. PICK ss \in Nat, ps \in Nat : ss = ElemSsize(f) /\ ps = ElemPsize(f) /\ 4 * ps + ss >= 4
  BY ElemSizes DEF Ends
<1>2. /\ j \in Nat /\ x \in Nat /\ b.len \in Nat /\ o.off = 4 * x + 8
      /\ o.off + j * ObjSize(o) = b.len /\ o.ssize = ss /\ o.psize = ps
  BY <1>1 DEF Ends, IsBuf
<1>3. PICK e \in Nat : ObjSize(o) = 4 + e
  <2>1. 4 * ps + ss - 4 \in Nat /\ ObjSize(o) = 4 + (4 * ps + ss - 4)
    BY <1>1, <1>2 DEF ObjSize
  <2> QED
    BY <2>1
<1>4. j * e \in Nat /\ j * (4 + e) = 4 * j + j * e
  <2>1. j \in Nat
    BY <1>2
  <2> QED
    BY ONLY <2>1, e \in Nat
<1>5. PICK k \in Nat : k = HDR /\ M = 2 * k /\ k >= 16
  BY MIsNat DEF HDR, M
<1>6. j < k
  <2>1. PICK y \in Nat : y = j * e
    BY <1>4
  <2>2. PICK len \in Nat : len = b.len /\ len < 2 * k
    BY <1>2, <1>5
  <2>3. 4 * x + 8 + (4 * j + y) = len
    BY <1>2, <1>3, <1>4, <2>1, <2>2
  <2>4. j \in Nat
    BY <1>2
  <2> QED
    BY ONLY <1>2, <2>2, <2>3, <2>4, y \in Nat, len \in Nat, k \in Nat
<1>7. ~Has(j, HDR)
  <2>1. j \div k = 0
    <3>1. (0 * k + j) \div k = 0 /\ 0 * k + j = j
      BY <1>2, <1>5, <1>6, QuotientIs
    <3> QED
      BY <3>1
  <2> QED
    BY <1>5, <2>1 DEF Has
<1>8. WordAt(c, o.off - 4) = j
  <2>1. (4 * x + 8 - 4) \div 4 = x + 1
    BY <1>2
  <2> QED
    BY <1>2, <2>1 DEF WordAt
<1> QED
  BY <1>2, <1>7, <1>8 DEF HdrOffset

\* An array without pointers is finished.
LEMMA ShortArr ==
    ASSUME NEW b, NEW t, NEW clean, NEW o, NEW j, NEW x, NEW p, NEW f, Ends(b, t, clean, o, j, x, p, f),
           ~(o.psize > 0), NEW c, c = ResizeArr(b, o, j), NEW u, u = ArrKinds(t, x, o, j, NoKinds, 0)
    PROVE  Retyped(b, t, c, u, clean) /\ Leads(c, u, x) /\ c.mem[x + 1] = j
<1>1. /\ IsBuf(c) /\ Kept(b, c, {x + 1}) /\ c.len = b.len /\ c.mem[x + 1] = j /\ c.mem[x] = b.mem[x]
      /\ IsFirst(o) /\ x + 2 <= p
  <2>1. Ends(b, t, clean, o, j, x, p, f) /\ c = ResizeArr(b, o, j)
    OBVIOUS
  <2>2. /\ IsBuf(c) /\ Kept(b, c, {x + 1}) /\ c.len = b.len /\ c.mem[x + 1] = j /\ c.mem[x] = b.mem[x]
        /\ IsFirst(o) /\ x + 2 <= p /\ PointersIn(o, j, x, p)
    BY ONLY <2>1, LengthSet
  <2> QED
    BY <2>2
<1>2. /\ x \in Nat /\ p \in Nat /\ b.len = 4 * p /\ b.len \in Nat /\ Sound(b, t, clean)
      /\ \A w \in t.fixed \cup t.ptrs \cup t.data : w < x
  BY DEF Ends, IsBuf
<1>3. u.fixed = t.fixed \cup {x, x + 1} /\ u.ptrs = t.ptrs /\ u.data = t.data
  <2>1. Pointers(o, j) = {}
    <3>1. o.psize = 0
      BY <1>1 DEF IsFirst
    <3> QED
      BY <3>1 DEF Pointers
  <2> QED
    BY <2>1 DEF ArrKinds, NoKinds
<1>4. Kinds(c, u)
  <2>1. \A w \in t.fixed \cup t.ptrs \cup t.data : w \in Nat /\ w < x /\ 4 * w < c.len
    BY <1>1, <1>2 DEF Sound, Kinds
  <2>2. 4 * x < c.len /\ 4 * (x + 1) < c.len /\ c.len \in Nat
    BY <1>1, <1>2
  <2>3. x \notin t.ptrs /\ x \notin t.data /\ x + 1 \notin t.ptrs /\ x + 1 \notin t.data
    BY <1>2, <2>1
  <2>4. /\ \A w \in t.fixed : w \notin t.ptrs /\ w \notin t.data
        /\ \A w \in t.ptrs : w \notin t.data
    BY <1>2 DEF Sound, Kinds
  <2> QED
    BY <1>2, <1>3, <2>1, <2>2, <2>3, <2>4 DEF Kinds
<1>5. Retyped(b, t, c, u, clean)
  <2>1. /\ Sound(b, t, clean) /\ Kept(b, c, {x + 1}) /\ \A w \in {x + 1} : w \notin t.fixed
        /\ t.fixed \subseteq u.fixed /\ t.ptrs \subseteq u.ptrs /\ t.data \subseteq u.data /\ Kinds(c, u)
        /\ clean => \A w \in u.ptrs : (w \in t.ptrs /\ w \notin {x + 1}) \/ Near(c, u, w)
    BY <1>1, <1>2, <1>3, <1>4
  <2> QED
    BY ONLY <2>1, Retype
<1>6. Leads(c, u, x)
  <2>1. b.len <= c.len /\ c.len \in Nat
    BY <1>1, <1>2
  <2>2. /\ Ends(b, t, clean, o, j, x, p, f) /\ c.len \in Nat /\ b.len <= c.len /\ c.mem[x] = b.mem[x]
        /\ c.mem[x + 1] = j /\ u = ArrKinds(t, x, o, j, NoKinds, 0)
    BY <1>1, <2>1, Zenon
  <2> QED
    BY ONLY <2>2, ArrLeads
<1> QED
  BY <1>1, <1>5, <1>6

\* The array is finished, and buffer n, which its pointers are positions in, is appended.
Appended(b, t, clean, o, j, x, p, f, nbuf, v, c) ==
    /\ Ends(b, t, clean, o, j, x, p, f) /\ IsBuf(nbuf) /\ Sound(nbuf, v, clean)
    /\ clean => \A q \in Pointers(o, j) : Far(b.mem[q \div 4], nbuf, v)
    /\ c = FixArr(ResizeArr(b, o, j), o, j, nbuf)

\* Each pointer is null or a distance.
Distances(b, c, o, j, p) ==
    \A q \in Pointers(o, j) :
        c.mem[q \div 4] = IF b.mem[q \div 4] # 0 THEN (M - 1 - b.mem[q \div 4] + p - q \div 4) % M ELSE 0

\* What nbuf_fix_arr does to the pointers of an array and to the buffer appended
LEMMA AppendedIs ==
    ASSUME NEW b, NEW t, NEW clean, NEW o, NEW j, NEW x, NEW p, NEW f, NEW nbuf, NEW v, NEW c,
           Appended(b, t, clean, o, j, x, p, f, nbuf, v, c)
    PROVE  /\ IsBuf(c) /\ c.len = b.len + nbuf.len /\ Kept(b, c, {x + 1} \cup {q \div 4 : q \in Pointers(o, j)})
           /\ c.mem[x] = b.mem[x] /\ c.mem[x + 1] = j /\ x + 2 <= p /\ PointersIn(o, j, x, p)
           /\ FoundAt(nbuf, c, p) /\ Distances(b, c, o, j, p)
<1>1. /\ Ends(b, t, clean, o, j, x, p, f) /\ IsBuf(nbuf) /\ x \in Nat /\ p \in Nat /\ b.len = 4 * p /\ IsBuf(b)
      /\ nbuf.len \in Nat /\ j \in Nat
  BY DEF Appended, Ends, IsBuf
<1>2. PICK r : r = ResizeArr(b, o, j)
  OBVIOUS
<1>3. /\ IsBuf(r) /\ Kept(b, r, {x + 1}) /\ r.len = b.len /\ r.mem[x + 1] = j /\ r.mem[x] = b.mem[x]
      /\ IsFirst(o) /\ x + 2 <= p /\ PointersIn(o, j, x, p)
  <2>1. Ends(b, t, clean, o, j, x, p, f) /\ r = ResizeArr(b, o, j)
    BY <1>1, <1>2
  <2> QED
    BY ONLY <2>1, LengthSet
<1>4. PICK P : P = {q \div 4 : q \in Pointers(o, j)}
  OBVIOUS
<1>5. c = FixArr(r, o, j, nbuf)
  BY <1>2 DEF Appended
<1>6. /\ Kept(r, c, P) /\ c.len = IF nbuf.len > 0 THEN Start(r) + nbuf.len ELSE r.len
      /\ FoundAt(nbuf, c, Start(r) \div 4) /\ PointersFixed(r, o, j, c)
  BY <1>1, <1>3, <1>4, <1>5, FixArrIs
<1>8. Start(r) = b.len /\ Start(r) \div 4 = p
  <2>1. (4 * p) % 4 = 0 /\ (4 * p) \div 4 = p
    BY <1>1
  <2>2. Start(r) = r.len
    BY <1>1, <1>3, <2>1, StartIs
  <2> QED
    BY <1>1, <1>3, <2>1, <2>2
<1>9. c.len = b.len + nbuf.len
  <2>1. PICK l \in Nat, k \in Nat : l = b.len /\ k = nbuf.len
    BY <1>1
  <2>2. c.len = IF k > 0 THEN l + k ELSE l
    BY <1>3, <1>6, <1>8, <2>1
  <2> QED
    BY ONLY <2>1, <2>2
<1>10. Kept(b, c, {x + 1} \cup P)
  BY <1>1, <1>3, <1>6, KeptTwice
<1>11. x \notin P /\ x + 1 \notin P
  <2> SUFFICES ASSUME NEW q \in Pointers(o, j), q \div 4 < x + 2 PROVE FALSE
    BY <1>1, <1>4
  <2>1. q \div 4 >= x + 2 /\ q \in Nat
    BY <1>3 DEF PointersIn
  <2> QED
    BY <1>1, <2>1
<1>12. c.mem[x] = b.mem[x] /\ c.mem[x + 1] = j
  <2>1. x \in Nat \ P /\ x + 1 \in Nat \ P /\ 4 * x < r.len /\ 4 * (x + 1) < r.len
    BY <1>1, <1>3, <1>11
  <2>2. c.mem[x] = r.mem[x] /\ c.mem[x + 1] = r.mem[x + 1]
    BY <1>6, <2>1 DEF Kept
  <2> QED
    BY <1>3, <2>2
<1>13. FoundAt(nbuf, c, p)
  BY <1>6, <1>8
<1>14. ASSUME NEW q \in Pointers(o, j)
       PROVE  c.mem[q \div 4] = IF b.mem[q \div 4] # 0 THEN (M - 1 - b.mem[q \div 4] + p - q \div 4) % M ELSE 0
  <2>1. q \in Nat /\ q = 4 * (q \div 4) /\ q \div 4 >= x + 2 /\ q \div 4 < p
    BY <1>3 DEF PointersIn
  <2>2. PICK w \in Nat : w = q \div 4 /\ q = 4 * w /\ w >= x + 2 /\ w < p
    BY <2>1
  <2>3. r.mem[w] = b.mem[w]
    <3>1. w \in Nat \ {x + 1} /\ 4 * w < b.len
      BY <1>1, <2>2
    <3> QED
      BY <1>3, <3>1 DEF Kept
  <2>4. c.mem[w] = IF r.mem[w] # 0 THEN FixedPtr(r, 4 * w) ELSE r.mem[w]
    <3>1. 4 * w < r.len /\ 4 * w \in Pointers(o, j)
      BY <1>1, <1>3, <2>2
    <3> QED
      BY <1>6, <3>1 DEF PointersFixed
  <2>5. FixedPtr(r, 4 * w) = (M - 1 - b.mem[w] + p - w) % M
    <3>1. (4 * w) \div 4 = w
      OBVIOUS
    <3> QED
      BY <1>8, <2>3, <3>1 DEF FixedPtr, WordAt
  <2> QED
    BY <2>2, <2>3, <2>4, <2>5
<1>15. Distances(b, c, o, j, p)
  BY <1>14 DEF Distances
<1> QED
  BY <1>3, <1>4, <1>6, <1>9, <1>10, <1>12, <1>13, <1>15 DEF Kept

\* An array whose elements have pointers is finished.
LEMMA LongArr ==
    ASSUME NEW b, NEW t, NEW clean, NEW o, NEW j, NEW x, NEW p, NEW f, NEW nbuf, NEW v, NEW c,
           Appended(b, t, clean, o, j, x, p, f, nbuf, v, c), c.len < M,
           NEW u, u = ArrKinds(t, x, o, j, v, p)
    PROVE  Retyped(b, t, c, u, clean) /\ Leads(c, u, x) /\ c.mem[x + 1] = j
<1>1. /\ IsBuf(c) /\ c.len = b.len + nbuf.len /\ Kept(b, c, {x + 1} \cup {q \div 4 : q \in Pointers(o, j)})
      /\ c.mem[x] = b.mem[x] /\ c.mem[x + 1] = j /\ x + 2 <= p /\ PointersIn(o, j, x, p)
      /\ FoundAt(nbuf, c, p) /\ Distances(b, c, o, j, p)
  BY AppendedIs
<1>2. /\ Ends(b, t, clean, o, j, x, p, f) /\ x \in Nat /\ p \in Nat /\ b.len = 4 * p /\ b.len \in Nat
      /\ nbuf.len \in Nat /\ c.len \in Nat /\ Sound(b, t, clean) /\ Sound(nbuf, v, clean)
      /\ \A w \in t.fixed \cup t.ptrs \cup t.data : w < x
  BY <1>1 DEF Appended, Ends, IsBuf
<1>3. PICK P, Fv, Pv : /\ P = {q \div 4 : q \in Pointers(o, j)}
                       /\ Fv = {w + p : w \in v.fixed} /\ Pv = {w + p : w \in v.ptrs}
  OBVIOUS
<1>4. /\ u.fixed = t.fixed \cup {x, x + 1} \cup Fv /\ u.ptrs = t.ptrs \cup P \cup Pv /\ u.data = t.data
  BY <1>3 DEF ArrKinds
<1>5. \A w \in P : w \in Nat /\ w >= x + 2 /\ w < p
  BY <1>1, <1>3 DEF PointersIn
<1>6. ASSUME NEW w \in v.fixed \cup v.ptrs PROVE w \in Nat /\ 4 * w < nbuf.len
  BY <1>2 DEF Sound, Kinds
<1>7. \A w \in Fv \cup Pv : w \in Nat /\ w >= p /\ 4 * w < c.len
  <2> SUFFICES ASSUME NEW y \in v.fixed \cup v.ptrs PROVE y + p \in Nat /\ y + p >= p /\ 4 * (y + p) < c.len
    BY <1>3
  <2> QED
    BY <1>1, <1>2, <1>6
<1>8. \A w \in t.fixed \cup t.ptrs \cup t.data : w \in Nat /\ w < x /\ 4 * w < c.len
  BY <1>1, <1>2 DEF Sound, Kinds
<1>9. Fv \cap Pv = {}
  <2> SUFFICES ASSUME NEW y \in v.fixed, NEW w \in v.ptrs, y + p = w + p PROVE FALSE
    BY <1>3
  <2>1. y \in Nat /\ w \in Nat
    BY <1>6
  <2>2. y = w
    BY <1>2, <2>1
  <2> QED
    BY <1>2, <2>2 DEF Sound, Kinds
<1>10. Kinds(c, u)
  <2>1. \A w \in u.fixed : w \in Nat /\ 4 * w < c.len
    BY <1>1, <1>2, <1>4, <1>7, <1>8
  <2>2. \A w \in u.ptrs : w \in Nat /\ 4 * w < c.len
    BY <1>1, <1>2, <1>4, <1>5, <1>7, <1>8
  <2>3. \A w \in u.data : w \in Nat /\ 4 * w < c.len
    BY <1>4, <1>8
  <2>4. \A w \in t.fixed : w \notin t.ptrs /\ w \notin t.data
    BY <1>2 DEF Sound, Kinds
  <2>5. \A w \in t.ptrs : w \notin t.data
    BY <1>2 DEF Sound, Kinds
  <2>6. \A w \in u.fixed : w \notin u.ptrs
    <3>1. \A w \in t.fixed : w \notin P /\ w \notin Pv
      BY <1>1, <1>2, <1>5, <1>7, <1>8
    <3>2. \A w \in {x, x + 1} : w \notin P /\ w \notin Pv /\ w \notin t.ptrs
      BY <1>1, <1>2, <1>5, <1>7, <1>8
    <3>3. \A w \in Fv : w \notin P /\ w \notin Pv /\ w \notin t.ptrs
      BY <1>1, <1>2, <1>5, <1>7, <1>8, <1>9
    <3> QED
      BY <1>4, <2>4, <3>1, <3>2, <3>3
  <2>7. \A w \in u.fixed : w \notin u.data
    <3>1. \A w \in {x, x + 1} \cup Fv : w \notin t.data
      BY <1>1, <1>2, <1>7, <1>8
    <3> QED
      BY <1>4, <2>4, <3>1
  <2>8. \A w \in u.ptrs : w \notin u.data
    <3>1. \A w \in P \cup Pv : w \notin t.data
      BY <1>1, <1>2, <1>5, <1>7, <1>8
    <3> QED
      BY <1>4, <2>5, <3>1
  <2> QED
    BY <1>2, <2>1, <2>2, <2>3, <2>6, <2>7, <2>8 DEF Kinds
<1>11. Carries(nbuf, v, c, u, p)
  <2>1. nbuf.len + 4 * p <= c.len
    BY <1>1, <1>2
  <2>2. \A w \in v.fixed : w \in Nat /\ w + p \in u.fixed /\ c.mem[w + p] = nbuf.mem[w]
    BY <1>1, <1>3, <1>4, <1>6 DEF FoundAt
  <2>3. \A w \in v.ptrs : w \in Nat /\ w + p \in u.ptrs
    BY <1>3, <1>4, <1>6
  <2> QED
    BY <1>2, <2>1, <2>2, <2>3 DEF Carries
<1>12. ASSUME clean, NEW w \in P PROVE Near(c, u, w)
  <2>1. PICK q \in Pointers(o, j) : w = q \div 4
    BY <1>3, <1>12
  <2>2. w \in Nat /\ w < p /\ Far(b.mem[w], nbuf, v)
    BY <1>5, <1>12, <2>1 DEF Appended
  <2>3. c.mem[w] = IF b.mem[w] # 0 THEN (M - 1 - b.mem[w] + p - w) % M ELSE 0
    BY <1>1, <2>1 DEF Distances
  <2>4. CASE b.mem[w] = 0
    BY <2>3, <2>4 DEF Near
  <2>5. CASE b.mem[w] # 0
    <3>1. PICK y \in Nat : b.mem[w] = M - 1 - y /\ Leads(nbuf, v, y)
      BY <2>2, <2>5 DEF Far
    <3>2. Leads(c, u, y + p) /\ 4 * y + 4 <= nbuf.len
      BY <1>11, <3>1, LeadsMoved
    <3>3. PICK d \in Nat : d = y + p - w
      BY <1>2, <2>2
    <3>4. M \in Nat /\ M > 0 /\ d < M
      BY <1>1, <1>2, <2>2, <3>2, <3>3, MIsNat
    <3>5. M - 1 - b.mem[w] + p - w = d
      BY <1>2, <2>2, <3>1, <3>3, <3>4
    <3>6. c.mem[w] = d
      BY <2>3, <2>5, <3>4, <3>5, SmallRemainder
    <3>7. w + d = y + p
      BY <1>2, <2>2, <3>3
    <3> QED
      BY <3>2, <3>6, <3>7 DEF Near
  <2> QED
    BY <2>4, <2>5
<1>13. ASSUME clean, NEW w \in Pv PROVE Near(c, u, w)
  <2>1. PICK y \in v.ptrs : w = y + p
    BY <1>3, <1>13
  <2>2. y \in Nat /\ 4 * y < nbuf.len /\ Near(nbuf, v, y)
    BY <1>2, <1>6, <1>13 DEF Sound
  <2>3. c.mem[y + p] = nbuf.mem[y]
    BY <1>1, <2>2 DEF FoundAt
  <2> QED
    BY <1>11, <2>1, <2>2, <2>3, NearMoved
<1>14. Retyped(b, t, c, u, clean)
  <2>1. PICK S : S = {x + 1} \cup P
    OBVIOUS
  <2>2. \A w \in S : w \notin t.fixed /\ w \notin t.ptrs
    BY <1>1, <1>2, <1>5, <1>8, <2>1
  <2>3. clean => \A w \in u.ptrs : (w \in t.ptrs /\ w \notin S) \/ Near(c, u, w)
    BY <1>4, <1>12, <1>13, <2>2
  <2>4. /\ Sound(b, t, clean) /\ Kept(b, c, S) /\ \A w \in S : w \notin t.fixed
        /\ t.fixed \subseteq u.fixed /\ t.ptrs \subseteq u.ptrs /\ t.data \subseteq u.data /\ Kinds(c, u)
        /\ clean => \A w \in u.ptrs : (w \in t.ptrs /\ w \notin S) \/ Near(c, u, w)
    BY <1>1, <1>2, <1>3, <1>4, <1>10, <2>1, <2>2, <2>3
  <2> QED
    BY ONLY <2>4, Retype
<1>15. Leads(c, u, x)
  <2>1. /\ Ends(b, t, clean, o, j, x, p, f) /\ c.len \in Nat /\ b.len <= c.len /\ c.mem[x] = b.mem[x]
        /\ c.mem[x + 1] = j /\ u = ArrKinds(t, x, o, j, v, p)
    BY <1>1, <1>2
  <2> QED
    BY ONLY <2>1, ArrLeads
<1> QED
  BY <1>1, <1>14, <1>15

\* What is known of the innermost array when it is finished: its pointers are
\* positions in the last buffer.
Ending(bs, st, val, clean, L, T, z, g) ==
    /\ OnArr(bs, st, val, clean, z, g) /\ Held(bs, st, val, clean, L, T) /\ Ordered(st)
    /\ bs[g.b].len < M
ToAppend(bs, T, clean, g, j) ==
    g.first.psize > 0 =>
        /\ g.b + 1 = Len(bs) /\ g.b + 1 \in 1 .. Len(bs)
        /\ clean => \A q \in Pointers(g.first, j) : Far(bs[g.b].mem[q \div 4], bs[g.b + 1], T[g.b + 1])

\* The innermost array, as it ends
LEMMA EndsThere ==
    ASSUME NEW bs, NEW st, NEW val, NEW clean, NEW L, NEW T, NEW z, NEW g,
           Ending(bs, st, val, clean, L, T, z, g), NEW j, j = Len(g.items)
    PROVE  /\ \E x, p : Ends(bs[g.b], T[g.b], clean, g.first, j, x, p, g.f)
           /\ ToAppend(bs, T, clean, g, j) /\ g.b \in 1 .. Len(bs) /\ z \in 1 .. Len(st)
<1>1. PICK m : /\ ~val /\ Under(bs, st, val, clean) /\ z = Len(st) /\ g = st[z] /\ g.kind = "rep"
               /\ m \in Nat /\ m = Len(bs) /\ Chain(st, m) /\ Home(st, z) = m
  BY DEF Ending, OnArr, Under, Memory, IsSequence, Chain
<1>2. PICK b : b = bs[g.b]
  OBVIOUS
<1>3. /\ Started(st, val, z) = j + 0
      /\ g.b \in 1 .. Len(bs) /\ GoodBuf(b, clean) /\ (clean => ArrClean(bs, g, j + 0))
      /\ ArrFacts(b, g, j, 0)
  BY <1>1, <1>2, TopArr
<1>4. /\ j \in Nat /\ g.f \in Repeated /\ IsBuf(b) /\ b.len \in Nat /\ IsArr(b, g.first)
      /\ g.first.off \in Nat /\ ObjSize(g.first) \in Nat /\ g.it.off \in Nat /\ g.it.off % 4 = 0
      /\ g.it.off = g.first.off + j * ObjSize(g.first)
      /\ g.first.ssize = ElemSsize(g.f) /\ g.first.psize = ElemPsize(g.f)
      /\ g.first.off + (j + 0) * ObjSize(g.first) = b.len
  BY <1>3 DEF ArrFacts, ArrIn
<1>5. j + 0 = j /\ b.len = g.it.off
  BY <1>4
<1>6. z \in 1 .. Len(st)
  BY <1>1, ChainIs
<1>7. ArrTyped(bs, T, clean, g, j)
  <2>1. FrameTyped(bs, T, clean, st[z], OnArray(st, z), Started(st, val, z))
    BY <1>6 DEF Ending, Held
  <2> QED
    BY <1>1, <1>3, <1>5, <2>1 DEF FrameTyped
<1>8. PICK x \in Nat :
          /\ g.first.off = 4 * x + 8 /\ b.mem[x] = Header(ElemSsize(g.f), ElemPsize(g.f)) + ARR
          /\ \A w \in T[g.b].fixed \cup T[g.b].ptrs \cup T[g.b].data : w < x
          /\ clean /\ NeedsBuf(g.f) =>
                 \A q \in Pointers(g.first, j) : Far(b.mem[q \div 4], bs[g.b + 1], T[g.b + 1])
  BY <1>2, <1>7 DEF ArrTyped
<1>9. PICK p \in Nat : b.len = 4 * p
  <2>1. PICK y \in Nat : y = g.it.off /\ y % 4 = 0
    BY <1>4
  <2>2. y \div 4 \in Nat /\ y = 4 * (y \div 4)
    BY ONLY <2>1, y \in Nat
  <2> QED
    BY <1>5, <2>1, <2>2
<1>10. Sound(b, T[g.b], clean)
  BY <1>2, <1>3 DEF Ending, Held
<1>11. Ends(b, T[g.b], clean, g.first, j, x, p, g.f)
  BY <1>4, <1>5, <1>8, <1>9, <1>10 DEF Ends
<1>12. ASSUME g.first.psize > 0
       PROVE  /\ g.b + 1 = Len(bs) /\ g.b + 1 \in 1 .. Len(bs)
              /\ clean => \A q \in Pointers(g.first, j) : Far(b.mem[q \div 4], bs[g.b + 1], T[g.b + 1])
  <2>1. NeedsBuf(g.f)
    BY <1>4, <1>12, ElemSizes
  <2>2. g.b + 1 = Len(bs)
    BY <1>1, <2>1 DEF Home
  <2>3. g.b + 1 \in 1 .. Len(bs)
    BY <1>1, <1>3, <2>2
  <2> QED
    BY <1>8, <2>1, <2>2, <2>3
<1>13. ToAppend(bs, T, clean, g, j)
  BY <1>2, <1>12 DEF ToAppend
<1> QED
  BY <1>2, <1>3, <1>6, <1>11, <1>13

\* What becomes of the words of the buffer
LEMMA FinishedTyped ==
    ASSUME NEW bs, NEW st, NEW val, NEW clean, NEW L, NEW T, NEW z, NEW g,
           Ending(bs, st, val, clean, L, T, z, g), NEW c, c = Finished(bs, g), c.len < M
    PROVE  \E u, x : /\ Retyped(bs[g.b], T[g.b], c, u, clean) /\ Leads(c, u, x) /\ HdrOffset(c, g.first) = 4 * x
                     /\ x \in Nat /\ 4 * x < M /\ g.first.off = 4 * x + 8
<1>1. PICK j : j = Len(g.items)
  OBVIOUS
<1>2. /\ \E x, p : Ends(bs[g.b], T[g.b], clean, g.first, j, x, p, g.f)
      /\ ToAppend(bs, T, clean, g, j) /\ g.b \in 1 .. Len(bs)
  BY <1>1, EndsThere
<1>3. PICK x, p : Ends(bs[g.b], T[g.b], clean, g.first, j, x, p, g.f)
  BY <1>2
<1>4. PICK b, t, o, f : b = bs[g.b] /\ t = T[g.b] /\ o = g.first /\ f = g.f
  OBVIOUS
<1>5. /\ Ends(b, t, clean, o, j, x, p, f) /\ b.len < M /\ x \in Nat /\ o.off = 4 * x + 8
      /\ p \in Nat /\ b.len = 4 * p
  BY <1>3, <1>4 DEF Ending, Ends
<1>6. PICK u : Retyped(b, t, c, u, clean) /\ Leads(c, u, x) /\ c.mem[x + 1] = j
  <2>1. CASE ~(o.psize > 0)
    <3>1. PICK u : u = ArrKinds(t, x, o, j, NoKinds, 0)
      OBVIOUS
    <3>2. c = ResizeArr(b, o, j)
      BY <1>1, <1>4, <2>1 DEF Finished
    <3>3. Retyped(b, t, c, u, clean) /\ Leads(c, u, x) /\ c.mem[x + 1] = j
      BY <1>5, <2>1, <3>1, <3>2, ShortArr
    <3> QED
      BY <3>3
  <2>2. CASE o.psize > 0
    <3>1. PICK nbuf, v, u : nbuf = bs[g.b + 1] /\ v = T[g.b + 1] /\ u = ArrKinds(t, x, o, j, v, p)
      OBVIOUS
    <3>2. c = FixArr(ResizeArr(b, o, j), o, j, nbuf)
      BY <1>1, <1>2, <1>4, <2>2, <3>1 DEF Finished, ToAppend
    <3>3. IsBuf(nbuf) /\ Sound(nbuf, v, clean)
      <4>1. g.b + 1 \in 1 .. Len(bs)
        BY <1>2, <1>4, <2>2 DEF ToAppend
      <4> QED
        BY <3>1, <4>1 DEF Ending, OnArr, Under, Memory, GoodBuf, Held
    <3>4. clean => \A q \in Pointers(o, j) : Far(b.mem[q \div 4], nbuf, v)
      BY <1>2, <1>4, <2>2, <3>1 DEF ToAppend
    <3>5. Appended(b, t, clean, o, j, x, p, f, nbuf, v, c)
      BY <1>5, <3>2, <3>3, <3>4 DEF Appended
    <3>6. Retyped(b, t, c, u, clean) /\ Leads(c, u, x) /\ c.mem[x + 1] = j
      BY <3>1, <3>5, LongArr
    <3> QED
      BY <3>6
  <2> QED
    BY <2>1, <2>2
<1>7. HdrOffset(c, o) = 4 * x
  BY <1>5, <1>6, HdrBack
<1>8. 4 * x < M
  <2>1. x + 2 <= p
    <3>1. PICK r : r = ResizeArr(b, o, j)
      OBVIOUS
    <3>2. Ends(b, t, clean, o, j, x, p, f) /\ r = ResizeArr(b, o, j)
      BY <1>5, <3>1
    <3>3. /\ IsBuf(r) /\ Kept(b, r, {x + 1}) /\ r.len = b.len /\ r.mem[x + 1] = j /\ r.mem[x] = b.mem[x]
          /\ IsFirst(o) /\ x + 2 <= p /\ PointersIn(o, j, x, p)
      BY ONLY <3>2, LengthSet
    <3> QED
      BY <3>3
  <2> QED
    BY <1>5, <2>1, MIsNat
<1> QED
  BY <1>4, <1>5, <1>6, <1>7, <1>8

\* Buffers behind the y-th are dropped, when no frame is left that goes on in them.
Dropped(ds, cs, y, t) ==
    /\ y \in Nat /\ y >= 1 /\ y <= Len(ds) /\ Len(ds) \in Nat /\ IsSequence(cs) /\ Len(cs) = y
    /\ \A i \in 1 .. y : cs[i] = ds[i]
    /\ \A k \in 1 .. Len(t) :
           /\ t[k].b \in Nat /\ t[k].b >= 1 /\ t[k].b <= y
           /\ t[k].kind = "rep" => t[k].b < y

\* The buffer built for the elements is dropped.
LEMMA DropTyped ==
    ASSUME NEW ds, NEW t, NEW late, NEW clean, NEW L, NEW U, Held(ds, t, late, clean, L, U),
           NEW cs, NEW y, Dropped(ds, cs, y, t)
    PROVE  Held(cs, t, late, clean, L, U)
<1> USE DEF Dropped
<1>1. \A k \in 1 .. Len(cs) : Sound(cs[k], U[k], clean)
  <2> SUFFICES ASSUME NEW k \in 1 .. y PROVE Sound(cs[k], U[k], clean)
    OBVIOUS
  <2>1. k \in 1 .. Len(ds)
    OBVIOUS
  <2> QED
    BY <2>1 DEF Held
<1>2. ASSUME NEW k \in 1 .. Len(t)
      PROVE  FrameTyped(cs, U, clean, t[k], OnArray(t, k), Started(t, late, k))
  <2>1. FrameTyped(ds, U, clean, t[k], OnArray(t, k), Started(t, late, k))
    BY DEF Held
  <2>2. t[k].b \in 1 .. y /\ cs[t[k].b] = ds[t[k].b]
    OBVIOUS
  <2>3. CASE t[k].kind = "rep"
    <3>1. t[k].b + 1 \in 1 .. y
      BY <2>3
    <3>2. cs[t[k].b + 1] = ds[t[k].b + 1]
      BY <3>1
    <3> QED
      BY <2>1, <2>2, <2>3, <3>2 DEF FrameTyped, ArrTyped
  <2>4. CASE t[k].kind # "rep"
    BY <2>1, <2>2, <2>4 DEF FrameTyped
  <2> QED
    BY <2>3, <2>4
<1> QED
  BY <1>1, <1>2 DEF Held

\* The array of the innermost frame becomes part of c, the last of the buffers
\* cs, and its header is at word x.
EndsIn(bs, st, val, clean, L, T, z, g, c, cs, t) ==
    /\ Ending(bs, st, val, clean, L, T, z, g) /\ c = Finished(bs, g) /\ c.len < M
    /\ cs = [i \in 1 .. g.b |-> IF i = g.b THEN c ELSE bs[i]] /\ t = Front(st)
PointedTo(cs, t, late, clean, L, st, z, g, c, U, x) ==
    /\ Held(cs, t, late, clean, L, U) /\ Leads(c, U[g.b], x) /\ x \in Nat /\ 4 * x < M
    /\ HdrOffset(c, g.first) = 4 * x
    /\ st[z - 1].b = g.b => st[z - 1].o.off + 24 <= 4 * x

\* The array of the innermost frame is finished, and the buffer built for its
\* elements dropped; the array can be pointed to.
LEMMA PopRepTyped ==
    ASSUME NEW bs, NEW st, NEW val, NEW clean, NEW L, NEW T, NEW z, NEW g, NEW c, NEW cs, NEW t,
           EndsIn(bs, st, val, clean, L, T, z, g, c, cs, t), NEW late, late
    PROVE  /\ \E U, x : PointedTo(cs, t, late, clean, L, st, z, g, c, U, x)
           /\ Ordered(t) /\ SameTo(bs[1], cs[1], L)
<1> USE DEF EndsIn
<1>1. PICK m, home : /\ m \in Nat /\ m = Len(bs) /\ Chain(st, m) /\ Apart(st) /\ home = Home(st, z - 1)
                     /\ ~val /\ Under(bs, st, val, clean) /\ z = Len(st) /\ g = st[z] /\ g.kind = "rep"
                     /\ Held(bs, st, val, clean, L, T) /\ Ordered(st) /\ IsSequence(bs)
  BY DEF Ending, OnArr, Under, Memory, IsSequence
<1>2. z \in Nat /\ z >= 2 /\ z \in 1 .. Len(st)
  <2>1. z \in Nat /\ z >= 1 /\ st[1].kind = "msg"
    BY <1>1, ChainIs DEF Chain
  <2> QED
    BY <1>1, <2>1
<1>3. /\ Chain(t, home) /\ Apart(t) /\ Len(t) = z - 1
      /\ \A k \in 1 .. z - 1 : t[k] = st[k]
      /\ home = IF st[z].kind = "msg" THEN m ELSE st[z].b
      /\ st[z].kind = "rep" => st[z - 1].kind = "msg"
  <2>1. /\ m \in Nat /\ Chain(st, m) /\ Apart(st) /\ z = Len(st) /\ z >= 2 /\ t = Front(st)
        /\ home = Home(st, z - 1)
    BY <1>1, <1>2
  <2> QED
    BY ONLY <2>1, PopChain
<1>4. PICK y \in Nat : y = g.b /\ y >= 1 /\ y <= m /\ home = y
  BY <1>1, <1>2, <1>3, ChainIs
<1>5. PICK u, x : /\ Retyped(bs[y], T[y], c, u, clean) /\ Leads(c, u, x) /\ HdrOffset(c, g.first) = 4 * x
                  /\ x \in Nat /\ 4 * x < M /\ g.first.off = 4 * x + 8
  BY <1>4, FinishedTyped
<1>6. Held(bs, t, late, clean, L, T) /\ Ordered(t)
  <2>1. /\ Held(bs, st, val, clean, L, T) /\ Ordered(st) /\ Under(bs, st, val, clean) /\ z = Len(st)
        /\ z >= 2 /\ t = Front(st) /\ late
    BY <1>1, <1>2
  <2> QED
    BY ONLY <2>1, PopTyped
<1>7. PICK ds, U : ds = [bs EXCEPT ![y] = c] /\ U = With(T, y, u)
  OBVIOUS
<1>8. y \in 1 .. Len(bs) /\ Differs(bs, ds, y, c)
  <2>1. y \in 1 .. Len(bs)
    BY <1>1, <1>4
  <2> QED
    BY <1>1, <1>7, <2>1, ReplaceIs
<1>9. ASSUME NEW k \in 1 .. Len(t)
      PROVE  /\ t[k].b \in Nat /\ t[k].b >= 1 /\ t[k].b <= y
             /\ t[k].kind = "rep" => t[k].b < y
  <2>1. k \in 1 .. z /\ k # z /\ t[k] = st[k]
    BY <1>2, <1>3
  <2>2. t[k].b \in Nat /\ t[k].b >= 1 /\ t[k].b <= y
    BY <1>3, <1>4, ChainIs
  <2>3. ASSUME t[k].kind = "rep", t[k].b = y PROVE FALSE
    <3>1. st[k].kind = "rep" /\ st[k].b = st[z].b
      BY <1>1, <1>4, <2>1, <2>3
    <3>2. \/ k = z
          \/ /\ k = z - 1 /\ z > 1 /\ st[z].kind = "msg"
             /\ st[z].o = st[k].it /\ st[k].f = "r"
      BY <1>1, <2>1, <3>1, OnTop
    <3> QED
      BY <1>1, <2>1, <3>2
  <2> QED
    BY <2>2, <2>3
<1>10. Held(ds, t, late, clean, L, U) /\ SameTo(bs[1], ds[1], L)
  <2>1. ArrsTyped(ds, t, late, clean, U, y)
    BY <1>9 DEF ArrsTyped
  <2>2. \E k \in Nat : Chain(t, k) /\ k <= Len(bs)
    BY <1>1, <1>3, <1>4
  <2>3. Changes(bs, t, late, y, c, ds, late)
    BY <1>1, <1>8, <2>2 DEF Changes
  <2>4. /\ Held(bs, t, late, clean, L, T) /\ Changes(bs, t, late, y, c, ds, late)
        /\ Retyped(bs[y], T[y], c, u, clean) /\ U = With(T, y, u) /\ ArrsTyped(ds, t, late, clean, U, y)
    BY <1>5, <1>6, <1>7, <2>1, <2>3
  <2> QED
    BY ONLY <2>4, HeldStep
<1>11. IsSequence(cs) /\ Len(cs) = y /\ \A i \in 1 .. y : cs[i] = ds[i]
  <2>1. cs = [i \in 1 .. y |-> cs[i]]
    BY <1>4
  <2>2. IsSequence(cs) /\ Len(cs) = y
    BY <2>1, RowIs
  <2>3. ASSUME NEW i \in 1 .. y PROVE cs[i] = ds[i]
    <3>1. i \in 1 .. Len(bs) /\ cs[i] = (IF i = y THEN c ELSE bs[i])
      BY <1>1, <1>4
    <3> QED
      BY <1>8, <3>1 DEF Differs
  <2> QED
    BY <2>2, <2>3
<1>12. Held(cs, t, late, clean, L, U)
  <2>1. y <= Len(ds) /\ Len(ds) \in Nat
    BY <1>1, <1>4, <1>8 DEF Differs
  <2>2. Dropped(ds, cs, y, t)
    BY <1>4, <1>9, <1>11, <2>1 DEF Dropped
  <2> QED
    BY <1>10, <2>2, DropTyped
<1>13. SameTo(bs[1], cs[1], L)
  <2>1. 1 \in 1 .. y
    BY <1>4
  <2> QED
    BY <1>10, <1>11, <2>1
<1>14. U[g.b] = u
  BY <1>4, <1>7 DEF With
<1>15. st[z - 1].b = g.b => st[z - 1].o.off + 24 <= 4 * x
  <2> SUFFICES ASSUME st[z - 1].b = g.b PROVE st[z - 1].o.off + 24 <= 4 * x
    OBVIOUS
  <2>1. z > 1
    BY <1>2
  <2>2. st[z - 1].o.off + 24 <= HdrOf(st[z])
    BY <1>1, <1>2, <1>3, <2>1 DEF Ordered
  <2>3. HdrOf(st[z]) = 4 * x
    BY <1>1, <1>5 DEF HdrOf
  <2> QED
    BY <2>2, <2>3
<1>16. PointedTo(cs, t, late, clean, L, st, z, g, c, U, x)
  BY <1>5, <1>12, <1>14, <1>15 DEF PointedTo
<1> QED
  BY <1>6, <1>13, <1>16

-----------------------------------------------------------------------------
(* What was parsed stays as it is *)

\* No buffer is larger than offsets, which are words, can tell.
WithinWords == \A b \in ToSet(bufs) : b.len < M

\* The output buffer is fixed up to here.
FixedLen == IF pc \in {"parsing", "aborted"} THEN oldlen ELSE bufs[1].len

\* The message r, complete in the first K bytes of the output buffer, is read as
\* it was when it had been parsed.
Reads(r, bs, bd, K) == r.read = Decode(bs[1], r.o, bd.depth) /\ Lasts(bs[1], K, r.o)

EInv ==
    /\ IsSequence(results)
    /\ pc \in {"parsing", "aborted"} =>
           /\ \E T : Held(bufs, stack, tok = "value", ~dirty, oldlen, T)
           /\ Ordered(stack)
    /\ \A r \in ToSet(results) : ~r.dirty => Reads(r, bufs, bound, FixedLen)

\* The first L bytes stay, and the K bytes that are fixed from now on are there.
Goes(bs, cs, L, K) ==
    SameTo(bs[1], cs[1], L) /\ K \in Nat /\ L <= K /\ cs[1].len \in Nat /\ K <= cs[1].len /\ K < M

\* A message that lasts reads the same in the next state.
LEMMA ReadsOn ==
    ASSUME NEW r, NEW bs, NEW cs, NEW bd \in Bounds, NEW L, Reads(r, bs, bd, L), NEW K, Goes(bs, cs, L, K)
    PROVE  Reads(r, cs, bd, K)
<1>1. bd.depth \in Nat
  BY BoundsAssumption
<1>2. PICK o, b, c, depth : o = r.o /\ b = bs[1] /\ c = cs[1] /\ depth = bd.depth
  OBVIOUS
<1>3. /\ Lasts(b, L, o) /\ SameTo(b, c, L) /\ K \in Nat /\ L <= K /\ K <= c.len /\ K < M /\ c.len \in Nat
      /\ depth \in Nat
  BY <1>1, <1>2 DEF Reads, Goes
<1>4. Lasts(c, K, o) /\ Decode(c, o, depth) = Decode(b, o, depth)
  BY ONLY <1>3, LastsOn
<1> QED
  BY <1>2, <1>4 DEF Reads

\* What is fixed is shorter than offsets can tell.
LEMMA ReadsShort ==
    ASSUME NEW r, NEW bs, NEW bd, NEW L, Reads(r, bs, bd, L)
    PROVE  L \in Nat /\ L < M /\ L <= bs[1].len /\ bs[1].len \in Nat
BY DEF Reads, Lasts, Agree

\* A step within a parse
Within(bs, cs, st, late, clean, L) ==
    (\E T : Held(cs, st, late, clean, L, T)) /\ Ordered(st) /\ SameTo(bs[1], cs[1], L)

\* A step within a parse keeps what was parsed.
LEMMA EarlierGoesOn ==
    ASSUME IInv, EInv, IInv', pc = "parsing", pc' = "parsing",
           results' = results, bound' = bound, oldlen' = oldlen,
           Within(bufs, bufs', stack', tok' = "value", ~dirty', oldlen)
    PROVE  EInv'
<1>1. PICK bs, cs, st : bs = bufs /\ cs = bufs' /\ st = stack'
  OBVIOUS
<1>2. cs[1].len \in Nat /\ oldlen \in Nat /\ oldlen <= cs[1].len
  <2>1. \E val, clean : Under(cs, st, val, clean)
    BY <1>1 DEF IInv
  <2>2. PICK val, clean : Under(cs, st, val, clean)
    BY <2>1
  <2>3. oldlen <= st[1].o.off /\ oldlen \in Nat
    BY <1>1 DEF IInv
  <2>4. Len(st) \in Nat /\ Len(st) >= 1 /\ st[1].kind = "msg" /\ st[1].b = 1 /\ 1 \in 1 .. Len(st)
    BY <2>2 DEF Under, Chain, IsSequence
  <2>5. FrameIn(cs, st[1], Started(st, val, 1), clean)
    BY <2>2, <2>4 DEF Under, Memory
  <2>6. MsgIn(cs[1], st[1].o)
    BY <2>4, <2>5 DEF FrameIn
  <2>7. Len(cs) \in Nat /\ Len(cs) >= 1
    BY <1>1 DEF IInv, IsSequence
  <2>8. cs[1].len \in Nat
    <3>1. 1 \in 1 .. Len(cs)
      BY <2>7
    <3> QED
      BY <2>2, <3>1 DEF Under, Memory, GoodBuf, IsBuf
  <2> QED
    BY <2>3, <2>6, <2>8 DEF MsgIn
<1>3. ASSUME NEW r \in ToSet(results), ~r.dirty PROVE Reads(r, cs, bound, oldlen)
  <2>1. Reads(r, bs, bound, oldlen)
    BY <1>1, <1>3 DEF EInv, FixedLen
  <2>2. oldlen < M
    BY <2>1, ReadsShort
  <2>3. Goes(bs, cs, oldlen, oldlen)
    BY <1>1, <1>2, <2>2 DEF Goes, Within
  <2> QED
    BY <2>1, <2>3, ReadsOn DEF IInv
<1> QED
  BY <1>1, <1>3 DEF EInv, FixedLen, Within

\* All that is known of the buffers and the frames
Whole(bs, st, val, clean, L, T) == Under(bs, st, val, clean) /\ Held(bs, st, val, clean, L, T) /\ Ordered(st)

\* The kinds of words there are while a parse runs
LEMMA Typings ==
    ASSUME IInv, EInv, pc = "parsing",
           NEW bs, bs = bufs, NEW st, st = stack, NEW val, val = (tok = "value"), NEW clean, clean = ~dirty,
           NEW L, L = oldlen
    PROVE  \E T : Whole(bs, st, val, clean, L, T)
<1>1. Under(bs, st, val, clean)
  BY Running, Zenon
<1>2. PICK T : Held(bufs, stack, tok = "value", ~dirty, oldlen, T)
  BY DEF EInv
<1>3. Held(bs, st, val, clean, L, T)
  BY <1>2, Zenon
<1>4. Ordered(st)
  BY DEF EInv
<1> QED
  BY <1>1, <1>3, <1>4 DEF Whole

\* The document of the innermost message changes.
LEMMA NewDocTyped ==
    ASSUME NEW bs, NEW st, NEW val, NEW clean, NEW L, NEW T, Whole(bs, st, val, clean, L, T),
           NEW z, z = Len(st), NEW fr, fr = st[z], fr.kind = "msg", NEW d, NEW g,
           g = [kind |-> "msg", b |-> fr.b, o |-> fr.o, doc |-> d],
           NEW t, t = ReplaceAt(st, z, g), NEW late
    PROVE  Held(bs, t, late, clean, L, T) /\ Ordered(t)
<1>1. SameMsg(st[z], g)
  BY DocIs
<1>2. /\ Held(bs, st, val, clean, L, T) /\ Ordered(st) /\ Under(bs, st, val, clean)
      /\ z = Len(st) /\ st[z].kind = "msg" /\ SameMsg(st[z], g) /\ t = ReplaceAt(st, z, g)
  BY <1>1 DEF Whole
<1> QED
  BY ONLY <1>2, DocTyped

\* Scalar does not touch what was parsed.
LEMMA ScalarKeeps == ASSUME IInv, EInv, IInv', Scalar PROVE EInv'
<1>1. pc = "parsing" /\ Top.kind = "msg"
  BY DEF Scalar, InMsg
<1>2. PICK v : /\ bufs' = [bufs EXCEPT ![Top.b] = SetWord(bufs[Top.b], Top.o.off + 4 * Top.o.psize, v)]
               /\ stack' = ReplaceAt(stack, Len(stack), [Top EXCEPT !.doc.x = v])
  BY DEF Scalar, SetTop
<1>3. pc' = pc /\ bound' = bound /\ oldlen' = oldlen /\ dirty' = dirty /\ results' = results
  BY DEF Scalar
<1>4. PICK bs, cs, st, t, z, val, clean, late, L, fr :
          /\ bs = bufs /\ cs = bufs' /\ st = stack /\ t = stack' /\ z = Len(st) /\ fr = Top
          /\ val = (tok = "value") /\ clean = ~dirty /\ late = (tok' = "value") /\ L = oldlen
  OBVIOUS
<1>5. PICK T : Whole(bs, st, val, clean, L, T)
  BY <1>1, <1>4, Typings
<1>6. /\ IsSequence(bs) /\ fr = st[z] /\ fr.b \in 1 .. Len(bs)
      /\ fr.kind = "msg" /\ IsMsg(fr) /\ MsgIn(bs[fr.b], fr.o)
  BY <1>1, <1>4, Running
<1>7. PICK i, w, c : /\ i = 5 /\ i \in 0 .. 5 /\ w \in Nat /\ fr.o.off + 4 * i = 4 * w /\ 4 * w < bs[fr.b].len
                     /\ c = SetWord(bs[fr.b], 4 * w, v) /\ cs = [bs EXCEPT ![fr.b] = c]
  <2>1. PICK i, off : i = 5 /\ i \in 0 .. 5 /\ off \in Nat /\ off = fr.o.off /\ off % 4 = 0
    BY <1>6 DEF MsgIn
  <2>2. off = 4 * (off \div 4) /\ off \div 4 \in Nat
    BY ONLY <2>1, off \in Nat
  <2>3. PICK w \in Nat : 4 * w = off + 20
    <3>1. PICK y \in Nat : y = off \div 4 /\ off = 4 * y
      BY <2>2
    <3>2. y + 5 \in Nat /\ 4 * (y + 5) = off + 20
      BY ONLY <3>1, y \in Nat
    <3> QED
      BY <3>2
  <2>4. fr.o.off + 4 * i = 4 * w /\ fr.o.psize = i
    <3>1. fr.o.psize = 5
      BY <1>6 DEF MsgIn, Object, MsgPsize
    <3> QED
      BY <2>1, <2>3, <3>1
  <2>5. 4 * w < bs[fr.b].len
    <3>1. IsBuf(bs[fr.b])
      BY <1>5, <1>6 DEF Whole, Under, Memory, GoodBuf
    <3>2. bs[fr.b].len \in Nat
      BY <3>1 DEF IsBuf
    <3>3. off + 24 <= bs[fr.b].len
      BY <1>6, <2>1 DEF MsgIn
    <3> QED
      BY <2>1, <2>3, <3>2, <3>3
  <2>6. cs = [bs EXCEPT ![fr.b] = SetWord(bs[fr.b], 4 * w, v)]
    BY <1>2, <1>4, <2>1, <2>4
  <2> QED
    BY <2>1, <2>4, <2>5, <2>6
<1>8. Stored(bs[fr.b], c, w, v) /\ Differs(bs, cs, fr.b, c)
  <2>1. IsBuf(bs[fr.b])
    BY <1>5, <1>6 DEF Whole, Under, Memory, GoodBuf
  <2>2. (4 * w) \div 4 = w /\ 4 * w \in Nat
    BY <1>7
  <2>3. Kept(bs[fr.b], c, {(4 * w) \div 4}) /\ c.mem[(4 * w) \div 4] = v
    BY <1>7, <2>1, <2>2, SetWordIs
  <2> QED
    BY <1>6, <1>7, <2>2, <2>3, ReplaceIs DEF Stored
<1>9. Held(cs, st, val, clean, L, T) /\ SameTo(bs[1], cs[1], L)
  <2>1. ~(i < 5)
    BY <1>7
  <2>2. /\ Held(bs, st, val, clean, L, T) /\ Under(bs, st, val, clean) /\ z = Len(st) /\ fr = st[z]
        /\ fr.kind = "msg" /\ Stored(bs[fr.b], c, w, v) /\ i \in 0 .. 5 /\ fr.o.off + 4 * i = 4 * w
        /\ (clean /\ i < 5 => MayPoint(bs, T, fr, OnArray(st, z), w, v))
        /\ Differs(bs, cs, fr.b, c)
    BY <1>4, <1>5, <1>6, <1>7, <1>8, <2>1 DEF Whole
  <2> QED
    BY ONLY <2>2, TopStoreTyped
<1>10. Under(cs, st, val, clean)
  <2>1. ~(i < 5) /\ c = SetWord(bs[fr.b], fr.o.off + 4 * i, v)
    BY <1>7
  <2>2. /\ Under(bs, st, val, clean) /\ z = Len(st) /\ fr = st[z] /\ fr.kind = "msg" /\ i \in 0 .. 5
        /\ (clean /\ z > 1 /\ st[z - 1].kind = "rep" /\ i < 5 => PtrTo(v, bs[fr.b + 1].len))
        /\ c = SetWord(bs[fr.b], fr.o.off + 4 * i, v) /\ Differs(bs, cs, fr.b, c)
    BY <1>4, <1>5, <1>6, <1>7, <1>8, <2>1 DEF Whole
  <2> QED
    BY ONLY <2>2, TopStore
<1>11. Held(cs, t, late, clean, L, T) /\ Ordered(t)
  <2>1. PICK d, g : g = [fr EXCEPT !.doc.x = v] /\ d = [fr.doc EXCEPT !.x = v]
    OBVIOUS
  <2>2. g = [kind |-> "msg", b |-> fr.b, o |-> fr.o, doc |-> d]
    BY <1>6, <2>1 DEF IsMsg
  <2>3. Whole(cs, st, val, clean, L, T)
    BY <1>5, <1>9, <1>10 DEF Whole
  <2>4. /\ Whole(cs, st, val, clean, L, T) /\ z = Len(st) /\ fr = st[z] /\ fr.kind = "msg"
        /\ g = [kind |-> "msg", b |-> fr.b, o |-> fr.o, doc |-> d] /\ t = ReplaceAt(st, z, g)
    BY <1>2, <1>4, <1>6, <2>1, <2>2, <2>3
  <2> QED
    BY ONLY <2>4, NewDocTyped
<1>12. Within(bs, cs, t, late, clean, L)
  BY <1>9, <1>11 DEF Within
<1>13. Within(bufs, bufs', stack', tok' = "value", ~dirty', oldlen)
  BY <1>3, <1>4, <1>12, Zenon
<1> QED
  BY <1>1, <1>3, <1>13, EarlierGoesOn

\* The string that was built can be pointed to.
StrAtEnd(b, c, u, v) ==
    v # 0 => \E h \in Nat : /\ HdrOffset(c, StrObj(b)) = 4 * h /\ Leads(c, u, h)
                            /\ 4 * h >= b.len /\ 4 * h < c.len

\* A string is allocated: a pointer may lead to it.
LEMMA StrBufTyped ==
    ASSUME NEW bs, NEW ds, NEW st, NEW val, NEW clean, NEW L, NEW T, NEW m, NEW c, NEW v,
           Whole(bs, st, val, clean, L, T), StrEnds(bs, ds, st, val, clean, m, c, v)
    PROVE  \E U : /\ Whole(ds, st, val, clean, L, U) /\ SameTo(bs[1], ds[1], L)
                  /\ StrAtEnd(bs[m], c, U[m], v)
<1>1. Under(ds, st, val, clean) /\ Len(ds) = m /\ Last(ds) = c /\ ds[m] = c
  BY StrBuf
<1>2. IsSequence(bs) /\ m \in 1 .. Len(bs) /\ GoodBuf(bs[m], clean) /\ m \in Nat
  <2>1. PICK k \in Nat : k = m /\ Chain(st, k)
    BY DEF StrEnds, Under, Memory, IsSequence
  <2>2. 1 \in 1 .. Len(st)
    BY <2>1, ChainIs
  <2>3. st[1].b \in 1 .. k
    BY <2>1, <2>2 DEF Chain
  <2> QED
    BY <2>1, <2>3 DEF StrEnds, Under, Memory
<1>3. Differs(bs, ds, m, c)
  BY <1>2, ReplaceIs DEF ReplaceAt, StrEnds
<1>4. Sound(bs[m], T[m], clean)
  BY <1>2 DEF Whole, Held
<1>5. PICK b, t : b = bs[m] /\ t = T[m]
  OBVIOUS
<1>6. PICK u : Retyped(b, t, c, u, clean) /\ StrAtEnd(b, c, u, v)
  <2>1. CASE v = 0
    <3>1. c = WithoutStr(b)
      BY <1>5, <2>1 DEF StrEnds, StrOr
    <3>2. Kept(b, c, {})
      BY <1>2, <1>5, <3>1, WithoutStrIs
    <3>3. PICK S : S = {}
      OBVIOUS
    <3>4. /\ Sound(b, t, clean) /\ Kept(b, c, S) /\ \A w \in S : w \notin t.fixed
          /\ (clean => \A w \in S : w \in t.ptrs => Near(c, t, w))
      BY <1>4, <1>5, <3>2, <3>3
    <3>5. Retyped(b, t, c, t, clean)
      BY ONLY <3>4, RetypeSame
    <3> QED
      BY <2>1, <3>5 DEF StrAtEnd
  <2>2. CASE v # 0
    <3>1. c = WithStr(b, v)
      BY <1>5, <2>2 DEF StrEnds, StrOr
    <3>2. PICK h, u : h = Words(b.len) /\ u = ObjKinds(t, h)
      OBVIOUS
    <3>3. /\ h \in Nat /\ 4 * h >= b.len /\ HdrOffset(c, StrObj(b)) = 4 * h
          /\ Retyped(b, t, c, u, clean) /\ Leads(c, u, h)
      BY <1>2, <1>4, <1>5, <3>1, <3>2, StrTyped
    <3>4. c.len = 4 * h + 6
      BY <1>2, <1>5, <3>1, <3>2, WithStrIs
    <3>5. 4 * h < c.len
      BY <3>3, <3>4
    <3> QED
      BY <3>3, <3>5 DEF StrAtEnd
  <2> QED
    BY <2>1, <2>2
<1>7. PICK U : U = With(T, m, u)
  OBVIOUS
<1>8. Held(ds, st, val, clean, L, U) /\ SameTo(bs[1], ds[1], L)
  <2>1. /\ Held(bs, st, val, clean, L, T) /\ Under(bs, st, val, clean) /\ m = Len(bs)
        /\ (st[Len(st)].kind = "rep" => NeedsBuf(st[Len(st)].f))
        /\ Retyped(bs[m], T[m], c, u, clean) /\ Differs(bs, ds, m, c) /\ U = With(T, m, u)
    BY <1>3, <1>5, <1>6, <1>7 DEF Whole, StrEnds
  <2> QED
    BY ONLY <2>1, GrowTyped
<1>9. U[m] = u
  BY <1>2, <1>7 DEF With
<1> QED
  BY <1>1, <1>5, <1>6, <1>8, <1>9 DEF Whole

\* What lies at the end of the last buffer lies behind the innermost message.
LEMMA TopBehind ==
    ASSUME NEW bs, NEW st, NEW val, NEW clean, Under(bs, st, val, clean), NEW z, z = Len(st),
           st[z].kind = "msg"
    PROVE  /\ st[z].o.off \in Nat /\ bs[st[z].b].len \in Nat /\ st[z].o.off + 24 <= bs[st[z].b].len
           /\ z \in 1 .. Len(st) /\ st[z].b \in 1 .. Len(bs) /\ MsgIn(bs[st[z].b], st[z].o)
<1>1. PICK m \in Nat : m = Len(bs) /\ Chain(st, m)
  BY DEF Under, Memory, IsSequence
<1>2. z \in 1 .. Len(st) /\ st[z].b \in 1 .. Len(bs)
  BY <1>1, ChainIs
<1>3. FrameIn(bs, st[z], Started(st, val, z), clean) /\ IsBuf(bs[st[z].b])
  BY <1>2 DEF Under, Memory, GoodBuf
<1> QED
  BY <1>2, <1>3 DEF FrameIn, MsgIn, IsBuf

\* No buffer of bs is larger than offsets can tell.
Short(bs) == \A k \in 1 .. Len(bs) : bs[k].len < M

\* What is complete in the last buffer, its header at word x, is tied to the
\* innermost message, whose document changes.
Ties(ds, st, val, clean, L, U, fr, i, x, cs, d, t) ==
    LET z == Len(st)
        m == Len(ds)
    IN  /\ Whole(ds, st, val, clean, L, U) /\ fr = st[z] /\ fr.kind = "msg"
        /\ i \in 0 .. 4 /\ x \in Nat /\ 4 * x < ds[m].len
        /\ fr.b = m => fr.o.off + 24 <= 4 * x
        /\ clean => Leads(ds[m], U[m], x)
        /\ cs = [ds EXCEPT ![fr.b] = SetP(ds[fr.b], fr.o, i, 4 * x, fr.b = m)] /\ Short(cs)
        /\ t = ReplaceAt(st, z, [kind |-> "msg", b |-> fr.b, o |-> fr.o, doc |-> d])

\* A pointer to what is complete goes into the innermost message.
LEMMA Tied ==
    ASSUME NEW ds, NEW st, NEW val, NEW clean, NEW L, NEW U, NEW fr, NEW i, NEW x, NEW cs, NEW d, NEW t,
           Ties(ds, st, val, clean, L, U, fr, i, x, cs, d, t), NEW late
    PROVE  Within(ds, cs, t, late, clean, L)
<1>1. PICK z, m, c : z = Len(st) /\ m = Len(ds) /\ c = SetP(ds[fr.b], fr.o, i, 4 * x, fr.b = m)
  OBVIOUS
<1>2. /\ Whole(ds, st, val, clean, L, U) /\ fr = st[z] /\ fr.kind = "msg"
      /\ i \in 0 .. 4 /\ x \in Nat /\ 4 * x < ds[m].len
      /\ fr.b = m => fr.o.off + 24 <= 4 * x
      /\ clean => Leads(ds[m], U[m], x)
      /\ cs = [ds EXCEPT ![fr.b] = c] /\ Short(cs)
      /\ t = ReplaceAt(st, z, [kind |-> "msg", b |-> fr.b, o |-> fr.o, doc |-> d])
  BY <1>1 DEF Ties
<1>3. /\ IsSequence(ds) /\ fr.b \in 1 .. Len(ds) /\ IsBuf(ds[fr.b]) /\ m \in Nat
  <2>1. st[z].b \in 1 .. Len(ds)
    BY <1>1, <1>2, TopBehind DEF Whole
  <2> QED
    BY <1>1, <1>2, <2>1 DEF Whole, Under, Memory, GoodBuf, IsSequence
<1>4. Differs(ds, cs, fr.b, c)
  BY <1>2, <1>3, ReplaceIs
<1>5. 4 * x < M
  <2>1. m \in 1 .. Len(ds) /\ m \in 1 .. Len(cs)
    BY <1>1, <1>3, <1>4 DEF Differs
  <2>2. cs[m].len = ds[m].len
    <3>1. CASE fr.b = m
      <4>1. c.len = ds[fr.b].len
        BY <1>1, <1>3 DEF SetP, SetWord, IsBuf
      <4> QED
        BY <1>4, <3>1, <4>1 DEF Differs
    <3>2. CASE fr.b # m
      BY <1>4, <2>1, <3>2 DEF Differs
    <3> QED
      BY <3>1, <3>2
  <2>3. ds[m].len \in Nat
    BY <1>2, <2>1 DEF Whole, Under, Memory, GoodBuf, IsBuf
  <2>4. cs[m].len < M
    BY <1>2, <2>1 DEF Short
  <2> QED
    BY <1>2, <2>2, <2>3, <2>4, MIsNat
<1>6. Held(cs, st, val, clean, L, U) /\ SameTo(ds[1], cs[1], L)
  <2>1. PtrSet(ds, st, val, clean, L, U, fr, i, x, c, cs)
    BY <1>1, <1>2, <1>5 DEF Whole, PtrSet
  <2>2. PtrSet(ds, st, val, clean, L, U, fr, i, x, c, cs) /\ i \in 0 .. 4 /\ x \in Nat /\ z = Len(st) /\ m = Len(ds)
    BY <1>1, <1>2, <2>1
  <2> QED
    BY ONLY <2>2, SetPtrTyped
<1>7. Under(cs, st, val, clean)
  <2>1. PICK hdr : hdr = 4 * x /\ hdr \in Nat /\ hdr < ds[m].len
    BY <1>2
  <2>2. c = SetP(ds[fr.b], fr.o, i, hdr, fr.b = m)
    BY <1>1, <2>1, Zenon
  <2>3. /\ Under(ds, st, val, clean) /\ z = Len(st) /\ fr = st[z] /\ fr.kind = "msg" /\ i \in 0 .. 4
        /\ m = Len(ds) /\ hdr \in Nat /\ hdr < ds[m].len
        /\ c = SetP(ds[fr.b], fr.o, i, hdr, fr.b = m) /\ cs = [ds EXCEPT ![fr.b] = c]
    BY <1>1, <1>2, <2>1, <2>2 DEF Whole
  <2> QED
    BY ONLY <2>3, SetPtr
<1>8. Held(cs, t, late, clean, L, U) /\ Ordered(t)
  <2>1. PICK g : g = [kind |-> "msg", b |-> fr.b, o |-> fr.o, doc |-> d]
    OBVIOUS
  <2>2. /\ Whole(cs, st, val, clean, L, U) /\ z = Len(st) /\ fr = st[z] /\ fr.kind = "msg"
        /\ g = [kind |-> "msg", b |-> fr.b, o |-> fr.o, doc |-> d] /\ t = ReplaceAt(st, z, g)
    BY <1>1, <1>2, <1>6, <1>7, <2>1 DEF Whole
  <2> QED
    BY ONLY <2>2, NewDocTyped
<1> QED
  BY <1>6, <1>8 DEF Within

\* A step of two parts
LEMMA WithinTwice ==
    ASSUME NEW bs, NEW ds, NEW cs, NEW t, NEW late, NEW clean, NEW L, SameTo(bs[1], ds[1], L),
           Within(ds, cs, t, late, clean, L)
    PROVE  Within(bs, cs, t, late, clean, L)
BY DEF Within, SameTo

\* A string goes behind what was parsed, a pointer to it into the message.
LEMMA StringKeeps == ASSUME IInv, EInv, IInv', WithinWords', String PROVE EInv'
<1>1. pc = "parsing" /\ Top.kind = "msg"
  BY DEF String, InMsg
<1>2. PICK v, e : /\ bufs' = StrInto(Top.b, Top.o, Index["s"], v)
                  /\ stack' = ReplaceAt(stack, Len(stack), [Top EXCEPT !.doc.s = e])
  BY DEF String, SetTop
<1>3. pc' = pc /\ bound' = bound /\ oldlen' = oldlen /\ dirty' = dirty /\ results' = results
  BY DEF String
<1>4. PICK bs, cs, st, t, z, val, clean, late, L, fr, m :
          /\ bs = bufs /\ cs = bufs' /\ st = stack /\ t = stack' /\ z = Len(st) /\ fr = Top /\ m = Len(bs)
          /\ val = (tok = "value") /\ clean = ~dirty /\ late = (tok' = "value") /\ L = oldlen
  OBVIOUS
<1>5. PICK T : Whole(bs, st, val, clean, L, T)
  BY <1>1, <1>4, Typings
<1>6. /\ IsSequence(bs) /\ fr = st[z] /\ Last(bs) = bs[m] /\ fr.kind = "msg" /\ IsMsg(fr)
  BY <1>1, <1>4, Running
<1>7. PICK c, ds : c = StrOr(bs[m], v) /\ ds = ReplaceAt(bs, m, c)
  OBVIOUS
<1>8. StrEnds(bs, ds, st, val, clean, m, c, v)
  BY <1>4, <1>5, <1>6, <1>7 DEF StrEnds, Whole
<1>9. Under(ds, st, val, clean) /\ Len(ds) = m /\ Last(ds) = c /\ ds[m] = c
  BY ONLY <1>8, StrBuf
<1>10. PICK U : /\ Whole(ds, st, val, clean, L, U) /\ SameTo(bs[1], ds[1], L)
                /\ StrAtEnd(bs[m], c, U[m], v)
  <2>1. Whole(bs, st, val, clean, L, T) /\ StrEnds(bs, ds, st, val, clean, m, c, v)
    BY <1>5, <1>8
  <2> QED
    BY ONLY <2>1, StrBufTyped
<1>11. PICK d : t = ReplaceAt(st, z, [kind |-> "msg", b |-> fr.b, o |-> fr.o, doc |-> d])
  <2>1. PICK g, d : g = [fr EXCEPT !.doc.s = e] /\ d = [fr.doc EXCEPT !.s = e]
    OBVIOUS
  <2>2. g = [kind |-> "msg", b |-> fr.b, o |-> fr.o, doc |-> d]
    BY <1>6, <2>1 DEF IsMsg
  <2> QED
    BY <1>2, <1>4, <2>1, <2>2
<1>12. CASE v = 0
  <2>1. cs = ds
    BY <1>2, <1>4, <1>6, <1>7, <1>12 DEF StrInto, Keep, Cur, StrOr
  <2>2. Held(ds, t, late, clean, L, U) /\ Ordered(t)
    <3>1. PICK g : g = [kind |-> "msg", b |-> fr.b, o |-> fr.o, doc |-> d]
      OBVIOUS
    <3>2. /\ Whole(ds, st, val, clean, L, U) /\ z = Len(st) /\ fr = st[z] /\ fr.kind = "msg"
          /\ g = [kind |-> "msg", b |-> fr.b, o |-> fr.o, doc |-> d] /\ t = ReplaceAt(st, z, g)
      BY <1>4, <1>6, <1>10, <1>11, <3>1
    <3> QED
      BY ONLY <3>2, NewDocTyped
  <2>3. Within(bs, cs, t, late, clean, L)
    BY <1>10, <2>1, <2>2 DEF Within
  <2>4. Within(bufs, bufs', stack', tok' = "value", ~dirty', oldlen)
    BY <1>3, <1>4, <2>3, Zenon
  <2> QED
    BY <1>1, <1>3, <2>4, EarlierGoesOn
<1>13. CASE v # 0
  <2>1. PICK h \in Nat : /\ HdrOffset(c, StrObj(bs[m])) = 4 * h /\ Leads(c, U[m], h)
                         /\ 4 * h >= bs[m].len /\ 4 * h < c.len
    BY <1>10, <1>13 DEF StrAtEnd
  <2>2. PICK i : i = 0 /\ i \in 0 .. 4
    OBVIOUS
  <2>3. cs = [ds EXCEPT ![fr.b] = SetP(ds[fr.b], fr.o, i, 4 * h, fr.b = Len(ds))]
    <3>1. /\ bs = bufs /\ cs = bufs' /\ fr = Top /\ m = Len(bs) /\ m = Len(ds) /\ bufs[Len(bufs)] = bs[m]
          /\ i = Index["s"] /\ Last(ds) = c
      BY <1>4, <1>9, <2>2 DEF Index
    <3>2. cs = [ds EXCEPT ![fr.b] = SetP(ds[fr.b], fr.o, Index["s"], HdrOffset(c, StrObj(bs[m])), fr.b = m)]
      BY <1>2, <1>4, <1>6, <1>7, <1>9, <1>13 DEF StrInto, Keep, Cur, StrOr
    <3> QED
      BY <2>1, <3>1, <3>2, Zenon
  <2>4. fr.b = m => fr.o.off + 24 <= 4 * h
    <3>1. /\ fr.o.off \in Nat /\ bs[fr.b].len \in Nat /\ fr.o.off + 24 <= bs[fr.b].len
      BY <1>4, <1>5, <1>6, TopBehind DEF Whole
    <3> QED
      BY <2>1, <3>1
  <2>5. Short(cs)
    <3>1. WithinWords' /\ IsSequence(bufs')
      BY DEF IInv
    <3> QED
      BY <1>4, <3>1 DEF WithinWords, Short, ToSet, IsSequence
  <2>6. Ties(ds, st, val, clean, L, U, fr, i, h, cs, d, t)
    BY <1>4, <1>6, <1>9, <1>10, <1>11, <2>1, <2>2, <2>3, <2>4, <2>5 DEF Ties
  <2>7. Within(ds, cs, t, late, clean, L)
    BY <2>6, Tied
  <2>8. Within(bs, cs, t, late, clean, L)
    BY <1>10, <2>7, WithinTwice
  <2>9. Within(bufs, bufs', stack', tok' = "value", ~dirty', oldlen)
    BY <1>3, <1>4, <2>8, Zenon
  <2> QED
    BY <1>1, <1>3, <2>9, EarlierGoesOn
<1> QED
  BY <1>12, <1>13

\* A message inside another one goes behind what was parsed.
LEMMA NestedMsgKeeps == ASSUME IInv, EInv, IInv', NestedMsg PROVE EInv'
<1>1. pc = "parsing" /\ Top.kind = "msg"
  BY DEF NestedMsg, InMsg
<1>2. /\ bufs' = Keep(AllocObj(Last(bufs), MsgSsize, MsgPsize))
      /\ stack' = Append(stack, MsgFrame(Cur, NewObj(Last(bufs), MsgSsize, MsgPsize)))
      /\ pc' = pc /\ bound' = bound /\ oldlen' = oldlen /\ dirty' = dirty /\ results' = results
  BY DEF NestedMsg
<1>3. PICK bs, cs, st, t, z, val, clean, late, L, m, b, c, o, fr :
          /\ bs = bufs /\ cs = bufs' /\ st = stack /\ t = stack' /\ z = Len(st) /\ m = Len(bs)
          /\ val = (tok = "value") /\ clean = ~dirty /\ late = (tok' = "value") /\ L = oldlen
          /\ b = Last(bufs) /\ c = AllocObj(b, MsgSsize, MsgPsize) /\ o = NewObj(b, MsgSsize, MsgPsize)
          /\ fr = MsgFrame(m, o)
  OBVIOUS
<1>4. PICK T : Whole(bs, st, val, clean, L, T)
  BY <1>1, <1>3, Typings
<1>5. /\ IsSequence(bs) /\ b = bs[m] /\ GoodBuf(b, clean) /\ m \in 1 .. Len(bs) /\ m \in Nat
      /\ st[z].kind = "msg" /\ IsSequence(st) /\ z \in Nat /\ z >= 1 /\ st[z] = Top
  BY <1>1, <1>3, Running
<1>6. PICK h, u : h = Words(b.len) /\ u = MsgKinds(T[m], h)
  OBVIOUS
<1>7. /\ h \in Nat /\ 4 * h >= b.len /\ o.off = 4 * h + 4
      /\ Retyped(b, T[m], c, u, clean) /\ MsgTyped(c, u, o)
  <2>1. Sound(b, T[m], clean)
    BY <1>3, <1>4, <1>5 DEF Whole, Held
  <2> QED
    BY <1>3, <1>5, <1>6, <2>1, NewMsgTyped
<1>8. Differs(bs, cs, m, c)
  BY <1>2, <1>3, <1>5, ReplaceIs DEF Keep, Cur, ReplaceAt
<1>9. PICK U : U = With(T, m, u)
  OBVIOUS
<1>10. Held(cs, st, val, clean, L, U) /\ SameTo(bs[1], cs[1], L)
  <2>1. /\ Held(bs, st, val, clean, L, T) /\ Under(bs, st, val, clean) /\ m = Len(bs)
        /\ (st[Len(st)].kind = "rep" => NeedsBuf(st[Len(st)].f))
        /\ Retyped(bs[m], T[m], c, u, clean) /\ Differs(bs, cs, m, c) /\ U = With(T, m, u)
    BY <1>3, <1>4, <1>5, <1>7, <1>8, <1>9 DEF Whole
  <2> QED
    BY ONLY <2>1, GrowTyped
<1>11. U[m] = u /\ cs[m] = c
  BY <1>5, <1>8, <1>9 DEF With, Differs
<1>12. fr.kind = "msg" /\ fr.b = m /\ fr.o = o /\ t = Append(st, fr)
  BY <1>2, <1>3 DEF MsgFrame, Cur
<1>13. st[z].b = fr.b => st[z].o.off + 24 <= HdrOf(fr)
  <2>1. /\ st[z].o.off \in Nat /\ bs[st[z].b].len \in Nat /\ st[z].o.off + 24 <= bs[st[z].b].len
    BY <1>3, <1>4, <1>5, TopBehind DEF Whole
  <2>2. HdrOf(fr) = 4 * h
    BY <1>7, <1>12 DEF HdrOf
  <2> QED
    BY <1>5, <1>7, <1>12, <2>1, <2>2
<1>14. Held(cs, t, late, clean, L, U) /\ Ordered(t)
  <2>1. ~(st[z].kind = "rep") /\ ~(fr.kind = "rep")
    BY <1>5, <1>12
  <2>2. MsgTyped(cs[fr.b], U[fr.b], fr.o)
    BY <1>7, <1>11, <1>12
  <2>3. PushedTyped(cs, st, val, clean, L, U, fr, t, late)
    BY <1>3, <1>4, <1>5, <1>10, <1>12, <1>13, <2>1, <2>2 DEF PushedTyped, Whole
  <2> QED
    BY <2>3, PushStep
<1>15. Within(bs, cs, t, late, clean, L)
  BY <1>10, <1>14 DEF Within
<1>16. Within(bufs, bufs', stack', tok' = "value", ~dirty', oldlen)
  BY <1>2, <1>3, <1>15, Zenon
<1> QED
  BY <1>1, <1>2, <1>16, EarlierGoesOn

\* A message that is complete is pointed to, or the next element of an array.
LEMMA CloseMsgKeeps == ASSUME IInv, EInv, IInv', WithinWords', CloseMsg PROVE EInv'
<1>1. pc = "parsing" /\ Top.kind = "msg" /\ Len(stack) > 1
  BY DEF CloseMsg, InMsg
<1>2. /\ pc' = pc /\ bound' = bound /\ oldlen' = oldlen /\ dirty' = dirty /\ results' = results
      /\ NextToken(n)
  BY DEF CloseMsg
<1>3. PICK bs, cs, st, t, u, z, y, val, clean, late, L, fr, g, m :
          /\ bs = bufs /\ cs = bufs' /\ st = stack /\ t = Front(st) /\ u = stack' /\ fr = Top /\ g = Below
          /\ z = Len(st) /\ y = z - 1 /\ m = Len(bs)
          /\ val = (tok = "value") /\ clean = ~dirty /\ late = (tok' = "value") /\ L = oldlen
  OBVIOUS
<1>4. PICK T : Whole(bs, st, val, clean, L, T)
  BY <1>1, <1>3, Typings
<1>5. /\ IsSequence(bs) /\ fr = st[z] /\ fr.kind = "msg" /\ z \in Nat /\ z > 1 /\ z \in 1 .. Len(st)
      /\ g = st[y] /\ text = <<>> /\ bound \in Bounds /\ IsSequence(st)
  BY <1>1, <1>3, Running DEF Below
<1>6. tok' # "value"
  BY <1>2, <1>5, NextTokenIs
<1>7. PICK yes : yes
  OBVIOUS
<1>8. Under(bs, t, yes, clean) /\ Len(t) = y /\ t[y] = g
  <2>1. Under(bs, st, val, clean) /\ z = Len(st) /\ z >= 2 /\ st[z].kind = "msg" /\ t = Front(st) /\ yes
    BY <1>3, <1>4, <1>5, <1>7 DEF Whole
  <2>2. Under(bs, t, yes, clean)
    BY ONLY <2>1, PopMsg
  <2>3. Len(t) = z - 1 /\ \A j \in 1 .. z - 1 : t[j] = st[j]
    BY <1>3, <1>5, FrontIs
  <2> QED
    BY <1>3, <1>5, <2>2, <2>3
<1>9. Held(bs, t, yes, clean, L, T) /\ Ordered(t)
  <2>1. /\ Held(bs, st, val, clean, L, T) /\ Ordered(st) /\ Under(bs, st, val, clean) /\ z = Len(st)
        /\ z >= 2 /\ t = Front(st) /\ yes
    BY <1>3, <1>4, <1>5, <1>7 DEF Whole
  <2> QED
    BY ONLY <2>1, PopTyped
<1>10. Whole(bs, t, yes, clean, L, T)
  BY <1>8, <1>9 DEF Whole
<1>11. m \in Nat /\ Chain(st, m)
  BY <1>3, <1>4, <1>5 DEF Whole, Under, IsSequence
<1>12. CASE g.kind = "msg"
  <2>1. fr.b = m
    <3>1. Home(st, z) = m /\ st[z - 1].kind = "msg"
      BY <1>3, <1>5, <1>11, <1>12 DEF Chain
    <3> QED
      BY <1>5, <3>1 DEF Home
  <2>2. /\ fr.o.off \in Nat /\ bs[m].len \in Nat /\ fr.o.off + 24 <= bs[m].len
    BY <1>3, <1>4, <1>5, <2>1, TopBehind DEF Whole
  <2>3. MsgTyped(bs[m], T[m], fr.o)
    <3>1. FrameTyped(bs, T, clean, st[z], OnArray(st, z), Started(st, val, z))
      BY <1>4, <1>5 DEF Whole, Held
    <3>2. ~OnArray(st, z)
      BY <1>3, <1>5, <1>12 DEF OnArray
    <3> QED
      BY <1>5, <2>1, <3>1, <3>2 DEF FrameTyped
  <2>4. PICK x \in Nat : fr.o.off = 4 * x + 4 /\ HdrOffset(bs[m], fr.o) = 4 * x /\ Leads(bs[m], T[m], x)
    BY <2>2, <2>3, MsgLeads
  <2>5. 4 * x < bs[m].len
    BY <2>2, <2>4
  <2>6. g.b = m => g.o.off + 24 <= 4 * x
    <3> SUFFICES ASSUME g.b = m PROVE g.o.off + 24 <= 4 * x
      OBVIOUS
    <3>1. st[z - 1].o.off + 24 <= HdrOf(st[z])
      BY <1>3, <1>4, <1>5, <1>12, <2>1 DEF Whole, Ordered
    <3>2. HdrOf(st[z]) = 4 * x
      BY <1>5, <2>4 DEF HdrOf
    <3> QED
      BY <1>3, <1>5, <3>1, <3>2
  <2>7. PICK i : i = 1 /\ i \in 0 .. 4
    OBVIOUS
  <2>8. cs = [bs EXCEPT ![g.b] = SetP(bs[g.b], g.o, i, 4 * x, g.b = Len(bs))]
    <3>1. cs = [bs EXCEPT ![g.b] = SetP(bs[g.b], g.o, Index["n"], HdrOffset(bs[fr.b], fr.o), g.b = fr.b)]
      BY <1>3, <1>12 DEF CloseMsg
    <3>2. Index["n"] = i
      BY <2>7 DEF Index
    <3> QED
      BY <1>3, <2>1, <2>4, <3>1, <3>2, Zenon
  <2>9. PICK d : u = ReplaceAt(t, y, [kind |-> "msg", b |-> g.b, o |-> g.o, doc |-> d])
    <3>1. PICK d, e : d = [g.doc EXCEPT !.n = <<fr.doc>>] /\ e = [g EXCEPT !.doc.n = <<fr.doc>>]
      OBVIOUS
    <3>2. IsMsg(g)
      <4>1. IsFrame(st[y])
        <5>1. y \in 1 .. Len(st)
          BY <1>3, <1>5
        <5> QED
          BY <1>11, <5>1, ChainIs
      <4> QED
        BY <1>5, <1>12, <4>1 DEF IsFrame
    <3>3. e = [kind |-> "msg", b |-> g.b, o |-> g.o, doc |-> d]
      BY <3>1, <3>2 DEF IsMsg
    <3>4. u = ReplaceAt(t, y, e)
      BY <1>3, <1>8, <1>12, <3>1 DEF CloseMsg
    <3> QED
      BY <3>3, <3>4
  <2>10. Short(cs)
    <3>1. WithinWords' /\ IsSequence(bufs')
      BY DEF IInv
    <3> QED
      BY <1>3, <3>1 DEF WithinWords, Short, ToSet, IsSequence
  <2>11. Ties(bs, t, yes, clean, L, T, g, i, x, cs, d, u)
    BY <1>3, <1>8, <1>10, <1>12, <2>4, <2>5, <2>6, <2>7, <2>8, <2>9, <2>10 DEF Ties
  <2>12. Within(bs, cs, u, late, clean, L)
    BY <2>11, Tied
  <2>13. Within(bufs, bufs', stack', tok' = "value", ~dirty', oldlen)
    BY <1>2, <1>3, <2>12, Zenon
  <2> QED
    BY <1>1, <1>2, <2>13, EarlierGoesOn
<1>13. CASE g.kind = "rep"
  <2>1. cs = bs /\ u = ReplaceAt(t, y, Advance(g, fr.doc))
    BY <1>3, <1>8, <1>13 DEF CloseMsg
  <2>2. PICK item : item = fr.doc
    OBVIOUS
  <2>3. /\ yes /\ Held(bs, t, yes, clean, L, T) /\ Ordered(t) /\ Under(bs, t, yes, clean) /\ y = Len(t)
        /\ t[y].kind = "rep" /\ u = ReplaceAt(t, y, Advance(t[y], item))
    BY <1>7, <1>8, <1>9, <1>13, <2>1, <2>2
  <2>4. Held(bs, u, FALSE, clean, L, T) /\ Ordered(u)
    BY ONLY <2>3, AdvanceTyped
  <2>5. Within(bs, cs, u, FALSE, clean, L)
    BY <2>1, <2>4 DEF Within, SameTo
  <2>6. (tok' = "value") = FALSE
    BY <1>6
  <2>7. Within(bufs, bufs', stack', tok' = "value", ~dirty', oldlen)
    BY <1>2, <1>3, <2>5, <2>6, Zenon
  <2> QED
    BY <1>1, <1>2, <2>7, EarlierGoesOn
<1> QED
  BY <1>3, <1>12, <1>13 DEF CloseMsg

\* An array goes behind what was parsed, what it points to elsewhere.
LEMMA RepBeginKeeps == ASSUME IInv, EInv, IInv', NEW f \in Repeated, RepBegin(f) PROVE EInv'
<1>1. pc = "parsing" /\ Top.kind = "msg"
  BY DEF RepBegin, InMsg
<1>2. /\ pc' = pc /\ bound' = bound /\ oldlen' = oldlen /\ dirty' = dirty /\ results' = results /\ tok' = "value"
      /\ stack' = Append(stack, RepFrame(Cur, NewArr(Last(bufs), 1, ElemSsize(f), ElemPsize(f)), f))
  BY DEF RepBegin
<1>3. PICK bs, ds, st, t, z, val, clean, late, L, m :
          /\ bs = bufs /\ ds = bufs' /\ st = stack /\ t = stack' /\ z = Len(st) /\ m = Len(bs)
          /\ val = (tok = "value") /\ clean = ~dirty /\ late = (tok' = "value") /\ L = oldlen
  OBVIOUS
<1>4. PICK cs, c, o :
          /\ c = AllocArr(bs[m], 1, ElemSsize(f), ElemPsize(f))
          /\ o = NewArr(bs[m], 1, ElemSsize(f), ElemPsize(f)) /\ cs = ReplaceAt(bs, m, c)
  OBVIOUS
<1>5. PICK T : Whole(bs, st, val, clean, L, T)
  BY <1>1, <1>3, Typings
<1>6. IsSequence(bs) /\ Last(bs) = bs[m] /\ m \in 1 .. Len(bs) /\ st[z].kind = "msg"
  BY <1>1, <1>3, Running
<1>7. late
  BY <1>2, <1>3
<1>8. Differs(bs, cs, m, c)
  BY <1>4, <1>6, ReplaceIs DEF ReplaceAt
<1>9. ds = (IF NeedsBuf(f) THEN Append(cs, NewBuf(0)) ELSE cs)
  BY <1>3, <1>4, <1>6 DEF RepBegin, Keep, Cur
<1>10. /\ Held(bs, st, val, clean, L, T) /\ Ordered(st) /\ Under(bs, st, val, clean) /\ z = Len(st)
       /\ st[z].kind = "msg" /\ f \in Repeated /\ m = Len(bs)
       /\ o = NewArr(bs[m], 1, ElemSsize(f), ElemPsize(f))
       /\ c = AllocArr(bs[m], 1, ElemSsize(f), ElemPsize(f)) /\ Differs(bs, cs, m, c)
       /\ ds = (IF NeedsBuf(f) THEN Append(cs, NewBuf(0)) ELSE cs)
       /\ t = Append(st, RepFrame(m, o, f)) /\ late
  BY <1>2, <1>3, <1>4, <1>5, <1>6, <1>7, <1>8, <1>9 DEF Cur, Whole
<1>11. (\E U : Held(ds, t, late, clean, L, U)) /\ Ordered(t) /\ SameTo(bs[1], ds[1], L)
  BY ONLY <1>10, PushRepTyped
<1>12. Within(bs, ds, t, late, clean, L)
  BY <1>11 DEF Within
<1>13. Within(bufs, bufs', stack', tok' = "value", ~dirty', oldlen)
  BY <1>2, <1>3, <1>12, Zenon
<1> QED
  BY <1>1, <1>2, <1>13, EarlierGoesOn

\* A number is stored in the element being read.
LEMMA ScalarElementKeeps == ASSUME IInv, EInv, IInv', ScalarElement PROVE EInv'
<1>1. pc = "parsing" /\ tok = "value" /\ Top.kind = "rep" /\ Top.f = "xs"
  BY DEF ScalarElement, AtElement, InRep
<1>2. PICK v : /\ bufs' = [bufs EXCEPT ![Top.b] = SetWord(@, Top.it.off, v)]
               /\ stack' = ReplaceAt(stack, Len(stack), Advance(Top, v))
  BY DEF ScalarElement, SetTop
<1>3. /\ pc' = pc /\ bound' = bound /\ oldlen' = oldlen /\ dirty' = dirty /\ results' = results
      /\ NextToken(n)
  BY DEF ScalarElement
<1>4. PICK bs, cs, st, t, z, val, clean, L, g, j, d :
          /\ bs = bufs /\ cs = bufs' /\ st = stack /\ t = stack' /\ z = Len(st) /\ g = Top
          /\ val = (tok = "value") /\ clean = ~dirty /\ L = oldlen /\ j = Len(g.items) /\ d = 1 /\ d \in {0, 1}
  OBVIOUS
<1>5. PICK T : Whole(bs, st, val, clean, L, T)
  BY <1>1, <1>4, Typings
<1>6. /\ IsSequence(bs) /\ g = st[z] /\ g.b \in 1 .. Len(bs)
      /\ g.kind = "rep" /\ g.f = "xs" /\ val /\ text = <<>> /\ bound \in Bounds
  BY <1>1, <1>4, Running
<1>7. tok' # "value"
  BY <1>3, <1>6, NextTokenIs
<1>8. PICK c : c = SetWord(bs[g.b], g.it.off, v) /\ cs = [bs EXCEPT ![g.b] = c]
  BY <1>2, <1>4
<1>9. Differs(bs, cs, g.b, c)
  BY <1>6, <1>8, ReplaceIs
<1>10. PICK w \in Nat : 4 * w = g.it.off /\ Stored(bs[g.b], c, w, v)
  <2>1. PICK b : b = bs[g.b]
    OBVIOUS
  <2>2. ArrFacts(b, g, j, d)
    <3>1. /\ Under(bs, st, val, clean) /\ z = Len(st) /\ g = st[z] /\ g.kind = "rep" /\ b = bs[g.b]
          /\ j = Len(g.items) /\ d \in {0, 1} /\ (IF val THEN d = 1 ELSE d = 0)
      BY <1>4, <1>5, <1>6, <2>1 DEF Whole
    <3>2. /\ Started(st, val, z) = j + d
          /\ g.b \in 1 .. Len(bs) /\ GoodBuf(b, clean) /\ (clean => ArrClean(bs, g, j + d))
          /\ ArrFacts(b, g, j, d)
      BY ONLY <3>1, TopArr
    <3> QED
      BY <3>2
  <2>3. PICK off, len, size : off = g.it.off /\ len = b.len /\ size = ObjSize(g.first) /\ off \in Nat
                              /\ off % 4 = 0 /\ len \in Nat /\ size \in Nat /\ off + size = len /\ IsBuf(b)
    BY <1>4, <2>2 DEF ArrFacts
  <2>4. size >= 4
    <3>1. ObjSize(g.first) = 4 * ElemPsize(g.f) + ElemSsize(g.f) /\ g.f \in Repeated
      BY <2>2 DEF ArrFacts, ObjSize
    <3> QED
      BY <2>3, <3>1, ElemSizes
  <2>5. PICK w \in Nat : off = 4 * w
    <3>1. off \div 4 \in Nat /\ off = 4 * (off \div 4)
      BY ONLY <2>3, off \in Nat
    <3> QED
      BY <3>1
  <2>6. off \div 4 = w /\ off < len
    BY ONLY <2>3, <2>4, <2>5, w \in Nat
  <2>7. Kept(b, c, {off \div 4}) /\ c.mem[off \div 4] = v
    <3>1. IsBuf(b) /\ off \in Nat /\ off < b.len /\ c = SetWord(b, off, v)
      BY <1>8, <2>1, <2>3, <2>6
    <3>2. IsBuf(c) /\ Kept(b, c, {off \div 4}) /\ c.len = b.len /\ c.mem[off \div 4] = v
      BY ONLY <3>1, SetWordTo
    <3> QED
      BY <3>2
  <2>8. off \div 4 = w /\ 4 * w = g.it.off
    BY <2>3, <2>5, <2>6
  <2>9. Kept(b, c, {w}) /\ c.mem[w] = v /\ 4 * w = g.it.off
    BY ONLY <2>7, <2>8
  <2> QED
    BY <2>1, <2>9 DEF Stored
<1>11. Held(cs, st, val, clean, L, T) /\ SameTo(bs[1], cs[1], L)
  <2>1. ~NeedsBuf(g.f)
    BY <1>6 DEF NeedsBuf, ElemPsize
  <2>2. /\ Held(bs, st, val, clean, L, T) /\ Under(bs, st, val, clean) /\ z = Len(st) /\ g = st[z]
        /\ g.kind = "rep" /\ Stored(bs[g.b], c, w, v) /\ 4 * w = g.it.off
        /\ (clean /\ NeedsBuf(g.f) => Far(v, bs[g.b + 1], T[g.b + 1]))
        /\ Differs(bs, cs, g.b, c)
    BY <1>4, <1>5, <1>6, <1>9, <1>10, <2>1 DEF Whole
  <2> QED
    BY ONLY <2>2, ElemStoreTyped
<1>12. Under(cs, st, val, clean)
  <2>1. /\ val /\ Under(bs, st, val, clean) /\ z = Len(st) /\ g = st[z] /\ g.kind = "rep"
        /\ g.f \in {"xs", "ss"} /\ (clean /\ g.f = "ss" => PtrTo(v, bs[g.b + 1].len))
        /\ c = SetWord(bs[g.b], g.it.off, v) /\ Differs(bs, cs, g.b, c)
    BY <1>4, <1>5, <1>6, <1>8, <1>9 DEF Whole
  <2> QED
    BY ONLY <2>1, ElemStore
<1>13. Held(cs, t, FALSE, clean, L, T) /\ Ordered(t)
  <2>1. /\ val /\ Held(cs, st, val, clean, L, T) /\ Ordered(st) /\ Under(cs, st, val, clean) /\ z = Len(st)
        /\ st[z].kind = "rep" /\ t = ReplaceAt(st, z, Advance(st[z], v))
    BY <1>2, <1>4, <1>5, <1>6, <1>11, <1>12 DEF Whole
  <2> QED
    BY ONLY <2>1, AdvanceTyped
<1>14. Within(bs, cs, t, FALSE, clean, L)
  BY <1>11, <1>13 DEF Within
<1>15. (tok' = "value") = FALSE
  BY <1>7
<1>16. Within(bufs, bufs', stack', tok' = "value", ~dirty', oldlen)
  BY <1>3, <1>4, <1>14, <1>15, Zenon
<1> QED
  BY <1>1, <1>3, <1>16, EarlierGoesOn

\* A string is built apart, its position stored in the element being read.
LEMMA StringElementKeeps == ASSUME IInv, EInv, IInv', StringElement PROVE EInv'
<1>1. pc = "parsing" /\ tok = "value" /\ Top.kind = "rep" /\ Top.f = "ss"
  BY DEF StringElement, AtElement, InRep
<1>2. PICK v : /\ bufs' = StrInto(Top.b, Top.it, 0, v)
               /\ stack' = ReplaceAt(stack, Len(stack), Advance(Top, v))
  BY DEF StringElement, SetTop
<1>3. /\ pc' = pc /\ bound' = bound /\ oldlen' = oldlen /\ dirty' = dirty /\ results' = results
      /\ NextToken(n)
  BY DEF StringElement
<1>4. PICK bs, cs, st, t, z, val, clean, L, g, m :
          /\ bs = bufs /\ cs = bufs' /\ st = stack /\ t = stack' /\ z = Len(st) /\ g = Top /\ m = Len(bs)
          /\ val = (tok = "value") /\ clean = ~dirty /\ L = oldlen
  OBVIOUS
<1>5. PICK T : Whole(bs, st, val, clean, L, T)
  BY <1>1, <1>4, Typings
<1>6. /\ IsSequence(bs) /\ g = st[z] /\ Last(bs) = bs[m]
      /\ g.kind = "rep" /\ g.f = "ss" /\ val /\ text = <<>> /\ bound \in Bounds
  BY <1>1, <1>4, Running
<1>7. tok' # "value"
  BY <1>3, <1>6, NextTokenIs
<1>8. PICK c, ds : c = StrOr(bs[m], v) /\ ds = ReplaceAt(bs, m, c)
  OBVIOUS
<1>9. StrEnds(bs, ds, st, val, clean, m, c, v)
  <2>1. NeedsBuf("ss")
    BY DEF NeedsBuf, ElemPsize
  <2> QED
    BY <1>4, <1>5, <1>6, <1>8, <2>1 DEF StrEnds, Whole
<1>10. Under(ds, st, val, clean) /\ Len(ds) = m /\ Last(ds) = c /\ ds[m] = c
  BY ONLY <1>9, StrBuf
<1>11. PICK U : /\ Whole(ds, st, val, clean, L, U) /\ SameTo(bs[1], ds[1], L)
                /\ StrAtEnd(bs[m], c, U[m], v)
  <2>1. Whole(bs, st, val, clean, L, T) /\ StrEnds(bs, ds, st, val, clean, m, c, v)
    BY <1>5, <1>9
  <2> QED
    BY ONLY <2>1, StrBufTyped
<1>12. Whole(cs, st, val, clean, L, U) /\ SameTo(bs[1], cs[1], L)
  <2>1. CASE v = 0
    <3>1. cs = ds
      BY <1>2, <1>4, <1>6, <1>8, <2>1 DEF StrInto, Keep, Cur, StrOr
    <3> QED
      BY <1>11, <3>1
  <2>2. CASE v # 0
    <3>1. PICK h \in Nat : /\ HdrOffset(c, StrObj(bs[m])) = 4 * h /\ Leads(c, U[m], h)
                           /\ 4 * h >= bs[m].len /\ 4 * h < c.len
      BY <1>11, <2>2 DEF StrAtEnd
    <3>2. PICK hdr : hdr = 4 * h /\ hdr \in Nat /\ hdr < ds[m].len
      BY <1>10, <3>1
    <3>3. PICK e : e = SetP(ds[g.b], g.it, 0, hdr, g.b = m)
      OBVIOUS
    <3>4. cs = [ds EXCEPT ![g.b] = e]
      <4>1. cs = [ds EXCEPT ![g.b] = SetP(ds[g.b], g.it, 0, HdrOffset(c, StrObj(bs[m])), g.b = m)]
        BY <1>2, <1>4, <1>6, <1>8, <1>10, <2>2 DEF StrInto, Keep, Cur, StrOr
      <4> QED
        BY <3>1, <3>2, <3>3, <4>1, Zenon
    <3>5. Under(cs, st, val, clean)
      <4>1. /\ val /\ Under(ds, st, val, clean) /\ z = Len(st) /\ g = st[z] /\ g.kind = "rep" /\ g.f = "ss"
            /\ m = Len(ds) /\ hdr \in Nat /\ hdr < ds[m].len
            /\ e = SetP(ds[g.b], g.it, 0, hdr, g.b = m) /\ cs = [ds EXCEPT ![g.b] = e]
        BY <1>4, <1>6, <1>10, <3>2, <3>3, <3>4
      <4> QED
        BY ONLY <4>1, SetElem
    <3>6. Held(cs, st, val, clean, L, U) /\ SameTo(ds[1], cs[1], L)
      <4>1. e = SetP(ds[g.b], g.it, 0, 4 * h, g.b = m)
        BY <3>2, <3>3, Zenon
      <4>2. ElemSet(ds, st, val, clean, L, U, g, h, e, cs) /\ h \in Nat /\ z = Len(st) /\ m = Len(ds)
        BY <1>4, <1>6, <1>10, <1>11, <3>1, <3>4, <4>1 DEF Whole, ElemSet
      <4> QED
        BY ONLY <4>2, SetElemTyped
    <3> QED
      BY <1>11, <3>5, <3>6, SameTwice DEF Whole
  <2> QED
    BY <2>1, <2>2
<1>13. Held(cs, t, FALSE, clean, L, U) /\ Ordered(t)
  <2>1. /\ val /\ Held(cs, st, val, clean, L, U) /\ Ordered(st) /\ Under(cs, st, val, clean) /\ z = Len(st)
        /\ st[z].kind = "rep" /\ t = ReplaceAt(st, z, Advance(st[z], v))
    BY <1>2, <1>4, <1>6, <1>12 DEF Whole
  <2> QED
    BY ONLY <2>1, AdvanceTyped
<1>14. Within(bs, cs, t, FALSE, clean, L)
  BY <1>12, <1>13 DEF Within
<1>15. (tok' = "value") = FALSE
  BY <1>7
<1>16. Within(bufs, bufs', stack', tok' = "value", ~dirty', oldlen)
  BY <1>3, <1>4, <1>14, <1>15, Zenon
<1> QED
  BY <1>1, <1>3, <1>16, EarlierGoesOn

\* A message begins in the element being read.
LEMMA MsgElementKeeps == ASSUME IInv, EInv, IInv', MsgElement PROVE EInv'
<1>1. pc = "parsing" /\ tok = "value" /\ Top.kind = "rep" /\ Top.f = "r"
  BY DEF MsgElement, AtElement, InRep
<1>2. /\ pc' = pc /\ bound' = bound /\ oldlen' = oldlen /\ dirty' = dirty /\ bufs' = bufs /\ results' = results
      /\ stack' = Append(stack, MsgFrame(Top.b, Top.it))
  BY DEF MsgElement
<1>3. PICK bs, st, t, z, val, clean, late, L, fr :
          /\ bs = bufs /\ st = stack /\ t = stack' /\ z = Len(st) /\ fr = MsgFrame(Top.b, Top.it)
          /\ val = (tok = "value") /\ clean = ~dirty /\ late = (tok' = "value") /\ L = oldlen
  OBVIOUS
<1>4. PICK T : Whole(bs, st, val, clean, L, T)
  BY <1>1, <1>3, Typings
<1>5. /\ st[z].kind = "rep" /\ val /\ IsSequence(st) /\ z \in Nat /\ z >= 1
  <2>1. Len(stack) \in Nat /\ Len(stack) \in 1 .. Len(stack) /\ Top = stack[Len(stack)] /\ IsSequence(stack)
    BY <1>1, Running
  <2>2. val
    BY <1>1, <1>3
  <2> QED
    BY <1>1, <1>3, <2>1, <2>2
<1>6. fr.kind = "msg" /\ t = Append(st, fr)
  BY <1>2, <1>3 DEF MsgFrame
<1>7. PushedTyped(bs, st, val, clean, L, T, fr, t, late)
  <2>1. ~(fr.kind = "rep") /\ ~(st[z].kind = "msg")
    BY <1>5, <1>6
  <2> QED
    BY <1>3, <1>4, <1>5, <1>6, <2>1 DEF PushedTyped, Whole
<1>8. Within(bs, bs, t, late, clean, L)
  BY <1>7, PushStep DEF Within, SameTo
<1>9. Within(bufs, bufs', stack', tok' = "value", ~dirty', oldlen)
  BY <1>2, <1>3, <1>8, Zenon
<1> QED
  BY <1>1, <1>2, <1>9, EarlierGoesOn

\* An array grows at the end of its buffer.
LEMMA RepMoreKeeps == ASSUME IInv, EInv, IInv', RepMore PROVE EInv'
<1>1. pc = "parsing" /\ tok # "value" /\ Top.kind = "rep" /\ bufs[Top.b].len = Top.it.off
  BY DEF RepMore, AfterElement, InRep
<1>2. /\ pc' = pc /\ bound' = bound /\ oldlen' = oldlen /\ dirty' = dirty /\ results' = results
      /\ stack' = stack /\ tok' = "value"
      /\ bufs' = [bufs EXCEPT ![Top.b] = Alloc(bufs[Top.b], ObjSize(Top.it))]
  BY DEF RepMore
<1>3. PICK bs, cs, st, z, val, clean, late, L, g :
          /\ bs = bufs /\ cs = bufs' /\ st = stack /\ z = Len(st) /\ g = Top
          /\ val = (tok = "value") /\ clean = ~dirty /\ late = (tok' = "value") /\ L = oldlen
  OBVIOUS
<1>4. PICK T : Whole(bs, st, val, clean, L, T)
  BY <1>1, <1>3, Typings
<1>5. /\ g = st[z] /\ g.kind = "rep" /\ ~val /\ bs[g.b].len = g.it.off
      /\ IsSequence(bs) /\ g.b \in 1 .. Len(bs)
  BY <1>1, <1>3, Running
<1>6. late
  BY <1>2, <1>3
<1>7. PICK c : c = Alloc(bs[g.b], ObjSize(g.it)) /\ cs = [bs EXCEPT ![g.b] = c]
  BY <1>2, <1>3
<1>8. Differs(bs, cs, g.b, c)
  BY <1>5, <1>7, ReplaceIs
<1>9. MoreTo(bs, st, val, clean, L, T, g, c, cs)
  BY <1>3, <1>4, <1>5, <1>7, <1>8 DEF MoreTo, Whole
<1>10. Held(cs, st, late, clean, L, T) /\ SameTo(bs[1], cs[1], L)
  BY <1>6, <1>9, MoreTyped
<1>11. Within(bs, cs, st, late, clean, L)
  BY <1>4, <1>10 DEF Within, Whole
<1>12. Within(bufs, bufs', stack', tok' = "value", ~dirty', oldlen)
  BY <1>2, <1>3, <1>11, Zenon
<1> QED
  BY <1>1, <1>2, <1>12, EarlierGoesOn

\* nbuf_fix_arr makes distances of the positions in a finished array, which the message
\* then points to.
LEMMA RepFinishKeeps == ASSUME IInv, EInv, IInv', WithinWords, WithinWords', RepFinish PROVE EInv'
<1>1. pc = "parsing" /\ tok # "value" /\ Top.kind = "rep"
  BY DEF RepFinish, AfterElement, InRep
<1>2. pc' = pc /\ bound' = bound /\ oldlen' = oldlen /\ dirty' = dirty /\ results' = results
  BY DEF RepFinish
<1>3. PICK bs, es, st, t, u, z, y, val, clean, L, g, fr, yes :
          /\ bs = bufs /\ es = bufs' /\ st = stack /\ t = Front(st) /\ u = stack' /\ g = Top /\ fr = Below
          /\ z = Len(st) /\ y = z - 1 /\ val = (tok = "value") /\ clean = ~dirty /\ L = oldlen /\ yes = TRUE
  OBVIOUS
<1>4. PICK T : Whole(bs, st, val, clean, L, T)
  BY <1>1, <1>3, Typings
<1>5. /\ OnArr(bs, st, val, clean, z, g) /\ fr = st[y] /\ IsRep(g) /\ Last(bs) = bs[Len(bs)] /\ IsSequence(bs)
      /\ g.b \in 1 .. Len(bs)
  BY <1>1, <1>3, Running DEF OnArr, Below
<1>6. Ending(bs, st, val, clean, L, T, z, g)
  <2>1. Short(bs)
    BY <1>3, <1>5 DEF WithinWords, Short, ToSet, IsSequence
  <2>2. bs[g.b].len < M
    BY <1>5, <2>1 DEF Short
  <2> QED
    BY <1>4, <1>5, <2>2 DEF Ending, Whole
<1>7. PICK c, cs : c = Finished(bs, g) /\ cs = [i \in 1 .. g.b |-> IF i = g.b THEN c ELSE bs[i]]
  OBVIOUS
<1>8. /\ Under(cs, t, yes, clean) /\ SameRoot(st, t) /\ Len(cs) = g.b /\ cs[g.b] = c
      /\ z >= 2 /\ Len(t) = z - 1 /\ t[z - 1] = st[z - 1] /\ t[z - 1].kind = "msg"
      /\ HdrOffset(c, g.first) \in Nat /\ HdrOffset(c, g.first) < c.len
  <2>1. /\ OnArr(bs, st, val, clean, z, g) /\ c = Finished(bs, g)
        /\ cs = [i \in 1 .. g.b |-> IF i = g.b THEN c ELSE bs[i]] /\ t = Front(st)
    BY <1>3, <1>5, <1>7
  <2> QED
    BY ONLY <2>1, PopRep
<1>9. PICK i, e, d, h, m :
          /\ i = Index[g.f] /\ e = SetP(cs[fr.b], fr.o, i, HdrOffset(c, g.first), fr.b = m)
          /\ d = [fr.doc EXCEPT ![g.f] = @ \o g.items] /\ h = [fr EXCEPT !.doc[g.f] = @ \o g.items]
          /\ m = g.b
  OBVIOUS
<1>10. es = [cs EXCEPT ![fr.b] = e] /\ u = ReplaceAt(t, y, h)
  <2>1. Complete(g) = c
    BY <1>3, <1>5, <1>7 DEF Complete, Resized, Finished
  <2> QED
    BY <1>3, <1>7, <1>8, <1>9, <2>1 DEF RepFinish
<1>11. Short(es)
  <2>1. WithinWords' /\ IsSequence(bufs')
    BY DEF IInv
  <2> QED
    BY <1>3, <2>1 DEF WithinWords, Short, ToSet, IsSequence
<1>12. /\ fr.kind = "msg" /\ y = Len(t) /\ fr = t[y] /\ IsMsg(fr) /\ fr.b \in 1 .. Len(cs) /\ IsSequence(cs)
       /\ IsBuf(cs[fr.b])
  <2>1. fr.kind = "msg" /\ y = Len(t) /\ fr = t[y]
    BY <1>3, <1>5, <1>8
  <2>2. /\ y \in 1 .. Len(t) /\ fr.b \in 1 .. Len(cs)
    BY <1>8, <2>1, TopBehind
  <2>3. IsFrame(fr)
    <3>1. PICK k \in Nat : k = Len(cs) /\ Chain(t, k)
      BY <1>8 DEF Under, Memory, IsSequence
    <3> QED
      BY <2>1, <2>2, <3>1, ChainIs
  <2>4. IsMsg(fr) /\ IsSequence(cs) /\ IsBuf(cs[fr.b])
    BY <1>8, <2>1, <2>2, <2>3 DEF IsFrame, Under, Memory, GoodBuf
  <2> QED
    BY <2>1, <2>2, <2>4
<1>13. c.len < M
  <2>1. Differs(cs, es, fr.b, e)
    BY <1>10, <1>12, ReplaceIs
  <2>2. e.len = cs[fr.b].len
    BY <1>9, <1>12 DEF SetP, SetWord, IsBuf
  <2>3. g.b \in 1 .. Len(es)
    BY <1>5, <1>8, <2>1 DEF Differs
  <2>4. es[g.b].len = c.len
    BY <1>5, <1>8, <2>1, <2>2 DEF Differs
  <2> QED
    BY <1>11, <2>3, <2>4 DEF Short
<1>14. PICK U, x : /\ Held(cs, t, yes, clean, L, U) /\ Leads(c, U[g.b], x) /\ x \in Nat /\ 4 * x < M
                   /\ HdrOffset(c, g.first) = 4 * x
                   /\ (st[z - 1].b = g.b => st[z - 1].o.off + 24 <= 4 * x)
                   /\ Ordered(t) /\ SameTo(bs[1], cs[1], L)
  <2>1. EndsIn(bs, st, val, clean, L, T, z, g, c, cs, t) /\ yes
    BY <1>3, <1>6, <1>7, <1>13 DEF EndsIn
  <2>2. /\ \E U, x : PointedTo(cs, t, yes, clean, L, st, z, g, c, U, x)
        /\ Ordered(t) /\ SameTo(bs[1], cs[1], L)
    BY ONLY <2>1, PopRepTyped
  <2> QED
    BY <2>2 DEF PointedTo
<1>15. Whole(cs, t, yes, clean, L, U)
  BY <1>8, <1>14 DEF Whole
<1>16. i \in 0 .. 4
  BY <1>5, <1>9 DEF IsRep, Repeated, Index
<1>17. u = ReplaceAt(t, y, [kind |-> "msg", b |-> fr.b, o |-> fr.o, doc |-> d])
  <2>1. h = [kind |-> "msg", b |-> fr.b, o |-> fr.o, doc |-> d]
    BY <1>5, <1>9, <1>12, <1>16 DEF IsMsg
  <2> QED
    BY <1>10, <2>1
<1>18. es = [cs EXCEPT ![fr.b] = SetP(cs[fr.b], fr.o, i, 4 * x, fr.b = Len(cs))]
  <2>1. m = Len(cs) /\ HdrOffset(c, g.first) = 4 * x
    BY <1>8, <1>9, <1>14
  <2>2. e = SetP(cs[fr.b], fr.o, i, HdrOffset(c, g.first), fr.b = m) /\ es = [cs EXCEPT ![fr.b] = e]
    BY <1>9, <1>10
  <2> QED
    BY <2>1, <2>2, Zenon
<1>19. /\ fr.b = Len(cs) => fr.o.off + 24 <= 4 * x
       /\ 4 * x < cs[Len(cs)].len /\ Leads(cs[Len(cs)], U[Len(cs)], x)
  BY <1>3, <1>5, <1>8, <1>14
<1>20. Ties(cs, t, yes, clean, L, U, fr, i, x, es, d, u)
  BY <1>11, <1>12, <1>14, <1>15, <1>16, <1>17, <1>18, <1>19 DEF Ties
<1>21. PICK late : late = (tok' = "value")
  OBVIOUS
<1>22. Within(cs, es, u, late, clean, L)
  BY <1>20, Tied
<1>23. Within(bs, es, u, late, clean, L)
  BY <1>14, <1>22, WithinTwice
<1>24. Within(bufs, bufs', stack', tok' = "value", ~dirty', oldlen)
  BY <1>2, <1>3, <1>21, <1>23, Zenon
<1> QED
  BY <1>1, <1>2, <1>24, EarlierGoesOn

\* An assertion fails: the buffer stays as it is.
LEMMA AbortKeeps == ASSUME IInv, EInv, Abort PROVE EInv'
<1>1. pc = "parsing" /\ pc' = "aborted" /\ UNCHANGED <<tok, bound, bufs, stack, oldlen, results, dirty>>
  BY DEF Abort, AfterElement, InRep
<1>2. FixedLen' = FixedLen
  BY <1>1 DEF FixedLen
<1>3. Ordered(stack) /\ IsSequence(results)
  BY <1>1 DEF EInv
<1>4. ASSUME NEW r \in ToSet(results'), ~r.dirty PROVE Reads(r, bufs', bound', FixedLen')
  BY <1>1, <1>2, <1>4 DEF EInv
<1>5. PICK T : Held(bufs, stack, tok = "value", ~dirty, oldlen, T)
  BY <1>1 DEF EInv
<1>6. Held(bufs', stack', tok' = "value", ~dirty', oldlen', T)
  BY <1>1, <1>5, Zenon
<1> QED
  BY <1>1, <1>3, <1>4, <1>6 DEF EInv

\* A failed parse gives back only what it allocated.
LEMMA FailKeeps == ASSUME IInv, EInv, Fail PROVE EInv'
<1>1. /\ pc = "parsing" /\ pc' = "failed" /\ bound' = bound /\ oldlen' = oldlen /\ results' = results
      /\ \E b \in {bufs[1], WithStr(bufs[1], n + 1)} : bufs' = <<[b EXCEPT !.len = oldlen]>>
  BY DEF Fail
<1>2. PICK a, b, c : /\ a = bufs[1] /\ (b = a \/ b = WithStr(a, n + 1))
                     /\ c = [b EXCEPT !.len = oldlen] /\ bufs' = <<c>>
  BY <1>1
<1>3. /\ Under(bufs, stack, tok = "value", ~dirty) /\ oldlen \in Nat /\ oldlen <= stack[1].o.off
      /\ 1 \in 1 .. Len(bufs) /\ 1 \in 1 .. Len(stack) /\ stack[1].b = 1 /\ stack[1].kind = "msg"
  <2>1. Under(bufs, stack, tok = "value", ~dirty) /\ Len(bufs) \in Nat /\ Len(bufs) \in 1 .. Len(bufs)
        /\ Len(stack) \in Nat /\ Len(stack) \in 1 .. Len(stack)
    BY <1>1, Running
  <2> QED
    BY <1>1, <2>1 DEF IInv, Under, Chain
<1>4. GoodBuf(a, ~dirty) /\ MsgIn(a, stack[1].o)
  BY <1>2, <1>3 DEF Under, Memory, FrameIn
<1>5. oldlen <= a.len /\ a.len \in Nat
  <2>1. PICK x \in Nat, y \in Nat : x = stack[1].o.off /\ y = a.len /\ x + 24 <= y
    BY <1>4 DEF MsgIn, GoodBuf, IsBuf
  <2> QED
    BY <1>3, <2>1
<1>6. IsBuf(b) /\ oldlen <= b.len /\ SameTo(a, b, oldlen)
  <2>1. CASE b = a
    BY <1>4, <1>5, <2>1 DEF GoodBuf, SameTo
  <2>2. CASE b = WithStr(a, n + 1)
    <3>1. Kept(a, b, {})
      BY <1>4, <2>2, WithStrIs
    <3>2. IsBuf(b) /\ b.len \in Nat /\ a.len <= b.len
      BY <3>1 DEF Kept, IsBuf
    <3>3. ASSUME NEW w \in Nat, 4 * w < oldlen PROVE b.mem[w] = a.mem[w]
      <4>1. 4 * w < a.len /\ w \in Nat \ {}
        BY <1>3, <1>5, <3>3
      <4> QED
        BY <3>1, <4>1 DEF Kept
    <3> QED
      BY <1>3, <1>5, <3>2, <3>3 DEF SameTo
  <2> QED
    BY <1>2, <2>1, <2>2
<1>7. c.mem = b.mem /\ c.len = oldlen
  BY <1>2, <1>3, <1>6, ShortIs
<1>8. IsSequence(bufs') /\ Len(bufs') = 1 /\ bufs'[1] = c
  BY <1>2, SingletonIs
<1>9. FixedLen = oldlen /\ FixedLen' = oldlen
  BY <1>1, <1>7, <1>8 DEF FixedLen
<1>10. ASSUME NEW r \in ToSet(results), ~r.dirty PROVE Reads(r, bufs', bound, oldlen)
  <2>1. Reads(r, bufs, bound, oldlen)
    BY <1>9, <1>10 DEF EInv
  <2>2. oldlen < M
    BY <2>1, ReadsShort
  <2>3. Goes(bufs, bufs', oldlen, oldlen)
    <3>1. SameTo(a, c, oldlen)
      BY ONLY <1>6, <1>7 DEF SameTo
    <3>2. a = bufs[1] /\ c = bufs'[1] /\ c.len = oldlen /\ oldlen \in Nat
      BY <1>2, <1>3, <1>7, <1>8
    <3> QED
      BY ONLY <3>1, <3>2, <2>2 DEF Goes
  <2> QED
    BY <2>1, <2>3, ReadsOn DEF IInv
<1> QED
  BY <1>1, <1>9, <1>10 DEF EInv

\* A buffer is as it is, and so is what lies below its length.
LEMMA SoundLasts ==
    ASSUME NEW b, NEW t, Sound(b, t, TRUE), NEW o, MsgTyped(b, t, o), MsgIn(b, o), b.len < M
    PROVE  Lasts(b, b.len, o)
<1>1. PICK d : d = Cut(b, b.len)
  OBVIOUS
<1>2. d.mem = b.mem /\ d.len = b.len /\ b.len \in Nat
  BY <1>1 DEF Cut, Sound, Kinds
<1>3. Kinds(b, t) /\ \A w \in t.ptrs : Near(b, t, w)
  BY DEF Sound
<1>4. Kinds(d, t)
  BY <1>2, <1>3 DEF Kinds
<1>5. Carries(b, t, d, t, 0)
  <2>1. \A w \in t.fixed \cup t.ptrs : w \in Nat /\ w + 0 = w
    BY <1>3 DEF Kinds
  <2> QED
    BY <1>2, <2>1 DEF Carries
<1>6. ASSUME NEW w \in t.ptrs PROVE Near(d, t, w)
  <2>1. w \in Nat /\ Near(b, t, w) /\ d.mem[w] = b.mem[w]
    BY <1>2, <1>3, <1>6 DEF Kinds
  <2> QED
    BY <1>5, <2>1, NearHere
<1>7. Agree(b, b, b.len, t)
  BY <1>1, <1>2, <1>4, <1>6 DEF Agree, Typed, SameTo
<1>8. Rooted(o, t, b.len)
  <2>1. PICK off \in Nat : off = o.off /\ o = Object(1, off, MsgSsize, MsgPsize) /\ off + 24 <= b.len
    BY DEF MsgIn
  <2>2. o \in Objects /\ o.psize = 5 /\ ObjSize(o) = 24 /\ o.off + ObjSize(o) <= b.len
    BY <2>1 DEF Objects, Object, ObjSize, MsgSsize, MsgPsize
  <2>3. PICK x \in Nat : off = 4 * x + 4 /\ \A i \in 0 .. 4 : x + 1 + i \in t.ptrs
    BY <2>1 DEF MsgTyped
  <2>4. ASSUME NEW i \in 0 .. o.psize - 1 PROVE \E w \in t.ptrs : o.off + 4 * i = 4 * w
    <3>1. i \in 0 .. 4 /\ i \in Int
      BY <2>2, <2>4
    <3>2. x + 1 + i \in t.ptrs
      BY <2>3, <3>1
    <3>3. o.off + 4 * i = 4 * (x + 1 + i)
      BY <2>1, <2>3, <3>1
    <3> QED
      BY <3>2, <3>3
  <2> QED
    BY <2>2, <2>4 DEF Rooted
<1> QED
  BY <1>7, <1>8 DEF Lasts

\* A message that is read to its end is one of those that stay.
LEMMA FinishKeeps == ASSUME IInv, EInv, WithinWords, Finish PROVE EInv'
<1>1. PICK r : /\ r = [o |-> Top.o, doc |-> Top.doc, read |-> Decode(bufs[1], Top.o, bound.depth),
                       scattered |-> scattered, dirty |-> dirty]
               /\ results' = Append(results, r)
  BY DEF Finish
<1>2. /\ pc = "parsing" /\ pc' = "done" /\ Len(stack) = 1 /\ Top.kind = "msg"
      /\ bound' = bound /\ bufs' = bufs /\ oldlen' = oldlen
  BY DEF Finish, InMsg
<1>3. PICK bs, st, val, clean, L, b, o : /\ bs = bufs /\ st = stack /\ val = (tok = "value") /\ clean = ~dirty
                                         /\ L = oldlen /\ b = bs[1] /\ o = Top.o
  OBVIOUS
<1>4. PICK T : Whole(bs, st, val, clean, L, T)
  BY <1>2, <1>3, Typings
<1>5. /\ IsSequence(bs) /\ Top = st[1] /\ st[1].kind = "msg" /\ Len(st) = 1 /\ 1 \in 1 .. Len(st)
      /\ 1 \in 1 .. Len(bs)
  <2>1. IsSequence(bs) /\ Top = stack[Len(stack)] /\ Len(bs) \in Nat /\ Len(bs) \in 1 .. Len(bs)
    BY <1>2, <1>3, Running
  <2>2. Len(st) = 1
    BY <1>2, <1>3
  <2>3. 1 \in 1 .. Len(st) /\ 1 \in 1 .. Len(bs)
    BY ONLY <2>1, <2>2
  <2> QED
    BY <1>2, <1>3, <2>1, <2>2, <2>3
<1>6. st[1].b = 1 /\ MsgIn(b, o) /\ IsBuf(b)
  <2>1. st[1].b = 1
    BY <1>4, <1>5 DEF Whole, Under, Chain
  <2>2. MsgIn(bs[st[1].b], st[1].o)
    BY <1>4, <1>5, TopBehind DEF Whole
  <2>3. IsBuf(bs[1])
    BY <1>4, <1>5 DEF Whole, Under, Memory, GoodBuf
  <2> QED
    BY <1>3, <1>5, <2>1, <2>2, <2>3
<1>7. Sound(b, T[1], clean) /\ MsgTyped(b, T[1], o)
  <2>1. ~OnArray(st, 1)
    BY DEF OnArray
  <2>2. FrameTyped(bs, T, clean, st[1], OnArray(st, 1), Started(st, val, 1))
    BY <1>4, <1>5 DEF Whole, Held
  <2>3. MsgTyped(bs[st[1].b], T[st[1].b], st[1].o)
    BY <1>5, <2>1, <2>2 DEF FrameTyped
  <2>4. Sound(bs[1], T[1], clean)
    BY <1>4, <1>5 DEF Whole, Held
  <2> QED
    BY <1>3, <1>5, <1>6, <2>3, <2>4
<1>8. b.len < M /\ b.len \in Nat
  BY <1>3, <1>5, <1>6 DEF WithinWords, ToSet, IsSequence, IsBuf
<1>9. FixedLen = L /\ FixedLen' = b.len /\ b = bufs[1] /\ b = bufs'[1]
  BY <1>2, <1>3 DEF FixedLen
<1>10. ~dirty => Reads(r, bufs', bound', FixedLen')
  <2> SUFFICES ASSUME ~dirty PROVE Reads(r, bufs', bound', FixedLen')
    OBVIOUS
  <2>1. clean
    BY <1>3
  <2>2. Sound(b, T[1], TRUE)
    BY <1>7, <2>1 DEF Sound
  <2>3. Lasts(b, b.len, o)
    BY <1>6, <1>7, <1>8, <2>2, SoundLasts
  <2>4. r.o = o /\ r.read = Decode(bufs[1], o, bound.depth)
    BY <1>1, <1>3
  <2>5. Lasts(bufs'[1], FixedLen', r.o)
    BY <1>9, <2>3, <2>4
  <2>6. r.read = Decode(bufs'[1], r.o, bound'.depth)
    BY <1>2, <2>4
  <2> QED
    BY <2>5, <2>6 DEF Reads
<1>11. ASSUME NEW q \in ToSet(results), ~q.dirty PROVE Reads(q, bufs', bound', FixedLen')
  <2>1. Reads(q, bufs, bound, L)
    BY <1>9, <1>11 DEF EInv
  <2>2. L <= b.len
    BY <1>9, <2>1, ReadsShort
  <2>3. Goes(bufs, bufs, L, b.len)
    BY <1>8, <1>9, <2>2 DEF Goes, SameTo
  <2>4. Reads(q, bufs, bound, b.len)
    BY <2>1, <2>3, ReadsOn DEF IInv
  <2> QED
    BY <1>2, <1>9, <2>4
<1>12. IsSequence(results)
  BY DEF EInv
<1>13. IsSequence(results') /\ \A q \in ToSet(results') : q = r \/ q \in ToSet(results)
  <2>1. PICK s, k : s = results' /\ k = Len(results) /\ k \in Nat
    BY <1>12 DEF IsSequence
  <2>2. /\ IsSequence(s) /\ Len(s) = k + 1 /\ s[k + 1] = r
        /\ \A j \in 1 .. k : s[j] = results[j]
    BY <1>1, <1>12, <2>1, AppendIs
  <2>3. ASSUME NEW j \in 1 .. Len(s) PROVE s[j] = r \/ s[j] \in ToSet(results)
    <3>1. CASE j = k + 1
      BY <2>2, <3>1
    <3>2. CASE j # k + 1
      <4>1. j \in 1 .. k
        BY <2>1, <2>2, <2>3, <3>2
      <4>2. j \in DOMAIN results /\ s[j] = results[j]
        BY <1>12, <2>1, <2>2, <4>1 DEF IsSequence
      <4> QED
        BY <4>2 DEF ToSet
    <3> QED
      BY <3>1, <3>2
  <2>4. DOMAIN s = 1 .. Len(s)
    BY <2>2 DEF IsSequence
  <2> QED
    BY <2>1, <2>2, <2>3, <2>4 DEF ToSet
<1>14. r.dirty = dirty
  BY <1>1
<1>15. ASSUME NEW q \in ToSet(results'), ~q.dirty PROVE Reads(q, bufs', bound', FixedLen')
  BY <1>10, <1>11, <1>13, <1>14, <1>15
<1> QED
  BY <1>2, <1>13, <1>15 DEF EInv

\* The words below len, as they are
AllFixed(len) == [fixed |-> {w \in Nat : 4 * w < len}, ptrs |-> {}, data |-> {}]

\* nbuf_parse is called: what is in the buffer is fixed from now on.
LEMMA RootTyped ==
    ASSUME NEW b, NEW clean, GoodBuf(b, clean), NEW o, o = NewObj(b, MsgSsize, MsgPsize),
           NEW c, c = AllocObj(b, MsgSsize, MsgPsize), NEW bs, bs = <<c>>,
           NEW st, st = <<MsgFrame(1, o)>>, NEW val
    PROVE  /\ \E T : Held(bs, st, val, clean, b.len, T)
           /\ Ordered(st) /\ SameTo(b, c, b.len) /\ b.len \in Nat /\ c.len \in Nat /\ b.len <= c.len
<1>1. PICK t, h, u, T, len : /\ t = AllFixed(len) /\ h = Words(len) /\ u = MsgKinds(t, h)
                             /\ T = [k \in Nat |-> u] /\ len = b.len
  OBVIOUS
<1>2. len \in Nat
  BY <1>1 DEF GoodBuf, IsBuf
<1>3. Sound(b, t, clean)
  BY <1>1, <1>2 DEF Sound, Kinds, AllFixed
<1>4. Retyped(b, t, c, u, clean) /\ MsgTyped(c, u, o)
  <2>1. /\ GoodBuf(b, clean) /\ Sound(b, t, clean) /\ o = NewObj(b, MsgSsize, MsgPsize)
        /\ c = AllocObj(b, MsgSsize, MsgPsize) /\ h = Words(b.len) /\ u = MsgKinds(t, h)
    BY <1>1, <1>3
  <2>2. /\ h \in Nat /\ 4 * h >= b.len /\ o.off = 4 * h + 4
        /\ Retyped(b, t, c, u, clean) /\ MsgTyped(c, u, o)
    BY ONLY <2>1, NewMsgTyped
  <2> QED
    BY <2>2
<1>5. /\ IsSequence(bs) /\ Len(bs) = 1 /\ bs[1] = c /\ IsSequence(st) /\ Len(st) = 1
      /\ st[1] = MsgFrame(1, o)
  BY SingletonIs
<1>6. st[1].kind = "msg" /\ st[1].b = 1 /\ st[1].o = o
  BY <1>5 DEF MsgFrame
<1>7. T[1] = u /\ T = [k \in Nat |-> T[k]]
  BY <1>1
<1>8. \A w \in Nat : 4 * w < len => w \in t.fixed /\ w \in u.fixed
  BY <1>1 DEF AllFixed, MsgKinds
<1>9. FrameTyped(bs, T, clean, st[1], OnArray(st, 1), Started(st, val, 1))
  BY <1>4, <1>5, <1>6, <1>7 DEF FrameTyped
<1>10. Held(bs, st, val, clean, len, T)
  <2>1. \A k \in 1 .. Len(bs) : Sound(bs[k], T[k], clean)
    BY <1>4, <1>5, <1>7 DEF Retyped
  <2>2. \A k \in 1 .. Len(st) : k = 1
    BY <1>5
  <2>3. \A k \in 1 .. Len(st) : FrameTyped(bs, T, clean, st[k], OnArray(st, k), Started(st, val, k))
    BY <1>9, <2>2
  <2> QED
    BY <1>7, <1>8, <2>1, <2>3 DEF Held
<1>11. Ordered(st)
  BY <1>5 DEF Ordered
<1>12. Carries(b, t, c, u, 0)
  BY <1>4 DEF Retyped
<1>13. SameTo(b, c, len)
  BY <1>8, <1>12, CarriesHere DEF SameTo
<1>14. c.len \in Nat /\ len <= c.len
  BY <1>1, <1>2, <1>12 DEF Carries
<1> QED
  BY <1>1, <1>2, <1>10, <1>11, <1>13, <1>14

\* A parse begins behind what was parsed.
LEMMA BeginKeeps == ASSUME IInv, EInv, IInv', Begin PROVE EInv'
<1>1. PICK b, o, c, clean, val, bs, st :
          /\ b = bufs[1] /\ o = NewObj(b, MsgSsize, MsgPsize) /\ c = AllocObj(b, MsgSsize, MsgPsize)
          /\ clean = ~dirty' /\ val = (tok' = "value") /\ bs = <<c>> /\ st = <<MsgFrame(1, o)>>
  OBVIOUS
<1>2. /\ pc \in {"idle", "done", "failed"} /\ pc' = "parsing" /\ oldlen' = b.len
      /\ bufs' = bs /\ stack' = st /\ dirty' = (dirty \/ pc = "failed")
      /\ bound' = bound /\ results' = results
  BY <1>1 DEF Begin
<1>3. IsBuf(b) /\ (pc \in {"idle", "done"} /\ ~dirty => Clear(b, Words(b.len) + 1))
  BY <1>1, <1>2 DEF IInv
<1>4. GoodBuf(b, clean)
  BY <1>1, <1>2, <1>3 DEF GoodBuf
<1>5. /\ \E T : Held(bs, st, val, clean, b.len, T)
      /\ Ordered(st) /\ SameTo(b, c, b.len) /\ b.len \in Nat /\ c.len \in Nat /\ b.len <= c.len
  <2>1. /\ GoodBuf(b, clean) /\ o = NewObj(b, MsgSsize, MsgPsize) /\ c = AllocObj(b, MsgSsize, MsgPsize)
        /\ bs = <<c>> /\ st = <<MsgFrame(1, o)>>
    BY <1>1, <1>4
  <2> QED
    BY ONLY <2>1, RootTyped
<1>6. \E T : Held(bufs', stack', tok' = "value", ~dirty', oldlen', T)
  BY <1>1, <1>2, <1>5, Zenon
<1>7. FixedLen = b.len /\ FixedLen' = b.len /\ bufs'[1] = c
  BY <1>1, <1>2, SingletonIs DEF FixedLen
<1>8. ASSUME NEW r \in ToSet(results), ~r.dirty PROVE Reads(r, bufs', bound, b.len)
  <2>1. Reads(r, bufs, bound, b.len)
    BY <1>7, <1>8 DEF EInv
  <2>2. b.len < M
    BY <2>1, ReadsShort
  <2>3. Goes(bufs, bufs', b.len, b.len)
    BY <1>1, <1>5, <1>7, <2>2 DEF Goes
  <2> QED
    BY <2>1, <2>3, ReadsOn DEF IInv
<1> QED
  BY <1>2, <1>5, <1>6, <1>7, <1>8 DEF EInv

\* Nothing was parsed in the first state.
LEMMA NothingParsed == ASSUME Init PROVE EInv
  BY DEF Init, EInv, IsSequence, ToSet

\* What was parsed stays in every step within the bounds of offsets.
LEMMA EarlierStep == ASSUME IInv, EInv, IInv', WithinWords, WithinWords', [Next]_vars PROVE EInv'
<1>1. CASE Begin
  BY <1>1, BeginKeeps
<1>2. CASE Scalar
  BY <1>2, ScalarKeeps
<1>3. CASE String
  BY <1>3, StringKeeps
<1>4. CASE NestedMsg
  BY <1>4, NestedMsgKeeps
<1>5. CASE CloseMsg
  BY <1>5, CloseMsgKeeps
<1>6. CASE \E f \in Repeated : RepBegin(f)
  BY <1>6, RepBeginKeeps
<1>7. CASE ScalarElement
  BY <1>7, ScalarElementKeeps
<1>8. CASE StringElement
  BY <1>8, StringElementKeeps
<1>9. CASE MsgElement
  BY <1>9, MsgElementKeeps
<1>10. CASE RepMore
  BY <1>10, RepMoreKeeps
<1>11. CASE RepFinish
  BY <1>11, RepFinishKeeps
<1>12. CASE Finish
  BY <1>12, FinishKeeps
<1>13. CASE Fail
  BY <1>13, FailKeeps
<1>14. CASE Abort
  BY <1>14, AbortKeeps
<1>15. CASE UNCHANGED vars
  <2>1. /\ IsSequence(results') /\ (pc' \in {"parsing", "aborted"} => Ordered(stack'))
        /\ \A r \in ToSet(results') : ~r.dirty => Reads(r, bufs', bound', FixedLen')
    BY <1>15 DEF vars, EInv, FixedLen
  <2>2. /\ pc' = pc /\ bufs' = bufs /\ stack' = stack /\ tok' = tok /\ dirty' = dirty /\ oldlen' = oldlen
    BY <1>15 DEF vars
  <2>3. ASSUME pc' \in {"parsing", "aborted"}
        PROVE  \E T : Held(bufs', stack', tok' = "value", ~dirty', oldlen', T)
    <3>1. PICK T : Held(bufs, stack, tok = "value", ~dirty, oldlen, T)
      BY <2>2, <2>3 DEF EInv
    <3>2. Held(bufs', stack', tok' = "value", ~dirty', oldlen', T)
      BY <2>2, <3>1, Zenon
    <3> QED
      BY <3>2
  <2> QED
    BY <2>1, <2>3 DEF EInv
<1> QED
  BY <1>1, <1>2, <1>3, <1>4, <1>5, <1>6, <1>7, <1>8, <1>9, <1>10, <1>11, <1>12, <1>13, <1>14, <1>15 DEF Next

\* A buffer of a capacity that a word can tell, as in TypeOK, is within words.
LEMMA TypedWithin == ASSUME IInv, TypeOK PROVE WithinWords
<1> SUFFICES ASSUME NEW b \in ToSet(bufs) PROVE b.len < M
  BY DEF WithinWords
<1>1. b.len <= b.cap /\ b.cap < M
  BY DEF TypeOK
<1>2. IsBuf(b)
  <2>1. PICK k \in 1 .. Len(bufs) : b = bufs[k]
    BY DEF IInv, IsSequence, ToSet
  <2>2. CASE pc \in {"idle", "done", "failed"}
    <3>1. Len(bufs) = 1 /\ IsBuf(bufs[1])
      BY <2>2 DEF IInv
    <3> QED
      BY <2>1, <3>1
  <2>3. CASE pc \in {"parsing", "aborted"}
    <3>1. Under(bufs, stack, tok = "value", ~dirty)
      BY <2>3 DEF IInv
    <3> QED
      BY <2>1, <3>1 DEF Under, Memory, GoodBuf
  <2> QED
    BY <2>2, <2>3 DEF TypeOK
<1> QED
  BY <1>1, <1>2, MIsNat DEF IsBuf

\* A message that was parsed there before, on a buffer on which no parse had
\* failed, is read as it was then: nothing a later parse does, failed or not, in
\* the middle or at its end, reaches what is fixed.  The buffers are no larger
\* than offsets, which are words, can tell (WithinWords).
THEOREM EarlierStays == Spec /\ []WithinWords => []EarlierIntact
<1>1. EInv => EarlierIntact
  BY DEF EInv, EarlierIntact, Reads
<1>2. IInv /\ EInv /\ IInv' /\ WithinWords /\ WithinWords' /\ [Next]_vars => EInv'
  BY EarlierStep
<1>3. Init => EInv
  BY NothingParsed
<1> QED
  BY <1>1, <1>2, <1>3, InvariantHolds, PTL DEF Spec

\* The same where TypeOK holds, as it does in the runs: its bound on the capacity
\* is all that EarlierIntact needs of it.
THEOREM EarlierStaysTyped == Spec /\ []TypeOK => []EarlierIntact
<1>1. IInv /\ TypeOK => WithinWords
  BY TypedWithin
<1> QED
  BY <1>1, InvariantHolds, EarlierStays, PTL
=============================================================================
