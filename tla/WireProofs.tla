----------------------------- MODULE WireProofs -----------------------------
(***************************************************************************)
(* Lemmas about Wire: what the calls of nbuf.c that write to a buffer do   *)
(* to its length and which of its words they keep, for every buffer and    *)
(* every width of the fields of a header.                                  *)
(***************************************************************************)
EXTENDS Wire, Induction

USE SNAssumption, PNAssumption

\* A buffer: its bytes below len, and those below cap, are there.  Of what its
\* words are nothing is said.
IsBuf(b) ==
    /\ b = [mem |-> [i \in 0 .. Words(b.cap) - 1 |-> b.mem[i]],
            len |-> b.len, cap |-> b.cap, grows |-> b.grows]
    /\ b.len \in Nat /\ b.cap \in Nat /\ b.len <= b.cap

\* c is the buffer b later on: nothing is lost, but for the words in S.
Kept(b, c, S) ==
    /\ IsBuf(c) /\ b.len <= c.len
    /\ \A i \in Nat \ S : 4 * i < b.len => c.mem[i] = b.mem[i]

LEMMA KeptTwice ==
    ASSUME NEW b, IsBuf(b), NEW c, NEW d, NEW S, NEW T, Kept(b, c, S), Kept(c, d, T)
    PROVE  Kept(b, d, S \cup T)
<1>1. b.len \in Nat /\ c.len \in Nat /\ d.len \in Nat
  BY DEF IsBuf, Kept
<1> QED
  BY <1>1 DEF Kept

LEMMA KeptItself == ASSUME NEW b, IsBuf(b) PROVE Kept(b, b, {})
BY DEF Kept, IsBuf

LEMMA MIsNat == ARR \in Nat /\ ARR >= 4 /\ HDR \in Nat /\ HDR >= 16 /\ M \in Nat /\ M >= 32
<1>1. SN * PN \in Nat /\ SN * PN >= 4
  OBVIOUS
<1> QED
  BY <1>1 DEF ARR, HDR, M

-----------------------------------------------------------------------------
(* The growth of a capacity *)

\* The function that Grown takes a value of
Growth(newlen, f) == f = [c \in Nat |-> IF c >= newlen THEN c ELSE f[c + c \div 2]]

\* From 2 on a capacity grows with each turn of the loop.
LEMMA HalfMore == ASSUME NEW c \in Nat, c >= 2 PROVE c + c \div 2 \in Nat /\ c + c \div 2 >= c + 1
OBVIOUS

\* There is such a function: the loop ends, wherever it starts.
LEMMA GrowthExists == ASSUME NEW newlen \in Nat PROVE \E f : Growth(newlen, f)
<1> DEFINE Fits(f, d) == \A c \in Nat : c + d >= newlen =>
                            f[c] = IF c >= newlen THEN c ELSE f[c + c \div 2]
           From == {d \in Nat : \E f \in [Nat -> Nat] : Fits(f, d)}
<1>1. 0 \in From
  <2>1. [c \in Nat |-> c] \in [Nat -> Nat] /\ Fits([c \in Nat |-> c], 0)
    OBVIOUS
  <2> QED
    BY <2>1
<1>2. ASSUME NEW d \in Nat, d \in From PROVE d + 1 \in From
  <2>1. PICK f \in [Nat -> Nat] : Fits(f, d)
    BY <1>2
  <2>2. CASE newlen < d + 1
    <3>1. Fits(f, d + 1)
      BY <2>1, <2>2
    <3> QED
      BY <3>1
  <2>3. CASE newlen >= d + 1 /\ newlen - d - 1 < 2
    <3>1. PICK k \in Nat : k = newlen - d - 1 /\ k < 2
      BY <2>3
    <3>2. k + k \div 2 = k
      BY <3>1
    <3>3. Fits(f, d + 1)
      <4> SUFFICES ASSUME NEW c \in Nat, c + (d + 1) >= newlen
                   PROVE  f[c] = IF c >= newlen THEN c ELSE f[c + c \div 2]
        OBVIOUS
      <4>1. CASE c = k
        BY <2>1, <3>1, <3>2, <4>1
      <4>2. CASE c # k
        <5>1. c + d >= newlen
          BY <3>1, <4>2
        <5> QED
          BY <2>1, <5>1
      <4> QED
        BY <4>1, <4>2
    <3> QED
      BY <3>3
  <2>4. CASE newlen >= d + 1 /\ newlen - d - 1 >= 2
    <3>1. PICK k \in Nat : k = newlen - d - 1 /\ k >= 2
      BY <2>4
    <3>2. k + k \div 2 \in Nat /\ k + k \div 2 >= k + 1
      BY <3>1, HalfMore
    <3> DEFINE g == [f EXCEPT ![k] = f[k + k \div 2]]
    <3>3. g \in [Nat -> Nat]
      BY <3>2
    <3>4. Fits(g, d + 1)
      <4> SUFFICES ASSUME NEW c \in Nat, c + (d + 1) >= newlen
                   PROVE  g[c] = IF c >= newlen THEN c ELSE g[c + c \div 2]
        OBVIOUS
      <4>1. CASE c = k
        BY <3>1, <3>2, <4>1
      <4>2. CASE c # k
        <5>1. c + d >= newlen /\ c >= 2 /\ c > k
          BY <3>1, <4>2
        <5>2. c + c \div 2 \in Nat /\ c + c \div 2 >= c + 1
          BY <5>1, HalfMore
        <5>3. f[c] = IF c >= newlen THEN c ELSE f[c + c \div 2]
          BY <2>1, <5>1
        <5>4. g[c] = f[c] /\ g[c + c \div 2] = f[c + c \div 2]
          BY <4>2, <5>1, <5>2
        <5> QED
          BY <5>3, <5>4
      <4> QED
        BY <4>1, <4>2
    <3> HIDE DEF g
    <3> QED
      BY <3>3, <3>4
  <2> QED
    BY <2>2, <2>3, <2>4
<1>3. newlen \in From
  <2> HIDE DEF From
  <2> QED
    BY <1>1, <1>2, NatSetInduction
<1>4. PICK f \in [Nat -> Nat] : Fits(f, newlen)
  BY <1>3
<1>5. \A c \in Nat : f[c] = IF c >= newlen THEN c ELSE f[c + c \div 2]
  BY <1>4
<1>6. Growth(newlen, f)
  BY <1>5 DEF Growth
<1> QED
  BY <1>6

\* Started from 2 or more, it ends with a capacity that holds newlen bytes.
LEMMA GrowthReaches ==
    ASSUME NEW newlen \in Nat, NEW f, Growth(newlen, f), NEW c \in Nat, c >= 2
    PROVE  f[c] \in Nat /\ f[c] >= newlen /\ f[c] >= c
<1> DEFINE Reaches(x) == f[x] \in Nat /\ f[x] >= newlen /\ f[x] >= x
           From == {d \in Nat : \A x \in Nat : x >= 2 /\ x + d >= newlen => Reaches(x)}
<1>1. \A x \in Nat : f[x] = IF x >= newlen THEN x ELSE f[x + x \div 2]
  BY DEF Growth
<1>2. 0 \in From
  BY <1>1
<1>3. ASSUME NEW d \in Nat, d \in From PROVE d + 1 \in From
  <2> SUFFICES ASSUME NEW x \in Nat, x >= 2, x + (d + 1) >= newlen PROVE Reaches(x)
    OBVIOUS
  <2>1. CASE x >= newlen
    BY <1>1, <2>1
  <2>2. CASE x < newlen
    <3>1. PICK y \in Nat : y = x + x \div 2 /\ y >= x + 1
      BY HalfMore
    <3>2. Reaches(y)
      <4>1. y >= 2 /\ y + d >= newlen
        BY <3>1
      <4> QED
        BY <1>3, <4>1
    <3>3. f[x] = f[y]
      BY <1>1, <2>2, <3>1
    <3> QED
      BY <3>1, <3>2, <3>3
  <2> QED
    BY <2>1, <2>2
<1>4. newlen \in From
  <2> HIDE DEF From
  <2> QED
    BY <1>2, <1>3, NatSetInduction
<1> QED
  BY <1>4

\* The capacity that nbuf_alloc_ex settles on holds the request.
LEMMA GrownHolds ==
    ASSUME NEW cap \in Nat, NEW newlen \in Nat
    PROVE  Grown(cap, newlen) \in Nat /\ Grown(cap, newlen) >= newlen /\ Grown(cap, newlen) >= cap
<1> DEFINE f == CHOOSE g : g = [c \in Nat |-> IF c >= newlen THEN c ELSE g[c + c \div 2]]
           least == IF cap < 4 THEN 4 ELSE cap
<1>1. Growth(newlen, f)
  BY GrowthExists DEF Growth
<1>2. Grown(cap, newlen) = f[least]
  BY DEF Grown
<1>3. least \in Nat /\ least >= 2 /\ least >= cap
  OBVIOUS
<1> HIDE DEF f, least
<1>4. f[least] \in Nat /\ f[least] >= newlen /\ f[least] >= least
  BY <1>1, <1>3, GrowthReaches
<1> QED
  BY <1>2, <1>3, <1>4

-----------------------------------------------------------------------------
(* Allocation *)

\* Where a block begins that is aligned to words, right behind the bytes there are
LEMMA StartIs ==
    ASSUME NEW b, IsBuf(b)
    PROVE  /\ Start(b) \in Nat /\ Start(b) % 4 = 0 /\ Start(b) = 4 * (Start(b) \div 4)
           /\ Start(b) >= b.len /\ Start(b) <= b.len + 3
           /\ b.len % 4 = 0 => Start(b) = b.len
<1>1. PICK n \in Nat : n = b.len
  BY DEF IsBuf
<1>2. PICK k \in Nat : k = (n + 3) \div 4
  OBVIOUS
<1>3. 4 * k >= n /\ 4 * k <= n + 3 /\ (n % 4 = 0 => 4 * k = n)
  BY <1>2
<1>4. Start(b) = 4 * k
  BY <1>1, <1>2 DEF Start, Words
<1>5. (4 * k) % 4 = 0 /\ (4 * k) \div 4 = k /\ 4 * k \in Nat
  OBVIOUS
<1> QED
  BY <1>1, <1>3, <1>4, <1>5

LEMMA NewBufIs ==
    ASSUME NEW cap \in Nat
    PROVE  IsBuf(NewBuf(cap)) /\ NewBuf(cap).len = 0
<1>1. PICK n : n = Words(cap) - 1
  OBVIOUS
<1>2. PICK mem : mem = [i \in 0 .. n |-> 0]
  OBVIOUS
<1>3. PICK b : b = NewBuf(cap)
  OBVIOUS
<1>4. b = [mem |-> mem, len |-> 0, cap |-> cap, grows |-> TRUE]
  BY <1>1, <1>2, <1>3 DEF NewBuf
<1>5. mem = [i \in 0 .. n |-> mem[i]]
  BY <1>2
<1>6. b.mem = mem /\ b.len = 0 /\ b.cap = cap /\ b.grows = TRUE
  BY <1>4
<1>7. b.len \in Nat /\ b.cap \in Nat /\ b.len <= b.cap
  BY <1>6
<1>8. b = [mem |-> [i \in 0 .. Words(b.cap) - 1 |-> b.mem[i]],
           len |-> b.len, cap |-> b.cap, grows |-> b.grows]
  BY <1>1, <1>4, <1>5, <1>6
<1>9. IsBuf(b)
  BY <1>7, <1>8, Zenon DEF IsBuf
<1> QED
  BY <1>3, <1>6, <1>9

\* nbuf_alloc adds size bytes to the buffer, and keeps those that are there.
LEMMA AllocIs ==
    ASSUME NEW b, IsBuf(b), NEW size \in Nat
    PROVE  Kept(b, Alloc(b, size), {}) /\ Alloc(b, size).len = b.len + size
<1>1. PICK newlen : newlen = b.len + size
  OBVIOUS
<1>2. newlen \in Nat /\ newlen >= b.len /\ b.cap \in Nat /\ b.len \in Nat /\ b.len <= b.cap
  BY <1>1 DEF IsBuf
<1>3. PICK cap \in Nat : cap = (IF newlen > b.cap THEN Grown(b.cap, newlen) ELSE b.cap)
                         /\ cap >= newlen
  <2>1. PICK old \in Nat : old = b.cap
    BY <1>2
  <2>2. Grown(old, newlen) \in Nat /\ Grown(old, newlen) >= newlen
    BY <1>2, GrownHolds
  <2>3. CASE newlen > old
    BY <2>1, <2>2, <2>3
  <2>4. CASE ~(newlen > old)
    BY <1>2, <2>1, <2>4
  <2> QED
    BY <2>3, <2>4
<1> DEFINE mem == [i \in 0 .. Words(cap) - 1 |-> IF 4 * i < b.len THEN b.mem[i] ELSE 0]
<1>4. PICK c : c = Alloc(b, size)
  OBVIOUS
<1>5. c = [b EXCEPT !.len = newlen, !.cap = cap, !.mem = IF newlen > b.cap THEN mem ELSE @]
  BY <1>1, <1>3, <1>4 DEF Alloc
<1>6. b = [mem |-> b.mem, len |-> b.len, cap |-> b.cap, grows |-> b.grows]
  BY DEF IsBuf
<1>7. c = [mem |-> IF newlen > b.cap THEN mem ELSE b.mem, len |-> newlen, cap |-> cap, grows |-> b.grows]
  <2> HIDE DEF mem
  <2> QED
    BY <1>5, <1>6
<1>8. CASE newlen > b.cap
  <2>1. c.mem = mem /\ c.cap = cap /\ c.len = newlen
    BY <1>7, <1>8
  <2>2. IsBuf(c)
    <3>1. c.mem = [i \in 0 .. Words(cap) - 1 |-> c.mem[i]]
      BY <2>1
    <3> HIDE DEF mem
    <3>2. c = [mem |-> c.mem, len |-> c.len, cap |-> c.cap, grows |-> c.grows]
      BY <1>7
    <3>3. c = [mem |-> [i \in 0 .. Words(c.cap) - 1 |-> c.mem[i]],
               len |-> c.len, cap |-> c.cap, grows |-> c.grows]
      BY <2>1, <3>1, <3>2
    <3>4. c.len \in Nat /\ c.cap \in Nat /\ c.len <= c.cap
      BY <1>2, <1>3, <2>1
    <3> QED
      BY <3>3, <3>4, Zenon DEF IsBuf
  <2>3. \A i \in Nat : 4 * i < b.len => c.mem[i] = b.mem[i]
    <3> SUFFICES ASSUME NEW i \in Nat, 4 * i < b.len PROVE c.mem[i] = b.mem[i]
      OBVIOUS
    <3>1. i \in 0 .. Words(cap) - 1
      BY <1>2, <1>3 DEF Words
    <3> QED
      BY <2>1, <3>1
  <2> QED
    BY <1>1, <1>2, <1>4, <2>1, <2>2, <2>3 DEF Kept
<1>9. CASE ~(newlen > b.cap)
  <2>1. c = [mem |-> b.mem, len |-> newlen, cap |-> b.cap, grows |-> b.grows]
    BY <1>3, <1>7, <1>9
  <2>2. IsBuf(c)
    <3>1. c.mem = b.mem /\ c.len = newlen /\ c.cap = b.cap /\ c.grows = b.grows
      BY <2>1
    <3>2. b.mem = [i \in 0 .. Words(b.cap) - 1 |-> b.mem[i]]
      <4>1. b = [mem |-> [i \in 0 .. Words(b.cap) - 1 |-> b.mem[i]],
                 len |-> b.len, cap |-> b.cap, grows |-> b.grows]
        BY Zenon DEF IsBuf
      <4> QED
        BY <4>1
    <3>3. c = [mem |-> [i \in 0 .. Words(c.cap) - 1 |-> c.mem[i]],
               len |-> c.len, cap |-> c.cap, grows |-> c.grows]
      BY <2>1, <3>1, <3>2
    <3>4. c.len \in Nat /\ c.cap \in Nat /\ c.len <= c.cap
      BY <1>2, <1>9, <3>1
    <3> QED
      BY <3>3, <3>4, Zenon DEF IsBuf
  <2> QED
    BY <1>1, <1>2, <1>4, <2>1, <2>2 DEF Kept
<1> QED
  BY <1>8, <1>9

LEMMA AllocAlignedIs ==
    ASSUME NEW b, IsBuf(b), NEW size \in Nat
    PROVE  Kept(b, AllocAligned(b, size), {}) /\ AllocAligned(b, size).len = Start(b) + size
<1>1. Start(b) - b.len + size \in Nat /\ b.len + (Start(b) - b.len + size) = Start(b) + size
  <2>1. Start(b) \in Nat /\ Start(b) >= b.len /\ b.len \in Nat
    BY StartIs DEF IsBuf
  <2> QED
    BY <2>1
<1> QED
  BY <1>1, AllocIs DEF AllocAligned

\* A word of the buffer is stored, and no other one.
LEMMA SetWordIs ==
    ASSUME NEW b, IsBuf(b), NEW off \in Nat, off < b.len, NEW w
    PROVE  /\ Kept(b, SetWord(b, off, w), {off \div 4}) /\ SetWord(b, off, w).len = b.len
           /\ SetWord(b, off, w).mem[off \div 4] = w
<1>1. PICK i : i = off \div 4
  OBVIOUS
<1>2. i \in 0 .. Words(b.cap) - 1 /\ b.len \in Nat
  BY <1>1 DEF IsBuf, Words
<1>3. PICK c : c = SetWord(b, off, w)
  OBVIOUS
<1>4. c = [b EXCEPT !.mem[i] = w]
  BY <1>1, <1>3 DEF SetWord
<1>5. b = [mem |-> b.mem, len |-> b.len, cap |-> b.cap, grows |-> b.grows]
      /\ b.mem = [k \in 0 .. Words(b.cap) - 1 |-> b.mem[k]]
  BY DEF IsBuf
<1>6. c = [mem |-> [b.mem EXCEPT ![i] = w], len |-> b.len, cap |-> b.cap, grows |-> b.grows]
  BY <1>4, <1>5
<1>7. PICK mem : mem = [b.mem EXCEPT ![i] = w]
  OBVIOUS
<1>8. /\ mem = [k \in 0 .. Words(b.cap) - 1 |-> mem[k]] /\ mem[i] = w
      /\ \A k \in Nat \ {i} : mem[k] = b.mem[k]
  <2>1. \A k \in 0 .. Words(b.cap) - 1 : mem[k] = IF k = i THEN w ELSE b.mem[k]
    BY <1>5, <1>7
  <2>2. mem = [k \in 0 .. Words(b.cap) - 1 |-> mem[k]]
    <3>1. DOMAIN b.mem = 0 .. Words(b.cap) - 1
      BY <1>5, Zenon
    <3>2. mem = [k \in DOMAIN b.mem |-> IF k = i THEN w ELSE b.mem[k]]
      BY <1>7
    <3> QED
      BY <3>1, <3>2
  <2>3. \A k \in Nat \ {i} : mem[k] = b.mem[k]
    BY <1>7
  <2> QED
    BY <1>2, <2>1, <2>2, <2>3
<1>9. c = [mem |-> mem, len |-> b.len, cap |-> b.cap, grows |-> b.grows]
  BY <1>6, <1>7
<1>10. IsBuf(c) /\ c.len = b.len /\ c.mem = mem
  BY <1>8, <1>9 DEF IsBuf
<1>11. Kept(b, c, {i})
  <2>1. b.len <= c.len
    BY <1>2, <1>10
  <2>2. \A k \in Nat \ {i} : 4 * k < b.len => c.mem[k] = b.mem[k]
    BY <1>8, <1>10, Zenon
  <2> QED
    BY <1>10, <2>1, <2>2, Zenon DEF Kept
<1> QED
  BY <1>1, <1>3, <1>8, <1>10, <1>11

LEMMA SetWordTo ==
    ASSUME NEW b, IsBuf(b), NEW off \in Nat, off < b.len, NEW w, NEW c, c = SetWord(b, off, w)
    PROVE  IsBuf(c) /\ Kept(b, c, {off \div 4}) /\ c.len = b.len /\ c.mem[off \div 4] = w
<1>1. /\ Kept(b, SetWord(b, off, w), {off \div 4}) /\ SetWord(b, off, w).len = b.len
      /\ SetWord(b, off, w).mem[off \div 4] = w
  <2>1. IsBuf(b) /\ off \in Nat /\ off < b.len
    OBVIOUS
  <2> QED
    BY <2>1, SetWordIs
<1> QED
  BY <1>1 DEF Kept

\* Words that were stored past the end of b are not missed.
LEMMA KeptBut ==
    ASSUME NEW b, NEW c, NEW S, NEW T, Kept(b, c, S), \A i \in S : i \in Nat /\ 4 * i < b.len => i \in T
    PROVE  Kept(b, c, T)
BY Zenon DEF Kept

\* nbuf_alloc_obj
LEMMA AllocObjIs ==
    ASSUME NEW b, IsBuf(b), NEW ssize \in Nat, NEW psize \in Nat
    PROVE  /\ Kept(b, AllocObj(b, ssize, psize), {})
           /\ AllocObj(b, ssize, psize).len = Start(b) + 4 + 4 * psize + ssize
<1>1. PICK c : c = AllocAligned(b, 4 + 4 * psize + ssize)
  OBVIOUS
<1>2. PICK at \in Nat : at = Start(b) /\ at >= b.len /\ at = 4 * (at \div 4)
  BY StartIs
<1>3. IsBuf(c) /\ Kept(b, c, {}) /\ c.len = at + (4 + 4 * psize + ssize)
  <2>1. 4 + 4 * psize + ssize \in Nat
    OBVIOUS
  <2> QED
    BY <1>1, <1>2, <2>1, AllocAlignedIs DEF Kept
<1>4. PICK hdr, d : hdr = Header(ssize, psize) /\ d = SetWord(c, at, hdr)
  OBVIOUS
<1>5. Kept(c, d, {at \div 4}) /\ d.len = c.len
  <2>1. at < c.len
    BY <1>3
  <2>2. Kept(c, SetWord(c, at, hdr), {at \div 4}) /\ SetWord(c, at, hdr).len = c.len
    <3>1. at \in Nat /\ IsBuf(c) /\ at < c.len
      BY <1>3, <2>1
    <3>2. ASSUME NEW w PROVE Kept(c, SetWord(c, at, w), {at \div 4}) /\ SetWord(c, at, w).len = c.len
      BY <3>1, SetWordIs
    <3> QED
      BY <3>2
  <2> QED
    BY <1>4, <2>2, Zenon
<1>6. Kept(b, d, {} \cup {at \div 4})
  BY <1>3, <1>5, KeptTwice
<1>7. b.len \in Nat
  BY DEF IsBuf
<1>8. Kept(b, d, {})
  BY <1>2, <1>6, <1>7, KeptBut
<1> QED
  BY <1>1, <1>2, <1>3, <1>4, <1>5, <1>8 DEF AllocObj

\* The first element of an array of words, past a header and a length
IsFirst(o) ==
    /\ o = Object(1, o.off, o.ssize, o.psize)
    /\ o.off \in Nat /\ o.off % 4 = 0 /\ 8 <= o.off
    /\ o.ssize \in Nat /\ o.ssize % 4 = 0 /\ o.psize \in Nat

\* An array in b that begins at o; its length is not set yet, so it is 1.
IsArr(b, o) == IsFirst(o) /\ o.off <= b.len /\ b.mem[o.off \div 4 - 1] = 1

\* nbuf_alloc_arr
LEMMA AllocArrIs ==
    ASSUME NEW b, IsBuf(b), NEW ssize \in Nat, ssize % 4 = 0, NEW psize \in Nat,
           NEW o, o = NewArr(b, 1, ssize, psize), NEW c, c = AllocArr(b, 1, ssize, psize)
    PROVE  /\ Kept(b, c, {}) /\ IsArr(c, o) /\ o.ssize = ssize /\ o.psize = psize
           /\ o.off >= b.len + 8 /\ c.len = o.off + ObjSize(o)
<1>1. ssize # 1
  OBVIOUS
<1>2. PICK at \in Nat : at = Start(b) /\ at >= b.len /\ at = 4 * (at \div 4)
  BY StartIs
<1>3. PICK size \in Nat : size = 8 + 1 * (4 * psize + ssize)
  OBVIOUS
<1>4. PICK c1 : c1 = AllocAligned(b, size)
  OBVIOUS
<1>5. Kept(b, c1, {}) /\ IsBuf(c1) /\ c1.len = at + size
  BY <1>2, <1>4, AllocAlignedIs DEF Kept
<1>6. PICK c2 : c2 = SetWord(c1, at, Header(ssize, psize) + ARR)
  OBVIOUS
<1>7. Kept(c1, c2, {at \div 4}) /\ IsBuf(c2) /\ c2.len = at + size
  <2>1. at < c1.len
    BY <1>3, <1>5
  <2> QED
    BY <1>5, <1>6, <2>1, SetWordIs DEF Kept
<1>8. c = SetWord(c2, at + 4, 1)
  BY <1>1, <1>2, <1>3, <1>4, <1>6 DEF AllocArr, IsBytes
<1>9. Kept(c2, c, {(at + 4) \div 4}) /\ c.len = at + size /\ c.mem[(at + 4) \div 4] = 1
  <2>1. at + 4 < c2.len /\ at + 4 \in Nat
    BY <1>3, <1>7
  <2> QED
    BY <1>7, <1>8, <2>1, SetWordIs DEF Kept
<1>10. Kept(b, c, ({} \cup {at \div 4}) \cup {(at + 4) \div 4})
  BY <1>5, <1>7, <1>9, KeptTwice
<1>11. b.len \in Nat
  BY DEF IsBuf
<1>12. Kept(b, c, {})
  <2>1. \A i \in ({} \cup {at \div 4}) \cup {(at + 4) \div 4} : i \in Nat => 4 * i >= b.len
    BY <1>2, <1>11
  <2>2. \A i \in ({} \cup {at \div 4}) \cup {(at + 4) \div 4} : i \in Nat /\ 4 * i < b.len => i \in {}
    BY <1>11, <2>1
  <2> QED
    BY <1>10, <2>2, KeptBut
<1>13. o = Object(1, at + 8, ssize, psize)
  BY <1>1, <1>2 DEF NewArr, IsBytes
<1>14. o.n = 1 /\ o.off = at + 8 /\ o.ssize = ssize /\ o.psize = psize /\ ObjSize(o) = 4 * psize + ssize
  <2>1. o.n = 1 /\ o.off = at + 8 /\ o.ssize = ssize /\ o.psize = psize
    BY <1>13 DEF Object
  <2> QED
    BY <2>1 DEF ObjSize
<1>15. (at + 8) % 4 = 0 /\ (at + 8) \div 4 - 1 = (at + 4) \div 4 /\ at + 8 <= at + size
  BY <1>2, <1>3
<1>16. IsArr(c, o)
  BY <1>9, <1>13, <1>14, <1>15 DEF IsArr, IsFirst
<1> QED
  BY <1>2, <1>3, <1>9, <1>11, <1>12, <1>14, <1>16

\* nbuf_alloc_str
LEMMA AllocStrIs ==
    ASSUME NEW b, IsBuf(b), NEW v
    PROVE  Kept(b, AllocStr(b, v), {}) /\ AllocStr(b, v).len > Start(b)
<1>1. PICK at \in Nat : at = Start(b) /\ at >= b.len /\ at = 4 * (at \div 4)
  BY StartIs
<1>2. PICK k \in {1, 2} : k = StrLen(v)
  BY DEF StrLen
<1>3. PICK c1 : c1 = AllocAligned(b, 4 + k)
  OBVIOUS
<1>4. Kept(b, c1, {}) /\ IsBuf(c1) /\ c1.len = at + (4 + k)
  <2>1. 4 + k \in Nat
    BY <1>2
  <2> QED
    BY <1>1, <1>3, <2>1, AllocAlignedIs DEF Kept
<1>5. PICK c2 : c2 = SetWord(c1, at, HDR + BARR + k)
  OBVIOUS
<1>6. Kept(c1, c2, {at \div 4}) /\ IsBuf(c2) /\ c2.len = at + (4 + k)
  <2>1. at < c1.len
    BY <1>2, <1>4
  <2> QED
    BY <1>4, <1>5, <2>1, SetWordIs DEF Kept
<1>7. c2 = AllocArr(b, StrLen(v), 1, 0)
  BY <1>1, <1>2, <1>3, <1>5 DEF AllocArr, IsBytes
<1>8. PICK c : c = SetWord(c2, at + 4, v)
  OBVIOUS
<1>9. Kept(c2, c, {(at + 4) \div 4}) /\ c.len = at + (4 + k)
  <2>1. at + 4 < c2.len /\ at + 4 \in Nat
    BY <1>2, <1>6
  <2> QED
    BY <1>6, <1>8, <2>1, SetWordIs DEF Kept
<1>10. Kept(b, c, ({} \cup {at \div 4}) \cup {(at + 4) \div 4})
  BY <1>4, <1>6, <1>9, KeptTwice
<1>11. b.len \in Nat
  BY DEF IsBuf
<1>12. Kept(b, c, {})
  <2>1. \A i \in ({} \cup {at \div 4}) \cup {(at + 4) \div 4} : i \in Nat => 4 * i >= b.len
    BY <1>1, <1>11
  <2>2. \A i \in ({} \cup {at \div 4}) \cup {(at + 4) \div 4} : i \in Nat /\ 4 * i < b.len => i \in {}
    BY <1>11, <2>1
  <2> QED
    BY <1>10, <2>2, KeptBut
<1>13. c = AllocStr(b, v)
  BY <1>1, <1>7, <1>8 DEF AllocStr
<1> QED
  BY <1>1, <1>2, <1>9, <1>12, <1>13
-----------------------------------------------------------------------------
(* Headers and pointers *)

\* The header of an object or array is one of the two words before it.
LEMMA HdrOffsetIs ==
    ASSUME NEW b, NEW o, o.off \in Nat, o.off % 4 = 0, o.off >= 8
    PROVE  /\ HdrOffset(b, o) \in Nat /\ HdrOffset(b, o) % 4 = 0
           /\ HdrOffset(b, o) \in {o.off - 4, o.off - 8}
<1>1. HdrOffset(b, o) \in {o.off - 4, o.off - 8}
  BY DEF HdrOffset
<1> QED
  BY <1>1

\* That of an array is not mistaken for its length of 1.
LEMMA ArrHdrOffset ==
    ASSUME NEW b, NEW o, IsArr(b, o)
    PROVE  HdrOffset(b, o) = o.off - 8
<1>1. o.off \in Nat /\ (o.off - 4) \div 4 = o.off \div 4 - 1
  BY DEF IsArr, IsFirst
<1>2. WordAt(b, o.off - 4) = 1
  BY <1>1 DEF WordAt, IsArr, IsFirst
<1>3. ~Has(1, HDR)
  <2>1. 1 \div HDR = 0
    BY MIsNat
  <2> QED
    BY <2>1 DEF Has
<1> QED
  BY <1>2, <1>3 DEF HdrOffset

\* nbuf_resize_arr stores to the two words before the array.
LEMMA ResizeArrIs ==
    ASSUME NEW b, IsBuf(b), NEW o, IsArr(b, o), NEW n
    PROVE  /\ Kept(b, ResizeArr(b, o, n), {o.off \div 4 - 2, o.off \div 4 - 1})
           /\ ResizeArr(b, o, n).len = b.len
<1>1. PICK hdr : hdr = HdrOffset(b, o)
  OBVIOUS
<1>2. /\ hdr \in Nat /\ hdr + 4 \in Nat /\ hdr + 4 < b.len /\ hdr < b.len
      /\ hdr \div 4 = o.off \div 4 - 2 /\ (hdr + 4) \div 4 = o.off \div 4 - 1
  <2>1. o.off \in Nat /\ o.off % 4 = 0 /\ 8 <= o.off /\ o.off <= b.len /\ b.len \in Nat
    BY DEF IsArr, IsFirst, IsBuf
  <2>2. hdr = o.off - 8
    BY <1>1, ArrHdrOffset
  <2> QED
    BY <2>1, <2>2
<1>3. ASSUME NEW off \in {hdr, hdr + 4}, NEW w
      PROVE  /\ Kept(b, SetWord(b, off, w), {o.off \div 4 - 2, o.off \div 4 - 1})
             /\ SetWord(b, off, w).len = b.len
  <2>1. off \in Nat /\ off < b.len /\ off \div 4 \in {o.off \div 4 - 2, o.off \div 4 - 1}
    BY <1>2
  <2>2. Kept(b, SetWord(b, off, w), {off \div 4}) /\ SetWord(b, off, w).len = b.len
    BY <2>1, SetWordIs
  <2> QED
    BY <2>1, <2>2, KeptBut
<1>4. \E off \in {hdr, hdr + 4} : \E w : ResizeArr(b, o, n) = SetWord(b, off, w)
  BY <1>1 DEF ResizeArr
<1> QED
  BY <1>3, <1>4

\* The word w is null, or a position below len in another buffer.
PtrTo(w, len) == w = 0 \/ \E pos \in Nat : 4 * pos < len /\ w = M - 1 - pos
PtrsTo(b, o, n, len) == \A q \in Pointers(o, n) : PtrTo(b.mem[q \div 4], len)

\* nbuf_obj_set_p stores one word.
LEMMA SetPIs ==
    ASSUME NEW b, IsBuf(b), NEW o, NEW i, NEW hdr, NEW same, PtrOffset(o, i) \in Nat, PtrOffset(o, i) < b.len
    PROVE  /\ Kept(b, SetP(b, o, i, hdr, same), {PtrOffset(o, i) \div 4})
           /\ SetP(b, o, i, hdr, same).len = b.len
<1>1. PICK ptr, w : /\ ptr = PtrOffset(o, i)
                    /\ w = IF same THEN ((hdr - ptr) % M) \div 4 ELSE M - 1 - hdr \div 4
  OBVIOUS
<1>2. SetP(b, o, i, hdr, same) = SetWord(b, ptr, w)
  BY <1>1 DEF SetP
<1>3. ptr \in Nat /\ ptr < b.len /\ IsBuf(b)
  BY <1>1
<1>4. ASSUME NEW v
      PROVE  Kept(b, SetWord(b, ptr, v), {ptr \div 4}) /\ SetWord(b, ptr, v).len = b.len
  BY <1>3, SetWordIs
<1> QED
  BY <1>1, <1>2, <1>4

LEMMA PtrToHdr ==
    ASSUME NEW hdr \in Nat, NEW len \in Nat, hdr < len
    PROVE  PtrTo(M - 1 - hdr \div 4, len)
<1>1. hdr \div 4 \in Nat /\ 4 * (hdr \div 4) < len
  OBVIOUS
<1> QED
  BY <1>1 DEF PtrTo

\* The pointers of n elements are words within them.
LEMMA PointersWithin ==
    ASSUME NEW o, IsFirst(o), NEW n \in Nat, NEW q \in Pointers(o, n)
    PROVE  /\ q \in Nat /\ q % 4 = 0 /\ q = 4 * (q \div 4) /\ q >= o.off
           /\ q + 4 <= o.off + n * ObjSize(o)
<1>1. PICK e \in 0 .. n - 1, i \in 0 .. o.psize - 1 : q = o.off + e * ObjSize(o) + 4 * i
  BY DEF Pointers
<1>2. PICK off \in Nat, s \in Nat, p \in Nat : o.off = 4 * off /\ o.ssize = 4 * s /\ o.psize = p
  <2>1. \A k \in Nat : k % 4 = 0 => k \div 4 \in Nat /\ k = 4 * (k \div 4)
    OBVIOUS
  <2> QED
    BY <2>1 DEF IsArr, IsFirst
<1>3. PICK t \in Nat : t = p + s /\ ObjSize(o) = 4 * t
  BY <1>2 DEF ObjSize
<1>4. e \in Nat /\ i \in Nat /\ i + 1 <= t /\ e + 1 <= n
  BY <1>1, <1>2, <1>3
<1>5. PICK m \in Nat : m = e * t
  BY <1>3, <1>4
<1>6. m + t <= n * t
  <2>1. PICK d \in Nat : n = e + 1 + d
    <3>1. n - e - 1 \in Nat /\ n = e + 1 + (n - e - 1)
      BY <1>4
    <3> QED
      BY <3>1
  <2>2. n * t = m + t + d * t
    BY <1>5, <2>1
  <2>3. d * t \in Nat
    BY <1>3
  <2> QED
    BY <1>3, <1>5, <2>2, <2>3
<1>7. e * ObjSize(o) = 4 * m /\ n * ObjSize(o) = 4 * (n * t)
  BY <1>3, <1>4, <1>5
<1>8. q = 4 * (off + m + i) /\ off + m + i \in Nat
  BY <1>1, <1>2, <1>4, <1>5, <1>7
<1>9. n * t \in Nat
  BY <1>3
<1> QED
  BY <1>2, <1>4, <1>6, <1>7, <1>8, <1>9
\* With one element more, its pointers are added.
LEMMA PointersMore ==
    ASSUME NEW o, NEW n \in Nat
    PROVE  Pointers(o, n + 1) =
               Pointers(o, n) \cup {o.off + n * ObjSize(o) + 4 * i : i \in 0 .. o.psize - 1}
<1>1. 0 .. n + 1 - 1 = (0 .. n - 1) \cup {n}
  OBVIOUS
<1>2. PICK s, p : s = ObjSize(o) /\ p = 0 .. o.psize - 1
  OBVIOUS
<1>3. /\ Pointers(o, n + 1) = {o.off + e * s + 4 * i : e \in (0 .. n - 1) \cup {n}, i \in p}
      /\ Pointers(o, n) = {o.off + e * s + 4 * i : e \in 0 .. n - 1, i \in p}
  BY <1>1, <1>2 DEF Pointers
<1>4. ASSUME NEW q
      PROVE  q \in Pointers(o, n + 1)
                 <=> q \in Pointers(o, n) \/ q \in {o.off + n * s + 4 * i : i \in p}
  <2>1. q \in Pointers(o, n + 1) <=> \E e \in (0 .. n - 1) \cup {n}, i \in p : q = o.off + e * s + 4 * i
    BY <1>3
  <2>2. q \in Pointers(o, n) <=> \E e \in 0 .. n - 1, i \in p : q = o.off + e * s + 4 * i
    BY <1>3
  <2>3. q \in {o.off + n * s + 4 * i : i \in p} <=> \E i \in p : q = o.off + n * s + 4 * i
    OBVIOUS
  <2> QED
    BY <2>1, <2>2, <2>3, Zenon
<1> QED
  BY <1>2, <1>4

\* Stores elsewhere leave the pointers of an array where they point, and what
\* they point to may grow.
LEMMA PtrsKept ==
    ASSUME NEW b, IsBuf(b), NEW o, IsFirst(o), NEW n \in Nat, NEW len \in Nat, PtrsTo(b, o, n, len),
           o.off + n * ObjSize(o) <= b.len, NEW c, NEW S, Kept(b, c, S), NEW more \in Nat, len <= more,
           \A q \in Pointers(o, n) : q \div 4 \notin S
    PROVE  PtrsTo(c, o, n, more)
<1> SUFFICES ASSUME NEW q \in Pointers(o, n) PROVE PtrTo(c.mem[q \div 4], more)
  BY DEF PtrsTo
<1>1. q \in Nat /\ q = 4 * (q \div 4) /\ q + 4 <= o.off + n * ObjSize(o)
  BY PointersWithin
<1>2. q < b.len
  <2>1. PICK end : end = o.off + n * ObjSize(o)
    OBVIOUS
  <2>2. end \in Int
    <3>1. o.off \in Int /\ ObjSize(o) \in Int
      BY DEF IsArr, IsFirst, ObjSize
    <3> QED
      BY <2>1, <3>1
  <2>3. q + 4 <= end /\ end <= b.len /\ b.len \in Nat
    BY <1>1, <2>1 DEF IsBuf
  <2> QED
    BY <1>1, <2>2, <2>3
<1>3. c.mem[q \div 4] = b.mem[q \div 4]
  <2>1. q \div 4 \in Nat /\ q \div 4 \notin S /\ 4 * (q \div 4) < b.len
    BY <1>1, <1>2
  <2> QED
    BY <2>1, Zenon DEF Kept
<1>4. PtrTo(b.mem[q \div 4], len)
  BY DEF PtrsTo
<1> QED
  BY <1>3, <1>4 DEF PtrTo

\* An array that is not stored over stays one.
LEMMA ArrKept ==
    ASSUME NEW b, IsBuf(b), NEW o, IsArr(b, o), NEW c, NEW S, Kept(b, c, S), o.off \div 4 - 1 \notin S
    PROVE  IsArr(c, o)
<1>1. o.off \in Nat /\ o.off % 4 = 0 /\ 8 <= o.off /\ o.off <= b.len /\ b.len \in Nat /\ c.len \in Nat
      /\ b.len <= c.len
  BY DEF IsArr, IsFirst, IsBuf, Kept
<1>2. o.off \div 4 - 1 \in Nat /\ 4 * (o.off \div 4 - 1) < b.len
  BY <1>1
<1>3. c.mem[o.off \div 4 - 1] = b.mem[o.off \div 4 - 1]
  BY <1>2, Zenon DEF Kept
<1> QED
  BY <1>1, <1>3 DEF IsArr, IsFirst

\* What lies in newbuf is found p words further on in c.
FoundAt(newbuf, c, p) == \A w \in Nat : 4 * w < newbuf.len => c.mem[w + p] = newbuf.mem[w]

\* Each pointer of the array that is not null has been turned into a distance.
PointersFixed(b, o, n, c) ==
    \A w \in Nat : 4 * w < b.len /\ 4 * w \in Pointers(o, n) =>
        c.mem[w] = IF b.mem[w] # 0 THEN FixedPtr(b, 4 * w) ELSE b.mem[w]

\* nbuf_fix_arr appends newbuf, and stores to the pointers of the array only.
LEMMA FixArrIs ==
    ASSUME NEW b, IsBuf(b), NEW o, NEW n, NEW newbuf, IsBuf(newbuf),
           NEW c, c = FixArr(b, o, n, newbuf)
    PROVE  /\ Kept(b, c, {q \div 4 : q \in Pointers(o, n)})
           /\ c.len = IF newbuf.len > 0 THEN Start(b) + newbuf.len ELSE b.len
           /\ FoundAt(newbuf, c, Start(b) \div 4) /\ PointersFixed(b, o, n, c)
<1>1. PICK c1 : c1 = IF newbuf.len > 0 THEN AllocAligned(b, newbuf.len) ELSE b
  OBVIOUS
<1>2. Kept(b, c1, {}) /\ c1.len = IF newbuf.len > 0 THEN Start(b) + newbuf.len ELSE b.len
  <2>1. newbuf.len \in Nat
    BY DEF IsBuf
  <2>2. CASE newbuf.len > 0
    BY <1>1, <2>1, <2>2, AllocAlignedIs
  <2>3. CASE ~(newbuf.len > 0)
    BY <1>1, <2>3, KeptItself
  <2> QED
    BY <2>2, <2>3
<1>3. IsBuf(c1) /\ b.len \in Nat
  BY <1>2 DEF Kept, IsBuf
<1>4. PICK p \in Nat : p = Start(b) \div 4 /\ 4 * p >= b.len
  BY StartIs
<1> DEFINE copied == p .. p + Words(newbuf.len) - 1
           mem == [w \in DOMAIN c1.mem |->
                      IF w \in copied THEN newbuf.mem[w - p]
                      ELSE IF 4 * w \in Pointers(o, n) /\ c1.mem[w] # 0 THEN FixedPtr(b, 4 * w)
                      ELSE c1.mem[w]]
<1>5. c = [c1 EXCEPT !.mem = mem]
  BY <1>1, <1>4 DEF FixArr
<1>6. c1 = [mem |-> c1.mem, len |-> c1.len, cap |-> c1.cap, grows |-> c1.grows]
      /\ DOMAIN c1.mem = 0 .. Words(c1.cap) - 1
  <2>1. c1 = [mem |-> [i \in 0 .. Words(c1.cap) - 1 |-> c1.mem[i]],
              len |-> c1.len, cap |-> c1.cap, grows |-> c1.grows]
    BY <1>3, Zenon DEF IsBuf
  <2>2. c1.mem = [i \in 0 .. Words(c1.cap) - 1 |-> c1.mem[i]]
    BY <2>1
  <2>3. DOMAIN c1.mem = 0 .. Words(c1.cap) - 1
    BY <2>2
  <2> QED
    BY <2>1, <2>2, <2>3
<1>7. PICK m : m = mem
  OBVIOUS
<1>8. m = [w \in 0 .. Words(c1.cap) - 1 |-> m[w]]
  BY <1>6, <1>7
<1>9. c = [mem |-> m, len |-> c1.len, cap |-> c1.cap, grows |-> c1.grows]
  <2> HIDE DEF mem
  <2> QED
    BY <1>5, <1>6, <1>7
<1>10. c.mem = m /\ c.len = c1.len /\ c.cap = c1.cap /\ c.grows = c1.grows
  BY <1>9
<1>11. IsBuf(c)
  <2>1. c = [mem |-> [i \in 0 .. Words(c.cap) - 1 |-> c.mem[i]],
             len |-> c.len, cap |-> c.cap, grows |-> c.grows]
    BY <1>8, <1>9, <1>10
  <2>2. c.len \in Nat /\ c.cap \in Nat /\ c.len <= c.cap
    BY <1>3, <1>10 DEF IsBuf
  <2> QED
    BY <2>1, <2>2, Zenon DEF IsBuf
<1>12. c1.cap \in Nat /\ c1.len \in Nat /\ c1.len <= c1.cap /\ b.len <= c1.len
  BY <1>2, <1>3 DEF IsBuf, Kept
<1>13. ASSUME NEW w \in Nat, 4 * w < b.len
       PROVE  c.mem[w] = IF 4 * w \in Pointers(o, n) /\ b.mem[w] # 0 THEN FixedPtr(b, 4 * w) ELSE b.mem[w]
  <2>1. w \notin copied
    BY <1>3, <1>4, <1>13
  <2>3. w \in 0 .. Words(c1.cap) - 1
    BY <1>3, <1>13, <1>12 DEF Words
  <2>5. c1.mem[w] = b.mem[w]
    <3>1. w \in Nat \ {}
      OBVIOUS
    <3> QED
      BY <1>2, <1>13, <3>1, Zenon DEF Kept
  <2>4. m[w] = IF 4 * w \in Pointers(o, n) /\ c1.mem[w] # 0 THEN FixedPtr(b, 4 * w) ELSE c1.mem[w]
    BY <1>6, <1>7, <2>1, <2>3
  <2> QED
    BY <1>10, <2>4, <2>5
<1>14. ASSUME NEW w \in Nat \ {q \div 4 : q \in Pointers(o, n)}, 4 * w < b.len
       PROVE  c.mem[w] = b.mem[w]
  <2>1. 4 * w \notin Pointers(o, n)
    <3>1. (4 * w) \div 4 = w
      OBVIOUS
    <3> QED
      BY <1>14, <3>1
  <2> QED
    BY <1>13, <1>14, <2>1
<1>15. ASSUME NEW w \in Nat, 4 * w < newbuf.len
       PROVE  c.mem[w + p] = newbuf.mem[w]
  <2>1. newbuf.len \in Nat /\ c1.len = Start(b) + newbuf.len /\ Start(b) = 4 * p
    <3>1. newbuf.len \in Nat
      BY DEF IsBuf
    <3>2. Start(b) = 4 * p
      BY <1>4, StartIs
    <3> QED
      BY <1>2, <1>15, <3>1, <3>2
  <2>2. w + p \in copied /\ w + p - p = w
    BY <1>15, <2>1 DEF Words
  <2>3. w + p \in 0 .. Words(c1.cap) - 1
    BY <1>15, <1>12, <2>1 DEF Words
  <2> QED
    BY <1>6, <1>7, <1>10, <2>2, <2>3
<1>16. b.len <= c.len
  BY <1>2, <1>10 DEF Kept
<1>17. Kept(b, c, {q \div 4 : q \in Pointers(o, n)})
  BY <1>11, <1>14, <1>16, Zenon DEF Kept
<1>18. FoundAt(newbuf, c, Start(b) \div 4)
  BY <1>4, <1>15 DEF FoundAt
<1>19. PointersFixed(b, o, n, c)
  BY <1>13 DEF PointersFixed
<1> QED
  BY <1>2, <1>10, <1>17, <1>18, <1>19

\* What nbuf_fix_arr asserts of pointers holds of all that were set to
\* positions in newbuf, even when their distances do not fit into a word.
LEMMA FixableIs ==
    ASSUME NEW b, IsBuf(b), NEW o, IsFirst(o), NEW n \in Nat, o.off + n * ObjSize(o) <= b.len,
           NEW newbuf, IsBuf(newbuf), PtrsTo(b, o, n, newbuf.len)
    PROVE  Fixable(b, o, n, newbuf)
<1> SUFFICES ASSUME NEW q \in Pointers(o, n), WordAt(b, q) # 0
             PROVE  newbuf.len > 0 /\ q + 4 * FixedPtr(b, q) < Start(b) + newbuf.len
  BY DEF Fixable
<1>1. PICK len \in Nat : len = newbuf.len
  BY DEF IsBuf
<1>2. PICK pos \in Nat : 4 * pos < len /\ WordAt(b, q) = M - 1 - pos
  BY <1>1 DEF PtrsTo, PtrTo, WordAt
<1>3. PICK at \in Nat : Start(b) = 4 * at /\ Start(b) \div 4 = at /\ 4 * at >= b.len
  BY StartIs
<1>4. PICK k \in Nat : q = 4 * k /\ q \div 4 = k
  BY PointersWithin
<1>5. k <= at
  <2>1. PICK end : end = o.off + n * ObjSize(o)
    OBVIOUS
  <2>2. end \in Int
    <3>1. o.off \in Int /\ ObjSize(o) \in Int
      BY DEF IsArr, IsFirst, ObjSize
    <3> QED
      BY <2>1, <3>1
  <2>3. q + 4 <= end
    BY <2>1, PointersWithin
  <2>4. end <= b.len /\ b.len \in Nat
    BY <2>1 DEF IsBuf
  <2> QED
    BY <1>3, <1>4, <2>2, <2>3, <2>4
<1>6. PICK x \in Nat : x = pos + at - k
  BY <1>5
<1>7. PICK m \in Nat : m = M /\ m > 0
  BY MIsNat
<1>8. FixedPtr(b, q) = x % m
  <2>1. m - 1 - (m - 1 - pos) + at - k = x
    BY <1>6
  <2> QED
    BY <1>2, <1>3, <1>4, <1>7, <2>1 DEF FixedPtr
<1>9. x % m \in Nat /\ x % m <= x
  <2>1. x \div m \in Nat /\ x % m \in 0 .. m - 1 /\ x = m * (x \div m) + (x % m)
    BY <1>7
  <2>2. m * (x \div m) \in Nat
    BY <1>7, <2>1
  <2> QED
    BY <2>1, <2>2
<1> QED
  BY <1>1, <1>2, <1>3, <1>4, <1>6, <1>8, <1>9
\* The elements of an array follow each other; where the next one begins, no
\* pointer of those before it is.
LEMMA ElementIs ==
    ASSUME NEW o, IsFirst(o), NEW n \in Nat, NEW e, e = Element(o, n + 1)
    PROVE  /\ e.off \in Nat /\ e.off % 4 = 0 /\ e.off >= o.off
           /\ e.off = o.off + n * ObjSize(o) /\ e.ssize = o.ssize /\ e.psize = o.psize
           /\ ObjSize(e) = ObjSize(o) /\ ObjSize(o) \in Nat
           /\ o.off + (n + 1) * ObjSize(o) = e.off + ObjSize(o)
           /\ \A q \in Pointers(o, n) : q \div 4 < e.off \div 4
<1>1. PICK off \in Nat, s \in Nat, p \in Nat : o.off = 4 * off /\ o.ssize = 4 * s /\ o.psize = p
  <2>1. \A k \in Nat : k % 4 = 0 => k \div 4 \in Nat /\ k = 4 * (k \div 4)
    OBVIOUS
  <2> QED
    BY <2>1 DEF IsFirst
<1>2. PICK t \in Nat : t = p + s /\ ObjSize(o) = 4 * t
  BY <1>1 DEF ObjSize
<1>3. e = [o EXCEPT !.off = o.off + n * ObjSize(o)]
  <2>1. n + 1 - 1 = n
    OBVIOUS
  <2> QED
    BY <2>1 DEF Element
<1>4. e.off = o.off + n * ObjSize(o) /\ e.ssize = o.ssize /\ e.psize = o.psize
  <2>1. o = [n |-> 1, off |-> o.off, ssize |-> o.ssize, psize |-> o.psize]
    BY DEF IsFirst, Object
  <2>2. PICK at : at = o.off + n * ObjSize(o)
    OBVIOUS
  <2>3. e = [o EXCEPT !.off = at]
    BY <1>3, <2>2
  <2> QED
    BY <2>1, <2>2, <2>3
<1>5. PICK m \in Nat : m = n * t
  BY <1>2
<1>6. n * ObjSize(o) = 4 * m /\ (n + 1) * ObjSize(o) = 4 * m + 4 * t
  BY <1>2, <1>5
<1>7. e.off = 4 * (off + m) /\ off + m \in Nat
  BY <1>1, <1>4, <1>6
<1>8. \A q \in Pointers(o, n) : q \div 4 < e.off \div 4
  <2> SUFFICES ASSUME NEW q \in Pointers(o, n) PROVE q \div 4 < e.off \div 4
    OBVIOUS
  <2>1. q \in Nat /\ q = 4 * (q \div 4) /\ q + 4 <= o.off + n * ObjSize(o)
    BY PointersWithin
  <2> QED
    BY <1>4, <1>7, <2>1
<1>9. ObjSize(e) = ObjSize(o)
  BY <1>4 DEF ObjSize
<1> QED
  BY <1>1, <1>2, <1>4, <1>6, <1>7, <1>8, <1>9

\* Once the pointers of one more element are set, all of them are.
LEMMA PtrsMore ==
    ASSUME NEW b, NEW o, NEW n \in Nat, NEW len, PtrsTo(b, o, n, len),
           \A i \in 0 .. o.psize - 1 : PtrTo(b.mem[(o.off + n * ObjSize(o) + 4 * i) \div 4], len)
    PROVE  PtrsTo(b, o, n + 1, len)
<1>1. PICK at : at = o.off + n * ObjSize(o)
  OBVIOUS
<1>2. Pointers(o, n + 1) = Pointers(o, n) \cup {at + 4 * i : i \in 0 .. o.psize - 1}
  BY <1>1, PointersMore
<1>3. \A q \in {at + 4 * i : i \in 0 .. o.psize - 1} : PtrTo(b.mem[q \div 4], len)
  BY <1>1
<1> QED
  BY <1>2, <1>3, Zenon DEF PtrsTo

-----------------------------------------------------------------------------
(* Memory that is not in use yet *)

\* The words of b from w on are zero.
Clear(b, w) == \A i \in w .. Words(b.cap) - 1 : b.mem[i] = 0

LEMMA ClearFrom ==
    ASSUME NEW b, NEW w \in Int, Clear(b, w), NEW z \in Int, w <= z, b.cap \in Nat
    PROVE  Clear(b, z)
<1>1. \A i \in z .. Words(b.cap) - 1 : i \in w .. Words(b.cap) - 1
  BY DEF Words
<1> QED
  BY <1>1 DEF Clear

\* The words that hold the first bytes of a buffer
LEMMA WordsIs ==
    ASSUME NEW k \in Nat
    PROVE  /\ Words(k) \in Nat /\ 4 * Words(k) >= k /\ 4 * Words(k) <= k + 3
           /\ (4 * Words(k)) \div 4 = Words(k)
           /\ \A off \in Nat : off < k => off \div 4 \in Nat /\ off \div 4 < Words(k)
BY DEF Words

\* nbuf_alloc clears what the buffer grows by.
LEMMA AllocClear ==
    ASSUME NEW b, IsBuf(b), NEW size \in Nat, NEW w \in Nat, Clear(b, w)
    PROVE  Clear(Alloc(b, size), w)
<1>1. PICK newlen, cap : /\ newlen = b.len + size
                         /\ cap = IF newlen > b.cap THEN Grown(b.cap, newlen) ELSE b.cap
  OBVIOUS
<1> DEFINE mem == [i \in 0 .. Words(cap) - 1 |-> IF 4 * i < b.len THEN b.mem[i] ELSE 0]
<1>2. PICK c : c = Alloc(b, size)
  OBVIOUS
<1>3. b = [mem |-> b.mem, len |-> b.len, cap |-> b.cap, grows |-> b.grows]
  BY DEF IsBuf
<1>4. c = [b EXCEPT !.len = newlen, !.cap = cap, !.mem = IF newlen > b.cap THEN mem ELSE @]
  BY <1>1, <1>2 DEF Alloc
<1>5. c.cap = cap /\ c.mem = IF newlen > b.cap THEN mem ELSE b.mem
  <2> HIDE DEF mem
  <2> QED
    BY <1>3, <1>4
<1>6. CASE newlen > b.cap
  <2> SUFFICES ASSUME NEW i \in w .. Words(cap) - 1 PROVE mem[i] = 0
    BY <1>2, <1>5, <1>6 DEF Clear
  <2>1. i \in 0 .. Words(cap) - 1 /\ i \in Nat
    OBVIOUS
  <2>2. CASE 4 * i < b.len
    <3>1. i \in w .. Words(b.cap) - 1
      BY <2>1, <2>2 DEF IsBuf, Words
    <3> QED
      BY <2>1, <2>2, <3>1 DEF Clear
  <2>3. CASE ~(4 * i < b.len)
    BY <2>1, <2>3
  <2> QED
    BY <2>2, <2>3
<1>7. CASE ~(newlen > b.cap)
  BY <1>1, <1>2, <1>5, <1>7 DEF Clear
<1> QED
  BY <1>6, <1>7

\* A store below is no matter.
LEMMA SetWordClear ==
    ASSUME NEW b, IsBuf(b), NEW off, NEW w \in Nat, Clear(b, w), off \div 4 < w, NEW v
    PROVE  Clear(SetWord(b, off, v), w)
<1>1. PICK k, c : k = off \div 4 /\ c = SetWord(b, off, v)
  OBVIOUS
<1>2. b = [mem |-> b.mem, len |-> b.len, cap |-> b.cap, grows |-> b.grows]
  BY DEF IsBuf
<1>3. c = [b EXCEPT !.mem[k] = v]
  BY <1>1 DEF SetWord
<1>4. c.cap = b.cap /\ c.mem = [b.mem EXCEPT ![k] = v]
  BY <1>2, <1>3
<1>5. \A i \in w .. Words(b.cap) - 1 : i # k /\ b.mem[i] = 0
  BY <1>1 DEF Clear
<1>6. \A i \in w .. Words(b.cap) - 1 : c.mem[i] = 0
  BY <1>4, <1>5
<1> QED
  BY <1>1, <1>4, <1>6 DEF Clear

LEMMA AllocAlignedClear ==
    ASSUME NEW b, IsBuf(b), NEW size \in Nat, NEW w \in Nat, Clear(b, w)
    PROVE  Clear(AllocAligned(b, size), w)
<1>1. Start(b) - b.len + size \in Nat
  <2>1. Start(b) \in Nat /\ Start(b) >= b.len /\ b.len \in Nat
    BY StartIs DEF IsBuf
  <2> QED
    BY <2>1
<1> QED
  BY <1>1, AllocClear DEF AllocAligned

LEMMA SetZeroClear ==
    ASSUME NEW b, IsBuf(b), NEW off, NEW w \in Nat, Clear(b, w)
    PROVE  Clear(SetWord(b, off, 0), w)
<1>1. PICK k, c : k = off \div 4 /\ c = SetWord(b, off, 0)
  OBVIOUS
<1>2. b = [mem |-> b.mem, len |-> b.len, cap |-> b.cap, grows |-> b.grows]
  BY DEF IsBuf
<1>3. c = [b EXCEPT !.mem[k] = 0]
  BY <1>1 DEF SetWord
<1>4. c.cap = b.cap /\ c.mem = [b.mem EXCEPT ![k] = 0]
  BY <1>2, <1>3
<1>5. DOMAIN b.mem = 0 .. Words(b.cap) - 1
  <2>1. b.mem = [i \in 0 .. Words(b.cap) - 1 |-> b.mem[i]]
    <3>1. b = [mem |-> [i \in 0 .. Words(b.cap) - 1 |-> b.mem[i]],
               len |-> b.len, cap |-> b.cap, grows |-> b.grows]
      BY Zenon DEF IsBuf
    <3> QED
      BY <3>1
  <2> QED
    BY <2>1
<1>6. \A i \in w .. Words(b.cap) - 1 : c.mem[i] = 0
  <2>1. \A i \in w .. Words(b.cap) - 1 : b.mem[i] = 0 /\ i \in 0 .. Words(b.cap) - 1
    BY DEF Clear
  <2> QED
    BY <1>4, <1>5, <2>1
<1> QED
  BY <1>1, <1>4, <1>6 DEF Clear

LEMMA AllocObjClear ==
    ASSUME NEW b, IsBuf(b), NEW ssize \in Nat, NEW psize \in Nat, Clear(b, Words(b.len) + 1)
    PROVE  Clear(AllocObj(b, ssize, psize), Words(b.len) + 1)
<1>1. PICK w \in Nat : w = Words(b.len) /\ Start(b) = 4 * w /\ Start(b) \div 4 = w
  <2>1. PICK k \in Nat : k = b.len
    BY DEF IsBuf
  <2> QED
    BY <2>1, WordsIs DEF Start
<1>2. PICK size \in Nat : size = 4 + 4 * psize + ssize
  OBVIOUS
<1>3. PICK c : c = AllocAligned(b, size)
  OBVIOUS
<1>4. IsBuf(c) /\ Clear(c, w + 1)
  <2>1. w + 1 \in Nat /\ Clear(b, w + 1)
    BY <1>1
  <2> QED
    BY <1>3, <2>1, AllocAlignedIs, AllocAlignedClear DEF Kept
<1>5. ASSUME NEW v PROVE Clear(SetWord(c, 4 * w, v), w + 1)
  <2>1. (4 * w) \div 4 < w + 1 /\ w + 1 \in Nat
    OBVIOUS
  <2> QED
    BY <1>4, <2>1, SetWordClear
<1> QED
  BY <1>1, <1>2, <1>3, <1>5 DEF AllocObj

\* The header of an object is found in front of it.
LEMMA AllocObjHeader ==
    ASSUME NEW b, IsBuf(b), NEW ssize \in Nat, NEW psize \in Nat
    PROVE  AllocObj(b, ssize, psize).mem[Start(b) \div 4] = Header(ssize, psize)
<1>1. PICK at \in Nat : at = Start(b)
  BY StartIs
<1>2. PICK size \in Nat : size = 4 + 4 * psize + ssize /\ size > 0
  OBVIOUS
<1>3. PICK c : c = AllocAligned(b, size)
  OBVIOUS
<1>4. IsBuf(c) /\ c.len = at + size
  BY <1>1, <1>2, <1>3, AllocAlignedIs DEF Kept
<1>5. at < c.len
  BY <1>2, <1>4
<1>6. ASSUME NEW v PROVE SetWord(c, at, v).mem[at \div 4] = v
  <2>1. PICK d : d = SetWord(c, at, v)
    OBVIOUS
  <2>2. IsBuf(c) /\ at \in Nat /\ at < c.len /\ d = SetWord(c, at, v)
    BY <1>4, <1>5, <2>1
  <2>3. IsBuf(d) /\ Kept(c, d, {at \div 4}) /\ d.len = c.len /\ d.mem[at \div 4] = v
    BY ONLY <2>2, SetWordTo
  <2> QED
    BY <2>1, <2>3
<1>7. SetWord(c, at, Header(ssize, psize)).mem[at \div 4] = Header(ssize, psize)
  BY <1>6
<1> QED
  BY <1>1, <1>2, <1>3, <1>7 DEF AllocObj

\* An array of words takes a header and a length.
LEMMA AllocArrClear ==
    ASSUME NEW b, IsBuf(b), NEW ssize \in Nat, ssize % 4 = 0, NEW psize \in Nat,
           Clear(b, Words(b.len) + 1),
           NEW o, o = NewArr(b, 1, ssize, psize), NEW c, c = AllocArr(b, 1, ssize, psize)
    PROVE  Clear(c, o.off \div 4)
<1>1. ~IsBytes(ssize, psize)
  BY DEF IsBytes
<1>2. PICK w \in Nat : w = Words(b.len) /\ Start(b) = 4 * w /\ Start(b) \div 4 = w
  <2>1. PICK k \in Nat : k = b.len
    BY DEF IsBuf
  <2> QED
    BY <2>1, WordsIs DEF Start
<1>3. PICK size \in Nat : size = 8 + 1 * (4 * psize + ssize) /\ size >= 8
  OBVIOUS
<1>4. PICK c1 : c1 = AllocAligned(b, size)
  OBVIOUS
<1>5. IsBuf(c1) /\ Clear(c1, w + 2) /\ c1.len = 4 * w + size
  <2>1. w + 1 \in Nat /\ Clear(b, w + 1)
    BY <1>2
  <2>2. IsBuf(c1) /\ Clear(c1, w + 1) /\ c1.len = 4 * w + size
    <3>1. Kept(b, c1, {}) /\ c1.len = Start(b) + size
      BY <1>4, AllocAlignedIs
    <3>2. Clear(c1, w + 1)
      BY <1>4, <2>1, AllocAlignedClear
    <3> QED
      BY <1>2, <3>1, <3>2 DEF Kept
  <2>3. w + 1 \in Int /\ w + 2 \in Int /\ w + 1 <= w + 2 /\ c1.cap \in Nat
    BY <2>2, SMTT(30) DEF IsBuf
  <2> QED
    BY <2>2, <2>3, ClearFrom
<1>6. PICK hdr : hdr = Header(ssize, psize) + ARR
  OBVIOUS
<1>7. PICK c2 : c2 = SetWord(c1, 4 * w, hdr)
  OBVIOUS
<1>8. IsBuf(c2) /\ Clear(c2, w + 2)
  <2>1. 4 * w \in Nat /\ 4 * w < c1.len /\ (4 * w) \div 4 < w + 2 /\ w + 2 \in Nat
    BY <1>3, <1>5
  <2> QED
    BY <1>5, <1>7, <2>1, SetWordIs, SetWordClear DEF Kept
<1>9. c = SetWord(c2, 4 * w + 4, 1)
  BY <1>1, <1>2, <1>3, <1>4, <1>6, <1>7 DEF AllocArr
<1>10. Clear(c, w + 2)
  <2>1. (4 * w + 4) \div 4 < w + 2 /\ w + 2 \in Nat
    OBVIOUS
  <2> QED
    BY <1>8, <1>9, <2>1, SetWordClear
<1>11. o.off = 4 * w + 8
  BY <1>1, <1>2 DEF NewArr, Object
<1>12. (4 * w + 8) \div 4 = w + 2
  OBVIOUS
<1> QED
  BY <1>10, <1>11, <1>12

\* nbuf_resize_arr stores below the array.
LEMMA ResizeArrClear ==
    ASSUME NEW b, IsBuf(b), NEW o, IsArr(b, o), NEW n, NEW w \in Nat, Clear(b, w), o.off \div 4 <= w
    PROVE  Clear(ResizeArr(b, o, n), w)
<1>1. PICK hdr : hdr = HdrOffset(b, o)
  OBVIOUS
<1>2. hdr \div 4 < w /\ (hdr + 4) \div 4 < w
  <2>1. o.off \in Nat /\ o.off % 4 = 0 /\ 8 <= o.off
    BY DEF IsArr, IsFirst
  <2>2. hdr = o.off - 8
    BY <1>1, ArrHdrOffset
  <2> QED
    BY <2>1, <2>2
<1>3. ASSUME NEW off, off \div 4 < w, NEW v PROVE Clear(SetWord(b, off, v), w)
  BY <1>3, SetWordClear
<1>4. \E off \in {hdr, hdr + 4} : \E v : ResizeArr(b, o, n) = SetWord(b, off, v)
  BY <1>1 DEF ResizeArr
<1> QED
  BY <1>2, <1>3, <1>4

\* What nbuf_fix_arr stores to lies below the new length.
LEMMA FixArrClear ==
    ASSUME NEW b, IsBuf(b), NEW o, IsFirst(o), NEW n \in Nat, o.off + n * ObjSize(o) <= b.len,
           NEW newbuf, IsBuf(newbuf), NEW c, c = FixArr(b, o, n, newbuf), Clear(b, Words(b.len))
    PROVE  Clear(c, Words(c.len))
<1>1. PICK len \in Nat, more \in Nat : len = b.len /\ more = newbuf.len
  BY DEF IsBuf
<1>2. PICK c1 : c1 = IF more > 0 THEN AllocAligned(b, more) ELSE b
  OBVIOUS
<1>3. IsBuf(c1) /\ Clear(c1, Words(len))
  <2>1. Words(len) \in Nat
    BY WordsIs
  <2>2. CASE more > 0
    BY <1>1, <1>2, <2>1, <2>2, AllocAlignedIs, AllocAlignedClear DEF Kept
  <2>3. CASE ~(more > 0)
    BY <1>1, <1>2, <2>3
  <2> QED
    BY <2>2, <2>3
<1>4. PICK p \in Nat : p = Words(len) /\ p = Start(b) \div 4 /\ Start(b) = 4 * p /\ 4 * p >= len
  BY <1>1, WordsIs DEF Start
<1> DEFINE copied == p .. p + Words(more) - 1
           mem == [w \in DOMAIN c1.mem |->
                      IF w \in copied THEN newbuf.mem[w - p]
                      ELSE IF 4 * w \in Pointers(o, n) /\ c1.mem[w] # 0 THEN FixedPtr(b, 4 * w)
                      ELSE c1.mem[w]]
<1>5. c = [c1 EXCEPT !.mem = mem]
  BY <1>1, <1>2, <1>4 DEF FixArr
<1>6. c1 = [mem |-> c1.mem, len |-> c1.len, cap |-> c1.cap, grows |-> c1.grows]
      /\ DOMAIN c1.mem = 0 .. Words(c1.cap) - 1
  <2>1. c1 = [mem |-> [i \in 0 .. Words(c1.cap) - 1 |-> c1.mem[i]],
              len |-> c1.len, cap |-> c1.cap, grows |-> c1.grows]
    BY <1>3, Zenon DEF IsBuf
  <2>2. c1.mem = [i \in 0 .. Words(c1.cap) - 1 |-> c1.mem[i]]
    BY <2>1
  <2>3. DOMAIN c1.mem = 0 .. Words(c1.cap) - 1
    BY <2>2
  <2> QED
    BY <2>1, <2>2, <2>3
<1>7. PICK m : m = mem
  OBVIOUS
<1>8. c.mem = m /\ c.cap = c1.cap
  <2> HIDE DEF mem
  <2> QED
    BY <1>5, <1>6, <1>7
<1>9. PICK z \in Nat : z = Words(c.len) /\ z >= p /\ z >= p + Words(more)
  <2>1. c.len = IF more > 0 THEN 4 * p + more ELSE len
    <3>1. /\ Kept(b, c, {q \div 4 : q \in Pointers(o, n)})
          /\ c.len = IF newbuf.len > 0 THEN Start(b) + newbuf.len ELSE b.len
      BY FixArrIs
    <3> QED
      BY <1>1, <1>4, <3>1
  <2>2. Words(4 * p + more) = p + Words(more) /\ Words(more) \in Nat
    BY DEF Words
  <2>3. CASE more > 0
    BY <2>1, <2>2, <2>3
  <2>4. CASE ~(more > 0)
    BY <1>4, <2>1, <2>4 DEF Words
  <2> QED
    BY <2>3, <2>4
<1>10. ASSUME NEW i \in z .. Words(c.cap) - 1 PROVE c.mem[i] = 0
  <2>1. i \in Nat /\ i \in DOMAIN c1.mem /\ i \notin copied /\ i >= p
    BY <1>6, <1>8, <1>9 DEF Words
  <2>2. c1.mem[i] = 0
    BY <1>3, <1>4, <1>6, <2>1 DEF Clear
  <2>3. m[i] = c1.mem[i]
    BY <1>7, <2>1, <2>2
  <2> QED
    BY <1>8, <2>2, <2>3
<1> QED
  BY <1>9, <1>10 DEF Clear

\* Pointers that were never set are null.
LEMMA ZeroPtrs ==
    ASSUME NEW b, IsBuf(b), NEW o, IsFirst(o), NEW n \in Nat, o.off + n * ObjSize(o) <= b.len,
           Clear(b, o.off \div 4), NEW len
    PROVE  PtrsTo(b, o, n, len)
<1> SUFFICES ASSUME NEW q \in Pointers(o, n) PROVE b.mem[q \div 4] = 0
  BY DEF PtrsTo, PtrTo
<1>1. PICK k \in Nat, end \in Int : q = 4 * k /\ q \div 4 = k /\ end = o.off + n * ObjSize(o) /\ q + 4 <= end
                                     /\ q >= o.off
  <2>1. o.off + n * ObjSize(o) \in Int
    <3>1. o.off \in Int /\ ObjSize(o) \in Int
      BY DEF IsFirst, ObjSize
    <3> QED
      BY <3>1
  <2> QED
    BY <2>1, PointersWithin
<1>2. k < Words(b.cap) /\ k >= o.off \div 4
  <2>1. b.len \in Nat /\ b.cap \in Nat /\ b.len <= b.cap /\ o.off \in Nat
    BY DEF IsBuf, IsFirst
  <2> QED
    BY <1>1, <2>1 DEF Words
<1>3. k \in o.off \div 4 .. Words(b.cap) - 1
  <2>1. o.off \in Nat /\ b.cap \in Nat
    BY DEF IsFirst, IsBuf
  <2>2. o.off \div 4 \in Int /\ Words(b.cap) \in Int
    BY ONLY <2>1 DEF Words
  <2> QED
    BY <1>2, <2>2
<1> QED
  BY <1>1, <1>3 DEF Clear

\* A store of a pointer, or elsewhere, leaves pointers where they point.
LEMMA PtrsStore ==
    ASSUME NEW b, IsBuf(b), NEW o, IsFirst(o), NEW n \in Nat, o.off + n * ObjSize(o) <= b.len,
           NEW len, PtrsTo(b, o, n, len), NEW off \in Nat, off < b.len, off % 4 = 0,
           NEW w, PtrTo(w, len) \/ off \notin Pointers(o, n)
    PROVE  PtrsTo(SetWord(b, off, w), o, n, len)
<1> SUFFICES ASSUME NEW q \in Pointers(o, n) PROVE PtrTo(SetWord(b, off, w).mem[q \div 4], len)
  BY DEF PtrsTo
<1>1. PICK c : c = SetWord(b, off, w)
  OBVIOUS
<1>2. IsBuf(c) /\ Kept(b, c, {off \div 4}) /\ c.len = b.len /\ c.mem[off \div 4] = w
  <2>1. IsBuf(b) /\ off \in Nat /\ off < b.len /\ c = SetWord(b, off, w)
    BY <1>1
  <2> QED
    BY ONLY <2>1, SetWordTo
<1>3. q \in Nat /\ q = 4 * (q \div 4) /\ q < b.len
  <2>1. o.off \in Int /\ ObjSize(o) \in Int /\ b.len \in Nat
    <3>1. IsFirst(o) /\ IsBuf(b)
      OBVIOUS
    <3> QED
      BY ONLY <3>1 DEF IsFirst, ObjSize, IsBuf
  <2>2. PICK end \in Int : end = o.off + n * ObjSize(o)
    BY <2>1
  <2> QED
    BY <2>1, <2>2, PointersWithin
<1>4. CASE q = off
  BY <1>1, <1>2, <1>4
<1>5. CASE q # off
  <2>1. q \div 4 \in Nat /\ q \div 4 # off \div 4 /\ 4 * (q \div 4) < b.len
    BY <1>3, <1>5
  <2>2. c.mem[q \div 4] = b.mem[q \div 4]
    BY <1>2, <2>1 DEF Kept
  <2> QED
    BY <1>1, <2>2 DEF PtrsTo
<1> QED
  BY <1>4, <1>5

LEMMA QuotientIs ==
    ASSUME NEW d \in Nat, d > 0, NEW q \in Nat, NEW r \in Nat, r < d
    PROVE  (q * d + r) \div d = q
<1>1. PICK x \in Nat : x = q * d + r
  OBVIOUS
<1>2. PICK k \in Int, s \in Int : k = x \div d /\ x = d * k + s /\ 0 <= s /\ s < d
  <2>1. x \div d \in Int /\ x % d \in 0 .. d - 1 /\ x = d * (x \div d) + (x % d)
    OBVIOUS
  <2> QED
    BY <2>1
<1>3. CASE k >= q + 1
  <2>1. PICK e \in Nat : k = q + 1 + e
    <3>1. k - q - 1 \in Nat /\ k = q + 1 + (k - q - 1)
      BY <1>3
    <3> QED
      BY <3>1
  <2>2. d * k = q * d + d + d * e /\ d * e \in Nat
    BY <2>1
  <2> QED
    BY <1>1, <1>2, <2>2
<1>4. CASE k <= q - 1
  <2>1. PICK e \in Nat : q = k + 1 + e
    <3>1. q - k - 1 \in Nat /\ q = k + 1 + (q - k - 1)
      BY <1>4
    <3> QED
      BY <3>1
  <2>2. q * d = d * k + d + d * e /\ d * e \in Nat
    BY <2>1
  <2> QED
    BY <1>1, <1>2, <2>2
<1> QED
  BY <1>1, <1>2, <1>3, <1>4

\* The header bit of a header whose fields are in their ranges
LEMMA HeaderHas ==
    ASSUME NEW x \in Nat, x < HDR
    PROVE  Has(HDR + x, HDR)
<1>1. PICK d \in Nat : d = HDR /\ d > 0
  BY MIsNat
<1>2. (1 * d + x) \div d = 1 /\ 1 * d + x = d + x
  BY <1>1, QuotientIs
<1> QED
  BY <1>1, <1>2 DEF Has

LEMMA RemainderIs ==
    ASSUME NEW d \in Nat, d > 0, NEW q \in Nat, NEW r \in Nat, r < d
    PROVE  (q * d + r) % d = r
<1>1. PICK x \in Nat : x = q * d + r
  OBVIOUS
<1>2. x \div d = q
  BY <1>1, QuotientIs
<1>3. x = d * (x \div d) + (x % d) /\ x % d \in Int
  BY <1>1
<1>4. d * q = q * d
  OBVIOUS
<1> QED
  BY <1>1, <1>2, <1>3, <1>4

LEMMA SmallRemainder ==
    ASSUME NEW d \in Nat, d > 0, NEW r \in Nat, r < d
    PROVE  r % d = r
<1>1. (0 * d + r) % d = r
  BY RemainderIs
<1>2. 0 * d + r = r
  OBVIOUS
<1> QED
  BY <1>1, <1>2

-----------------------------------------------------------------------------
(* Headers read back *)

\* The bits of a header above its fields: of an object, and of an array
LEMMA HeaderBits ==
    ASSUME NEW x \in Nat, x < ARR
    PROVE  /\ Has(HDR + x, HDR) /\ ~Has(HDR + x, BARR) /\ ~Has(HDR + x, ARR)
           /\ Has(HDR + ARR + x, HDR) /\ ~Has(HDR + ARR + x, BARR) /\ Has(HDR + ARR + x, ARR)
<1>1. PICK d \in Nat : d = ARR /\ d > 0
  BY MIsNat
<1>2. HDR = 4 * d /\ BARR = 2 * d
  BY <1>1 DEF HDR, BARR
<1>3. (4 * d + x) \div d = 4 /\ (5 * d + x) \div d = 5
  BY <1>1, QuotientIs
<1>4. (2 * (2 * d) + x) \div (2 * d) = 2 /\ (2 * (2 * d) + (d + x)) \div (2 * d) = 2
  BY <1>1, QuotientIs
<1>5. (1 * (4 * d) + x) \div (4 * d) = 1 /\ (1 * (4 * d) + (d + x)) \div (4 * d) = 1
  BY <1>1, QuotientIs
<1>6. PICK y \in Nat, z \in Nat : y = 4 * d + x /\ z = 5 * d + x
  OBVIOUS
<1>7. y \div d = 4 /\ y \div (2 * d) = 2 /\ y \div (4 * d) = 1
  BY <1>3, <1>4, <1>5, <1>6
<1>8. z \div d = 5 /\ z \div (2 * d) = 2 /\ z \div (4 * d) = 1
  BY <1>3, <1>4, <1>5, <1>6
<1>9. HDR + x = y /\ HDR + ARR + x = z
  BY <1>1, <1>2, <1>6
<1> QED
  BY <1>1, <1>2, <1>7, <1>8, <1>9 DEF Has

\* The fields of a header are below its bits.
LEMMA FieldsFit ==
    ASSUME NEW ssize \in Nat, ssize < SN, NEW psize \in Nat, psize < PN
    PROVE  ssize * PN + psize \in Nat /\ ssize * PN + psize < ARR
<1>1. PICK e \in Nat : SN = ssize + 1 + e
  <2>1. SN - ssize - 1 \in Nat /\ SN = ssize + 1 + (SN - ssize - 1)
    OBVIOUS
  <2> QED
    BY <2>1
<1>2. SN * PN = ssize * PN + PN + e * PN /\ e * PN \in Nat /\ ssize * PN \in Nat
  BY <1>1
<1> QED
  BY <1>2 DEF ARR

LEMMA HeaderFields ==
    ASSUME NEW ssize \in Nat, ssize < SN, NEW psize \in Nat, psize < PN, NEW k \in {0, ARR}
    PROVE  Ssize(Header(ssize, psize) + k) = ssize /\ Psize(Header(ssize, psize) + k) = psize
<1>1. PICK a \in Nat : k = a * (SN * PN)
  <2>1. 0 = 0 * (SN * PN) /\ ARR = 1 * (SN * PN)
    BY DEF ARR
  <2> QED
    BY <2>1
<1>2. PICK q \in Nat : q = (4 + a) * SN + ssize
  OBVIOUS
<1>3. Header(ssize, psize) + k = q * PN + psize
  <2>1. HDR = (4 * SN) * PN
    BY DEF HDR, ARR
  <2>2. k = (a * SN) * PN
    BY <1>1
  <2>3. q * PN = (4 * SN) * PN + (a * SN) * PN + ssize * PN
    BY <1>2
  <2>4. ssize * PN \in Int /\ (4 * SN) * PN \in Int /\ (a * SN) * PN \in Int
    OBVIOUS
  <2> QED
    BY <2>1, <2>2, <2>3, <2>4 DEF Header
<1>4. PICK h \in Nat : h = q * PN + psize
  OBVIOUS
<1>5. h \div PN = q /\ h % PN = psize
  BY <1>4, QuotientIs, RemainderIs
<1>6. q % SN = ssize
  BY <1>2, RemainderIs
<1> QED
  BY <1>3, <1>4, <1>5, <1>6 DEF Ssize, Psize

\* The header of a string of k bytes
LEMMA BytesHeader ==
    ASSUME NEW k \in Nat, k < BARR
    PROVE  /\ Has(HDR + BARR + k, HDR) /\ Has(HDR + BARR + k, BARR) /\ (HDR + BARR + k) % BARR = k
           /\ ((HDR + BARR + k) \div BARR) * BARR = HDR + BARR
<1>1. PICK d \in Nat : d = BARR /\ d > 0
  BY MIsNat DEF BARR
<1>2. HDR = 2 * d
  BY <1>1, MIsNat DEF HDR, BARR
<1>3. PICK y \in Nat : y = 3 * d + k
  OBVIOUS
<1>4. y \div d = 3 /\ y % d = k
  BY <1>1, <1>3, QuotientIs, RemainderIs
<1>5. y \div (2 * d) = 1
  <2>1. (1 * (2 * d) + (d + k)) \div (2 * d) = 1
    BY <1>1, QuotientIs
  <2> QED
    BY <1>3, <2>1
<1> QED
  BY <1>1, <1>2, <1>3, <1>4, <1>5 DEF Has

-----------------------------------------------------------------------------
(* Objects read back *)

\* The object o, by d further on
Moved(o, d) == [o EXCEPT !.off = @ + d]

LEMMA MovedIs ==
    ASSUME NEW o \in Objects, NEW d \in Nat
    PROVE  /\ Moved(o, d) \in Objects /\ Moved(o, d).off = o.off + d /\ Moved(o, d).n = o.n
           /\ Moved(o, d).ssize = o.ssize /\ Moved(o, d).psize = o.psize
           /\ ObjSize(Moved(o, d)) = ObjSize(o) /\ ObjSize(o) \in Nat
           /\ d = 0 => Moved(o, d) = o
BY DEF Moved, Objects, ObjSize

\* What nbuf_get_obj returns for the header of an object, an array of k
\* elements, and a string of k bytes
LEMMA GetObjIs ==
    ASSUME NEW b, b.len \in Nat, NEW h \in Nat, h + 4 <= b.len,
           NEW ssize \in Nat, ssize < SN, NEW psize \in Nat, psize < PN,
           b.mem[h \div 4] = Header(ssize, psize), h + 4 + (4 * psize + ssize) <= b.len
    PROVE  GetObj(b, h) = Object(1, h + 4, ssize, psize)
<1>1. PICK x \in Nat : x = ssize * PN + psize /\ x < ARR /\ Header(ssize, psize) = HDR + x
  <2>1. HDR \in Nat /\ ssize * PN \in Nat
    BY MIsNat
  <2> QED
    BY <2>1, FieldsFit DEF Header
<1>2. Has(HDR + x, HDR) /\ ~Has(HDR + x, BARR) /\ ~Has(HDR + x, ARR)
  BY <1>1, HeaderBits
<1>3. Ssize(HDR + x) = ssize /\ Psize(HDR + x) = psize
  <2>1. HDR + x + 0 = HDR + x
    BY <1>1, MIsNat
  <2> QED
    BY <1>1, <2>1, HeaderFields
<1>4. ObjSize(Object(1, h + 4, ssize, psize)) = 4 * psize + ssize
  BY DEF ObjSize, Object
<1>5. 1 * (4 * psize + ssize) = 4 * psize + ssize
  OBVIOUS
<1>6. Object(1, h + 4, ssize, psize).n = 1
  BY DEF Object
<1> QED
  BY <1>1, <1>2, <1>3, <1>4, <1>5, <1>6 DEF GetObj, WordAt

LEMMA GetArrIs ==
    ASSUME NEW b, b.len \in Nat, NEW h \in Nat, h + 8 <= b.len,
           NEW ssize \in Nat, ssize < SN, NEW psize \in Nat, psize < PN, NEW k \in Nat,
           b.mem[h \div 4] = Header(ssize, psize) + ARR, b.mem[(h + 4) \div 4] = k,
           h + 8 + k * (4 * psize + ssize) <= b.len
    PROVE  GetObj(b, h) = Object(k, h + 8, ssize, psize)
<1>1. PICK x \in Nat : x = ssize * PN + psize /\ x < ARR /\ Header(ssize, psize) + ARR = HDR + ARR + x
  <2>1. HDR \in Nat /\ ARR \in Nat /\ ssize * PN \in Nat
    BY MIsNat
  <2> QED
    BY <2>1, FieldsFit DEF Header
<1>2. Has(HDR + ARR + x, HDR) /\ ~Has(HDR + ARR + x, BARR) /\ Has(HDR + ARR + x, ARR)
  BY <1>1, HeaderBits
<1>3. Ssize(HDR + ARR + x) = ssize /\ Psize(HDR + ARR + x) = psize
  BY <1>1, HeaderFields
<1>4. ObjSize(Object(k, h + 8, ssize, psize)) = 4 * psize + ssize
  BY DEF ObjSize, Object
<1>5. Object(k, h + 8, ssize, psize).n = k
  BY DEF Object
<1> QED
  BY <1>1, <1>2, <1>3, <1>4, <1>5 DEF GetObj, WordAt

LEMMA GetStrIs ==
    ASSUME NEW b, b.len \in Nat, NEW h \in Nat, NEW k \in Nat, k < BARR, h + 4 + k <= b.len,
           b.mem[h \div 4] = HDR + BARR + k
    PROVE  GetObj(b, h) = Object(k, h + 4, 1, 0)
<1>1. Has(HDR + BARR + k, HDR) /\ Has(HDR + BARR + k, BARR) /\ (HDR + BARR + k) % BARR = k
  BY BytesHeader
<1>2. Object(k, h + 4, 1, 0).n = k /\ ObjSize(Object(k, h + 4, 1, 0)) = 1
  BY DEF Object, ObjSize
<1> QED
  BY <1>1, <1>2 DEF GetObj, WordAt

\* The header at word x, and the length of an array behind it, are found in c,
\* p words further on.
Copied(b, c, x, p) ==
    /\ b.len \in Nat /\ c.len \in Nat /\ p \in Nat /\ b.len + 4 * p <= c.len
    /\ x \in Nat /\ c.mem[x + p] = b.mem[x]
    /\ GetObj(b, 4 * x).off = 4 * x + 8 => c.mem[x + 1 + p] = b.mem[x + 1]

\* An object is read in the same way where its header has been copied to.
LEMMA GetObjMoved ==
    ASSUME NEW b, NEW c, NEW x, NEW p, Copied(b, c, x, p), GetObj(b, 4 * x) \in Objects, GetObj(b, 4 * x) # Null
    PROVE  /\ GetObj(c, 4 * (x + p)) = Moved(GetObj(b, 4 * x), 4 * p) /\ GetObj(c, 4 * (x + p)) # Null
           /\ GetObj(b, 4 * x).off >= 4 /\ 4 * x + 4 <= b.len
           /\ GetObj(b, 4 * x).off + GetObj(b, 4 * x).n * ObjSize(GetObj(b, 4 * x)) <= b.len
<1> DEFINE hdr == b.mem[x]
           arr == ~Has(hdr, BARR) /\ Has(hdr, ARR)
           first == 4 * x + (IF arr THEN 8 ELSE 4)
           o == IF Has(hdr, BARR) THEN Object(hdr % BARR, first, 1, 0)
                ELSE Object(IF arr THEN b.mem[x + 1] ELSE 1, first, Ssize(hdr), Psize(hdr))
           far == first + 4 * p
           q == IF Has(hdr, BARR) THEN Object(hdr % BARR, far, 1, 0)
                ELSE Object(IF arr THEN b.mem[x + 1] ELSE 1, far, Ssize(hdr), Psize(hdr))
<1>0. /\ b.len \in Nat /\ c.len \in Nat /\ p \in Nat /\ b.len + 4 * p <= c.len
      /\ x \in Nat /\ c.mem[x + p] = hdr
  BY DEF Copied
<1>1. /\ (4 * x) \div 4 = x /\ (4 * x + 4) \div 4 = x + 1
      /\ (4 * (x + p)) \div 4 = x + p /\ (4 * (x + p) + 4) \div 4 = x + 1 + p
  BY <1>0
<1>2. WordAt(b, 4 * x) = hdr /\ WordAt(b, 4 * x + 4) = b.mem[x + 1]
  BY <1>1 DEF WordAt
<1>4. GetObj(b, 4 * x) = o /\ 4 * x + 4 <= b.len /\ Has(hdr, HDR) /\ first <= b.len /\ first + o.n * ObjSize(o) <= b.len
  BY <1>0, <1>2 DEF GetObj
<1>11. o.off = first
  BY DEF Object
<1>12. arr => c.mem[x + 1 + p] = b.mem[x + 1]
  BY <1>0, <1>4, <1>11 DEF Copied
<1>3. WordAt(c, 4 * (x + p)) = hdr /\ (arr => WordAt(c, 4 * (x + p) + 4) = b.mem[x + 1])
  BY <1>0, <1>1, <1>12 DEF WordAt
<1>5. q = Moved(o, 4 * p)
  BY <1>0 DEF Moved, Object
<1>6. q \in Objects /\ q.n = o.n /\ ObjSize(q) = ObjSize(o) /\ o.n \in Nat /\ ObjSize(o) \in Nat
  <2>1. PICK g, h : g = o /\ h = q
    OBVIOUS
  <2>2. g \in Objects /\ h = Moved(g, 4 * p) /\ 4 * p \in Nat
    BY <1>0, <1>4, <1>5, <2>1
  <2>3. h \in Objects /\ h.n = g.n /\ ObjSize(h) = ObjSize(g) /\ g.n \in Nat /\ ObjSize(g) \in Nat
    BY <2>2, MovedIs DEF Objects
  <2> QED
    BY <2>1, <2>3
<1>7. far + q.n * ObjSize(q) <= c.len /\ far <= c.len /\ 4 * (x + p) + 4 <= c.len
  <2>1. PICK k \in Nat : k = o.n * ObjSize(o)
    BY <1>6
  <2> QED
    BY <1>0, <1>4, <1>6, <2>1
<1>8. far = 4 * (x + p) + (IF arr THEN 8 ELSE 4)
  BY <1>0
<1>9. GetObj(c, 4 * (x + p)) = q
  <2>1. CASE arr
    BY <1>0, <1>3, <1>4, <1>7, <1>8, <2>1 DEF GetObj
  <2>2. CASE ~arr
    BY <1>0, <1>3, <1>4, <1>7, <1>8, <2>2 DEF GetObj
  <2> QED
    BY <2>1, <2>2
<1>10. q.off # 0 /\ Null.off = 0
  BY <1>0 DEF Object, Null
<1> QED
  BY <1>0, <1>4, <1>5, <1>6, <1>9, <1>10, <1>11

LEMMA PointersMoved ==
    ASSUME NEW o \in Objects, NEW d \in Nat, NEW n \in Nat, NEW q \in Pointers(Moved(o, d), n)
    PROVE  \E r \in Pointers(o, n) : q = r + d
<1>1. /\ Moved(o, d).off = o.off + d /\ Moved(o, d).psize = o.psize /\ ObjSize(Moved(o, d)) = ObjSize(o)
      /\ ObjSize(o) \in Nat /\ o.off \in Nat /\ o.psize \in Nat
  BY MovedIs DEF Objects
<1>2. PICK e \in 0 .. n - 1, i \in 0 .. o.psize - 1 : q = Moved(o, d).off + e * ObjSize(Moved(o, d)) + 4 * i
  BY <1>1 DEF Pointers
<1>3. PICK k \in Nat : k = e * ObjSize(o)
  BY <1>1
<1>4. o.off + e * ObjSize(o) + 4 * i \in Pointers(o, n)
  BY DEF Pointers
<1>5. q = (o.off + e * ObjSize(o) + 4 * i) + d
  BY <1>1, <1>2, <1>3
<1> QED
  BY <1>4, <1>5

-----------------------------------------------------------------------------
(* What the words of a buffer are.  t tells it: t.fixed are stored to no   *)
(* more, t.ptrs are the pointers of objects that may be reached, t.data    *)
(* the scalars of messages.  Nothing is said of the other words.           *)

\* At word x is the header of an object, or array, that may be pointed to.
Leads(b, t, x) ==
    LET g == GetObj(b, 4 * x)
    IN  /\ x \in Nat /\ x \in t.fixed
        /\ g \in Objects /\ g # Null /\ ObjSize(g) >= 1
        /\ g.off = 4 * x + 8 => x + 1 \in t.fixed
        /\ \A q \in Pointers(g, g.n) : \E w \in t.ptrs : q = 4 * w

\* The pointer at word w is null or the distance to one; v is null or a
\* position in buffer b.
Near(b, t, w) == b.mem[w] = 0 \/ (b.mem[w] \in Nat /\ Leads(b, t, w + b.mem[w]))
Far(v, b, t) == v = 0 \/ \E x \in Nat : v = M - 1 - x /\ Leads(b, t, x)

Kinds(b, t) ==
    /\ b.len \in Nat
    /\ \A w \in t.fixed \cup t.ptrs \cup t.data : w \in Nat /\ 4 * w < b.len
    /\ \A w \in t.fixed : w \notin t.ptrs /\ w \notin t.data
    /\ \A w \in t.ptrs : w \notin t.data

Typed(b, t) == Kinds(b, t) /\ \A w \in t.ptrs : Near(b, t, w)

\* What is fixed in b is found in c, p words further on, and with the pointers
\* it is of the same kind there.
Carries(b, t, c, u, p) ==
    /\ p \in Nat /\ b.len \in Nat /\ c.len \in Nat /\ b.len + 4 * p <= c.len
    /\ \A w \in t.fixed : w \in Nat /\ w + p \in u.fixed /\ c.mem[w + p] = b.mem[w]
    /\ \A w \in t.ptrs : w \in Nat /\ w + p \in u.ptrs

LEMMA LeadsMoved ==
    ASSUME NEW b, NEW t, NEW c, NEW u, NEW p, Carries(b, t, c, u, p), NEW x, Leads(b, t, x)
    PROVE  Leads(c, u, x + p) /\ 4 * x + 4 <= b.len
<1>0. PICK g, h : g = GetObj(b, 4 * x) /\ h = Moved(g, 4 * p)
  OBVIOUS
<1>1. x \in Nat /\ p \in Nat /\ x + p \in u.fixed /\ c.mem[x + p] = b.mem[x] /\ g \in Objects /\ ObjSize(g) >= 1
  BY <1>0 DEF Leads, Carries
<1>2. g.off = 4 * x + 8 => x + 1 + p \in u.fixed /\ c.mem[x + 1 + p] = b.mem[x + 1]
  BY <1>0 DEF Leads, Carries
<1>3. GetObj(c, 4 * (x + p)) = h /\ GetObj(c, 4 * (x + p)) # Null /\ 4 * x + 4 <= b.len
  <2>1. Copied(b, c, x, p)
    BY <1>0, <1>1, <1>2 DEF Carries, Copied
  <2>2. GetObj(b, 4 * x) \in Objects /\ GetObj(b, 4 * x) # Null
    BY DEF Leads
  <2> QED
    BY <1>0, <2>1, <2>2, GetObjMoved
<1>4. /\ h \in Objects /\ h.n = g.n /\ h.off = g.off + 4 * p /\ ObjSize(h) = ObjSize(g) /\ ObjSize(g) \in Nat
      /\ g.n \in Nat /\ g.off \in Nat
  <2>1. 4 * p \in Nat
    BY <1>1
  <2> QED
    BY <1>0, <1>1, <2>1, MovedIs DEF Objects
<1>5. ASSUME NEW q \in Pointers(h, h.n) PROVE \E w \in u.ptrs : q = 4 * w
  <2>1. PICK r \in Pointers(g, g.n) : r + 4 * p = q
    BY <1>0, <1>1, <1>4, PointersMoved
  <2>2. PICK w \in t.ptrs : r = 4 * w
    BY <1>0 DEF Leads
  <2>3. w \in Nat /\ w + p \in u.ptrs
    BY DEF Carries
  <2>4. q = 4 * (w + p)
    BY <1>1, <2>1, <2>2, <2>3, 4 * (w + p) = 4 * w + 4 * p
  <2> QED
    BY <2>3, <2>4
<1>6. h.off = 4 * (x + p) + 8 => x + p + 1 \in u.fixed
  <2>1. x + p + 1 = x + 1 + p
    BY <1>1
  <2> QED
    BY <1>1, <1>2, <1>4, <2>1
<1>7. x + p \in Nat /\ ObjSize(h) >= 1
  BY <1>1, <1>4
<1> QED
  BY <1>1, <1>3, <1>4, <1>5, <1>6, <1>7 DEF Leads

LEMMA NearMoved ==
    ASSUME NEW b, NEW t, NEW c, NEW u, NEW p, Carries(b, t, c, u, p), NEW w \in Nat, Near(b, t, w),
           c.mem[w + p] = b.mem[w]
    PROVE  Near(c, u, w + p)
<1>1. CASE b.mem[w] = 0
  BY <1>1 DEF Near
<1>2. CASE b.mem[w] # 0
  <2>1. b.mem[w] \in Nat /\ Leads(b, t, w + b.mem[w]) /\ p \in Nat
    BY <1>2 DEF Near, Carries
  <2>2. Leads(c, u, w + b.mem[w] + p)
    BY <2>1, LeadsMoved
  <2>3. w + b.mem[w] + p = w + p + b.mem[w]
    BY <2>1
  <2> QED
    BY <2>1, <2>2, <2>3 DEF Near
<1> QED
  BY <1>1, <1>2

\* Kinds are kept when nothing fixed is stored to, every pointer that is stored
\* to leads to an object, and so do the new ones.
LEMMA TypedStep ==
    ASSUME NEW b, NEW t, Typed(b, t), NEW c, NEW u, Carries(b, t, c, u, 0), Kinds(c, u),
           \A w \in u.ptrs : (w \in t.ptrs /\ c.mem[w] = b.mem[w]) \/ Near(c, u, w)
    PROVE  Typed(c, u)
<1>1. ASSUME NEW w \in u.ptrs, w \in t.ptrs, c.mem[w] = b.mem[w] PROVE Near(c, u, w)
  <2>1. w \in Nat /\ Near(b, t, w) /\ w + 0 = w
    BY <1>1 DEF Typed, Kinds
  <2> QED
    BY <1>1, <2>1, NearMoved
<1> QED
  BY <1>1 DEF Typed

\* What is stored to is not fixed, and the kinds are those of b, or more.
LEMMA CarriesKept ==
    ASSUME NEW b, NEW t, Kinds(b, t), NEW c, NEW S, Kept(b, c, S), \A w \in S : w \notin t.fixed,
           NEW u, t.fixed \subseteq u.fixed, t.ptrs \subseteq u.ptrs
    PROVE  Carries(b, t, c, u, 0)
<1>1. c.len \in Nat /\ b.len <= c.len /\ b.len \in Nat
  BY DEF Kept, IsBuf, Kinds
<1>2. ASSUME NEW w \in t.fixed PROVE w \in Nat /\ w + 0 \in u.fixed /\ c.mem[w + 0] = b.mem[w]
  <2>1. w \in Nat /\ 4 * w < b.len /\ w + 0 = w /\ w \notin S
    BY DEF Kinds
  <2>2. c.mem[w] = b.mem[w]
    BY <2>1 DEF Kept
  <2> QED
    BY <2>1, <2>2
<1>3. ASSUME NEW w \in t.ptrs PROVE w \in Nat /\ w + 0 \in u.ptrs
  <2>1. w \in Nat /\ w + 0 = w
    BY DEF Kinds
  <2> QED
    BY <2>1
<1> QED
  BY <1>1, <1>2, <1>3 DEF Carries

LEMMA FarMoved ==
    ASSUME NEW b, NEW t, NEW c, NEW u, Carries(b, t, c, u, 0), NEW v, Far(v, b, t)
    PROVE  Far(v, c, u)
<1>1. CASE v = 0
  BY <1>1 DEF Far
<1>2. CASE v # 0
  <2>1. PICK x \in Nat : v = M - 1 - x /\ Leads(b, t, x)
    BY <1>2 DEF Far
  <2>2. Leads(c, u, x + 0) /\ x + 0 = x
    BY <2>1, LeadsMoved
  <2> QED
    BY <2>1, <2>2 DEF Far
<1> QED
  BY <1>1, <1>2

\* nbuf_obj_set_p stores a pointer at word w, for the header at word x.
Puts(b, o, i, w, x, same, c) ==
    /\ IsBuf(b) /\ w \in Nat /\ PtrOffset(o, i) = 4 * w /\ 4 * w < b.len
    /\ x \in Nat /\ c = SetP(b, o, i, 4 * x, same)

LEMMA SetPValue ==
    ASSUME NEW b, NEW o, NEW i, NEW w \in Nat, NEW x \in Nat, NEW same, NEW c, Puts(b, o, i, w, x, same, c)
    PROVE  /\ Kept(b, c, {w}) /\ c.len = b.len
           /\ same /\ x >= w /\ 4 * x < M => c.mem[w] = x - w
           /\ ~same => c.mem[w] = M - 1 - x
<1> USE DEF Puts
<1>1. PICK v : v = IF same THEN ((4 * x - PtrOffset(o, i)) % M) \div 4 ELSE M - 1 - (4 * x) \div 4
  OBVIOUS
<1>2. c = SetWord(b, 4 * w, v) /\ (4 * w) \div 4 = w /\ (4 * x) \div 4 = x
  BY <1>1 DEF SetP
<1>3. Kept(b, c, {w}) /\ c.len = b.len /\ c.mem[w] = v
  <2>1. 4 * w \in Nat
    OBVIOUS
  <2>2. Kept(b, c, {(4 * w) \div 4}) /\ c.len = b.len /\ c.mem[(4 * w) \div 4] = v
    BY <1>2, <2>1, SetWordIs
  <2> QED
    BY <1>2, <2>2
<1>4. ASSUME same, x >= w, 4 * x < M PROVE v = x - w
  <2>1. PICK d \in Nat : d = x - w
    BY <1>4
  <2>2. 4 * x - PtrOffset(o, i) = 4 * d /\ 4 * d \in Nat /\ 4 * d < M /\ M \in Nat /\ M > 0
    BY <1>4, <2>1, MIsNat
  <2>3. (4 * d) % M = 4 * d
    BY <2>2, SmallRemainder
  <2>4. (4 * d) \div 4 = d
    OBVIOUS
  <2>5. v = ((4 * d) % M) \div 4
    BY <1>1, <1>4, <2>2
  <2> QED
    BY <2>1, <2>3, <2>4, <2>5
<1>5. ~same => v = M - 1 - x
  BY <1>1, <1>2
<1> QED
  BY <1>3, <1>4, <1>5

-----------------------------------------------------------------------------
(* The headers of arrays *)

\* nbuf_alloc_arr stores a header where the array begins.
LEMMA AllocArrHeader ==
    ASSUME NEW b, IsBuf(b), NEW ssize \in Nat, ssize % 4 = 0, NEW psize \in Nat,
           NEW o, o = NewArr(b, 1, ssize, psize), NEW c, c = AllocArr(b, 1, ssize, psize),
           NEW x, x = Words(b.len)
    PROVE  x \in Nat /\ o.off = 4 * x + 8 /\ c.mem[x] = Header(ssize, psize) + ARR
<1>1. ssize # 1 /\ b.len \in Nat
  BY DEF IsBuf
<1>2. x \in Nat /\ Start(b) = 4 * x
  <2>1. PICK len \in Nat : len = b.len
    BY <1>1
  <2>2. Words(len) \in Nat
    BY <2>1, WordsIs
  <2> QED
    BY <2>1, <2>2 DEF Start
<1>3. PICK at \in Nat : /\ at = 4 * x /\ at \div 4 = x /\ (at + 4) \div 4 = x + 1
                      /\ at = Start(b) /\ at + 4 \in Nat
  BY <1>2
<1>4. PICK size \in Nat : size = 8 + 1 * (4 * psize + ssize) /\ size >= 8
  OBVIOUS
<1>5. PICK w, c1, c2 : /\ w = Header(ssize, psize) + ARR
                     /\ c1 = AllocAligned(b, size) /\ c2 = SetWord(c1, at, w)
  OBVIOUS
<1>6. IsBuf(c1) /\ c1.len = at + size
  <2>1. Kept(b, AllocAligned(b, size), {}) /\ AllocAligned(b, size).len = Start(b) + size
    BY ONLY IsBuf(b), size \in Nat, AllocAlignedIs
  <2>2. Kept(b, c1, {}) /\ c1.len = at + size
    BY ONLY <1>3, <1>5, <2>1
  <2> QED
    BY ONLY <2>2 DEF Kept
<1>7. IsBuf(c2) /\ c2.len = at + size /\ c2.mem[x] = w
  <2>1. at < c1.len
    BY <1>4, <1>6
  <2>2. IsBuf(c2) /\ Kept(c1, c2, {at \div 4}) /\ c2.len = c1.len /\ c2.mem[at \div 4] = w
    <3>1. IsBuf(c1) /\ at \in Nat /\ at < c1.len /\ c2 = SetWord(c1, at, w)
      BY <1>5, <1>6, <2>1
    <3> QED
      BY ONLY <3>1, SetWordTo
  <2> QED
    BY <1>3, <1>6, <2>2
<1>8. c = SetWord(c2, at + 4, 1)
  BY <1>1, <1>3, <1>4, <1>5 DEF AllocArr, IsBytes
<1>9. Kept(c2, c, {x + 1})
  <2>1. PICK off \in Nat : off = at + 4 /\ off < c2.len
    BY <1>3, <1>4, <1>7
  <2>2. Kept(c2, c, {off \div 4})
    BY <1>7, <1>8, <2>1, SetWordTo
  <2> QED
    BY <1>3, <2>1, <2>2
<1>10. c.mem[x] = c2.mem[x]
  <2>1. x \in Nat \ {x + 1} /\ 4 * x < c2.len
    BY <1>2, <1>3, <1>4, <1>7
  <2> QED
    BY <1>9, <2>1 DEF Kept
<1>11. o.off = 4 * x + 8
  BY <1>1, <1>2 DEF NewArr, IsBytes, Object
<1> QED
  BY <1>2, <1>5, <1>7, <1>10, <1>11

\* The header of the array at o is word x.
ArrHeader(b, o, x, ssize, psize) ==
    /\ x \in Nat /\ o.off = 4 * x + 8
    /\ ssize \in Nat /\ ssize < SN /\ psize \in Nat /\ psize < PN
    /\ b.mem[x] = Header(ssize, psize) + ARR

\* nbuf_resize_arr stores the length behind it.
LEMMA ResizeArrStores ==
    ASSUME NEW b, IsBuf(b), NEW o, IsArr(b, o), NEW x, NEW ssize, NEW psize, ArrHeader(b, o, x, ssize, psize),
           NEW n, NEW c, c = ResizeArr(b, o, n)
    PROVE  Kept(b, c, {x + 1}) /\ c.len = b.len /\ c.mem[x + 1] = n
<1>0. /\ x \in Nat /\ o.off = 4 * x + 8 /\ ssize \in Nat /\ ssize < SN /\ psize \in Nat /\ psize < PN
      /\ b.mem[x] = Header(ssize, psize) + ARR
  BY DEF ArrHeader
<1>1. HdrOffset(b, o) = 4 * x /\ (4 * x) \div 4 = x /\ (4 * x + 4) \div 4 = x + 1
  BY <1>0, ArrHdrOffset
<1>2. ~Has(WordAt(b, 4 * x), BARR)
  <2>1. PICK y : y = ssize * PN + psize
    OBVIOUS
  <2>2. y \in Nat /\ y < ARR
    BY <1>0, <2>1, FieldsFit
  <2>3. ~Has(HDR + ARR + y, BARR)
    BY <2>2, HeaderBits
  <2>4. Header(ssize, psize) + ARR = HDR + ARR + y
    <3>1. ssize * PN \in Nat
      BY <1>0, PNAssumption
    <3> QED
      BY <1>0, <2>1, <3>1, MIsNat DEF Header
  <2> QED
    BY <1>0, <1>1, <2>3, <2>4 DEF WordAt
<1>3. c = SetWord(b, 4 * x + 4, n)
  BY <1>1, <1>2 DEF ResizeArr
<1>4. PICK off \in Nat : off = 4 * x + 4 /\ off < b.len
  BY <1>0 DEF IsArr, IsBuf
<1>5. Kept(b, c, {off \div 4}) /\ c.len = b.len /\ c.mem[off \div 4] = n
  <2>1. IsBuf(b) /\ off \in Nat /\ off < b.len /\ c = SetWord(b, off, n)
    BY <1>3, <1>4
  <2> QED
    BY ONLY <2>1, SetWordTo
<1> QED
  BY <1>0, <1>1, <1>4, <1>5
=============================================================================
