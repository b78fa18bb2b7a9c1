---------------------------- MODULE LayoutProofs ----------------------------
(***************************************************************************)
(* Proofs about Layout, for every bound on the fields and every width of   *)
(* the stored offsets that is a multiple of the word size.                 *)
(***************************************************************************)
EXTENDS Layout, TLAPS

Alignments == {1, 2, 4}

-----------------------------------------------------------------------------
(* Arithmetic of alignment.                                                *)

\* RoundUp returns the next multiple of the alignment.
LEMMA RoundUpAligns ==
    ASSUME NEW x \in Nat, NEW a \in Alignments
    PROVE  RoundUp(x, a) \in Nat /\ RoundUp(x, a) >= x /\ RoundUp(x, a) % a = 0
<1>1. CASE a = 1
  BY <1>1 DEF RoundUp
<1>2. CASE a = 2
  BY <1>2 DEF RoundUp
<1>3. CASE a = 4
  BY <1>3 DEF RoundUp
<1> QED
  BY <1>1, <1>2, <1>3 DEF Alignments

LEMMA AlignType ==
    ASSUME NEW sz \in ScalarSizes
    PROVE  Align(sz) \in Alignments
BY DEF ScalarSizes, Align, WORD, Alignments

\* Multiples of an alignment are closed under sums and products.
LEMMA SumAligned ==
    ASSUME NEW x \in Nat, NEW y \in Nat, NEW a \in Alignments, x % a = 0, y % a = 0
    PROVE  (x + y) % a = 0
<1>1. CASE a = 1
  BY <1>1
<1>2. CASE a = 2
  BY <1>2
<1>3. CASE a = 4
  BY <1>3
<1> QED
  BY <1>1, <1>2, <1>3 DEF Alignments

LEMMA ProductAligned ==
    ASSUME NEW e \in Nat, NEW x \in Nat, NEW a \in Alignments, x % a = 0
    PROVE  e * x \in Nat /\ (e * x) % a = 0
<1>1. PICK q \in Nat : x = a * q
  <2>1. x = 1 * (x \div 1)
    OBVIOUS
  <2>2. a = 2 => x = 2 * (x \div 2)
    OBVIOUS
  <2>3. a = 4 => x = 4 * (x \div 4)
    OBVIOUS
  <2>4. x \div 1 \in Nat /\ x \div 2 \in Nat /\ x \div 4 \in Nat
    OBVIOUS
  <2> QED
    BY <2>1, <2>2, <2>3, <2>4 DEF Alignments
<1>2. PICK y \in Nat : e * x = a * y
  <2>1. e * q \in Nat /\ e * x = a * (e * q)
    BY <1>1 DEF Alignments
  <2> QED
    BY <2>1
<1>3. (1 * y) % 1 = 0 /\ (2 * y) % 2 = 0 /\ (4 * y) % 4 = 0
  OBVIOUS
<1>4. e * x \in Nat
  OBVIOUS
<1> QED
  BY <1>2, <1>3, <1>4 DEF Alignments

\* A multiple of a large alignment is one of every smaller alignment.
LEMMA SmallerAlignment ==
    ASSUME NEW x \in Nat, NEW a \in Alignments, NEW b \in Alignments, a <= b, x % b = 0
    PROVE  x % a = 0
<1>1. CASE b = 4
  BY <1>1 DEF Alignments
<1>2. CASE b = 2
  BY <1>2 DEF Alignments
<1>3. CASE b = 1
  BY <1>3 DEF Alignments
<1> QED
  BY <1>1, <1>2, <1>3 DEF Alignments

\* Storing a number in 16 bits keeps small numbers, and keeps alignment.
LEMMA StoredInRange ==
    ASSUME NEW x \in Nat
    PROVE  x % U16 \in 0 .. U16 - 1 /\ (x < U16 => x % U16 = x)
BY U16Assumption

LEMMA StoredAligned ==
    ASSUME NEW x \in Nat, NEW a \in Alignments, x % a = 0
    PROVE  (x % U16) % a = 0
<1>1. PICK k \in Nat : U16 = 4 * k
  <2>1. U16 \div 4 \in Nat /\ U16 = 4 * (U16 \div 4)
    BY U16Assumption
  <2> QED
    BY <2>1
<1>2. PICK q \in Nat : x % U16 \in Nat /\ x = U16 * q + (x % U16)
  <2>1. x \div U16 \in Nat /\ x % U16 \in Nat /\ x = U16 * (x \div U16) + (x % U16)
    BY U16Assumption
  <2> QED
    BY <2>1
<1>3. k * q \in Nat /\ x = 4 * (k * q) + (x % U16)
  BY <1>1, <1>2
<1>4. \A n, r \in Nat :
         /\ (4 * n + r) % 1 = r % 1
         /\ (4 * n + r) % 2 = r % 2
         /\ (4 * n + r) % 4 = r % 4
  OBVIOUS
<1> QED
  BY <1>2, <1>3, <1>4 DEF Alignments

-----------------------------------------------------------------------------
(* The inductive invariant.                                                *)

IsScalar(i) == kind[i] = "scalar"
IsPointer(i) == kind[i] = "pointer"

\* Every scalar sits at a multiple of its alignment, and the message knows the
\* largest alignment asked for.
ScalarsAligned ==
    \A i \in 1 .. m : IsScalar(i) =>
        /\ size[i] \in ScalarSizes /\ Align(size[i]) <= maxAlign
        /\ offset[i] % Align(size[i]) = 0

\* Scalars lie in the order of their definitions, the last one before ssize.
ScalarsOrdered ==
    ssize < U16 =>
        /\ \A i \in 1 .. m : IsScalar(i) => offset[i] + size[i] <= ssize
        /\ \A i, j \in 1 .. m :
              IsScalar(i) /\ IsScalar(j) /\ i < j => offset[i] + size[i] <= offset[j]

PointersOrdered ==
    psize <= U16 =>
        /\ \A i \in 1 .. m : IsPointer(i) => offset[i] < psize
        /\ \A i, j \in 1 .. m :
              IsPointer(i) /\ IsPointer(j) /\ i < j => offset[i] < offset[j]

SomeAlignment == m > 0 => maxAlign > 0 \/ psize > 0

Closed ==
    pc = "closed" =>
        /\ maxAlign \in Alignments /\ ssize % maxAlign = 0
        /\ psize > 0 => maxAlign = WORD
        /\ stored = [ssize |-> ssize % U16, psize |-> psize % U16]

IInv ==
    /\ TypeOK /\ ScalarsAligned /\ ScalarsOrdered /\ PointersOrdered
    /\ SomeAlignment /\ Closed

LEMMA EmptyType == ASSUME NEW S PROVE Empty \in [1 .. 0 -> S]
BY DEF Empty

LEMMA InitInv == Init => IInv
<1> SUFFICES ASSUME Init PROVE IInv
  OBVIOUS
<1>1. TypeOK
  BY EmptyType, U16Assumption, MaxFieldsAssumption DEF Init, TypeOK
<1>2. ScalarsAligned /\ ScalarsOrdered /\ PointersOrdered /\ SomeAlignment /\ Closed
  BY DEF Init, ScalarsAligned, ScalarsOrdered, PointersOrdered, SomeAlignment, Closed
<1> QED
  BY <1>1, <1>2 DEF IInv

LEMMA PointerInv ==
    ASSUME IInv, PointerField
    PROVE  IInv'
<1>1. /\ m \in Nat /\ m + 1 \in 0 .. MaxFields /\ psize \in Nat /\ ssize \in Nat
      /\ psize % U16 \in 0 .. U16 - 1
  BY StoredInRange, MaxFieldsAssumption DEF IInv, TypeOK, PointerField
<1>2. /\ m' = m + 1 /\ psize' = psize + 1 /\ pc' = "fields"
      /\ UNCHANGED <<ssize, maxAlign, stored>>
  BY DEF PointerField
<1>3. /\ kind' \in [1 .. m + 1 -> {"scalar", "pointer"}]
      /\ \A i \in 1 .. m : kind'[i] = kind[i]
      /\ kind'[m + 1] = "pointer"
  BY <1>1 DEF IInv, TypeOK, PointerField, Add
<1>4. /\ size' \in [1 .. m + 1 -> ScalarSizes \cup {0}]
      /\ \A i \in 1 .. m : size'[i] = size[i]
  BY <1>1 DEF IInv, TypeOK, PointerField, Add
<1>5. /\ offset' \in [1 .. m + 1 -> 0 .. U16 - 1]
      /\ \A i \in 1 .. m : offset'[i] = offset[i]
      /\ offset'[m + 1] = psize % U16
  BY <1>1 DEF IInv, TypeOK, PointerField, Add
<1>6. \A i \in 1 .. m + 1 : i \in 1 .. m \/ i = m + 1
  BY <1>1
<1>7. TypeOK'
  BY <1>1, <1>2, <1>3, <1>4, <1>5 DEF IInv, TypeOK
<1>8. ScalarsAligned'
  BY <1>2, <1>3, <1>4, <1>5, <1>6 DEF IInv, ScalarsAligned, IsScalar
<1>9. ScalarsOrdered'
  BY <1>2, <1>3, <1>4, <1>5, <1>6 DEF IInv, ScalarsOrdered, IsScalar
<1>10. PointersOrdered'
  <2> SUFFICES ASSUME psize + 1 <= U16
      PROVE  /\ \A i \in 1 .. m + 1 : kind'[i] = "pointer" => offset'[i] < psize + 1
             /\ \A i, j \in 1 .. m + 1 :
                   kind'[i] = "pointer" /\ kind'[j] = "pointer" /\ i < j
                     => offset'[i] < offset'[j]
    BY <1>2 DEF PointersOrdered, IsPointer
  <2>1. offset'[m + 1] = psize /\ psize <= U16
    <3>1. psize < U16
      BY <1>1, U16Assumption
    <3>2. psize % U16 = psize
      BY <1>1, <3>1, StoredInRange
    <3> QED
      BY <1>1, <1>5, <3>1, <3>2, U16Assumption
  <2>2. \A i \in 1 .. m : kind'[i] = "pointer" => offset'[i] < psize
    BY <1>3, <1>5, <2>1 DEF IInv, PointersOrdered, IsPointer
  <2>3. \A i, j \in 1 .. m :
           kind'[i] = "pointer" /\ kind'[j] = "pointer" /\ i < j => offset'[i] < offset'[j]
    BY <1>3, <1>5, <2>1 DEF IInv, PointersOrdered, IsPointer
  <2>4. \A i \in 1 .. m + 1 : offset'[i] \in Int
    BY <1>5
  <2> QED
    BY <1>1, <1>6, <2>1, <2>2, <2>3, <2>4
<1>11. SomeAlignment' /\ Closed'
  BY <1>1, <1>2 DEF SomeAlignment, Closed
<1> QED
  BY <1>7, <1>8, <1>9, <1>10, <1>11 DEF IInv

LEMMA ScalarInv ==
    ASSUME IInv, NEW sz \in ScalarSizes, ScalarField(sz)
    PROVE  IInv'
<1> DEFINE a == Align(sz)
           at == RoundUp(ssize, a)
<1> HIDE DEF a, at
<1>1. /\ m \in Nat /\ m + 1 \in 0 .. MaxFields /\ psize \in Nat /\ ssize \in Nat
      /\ sz \in Nat \ {0} /\ a \in Alignments /\ maxAlign \in {0, 1, 2, 4}
  BY AlignType, MaxFieldsAssumption DEF IInv, TypeOK, ScalarField, ScalarSizes, a
<1>2. /\ at \in Nat /\ at >= ssize /\ at % a = 0
      /\ at % U16 \in 0 .. U16 - 1 /\ (at % U16) % a = 0 /\ (at < U16 => at % U16 = at)
  <2>1. at \in Nat /\ at >= ssize /\ at % a = 0
    BY <1>1, RoundUpAligns DEF at
  <2> QED
    BY <1>1, <2>1, StoredInRange, StoredAligned
<1>3. /\ m' = m + 1 /\ ssize' = at + sz /\ pc' = "fields" /\ maxAlign' = Larger(maxAlign, a)
      /\ UNCHANGED <<psize, stored>>
  BY DEF ScalarField, a, at
<1>4. Larger(maxAlign, a) \in Alignments /\ Larger(maxAlign, a) >= a /\ Larger(maxAlign, a) >= maxAlign
  BY <1>1 DEF Larger, Alignments
<1>5. /\ kind' \in [1 .. m + 1 -> {"scalar", "pointer"}]
      /\ \A i \in 1 .. m : kind'[i] = kind[i]
      /\ kind'[m + 1] = "scalar"
  BY <1>1 DEF IInv, TypeOK, ScalarField, Add
<1>6. /\ size' \in [1 .. m + 1 -> ScalarSizes \cup {0}]
      /\ \A i \in 1 .. m : size'[i] = size[i]
      /\ size'[m + 1] = sz
  BY <1>1 DEF IInv, TypeOK, ScalarField, Add
<1>7. /\ offset' \in [1 .. m + 1 -> 0 .. U16 - 1]
      /\ \A i \in 1 .. m : offset'[i] = offset[i]
      /\ offset'[m + 1] = at % U16
  <2>1. offset' = Add(offset, at % U16)
    BY DEF ScalarField, a, at
  <2> QED
    BY <1>1, <1>2, <2>1 DEF IInv, TypeOK, Add
<1>8. \A i \in 1 .. m + 1 : i \in 1 .. m \/ i = m + 1
  BY <1>1
<1>9. TypeOK'
  BY <1>1, <1>2, <1>3, <1>4, <1>5, <1>6, <1>7 DEF IInv, TypeOK, Alignments
<1>10. ScalarsAligned'
  <2> SUFFICES ASSUME NEW i \in 1 .. m + 1, kind'[i] = "scalar"
      PROVE  /\ size'[i] \in ScalarSizes /\ Align(size'[i]) <= Larger(maxAlign, a)
             /\ offset'[i] % Align(size'[i]) = 0
    BY <1>3 DEF ScalarsAligned, IsScalar
  <2>1. CASE i = m + 1
    BY <1>2, <1>4, <1>6, <1>7, <2>1 DEF a
  <2>2. CASE i \in 1 .. m
    <3>1. size[i] \in ScalarSizes /\ Align(size[i]) <= maxAlign /\ offset[i] % Align(size[i]) = 0
      BY <1>5, <2>2 DEF IInv, ScalarsAligned, IsScalar
    <3>2. Align(size[i]) \in Alignments
      BY <3>1, AlignType
    <3>3. Align(size[i]) <= Larger(maxAlign, a)
      BY <1>1, <1>4, <3>1, <3>2 DEF Alignments
    <3> QED
      BY <1>6, <1>7, <2>2, <3>1, <3>3
  <2> QED
    BY <1>8, <2>1, <2>2
<1>11. ScalarsOrdered'
  <2> SUFFICES ASSUME at + sz < U16
      PROVE  /\ \A i \in 1 .. m + 1 : kind'[i] = "scalar" => offset'[i] + size'[i] <= at + sz
             /\ \A i, j \in 1 .. m + 1 :
                   kind'[i] = "scalar" /\ kind'[j] = "scalar" /\ i < j
                     => offset'[i] + size'[i] <= offset'[j]
    BY <1>3 DEF ScalarsOrdered, IsScalar
  <2>1. ssize < U16 /\ offset'[m + 1] = at
    BY <1>1, <1>2, <1>7, U16Assumption
  <2>2. \A i \in 1 .. m : kind'[i] = "scalar" => offset'[i] + size'[i] <= ssize
    BY <1>5, <1>6, <1>7, <2>1 DEF IInv, ScalarsOrdered, IsScalar
  <2>3. \A i, j \in 1 .. m :
           kind'[i] = "scalar" /\ kind'[j] = "scalar" /\ i < j
             => offset'[i] + size'[i] <= offset'[j]
    BY <1>5, <1>6, <1>7, <2>1 DEF IInv, ScalarsOrdered, IsScalar
  <2>4. \A i \in 1 .. m + 1 : offset'[i] \in Nat /\ size'[i] \in Nat
    BY <1>6, <1>7, U16Assumption DEF ScalarSizes
  <2>5. ASSUME NEW i \in 1 .. m + 1, kind'[i] = "scalar"
        PROVE  offset'[i] + size'[i] <= at + sz
    <3>1. CASE i \in 1 .. m
      BY <1>1, <1>2, <2>2, <2>4, <2>5, <3>1
    <3>2. CASE i = m + 1
      BY <1>1, <1>2, <1>6, <2>1, <3>2
    <3> QED
      BY <1>8, <3>1, <3>2
  <2>6. ASSUME NEW i \in 1 .. m + 1, NEW j \in 1 .. m + 1,
               kind'[i] = "scalar", kind'[j] = "scalar", i < j
        PROVE  offset'[i] + size'[i] <= offset'[j]
    <3>1. i \in 1 .. m
      BY <1>1, <2>6
    <3>2. CASE j \in 1 .. m
      BY <2>3, <2>6, <3>1, <3>2
    <3>3. CASE j = m + 1
      BY <1>1, <1>2, <2>1, <2>2, <2>4, <2>6, <3>1, <3>3
    <3> QED
      BY <1>8, <3>2, <3>3
  <2> QED
    BY <2>5, <2>6
<1>12. PointersOrdered'
  BY <1>3, <1>5, <1>7, <1>8 DEF IInv, PointersOrdered, IsPointer
<1>13. SomeAlignment' /\ Closed'
  BY <1>3, <1>4 DEF SomeAlignment, Closed, Alignments
<1> QED
  BY <1>9, <1>10, <1>11, <1>12, <1>13 DEF IInv

LEMMA CloseInv ==
    ASSUME IInv, Close
    PROVE  IInv'
<1> DEFINE a == IF psize > 0 THEN WORD ELSE maxAlign
           total == RoundUp(ssize, a)
<1> HIDE DEF a, total
<1>1. /\ psize \in Nat /\ ssize \in Nat /\ a \in Alignments /\ maxAlign <= a
      /\ maxAlign \in {0, 1, 2, 4} /\ (psize > 0 => a = WORD)
  BY DEF IInv, TypeOK, SomeAlignment, Close, Alignments, WORD, a
<1>2. total \in Nat /\ total >= ssize /\ total % a = 0
  BY <1>1, RoundUpAligns DEF total
<1>3. total % U16 \in 0 .. U16 - 1 /\ psize % U16 \in 0 .. U16 - 1
  BY <1>1, <1>2, StoredInRange
<1>4. /\ pc' = "closed" /\ ssize' = total /\ maxAlign' = a
      /\ stored' = [ssize |-> total % U16, psize |-> psize % U16]
      /\ UNCHANGED <<m, kind, size, offset, psize>>
  BY DEF Close, a, total
<1>5. TypeOK'
  BY <1>1, <1>2, <1>3, <1>4 DEF IInv, TypeOK, Alignments
<1>6. ScalarsAligned'
  <2> SUFFICES ASSUME NEW i \in 1 .. m, IsScalar(i)
      PROVE  /\ size[i] \in ScalarSizes /\ Align(size[i]) <= a
             /\ offset[i] % Align(size[i]) = 0
    BY <1>4 DEF ScalarsAligned, IsScalar
  <2>1. size[i] \in ScalarSizes /\ Align(size[i]) <= maxAlign /\ offset[i] % Align(size[i]) = 0
    BY DEF IInv, ScalarsAligned
  <2>2. Align(size[i]) \in Alignments
    BY <2>1, AlignType
  <2> QED
    BY <1>1, <2>1, <2>2 DEF Alignments
<1>7. ScalarsOrdered'
  <2> SUFFICES ASSUME total < U16
      PROVE  /\ \A i \in 1 .. m : IsScalar(i) => offset[i] + size[i] <= total
             /\ \A i, j \in 1 .. m :
                   IsScalar(i) /\ IsScalar(j) /\ i < j => offset[i] + size[i] <= offset[j]
    BY <1>4 DEF ScalarsOrdered, IsScalar
  <2>1. ssize < U16
    BY <1>1, <1>2, U16Assumption
  <2>2. \A i \in 1 .. m : offset[i] \in Nat /\ size[i] \in Nat
    <3>1. \A i \in 1 .. m : offset[i] \in 0 .. U16 - 1 /\ size[i] \in ScalarSizes \cup {0}
      BY DEF IInv, TypeOK
    <3> QED
      BY <3>1, U16Assumption DEF ScalarSizes
  <2> QED
    BY <1>1, <1>2, <2>1, <2>2 DEF IInv, ScalarsOrdered
<1>8. PointersOrdered' /\ SomeAlignment' /\ Closed'
  BY <1>1, <1>2, <1>4
     DEF IInv, PointersOrdered, IsPointer, SomeAlignment, Closed, Alignments
<1> QED
  BY <1>5, <1>6, <1>7, <1>8 DEF IInv

LEMMA NextInv == IInv /\ [Next]_vars => IInv'
<1> SUFFICES ASSUME IInv, [Next]_vars PROVE IInv'
  OBVIOUS
<1>1. CASE NextMessage
  <2>1. TypeOK'
    BY <1>1, EmptyType, U16Assumption, MaxFieldsAssumption DEF NextMessage, TypeOK
  <2>2. (ScalarsAligned /\ ScalarsOrdered /\ PointersOrdered /\ SomeAlignment /\ Closed)'
    BY <1>1 DEF NextMessage, ScalarsAligned, ScalarsOrdered, PointersOrdered, SomeAlignment, Closed
  <2> QED
    BY <2>1, <2>2 DEF IInv
<1>2. CASE Unresolved \/ UNCHANGED vars
  <2>1. /\ UNCHANGED <<m, kind, size, offset, ssize, psize, maxAlign, stored>>
        /\ pc' = "failed" \/ pc' = pc
    BY <1>2 DEF Unresolved, vars
  <2>2. TypeOK'
    BY <2>1 DEF IInv, TypeOK
  <2>3. (ScalarsAligned /\ ScalarsOrdered)'
    BY <2>1 DEF IInv, ScalarsAligned, ScalarsOrdered, IsScalar
  <2>4. (PointersOrdered /\ SomeAlignment)'
    BY <2>1 DEF IInv, PointersOrdered, SomeAlignment, IsPointer
  <2>5. Closed'
    BY <2>1 DEF IInv, Closed
  <2> QED
    BY <2>2, <2>3, <2>4, <2>5 DEF IInv
<1> QED
  BY <1>1, <1>2, PointerInv, ScalarInv, CloseInv DEF Next

LEMMA Invariance == Spec => []IInv
BY InitInv, NextInv, PTL DEF Spec

-----------------------------------------------------------------------------
\* Every reachable state of the layout pass is well typed; in particular each
\* offset and size stored in the schema fits its 16 bits.
THEOREM TypeCorrect == Spec => []TypeOK
BY Invariance, PTL DEF IInv

\* No two fields of a message share storage, whatever their types and order,
\* as long as the sizes fit the fields they are stored in.
THEOREM FieldsDisjoint == Spec => []NoOverlap
<1>1. IInv => NoOverlap
  BY DEF IInv, ScalarsOrdered, PointersOrdered, NoOverlap, Fits, Scalars, Fields, IsScalar, IsPointer
<1> QED
  BY <1>1, Invariance, PTL

\* Every field lies inside the object that is allocated for its message.
THEOREM FieldsInside == Spec => []InsideObject
<1>1. IInv => InsideObject
  <2> SUFFICES ASSUME IInv, Fits, psize < U16, pc = "closed" PROVE
         /\ \A i \in Scalars : offset[i] + size[i] <= stored.ssize
         /\ \A i \in Fields("pointer") : offset[i] < stored.psize
    BY DEF InsideObject
  <2>1. stored.ssize = ssize /\ stored.psize = psize
    BY StoredInRange DEF IInv, TypeOK, Closed, Fits
  <2> QED
    BY <2>1 DEF IInv, ScalarsOrdered, PointersOrdered, Fits, Scalars, Fields, IsScalar, IsPointer
<1> QED
  BY <1>1, Invariance, PTL

\* wire.txt: a message with pointers has a scalar part of whole words.
THEOREM WholeWords == Spec => []WordMultiple
<1>1. IInv => WordMultiple
  <2> SUFFICES ASSUME IInv, pc = "closed", psize > 0 PROVE stored.ssize % WORD = 0
    BY DEF WordMultiple
  <2> QED
    BY StoredAligned DEF IInv, TypeOK, Closed, WORD, Alignments
<1> QED
  BY <1>1, Invariance, PTL

\* Every scalar is aligned in every element of an array of the message, also
\* when the sizes do not fit 16 bits (AlignedInArrays, for all Elements).
THEOREM ArraysAligned == Spec => []AlignedInArrays
<1>1. IInv => AlignedInArrays
  <2> SUFFICES ASSUME IInv, pc = "closed", NEW e \in Nat, NEW i \in Scalars
               PROVE  Address(e, i) % Align(size[i]) = 0
    BY ElementsAssumption DEF AlignedInArrays
  <2> DEFINE a == Align(size[i])
             step == WORD * stored.psize + stored.ssize
  <2> HIDE DEF a, step
  <2>1. /\ i \in 1 .. m /\ a \in Alignments /\ a <= maxAlign /\ offset[i] % a = 0
        /\ offset[i] \in Nat /\ stored.psize \in Nat /\ stored.ssize \in Nat
    BY AlignType, U16Assumption
       DEF IInv, TypeOK, ScalarsAligned, Scalars, Fields, IsScalar, a
  <2>2. stored.ssize % a = 0
    <3>1. maxAlign \in Alignments /\ ssize \in Nat /\ ssize % maxAlign = 0 /\ stored.ssize = ssize % U16
      BY DEF IInv, TypeOK, Closed
    <3>2. ssize % a = 0
      BY <2>1, <3>1, SmallerAlignment
    <3> QED
      BY <2>1, <3>1, <3>2, StoredAligned
  <2>3. (WORD * stored.psize) % a = 0 /\ WORD * stored.psize \in Nat
    BY <2>1 DEF WORD, Alignments
  <2>4. step \in Nat /\ step % a = 0
    BY <2>1, <2>2, <2>3, SumAligned DEF step
  <2>5. e * step \in Nat /\ (e * step) % a = 0
    BY <2>1, <2>4, ProductAligned
  <2>6. e * step + WORD * stored.psize \in Nat /\ (e * step + WORD * stored.psize) % a = 0
    BY <2>1, <2>3, <2>5, SumAligned
  <2>7. ((e * step + WORD * stored.psize) + offset[i]) % a = 0
    BY <2>1, <2>6, SumAligned
  <2> QED
    BY <2>7 DEF Address, a, step
<1> QED
  BY <1>1, Invariance, PTL
=============================================================================
