---------------------------- MODULE NbufcProofs ----------------------------
(***************************************************************************)
(* Proofs about the program nbufc and about loading a file: a load is      *)
(* whole, whatever the size of the file, of the reads and of what the      *)
(* buffer grows by; the loads of the program are those of FileIO; for      *)
(* every number of directories and every name the search keeps the name;   *)
(* and the exit status is 0 only for a result.                             *)
(***************************************************************************)
EXTENDS Nbufc, SequenceTheorems, TLAPS

USE BufsizAssumption, MaxSizeAssumption, MaxRoomAssumption

-----------------------------------------------------------------------------
(* Loading a file: the inductive invariant.  That it is whole follows from *)
(* what its loop keeps true at each turn; that no mapping is lost needs    *)
(* that one exists just while the caller has a mapped buffer.              *)

\* The buffer holds what was read so far.
Prefix == len = pos /\ base # "mapped" /\ \A i \in 0 .. len - 1 : mem[i] = i + 1

MapsKept == maps = IF io = "back" /\ base = "mapped" THEN 1 ELSE 0

IInv ==
    /\ TypeOK
    /\ io = "open" => pos = 0 /\ base # "mapped"
    /\ io = "read" => Prefix
    /\ MapsKept
    /\ LoadedWhole

\* What the buffer is before the loop, and after a failure
LEMMA EmptyMem == Zeros(0) \in [0 .. 0 - 1 -> 0 .. MaxSize]
BY DEF Zeros

\* A buffer that grows to capacity c keeps its bytes.
LEMMA MovedBytes ==
    ASSUME TypeOK, base # "mapped", NEW c \in Nat, c >= cap
    PROVE  /\ Moved(c) \in [0 .. c - 1 -> 0 .. MaxSize]
           /\ \A i \in 0 .. len - 1 : Moved(c)[i] = mem[i]
<1>1. len \in Nat /\ cap \in Nat /\ len <= cap /\ mem \in [0 .. cap - 1 -> 0 .. MaxSize]
  BY DEF TypeOK
<1>2. ASSUME NEW i \in 0 .. c - 1
      PROVE  (IF i < cap /\ (c = cap \/ i < len) THEN mem[i] ELSE 0) \in 0 .. MaxSize
  <2>1. CASE i < cap
    <3>1. i \in 0 .. cap - 1
      BY <1>1, <2>1
    <3>2. mem[i] \in 0 .. MaxSize
      BY <1>1, <3>1
    <3> QED
      BY <3>2
  <2>2. CASE ~(i < cap)
    BY <2>2
  <2> QED
    BY <2>1, <2>2
<1>3. Moved(c) \in [0 .. c - 1 -> 0 .. MaxSize]
  BY <1>2 DEF Moved
<1>4. ASSUME NEW i \in 0 .. len - 1
      PROVE  Moved(c)[i] = mem[i]
  BY <1>1 DEF Moved
<1> QED
  BY <1>3, <1>4

-----------------------------------------------------------------------------
LEMMA InitInv == Init => IInv
<1> SUFFICES ASSUME Init PROVE IInv
  OBVIOUS
<1>1. cap = 0 /\ mem = Zeros(0)
  BY DEF Init
<1>2. mem \in [0 .. cap - 1 -> 0 .. MaxSize]
  BY <1>1, EmptyMem
<1>3. mappable \in BOOLEAN
  BY DEF Init
<1>4. size \in 0 .. MaxSize /\ pos \in 0 .. size
  BY DEF Init
<1>5. /\ base \in {"null", "heap", "mapped", "unset"} /\ io \in {"none", "open", "read", "back"}
      /\ len \in Nat /\ cap \in Nat /\ ret \in Nat /\ maps \in {0, 1} /\ len <= cap
  BY DEF Init
<1>6. TypeOK
  BY <1>2, <1>3, <1>4, <1>5 DEF TypeOK
<1> QED
  BY <1>6 DEF Init, IInv, MapsKept, LoadedWhole

LEMMA LoadFpInv ==
    ASSUME IInv, NEW b \in {"null", "unset"}, LoadFp(b)
    PROVE  IInv'
<1>1. TypeOK'
  BY EmptyMem DEF LoadFp, IInv, TypeOK
<1> QED
  BY <1>1 DEF LoadFp, IInv, MapsKept, LoadedWhole

LEMMA StatFailsInv ==
    ASSUME IInv, StatFails
    PROVE  IInv'
<1>1. TypeOK'
  BY DEF StatFails, Answer, IInv, TypeOK
<1> QED
  BY <1>1 DEF StatFails, Answer, IInv, MapsKept, LoadedWhole

LEMMA MapInv ==
    ASSUME IInv, Map
    PROVE  IInv'
<1>1. size \in Nat /\ maps = 0
  BY DEF Map, IInv, TypeOK, MapsKept
<1>2. CASE base' = "mapped" /\ len' = size /\ mem' = File(size) /\ maps' = maps + 1 /\ Answer(size)
  <2>1. TypeOK'
    BY <1>1, <1>2 DEF Map, Answer, IInv, TypeOK
  <2>2. \A i \in 0 .. size' - 1 : mem'[i] = i + 1
    BY <1>2 DEF Map, File
  <2> QED
    BY <1>1, <1>2, <2>1, <2>2 DEF Map, Answer, IInv, MapsKept, LoadedWhole
<1>3. CASE base' = "null" /\ len' = 0 /\ mem' = Zeros(0) /\ maps' = maps /\ Answer(0)
  <2>1. TypeOK'
    BY <1>1, <1>3, EmptyMem DEF Map, Answer, IInv, TypeOK
  <2> QED
    BY <1>1, <1>3, <2>1 DEF Map, Answer, IInv, MapsKept, LoadedWhole
<1> QED
  BY <1>2, <1>3 DEF Map

LEMMA ReadBeginsInv ==
    ASSUME IInv, ReadBegins
    PROVE  IInv'
<1>1. TypeOK'
  BY EmptyMem DEF ReadBegins, IInv, TypeOK
<1>2. Prefix'
  BY DEF ReadBegins, IInv, Prefix
<1> QED
  BY <1>1, <1>2 DEF ReadBegins, IInv, MapsKept, LoadedWhole

\* The bytes read go behind those that the buffer, moved or not, still has.
LEMMA ReadSomeInv ==
    ASSUME IInv, ReadSome
    PROVE  IInv'
<1>1. io = "read" /\ TypeOK /\ Prefix /\ maps = 0
  BY DEF ReadSome, IInv, MapsKept
<1>2. PICK c \in cap .. len + BUFSIZ + MaxRoom :
         /\ Grown(c) /\ base' = "heap" /\ cap' = c
         /\ \E n \in 1 .. c - len :
                /\ pos + n <= size
                /\ mem' = [i \in 0 .. c - 1 |-> IF len <= i /\ i < len + n
                                                THEN pos + (i - len) + 1 ELSE Moved(c)[i]]
                /\ len' = len + n /\ pos' = pos + n
  BY DEF ReadSome
<1>3. PICK n \in 1 .. c - len :
         /\ pos + n <= size
         /\ mem' = [i \in 0 .. c - 1 |-> IF len <= i /\ i < len + n
                                         THEN pos + (i - len) + 1 ELSE Moved(c)[i]]
         /\ len' = len + n /\ pos' = pos + n
  BY <1>2
<1>4. UNCHANGED <<mappable, size, maps, io, ret>>
  BY DEF ReadSome
<1>5. /\ len \in Nat /\ cap \in Nat /\ len <= cap /\ pos = len /\ size \in 0 .. MaxSize
      /\ c \in Nat /\ c >= cap /\ n \in Nat /\ n >= 1 /\ len + n <= c
  BY <1>1, <1>2, <1>3 DEF TypeOK, Prefix
<1>6. /\ Moved(c) \in [0 .. c - 1 -> 0 .. MaxSize]
      /\ \A i \in 0 .. len - 1 : Moved(c)[i] = mem[i]
  BY <1>1, <1>5, MovedBytes DEF Prefix
<1>7. mem' \in [0 .. c - 1 -> 0 .. MaxSize]
  <2>1. ASSUME NEW i \in 0 .. c - 1
        PROVE  (IF len <= i /\ i < len + n THEN pos + (i - len) + 1 ELSE Moved(c)[i]) \in 0 .. MaxSize
    <3>1. Moved(c)[i] \in 0 .. MaxSize
      BY <1>6
    <3> QED
      BY <1>3, <1>5, <3>1
  <2> QED
    BY <1>3, <2>1
<1>8. ASSUME NEW i \in 0 .. len' - 1
      PROVE  mem'[i] = i + 1
  <2>1. i \in 0 .. c - 1
    BY <1>3, <1>5
  <2>2. mem'[i] = IF len <= i /\ i < len + n THEN pos + (i - len) + 1 ELSE Moved(c)[i]
    BY <1>3, <2>1
  <2>3. CASE i < len
    <3>1. i \in 0 .. len - 1
      BY <1>5, <2>1, <2>3
    <3>2. Moved(c)[i] = mem[i] /\ mem[i] = i + 1
      BY <1>1, <1>6, <3>1 DEF Prefix
    <3> QED
      BY <1>5, <2>1, <2>2, <2>3, <3>2
  <2>4. CASE len <= i
    BY <1>3, <1>5, <2>1, <2>2, <2>4
  <2> QED
    BY <1>5, <2>1, <2>3, <2>4
<1>9. TypeOK'
  BY <1>1, <1>2, <1>3, <1>4, <1>5, <1>7 DEF TypeOK
<1>10. Prefix'
  BY <1>2, <1>3, <1>5, <1>8 DEF Prefix
<1> QED
  BY <1>1, <1>4, <1>9, <1>10 DEF IInv, MapsKept, LoadedWhole

LEMMA ReadEndInv ==
    ASSUME IInv, ReadEnd
    PROVE  IInv'
<1>1. io = "read" /\ TypeOK /\ Prefix /\ maps = 0 /\ pos = size
  BY DEF ReadEnd, IInv, MapsKept
<1>2. PICK c \in cap .. len + BUFSIZ + MaxRoom :
         Grown(c) /\ base' = "heap" /\ cap' = c /\ mem' = Moved(c)
  BY DEF ReadEnd
<1>3. /\ UNCHANGED <<mappable, size, pos, len, maps>>
      /\ io' = "back" /\ ret' = len
  BY DEF ReadEnd, Answer
<1>4. len \in Nat /\ cap \in Nat /\ len <= cap /\ len = size /\ c \in Nat /\ c >= cap
  BY <1>1, <1>2 DEF TypeOK, Prefix
<1>5. /\ mem' \in [0 .. c - 1 -> 0 .. MaxSize]
      /\ \A i \in 0 .. len - 1 : mem'[i] = mem[i]
  BY <1>1, <1>2, <1>4, MovedBytes DEF Prefix
<1>6. TypeOK'
  BY <1>1, <1>2, <1>3, <1>4, <1>5 DEF TypeOK
<1>7. LoadedWhole'
  BY <1>1, <1>3, <1>4, <1>5 DEF LoadedWhole, Prefix
<1> QED
  BY <1>1, <1>2, <1>3, <1>6, <1>7 DEF IInv, MapsKept

LEMMA ReadFailsInv ==
    ASSUME IInv, ReadFails
    PROVE  IInv'
<1>1. TypeOK'
  BY EmptyMem DEF ReadFails, Answer, IInv, TypeOK
<1> QED
  BY <1>1 DEF ReadFails, Answer, IInv, MapsKept, LoadedWhole

LEMMA ClearInv ==
    ASSUME IInv, Clear
    PROVE  IInv'
<1>1. CASE base = "mapped"
  BY <1>1 DEF Clear, IInv, TypeOK, MapsKept, LoadedWhole
<1>2. CASE base # "mapped"
  <2>1. TypeOK'
    BY <1>2, EmptyMem DEF Clear, IInv, TypeOK
  <2> QED
    BY <1>2, <2>1 DEF Clear, IInv, MapsKept, LoadedWhole
<1> QED
  BY <1>1, <1>2

LEMMA Inductive == IInv /\ [Next]_ioVars => IInv'
<1> SUFFICES ASSUME IInv, [Next]_ioVars PROVE IInv'
  OBVIOUS
<1>1. CASE LoadFp("null") \/ LoadFp("unset")
  BY <1>1, LoadFpInv
<1>2. CASE StatFails
  BY <1>2, StatFailsInv
<1>3. CASE Map
  BY <1>3, MapInv
<1>4. CASE ReadBegins
  BY <1>4, ReadBeginsInv
<1>5. CASE ReadSome
  BY <1>5, ReadSomeInv
<1>6. CASE ReadEnd
  BY <1>6, ReadEndInv
<1>7. CASE ReadFails
  BY <1>7, ReadFailsInv
<1>8. CASE Clear
  BY <1>8, ClearInv
<1>9. CASE UNCHANGED ioVars
  BY <1>9 DEF ioVars, IInv, TypeOK, Prefix, MapsKept, LoadedWhole
<1> QED
  BY <1>1, <1>2, <1>3, <1>4, <1>5, <1>6, <1>7, <1>8, <1>9 DEF Next, LoadStep

LEMMA Invariance == Spec => []IInv
<1> QED
  BY InitInv, Inductive, PTL DEF Spec

-----------------------------------------------------------------------------
\* Type correctness of loading, with at most one mapping at any time.
THEOREM TypeCorrect == Spec => []TypeOK
<1>1. IInv => TypeOK
  BY DEF IInv
<1> QED
  BY Invariance, <1>1, PTL

\* nbuf_load_fd: a load that returns a length has the whole file in the buffer,
\* whatever each read() returned and wherever the buffer moved.
THEOREM WholeFile == Spec => []LoadedWhole
<1>1. IInv => LoadedWhole
  BY DEF IInv
<1> QED
  BY Invariance, <1>1, PTL

\* munmap() is called exactly once for each mapping: one exists just while a
\* mapped buffer is in the caller's hands.
THEOREM NoMappingLost == Spec => []MapsKept
<1>1. IInv => MapsKept
  BY DEF IInv
<1> QED
  BY Invariance, <1>1, PTL

USE CharsAssumption, ArgumentsAssumption, MaxIncDirAssumption

-----------------------------------------------------------------------------
(* The loads of the program *)

\* main() loads files by the calls of util.c in their order, and clears a
\* buffer only when it was initialised (Spec of FileIO).
THEOREM LoadsAsFileIO == MainSpec => Spec
<1>1. MainInit => Init
  BY DEF MainInit
<1>2. [MainNext]_vars => [Next]_ioVars
  <2> SUFFICES ASSUME MainNext PROVE [Next]_ioVars
    BY DEF vars
  <2>1. CASE LoadSchema
    BY <2>1 DEF LoadSchema, Next
  <2>2. CASE Load
    BY <2>2 DEF Load, Next
  <2>3. CASE Compile \/ Converted
    BY <2>3 DEF Compile, Converted, Next
  <2>4. CASE LoadInput
    <3>1. LoadFp("null") \/ LoadFp("unset")
      BY <2>4 DEF LoadInput
    <3> QED
      BY <3>1 DEF Next
  <2>5. CASE NoInput
    BY <2>5 DEF NoInput, Next
  <2>6. CASE \/ Usage \/ ActionOption \/ DecodeRawOption \/ NotFound \/ CompileGarbage
             \/ NoAction \/ BinOut \/ CppOut \/ CHeader \/ CSource \/ DecodeRaw
             \/ NoSuchType \/ Convert
    BY <2>6 DEF Usage, ActionOption, DecodeRawOption, NotFound, CompileGarbage, NoAction, BinOut,
                CppOut, CHeader, CSource, DecodeRaw, NoSuchType, Convert, NoFiles
  <2>7. CASE IncludeOption \/ SchemaArgument \/ Search
    BY <2>7 DEF IncludeOption, SchemaArgument, Search
  <2> QED
    BY <2>1, <2>2, <2>3, <2>4, <2>5, <2>6, <2>7 DEF MainNext
<1> QED
  BY <1>1, <1>2, PTL DEF MainSpec, Spec

\* A load of the program that returns a length is whole (LoadedWhole).
THEOREM ProgramLoadsWhole == MainSpec => []LoadedWhole
BY LoadsAsFileIO, WholeFile, PTL

-----------------------------------------------------------------------------
(* The scratch buffer of the search *)

Text == Chars \cup {SL}
Bytes == Text \cup {NUL, "?"}

LEMMA TextHasNoNul == NUL \notin Text
BY DEF Text, NUL, SL

\* What C finds in a buffer that starts with a text and a null byte
LEMMA CStringIs ==
    ASSUME NEW s \in Seq(Bytes), NEW t \in Seq(Text), Len(t) + 1 <= Len(s),
           \A i \in 1 .. Len(t) : s[i] = t[i], s[Len(t) + 1] = NUL
    PROVE  CString(s) = t
<1> PICK n \in Nat : n = Len(t)
  BY LenProperties
<1>1. \A i \in 1 .. n : t[i] \in Text
  BY ElementOfSeq
<1> DEFINE I == {i \in 1 .. Len(s) : s[i] = NUL}
<1>2. n + 1 \in I /\ \A i \in I : n + 1 <= i
  <2>1. Len(s) \in Nat
    BY LenProperties
  <2>2. \A i \in 1 .. n : s[i] # NUL
    BY <1>1, TextHasNoNul
  <2> QED
    BY <2>1, <2>2
<1>3. CString(s) = SubSeq(s, 1, Min(I) - 1)
  BY <1>2, Zenon DEF CString, SelectInSeq
<1>4. Min(I) = n + 1
  <2>1. \A i \in I : i \in Nat
    BY LenProperties
  <2> HIDE DEF I
  <2>2. \A x \in I : (\A y \in I : x <= y) => x = n + 1
    BY <1>2, <2>1
  <2> QED
    BY <1>2, <2>2 DEF Min
<1>5. CString(s) = SubSeq(s, 1, n)
  <2> HIDE DEF I
  <2>1. Min(I) - 1 = n
    BY <1>4
  <2> QED
    BY <1>3, <2>1
<1>6. /\ SubSeq(s, 1, n) \in Seq(Text) /\ Len(SubSeq(s, 1, n)) = (IF 1 <= n THEN n - 1 + 1 ELSE 0)
      /\ \A i \in 1 .. n - 1 + 1 : SubSeq(s, 1, n)[i] = s[1 + i - 1]
  <2>1. \A i \in 1 .. n : s[i] \in Text
    BY <1>1
  <2> QED
    BY <2>1, SubSeqProperties
<1>7. n - 1 + 1 = n /\ \A i \in 1 .. n : 1 + i - 1 = i
  OBVIOUS
<1>8. Len(SubSeq(s, 1, n)) = n /\ \A i \in 1 .. n : SubSeq(s, 1, n)[i] = t[i]
  BY <1>6, <1>7
<1> QED
  BY <1>5, <1>6, <1>8, SeqEqual

\* The name, ended by a null byte, stands in s behind p bytes.
Holds(s, p) ==
    /\ p + Len(name) + 1 <= Len(s)
    /\ \A i \in 1 .. Len(name) : s[p + i] = name[i]
    /\ s[p + Len(name) + 1] = NUL

LEMMA FunctionIsSeq ==
    ASSUME NEW S, NEW n \in Nat, NEW s \in [1 .. n -> S]
    PROVE  s \in Seq(S) /\ Len(s) = n /\ \A i \in 1 .. n : s[i] \in S
<1>1. s \in Seq(S)
  BY SeqDef
<1> QED
  BY <1>1, LenProperties

LEMMA DirLenType ==
    ASSUME NEW dir \in Seq(Chars)
    PROVE  DirLen(dir) \in 0 .. Len(dir) /\ Len(dir) \in Nat
<1>1. Len(dir) \in Nat /\ (dir # <<>> => Len(dir) >= 1)
  BY LenProperties, EmptySeq
<1> QED
  BY <1>1 DEF DirLen

LEMMA InDirIs ==
    ASSUME NEW dir \in Seq(Chars), name \in Seq(Chars), NEW n, n = DirLen(dir)
    PROVE  /\ InDir(dir) \in Seq(Text) /\ Len(InDir(dir)) = n + 1 + Len(name)
           /\ \A i \in 1 .. n : InDir(dir)[i] = dir[i]
           /\ InDir(dir)[n + 1] = SL
           /\ \A i \in 1 .. Len(name) : InDir(dir)[n + 1 + i] = name[i]
<1>1. n \in 0 .. Len(dir) /\ Len(dir) \in Nat /\ Len(name) \in Nat
  BY DirLenType, LenProperties
<1> PICK l \in Nat : l = Len(name)
  BY <1>1
<1> DEFINE d == SubSeq(dir, 1, n)
<1>2. d \in Seq(Text) /\ Len(d) = n /\ \A i \in 1 .. n : d[i] = dir[i]
  <2>1. n \in Int /\ \A i \in 1 .. n : dir[i] \in Text
    BY <1>1, ElementOfSeq DEF Text
  <2>2. /\ d \in Seq(Text) /\ Len(d) = (IF 1 <= n THEN n - 1 + 1 ELSE 0)
        /\ \A i \in 1 .. n - 1 + 1 : d[i] = dir[1 + i - 1]
    BY <2>1, SubSeqProperties
  <2>3. n - 1 + 1 = n /\ \A i \in 1 .. n : 1 + i - 1 = i
    BY <1>1
  <2> QED
    BY <1>1, <2>2, <2>3
<1> HIDE DEF d
<1>3. PICK sl \in Seq(Text) : sl = <<SL>> /\ Len(sl) = 1 /\ sl[1] = SL
  <2>1. <<SL>> \in Seq(Text) /\ Len(<<SL>>) = 1 /\ <<SL>>[1] = SL
    BY DEF Text
  <2> QED
    BY <2>1
<1>n. name \in Seq(Text)
  BY DEF Text
<1> DEFINE ds == d \o sl
<1>4. /\ ds \in Seq(Text) /\ Len(ds) = n + 1
      /\ \A i \in 1 .. n + 1 : ds[i] = IF i <= n THEN d[i] ELSE sl[i - n]
  <2>1. /\ ds \in Seq(Text) /\ Len(ds) = Len(d) + Len(sl)
        /\ \A i \in 1 .. Len(d) + Len(sl) : ds[i] = IF i <= Len(d) THEN d[i] ELSE sl[i - Len(d)]
    <3>1. d \in Seq(Text) /\ sl \in Seq(Text)
      BY <1>2, <1>3
    <3> QED
      BY <3>1, ConcatProperties
  <2>2. Len(d) = n /\ Len(sl) = 1
    BY <1>2, <1>3
  <2> QED
    BY <2>1, <2>2, Zenon
<1>5. (\A i \in 1 .. n : ds[i] = dir[i]) /\ ds[n + 1] = SL
  BY <1>1, <1>2, <1>3, <1>4
<1> HIDE DEF ds
<1>c. PICK c : c = ds \o name
  OBVIOUS
<1>6. /\ c \in Seq(Text) /\ Len(c) = n + 1 + l
      /\ \A i \in 1 .. n + 1 + l : c[i] = IF i <= n + 1 THEN ds[i] ELSE name[i - (n + 1)]
  <2>1. /\ c \in Seq(Text) /\ Len(c) = Len(ds) + Len(name)
        /\ \A i \in 1 .. Len(ds) + Len(name) : c[i] = IF i <= Len(ds) THEN ds[i] ELSE name[i - Len(ds)]
    BY <1>n, <1>c, <1>4, ConcatProperties
  <2> QED
    BY <1>4, <2>1
<1>7. InDir(dir) = c
  BY <1>3, <1>c DEF InDir, ds, d
<1>8. n \in Nat
  BY <1>1
<1>9. \A i \in 1 .. n + 1 : c[i] = ds[i]
  BY <1>6, <1>8
<1>10. ASSUME NEW i \in 1 .. l PROVE c[n + 1 + i] = name[i]
  <2>1. PICK j : j = n + 1 + i
    OBVIOUS
  <2>2. j \in 1 .. n + 1 + l /\ ~(j <= n + 1) /\ j - (n + 1) = i
    BY <1>8, <2>1
  <2>3. c[j] = name[j - (n + 1)]
    BY <1>6, <2>2
  <2> QED
    BY <2>1, <2>2, <2>3
<1>11. (\A i \in 1 .. n : c[i] = dir[i]) /\ c[n + 1] = SL
  BY <1>5, <1>8, <1>9
<1> QED
  BY <1>6, <1>7, <1>10, <1>11

\* A move of bytes within a buffer
LEMMA MemMoveIs ==
    ASSUME NEW s \in Seq(Bytes), NEW to \in Nat, NEW from \in Nat, NEW k \in Nat,
           to + k <= Len(s), from + k <= Len(s)
    PROVE  /\ MemMove(s, to, from, k) \in [1 .. Len(s) -> Bytes]
           /\ \A i \in 1 .. k : MemMove(s, to, from, k)[to + i] = s[from + i]
<1>1. DOMAIN s = 1 .. Len(s) /\ Len(s) \in Nat /\ \A i \in 1 .. Len(s) : s[i] \in Bytes
  BY LenProperties, ElementOfSeq
<1>2. ASSUME NEW i \in 1 .. Len(s), to < i /\ i <= to + k
      PROVE  i - to + from \in 1 .. Len(s)
  BY <1>1, <1>2
<1>3. ASSUME NEW i \in 1 .. k PROVE to + i \in 1 .. Len(s) /\ to < to + i /\ to + i <= to + k /\ to + i - to + from = from + i
  BY <1>1
<1> QED
  BY <1>1, <1>2, <1>3 DEF MemMove

\* More room behind the first n bytes of a buffer
LEMMA ExtendedIs ==
    ASSUME NEW s \in Seq(Bytes), NEW n \in Nat, n <= Len(s), NEW k \in Nat
    PROVE  /\ Extended(s, n, k) \in Seq(Bytes)
           /\ Len(Extended(s, n, k)) >= k /\ Len(Extended(s, n, k)) >= n
           /\ \A i \in 1 .. n : Extended(s, n, k)[i] = s[i]
<1>1. Len(s) \in Nat /\ \A i \in 1 .. Len(s) : s[i] \in Bytes
  BY LenProperties, ElementOfSeq
<1>2. CASE k <= Len(s)
  BY <1>1, <1>2 DEF Extended
<1>3. CASE k > Len(s)
  <2> DEFINE d == SubSeq(s, 1, n)
             new == [i \in 1 .. k - n |-> "?"]
  <2>1. d \in Seq(Bytes) /\ Len(d) = n /\ \A i \in 1 .. n : d[i] = s[i]
    <3>1. \A i \in 1 .. n : s[i] \in Bytes
      BY <1>1
    <3>2. /\ d \in Seq(Bytes) /\ Len(d) = (IF 1 <= n THEN n - 1 + 1 ELSE 0)
          /\ \A i \in 1 .. n - 1 + 1 : d[i] = s[1 + i - 1]
      BY <3>1, SubSeqProperties
    <3>3. n - 1 + 1 = n /\ \A i \in 1 .. n : 1 + i - 1 = i
      OBVIOUS
    <3> QED
      BY <3>2, <3>3
  <2>2. new \in Seq(Bytes) /\ Len(new) = k - n
    <3>1. k - n \in Nat /\ new \in [1 .. k - n -> Bytes]
      BY <1>1, <1>3 DEF Bytes
    <3> QED
      BY <3>1, FunctionIsSeq
  <2>3. Extended(s, n, k) = d \o new
    BY <1>1, <1>3 DEF Extended
  <2> HIDE DEF d, new
  <2>4. /\ d \o new \in Seq(Bytes) /\ Len(d \o new) = n + (k - n)
        /\ \A i \in 1 .. n + (k - n) : (d \o new)[i] = IF i <= n THEN d[i] ELSE new[i - n]
    BY <2>1, <2>2, ConcatProperties
  <2>5. n + (k - n) = k /\ k >= n
    BY <1>1, <1>3
  <2> QED
    BY <2>1, <2>3, <2>4, <2>5
<1> QED
  BY <1>1, <1>2, <1>3
\* The path of the name in a directory is made right, and the name found again.
LEMMA PathInIs ==
    ASSUME name \in Seq(Chars), scratch \in Seq(Bytes), lastDirLen \in Nat, slen \in Nat,
           slen = lastDirLen + Len(name) + 1, slen <= Len(scratch), Holds(scratch, lastDirLen),
           NEW dir \in Seq(Chars)
    PROVE  /\ PathIn(dir) \in Seq(Bytes) /\ NewLen(dir) <= Len(PathIn(dir))
           /\ CString(PathIn(dir)) = InDir(dir)
           /\ DirLen(dir) \in Nat /\ NewLen(dir) = DirLen(dir) + 1 + Len(name) + 1
           /\ Holds(PathIn(dir), DirLen(dir) + 1)
<1>1. PICK n \in Nat : n = DirLen(dir) /\ n <= Len(dir)
  BY DirLenType
<1>2. PICK l \in Nat : l = Len(name)
  BY LenProperties
<1>3. NewLen(dir) = n + l + 2
  BY <1>1, <1>2 DEF NewLen
<1>4. PICK ext : ext = Extended(scratch, slen, n + l + 2)
  OBVIOUS
<1>5. /\ ext \in Seq(Bytes) /\ Len(ext) >= n + l + 2 /\ Len(ext) >= slen
      /\ \A i \in 1 .. slen : ext[i] = scratch[i]
  BY <1>4, ExtendedIs
<1>6. PICK moved : moved = MemMove(ext, n + 1, lastDirLen, l + 1)
  OBVIOUS
<1>7. PICK z \in Nat : z = Len(ext)
  BY <1>5, LenProperties
<1>8. /\ moved \in [1 .. z -> Bytes]
      /\ \A i \in 1 .. l + 1 : moved[n + 1 + i] = ext[lastDirLen + i]
  <2>1. n + 1 + (l + 1) <= Len(ext) /\ lastDirLen + (l + 1) <= Len(ext)
    BY <1>2, <1>5, <1>7
  <2>2. PICK to \in Nat, k \in Nat : to = n + 1 /\ k = l + 1
    OBVIOUS
  <2>3. /\ moved \in [1 .. Len(ext) -> Bytes]
        /\ \A i \in 1 .. k : moved[to + i] = ext[lastDirLen + i]
    <3>1. moved = MemMove(ext, to, lastDirLen, k)
      BY <1>6, <2>2
    <3>2. to + k <= Len(ext) /\ lastDirLen + k <= Len(ext)
      BY <2>1, <2>2
    <3>3. ext \in Seq(Bytes)
      BY <1>5
    <3>4. MemMove(ext, to, lastDirLen, k) \in [1 .. Len(ext) -> Bytes]
      BY <3>2, <3>3, MemMoveIs
    <3>5. \A i \in 1 .. k : MemMove(ext, to, lastDirLen, k)[to + i] = ext[lastDirLen + i]
      BY <3>2, <3>3, MemMoveIs
    <3> QED
      BY <3>1, <3>4, <3>5
  <2> QED
    BY <1>7, <2>2, <2>3
<1>9. PICK path : path = PathIn(dir)
  OBVIOUS
<1>10. path = [i \in 1 .. z |-> IF i <= n THEN dir[i] ELSE IF i = n + 1 THEN SL ELSE moved[i]]
  BY <1>1, <1>2, <1>3, <1>4, <1>6, <1>8, <1>9 DEF PathIn
<1>11. path \in Seq(Bytes) /\ Len(path) = z
  <2>1. \A i \in 1 .. n : dir[i] \in Bytes
    BY <1>1, ElementOfSeq DEF Bytes, Text
  <2>2. path \in [1 .. z -> Bytes]
    BY <1>8, <1>10, <2>1 DEF Bytes, Text
  <2> QED
    BY <2>2, FunctionIsSeq
<1>12. /\ \A i \in 1 .. n : path[i] = dir[i]
       /\ path[n + 1] = SL
       /\ \A i \in 1 .. l + 1 : path[n + 1 + i] = moved[n + 1 + i]
  <2>1. n + l + 2 <= z
    BY <1>5, <1>7
  <2>2. ASSUME NEW i \in 1 .. l + 1
        PROVE  n + 1 + i \in 1 .. z /\ ~(n + 1 + i <= n) /\ n + 1 + i # n + 1
    BY <2>1
  <2> QED
    BY <1>10, <2>1, <2>2
<1>13. /\ \A i \in 1 .. l : path[n + 1 + i] = name[i]
       /\ path[n + 1 + l + 1] = NUL
  <2>1. ASSUME NEW i \in 1 .. l + 1 PROVE path[n + 1 + i] = scratch[lastDirLen + i]
    <3>1. lastDirLen + i \in 1 .. slen
      BY <1>2
    <3> QED
      BY <1>5, <1>8, <1>12, <3>1
  <2>2. ASSUME NEW i \in 1 .. l PROVE path[n + 1 + i] = name[i]
    <3>1. i \in 1 .. l + 1 /\ scratch[lastDirLen + i] = name[i]
      BY <1>2 DEF Holds
    <3> QED
      BY <2>1, <3>1
  <2>3. path[n + 1 + (l + 1)] = scratch[lastDirLen + l + 1]
    <3>1. l + 1 \in 1 .. l + 1
      OBVIOUS
    <3>2. path[n + 1 + (l + 1)] = scratch[lastDirLen + (l + 1)]
      BY <2>1, <3>1
    <3>3. lastDirLen + (l + 1) = lastDirLen + l + 1
      OBVIOUS
    <3> QED
      BY <3>2, <3>3
  <2>4. scratch[lastDirLen + l + 1] = NUL
    BY <1>2 DEF Holds
  <2>5. n + 1 + (l + 1) = n + 1 + l + 1
    OBVIOUS
  <2>6. path[n + 1 + l + 1] = NUL
    BY <2>3, <2>4, <2>5
  <2> QED
    BY <2>2, <2>6
<1>14. Holds(path, n + 1)
  <2>1. n + 1 + Len(name) + 1 <= Len(path)
    BY <1>2, <1>5, <1>7, <1>11
  <2> QED
    BY <1>2, <1>13, <2>1 DEF Holds
<1>15. CString(path) = InDir(dir)
  <2>t. PICK t : t = InDir(dir)
    OBVIOUS
  <2>1. /\ t \in Seq(Text) /\ Len(t) = n + 1 + l
        /\ \A i \in 1 .. n : t[i] = dir[i]
        /\ t[n + 1] = SL
        /\ \A i \in 1 .. l : t[n + 1 + i] = name[i]
    <3>1. /\ InDir(dir) \in Seq(Text) /\ Len(InDir(dir)) = n + 1 + Len(name)
          /\ \A i \in 1 .. n : InDir(dir)[i] = dir[i]
          /\ InDir(dir)[n + 1] = SL
          /\ \A i \in 1 .. Len(name) : InDir(dir)[n + 1 + i] = name[i]
      BY <1>1, InDirIs
    <3>2. Len(name) = l
      BY <1>2
    <3> QED
      BY <2>t, <3>1, <3>2
  <2>2. ASSUME NEW i \in 1 .. n + 1 + l PROVE path[i] = t[i]
    <3>0. CASE i \in 1 .. n
      BY <1>12, <2>1, <3>0
    <3>1. CASE i = n + 1
      BY <1>12, <2>1, <3>1
    <3>2. CASE i > n + 1
      <4>1. PICK j \in 1 .. l : i = n + 1 + j
        <5>1. i - (n + 1) \in 1 .. l /\ i = n + 1 + (i - (n + 1))
          BY <3>2
        <5> QED
          BY <5>1
      <4> QED
        BY <1>13, <2>1, <4>1
    <3> QED
      BY <3>0, <3>1, <3>2
  <2>3. path[Len(t) + 1] = NUL /\ Len(t) + 1 <= Len(path)
    BY <1>5, <1>7, <1>11, <1>13, <2>1
  <2> QED
    BY <1>11, <2>t, <2>1, <2>2, <2>3, CStringIs
<1> QED
  BY <1>1, <1>2, <1>3, <1>5, <1>7, <1>9, <1>11, <1>14, <1>15

\* The name moved back to the front
LEMMA AtFrontIs ==
    ASSUME name \in Seq(Chars), NEW s \in Seq(Bytes), NEW p \in Nat, Holds(s, p)
    PROVE  AtFront(s, p) \in Seq(Bytes) /\ Holds(AtFront(s, p), 0)
<1>1. PICK l \in Nat : l = Len(name)
  BY LenProperties
<1>2. PICK z \in Nat : z = Len(s)
  BY LenProperties
<1>3. PICK t : t = MemMove(s, 0, p, l + 1)
  OBVIOUS
<1>4. t \in [1 .. z -> Bytes] /\ \A i \in 1 .. l + 1 : t[0 + i] = s[p + i]
  <2>1. PICK k \in Nat : k = l + 1
    OBVIOUS
  <2>2. 0 + k <= Len(s) /\ p + k <= Len(s)
    BY <1>1, <1>2, <2>1 DEF Holds
  <2>3. /\ t \in [1 .. Len(s) -> Bytes]
        /\ \A i \in 1 .. k : t[0 + i] = s[p + i]
    <3>1. t = MemMove(s, 0, p, k)
      BY <1>3, <2>1
    <3>2. MemMove(s, 0, p, k) \in [1 .. Len(s) -> Bytes]
      BY <2>2, MemMoveIs
    <3>3. \A i \in 1 .. k : MemMove(s, 0, p, k)[0 + i] = s[p + i]
      BY <2>2, MemMoveIs
    <3> QED
      BY <3>1, <3>2, <3>3
  <2> QED
    BY <1>2, <2>1, <2>3
<1>5. t \in Seq(Bytes) /\ Len(t) = z
  BY <1>4, FunctionIsSeq
<1>0. /\ \A i \in 1 .. l : s[p + i] = name[i]
      /\ s[p + l + 1] = NUL
  BY <1>1 DEF Holds
<1>6. \A i \in 1 .. l : t[0 + i] = name[i]
  <2> SUFFICES ASSUME NEW i \in 1 .. l PROVE t[0 + i] = name[i]
    OBVIOUS
  <2>1. i \in 1 .. l + 1
    OBVIOUS
  <2>2. t[0 + i] = s[p + i]
    BY <1>4, <2>1
  <2> QED
    BY <1>0, <2>2
<1>7. t[0 + l + 1] = NUL
  <2>1. l + 1 \in 1 .. l + 1 /\ 0 + (l + 1) = 0 + l + 1 /\ p + (l + 1) = p + l + 1
    OBVIOUS
  <2>2. t[0 + (l + 1)] = s[p + (l + 1)]
    BY <1>4, <2>1
  <2> QED
    BY <1>0, <2>1, <2>2
<1>8. Holds(t, 0)
  BY <1>1, <1>2, <1>5, <1>6, <1>7 DEF Holds
<1> QED
  BY <1>1, <1>3, <1>5, <1>8 DEF AtFront

LEMMA FrontIsName ==
    ASSUME name \in Seq(Chars), NEW s \in Seq(Bytes), Holds(s, 0)
    PROVE  CString(s) = name
<1>1. name \in Seq(Text) /\ Len(name) \in Nat /\ Len(s) \in Nat
  BY LenProperties DEF Text
<1> QED
  BY <1>1, CStringIs DEF Holds

-----------------------------------------------------------------------------
(* The invariant of the search *)

SearchTypes ==
    /\ name \in Seq(Chars) /\ dirs \in Seq(Seq(Chars)) /\ Len(dirs) <= MAXINCDIR
    /\ scratch \in Seq(Bytes) /\ slen \in Nat /\ lastDirLen \in Nat /\ at \in 0 .. Len(dirs)
    /\ tried \in Seq(Seq(Text)) /\ search \in {"none", "dirs", "opened", "missing"}

\* The paths tried so far are the first ones.
InOrder ==
    /\ Len(tried) <= Len(dirs) + 1
    /\ Len(tried) >= 1 => tried[1] = name
    /\ \A i \in 1 .. Len(tried) - 1 : tried[i + 1] = InDir(dirs[i])

\* Where the name stands in the buffer
NameStands ==
    /\ search = "none" => tried = <<>>
    /\ search = "dirs" =>
           /\ Len(tried) = at + 1
           /\ slen = lastDirLen + Len(name) + 1 /\ slen <= Len(scratch)
           /\ Holds(scratch, lastDirLen)
    /\ search = "opened" => Holds(scratch, 0)

\* Arguments are taken before the search begins.
BeforeSearch == pc \in {"options", "schema"} => search = "none"

SearchInv == SearchTypes /\ InOrder /\ NameStands /\ BeforeSearch

LEMMA SearchInitInv == MainInit => SearchInv
<1> SUFFICES ASSUME MainInit PROVE SearchInv
  OBVIOUS
<1>1. name = <<>> /\ dirs = <<>> /\ scratch = <<>> /\ slen = 0 /\ lastDirLen = 0 /\ at = 0
      /\ tried = <<>> /\ search = "none"
  BY DEF MainInit, SearchInit
<1>2. Len(dirs) = 0 /\ Len(tried) = 0
  BY <1>1
<1>3. SearchTypes
  BY <1>1, <1>2 DEF SearchTypes
<1> QED
  BY <1>1, <1>2, <1>3 DEF SearchInv, InOrder, NameStands, BeforeSearch

LEMMA OpenNameInv == ASSUME SearchInv, pc = "search", OpenName, UNCHANGED pc PROVE SearchInv'
<1> DEFINE s == name \o <<NUL>>
<1>1. name \in Seq(Chars) /\ tried = <<>> /\ search = "none" /\ SearchTypes
  BY DEF OpenName, SearchInv, SearchTypes, NameStands
<1>2. PICK l \in Nat : l = Len(name)
  BY <1>1, LenProperties
<1>3. s \in Seq(Bytes) /\ Len(s) = l + 1 /\ Holds(s, 0)
  <2>1. PICK nul : nul = <<NUL>>
    OBVIOUS
  <2>2. nul \in Seq(Bytes) /\ Len(nul) = 1 /\ nul[1] = NUL
    BY <2>1 DEF Bytes
  <2>3. name \in Seq(Bytes)
    BY <1>1 DEF Bytes, Text
  <2>4. /\ name \o nul \in Seq(Bytes) /\ Len(name \o nul) = Len(name) + Len(nul)
        /\ \A i \in 1 .. Len(name) + Len(nul) :
              (name \o nul)[i] = IF i <= Len(name) THEN name[i] ELSE nul[i - Len(name)]
    BY <2>2, <2>3, ConcatProperties
  <2>5. PICK t : t = s
    OBVIOUS
  <2>6. /\ t \in Seq(Bytes) /\ Len(t) = l + 1
        /\ \A i \in 1 .. l + 1 : t[i] = IF i <= l THEN name[i] ELSE nul[i - l]
    BY <1>2, <2>1, <2>2, <2>4, <2>5
  <2>7. (\A i \in 1 .. l : t[0 + i] = name[i]) /\ t[0 + l + 1] = NUL
    BY <2>2, <2>6
  <2>8. Holds(t, 0)
    BY <1>2, <2>6, <2>7 DEF Holds
  <2> QED
    BY <2>5, <2>6, <2>8
<1>4. CString(s) = name
  <2> HIDE DEF s
  <2> QED
    BY <1>1, <1>3, FrontIsName
<1>5. /\ lastDirLen' = 0 /\ at' = 0 /\ UNCHANGED <<name, dirs>>
      /\ \/ /\ scratch' = s /\ slen' = Len(s) /\ tried' = Append(tried, CString(s))
            /\ search' \in {"opened", "missing", "dirs"}
         \/ search' = "missing" /\ scratch' = <<>> /\ slen' = 0 /\ tried' = tried
  BY DEF OpenName, Open
<1> HIDE DEF s
<1>6. Len(dirs) \in Nat
  BY <1>1, LenProperties DEF SearchTypes
<1>7. CASE /\ scratch' = s /\ slen' = Len(s) /\ tried' = Append(tried, CString(s))
           /\ search' \in {"opened", "missing", "dirs"}
  <2>1. tried' = <<name>> /\ name \in Seq(Text)
    BY <1>1, <1>4, <1>7 DEF Text
  <2>2. tried' \in Seq(Seq(Text)) /\ Len(tried') = 1 /\ tried'[1] = name
    BY <2>1
  <2>3. SearchTypes'
    BY <1>1, <1>3, <1>5, <1>6, <1>7, <2>2 DEF SearchTypes
  <2>4. InOrder'
    BY <1>5, <1>6, <2>2 DEF InOrder
  <2>5. Holds(scratch, 0)'
    BY <1>2, <1>3, <1>5, <1>7 DEF Holds
  <2>6. NameStands'
    BY <1>2, <1>3, <1>5, <1>7, <2>2, <2>5 DEF NameStands
  <2> QED
    BY <2>3, <2>4, <2>6 DEF SearchInv, BeforeSearch
<1>8. CASE search' = "missing" /\ scratch' = <<>> /\ slen' = 0 /\ tried' = tried
  <2>1. SearchTypes'
    BY <1>1, <1>5, <1>6, <1>8 DEF SearchTypes
  <2>2. InOrder' /\ NameStands'
    BY <1>5, <1>8 DEF SearchInv, InOrder, NameStands, InDir
  <2> QED
    BY <2>1, <2>2 DEF SearchInv, BeforeSearch
<1> QED
  BY <1>5, <1>7, <1>8

LEMMA OpenInDirInv == ASSUME SearchInv, OpenInDir, UNCHANGED pc PROVE SearchInv'
<1>1. /\ SearchTypes /\ InOrder /\ search = "dirs" /\ at < Len(dirs)
      /\ Len(tried) = at + 1
      /\ slen = lastDirLen + Len(name) + 1 /\ slen <= Len(scratch)
      /\ Holds(scratch, lastDirLen)
      /\ name' = name /\ dirs' = dirs
  BY DEF OpenInDir, SearchInv, NameStands
<1>2. /\ name \in Seq(Chars) /\ dirs \in Seq(Seq(Chars)) /\ scratch \in Seq(Bytes)
      /\ slen \in Nat /\ lastDirLen \in Nat /\ at \in Nat
  BY <1>1, LenProperties DEF SearchTypes
<1>3. at + 1 \in 1 .. Len(dirs) /\ Len(dirs) \in Nat
  BY <1>1, <1>2, LenProperties
<1>4. PICK dir \in Seq(Chars) : dir = dirs[at + 1]
  <2>1. dirs[at + 1] \in Seq(Chars)
    BY <1>2, <1>3, ElementOfSeq
  <2> QED
    BY <2>1
<1>5. PICK n \in Nat : n = DirLen(dir)
  BY DirLenType
<1>6. /\ PathIn(dir) \in Seq(Bytes) /\ NewLen(dir) <= Len(PathIn(dir))
      /\ CString(PathIn(dir)) = InDir(dir)
      /\ NewLen(dir) = n + 1 + Len(name) + 1
      /\ Holds(PathIn(dir), n + 1)
  BY <1>1, <1>2, <1>5, PathInIs
<1>7. CASE /\ Open(PathIn(dir)) /\ slen' = NewLen(dir) /\ lastDirLen' = n + 1 /\ at' = at + 1
           /\ \/ search' = "opened" /\ scratch' = AtFront(PathIn(dir), n + 1)
              \/ search' = "dirs" /\ scratch' = PathIn(dir)
  <2>1. PICK path \in Seq(Bytes) : path = PathIn(dir)
    BY <1>6
  <2>2. n + 1 \in Nat /\ NewLen(dir) \in Nat
    BY <1>2, <1>6, LenProperties
  <2>3. AtFront(path, n + 1) \in Seq(Bytes) /\ Holds(AtFront(path, n + 1), 0)
    BY <1>2, <1>6, <2>1, <2>2, AtFrontIs
  <2>4. /\ tried' \in Seq(Seq(Text)) /\ Len(tried') = Len(tried) + 1
        /\ \A i \in 1 .. Len(tried) : tried'[i] = tried[i]
        /\ tried'[Len(tried) + 1] = InDir(dir)
    <3>1. InDir(dir) \in Seq(Text) /\ tried \in Seq(Seq(Text))
      BY <1>1, <1>2, InDirIs DEF SearchTypes
    <3>2. tried' = Append(tried, InDir(dir))
      BY <1>6, <1>7 DEF Open
    <3> QED
      BY <3>1, <3>2, AppendProperties
  <2>5. SearchTypes'
    <3>1. scratch' \in Seq(Bytes) /\ search' \in {"opened", "dirs"}
      BY <1>7, <2>1, <2>3
    <3>2. at' \in 0 .. Len(dirs) /\ slen' \in Nat /\ lastDirLen' \in Nat
      BY <1>2, <1>3, <1>7, <2>2
    <3> QED
      BY <1>1, <2>4, <3>1, <3>2 DEF SearchTypes
  <2>6. \A d : InDir(d)' = InDir(d)
    BY <1>1 DEF InDir
  <2>7. InOrder'
    <3>1. Len(tried') <= Len(dirs) + 1
      BY <1>1, <1>2, <1>3, <2>4
    <3>2. tried'[1] = name
      <4>1. Len(tried) \in Nat /\ 1 \in 1 .. Len(tried) /\ tried[1] = name
        BY <1>1, <1>2 DEF InOrder
      <4> QED
        BY <2>4, <4>1
    <3>3. ASSUME NEW i \in 1 .. Len(tried') - 1 PROVE tried'[i + 1] = InDir(dirs[i])
      <4>1. CASE i \in 1 .. Len(tried) - 1
        BY <1>1, <1>2, <2>4, <4>1 DEF InOrder
      <4>2. CASE i = at + 1
        <5>1. i + 1 = Len(tried) + 1
          BY <1>1, <1>2, <4>2
        <5>2. tried'[i + 1] = InDir(dir)
          BY <2>4, <5>1
        <5> QED
          BY <1>4, <4>2, <5>2
      <4>3. i \in 1 .. Len(tried) - 1 \/ i = at + 1
        BY <1>1, <1>2, <2>4
      <4> QED
        BY <4>1, <4>2, <4>3
    <3> QED
      BY <1>1, <2>6, <3>1, <3>2, <3>3 DEF InOrder
  <2>8. NameStands'
    <3>1. CASE search' = "opened"
      <4>1. Holds(scratch, 0)'
        BY <1>1, <1>7, <2>1, <2>3, <3>1 DEF Holds
      <4> QED
        BY <3>1, <4>1 DEF NameStands
    <3>2. CASE search' = "dirs" /\ scratch' = PathIn(dir)
      <4>1. Holds(scratch, lastDirLen)'
        BY <1>1, <1>6, <1>7, <3>2 DEF Holds
      <4>2. Len(tried') = at' + 1
        BY <1>1, <1>2, <1>7, <2>4
      <4>3. slen' = lastDirLen' + Len(name') + 1 /\ slen' <= Len(scratch')
        BY <1>1, <1>6, <1>7, <3>2
      <4> QED
        BY <3>2, <4>1, <4>2, <4>3 DEF NameStands
    <3> QED
      BY <1>7, <3>1, <3>2
  <2>9. BeforeSearch'
    BY <1>1 DEF SearchInv, BeforeSearch
  <2> QED
    BY <2>5, <2>7, <2>8, <2>9 DEF SearchInv
<1>8. CASE search' = "missing" /\ UNCHANGED <<scratch, slen, lastDirLen, at, tried>>
  <2>1. SearchTypes' /\ NameStands'
    BY <1>1, <1>8 DEF SearchTypes, NameStands
  <2>2. InOrder'
    BY <1>1, <1>8 DEF InOrder, InDir
  <2>3. BeforeSearch'
    BY <1>1 DEF SearchInv, BeforeSearch
  <2> QED
    BY <2>1, <2>2, <2>3 DEF SearchInv
<1> QED
  BY <1>4, <1>5, <1>7, <1>8 DEF OpenInDir, After

LEMMA NoMoreDirsInv == ASSUME SearchInv, NoMoreDirs, UNCHANGED pc PROVE SearchInv'
<1>1. /\ SearchTypes /\ InOrder /\ search = "dirs" /\ search' = "missing"
      /\ Holds(scratch, lastDirLen) /\ scratch' = AtFront(scratch, lastDirLen)
      /\ UNCHANGED <<name, dirs, slen, lastDirLen, at, tried>>
  BY DEF NoMoreDirs, SearchInv, NameStands
<1>2. scratch' \in Seq(Bytes)
  BY <1>1, AtFrontIs DEF SearchTypes
<1>3. SearchTypes' /\ NameStands' /\ BeforeSearch'
  BY <1>1, <1>2 DEF SearchInv, SearchTypes, NameStands, BeforeSearch
<1>4. InOrder'
  BY <1>1 DEF InOrder, InDir
<1> QED
  BY <1>3, <1>4 DEF SearchInv

\* Between the search and the exit nothing of the search changes.
LEMMA SearchNextInv == ASSUME SearchInv, [MainNext]_vars PROVE SearchInv'
<1>1. CASE UNCHANGED searchVars /\ (pc' \in {"options", "schema"} => pc \in {"options", "schema"})
  BY <1>1 DEF searchVars, SearchInv, SearchTypes, InOrder, NameStands, BeforeSearch, Holds, InDir
<1>2. CASE IncludeOption /\ ~UNCHANGED searchVars
  <2>1. PICK dir \in Dirs : dirs' = Append(dirs, dir)
    BY <1>2 DEF IncludeOption, searchVars
  <2>2. /\ pc = "options" /\ Len(dirs) # MAXINCDIR
        /\ UNCHANGED <<name, scratch, slen, lastDirLen, at, tried, search, pc>>
    BY <1>2 DEF IncludeOption, searchVars
  <2>3. search = "none" /\ tried = <<>> /\ SearchTypes
    BY <2>2 DEF SearchInv, BeforeSearch, NameStands
  <2>4. dirs' \in Seq(Seq(Chars)) /\ Len(dirs') = Len(dirs) + 1 /\ Len(dirs) \in Nat
    <3>1. dir \in Seq(Chars) /\ dirs \in Seq(Seq(Chars))
      BY <2>3 DEF SearchTypes
    <3> QED
      BY <2>1, <3>1, AppendProperties, LenProperties
  <2>5. SearchTypes'
    BY <2>2, <2>3, <2>4 DEF SearchTypes
  <2>6. InOrder' /\ NameStands' /\ BeforeSearch'
    BY <2>2, <2>3, <2>4 DEF InOrder, NameStands, BeforeSearch
  <2> QED
    BY <2>5, <2>6 DEF SearchInv
<1>3. CASE SchemaArgument
  <2>1. /\ pc \in {"options", "schema"} /\ name' \in Names /\ pc' = "search"
        /\ UNCHANGED <<dirs, scratch, slen, lastDirLen, at, tried, search>>
    BY <1>3 DEF SchemaArgument, Goto
  <2>2. search = "none" /\ tried = <<>> /\ SearchTypes /\ name' \in Seq(Chars)
    BY <2>1 DEF SearchInv, BeforeSearch, NameStands
  <2>3. SearchTypes'
    BY <2>1, <2>2 DEF SearchTypes
  <2>4. Len(dirs) \in Nat
    BY <2>2, LenProperties DEF SearchTypes
  <2>5. InOrder' /\ NameStands' /\ BeforeSearch'
    BY <2>1, <2>2, <2>4 DEF InOrder, NameStands, BeforeSearch
  <2> QED
    BY <2>3, <2>5 DEF SearchInv
<1>4. CASE Search
  <2>1. pc = "search" /\ UNCHANGED pc /\ SearchStep
    BY <1>4 DEF Search, nbufcVars
  <2> QED
    BY <2>1, OpenNameInv, OpenInDirInv, NoMoreDirsInv DEF SearchStep
<1>5. CASE \/ Usage \/ ActionOption \/ DecodeRawOption \/ NotFound \/ LoadSchema \/ Load
           \/ Compile \/ CompileGarbage
  BY <1>1, <1>5 DEF Usage, ActionOption, DecodeRawOption, NotFound, LoadSchema, Load, Compile,
                    CompileGarbage, NoFiles, nbufcVars, Goto, Exit
<1>6. CASE \/ NoAction \/ BinOut \/ CppOut \/ CHeader \/ CSource \/ DecodeRaw
           \/ NoSuchType \/ LoadInput \/ NoInput \/ Convert \/ Converted
  BY <1>1, <1>6 DEF NoAction, BinOut, CppOut, CHeader, CSource, DecodeRaw, NoSuchType, LoadInput,
                    NoInput, Convert, Converted, NoFiles, Goto, Exit
<1>7. CASE IncludeOption /\ UNCHANGED searchVars
  BY <1>1, <1>7 DEF IncludeOption, Exit, searchVars
<1>8. CASE UNCHANGED vars
  BY <1>1, <1>8 DEF vars, nbufcVars
<1> QED
  BY <1>2, <1>3, <1>4, <1>5, <1>6, <1>7, <1>8 DEF MainNext

LEMMA SearchInvariance == MainSpec => []SearchInv
BY SearchInitInv, SearchNextInv, PTL DEF MainSpec

\* The paths tried are the name alone and then the name in each directory, in
\* their order, and the buffer holds the plain name once the file is found
\* (NameKept): for every name and search path.
THEOREM SearchKeepsName == MainSpec => []NameKept
<1>1. SearchInv => NameKept
  <2> SUFFICES ASSUME SearchInv PROVE NameKept
    OBVIOUS
  <2>1. /\ name \in Seq(Chars) /\ dirs \in Seq(Seq(Chars)) /\ scratch \in Seq(Bytes)
        /\ tried \in Seq(Seq(Text)) /\ InOrder /\ NameStands
    BY DEF SearchInv, SearchTypes
  <2>2. search = "opened" => CString(scratch) = name
    BY <2>1, FrontIsName DEF NameStands
  <2>3. PICK d \in Nat : d = Len(dirs)
    BY <2>1, LenProperties
  <2>4. PICK k \in Nat : k = Len(tried)
    BY <2>1, LenProperties
  <2>5. PICK rest : rest = [i \in DOMAIN dirs |-> InDir(dirs[i])]
    OBVIOUS
  <2>6. rest \in Seq(Seq(Text)) /\ Len(rest) = d /\ \A i \in 1 .. d : rest[i] = InDir(dirs[i])
    <3>1. DOMAIN dirs = 1 .. d
      BY <2>1, <2>3, LenProperties
    <3>2. \A i \in 1 .. d : InDir(dirs[i]) \in Seq(Text)
      BY <2>1, <2>3, ElementOfSeq, InDirIs
    <3>3. rest \in [1 .. d -> Seq(Text)] /\ \A i \in 1 .. d : rest[i] = InDir(dirs[i])
      BY <2>5, <3>1, <3>2
    <3> QED
      BY <3>3, FunctionIsSeq
  <2>7. PICK first : first = <<name>>
    OBVIOUS
  <2>8. first \in Seq(Seq(Text)) /\ Len(first) = 1 /\ first[1] = name
    <3>1. name \in Seq(Text)
      BY <2>1 DEF Text
    <3> QED
      BY <2>7, <3>1
  <2>9. PICK paths : paths = Paths
    OBVIOUS
  <2>10. /\ paths \in Seq(Seq(Text)) /\ Len(paths) = d + 1
         /\ \A i \in 1 .. d + 1 : paths[i] = IF i <= 1 THEN first[i] ELSE rest[i - 1]
    <3>1. /\ first \o rest \in Seq(Seq(Text)) /\ Len(first \o rest) = Len(first) + Len(rest)
          /\ \A i \in 1 .. Len(first) + Len(rest) :
                (first \o rest)[i] = IF i <= Len(first) THEN first[i] ELSE rest[i - Len(first)]
      BY <2>6, <2>8, ConcatProperties
    <3>2. paths = first \o rest
      BY <2>5, <2>7, <2>9 DEF Paths
    <3>3. /\ paths \in Seq(Seq(Text)) /\ Len(paths) = Len(first) + Len(rest)
          /\ \A i \in 1 .. Len(first) + Len(rest) :
                paths[i] = IF i <= Len(first) THEN first[i] ELSE rest[i - Len(first)]
      BY <3>1, <3>2
    <3> QED
      BY <2>6, <2>8, <3>3
  <2>11. k <= d + 1 /\ \A i \in 1 .. k : tried[i] = paths[i]
    <3>1. k <= d + 1
      BY <2>1, <2>3, <2>4 DEF InOrder
    <3>2. ASSUME NEW i \in 1 .. k PROVE tried[i] = paths[i]
      <4>1. CASE i = 1
        BY <2>1, <2>4, <2>8, <2>10, <3>1, <4>1 DEF InOrder
      <4>2. CASE i # 1
        <5>1. PICK j \in 1 .. k - 1 : i = j + 1
          <6>1. i - 1 \in 1 .. k - 1 /\ i = (i - 1) + 1
            BY <4>2
          <6> QED
            BY <6>1
        <5>2. tried[i] = InDir(dirs[j])
          BY <2>1, <2>4, <5>1 DEF InOrder
        <5>3. i \in 1 .. d + 1 /\ ~(i <= 1) /\ i - 1 = j /\ j \in 1 .. d
          BY <3>1, <5>1
        <5> QED
          BY <2>6, <2>10, <5>2, <5>3
      <4> QED
        BY <4>1, <4>2
    <3> QED
      BY <3>1, <3>2
  <2>12. IsPrefix(tried, paths)
    <3>1. PICK a, b : a = SubSeq(tried, 1, k) /\ b = SubSeq(paths, 1, k)
      OBVIOUS
    <3>2. \A i \in 1 .. k : tried[i] \in Seq(Text) /\ paths[i] \in Seq(Text)
      BY <2>1, <2>4, <2>11, ElementOfSeq
    <3>3. k - 1 + 1 = k /\ \A i \in 1 .. k : 1 + i - 1 = i
      OBVIOUS
    <3>4. a \in Seq(Seq(Text)) /\ Len(a) = k /\ \A i \in 1 .. k : a[i] = tried[i]
      <4>1. /\ SubSeq(tried, 1, k) \in Seq(Seq(Text))
            /\ Len(SubSeq(tried, 1, k)) = (IF 1 <= k THEN k - 1 + 1 ELSE 0)
            /\ \A i \in 1 .. k - 1 + 1 : SubSeq(tried, 1, k)[i] = tried[1 + i - 1]
        BY <3>2, SubSeqProperties
      <4> QED
        BY <3>1, <3>3, <4>1
    <3>5. b \in Seq(Seq(Text)) /\ Len(b) = k /\ \A i \in 1 .. k : b[i] = paths[i]
      <4>1. /\ SubSeq(paths, 1, k) \in Seq(Seq(Text))
            /\ Len(SubSeq(paths, 1, k)) = (IF 1 <= k THEN k - 1 + 1 ELSE 0)
            /\ \A i \in 1 .. k - 1 + 1 : SubSeq(paths, 1, k)[i] = paths[1 + i - 1]
        BY <3>2, SubSeqProperties
      <4> QED
        BY <3>1, <3>3, <4>1
    <3>6. a = b
      BY <2>11, <3>4, <3>5, SeqEqual
    <3> QED
      BY <2>4, <2>10, <2>11, <3>1, <3>6 DEF IsPrefix
  <2> QED
    BY <2>2, <2>9, <2>12 DEF NameKept
<1> QED
  BY <1>1, SearchInvariance, PTL

-----------------------------------------------------------------------------
(* The exit status *)

\* What main() knows where it stands
MainInv ==
    /\ pc \in {"options", "schema", "search", "load schema", "load input", "action", "c source",
               "converted", "undefined", "exit"}
    /\ action \in Actions /\ status \in {0, 1}
    /\ done \subseteq {".nb", ".nb.hpp", ".nb.h", ".nb.c", "stdout"}
    /\ pc \in {"load input", "converted"} => action \in {"ENCODE", "DECODE"}
    /\ pc = "converted" => inputWhole /\ (status = 0 => "stdout" \in done)
    /\ pc = "c source" => action = "C_OUT" /\ ".nb.h" \in done
    /\ ResultOrError

LEMMA MainInitInv == MainInit => MainInv
BY DEF MainInit, MainInv, Actions, ResultOrError

\* An exit with the status 1 promises nothing.
LEMMA FailureInv == ASSUME MainInv, Exit(1), UNCHANGED <<action, inputWhole>>,
                           done' = done PROVE MainInv'
<1>1. pc' = "exit" /\ status' = 1 /\ action' = action /\ done' = done
  BY DEF Exit
<1>2. ResultOrError'
  BY <1>1 DEF ResultOrError
<1> QED
  BY <1>1, <1>2 DEF MainInv

\* The input that is converted is the whole input, because its load was whole.
LEMMA ConvertInv == ASSUME MainInv, LoadedWhole, Convert PROVE MainInv'
<1>1. /\ pc = "load input" /\ pc' = "converted" /\ UNCHANGED action
      /\ \/ done' = done \cup {"stdout"} /\ UNCHANGED status
         \/ done' = done /\ status' = 1
  BY DEF Convert, Written, NotWritten, Goto
<1>2. inputWhole'
  BY DEF Convert, LoadedWhole
<1>3. ResultOrError'
  BY <1>1 DEF ResultOrError
<1>4. /\ action' \in {"ENCODE", "DECODE"} /\ action' \in Actions /\ status' \in {0, 1}
      /\ done' \subseteq {".nb", ".nb.hpp", ".nb.h", ".nb.c", "stdout"}
      /\ status' = 0 => "stdout" \in done'
  <2>1. /\ action \in {"ENCODE", "DECODE"} /\ status \in {0, 1}
        /\ done \subseteq {".nb", ".nb.hpp", ".nb.h", ".nb.c", "stdout"}
    <3>1. action \in {"ENCODE", "DECODE"}
      BY <1>1, Zenon DEF MainInv
    <3>2. status \in {0, 1} /\ done \subseteq {".nb", ".nb.hpp", ".nb.h", ".nb.c", "stdout"}
      BY Zenon DEF MainInv
    <3> QED
      BY <3>1, <3>2
  <2>2. CASE done' = done \cup {"stdout"} /\ UNCHANGED status
    BY <1>1, <2>1, <2>2 DEF Actions
  <2>3. CASE done' = done /\ status' = 1
    <3>1. action' \in {"ENCODE", "DECODE"} /\ action' \in Actions
      BY <1>1, <2>1 DEF Actions
    <3>2. status' = 1
      BY <2>3
    <3>3. done' \subseteq {".nb", ".nb.hpp", ".nb.h", ".nb.c", "stdout"}
      BY <2>1, <2>3
    <3> QED
      BY <3>1, <3>2, <3>3
  <2> QED
    BY <1>1, <2>2, <2>3
<1>5. pc' # "c source"
  BY <1>1
<1> QED
  BY <1>1, <1>2, <1>3, <1>4, <1>5, Zenon DEF MainInv

LEMMA MainNextInv == ASSUME MainInv, LoadedWhole, [MainNext]_vars PROVE MainInv'
<1>1. CASE Usage
  BY <1>1, FailureInv DEF Usage, History
<1>2. CASE ActionOption \/ DecodeRawOption \/ SchemaArgument
  BY <1>2 DEF ActionOption, DecodeRawOption, SchemaArgument, Goto, History, MainInv, ResultOrError, Actions
<1>3. CASE IncludeOption
  <2>1. UNCHANGED <<action, inputWhole, done>> /\ (Exit(1) \/ UNCHANGED <<pc, status>>)
    BY <1>3 DEF IncludeOption, History
  <2>2. CASE UNCHANGED <<pc, status>>
    BY <2>1, <2>2 DEF MainInv, ResultOrError
  <2> QED
    BY <2>1, <2>2, FailureInv
<1>4. CASE Search \/ Load \/ UNCHANGED vars
  BY <1>4 DEF Search, Load, vars, nbufcVars, MainInv, ResultOrError
<1>5. CASE NotFound \/ NoSuchType \/ NoInput
  BY <1>5, FailureInv DEF NotFound, NoSuchType, NoInput, History
<1>6. CASE LoadSchema \/ LoadInput \/ CompileGarbage
  BY <1>6 DEF LoadSchema, LoadInput, CompileGarbage, Goto, History, MainInv, ResultOrError
<1>7. CASE Compile
  <2>1. UNCHANGED <<action, inputWhole, done>> /\ (Exit(1) \/ (pc' = "action" /\ UNCHANGED status))
    BY <1>7 DEF Compile, History, Goto
  <2>2. CASE pc' = "action" /\ UNCHANGED status
    <3>1. ResultOrError'
      BY <2>2 DEF ResultOrError
    <3> QED
      BY <2>1, <2>2, <3>1 DEF MainInv
  <2> QED
    BY <2>1, <2>2, FailureInv
<1>8. CASE NoAction \/ BinOut \/ CppOut \/ CHeader \/ CSource \/ DecodeRaw
  <2>1. action \in Actions /\ done \subseteq {".nb", ".nb.hpp", ".nb.h", ".nb.c", "stdout"} /\ UNCHANGED action
    BY <1>8 DEF MainInv, NoAction, BinOut, CppOut, CHeader, CSource, DecodeRaw
  <2>2. CASE NoAction \/ DecodeRaw
    <3>1. ResultOrError'
      BY <2>2 DEF NoAction, DecodeRaw, ResultOrError
    <3> QED
      BY <2>1, <2>2, <3>1 DEF NoAction, DecodeRaw, Exit, History, MainInv
  <2>3. CASE BinOut \/ CppOut
    <3>1. ResultOrError'
      BY <2>3 DEF BinOut, CppOut, Written, NotWritten, Exit, ResultOrError
    <3> QED
      BY <2>1, <2>3, <3>1 DEF BinOut, CppOut, Written, NotWritten, Exit, MainInv
  <2>4. CASE CHeader
    <3>1. ResultOrError'
      BY <2>4 DEF CHeader, Exit, Goto, ResultOrError
    <3> QED
      BY <2>1, <2>4, <3>1 DEF CHeader, Written, NotWritten, Exit, Goto, MainInv
  <2>5. CASE CSource
    <3>1. action = "C_OUT" /\ ".nb.h" \in done
      BY <2>5 DEF CSource, MainInv
    <3>2. ResultOrError'
      BY <2>5, <3>1 DEF CSource, Written, NotWritten, ResultOrError
    <3> QED
      BY <2>1, <2>5, <3>2 DEF CSource, Written, NotWritten, Exit, MainInv
  <2> QED
    BY <1>8, <2>2, <2>3, <2>4, <2>5
<1>9. CASE Converted
  <2>1. /\ pc = "converted" /\ pc' = "exit"
        /\ UNCHANGED <<action, status, inputWhole, done>>
    BY <1>9 DEF Converted, Exit, History
  <2>2. action \in {"ENCODE", "DECODE"} /\ (status = 0 => "stdout" \in done)
    BY <2>1, Zenon DEF MainInv
  <2>3. inputWhole'
    BY <2>1, Zenon DEF MainInv
  <2>4. ResultOrError'
    <3>1. action' \notin {"BIN_OUT", "CPP_OUT", "C_OUT"} /\ (status' = 0 => "stdout" \in done')
      BY <2>1, <2>2
    <3> QED
      BY <2>3, <3>1, Zenon DEF ResultOrError
  <2>5. pc' \notin {"load input", "converted", "c source"}
    BY <2>1
  <2>6. /\ pc' = "exit" /\ action' \in Actions /\ status' \in {0, 1}
        /\ done' \subseteq {".nb", ".nb.hpp", ".nb.h", ".nb.c", "stdout"}
    <3>1. /\ action \in Actions /\ status \in {0, 1}
          /\ done \subseteq {".nb", ".nb.hpp", ".nb.h", ".nb.c", "stdout"}
      BY Zenon DEF MainInv
    <3> QED
      BY <2>1, <3>1
  <2> QED
    BY <2>4, <2>5, <2>6, Zenon DEF MainInv
<1>10. CASE Convert
  BY <1>10, ConvertInv
<1> QED
  BY <1>1, <1>2, <1>3, <1>4, <1>5, <1>6, <1>7, <1>8, <1>9, <1>10 DEF MainNext

LEMMA MainInvariance == MainSpec => []MainInv
BY MainInitInv, MainNextInv, ProgramLoadsWhole, PTL DEF MainSpec

\* nbufc exits with 0 only when the output of its action was handed over
\* without an error, made from the whole input (ResultOrError).
THEOREM SuccessMeansResult == MainSpec => []ResultOrError
<1>1. MainInv => ResultOrError
  BY DEF MainInv
<1> QED
  BY <1>1, MainInvariance, PTL

\* The state of the program is well typed, its buffer, its search path of at
\* most MAXINCDIR directories and its exit status included (MainTypeOK).
THEOREM MainTypeCorrect == MainSpec => []MainTypeOK
<1>1. TypeOK /\ SearchInv /\ MainInv => MainTypeOK
  BY DEF SearchInv, SearchTypes, MainInv, MainTypeOK
<1>2. MainSpec => []TypeOK
  BY LoadsAsFileIO, TypeCorrect, PTL
<1> QED
  BY <1>1, <1>2, SearchInvariance, MainInvariance, PTL
=============================================================================
