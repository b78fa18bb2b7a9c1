--------------------------- MODULE ImportsProofs ---------------------------
(***************************************************************************)
(* Proofs about the walk over the import graph: whatever the graph, the    *)
(* depth limit and the moments at which names are left behind.             *)
(***************************************************************************)
EXTENDS Imports, Induction, SequenceTheorems, TLAPS

USE DepthAssumption, RootAssumption

FileStates == [path : Path, readable : BOOLEAN, is_open : BOOLEAN,
               ss : {NULL} \cup {Schema(g) : g \in Seq(Nat)}]
Frames == [fs : Nat, got : Seq(Nat)]

\* The import statements of the file at i, and the one that frame k is at
StatementsOf(i) == imports[states[i].path]
At(k) == Len(stack[k].got) + 1

\* The schema of the file at j may be what the m-th statement at i imports.
Serves(i, m, j) ==
    /\ m \in 1 .. Len(StatementsOf(i))
    /\ j \in 1 .. Len(states) /\ HasSchema(j)
    /\ ~stale => states[j].path = StatementsOf(i)[m]

-----------------------------------------------------------------------------
(* The inductive invariant *)

Types ==
    /\ imports \in [Path -> Seq(Path)]
    /\ pc \in {"open", "parse", "return", "unwind", "ok", "failed"}
    /\ want \in Path /\ ret \in Nat
    /\ circular \in BOOLEAN /\ stale \in BOOLEAN
    /\ states \in Seq(FileStates) /\ stack \in Seq(Frames)

\* A parse_file that runs has been counted.
Depths ==
    /\ depth \in 0 .. MAX_DEPTH
    /\ pc = "open" => depth # 0
    /\ pc # "open" => depth # MAX_DEPTH

\* The frames are those of the open files, in the order they were opened.
Running ==
    /\ \A k \in 1 .. Len(stack) :
           /\ stack[k].fs \in 1 .. Len(states)
           /\ \A m \in 1 .. Len(stack[k].got) : stack[k].got[m] \in 1 .. Len(states)
    /\ \A j, k \in 1 .. Len(stack) : j < k => stack[j].fs < stack[k].fs
    /\ \A i \in 1 .. Len(states) : states[i].is_open <=> \E k \in 1 .. Len(stack) : stack[k].fs = i

\* A schema is there once its file is closed.
Closed == pc # "unwind" => \A i \in 1 .. Len(states) : HasSchema(i) <=> ~states[i].is_open

\* What the running calls have imported
Served ==
    pc # "unwind" => \A k \in 1 .. Len(stack) : \A m \in 1 .. Len(stack[k].got) :
        Serves(stack[k].fs, m, stack[k].got[m])

\* Each running call but the last waits for the file of the next one.
Waiting ==
    \A k \in 1 .. Len(stack) - 1 :
        /\ At(k) <= Len(StatementsOf(stack[k].fs))
        /\ states[stack[k + 1].fs].path = StatementsOf(stack[k].fs)[At(k)]

\* What the last one is about
Control ==
    /\ pc = "open" =>
           IF stack = <<>> THEN want = Root /\ states = <<>>
           ELSE /\ At(Len(stack)) <= Len(StatementsOf(Top.fs))
                /\ want = StatementsOf(Top.fs)[At(Len(stack))]
    /\ pc = "parse" => stack # <<>>
    /\ pc = "return" =>
           /\ ret \in 1 .. Len(states) /\ HasSchema(ret)
           /\ stack # <<>> => Serves(Top.fs, At(Len(stack)), ret)
    /\ pc = "ok" => stack = <<>> /\ states # <<>>
    /\ stack # <<>> => states[stack[1].fs].path = Root
    /\ states # <<>> => states[1].path = Root

\* The imports of a schema are those its file asks for.
Compiled ==
    pc # "unwind" => \A i \in 1 .. Len(states) : HasSchema(i) =>
        /\ Imported(i) \in Seq(Nat) /\ Len(Imported(i)) = Len(StatementsOf(i))
        /\ \A m \in 1 .. Len(Imported(i)) : Serves(i, m, Imported(i)[m])

Distinct ==
    ~stale => \A i, j \in 1 .. Len(states) : states[i].path = states[j].path => i = j

IInv ==
    /\ Types /\ Depths /\ Running /\ Closed
    /\ Served /\ Waiting /\ Control /\ Compiled /\ Distinct

-----------------------------------------------------------------------------
LEMMA FrontLast ==
    ASSUME NEW S, NEW s \in Seq(S), s # <<>>
    PROVE  /\ Len(s) \in Nat /\ Len(s) >= 1 /\ Last(s) = s[Len(s)] /\ Last(s) \in S
           /\ Front(s) \in Seq(S) /\ Len(Front(s)) = Len(s) - 1
           /\ \A i \in 1 .. Len(s) - 1 : Front(s)[i] = s[i]
<1>1. Len(s) \in Nat /\ Len(s) >= 1 /\ \A i \in 1 .. Len(s) : s[i] \in S
  BY EmptySeq, LenProperties
<1> DEFINE n == Len(s) - 1
<1>2. /\ SubSeq(s, 1, n) \in Seq(S)
      /\ Len(SubSeq(s, 1, n)) = IF 1 <= n THEN n - 1 + 1 ELSE 0
      /\ \A i \in 1 .. n - 1 + 1 : SubSeq(s, 1, n)[i] = s[1 + i - 1]
  <2>1. 1 \in Int /\ n \in Int /\ \A i \in 1 .. n : s[i] \in S
    BY <1>1
  <2> HIDE DEF n
  <2> QED
    BY <2>1, SubSeqProperties
<1>3. n - 1 + 1 = n /\ n >= 0 /\ \A i \in 1 .. n : 1 + i - 1 = i
  BY <1>1
<1>4. Len(SubSeq(s, 1, n)) = n /\ \A i \in 1 .. n : SubSeq(s, 1, n)[i] = s[i]
  BY <1>2, <1>3
<1> QED
  BY <1>1, <1>2, <1>4 DEF Front, Last

LEMMA StateType ==
    ASSUME Types, NEW i \in 1 .. Len(states)
    PROVE  /\ states[i] \in FileStates /\ states[i].path \in Path
           /\ StatementsOf(i) \in Seq(Path) /\ Len(StatementsOf(i)) \in Nat
<1>1. states[i] \in FileStates
  BY ElementOfSeq DEF Types
<1>2. states[i].path \in Path
  BY <1>1 DEF FileStates
<1>3. StatementsOf(i) \in Seq(Path)
  BY <1>2 DEF Types, StatementsOf
<1> QED
  BY <1>1, <1>2, <1>3, LenProperties

LEMMA FrameType ==
    ASSUME Types, Running, NEW k \in 1 .. Len(stack)
    PROVE  /\ stack[k] \in Frames /\ stack[k].got \in Seq(Nat) /\ Len(stack[k].got) \in Nat
           /\ stack[k].fs \in 1 .. Len(states)
<1>1. stack[k] \in Frames
  BY ElementOfSeq DEF Types
<1>2. stack[k].got \in Seq(Nat)
  BY <1>1 DEF Frames
<1> QED
  BY <1>1, <1>2, LenProperties DEF Running

LEMMA TopFrame ==
    ASSUME Types, Running, stack # <<>>
    PROVE  /\ Len(stack) \in Nat /\ Len(stack) >= 1 /\ Len(stack) \in 1 .. Len(stack)
           /\ Top = stack[Len(stack)] /\ Top \in Frames /\ Top.got \in Seq(Nat)
           /\ Len(Top.got) \in Nat /\ At(Len(stack)) = Len(Top.got) + 1
           /\ Top.fs \in 1 .. Len(states)
           /\ Statements = StatementsOf(Top.fs) /\ Len(Statements) \in Nat
<1>1. Len(stack) \in Nat /\ Len(stack) >= 1 /\ Top = stack[Len(stack)]
  BY FrontLast DEF Types, Top
<1>2. Len(stack) \in 1 .. Len(stack)
  BY <1>1
<1>3. Top \in Frames /\ Top.got \in Seq(Nat) /\ Len(Top.got) \in Nat /\ Top.fs \in 1 .. Len(states)
  BY <1>1, <1>2, FrameType
<1>4. Statements = StatementsOf(Top.fs) /\ Len(Statements) \in Nat
  BY <1>3, StateType DEF Statements, StatementsOf
<1>5. At(Len(stack)) = Len(Top.got) + 1
  BY <1>1, <1>3 DEF At
<1> QED
  BY <1>1, <1>2, <1>3, <1>4, <1>5

LEMMA InitInv == Init => IInv
<1> SUFFICES ASSUME Init PROVE IInv
  OBVIOUS
<1>1. imports \in [Path -> Seq(Path)]
  <2>1. ASSUME NEW k, NEW l \in [1 .. k -> Path], k \in 0 .. MaxImports PROVE l \in Seq(Path)
    BY <2>1
  <2>2. ImportLists \subseteq Seq(Path)
    BY <2>1 DEF ImportLists
  <2>3. imports \in [Path -> ImportLists]
    BY DEF Init
  <2> QED
    BY <2>2, <2>3
<1>2. NewFileState(Root, TRUE) \in FileStates /\ NewFileState(Root, FALSE) \in FileStates
  BY DEF NewFileState, FileStates
<1>3. CASE pc = "open" /\ depth = 1 /\ stack = <<>> /\ states = <<>>
  <2>1. states \in Seq(FileStates) /\ stack \in Seq(Frames) /\ Len(states) = 0 /\ Len(stack) = 0
    BY <1>3
  <2>2. Types
    BY <1>1, <1>3, <2>1 DEF Init, Types
  <2> QED
    BY <1>3, <2>1, <2>2 DEF Init, IInv, Depths, Running, Closed, Served, Waiting, Control, Compiled, Distinct
<1>4. CASE /\ pc = "parse" /\ depth = 0
           /\ stack = <<[fs |-> 1, got |-> <<>>]>>
           /\ \E named \in BOOLEAN : states = <<NewFileState(Root, named)>>
  <2>1. PICK named \in BOOLEAN : states = <<NewFileState(Root, named)>>
    BY <1>4
  <2>2. Len(states) = 1 /\ states[1].path = Root /\ states[1].is_open /\ states[1].ss = NULL
    BY <2>1 DEF NewFileState
  <2>3. Len(stack) = 1 /\ stack[1].fs = 1 /\ Len(stack[1].got) = 0 /\ stack \in Seq(Frames)
    BY <1>4 DEF Frames
  <2>4. states \in Seq(FileStates)
    <3>1. NewFileState(Root, named) \in FileStates
      BY <1>2
    <3> QED
      BY <2>1, <3>1
  <2>5. Types
    BY <1>1, <1>4, <2>3, <2>4 DEF Init, Types
  <2> QED
    BY <1>4, <2>2, <2>3, <2>5
       DEF Init, IInv, Depths, Running, Closed, Served, Waiting, Control, Compiled, Distinct, HasSchema
<1> QED
  BY <1>3, <1>4 DEF Init

-----------------------------------------------------------------------------
(* Steps that leave files and calls as they are *)

\* What was imported stays so, also when a name is lost.
LEMMA Unmoved ==
    ASSUME IInv, UNCHANGED <<imports, stack, states>>, stale => stale'
    PROVE  /\ Running' /\ Waiting' /\ Distinct'
           /\ \A i, m, j : Serves(i, m, j) => Serves(i, m, j)'
           /\ pc # "unwind" => Closed' /\ Served' /\ Compiled'
<1>1. Running' /\ Waiting' /\ Distinct'
  BY DEF IInv, Running, Waiting, Distinct, At, StatementsOf
<1>2. \A i, m, j : Serves(i, m, j) => Serves(i, m, j)'
  BY DEF Serves, HasSchema, StatementsOf
<1>3. pc # "unwind" => Closed'
  BY DEF IInv, Closed, HasSchema
<1>4. ASSUME pc # "unwind" PROVE Served'
  <2> SUFFICES ASSUME NEW k \in 1 .. Len(stack), NEW m \in 1 .. Len(stack[k].got)
               PROVE  Serves(stack[k].fs, m, stack[k].got[m])'
    BY DEF Served
  <2>1. Serves(stack[k].fs, m, stack[k].got[m])
    BY <1>4 DEF IInv, Served
  <2>2. \A i, j : Serves(i, m, j) => Serves(i, m, j)'
    BY <1>2
  <2> QED
    BY <2>1, <2>2 DEF Serves, HasSchema, StatementsOf
<1>5. ASSUME pc # "unwind" PROVE Compiled'
  BY <1>5 DEF IInv, Compiled, Serves, HasSchema, StatementsOf, Imported
<1> QED
  BY <1>1, <1>2, <1>3, <1>4, <1>5

LEMMA KnownFileInv == ASSUME IInv, KnownFile PROVE IInv'
<1>1. PICK i \in DOMAIN states :
         /\ StopsAt(i) /\ Compared(i)
         /\ \/ /\ states[i].is_open
               /\ circular' = TRUE /\ pc' = "unwind" /\ UNCHANGED ret
            \/ /\ ~states[i].is_open
               /\ ret' = i
               /\ pc' = IF HasSchema(i) THEN "return" ELSE "unwind"
               /\ UNCHANGED circular
  BY DEF KnownFile
<1>2. i \in 1 .. Len(states) /\ states[i] \in FileStates
  BY LenProperties DEF IInv, Types
<1>3. UNCHANGED <<imports, stack, states, want>> /\ depth' = depth - 1 /\ pc = "open" /\ depth # MAX_DEPTH
  BY DEF KnownFile
<1>4. (stale => stale') /\ stale' \in BOOLEAN
  BY <1>1 DEF Compared, IInv, Types
<1>5. /\ Running' /\ Waiting' /\ Distinct' /\ Closed' /\ Served' /\ Compiled'
  BY <1>3, <1>4, Unmoved
<1>6. Types'
  <2>1. i \in Nat
    BY <1>2, LenProperties DEF IInv, Types
  <2>2. ret' \in Nat /\ circular' \in BOOLEAN /\ pc' \in {"return", "unwind"}
    BY <1>1, <2>1 DEF IInv, Types
  <2> QED
    BY <1>3, <1>4, <2>2 DEF IInv, Types
<1>7. Depths'
  BY <1>1, <1>3 DEF IInv, Depths
<1>8. Control'
  <2>1. ~stale' => states[i].path = want
    <3>1. ~stale' => states[i].readable
      <4>1. i \in 1 .. i
        BY <1>2
      <4> QED
        BY <1>1, <4>1, Zenon DEF Compared
    <3> QED
      BY <1>1, <3>1, Zenon DEF StopsAt, MaybeSame
  <2>2. stack # <<>> => /\ At(Len(stack)) <= Len(StatementsOf(Top.fs))
                        /\ want = StatementsOf(Top.fs)[At(Len(stack))]
    BY <1>3 DEF IInv, Control
  <2>3. stack # <<>> => At(Len(stack)) \in 1 .. Len(StatementsOf(Top.fs))
    <3> SUFFICES ASSUME stack # <<>> PROVE At(Len(stack)) \in 1 .. Len(StatementsOf(Top.fs))
      OBVIOUS
    <3>1. At(Len(stack)) = Len(Top.got) + 1 /\ Len(Top.got) \in Nat /\ Len(StatementsOf(Top.fs)) \in Nat
      BY TopFrame DEF IInv
    <3> QED
      BY <2>2, <3>1
  <2>4. pc' = "return" =>
            /\ ret' \in 1 .. Len(states') /\ HasSchema(ret)'
            /\ stack' # <<>> => Serves(Top.fs, At(Len(stack)), ret)'
    BY <1>1, <1>2, <1>3, <2>1, <2>2, <2>3 DEF Serves, HasSchema, StatementsOf, At, Top
  <2> QED
    BY <1>1, <1>3, <2>4 DEF IInv, Control
<1> QED
  BY <1>5, <1>6, <1>7, <1>8 DEF IInv

LEMMA NoFileInv == ASSUME IInv, NoFile PROVE IInv'
<1>1. /\ pc = "open" /\ pc' = "unwind" /\ depth' = depth - 1
      /\ UNCHANGED <<imports, want, ret, stack, states, circular, stale>>
  BY DEF NoFile
<1>2. Running' /\ Waiting' /\ Distinct' /\ Closed' /\ Served' /\ Compiled'
  BY <1>1, Unmoved
<1>3. Types' /\ Depths' /\ Control'
  BY <1>1 DEF IInv, Types, Depths, Control
<1> QED
  BY <1>2, <1>3 DEF IInv

LEMMA ImportInv == ASSUME IInv, Import PROVE IInv'
<1>1. /\ pc = "parse" /\ Len(Top.got) < Len(Statements)
      /\ want' = Statements[Len(Top.got) + 1]
      /\ pc' = "open" /\ depth' = depth + 1
      /\ UNCHANGED <<imports, ret, stack, states, circular, stale>>
  BY DEF Import
<1>2. stack # <<>>
  BY <1>1 DEF IInv, Control
<1>3. /\ Top.fs \in 1 .. Len(states) /\ Len(Top.got) \in Nat /\ At(Len(stack)) = Len(Top.got) + 1
      /\ Statements = StatementsOf(Top.fs) /\ Len(Statements) \in Nat
  BY <1>2, TopFrame DEF IInv
<1>4. Running' /\ Waiting' /\ Distinct' /\ Closed' /\ Served' /\ Compiled'
  BY <1>1, Unmoved
<1>5. want' \in Path
  <2>1. Statements \in Seq(Path) /\ Len(Top.got) + 1 \in 1 .. Len(Statements)
    BY <1>1, <1>3, StateType DEF IInv
  <2> QED
    BY <1>1, <2>1, ElementOfSeq
<1>6. Types'
  BY <1>1, <1>5 DEF IInv, Types
<1>7. Depths'
  BY <1>1 DEF IInv, Depths
<1>8. Control'
  <2>1. /\ At(Len(stack)) <= Len(StatementsOf(Top.fs))
        /\ want' = StatementsOf(Top.fs)[At(Len(stack))]
    BY <1>1, <1>3
  <2>2. /\ At(Len(stack))' <= Len(StatementsOf(Top.fs))'
        /\ want' = StatementsOf(Top.fs)'[At(Len(stack))']
    BY <1>1, <2>1 DEF At, StatementsOf, Top
  <2> QED
    BY <1>1, <1>2, <2>2 DEF IInv, Control
<1> QED
  BY <1>4, <1>6, <1>7, <1>8 DEF IInv

-----------------------------------------------------------------------------
(* A new file *)

\* PushFile, on the files and the calls
Opened(f, named) ==
    /\ UNCHANGED imports
    /\ states' = Append(states, NewFileState(f, named))
    /\ stack' = Append(stack, [fs |-> Len(states) + 1, got |-> <<>>])

LEMMA OpenedFacts ==
    ASSUME Types, NEW f \in Path, NEW named \in BOOLEAN, Opened(f, named)
    PROVE  /\ Len(states) \in Nat /\ Len(states') = Len(states) + 1 /\ states' \in Seq(FileStates)
           /\ \A i \in 1 .. Len(states) : states'[i] = states[i]
           /\ states'[Len(states) + 1] = NewFileState(f, named)
           /\ states'[Len(states) + 1].path = f /\ states'[Len(states) + 1].is_open
           /\ states'[Len(states) + 1].ss = NULL
           /\ Len(stack) \in Nat /\ Len(stack') = Len(stack) + 1 /\ stack' \in Seq(Frames)
           /\ \A k \in 1 .. Len(stack) : stack'[k] = stack[k]
           /\ stack'[Len(stack) + 1].fs = Len(states) + 1
           /\ stack'[Len(stack) + 1].got = <<>> /\ Len(stack'[Len(stack) + 1].got) = 0
           /\ stack' # <<>> /\ states' # <<>>
<1> DEFINE new == NewFileState(f, named)
<1> DEFINE fr == [fs |-> Len(states) + 1, got |-> <<>>]
<1>1. new \in FileStates /\ new.path = f /\ new.is_open /\ new.ss = NULL
  BY DEF NewFileState, FileStates
<1>2. states \in Seq(FileStates) /\ stack \in Seq(Frames)
  BY DEF Types
<1>3. Len(states) \in Nat
  BY <1>2, LenProperties
<1>4. fr \in Frames /\ fr.fs = Len(states) + 1 /\ fr.got = <<>> /\ Len(fr.got) = 0
  BY <1>3 DEF Frames
<1>5. states' = Append(states, new) /\ stack' = Append(stack, fr)
  BY DEF Opened
<1> HIDE DEF new, fr
<1>6. /\ states' \in Seq(FileStates) /\ Len(states') = Len(states) + 1
      /\ \A i \in 1 .. Len(states) : states'[i] = states[i]
      /\ states'[Len(states) + 1] = new /\ states' # <<>>
  BY <1>1, <1>2, <1>5, AppendProperties
<1>7. /\ stack' \in Seq(Frames) /\ Len(stack') = Len(stack) + 1
      /\ \A i \in 1 .. Len(stack) : stack'[i] = stack[i]
      /\ stack'[Len(stack) + 1] = fr /\ stack' # <<>>
  BY <1>2, <1>4, <1>5, AppendProperties
<1>8. Len(stack) \in Nat
  BY <1>2, LenProperties
<1> QED
  BY <1>1, <1>3, <1>4, <1>6, <1>7, <1>8 DEF new

LEMMA NewFileInv == ASSUME IInv, NewFile PROVE IInv'
<1>1. /\ pc = "open" /\ depth # MAX_DEPTH
      /\ StopsNowhere /\ Compared(Len(states))
      /\ PushFile(want)
      /\ UNCHANGED <<imports, want, ret, depth, circular>>
  BY DEF NewFile
<1>2. PICK named \in BOOLEAN : Opened(want, named)
  BY <1>1 DEF PushFile, Opened
<1>3. pc' = "parse"
  BY <1>1 DEF PushFile
<1>l. PICK l \in Nat : l = Len(states)
  BY LenProperties DEF IInv, Types
<1>k. PICK k0 \in Nat : k0 = Len(stack)
  BY LenProperties DEF IInv, Types
<1>4. /\ l \in Nat /\ Len(states') = l + 1 /\ states' \in Seq(FileStates)
      /\ \A i \in 1 .. l : states'[i] = states[i]
      /\ states'[l + 1].path = want /\ states'[l + 1].is_open
      /\ states'[l + 1].ss = NULL
      /\ k0 \in Nat /\ Len(stack') = k0 + 1 /\ stack' \in Seq(Frames)
      /\ \A k \in 1 .. k0 : stack'[k] = stack[k]
      /\ stack'[k0 + 1].fs = l + 1
      /\ stack'[k0 + 1].got = <<>> /\ Len(stack'[k0 + 1].got) = 0
      /\ stack' # <<>> /\ states' # <<>>
  BY <1>2, <1>l, <1>k, OpenedFacts DEF IInv, Types
<1>5. /\ stale' \in BOOLEAN /\ (stale => stale')
      /\ ~stale' => \A i \in 1 .. l : states[i].readable
  BY <1>l, <1>1, Zenon DEF Compared, IInv, Types
<1>6. Types'
  BY <1>1, <1>3, <1>4, <1>5 DEF IInv, Types
<1>7. Depths'
  BY <1>1, <1>3 DEF IInv, Depths
<1>8. \A k \in 1 .. k0 : stack[k].fs \in 1 .. l /\ \A m \in 1 .. Len(stack[k].got) : stack[k].got[m] \in 1 .. l
  BY <1>l, <1>k DEF IInv, Running
<1>9. \A i \in 1 .. l : StatementsOf(i)' = StatementsOf(i) /\ HasSchema(i)' = HasSchema(i)
  BY <1>1, <1>4 DEF StatementsOf, HasSchema
<1>10. ASSUME NEW i \in 1 .. l, NEW m, NEW j, Serves(i, m, j)
       PROVE  Serves(i, m, j)'
  <2>1. j \in 1 .. l
    BY <1>10, <1>l DEF Serves
  <2> QED
    BY <1>4, <1>5, <1>9, <1>10, <2>1 DEF Serves
<1>11. Running'
  <2>1. ASSUME NEW k \in 1 .. k0 + 1
        PROVE  /\ stack'[k].fs \in 1 .. l + 1
               /\ \A m \in 1 .. Len(stack'[k].got) : stack'[k].got[m] \in 1 .. l + 1
    <3>1. CASE k = k0 + 1
      BY <1>4, <1>8, <3>1
    <3>2. CASE k \in 1 .. k0
      BY <1>4, <1>8, <3>2
    <3> QED
      BY <1>8, <3>1, <3>2
  <2>2. ASSUME NEW j \in 1 .. k0 + 1, NEW k \in 1 .. k0 + 1, j < k
        PROVE  stack'[j].fs < stack'[k].fs
    <3>1. j \in 1 .. k0 /\ stack'[j].fs = stack[j].fs /\ stack[j].fs \in 1 .. l
      BY <1>4, <1>8, <2>2
    <3>2. CASE k = k0 + 1
      BY <1>4, <3>1, <3>2
    <3>3. CASE k \in 1 .. k0
      BY <1>4, <1>k, <2>2, <3>1, <3>3 DEF IInv, Running
    <3> QED
      BY <3>2, <3>3
  <2>3. \A i \in 1 .. l + 1 : states'[i].is_open <=> \E k \in 1 .. k0 + 1 : stack'[k].fs = i
    <3>1. ASSUME NEW i \in 1 .. l
          PROVE  states'[i].is_open <=> \E k \in 1 .. k0 + 1 : stack'[k].fs = i
      <4>1. states[i].is_open <=> \E k \in 1 .. k0 : stack[k].fs = i
        BY <1>l, <1>k DEF IInv, Running
      <4>2. (\E k \in 1 .. k0 : stack[k].fs = i) <=> \E k \in 1 .. k0 + 1 : stack'[k].fs = i
        BY <1>4
      <4> QED
        BY <1>4, <4>1, <4>2
    <3>2. k0 + 1 \in 1 .. k0 + 1
      BY <1>4
    <3> QED
      BY <1>4, <3>1, <3>2
  <2> QED
    BY <1>4, <2>1, <2>2, <2>3 DEF Running
<1>12. Closed'
  <2>1. \A i \in 1 .. l : HasSchema(i) <=> ~states[i].is_open
    BY <1>1, <1>l DEF IInv, Closed
  <2>2. \A i \in 1 .. l : HasSchema(i)' <=> ~states'[i].is_open
    BY <1>4, <1>9, <2>1
  <2>3. HasSchema(l + 1)' <=> ~states'[l + 1].is_open
    BY <1>4 DEF HasSchema
  <2> QED
    BY <1>4, <2>2, <2>3 DEF Closed, HasSchema
<1>13. Served'
  <2> SUFFICES ASSUME NEW k \in 1 .. k0 + 1, NEW m \in 1 .. Len(stack'[k].got)
               PROVE  Serves(stack[k].fs, m, stack[k].got[m])'
    BY <1>4 DEF Served
  <2>1. k \in 1 .. k0
    BY <1>4
  <2>2. Serves(stack[k].fs, m, stack[k].got[m])
    BY <1>1, <1>4, <2>1, <1>k DEF IInv, Served
  <2> QED
    BY <1>4, <1>8, <1>10, <2>1, <2>2
<1>14. Waiting'
  <2>1. ASSUME NEW k \in 1 .. k0
        PROVE  /\ At(k)' <= Len(StatementsOf(stack[k].fs))'
               /\ states'[stack'[k + 1].fs].path = StatementsOf(stack[k].fs)'[At(k)']
    <3>1. At(k)' = At(k) /\ StatementsOf(stack[k].fs)' = StatementsOf(stack[k].fs)
      BY <1>4, <1>8, <1>9 DEF At, StatementsOf
    <3>2. CASE k < k0
      <4>1. k \in 1 .. Len(stack) - 1 /\ k + 1 \in 1 .. k0
        BY <1>4, <3>2, <1>k
      <4>2. states'[stack'[k + 1].fs] = states[stack[k + 1].fs]
        BY <1>4, <1>8, <4>1
      <4> QED
        BY <3>1, <4>1, <4>2 DEF IInv, Waiting
    <3>3. CASE k = k0
      <4>1. stack # <<>>
        BY <3>3, <1>4, EmptySeq, <1>k
      <4>2. Top = stack[k0]
        BY <4>1, TopFrame, <1>k DEF IInv
      <4>3. /\ At(k0) <= Len(StatementsOf(stack[k0].fs))
            /\ want = StatementsOf(stack[k0].fs)[At(k0)]
        BY <1>1, <4>1, <4>2, <1>k DEF IInv, Control
      <4> QED
        BY <1>4, <3>1, <3>3, <4>3
    <3> QED
      BY <3>2, <3>3, <1>4
  <2> QED
    BY <1>4, <2>1 DEF Waiting
<1>15. Control'
  <2>1. states'[1].path = Root /\ states'[stack'[1].fs].path = Root
    <3>1. CASE stack = <<>>
      <4>1. want = Root /\ l = 0 /\ k0 = 0
        BY <1>1, <3>1, <1>l, <1>k DEF IInv, Control
      <4> QED
        BY <1>4, <4>1
    <3>2. CASE stack # <<>>
      <4>1. k0 >= 1 /\ 1 \in 1 .. k0 /\ stack[1].fs \in 1 .. l
        BY <1>8, <3>2, TopFrame, <1>k DEF IInv
      <4>2. states # <<>> /\ 1 \in 1 .. l
        BY <1>4, <4>1, <1>l
      <4> QED
        BY <1>4, <3>2, <4>1, <4>2 DEF IInv, Control
    <3> QED
      BY <3>1, <3>2
  <2> QED
    BY <1>3, <1>4, <2>1 DEF Control
<1>16. Compiled'
  <2> SUFFICES ASSUME NEW i \in 1 .. l + 1, HasSchema(i)'
               PROVE  /\ Imported(i)' \in Seq(Nat) /\ Len(Imported(i)') = Len(StatementsOf(i)')
                      /\ \A m \in 1 .. Len(Imported(i)') : Serves(i, m, Imported(i)[m])'
    BY <1>4 DEF Compiled
  <2>1. i \in 1 .. l /\ HasSchema(i)
    BY <1>4, <1>9 DEF HasSchema
  <2>2. Imported(i)' = Imported(i)
    BY <1>4, <2>1 DEF Imported
  <2>3. /\ Imported(i) \in Seq(Nat) /\ Len(Imported(i)) = Len(StatementsOf(i))
        /\ \A m \in 1 .. Len(Imported(i)) : Serves(i, m, Imported(i)[m])
    BY <1>1, <2>1, <1>l DEF IInv, Compiled
  <2>4. ASSUME NEW m \in 1 .. Len(Imported(i))
        PROVE  Serves(i, m, Imported(i)[m])'
    <3>1. PICK j : j = Imported(i)[m]
      OBVIOUS
    <3>2. Serves(i, m, j)'
      BY <1>10, <2>1, <2>3, <3>1
    <3> QED
      BY <2>2, <3>1, <3>2
  <2> QED
    BY <1>9, <2>1, <2>2, <2>3, <2>4
<1>17. Distinct'
  <2> SUFFICES ASSUME ~stale', NEW i \in 1 .. l + 1, NEW j \in 1 .. l + 1, states'[i].path = states'[j].path
               PROVE  i = j
    BY <1>4 DEF Distinct
  <2>1. \A h \in 1 .. l : states[h].path # want
    <3> SUFFICES ASSUME NEW h \in 1 .. l PROVE states[h].path # want
      OBVIOUS
    <3>1. h \in DOMAIN states
      BY LenProperties, <1>l DEF IInv, Types
    <3> QED
      BY <1>1, <1>5, <3>1, Zenon DEF StopsNowhere, Same
  <2>2. ~stale
    BY <1>5
  <2>3. \A g, h \in 1 .. l : states[g].path = states[h].path => g = h
    BY <2>2, <1>l DEF IInv, Distinct
  <2>4. CASE i \in 1 .. l /\ j \in 1 .. l
    BY <1>4, <2>3, <2>4
  <2>5. CASE i = l + 1 \/ j = l + 1
    BY <1>4, <2>1, <2>5
  <2> QED
    BY <2>4, <2>5
<1> QED
  BY <1>6, <1>7, <1>11, <1>12, <1>13, <1>14, <1>15, <1>16, <1>17 DEF IInv

-----------------------------------------------------------------------------
(* A file is handed to the call that imports it *)

LEMMA ReturnInv == ASSUME IInv, Return PROVE IInv'
<1>1. /\ pc = "return"
      /\ UNCHANGED <<imports, want, ret, depth, states, circular, stale>>
  BY DEF Return
<1>2. Types /\ Running /\ Closed /\ Served /\ Waiting /\ Compiled /\ Distinct
  BY DEF IInv
<1>3. ret \in 1 .. Len(states) /\ HasSchema(ret)
  BY <1>1 DEF IInv, Control
<1>4. CASE stack = <<>>
  <2>1. pc' = "ok" /\ UNCHANGED stack
    BY <1>4 DEF Return
  <2>2. Running' /\ Waiting' /\ Distinct' /\ Closed' /\ Served' /\ Compiled'
    BY <1>1, <2>1, Unmoved
  <2>3. states # <<>>
    BY <1>3
  <2>4. Types' /\ Depths' /\ Control'
    BY <1>1, <1>4, <2>1, <2>3 DEF IInv, Types, Depths, Control
  <2> QED
    BY <2>2, <2>4 DEF IInv
<1>5. CASE stack # <<>>
  <2>1. /\ pc' = "parse"
        /\ stack' = ReplaceAt(stack, Len(stack), [Top EXCEPT !.got = Append(@, ret)])
    BY <1>5 DEF Return
  <2>2. PICK k0 \in Nat : k0 = Len(stack)
    BY <1>5, <1>2, TopFrame
  <2>3. /\ k0 \in 1 .. k0 /\ Top = stack[k0] /\ Top \in Frames /\ Top.got \in Seq(Nat)
        /\ Len(Top.got) \in Nat /\ At(k0) = Len(Top.got) + 1
        /\ Top.fs \in 1 .. Len(states) /\ stack \in Seq(Frames)
    BY <1>2, <1>5, <2>2, TopFrame DEF Types
  <2> DEFINE new == [Top EXCEPT !.got = Append(@, ret)]
  <2>4. /\ new \in Frames /\ new.fs = stack[k0].fs
        /\ Len(new.got) = Len(stack[k0].got) + 1
        /\ \A m \in 1 .. Len(stack[k0].got) : new.got[m] = stack[k0].got[m]
        /\ new.got[Len(stack[k0].got) + 1] = ret
    <3>1. ret \in Nat
      BY <1>2 DEF Types
    <3>2. /\ Append(Top.got, ret) \in Seq(Nat) /\ Len(Append(Top.got, ret)) = Len(Top.got) + 1
          /\ \A m \in 1 .. Len(Top.got) : Append(Top.got, ret)[m] = Top.got[m]
          /\ Append(Top.got, ret)[Len(Top.got) + 1] = ret
      BY <2>3, <3>1, AppendProperties
    <3>3. new.got = Append(Top.got, ret) /\ new.fs = Top.fs /\ new \in Frames
      BY <2>3, <3>2 DEF Frames
    <3> QED
      BY <2>3, <3>2, <3>3
  <2> HIDE DEF new
  <2>5. /\ stack' \in Seq(Frames) /\ Len(stack') = k0 /\ stack'[k0] = new
        /\ \A k \in 1 .. k0 : k # k0 => stack'[k] = stack[k]
    <3>1. stack' = [stack EXCEPT ![k0] = new]
      BY <2>1, <2>2 DEF ReplaceAt, new
    <3>2. /\ [stack EXCEPT ![k0] = new] \in Seq(Frames)
          /\ Len([stack EXCEPT ![k0] = new]) = Len(stack)
          /\ \A k \in 1 .. Len(stack) : [stack EXCEPT ![k0] = new][k] = IF k = k0 THEN new ELSE stack[k]
      BY <2>2, <2>3, <2>4, ExceptSeq
    <3> QED
      BY <2>2, <2>3, <3>1, <3>2
  <2>6. \A k \in 1 .. k0 : stack'[k].fs = stack[k].fs
    BY <2>4, <2>5
  <2>7. \A i : StatementsOf(i)' = StatementsOf(i) /\ HasSchema(i)' = HasSchema(i) /\ Imported(i)' = Imported(i)
    BY <1>1 DEF StatementsOf, HasSchema, Imported
  <2>8. \A i, m, j : Serves(i, m, j) => Serves(i, m, j)'
    BY <1>1, <2>7 DEF Serves
  <2>9. Types'
    BY <1>1, <1>2, <2>1, <2>5 DEF Types
  <2>10. Depths'
    BY <1>1, <2>1 DEF IInv, Depths
  <2>11. Running'
    <3>1. ASSUME NEW k \in 1 .. k0, NEW m \in 1 .. Len(stack'[k].got)
          PROVE  stack'[k].got[m] \in 1 .. Len(states)
      <4>1. CASE k # k0
        BY <1>2, <2>2, <2>5, <4>1 DEF Running
      <4>2. CASE k = k0 /\ m \in 1 .. Len(stack[k0].got)
        BY <1>2, <2>2, <2>4, <2>5, <4>2 DEF Running
      <4>3. CASE k = k0 /\ m = Len(stack[k0].got) + 1
        BY <1>3, <2>4, <2>5, <4>3
      <4>4. Len(stack[k0].got) \in Nat
        BY <2>3
      <4> QED
        BY <2>4, <2>5, <4>1, <4>2, <4>3, <4>4
    <3>2. \A k \in 1 .. k0 : stack'[k].fs \in 1 .. Len(states)
      BY <1>2, <2>2, <2>6 DEF Running
    <3>3. \A j, k \in 1 .. k0 : j < k => stack'[j].fs < stack'[k].fs
      BY <1>2, <2>2, <2>6 DEF Running
    <3>4. \A i \in 1 .. Len(states) : states[i].is_open <=> \E k \in 1 .. k0 : stack'[k].fs = i
      BY <1>2, <2>2, <2>6 DEF Running
    <3> QED
      BY <1>1, <2>5, <3>1, <3>2, <3>3, <3>4 DEF Running
  <2>12. Closed'
    BY <1>1, <1>2, <2>7 DEF Closed
  <2>13. Served'
    <3> SUFFICES ASSUME NEW k \in 1 .. k0, NEW m \in 1 .. Len(stack'[k].got)
                 PROVE  Serves(stack[k].fs, m, stack[k].got[m])'
      BY <2>5 DEF Served
    <3>1. CASE k # k0
      BY <1>1, <1>2, <2>2, <2>5, <2>8, <3>1 DEF Served
    <3>2. CASE k = k0 /\ m \in 1 .. Len(stack[k0].got)
      BY <1>1, <1>2, <2>2, <2>4, <2>5, <2>8, <3>2 DEF Served
    <3>3. CASE k = k0 /\ m = Len(stack[k0].got) + 1
      <4>1. Serves(Top.fs, At(k0), ret)
        BY <1>1, <1>5, <2>2 DEF IInv, Control
      <4> QED
        BY <2>3, <2>4, <2>5, <2>8, <3>3, <4>1
    <3>4. Len(stack[k0].got) \in Nat
      BY <2>3
    <3> QED
      BY <2>4, <2>5, <3>1, <3>2, <3>3, <3>4
  <2>14. Waiting'
    <3>1. \A k \in 1 .. k0 - 1 : At(k)' = At(k)
      BY <2>5 DEF At
    <3> QED
      BY <1>1, <1>2, <2>2, <2>5, <2>6, <2>7, <3>1 DEF Waiting
  <2>15. Control'
    <3>1. stack' # <<>>
      BY <2>3, <2>5
    <3>2. stack'[1].fs = stack[1].fs
      BY <2>3, <2>6
    <3> QED
      BY <1>1, <1>5, <2>1, <3>1, <3>2 DEF IInv, Control
  <2>16. Compiled'
    <3>1. \A i \in 1 .. Len(states) : HasSchema(i) => 
             /\ Imported(i) \in Seq(Nat) /\ Len(Imported(i)) = Len(StatementsOf(i))
             /\ \A m \in 1 .. Len(Imported(i)) : Serves(i, m, Imported(i)[m])
      BY <1>1, <1>2 DEF Compiled
    <3> QED
      BY <1>1, <2>7, <2>8, <3>1 DEF Compiled
  <2>17. Distinct'
    BY <1>1, <1>2 DEF Distinct
  <2> QED
    BY <2>9, <2>10, <2>11, <2>12, <2>13, <2>14, <2>15, <2>16, <2>17 DEF IInv
<1> QED
  BY <1>4, <1>5

-----------------------------------------------------------------------------
(* The entry of a file is rewritten, and its call ends *)

\* Of all files only the one of the last call changes, and keeps its path.
Rewritten(e) ==
    /\ stack # <<>> /\ e \in FileStates /\ e.path = states[Top.fs].path
    /\ UNCHANGED imports
    /\ states' = [states EXCEPT ![Top.fs] = e]

LEMMA RewrittenFacts ==
    ASSUME Types, Running, NEW e, Rewritten(e)
    PROVE  /\ states' \in Seq(FileStates) /\ Len(states') = Len(states) /\ states'[Top.fs] = e
           /\ \A i \in 1 .. Len(states) : i # Top.fs => states'[i] = states[i]
           /\ \A i \in 1 .. Len(states) : states'[i].path = states[i].path
           /\ \A i \in 1 .. Len(states) : StatementsOf(i)' = StatementsOf(i)
<1>1. stack # <<>> /\ e \in FileStates /\ e.path = states[Top.fs].path
      /\ imports' = imports /\ states' = [states EXCEPT ![Top.fs] = e]
  BY DEF Rewritten
<1>2. Top.fs \in 1 .. Len(states) /\ states \in Seq(FileStates)
  BY <1>1, TopFrame DEF Types
<1>3. /\ states' \in Seq(FileStates) /\ Len(states') = Len(states)
      /\ \A i \in 1 .. Len(states) : states'[i] = IF i = Top.fs THEN e ELSE states[i]
  BY <1>1, <1>2, ExceptSeq
<1>4. \A i \in 1 .. Len(states) : states'[i].path = states[i].path
  BY <1>1, <1>3
<1> QED
  BY <1>1, <1>2, <1>3, <1>4 DEF StatementsOf

\* With its call the file is no longer open.
LEMMA CallEnds ==
    ASSUME IInv, NEW e, Rewritten(e), ~e.is_open, stack' = Front(stack)
    PROVE  /\ stack' \in Seq(Frames) /\ Len(stack') = Len(stack) - 1
           /\ \A k \in 1 .. Len(stack) - 1 : stack'[k] = stack[k] /\ stack[k].fs # Top.fs
           /\ \A i \in 1 .. Len(states) : states'[i].is_open <=> states[i].is_open /\ i # Top.fs
           /\ Running' /\ Waiting'
           /\ stack' # <<>> => states'[stack'[1].fs].path = Root
           /\ states'[1].path = Root
<1>1. Types /\ Running /\ Waiting /\ Control /\ stack # <<>>
  BY DEF IInv, Rewritten
<1>l. PICK l \in Nat : l = Len(states)
  BY <1>1, LenProperties DEF Types
<1>k. PICK k0 \in Nat : k0 = Len(stack) /\ k0 >= 1 /\ Top = stack[k0]
  BY <1>1, TopFrame
<1>2. /\ Len(states') = l /\ states'[Top.fs] = e
      /\ \A i \in 1 .. l : i # Top.fs => states'[i] = states[i]
      /\ \A i \in 1 .. l : states'[i].path = states[i].path
      /\ \A i \in 1 .. l : StatementsOf(i)' = StatementsOf(i)
  BY <1>1, <1>l, RewrittenFacts
<1>3. stack' \in Seq(Frames) /\ Len(stack') = k0 - 1 /\ \A k \in 1 .. k0 - 1 : stack'[k] = stack[k]
  BY <1>1, <1>k, FrontLast DEF Types
<1>4. \A k \in 1 .. k0 : stack[k].fs \in 1 .. l
  BY <1>1, <1>l, <1>k DEF Running
<1>5. \A k \in 1 .. k0 - 1 : stack[k].fs # Top.fs
  <2> SUFFICES ASSUME NEW k \in 1 .. k0 - 1 PROVE stack[k].fs # Top.fs
    OBVIOUS
  <2>1. k \in 1 .. k0 /\ k0 \in 1 .. k0 /\ k < k0
    BY <1>k
  <2>2. stack[k].fs < stack[k0].fs /\ stack[k].fs \in Nat /\ stack[k0].fs \in Nat
    BY <1>1, <1>k, <1>4, <2>1 DEF Running
  <2> QED
    BY <1>k, <2>2
<1>6. \A i \in 1 .. l : states'[i].is_open <=> states[i].is_open /\ i # Top.fs
  <2> SUFFICES ASSUME NEW i \in 1 .. l PROVE states'[i].is_open <=> states[i].is_open /\ i # Top.fs
    OBVIOUS
  <2>1. CASE i = Top.fs
    BY <1>2, <2>1
  <2>2. CASE i # Top.fs
    BY <1>2, <2>2
  <2> QED
    BY <2>1, <2>2
<1>7. Running'
  <2>0. \A k \in 1 .. k0 - 1 : stack'[k] = stack[k] /\ k \in 1 .. Len(stack)
    BY <1>1, <1>k, <1>3
  <2>1. \A k \in 1 .. k0 - 1 :
           /\ stack'[k].fs \in 1 .. l
           /\ \A m \in 1 .. Len(stack'[k].got) : stack'[k].got[m] \in 1 .. l
    BY <1>1, <1>l, <2>0 DEF Running
  <2>2. ASSUME NEW j \in 1 .. k0 - 1, NEW k \in 1 .. k0 - 1, j < k
        PROVE  stack'[j].fs < stack'[k].fs
    <3>1. stack[j].fs < stack[k].fs
      BY <1>1, <2>0, <2>2 DEF Running
    <3> QED
      BY <2>0, <3>1
  <2>3. ASSUME NEW i \in 1 .. l
        PROVE  states'[i].is_open <=> \E k \in 1 .. k0 - 1 : stack'[k].fs = i
    <3>1. states[i].is_open <=> \E k \in 1 .. k0 : stack[k].fs = i
      BY <1>1, <1>l, <1>k DEF Running
    <3>2. (i # Top.fs /\ \E k \in 1 .. k0 : stack[k].fs = i) <=> \E k \in 1 .. k0 - 1 : stack'[k].fs = i
      <4>1. ASSUME i # Top.fs, NEW k \in 1 .. k0, stack[k].fs = i
            PROVE  \E h \in 1 .. k0 - 1 : stack'[h].fs = i
        <5>1. k \in 1 .. k0 - 1
          BY <1>k, <4>1
        <5> QED
          BY <1>3, <4>1, <5>1
      <4>2. ASSUME NEW k \in 1 .. k0 - 1, stack'[k].fs = i
            PROVE  i # Top.fs /\ \E h \in 1 .. k0 : stack[h].fs = i
        <5>1. k \in 1 .. k0
          BY <1>k
        <5> QED
          BY <1>3, <1>5, <4>2, <5>1
      <4> QED
        BY <4>1, <4>2
    <3> QED
      BY <1>6, <3>1, <3>2
  <2> QED
    BY <1>2, <1>3, <2>1, <2>2, <2>3 DEF Running
<1>8. Waiting'
  <2> SUFFICES ASSUME NEW k \in 1 .. k0 - 1 - 1
               PROVE  /\ At(k)' <= Len(StatementsOf(stack[k].fs))'
                      /\ states'[stack'[k + 1].fs].path = StatementsOf(stack[k].fs)'[At(k)']
    BY <1>3 DEF Waiting
  <2>1. k \in 1 .. k0 - 1 /\ k + 1 \in 1 .. k0 - 1 /\ k \in 1 .. k0 /\ k + 1 \in 1 .. k0
    BY <1>k
  <2>2. At(k)' = At(k) /\ StatementsOf(stack[k].fs)' = StatementsOf(stack[k].fs)
    BY <1>2, <1>3, <1>4, <2>1 DEF At, StatementsOf
  <2>3. states'[stack'[k + 1].fs].path = states[stack[k + 1].fs].path
    BY <1>2, <1>3, <1>4, <2>1
  <2>4. /\ At(k) <= Len(StatementsOf(stack[k].fs))
        /\ states[stack[k + 1].fs].path = StatementsOf(stack[k].fs)[At(k)]
    BY <1>1, <1>k, <2>1 DEF Waiting
  <2> QED
    BY <2>2, <2>3, <2>4
<1>9. stack' # <<>> => states'[stack'[1].fs].path = Root
  <2> SUFFICES ASSUME stack' # <<>> PROVE states'[stack'[1].fs].path = Root
    OBVIOUS
  <2>1. Len(stack') # 0
    BY <1>3, EmptySeq
  <2>2. 1 \in 1 .. k0 - 1 /\ 1 \in 1 .. k0
    BY <1>3, <2>1
  <2> QED
    BY <1>1, <1>2, <1>3, <1>4, <2>2 DEF Control
<1>10. states'[1].path = Root
  <2>1. states # <<>> /\ 1 \in 1 .. l
    BY <1>4, <1>l, <1>k
  <2> QED
    BY <1>1, <1>2, <2>1 DEF Control
<1> QED
  BY <1>l, <1>k, <1>3, <1>5, <1>6, <1>7, <1>8, <1>9, <1>10

LEMMA UnwindInv == ASSUME IInv, Unwind PROVE IInv'
<1>1. pc = "unwind" /\ UNCHANGED <<imports, want, ret, circular, stale>>
  BY DEF Unwind
<1>2. CASE stack = <<>>
  <2>1. pc' = "failed" /\ states' = <<>> /\ UNCHANGED <<stack, depth>>
    BY <1>2 DEF Unwind
  <2>2. states' \in Seq(FileStates) /\ Len(states') = 0 /\ Len(stack') = 0
    BY <1>2, <2>1
  <2>3. Types' /\ Depths'
    BY <1>1, <2>1, <2>2 DEF IInv, Types, Depths
  <2>4. Running' /\ Closed' /\ Served' /\ Waiting' /\ Control' /\ Compiled' /\ Distinct'
    BY <1>2, <2>1, <2>2 DEF Running, Closed, Served, Waiting, Control, Compiled, Distinct
  <2> QED
    BY <2>3, <2>4 DEF IInv
<1>3. CASE stack # <<>>
  <2> DEFINE e == Abandoned(Top.fs)
  <2>1. /\ states' = [states EXCEPT ![Top.fs] = e]
        /\ stack' = Front(stack) /\ pc' = pc
        /\ depth' = IF depth = 0 THEN 0 ELSE depth - 1
    BY <1>3 DEF Unwind
  <2>2. e \in FileStates /\ ~e.is_open /\ e.path = states[Top.fs].path
    <3>1. states[Top.fs] \in FileStates
      BY <1>3, TopFrame, StateType DEF IInv
    <3>2. (states[Top.fs].readable /\ HasSchema(Top.fs)) \in BOOLEAN
      OBVIOUS
    <3> QED
      BY <3>1, <3>2, Zenon DEF FileStates, Abandoned
  <2> HIDE DEF e
  <2>3. Rewritten(e)
    BY <1>1, <1>3, <2>1, <2>2 DEF Rewritten
  <2>4. states' \in Seq(FileStates) /\ Len(states') = Len(states)
        /\ \A i \in 1 .. Len(states) : states'[i].path = states[i].path
    BY <2>3, RewrittenFacts DEF IInv
  <2>5. /\ stack' \in Seq(Frames) /\ Running' /\ Waiting'
        /\ stack' # <<>> => states'[stack'[1].fs].path = Root
        /\ states'[1].path = Root
    BY <2>1, <2>2, <2>3, CallEnds
  <2>6. Types'
    BY <1>1, <2>1, <2>4, <2>5 DEF IInv, Types
  <2>7. Depths'
    BY <1>1, <2>1 DEF IInv, Depths
  <2>8. Closed' /\ Served' /\ Compiled' /\ Control'
    BY <1>1, <2>1, <2>5 DEF Closed, Served, Compiled, Control
  <2>9. Distinct'
    BY <1>1, <2>4 DEF IInv, Distinct
  <2> QED
    BY <2>5, <2>6, <2>7, <2>8, <2>9 DEF IInv
<1> QED
  BY <1>2, <1>3

LEMMA BadFileInv == ASSUME IInv, BadFile PROVE IInv'
<1>1. /\ pc = "parse" /\ pc' = "unwind"
      /\ UNCHANGED <<imports, want, ret, depth, stack, circular, stale>>
  BY DEF BadFile
<1>2. stack # <<>> /\ Types /\ Running
  BY <1>1 DEF IInv, Control
<1>3. CASE states' = states
  <2>1. Running' /\ Waiting' /\ Distinct' /\ Closed' /\ Served' /\ Compiled'
    BY <1>1, <1>3, Unmoved
  <2>2. Types' /\ Depths' /\ Control'
    BY <1>1, <1>3 DEF IInv, Types, Depths, Control
  <2> QED
    BY <2>1, <2>2 DEF IInv
<1>4. CASE states' = [states EXCEPT ![Top.fs].ss = Schema(Top.got)]
  <2> DEFINE e == [states[Top.fs] EXCEPT !.ss = Schema(Top.got)]
  <2>1. Top.got \in Seq(Nat) /\ states[Top.fs] \in FileStates /\ Top.fs \in 1 .. Len(states)
    BY <1>2, TopFrame, StateType
  <2>2. e \in FileStates /\ e.path = states[Top.fs].path /\ e.is_open = states[Top.fs].is_open
    BY <2>1 DEF FileStates
  <2>3. states' = [states EXCEPT ![Top.fs] = e]
    BY <1>4
  <2> HIDE DEF e
  <2>4. Rewritten(e)
    BY <1>1, <1>2, <2>2, <2>3 DEF Rewritten
  <2>5. PICK l \in Nat : l = Len(states)
    BY <1>2, LenProperties DEF Types
  <2>6. /\ states' \in Seq(FileStates) /\ Len(states') = l /\ states'[Top.fs] = e
        /\ \A i \in 1 .. l : i # Top.fs => states'[i] = states[i]
        /\ \A i \in 1 .. l : states'[i].path = states[i].path
        /\ \A i \in 1 .. l : StatementsOf(i)' = StatementsOf(i)
    BY <1>2, <2>4, <2>5, RewrittenFacts
  <2>7. \A i \in 1 .. l : states'[i].is_open = states[i].is_open
    BY <2>2, <2>6
  <2>8. \A k \in 1 .. Len(stack) : stack[k].fs \in 1 .. l
    BY <1>2, <2>5 DEF Running
  <2>9. Types' /\ Depths'
    BY <1>1, <2>6 DEF IInv, Types, Depths
  <2>10. Running'
    BY <1>1, <1>2, <2>5, <2>6, <2>7 DEF Running
  <2>11. Waiting'
    <3> SUFFICES ASSUME NEW k \in 1 .. Len(stack) - 1
                 PROVE  /\ At(k)' <= Len(StatementsOf(stack[k].fs)')
                        /\ states'[stack[k + 1].fs].path = StatementsOf(stack[k].fs)'[At(k)']
      BY <1>1 DEF Waiting
    <3>1. k \in 1 .. Len(stack) /\ k + 1 \in 1 .. Len(stack)
      BY <1>2, LenProperties DEF Types
    <3>2. At(k)' = At(k) /\ StatementsOf(stack[k].fs)' = StatementsOf(stack[k].fs)
      BY <1>1, <2>6, <2>8, <3>1 DEF At, StatementsOf
    <3>3. states'[stack[k + 1].fs].path = states[stack[k + 1].fs].path
      BY <2>6, <2>8, <3>1
    <3> QED
      BY <3>2, <3>3 DEF IInv, Waiting
  <2>12. Control'
    <3>1. 1 \in 1 .. l /\ stack[1].fs \in 1 .. l
      <4>1. 1 \in 1 .. Len(stack)
        BY <1>2, TopFrame
      <4> QED
        BY <2>5, <2>8, <4>1
    <3>2. states # <<>> /\ states'[1].path = Root /\ states'[stack'[1].fs].path = Root
      BY <1>1, <1>2, <2>5, <2>6, <3>1 DEF IInv, Control
    <3> QED
      BY <1>1, <3>2 DEF Control
  <2>13. Closed' /\ Served' /\ Compiled'
    BY <1>1 DEF Closed, Served, Compiled
  <2>14. Distinct'
    BY <1>1, <2>5, <2>6 DEF IInv, Distinct
  <2> QED
    BY <2>9, <2>10, <2>11, <2>12, <2>13, <2>14 DEF IInv
<1> QED
  BY <1>3, <1>4 DEF BadFile

LEMMA DefineInv == ASSUME IInv, Define PROVE IInv'
<1>1. /\ pc = "parse" /\ Len(Top.got) = Len(Statements)
      /\ ret' = Top.fs /\ pc' = "return"
      /\ stack' = Front(stack)
      /\ depth' = IF depth = 0 THEN 0 ELSE depth - 1
      /\ UNCHANGED <<imports, want, circular, stale>>
  BY DEF Define
<1>2. PICK named \in BOOLEAN :
         states' = [states EXCEPT ![Top.fs] =
             [@ EXCEPT !.ss = Schema(Top.got), !.readable = named, !.is_open = FALSE]]
  BY DEF Define
<1>3. stack # <<>> /\ Types /\ Running
  BY <1>1 DEF IInv, Control
<1>4. PICK t \in Nat : t = Top.fs
  BY <1>3, TopFrame
<1>l. PICK l \in Nat : l = Len(states)
  BY <1>3, LenProperties DEF Types
<1>k. PICK k0 \in Nat : k0 = Len(stack)
  BY <1>3, LenProperties DEF Types
<1>g. PICK got \in Seq(Nat) : got = Top.got
  BY <1>3, TopFrame
<1>5. /\ t \in 1 .. l /\ states[t] \in FileStates
      /\ k0 >= 1 /\ Top = stack[k0] /\ k0 \in 1 .. k0
      /\ Len(got) = Len(StatementsOf(t)) /\ Len(got) \in Nat
  BY <1>1, <1>3, <1>4, <1>l, <1>k, <1>g, TopFrame, StateType
<1> DEFINE e == [states[t] EXCEPT !.ss = Schema(got), !.readable = named, !.is_open = FALSE]
<1>6. e \in FileStates /\ e.path = states[t].path /\ e.is_open = FALSE /\ e.ss = Schema(got)
  BY <1>5 DEF FileStates
<1>7. states' = [states EXCEPT ![Top.fs] = e]
  BY <1>2, <1>4, <1>g
<1> HIDE DEF e
<1>8. Rewritten(e)
  BY <1>1, <1>3, <1>4, <1>6, <1>7 DEF Rewritten
<1>9. /\ states' \in Seq(FileStates) /\ Len(states') = l /\ states'[t] = e
      /\ \A i \in 1 .. l : i # t => states'[i] = states[i]
      /\ \A i \in 1 .. l : states'[i].path = states[i].path
      /\ \A i \in 1 .. l : StatementsOf(i)' = StatementsOf(i)
  BY <1>3, <1>4, <1>l, <1>8, RewrittenFacts
<1>10. /\ stack' \in Seq(Frames) /\ Len(stack') = k0 - 1
       /\ \A k \in 1 .. k0 - 1 : stack'[k] = stack[k] /\ stack[k].fs # t
       /\ \A i \in 1 .. l : states'[i].is_open <=> states[i].is_open /\ i # t
       /\ Running' /\ Waiting'
       /\ stack' # <<>> => states'[stack'[1].fs].path = Root
       /\ states'[1].path = Root
  BY <1>1, <1>4, <1>l, <1>k, <1>6, <1>8, CallEnds
<1>11. Schema(got) # NULL /\ Schema(got)[2] = got
  BY DEF Schema, NULL
<1>12. /\ HasSchema(t)' /\ Imported(t)' = got
       /\ \A i \in 1 .. l : i # t => HasSchema(i)' = HasSchema(i) /\ Imported(i)' = Imported(i)
  BY <1>6, <1>9, <1>11 DEF HasSchema, Imported
<1>13. ASSUME NEW i \in 1 .. l, NEW m, NEW j, Serves(i, m, j)
       PROVE  Serves(i, m, j)'
  <2>1. j \in 1 .. l /\ HasSchema(j)
    BY <1>13, <1>l DEF Serves
  <2>2. HasSchema(j)'
    BY <1>12, <2>1
  <2> QED
    BY <1>1, <1>9, <1>13, <2>1, <2>2 DEF Serves
<1>14. Types'
  <2>1. ret' \in Nat
    BY <1>1, <1>4
  <2> QED
    BY <1>1, <1>9, <1>10, <2>1 DEF IInv, Types
<1>15. Depths'
  BY <1>1 DEF IInv, Depths
<1>16. Closed'
  <2> SUFFICES ASSUME NEW i \in 1 .. l PROVE HasSchema(i)' <=> ~states'[i].is_open
    BY <1>9 DEF Closed, HasSchema
  <2>1. CASE i = t
    BY <1>10, <1>12, <2>1
  <2>2. CASE i # t
    BY <1>1, <1>l, <1>10, <1>12, <2>2 DEF IInv, Closed
  <2> QED
    BY <2>1, <2>2
<1>17. Served'
  <2> SUFFICES ASSUME NEW k \in 1 .. k0 - 1, NEW m \in 1 .. Len(stack'[k].got)
               PROVE  Serves(stack[k].fs, m, stack[k].got[m])'
    BY <1>10 DEF Served
  <2>1. k \in 1 .. k0 /\ stack'[k] = stack[k] /\ stack[k].fs \in 1 .. l
    BY <1>3, <1>l, <1>k, <1>10 DEF Running
  <2>2. Serves(stack[k].fs, m, stack[k].got[m])
    BY <1>1, <1>k, <2>1 DEF IInv, Served
  <2> QED
    BY <1>13, <2>1, <2>2
<1>18. Control'
  <2>1. ASSUME stack' # <<>>
        PROVE  Serves(Top.fs, At(Len(stack)), ret)'
    <3>1. Len(stack') # 0
      BY <1>10, <2>1, EmptySeq
    <3>2. PICK k \in Nat : k = k0 - 1
      BY <1>5
    <3>3. k \in 1 .. k0 - 1 /\ k \in 1 .. k0 /\ k + 1 = k0
      BY <1>10, <3>1, <3>2
    <3>4. /\ At(k) <= Len(StatementsOf(stack[k].fs))
          /\ states[t].path = StatementsOf(stack[k].fs)[At(k)]
      BY <1>4, <1>5, <1>k, <3>3 DEF IInv, Waiting
    <3>5. stack[k].fs \in 1 .. l
      BY <1>3, <1>l, <1>k, <3>3 DEF Running
    <3>6. At(k) \in 1 .. Len(StatementsOf(stack[k].fs))
      BY <1>3, <1>l, <1>k, <3>3, <3>4, <3>5, FrameType, StateType DEF At
    <3>7. Top' = stack[k] /\ At(Len(stack))' = At(k)
      BY <1>10, <2>1, <3>2, <3>3, FrontLast DEF Top, Last, At
    <3>8. StatementsOf(Top.fs)' = StatementsOf(stack[k].fs)
      BY <1>9, <3>5, <3>7 DEF StatementsOf
    <3>9. HasSchema(ret)' /\ ret' \in 1 .. l /\ states'[ret'].path = states[t].path
      BY <1>1, <1>4, <1>5, <1>9, <1>12 DEF HasSchema
    <3> QED
      BY <1>9, <3>4, <3>6, <3>7, <3>8, <3>9 DEF Serves
  <2>2. ret' \in 1 .. l /\ HasSchema(ret)'
    BY <1>1, <1>4, <1>5, <1>12 DEF HasSchema
  <2> QED
    BY <1>1, <1>9, <1>10, <2>1, <2>2 DEF Control
<1>19. Compiled'
  <2> SUFFICES ASSUME NEW i \in 1 .. l, HasSchema(i)'
               PROVE  /\ Imported(i)' \in Seq(Nat) /\ Len(Imported(i)') = Len(StatementsOf(i)')
                      /\ \A m \in 1 .. Len(Imported(i)') : Serves(i, m, Imported(i)[m])'
    BY <1>9 DEF Compiled
  <2>1. CASE i = t
    <3>1. \A m \in 1 .. Len(got) : Serves(t, m, got[m])
      BY <1>1, <1>4, <1>5, <1>k, <1>g DEF IInv, Served
    <3>2. ASSUME NEW m \in 1 .. Len(got)
          PROVE  Serves(t, m, Imported(t)[m])'
      <4>1. PICK j : j = got[m]
        OBVIOUS
      <4>2. Serves(t, m, j)'
        BY <1>5, <1>13, <3>1, <4>1
      <4> QED
        BY <1>12, <4>1, <4>2
    <3> QED
      BY <1>5, <1>9, <1>12, <2>1, <3>2
  <2>2. CASE i # t
    <3>1. /\ Imported(i) \in Seq(Nat) /\ Len(Imported(i)) = Len(StatementsOf(i))
          /\ \A m \in 1 .. Len(Imported(i)) : Serves(i, m, Imported(i)[m])
      BY <1>1, <1>l, <1>12, <2>2 DEF IInv, Compiled
    <3>2. ASSUME NEW m \in 1 .. Len(Imported(i))
          PROVE  Serves(i, m, Imported(i)[m])'
      <4>1. PICK j : j = Imported(i)[m]
        OBVIOUS
      <4>2. Serves(i, m, j)'
        BY <1>13, <3>1, <4>1
      <4> QED
        BY <1>12, <2>2, <4>1, <4>2
    <3> QED
      BY <1>9, <1>12, <2>2, <3>1, <3>2
  <2> QED
    BY <2>1, <2>2
<1>20. Distinct'
  BY <1>1, <1>l, <1>9 DEF IInv, Distinct
<1> QED
  BY <1>10, <1>14, <1>15, <1>16, <1>17, <1>18, <1>19, <1>20 DEF IInv

-----------------------------------------------------------------------------
(* What holds at every moment of a compilation *)

LEMMA ImportsNext == ASSUME IInv, [Next]_vars PROVE IInv'
<1>1. CASE KnownFile
  BY <1>1, KnownFileInv
<1>2. CASE NewFile
  BY <1>2, NewFileInv
<1>3. CASE NoFile
  BY <1>3, NoFileInv
<1>4. CASE Import
  BY <1>4, ImportInv
<1>5. CASE Return
  BY <1>5, ReturnInv
<1>6. CASE Define
  BY <1>6, DefineInv
<1>7. CASE BadFile
  BY <1>7, BadFileInv
<1>8. CASE Unwind
  BY <1>8, UnwindInv
<1>9. CASE UNCHANGED vars
  <2>1. UNCHANGED <<imports, pc, want, ret, depth, stack, states, circular, stale>>
    BY <1>9 DEF vars
  <2>2. Running' /\ Waiting' /\ Distinct' /\ (pc # "unwind" => Closed' /\ Served' /\ Compiled')
    BY <2>1, Unmoved
  <2>3. pc = "unwind" => Closed' /\ Served' /\ Compiled'
    BY <2>1 DEF Closed, Served, Compiled
  <2>4. Types' /\ Depths'
    BY <2>1 DEF IInv, Types, Depths
  <2>5. Control'
    BY <2>1 DEF IInv, Control, Serves, At, Top, HasSchema, StatementsOf
  <2> QED
    BY <2>2, <2>3, <2>4, <2>5 DEF IInv
<1> QED
  BY <1>1, <1>2, <1>3, <1>4, <1>5, <1>6, <1>7, <1>8, <1>9 DEF Next

\* IInv holds at the start and every step of the compiler keeps it.
THEOREM ImportsInvariant == Spec => []IInv
BY InitInv, ImportsNext, PTL DEF Spec

LEMMA InSequence ==
    ASSUME NEW S, NEW s \in Seq(S)
    PROVE  /\ DOMAIN s = 1 .. Len(s)
           /\ \A x : x \in ToSet(s) <=> \E i \in 1 .. Len(s) : s[i] = x
<1>1. DOMAIN s = 1 .. Len(s)
  BY LenProperties
<1> QED
  BY <1>1 DEF ToSet

\* Indices into the table of files stay within it and the nesting within its
\* limit, in every call of the compiler (TypeOK).
THEOREM TypeCorrect == Spec => []TypeOK
<1>1. IInv => TypeOK
  <2> SUFFICES ASSUME IInv PROVE TypeOK
    OBVIOUS
  <2>1. Types /\ Depths /\ Running
    BY DEF IInv
  <2>2. states \in Seq(FileStates) /\ stack \in Seq(Frames) /\ DOMAIN states = 1 .. Len(states)
    BY <2>1, InSequence DEF Types
  <2>3. ASSUME NEW fr \in ToSet(stack)
        PROVE  fr.fs \in DOMAIN states /\ ToSet(fr.got) \subseteq DOMAIN states
    <3>1. PICK k \in 1 .. Len(stack) : stack[k] = fr
      BY <2>2, InSequence
    <3>2. fr.fs \in 1 .. Len(states) /\ fr.got \in Seq(Nat)
      BY <2>1, <3>1, FrameType
    <3>3. \A m \in 1 .. Len(fr.got) : fr.got[m] \in 1 .. Len(states)
      BY <2>1, <3>1 DEF Running
    <3> QED
      BY <2>2, <3>2, <3>3, InSequence
  <2>4. ASSUME NEW fs \in ToSet(states)
        PROVE  fs.path \in Path /\ fs.readable \in BOOLEAN /\ fs.is_open \in BOOLEAN
    <3>1. PICK i \in 1 .. Len(states) : states[i] = fs
      BY <2>2, InSequence
    <3>2. fs \in FileStates
      BY <2>1, <3>1, StateType
    <3> QED
      BY <3>2, Zenon DEF FileStates
  <2> QED
    BY <2>1, <2>3, <2>4, Zenon DEF TypeOK, Types, Depths
<1> QED
  BY <1>1, ImportsInvariant, PTL

\* The open files are those of the running calls, so that none is open when the
\* table is destroyed (OpenAreRunning, the assertion of dtor_FileState).
THEOREM OpenFilesAreRunning == Spec => []OpenAreRunning
<1>1. IInv => OpenAreRunning
  <2> SUFFICES ASSUME IInv PROVE OpenAreRunning
    OBVIOUS
  <2>1. Types /\ Running
    BY DEF IInv
  <2>2. states \in Seq(FileStates) /\ stack \in Seq(Frames) /\ DOMAIN states = 1 .. Len(states)
    BY <2>1, InSequence DEF Types
  <2>3. {fr.fs : fr \in ToSet(stack)} = {stack[k].fs : k \in 1 .. Len(stack)}
    BY <2>2, InSequence
  <2>4. \A k \in 1 .. Len(stack) : stack[k].fs \in 1 .. Len(states)
    BY <2>1 DEF Running
  <2>5. {i \in 1 .. Len(states) : states[i].is_open} = {stack[k].fs : k \in 1 .. Len(stack)}
    BY <2>1, <2>4 DEF Running
  <2> QED
    BY <2>2, <2>3, <2>5 DEF OpenAreRunning
<1> QED
  BY <1>1, ImportsInvariant, PTL

\* The schema sets that type resolution follows for the import statements are
\* there, complete, and those of the files named (ImportsAreCompiled).
THEOREM ImportsCompiled == Spec => []ImportsAreCompiled
<1>1. IInv => ImportsAreCompiled
  <2> SUFFICES ASSUME IInv, pc # "unwind", NEW i \in DOMAIN states, HasSchema(i)
               PROVE  /\ Len(Imported(i)) = Len(imports[states[i].path])
                      /\ \A k \in DOMAIN Imported(i) :
                            /\ HasSchema(Imported(i)[k]) /\ ~states[Imported(i)[k]].is_open
                            /\ ~stale => states[Imported(i)[k]].path = imports[states[i].path][k]
    BY DEF ImportsAreCompiled
  <2>1. i \in 1 .. Len(states)
    BY InSequence DEF IInv, Types
  <2>2. /\ Imported(i) \in Seq(Nat) /\ Len(Imported(i)) = Len(StatementsOf(i))
        /\ \A m \in 1 .. Len(Imported(i)) : Serves(i, m, Imported(i)[m])
    BY <2>1 DEF IInv, Compiled
  <2>3. DOMAIN Imported(i) = 1 .. Len(Imported(i))
    BY <2>2, InSequence
  <2>4. \A j \in 1 .. Len(states) : HasSchema(j) => ~states[j].is_open
    BY DEF IInv, Closed
  <2> QED
    BY <2>2, <2>3, <2>4 DEF Serves, StatementsOf
<1> QED
  BY <1>1, ImportsInvariant, PTL

\* No file is compiled twice, unless a name was compared that was lost: its
\* types are the same types to all that import it (CompiledOnce).
THEOREM EachCompiledOnce == Spec => []CompiledOnce
<1>1. IInv => CompiledOnce
  <2> SUFFICES ASSUME IInv PROVE CompiledOnce
    OBVIOUS
  <2>1. DOMAIN states = 1 .. Len(states)
    BY InSequence DEF IInv, Types
  <2> QED
    BY <2>1 DEF IInv, Distinct, CompiledOnce
<1> QED
  BY <1>1, ImportsInvariant, PTL

-----------------------------------------------------------------------------
(* Circles: a schema is only ever made for a file that is not on one, and  *)
(* the open files from the one that is met again to the last are one.      *)

Acyclic ==
    pc # "unwind" /\ ~stale =>
        \A i \in 1 .. Len(states) : HasSchema(i) => ~OnCycle(states[i].path)

Reported == circular /\ ~stale => \E f \in {Root} \cup Below(Root) : OnCycle(f)

\* The files compiled so far
Schemas == {states[i].path : i \in {j \in 1 .. Len(states) : HasSchema(j)}}

LEMMA BelowIn ==
    ASSUME NEW f, NEW A \in SUBSET Path, ToSet(imports[f]) \subseteq A, Complete(A)
    PROVE  Below(f) \subseteq A
BY DEF Below

LEMMA SchemasComplete ==
    ASSUME IInv, pc # "unwind", ~stale
    PROVE  Schemas \in SUBSET Path /\ Complete(Schemas)
<1>1. Schemas \in SUBSET Path
  BY StateType DEF IInv, Schemas
<1>2. ASSUME NEW f \in Schemas, NEW g \in ToSet(imports[f]) PROVE g \in Schemas
  <2>1. PICK i \in 1 .. Len(states) : HasSchema(i) /\ states[i].path = f
    BY DEF Schemas
  <2>2. StatementsOf(i) \in Seq(Path) /\ StatementsOf(i) = imports[f]
    BY <2>1, StateType DEF IInv, StatementsOf
  <2>3. PICK m \in 1 .. Len(StatementsOf(i)) : StatementsOf(i)[m] = g
    BY <2>2, InSequence
  <2>4. Serves(i, m, Imported(i)[m])
    BY <2>1 DEF IInv, Compiled
  <2> QED
    BY <2>3, <2>4 DEF Serves, Schemas
<1> QED
  BY <1>1, <1>2 DEF Complete

\* Each statement of a running call leads below the files of the calls before.
LEMMA CallsBelow ==
    ASSUME IInv, NEW k \in 1 .. Len(stack), NEW A \in SUBSET Path,
           ToSet(imports[states[stack[k].fs].path]) \subseteq A, Complete(A)
    PROVE  \A m \in k .. Len(stack) : m # k => states[stack[m].fs].path \in A
<1>1. PICK k0 \in Nat : k0 = Len(stack)
  BY LenProperties DEF IInv, Types
<1> DEFINE In == {d \in Nat : d # 0 /\ k + d <= k0 => states[stack[k + d].fs].path \in A}
<1>2. 0 \in In
  OBVIOUS
<1>3. ASSUME NEW d \in Nat, d \in In PROVE d + 1 \in In
  <2> SUFFICES ASSUME k + (d + 1) <= k0 PROVE states[stack[k + (d + 1)].fs].path \in A
    OBVIOUS
  <2>1. PICK h \in 1 .. k0 - 1 : h = k + d
    BY <1>1
  <2>2. k + (d + 1) = h + 1 /\ h \in 1 .. k0
    BY <1>1, <2>1
  <2>3. stack[h].fs \in 1 .. Len(states)
    BY <1>1, <2>2 DEF IInv, Running
  <2>4. StatementsOf(stack[h].fs) \in Seq(Path)
    BY <2>3, StateType DEF IInv
  <2>5. At(h) \in 1 .. Len(StatementsOf(stack[h].fs))
    BY <1>1, <2>1, <2>2, <2>3, FrameType, StateType DEF IInv, Waiting, At
  <2>6. states[stack[h + 1].fs].path = StatementsOf(stack[h].fs)[At(h)]
    BY <1>1, <2>1 DEF IInv, Waiting
  <2>7. states[stack[h + 1].fs].path \in ToSet(imports[states[stack[h].fs].path])
    BY <2>4, <2>5, <2>6, InSequence DEF StatementsOf
  <2>8. CASE d = 0
    BY <2>1, <2>2, <2>7, <2>8
  <2>9. CASE d # 0
    <3>1. states[stack[h].fs].path \in A
      BY <1>1, <1>3, <2>1, <2>2, <2>9
    <3> QED
      BY <2>2, <2>7, <3>1 DEF Complete
  <2> QED
    BY <2>8, <2>9
<1>4. Nat \subseteq In
  <2> HIDE DEF In
  <2> QED
    BY <1>2, <1>3, NatSetInduction
<1> SUFFICES ASSUME NEW m \in k .. k0, m # k PROVE states[stack[m].fs].path \in A
  BY <1>1
<1>5. PICK d \in Nat : d = m - k
  BY <1>1
<1>6. d \in In /\ d # 0 /\ k + d = m /\ m <= k0
  BY <1>4, <1>5, <1>1
<1> QED
  BY <1>6

LEMMA WantedBelow ==
    ASSUME IInv, pc = "open", NEW k \in 1 .. Len(stack)
    PROVE  want \in Below(states[stack[k].fs].path)
<1> SUFFICES ASSUME NEW A \in SUBSET Path, Complete(A),
                    ToSet(imports[states[stack[k].fs].path]) \subseteq A
             PROVE  want \in A
  BY DEF Below, IInv, Types
<1>1. stack # <<>>
  BY LenProperties DEF IInv, Types
<1>2. PICK k0 \in Nat : k0 = Len(stack) /\ k0 \in 1 .. k0 /\ Top = stack[k0]
  BY <1>1, TopFrame DEF IInv
<1>3. StatementsOf(Top.fs) \in Seq(Path) /\ Len(StatementsOf(Top.fs)) \in Nat
  BY <1>1, TopFrame, StateType DEF IInv
<1>4. At(k0) \in 1 .. Len(StatementsOf(Top.fs)) /\ want = StatementsOf(Top.fs)[At(k0)]
  BY <1>1, <1>2, <1>3, TopFrame DEF IInv, Control
<1>5. want \in ToSet(imports[states[Top.fs].path])
  BY <1>3, <1>4, InSequence DEF StatementsOf
<1>6. k # k0 => states[Top.fs].path \in A
  BY <1>2, CallsBelow
<1> QED
  BY <1>2, <1>5, <1>6 DEF Complete

LEMMA HistoryKept ==
    ASSUME IInv, [Next]_vars
    PROVE  /\ imports' = imports /\ (stale => stale')
           /\ \A f : Below(f)' = Below(f) /\ (OnCycle(f)' <=> OnCycle(f))
<1>1. imports' = imports
  BY DEF Next, vars, KnownFile, NewFile, NoFile, Import, Return, Define, BadFile, Unwind
<1>2. stale => stale'
  BY DEF Next, vars, KnownFile, NewFile, NoFile, Import, Return, Define, BadFile, Unwind, Compared
<1>3. \A f : Below(f)' = Below(f)
  BY <1>1 DEF Below, Complete
<1> QED
  BY <1>1, <1>2, <1>3 DEF OnCycle

\* The file that is met again is open: the calls from its own to the last one
\* lead from it back to it.
LEMMA CircleFound ==
    ASSUME IInv, KnownFile, ~circular, circular', ~stale'
    PROVE  \E f \in {Root} \cup Below(Root) : OnCycle(f)
<1>1. PICK i \in DOMAIN states : StopsAt(i) /\ Compared(i) /\ states[i].is_open
  <2>1. PICK i \in DOMAIN states :
           /\ StopsAt(i) /\ Compared(i)
           /\ \/ states[i].is_open
              \/ UNCHANGED circular
    BY DEF KnownFile
  <2> QED
    BY <2>1
<1>2. i \in 1 .. Len(states)
  BY <1>1, InSequence DEF IInv, Types
<1>3. states[i].path = want
  <2>1. i \in 1 .. i
    BY <1>2
  <2>2. states[i].readable
    BY <1>1, <2>1, Zenon DEF Compared
  <2> QED
    BY <1>1, <2>2, Zenon DEF StopsAt, MaybeSame
<1>4. pc = "open"
  BY DEF KnownFile
<1>5. PICK k \in 1 .. Len(stack) : stack[k].fs = i
  BY <1>1, <1>2, Zenon DEF IInv, Running
<1>6. OnCycle(want)
  BY <1>3, <1>4, <1>5, WantedBelow DEF OnCycle
<1>7. want \in Below(Root)
  <2>1. 1 \in 1 .. Len(stack) /\ stack # <<>>
    BY <1>5, LenProperties DEF IInv, Types
  <2>2. states[stack[1].fs].path = Root
    BY <2>1 DEF IInv, Control
  <2> QED
    BY <1>4, <2>1, <2>2, WantedBelow
<1> QED
  BY <1>6, <1>7

LEMMA ReportedKept == ASSUME IInv, Reported, [Next]_vars PROVE Reported'
<1> SUFFICES ASSUME circular', ~stale' PROVE \E f \in {Root} \cup Below(Root) : OnCycle(f)
  BY HistoryKept DEF Reported
<1>1. ~stale
  BY HistoryKept
<1>2. CASE circular
  BY <1>1, <1>2 DEF Reported
<1>3. CASE ~circular
  <2>1. KnownFile
    BY <1>3 DEF Next, vars, NewFile, NoFile, Import, Return, Define, BadFile, Unwind
  <2> QED
    BY <1>3, <2>1, CircleFound
<1> QED
  BY <1>2, <1>3

\* The file that Define compiles is not below itself: all that is below it has
\* been compiled, and it has not.
LEMMA DefinedAcyclic ==
    ASSUME IInv, Define, ~stale
    PROVE  ~OnCycle(states[Top.fs].path)
<1>1. pc = "parse" /\ Len(Top.got) = Len(Statements)
  BY DEF Define
<1>2. stack # <<>> /\ Types /\ Running
  BY <1>1 DEF IInv, Control
<1>3. PICK k0 \in Nat : k0 = Len(stack) /\ k0 \in 1 .. k0 /\ Top = stack[k0]
  BY <1>2, TopFrame
<1>4. PICK t \in 1 .. Len(states) : t = Top.fs
  BY <1>2, TopFrame
<1>5. /\ Statements = StatementsOf(t) /\ StatementsOf(t) \in Seq(Path)
  BY <1>2, <1>4, TopFrame, StateType
<1>6. ToSet(StatementsOf(t)) \subseteq Schemas
  <2> SUFFICES ASSUME NEW g \in ToSet(StatementsOf(t)) PROVE g \in Schemas
    OBVIOUS
  <2>1. PICK m \in 1 .. Len(StatementsOf(t)) : StatementsOf(t)[m] = g
    BY <1>5, InSequence
  <2>2. Serves(t, m, Top.got[m])
    BY <1>1, <1>3, <1>4, <1>5, <2>1 DEF IInv, Served
  <2> QED
    BY <2>1, <2>2 DEF Serves, Schemas
<1>7. Below(states[t].path) \subseteq Schemas
  BY <1>1, <1>6, SchemasComplete, BelowIn DEF StatementsOf
<1>8. states[t].path \notin Schemas
  <2> SUFFICES ASSUME NEW i \in 1 .. Len(states), HasSchema(i), states[i].path = states[t].path
               PROVE  FALSE
    BY DEF Schemas
  <2>1. i = t
    BY DEF IInv, Distinct
  <2>2. states[t].is_open
    BY <1>2, <1>3, <1>4, Zenon DEF Running
  <2> QED
    BY <1>1, <2>1, <2>2, Zenon DEF IInv, Closed
<1> QED
  BY <1>4, <1>7, <1>8 DEF OnCycle

LEMMA AcyclicKept == ASSUME IInv, Acyclic, [Next]_vars PROVE Acyclic'
<1> SUFFICES ASSUME pc' # "unwind", ~stale', NEW i \in 1 .. Len(states'), HasSchema(i)'
             PROVE  ~OnCycle(states'[i].path)
  BY HistoryKept DEF Acyclic
<1>1. ~stale /\ Types
  BY HistoryKept DEF IInv
<1>2. CASE pc = "unwind"
  <2>1. Unwind \/ UNCHANGED vars
    BY <1>2 DEF Next, KnownFile, NewFile, NoFile, Import, Return, Define, BadFile
  <2>2. states' = <<>>
    BY <1>2, <2>1 DEF Unwind, vars
  <2> QED
    BY <2>2
<1>3. CASE pc # "unwind" /\ UNCHANGED states
  BY <1>1, <1>3 DEF Acyclic, HasSchema
<1>4. CASE NewFile
  <2>1. PICK named \in BOOLEAN : Opened(want, named)
    BY <1>4 DEF NewFile, PushFile, Opened
  <2>2. want \in Path
    BY <1>1 DEF Types
  <2>3. PICK l \in Nat : l = Len(states)
    BY <1>1, LenProperties DEF Types
  <2>4. /\ Len(states') = l + 1 /\ states'[l + 1].ss = NULL
        /\ \A j \in 1 .. l : states'[j] = states[j]
    BY <1>1, <2>1, <2>2, <2>3, OpenedFacts
  <2>5. i \in 1 .. l /\ HasSchema(i)
    BY <2>4 DEF HasSchema
  <2>6. pc # "unwind"
    BY <1>4 DEF NewFile
  <2> QED
    BY <1>1, <2>3, <2>4, <2>5, <2>6 DEF Acyclic
<1>5. CASE Define
  <2>1. pc = "parse" /\ stack # <<>>
    BY <1>5 DEF Define, IInv, Control
  <2>2. Top.fs \in 1 .. Len(states)
    BY <1>1, <2>1, TopFrame DEF IInv
  <2>3. PICK named \in BOOLEAN :
           states' = [states EXCEPT ![Top.fs] =
               [@ EXCEPT !.ss = Schema(Top.got), !.readable = named, !.is_open = FALSE]]
    BY <1>5 DEF Define
  <2>4. DOMAIN states = 1 .. Len(states) /\ i \in DOMAIN states
    <3>1. DOMAIN states = 1 .. Len(states)
      BY <1>1, InSequence DEF Types
    <3>2. DOMAIN states' = DOMAIN states /\ DOMAIN states' = 1 .. Len(states')
      BY <2>3, ImportsNext, InSequence DEF IInv, Types
    <3> QED
      BY <3>1, <3>2
  <2>5. CASE i = Top.fs
    <3>1. states[Top.fs] \in FileStates
      BY <1>1, <2>2, StateType
    <3>2. states'[i].path = states[Top.fs].path
      BY <2>3, <2>4, <2>5, <3>1 DEF FileStates
    <3> QED
      BY <1>1, <1>5, <3>2, DefinedAcyclic
  <2>6. CASE i # Top.fs
    <3>1. states'[i] = states[i]
      BY <2>3, <2>4, <2>6
    <3> QED
      BY <1>1, <2>1, <2>4, <3>1 DEF Acyclic, HasSchema
  <2> QED
    BY <2>5, <2>6
<1> QED
  BY <1>2, <1>3, <1>4, <1>5
     DEF Next, vars, KnownFile, NoFile, Import, Return, BadFile, Unwind

\* A compilation that succeeds has no file on a circle at or below its root, and
\* one that reports a circle has one (CirclesRefused): for every import graph.
THEOREM CirclesAreRefused == Spec => []CirclesRefused
<1>1. Init => Acyclic /\ Reported
  <2> SUFFICES ASSUME Init PROVE Acyclic /\ Reported
    OBVIOUS
  <2>1. ~circular /\ \A i \in 1 .. Len(states) : ~HasSchema(i)
    BY DEF Init, NewFileState, HasSchema
  <2> QED
    BY <2>1 DEF Acyclic, Reported
<1>2. IInv /\ Acyclic /\ Reported /\ [Next]_vars => (Acyclic /\ Reported)'
  BY AcyclicKept, ReportedKept
<1>3. IInv /\ Acyclic /\ Reported => CirclesRefused
  <2> SUFFICES ASSUME IInv, Acyclic, Reported, ~stale, pc = "ok",
                      NEW f \in {Root} \cup Below(Root)
               PROVE  ~OnCycle(f)
    BY DEF CirclesRefused, Reported
  <2>1. stack = <<>> /\ states # <<>> /\ states[1].path = Root
    BY DEF IInv, Control
  <2>2. \A i \in 1 .. Len(states) : HasSchema(i)
    <3>1. Len(stack) = 0
      BY <2>1
    <3>2. \A i \in 1 .. Len(states) : ~states[i].is_open
      BY <3>1 DEF IInv, Running
    <3> QED
      BY <3>2 DEF IInv, Closed
  <2>3. 1 \in 1 .. Len(states)
    BY <2>1, LenProperties, EmptySeq DEF IInv, Types
  <2>4. Root \in Schemas
    BY <2>1, <2>2, <2>3 DEF Schemas
  <2>5. Below(Root) \subseteq Schemas
    BY <2>4, SchemasComplete, BelowIn DEF Complete
  <2>6. \A g \in Schemas : ~OnCycle(g)
    BY DEF Acyclic, Schemas
  <2> QED
    BY <2>4, <2>5, <2>6
<1> QED
  BY <1>1, <1>2, <1>3, ImportsInvariant, PTL DEF Spec
=============================================================================
