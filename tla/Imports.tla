------------------------------ MODULE Imports ------------------------------
(***************************************************************************)
(* How the schema compiler finds its files (parse_file, parse_opened_file  *)
(* and parse_import in compile.c): a depth-first walk over the import      *)
(* statements, which reuses a file that is already compiled and refuses    *)
(* one that is still open.  states is the table of FileStates, kept in the *)
(* buffer of the caller; stack holds the running parse_opened_file calls.  *)
(*                                                                         *)
(* A FileState's filename points into the schema buffer of its file.  When *)
(* that buffer grows, realloc() may move it and the pointer is left behind *)
(* (readable is FALSE); comparing such a name may give either answer.      *)
(***************************************************************************)
EXTENDS Integers, Sequences, SequencesExt

CONSTANTS Path,         \* paths of schema files
          Root,         \* the file the compiler is called for
          MaxImports,   \* bound on the import statements of a file
          MAX_DEPTH     \* the compiler's own limit, 500 there

ASSUME DepthAssumption == MAX_DEPTH \in Nat \ {0}
ASSUME RootAssumption == Root \in Path

VARIABLES
    imports,   \* the import statements of each file; nothing changes them
    pc,        \* "open", "parse", "return", "unwind"; "ok" and "failed" at the end
    want,      \* the argument of the running parse_file
    ret,       \* what a call returned: an index into states, for its schema
    depth,     \* ctx->depth
    stack,     \* frames: fs, an index into states; got, the schemas imported so far
    states,    \* ctx->file_states
    circular,  \* history: a circular import was reported
    stale      \* history: a filename was compared after its memory was left

vars == <<imports, pc, want, ret, depth, stack, states, circular, stale>>

ImportLists == UNION {[1 .. k -> Path] : k \in 0 .. MaxImports}

\* ss is NULL, or the schema set: the imported ones, as indices into states.
NULL == <<"NULL">>
Schema(imported) == <<"schema", imported>>
NewFileState(f, named) == [path |-> f, readable |-> named, is_open |-> TRUE, ss |-> NULL]
Imported(i) == states[i].ss[2]
HasSchema(i) == states[i].ss # NULL

Top == Last(stack)
Statements == imports[states[Top.fs].path]

\* Mutant: the index is taken before the entry is added.
PushFile_IndexBefore(f) ==
    /\ states' = Append(states, NewFileState(f, TRUE))
    /\ stack' = Append(stack, [fs |-> Len(states), got |-> <<>>])
    /\ pc' = "parse"

\* parse_opened_file up to the imports; the package name may grow the schema buffer
PushFile(f) ==
    \E named \in BOOLEAN :
        /\ states' = Append(states, NewFileState(f, named))
        /\ stack' = Append(stack, [fs |-> Len(states) + 1, got |-> <<>>])
        /\ pc' = "parse"

\* nbuf_compile opens the file; nbuf_compile_str has its text, under any name
Init ==
    /\ imports \in [Path -> ImportLists]
    /\ want = Root /\ ret = 0 /\ circular = FALSE /\ stale = FALSE
    /\ \/ /\ pc = "open" /\ depth = 1
          /\ stack = <<>> /\ states = <<>>
       \/ /\ pc = "parse" /\ depth = 0
          /\ stack = <<[fs |-> 1, got |-> <<>>]>>
          /\ \E named \in BOOLEAN : states = <<NewFileState(Root, named)>>

\* find_known_file compares names in order.  It may stop at i if i has, or may
\* seem to have, the wanted name and none before it surely has.
Same(i) == states[i].readable /\ states[i].path = want
MaybeSame(i) == states[i].readable => states[i].path = want
StopsAt(i) == i \in DOMAIN states /\ MaybeSame(i) /\ \A j \in 1 .. i - 1 : ~Same(j)
\* Mutant: only the files still open are compared.
StopsNowhere_OpenOnly == \A i \in DOMAIN states : states[i].is_open => ~Same(i)
StopsNowhere == \A i \in DOMAIN states : ~Same(i)
Compared(last) == stale' = (stale \/ \E i \in 1 .. last : ~states[i].readable)

\* Mutant: a file that is still open is used as well.
KnownFile_IgnoresOpen ==
    /\ pc = "open" /\ depth # MAX_DEPTH
    /\ \E i \in DOMAIN states : StopsAt(i) /\ Compared(i) /\ ret' = i
    /\ pc' = "return" /\ depth' = depth - 1
    /\ UNCHANGED <<imports, want, stack, states, circular>>

\* Mutant: any file met before is a circle.
KnownFile_NeverReuses ==
    /\ pc = "open" /\ depth # MAX_DEPTH
    /\ \E i \in DOMAIN states : StopsAt(i) /\ Compared(i)
    /\ circular' = TRUE /\ pc' = "unwind" /\ depth' = depth - 1
    /\ UNCHANGED <<imports, want, ret, stack, states>>

\* parse_file: a file met before is used again, unless it is still open.
KnownFile ==
    /\ pc = "open" /\ depth # MAX_DEPTH
    /\ \E i \in DOMAIN states :
           /\ StopsAt(i) /\ Compared(i)
           /\ \/ /\ states[i].is_open
                 /\ circular' = TRUE /\ pc' = "unwind" /\ UNCHANGED ret
              \/ /\ ~states[i].is_open
                 /\ ret' = i
                 /\ pc' = IF HasSchema(i) THEN "return" ELSE "unwind"
                 /\ UNCHANGED circular
    /\ depth' = depth - 1
    /\ UNCHANGED <<imports, want, stack, states>>

NewFile ==
    /\ pc = "open" /\ depth # MAX_DEPTH
    /\ StopsNowhere /\ Compared(Len(states))
    /\ PushFile(want)
    /\ UNCHANGED <<imports, want, ret, depth, circular>>

\* Nesting too deep, no such file, or no memory
NoFile ==
    /\ pc = "open"
    /\ pc' = "unwind" /\ depth' = depth - 1
    /\ UNCHANGED <<imports, want, ret, stack, states, circular, stale>>

\* parse_import: one statement after the other, each through parse_file
Import ==
    /\ pc = "parse" /\ Len(Top.got) < Len(Statements)
    /\ want' = Statements[Len(Top.got) + 1]
    /\ pc' = "open" /\ depth' = depth + 1
    /\ UNCHANGED <<imports, ret, stack, states, circular, stale>>

Return ==
    /\ pc = "return"
    /\ IF stack = <<>> THEN pc' = "ok" /\ UNCHANGED stack
       ELSE /\ pc' = "parse"
            /\ stack' = ReplaceAt(stack, Len(stack), [Top EXCEPT !.got = Append(@, ret)])
    /\ UNCHANGED <<imports, want, ret, depth, states, circular, stale>>

\* After the imports the schema set is made and the definitions are parsed into
\* its buffer, which may grow.  Only nbuf_compile_str's file was not counted.
Define ==
    /\ pc = "parse" /\ Len(Top.got) = Len(Statements)
    /\ \E named \in BOOLEAN :
           /\ named => states[Top.fs].readable
           /\ states' = [states EXCEPT ![Top.fs] =
                  [@ EXCEPT !.ss = Schema(Top.got), !.readable = named, !.is_open = FALSE]]
    /\ ret' = Top.fs /\ pc' = "return"
    /\ stack' = Front(stack)
    /\ depth' = IF depth = 0 THEN 0 ELSE depth - 1
    /\ UNCHANGED <<imports, want, circular, stale>>

\* A syntax error, a type that does not resolve, no memory; past the imports
\* the schema set may exist already.
BadFile ==
    /\ pc = "parse"
    /\ pc' = "unwind"
    /\ states' \in {states} \cup (IF Len(Top.got) = Len(Statements)
                                  THEN {[states EXCEPT ![Top.fs].ss = Schema(Top.got)]} ELSE {})
    /\ UNCHANGED <<imports, want, ret, depth, stack, circular, stale>>

\* Without a schema set, the schema buffer with the name is freed.
Abandoned(i) == [states[i] EXCEPT !.is_open = FALSE, !.readable = @ /\ HasSchema(i)]

\* Mutant: the error return leaves the file open.
Unwind_LeavesOpen ==
    /\ pc = "unwind"
    /\ IF stack = <<>> THEN pc' = "failed" /\ states' = <<>> /\ UNCHANGED <<stack, depth>>
       ELSE /\ stack' = Front(stack)
            /\ depth' = IF depth = 0 THEN 0 ELSE depth - 1
            /\ UNCHANGED <<pc, states>>
    /\ UNCHANGED <<imports, want, ret, circular, stale>>

\* Mutant: at the end the file is tried again.
Unwind_Retries ==
    /\ pc = "unwind"
    /\ IF stack = <<>> THEN pc' = "open" /\ depth' = 1 /\ states' = <<>> /\ UNCHANGED stack
       ELSE /\ states' = [states EXCEPT ![Top.fs] = Abandoned(Top.fs)]
            /\ stack' = Front(stack)
            /\ depth' = IF depth = 0 THEN 0 ELSE depth - 1
            /\ UNCHANGED pc
    /\ UNCHANGED <<imports, want, ret, circular, stale>>

\* Each running parse_opened_file closes its file and gives up; the last error
\* return frees all that was compiled.
Unwind ==
    /\ pc = "unwind"
    /\ IF stack = <<>> THEN pc' = "failed" /\ states' = <<>> /\ UNCHANGED <<stack, depth>>
       ELSE /\ states' = [states EXCEPT ![Top.fs] = Abandoned(Top.fs)]
            /\ stack' = Front(stack)
            /\ depth' = IF depth = 0 THEN 0 ELSE depth - 1
            /\ UNCHANGED pc
    /\ UNCHANGED <<imports, want, ret, circular, stale>>

Next ==
    \/ KnownFile \/ NewFile \/ NoFile \/ Import
    \/ Return \/ Define \/ BadFile \/ Unwind

\* One thread runs the compiler to its end.
Spec == Init /\ [][Next]_vars /\ WF_vars(Next)

-----------------------------------------------------------------------------
TypeOK ==
    /\ pc \in {"open", "parse", "return", "unwind", "ok", "failed"}
    /\ want \in Path /\ ret \in Nat
    /\ depth \in 0 .. MAX_DEPTH
    /\ \A fr \in ToSet(stack) : fr.fs \in DOMAIN states /\ ToSet(fr.got) \subseteq DOMAIN states
    /\ \A fs \in ToSet(states) : fs.path \in Path /\ fs.readable \in BOOLEAN /\ fs.is_open \in BOOLEAN

\* dtor_FileState asserts that no file is open (compile.c:83).  At every moment
\* the open files are those of the running calls, whichever error cut them short.
OpenAreRunning == {i \in DOMAIN states : states[i].is_open} = {fr.fs : fr \in ToSet(stack)}

\* Type resolution follows ss->imports[k] for the k-th import statement: it is
\* there, compiled to its end, and it is the file the statement names.
ImportsAreCompiled ==
    pc # "unwind" => \A i \in DOMAIN states : HasSchema(i) =>
        /\ Len(Imported(i)) = Len(imports[states[i].path])
        /\ \A k \in DOMAIN Imported(i) :
              LET j == Imported(i)[k]
              IN  /\ HasSchema(j) /\ ~states[j].is_open
                  /\ ~stale => states[j].path = imports[states[i].path][k]

\* A file imported on several ways is compiled once: its types are the same
\* types to all its users.
CompiledOnce ==
    ~stale => \A i, j \in DOMAIN states : states[i].path = states[j].path => i = j

\* The files that f imports, directly or not: those that are in every set with
\* its imports and, for each of its members, that one's.
Complete(A) == \A f \in A : ToSet(imports[f]) \subseteq A
Below(f) ==
    {g \in Path : \A A \in SUBSET Path : ToSet(imports[f]) \subseteq A /\ Complete(A) => g \in A}
OnCycle(f) == f \in Below(f)

\* schema.txt:46 "Circular imports are not allowed": a compilation that succeeds
\* has none at or below its root, and one that reports a circle does have one: a
\* file imported on two ways is not a circle.
CirclesRefused ==
    ~stale => /\ pc = "ok" => \A f \in {Root} \cup Below(Root) : ~OnCycle(f)
              /\ circular => \E f \in {Root} \cup Below(Root) : OnCycle(f)

\* The compiler ends, also when names are compared that are no longer there and
\* only the depth limit stops a circle.
CompilerEnds == <>(pc \in {"ok", "failed"})

\* compile.c:652 says of the name given to new_FileState that it "is now
\* persistent": it is still there when it is compared.
NamesPersist == ~stale
=============================================================================
