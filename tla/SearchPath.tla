----------------------------- MODULE SearchPath -----------------------------
(***************************************************************************)
(* nbuf_search_open (compile.c): a file is looked for under its own name   *)
(* and then in each directory of the search path.  All the paths are built *)
(* in one scratch buffer, in which the name moves along behind directories *)
(* of different lengths, and where it is expected at the front afterwards. *)
(***************************************************************************)
EXTENDS Integers, Sequences, SequencesExt

VARIABLES
    name, dirs,       \* the file's name and the search path, characters without the '\0'
    scratch,          \* the bytes of scratch_buf that exist
    slen,             \* its length
    lastDirLen,       \* last_dir_len
    at,               \* directories tried
    tried,            \* history: the paths given to fopen()
    search            \* "none", "dirs" in the loop, "opened", "missing"

searchVars == <<name, dirs, scratch, slen, lastDirLen, at, tried, search>>

NUL == "NUL"
SL == "/"

\* The bytes of s below n, and what nbuf_alloc adds up to the length m
Extended(s, n, m) == IF m <= Len(s) THEN s ELSE SubSeq(s, 1, n) \o [i \in 1 .. m - n |-> "?"]

\* memmove() within s, of n bytes; positions count from 0
MemMove(s, to, from, n) ==
    [i \in DOMAIN s |-> IF to < i /\ i <= to + n THEN s[i - to + from] ELSE s[i]]

\* What a C function finds at s
CString(s) == SubSeq(s, 1, SelectInSeq(s, LAMBDA c : c = NUL) - 1)

SearchInit ==
    /\ name = <<>> /\ dirs = <<>> /\ scratch = <<>> /\ slen = 0
    /\ lastDirLen = 0 /\ at = 0 /\ tried = <<>> /\ search = "none"

\* fopen() of the path in s
Open(s) == tried' = Append(tried, CString(s))

\* The name alone; an absolute one is not looked for in directories.
OpenName ==
    LET s == name \o <<NUL>>
    IN  /\ search = "none"
        /\ \/ /\ scratch' = s /\ slen' = Len(s) /\ Open(s)
              /\ \/ search' = "opened"
                 \/ search' = IF name # <<>> /\ name[1] = SL THEN "missing" ELSE "dirs"
           \/ /\ search' = "missing" /\ scratch' = <<>> /\ slen' = 0 /\ tried' = tried
        /\ lastDirLen' = 0 /\ at' = 0
        /\ UNCHANGED <<name, dirs>>

\* A slash at the end of a directory is left out.
DirLen(dir) == IF dir # <<>> /\ Last(dir) = SL THEN Len(dir) - 1 ELSE Len(dir)

\* The name back at the front of the buffer
AtFront(s, last) == MemMove(s, 0, last, Len(name) + 1)

\* Mutant: the slash is not counted.
After_NoSlash(dirLen) == dirLen

\* Where the name is, behind a directory and a slash
After(dirLen) == dirLen + 1

\* The bytes of the buffer when a directory and a slash are put before the name
NewLen(dir) == DirLen(dir) + Len(name) + 2
PathIn(dir) ==
    LET n == DirLen(dir)
        moved == MemMove(Extended(scratch, slen, NewLen(dir)), n + 1, lastDirLen, Len(name) + 1)
    IN  [i \in DOMAIN moved |-> IF i <= n THEN dir[i] ELSE IF i = n + 1 THEN SL ELSE moved[i]]

\* The next directory
OpenInDir ==
    LET dir == dirs[at + 1]
        last == After(DirLen(dir))
    IN  /\ search = "dirs" /\ at < Len(dirs)
        /\ \/ /\ Open(PathIn(dir)) /\ slen' = NewLen(dir) /\ lastDirLen' = last /\ at' = at + 1
              /\ \/ search' = "opened" /\ scratch' = AtFront(PathIn(dir), last)
                 \/ search' = "dirs" /\ scratch' = PathIn(dir)
           \/ /\ NewLen(dir) > slen /\ search' = "missing"
              /\ UNCHANGED <<scratch, slen, lastDirLen, at, tried>>
        /\ UNCHANGED <<name, dirs>>

NoMoreDirs ==
    /\ search = "dirs" /\ at = Len(dirs)
    /\ search' = "missing"
    /\ scratch' = AtFront(scratch, lastDirLen)
    /\ UNCHANGED <<name, dirs, slen, lastDirLen, at, tried>>

SearchStep == OpenName \/ OpenInDir \/ NoMoreDirs

-----------------------------------------------------------------------------
\* The paths in the order of the search
InDir(dir) == SubSeq(dir, 1, DirLen(dir)) \o <<SL>> \o name
Paths == <<name>> \o [i \in DOMAIN dirs |-> InDir(dirs[i])]

\* The file is looked for under its own name first and then in the directories
\* in their order, and the buffer that the paths were built in holds the plain
\* name afterwards: the compiler keeps it as the name of the file.
NameKept ==
    /\ IsPrefix(tried, Paths)
    /\ search = "opened" => CString(scratch) = name
=============================================================================
