# Verification of nbuf

nbuf is a small C serialization library: a wire format of objects and relative
pointers in one growing byte buffer (`src/nbuf.h`, `src/nbuf.c`), a compiler
from a text schema to a binary one (`src/compile.c`), reflection
(`src/refl.c`), and a text format with a parser and a printer (`src/parse.c`,
`src/print.c`).  The program `nbufc` drives the compiler and generates C and
C++ code.  Paths in this file are relative to the repository.

The library is sequential.  What is hard in it is not interleaving but memory
that moves and memory that is used again: buffers grow in the middle of a
construction, structures are built in two buffers and joined, errors leave
half-built data behind, and pointers are kept across calls that may
invalidate them.

## Inventory

| component | state | operations | what makes it correct |
|---|---|---|---|
| byte buffer (`nbuf.h`, `nbuf.c`) | `base`, `len`, `cap`, `realloc` | init, clear, alloc, add, popping by a store to `len` | stays in bounds; growth keeps the bytes; fresh memory is zero; allocations do not overlap; the growth loop ends |
| object layer (`nbuf.h`, `nbuf.c`) | words in a buffer | allocate an object or array, get and set pointers, resize an array, join buffers | what was set is what is read; a pointer never leaves its buffer |
| text parser (`parse.c`) | the token ahead, the buffer in use, nesting depth | one recursive function per construct | the buffer reads back as the document; a failure leaves no trace |
| schema compiler, files (`compile.c`) | table of `FileState`s, depth, scratch buffer | `parse_file`, `parse_opened_file`, `parse_import` | circles refused, each file compiled once, ends, frees what it made |
| schema compiler, definitions (`compile.c`) | stack of name buffers, list of type names | `parse_enum_defs`, `parse_message_defs`, ... | arrays and their names end up in one buffer; values and names as written |
| schema compiler, layout (`compile.c`) | running sizes and alignment of a message | `complete_message_defs` | fields disjoint, inside, aligned |
| type resolution, reflection (`compile.c`, `refl.c`) | none | lookups | a name means the same type to compiler and reflection |
| lexer (`lex.c`) | position in a text, line number | `nbuf_lex` and its scanners | tokens are the longest ones; lines are counted; it ends |
| escaping (`util.c`) | none | `nbuf_unescape`, `nbuf_print_escaped` | a string that is written is read back |
| text printer (`print.c`) | depth | one function per message and field | the text means the message |
| file input and output (`util.c`) | a buffer, mapped or read | load, save | a load is whole or fails; a mapping is undone once |
| generated accessors (`nbufc/lang_c.c`) | none: a buffer and handles of the program | get, set, allocate | setting one field disturbs no other; a call that fails changes nothing |
| `nbufc` (`nbufc.c`, `raw.c`) | action, schema, exit status | options, one action | success means that there is a result |
| generators, C++ wrapper | none of their own | text output | that output compiles and agrees with the layout |

The parser and the compiler call the object layer, which calls the byte buffer.
The compiler's table of files lives in a byte buffer of the caller and points
into the schema buffers of the files.  The only callbacks are the `realloc`
member of a buffer and the C library.

## Modules

| module | models | runs |
|---|---|---|
| `ByteString` | abstract: a string of bytes that grows and shrinks at its end | refined by `Buffer` |
| `Buffer`, `MCBuffer` | `struct nbuf_buf` under any sequence of calls | buffer |
| `BufferProofs` | theorems on `Buffer` | |
| `Layout`, `MCLayout` | the layout pass of `complete_message_defs` | layout |
| `LayoutProofs` | theorems on `Layout` | |
| `Wire` | the object layer, as operators on buffers of words | used by the next ones |
| `WireProofs` | what the operations of `Wire` keep and return, as lemmas | |
| `Message` | the messages of one schema and their generated getters | used by the next ones |
| `ObjectStore` | abstract: objects with fields | refined by `Accessors` |
| `Accessors` | a program that calls generated accessors | messages |
| `TextParser`, `MCTextParser` | `nbuf_parse` on one output buffer | messages, scattered, failed_parse |
| `TextParserProofs` | theorems on `TextParser` | |
| `Printer` | `nbuf_print`, as the tokens it writes | messages |
| `RawDecoder` | `nbufc_decode_raw`, as the headers it meets | messages |
| `Messages`, `MCMessages` | the four composed: build, print, parse, decode | messages |
| `Escape` | string literals written and read, as operators | used by `Lexer` |
| `Lexer`, `MCLexer` | `nbuf_lex` on a text, and `parse_str` | literals |
| `FileIO` | loading a file | nbufc |
| `SearchPath` | `nbuf_search_open` | nbufc |
| `Nbufc`, `MCNbufc` | the program, with `FileIO` and `SearchPath` | nbufc, generated |
| `NbufcProofs` | theorems on `Nbufc` with `SearchPath` and `FileIO` | |
| `Imports`, `MCImports` | how the compiler walks the import graph | imports, import_names |
| `ImportsProofs` | theorems on `Imports` | |
| `Resolve` | from the name of a type to its definition and back, as operators | used by `SchemaDefs` |
| `SchemaDefs`, `MCSchemaDefs` | how the compiler builds the schema of a file | schema, enum_zero |
| `SchemaDefsProofs` | theorems on `SchemaDefs` | |
| `Induction` | least numbers, induction and iteration, as lemmas about sets and functions | used by the proofs |

A definition whose name ends in `_Something`, preceded by a comment that begins
with "Mutant", is a plausible mistake in the definition of the same stem.  It is
part of no specification; replacing the original by it makes the property named
in `PROJECT.json` fail, which shows that the property sees that part of the code.

### Buffer

The variables `base`, `len`, `cap` and `realloc` are the fields of the struct;
`block` and `mem` are the memory at `base`.  Each function of the API is an
action.  `nbuf_alloc` is cut at the places where it calls out or loops: `Alloc`
(the request; it ends there unless the buffer must grow), `Grow` (a turn of the
loop of `nbuf_alloc_ex`), `ReallocOk` and `ReallocFails`.  `Fill` stands for the
client's store over what it was given, as `nbuf_add` does; `Truncate` for the
store to `len` by which the parser, the compiler and the file loader pop bytes.
A buffer is initialised only before use or after `nbuf_clear`.  `dirty` is a
history variable: FreshIsZero cannot hold for memory that was popped, and the
properties of the parser show what that leads to.

Run *buffer*: words of 2 bytes, two byte values, alignments 1 and 4, length up to
6.  A capacity grows 2, 3, 4, 6, 9, so several turns of the loop, growth by more
than what is asked and growth from an empty buffer all occur.  Fairness: weak
fairness of `Grow` and of the answer of `realloc()`, since the function runs to
its end once it is called; nothing is assumed of the client.

### Layout

One action for each way through the loop body of `complete_message_defs`:
`PointerField`, `ScalarField`, and `Unresolved` for the early error; `Close` is
the end of a message.  Types arrive resolved.  The 16-bit stores of offsets and
sizes are kept (`% U16`).  Nothing in the code checks that they fit, so the
properties that depend on it say `Fits`; alignment needs no such condition.

Run *layout*: up to six fields of all scalar sizes and pointers, a "16-bit" range
of 24, so that large messages do not fit and wrapped offsets occur as well.

### Wire and Message

`Wire` keeps buffers as values: a function from word numbers to words, with `len`
and `cap` in bytes.  A word is a number below `8 * SN * PN`, with the header bits
in the order of the program; pointers are computed modulo that number as they
are modulo 2^32 in C.  A buffer that grows reads zero beyond its length; one that
does not keeps what lies there.  The run's numbers (`SN` 16, `PN` 8) leave room
for every buffer the inputs can build.

`Message` is a schema with one field of each kind that parser, printer and
generator treat differently (a scalar, a string, a message, and repeated ones),
and the getters generated for it, which read any object, also one of an older
version with a smaller scalar part or fewer pointers.  `Decode` reads a whole
message by them.

A string is empty or has one character, so the buffer's length is often not a
multiple of the word and alignment matters.  One abstraction: the terminating
null byte of an empty string clears the whole word beyond `len` here, one byte of
it in the program.

### TextParser

The stack of C calls is `stack`, with a frame for each `parse_alloced_msg` and
`parse_repeated_field`; the chain of new buffers is `bufs`.  An action reads a
field, an element, or a closing token, and then the token ahead: any token, which
is how all inputs are enumerated, or the next one of `text` when the input is
given.  `Fail` is any error at any place; it leaves bytes beyond `len` as the code
does.  In a given text it is only what the code refuses (`Refused`).  A failed
assertion is the action `Abort`.  The n-th value in an enumerated input is the
number n, so values that were mixed up are seen.  With each message frame goes
the document read so far, and Faithful compares `Decode` of the finished buffer
with it.

### Accessors and ObjectStore

`Accessors` is a program that holds handles of objects and calls the functions
`lang_c.c` generates, each call one action: allocators of messages and of the
three kinds of arrays, setters of scalars, strings, elements and pointers.  The
order of steps within a call is the code's: `M_set_s` allocates before it looks
for the field, `M_alloc_xs` after, `M_set_ss` in between.  The buffer grows, or
has 60 bytes and is full sooner or later in the middle of a call; objects are of
this version or of one with the fields s and n alone.

`ObjectStore` is what the program may rely on: a call that succeeds has its
effect on one field, a call that fails none.  The refinement mapping is `seen`,
what the getters return through every handle; it is a variable, set by each
action to the value of `Fields` after it, so that TLC evaluates it once.
A pointer is mapped to the number of the handle of the object it leads to, so
a pointer that leads to the right kind of object in the wrong place shows.

### Printer, RawDecoder and Messages

`Printer` gives the tokens that `nbuf_print` writes, with a comment where the
limit of the depth cuts the text.  `RawDecoder` is the walk of `nbufc_decode_raw`
from header to header.  `Messages` puts them together as `nbufc -decode`,
`-encode` and `-decode_raw` do: `Build` is a call of an accessor, `PrintRoot` prints
the first message, and the parser reads what was printed into a second buffer,
under the same limit of the depth.  In other behaviours the parser reads any
text.  RoundTrip says that what was printed is accepted and reads back as the
message built; RawShowsAll that the raw decoder gets through every buffer, and
meets every object.

Run *messages*, for texts, three bounds of `MCBounds`: *Documents*, all field
kinds, 4 field names, depth 3: enough for each kind inside each other, and for two
elements with content; *Nesting*, repeated messages and strings, 6 field names,
depth 4: arrays in arrays with several elements on two levels, where new buffers
are joined level by level; *Reuse*, two parses on one buffer with failures
between.  Each starts with a buffer that grows and with one of fixed capacity.
For built messages: `MaxCalls` 4, the allocation of the first and three more calls, arrays of
0 and 2 elements, and a limit of the depth of 2, so that messages in messages
are cut or not.

### Escape and Lexer

`Escape` has the two functions on bytes, `Lexer` one action for each way through
a turn of `nbuf_lex`; a loop over characters is the stretch of text it consumes
(`Past`).  `TakeLiteral` and `TakeOther` are what `parse_str` makes of adjacent
literals.  The input is any of a set of texts, or what `nbuf_print_escaped` writes
for a string, with or without line breaks and loose escaping.

Run *literals*: all texts of up to five characters over three alphabets, one
for literals (quote, backslash, newline, a letter with an escape, x, a digit),
one for numbers (0, 1, 8, x, e, dot, minus) and one for comments (slash, star,
hash, newline, letter, space), and all strings of up to three bytes over eleven
that are printed in different ways.  Five characters hold the longest form each
scanner decides by; three bytes put each byte between each two others.  The
references are written apart from the scanners: `IsInt` and `IsFloat` say what
a number is, and NumbersRead that a token is the longest one.

Fairness, for LexerEnds: weak fairness of `Next`; a lexer runs until its input ends.

### FileIO, SearchPath and Nbufc

`FileIO` loads a file by mapping it or by a loop of reads, each of any length, with
a buffer that grows by any amount and may move; the i-th byte of a file is the
number i.  `SearchPath` builds the paths of a search in one buffer, character by
character, as the hazard is in the moving of characters.  `Nbufc` is `main()`: the
command line is chosen as it is read, and every call may fail.  The schema is
loaded into a buffer that was never initialised and the input of `-encode` into
one that was, as in the code; when `fstat()` fails on the schema the program goes
on with an uninitialised buffer, which is the state "undefined".

Run *nbufc*: `BUFSIZ` 2 and files of up to 5 bytes, so that a load takes up to six
reads and two growths; up to three directories of five forms (empty, the root,
with and without a slash at the end, of different lengths), so that the name
moves up and down; `MAXINCDIR` is 3 for 63.  LoadedWhole, NameKept and ResultOrError
are about histories (`tried`, `done`, `inputWhole`), compared with what the code
returns or exits with.  The program stops by design, so the run does not look
for deadlocks.  *generated*: see Findings.

### Imports

One action per outcome of `parse_file` (`KnownFile`, `NewFile`, `NoFile`), one for
each import statement, and `Define` and `BadFile` for what follows the imports.
`Unwind` is the error path of one `parse_opened_file`.  `states` is the caller's
table of `FileState`s, and `stack` the running calls.  Both entry points of the
compiler are initial states.  A `FileState`'s name may be left behind when the
schema buffer it points into grows, at the package statement or at the
definitions; comparing such a name then has either result, and the history
variable `stale` records that it was done.

Run *imports*: all graphs over three files with up to two import statements each,
seen from one root (by symmetry any); `MAX_DEPTH` 4, so the limit is reached only
by circles that names do not reveal.  CompiledOnce and CirclesRefused do not hold
when stale names are compared, and say so.

Fairness, for CompilerEnds: weak fairness of `Next`, one thread that runs to its
end.  The property holds even when stale names are compared, thanks to the depth
limit.

### SchemaDefs and Resolve

`SchemaDefs` starts where `Imports` has its action `Define`: the imports of a file
are compiled, and its enums and messages are read.  `ss` is the buffer of its
schema, `buf` the two of `ctx->bufs` that are ever used, `defs` and `items` the two
arrays under construction, `typenames` the list of names still to resolve.
`DefBegin` and `EndItems` are one definition of `parse_enum_defs` or
`parse_message_defs`, `EnumVal` and `FieldDef` one item, `EndDefs` the end of a
list of definitions.  `Complete` is the whole of `complete_message_defs`: it
replaces the names of types (`Resolve!ResolveType`) and lays out the messages.
The memory of `buf` is not cleared from one definition or file to the next, as in
the code.  The ghost `doc` is what the file says, and a schema is read back
with `nbuf_get_field_type` for its types.  A word has 10 bits in the runs, 5 of
them for a 16-bit field: header, length and distance each fit with room to spare,
and the value 31 + 1 does not fit.

Run *schema*, with two shapes of input.  One file of up to five names, over two names of definitions,
three builtin types (a one-byte scalar, a word, a pointer) and explicit values 0
and 31; five names are enough for an enum and a message with two fields of it.
Three files of two names each, one definition with one item, with
and without a package and with up to two imports.  Three files have direct,
indirect and repeated imports, and each kind of definition is built in memory
that holds the remains of each other.  *enum_zero*: see Findings.  The symbols
and fields of all files have names of their own, for the code never compares them.

## Findings

1. *A failed parse leaves a trace* (run *failed_parse*).  `nbuf_parse` restores
   `len` "as if nothing happened" (`src/parse.c:378`) and not the bytes.  The next
   parse on the same buffer takes them for values: after the input `x: 1 y`, which
   fails, `s: "k"` reads back with x = 1.  In the run *messages* assertions of
   `nbuf_fix_arr` fail this way too, which is why NoAbort leaves such buffers out.
2. *Scattered repeated fields are accepted inside elements* (run *scattered*).
   In an element of a repeated message the earlier occurrence is marked by a
   pointer into a new buffer, which the test in `parse_repeated_field` reads as a
   distance.  `r { xs: 1 x: 2 xs: 3 }` is accepted and the 1 is lost, while
   `src/test.c:208` expects scattered fields to be refused.
3. *The persistent file name is not* (run *import_names*).  `src/compile.c:652`
   calls the name in the `FileState` persistent; it lies in the schema buffer,
   which moves as soon as the definitions outgrow its first 4096 bytes, and is
   compared for each later import.
4. *The first symbol of an enum need not be zero* (run *enum_zero*).
   `parse_enum_defs` has one running value for all enums of a file
   (`src/compile.c:502`), so in `enum A { X } enum B { Y }` the value of `Y` is 1.
   `doc/schema.txt:66` says zero "if this is the first symbol".

5. *Half of the generated code* (run *generated*).  `nbufc_codegen_c` keeps the
   result of the header, success, when it cannot open the source file
   (`nbufc/lang_c.c:587`), so `nbufc -c_out` exits with 0 without the `.nb.c` file that
   `doc/c_api.txt:75` promises.

The first four were reproduced with a small C program against the library.

Seen while reading, and modelled as the code does it without a claim, for no
document says otherwise:

- an unreadable schema is compiled as an empty one, and `nbufc` exits with 0
  (`src/compile.c:737`); an empty input of `-encode` or `-decode` is an error;
- results of `fclose()` and of the flush at exit are dropped (`src/util.c:197`), and a
  read error ends `-decode_raw` like the end of the input (`nbufc/raw.c:51`);
- a text that the printer cut at its limit of the depth is cut without a sign for
  the parser, which reads the rest (`src/print.c:208`);
- `0x` without a digit and `1.` or `1e` are numbers; a newline after a backslash in a
  literal is not counted; a literal with a newline in it and a comment that is not
  closed are reported and accepted (`src/lex.c:104`, `:163`, `:208`);
- the empty directory of `-I=` means the root (`src/compile.c:57`);
- names need not be unique, though `doc/schema.txt:33` asks for it (a TODO at
  `src/compile.c:320`); a singular string set twice keeps its first value if the second
  is empty (`src/parse.c:169`); a request for 0 bytes on an empty buffer returns NULL
  (`src/nbuf.h:207`);
- the raw decoder takes a string of 2^29 bytes or more for an array (`nbufc/raw.c:62`).

## What is proved

TLAPS proves the following for every value of the constants.  The assumptions are
the ones named in the modules: a word of at least two bytes, positive
alignments, a depth limit and a `BUFSIZ` of at least one; for the layout, that the
number of 16-bit values is a multiple of the word size; for the schema, that a
word has two halves; for the text parser, that the sizes of the message fit the
header (`HeaderAssumption`), that limits of the depth are natural numbers and that
output buffers are cleared beyond `len`; for `nbufc`, that no argument holds a null
byte.  In each proof module an inductive invariant comes first, one lemma for each action that it
is not obvious for, then one theorem for each property of the runs.

`BufferProofs`: TypeCorrect, MemorySafe (InBounds, GrownEnough), GrowAssertionHolds,
FreshZero, FreshRegions, GrowthKeeps and Implements.  All rest on the
invariant `IInv`, which adds three facts to the properties: who owns the memory
(a base is null exactly when there is no memory; a buffer on caller's memory does
not grow), what a running request looks like (it is larger than the capacity),
and that the last answer lies at the end of the buffer, needed for the client's
store to stay in the string.  The refinement maps `size` to `len` and `content`
to the first `len` bytes of the memory; growth steps stutter.

`LayoutProofs`: TypeCorrect, FieldsDisjoint, FieldsInside, WholeWords and
ArraysAligned.  The invariant relates each field's stored offset to the running
sizes: scalars lie in order below `ssize`, pointers below `psize`, each offset is
a multiple of its alignment, and `maxAlign` is a multiple of the alignment of each
scalar.  `Elements`, the array elements whose addresses ArraysAligned speaks of, is
any set of numbers here and has four members in the run.

`NbufcProofs` has two parts.  Of `FileIO` alone: TypeCorrect, WholeFile and
NoMappingLost, for every `BUFSIZ`, size of the file and growth of the buffer.  The
invariant adds to LoadedWhole what the loop of `nbuf_load_fd_read` keeps true at
each turn (`Prefix`: the buffer holds just what was read so far), and that a mapping
exists exactly while the caller has a mapped buffer (`MapsKept`).

Of the program: LoadsAsFileIO, ProgramLoadsWhole, SearchKeepsName,
SuccessMeansResult and MainTypeCorrect.  The first is a refinement: each step of the program is a step of
`FileIO` or leaves its variables alone, and so what is proved of a load holds of
each load the program makes.  In particular a mapping is undone before the
next load on every path, which `FileIO` alone takes for granted.  For the search
the invariant says where the name stands in the buffer (`NameStands`: behind the
last directory, with its null byte, in a buffer that holds all of it), and that
the paths tried are those of the directories, in order (`InOrder`); it is kept
because `memmove` reads what was there before, whichever way the name moves and
however much the buffer was extended.  For the exit status, `MainInv` says what
`main()` has done where it stands: it converts only an input loaded whole, and
asks for the source file of C only after the header was written.

`ImportsProofs`: TypeCorrect, OpenFilesAreRunning, ImportsCompiled, EachCompiledOnce
and CirclesAreRefused, for every import graph, also an infinite one, and every
limit of the depth.  `IInv` describes the stack: the files of the running calls are
the open ones, in the order they were opened (`Running`), each call but the last
waits for the file of the next (`Waiting`), and what a call has imported is compiled
and what its statements name (`Served`, `Compiled`).  Two properties need more.
No circle at success needs that each compiled file lies on none (`Acyclic`): all
that is below the file compiled by `Define` is below its imports, which have been
compiled, and the file itself has not.  A reported circle is one since the calls
from that of the file met again to the last each lead to the next (by induction
on their distance).  "Below" is the least complete set, so no path needs to be
constructed.

`WireProofs` has no theorem of its own: it says of each operation of `Wire` what
words it may change (`Kept`), where its answer lies and what is read there, that
an array at the end of its buffer may be extended, and that the assertions of
`nbuf_fix_arr` hold for an array whose pointers stay below the length of the
buffer that is joined (`FixableIs`).  Its last part gives each word of a buffer a
kind (`Typed`): words that are never stored to again (headers, lengths and, from
the next parse on, all that was there), pointers, each null or the distance to the
header of an object whose own pointers are of that kind (`Leads`), and data.  What
is so typed may be carried on, to a buffer that grew or to another one further on
(`Carries`), and leads to the same objects there, moved (`LeadsMoved`); this is what
`nbuf_fix_arr` does, which turns positions in the buffer it appends into distances.

`SchemaDefsProofs`: BuildInvariant, NoAssertionFails and FilesStartClean, for every
number of names, definitions, items and files.  The
invariant `BuildInv` says what the three buffers hold between two names: an array
in the making is at the end of its buffer, whole (`Whole`) or with its last element
begun (`Partial`), and the pointers stored in it lie below the length of the buffer
they will be joined with; between the definitions the second buffer is empty,
and between files both.  It says nothing of the memory beyond `len`, as nothing is
known of it: the proof shows that each element's pointers are stored before they are
fixed, whatever lay there.

`TextParserProofs`: InvariantHolds and NothingAborts, for every set of fields, any
number of tokens and parses, every limit of the depth and width of a word, and
output buffers of any capacity that grow or do not.  The invariant `IInv` has four
parts.  `Chain` says which buffer each frame works on: an element that is a message
lies with its array, all else in the buffer that the frame below builds in
(`Home`), so that each array but the innermost has all of its contents in later
buffers.  `Memory` has a message where its header is, and an array at the end of its
buffer with one place for each element begun.  While no parse has failed on the
buffer, `ArrClean` says that the pointers of the elements lead to what lies in the
next buffer (`PtrTo`), which is what `nbuf_fix_arr` asserts of them; this needs that the
memory beyond `len` is clear, but for the word behind it (`GoodBuf`), for an element
is not cleared when it is allocated.  `Apart` says that an array is never the
first thing in a buffer with a message, or its header could not be told from a
length.  An action changes several frames and buffers in turn, so the lemmas
speak of any buffers `bs` and frames `st` that are so (`Under`): TopStore, GrowCur,
ElemStore, PushMsg, PopMsg, PushRep, PopRep and the like are the steps the actions
consist of, and AssertsHold what the assertions need.

Then EarlierStays: no later parse changes a message that was parsed before
(EarlierIntact), for the same constants.  It needs that no buffer outgrows the
range of a word, as offsets are words (`WithinWords`): TypeOK, which the runs check,
implies it (EarlierStaysTyped), and for all inputs it does not hold, as the program
does not check it.  `Decode` is recursive, and what it reads in two buffers is
compared by induction on the depth (`Level`, SameDecode): it reads the same if all
that can be reached from the root lies in words that are the same (`Agree`).  The
invariant `EInv` says that this is so for each result, up to the length the buffer
had when the running parse began (`FixedLen`), and gives the words of every buffer a
kind (`Held`): a message of the stack has five words of the kind of pointers
(`MsgTyped`), unless it is an element of an array that is not complete; an array
under construction lies behind all that is of a kind, and its pointers are
positions in the next buffer (`ArrTyped`).  It has the stack in the order of the
buffer (`Ordered`), so that what a pointer of a message leads to lies behind it, and
distances do not wrap around.  Each action is again split into steps on `bs` and `st`
(SetPtrTyped, PushStep, PopRepTyped and the like); at the end of an array,
FinishedTyped shows that its positions become distances to the same objects.

`Induction` derives induction on numbers from the least element of a set of
numbers; so facts that need it can be proved about recursive functions, with the
hypothesis as a set instead of a formula.

Only model-checked, and why:

- termination of the growth loop, of the compiler and of the lexer (CompilerEnds,
  LexerEnds): liveness is out of the prover's reach;
- Faithful of `TextParser`, and `Accessors` against `ObjectStore`: they
  compare all that can be reached from an object with a document, and so need not only
  the kind of each word but its value, for all that is complete; and TypeOK of
  `TextParser`, whose bound (no buffer outgrows the range of a word) holds for inputs of the sizes the runs read and
  not for all, as the program does not check it;
- `Printer` and `Messages`: the printer is a RECURSIVE operator, which the prover
  cannot take;
- Faithful, FieldsApart and RefusedForAType of `SchemaDefs`, which compare all of the
  schema with what the file says, through the layout, the joins and type
  resolution, and so need what the whole content of an array is and not only where
  its pointers lead; and its TypeOK, whose bound (no buffer outgrows the range of
  a word) holds for inputs of the sizes the run reads and not for all, as the program
  does not check it;
- what `Escape` and `Lexer` compute, which compares recursive functions over texts with
  definitions written apart from them.

## Plan

1. Faithful of `TextParser`: the document read so far with the words that hold it, which
   adds values to the kinds of words in `Held`.
2. TypeOK and LinesCounted of `Lexer`, with the lemmas of `Induction`.
3. A second call of the compiler on one table in `Imports`, which a failure empties.
4. `Imports` with `SearchPath` for the search of each file.

## Not modelled

- The text the code generators write, apart from what the generated C accessors
  do: includes, names, tables of reflection and all of the C++ output.  It is output
  without state; whether it compiles is a matter of C.
- The C++ wrapper (`src/nbuf.hpp`), whose members forward to the object layer.
- The conversion of numbers and enum symbols in the parser, printer and compiler
  (calls of the C library and linear searches), and scalars wider than a word.
- Lookups of fields and enum values by name (`refl.c`): linear searches without state.
- `nbuf_save_fd`, which nothing calls, and the branches for Windows.
- The benchmarks, the tests and the test framework `src/acutest.h`.
