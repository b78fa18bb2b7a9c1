----------------------------- MODULE SchemaDefs -----------------------------
(***************************************************************************)
(* The schema compiler on the definitions of a file (from the enums on in  *)
(* parse_opened_file, compile.c): enums and messages are read one after    *)
(* the other and built, in wire format, as an object Schema.  The elements *)
(* of an array under construction lie in a row at the end of their buffer, *)
(* so the names and items of the definitions go to buf[1], the names of    *)
(* the items to buf[2]; they are appended when their array is complete.    *)
(* At the end the names of types are replaced by what they refer to.       *)
(*                                                                         *)
(* One context compiles file after file, each before those that import it, *)
(* with the same two buffers: their length is reset, their bytes are not.  *)
(*                                                                         *)
(* The names of items are the numbers 1, 2, ... in order of appearance.    *)
(***************************************************************************)
EXTENDS Wire, Resolve

CONSTANTS W,         \* number of values of a 16-bit field: half a word
          DefNames,  \* names a definition may have
          Shapes     \* the shapes of input an instance explores: records of
                     \*   pkgs, package names, 0 for no package statement
                     \*   ints, the integers that may follow `='
                     \*   builtins, the builtin types a field may have
                     \*   files, the number of files
                     \*   names, of definitions and items in a file

ASSUME WAssumption == M = W * W

VARIABLES
    shape,      \* the shape of the input
    pc,         \* "idle", "enums", "values", "messages", "fields", "complete";
                \* "unresolved" and "failed" at the end
    ss,         \* the buffer of the schema in the making
    buf,        \* ctx->bufs, the two that are used
    defs,       \* the array of enums or messages: its first element, and how many
                \* are complete
    items,      \* the same for the values or fields of the last of them
    value,      \* the value the next enum symbol has
    typenames,  \* ctx->typenames
    doc,        \* ghost: what the file says
    files       \* history: the files compiled; [b, imports, doc]

vars == <<shape, pc, ss, buf, defs, items, value, typenames, doc, files>>

UNRESOLVED_IMPORT_ID == W - 1

\* Schema is { pkg_name, src_name, enums, messages }: pointers only.
SchemaPsize == 4
SchemaObj == Object(1, 4, 0, SchemaPsize)
DefsIndex(k) == IF k = "enums" THEN 2 ELSE 3

\* EnumDef { name, values }, MsgDef { name, fields, ssize, psize },
\* EnumVal { symbol, value }, FieldDef { name, kind, import_id, type_id, offset }
DefSsize(k) == IF k = "enums" THEN 0 ELSE 4
DefPsize == 2
ItemSsize(k) == IF k = "enums" THEN 4 ELSE 8
ItemPsize == 1
ItemsOf(k) == IF k = "enums" THEN "values" ELSE "fields"

-----------------------------------------------------------------------------
(* 16-bit scalars: field i of an object is half a word *)

HalfOffset(o, i) == o.off + 4 * o.psize + 2 * i
Half(b, o, i) ==
    IF HalfOffset(o, i) % 4 = 0 THEN WordAt(b, HalfOffset(o, i)) % W ELSE WordAt(b, HalfOffset(o, i)) \div W

\* Fields i and i + 1 of an object, for an even i; and field i alone
SetHalves(b, o, i, v, w) == SetWord(b, HalfOffset(o, i), (v % W) + W * (w % W))
SetHalf(b, o, i, v) == SetHalves(b, o, i, v, Half(b, o, i + 1))

KIND == 0
IMPORT_ID == 1
TYPE_ID == 2
OFFSET == 3

Elems(p) == [i \in 1 .. p.n |-> Element(p, i)]

-----------------------------------------------------------------------------
(* An array in the making: [first, n]; n elements are complete *)

NoArr == [first |-> Null, n |-> 0]
InMaking(a) == Element(a.first, a.n + 1)

\* The array in b, with one more element.  The first comes with a header.
WithElem(b, a, ssize, psize) == IF a.n = 0 THEN AllocArr(b, 1, ssize, psize) ELSE Alloc(b, ObjSize(a.first))
BeginArr(b, a, ssize, psize) == IF a.n = 0 THEN [first |-> NewArr(b, 1, ssize, psize), n |-> 0] ELSE a

\* nbuf_resize_arr and nbuf_fix_arr at the end of it
Resized(b, a) == ResizeArr(b, a.first, a.n)
Finished(b, a, newbuf) == FixArr(Resized(b, a), a.first, a.n, newbuf)

Emptied(b) == [b EXCEPT !.len = 0]

-----------------------------------------------------------------------------
(* Reading a schema back, as the generated accessors and reflection do *)

Defs(b, o, k) == Elems(ObjP(b, o, DefsIndex(k)))
DefNamesOf(b, o, k) == [i \in DOMAIN Defs(b, o, k) |-> ReadStr(b, ObjP(b, Defs(b, o, k)[i], 0))]
View(b, o) == [pkg |-> ReadStr(b, ObjP(b, o, 0)),
               enums |-> DefNamesOf(b, o, "enums"), msgs |-> DefNamesOf(b, o, "messages")]
ViewsOf(imports) == [i \in DOMAIN imports |-> View(files[imports[i]].b, SchemaObj)]

\* A type: builtin, by its kind and size; or the definition it refers to
Builtin(kind, id) == <<"builtin", kind, id>>
Defined(pkg, base) == <<"defined", pkg, base>>

ReadType(b, o, imports, f) ==
    LET kind == Half(b, f, KIND) % ARRAY
        r == [kind |-> kind, import |-> Half(b, f, IMPORT_ID), id |-> Half(b, f, TYPE_ID)]
        def == GetFieldType(View(b, o), ViewsOf(imports), r)
    IN  IF kind \notin {ENUM, MSG} THEN Builtin(kind, r.id) ELSE Defined(def.pkg, def.base)

ReadValue(b, v) == [sym |-> ReadStr(b, ObjP(b, v, 0)), val |-> Half(b, v, 0)]
ReadField(b, o, imports, f) ==
    [sym |-> ReadStr(b, ObjP(b, f, 0)), rep |-> Half(b, f, KIND) >= ARRAY, type |-> ReadType(b, o, imports, f)]

ReadDefs(b, o, imports, k) ==
    [i \in DOMAIN Defs(b, o, k) |->
        LET d == Defs(b, o, k)[i]
            its == Elems(ObjP(b, d, 1))
        IN  [name |-> ReadStr(b, ObjP(b, d, 0)),
             items |-> [j \in DOMAIN its |->
                 IF k = "enums" THEN ReadValue(b, its[j]) ELSE ReadField(b, o, imports, its[j])]]]

-----------------------------------------------------------------------------
(* What a file says *)

Named(pkg, base) == <<"named", pkg, base>>
NoInt == M   \* no integer follows the symbol
EmptyDoc == [pkg |-> 0, imports |-> <<>>, enums |-> <<>>, messages |-> <<>>]
ItemsIn(d) == FoldLeft(LAMBDA k, def : k + Len(def.items), 0, d.enums \o d.messages)
NamesIn(d) == Len(d.enums) + Len(d.messages) + ItemsIn(d)

\* The names of items count on from file to file.
NextSym == 1 + ItemsIn(doc) + FoldLeft(LAMBDA k, f : k + ItemsIn(f.doc), 0, files)

WithDef(k, name) == doc' = [doc EXCEPT ![k] = Append(@, [name |-> name, items |-> <<>>])]
WithItem(k, item) == doc' = [doc EXCEPT ![k][Len(doc[k])].items = Append(@, item)]
MoreNames(k) == NamesIn(doc) + k <= shape.names

TypeNames == [pkg : shape.pkgs, base : DefNames]
\* nbuf_lookup_builtin_type, for three of the builtin types
BuiltinType(t) ==
    CASE t = "uint8" -> Builtin(UINT, 0) [] t = "uint32" -> Builtin(UINT, 2) [] t = "string" -> Builtin(STR, 0)

-----------------------------------------------------------------------------
Init ==
    /\ shape \in Shapes
    /\ pc = "idle" /\ ss = NewBuf(0) /\ buf = <<NewBuf(0), NewBuf(0)>>
    /\ defs = NoArr /\ items = NoArr /\ value = 0 /\ typenames = <<>>
    /\ doc = EmptyDoc /\ files = <<>>

\* A string that hangs off an object in its own buffer
AddStr(b, o, i, v) == SetP(AllocStr(b, v), o, i, Start(b), TRUE)

\* parse_opened_file up to the definitions: the schema gets its file's name and
\* its package; its imports are compiled by now.
BeginFile ==
    /\ pc = "idle" /\ Len(files) < shape.files
    /\ \E pkg \in shape.pkgs, imports \in SeqOf(DOMAIN files, 2) :
           LET b == AddStr(AllocObj(NewBuf(0), 0, SchemaPsize), SchemaObj, 1, 1)
           IN  /\ ss' = IF pkg = 0 THEN b ELSE AddStr(b, SchemaObj, 0, pkg)
               /\ doc' = [EmptyDoc EXCEPT !.pkg = pkg, !.imports = imports]
    /\ pc' = "enums" /\ value' = 0
    /\ UNCHANGED <<buf, defs, items, typenames, files>>

\* Mutant: the name goes to the buffer of the array.
DefBegin_SameBuffer(k) ==
    /\ pc = k /\ MoreNames(2)
    /\ defs' = BeginArr(ss, defs, DefSsize(k), DefPsize)
    /\ \E name \in DefNames :
           /\ ss' = AddStr(WithElem(ss, defs, DefSsize(k), DefPsize), InMaking(defs'), 0, name)
           /\ WithDef(k, name)
    /\ items' = NoArr
    /\ pc' = ItemsOf(k)
    /\ UNCHANGED <<buf, value, typenames, files>>

\* parse_enum_defs, parse_message_defs: one more definition, up to its brace
DefBegin(k) ==
    /\ pc = k /\ MoreNames(2)
    /\ LET ds == BeginArr(ss, defs, DefSsize(k), DefPsize)
           c == WithElem(ss, defs, DefSsize(k), DefPsize)
       IN  /\ defs' = ds
           /\ ss' = SetP(c, InMaking(ds), 0, Start(buf[1]), FALSE)
    /\ \E name \in DefNames :
           /\ buf' = [buf EXCEPT ![1] = AllocStr(@, name)]
           /\ WithDef(k, name)
    /\ items' = NoArr
    /\ pc' = ItemsOf(k)
    /\ UNCHANGED <<value, typenames, files>>

\* One more item of a definition, and its name, which goes to buf[2]
NextItem(k) == BeginArr(buf[1], items, ItemSsize(k), ItemPsize)
WithNamedItem(k) ==
    SetP(WithElem(buf[1], items, ItemSsize(k), ItemPsize), InMaking(NextItem(k)), 0, Start(buf[2]), FALSE)

\* Mutant: a value of 0 is not stored, for memory is 0 anyway.
EnumVal_SkipsZero ==
    /\ pc = "values" /\ MoreNames(1)
    /\ \E given \in shape.ints \cup {NoInt} :
           LET v == IF given = NoInt THEN value ELSE given
               c == WithNamedItem("enums")
           IN  /\ buf' = <<IF v = 0 THEN c ELSE SetHalf(c, InMaking(NextItem("enums")), 0, v),
                           AllocStr(buf[2], NextSym)>>
               /\ value' = v + 1
               /\ WithItem("enums", [sym |-> NextSym, given |-> given, val |-> v])
    /\ items' = [NextItem("enums") EXCEPT !.n = @ + 1]
    /\ UNCHANGED <<pc, ss, defs, typenames, files>>

\* parse_enum_vals: a value that does not fit is reported, and stored modulo W.
EnumVal ==
    /\ pc = "values" /\ MoreNames(1)
    /\ \E given \in shape.ints \cup {NoInt} :
           LET v == IF given = NoInt THEN value ELSE given
           IN  /\ buf' = <<SetHalf(WithNamedItem("enums"), InMaking(NextItem("enums")), 0, v),
                           AllocStr(buf[2], NextSym)>>
               /\ value' = v + 1
               /\ WithItem("enums", [sym |-> NextSym, given |-> given, val |-> v])
    /\ items' = [NextItem("enums") EXCEPT !.n = @ + 1]
    /\ UNCHANGED <<pc, ss, defs, typenames, files>>

\* The scalars of a FieldDef; until Complete, offset holds a line number.
FieldScalars(b, f, kind, import, id, offset) ==
    SetHalves(SetHalves(b, f, KIND, kind, import), f, TYPE_ID, id, offset)

\* parse_field_defs: builtin types are known at once, other names are kept.
FieldDef ==
    /\ pc = "fields" /\ MoreNames(1)
    /\ LET b == WithNamedItem("messages")
           f == InMaking(NextItem("messages"))
           Put(kind, import, id) == buf' = <<FieldScalars(b, f, kind, import, id, NextSym), AllocStr(buf[2], NextSym)>>
       IN  \E rep \in BOOLEAN :
               LET arr == IF rep THEN ARRAY ELSE 0
               IN  \/ \E t \in {BuiltinType(s) : s \in shape.builtins} :
                         /\ Put(t[2] + arr, 0, t[3])
                         /\ WithItem("messages", [sym |-> NextSym, rep |-> rep, type |-> t])
                         /\ UNCHANGED typenames
                   \/ \E t \in TypeNames :
                         /\ Put(VOID + arr, UNRESOLVED_IMPORT_ID, Len(typenames))
                         /\ WithItem("messages", [sym |-> NextSym, rep |-> rep, type |-> Named(t.pkg, t.base)])
                         /\ typenames' = Append(typenames, t)
    /\ items' = [NextItem("messages") EXCEPT !.n = @ + 1]
    /\ UNCHANGED <<pc, ss, defs, value, files>>

\* Mutant: the buffer of the items' names is not emptied.
EndItems_KeepsNames(k) ==
    LET b == Finished(buf[1], items, buf[2])
    IN  /\ pc = ItemsOf(k) /\ items.n > 0
        /\ buf' = <<b, buf[2]>>
        /\ ss' = SetP(ss, InMaking(defs), 1, HdrOffset(b, items.first), FALSE)
        /\ defs' = [defs EXCEPT !.n = @ + 1]
        /\ pc' = k
        /\ UNCHANGED <<items, value, typenames, doc, files>>

\* The closing brace: the items are complete.
EndItems(k) ==
    LET b == Finished(buf[1], items, buf[2])
    IN  /\ pc = ItemsOf(k) /\ items.n > 0
        /\ buf' = <<b, Emptied(buf[2])>>
        /\ ss' = SetP(ss, InMaking(defs), 1, HdrOffset(b, items.first), FALSE)
        /\ defs' = [defs EXCEPT !.n = @ + 1]
        /\ pc' = k
        /\ UNCHANGED <<items, value, typenames, doc, files>>

\* The definitions of kind k end; there may be none.
EndDefs(k) ==
    LET c == Finished(ss, defs, buf[1])
    IN  /\ pc = k
        /\ pc' = IF k = "enums" THEN "messages" ELSE "complete"
        /\ IF defs.n = 0 THEN UNCHANGED <<ss, buf>>
           ELSE /\ ss' = SetP(c, SchemaObj, DefsIndex(k), HdrOffset(c, defs.first), TRUE)
                /\ buf' = [buf EXCEPT ![1] = Emptied(@)]
        /\ defs' = NoArr /\ items' = NoArr
        /\ UNCHANGED <<value, typenames, doc, files>>

-----------------------------------------------------------------------------
(* complete_message_defs *)

MsgDefs(b) == Defs(b, SchemaObj, "messages")
FieldDefs(b, mdef) == Elems(ObjP(b, mdef, 1))

AllFields == UNION {ToSet(FieldDefs(ss, mdef)) : mdef \in ToSet(MsgDefs(ss))}

\* What a FieldDef refers to, its name resolved if it is not yet
Resolution(f) ==
    IF Half(ss, f, IMPORT_ID) # UNRESOLVED_IMPORT_ID
    THEN [import |-> Half(ss, f, IMPORT_ID), kind |-> VOID, id |-> Half(ss, f, TYPE_ID)]
    ELSE ResolveType(View(ss, SchemaObj), ViewsOf(doc.imports), typenames[Half(ss, f, TYPE_ID) + 1])

IsPointer(kind) == kind >= ARRAY \/ kind \in {STR, MSG}
RoundUp(x, a) == ((x + a - 1) \div a) * a

\* Mutant: the index of an enum is taken for the logarithm of its size.
ScalarSize_NoEnum(kind, id) == 2 ^ id
ScalarSize(kind, id) == IF kind = ENUM THEN 2 ELSE 2 ^ id

\* A field, which refers to r, gets its place; acc is what the pass has so far.
Place(acc, f, r) ==
    LET kind == Half(acc.b, f, KIND) + r.kind
        size == ScalarSize(kind, r.id)
        at == RoundUp(acc.ssize, Min({size, 4}))
        Put(offset) == FieldScalars(acc.b, f, kind, r.import, r.id, offset)
    IN  IF IsPointer(kind) THEN [acc EXCEPT !.b = Put(acc.psize), !.psize = @ + 1]
        ELSE [acc EXCEPT !.b = Put(at), !.ssize = at + size, !.align = Max({@, Min({size, 4})})]

\* The buffer with the fields of mdef placed, and its sizes
Placed(b, mdef, types) ==
    LET acc == FoldLeft(LAMBDA a, f : Place(a, f, types[f]),
                        [b |-> b, ssize |-> 0, psize |-> 0, align |-> 0], FieldDefs(b, mdef))
        align == IF acc.psize > 0 THEN 4 ELSE acc.align
    IN  SetHalves(acc.b, mdef, 0, RoundUp(acc.ssize, align), acc.psize)

\* The end of the file: its types are resolved, its messages laid out.
Complete ==
    /\ pc = "complete"
    /\ \E types \in {[f \in AllFields |-> Resolution(f)]} :
           /\ \A f \in AllFields : types[f] # Unresolved
           /\ files' = Append(files, [b |-> FoldLeft(LAMBDA b, mdef : Placed(b, mdef, types), ss, MsgDefs(ss)),
                                      imports |-> doc.imports, doc |-> doc])
    /\ pc' = "idle" /\ typenames' = <<>>
    /\ ss' = NewBuf(0) /\ doc' = EmptyDoc
    /\ UNCHANGED <<buf, defs, items, value>>

CannotResolve ==
    /\ pc = "complete"
    /\ \E f \in AllFields : Resolution(f) = Unresolved
    /\ pc' = "unresolved" /\ typenames' = <<>>
    /\ UNCHANGED <<ss, buf, defs, items, value, doc, files>>

\* A syntax error or an allocation that fails: the context is given up, and the
\* schemas of all files are freed with it.
Fail ==
    /\ pc \notin {"idle", "unresolved", "failed"}
    /\ pc' = "failed"
    /\ ss' = NewBuf(0) /\ buf' = <<NewBuf(0), NewBuf(0)>> /\ typenames' = <<>>
    /\ defs' = NoArr /\ items' = NoArr /\ value' = 0
    /\ doc' = EmptyDoc /\ files' = <<>>

Next ==
    /\ \/ BeginFile
       \/ \E k \in {"enums", "messages"} : DefBegin(k) \/ EndItems(k) \/ EndDefs(k)
       \/ EnumVal \/ FieldDef \/ Complete \/ CannotResolve \/ Fail
    /\ UNCHANGED shape

Spec == Init /\ [][Next]_vars

-----------------------------------------------------------------------------
TypeOK ==
    /\ pc \in {"idle", "enums", "values", "messages", "fields", "complete", "unresolved", "failed"}
    /\ \A b \in {ss} \cup ToSet(buf) : b.len <= b.cap /\ b.cap < M /\ b.mem \in [0 .. Words(b.cap) - 1 -> 0 .. M - 1]
    /\ defs.n \in Nat /\ items.n \in Nat /\ value \in Int
    /\ ToSet(typenames) \subseteq TypeNames
    /\ Len(files) <= shape.files

\* What a file means: a type's name without a package means the file's package.
MeantType(d, t) == IF t[1] = "named" THEN Defined(IF t[2] = 0 THEN d.pkg ELSE t[2], t[3]) ELSE t
Meant(d) ==
    [enums |-> [i \in DOMAIN d.enums |-> [name |-> d.enums[i].name,
        items |-> [j \in DOMAIN d.enums[i].items |->
            [sym |-> d.enums[i].items[j].sym, val |-> d.enums[i].items[j].val % W]]]],
     messages |-> [i \in DOMAIN d.messages |-> [name |-> d.messages[i].name,
        items |-> [j \in DOMAIN d.messages[i].items |->
            [d.messages[i].items[j] EXCEPT !.type = MeantType(d, @)]]]]]

Read(f) == [k \in {"enums", "messages"} |-> ReadDefs(f.b, SchemaObj, f.imports, k)]

\* A compiled schema reads back, through the accessors and reflection, as the
\* file that was compiled: every name, value and type, those found in imports
\* included, whatever the buffers held from the definitions before.
Faithful == pc = "idle" => \A f \in ToSet(files) : Read(f) = Meant(f.doc)

\* No assertion of nbuf_resize_arr or nbuf_fix_arr fails: the array of the
\* definitions and that of the items are both the last thing in their buffer
\* whenever they take an element or end.
AssertsHold ==
    /\ pc \in {"values", "fields"} => AtEnd(ss, defs.first, defs.n + 1)
    /\ pc \in {"values", "fields"} /\ items.n > 0 =>
           /\ AtEnd(buf[1], items.first, items.n)
           /\ Fixable(Resized(buf[1], items), items.first, items.n, buf[2])
    /\ pc \in {"enums", "messages"} /\ defs.n > 0 =>
           /\ AtEnd(ss, defs.first, defs.n)
           /\ Fixable(Resized(ss, defs), defs.first, defs.n, buf[1])

\* After a file the context is as the next file expects it: nothing in the
\* buffers, no name left to resolve.  (The files of a compilation share it.)
CleanBetweenFiles == pc = "idle" => buf[1].len = 0 /\ buf[2].len = 0 /\ typenames = <<>>

\* A file is refused for its types only if one of them is defined neither in
\* the file nor in a direct import, in the package that the name means.
RefusedForAType ==
    pc = "unresolved" =>
        \E d \in ToSet(doc.messages) : \E it \in ToSet(d.items) :
            /\ it.type[1] = "named"
            /\ \A v \in {doc} \cup {files[i].doc : i \in ToSet(doc.imports)} :
                   v.pkg = MeantType(doc, it.type)[2] =>
                       \A def \in ToSet(v.enums \o v.messages) : def.name # it.type[3]

\* Every field of a compiled message has storage of its own inside the message,
\* of the size its resolved type has (an enum is found only after its size).
FieldsApart ==
    pc = "idle" => \A f \in ToSet(files) : \A mdef \in ToSet(MsgDefs(f.b)) :
        LET fs == FieldDefs(f.b, mdef)
            Kind(i) == Half(f.b, fs[i], KIND)
            From(i) == Half(f.b, fs[i], OFFSET)
            \* what the accessors read and write: a pointer, an enum's 16 bits, a number
            Taken(i) == CASE IsPointer(Kind(i)) -> 1 [] Kind(i) = ENUM -> 2
                          [] OTHER -> 2 ^ Half(f.b, fs[i], TYPE_ID)
            To(i) == From(i) + Taken(i)
        IN  \A i \in DOMAIN fs :
                /\ To(i) <= Half(f.b, mdef, IF IsPointer(Kind(i)) THEN 1 ELSE 0)
                /\ \A j \in DOMAIN fs : j < i /\ IsPointer(Kind(i)) = IsPointer(Kind(j)) => To(j) <= From(i)

\* schema.txt:66: the default value of a symbol is "zero if this is the first
\* symbol" of its enum.
FirstSymbolZero ==
    pc = "idle" => \A f \in ToSet(files) : \A i \in DOMAIN f.doc.enums :
        f.doc.enums[i].items[1].given = NoInt => Read(f).enums[i].items[1].val = 0
=============================================================================
