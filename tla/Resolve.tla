------------------------------ MODULE Resolve ------------------------------
(***************************************************************************)
(* From the name of a type to its definition, and back.  The schema        *)
(* compiler replaces a name by the number of a schema in sight and an      *)
(* index among the definitions of that schema (resolve_type in compile.c,  *)
(* nbuf_lookup_defined_type in refl.c); reflection follows them            *)
(* (nbuf_get_field_type in refl.c).                                        *)
(*                                                                         *)
(* A schema is seen as a record: pkg, its package, 0 for none; enums and   *)
(* msgs, the names it defines, in order.  A type name is a record: pkg, 0  *)
(* when it is not qualified, and base.                                     *)
(***************************************************************************)
EXTENDS Integers, FiniteSets, Sequences, SequencesExt

\* enum Kind of nbuf_schema.nbuf
VOID == 0
ENUM == 2
UINT == 3
MSG == 6
STR == 7
ARRAY == 8   \* Kind.ARR; ARR is the bit in a header

Defines(schema, base) == base \in ToSet(schema.enums) \cup ToSet(schema.msgs)

\* nbuf_lookup_defined_type, for a name that is defined: enums come first.
LookupDefined(schema, base) ==
    IF base \in ToSet(schema.enums)
    THEN [kind |-> ENUM, id |-> SelectInSeq(schema.enums, LAMBDA x : x = base) - 1]
    ELSE [kind |-> MSG, id |-> SelectInSeq(schema.msgs, LAMBDA x : x = base) - 1]

\* The schemas resolve_type looks in: the one that uses the name, then what
\* it imports, all of the package the name means.
PkgMeant(own, name) == IF name.pkg = 0 THEN own.pkg ELSE name.pkg
Candidates(own, imports, name) ==
    LET schemas == <<own>> \o imports
    IN  {i \in DOMAIN schemas : schemas[i].pkg = PkgMeant(own, name) /\ Defines(schemas[i], name.base)}

Unresolved == [import |-> -1, kind |-> VOID, id |-> 0]

\* Mutant: only the last import is looked at.
ResolveType_LastImport(own, imports, name) ==
    LET found == Candidates(own, imports, name) \cap {1, Len(imports) + 1}
        def == LookupDefined((<<own>> \o imports)[Min(found)], name.base)
    IN  IF found = {} THEN Unresolved
        ELSE [import |-> Min(found) - 1, kind |-> def.kind, id |-> def.id]

\* import 0 is the schema itself, i its i-th import.
ResolveType(own, imports, name) ==
    LET found == Candidates(own, imports, name)
        def == LookupDefined((<<own>> \o imports)[Min(found)], name.base)
    IN  IF found = {} THEN Unresolved
        ELSE [import |-> Min(found) - 1, kind |-> def.kind, id |-> def.id]

\* nbuf_get_field_type: the definition a field of an enum or message type has
GetSchema(own, imports, import) == IF import > 0 THEN imports[import] ELSE own
GetFieldType(own, imports, r) ==
    LET schema == GetSchema(own, imports, r.import)
        names == IF r.kind = ENUM THEN schema.enums ELSE schema.msgs
    IN  [pkg |-> schema.pkg, base |-> names[r.id + 1]]
=============================================================================
