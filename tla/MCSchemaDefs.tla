---------------------------- MODULE MCSchemaDefs ----------------------------
(* Instances of SchemaDefs with words of 10 bits. *)
EXTENDS SchemaDefs

Shape(packages, integers, types, many, most) ==
    [pkgs |-> packages, ints |-> integers, builtins |-> types, files |-> many, names |-> most]

\* One file with all kinds of definitions and fields; three small files with
\* packages that import each other.
OneFile == Shape({0}, {31}, {"uint8", "uint32", "string"}, 1, 5)
ThreeFiles == Shape({0, 3}, {}, {}, 3, 2)
MCShapes == {OneFile, ThreeFiles}

MCEnums == {Shape({0}, {0, 31}, {"uint8"}, 1, 4)}
=============================================================================
