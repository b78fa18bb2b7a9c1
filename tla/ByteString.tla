----------------------------- MODULE ByteString -----------------------------
(***************************************************************************)
(* What a byte buffer promises to its clients: a string of bytes that      *)
(* grows and shrinks at its end.  Whatever is done with capacities and     *)
(* reallocation, a byte that stays inside the string keeps its value until *)
(* the client overwrites it.                                               *)
(***************************************************************************)
EXTENDS Integers

CONSTANT Byte

VARIABLES size,      \* number of bytes in the string
          content    \* the bytes, a function on 0 .. size - 1

vars == <<size, content>>

Strings(n) == [0 .. n - 1 -> Byte]

TypeOK == size \in Nat /\ content \in Strings(size)

\* The bytes below n are the same before and after the step.
Kept(n) == \A i \in 0 .. n - 1 : content'[i] = content[i]

Init == TypeOK

Extend == size' > size /\ Kept(size) /\ TypeOK'

Shrink == size' < size /\ Kept(size') /\ TypeOK'

\* The client stores one byte value over a stretch of the string.
Overwrite ==
    \E lo, hi \in 0 .. size, b \in Byte :
        /\ size' = size
        /\ content' = [i \in 0 .. size - 1 |-> IF lo <= i /\ i < hi THEN b ELSE content[i]]

Next == Extend \/ Shrink \/ Overwrite

Spec == Init /\ [][Next]_vars
=============================================================================
