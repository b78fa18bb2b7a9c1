------------------------------ MODULE MCBuffer ------------------------------
(* Instance of Buffer: capacities 0, 1, .. through two growth steps.       *)
EXTENDS Buffer

MCByte == {0, 1}
MCAligns == {1, 4}
=============================================================================
