------------------------------ MODULE MCLayout ------------------------------
(* Instance of Layout: every sequence of field types up to MaxFields, with *)
(* 16-bit fields scaled down so that large messages do not fit them.       *)
EXTENDS Layout
=============================================================================
