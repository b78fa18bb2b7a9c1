----------------------------- MODULE MCImports -----------------------------
(* Instance of Imports: every import graph over three files, with circles, *)
(* diamonds and repeated statements.                                       *)
EXTENDS Imports
=============================================================================
