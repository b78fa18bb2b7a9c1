------------------------------ MODULE MCNbufc ------------------------------
(* Instance of Nbufc: directories of different lengths, with and without a *)
(* slash at the end, a relative and an absolute name.                      *)
EXTENDS Nbufc

MCDirs == {<<>>, <<"/">>, <<"a">>, <<"a", "b", "/">>, <<"a", "/", "b", "c">>}
MCChars == {"/", "a", "b", "c", "f"}
MCNames == {<<"f">>, <<"/", "f">>}
=============================================================================
