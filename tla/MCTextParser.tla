---------------------------- MODULE MCTextParser ----------------------------
(* Instances of TextParser: the words of the wire format scaled down, with *)
(* room for every buffer the bounded inputs build.                         *)
EXTENDS TextParser

\* A buffer that grows, and one of fixed capacity
MCOutputs == {NewBuf(0), [NewBuf(256) EXCEPT !.grows = FALSE]}

Bound(fs, names, nest, calls) == [fields |-> fs, tokens |-> names, depth |-> nest, parses |-> calls]

\* What the runs that show a disagreement need
MCScattered == {Bound({"x", "r", "xs"}, 5, 3, 1)}
MCFailure == {Bound({"x", "s"}, 4, 3, 2)}
=============================================================================
