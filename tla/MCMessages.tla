----------------------------- MODULE MCMessages -----------------------------
(* Instance of Messages: any text within MCBounds, as in MCTextParser, or  *)
(* any message built with a few calls of the accessors.                    *)
EXTENDS Messages

\* A buffer that grows, and one of fixed capacity
MCOutputs == {NewBuf(0), [NewBuf(256) EXCEPT !.grows = FALSE]}

Bound(fs, names, nest, times) == [fields |-> fs, tokens |-> names, depth |-> nest, parses |-> times]

\* One parse of any document over all fields; deep nests of arrays with
\* strings; two parses on one buffer.
Documents == Bound(DOMAIN EmptyDoc, 4, 3, 1)
Nesting == Bound({"s", "r"}, 6, 4, 1)
Reuse == Bound({"x", "s", "r", "ss"}, 4, 3, 2)
MCBounds == {Documents, Nesting, Reuse}

MCBuiltBound == Bound({}, 0, 2, 1)

\* M as it is, and an older M with s and n alone
MCVersions == {[ssize |-> 4, psize |-> 5], [ssize |-> 0, psize |-> 2]}
MCRooms == {0, 60}
MCNumbers == {7}
MCStrings == {0, 7}
MCLengths == {0, 2}
=============================================================================
