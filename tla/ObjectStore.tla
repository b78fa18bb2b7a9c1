----------------------------- MODULE ObjectStore -----------------------------
(***************************************************************************)
(* What the generated accessors promise to a program that builds messages: *)
(* objects with fields.  A call that succeeds has its effect on the field  *)
(* it names and on no other field of any object; one that fails, for want  *)
(* of memory or of the field, changes nothing that can be read.  An object *)
(* is known by the number of its handle, 0 for none.                       *)
(***************************************************************************)
EXTENDS Naturals, Sequences

VARIABLES objects,   \* the objects, by handle
          call       \* the last call: its name, the object it was made on, the
                     \* element it is about, its argument and whether it succeeded

vars == <<objects, call>>

Empty == [x |-> 0, s |-> 0, n |-> 0, r |-> <<>>, xs |-> <<>>, ss |-> <<>>]
Empties(k) == [i \in 1 .. k |-> Empty]
NewHandles(k) == [i \in 1 .. k |-> Len(objects) + i]

\* The objects after the call c
Effect(c) ==
    CASE c.name = "read"     -> objects
      [] c.name = "alloc"    -> Append(objects, Empty)
      [] c.name = "set_x"    -> [objects EXCEPT ![c.h].x = c.v]
      [] c.name = "set_s"    -> [objects EXCEPT ![c.h].s = c.v]
      [] c.name = "set_n"    -> [objects EXCEPT ![c.h].n = c.v]
      [] c.name = "alloc_n"  -> Append([objects EXCEPT ![c.h].n = NewHandles(1)[1]], Empty)
      [] c.name = "alloc_r"  -> [objects EXCEPT ![c.h].r = NewHandles(c.v)] \o Empties(c.v)
      [] c.name = "alloc_xs" -> [objects EXCEPT ![c.h].xs = [i \in 1 .. c.v |-> 0]]
      [] c.name = "alloc_ss" -> [objects EXCEPT ![c.h].ss = [i \in 1 .. c.v |-> 0]]
      [] c.name = "set_xs"   -> [objects EXCEPT ![c.h].xs[c.i] = c.v]
      [] c.name = "set_ss"   -> [objects EXCEPT ![c.h].ss[c.i] = c.v]

Init == objects = <<>> /\ call = [name |-> "read", h |-> 0, i |-> 0, v |-> 0, ok |-> TRUE]

Next == objects' = IF call'.ok THEN Effect(call') ELSE objects

Spec == Init /\ [][Next]_vars
=============================================================================
