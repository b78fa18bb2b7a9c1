----------------------------- MODULE RawDecoder -----------------------------
(***************************************************************************)
(* nbufc -decode_raw (raw.c): a walk over the bytes of a buffer, object    *)
(* after object, that knows no schema and follows no pointer.  It reads    *)
(* the headers alone, so it tells whether all that was ever allocated in   *)
(* the buffer still lies there in a row.                                   *)
(***************************************************************************)
EXTENDS Wire

\* Mutant: the padding before the next header is not skipped.
NextHeader_Unpadded(off) == off

\* The loop on getchar() after each object
NextHeader(off) == 4 * Words(off)

\* nbufc_decode_raw: whether it returns 0, and the headers it met.  The bit of
\* arrays is looked at before that of byte arrays.
DecodeRaw(b) ==
    LET read[off \in Nat] ==
            IF off + 4 > b.len THEN [ok |-> TRUE, headers |-> {}]
            ELSE LET hdr == WordAt(b, off)
                     isArray == Has(hdr, ARR)
                     body == off + (IF isArray THEN 8 ELSE 4)
                     len == IF isArray THEN WordAt(b, off + 4)
                            ELSE IF Has(hdr, BARR) THEN hdr % BARR ELSE 1
                     end == body + (IF Has(hdr, BARR) THEN len ELSE len * (4 * Psize(hdr) + Ssize(hdr)))
                 IN  IF \/ ~Has(hdr, HDR)
                        \/ body > b.len
                        \/ isArray /\ Has(len, HDR)
                        \/ end > b.len
                     THEN [ok |-> FALSE, headers |-> {off}]
                     ELSE [read[NextHeader(end)] EXCEPT !.headers = @ \cup {off}]
    IN  read[0]
=============================================================================
