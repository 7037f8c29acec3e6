----------------------------- MODULE Reassembly -----------------------------
(***************************************************************************)
(* The mesh frames of common/protocol.md and the Reassembler both ends     *)
(* keep (companion protocol.py, firmware RemoteProtocol.cpp).  A payload   *)
(* is a body (a request, an acknowledgement, a result) sealed with an HMAC *)
(* and cut in Size[body] chunks; a frame carries one of them.  Chunks of   *)
(* different bodies are taken as different, so a payload assembled from    *)
(* two bodies fails the HMAC: Mixed.                                       *)
(***************************************************************************)
EXTENDS Naturals, FiniteSets

CONSTANTS
    Size,       \* Size[body]: the number of chunks of the sealed body
    MaxParts,   \* chunks that fit in the 4096 bytes of one reassembly
    Mixed       \* a payload the HMAC rejects

Bodies == DOMAIN Size

\* A sealed body is never empty.
ASSUME SizeAssumption ==
    /\ MaxParts \in Nat
    /\ \A b \in Bodies : Size[b] \in Nat \ {0}

Chunk(kind, key, body, i) ==
    [kind |-> kind, key |-> key, body |-> body, count |-> Size[body], index |-> i]

Chunks(kind, key, body) == {Chunk(kind, key, body, i) : i \in 1..Size[body]}

\* A reassembler: what it is assembling, and the chunks it has.
Empty == [tag |-> <<>>, got |-> {}]

Tag(f) == <<f.kind, f.key, f.count>>

\* The first chunk received for an index stays.  A chunk of another message,
\* or one that comes after the 120-second window (late), starts afresh.
Merge(asm, f, late) ==
    LET kept == IF late \/ asm.tag # Tag(f) THEN {} ELSE asm.got
    IN  IF \E g \in kept : g.index = f.index THEN kept ELSE kept \cup {f}

\* Mutant: one chunk short counts as complete.
CompleteEarly(got, f) == Cardinality(got) + 1 >= f.count /\ f.count <= MaxParts

Complete(got, f) == Cardinality(got) = f.count /\ f.count <= MaxParts

\* The reassembler after ingest: empty again when the message is complete or
\* has grown past the limit.
After(asm, f, late) ==
    LET got == Merge(asm, f, late)
    IN  IF Complete(got, f) \/ Cardinality(got) > MaxParts
        THEN Empty
        ELSE [tag |-> Tag(f), got |-> got]

\* The body of a complete set of chunks, as the HMAC check sees it.
Unsealed(got) ==
    IF \E b \in Bodies : \A g \in got : g.body = b
    THEN (CHOOSE g \in got : TRUE).body
    ELSE Mixed
=============================================================================
