---------------------------- MODULE MCMeshSystem ----------------------------
(***************************************************************************)
(* Instances of MeshSystem for TLC: the bodies in Long take two chunks.    *)
(***************************************************************************)
EXTENDS MeshSystem, TLC

CONSTANT Long

MCSize ==
    [b \in Contents \cup {Ack} \cup ExitCodes
              \cup {"timeout", "oserror", "nospawn", "badid", "reused", "indeterminate", "notallowed"} |->
        IF b \in Long THEN 2 ELSE 1]

\* Contents of the same size are interchangeable.
Symmetry == Permutations(Contents \ Long)
=============================================================================
