---------------------------- MODULE MCPocketMesh ----------------------------
(***************************************************************************)
(* Instances of PocketMesh for TLC: a request of two chunks and one of     *)
(* one, a result of two chunks and one of one.                             *)
(***************************************************************************)
EXTENDS PocketMesh

CONSTANTS x, y, r, s, ack

MCSize == [b \in {x, y, r, s, ack} |-> IF b \in {x, r} THEN 2 ELSE 1]
=============================================================================
