----------------------------- MODULE MCGateway ------------------------------
(***************************************************************************)
(* Instances of MeshGateway for TLC: requests of two chunks, replies of    *)
(* one.                                                                    *)
(***************************************************************************)
EXTENDS MeshGateway, TLC

CONSTANTS x, y, ack

MCSize ==
    [b \in Contents \cup {ack} \cup Exec!Outcomes \cup Exec!Refusals |->
        IF b \in Contents THEN 2 ELSE 1]
=============================================================================
