----------------------------- MODULE MCExecutor -----------------------------
(***************************************************************************)
(* Instances of CommandExecutor for TLC: two calls that overlap, over two  *)
(* sessions, with a valid and an invalid message number.                   *)
(***************************************************************************)
EXTENDS CommandExecutor
=============================================================================
