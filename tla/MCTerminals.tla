---------------------------- MODULE MCTerminals -----------------------------
(***************************************************************************)
(* Instances of TerminalSessions for TLC: two requests at a time, as many  *)
(* as it takes for a close to meet a read and two starts to meet, and two  *)
(* sessions, so that the reaper has more than one to close.                *)
(***************************************************************************)
EXTENDS TerminalSessions
=============================================================================
