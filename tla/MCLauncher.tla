----------------------------- MODULE MCLauncher -----------------------------
(***************************************************************************)
(* Instances of LauncherLink for TLC: two hosts, so that a request can go  *)
(* to the wrong one, and generations that wrap after four screens.         *)
(***************************************************************************)
EXTENDS LauncherLink
=============================================================================
