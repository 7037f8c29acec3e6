--------------------------- MODULE MCApplication ----------------------------
(***************************************************************************)
(* Instances of Application for TLC: two requests at a time and the        *)
(* reaper, one desktop more than the limit, a table of two jobs that can   *)
(* be full.                                                                *)
(***************************************************************************)
EXTENDS Application
=============================================================================
