----------------------------- MODULE MCDesktop ------------------------------
(***************************************************************************)
(* Instances of LauncherScreen for TLC: three tiles of a desktop of four,  *)
(* so that a tile between two changed ones is sent along; boxes with       *)
(* corners on, before and behind the lines of the real grid; lengths       *)
(* around every limit; the streams of five characters a terminal may send, *)
(* and every cut of them; and two of the files the patch copies.           *)
(***************************************************************************)
EXTENDS LauncherScreen

\* Two of the files of firmware/.
MCFiles == <<"PocketLauncher.cpp", "PocketMesh.cpp">>
=============================================================================
