--------------------------- MODULE LauncherScreen ----------------------------
(***************************************************************************)
(* What the screen of the handheld shows: the canvas of a remote desktop,  *)
(* and what is computed for it: the frames of the desktop, the results of  *)
(* commands, the output of a terminal; and the patch that puts the         *)
(* launcher into the firmware.  These computations have no state of their  *)
(* own: what is said of them is evaluated at the start.                    *)
(***************************************************************************)
EXTENDS DesktopSync, DesktopFrames, WireSizes, AnsiFilter, FirmwarePatch

\* An initial state with a desktop of one colour.
Start == DInit /\ \A n \in 1..Width : desktop[n] = desktop[1]

\* Whatever has changed fits in one response, which is drawn whole or not at all:
\* see FramesFit (changed_tiles() and frame() against applyDesktopFrame()).
FramesFitAtStart == Start => FramesFit

\* Whatever a command prints, its result reaches the screen, and of AI answers
\* just those that fit: see TextsArrive (execute() and ai_poll() against the buffers
\* of the handheld).
TextsArriveAtStart == Start => TextsArrive

\* However the output of a terminal is cut into reads, the screen shows the same,
\* if its characters are of one byte: see FilterIgnoresCuts (append() of
\* PocketLauncher.cpp).
FilterIgnoresCutsAtStart == Start => FilterIgnoresCuts

\* A patch that died is completed by the next run, with nothing missing and
\* nothing twice: see PatchIsRepeatable (apply() of apply_firmware.py).
PatchIsRepeatableAtStart == Start => PatchIsRepeatable
=============================================================================
