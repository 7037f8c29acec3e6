---------------------------- MODULE DesktopSync -----------------------------
(***************************************************************************)
(* The remote desktop: what the handheld's canvas shows                    *)
(* (PocketLauncher.cpp, DesktopTiles.h) against what the companion thinks  *)
(* it shows (desktop_http.py, desktop.py).  The companion sends the tiles  *)
(* that changed since the frame it sent last, or all of them on a reset;   *)
(* the handheld lays them over its canvas.  A frame can be lost after the  *)
(* companion made it, and a request the handheld gave up on is still       *)
(* served later.  The desktop is a row of tiles wider than the canvas.     *)
(***************************************************************************)
EXTENDS Integers, Sequences, FiniteSets

CONSTANTS
    N,          \* tiles of the canvas (10 across)
    Width,      \* tiles of the desktop
    Colours,    \* what a tile can show
    Blank,      \* a tile of a cleared canvas
    MaxDraws,   \* bound: changes of the desktop
    MaxPans,    \* bound: presses of the pan buttons
    MaxFaults,  \* bound: requests and replies that fail
    Nil

Tiles == 1..N
Pictures == [Tiles -> Colours]
Replies == [status : {"frame", "gone", "error"}, x : 0..Width,
            crop : Pictures \cup {Nil}, tiles : SUBSET Tiles]

ASSUME DesktopAssumption ==
    /\ N \in Nat \ {0}
    /\ Width \in Nat /\ Width >= N
    /\ Blank \notin Colours
    /\ Nil \notin Replies
    /\ MaxDraws \in Nat /\ MaxPans \in Nat /\ MaxFaults \in Nat

VARIABLES
    shown,      \* the desktop page is on
    held,       \* the handheld has a session
    busy,       \* a request is under way
    asked,      \* the request, until the companion has it
    pan,        \* left edge of the view
    reset,      \* the next frame is to be a whole one
    canvas,     \* canvas[t]: what tile t of the canvas shows
    alive,      \* the companion has the session
    queue,      \* frame requests at the session's lock, in order of arrival
    live,       \* the last of them is still waited for
    reply,      \* the answer to it, or Nil
    previous,   \* the view of the last frame made, or Nil
    view,       \* its left edge; history
    desktop,    \* the remote desktop
    draws, pans, faults

handheld == <<shown, held, busy, asked, pan, reset, canvas>>
companion == <<alive, queue, live, reply, previous, view>>
bounds == <<draws, pans, faults>>
dvars == <<handheld, companion, desktop, bounds>>

DInit ==
    /\ shown = FALSE /\ held = FALSE /\ busy = FALSE /\ asked = Nil
    /\ pan = 0 /\ reset = TRUE
    /\ canvas = [t \in Tiles |-> Blank]
    /\ alive = FALSE /\ queue = <<>> /\ live = FALSE /\ reply = Nil
    /\ previous = Nil /\ view = 0
    /\ desktop \in [1..Width -> Colours]
    /\ draws = 0 /\ pans = 0 /\ faults = 0

-----------------------------------------------------------------------------
\* The handheld.

Ask(op) == busy' = TRUE /\ asked' = [op |-> op, x |-> pan', reset |-> reset']

\* show(DESKTOP): a cleared canvas, and a session is asked for.
Show ==
    /\ ~shown /\ ~busy
    /\ shown' = TRUE
    /\ pan' = 0 /\ reset' = TRUE
    /\ canvas' = [t \in Tiles |-> Blank]
    /\ Ask("start")
    /\ UNCHANGED <<held, companion, desktop, bounds>>

\* navigate() or back(): the session is given up, to be closed.
Leave ==
    /\ shown /\ ~busy
    /\ shown' = FALSE /\ held' = FALSE
    /\ UNCHANGED <<busy, asked, pan, reset, canvas, companion, desktop, bounds>>

\* task(): a frame is asked for.
Poll ==
    /\ held /\ ~busy
    /\ UNCHANGED <<pan, reset>>
    /\ Ask("frame")
    /\ UNCHANGED <<shown, held, canvas, companion, desktop, bounds>>

\* pan(), whether busy or not.
Pan ==
    /\ shown /\ pans < MaxPans
    /\ pan' \in {pan + 1, IF pan = 0 THEN 0 ELSE pan - 1}
    /\ reset' = TRUE
    /\ pans' = pans + 1
    /\ UNCHANGED <<shown, held, busy, asked, canvas, companion, desktop, draws, faults>>

\* applyDesktopFrame(): the canvas with the tiles of the frame laid over it.
Patched(f) == [t \in Tiles |-> IF t \in f.tiles THEN f.crop[t] ELSE canvas[t]]

Answered(status) == reply # Nil /\ reply.status = status

\* receive() of a frame: the view is where the companion says it is.
Frame ==
    /\ Answered("frame")
    /\ canvas' = Patched(reply)
    /\ pan' = reply.x
    /\ reset' = FALSE
    /\ busy' = FALSE
    /\ live' = FALSE /\ reply' = Nil
    /\ UNCHANGED <<shown, held, asked, alive, queue, previous, view, desktop, bounds>>

\* receive() of an error: the next frame is to be a whole one.  A 404 makes the
\* handheld forget the session.
Refused ==
    /\ Answered("gone") \/ Answered("error")
    /\ held' = (held /\ ~Answered("gone"))
    /\ reset' = TRUE /\ busy' = FALSE
    /\ live' = FALSE /\ reply' = Nil
    /\ UNCHANGED <<shown, asked, pan, canvas, alive, queue, previous, view, desktop, bounds>>

\* Mutant: a failure does not ask for a whole frame.
FailureKeepsBase ==
    /\ busy /\ faults < MaxFaults
    /\ busy' = FALSE /\ asked' = Nil
    /\ live' = FALSE /\ reply' = Nil
    /\ faults' = faults + 1
    /\ UNCHANGED <<shown, held, pan, reset, canvas, alive, queue, previous, view, desktop,
                   draws, pans>>

\* The request or its reply is lost, cut short or late: receive() of an error.
\* What has reached the companion is still served.
Failure ==
    /\ busy /\ faults < MaxFaults
    /\ busy' = FALSE /\ asked' = Nil
    /\ reset' = TRUE
    /\ live' = FALSE /\ reply' = Nil
    /\ faults' = faults + 1
    /\ UNCHANGED <<shown, held, pan, canvas, alive, queue, previous, view, desktop, draws, pans>>

-----------------------------------------------------------------------------
\* The companion.

Asked(op) == asked # Nil /\ asked.op = op

\* create(), and receive() of the new session: it has no frame to compare with.
Create ==
    /\ Asked("start")
    /\ held' = TRUE /\ busy' = FALSE /\ asked' = Nil
    /\ alive' = TRUE
    /\ queue' = <<>> /\ live' = FALSE /\ reply' = Nil
    /\ previous' = Nil /\ view' = 0
    /\ UNCHANGED <<shown, pan, reset, canvas, desktop, bounds>>

Reply(status, x, crop, tiles) == [status |-> status, x |-> x, crop |-> crop, tiles |-> tiles]

\* A frame request reaches the lock; or 404, if the session was reaped.
Arrive ==
    /\ Asked("frame")
    /\ asked' = Nil
    /\ live' = TRUE
    /\ IF alive
       THEN queue' = Append(queue, asked) /\ UNCHANGED reply
       ELSE reply' = Reply("gone", 0, Nil, {}) /\ UNCHANGED queue
    /\ UNCHANGED <<shown, held, busy, pan, reset, canvas, alive, previous, view, desktop, bounds>>

\* reap(): the session was idle for 120 seconds.
Reap ==
    /\ alive /\ queue = <<>>
    /\ alive' = FALSE
    /\ UNCHANGED <<handheld, queue, live, reply, previous, view, desktop, bounds>>

\* The answer to the head of the queue goes to the handheld if it is the
\* request it still waits for.
Answer(r) == reply' = IF live /\ Len(queue) = 1 THEN r ELSE reply

Clamp(x) == IF x > Width - N THEN Width - N ELSE x

Crop(x) == [t \in Tiles |-> desktop[x + t]]

\* Mutant: only the first tile that differs is sent.
ChangedFirst(old, crop) ==
    IF old = Nil
    THEN Tiles
    ELSE {t \in Tiles : old[t] # crop[t] /\ \A u \in 1..(t - 1) : old[u] = crop[u]}

\* changed_tiles(): the tiles of the box around what differs, or all.
Changed(old, crop) ==
    IF old = Nil
    THEN Tiles
    ELSE {t \in Tiles : \E a, b \in Tiles :
             a <= t /\ t <= b /\ old[a] # crop[a] /\ old[b] # crop[b]}

\* frame(), from the snapshot on; nobody else is inside the lock.
Serve ==
    /\ queue # <<>>
    /\ LET q == Head(queue)
           x == Clamp(q.x)
       IN
       /\ previous' = Crop(x)
       /\ view' = x
       /\ Answer(Reply("frame", x, Crop(x), Changed(IF q.reset THEN Nil ELSE previous, Crop(x))))
    /\ queue' = Tail(queue)
    /\ UNCHANGED <<handheld, alive, live, desktop, bounds>>

\* The snapshot takes more than 10 seconds: previous stays.
SnapshotFails ==
    /\ queue # <<>> /\ faults < MaxFaults
    /\ faults' = faults + 1
    /\ Answer(Reply("error", 0, Nil, {}))
    /\ queue' = Tail(queue)
    /\ UNCHANGED <<handheld, alive, live, previous, view, desktop, draws, pans>>

\* The desktop's own programs draw.
Draw ==
    /\ draws < MaxDraws
    /\ draws' = draws + 1
    /\ \E t \in 1..Width, c \in Colours : desktop' = [desktop EXCEPT ![t] = c]
    /\ UNCHANGED <<handheld, companion, pans, faults>>

DNext ==
    \/ Show \/ Leave \/ Poll \/ Pan \/ Frame \/ Refused \/ Failure
    \/ Create \/ Arrive \/ Reap \/ Serve \/ SnapshotFails \/ Draw

DSpec == DInit /\ [][DNext]_dvars

\* The UI task polls and receives, and the companion serves what reaches it.
DFairness ==
    /\ WF_dvars(Poll)
    /\ WF_dvars(Frame)
    /\ WF_dvars(Refused)
    /\ WF_dvars(Create)
    /\ WF_dvars(Arrive)
    /\ WF_dvars(Serve)

DFairSpec == DSpec /\ DFairness

-----------------------------------------------------------------------------
\* The handheld never shows a picture patched together from frames that do not
\* follow each other: unless a whole frame is due, the canvas is what the
\* companion thinks it is, taken where pan says (so a tap lands on what is
\* seen), or becomes so with the reply under way.
CanvasIsPrevious ==
    held /\ ~reset =>
        IF Answered("frame")
        THEN Patched(reply) = previous /\ reply.x = view
        ELSE canvas = previous /\ pan = view

\* However frames get lost and presses interrupt, once the desktop stops
\* changing the canvas comes to show it, unless the session ends.
CanvasCatchesUp ==
    []<>(~held \/ (pan <= Width - N /\ canvas = Crop(pan)))
=============================================================================
