---------------------------- MODULE DesktopFrames ----------------------------
(***************************************************************************)
(* The bytes of a desktop frame: the companion cuts the box that changed   *)
(* into tiles on a grid of 32 (desktop.py) and packs them                  *)
(* (desktop_http.py); the handheld allows 116000 bytes for a response      *)
(* (PocketLauncher.cpp) and checks the whole of it before it draws any     *)
(* (DesktopTiles.h).  Pixels are left out: a tile is its place and size.   *)
(***************************************************************************)
EXTENDS Naturals, FiniteSets, SequencesExt

CONSTANTS
    Columns, Rows   \* bound: the x and y of the corners a changed box may have

ViewWidth == 320
ViewHeight == 176
TileSize == 32
HeaderBytes == 10
TileHeaderBytes == 8
MostTiles == 60
ResponseLimit == 116000

ASSUME FrameAssumption == Columns \subseteq 0..ViewWidth /\ Rows \subseteq 0..ViewHeight

Smaller(m, n) == IF m <= n THEN m ELSE n

\* range(first, last, TileSize), on the grid.
Grid(first, last) ==
    LET from == (first \div TileSize) * TileSize
    IN  [i \in 1..((last - from + TileSize - 1) \div TileSize) |-> from + TileSize * (i - 1)]

\* Mutant: tiles begin where the box does.
TilesFromCorner(box) ==
    LET xs == [i \in 1..((box.x1 - box.x0 + 31) \div 32) |-> box.x0 + 32 * (i - 1)]
        ys == Grid(box.y0, box.y1)
    IN  [n \in 1..(Len(xs) * Len(ys)) |->
            LET x == xs[((n - 1) % Len(xs)) + 1]
                y == ys[((n - 1) \div Len(xs)) + 1]
            IN  [x |-> x, y |-> y, w |-> TileSize, h |-> Smaller(TileSize, ViewHeight - y)]]

\* changed_tiles(): row by row, cut off at the edge of the picture.
ChangedTiles(box) ==
    LET xs == Grid(box.x0, box.x1)
        ys == Grid(box.y0, box.y1)
    IN  [n \in 1..(Len(xs) * Len(ys)) |->
            LET x == xs[((n - 1) % Len(xs)) + 1]
                y == ys[((n - 1) \div Len(xs)) + 1]
            IN  [x |-> x, y |-> y,
                 w |-> Smaller(TileSize, ViewWidth - x), h |-> Smaller(TileSize, ViewHeight - y)]]

TileBytes(tile) == TileHeaderBytes + 2 * tile.w * tile.h

\* The response of frame(): two bytes to a pixel.
Packed(tiles) ==
    LET Longer(n, tile) == n + TileBytes(tile)
    IN  [tiles |-> tiles, bytes |-> FoldLeft(Longer, HeaderBytes, tiles)]

\* What the link makes of a response of which that many bytes arrive.
Arrived(frame, bytes) == [frame EXCEPT !.bytes = bytes]

TileFits(tile, at, bytes) ==
    /\ tile.w \in 1..TileSize /\ tile.x + tile.w <= ViewWidth
    /\ tile.h \in 1..TileSize /\ tile.y + tile.h <= ViewHeight
    /\ at + TileBytes(tile) <= bytes

\* Mutant: bytes that are left over, or missing in the last tile, do not matter.
AppliesPrefix(frame) ==
    frame.bytes >= HeaderBytes /\ frame.bytes <= ResponseLimit /\ Len(frame.tiles) <= MostTiles

\* applyDesktopFrame() of a response the link let through: every tile is
\* checked, at the place the ones before it leave, and nothing is left over.
Applies(frame) ==
    LET After(at, tile) ==
            IF at # 0 /\ TileFits(tile, at, frame.bytes) THEN at + TileBytes(tile) ELSE 0
    IN  /\ frame.bytes \in HeaderBytes..ResponseLimit
        /\ Len(frame.tiles) <= MostTiles
        /\ FoldLeft(After, HeaderBytes, frame.tiles) = frame.bytes

-----------------------------------------------------------------------------
Boxes ==
    {b \in [x0 : Columns, y0 : Rows, x1 : Columns, y1 : Rows] : b.x0 < b.x1 /\ b.y0 < b.y1}

Within(x, y, r) == x \in r.x..(r.x + r.w - 1) /\ y \in r.y..(r.y + r.h - 1)

\* Lengths a response may have instead: it ends around a header or a tile, or
\* goes on after the last tile by a byte, by another tile, or to the limit.
Ends(frame) ==
    {0, HeaderBytes, HeaderBytes + TileHeaderBytes, frame.bytes - 1,
     frame.bytes + 1, frame.bytes + TileHeaderBytes + 2 * TileSize * TileSize, ResponseLimit}
        \cup (IF frame.tiles = <<>> THEN {} ELSE {frame.bytes - TileBytes(frame.tiles[1])})

\* Whatever has changed, up to the whole picture, fits in a response and is
\* drawn, each pixel of the box exactly once and none twice; and a response with
\* bytes missing or left over draws nothing.
FramesFit ==
    \A box \in Boxes :
        LET frame == Packed(ChangedTiles(box))
            tiles == {frame.tiles[n] : n \in 1..Len(frame.tiles)}
        IN
        /\ Applies(frame)
        /\ \A end \in Ends(frame) \ {frame.bytes} : ~Applies(Arrived(frame, end))
        /\ Cardinality(tiles) = Len(frame.tiles)
        /\ \A x \in Columns \ {ViewWidth}, y \in Rows \ {ViewHeight} :
              LET over == {t \in tiles : Within(x, y, t)} IN
              /\ Cardinality(over) <= 1
              /\ x \in box.x0..(box.x1 - 1) /\ y \in box.y0..(box.y1 - 1) => over # {}
=============================================================================
