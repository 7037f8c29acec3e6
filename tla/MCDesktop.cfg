SPECIFICATION DFairSpec
CONSTANTS
    N = 3
    Width = 4
    Colours = {0, 1}
    Blank = blank
    MaxDraws = 2
    MaxPans = 1
    MaxFaults = 2
    Nil = Nil
    Columns = {0, 31, 32, 33, 287, 319, 320}
    Rows = {0, 31, 32, 160, 175, 176}
    Lengths = {0, 1, 354, 749, 750, 751, 1000, 1348, 1353, 1354, 2048, 2049, 2999, 3000, 3001,
               4096, 8191, 8192, 8193, 100000}
    TrimAbove = 3
    TrimTo = 2
    StreamLen = 5
    Files <- MCFiles
INVARIANTS
    FramesFitAtStart
    TextsArriveAtStart
    FilterIgnoresCutsAtStart
    PatchIsRepeatableAtStart
    CanvasIsPrevious
PROPERTIES
    CanvasCatchesUp
