SPECIFICATION SSpec
CONSTANTS
    Node = n1
    Contents = {x, y}
    ExitCodes = {e0}
    Nil = Nil
    Ack = ack
    Long = {e0}
    Size <- MCSize
    MaxParts = 4
    Mixed = Mixed
    IdSpace = 3
    Seeds = {1}
    NumSessions = 2
    MaxTries = 1
    Depth = 1
    Tasks = {1}
    MaxRx = 1
    MaxInflight = 1
    MaxBoots = 2
    MaxRequests = 2
    MaxRestarts = 0
    MaxLate = 0
SYMMETRY Symmetry
INVARIANTS
    ReportIsTrue
    NeverReused
CHECK_DEADLOCK FALSE
