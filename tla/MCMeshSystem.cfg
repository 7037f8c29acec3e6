SPECIFICATION SSpec
CONSTANTS
    Node = n1
    Contents = {x, y}
    ExitCodes = {e0}
    Nil = Nil
    Ack = ack
    Long = {x, e0}
    Size <- MCSize
    MaxParts = 4
    Mixed = Mixed
    IdSpace = 2
    Seeds = {1}
    NumSessions = 2
    MaxTries = 2
    Depth = 1
    Tasks = {1}
    MaxRx = 1
    MaxInflight = 1
    MaxBoots = 1
    MaxRequests = 1
    MaxRestarts = 1
    MaxLate = 0
SYMMETRY Symmetry
INVARIANTS
    ReportIsTrue
    RunsWereAsked
    OnlyCompleteRequestsCount
PROPERTIES
    SystemImplementsLedger
CHECK_DEADLOCK FALSE
