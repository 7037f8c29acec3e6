SPECIFICATION GFairSpec
CONSTANTS
    x = x
    y = y
    ack = ack
    Sources = {n1}
    Sessions = {1}
    Msgs = {1}
    Contents = {x, y}
    ExitCodes = {e0}
    Nil = Nil
    Tasks = {1, 2}
    Allowed = {n1}
    Keyed = {n1}
    Ack = ack
    Size <- MCSize
    MaxParts = 4
    Mixed = Mixed
    MaxRx = 1
    MaxInflight = 2
    MaxRestarts = 1
    MaxLate = 1
INVARIANTS
    IndeterminateIsTrue
PROPERTIES
    TaskEnds
    CloseReturns
CHECK_DEADLOCK FALSE
