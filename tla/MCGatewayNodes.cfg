SPECIFICATION GSpec
CONSTANTS
    x = x
    y = y
    ack = ack
    Sources = {n1, n2, n3, n4}
    Sessions = {1}
    Msgs = {1}
    Contents = {x}
    ExitCodes = {e0}
    Nil = Nil
    Tasks = {1, 2}
    Allowed = {n1, n2, n4}
    Keyed = {n1, n2, n3}
    Ack = ack
    Size <- MCSize
    MaxParts = 4
    Mixed = Mixed
    MaxRx = 1
    MaxInflight = 1
    MaxRestarts = 0
    MaxLate = 1
INVARIANTS
    GatewayRunsOnce
CHECK_DEADLOCK FALSE
