SPECIFICATION HFairSpec
CONSTANTS
    x = x
    y = y
    r = r
    s = s
    ack = ack
    Node = n1
    Contents = {x, y}
    Replies = {r, s}
    Ack = ack
    Size <- MCSize
    MaxParts = 4
    Mixed = Mixed
    IdSpace = 4
    Seeds = {0, 1, 2, 3}
    NumSessions = 2
    MaxTries = 3
    Depth = 2
    MaxBoots = 2
    MaxRequests = 2
    Nil = Nil
INVARIANTS
    OneOwner
    KeysAreFresh
PROPERTIES
    RequestEnds
CHECK_DEADLOCK FALSE
