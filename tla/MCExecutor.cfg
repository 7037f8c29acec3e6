SPECIFICATION FairSpec
CONSTANTS
    Sources = {n1}
    Sessions = {1, 2}
    Msgs = {0, 1}
    Contents = {x, y}
    Calls = {c1, c2}
    ExitCodes = {e0, e1}
    Nil = Nil
INVARIANTS
    RunsAtMostOnce
    AnswerIsRecorded
PROPERTIES
    InterruptedStays
    CallEnds
    ImplementsLedger
