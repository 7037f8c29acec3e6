SPECIFICATION AFairSpec
CONSTANTS
    Handlers = {t1, t2}
    Reaper = reaper
    MaxDesktops = 1
    MaxIds = 2
    Nil = Nil
    MaxStarts = 2
    MaxJobs = 2
INVARIANTS
    ConnectionsAreMinded
    CallsAreExclusive
    DesktopsWithinLimit
    JobsAreMinded
    StopLeavesNothing
PROPERTIES
    RequestsEnd
    IdleIsReaped
CHECK_DEADLOCK FALSE
