SPECIFICATION TFairSpec
CONSTANTS
    Handlers = {t1, t2}
    Reaper = reaper
    Fds = {f1, f2}
    MaxSessions = 2
    MaxIds = 2
    Nil = Nil
INVARIANTS
    TTypeOK
    NoOrphans
    ReadsOwnTerminal
PROPERTIES
    CreateEnds
    IdleIsClosed
CHECK_DEADLOCK FALSE
