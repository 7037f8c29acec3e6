SPECIFICATION LFairSpec
CONSTANTS
    Hosts = {h1, h2}
    GenSpace = 4
    MaxIds = 2
    Nil = Nil
INVARIANTS
    OneInFlight
    RightAddress
    NothingLeftBehind
PROPERTIES
    LinkFrees
