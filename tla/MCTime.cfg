SPECIFICATION FairSpec
CONSTANTS
    Clients = {c1, c2}
    Server = server
    Second = 4
    Spin = 1
    Offsets = {1, 3, 6}
    MaxSkew = 1
    MaxTime = 12
    MaxEvents = 1
INVARIANTS
    TypeOK
    OnTime
PROPERTIES
    CallbackRuns
CHECK_DEADLOCK FALSE
