SPECIFICATION FairSpec
CONSTANTS
    Kinds = {"event"}
    MaxEntries = 2
    PerPage = 1
    Modulus = 2
    Synced = {1, 2}
    Programs = {{"read", "ticket"}, {"wait"}, {"list", "free"}}
    MaxCalls = 3
    MaxChanges = 2
    MaxLost = 1
    MaxBreaks = 1
INVARIANTS
    TypeOK
    ReadOfOneMoment
    ListOfOneMoment
    PagesFit
    LastEventKept
PROPERTIES
    EventWakes
CHECK_DEADLOCK FALSE
