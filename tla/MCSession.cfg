SPECIFICATION FairSpec
CONSTANTS
    Names = {n1, n2}
    ChannelNames = {c1}
    NoName = NoName
    Partial = Partial
    MaxEvents = 2
    MaxChannels = 1
    Transports = {"tcp", "udp"}
    Kinds = {"callback"}
    Versions = {TRUE, FALSE}
    SendBuffer = 4
    MaxInbox = 1
    MaxFaults = 1
    MaxCalls <- ThreeCalls
    MaxFds = 2
INVARIANTS
    TypeOK
    SlotsUnique
    KeptSubscriptions
PROPERTIES
    Resubscribed
    DisconnectReturns
CHECK_DEADLOCK FALSE
