SPECIFICATION FairSpec
CONSTANTS
    Names = {n1}
    ChannelNames = {}
    NoName = NoName
    Partial = Partial
    MaxEvents = 1
    MaxChannels = 0
    Transports = {"tcp"}
    Kinds = {"callback"}
    Versions = {TRUE}
    SendBuffer = 2
    MaxInbox = 1
    MaxFaults = 1
    MaxCalls <- OneCall
    MaxFds = 1
PROPERTY
    Reconnects
CHECK_DEADLOCK FALSE
