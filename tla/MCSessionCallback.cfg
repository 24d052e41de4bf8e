SPECIFICATION Spec
CONSTANTS
    Names = {n1, n2}
    ChannelNames = {}
    NoName = NoName
    Partial = Partial
    MaxEvents = 1
    MaxChannels = 0
    Transports = {"tcp"}
    Kinds = {"callback", "sync"}
    Versions = {TRUE}
    SendBuffer = 4
    MaxInbox = 1
    MaxFaults = 0
    MaxCalls <- ThreeCalls
    MaxFds = 1
INVARIANT
    CallbackOfItsEvent
CHECK_DEADLOCK FALSE
