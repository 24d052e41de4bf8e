SPECIFICATION DeliverySpec
CONSTANTS
    MaxEvents = 1
    MaxClients = 2
    MaxChannels = 0
    EventIds = {x}
    ClientIds = {m}
    ChannelIds = {}
    NoId = NoId
    Hosts = {h1}
    Ports = {p1}
    VarTypes = {"any", "none"}
    ANY = "any"
    NotDefined = "none"
    Payloads <- MCPayloads
    TcpVersions = {2}
    UdpVersions = {1, 2}
    MAJOR = 2
    Transports = {"tcp"}
    Counters = {0}
    Calls = {"SUBSCRIBE", "WRITE"}
    MaxWrites = 1
INVARIANTS
    AllUpToDate
CHECK_DEADLOCK FALSE
