SPECIFICATION DeliverySpec
CONSTANTS
    MaxEvents = 1
    MaxClients = 2
    MaxChannels = 0
    EventIds = {x}
    ClientIds = {}
    ChannelIds = {}
    NoId = NoId
    Hosts = {h1}
    Ports = {p1}
    VarTypes = {"any", "none"}
    ANY = "any"
    NotDefined = "none"
    Payloads <- MCPayloads
    TcpVersions = {2}
    UdpVersions = {1, 2}
    MAJOR = 2
    Transports = {"tcp"}
    Counters = {0, 1}
    Calls = {"SUBSCRIBE", "server_undefine", "WRITE", "server_subscribe", "server_write"}
    MaxWrites = 2
INVARIANTS
    UpToDate
CHECK_DEADLOCK FALSE
