SPECIFICATION Spec
CONSTANTS
    MaxEvents = 1
    MaxClients = 2
    MaxChannels = 0
    EventIds = {x}
    ClientIds = {m}
    ChannelIds = {}
    NoId = NoId
    Hosts = {h1}
    Ports = {p1}
    VarTypes = {"any", "none"}
    ANY = "any"
    NotDefined = "none"
    Payloads <- MCPayloads
    TcpVersions = {1, 2}
    UdpVersions = {1, 2}
    MAJOR = 2
    Transports = {"tcp"}
    Counters = {0}
    Calls = {"SUBSCRIBE", "server_write"}
    MaxWrites = 0
INVARIANTS
    OnlyAskedDelivered
CHECK_DEADLOCK FALSE
