SPECIFICATION Spec
CONSTANTS
    MaxEvents = 1
    MaxClients = 2
    MaxChannels = 0
    EventIds = {x, y}
    ClientIds = {m}
    ChannelIds = {}
    NoId = NoId
    Hosts = {h1}
    Ports = {p1}
    VarTypes = {"any", "none"}
    ANY = "any"
    NotDefined = "none"
    Payloads <- MCPayloads
    TcpVersions = {2}
    UdpVersions = {1, 2}
    MAJOR = 2
    Transports = {"tcp"}
    Counters = {0}
    Calls = {"SUBSCRIBE", "UNSUBSCRIBE", "UNDEFINE", "WRITE", "READ", "server_subscribe", "server_write"}
    MaxWrites = 1
PROPERTIES
    ImplementsBroker
CHECK_DEADLOCK FALSE
