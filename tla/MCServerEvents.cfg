SPECIFICATION Spec
CONSTANTS
    MaxEvents = 2
    MaxClients = 2
    MaxChannels = 0
    EventIds = {x, y}
    ClientIds = {m}
    ChannelIds = {}
    NoId = NoId
    Hosts = {h1}
    Ports = {p1}
    VarTypes = {"any", "none"}
    ANY = "any"
    NotDefined = "none"
    Payloads <- NoPayloads
    TcpVersions = {2}
    UdpVersions = {1, 2}
    MAJOR = 2
    Transports = {"tcp"}
    Counters = {0}
    Calls = {"SUBSCRIBE", "UNSUBSCRIBE", "DEFINE", "UNDEFINE", "server_define", "server_undefine"}
    MaxWrites = 0
SYMMETRY Names
INVARIANTS
    TypeOK
    NamesUnique
    EventCountExact
    ConsumersAsked
    ConsumersCountExact
CHECK_DEADLOCK FALSE
