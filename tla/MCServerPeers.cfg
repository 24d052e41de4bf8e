SPECIFICATION Spec
CONSTANTS
    MaxEvents = 0
    MaxClients = 2
    MaxChannels = 2
    EventIds = {}
    ClientIds = {m, n}
    ChannelIds = {k, l}
    NoId = NoId
    Hosts = {h1, h2}
    Ports = {p1}
    VarTypes = {"any", "none"}
    ANY = "any"
    NotDefined = "none"
    Payloads <- MCPayloads
    TcpVersions = {2}
    UdpVersions = {1, 2}
    MAJOR = 2
    Transports = {"tcp", "udp"}
    Counters = {0}
    Calls = {"CHANNEL", "LIST"}
    MaxWrites = 0
SYMMETRY Names
INVARIANTS
    NamesUnique
    ChannelsOwned
    UdpAddressUnique
CHECK_DEADLOCK FALSE
