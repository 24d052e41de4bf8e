SPECIFICATION Spec
CONSTANTS
    Magic = 83
    MagicData = 68
    MaxData = 3
    BufferSize = 10
    Packets <- MCPackets
    Sides = {"server", "client"}
    MaxPackets = 3
    MaxDamages = 2
    MaxConnections = 2
INVARIANTS
    TypeOK
    InOrder
    Resynchronises
    RoomForHeader
CHECK_DEADLOCK FALSE
