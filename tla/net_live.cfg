SPECIFICATION LiveSpec
CONSTANTS
    MaxSession = 1
    Workers = {w1, w2}
    Owner = owner
    Retries = 2
    Batch = 2
    LateCalls = FALSE
    MaxConnects = 2
    MaxPackets = 3
    MaxInputs = 0
    MaxTraffic = 4
INVARIANTS
    TypeOK
    CleanSlot
    PacketExact
    OneSend
    NoStrandedPacket
    TimerFindsSession
PROPERTY
    ComesToRest
CHECK_DEADLOCK FALSE
