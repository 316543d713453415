SPECIFICATION Spec
CONSTANTS
    MaxSession = 1
    Workers = {w1}
    Owner = owner
    Retries = 1
    Batch = 1
    LateCalls = FALSE
    MaxConnects = 2
    MaxPackets = 0
    MaxInputs = 0
    MaxTraffic = 2
INVARIANT ConnectFindsSlot
CHECK_DEADLOCK FALSE
