SPECIFICATION Spec
CONSTANTS
    MaxSession = 2
    Workers = {w1}
    Owner = owner
    Retries = 1
    Batch = 1
    LateCalls = TRUE
    MaxConnects = 2
    MaxPackets = 1
    MaxInputs = 0
    MaxTraffic = 3
INVARIANT CallOnOwnSession
CHECK_DEADLOCK FALSE
