SPECIFICATION Spec
CONSTANTS
    MaxSession = 2
    Workers = {w1, w2}
    Owner = owner
    Retries = 1
    Batch = 2
    LateCalls = TRUE
    MaxConnects = 2
    MaxPackets = 0
    MaxInputs = 1
    MaxTraffic = 3
SYMMETRY WorkerSymmetry
INVARIANTS
    RefExact
    UseSafe
    SlotOnce
    OneRecv
PROPERTY
    EventStream
CHECK_DEADLOCK FALSE
