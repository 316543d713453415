SPECIFICATION Spec
CONSTANTS
    COUNTER_MAX = 8
    NULL = null
    Threads = {t1, t2}
    Buckets = {b1, b2, b3}
    BucketSize = 2
    Recurs = FALSE
    ZeroRecycled = TRUE
SYMMETRY PoolSymmetry
INVARIANTS
    NothingBehindAllocated
CHECK_DEADLOCK FALSE
