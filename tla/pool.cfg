SPECIFICATION Spec
CONSTANTS
    COUNTER_MAX = 3
    NULL = null
    Threads = {t1, t2}
    Buckets = {b1, b2, b3, b4}
    BucketSize = 2
    Recurs = FALSE
    ZeroRecycled = FALSE
SYMMETRY PoolSymmetry
INVARIANTS
    WellFormed
    BucketExact
    NoneLost
    SizeExact
    NothingBehindAllocated
CHECK_DEADLOCK FALSE
