SPECIFICATION Spec
CONSTANTS
    COUNTER_MAX = 2
    NULL = null
    Threads = {t1, t2}
    Queues = {q1, q2}
    Nodes = {n1, n2, n3, n4}
    Nothing = nothing
    Recurs = FALSE
SYMMETRY QueueSymmetry
INVARIANTS
    WellFormed
    NeverSpins
    NumExact
PROPERTY QueueAtomic
CHECK_DEADLOCK FALSE
