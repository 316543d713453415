SPECIFICATION Spec
CONSTANTS
    COUNTER_MAX = 3
    NULL = null
    Threads = {t1, t2}
    Values = {v1, v2}
    Nodes = {n1, n2, n3}
    Nothing = nothing
    Recurs = FALSE
SYMMETRY StackSymmetry
INVARIANTS
    WellFormed
PROPERTY StackAtomic
CHECK_DEADLOCK FALSE
