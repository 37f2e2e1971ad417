SPECIFICATION Spec
CONSTANTS
    ByteBase = 2
    NsWidth = 2
    LogWidth = 2
    BufLen = 3
    t1 = t1
    t2 = t2
    h1 = h1
    h2 = h2
    i1 = i1
    v1 = v1
    None = None
    Values = {v1}
    Threads = {t1}
    Handles = {h1, h2}
    Iters = {i1}
    Nums = {2, 3}
    Keys <- ShortAndLongKeys
    LogKeys <- NoKeys
    Scans <- NoKeys
    MaxBatchOps = 2
    OverflowChecks = TRUE
SYMMETRY HandleSymmetry
CHECK_DEADLOCK FALSE
INVARIANTS
    TypeOK
    MainIteratorYieldsNamespace
