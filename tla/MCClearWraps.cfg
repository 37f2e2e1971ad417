SPECIFICATION Spec
CONSTANTS
    ByteBase = 2
    NsWidth = 2
    LogWidth = 2
    BufLen = 3
    t1 = t1
    t2 = t2
    h1 = h1
    h2 = h2
    i1 = i1
    v1 = v1
    None = None
    Values = {v1}
    Threads = {t1}
    Handles = {h1}
    Iters = {}
    Nums = {3}
    Keys <- OneKey
    LogKeys <- OneLogKey
    Scans <- NoKeys
    MaxBatchOps = 1
    OverflowChecks = FALSE
CHECK_DEADLOCK FALSE
PROPERTIES
    ClearRemovesNamespace
