SPECIFICATION TestSpec
CONSTANTS
    ByteBase = 2
    NsWidth = 2
    LogWidth = 3
    BufLen = 4
    t1 = t1
    h1 = h1
    i1 = i1
    None = None
    Threads = {t1}
    Handles = {h1}
    Iters = {i1}
    Values = {}
    Nums = {}
    Keys <- NoKeys
    LogKeys <- NoKeys
    Scans <- NoKeys
    MaxBatchOps = 4
    OverflowChecks = TRUE
CHECK_DEADLOCK FALSE
INVARIANTS
    TestsPass
    LogKeyOrderIsNumeric
    ClearBoundsSelectNamespace
    LogIterBoundsSelectSuffix
    DecodeInvertsEncode
PROPERTIES
    TestsRunToTheEnd
