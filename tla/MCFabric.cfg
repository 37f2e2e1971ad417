SPECIFICATION FairSpec
CONSTANTS
    n1 = n1
    n2 = n2
    v1 = v1
    c1 = c1
    c2 = c2
    k1 = k1
    k2 = k2
    None = None
    Nodes <- TwoNodes
    Clients <- OneClient
    Refusals = {"NotReady"}
    VNodes <- OneVNode
    Cookies <- TwoCookies
    Keys <- OneKey
    MaxWrites <- OneAndTwo
    MaxRequests = 2
CHECK_DEADLOCK FALSE
INVARIANTS
    TypeOK
    
PROPERTY
    ConversationsEnd
