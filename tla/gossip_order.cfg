SPECIFICATION FairSpec
CONSTANTS
    n1 = n1
    n2 = n2
    n3 = n3
    Node <- Three
    None = None
    Named <- Roles
    Lines <- TwoThenOne
    LineLen = 1
    SockBuf = 1
    RingMax = 1
    Faults = {"exit", "cut"}
INVARIANTS PerSenderOrder CausalOrder NoHoles IInv
CHECK_DEADLOCK FALSE
PROPERTIES NoStall HopDelivers
