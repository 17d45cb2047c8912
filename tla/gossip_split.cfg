SPECIFICATION Spec
CONSTANTS
    n1 = n1
    n2 = n2
    n3 = n3
    Node <- Three
    None = None
    Named <- Hub
    Lines <- TwoThenOne
    LineLen = 2
    SockBuf = 1
    RingMax = 1
    Faults = {}
INVARIANT LinesWhole
CHECK_DEADLOCK FALSE
