SPECIFICATION Spec
CONSTANTS
    me = me
    c1 = c1
    c2 = c2
    Node <- Three
    None = None
    Self = me
    Listener = Listener
    Stdin = Stdin
    LineLen = 1
    SockBuf = 1
    RingMax = 1
    Plans <- OnlyDialled
PROPERTY LivePeersKept
CHECK_DEADLOCK FALSE
