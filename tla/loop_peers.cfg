SPECIFICATION FairSpec
CONSTANTS
    me = me
    c1 = c1
    c2 = c2
    Node <- Three
    None = None
    Self = me
    Listener = Listener
    Stdin = Stdin
    LineLen = 2
    SockBuf = 1
    RingMax = 1
    Plans <- PeersAndHalves
INVARIANT IInv
PROPERTIES IsGossipProcess StaleSlotOnly RoundsServeAll
CHECK_DEADLOCK FALSE
