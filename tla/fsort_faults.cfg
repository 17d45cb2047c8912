SPECIFICATION FairSpec
CONSTANTS
    N = 5
    Min = 0
    Inputs <- Arrays
    Cap = 2
    MaxKills = 2
    PipeMayFail = TRUE
    ForkMayFail = TRUE
    WaitMayFail = TRUE
INVARIANTS IInv ZeroIsSorted NothingLost  NoneLeft
PROPERTY AllEnd
CHECK_DEADLOCK FALSE
