SPECIFICATION Spec
CONSTANTS
    NumCommands = 2
    N = 2
    Jobs <- TestFour
    Pid = {1, 2}
    Signals = FALSE
    ForkFails = FALSE
INVARIANT FailureKillsRest
CHECK_DEADLOCK FALSE
