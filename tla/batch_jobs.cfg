SPECIFICATION FairSpec
CONSTANTS
    NumCommands = 4
    N = 2
    Jobs <- TwoJobs
    Pid = {1, 2, 3}
    Signals = TRUE
    ForkFails = TRUE
INVARIANTS IInv Slots Announced ExitStatus
PROPERTIES Terminates NoneAfterFailure EndStops
CHECK_DEADLOCK FALSE
