SPECIFICATION Spec
CONSTANTS
    D = 2
    FirstCode = 3
    Inputs <- Ones
INVARIANT CodesKept
CHECK_DEADLOCK FALSE
