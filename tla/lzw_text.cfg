SPECIFICATION Spec
CONSTANTS
    D = 2
    FirstCode = 3
    Inputs <- Texts
INVARIANTS IInv RoundTrip InStep LowDigitsKept
CHECK_DEADLOCK FALSE
