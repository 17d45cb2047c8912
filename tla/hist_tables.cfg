SPECIFICATION Spec
CONSTANTS
    ENTRIES = 8
    HIST_RANGE = 1082
    Garbage = {0, 55}
    Lines <- Tables
    Dflts = {0, 63}
    MaxLines = 3
INVARIANTS TypeOK Converted RowSums EveryRowShown StaysInside
CHECK_DEADLOCK FALSE
