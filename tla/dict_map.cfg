SPECIFICATION FreqSpec
CONSTANTS
    Key <- SixKeys
    Val = {1, 2, 3, 4, 5, 6, 7, 8}
    Given = {1, 2}
    NULL = NULL
    Files <- ShortAndLong
    TopSize = 3
INVARIANTS WellFormed Tallied TopWords
PROPERTY IsMap
CHECK_DEADLOCK FALSE
