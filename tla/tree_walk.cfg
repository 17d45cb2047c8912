SPECIFICATION FairSpec
CONSTANTS
    d0 = d0
    d1 = d1
    d2 = d2
    Dir <- Three
    Root = d0
    Name = {1, 2, 3}
    Hidden = {2}
    Worlds <- DeepAndWide
    Options <- Arguments
    Limits = {3, 4}
    MaxChanges = 2
INVARIANTS IInv InPlace AsListed
PROPERTY Ends
CHECK_DEADLOCK FALSE
