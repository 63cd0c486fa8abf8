CONSTANTS
    short = short
    long = long
    Keys = {short, long}
    Loads = {l1, l2}
    MaxEntries = 1
    TTL <- MCTTL
    LoadTicks = 2
    MaxWrites = 3
    Horizon = 5
    None = None

SPECIFICATION Spec
SYMMETRY Symmetry
CHECK_DEADLOCK FALSE

INVARIANTS
    TypeOK
    StalenessIsBounded
    ClearedIsGone

PROPERTY
    NeverGoesBack
