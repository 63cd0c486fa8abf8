\* No symmetry: a liveness property is among those checked.
SPECIFICATION FairSpecFromFirst
CONSTANTS
    Workers = {now, periodic}
    Snapshots = {s1, s2}
    MaxPackets = 2
    MaxAttempts = 2
    BatchSize = 2
    LeaseTicks = 2
    CallTicks = 1
    MaxChanges = 1
    MaxFaults = 1
    NoRow = NoRow
    NoHash = NoHash
CHECK_DEADLOCK FALSE
INVARIANTS
    TwiceOnlyPastLease
    NothingLost
    DeltaIsSound
PROPERTIES
    PacketsLeave
