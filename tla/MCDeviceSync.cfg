SPECIFICATION FairSpec
CONSTANTS
    Messages = {m1, m2}
    Handlers = {h1, h2}
    MaxPackets = 3
    MaxChanges = 1
    MaxFaults = 1
    Skew = 1
    Ttl = 2
    Latency = 1
    None = None
CHECK_DEADLOCK FALSE
INVARIANTS
    AcceptedOnceWhileFresh
    SnapshotFollowsPolicy
PROPERTIES
    PolicyReachesPhone
