SPECIFICATION Spec
CONSTANTS
    Properties = {p1}
    Prices     = {c1, c2}
    Reviews    = {v1}
    Requests   = {r1, r2}
    MaxStarts  = 3
    None       = None
SYMMETRY Interchangeable
INVARIANTS PublicWasGranted HistoriesHold MediaKept RejectedPublishesNothing
PROPERTIES TrashRemembers PublishedWhenReady
CHECK_DEADLOCK FALSE
