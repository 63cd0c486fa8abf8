SPECIFICATION Spec
CONSTANTS
    Partners = {p1}
    Contracts = {c1, c2, c3, c4}
    References = {ref1}
    Requests = {r1, r2}
    CardSize = 2
    MaxCards = 3
    MaxCount = 6
    MaxGrants = 3
    NoRow = NoRow
    NoRef = NoRef
SYMMETRY Symmetry
CHECK_DEADLOCK FALSE
INVARIANTS
    RewardsAreEarned
