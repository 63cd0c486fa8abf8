CONSTANTS
    Submissions = {s1}
    Properties = {p1, p2}
    Consultants = {c1, c2}
    Requests = {r1, r2}
    MaxVersion = 3
    None = None

SPECIFICATION Spec
SYMMETRY Symmetry
CHECK_DEADLOCK FALSE

INVARIANTS
    NothingUnapproved
