SPECIFICATION ImportSpec
CONSTANTS
    Ads = {ad}
    Requests = {r1, r2}
    MaxRows = 2
    MaxImports = 2
    Nothing = Nothing
CHECK_DEADLOCK FALSE
SYMMETRY Symmetry
INVARIANTS
    OneListing
    ListingHasFile
    ApprovalStands
