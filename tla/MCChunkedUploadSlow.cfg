SPECIFICATION Spec
CONSTANTS
    Uploads = {u1, u2}
    Requests = {r1, r2}
    MaxChunks = 1
    MaxObjects = 2
    MaxFaults = 1
    Mistyped = {u2}
    HasObjectStore = TRUE
    SlowRequests = TRUE
    NoRow = NoRow
    NoMedia = NoMedia
    NoUrl = NoUrl
    NoUpload = NoUpload
SYMMETRY Symmetry
CHECK_DEADLOCK FALSE
INVARIANTS
    PublishedIsSound
