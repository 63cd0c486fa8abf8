\* No symmetry: liveness properties are among those checked.
SPECIFICATION FairSpec
CONSTANTS
    Uploads = {u1}
    Requests = {r1, r2}
    MaxChunks = 2
    MaxObjects = 3
    MaxFaults = 2
    Mistyped = {}
    HasObjectStore = TRUE
    SlowRequests = FALSE
    NoRow = NoRow
    NoMedia = NoMedia
    NoUrl = NoUrl
    NoUpload = NoUpload
CHECK_DEADLOCK FALSE
INVARIANTS
    ExclusiveCompletion
    NoOrphanWithoutFault
    DuplicatesNeedFaults
    PublishedIsWhole
PROPERTIES
    ClaimsEnd
    KeepsPromise
