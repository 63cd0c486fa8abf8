--------------------------- MODULE ChunkedUpload ---------------------------
(***************************************************************************)
(* The chunked media upload handler (src/lib/chunked-upload.server.ts)     *)
(* together with the media store it assembles into                         *)
(* (src/lib/media-store.server.ts).                                        *)
(*                                                                         *)
(* The database rows are shared state; every HTTP request is a process     *)
(* that takes one step per database or object-store call, so any two       *)
(* requests interleave between two awaits.  A call may fail without        *)
(* effect, take effect and still report an error (the 8 s query timeout of *)
(* src/lib/db.ts), or the server may die between two calls: each of these  *)
(* is a fault, and MaxFaults bounds how many of them a behaviour has.      *)
(***************************************************************************)
EXTENDS Integers, FiniteSets

CONSTANTS
    Uploads,         \* upload ids (crypto.randomUUID, never reused)
    Requests,        \* slots of the server for concurrent HTTP requests
    MaxChunks,       \* bound on the number of chunks of one file
    MaxObjects,      \* bound on the media objects ever inserted
    MaxFaults,       \* bound on failed calls and crashes
    Mistyped,        \* uploads whose bytes do not match the declared type
    HasObjectStore,  \* is an object store configured?
    SlowRequests,    \* may a completion outlive its 10-minute lease?
    NoRow, NoMedia, NoUrl, NoUpload

ASSUME SizesAssumption ==
    /\ MaxChunks \in Nat \ {0}
    /\ MaxObjects \in Nat
    /\ MaxFaults \in Nat

ASSUME DeploymentAssumption ==
    /\ Mistyped \subseteq Uploads
    /\ HasObjectStore \in BOOLEAN
    /\ SlowRequests \in BOOLEAN
    /\ NoUpload \notin Uploads

VARIABLES
    session,   \* media_upload_sessions, by id
    plan,      \* chunks announced by begin; 0 for an id not handed out yet
    chunks,    \* media_upload_chunks: indices present, by session
    media,     \* media_objects, by id
    minted,    \* media ids drawn so far
    bucket,    \* object store: the object under the upload's key
    records,   \* business rows config.finish inserted, by upload
    published, \* the urls those rows carry
    aged,      \* sessions created more than 120 minutes ago
    pruneDue,  \* a begin has started pruneStaleUploadSessions
    pc,        \* the next call of each request
    target,    \* the upload a request is about
    index,     \* x-upload-index of a chunk request
    url,       \* the `stored` of a completion, once it has one
    faults

rows     == <<session, chunks>>
objects  == <<media, minted, bucket>>
business == <<records, published>>
ambient  == <<plan, aged, pruneDue>>
requests == <<pc, target, index, url>>
vars     == <<rows, objects, business, ambient, requests, faults>>

----------------------------------------------------------------------------
(* Rows *)

Index   == 0 .. MaxChunks - 1
MediaId == 1 .. MaxObjects
States  == {"pending", "completing", "assembled"}

\* completion_started_at: null, within the last 10 minutes, or older.
Started == {"null", "recent", "lapsed"}

DatabaseUrl(id) == [storage |-> "database", key |-> id]
BucketUrl(u)    == [storage |-> "object-store", key |-> u]
Urls == {DatabaseUrl(id) : id \in MediaId} \cup {BucketUrl(u) : u \in Uploads}

Sessions == [state : States, started : Started, total : 1 .. MaxChunks,
             storedUrl : Urls \cup {NoUrl}, result : BOOLEAN]
Objects  == [upload : Uploads, parts : SUBSET Index, processed : BOOLEAN]

ASSUME NoRowAssumption == NoRow \notin Sessions
ASSUME AbsentAssumption == NoUrl \notin Urls /\ NoMedia \notin Objects

Exists(u) == session[u] # NoRow

\* An UPDATE ... WHERE id = $1 does nothing when the row is gone.
UpdateRow(u, row) == session' = IF Exists(u) THEN [session EXCEPT ![u] = row]
                                ELSE session

\* DELETE of sessions; the chunks go with them (on delete cascade).
DeleteSessions(gone) ==
    /\ session' = [u \in Uploads |-> IF u \in gone THEN NoRow ELSE session[u]]
    /\ chunks'  = [u \in Uploads |-> IF u \in gone THEN {} ELSE chunks[u]]

\* A database url names a row of media_objects, a bucket url an object.
ObjectAt(address) == IF address.storage = "database" THEN media[address.key]
                     ELSE bucket[address.key]

Serves(address) == ObjectAt(address) # NoMedia

\* Mutant: objects kept in the database are forgotten.
DeletesBucketOnly(address) ==
    /\ bucket' = [u \in Uploads |-> IF address = BucketUrl(u) THEN NoMedia
                                    ELSE bucket[u]]
    /\ UNCHANGED media

DeleteStoredMedia(address) ==
    IF address.storage = "database"
    THEN media' = [media EXCEPT ![address.key] = NoMedia] /\ UNCHANGED bucket
    ELSE bucket' = [bucket EXCEPT ![address.key] = NoMedia] /\ UNCHANGED media

----------------------------------------------------------------------------
(* Requests *)

Completing == {"count", "reopen", "lookup", "assemble", "transform",
               "offload", "drop", "mark", "verify", "erase", "forget", "finish", "save",
               "cleanup", "discard", "release"}

\* The calls inside the handler's try block: an error there runs the catch.
Guarded == {"lookup", "assemble", "transform", "offload", "drop", "mark", "verify",
            "finish", "save", "cleanup"}

\* The other calls: an error there, or in a swallowed .catch(), ends the
\* request; a failed delete of a rejected object is followed by the next call.
Unguarded == {"store", "count", "reopen", "discard", "forget", "release"}

Completes(r, u) == pc[r] \in Completing /\ target[r] = u

Fault  == faults < MaxFaults /\ faults' = faults + 1

\* A call took effect: the handler goes on, or sees an error.
Outcome(r, ok, next, handler) ==
    /\ pc' = [pc EXCEPT ![r] = IF ok THEN next ELSE handler]
    /\ IF ok THEN UNCHANGED faults ELSE Fault

Init ==
    /\ session   = [u \in Uploads |-> NoRow]
    /\ plan      = [u \in Uploads |-> 0]
    /\ chunks    = [u \in Uploads |-> {}]
    /\ media     = [id \in MediaId |-> NoMedia]
    /\ minted    = 0
    /\ bucket    = [u \in Uploads |-> NoMedia]
    /\ records   = [u \in Uploads |-> 0]
    /\ published = [u \in Uploads |-> {}]
    /\ aged      = {}
    /\ pruneDue  = FALSE
    /\ pc        = [r \in Requests |-> "idle"]
    /\ target    = [r \in Requests |-> NoUpload]
    /\ index     = [r \in Requests |-> 0]
    /\ url       = [r \in Requests |-> NoUrl]
    /\ faults    = 0

----------------------------------------------------------------------------
(* begin, chunk, abort, prune *)

NewSession(total) == [state |-> "pending", started |-> "null", total |-> total,
                      storedUrl |-> NoUrl, result |-> FALSE]

\* action "begin": insert the session and start the prune without awaiting it.
Begin(u) ==
    /\ plan[u] = 0
    /\ \E total \in 1 .. MaxChunks :
          /\ plan'    = [plan EXCEPT ![u] = total]
          /\ session' = [session EXCEPT ![u] = NewSession(total)]
    /\ pruneDue' = TRUE
    /\ UNCHANGED <<objects, business, requests, chunks, aged, faults>>

Prune ==
    /\ pruneDue
    /\ pruneDue' = FALSE
    /\ DeleteSessions(aged)
    /\ UNCHANGED <<objects, business, requests, plan, aged, faults>>

\* Mutant: off by one in the bound of the index.
AcceptsOnePastEnd(u, i) == /\ Exists(u)
                           /\ session[u].state = "pending"
                           /\ i <= session[u].total

AcceptsChunk(u, i) == /\ Exists(u)
                      /\ session[u].state = "pending"
                      /\ i < session[u].total

\* A chunk request: check the session, then await the body ...
CheckChunk(r, u, i) ==
    /\ pc[r] = "idle"
    /\ AcceptsChunk(u, i)
    /\ pc'     = [pc EXCEPT ![r] = "store"]
    /\ target' = [target EXCEPT ![r] = u]
    /\ index'  = [index EXCEPT ![r] = i]
    /\ UNCHANGED <<rows, objects, business, ambient, url, faults>>

\* ... and upsert it, whatever the session's state is by then.  The foreign
\* key refuses the row when the session is gone.
StoreChunk(r, ok) ==
    /\ pc[r] = "store"
    /\ chunks' = IF Exists(target[r])
                 THEN [chunks EXCEPT ![target[r]] = @ \cup {index[r]}]
                 ELSE chunks
    /\ Outcome(r, ok, "idle", "idle")
    /\ UNCHANGED <<objects, business, ambient, session, target, index, url>>

\* action "abort": only a session nobody is completing.
Abort(u) ==
    /\ Exists(u)
    /\ session[u].state = "pending"
    /\ DeleteSessions({u})
    /\ UNCHANGED <<objects, business, ambient, requests, faults>>

----------------------------------------------------------------------------
(* action "complete" *)

\* Mutant: the age of a claim is not looked at.
ClaimableAtAnyAge(row) == row.state \in States

\* Mutant: only a stale 'completing' is taken over, not a stale 'assembled'.
ClaimableUnlessAssembled(row) ==
    \/ row.state = "pending"
    \/ row.state = "completing" /\ row.started \in {"null", "lapsed"}

Claimable(row) == \/ row.state = "pending"
                  \/ /\ row.state \in {"completing", "assembled"}
                     /\ row.started \in {"null", "lapsed"}

\* Mutant: a stored result is not looked for.
AlwaysCounts(row) == "count"

FirstCall(row) == IF row.result THEN "discard" ELSE "count"

\* The claim is one UPDATE ... RETURNING; a stored result needs no more work.
Claim(r, u, ok) ==
    /\ pc[r] = "idle"
    /\ Exists(u)
    /\ Claimable(session[u])
    /\ session' = [session EXCEPT ![u].state = "completing",
                                  ![u].started = "recent"]
    /\ target'  = [target EXCEPT ![r] = u]
    /\ url'     = [url EXCEPT ![r] = NoUrl]
    /\ Outcome(r, ok, FirstCall(session[u]), "idle")
    /\ UNCHANGED <<objects, business, ambient, chunks, index>>

\* The result of an earlier completion: forget the session and answer.
Discard(r) ==
    /\ pc[r] = "discard"
    /\ DeleteSessions({target[r]})
    /\ pc' = [pc EXCEPT ![r] = "idle"]
    /\ UNCHANGED <<objects, business, ambient, target, index, url, faults>>

\* total_chunks comes from the claimed row, the count from the chunk table;
\* a row pruned since the claim leaves no chunks.
AllReceived(u) == Exists(u) /\ Cardinality(chunks[u]) = session[u].total

Count(r) ==
    /\ pc[r] = "count"
    /\ pc' = [pc EXCEPT ![r] = IF AllReceived(target[r]) THEN "lookup"
                               ELSE "reopen"]
    /\ UNCHANGED <<rows, objects, business, ambient, target, index, url,
                   faults>>

Reopen(r) ==
    /\ pc[r] = "reopen"
    /\ UpdateRow(target[r], [session[target[r]] EXCEPT !.state = "pending",
                                                       !.started = "null"])
    /\ pc' = [pc EXCEPT ![r] = "idle"]
    /\ UNCHANGED <<objects, business, ambient, chunks, target, index, url,
                   faults>>

\* storeAssembledUpload: reuse the object an earlier completion assembled.
Lookup(r) ==
    /\ pc[r] = "lookup"
    /\ LET stored == IF Exists(target[r]) THEN session[target[r]].storedUrl
                     ELSE NoUrl
       IN /\ url' = [url EXCEPT ![r] = stored]
          /\ pc'  = [pc EXCEPT ![r] = IF stored = NoUrl THEN "assemble"
                                      ELSE "verify"]
    /\ UNCHANGED <<rows, objects, business, ambient, target, index, faults>>

\* insert into media_objects select string_agg(...): data is not null, so
\* a session without chunks makes the insert fail.
Assemble(r, ok) ==
    /\ pc[r] = "assemble"
    /\ chunks[target[r]] # {}
    /\ minted < MaxObjects
    /\ minted' = minted + 1
    /\ media'  = [media EXCEPT ![minted'] = 
                  [upload |-> target[r], parts |-> chunks[target[r]],
                   processed |-> FALSE]]
    /\ url'    = [url EXCEPT ![r] = IF ok THEN DatabaseUrl(minted') ELSE NoUrl]
    /\ Outcome(r, ok, "transform", "release")
    /\ UNCHANGED <<rows, business, ambient, bucket, target, index>>

AssembleNothing(r) ==
    /\ pc[r] = "assemble"
    /\ chunks[target[r]] = {}
    /\ pc' = [pc EXCEPT ![r] = "release"]
    /\ UNCHANGED <<rows, objects, business, ambient, target, index, url,
                   faults>>

\* config.transform (the video watermark) rewrites the object in place ...
Transform(r) ==
    /\ pc[r] = "transform"
    /\ media' = [media EXCEPT ![url[r].key] = IF @ = NoMedia THEN NoMedia
                               ELSE [@ EXCEPT !.processed = TRUE]]
    /\ pc' = [pc EXCEPT ![r] = "offload"]
    /\ UNCHANGED <<rows, business, ambient, bucket, minted, target, index,
                   url, faults>>

\* Mutant: a failed transform falls back to the original upload.
TransformFallsBack(r) ==
    /\ pc[r] = "transform"
    /\ Fault
    /\ pc' = [pc EXCEPT ![r] = "offload"]
    /\ UNCHANGED <<rows, objects, business, ambient, target, index, url>>

\* ... or fails: drop the object, rethrow.
TransformFails(r) ==
    /\ pc[r] = "transform"
    /\ Fault
    /\ DeleteStoredMedia(url[r])
    /\ url' = [url EXCEPT ![r] = NoUrl]
    /\ pc'  = [pc EXCEPT ![r] = "release"]
    /\ UNCHANGED <<rows, business, ambient, minted, target, index>>

\* No store, a file above the offload limit, or a put that failed.
KeepInDatabase(r) ==
    /\ pc[r] = "offload"
    /\ pc' = [pc EXCEPT ![r] = "mark"]
    /\ UNCHANGED <<rows, objects, business, ambient, target, index, url,
                   faults>>

\* The object's key is the session's pathname: a second put overwrites it.
Offload(r) ==
    /\ pc[r] = "offload"
    /\ HasObjectStore
    /\ bucket' = [bucket EXCEPT ![target[r]] = media[url[r].key]]
    /\ pc' = [pc EXCEPT ![r] = "drop"]
    /\ UNCHANGED <<rows, business, ambient, media, minted, target, index, url,
                   faults>>

DropCopy(r, ok) ==
    /\ pc[r] = "drop"
    /\ DeleteStoredMedia(url[r])
    /\ url' = [url EXCEPT ![r] = IF ok THEN BucketUrl(target[r]) ELSE NoUrl]
    /\ Outcome(r, ok, "mark", "release")
    /\ UNCHANGED <<rows, business, ambient, minted, target, index>>

Mark(r, ok) ==
    /\ pc[r] = "mark"
    /\ UpdateRow(target[r], [session[target[r]] EXCEPT !.state = "assembled",
                                                       !.storedUrl = url[r]])
    /\ Outcome(r, ok, "verify", "release")
    /\ UNCHANGED <<objects, business, ambient, chunks, target, index, url>>

\* assertStoredContentType: only database objects are read back.
PassesSignature(address) ==
    \/ address.storage = "object-store"
    \/ /\ Serves(address)
       /\ media[address.key].upload \notin Mistyped

Verify(r) ==
    /\ pc[r] = "verify"
    /\ pc' = [pc EXCEPT ![r] = IF PassesSignature(url[r]) THEN "finish"
                               ELSE "erase"]
    /\ UNCHANGED <<rows, objects, business, ambient, target, index, url,
                   faults>>

\* Rejected content: the object first, then the session with its chunks.
Erase(r) ==
    /\ pc[r] = "erase"
    /\ DeleteStoredMedia(url[r])
    /\ pc' = [pc EXCEPT ![r] = "forget"]
    /\ UNCHANGED <<rows, business, ambient, minted, target, index, url, faults>>

EraseFails(r) ==
    /\ pc[r] = "erase"
    /\ Fault
    /\ pc' = [pc EXCEPT ![r] = "forget"]
    /\ UNCHANGED <<rows, objects, business, ambient, target, index, url>>

Forget(r) ==
    /\ pc[r] = "forget"
    /\ DeleteSessions({target[r]})
    /\ pc' = [pc EXCEPT ![r] = "idle"]
    /\ UNCHANGED <<objects, business, ambient, target, index, url, faults>>

\* config.finish: the music library inserts its track here.
Finish(r, ok) ==
    /\ pc[r] = "finish"
    /\ records'   = [records EXCEPT ![target[r]] = @ + 1]
    /\ published' = [published EXCEPT ![target[r]] = @ \cup {url[r]}]
    /\ Outcome(r, ok, "save", "release")
    /\ UNCHANGED <<rows, objects, ambient, target, index, url>>

SaveResult(r, ok) ==
    /\ pc[r] = "save"
    /\ UpdateRow(target[r], [session[target[r]] EXCEPT !.result = TRUE])
    /\ Outcome(r, ok, "cleanup", "release")
    /\ UNCHANGED <<objects, business, ambient, chunks, target, index, url>>

Cleanup(r, ok) ==
    /\ pc[r] = "cleanup"
    /\ DeleteSessions({target[r]})
    /\ Outcome(r, ok, "idle", "release")
    /\ UNCHANGED <<objects, business, ambient, target, index, url>>

\* The catch: an assembled object stays retryable at once, anything else is
\* pending again.  The UPDATE names the session, not the claim.
Released(row) == IF row.storedUrl = NoUrl
                 THEN [row EXCEPT !.state = "pending", !.started = "null"]
                 ELSE [row EXCEPT !.state = "assembled", !.started = "lapsed"]

Release(r) ==
    /\ pc[r] = "release"
    /\ UpdateRow(target[r], Released(session[target[r]]))
    /\ pc' = [pc EXCEPT ![r] = "idle"]
    /\ UNCHANGED <<objects, business, ambient, chunks, target, index, url,
                   faults>>

----------------------------------------------------------------------------
(* Faults and the passing of time *)

\* A call inside the try block fails without effect.
CallFails(r) ==
    /\ pc[r] \in Guarded
    /\ Fault
    /\ pc' = [pc EXCEPT ![r] = "release"]
    /\ UNCHANGED <<rows, objects, business, ambient, target, index, url>>

\* A call outside it fails without effect, or the server dies before it.
RequestDies(r) ==
    /\ pc[r] \in Guarded \cup Unguarded \cup {"erase"}
    /\ Fault
    /\ pc' = [pc EXCEPT ![r] = "idle"]
    /\ UNCHANGED <<rows, objects, business, ambient, target, index, url>>

\* Ten minutes have gone by since the claim.  Unless SlowRequests, no request
\* lives that long.
LeaseLapses(u) ==
    /\ Exists(u)
    /\ session[u].started = "recent"
    /\ SlowRequests \/ \A r \in Requests : ~Completes(r, u)
    /\ session' = [session EXCEPT ![u].started = "lapsed"]
    /\ UNCHANGED <<objects, business, ambient, requests, chunks, faults>>

GrowsOld(u) ==
    /\ Exists(u)
    /\ u \notin aged
    /\ aged' = aged \cup {u}
    /\ UNCHANGED <<rows, objects, business, requests, plan, pruneDue, faults>>

----------------------------------------------------------------------------
(* Specification *)

Progress(r) ==
    \/ Discard(r) \/ Count(r) \/ Reopen(r) \/ Lookup(r)
    \/ AssembleNothing(r) \/ Transform(r) \/ KeepInDatabase(r) \/ Offload(r) \/ Verify(r)
    \/ Erase(r) \/ Forget(r) \/ Release(r)
    \/ \E ok \in BOOLEAN :
          \/ StoreChunk(r, ok) \/ Assemble(r, ok) \/ DropCopy(r, ok)
          \/ Mark(r, ok) \/ Finish(r, ok) \/ SaveResult(r, ok) \/ Cleanup(r, ok)

Fails(r) == TransformFails(r) \/ EraseFails(r) \/ CallFails(r) \/ RequestDies(r)

Arrives(r) == \E u \in Uploads :
    \/ \E i \in Index : CheckChunk(r, u, i)
    \/ \E ok \in BOOLEAN : Claim(r, u, ok)

Next ==
    \/ \E r \in Requests : Progress(r) \/ Fails(r) \/ Arrives(r)
    \/ \E u \in Uploads : Begin(u) \/ Abort(u) \/ LeaseLapses(u) \/ GrowsOld(u)
    \/ Prune

Spec == Init /\ [][Next]_vars

\* A running request is driven by the event loop and the clock goes on.
Fairness == /\ \A r \in Requests : WF_vars(Progress(r))
            /\ \A u \in Uploads : WF_vars(LeaseLapses(u))

FairSpec == Spec /\ Fairness

----------------------------------------------------------------------------
(* Properties *)

TypeOK ==
    /\ session \in [Uploads -> Sessions \cup {NoRow}]
    /\ plan \in [Uploads -> 0 .. MaxChunks]
    /\ chunks \in [Uploads -> SUBSET Index]
    /\ media \in [MediaId -> Objects \cup {NoMedia}]
    /\ minted \in 0 .. MaxObjects
    /\ bucket \in [Uploads -> Objects \cup {NoMedia}]
    /\ records \in [Uploads -> Nat]
    /\ published \in [Uploads -> SUBSET Urls]
    /\ aged \subseteq Uploads
    /\ pruneDue \in BOOLEAN
    /\ pc \in [Requests -> Completing \cup {"idle", "store"}]
    /\ target \in [Requests -> Uploads \cup {NoUpload}]
    /\ index \in [Requests -> Index]
    /\ url \in [Requests -> Urls \cup {NoUrl}]
    /\ faults \in 0 .. MaxFaults

\* Only one completion of an upload is in flight: the claim of
\* handleChunkedUpload excludes every other until it is released, lapses
\* after its request died, or the session is gone.
ExclusiveCompletion ==
    \A r, s \in Requests : \A u \in Uploads :
        Completes(r, u) /\ Completes(s, u) => r = s

\* Every address a business row carries is served: no clean-up path deletes
\* an object that has been published.
Served ==
    \A u \in Uploads : \A address \in published[u] : Serves(address)

\* A published object holds every chunk of its upload and nothing else, even
\* when chunks arrive after the completion was claimed.
PublishedIsWhole ==
    \A u \in Uploads : \A address \in published[u] :
        ObjectAt(address).parts = 0 .. plan[u] - 1

\* "the final URL always points to the processed bytes and the original
\* upload is never published as a fallback": no failure between the assembly
\* and the transform lets a retry publish the raw object.
Processed ==
    \A u \in Uploads : \A address \in published[u] :
        ObjectAt(address).processed

\* An object served from the database has passed the signature check, also
\* when a retried completion reuses an object assembled earlier.
Typed ==
    \A u \in Mistyped : \A address \in published[u] :
        address.storage = "object-store"

\* What a business row points to stays served, processed and of its type,
\* though completions overlap, fail and reuse each other's objects.
PublishedIsSound == Served /\ Processed /\ Typed

\* While nothing has failed, every media object is reachable: from a
\* session, from a business row, or from the request that is storing it.
NoOrphanWithoutFault ==
    faults = 0 =>
        \A id \in MediaId : media[id] # NoMedia =>
            \/ \E u \in Uploads : DatabaseUrl(id) \in published[u]
            \/ \E u \in Uploads : Exists(u) /\ session[u].storedUrl = DatabaseUrl(id)
            \/ \E r \in Requests : pc[r] \in Completing /\ url[r] = DatabaseUrl(id)

\* A duplicate business row always costs a fault: interleaving alone never
\* publishes an upload twice.
DuplicatesNeedFaults == \A u \in Uploads : records[u] <= 1 + faults

\* Once the result of a completion is stored, no retry inserts the business
\* row again.
StoredResultIsFinal ==
    [][\A u \in Uploads : Exists(u) /\ session[u].result
                             => records'[u] = records[u]]_vars

\* A claim is never permanent: whatever failed, the session of a claimed
\* upload becomes claimable again or goes away.
ClaimsEnd ==
    \A u \in Uploads :
        (Exists(u) /\ session[u].state # "pending")
            ~> (~Exists(u) \/ Claimable(session[u]))

----------------------------------------------------------------------------
(* The promise of UploadPromise, and how its state is read off this one. *)

\* The calls of a completion that may still insert the business row.
MayPublish == {"count", "lookup", "assemble", "transform", "offload", "drop",
               "mark", "verify", "finish"}

Stage(u) == IF Exists(u) THEN IF session[u].result THEN "settled" ELSE "open"
            ELSE IF plan[u] = 0 THEN "none" ELSE "gone"

Hold(u) == IF \E r \in Requests : Completes(r, u) /\ pc[r] \in MayPublish THEN "held"
           ELSE IF \E r \in Requests : Completes(r, u) THEN "spent" ELSE "free"

stages == [u \in Uploads |-> Stage(u)]
holds  == [u \in Uploads |-> Hold(u)]

Promise == INSTANCE UploadPromise WITH stage <- stages, hold <- holds

\* The handler keeps its promise: one completion at a time, one business row for
\* each at most, and none after a result was stored.
KeepsPromise == Promise!Spec
=============================================================================
