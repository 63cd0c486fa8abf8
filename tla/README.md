# Hirmand Real Estate: formal models

This directory holds TLA+ models of the parts of this repository whose
correctness depends on the order in which things happen: concurrent HTTP
requests over shared database rows, calls that fail half way, leases and
timeouts, an offline queue on a phone, a cache that races with writes. Each
model is translated from the code; TLC checks it on small instances and TLAPS
proves the results that matter most for every instance.

Paths are relative to the root of the repository.

Contents: [1. The system](#1-the-system) ·
[2. How the modules read](#2-how-the-modules-read) ·
[3. The modules, their runs and their proofs](#3-the-modules-their-runs-and-their-proofs) ·
[4. Runs and theorems at a glance](#4-runs-and-theorems-at-a-glance) ·
[5. Where the code and its words differ](#5-where-the-code-and-its-words-differ) ·
[6. What is not modelled](#6-what-is-not-modelled) ·
[7. Plan](#7-plan)

## 1. The system

The agency runs one web application (TanStack Start; `src/` and `server/`), a
PostgreSQL database, an optional object store, and two Android apps
(`android/`, the phone bridge, and `android-staff/`). There is no queue and no
background process on the server: **all shared state is database rows, and every
HTTP handler is a sequence of separate statements**. `query()` and `execute()`
(`src/lib/db.ts`) take a pooled connection per statement, under READ COMMITTED,
with an 8-second `query_timeout` after which the client gives up on a statement
that the server may yet carry out. Few handlers use a transaction. So the hard
behaviours are the same everywhere: a row checked by one statement and written by
a later one, a sequence that stops between two of its statements, and a retry
after an answer that was lost.

### Components

| Component | State | Operations | What makes it correct | Modelled |
|---|---|---|---|---|
| Chunked upload and media store (`src/lib/chunked-upload.server.ts`, `media-store.server.ts`) | upload sessions with a claim and a lease, chunks, media objects, object store | begin, chunk, complete, abort, prune | one completion at a time; a published file is whole, processed and served; claims end; the promise of `UploadPromise` | `ChunkedUpload`, `UploadPromise` |
| Phone bridge: offline queue and sync worker (`android/…/LocalQueueDb.kt`, `SyncWorker.kt`) | SQLite queue with leases, dead letters, last hash | claim, send, complete, release, fail, heartbeat, user actions | nothing is lost, nothing is sent twice at once but past its lease, the hash on the phone is that of the snapshot on the server, all leaves | `PhoneQueue` |
| Partner loyalty program (`src/lib/partner-program.server.ts`) | accounts, contracts, rewards | submit, approve, reject, suspend, new card, claim | stamps, cards and rewards add up; a decision stands | `PartnerProgram` |
| Customer submissions and review (`server/routes/api/*customer-property-submissions.post.ts`) | submissions, their leads, the listings made of them | create, load/correct, edit, assign, approve, reject, bulk reject | approved iff published, once, as reviewed | `SubmissionReview` |
| Property read cache (`src/lib/property-read-cache.server.ts`) | per process: entries with TTL, loads in flight | read, load, evict, clear | answers are recent and do not go back | `PropertyReadCache` |
| Properties (`src/lib/properties.ts`) and publication reviews (`src/lib/admin-publication.ts`) | properties, their schedule, trash columns, price and change histories, reviews, media | save, bulk status, schedule, expire, trash, restore, purge, request/approve/reject a review | nothing public without permission; trash gives back; histories hold | `PropertyLifecycle` |
| Divar import and review (`src/lib/divar.ts`, `divar-review.ts`) | advertisements stored by crawls, their status, hand approvals, the property imported | crawl, approve, revoke, import, repair, delete | every listing is named by its file; a hand approval stands | `DivarImport` (the property itself: `PropertyLifecycle`) |
| Leads and CRM tasks | leads, tasks | create, move, assign, merge, overdue tasks | one lead per person | the lead of a submission only |
| Device-sync server, signed requests, policies (`device-sync/v1*.ts`, `phone-bridge-auth.ts`, `phone-bridge-signature.server.ts`, `admin-phone-bridge.ts`) | devices with token, policy revision and revision of the last snapshot; nonces; snapshots | snapshot, heartbeat, policy change, disable, rotate, register | a repeated request takes effect once while it is fresh; the server knows which policy a snapshot was reduced by; a policy reaches the phone | `DeviceSync` |
| Remote commands (`remote-control/*.ts`, `admin-phone-bridge-remote.ts`, `RemoteControlService.kt`, `Remote*Activity.kt`) | commands: queued, running, succeeded, failed, expired; on the phone a pending approval | enqueue, poll and claim, confirm, upload, result, expire, approve a restore | one at a time; nothing leaves the phone without its user; an end is final; every command ends; the promise of `CommandPromise` | `RemoteCommands`, `CommandPromise` |
| Other Android services | buffers of locations and calls, settings | sensors, recording, blocking, UI | – | no |
| Partner login, admin sessions, limiter, sign-in gate | sessions, failed attempts, windows | log in, lock, expire | attempts are counted | planned in part |
| Deals, commission, finance, attendance | single rows | forms | – | no |
| Automation of listings | sets of rows | single statements run from the panel | – | expiry only |
| Customer features (chat, workspace, shortlist, watches, open houses) | single rows | insert, read | – | no |
| Staff app | offline events | record, flush | events arrive once | planned |
| Browser upload client | – | loop of chunk requests with retries | – | covered: the server model takes any order of requests |
| Migrations | `_migrations` | apply | each applied once | no |
| Template code, site, panel, static content | – | – | – | no |

### How components interact

- A completed **upload** ends in a *business row* (a music track, or nothing but
  an address for a gallery image). `PropertyLifecycle` meets the media store
  again when a permanent deletion deletes a property's images.
- The approval of a **submission** inserts a property and moves the submission's
  **lead**; a **Divar** advertisement is imported into a property. The action
  `Import` of `PropertyLifecycle` stands for such an insert as the other writers
  of the row see it.
- All changes of properties made from the panel end with
  `clearPropertyReadCache()` **in the process that made them**; the expiry of
  listings and the import do not. `PropertyReadCache` has both kinds of write.
- The **phone** and the device-sync server meet only through HTTP. `PhoneQueue`
  has two works of one phone, and of the server what it has applied, its answers
  and the requests it still works on; `DeviceSync` has the server and its panel,
  with a phone reduced to one packet and one request.
  `RemoteCommands` has both ends of another pair of endpoints.
- A **Divar** file and its property refer to each other by an id only:
  `DivarImport` follows the pair, `PropertyLifecycle` what becomes of the
  property.

### Where the hard behaviours are

`PROJECT.json` lists 40 hazards at the lines where they bite, each with the
properties that would catch it. The recurring ones are: check-then-write over
two statements (approvals, claims, imports, readiness), two statements without a
transaction (listing and approval, business row and result, review and
property), time (10-minute claims, 2-minute leases, TTLs, schedules, expiries,
nonces), and lost answers.

## 2. How the modules read

- Shared variables are tables, named after them; a row is a record and an absent
  row the model value `NoRow` or `None`.
- A request is a process. It takes one action per statement (or group of
  statements in one transaction) that changes state; a read whose
  result is used by a later write is a step apart from that write, as it is in
  the code. Between any two steps of a request any step of another may come.
- A call may fail. `Stop`, `CallFails`, `RequestDies` and the like are the
  error paths: a statement that fails, one that is carried out but reported as
  failed (the query timeout), and a process that dies. A crash of one request at
  any point includes the crash of the process, which is that of all requests.
- *History variables* (`faults`, `overlapped`, `broken`, `granted`,
  `overwritten`, `settled`, …) record what a property needs to know of the past.
  No guard of the code reads them.
- `overlapped` collects the rows that two requests dealt with at once and
  `broken` those that a request left half done. A property that is claimed only
  outside of them says exactly which concurrency or failure the code does not
  survive; what survives everything is claimed without exception, and proved.
- Definitions whose comment begins with "Mutant" (for instance
  `ClaimableAtAnyAge`, `NeverReaped`, `RejectAny`) are not part of any
  specification. Each is the form a definition would have after a plausible
  mistake, and `PROJECT.json` ("mutants") names the property that breaks when it
  is used.
- `MC*.tla` instantiate the modules for TLC; `*Proofs.tla` hold the theorems.
  No module has a RECURSIVE operator, so all of them can be proved about.

Bounds: every module has constants whose comment says "bound". They end
counters that the code leaves open (rows, faults, changes, operations) and are
guards of the actions that count. The runs do not check for deadlock, since a
behaviour that has used up its bounds stops, as the real system rests when
nobody calls it.

## 3. The modules, their runs and their proofs

### 3.1 `ChunkedUpload`

`handleChunkedUpload` and the media store. `session` is
`media_upload_sessions` (state of the completion, when it started, total chunks,
stored address, whether the result is stored), `chunks` is `media_upload_chunks`,
`media` is `media_objects`, `bucket` the object under the upload's key in the
object store, `records` and `published` the business rows and the addresses they
carry. `pc[r]` is the next call of request `r`.

A completion runs `Claim` (one UPDATE: pending, or claimed more than ten minutes
ago), `Discard` when a result is stored, else `Count`, `Reopen`, `Lookup`,
`Assemble`, `Transform`, `Offload`, `DropCopy`, `Mark`, `Verify`, `Erase`,
`Forget`, `Finish` (the business insert), `SaveResult`, `Cleanup`, and
`Release` from the error path. `CheckChunk` and `StoreChunk` are apart, because
the body of a chunk is awaited between them. `Begin` starts the pruning of old
sessions and does not wait for it, so `Prune` is an action of its own.

Simplified: sizes are numbers of chunks; `received_chunks` and
`received_bytes` are only reported and left out; the object store holds one object
per upload key.

Properties. `ExclusiveCompletion`: one completion of an upload at a time.
`DuplicatesNeedFaults`: interleaving alone never inserts the business row twice,
every duplicate costs a fault. `PublishedIsWhole`: what a business row points to
was assembled from all its chunks. `PublishedIsSound`: what it points to is still
there, is the processed object, and, from the database, has the declared type.
(`assertStoredContentType` reads back only objects kept in the database: an
address in the object store passes unread.) `NoOrphanWithoutFault`:
without faults no media object is left unreferenced. `ClaimsEnd`: a claimed session
becomes claimable again or goes away, whatever failed.

`UploadPromise` is the abstract specification: an upload is announced, held by at
most one completion, published at most once for each hold, settled when a result
is stored and never published after that, and gone for good. `KeepsPromise` is
`Promise!Spec`, where `Promise` is `UploadPromise` with `stage` and `hold` read
off the session and the program counters (`stages`, `holds`): a completion
*holds* from its claim until it can insert no more, then it is *spent*.

Runs. `upload`: one upload of up to two chunks, two requests, three media
objects, two faults, no completion longer than its lease (220,815 states).
Two chunks let a chunk be missing, late or one past the end; two requests are a
retry racing its original; three objects are two failed assemblies and a good
one; two faults are a failure and a failure of its clean-up. `upload_slow`:
completions may outlive the lease (`SlowRequests`), two uploads one of which has
bytes of another type, one fault (2,722,743 states). Here two completions
overlap, so `ExclusiveCompletion` and the promise are not claimed (the comment at
`chunked-upload.server.ts:301`, that only one UPDATE can win, is about one instant);
that what is published stays served, processed and typed still holds.

Fairness (`FairSpec`, for `ClaimsEnd`): weak fairness of each request's progress
(the event loop goes on with a request whose call has returned; a call
always returns or times out) and of the lapse of each lease (clocks advance).
None on arrivals: nobody need retry.

Proofs (`ChunkedUploadProofs`). `TypeInv == TypeOK /\ Located` — a request that
has passed a step carries the upload, row or address its next call uses — is
inductive; `TypeCorrect` follows. `CompletionIsExclusive` is
`~SlowRequests => (Spec => []ExclusiveCompletion)`: exclusion is not inductive,
since two claims are kept apart by the session row and not by each other, so
`ClaimInv` adds `Held` (the session of a running completion is freshly claimed,
or pruned), `Planned` (the id of a session was handed out, and is not handed out
again) and `Unsaved` (a completion that has yet to store its result works on a
session without one). From it, `ResultIsFinal` (`StoredResultIsFinal`: after the
result is stored no retry inserts again): only `Finish` inserts
(`OnlyFinishRecords`), and a request at `Finish` has a session without a result.
`PromiseIsKept` is `~SlowRequests => (Spec => KeepsPromise)`: the initial states
map to the initial state and, under `ClaimInv`, every action maps to one step of
the promise or to a stutter, one lemma per action. `DuplicatesArePaid` adds `Paid`
to `ClaimInv` (a session that may still publish has no more rows than there were
faults).

Three theorems need no bound on the lease, so what `upload` and `upload_slow`
check on two instances holds whether or not a completion is overtaken.
`PublishedStaysSound` (served, processed, typed) needs `MediaInv`: until it has
marked its session, a completion is alone with its object (`PrivateTo`); an
address another can read names an object that is ready or erased (`Usable`); a
published one is never erased (`Lasting`). `PublishedStaysWhole` needs `WholeInv`:
once the chunks of a session were counted complete, they stay until the session
goes. `NothingIsOrphaned` needs `Referred`: without a fault an object is published
or in the hands of a request. `ClaimsEnd` is liveness and stays with TLC.

### 3.2 `PhoneQueue`

`LocalQueueDb` and `SyncWorker.doWork`. `queue` and `dead` are the SQLite
tables, `nextId` AUTOINCREMENT, `lastHash` the preference; per work `step`,
claimed `batch`, ticks `left` to the current call, `reply`, and the snapshot
`seen`. `SyncScheduler` enqueues `SyncWorker` under two unique names, so a manual
and a periodic sync can run at once in one process: two works. `ProcessDies` ends
both and leaves their leases.

Of the server (`v1.post.ts`) there is the snapshot it applied last (`latest`) and
the requests it still works on although the phone has given them up (`adrift`):

| Code | Action |
|---|---|
| the snapshot is applied (149–194), or the request refused before any of it is written | `Answer` |
| it is applied, and then a statement for contacts, messages or apps fails (218, 261, 279), or OkHttp repeats the request and the copy's nonce is known: 5xx or 409 | `AppliedYetRefused` |
| the call throws or the process dies: the request never arrived, was answered, or is still being handled (`GivesUp`) | `CallThrows`, `ProcessDies` |
| the request that was given up ends, applied or not, after any number of later ones | `EndsUnheard` |

One tick is about a minute: a lease of 2 minutes is 2 ticks, a call (10 s
connect, 20 s write, 20 s read) 1. `Tick` cannot pass while a work that holds a
batch is between two calls: what it does there takes no time to speak of, which is
the assumption that favours the code. Snapshots are told apart by their hash
only. `settled`, `outlived`, `crossed` and `unsure` are history. A full disk is the
alternative of `Insert` that inserts nothing. The lookup of an equal queued row
(`Lookup`) and the insert are two statements, so two works may queue one
snapshot twice; the server ignores the repeated `syncId`.

Properties.

- `TwiceOnlyPastLease`. The code's comments say that two works can never both
  send a packet. They can: one lease covers a batch of up to 20 packets sent one
  by one, which together may take far longer (section 5). What holds is that this
  takes the lease to run out while a work still has the row at hand (`outlived`):
  neither the order of the works, nor a retry, a release, a death of the process or
  a restored dead letter puts one packet into two calls.
- `NothingLost`. A packet that left the queue was accepted by the server, is a
  dead letter, or was discarded by the user.
- `PacketsLeave`. Every packet leaves the queue.
- `DeltaIsSound`. While no packet is being sent, the hash that makes the phone
  send a heartbeat instead of a snapshot is that of the snapshot the server has,
  unless other requests were under way when the hash was noted (`crossed`), or a
  call or the process has failed since (`unsure`). The next packet that is sent
  alone, accepted and noted makes it true again, whatever happened before.

Run `phone_queue`: two works, two packets, batches of two, a lease of two ticks
and calls of one, one change of data, one fault, two attempts (817,598 states). A
batch of two calls uses up its lease, as a batch of 20 does in the code, so the
second packet of a batch can be claimed again while its first owner is about to
send it or is sending it. A fault is a call that throws, a snapshot applied and
refused, or the death of the process; refusals before anything is applied are free.

Fairness (for `PacketsLeave`): weak fairness of `Start` (WorkManager runs
periodic work again), of a work's own steps, of an answer of some kind, of time
and of the end of a backoff; strong fairness of an accepting answer: a call that
is made again and again is accepted some time. Without the last, a phone that is
unauthorized for good keeps its packets, which is right.

`FirstInit` fixes the first snapshot instead of a symmetry, which TLC must not
combine with liveness.

Proofs (`PhoneQueueProofs`). `TypeInv` adds to `TypeOK` what a work has at hand at
each step (`AtHand`), that ids are drawn in order and a dead letter is no row's
(`Drawn`), and one letter per id. That a claim fits `BatchSize` and lists each
row once rests on `RanksAreDense`: counting the smaller ids of a finite set is a
bijection onto `0 .. n - 1`. `NothingIsLost` needs in addition only that a work
with an accepted call holds a packet that is settled (`AnsweredTruly`).
`OnlyPastLease` proves `TwiceOnlyPastLease` for any lease, any length of a call and
any size of batch, with no assumption on their proportion: a row at hand is gone,
or still leased, or has outlived its lease (`HeldOnLease`), so a claim finds a row
that is at hand elsewhere only if it has outlived it (`Disjoint`).
`HeartbeatIsSound` proves `DeltaIsSound` from `InStep`: an accepted work that was
alone throughout has sent what the server has, and as long as nobody has such news
and nothing has failed, `lastHash` is what the server has; a request adrift keeps
the phone unsure.

### 3.3 `PartnerProgram`

`account`, `contract`, `available` and `claimed` are the tables (a reward is its
number); `RewardEvery` is 3; `CardSize` is 12 in the code and a constant
here. Most operations are one statement: `CreateAccount`, `UpdateStatus`,
`IssueNewCard`, `Reject`. Submission, approval and claim are a read and a later
write: `StartSubmit`/`InsertContract`, `StartApprove`/`Approve`,
`StartClaim`/`Claim`. For `Approve`, the read is the snapshot of the statement
itself: the pending test is in a CTE that reads the snapshot, and an UPDATE that
then waits for the account row re-evaluates, under READ COMMITTED, only the WHERE
of the row it targets. `Earned` is the modulo test of the reward.

Properties. `BooksAddUp` (count = full cards × size + stamps, and every third
count has earned exactly one reward, and a claimed one never comes back) holds
under all interleavings. `OnceWithoutOverlap` and `DecisionStands`: a contract
counts once, a reward is granted once, a decision is final, for partners where no
two requests dealt with one contract or reward at once.

Runs. `partner`: one partner (partners share nothing), four contracts, a
reference, three requests, cards of two, up to three cards and a count of six
(74,453 states): the card fills and is replaced, the first and second reward are
earned, three approvals wait for each other. `partner_earned`: section 5.

Proofs (`PartnerProgramProofs`). The conjunction `TypeOK`, `RowsExist`,
`CardAddsUp`, `RewardsFollowCount` is inductive; `NextReward` and `FullCard` are
the arithmetic of one more approval. Theorems `TypeCorrect` and `BooksAreKept`,
for every card size and number of concurrent requests. For the rest, `Careful` says
what stays true between the read and the write of a request that is the only one at
its contract or reward (the contract is still pending, the reward still available),
and `Counted` that the count of a partner is the number of approved contracts, and
the grants that of the claimed rewards. From the two follow `CountedOnce` and
`DecisionsAreFinal`; and, with the books, `RewardsAreEarnedOnce`: for partners where
no two requests met, the promise that `partner_earned` refutes holds.

### 3.4 `SubmissionReview`

`row` is `customer_property_submissions`, `lead` the lead of each, `published` the
listings made of submissions, and a request carries the row it read and what it
will write. A create is `InsertLead` and then `InsertRow`, or `InsertFails`, which deletes the
lead again; edit, assign, approve and reject read a row, check its
status, and update by id; an approval inserts the listing (`Publish`), updates
the submission, then moves the lead; bulk reject works on a set. A version
stands for the content of a submission. `Stop` ends a request between any two
statements.

Properties. `ApprovedIsPublished` holds always: an approved submission names a
listing made of it. `PublishedOnce`, `PublishedAsReviewed` and `LeadFollows` hold
where no two requests dealt with the submission at once; the first and third also
need that none stopped half way. With an overlap they do not hold: an edit writes
over a correction it did not read, and a bulk reject can close the lead of a
submission approved meanwhile. `PublishedAsReviewed` is about every listing made of
a submission: it shows the data last written, under the consultant assigned. Once an
approval stopped half way this is true of the recorded listings only (`Recorded`:
the submission names it, or the approval that inserted it still can). An approval
that stops after its insert leaves a listing that nothing names; when the submission
is then corrected and approved again, that listing stays on the site with the data
of before (section 5).

Runs. `submissions`: two submissions, two properties, two consultants, two
requests, two versions (2,428,340 states): a submission rejected, corrected and
approved while another is in the same bulk. `submissions_unapproved`: section 5.

Left out: priorities, event log, listings, export; leads moved by hand; the
30-minute duplicate check is left open (a request may be refused or not).

Proofs (`SubmissionReviewProofs`). `TypeOK`, `RequestsSound` (what a request
relies on: the rows it read exist, an approval about to be recorded has inserted
its listing) and `ApprovedIsPublished` are inductive together. A second invariant,
`Careful`, speaks of one submission that no two requests ever dealt with at once:
what the one request at it read is still the row, so its update writes over nothing
it did not see, and every listing that is recorded, or of a submission nothing
broke off at, is as the row is. From it follow the three properties above. Theorems `TypeCorrect`,
`ApprovalPublishes`, `OnceAtMost`, `AsReviewed` and `LeadsFollow`, and the part of the
promise refuted by `submissions_unapproved` that stands, `OnlyApprovedAreListed`.

### 3.5 `PropertyReadCache`

The cache of one process. `cache` maps a key to a value and the time it has left,
`load` are the promises behind `inFlight`, `pending` the changes written but not
yet cleared, `db` the version of the database, on which every key depends. A miss
starts a load (`Miss`), which queries (`Query`), stores (`Store`, with the
eviction of the entry used least recently when the cache is full, expired entries
counting like others: which one that is is left open) and settles (`Settle`); a read of a key being loaded joins. `Write(TRUE)` is
a change by this process, whose `Clear` follows later; `Write(FALSE)` one by
another process, an import or an expiry, after which this process clears nothing.
`LoadTicks`, the longest a load takes, is justified by `query_timeout`.

Properties. `StalenessIsBounded`: an answer is what the database held within the
key's TTL plus one load, whoever made the change. `ClearedIsGone`: after a clear
only a load that had read before it (`late`) brings older data back: the cache
does not forget the loads in flight, and this says how far that goes.
`NeverGoesBack`: the values stored for a key never get older.

Run `read_cache`: two keys with TTL 1 and 2, room for one, two loads of up to two
ticks, three changes (2,170,079 states): eviction while loading, a late load
across a clear, two clears in a row. `Horizon` only bounds counters and is above
every TTL plus a load.

Proofs (`ListingProofs`, first part). The invariant adds `Versioned` (nothing is
newer than the database), `HeldIsRecent` (what a load holds is no older than the
load, no older than what was stored before, and from after the last clear
unless late), `OneLoadPerKey`, `EntriesRunOut` (age and time left add up to at most
TTL plus a load) to the properties. Theorems `TypeCorrect`, `AnswersAreRecent`,
`OnlyLateLoadsReturn`, `ReadsAreMonotone`; the size of the cache uses the
library's facts about finite sets.

### 3.6 `PropertyLifecycle`

All writers of one row of `properties`. A row has a status, a content (a price
and whether it passes `getPublishReadiness`), `deleted_from_status` (`from`, set
with `deleted_at`), and two times that are absent, future or past. `Public` is
`PUBLIC_PUBLICATION_WHERE`.

| Code | Actions |
|---|---|
| `saveProperty` | `StartSave`, `Upsert`, `Reread`, `RecordPrice`, `RecordChange` |
| bulk status, schedule | `StartStatus`, `SetStatus`; `StartSchedule`, `SetSchedule`; then `RecordChange` |
| `archiveExpired`, the clock | `Expire`, `Clock` |
| trash, restore, purge | `StartTrash`, `MoveToTrash`, `Restore`, `StartPurge`, `Delete`, `DeleteMedia` |
| reviews (`admin-publication.ts`) | `StartAsk`, `Ask`; `StartDecide`, `Publish`, `Decide` |
| import, repair (`divar.ts`), approved submissions | `StartImport`, `Import`; `StartRepair`, `Repair` |
| a statement fails, or the server dies | `RereadFails`, `Stop` |

`granted` collects the properties that someone with `property.publish` asked to
publish. `admitted` collects those that an import or a repair was to publish for
someone without it: `importDivarFile` asks for `divar.import` alone, which the
sales role has without `property.publish` (`admin-roles.ts:60–68`). Both take the
caller's permission as a parameter (`Admit`); every other operation starts with
`Accept` and can only grant. An approved submission inserts its property as an
import does, and asks for `property.manage` alone (section 5).

Left out: the featured mark, consultant, availability, slug,
`published_at`; a bulk operation is followed on each of its properties apart,
as they share no state; the history row of a restore, whose errors are ignored;
a request that stops before its first write, which leaves no trace. A schedule is
set to none or a future time: a past one is a future one followed by `Clock`.

Properties. `PublicWasGranted`: no mix of drafts, schedules, trash, restores,
reviews, imports shows the public what nobody allowed to publish asked for, but
for what an import or a repair was to publish for a role that may not. So the rule
that only permitted roles publish (`properties.ts:1725`,
`admin-publication-queue.tsx:52`) is broken by the import, which the property names,
and by no other handler of the module.
`TrashRemembers`: the status a restore gives back does not change in the trash.
Both hold under any overlap and any failure. `HistoriesHold` (the price history
is a chain ending in the price, and what saves overwrote is in the
change history), `MediaKept` (the images of a property never deleted for good
are kept), `PublishedWhenReady` and `RejectedPublishesNothing` are claimed for
properties that no two requests dealt with at once; overlapping requests break
each of them, see section 5.

Run `property_lifecycle`: one property, new or an existing draft, two prices, one
review, two requests, any three operations (2,246,922 states). Three operations
are enough for save–trash–restore, schedule–edit–clock, ask–edit–approve,
trash–purge–restore and their overlaps; what a longer sequence could do is the
subject of the proofs.

Proofs (`PropertyLifecycleProofs`). The invariant is `TypeOK`, `RequestsSound`
(what a request carries is still backed: the review it decides was requested, the
price it compares was read, what it will publish was granted or admitted) and
`RowsGranted` (a row that is published, will be restored to published, or has a
time of publication, is granted or admitted). Theorems `TypeCorrect`, `PublicIsGranted`,
`TrashKeepsStatus`.

The other four properties are about what a request read and what it finds when it
writes. `Careful` is the invariant they share: at a property no two requests have
dealt with at once there is one request, and what it has read still holds (the row
of a save is the row it compares, the property it publishes is complete, the one it
deletes is in the trash). On top of it, one invariant each: `Accounts` (the price
history ends in the price, and what was overwritten is recorded, up to what the
running save still has to write) for `HistoriesAreKept`; `ImagesHold` for
`ImagesAreKept`; `ReviewsHold` (a review that has acted is approved, or is being
approved) for `RejectionsHold`. `OnlyCompleteIsPublished` needs `Careful` alone.

### 3.7 `RemoteCommands`

Both ends of the commands the panel sends to a phone. `cmd` is
`phone_bridge_remote_commands` (kind, status, minutes left to `expires_at`),
`files` the photos and recordings stored, `allowed` the kinds the device's policy
leaves allowed. On the phone: the poll under way (`poll`, both its handler and the
thread that waits), `located` and `callbacks` (the current location request and
the calls of `getCurrentLocation` that have not come back), `work` (what the
activity of a command does), `report` (results on their way) and the approval of a
restore (`pending`, `prompted`, `dialog`).

| Code | Actions |
|---|---|
| `createPhoneBridgeRemoteCommand`, `setPhoneBridgeDevicePolicy` | `CheckCommand`, `InsertCommand`; `SetPolicy` |
| `command.get.ts` | `PollBegin`, `PollExpire`, `PollClaim`, `PollDisallowed`, `PollLost` |
| `RemoteControlService`: the command arrives | `HandleGetLocation`, `HandleTakePhoto`, `HandleRecordAudio`, `PrepareRestoreApproval` |
| locations; activities; `photo.post.ts`, `audio.post.ts` | `LocationArrives`, `LocationTimeout`; `Confirm`, `Leave`, `Upload`, `SendResult` |
| `result.post.ts`, `data.post.ts` | `DeliverReport`, `LoseReport` |
| `MainActivity`'s approval | `Prompt`, `CancelDialog`, `AnswerRestore`, `TearDown` |
| the service's life | `StopRemote`, `KillProcess`, `StartRemote`; `Tick` is one minute |

Simplified: one phone; `take_photo` stands for every action that opens an
activity and posts from a thread of its own (`manage_files`, `list_apps`,
`list_notifications`); a photo is a member of `files`. Left out: the branch of
`data.post.ts` that takes chunks of a restore, which this phone never reaches
because its approval fails before (section 5); the revocation of the token.

Properties. `OneActive`: a device has one active command, unless two requests of
the panel overlapped in their check. `KeepsPromise`: the two ends implement
`CommandPromise`, an abstract specification of what becomes of a command (asked
for, waiting, given, missed or late, and its ends): it is asked for while no other
is active, given once, in time and in order, and ends once, and it succeeds, or
has a file stored, only if the phone was given it and its user agreed. The stage of
a command is read off the status and the time left of its row (`Stage`); polls
that come to nothing, messages and dialogs are stutters. `FinishedIsFinal`, that an
end is final whatever arrives later, follows from it. `NothingWithoutTheUser`: no file reaches the server and
no command but a location succeeds without the user's confirmation on the phone.
`PendingCanBeAnswered`: a restore that the phone remembers is shown or will be
shown, unless its activity was recreated under the dialog.
`OnlyRecordingsAreRefused`: only the reports of a recording can be refused while
their command runs. `CommandsEnd`: every command ends.

Run `remote_commands`: two commands (a pair of locations, a pair of restores, a
photo, a recording), two requests of the panel, one fault, one change of policy
(703,679 states): a location answered after its successor was asked, a restore
that meets a pending one, a poll whose answer is lost.

Fairness (for `CommandsEnd`): weak fairness of time, of the poll's steps (the
service polls every 5 seconds) and of `StartRemote` (the app is opened again).
None of the user, the GPS or the reports: a command ends by its expiry, which the
poll records.

Proofs (`RemoteCommandsProofs`). `TypeInv` (`TypeOK`, what is at hand in each
phase of a poll, and that a row exists for all that the phone works on) is
inductive. Theorems `TypeCorrect`, `OneCommandAtATime` (with: whoever is between
check and insert is alone and nothing is active), `UserComesFirst` (with:
uploaded work was confirmed), `RestoresAreAsked`, `RefusalsAreOfRecordings` (with:
what is in the network fits its command unless it is a recording's),
`EndsAreFinal`, and `PromiseIsKept`, the refinement: one lemma for each action that
moves a row, takes consent or stores a file, which names the step of the promise it
is, and one for all others, which the promise does not see. It rests on the
invariants of `OneCommandAtATime` (why a command is asked for alone) and
`UserComesFirst` (why a success was agreed to), and on `GivenFirst`: whatever the
phone works on was claimed, and no row returns to the queue (why a user agrees only
to what the phone was given).

### 3.8 `DeviceSync`

The server of the phone's snapshots. `device` is the row of
`phone_bridge_devices` (enabled, token, policy revision, the revision noted with
the last snapshot, its packet), `stored` is `phone_bridge_syncs` with the revision
each packet was reduced by, `nonce` the rows of `phone_bridge_request_nonces`.
`message` is the network: a request carries a packet or is a heartbeat, has a
token and an age, and may be delivered again. `handler` is a request being handled.

A handler takes `Authenticate`, `CheckFreshness`, `ForgetNonces`,
`RememberNonce`, then `Upsert` and `Store` for a snapshot or `Heartbeat`, and
`Answer`; `Stop` ends it anywhere. The phone is one work: `Collect`, `Send`,
`GiveUp`. `Vanish` and a second `Deliver` are the network's faults (OkHttp
repeats a request whose connection broke). The panel has `SetPolicy`,
`SetEnabled`, `RotateToken`; `Register` enables the device as
`register.post.ts` does, and `EnterToken` is the user's.

Left out: consent, which `register.post.ts` writes; the content of a snapshot; the
minimal app version and the rate limit, one statement each; the other endpoints,
which authenticate the same way.

Properties. `AcceptedOnceWhileFresh`: a signed request is accepted once while its
timestamp is fresh, however often it is repeated. `accepted` counts the inserts of
its nonce that happen while the request is fresh still; one that passes the check at
the very end of the window, and goes stale before its nonce is inserted, is not
counted, and can be a second one (section 5). `SnapshotFollowsPolicy`: the revision the server notes with the last
snapshot is the one that snapshot was reduced by, unless its packet met a change,
was stopped between its two writes or was accepted twice. `PolicyReachesPhone`:
a changed policy reaches the phone and is answered by a snapshot made under it,
as long as the phone may speak to the server.

Run `device_sync`: two requests and two handlers, three packets, one change, one
fault, `Skew` 1, `Ttl` 2, `Latency` 1 (3,569,760 states). One unit is the skew of 5
minutes, so `Ttl` has exactly the code's proportion; a request signed one skew
ahead and repeated until it is one skew old meets its nonce at its last tick. A
handler may take a tick between its check of the timestamp and the insert of the
nonce, in which other handlers, the panel and the network go on.

Fairness (for `PolicyReachesPhone`): periodic work goes on (`Collect`, `Send`,
`GiveUp`), a request that is not lost arrives, handlers go on. Faults are bounded:
a network that loses every request keeps the policy from the phone, rightly.

Proofs (`DeviceSyncProofs`). `TypeInv` adds the shape of each handler and message
to `TypeOK`. `AcceptsOnce`: for any skew, any latency and `Ttl >= 2 * Skew`, which
the code meets with equality, the nonce of an accepted request is remembered for as
long as a copy of it is fresh (`Remembered`: what is left of the nonce plus the age
of the request is at least `Ttl - Skew`, since it was accepted at an age of at least
`-Skew`). `SnapshotsFollow` relates
the packet in each handler, the one in the row and the ones taken.

### 3.9 `DivarImport`

One advertisement of the external site, its row and the listings made of it.
`verdict` is what the site and the filter say of it now, `crawled` what a running
crawl has read, `row` the row of `divar_files` (status, manual override, flagged,
the id of the listing), `property` the listings that exist, `request` the handlers
with what they read.

A crawl is `Crawl` and then `StoreRejected` or `StoreAccepted`; opening the list
re-checks what is accepted (`ListAccepted`). An import is `StartImport`, `Fetch`,
`Look`, `Unlink`, `Insert`, `Record`, or `Refuse`, or `Stamp` for a repair;
`StartApprove`, `Approve` (or `ApproveStops`), `StartRevoke`, `Revoke`, `Delete`
are `divar-review.ts`, `Purge` the trash, `Dies` the end of a request anywhere.

Simplified: a listing is its id, since what becomes of its status and images is
`PropertyLifecycle`'s (`Import`, `Repair`); staff imports are a subset of the
admin's; the search pages, the parser and the rows of `divar_sync_runs` are left out.

Properties. `ListingHasFile` ("published files are protected"): a listing is named
by the file of its advertisement, or is about to be, unless handlers overlapped,
an import stopped before it named its property, or one refused the file of a
listing. `OneListing`: with the same exceptions, an advertisement has one listing,
and its file is stored as long as that listing is. `ApprovalStands`: what a person approved is not rejected by a sync or an
import that read the row after the approval.

Run `divar_import`: one advertisement, two requests, two rows drawn, two imports
(2,303,196 states): deletion and a second crawl, two imports at once, a repair
after the advertisement changed hands. Advertisements share nothing, so one is
enough; ids show that a handler whose row was deleted and crawled again changes
nothing.

Proofs (`ListingProofs`, second part, next to the cache of reads, the other module
about the table of properties). `ListingHasFile` is not inductive, for
five reasons that are the other conjuncts of `Filed`: a row that a handler updates
must be the one of its listing's advertisement (`OneAdvertisement`: a property is
named for one advertisement only, by listings, files and handlers together); two
handlers of an advertisement that is not in `overlapped` do not exist (`Alone`);
until it writes, a lone handler's row is as it read it (`ReadsHold`, from which an
import that records finds no other listing in the row, one that unlinks finds its
listing gone, and one that refuses finds no approval); and the file of a listing
is published (`Protected`), since only that keeps `Delete` from it. What the crawl
does to a row is one relation (`Refreshed`), so that its three actions share a
proof, as the five statements that end a handler do (`WriterKeeps`). Theorems
`FilesAreTyped`, `ListingsKeepFiles`, `PublishedOnlyOnce`, `ApprovalsStand`, for any
number of advertisements, handlers, rows and imports; and `RepairsTheirOwn`, with no
exceptions: the files and handlers of two advertisements never name one listing. The
run has one advertisement, where that says nothing.

## 4. Runs and theorems at a glance

| Run | Module | Expected | Shows |
|---|---|---|---|
| `upload` | `MCChunkedUpload` | pass | exclusion, wholeness, no orphans, the promise, claims end |
| `upload_slow` | `MCChunkedUpload` | pass | the same files when a completion outlives its claim |
| `phone_queue` | `MCPhoneQueue` | pass | two senders only past a lease, no loss, sound heartbeats, all packets leave |
| `remote_commands` | `MCRemoteCommands` | pass | one at a time, the user first, the promise of `CommandPromise`, all end |
| `device_sync` | `MCDeviceSync` | pass | repeated requests, snapshots against policies |
| `partner` | `MCPartnerProgram` | pass | cards, rewards, decisions |
| `partner_earned` | `MCPartnerProgram` | violation | one contract counted twice |
| `submissions` | `MCSubmissionReview` | pass | approval and listing |
| `submissions_unapproved` | `MCSubmissionReview` | violation | a listing of a submission not approved |
| `read_cache` | `MCPropertyReadCache` | pass | bounded staleness, order of reads |
| `property_lifecycle` | `MCPropertyLifecycle` | pass | publication, trash, histories, reviews |
| `divar_import` | `MCDivarImport` | pass | one listing of an advertisement, its file, hand approvals |

| Theorem | Module | Says, for all constants |
|---|---|---|
| `TypeCorrect` | each proof module | `Spec => []TypeOK` |
| `CompletionIsExclusive`, `ResultIsFinal` | `ChunkedUploadProofs` | if no completion outlives its claim: one at a time, and a stored result is final |
| `PromiseIsKept` | `ChunkedUploadProofs` | under the same assumption, the handler implements `UploadPromise` |
| `DuplicatesArePaid` | `ChunkedUploadProofs` | under the same assumption, a second business row costs a fault |
| `PublishedStaysSound`, `PublishedStaysWhole`, `NothingIsOrphaned` | `ChunkedUploadProofs` | whatever overlaps: published files are whole and served, none is orphaned without a fault |
| `NothingIsLost` | `PhoneQueueProofs` | a packet leaves the queue as received, as a dead letter or by the user's hand |
| `OnlyPastLease` | `PhoneQueueProofs` | whatever the proportions, a packet is in two calls at once only past its lease |
| `HeartbeatIsSound` | `PhoneQueueProofs` | unless requests crossed or failed, a heartbeat stands for the snapshot the server has |
| `OneCommandAtATime`, `UserComesFirst`, `RestoresAreAsked`, `RefusalsAreOfRecordings`, `EndsAreFinal` | `RemoteCommandsProofs` | the safety properties of remote commands |
| `PromiseIsKept` | `RemoteCommandsProofs` | panel, server and phone implement `CommandPromise` |
| `AcceptsOnce`, `SnapshotsFollow` | `DeviceSyncProofs` | a request is accepted once while fresh; the noted revision is that of the snapshot |
| `BooksAreKept` | `PartnerProgramProofs` | the books of the loyalty program |
| `CountedOnce`, `DecisionsAreFinal` | `PartnerProgramProofs` | without overlap: a contract counts once, a reward is granted once, decisions stand |
| `RewardsAreEarnedOnce` | `PartnerProgramProofs` | without overlap: one reward per three approved contracts |
| `ApprovalPublishes` | `SubmissionReviewProofs` | an approved submission is published |
| `OnceAtMost`, `AsReviewed`, `LeadsFollow` | `SubmissionReviewProofs` | without overlap: one listing; the recorded listings show the data last written, and all do if no approval stopped half way; leads follow reviews |
| `OnlyApprovedAreListed` | `SubmissionReviewProofs` | without overlap or a half-done request: between requests, what is listed is approved |
| `AnswersAreRecent`, `OnlyLateLoadsReturn`, `ReadsAreMonotone` | `ListingProofs` | freshness and order of cached reads |
| `FilesAreTyped`, `ListingsKeepFiles`, `PublishedOnlyOnce`, `ApprovalsStand` | `ListingProofs` | listings keep their files, each advertisement has one, and approvals stand, unless handlers overlapped or an import broke off |
| `RepairsTheirOwn` | `ListingProofs` | whatever overlaps, two advertisements share no listing |
| `PublicIsGranted`, `TrashKeepsStatus` | `PropertyLifecycleProofs` | publication needs a grant, or an import or repair; the trash remembers |
| `OnlyCompleteIsPublished`, `ImagesAreKept`, `RejectionsHold`, `HistoriesAreKept` | `PropertyLifecycleProofs` | without overlap: what is published is complete, images and histories are kept, rejections publish nothing |

The proofs assume only the named assumptions on constants (bounds are natural
numbers, model values that stand for "absent" are not rows, and in `DeviceSync`
`Ttl >= 2 * Skew`, which the code's constants meet), which TLC evaluates on every
run. Where a module's
`TypeOK` is proved, its run need not list it.

Only model-checked: liveness (`ClaimsEnd`, `PacketsLeave`, `CommandsEnd`,
`PolicyReachesPhone`), which with fairness and ENABLED is out of the prover's
reach.

## 5. Where the code and its words differ

Two runs end in a counterexample. Each checks a sentence of the repository:

- **A reward may cost fewer than three contracts** (`partner_earned`).
  `migrations/0025_partner_program.sql:3`. Two approvals of one contract at once
  count it twice.
- **A listing may be public before its approval** (`submissions_unapproved`). The
  panel (`admin-customer-property-submissions.tsx:395`) says none is. The
  listing is inserted as published before the submission is updated.

Met while modelling, inside the behaviours that the properties exclude by their
history variables or assumptions, and not shown by a run of their own:

- **Uploads.** `migrations/0031_media_upload_completion.sql:1` promises
  "idempotent and recoverable". The business row and the stored result are two
  statements; a failure between them makes the retry insert the row again.
- **The phone's queue.** "can never both send the same packet"
  (`SyncWorker.kt:65–67`) and a live upload "is never stolen mid-flight"
  (`LocalQueueDb.kt:437–439`) are not so. The lease of 120 s is taken once for up to
  20 packets sent in turn, each in a call of up to 50 s; when calls are slow the
  rest of the batch is claimed again by the other work. `TwiceOnlyPastLease` is what
  is left of the claim, and `phone_queue` reaches the case it excepts. Until a packet
  is accepted alone, a heartbeat may also replace a snapshot that the server lacks
  (`SyncWorker.kt:77–78`): the hash is noted after the reply, whatever the server
  applied in between, and a snapshot that is applied and then answered 5xx
  (`v1.post.ts:218, 261, 279`) is the server's without the phone noting it.
- **Device sync.** The code's lifetime of a nonce is exactly twice the skew
  (`signature.server.ts:145–146`), and `getSql`, the DELETE and the INSERT are awaited
  between the check of the timestamp (220) and the nonce (253). A request signed one
  skew ahead and repeated at the end of its window can pass the check, wait, and
  find its nonce gone: it is accepted again, stale by then, outside what
  `AcceptedOnceWhileFresh` claims. A request that OkHttp repeats is answered 409, and
  the phone makes a dead letter of a snapshot the server has stored. A snapshot that
  is retried after its answer was lost keeps its old, differently reduced payload but
  is noted with the new revision. Registration changes consent, on which the
  effective policy depends, without a new policy revision.
- **Submissions.** An approval that stops between its two statements leaves a
  published listing. Its submission is still open, can be corrected and approved
  again, and then has two listings, of which the first keeps the data of before;
  nothing in the code finds it again.
- **Remote commands.** `record_audio` expires after 60 seconds although a
  recording lasts 60 to 3600; its missing permission is reported under
  `postResultError`'s default action `take_photo` and refused. Approving or denying
  a restore runs on the main thread, where Android refuses the network: the
  server never hears of it, which `android/README.md:134` has otherwise. A service
  restarted by START_STICKY does not poll. A late `getCurrentLocation` clears the
  request that came after it.
- **Divar.** `divar-review.ts:256–258` says that published files are protected,
  since deleting the row would orphan the live listing. A repair import that finds
  an agency marks the file of a live listing rejected, after which it can be deleted;
  a later crawl and import then make a second listing. An approval that meets an
  import turns an imported file back into an accepted one, and an import that read
  the row before an approval may still reject it. A repair publishes the property
  whatever its status was.
- A save of a property that was trashed meanwhile rewrites the row, then fails on
  its reread: a change of price that no history records
  (`migrations/0071_property_price_history.sql:1–2` says every one is).
- Approving the review of a trashed property reports success
  (`admin-publication-queue.tsx:40`) and publishes nothing.
- A permanent deletion that races a restore deletes the images of a live listing
  (`admin-trash-manager.tsx:66` says they stay until permanent deletion).
- A form saved after the permanent deletion inserts the row again, without its
  images.
- A draft with a time of publication in the past is public as soon as it is
  restored or saved; one edited to be incomplete after it was scheduled goes
  public; an expired property that is published again stays hidden, because
  `unpublish_at` is kept.
- The sales role publishes through the Divar import (`admin-roles.ts:60–68`,
  `divar.ts:1383, 1502, 1604`) and the content role through the approval of
  submissions, both without `property.publish`, whereas
  `admin-publication-queue.tsx:52` says only permitted roles approve the final
  publication and `properties.ts:1725–1727` refuses it to them in the form. In
  `PropertyLifecycle` such properties are `admitted`, not `granted`.
- Expiry and import leave the read cache alone; an expired listing may be
  served from it for a TTL more.

## 6. What is not modelled

- **Planned**: the partner login's lock, the admin limiter, the staff app, the
  merge of leads (section 7).
- **Out of reach or without content for a model**: the crawler's parser, image
  processing, token formats, the external identity service, sensors and call
  recording (external APIs and data); rendering, SEO, static pages.
- **Single statements on single rows** with no rule between them: deals,
  commission, finance, attendance, chat, workspace, shortlists, open houses,
  most of the lead panel.
- **Not part of the agency's program**: `src/lib/app-data`,
  `src/lib/multiplayer` (template code nothing uses), vendored code and assets.

## 7. Plan

Done: the nine modules above and the promise of an upload, which are the parts
where several actors change one piece of state. What is left, in order:

1. The partner login's lock and the admin limiter, both a read and a later write of
   a counter.
2. The staff app's offline store, a smaller sibling of the phone's queue without
   leases; the merge and assignment of leads.
