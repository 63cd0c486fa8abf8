----------------------------- MODULE PhoneQueue -----------------------------
(***************************************************************************)
(* The offline queue of the Android phone bridge (LocalQueueDb.kt) and the *)
(* workers that drain it (SyncWorker.kt).  SyncScheduler runs SyncWorker   *)
(* under two unique names, so a manual and a periodic sync may run at once *)
(* over one SQLite file.  A claim is a lease; time is the number of ticks  *)
(* left on each lease and on each HTTP call.  Of the server (v1.post.ts)   *)
(* there is what it has applied, the answer to each call, and the requests *)
(* it still works on after the phone has given them up.                    *)
(***************************************************************************)
EXTENDS Integers, Sequences, FiniteSets

CONSTANTS
    Workers,      \* the unique works of SyncScheduler
    Snapshots,    \* contents of a snapshot, told apart by their hash
    MaxPackets,   \* bound on the rows ever inserted
    MaxAttempts,  \* MAX_QUEUE_ATTEMPTS
    BatchSize,    \* MAX_BATCH_SIZE
    LeaseTicks,   \* DEFAULT_LEASE_MS
    CallTicks,    \* the longest a call can take before it throws
    MaxChanges,   \* bound on the changes of the phone's data
    MaxFaults,    \* bound on dropped calls and process deaths
    NoRow, NoHash

ASSUME QueueAssumption ==
    /\ MaxPackets \in Nat /\ MaxAttempts \in Nat \ {0}
    /\ BatchSize \in Nat \ {0}
    /\ LeaseTicks \in Nat \ {0} /\ CallTicks \in Nat \ {0}
    /\ MaxChanges \in Nat /\ MaxFaults \in Nat
    /\ IsFiniteSet(Workers)
    /\ NoHash \notin Snapshots

VARIABLES
    queue,     \* table queue, by id
    nextId,    \* AUTOINCREMENT
    dead,      \* table dead_letters
    step,      \* where each doWork is
    batch,     \* the items it has claimed and not dealt with
    left,      \* ticks left to its call
    reply,     \* the answer on its way to it
    seen,      \* the snapshot it has collected
    data,      \* what a snapshot of the phone would hold now
    lastHash,  \* prefs.lastSnapshotHash
    latest,    \* the snapshot the server applied last
    adrift,    \* how many requests with each snapshot it still handles though
               \* the phone has given them up
    settled,   \* rows the server has accepted, or the user cleared or restored
               \* under a new id
    changes, faults,
    outlived,  \* rows whose lease ran out while a work still had them at hand
    crossed,   \* whether another request has been under way since the calls
               \* now at hand began
    unsure     \* whether that was so when a hash was last noted, or a call or
               \* the process has failed since

table   == <<queue, nextId, dead>>
workers == <<step, batch, left, reply, seen>>
server  == <<latest, adrift, settled>>
history == <<outlived, crossed, unsure>>
state   == <<table, workers, server, data, lastHash, changes, faults>>
vars    == <<state, history>>

Ids     == 1 .. MaxPackets
Replies == {"ok", "auth", "transient", "permanent"}
Rows    == [hash : Snapshots, keyed : BOOLEAN, state : {"queued", "processing"},
            lease : 0 .. LeaseTicks, attempts : 0 .. MaxAttempts - 1,
            delayed : BOOLEAN]
Items   == [id : Ids, hash : Snapshots]

ASSUME NoRowAssumption == NoRow \notin Rows

Present   == {id \in Ids : queue[id] # NoRow}
Busy(w)   == batch[w] # <<>>
Current(w) == Head(batch[w])
Fault     == faults < MaxFaults /\ faults' = faults + 1

Init ==
    /\ queue = [id \in Ids |-> NoRow] /\ nextId = 1 /\ dead = {}
    /\ step  = [w \in Workers |-> "idle"]
    /\ batch = [w \in Workers |-> <<>>]
    /\ left  = [w \in Workers |-> 0]
    /\ reply = [w \in Workers |-> "none"]
    /\ seen  = [w \in Workers |-> NoHash]
    /\ data \in Snapshots
    /\ lastHash = NoHash /\ latest = NoHash
    /\ adrift = [snapshot \in Snapshots |-> 0] /\ settled = {}
    /\ changes = 0 /\ faults = 0
    /\ outlived = {} /\ crossed = FALSE /\ unsure = FALSE

----------------------------------------------------------------------------
(* LocalQueueDb: each operator is the new value of the table *)

Queued(row)   == [row EXCEPT !.state = "queued", !.lease = 0]
Leased(row)   == [row EXCEPT !.state = "processing", !.lease = LeaseTicks]
Retried(row)  == [Queued(row) EXCEPT !.attempts = @ + 1, !.delayed = TRUE]
Expired(row)  == row.state = "processing" /\ row.lease = 0

NewRow(hash, keyed) == [hash |-> hash, keyed |-> keyed, state |-> "queued",
                        lease |-> 0, attempts |-> 0, delayed |-> FALSE]

\* Mutant: claim leaves expired leases alone.
NeverReaped == queue

\* claim, inside its transaction: expired leases go back to the queue, ...
Reaped == [id \in Ids |-> IF id \in Present /\ Expired(queue[id])
                          THEN Queued(queue[id]) ELSE queue[id]]

\* Mutant: peek instead of claim, the rows of other workers included.
Peeked == {id \in Present : ~Reaped[id].delayed}

Ready == {id \in Present : Reaped[id].state = "queued" /\ ~Reaped[id].delayed}

\* ... and the first BatchSize ready rows are taken, in the order of their ids.
Taken == {id \in Ready : Cardinality({other \in Ready : other < id}) < BatchSize}

ById(ids) == [k \in 1 .. Cardinality(ids) |->
                 CHOOSE id \in ids : Cardinality({other \in ids : other < id}) = k - 1]

Complete(id) == queue' = [queue EXCEPT ![id] = NoRow]

ReleaseRow(id) ==
    queue' = [queue EXCEPT ![id] = IF @ # NoRow /\ @.state = "processing"
                                   THEN Queued(@) ELSE @]

\* markFailure answers whether the row was dead-lettered.
DeadLetters(id, limit) == queue[id] # NoRow /\ queue[id].attempts + 1 >= limit

\* Mutant: a failed packet is deleted without a dead letter.
ForgetsFailure(id, limit) ==
    /\ queue' = [queue EXCEPT ![id] = NoRow]
    /\ UNCHANGED dead

MarkFailure(id, limit) ==
    IF DeadLetters(id, limit)
    THEN /\ queue' = [queue EXCEPT ![id] = NoRow]
         /\ dead'  = dead \cup {[id |-> id, hash |-> queue[id].hash]}
    ELSE /\ queue' = [queue EXCEPT ![id] =
                         IF @ = NoRow THEN NoRow ELSE Retried(@)]
         /\ UNCHANGED dead

----------------------------------------------------------------------------
(* doWork *)

Goto(w, next) == step' = [step EXCEPT ![w] = next]

\* The run ends; the rest of the batch stays leased.
EndRun(w) ==
    /\ Goto(w, "idle")
    /\ batch' = [batch EXCEPT ![w] = <<>>]
    /\ left'  = [left EXCEPT ![w] = 0]
    /\ reply' = [reply EXCEPT ![w] = "none"]

NextItem(w) ==
    /\ Goto(w, "send")
    /\ batch' = [batch EXCEPT ![w] = Tail(@)]
    /\ left'  = [left EXCEPT ![w] = 0]
    /\ reply' = [reply EXCEPT ![w] = "none"]

Start(w) ==
    /\ step[w] = "idle"
    /\ Goto(w, "claim")
    /\ UNCHANGED <<table, batch, left, reply, seen, server, data, lastHash,
                   changes, faults>>

\* The transaction is exclusive, so what it took is what it reads back.
Claim(w) ==
    /\ step[w] = "claim"
    /\ queue' = [id \in Ids |-> IF id \in Taken THEN Leased(Reaped[id])
                                ELSE Reaped[id]]
    /\ batch' = [batch EXCEPT ![w] =
                    [k \in 1 .. Cardinality(Taken) |->
                        [id |-> ById(Taken)[k], hash |-> queue[ById(Taken)[k]].hash]]]
    /\ Goto(w, IF Taken = {} THEN "collect" ELSE "send")
    /\ UNCHANGED <<nextId, dead, left, reply, seen, server, data,
                   lastHash, changes, faults>>

\* No newer snapshot while an older packet waits.
Collect(w) ==
    /\ step[w] = "collect"
    /\ IF Present # {}
       THEN Goto(w, "idle") /\ UNCHANGED seen
       ELSE Goto(w, "compare") /\ seen' = [seen EXCEPT ![w] = data]
    /\ UNCHANGED <<table, batch, left, reply, server, data, lastHash, changes,
                   faults>>

Compare(w) ==
    /\ step[w] = "compare"
    /\ Goto(w, IF seen[w] = lastHash THEN "heartbeat" ELSE "lookup")
    /\ UNCHANGED <<table, batch, left, reply, seen, server, data, lastHash,
                   changes, faults>>

\* The snapshot is dealt with, or given up.
LeaveSnapshot(w, next) ==
    /\ Goto(w, next)
    /\ seen' = [seen EXCEPT ![w] = NoHash]

\* The heartbeat succeeds or fails; a server may also ask for a snapshot.
Heartbeat(w) ==
    /\ step[w] = "heartbeat"
    /\ \/ LeaveSnapshot(w, "idle")
       \/ Goto(w, "lookup") /\ UNCHANGED seen
    /\ UNCHANGED <<table, batch, left, reply, server, data, lastHash, changes,
                   faults>>

\* enqueue: look for a row with the same checksum, then insert.
Lookup(w) ==
    /\ step[w] = "lookup"
    /\ IF \E id \in Present : queue[id].keyed /\ queue[id].hash = seen[w]
       THEN LeaveSnapshot(w, "claim")
       ELSE Goto(w, "insert") /\ UNCHANGED seen
    /\ UNCHANGED <<table, batch, left, reply, server, data, lastHash, changes,
                   faults>>

InsertRow(w) ==
    /\ nextId \in Ids
    /\ queue'  = [queue EXCEPT ![nextId] = NewRow(seen[w], TRUE)]
    /\ nextId' = nextId + 1

\* A full storage drops the packet (-1); doWork goes on all the same.
Insert(w) ==
    /\ step[w] = "insert"
    /\ \/ InsertRow(w)
       \/ UNCHANGED <<queue, nextId>>
    /\ LeaveSnapshot(w, "claim")
    /\ UNCHANGED <<dead, batch, left, reply, server, data, lastHash,
                   changes, faults>>

Send(w) ==
    /\ step[w] = "send"
    /\ Busy(w)
    /\ Goto(w, "call")
    /\ left' = [left EXCEPT ![w] = CallTicks]
    /\ UNCHANGED <<table, batch, reply, seen, server, data, lastHash, changes,
                   faults>>

\* The batch is done: claim the next one, or stop at MAX_ITEMS_PER_RUN.
BatchDone(w) ==
    /\ step[w] = "send"
    /\ ~Busy(w)
    /\ \E next \in {"claim", "idle"} : Goto(w, next)
    /\ UNCHANGED <<table, batch, left, reply, seen, server, data, lastHash,
                   changes, faults>>

Waiting(w) == step[w] = "call" /\ reply[w] = "none"

\* The server applies the snapshot, or refuses it before it has written any.
Answer(w, answer) ==
    /\ Waiting(w)
    /\ reply' = [reply EXCEPT ![w] = answer]
    /\ IF answer = "ok"
       THEN /\ latest'  = Current(w).hash
            /\ settled' = settled \cup {Current(w).id}
       ELSE UNCHANGED <<latest, settled>>
    /\ UNCHANGED <<table, step, batch, left, seen, adrift, data, lastHash,
                   changes, faults>>

\* A later statement of the handler fails, for contacts, messages or apps (5xx);
\* or the connection repeats the request, and the copy's nonce is known (409).
AppliedYetRefused(w) ==
    /\ Waiting(w)
    /\ Fault
    /\ latest' = Current(w).hash
    /\ \E answer \in {"transient", "permanent"} : reply' = [reply EXCEPT ![w] = answer]
    /\ UNCHANGED <<table, step, batch, left, seen, adrift, settled, data, lastHash,
                   changes>>

\* The server ends a request nobody waits for: applied, or failed before.
EndsUnheard(snapshot) ==
    /\ adrift[snapshot] > 0
    /\ adrift' = [adrift EXCEPT ![snapshot] = @ - 1]
    /\ latest' \in {snapshot, latest}
    /\ UNCHANGED <<table, workers, settled, data, lastHash, changes, faults>>

Accepted(w) ==
    /\ step[w] = "call" /\ reply[w] = "ok"
    /\ Complete(Current(w).id)
    /\ Goto(w, "note")
    /\ UNCHANGED <<nextId, dead, batch, left, reply, seen, server,
                   data, lastHash, changes, faults>>

\* Mutant: the hash noted is that of the phone's data now, not of what was sent.
NotesData(w) ==
    /\ step[w] = "note"
    /\ lastHash' = data
    /\ NextItem(w)
    /\ UNCHANGED <<table, seen, server, data, changes, faults>>

Note(w) ==
    /\ step[w] = "note"
    /\ lastHash' = Current(w).hash
    /\ NextItem(w)
    /\ UNCHANGED <<table, seen, server, data, changes, faults>>

Unauthorized(w) ==
    /\ step[w] = "call" /\ reply[w] = "auth"
    /\ ReleaseRow(Current(w).id)
    /\ EndRun(w)
    /\ UNCHANGED <<nextId, dead, seen, server, data, lastHash,
                   changes, faults>>

TransientFailure(w) ==
    /\ step[w] = "call" /\ reply[w] = "transient"
    /\ MarkFailure(Current(w).id, MaxAttempts)
    /\ IF DeadLetters(Current(w).id, MaxAttempts) THEN NextItem(w) ELSE EndRun(w)
    /\ UNCHANGED <<nextId, seen, server, data, lastHash, changes,
                   faults>>

PermanentFailure(w) ==
    /\ step[w] = "call" /\ reply[w] = "permanent"
    /\ MarkFailure(Current(w).id, 1)
    /\ NextItem(w)
    /\ UNCHANGED <<nextId, seen, server, data, lastHash, changes,
                   faults>>

\* The phone no longer waits for these calls: the server has their requests
\* still to deal with, or has answered them or never got them.
GivesUp(calls) ==
    /\ \E still \in SUBSET {w \in calls : Waiting(w)} :
           adrift' = [snapshot \in Snapshots |-> adrift[snapshot] +
                         Cardinality({w \in still : Current(w).hash = snapshot})]
    /\ UNCHANGED <<latest, settled>>

\* The call throws: the connection dropped or timed out.
CallThrows(w) ==
    /\ step[w] = "call"
    /\ Fault
    /\ GivesUp({w})
    /\ ReleaseRow(Current(w).id)
    /\ EndRun(w)
    /\ UNCHANGED <<nextId, dead, seen, data, lastHash, changes>>

\* Android kills the process: both works end, the leases stay.
ProcessDies ==
    /\ Fault
    /\ GivesUp(Workers)
    /\ step'  = [w \in Workers |-> "idle"]
    /\ batch' = [w \in Workers |-> <<>>]
    /\ left'  = [w \in Workers |-> 0]
    /\ reply' = [w \in Workers |-> "none"]
    /\ seen'  = [w \in Workers |-> NoHash]
    /\ UNCHANGED <<table, data, lastHash, changes>>

----------------------------------------------------------------------------
(* The user, the phone and the clock *)

DataChanges ==
    /\ changes < MaxChanges
    /\ changes' = changes + 1
    /\ \E snapshot \in Snapshots \ {data} : data' = snapshot
    /\ UNCHANGED <<table, workers, server, lastHash, faults>>

\* retryDeadLetters, one transaction: the row comes back under a new id,
\* without its checksum.
RetryDeadLetters ==
    /\ dead # {}
    /\ nextId + Cardinality(dead) <= MaxPackets + 1
    /\ LET order == ById({letter.id : letter \in dead})
           hash(id) == (CHOOSE letter \in dead : letter.id = id).hash
           count == Cardinality(dead)
       IN queue' = [id \in Ids |-> IF id \in nextId .. nextId + count - 1
                                   THEN NewRow(hash(order[id - nextId + 1]), FALSE)
                                   ELSE queue[id]]
    /\ nextId'  = nextId + Cardinality(dead)
    /\ settled' = settled \cup {letter.id : letter \in dead}
    /\ dead'    = {}
    /\ UNCHANGED <<workers, latest, adrift, data, lastHash, changes, faults>>

ClearQueue ==
    /\ Present # {}
    /\ queue'   = [id \in Ids |-> NoRow]
    /\ settled' = settled \cup Present
    /\ UNCHANGED <<nextId, dead, workers, latest, adrift, data, lastHash, changes,
                   faults>>

ClearDeadLetters ==
    /\ dead # {}
    /\ dead' = {}
    /\ settled' = settled \cup {letter.id : letter \in dead}
    /\ UNCHANGED <<queue, nextId, workers, latest, adrift, data, lastHash, changes,
                   faults>>

BackoffElapses(id) ==
    /\ id \in Present
    /\ queue[id].delayed
    /\ queue' = [queue EXCEPT ![id].delayed = FALSE]
    /\ UNCHANGED <<nextId, dead, workers, server, data, lastHash,
                   changes, faults>>

\* Calls take at most CallTicks; what a worker does between two calls of a
\* batch takes no time to speak of.
Tick ==
    /\ \A w \in Workers : Busy(w) => step[w] = "call" /\ left[w] > 0
    /\ \/ \E w \in Workers : Busy(w)
       \/ \E id \in Present : queue[id].lease > 0
    /\ left'  = [w \in Workers |-> IF Busy(w) THEN left[w] - 1 ELSE left[w]]
    /\ queue' = [id \in Ids |-> IF id \in Present /\ queue[id].lease > 0
                                THEN [queue[id] EXCEPT !.lease = @ - 1]
                                ELSE queue[id]]
    /\ UNCHANGED <<nextId, dead, step, batch, reply, seen, server,
                   data, lastHash, changes, faults>>

----------------------------------------------------------------------------
(* Specification *)

Works(w) ==
    \/ Claim(w) \/ Collect(w) \/ Compare(w) \/ Heartbeat(w) \/ Lookup(w)
    \/ Insert(w) \/ Send(w) \/ BatchDone(w) \/ Accepted(w) \/ Note(w)
    \/ Unauthorized(w) \/ TransientFailure(w) \/ PermanentFailure(w)

Answers(w) == \E answer \in Replies : Answer(w, answer)

Step ==
    \/ \E w \in Workers : \/ Start(w) \/ Works(w)
                         \/ Answers(w) \/ AppliedYetRefused(w) \/ CallThrows(w)
    \/ \E snapshot \in Snapshots : EndsUnheard(snapshot)
    \/ ProcessDies \/ DataChanges \/ RetryDeadLetters \/ ClearQueue
    \/ ClearDeadLetters \/ Tick
    \/ \E id \in Ids : BackoffElapses(id)

(* History: what the claims about the queue depend on *)

Sending(w) == step[w] \in {"call", "note"}
InHand(id) == \E w \in Workers : \E k \in 1 .. Len(batch[w]) : batch[w][k].id = id
Outlived   == {id \in Present : Expired(queue[id]) /\ InHand(id)}

Adrift  == \E snapshot \in Snapshots : adrift[snapshot] > 0
Several == Adrift \/ \E v, w \in Workers : v # w /\ Sending(v) /\ Sending(w)
None    == ~Adrift /\ \A w \in Workers : ~Sending(w)

Noted == \E w \in Workers : step[w] = "note" /\ step'[w] = "send"

Remember ==
    /\ outlived' = outlived \cup Outlived'
    /\ crossed'  = (~None' /\ (crossed \/ Several'))
    /\ unsure'   = IF Noted THEN crossed ELSE unsure \/ faults' # faults

Next == Step /\ Remember

Spec == Init /\ [][Next]_vars

\* WorkManager runs every work again, the server answers, and time passes; a
\* call that is refused now and then is also accepted now and then.
Fairness ==
    /\ \A w \in Workers : /\ WF_state(Start(w))
                          /\ WF_state(Works(w))
                          /\ WF_state(Answers(w))
                          /\ SF_state(Answer(w, "ok"))
    /\ WF_state(Tick)
    /\ \A id \in Ids : WF_state(BackoffElapses(id))

FairSpec == Spec /\ Fairness

----------------------------------------------------------------------------
(* Properties *)

TypeOK ==
    /\ queue \in [Ids -> Rows \cup {NoRow}]
    /\ nextId \in 1 .. MaxPackets + 1
    /\ dead \subseteq Items
    /\ step \in [Workers -> {"idle", "claim", "collect", "compare", "heartbeat",
                             "lookup", "insert", "send", "call", "note"}]
    /\ batch \in [Workers -> Seq(Items)]
    /\ \A w \in Workers : Len(batch[w]) <= BatchSize
    /\ left \in [Workers -> 0 .. CallTicks]
    /\ reply \in [Workers -> Replies \cup {"none"}]
    /\ seen \in [Workers -> Snapshots \cup {NoHash}]
    /\ data \in Snapshots
    /\ {lastHash, latest} \subseteq Snapshots \cup {NoHash}
    /\ adrift \in [Snapshots -> Nat] /\ settled \subseteq Ids
    /\ changes \in 0 .. MaxChanges /\ faults \in 0 .. MaxFaults
    /\ outlived \subseteq Ids
    /\ {crossed, unsure} \subseteq BOOLEAN

\* What is left of "can never both send the same packet" (SyncWorker.kt:65-67)
\* and of "a live upload is never stolen mid-flight" (LocalQueueDb.kt:437-439).
\* One lease covers a batch whose calls together outlast it: two works have a
\* call in flight for the same row only when the row's lease has run out while a
\* work still had it at hand, and not for any other reason.
TwiceOnlyPastLease ==
    \A v, w \in Workers :
        /\ v # w
        /\ step[v] = "call" /\ step[w] = "call"
        /\ Current(v).id = Current(w).id
        => Current(v).id \in outlived

\* A snapshot leaves the queue only because the server has accepted it, it is a
\* dead letter, or the user discarded it: no crash, dropped call or stolen lease
\* loses one.
NothingLost ==
    \A id \in 1 .. nextId - 1 :
        \/ id \in Present \cup settled
        \/ \E letter \in dead : letter.id = id

\* The hash that makes doWork send a heartbeat instead of a snapshot is that of
\* the snapshot the server has, whenever no packet is being sent, unless other
\* requests were under way when it was noted or a call or the process has failed
\* since.  One packet sent alone, accepted and noted makes up for all of that.
DeltaIsSound ==
    (~unsure /\ \A w \in Workers : ~Sending(w)) => lastHash = latest

\* "A worker that dies mid-upload does not strand the packet": every queued
\* packet leaves the queue.
PacketsLeave == \A id \in Ids : id \in Present ~> id \notin Present
=============================================================================
