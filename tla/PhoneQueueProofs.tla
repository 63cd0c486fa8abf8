-------------------------- MODULE PhoneQueueProofs --------------------------
(* Proofs about PhoneQueue, for every value of its constants: what leaves  *)
(* the queue is accounted for, two works send one packet only past a       *)
(* lease, and a heartbeat stands for the snapshot the server has.          *)
EXTENDS PhoneQueue, FiniteSetTheorems, SequenceTheorems, TLAPS

----------------------------------------------------------------------------
(* The order of the ids *)

Below(ids, id) == {other \in ids : other < id}

\* The ids of a finite set have the ranks 0 .. n - 1, each once.
LEMMA RanksAreDense ==
    ASSUME NEW ids \in SUBSET Ids
    PROVE  /\ IsFiniteSet(ids) /\ Cardinality(ids) \in Nat
           /\ [id \in ids |-> Cardinality(Below(ids, id))]
                  \in Bijection(ids, 0 .. Cardinality(ids) - 1)
<1> DEFINE n == Cardinality(ids)
           rank == [id \in ids |-> Cardinality(Below(ids, id))]
<1>1. IsFiniteSet(ids) /\ n \in Nat /\ ids \subseteq Int
  <2>1. IsFiniteSet(Ids) /\ Ids \subseteq Int
    BY QueueAssumption, FS_Interval DEF Ids
  <2>2. IsFiniteSet(ids)
    BY <2>1, FS_Subset
  <2> QED BY <2>1, <2>2, FS_CardinalityType
<1>2. ASSUME NEW x \in ids
      PROVE  /\ IsFiniteSet(Below(ids, x)) /\ Cardinality(Below(ids, x)) \in Nat
             /\ Cardinality(Below(ids, x)) < n
  <2>1. Below(ids, x) \in SUBSET ids /\ Below(ids, x) # ids
    BY <1>1 DEF Below
  <2>2. /\ IsFiniteSet(Below(ids, x)) /\ Cardinality(Below(ids, x)) <= n
        /\ n = Cardinality(Below(ids, x)) => ids = Below(ids, x)
    BY <1>1, <2>1, FS_Subset
  <2>3. Cardinality(Below(ids, x)) \in Nat
    BY <2>2, FS_CardinalityType
  <2> QED BY <1>1, <2>1, <2>2, <2>3
<1>3. ASSUME NEW x \in ids, NEW y \in ids, x < y
      PROVE  Cardinality(Below(ids, x)) # Cardinality(Below(ids, y))
  <2>0. x \in Int /\ y \in Int /\ ids \subseteq Int
    BY <1>1
  <2>1. Below(ids, x) \in SUBSET Below(ids, y) /\ Below(ids, x) # Below(ids, y)
    <3>0. \A z \in ids : z < x => z < y
      BY <1>3, <2>0
    <3>1. Below(ids, x) \subseteq Below(ids, y)
      BY <3>0 DEF Below
    <3>2. x \in Below(ids, y) /\ x \notin Below(ids, x)
      BY <1>3, <2>0 DEF Below
    <3> QED BY <3>1, <3>2
  <2> QED BY <1>2, <2>1, FS_Subset
<1>4. rank \in Injection(ids, 0 .. n - 1)
  <2>1. rank \in [ids -> 0 .. n - 1]
    BY <1>1, <1>2
  <2>2. \A x, y \in ids : rank[x] = rank[y] => x = y
    BY <1>1, <1>3
  <2> QED BY <2>1, <2>2 DEF Injection, IsInjective
<1>5. IsFiniteSet(0 .. n - 1) /\ Cardinality(0 .. n - 1) = n
  BY <1>1, FS_Interval
<1>6. rank \in Surjection(ids, 0 .. n - 1)
  BY <1>1, <1>4, <1>5, FS_Injection
<1> QED BY <1>1, <1>4, <1>6 DEF Bijection

\* ById enumerates the set, each member once.
LEMMA ByIdEnumerates ==
    ASSUME NEW ids \in SUBSET Ids
    PROVE  /\ Cardinality(ids) \in Nat
           /\ \A k \in 1 .. Cardinality(ids) : ById(ids)[k] \in ids
           /\ \A j, k \in 1 .. Cardinality(ids) : ById(ids)[j] = ById(ids)[k] => j = k
           /\ \A id \in ids : \E k \in 1 .. Cardinality(ids) : ById(ids)[k] = id
<1> DEFINE n == Cardinality(ids)
           rank == [id \in ids |-> Cardinality(Below(ids, id))]
<1>1. /\ n \in Nat /\ rank \in [ids -> 0 .. n - 1]
      /\ \A x, y \in ids : rank[x] = rank[y] => x = y
      /\ \A m \in 0 .. n - 1 : \E x \in ids : rank[x] = m
  BY RanksAreDense DEF Bijection, Injection, Surjection, IsInjective
<1>2. ASSUME NEW k \in 1 .. n
      PROVE  ById(ids)[k] \in ids /\ rank[ById(ids)[k]] = k - 1
  <2>1. ById(ids)[k] = CHOOSE id \in ids : Cardinality(Below(ids, id)) = k - 1
    BY DEF ById, Below
  <2>2. \E id \in ids : Cardinality(Below(ids, id)) = k - 1
    BY <1>1
  <2> QED BY <2>1, <2>2
<1>3. ASSUME NEW id \in ids
      PROVE  \E k \in 1 .. n : ById(ids)[k] = id
  <2>1. rank[id] + 1 \in 1 .. n
    BY <1>1
  <2>2. rank[ById(ids)[rank[id] + 1]] = rank[id] /\ ById(ids)[rank[id] + 1] \in ids
    BY <1>1, <1>2, <2>1
  <2> QED BY <1>1, <2>1, <2>2
<1> HIDE DEF rank
<1>4. \A j, k \in 1 .. n : ById(ids)[j] = ById(ids)[k] => j = k
  BY <1>1, <1>2
<1> QED BY <1>1, <1>2, <1>3, <1>4

\* A claim takes at most BatchSize rows.
LEMMA TakenFits ==
    Cardinality(Taken) \in Nat /\ Cardinality(Taken) <= BatchSize
<1>1. Ready \in SUBSET Ids /\ Taken \in SUBSET Ready /\ Taken \in SUBSET Ids
  BY DEF Ready, Taken, Present
<1> DEFINE rank == [id \in Ready |-> Cardinality(Below(Ready, id))]
           low == [id \in Taken |-> Cardinality(Below(Ready, id))]
<1>2. /\ rank \in [Ready -> 0 .. Cardinality(Ready) - 1] /\ Cardinality(Ready) \in Nat
      /\ \A x, y \in Ready : rank[x] = rank[y] => x = y
  BY <1>1, RanksAreDense DEF Bijection, Injection, IsInjective
<1>3. \A id \in Taken : Cardinality(Below(Ready, id)) < BatchSize
  BY DEF Taken, Below
<1>4. \A id \in Taken : Cardinality(Below(Ready, id)) \in 0 .. BatchSize - 1
  BY <1>1, <1>2, <1>3, QueueAssumption
<1>5. low \in Injection(Taken, 0 .. BatchSize - 1)
  <2>1. low \in [Taken -> 0 .. BatchSize - 1]
    BY <1>4
  <2>2. \A x, y \in Taken : low[x] = low[y] => x = y
    BY <1>1, <1>2
  <2> QED BY <2>1, <2>2 DEF Injection, IsInjective
<1>6. IsFiniteSet(0 .. BatchSize - 1) /\ Cardinality(0 .. BatchSize - 1) = BatchSize
  BY QueueAssumption, FS_Interval
<1>7. Cardinality(Taken) <= BatchSize
  BY <1>5, <1>6, FS_Injection
<1> QED BY <1>1, <1>7, RanksAreDense

----------------------------------------------------------------------------
(* Type correctness *)

TableTyped ==
    /\ queue \in [Ids -> Rows \cup {NoRow}]
    /\ nextId \in 1 .. MaxPackets + 1
    /\ dead \subseteq Items

WorkersTyped ==
    /\ step \in [Workers -> {"idle", "claim", "collect", "compare", "heartbeat",
                             "lookup", "insert", "send", "call", "note"}]
    /\ batch \in [Workers -> Seq(Items)]
    /\ \A w \in Workers : Len(batch[w]) <= BatchSize
    /\ left \in [Workers -> 0 .. CallTicks]
    /\ reply \in [Workers -> Replies \cup {"none"}]
    /\ seen \in [Workers -> Snapshots \cup {NoHash}]

RestTyped ==
    /\ data \in Snapshots
    /\ {lastHash, latest} \subseteq Snapshots \cup {NoHash}
    /\ adrift \in [Snapshots -> Nat] /\ settled \subseteq Ids
    /\ changes \in 0 .. MaxChanges /\ faults \in 0 .. MaxFaults
    /\ outlived \subseteq Ids
    /\ {crossed, unsure} \subseteq BOOLEAN

\* A work in a call has a packet to send, one that is between two batches
\* holds none, and one that compares or inserts a snapshot has collected it.
AtHand ==
    \A w \in Workers :
        /\ step[w] \in {"call", "note"} => batch[w] # <<>>
        /\ step[w] \notin {"send", "call", "note"} => batch[w] = <<>>
        /\ step[w] \in {"compare", "heartbeat", "lookup", "insert"} => seen[w] \in Snapshots

\* Ids are drawn in order: no row, no packet at hand and no dead letter has one
\* that is still to be drawn, and a dead letter is no row's.
Drawn ==
    /\ \A id \in Ids : id >= nextId => queue[id] = NoRow
    /\ \A letter \in dead : letter.id < nextId /\ queue[letter.id] = NoRow

OneLetterEach == \A l, m \in dead : l.id = m.id => l = m

ItemsDrawn ==
    \A w \in Workers : \A k \in 1 .. Len(batch[w]) : batch[w][k].id < nextId

TypeInv == /\ TableTyped /\ WorkersTyped /\ RestTyped
           /\ AtHand /\ Drawn /\ OneLetterEach /\ ItemsDrawn

\* One column of a row at a time.
LEMMA ColumnsUpdated ==
    ASSUME NEW old \in Rows
    PROVE  /\ \A value \in {"queued", "processing"} : [old EXCEPT !.state = value] \in Rows
           /\ \A ticks \in 0 .. LeaseTicks : [old EXCEPT !.lease = ticks] \in Rows
           /\ \A value \in BOOLEAN : [old EXCEPT !.delayed = value] \in Rows
           /\ old.attempts + 1 < MaxAttempts =>
                  [old EXCEPT !.attempts = old.attempts + 1] \in Rows
<1>1. \A value \in {"queued", "processing"} : [old EXCEPT !.state = value] \in Rows
  BY DEF Rows
<1>2. \A ticks \in 0 .. LeaseTicks : [old EXCEPT !.lease = ticks] \in Rows
  BY DEF Rows
<1>3. \A value \in BOOLEAN : [old EXCEPT !.delayed = value] \in Rows
  BY DEF Rows
<1>4. old.attempts + 1 < MaxAttempts =>
          [old EXCEPT !.attempts = old.attempts + 1] \in Rows
  BY QueueAssumption DEF Rows
<1> QED BY <1>1, <1>2, <1>3, <1>4

LEMMA QueuedRow ==
    ASSUME NEW old \in Rows
    PROVE  Queued(old) \in Rows /\ Queued(old).attempts = old.attempts
<1>1. Queued(old) = [[old EXCEPT !.state = "queued"] EXCEPT !.lease = 0]
  BY DEF Queued
<1>2. 0 \in 0 .. LeaseTicks
  BY QueueAssumption
<1>3. [old EXCEPT !.state = "queued"] \in Rows
  BY ColumnsUpdated
<1>4. Queued(old) \in Rows
  BY <1>1, <1>2, <1>3, ColumnsUpdated
<1>5. Queued(old).attempts = old.attempts
  BY DEF Queued, Rows
<1> QED BY <1>4, <1>5

LEMMA LeasedRow ==
    ASSUME NEW old \in Rows
    PROVE  /\ Leased(old) \in Rows
           /\ Leased(old).state = "processing" /\ Leased(old).lease = LeaseTicks
<1>1. Leased(old) = [[old EXCEPT !.state = "processing"] EXCEPT !.lease = LeaseTicks]
  BY DEF Leased
<1>2. LeaseTicks \in 0 .. LeaseTicks
  BY QueueAssumption
<1>3. [old EXCEPT !.state = "processing"] \in Rows
  BY ColumnsUpdated
<1>4. Leased(old) \in Rows
  BY <1>1, <1>2, <1>3, ColumnsUpdated
<1>5. Leased(old).state = "processing" /\ Leased(old).lease = LeaseTicks
  BY DEF Leased, Rows
<1> QED BY <1>4, <1>5

LEMMA RetryableRow ==
    ASSUME NEW old \in Rows, old.attempts + 1 < MaxAttempts
    PROVE  Retried(old) \in Rows
<1> DEFINE row == Queued(old)
           tried == [row EXCEPT !.attempts = row.attempts + 1]
<1>1. row \in Rows /\ row.attempts + 1 < MaxAttempts
  BY QueuedRow
<1> HIDE DEF row
<1>2. tried \in Rows
  BY <1>1, ColumnsUpdated
<1>3. [row EXCEPT !.attempts = @ + 1, !.delayed = TRUE] = [tried EXCEPT !.delayed = TRUE]
  BY <1>1 DEF Rows
<1> HIDE DEF tried
<1>4. [row EXCEPT !.attempts = @ + 1, !.delayed = TRUE] \in Rows
  BY <1>2, <1>3, ColumnsUpdated
<1> QED BY <1>4 DEF row, Retried

LEMMA NewRowTyped ==
    ASSUME NEW hash \in Snapshots, NEW keyed \in BOOLEAN
    PROVE  NewRow(hash, keyed) \in Rows
BY QueueAssumption DEF Rows, NewRow

\* The packet a call is about.
LEMMA CurrentIsAtHand ==
    ASSUME TypeInv, NEW w \in Workers, step[w] \in {"call", "note"}
    PROVE  /\ Current(w) \in Items /\ Current(w) = batch[w][1] /\ Len(batch[w]) >= 1
           /\ Current(w).id \in Ids /\ Current(w).id < nextId
<1>1. batch[w] \in Seq(Items) /\ batch[w] # <<>>
  BY DEF TypeInv, WorkersTyped, AtHand
<1>2. Len(batch[w]) >= 1 /\ Len(batch[w]) \in Nat /\ Head(batch[w]) = batch[w][1]
  BY <1>1
<1>3. batch[w][1] \in Items
  BY <1>1, <1>2
<1> QED BY <1>2, <1>3 DEF Current, Items, TypeInv, ItemsDrawn

LEMMA TailKept ==
    ASSUME TypeInv, NEW w \in Workers, step[w] \in {"call", "note"}
    PROVE  /\ Tail(batch[w]) \in Seq(Items) /\ Len(Tail(batch[w])) = Len(batch[w]) - 1
           /\ \A k \in 1 .. Len(Tail(batch[w])) : Tail(batch[w])[k] = batch[w][k + 1]
<1>1. batch[w] \in Seq(Items) /\ batch[w] # <<>>
  BY DEF TypeInv, WorkersTyped, AtHand
<1> QED BY <1>1, HeadTailProperties

\* What a step does to the worker that takes it.
LEMMA RunEnds ==
    ASSUME TypeInv, NEW w \in Workers, EndRun(w), seen' = seen, nextId' = nextId
    PROVE  WorkersTyped' /\ AtHand' /\ ItemsDrawn'
<1>1. <<>> \in Seq(Items) /\ Len(<<>>) = 0
  OBVIOUS
<1> QED BY <1>1, QueueAssumption
    DEF TypeInv, EndRun, Goto, WorkersTyped, AtHand, ItemsDrawn

LEMMA ItemDone ==
    ASSUME TypeInv, NEW w \in Workers, step[w] \in {"call", "note"}, NextItem(w),
           seen' = seen, nextId' = nextId
    PROVE  WorkersTyped' /\ AtHand' /\ ItemsDrawn'
<1>1. /\ Tail(batch[w]) \in Seq(Items) /\ Len(Tail(batch[w])) <= BatchSize
      /\ \A k \in 1 .. Len(Tail(batch[w])) : Tail(batch[w])[k].id < nextId
  <2>1. batch[w] \in Seq(Items) /\ Len(batch[w]) <= BatchSize /\ Len(batch[w]) \in Nat
    BY DEF TypeInv, WorkersTyped
  <2>2. \A k \in 1 .. Len(batch[w]) - 1 : k + 1 \in 1 .. Len(batch[w])
    BY <2>1
  <2> QED BY <2>1, <2>2, TailKept, QueueAssumption DEF TypeInv, ItemsDrawn
<1>2. WorkersTyped'
  BY <1>1, QueueAssumption DEF TypeInv, NextItem, Goto, WorkersTyped
<1>3. AtHand'
  BY DEF TypeInv, NextItem, Goto, WorkersTyped, AtHand
<1>4. ItemsDrawn'
  BY <1>1 DEF TypeInv, NextItem, Goto, WorkersTyped, ItemsDrawn
<1> QED BY <1>2, <1>3, <1>4

\* A statement that inserts no row and touches no dead letter.
LEMMA NoNewRows ==
    ASSUME TypeInv, queue' \in [Ids -> Rows \cup {NoRow}],
           \A id \in Ids : queue[id] = NoRow => queue'[id] = NoRow,
           nextId' = nextId, dead' = dead
    PROVE  TableTyped' /\ Drawn' /\ OneLetterEach'
BY DEF TypeInv, TableTyped, Drawn, OneLetterEach, Items

LEMMA ReleaseTyped ==
    ASSUME TypeInv, NEW id \in Ids, ReleaseRow(id),
           nextId' = nextId, dead' = dead
    PROVE  TableTyped' /\ Drawn' /\ OneLetterEach'
<1>1. queue[id] \in Rows \cup {NoRow}
  BY DEF TypeInv, TableTyped
<1>2. queue[id] # NoRow => Queued(queue[id]) \in Rows
  BY <1>1, QueuedRow
<1>3. queue' \in [Ids -> Rows \cup {NoRow}]
  BY <1>1, <1>2 DEF ReleaseRow, TypeInv, TableTyped
<1>4. \A x \in Ids : queue[x] = NoRow => queue'[x] = NoRow
  BY DEF ReleaseRow, TypeInv, TableTyped
<1> QED BY <1>3, <1>4, NoNewRows DEF TypeInv, TableTyped

LEMMA FailureTyped ==
    ASSUME TypeInv, NEW id \in Ids, id < nextId, NEW limit \in 1 .. MaxAttempts,
           MarkFailure(id, limit), nextId' = nextId
    PROVE  TableTyped' /\ Drawn' /\ OneLetterEach'
<1>1. queue[id] \in Rows \cup {NoRow}
  BY DEF TypeInv, TableTyped
<1>2. CASE DeadLetters(id, limit)
  <2>1. queue[id] \in Rows /\ queue[id].hash \in Snapshots
    BY <1>1, <1>2 DEF DeadLetters, Rows
  <2>2. /\ queue' = [queue EXCEPT ![id] = NoRow]
        /\ dead' = dead \cup {[id |-> id, hash |-> queue[id].hash]}
    BY <1>2 DEF MarkFailure
  <2>3. [id |-> id, hash |-> queue[id].hash] \in Items
    BY <2>1 DEF Items
  <2>4. TableTyped'
    BY <2>2, <2>3 DEF TypeInv, TableTyped
  <2>5. Drawn'
    BY <2>2 DEF TypeInv, TableTyped, Drawn, Items
  <2>6. \A letter \in dead : letter.id # id
    BY <2>1, NoRowAssumption DEF TypeInv, Drawn
  <2>7. OneLetterEach'
    BY <2>2, <2>6 DEF TypeInv, OneLetterEach
  <2> QED BY <2>4, <2>5, <2>7
<1>3. CASE ~DeadLetters(id, limit)
  <2> DEFINE new == Retried(queue[id])
  <2>1. queue' = [queue EXCEPT ![id] = IF queue[id] = NoRow THEN NoRow ELSE new]
    BY <1>3 DEF MarkFailure, TypeInv, TableTyped
  <2>2. queue[id] # NoRow => new \in Rows
    <3>1. queue[id] # NoRow => /\ queue[id].attempts + 1 < limit
                               /\ queue[id] \in Rows /\ queue[id].attempts \in Int
      BY <1>1, <1>3, QueueAssumption DEF DeadLetters, Rows
    <3>2. queue[id] # NoRow => queue[id].attempts + 1 < MaxAttempts
      BY <3>1, QueueAssumption
    <3>3. CASE queue[id] # NoRow
      <4>1. queue[id] \in Rows /\ queue[id].attempts + 1 < MaxAttempts
        BY <3>1, <3>2, <3>3
      <4> QED BY <4>1, RetryableRow
    <3> QED BY <3>3
  <2>3. dead' = dead
    BY <1>3 DEF MarkFailure
  <2> HIDE DEF new
  <2>4. queue' \in [Ids -> Rows \cup {NoRow}]
    BY <2>1, <2>2 DEF TypeInv, TableTyped
  <2>5. \A x \in Ids : queue[x] = NoRow => queue'[x] = NoRow
    BY <2>1 DEF TypeInv, TableTyped
  <2> QED BY <2>3, <2>4, <2>5, NoNewRows DEF TypeInv, TableTyped
<1> QED BY <1>2, <1>3

\* The table after a claim: expired leases returned, the first rows leased.
LEMMA ClaimedRows ==
    ASSUME TypeInv, NEW w \in Workers, Claim(w)
    PROVE  /\ queue' \in [Ids -> Rows \cup {NoRow}]
           /\ \A id \in Ids : queue[id] = NoRow <=> queue'[id] = NoRow
<1>1. \A id \in Ids : queue[id] # NoRow => queue[id] \in Rows
  BY DEF TypeInv, TableTyped
<1>2. ASSUME NEW id \in Ids
      PROVE  /\ Reaped[id] \in Rows \cup {NoRow}
             /\ Reaped[id] = NoRow <=> queue[id] = NoRow
  <2>1. Reaped[id] = IF queue[id] # NoRow /\ Expired(queue[id])
                     THEN Queued(queue[id]) ELSE queue[id]
    BY DEF Reaped, Present
  <2>2. queue[id] # NoRow => Queued(queue[id]) \in Rows
    BY <1>1, QueuedRow
  <2>3. queue[id] \in Rows \cup {NoRow}
    BY <1>1
  <2> QED BY <2>1, <2>2, <2>3, NoRowAssumption
<1>3. Taken \subseteq Present
  BY DEF Taken, Ready
<1>4. ASSUME NEW id \in Ids
      PROVE  /\ queue'[id] \in Rows \cup {NoRow}
             /\ queue[id] = NoRow <=> queue'[id] = NoRow
  <2>1. queue'[id] = IF id \in Taken THEN Leased(Reaped[id]) ELSE Reaped[id]
    BY DEF Claim
  <2>2. CASE id \in Taken
    <3>1. Reaped[id] \in Rows /\ queue[id] # NoRow
      BY <1>2, <1>3, <2>2 DEF Present
    <3>2. Leased(Reaped[id]) \in Rows
      BY <3>1, LeasedRow
    <3> QED BY <2>1, <2>2, <3>1, <3>2, NoRowAssumption
  <2> QED BY <1>2, <2>1, <2>2
<1>5. queue' = [id \in Ids |-> queue'[id]]
  BY DEF Claim
<1> QED BY <1>4, <1>5

\* The batch after a claim: the packets taken, each once.
LEMMA ClaimedBatch ==
    ASSUME TypeInv, NEW w \in Workers, Claim(w)
    PROVE  /\ batch'[w] \in Seq(Items) /\ Len(batch'[w]) <= BatchSize
           /\ Taken = {} => batch'[w] = <<>>
           /\ \A k \in 1 .. Len(batch'[w]) : batch'[w][k].id \in Taken
           /\ \A j, k \in 1 .. Len(batch'[w]) :
                  batch'[w][j].id = batch'[w][k].id => j = k
           /\ \A v \in Workers \ {w} : batch'[v] = batch[v]
<1> DEFINE n == Cardinality(Taken)
           item(k) == [id |-> ById(Taken)[k], hash |-> queue[ById(Taken)[k]].hash]
           items == [k \in 1 .. n |-> item(k)]
<1>1. Taken \in SUBSET Ids /\ Taken \subseteq Present
  BY DEF Taken, Ready, Present
<1>2. n \in Nat /\ n <= BatchSize
  BY TakenFits
<1>3. /\ \A k \in 1 .. n : ById(Taken)[k] \in Taken
      /\ \A j, k \in 1 .. n : ById(Taken)[j] = ById(Taken)[k] => j = k
  BY <1>1, ByIdEnumerates
<1>4. \A k \in 1 .. n : item(k) \in Items
  <2>1. \A id \in Taken : queue[id] \in Rows
    BY <1>1 DEF Present, TypeInv, TableTyped
  <2>2. \A id \in Taken : queue[id].hash \in Snapshots
    BY <2>1 DEF Rows
  <2> QED BY <1>1, <1>3, <2>2 DEF Items
<1>5. batch' = [batch EXCEPT ![w] = items]
  BY DEF Claim
<1>6. batch'[w] = items /\ \A v \in Workers \ {w} : batch'[v] = batch[v]
  BY <1>5 DEF TypeInv, WorkersTyped
<1>7. items \in Seq(Items) /\ Len(items) = n
  <2>1. items \in [1 .. n -> Items]
    BY <1>4
  <2> HIDE DEF items, n
  <2> QED BY <1>2, <2>1
<1>8. \A k \in 1 .. n : items[k].id = ById(Taken)[k]
  OBVIOUS
<1>9. Taken = {} => n = 0
  BY FS_EmptySet
<1> HIDE DEF items, n
<1>10. Taken = {} => items = <<>>
  BY <1>7, <1>9
<1> QED BY <1>2, <1>3, <1>6, <1>7, <1>8, <1>10

\* The steps of a work that leave the table alone.
LEMMA SameTable ==
    ASSUME TypeInv, table' = table
    PROVE  TableTyped' /\ Drawn' /\ OneLetterEach'
<1>1. queue' = queue /\ nextId' = nextId /\ dead' = dead
  BY DEF table
<1> QED BY <1>1 DEF TypeInv, TableTyped, Drawn, OneLetterEach

LEMMA BeforeSending ==
    ASSUME TypeInv, NEW w \in Workers,
           Start(w) \/ Collect(w) \/ Compare(w) \/ Heartbeat(w) \/ Lookup(w)
    PROVE  WorkersTyped' /\ AtHand' /\ ItemsDrawn'
<1>0. data \in Snapshots /\ batch' = batch /\ nextId' = nextId /\ left' = left
      /\ reply' = reply
  BY DEF Start, Collect, Compare, Heartbeat, Lookup, table, server, TypeInv, RestTyped
<1>1. /\ \E next \in {"idle", "claim", "compare", "heartbeat", "lookup", "insert"} :
             /\ step' = [step EXCEPT ![w] = next]
             /\ next \in {"compare", "heartbeat", "lookup", "insert"} => seen'[w] \in Snapshots
      /\ seen'[w] \in Snapshots \cup {NoHash}
      /\ step[w] \notin {"send", "call", "note"}
      /\ seen' = [seen EXCEPT ![w] = seen'[w]]
  <2>1. seen[w] \in Snapshots \cup {NoHash} /\ seen = [v \in Workers |-> seen[v]]
    BY DEF TypeInv, WorkersTyped
  <2>2. step[w] \in {"compare", "heartbeat", "lookup"} => seen[w] \in Snapshots
    BY DEF TypeInv, AtHand
  <2>3. CASE Start(w)
    BY <2>1, <2>3 DEF Start, Goto
  <2>4. CASE Collect(w)
    BY <1>0, <2>1, <2>4 DEF Collect, Goto
  <2>5. CASE Compare(w)
    BY <2>1, <2>2, <2>5 DEF Compare, Goto
  <2>6. CASE Heartbeat(w)
    BY <2>1, <2>2, <2>6 DEF Heartbeat, Goto, LeaveSnapshot
  <2>7. CASE Lookup(w)
    BY <2>1, <2>2, <2>7 DEF Lookup, Goto, LeaveSnapshot
  <2> QED BY <2>3, <2>4, <2>5, <2>6, <2>7
<1>2. WorkersTyped'
  <2> PICK next \in {"idle", "claim", "compare", "heartbeat", "lookup", "insert"} :
               step' = [step EXCEPT ![w] = next]
    BY <1>1
  <2>1. seen' \in [Workers -> Snapshots \cup {NoHash}]
    BY <1>1 DEF TypeInv, WorkersTyped
  <2>2. step' \in [Workers -> {"idle", "claim", "collect", "compare", "heartbeat", "lookup",
                               "insert", "send", "call", "note"}]
    BY DEF TypeInv, WorkersTyped
  <2> QED BY <1>0, <2>1, <2>2 DEF TypeInv, WorkersTyped
<1>3. AtHand'
  BY <1>0, <1>1 DEF TypeInv, WorkersTyped, AtHand
<1>4. ItemsDrawn'
  BY <1>0 DEF TypeInv, ItemsDrawn
<1> QED BY <1>2, <1>3, <1>4

LEMMA WhileSending ==
    ASSUME TypeInv, NEW w \in Workers, Send(w) \/ BatchDone(w) \/ Answers(w)
               \/ AppliedYetRefused(w) \/ Accepted(w)
    PROVE  WorkersTyped' /\ AtHand' /\ ItemsDrawn'
<1>0. batch' = batch /\ nextId' = nextId /\ seen' = seen
  BY DEF Send, BatchDone, Answers, Answer, AppliedYetRefused, Accepted, table
<1>1. WorkersTyped'
  <2>1. CASE Send(w)
    BY <1>0, <2>1, QueueAssumption DEF Send, Goto, TypeInv, WorkersTyped
  <2>2. CASE BatchDone(w)
    BY <1>0, <2>2 DEF BatchDone, Goto, TypeInv, WorkersTyped
  <2>3. CASE Answers(w)
    BY <1>0, <2>3 DEF Answers, Answer, TypeInv, WorkersTyped
  <2>4. CASE Accepted(w)
    BY <1>0, <2>4 DEF Accepted, Goto, TypeInv, WorkersTyped
  <2>5. CASE AppliedYetRefused(w)
    BY <1>0, <2>5 DEF AppliedYetRefused, Replies, TypeInv, WorkersTyped
  <2> QED BY <2>1, <2>2, <2>3, <2>4, <2>5
<1>2. AtHand'
  <2>1. CASE Send(w)
    BY <1>0, <2>1 DEF Send, Goto, Busy, TypeInv, WorkersTyped, AtHand
  <2>2. CASE BatchDone(w)
    BY <1>0, <2>2 DEF BatchDone, Goto, Busy, TypeInv, WorkersTyped, AtHand
  <2>3. CASE Answers(w)
    BY <1>0, <2>3 DEF Answers, Answer, TypeInv, WorkersTyped, AtHand
  <2>4. CASE Accepted(w)
    BY <1>0, <2>4 DEF Accepted, Goto, TypeInv, WorkersTyped, AtHand
  <2>5. CASE AppliedYetRefused(w)
    BY <1>0, <2>5 DEF AppliedYetRefused, TypeInv, WorkersTyped, AtHand
  <2> QED BY <2>1, <2>2, <2>3, <2>4, <2>5
<1>3. ItemsDrawn'
  BY <1>0 DEF TypeInv, ItemsDrawn
<1> QED BY <1>1, <1>2, <1>3

\* What a step remembers.
LEMMA HistoryTyped ==
    ASSUME TypeInv, Next
    PROVE  outlived' \subseteq Ids /\ {crossed, unsure}' \subseteq BOOLEAN
<1>1. outlived' \subseteq Ids
  BY DEF Next, Remember, Outlived, Present, TypeInv, RestTyped
<1>2. crossed' \in BOOLEAN
  BY DEF Next, Remember
<1>3. unsure' \in BOOLEAN
  BY DEF Next, Remember, TypeInv, RestTyped
<1> QED BY <1>1, <1>2, <1>3

\* Calls given up leave a number of requests behind.
LEMMA GivenUpTyped ==
    ASSUME TypeInv, NEW calls \in SUBSET Workers, GivesUp(calls)
    PROVE  adrift' \in [Snapshots -> Nat]
<1> PICK still \in SUBSET {w \in calls : Waiting(w)} :
         adrift' = [snapshot \in Snapshots |-> adrift[snapshot] +
                       Cardinality({w \in still : Current(w).hash = snapshot})]
  BY DEF GivesUp
<1>1. ASSUME NEW snapshot \in Snapshots
      PROVE  Cardinality({w \in still : Current(w).hash = snapshot}) \in Nat
  <2>1. {w \in still : Current(w).hash = snapshot} \in SUBSET Workers
    OBVIOUS
  <2> QED BY <2>1, QueueAssumption, FS_Subset, FS_CardinalityType
<1>2. adrift \in [Snapshots -> Nat]
  BY DEF TypeInv, RestTyped
<1> QED BY <1>1, <1>2

\* What is kept besides the table and the works.
LEMMA RestKept ==
    ASSUME TypeInv, Next
    PROVE  RestTyped'
<1>1. outlived' \subseteq Ids /\ {crossed, unsure}' \subseteq BOOLEAN
  BY HistoryTyped
<1>2. ASSUME adrift' \in [Snapshots -> Nat], settled' \subseteq Ids,
             latest' \in Snapshots \cup {NoHash},
             faults' = faults \/ Fault, UNCHANGED <<data, lastHash, changes>>
      PROVE  RestTyped'
  <2>1. faults' \in 0 .. MaxFaults
    BY <1>2, QueueAssumption DEF Fault, TypeInv, RestTyped
  <2> QED BY <1>1, <1>2, <2>1 DEF TypeInv, RestTyped
<1> DEFINE Typed == /\ adrift \in [Snapshots -> Nat] /\ settled \subseteq Ids
                    /\ latest \in Snapshots \cup {NoHash}
<1>t. Typed
  BY DEF TypeInv, RestTyped
<1>3. ASSUME NEW w \in Workers, Start(w) \/ Claim(w) \/ Collect(w) \/ Compare(w)
                 \/ Heartbeat(w) \/ Lookup(w) \/ Insert(w) \/ Send(w) \/ BatchDone(w)
                 \/ Accepted(w) \/ Unauthorized(w) \/ TransientFailure(w)
                 \/ PermanentFailure(w)
      PROVE  RestTyped'
  BY <1>2, <1>3, <1>t DEF Start, Claim, Collect, Compare, Heartbeat, Lookup, Insert, Send,
     BatchDone, Accepted, Unauthorized, TransientFailure, PermanentFailure, server
<1>4. ASSUME NEW w \in Workers, Answers(w) \/ AppliedYetRefused(w)
      PROVE  RestTyped'
  <2>1. Current(w).id \in Ids /\ Current(w).hash \in Snapshots
    BY <1>4, CurrentIsAtHand DEF Answers, Answer, AppliedYetRefused, Waiting, Items
  <2> QED BY <1>2, <1>4, <1>t, <2>1 DEF Answers, Answer, AppliedYetRefused
<1>5. ASSUME NEW w \in Workers, Note(w)
      PROVE  RestTyped'
  <2>1. Current(w).hash \in Snapshots
    BY <1>5, CurrentIsAtHand DEF Note, Items
  <2> QED BY <1>1, <1>5, <2>1 DEF Note, TypeInv, RestTyped, server
<1>6. ASSUME NEW snapshot \in Snapshots, EndsUnheard(snapshot)
      PROVE  RestTyped'
  <2>1. adrift' \in [Snapshots -> Nat]
    BY <1>6, <1>t DEF EndsUnheard
  <2> QED BY <1>2, <1>6, <1>t, <2>1 DEF EndsUnheard
<1>7. ASSUME DataChanges
      PROVE  RestTyped'
  BY <1>1, <1>7, QueueAssumption DEF DataChanges, TypeInv, RestTyped, server
<1>8. ASSUME RetryDeadLetters \/ ClearQueue \/ ClearDeadLetters \/ Tick
                 \/ \E id \in Ids : BackoffElapses(id)
      PROVE  RestTyped'
  <2>1. Present \subseteq Ids /\ {letter.id : letter \in dead} \subseteq Ids
    BY DEF Present, TypeInv, TableTyped, Items
  <2>2. settled' \subseteq Ids
    BY <1>8, <1>t, <2>1 DEF RetryDeadLetters, ClearQueue, ClearDeadLetters, Tick,
       BackoffElapses, server
  <2> QED BY <1>2, <1>8, <1>t, <2>2 DEF RetryDeadLetters, ClearQueue, ClearDeadLetters,
          Tick, BackoffElapses, server
<1>9. ASSUME NEW w \in Workers, CallThrows(w)
      PROVE  RestTyped'
  <2>1. GivesUp({w})
    BY <1>9 DEF CallThrows
  <2>2. adrift' \in [Snapshots -> Nat]
    BY <2>1, GivenUpTyped
  <2> QED BY <1>2, <1>9, <1>t, <2>1, <2>2 DEF CallThrows, GivesUp
<1>10. ASSUME ProcessDies
       PROVE  RestTyped'
  <2>1. GivesUp(Workers)
    BY <1>10 DEF ProcessDies
  <2>2. adrift' \in [Snapshots -> Nat]
    BY <2>1, GivenUpTyped
  <2> QED BY <1>2, <1>10, <1>t, <2>1, <2>2 DEF ProcessDies, GivesUp
<1> QED BY <1>3, <1>4, <1>5, <1>6, <1>7, <1>8, <1>9, <1>10 DEF Next, Step, Works

----------------------------------------------------------------------------
(* One step keeps TypeInv *)

Frame == TableTyped /\ WorkersTyped /\ AtHand /\ Drawn /\ OneLetterEach /\ ItemsDrawn

LEMMA ClaimKeeps ==
    ASSUME TypeInv, NEW w \in Workers, Claim(w)
    PROVE  Frame'
<1>1. /\ batch' = [batch EXCEPT ![w] = batch'[w]]
      /\ step' = [step EXCEPT ![w] = IF Taken = {} THEN "collect" ELSE "send"]
      /\ nextId' = nextId /\ dead' = dead
      /\ left' = left /\ reply' = reply /\ seen' = seen
  BY DEF Claim, Goto, TypeInv, WorkersTyped
<1>2. TableTyped' /\ Drawn' /\ OneLetterEach'
  BY <1>1, ClaimedRows, NoNewRows DEF TypeInv, TableTyped
<1>3. WorkersTyped'
  BY <1>1, ClaimedBatch DEF TypeInv, WorkersTyped
<1>4. AtHand'
  BY <1>1, ClaimedBatch DEF TypeInv, WorkersTyped, AtHand
<1>5. ItemsDrawn'
  <2>1. \A id \in Taken : id < nextId
    <3>1. Taken \subseteq Present /\ Present \subseteq Ids
      BY DEF Taken, Ready, Present
    <3>2. \A id \in Present : ~(id >= nextId)
      BY DEF Present, TypeInv, Drawn
    <3> QED BY <3>1, <3>2 DEF Ids, TypeInv, TableTyped
  <2> QED BY <1>1, <2>1, ClaimedBatch DEF TypeInv, WorkersTyped, ItemsDrawn
<1> QED BY <1>2, <1>3, <1>4, <1>5 DEF Frame

LEMMA InsertKeeps ==
    ASSUME TypeInv, NEW w \in Workers, Insert(w)
    PROVE  Frame'
<1>1. /\ batch' = batch /\ left' = left /\ reply' = reply
      /\ dead' = dead
      /\ step' = [step EXCEPT ![w] = "claim"] /\ seen' = [seen EXCEPT ![w] = NoHash]
  BY DEF Insert, LeaveSnapshot, Goto
<1>2. WorkersTyped'
  BY <1>1 DEF TypeInv, WorkersTyped
<1>3. AtHand'
  BY <1>1 DEF TypeInv, WorkersTyped, AtHand, Insert
<1>4. CASE UNCHANGED <<queue, nextId>>
  BY <1>1, <1>2, <1>3, <1>4, SameTable DEF Frame, TypeInv, ItemsDrawn, table
<1>5. CASE InsertRow(w)
  <2>1. NewRow(seen[w], TRUE) \in Rows
    BY NewRowTyped DEF TypeInv, AtHand, Insert
  <2>2. /\ nextId \in Ids /\ nextId' = nextId + 1
        /\ queue' = [queue EXCEPT ![nextId] = NewRow(seen[w], TRUE)]
    BY <1>5 DEF InsertRow
  <2>3. TableTyped'
    <3>1. queue' \in [Ids -> Rows \cup {NoRow}]
      BY <2>1, <2>2 DEF TypeInv, TableTyped
    <3>2. nextId' \in 1 .. MaxPackets + 1
      BY <2>2, QueueAssumption DEF Ids
    <3> QED BY <1>1, <3>1, <3>2 DEF TypeInv, TableTyped
  <2>4. Drawn'
    <3>1. \A id \in Ids : id >= nextId' => id >= nextId /\ id # nextId
      BY <2>2 DEF Ids
    <3>2. \A letter \in dead : /\ letter.id < nextId' /\ letter.id # nextId
                              /\ queue[letter.id] = NoRow
      BY <2>2 DEF Ids, TypeInv, TableTyped, Drawn, Items
    <3>3. \A id \in Ids : id # nextId => queue'[id] = queue[id]
      BY <2>2 DEF TypeInv, TableTyped
    <3>4. \A letter \in dead : letter.id \in Ids
      BY DEF TypeInv, TableTyped, Items
    <3> QED BY <1>1, <3>1, <3>2, <3>3, <3>4 DEF TypeInv, Drawn
  <2>5. ItemsDrawn'
    <3>1. \A v \in Workers : \A k \in 1 .. Len(batch[v]) :
              batch[v][k] \in Items /\ batch[v][k].id < nextId
      BY DEF TypeInv, WorkersTyped, ItemsDrawn
    <3> QED BY <1>1, <2>2, <3>1 DEF Items, Ids, ItemsDrawn
  <2> QED BY <1>1, <1>2, <1>3, <2>3, <2>4, <2>5 DEF Frame, TypeInv, OneLetterEach
<1> QED BY <1>4, <1>5 DEF Insert

LEMMA AnsweredKeeps ==
    ASSUME TypeInv, NEW w \in Workers,
           Accepted(w) \/ Note(w) \/ Unauthorized(w) \/ TransientFailure(w)
               \/ PermanentFailure(w) \/ CallThrows(w)
    PROVE  Frame'
<1>0. /\ step[w] \in {"call", "note"}
      /\ nextId' = nextId
      /\ ~Accepted(w) => seen' = seen
  BY DEF Accepted, Note, Unauthorized, TransientFailure, PermanentFailure, CallThrows,
     table
<1>1. Current(w).id \in Ids /\ Current(w).id < nextId
  BY <1>0, CurrentIsAtHand
<1>2. CASE Accepted(w)
  <2>1. dead' = dead /\ queue' = [queue EXCEPT ![Current(w).id] = NoRow]
    BY <1>2 DEF Accepted, Complete
  <2>2. /\ queue' \in [Ids -> Rows \cup {NoRow}]
        /\ \A id \in Ids : queue[id] = NoRow => queue'[id] = NoRow
    BY <2>1 DEF TypeInv, TableTyped
  <2>3. TableTyped' /\ Drawn' /\ OneLetterEach'
    BY <1>0, <2>1, <2>2, NoNewRows DEF TypeInv, TableTyped
  <2> QED BY <1>2, <2>3, WhileSending DEF Frame
<1>3. CASE Note(w)
  <2>1. NextItem(w) /\ table' = table
    BY <1>3 DEF Note
  <2> QED BY <1>0, <1>3, <2>1, ItemDone, SameTable DEF Frame, Note, Accepted
<1>4. CASE Unauthorized(w)
  BY <1>0, <1>1, <1>4, ReleaseTyped, RunEnds DEF Unauthorized, Frame
<1>5. CASE CallThrows(w)
  BY <1>0, <1>1, <1>5, ReleaseTyped, RunEnds DEF CallThrows, Frame
<1>6. CASE TransientFailure(w)
  <2>1. MaxAttempts \in 1 .. MaxAttempts
    BY QueueAssumption
  <2>2. TableTyped' /\ Drawn' /\ OneLetterEach'
    BY <1>0, <1>1, <1>6, <2>1, FailureTyped DEF TransientFailure
  <2>3. seen' = seen /\ (NextItem(w) \/ EndRun(w))
    BY <1>6 DEF TransientFailure
  <2> QED BY <1>0, <2>2, <2>3, RunEnds, ItemDone DEF Frame
<1>7. CASE PermanentFailure(w)
  <2>1. 1 \in 1 .. MaxAttempts
    BY QueueAssumption
  <2>2. TableTyped' /\ Drawn' /\ OneLetterEach'
    BY <1>0, <1>1, <1>7, <2>1, FailureTyped DEF PermanentFailure
  <2>3. seen' = seen /\ NextItem(w)
    BY <1>7 DEF PermanentFailure
  <2> QED BY <1>0, <2>2, <2>3, ItemDone DEF Frame
<1> QED BY <1>2, <1>3, <1>4, <1>5, <1>6, <1>7

LEMMA DeathKeeps ==
    ASSUME TypeInv, ProcessDies
    PROVE  Frame'
<1>1. TableTyped' /\ Drawn' /\ OneLetterEach'
  BY SameTable DEF ProcessDies
<1>2. <<>> \in Seq(Items) /\ Len(<<>>) = 0
  OBVIOUS
<1>3. WorkersTyped' /\ AtHand'
  BY <1>2, QueueAssumption DEF ProcessDies, WorkersTyped, AtHand
<1>4. ItemsDrawn'
  BY <1>2 DEF ProcessDies, ItemsDrawn
<1> QED BY <1>1, <1>3, <1>4 DEF Frame

\* A restored packet gets an id that was never drawn.
LEMMA RestoredCount ==
    ASSUME TypeInv
    PROVE  LET ids == {letter.id : letter \in dead}
           IN  /\ ids \in SUBSET Ids
               /\ Cardinality(dead) = Cardinality(ids) /\ Cardinality(dead) \in Nat
               /\ \A k \in 1 .. Cardinality(dead) : ById(ids)[k] \in ids
<1> DEFINE ids == {letter.id : letter \in dead}
<1>2. ids \in SUBSET Ids /\ IsFiniteSet(ids) /\ Cardinality(ids) \in Nat
  <2>1. ids \in SUBSET Ids
    BY DEF TypeInv, TableTyped, Items
  <2> QED BY <2>1, RanksAreDense
<1>3. Cardinality(dead) = Cardinality(ids)
  <2> DEFINE idOf == [letter \in dead |-> letter.id]
  <2>1. idOf \in Injection(dead, ids)
    <3>1. idOf \in [dead -> ids]
      OBVIOUS
    <3>2. \A l, m \in dead : idOf[l] = idOf[m] => l = m
      BY DEF TypeInv, OneLetterEach
    <3> QED BY <3>1, <3>2 DEF Injection, IsInjective
  <2>2. idOf \in Surjection(dead, ids)
    <3>1. \A id \in ids : \E letter \in dead : idOf[letter] = id
      OBVIOUS
    <3> QED BY <2>1, <3>1 DEF Injection, Surjection
  <2> HIDE DEF idOf, ids
  <2> QED BY <1>2, <2>1, <2>2, FS_Injection
<1>4. \A k \in 1 .. Cardinality(ids) : ById(ids)[k] \in ids
  BY <1>2, ByIdEnumerates
<1> QED BY <1>2, <1>3, <1>4

LEMMA RestoredRows ==
    ASSUME TypeInv, RetryDeadLetters
    PROVE  /\ Cardinality(dead) \in Nat /\ nextId' = nextId + Cardinality(dead)
           /\ nextId + Cardinality(dead) <= MaxPackets + 1
           /\ \A id \in nextId .. nextId + Cardinality(dead) - 1 :
                  id \in Ids /\ queue'[id] \in Rows /\ queue'[id] # NoRow
           /\ \A id \in Ids \ (nextId .. nextId + Cardinality(dead) - 1) :
                  queue'[id] = queue[id]
<1> DEFINE ids == {letter.id : letter \in dead}
           n == Cardinality(dead)
           drawn == nextId .. nextId + n - 1
           hash(id) == (CHOOSE letter \in dead : letter.id = id).hash
           fresh(id) == NewRow(hash(ById(ids)[id - nextId + 1]), FALSE)
<1>1. /\ queue' = [id \in Ids |-> IF id \in drawn THEN fresh(id) ELSE queue[id]]
      /\ nextId' = nextId + n /\ nextId + n <= MaxPackets + 1
  BY DEF RetryDeadLetters
<1>2. n \in Nat /\ \A k \in 1 .. n : ById(ids)[k] \in ids
  BY RestoredCount
<1>5. ASSUME NEW id \in drawn
      PROVE  fresh(id) \in Rows
  <2>1. id - nextId + 1 \in 1 .. n
    BY <1>2 DEF TypeInv, TableTyped
  <2> DEFINE old == ById(ids)[id - nextId + 1]
  <2>2. old \in ids
    BY <1>2, <2>1
  <2>3. PICK letter \in dead : letter.id = old
    BY <2>2
  <2>4. hash(old) \in Snapshots
    <3>1. \A l \in dead : l.hash \in Snapshots
      BY DEF TypeInv, TableTyped, Items
    <3> QED BY <2>3, <3>1
  <2> QED BY <2>4, NewRowTyped
<1> HIDE DEF fresh, hash, ids, n
<1>6. \A id \in drawn : id \in Ids
  BY <1>1, <1>2, QueueAssumption DEF Ids, TypeInv, TableTyped
<1>7. \A id \in drawn : queue'[id] \in Rows /\ queue'[id] # NoRow
  BY <1>1, <1>5, <1>6, NoRowAssumption
<1>8. \A id \in Ids \ drawn : queue'[id] = queue[id]
  BY <1>1
<1> QED BY <1>1, <1>2, <1>6, <1>7, <1>8 DEF n

LEMMA RestoreKeeps ==
    ASSUME TypeInv, RetryDeadLetters
    PROVE  Frame'
<1> DEFINE n == Cardinality(dead)
           drawn == nextId .. nextId + n - 1
<1>1. /\ n \in Nat /\ nextId' = nextId + n /\ nextId + n <= MaxPackets + 1
      /\ \A id \in drawn : queue'[id] \in Rows
      /\ \A id \in Ids \ drawn : queue'[id] = queue[id]
  BY RestoredRows
<1>2. dead' = {} /\ UNCHANGED workers
  BY DEF RetryDeadLetters
<1>3. queue' = [id \in Ids |-> queue'[id]]
  BY DEF RetryDeadLetters
<1> HIDE DEF n
<1>6. nextId \in 1 .. MaxPackets + 1
  BY DEF TypeInv, TableTyped
<1>7. TableTyped'
  <2>1. queue' \in [Ids -> Rows \cup {NoRow}]
    BY <1>1, <1>3 DEF TypeInv, TableTyped
  <2>2. nextId' \in 1 .. MaxPackets + 1
    BY <1>1, <1>6, QueueAssumption
  <2> QED BY <1>2, <2>1, <2>2 DEF TypeInv, TableTyped
<1>8. Drawn' /\ OneLetterEach'
  <2>1. \A id \in Ids : id >= nextId' => id >= nextId /\ id \notin drawn
    BY <1>1, <1>6 DEF Ids
  <2>2. \A id \in Ids : id >= nextId' => queue'[id] = NoRow
    BY <1>1, <2>1 DEF TypeInv, Drawn
  <2> QED BY <1>2, <2>2 DEF Drawn, OneLetterEach
<1>9. WorkersTyped' /\ AtHand'
  BY <1>2 DEF workers, TypeInv, WorkersTyped, AtHand
<1>10. ItemsDrawn'
  <2>1. \A v \in Workers : \A k \in 1 .. Len(batch[v]) :
            batch[v][k] \in Items /\ batch[v][k].id < nextId
    BY DEF TypeInv, WorkersTyped, ItemsDrawn
  <2> QED BY <1>1, <1>2, <1>6, <2>1 DEF Items, Ids, ItemsDrawn, workers
<1> QED BY <1>7, <1>8, <1>9, <1>10 DEF Frame

LEMMA UserKeeps ==
    ASSUME TypeInv, ClearQueue \/ ClearDeadLetters
    PROVE  Frame'
<1>1. WorkersTyped' /\ AtHand' /\ ItemsDrawn'
  BY DEF ClearQueue, ClearDeadLetters, workers, TypeInv, WorkersTyped, AtHand, ItemsDrawn
<1>2. TableTyped' /\ Drawn' /\ OneLetterEach'
  <2>1. CASE ClearQueue
    BY <2>1, NoNewRows DEF ClearQueue, TypeInv, TableTyped
  <2>2. CASE ClearDeadLetters
    <3>1. dead' = {} /\ queue' = queue /\ nextId' = nextId
      BY <2>2 DEF ClearDeadLetters
    <3> QED BY <3>1 DEF TypeInv, TableTyped, Drawn, OneLetterEach
  <2> QED BY <2>1, <2>2
<1> QED BY <1>1, <1>2 DEF Frame

LEMMA BackoffRows ==
    ASSUME TypeInv, NEW id \in Ids, BackoffElapses(id)
    PROVE  /\ queue' \in [Ids -> Rows \cup {NoRow}]
           /\ \A x \in Ids : queue[x] = NoRow <=> queue'[x] = NoRow
           /\ \A x \in Ids : queue[x] # NoRow => /\ queue'[x].state = queue[x].state
                                               /\ queue'[x].lease = queue[x].lease
<1>1. queue[id] \in Rows
  BY DEF BackoffElapses, Present, TypeInv, TableTyped
<1> DEFINE due == [queue[id] EXCEPT !.delayed = FALSE]
<1>2. due \in Rows /\ due # NoRow
  BY <1>1, ColumnsUpdated, NoRowAssumption
<1>3. due.state = queue[id].state /\ due.lease = queue[id].lease
  BY <1>1 DEF Rows
<1>4. queue' = [queue EXCEPT ![id] = due]
  BY DEF BackoffElapses
<1> HIDE DEF due
<1> QED BY <1>1, <1>2, <1>3, <1>4, NoRowAssumption DEF TypeInv, TableTyped

LEMMA BackoffKeeps ==
    ASSUME TypeInv, NEW id \in Ids, BackoffElapses(id)
    PROVE  Frame'
<1>1. WorkersTyped' /\ AtHand' /\ ItemsDrawn'
  BY DEF BackoffElapses, workers, TypeInv, WorkersTyped, AtHand, ItemsDrawn
<1>2. /\ queue' \in [Ids -> Rows \cup {NoRow}]
      /\ \A x \in Ids : queue[x] = NoRow => queue'[x] = NoRow
  BY BackoffRows
<1>3. nextId' = nextId /\ dead' = dead
  BY DEF BackoffElapses
<1> QED BY <1>1, <1>2, <1>3, NoNewRows DEF Frame

\* What a tick does to a row.
LEMMA TickRows ==
    ASSUME TypeInv, Tick, NEW id \in Ids
    PROVE  /\ queue'[id] \in Rows \cup {NoRow}
           /\ queue[id] = NoRow <=> queue'[id] = NoRow
           /\ queue[id] # NoRow => /\ queue'[id].state = queue[id].state
                                   /\ queue'[id].lease \in Nat
                                   /\ queue'[id].lease >= queue[id].lease - 1
<1>1. queue'[id] = IF id \in Present /\ queue[id].lease > 0
                   THEN [queue[id] EXCEPT !.lease = queue[id].lease - 1] ELSE queue[id]
  BY DEF Tick
<1>2. queue[id] # NoRow => queue[id] \in Rows /\ queue[id].lease \in 0 .. LeaseTicks
  BY DEF TypeInv, TableTyped, Rows
<1>3. CASE id \in Present /\ queue[id].lease > 0
  <2>1. queue[id] \in Rows /\ queue[id].lease - 1 \in 0 .. LeaseTicks
    BY <1>2, <1>3, QueueAssumption DEF Present
  <2>2. queue'[id] \in Rows
    BY <1>1, <1>3, <2>1, ColumnsUpdated
  <2>3. queue'[id].lease = queue[id].lease - 1 /\ queue'[id].state = queue[id].state
    BY <1>1, <1>3, <2>1 DEF Rows
  <2> QED BY <1>2, <1>3, <2>1, <2>2, <2>3, NoRowAssumption DEF Present
<1>4. CASE ~(id \in Present /\ queue[id].lease > 0)
  BY <1>1, <1>2, <1>4 DEF TypeInv, TableTyped
<1> QED BY <1>3, <1>4

LEMMA TickKeeps ==
    ASSUME TypeInv, Tick
    PROVE  Frame'
<1>1. queue' \in [Ids -> Rows \cup {NoRow}] /\ \A id \in Ids : queue[id] = NoRow => queue'[id] = NoRow
  <2>1. queue' = [id \in Ids |-> queue'[id]]
    BY DEF Tick
  <2> QED BY <2>1, TickRows
<1>2. TableTyped' /\ Drawn' /\ OneLetterEach'
  BY <1>1, NoNewRows DEF Tick, TypeInv, TableTyped
<1>3. step' = step /\ batch' = batch /\ nextId' = nextId /\ reply' = reply /\ seen' = seen
  BY DEF Tick
<1>4. left' \in [Workers -> 0 .. CallTicks]
  <2>1. \A w \in Workers : left[w] \in 0 .. CallTicks
    BY DEF TypeInv, WorkersTyped
  <2>2. \A w \in Workers : (IF Busy(w) THEN left[w] - 1 ELSE left[w]) \in 0 .. CallTicks
    BY <2>1, QueueAssumption DEF Tick
  <2> QED BY <2>2 DEF Tick
<1> QED BY <1>2, <1>3, <1>4 DEF Frame, TypeInv, WorkersTyped, AtHand, ItemsDrawn

LEMMA InitTyped == Init => TypeInv
<1>1. ASSUME Init PROVE TypeInv
  <2>1. TableTyped
    BY <1>1, QueueAssumption DEF Init, TableTyped
  <2>2. <<>> \in Seq(Items) /\ Len(<<>>) = 0
    OBVIOUS
  <2>3. WorkersTyped
    BY <1>1, <2>2, QueueAssumption DEF Init, WorkersTyped
  <2>4. RestTyped
    <3>1. 0 \in 0 .. MaxChanges /\ 0 \in 0 .. MaxFaults
      BY QueueAssumption
    <3> QED BY <1>1, <3>1 DEF Init, RestTyped
  <2>5. AtHand /\ Drawn /\ OneLetterEach /\ ItemsDrawn
    BY <1>1, <2>2 DEF Init, AtHand, Drawn, OneLetterEach, ItemsDrawn
  <2> QED BY <2>1, <2>3, <2>4, <2>5 DEF TypeInv
<1> QED BY <1>1

LEMMA TypeInvKept ==
    ASSUME TypeInv, [Next]_vars
    PROVE  TypeInv'
<1>1. CASE UNCHANGED vars
  BY <1>1 DEF vars, state, history, table, workers, server, TypeInv, TableTyped, WorkersTyped,
     RestTyped, AtHand, Drawn, OneLetterEach, ItemsDrawn
<1>2. CASE Next
  <2>0. RestTyped'
    BY <1>2, RestKept
  <2>1. ASSUME NEW w \in Workers, \/ Start(w) \/ Works(w) \/ Answers(w)
                                  \/ AppliedYetRefused(w) \/ CallThrows(w)
        PROVE  Frame'
    <3>1. CASE Start(w) \/ Collect(w) \/ Compare(w) \/ Heartbeat(w) \/ Lookup(w)
      <4>1. table' = table
        BY <3>1 DEF Start, Collect, Compare, Heartbeat, Lookup, table
      <4> QED BY <3>1, <4>1, SameTable, BeforeSending DEF Frame
    <3>2. CASE Send(w) \/ BatchDone(w) \/ Answers(w) \/ AppliedYetRefused(w)
      <4>1. table' = table
        BY <3>2 DEF Send, BatchDone, Answers, Answer, AppliedYetRefused, table
      <4> QED BY <3>2, <4>1, SameTable, WhileSending DEF Frame
    <3> QED BY <2>1, <3>1, <3>2, ClaimKeeps, InsertKeeps, AnsweredKeeps DEF Works
  <2>2. ASSUME DataChanges \/ \E snapshot \in Snapshots : EndsUnheard(snapshot)
        PROVE  Frame'
    BY <2>2, SameTable DEF DataChanges, EndsUnheard, Frame, workers, table, TypeInv, WorkersTyped, AtHand,
       ItemsDrawn
  <2>3. Frame'
    BY <1>2, <2>1, <2>2, DeathKeeps, RestoreKeeps, UserKeeps, BackoffKeeps, TickKeeps
       DEF Next, Step
  <2> QED BY <2>0, <2>3 DEF Frame, TypeInv
<1> QED BY <1>1, <1>2

\* Every variable keeps its type, and no batch is longer than BatchSize.
THEOREM TypeCorrect == Spec => []TypeOK
<1>1. TypeInv => TypeOK
  BY DEF TypeInv, TypeOK, TableTyped, WorkersTyped, RestTyped
<1> QED BY <1>1, InitTyped, TypeInvKept, PTL DEF Spec

----------------------------------------------------------------------------
(* Nothing is lost *)

\* A work that has an answer is in its call, the packet of an accepted call is
\* settled, and what is noted has been accepted.
AnsweredTruly ==
    \A w \in Workers :
        /\ reply[w] # "none" => step[w] \in {"call", "note"}
        /\ reply[w] = "ok" => Current(w).id \in settled
        /\ step[w] = "note" => reply[w] = "ok"

\* Nothing that is settled is taken back.
LEMMA SettledGrows ==
    ASSUME [Next]_vars
    PROVE  settled \subseteq settled'
BY DEF Next, Step, Works, vars, state, server, Start, Claim, Collect, Compare, Heartbeat,
   Lookup, Insert, Send, BatchDone, Answers, Answer, AppliedYetRefused, EndsUnheard,
   Accepted, Note, Unauthorized, TransientFailure, PermanentFailure, CallThrows,
   ProcessDies, GivesUp, DataChanges, RetryDeadLetters, ClearQueue, ClearDeadLetters,
   BackoffElapses, Tick

LEMMA AnswersStayTrue ==
    ASSUME TypeInv, AnsweredTruly, [Next]_vars
    PROVE  AnsweredTruly'
<1>0. settled \subseteq settled'
  BY SettledGrows
<1>1. ASSUME NEW w \in Workers, reply' = reply, batch' = batch,
             \E next : /\ step' = [step EXCEPT ![w] = next]
                       /\ step[w] \in {"call", "note"} => next \in {"call", "note"}
                       /\ next = "note" => reply[w] = "ok"
      PROVE  AnsweredTruly'
  BY <1>0, <1>1 DEF AnsweredTruly, Current, TypeInv, WorkersTyped
<1>2. ASSUME UNCHANGED <<step, batch, reply>>
      PROVE  AnsweredTruly'
  BY <1>0, <1>2 DEF AnsweredTruly, Current
<1>3. ASSUME NEW w \in Workers, EndRun(w) \/ NextItem(w)
      PROVE  AnsweredTruly'
  <2>1. /\ reply'[w] = "none" /\ step'[w] # "note"
        /\ \A v \in Workers \ {w} :
               step'[v] = step[v] /\ batch'[v] = batch[v] /\ reply'[v] = reply[v]
    BY <1>3 DEF EndRun, NextItem, Goto, TypeInv, WorkersTyped
  <2> QED BY <1>0, <2>1 DEF AnsweredTruly, Current
<1>4. ASSUME NEW w \in Workers, Start(w) \/ Collect(w) \/ Compare(w) \/ Heartbeat(w)
                 \/ Lookup(w) \/ Insert(w) \/ Send(w) \/ BatchDone(w) \/ Accepted(w)
      PROVE  AnsweredTruly'
  <2>1. /\ reply' = reply /\ batch' = batch
        /\ step[w] \in {"call", "note"} => Accepted(w)
    BY <1>4 DEF Start, Collect, Compare, Heartbeat, Lookup, Insert, Send, BatchDone, Accepted
  <2>2. \E next : /\ step' = [step EXCEPT ![w] = next]
                  /\ Accepted(w) => next = "note"
                  /\ next = "note" => reply[w] = "ok"
    BY <1>4 DEF Start, Collect, Compare, Heartbeat, Lookup, Insert, Send, BatchDone,
       Accepted, Goto, LeaveSnapshot
  <2> QED BY <1>1, <2>1, <2>2
<1>5. ASSUME NEW w \in Workers, Claim(w)
      PROVE  AnsweredTruly'
  <2>1. reply[w] = "none" /\ reply' = reply /\ step'[w] # "note"
    BY <1>5 DEF Claim, Goto, AnsweredTruly, TypeInv, WorkersTyped
  <2>2. \A v \in Workers \ {w} : step'[v] = step[v] /\ batch'[v] = batch[v]
    BY <1>5 DEF Claim, Goto, TypeInv, WorkersTyped
  <2> QED BY <1>0, <2>1, <2>2 DEF AnsweredTruly, Current
<1>6. ASSUME NEW w \in Workers, Answers(w) \/ AppliedYetRefused(w)
      PROVE  AnsweredTruly'
  <2> PICK answer \in Replies :
               /\ step[w] = "call" /\ step' = step /\ batch' = batch
               /\ reply' = [reply EXCEPT ![w] = answer]
               /\ answer = "ok" => Current(w).id \in settled'
    BY <1>6 DEF Answers, Answer, AppliedYetRefused, Waiting, Replies
  <2>1. /\ step[w] = "call" /\ step' = step /\ batch' = batch
        /\ reply' = [reply EXCEPT ![w] = answer]
        /\ answer = "ok" => Current(w).id \in settled'
    OBVIOUS
  <2> QED BY <1>0, <2>1 DEF AnsweredTruly, Current, TypeInv, WorkersTyped
<1>7. ASSUME ProcessDies
      PROVE  AnsweredTruly'
  BY <1>7 DEF ProcessDies, AnsweredTruly
<1>8. ASSUME DataChanges \/ RetryDeadLetters \/ ClearQueue \/ ClearDeadLetters \/ Tick
                 \/ (\E id \in Ids : BackoffElapses(id)) \/ UNCHANGED vars
                 \/ \E snapshot \in Snapshots : EndsUnheard(snapshot)
      PROVE  AnsweredTruly'
  BY <1>2, <1>8 DEF DataChanges, EndsUnheard, RetryDeadLetters, ClearQueue, ClearDeadLetters, Tick,
     BackoffElapses, workers, vars, state
<1>9. ASSUME NEW w \in Workers, Note(w) \/ Unauthorized(w) \/ TransientFailure(w)
                 \/ PermanentFailure(w) \/ CallThrows(w)
      PROVE  AnsweredTruly'
  BY <1>3, <1>9 DEF Note, Unauthorized, TransientFailure, PermanentFailure, CallThrows
<1> QED BY <1>4, <1>5, <1>6, <1>7, <1>8, <1>9 DEF Next, Step, Works

\* Where a packet is accounted for.
Accounted(id) ==
    \/ id \in Present \cup settled
    \/ \E letter \in dead : letter.id = id

\* A step that draws no id and loses track of none.
LEMMA StillAccounted ==
    ASSUME TypeInv, NothingLost, nextId' = nextId,
           settled \subseteq settled',
           \A id \in Present : Accounted(id)',
           \A letter \in dead : Accounted(letter.id)'
    PROVE  NothingLost'
<1>1. ASSUME NEW id \in 1 .. nextId' - 1
      PROVE  Accounted(id)'
  <2>1. Accounted(id)
    BY <1>1 DEF NothingLost, Accounted
  <2> QED BY <2>1 DEF Accounted
<1> QED BY <1>1 DEF NothingLost, Accounted

LEMMA NothingLostKept ==
    ASSUME TypeInv, AnsweredTruly, NothingLost, [Next]_vars
    PROVE  NothingLost'
<1>0. settled \subseteq settled'
  BY SettledGrows
<1>1. ASSUME nextId' = nextId, dead' = dead, \A id \in Present : Accounted(id)'
      PROVE  NothingLost'
  <2>1. \A letter \in dead : Accounted(letter.id)'
    BY <1>1 DEF Accounted
  <2> QED BY <1>0, <1>1, <2>1, StillAccounted
<1>2. ASSUME queue' = queue, nextId' = nextId, dead' = dead
      PROVE  NothingLost'
  BY <1>1, <1>2 DEF Accounted, Present
<1>3. ASSUME nextId' = nextId, dead' = dead, TypeInv',
             \A id \in Ids : queue[id] # NoRow => queue'[id] # NoRow
      PROVE  NothingLost'
  BY <1>1, <1>3 DEF Accounted, Present
<1>4. ASSUME NEW w \in Workers, NEW limit \in 1 .. MaxAttempts, step[w] = "call",
             MarkFailure(Current(w).id, limit), nextId' = nextId
      PROVE  NothingLost'
  <2> PICK failed \in Ids : failed = Current(w).id
    BY <1>4, CurrentIsAtHand
  <2>1. MarkFailure(failed, limit)
    BY <1>4
  <2>2. dead \subseteq dead' /\ \A id \in Ids \ {failed} : queue'[id] = queue[id]
    BY <2>1 DEF MarkFailure, TypeInv, TableTyped
  <2>3. \A id \in Present \ {failed} : Accounted(id)'
    BY <2>2 DEF Present, Accounted
  <2>4. failed \in Present => Accounted(failed)'
    <3>1. CASE DeadLetters(failed, limit)
      <4>1. [id |-> failed, hash |-> queue[failed].hash] \in dead'
        BY <2>1, <3>1 DEF MarkFailure
      <4> QED BY <4>1 DEF Accounted
    <3>2. CASE ~DeadLetters(failed, limit) /\ failed \in Present
      <4>1. queue[failed] \in Rows /\ queue[failed].attempts + 1 < MaxAttempts
        <5>1. queue[failed] \in Rows
          BY <3>2 DEF Present, TypeInv, TableTyped
        <5>2. ~(queue[failed].attempts + 1 >= limit)
          BY <3>2 DEF DeadLetters, Present
        <5>3. queue[failed].attempts \in Int
          BY <5>1, QueueAssumption DEF Rows
        <5> QED BY <5>1, <5>2, <5>3, QueueAssumption
      <4>2. queue'[failed] = Retried(queue[failed])
        BY <2>1, <3>2 DEF MarkFailure, Present, TypeInv, TableTyped
      <4>3. queue'[failed] # NoRow
        BY <4>1, <4>2, RetryableRow, NoRowAssumption
      <4> QED BY <4>3 DEF Present, Accounted
    <3> QED BY <3>1, <3>2
  <2>5. \A id \in Present : Accounted(id)'
    BY <2>3, <2>4
  <2>6. \A letter \in dead : Accounted(letter.id)'
    BY <2>2 DEF Accounted
  <2> QED BY <1>0, <1>4, <2>5, <2>6, StillAccounted
<1>5. ASSUME NEW w \in Workers, Insert(w)
      PROVE  NothingLost'
  <2>1. dead' = dead /\ settled' = settled
    BY <1>5 DEF Insert, server
  <2>2. CASE UNCHANGED <<queue, nextId>>
    BY <1>2, <2>1, <2>2
  <2>3. CASE InsertRow(w)
    <3>1. NewRow(seen[w], TRUE) # NoRow
      BY <1>5, NewRowTyped, NoRowAssumption DEF TypeInv, AtHand, Insert
    <3>2. /\ nextId \in Ids /\ nextId' = nextId + 1
          /\ queue' = [queue EXCEPT ![nextId] = NewRow(seen[w], TRUE)]
      BY <2>3 DEF InsertRow
    <3>3. Present' = Present \cup {nextId}
      BY <3>1, <3>2 DEF Present, TypeInv, TableTyped
    <3>4. \A id \in 1 .. nextId' - 1 : id \in 1 .. nextId - 1 \/ id = nextId
      BY <3>2 DEF Ids
    <3> QED BY <2>1, <3>3, <3>4 DEF NothingLost
  <2> QED BY <1>5, <2>2, <2>3 DEF Insert
<1>6. ASSUME RetryDeadLetters, TypeInv'
      PROVE  NothingLost'
  <2> DEFINE n == Cardinality(dead)
             drawn == nextId .. nextId + n - 1
  <2>1. /\ nextId' = nextId + n /\ n \in Nat /\ nextId + n <= MaxPackets + 1
        /\ \A id \in Ids \ drawn : queue'[id] = queue[id]
        /\ settled' = settled \cup {letter.id : letter \in dead}
    BY <1>6, RestoredRows DEF RetryDeadLetters
  <2>2. \A id \in drawn : id \in Ids /\ queue'[id] # NoRow
    BY <1>6, RestoredRows
  <2>3. ASSUME NEW id \in 1 .. nextId' - 1
        PROVE  Accounted(id)'
    <3>1. CASE id \in drawn
      BY <2>2, <3>1 DEF Present, Accounted
    <3>2. CASE id \notin drawn
      <4>1. id \in 1 .. nextId - 1 /\ nextId \in Nat
        BY <2>1, <2>3, <3>2 DEF TypeInv, TableTyped
      <4>2. Accounted(id)
        BY <4>1 DEF NothingLost, Accounted
      <4> QED BY <2>1, <3>2, <4>2 DEF Present, Accounted
    <3> QED BY <3>1, <3>2
  <2> QED BY <2>3 DEF NothingLost, Accounted
<1>7. ASSUME ClearQueue \/ ClearDeadLetters
      PROVE  NothingLost'
  <2>1. CASE ClearQueue
    <3>1. \A id \in Present : Accounted(id)'
      BY <2>1 DEF ClearQueue, Accounted
    <3> QED BY <1>1, <2>1, <3>1 DEF ClearQueue
  <2>2. CASE ClearDeadLetters
    <3>1. \A id \in Present : Accounted(id)'
      BY <2>2 DEF ClearDeadLetters, Accounted, Present
    <3>2. \A letter \in dead : Accounted(letter.id)'
      BY <2>2 DEF ClearDeadLetters, Accounted
    <3> QED BY <1>0, <2>2, <3>1, <3>2, StillAccounted DEF ClearDeadLetters
  <2> QED BY <1>7, <2>1, <2>2
<1>8. ASSUME NEW w \in Workers, Accepted(w)
      PROVE  NothingLost'
  <2>1. /\ queue' = [queue EXCEPT ![Current(w).id] = NoRow]
        /\ nextId' = nextId /\ dead' = dead /\ settled' = settled
    BY <1>8 DEF Accepted, Complete, server
  <2>2. Current(w).id \in settled
    BY <1>8 DEF Accepted, AnsweredTruly
  <2>3. \A id \in Present : id = Current(w).id \/ queue'[id] = queue[id]
    BY <2>1 DEF Present, TypeInv, TableTyped
  <2>4. \A id \in Present : Accounted(id)'
    BY <2>1, <2>2, <2>3 DEF Present, Accounted
  <2> QED BY <1>1, <2>1, <2>4
<1>9. ASSUME NEW w \in Workers, Unauthorized(w) \/ CallThrows(w)
      PROVE  NothingLost'
  <2> DEFINE released == Current(w).id
  <2>1. nextId' = nextId /\ dead' = dead /\ ReleaseRow(released) /\ step[w] = "call"
    BY <1>9 DEF Unauthorized, CallThrows
  <2>2. released \in Ids
    BY <2>1, CurrentIsAtHand
  <2>3. \A id \in Ids : queue[id] # NoRow => queue[id] \in Rows /\ Queued(queue[id]) # NoRow
    BY QueuedRow, NoRowAssumption DEF TypeInv, TableTyped
  <2>4. \A id \in Ids : queue[id] # NoRow => queue'[id] # NoRow
    BY <2>1, <2>2, <2>3 DEF ReleaseRow, TypeInv, TableTyped
  <2>5. \A id \in Present : Accounted(id)'
    BY <2>4 DEF Present, Accounted
  <2> QED BY <1>1, <2>1, <2>5
<1>10. ASSUME NEW w \in Workers, TransientFailure(w) \/ PermanentFailure(w)
       PROVE  NothingLost'
  <2>1. MaxAttempts \in 1 .. MaxAttempts /\ 1 \in 1 .. MaxAttempts
    BY QueueAssumption
  <2> QED BY <1>4, <1>10, <2>1 DEF TransientFailure, PermanentFailure
<1>11. ASSUME NEW w \in Workers, Claim(w)
       PROVE  NothingLost'
  <2>1. \A id \in Present : Accounted(id)'
    BY <1>11, ClaimedRows DEF Present, Accounted
  <2> QED BY <1>1, <1>11, <2>1 DEF Claim
<1>12. ASSUME NEW w \in Workers, Start(w) \/ Collect(w) \/ Compare(w) \/ Heartbeat(w)
                  \/ Lookup(w) \/ Send(w) \/ BatchDone(w) \/ Answers(w)
                  \/ AppliedYetRefused(w) \/ Note(w)
       PROVE  NothingLost'
  BY <1>2, <1>12 DEF Start, Collect, Compare, Heartbeat, Lookup, Send, BatchDone, Answers,
     Answer, AppliedYetRefused, Note, table
<1>13. ASSUME DataChanges \/ ProcessDies \/ UNCHANGED vars
                  \/ \E snapshot \in Snapshots : EndsUnheard(snapshot)
       PROVE  NothingLost'
  BY <1>2, <1>13 DEF DataChanges, ProcessDies, EndsUnheard, table, vars, state
<1>14. ASSUME NEW id \in Ids, BackoffElapses(id)
       PROVE  NothingLost'
  <2>1. \A x \in Present : Accounted(x)'
    <3>1. \A x \in Ids : queue[x] = NoRow <=> queue'[x] = NoRow
      BY <1>14, BackoffRows
    <3> QED BY <3>1 DEF Present, Accounted
  <2> QED BY <1>1, <1>14, <2>1 DEF BackoffElapses
<1>15. ASSUME Tick
       PROVE  NothingLost'
  <2>1. \A id \in Present : Accounted(id)'
    BY <1>15, TickRows DEF Present, Accounted
  <2> QED BY <1>1, <1>15, <2>1 DEF Tick
<1>16. TypeInv'
  BY TypeInvKept
<1> QED BY <1>5, <1>6, <1>7, <1>8, <1>9, <1>10, <1>11, <1>12, <1>13, <1>14, <1>15, <1>16
    DEF Next, Step, Works

\* NothingLost: a packet leaves the queue only as accepted, as a dead letter or
\* by the user's hand, whatever dies or is dropped on the way.
THEOREM NothingIsLost == Spec => []NothingLost
<1> DEFINE Inv == TypeInv /\ AnsweredTruly /\ NothingLost
<1>1. Init => Inv
  <2>1. Init => AnsweredTruly
    BY DEF Init, AnsweredTruly
  <2>2. Init => NothingLost
    BY DEF Init, NothingLost
  <2> QED BY <2>1, <2>2, InitTyped
<1>2. Inv /\ [Next]_vars => Inv'
  BY TypeInvKept, AnswersStayTrue, NothingLostKept
<1>3. Inv => NothingLost
  OBVIOUS
<1> QED BY <1>1, <1>2, <1>3, PTL DEF Spec

----------------------------------------------------------------------------
(* Two works send one packet only past its lease *)

\* A row at hand twice is in the hands of two works and has outlived its lease.
Disjoint ==
    \A v, w \in Workers : \A j \in 1 .. Len(batch[v]), k \in 1 .. Len(batch[w]) :
        batch[v][j].id = batch[w][k].id
            => (v = w /\ j = k) \/ (v # w /\ batch[v][j].id \in outlived)

\* A row at hand is gone, or leased, or has outlived its lease.
HeldOnLease ==
    \A w \in Workers : \A k \in 1 .. Len(batch[w]) :
        \/ batch[w][k].id \in outlived \/ queue[batch[w][k].id] = NoRow
        \/ queue[batch[w][k].id].state = "processing"

LeaseInv == TypeInv /\ Disjoint /\ HeldOnLease /\ Outlived \subseteq outlived

\* What a batch becomes: itself, its tail or nothing.
Shrinks(v) ==
    \E d \in {0, 1} : \A k \in 1 .. Len(batch'[v]) :
        k + d \in 1 .. Len(batch[v]) /\ batch'[v][k] = batch[v][k + d]

LEMMA StayDisjoint ==
    ASSUME TypeInv, TypeInv', Disjoint, outlived \subseteq outlived',
           \A v \in Workers : Shrinks(v)
    PROVE  Disjoint'
<1> SUFFICES ASSUME NEW v \in Workers, NEW w \in Workers,
                    NEW j \in 1 .. Len(batch'[v]), NEW k \in 1 .. Len(batch'[w]),
                    batch'[v][j].id = batch'[w][k].id
             PROVE  (v = w /\ j = k) \/ (v # w /\ batch'[v][j].id \in outlived')
  BY DEF Disjoint
<1>1. PICK d \in {0, 1} : \A i \in 1 .. Len(batch'[v]) :
          i + d \in 1 .. Len(batch[v]) /\ batch'[v][i] = batch[v][i + d]
  BY DEF Shrinks
<1>2. CASE v = w
  <2>1. j + d \in 1 .. Len(batch[v]) /\ k + d \in 1 .. Len(batch[v])
    BY <1>1, <1>2
  <2>2. batch[v][j + d].id = batch[v][k + d].id
    BY <1>1, <1>2
  <2>3. j + d = k + d
    BY <2>1, <2>2 DEF Disjoint
  <2>4. Len(batch'[v]) \in Nat
    BY DEF TypeInv, WorkersTyped
  <2> QED BY <1>2, <2>3, <2>4
<1>3. CASE v # w
  <2>1. PICK e \in {0, 1} : \A i \in 1 .. Len(batch'[w]) :
            i + e \in 1 .. Len(batch[w]) /\ batch'[w][i] = batch[w][i + e]
    BY DEF Shrinks
  <2>2. j + d \in 1 .. Len(batch[v]) /\ k + e \in 1 .. Len(batch[w])
    BY <1>1, <2>1
  <2>3. batch[v][j + d].id = batch[w][k + e].id
    BY <1>1, <2>1
  <2>4. batch[v][j + d].id \in outlived
    BY <1>3, <2>2, <2>3 DEF Disjoint
  <2> QED BY <1>1, <1>3, <2>4
<1> QED BY <1>2, <1>3

\* The id of a packet at hand.
LEMMA HandTyped ==
    ASSUME TypeInv, NEW v \in Workers, NEW k \in 1 .. Len(batch[v])
    PROVE  batch[v][k].id \in Ids /\ batch[v][k].id < nextId
<1>1. batch[v] \in Seq(Items)
  BY DEF TypeInv, WorkersTyped
<1>2. batch[v][k] \in Items
  BY <1>1
<1> QED BY <1>2 DEF TypeInv, ItemsDrawn, Items

\* Rows at hand stay leased when their states are kept, or they are gone, or
\* their leases were outlived before.
LEMMA StayHeld ==
    ASSUME HeldOnLease, outlived \subseteq outlived', \A v \in Workers : Shrinks(v),
           \A v \in Workers : \A k \in 1 .. Len(batch'[v]) :
               \/ batch'[v][k].id \in outlived
               \/ queue'[batch'[v][k].id] = NoRow
               \/ /\ queue[batch'[v][k].id] # NoRow
                  /\ queue'[batch'[v][k].id].state = queue[batch'[v][k].id].state
    PROVE  HeldOnLease'
<1> SUFFICES ASSUME NEW v \in Workers, NEW k \in 1 .. Len(batch'[v])
             PROVE  \/ batch'[v][k].id \in outlived'
                    \/ queue'[batch'[v][k].id] = NoRow
                    \/ queue'[batch'[v][k].id].state = "processing"
  BY DEF HeldOnLease
<1>1. PICK d \in {0, 1} : \A i \in 1 .. Len(batch'[v]) :
          i + d \in 1 .. Len(batch[v]) /\ batch'[v][i] = batch[v][i + d]
  BY DEF Shrinks
<1>2. \/ batch'[v][k].id \in outlived \/ queue[batch'[v][k].id] = NoRow
      \/ queue[batch'[v][k].id].state = "processing"
  BY <1>1 DEF HeldOnLease
<1> QED BY <1>2

\* Steps that keep every batch and the states of the rows at hand.
LEMMA SameHandsSafe ==
    ASSUME LeaseInv, TypeInv', outlived \subseteq outlived', batch' = batch,
           \A id \in Ids : \/ id >= nextId
                           \/ queue'[id] = NoRow
                           \/ queue[id] # NoRow /\ queue'[id].state = queue[id].state
    PROVE  Disjoint' /\ HeldOnLease'
<1>1. \A v \in Workers : Shrinks(v)
  <2>1. \A v \in Workers : Len(batch[v]) \in Nat
    BY DEF LeaseInv, TypeInv, WorkersTyped
  <2>2. ASSUME NEW v \in Workers, NEW k \in 1 .. Len(batch'[v])
        PROVE  k + 0 \in 1 .. Len(batch[v]) /\ batch'[v][k] = batch[v][k + 0]
    BY <2>1
  <2> QED BY <2>2 DEF Shrinks
<1>2. Disjoint'
  BY <1>1, StayDisjoint DEF LeaseInv
<1>3. ASSUME NEW v \in Workers, NEW k \in 1 .. Len(batch[v])
      PROVE  batch[v][k].id \in Ids /\ ~(batch[v][k].id >= nextId)
  <2>1. batch[v][k].id \in Ids /\ batch[v][k].id < nextId
    BY HandTyped DEF LeaseInv
  <2> QED BY <2>1 DEF Ids, LeaseInv, TypeInv, TableTyped
<1>4. HeldOnLease'
  BY <1>1, <1>3, StayHeld DEF LeaseInv
<1> QED BY <1>2, <1>4

LEMMA QuietSafe ==
    ASSUME LeaseInv, TypeInv', outlived \subseteq outlived', NEW w \in Workers,
           Start(w) \/ Collect(w) \/ Compare(w) \/ Heartbeat(w) \/ Lookup(w) \/ Insert(w)
               \/ Send(w) \/ BatchDone(w) \/ Answers(w) \/ AppliedYetRefused(w)
               \/ Accepted(w)
    PROVE  Disjoint' /\ HeldOnLease'
<1>0. TypeInv
  BY DEF LeaseInv
<1>1. batch' = batch
  BY DEF Start, Collect, Compare, Heartbeat, Lookup, Insert, Send, BatchDone, Answers,
     Answer, AppliedYetRefused, Accepted
<1>2. \A id \in Ids : id >= nextId \/ queue'[id] = queue[id] \/ queue'[id] = NoRow
  <2>1. CASE Insert(w)
    <3>1. \A id \in Ids : id >= nextId \/ id # nextId
      BY DEF Ids
    <3> QED BY <1>0, <2>1, <3>1 DEF Insert, InsertRow, TypeInv, TableTyped
  <2>2. CASE Accepted(w)
    BY <1>0, <2>2 DEF Accepted, Complete, TypeInv, TableTyped
  <2>3. CASE ~Insert(w) /\ ~Accepted(w)
    BY <2>3 DEF Start, Collect, Compare, Heartbeat, Lookup, Send, BatchDone, Answers,
       Answer, AppliedYetRefused, table
  <2> QED BY <2>1, <2>2, <2>3
<1> QED BY <1>1, <1>2, SameHandsSafe

\* A claim takes no row that another work has at hand on a lease that runs.
LEMMA ClaimSafe ==
    ASSUME LeaseInv, TypeInv', outlived \subseteq outlived', NEW w \in Workers, Claim(w)
    PROVE  Disjoint' /\ HeldOnLease'
<1>0. TypeInv
  BY DEF LeaseInv
<1>1. ASSUME NEW v \in Workers, NEW k \in 1 .. Len(batch[v]),
             batch[v][k].id \notin outlived
      PROVE  /\ batch[v][k].id \notin Taken
             /\ queue'[batch[v][k].id] = queue[batch[v][k].id]
  <2>1. PICK id \in Ids : id = batch[v][k].id
    BY <1>0, HandTyped
  <2>2. queue[id] = NoRow \/ queue[id].state = "processing"
    BY <1>1, <2>1 DEF LeaseInv, HeldOnLease
  <2>3. InHand(id)
    BY <2>1 DEF InHand
  <2>4. queue[id] = NoRow \/ ~Expired(queue[id])
    BY <1>1, <2>1, <2>3 DEF LeaseInv, Outlived, Present
  <2>5. Reaped[id] = queue[id]
    BY <2>4 DEF Reaped, Present
  <2>6. id \notin Taken
    BY <2>2, <2>5 DEF Taken, Ready, Present
  <2>7. queue'[id] = Reaped[id]
    BY <2>6 DEF Claim
  <2> QED BY <2>1, <2>5, <2>6, <2>7
<1>2. /\ \A k \in 1 .. Len(batch'[w]) : batch'[w][k].id \in Taken
      /\ \A j, k \in 1 .. Len(batch'[w]) : batch'[w][j].id = batch'[w][k].id => j = k
      /\ \A v \in Workers \ {w} : batch'[v] = batch[v]
  BY <1>0, ClaimedBatch
<1>3. Disjoint'
  <2> SUFFICES ASSUME NEW v \in Workers, NEW u \in Workers,
                      NEW j \in 1 .. Len(batch'[v]), NEW k \in 1 .. Len(batch'[u]),
                      batch'[v][j].id = batch'[u][k].id
               PROVE  (v = u /\ j = k) \/ (v # u /\ batch'[v][j].id \in outlived')
    BY DEF Disjoint
  <2>1. CASE v = w /\ u = w
    BY <1>2, <2>1
  <2>2. CASE v # w /\ u # w
    BY <1>2, <2>2 DEF LeaseInv, Disjoint
  <2>3. CASE v = w /\ u # w
    BY <1>1, <1>2, <2>3
  <2>4. CASE v # w /\ u = w
    BY <1>1, <1>2, <2>4
  <2> QED BY <2>1, <2>2, <2>3, <2>4
<1>4. ASSUME NEW v \in Workers, NEW k \in 1 .. Len(batch'[v])
      PROVE  \/ batch'[v][k].id \in outlived'
             \/ queue'[batch'[v][k].id] = NoRow
             \/ queue'[batch'[v][k].id].state = "processing"
  <2>1. CASE v # w
    <3>1. batch'[v] = batch[v]
      BY <1>2, <2>1
    <3>2. \/ batch[v][k].id \in outlived \/ queue[batch[v][k].id] = NoRow
          \/ queue[batch[v][k].id].state = "processing"
      BY <3>1 DEF LeaseInv, HeldOnLease
    <3> QED BY <1>1, <3>1, <3>2
  <2>2. CASE v = w
    <3>1. PICK id \in Taken : id = batch'[v][k].id
      BY <1>2, <2>2
    <3>2. id \in Ids /\ queue[id] # NoRow
      BY <3>1 DEF Taken, Ready, Present
    <3>3. queue'[id] = Leased(Reaped[id])
      BY <3>1, <3>2 DEF Claim
    <3>4. Reaped[id] \in Rows
      <4>1. queue[id] \in Rows
        BY <1>0, <3>2 DEF TypeInv, TableTyped
      <4>2. Queued(queue[id]) \in Rows
        BY <4>1, QueuedRow
      <4> QED BY <3>2, <4>1, <4>2 DEF Reaped
    <3>5. queue'[id].state = "processing"
      BY <3>3, <3>4, LeasedRow
    <3> QED BY <3>1, <3>5
  <2> QED BY <2>1, <2>2
<1> QED BY <1>3, <1>4 DEF HeldOnLease

\* The work deals with its packet and goes on or ends; it touches that row only,
\* which nobody else has at hand unless its lease was outlived.
LEMMA CurrentSafe ==
    ASSUME LeaseInv, TypeInv', outlived \subseteq outlived',
           NEW w \in Workers, step[w] \in {"call", "note"},
           EndRun(w) \/ NextItem(w),
           \A id \in Ids \ {Current(w).id} : queue'[id] = queue[id]
    PROVE  Disjoint' /\ HeldOnLease'
<1>0. TypeInv
  BY DEF LeaseInv
<1>1. /\ \A v \in Workers \ {w} : batch'[v] = batch[v]
      /\ batch'[w] = <<>> \/ batch'[w] = Tail(batch[w])
  BY <1>0 DEF EndRun, NextItem, Goto, TypeInv, WorkersTyped
<1>2. \A v \in Workers : Len(batch[v]) \in Nat /\ Len(batch'[v]) \in Nat
  <2>1. \A v \in Workers : batch[v] \in Seq(Items) /\ batch'[v] \in Seq(Items)
    BY <1>0 DEF TypeInv, WorkersTyped
  <2> QED BY <2>1
<1>3. ASSUME NEW k \in 1 .. Len(batch'[w])
      PROVE  k + 1 \in 1 .. Len(batch[w]) /\ batch'[w][k] = batch[w][k + 1]
  <2>1. CASE batch'[w] = <<>>
    BY <2>1
  <2>2. CASE batch'[w] = Tail(batch[w])
    <3>1. /\ Len(Tail(batch[w])) = Len(batch[w]) - 1
          /\ \A i \in 1 .. Len(Tail(batch[w])) : Tail(batch[w])[i] = batch[w][i + 1]
      BY <1>0, TailKept
    <3> QED BY <1>2, <2>2, <3>1
  <2> QED BY <1>1, <2>1, <2>2
<1>4. \A v \in Workers : Shrinks(v)
  <2>1. Shrinks(w)
    BY <1>3 DEF Shrinks
  <2>2. ASSUME NEW v \in Workers \ {w}
        PROVE  Shrinks(v)
    <3>1. ASSUME NEW k \in 1 .. Len(batch'[v])
          PROVE  k + 0 \in 1 .. Len(batch[v]) /\ batch'[v][k] = batch[v][k + 0]
      BY <1>1, <1>2
    <3> QED BY <3>1 DEF Shrinks
  <2> QED BY <2>1, <2>2
<1>5. Disjoint'
  BY <1>0, <1>4, StayDisjoint DEF LeaseInv
<1>6. ASSUME NEW v \in Workers, NEW k \in 1 .. Len(batch'[v])
      PROVE  \/ batch'[v][k].id \in outlived
             \/ queue'[batch'[v][k].id] = queue[batch'[v][k].id]
  <2>1. Current(w) = batch[w][1] /\ 1 \in 1 .. Len(batch[w])
    BY <1>0, <1>2, CurrentIsAtHand
  <2>2. CASE v = w
    <3>1. k + 1 \in 1 .. Len(batch[w]) /\ batch'[w][k] = batch[w][k + 1] /\ k + 1 # 1
      BY <1>2, <1>3, <2>2
    <3>2. batch[w][k + 1].id # batch[w][1].id
      BY <2>1, <3>1 DEF LeaseInv, Disjoint
    <3>3. batch[w][k + 1].id \in Ids
      BY <1>0, <3>1, HandTyped
    <3> QED BY <2>1, <2>2, <3>1, <3>2, <3>3
  <2>3. CASE v # w
    <3>1. batch'[v] = batch[v] /\ k \in 1 .. Len(batch[v])
      BY <1>1, <2>3
    <3>2. batch[v][k].id = batch[w][1].id => batch[v][k].id \in outlived
      BY <2>1, <2>3, <3>1 DEF LeaseInv, Disjoint
    <3>3. batch[v][k].id \in Ids
      BY <1>0, <3>1, HandTyped
    <3> QED BY <2>1, <3>1, <3>2, <3>3
  <2> QED BY <2>2, <2>3
<1>7. HeldOnLease'
  <2>1. \A v \in Workers : \A k \in 1 .. Len(batch'[v]) :
            \/ batch'[v][k].id \in outlived
            \/ queue'[batch'[v][k].id] = NoRow
            \/ /\ queue[batch'[v][k].id] # NoRow
               /\ queue'[batch'[v][k].id].state = queue[batch'[v][k].id].state
    BY <1>6
  <2> QED BY <1>4, <2>1, StayHeld DEF LeaseInv
<1> QED BY <1>5, <1>7

LEMMA AnsweredSafe ==
    ASSUME LeaseInv, TypeInv', outlived \subseteq outlived', NEW w \in Workers,
           Note(w) \/ Unauthorized(w) \/ TransientFailure(w) \/ PermanentFailure(w)
               \/ CallThrows(w)
    PROVE  Disjoint' /\ HeldOnLease'
<1>0. /\ TypeInv /\ step[w] \in {"call", "note"}
      /\ EndRun(w) \/ NextItem(w)
  BY DEF LeaseInv, Note, Unauthorized, TransientFailure, PermanentFailure, CallThrows
<1>1. \A id \in Ids \ {Current(w).id} : queue'[id] = queue[id]
  BY <1>0 DEF Note, Unauthorized, TransientFailure, PermanentFailure, CallThrows, table,
     ReleaseRow, MarkFailure, TypeInv, TableTyped
<1> QED BY <1>0, <1>1, CurrentSafe

LEMMA LeaseInvKept ==
    ASSUME LeaseInv, TypeInv', [Next]_vars
    PROVE  Disjoint' /\ HeldOnLease' /\ (Outlived \subseteq outlived)'
<1>0. TypeInv
  BY DEF LeaseInv
<1>1. outlived \subseteq outlived' /\ Outlived' \subseteq outlived'
  <2>1. CASE Next
    BY <2>1 DEF Next, Remember
  <2>2. CASE UNCHANGED vars
    BY <2>2 DEF vars, state, table, workers, history, LeaseInv, Outlived, InHand, Present,
       Expired
  <2> QED BY <2>1, <2>2
<1> SUFFICES Disjoint' /\ HeldOnLease'
  BY <1>1
<1>2. ASSUME batch' = batch, queue' = queue
      PROVE  Disjoint' /\ HeldOnLease'
  BY <1>1, <1>2, SameHandsSafe
<1>3. CASE UNCHANGED vars \/ DataChanges \/ ClearDeadLetters
               \/ \E snapshot \in Snapshots : EndsUnheard(snapshot)
  <2>1. batch' = batch /\ queue' = queue
    BY <1>3 DEF vars, state, table, workers, DataChanges, ClearDeadLetters, EndsUnheard
  <2> QED BY <1>2, <2>1
<1>4. CASE ProcessDies
  <2>1. \A w \in Workers : Len(batch'[w]) = 0
    BY <1>4 DEF ProcessDies
  <2> QED BY <2>1 DEF Disjoint, HeldOnLease
<1>5. CASE ClearQueue
  BY <1>1, <1>5, SameHandsSafe DEF ClearQueue, workers
<1>6. CASE RetryDeadLetters
  <2>1. \A id \in Ids : id >= nextId \/ queue'[id] = queue[id]
    <3>1. \A id \in Ids : id < nextId =>
              id \notin nextId .. nextId + Cardinality(dead) - 1
      BY <1>0 DEF TypeInv, TableTyped, Ids
    <3>2. \A id \in Ids : id < nextId \/ id >= nextId
      BY <1>0 DEF TypeInv, TableTyped, Ids
    <3> QED BY <1>0, <1>6, <3>1, <3>2, RestoredRows
  <2>2. batch' = batch
    BY <1>6 DEF RetryDeadLetters, workers
  <2> QED BY <1>1, <2>1, <2>2, SameHandsSafe
<1>7. ASSUME NEW id \in Ids, BackoffElapses(id)
      PROVE  Disjoint' /\ HeldOnLease'
  <2>1. batch' = batch
    BY <1>7 DEF BackoffElapses, workers
  <2>2. /\ \A x \in Ids : queue[x] = NoRow <=> queue'[x] = NoRow
        /\ \A x \in Ids : queue[x] # NoRow => queue'[x].state = queue[x].state
    BY <1>0, <1>7, BackoffRows
  <2> QED BY <1>1, <2>1, <2>2, SameHandsSafe
<1>8. CASE Tick
  <2>1. /\ \A x \in Ids : queue[x] = NoRow <=> queue'[x] = NoRow
        /\ \A x \in Ids : queue[x] # NoRow => queue'[x].state = queue[x].state
    BY <1>0, <1>8, TickRows
  <2>2. batch' = batch
    BY <1>8 DEF Tick
  <2> QED BY <1>1, <2>1, <2>2, SameHandsSafe
<1> QED BY <1>1, <1>3, <1>4, <1>5, <1>6, <1>7, <1>8, QuietSafe, ClaimSafe, AnsweredSafe
       DEF Next, Step, Works

\* Two works have a call in flight for the same row only when its lease has run
\* out while a work still had it at hand, however long calls and leases are.
THEOREM OnlyPastLease == Spec => []TwiceOnlyPastLease
<1>1. Init => LeaseInv
  <2>1. Init => Disjoint /\ HeldOnLease /\ Outlived \subseteq outlived
    BY DEF Init, Disjoint, HeldOnLease, Outlived, Present
  <2> QED BY <2>1, InitTyped DEF LeaseInv
<1>2. LeaseInv /\ [Next]_vars => LeaseInv'
  <2> SUFFICES ASSUME LeaseInv, [Next]_vars
               PROVE  LeaseInv'
    OBVIOUS
  <2>1. TypeInv'
    BY TypeInvKept DEF LeaseInv
  <2>2. Disjoint' /\ HeldOnLease' /\ (Outlived \subseteq outlived)'
    BY <2>1, LeaseInvKept
  <2> QED BY <2>1, <2>2 DEF LeaseInv
<1>3. LeaseInv => TwiceOnlyPastLease
  <2> SUFFICES ASSUME LeaseInv, NEW v \in Workers, NEW w \in Workers, v # w,
                      step[v] = "call", step[w] = "call", Current(v).id = Current(w).id
               PROVE  Current(v).id \in outlived
    BY DEF TwiceOnlyPastLease
  <2>1. /\ Current(v) = batch[v][1] /\ Current(w) = batch[w][1]
        /\ Len(batch[v]) >= 1 /\ Len(batch[w]) >= 1
    BY CurrentIsAtHand DEF LeaseInv
  <2>2. 1 \in 1 .. Len(batch[v]) /\ 1 \in 1 .. Len(batch[w])
    BY <2>1 DEF LeaseInv, TypeInv, WorkersTyped
  <2> QED BY <2>1, <2>2 DEF LeaseInv, Disjoint
<1> QED BY <1>1, <1>2, <1>3, PTL DEF Spec

----------------------------------------------------------------------------
(* The hash of the heartbeat *)

\* What an unheard or crossing request can disturb, and what it cannot: a work
\* that knows its packet is accepted and is alone has what the server has, and
\* when nobody has such news the phone knows what the server has, unless unsure.
InStep ==
    /\ Several => crossed
    /\ Adrift => unsure
    /\ \A w \in Workers : reply[w] = "ok" /\ ~crossed => Current(w).hash = latest
    /\ ~unsure /\ (\A w \in Workers : reply[w] # "ok") => lastHash = latest

DeltaInv == TypeInv /\ AnsweredTruly /\ InStep

\* Only Note leaves "note" for the next packet.
LEMMA NotedIsNote ==
    ASSUME TypeInv, Next, Noted
    PROVE  \E w \in Workers : Note(w)
<1> PICK w \in Workers : step[w] = "note" /\ step'[w] = "send"
  BY DEF Noted
<1>1. ASSUME NEW v \in Workers, \/ Start(v) \/ Claim(v) \/ Collect(v) \/ Compare(v)
                 \/ Heartbeat(v) \/ Lookup(v) \/ Insert(v) \/ Send(v) \/ BatchDone(v)
                 \/ Accepted(v) \/ Unauthorized(v) \/ TransientFailure(v)
                 \/ PermanentFailure(v) \/ CallThrows(v)
      PROVE  FALSE
  <2>1. step[v] # "note"
    BY <1>1 DEF Start, Claim, Collect, Compare, Heartbeat, Lookup, Insert, Send, BatchDone,
       Accepted, Unauthorized, TransientFailure, PermanentFailure, CallThrows
  <2>2. \A u \in Workers \ {v} : step'[u] = step[u]
    BY <1>1 DEF Start, Claim, Collect, Compare, Heartbeat, Lookup, Insert, Send, BatchDone,
       Accepted, Unauthorized, TransientFailure, PermanentFailure, CallThrows, Goto,
       LeaveSnapshot, EndRun, NextItem, TypeInv, WorkersTyped
  <2> QED BY <2>1, <2>2
<1>2. step' # step
  OBVIOUS
<1>3. ~ProcessDies
  BY DEF ProcessDies
<1> QED BY <1>1, <1>2, <1>3 DEF Next, Step, Works, Answers, Answer, AppliedYetRefused,
        EndsUnheard, DataChanges, RetryDeadLetters, ClearQueue, ClearDeadLetters, Tick,
        BackoffElapses, workers

\* A step after which every work that knows its packet is accepted knew it before,
\* and the server and the phone have what they had.
LEMMA QuietInStep ==
    ASSUME InStep, ~crossed' => ~crossed, ~unsure' => ~unsure,
           lastHash' = lastHash, latest' = latest,
           \A w \in Workers : reply'[w] = "ok" <=> reply[w] = "ok",
           \A w \in Workers : reply[w] = "ok" => batch'[w] = batch[w]
    PROVE  /\ \A w \in Workers : reply'[w] = "ok" /\ ~crossed' => Current(w)'.hash = latest'
           /\ ~unsure' /\ (\A w \in Workers : reply'[w] # "ok") => lastHash' = latest'
<1>1. \A w \in Workers : reply[w] = "ok" => Current(w)' = Current(w)
  BY DEF Current
<1> QED BY <1>1 DEF InStep

\* The requests given up are the server's still only after a fault.
LEMMA AdriftAfterFault ==
    ASSUME TypeInv, Next
    PROVE  Adrift' => Adrift \/ faults' # faults
<1>0. adrift \in [Snapshots -> Nat] /\ faults \in Int
  BY DEF TypeInv, RestTyped
<1>1. CASE adrift' = adrift
  BY <1>1 DEF Adrift
<1>2. ASSUME NEW snapshot \in Snapshots, EndsUnheard(snapshot)
      PROVE  Adrift
  BY <1>2 DEF EndsUnheard, Adrift
<1>3. CASE faults' = faults + 1
  BY <1>0, <1>3
<1> QED BY <1>1, <1>2, <1>3 DEF Next, Step, Works, server, Start, Claim, Collect, Compare,
        Heartbeat, Lookup, Insert, Send, BatchDone, Answers, Answer, AppliedYetRefused,
        Accepted, Note, Unauthorized, TransientFailure, PermanentFailure, CallThrows,
        ProcessDies, Fault, DataChanges, RetryDeadLetters, ClearQueue, ClearDeadLetters,
        Tick, BackoffElapses

LEMMA InStepKept ==
    ASSUME DeltaInv, AnsweredTruly', TypeInv', Next
    PROVE  InStep'
<1>0. TypeInv /\ AnsweredTruly /\ InStep /\ faults \in Nat
  BY QueueAssumption DEF DeltaInv, TypeInv, RestTyped
<1>1. /\ crossed' = (~None' /\ (crossed \/ Several'))
      /\ unsure' = IF Noted THEN crossed ELSE unsure \/ faults' # faults
  BY DEF Next, Remember
<1>2. (Several => crossed)'
  <2>1. Several' => ~None'
    BY DEF Several, None
  <2> QED BY <1>1, <2>1
<1>3. (Adrift => unsure)'
  <2>1. CASE Noted
    <3>1. adrift' = adrift
      BY <1>0, <2>1, NotedIsNote DEF Note, server
    <3>2. Adrift' => crossed
      BY <1>0, <3>1 DEF InStep, Several, Adrift
    <3> QED BY <1>1, <2>1, <3>2
  <2>2. CASE ~Noted
    <3>1. Adrift' => Adrift \/ faults' # faults
      BY <1>0, AdriftAfterFault
    <3> QED BY <1>0, <1>1, <2>2, <3>1 DEF InStep
  <2> QED BY <2>1, <2>2
\* A work with good news is alone unless crossed.
<1>4. ASSUME NEW w \in Workers, reply'[w] = "ok", ~crossed'
      PROVE  /\ ~crossed /\ ~Adrift /\ ~Adrift'
             /\ \A v \in Workers \ {w} : step'[v] \notin {"call", "note"}
  <2>1. step'[w] \in {"call", "note"}
    BY <1>4 DEF AnsweredTruly
  <2>2. ~None'
    BY <2>1 DEF None, Sending
  <2>3. ~crossed /\ ~Several'
    BY <1>1, <1>4, <2>2
  <2>4. ~Adrift
    BY <1>0, <2>3 DEF InStep, Several
  <2> QED BY <2>1, <2>3, <2>4 DEF Several, Sending
<1> DEFINE GoodNews == \A w \in Workers :
                           reply'[w] = "ok" /\ ~crossed' => Current(w)'.hash = latest'
           Sound == ~unsure' /\ (\A w \in Workers : reply'[w] # "ok") => lastHash' = latest'
<1>5. ASSUME ~Noted, lastHash' = lastHash, latest' = latest,
             \A w \in Workers : reply'[w] = "ok" <=> reply[w] = "ok",
             \A w \in Workers : reply[w] = "ok" => batch'[w] = batch[w]
      PROVE  GoodNews /\ Sound
  <2>1. ASSUME NEW w \in Workers, reply'[w] = "ok", ~crossed'
        PROVE  Current(w)'.hash = latest'
    <3>1. ~crossed /\ reply[w] = "ok" /\ batch'[w] = batch[w]
      BY <1>4, <1>5, <2>1
    <3> QED BY <1>0, <1>5, <3>1 DEF InStep, Current
  <2>2. ~unsure' => ~unsure
    BY <1>1, <1>5
  <2> QED BY <1>0, <1>5, <2>1, <2>2 DEF InStep
<1>6. ASSUME NEW w \in Workers, Note(w)
      PROVE  GoodNews /\ Sound
  <2>1. /\ step[w] = "note" /\ lastHash' = Current(w).hash /\ latest' = latest
        /\ step'[w] = "send" /\ reply[w] = "ok" /\ reply'[w] = "none"
        /\ \A v \in Workers \ {w} : reply'[v] = reply[v] /\ batch'[v] = batch[v]
    BY <1>0, <1>6 DEF Note, NextItem, Goto, server, AnsweredTruly, TypeInv, WorkersTyped
  <2>2. ASSUME NEW v \in Workers, reply'[v] = "ok", ~crossed'
        PROVE  Current(v)'.hash = latest'
    <3>1. ~crossed /\ reply[v] = "ok" /\ batch'[v] = batch[v]
      BY <1>4, <2>1, <2>2
    <3> QED BY <1>0, <2>1, <3>1 DEF InStep, Current
  <2>3. ~unsure' => lastHash' = latest'
    <3>1. Noted
      BY <2>1 DEF Noted
    <3> QED BY <1>0, <1>1, <2>1, <3>1 DEF InStep
  <2> QED BY <2>2, <2>3
<1>7. SUFFICES ASSUME \A w \in Workers : ~Note(w)
               PROVE  GoodNews /\ Sound
  BY <1>2, <1>3, <1>6 DEF InStep
<1>8. ~Noted
  BY <1>0, <1>7, NotedIsNote
<1>9. ASSUME UNCHANGED <<reply, batch, lastHash, latest>>
      PROVE  GoodNews /\ Sound
  BY <1>5, <1>8, <1>9
<1>10. ASSUME NEW w \in Workers,
              Start(w) \/ Claim(w) \/ Collect(w) \/ Compare(w) \/ Heartbeat(w)
                  \/ Lookup(w) \/ Insert(w) \/ Send(w) \/ BatchDone(w) \/ Accepted(w)
       PROVE  GoodNews /\ Sound
  <2>1. /\ reply' = reply /\ lastHash' = lastHash /\ latest' = latest
        /\ Claim(w) \/ batch' = batch
    BY <1>10 DEF Start, Claim, Collect, Compare, Heartbeat, Lookup, Insert, Send,
       BatchDone, Accepted, server
  <2>2. Claim(w) => reply[w] # "ok" /\ \A v \in Workers \ {w} : batch'[v] = batch[v]
    BY <1>0 DEF Claim, AnsweredTruly, TypeInv, WorkersTyped
  <2> QED BY <1>5, <1>8, <2>1, <2>2
<1>11. ASSUME NEW w \in Workers, NEW answer \in Replies, Answer(w, answer)
       PROVE  GoodNews /\ Sound
  <2>1. /\ step[w] = "call" /\ reply[w] = "none" /\ reply' = [reply EXCEPT ![w] = answer]
        /\ UNCHANGED <<step, batch, lastHash>>
    BY <1>11 DEF Answer, Waiting
  <2>2. CASE answer # "ok"
    <3>1. latest' = latest
      BY <1>11, <2>2 DEF Answer
    <3>2. \A v \in Workers : reply'[v] = "ok" <=> reply[v] = "ok"
      BY <1>0, <2>1, <2>2 DEF TypeInv, WorkersTyped
    <3> QED BY <1>5, <1>8, <2>1, <3>1, <3>2
  <2>3. CASE answer = "ok"
    <3>1. latest' = Current(w).hash /\ Current(w)' = Current(w) /\ reply'[w] = "ok"
      BY <1>0, <1>11, <2>1, <2>3 DEF Answer, Current, TypeInv, WorkersTyped
    <3>2. ASSUME NEW v \in Workers, reply'[v] = "ok", ~crossed'
          PROVE  v = w
      <4>1. step'[w] = "call"
        BY <2>1
      <4> QED BY <1>4, <3>2, <4>1
    <3> QED BY <3>1, <3>2
  <2> QED BY <2>2, <2>3
<1>12. ASSUME NEW w \in Workers, AppliedYetRefused(w)
       PROVE  GoodNews /\ Sound
  <2>1. /\ step'[w] = "call" /\ reply'[w] # "ok" /\ faults' = faults + 1
    BY <1>0, <1>12 DEF AppliedYetRefused, Waiting, Fault, TypeInv, WorkersTyped
  <2>2. unsure'
    <3>1. faults' # faults
      BY <1>0, <2>1
    <3> QED BY <1>1, <1>8, <3>1
  <2> QED BY <1>4, <2>1, <2>2
<1>13. ASSUME NEW snapshot \in Snapshots, EndsUnheard(snapshot)
       PROVE  GoodNews /\ Sound
  <2>1. Adrift
    BY <1>13 DEF EndsUnheard, Adrift
  <2>2. unsure'
    BY <1>0, <1>1, <1>8, <2>1 DEF InStep
  <2> QED BY <1>4, <2>1, <2>2
<1>14. ASSUME NEW w \in Workers,
              \/ reply[w] # "ok" /\ (Unauthorized(w) \/ TransientFailure(w)
                                         \/ PermanentFailure(w))
              \/ CallThrows(w)
       PROVE  GoodNews /\ Sound
  <2>1. /\ UNCHANGED <<lastHash, latest>> /\ reply'[w] = "none"
        /\ \A v \in Workers \ {w} : reply'[v] = reply[v] /\ batch'[v] = batch[v]
        /\ reply[w] = "ok" => faults' = faults + 1
    BY <1>0, <1>14 DEF Unauthorized, TransientFailure, PermanentFailure, CallThrows,
       GivesUp, Fault, server, EndRun, NextItem, Goto, TypeInv, WorkersTyped
  <2>2. CASE reply[w] # "ok"
    BY <1>5, <1>8, <2>1, <2>2
  <2>3. CASE reply[w] = "ok"
    <3>1. unsure'
      <4>1. faults' # faults
        BY <1>0, <2>1, <2>3
      <4> QED BY <1>1, <1>8, <4>1
    <3>2. ASSUME NEW v \in Workers, reply'[v] = "ok", ~crossed'
          PROVE  Current(v)'.hash = latest'
      <4>1. ~crossed /\ reply[v] = "ok" /\ batch'[v] = batch[v]
        BY <1>4, <2>1, <3>2
      <4> QED BY <1>0, <2>1, <4>1 DEF InStep, Current
    <3> QED BY <3>1, <3>2
  <2> QED BY <2>2, <2>3
<1>15. CASE ProcessDies
  <2>1. faults' = faults + 1 /\ \A w \in Workers : reply'[w] # "ok"
    BY <1>15 DEF ProcessDies, Fault
  <2>2. unsure'
    <3>1. faults' # faults
      BY <1>0, <2>1
    <3> QED BY <1>1, <1>8, <3>1
  <2> QED BY <2>1, <2>2
<1>16. CASE DataChanges \/ RetryDeadLetters \/ ClearQueue \/ ClearDeadLetters \/ Tick
                \/ \E id \in Ids : BackoffElapses(id)
  BY <1>9, <1>16 DEF DataChanges, RetryDeadLetters, ClearQueue, ClearDeadLetters, Tick,
     BackoffElapses, workers, server
<1>17. \A w \in Workers : Unauthorized(w) \/ TransientFailure(w) \/ PermanentFailure(w)
           => reply[w] # "ok"
  BY DEF Unauthorized, TransientFailure, PermanentFailure
<1> QED BY <1>7, <1>10, <1>11, <1>12, <1>13, <1>14, <1>15, <1>16, <1>17
        DEF Next, Step, Works, Answers

\* While no packet is being sent, the hash that stands for "nothing new" is that
\* of what the server has, unless requests crossed when it was noted or a call or
\* the process has failed since.
THEOREM HeartbeatIsSound == Spec => []DeltaIsSound
<1>1. Init => DeltaInv
  BY InitTyped DEF Init, DeltaInv, AnsweredTruly, InStep, Several, Adrift, Sending
<1>2. DeltaInv /\ [Next]_vars => DeltaInv'
  <2> SUFFICES ASSUME DeltaInv, [Next]_vars
               PROVE  DeltaInv'
    OBVIOUS
  <2>1. TypeInv' /\ AnsweredTruly'
    BY TypeInvKept, AnswersStayTrue DEF DeltaInv
  <2>2. CASE Next
    BY <2>1, <2>2, InStepKept DEF DeltaInv
  <2>3. CASE UNCHANGED vars
    BY <2>1, <2>3 DEF DeltaInv, InStep, Several, Adrift, Sending, Current, vars, state,
       history, workers, server
  <2> QED BY <2>2, <2>3
<1>3. DeltaInv => DeltaIsSound
  <2>1. ASSUME AnsweredTruly, \A w \in Workers : ~Sending(w)
        PROVE  \A w \in Workers : reply[w] # "ok"
    BY <2>1 DEF AnsweredTruly, Sending
  <2> QED BY <2>1 DEF DeltaInv, InStep, DeltaIsSound
<1> QED BY <1>1, <1>2, <1>3, PTL DEF Spec
=============================================================================
