---------------------- MODULE PropertyLifecycleProofs ----------------------
(***************************************************************************)
(* What the life of a property keeps for any number of properties, reviews *)
(* and concurrent requests, wherever one of them stops: the types of the   *)
(* tables, that nothing is public which nobody allowed to publish asked    *)
(* for, but for what an import or a repair was to publish, and that the    *)
(* trash remembers; and, for a property that no two requests dealt with at *)
(* once, its histories, its images, that it was complete when it was       *)
(* published, and what its reviews say.                                    *)
(***************************************************************************)
EXTENDS PropertyLifecycle, TLAPS

USE StartsAssumption, AbsentAssumption

\* What may be public: what someone who may publish asked for, and what an
\* import or a repair was to publish for the others.
Allowed == granted \cup admitted

USE DEF Allowed

\* A status or a schedule that shows, now or later, needs the grant.
Shows(x) == x.status = "published" \/ x.from = "published" \/ x.publishAt # "none"

Publishes(q) == \/ q.op \in {"save", "status", "import"} /\ q.status = "published"
                \/ q.op = "schedule" /\ q.publishAt # "none"
                \/ q.op \in {"approve", "repair"}

\* What a running request relies on: the review it decides was requested, the
\* price it compares was read, and what it publishes was granted.
Sound(q, reviews, grants) == q # Idle =>
    /\ q.op \in {"approve", "reject"} => reviews[q.review] # None
    /\ q.op = "save" /\ q.step = "price" => q.read # None
    /\ Publishes(q) => q.property \in grants

RequestsSound == \A r \in Requests : Sound(request[r], review, Allowed)
RowsGranted   == \A p \in Properties : row[p] # None /\ Shows(row[p]) => p \in Allowed

\* The types of the rest of the state.
OthersTyped ==
    /\ prices \in [Properties -> Seq([before : Prices, after : Prices])]
    /\ recorded \in [Properties -> SUBSET Contents]
    /\ overwritten \in [Properties -> SUBSET Contents]
    /\ started \in 0..MaxStarts
    /\ acted \subseteq Reviews
    /\ stored \subseteq Properties /\ imported \subseteq Properties
    /\ granted \subseteq Properties /\ admitted \subseteq Properties /\ purged \subseteq Properties
    /\ overlapped \subseteq Properties /\ broken \subseteq Properties

IInv == TypeOK /\ RequestsSound /\ RowsGranted

LEMMA TypeParts == TypeOK <=>
    /\ row \in [Properties -> Rows \cup {None}]
    /\ review \in [Reviews -> ReviewRows \cup {None}]
    /\ request \in [Requests -> Works \cup {Idle}]
    /\ OthersTyped
BY DEF TypeOK, OthersTyped

\* The operation of a request tells what else it carries.
LEMMA Shapes ==
    ASSUME NEW q \in Works
    PROVE  /\ q # Idle /\ q.property \in Properties
           /\ q.op = "save" => q \in Saves
           /\ q.op = "status" => q \in Switches
           /\ q.op = "trash" => q \in Trashings
           /\ q.op = "purge" => q \in Purges
           /\ q.op = "schedule" => q \in Schedules
           /\ q.op = "ask" => q \in Asks
           /\ q.op \in {"approve", "reject"} => q \in Decisions
           /\ q.op = "import" => q \in Imports
           /\ q.op = "repair" => q \in Repairs
BY DEF Works, Idle, Saves, Switches, Trashings, Purges, Schedules, Asks, Decisions, Imports,
       Repairs

LEMMA Running ==
    ASSUME TypeOK, NEW r \in Requests, request[r] # Idle
    PROVE  request[r] \in Works
BY DEF TypeOK

LEMMA InitInv == Init => IInv
<1> SUFFICES ASSUME Init PROVE IInv
  OBVIOUS
<1>1. \A c \in Contents : NewRow("draft", c) \in Rows /\ ~Shows(NewRow("draft", c))
  BY DEF NewRow, Rows, Statuses, Times, Shows
<1>2. row \in [Properties -> Rows \cup {None}] /\ RowsGranted
  BY <1>1 DEF Init, RowsGranted
<1>3. TypeOK
  BY <1>2 DEF Init, TypeOK
<1>4. RequestsSound
  BY DEF Init, RequestsSound, Sound
<1> QED BY <1>2, <1>3, <1>4 DEF IInv

\* One request moves on, no review and no grant is taken back, and a row that
\* changes and shows was granted: the invariant is kept.
LEMMA RequestStep ==
    ASSUME IInv, NEW r \in Requests, NEW q \in Works \cup {Idle},
           request' = [request EXCEPT ![r] = q],
           Sound(q, review', Allowed'),
           row' \in [Properties -> Rows \cup {None}],
           \A p \in Properties :
               row'[p] # row[p] /\ row'[p] # None /\ Shows(row'[p]) => p \in Allowed',
           review' \in [Reviews -> ReviewRows \cup {None}],
           \A v \in Reviews : review[v] # None => review'[v] # None,
           Allowed \subseteq Allowed', OthersTyped'
    PROVE  IInv'
<1>1. TypeOK'
  <2>1. request' \in [Requests -> Works \cup {Idle}]
    BY DEF IInv, TypeOK
  <2> QED BY <2>1 DEF TypeOK, OthersTyped
<1>2. RequestsSound'
  <2> SUFFICES ASSUME NEW s \in Requests PROVE Sound(request'[s], review', Allowed')
    BY DEF RequestsSound
  <2>1. CASE s = r
    BY <2>1 DEF IInv, TypeOK
  <2>2. CASE s # r
    <3>1. request'[s] = request[s] /\ Sound(request[s], review, Allowed)
      BY <2>2 DEF IInv, TypeOK, RequestsSound
    <3>2. request[s] # Idle => request[s] \in Works
      BY DEF IInv, TypeOK
    <3>3. request[s] # Idle /\ request[s].op \in {"approve", "reject"}
              => request[s].review \in Reviews
      BY <3>2, Shapes DEF Decisions
    <3> QED BY <3>1, <3>3 DEF Sound
  <2> QED BY <2>1, <2>2
<1>3. RowsGranted'
  BY DEF IInv, RowsGranted
<1> QED BY <1>1, <1>2, <1>3 DEF IInv

LEMMA OverlapTyped ==
    ASSUME NEW p \in Properties, Overlap(p), overlapped \subseteq Properties
    PROVE  overlapped' \subseteq Properties
BY DEF Overlap

LEMMA CountTyped ==
    ASSUME Count, started \in 0..MaxStarts
    PROVE  started' \in 0..MaxStarts
BY DEF Count

LEMMA AcceptStep ==
    ASSUME IInv, NEW r \in Requests, NEW work \in Works, NEW grants \in BOOLEAN,
           Begin(r, work, grants), admitted' \in {admitted, admitted \cup {work.property}},
           Sound(work, review, Allowed')
    PROVE  IInv'
<1>1. work.property \in Properties
  BY Shapes
<1>2. Allowed \subseteq Allowed' /\ granted' \subseteq Properties /\ admitted' \subseteq Properties
  BY <1>1 DEF Begin, IInv, TypeOK
<1>3. OthersTyped'
  <2>1. OthersTyped
    BY TypeParts DEF IInv
  <2>2. started' \in 0..MaxStarts
    BY <2>1, CountTyped DEF Begin, OthersTyped
  <2>3. overlapped' \subseteq Properties
    BY <1>1, <2>1, OverlapTyped DEF Begin, OthersTyped
  <2> QED BY <1>2, <2>1, <2>2, <2>3 DEF Begin, OthersTyped, tables
<1>4. row' = row /\ review' = review
  BY DEF Begin, tables
<1> QED BY <1>2, <1>3, <1>4, RequestStep DEF Begin, IInv, TypeOK

\* A request starts: what it wants to publish is granted at that moment.
LEMMA StartStep ==
    ASSUME IInv, NEW r \in Requests, NEW work \in Works, NEW grants \in BOOLEAN,
           Begin(r, work, grants), admitted' \in {admitted, admitted \cup {work.property}},
           work.step = "write", Publishes(work) => grants \/ work.property \in admitted',
           work.op \in {"approve", "reject"} => review[work.review] # None
    PROVE  IInv'
<1>1. Publishes(work) => work.property \in Allowed'
  BY DEF Begin
<1>2. Sound(work, review, Allowed')
  BY <1>1 DEF Sound
<1> QED BY <1>2, AcceptStep

LEMMA SaveStarts ==
    ASSUME IInv, NEW r \in Requests, NEW p \in Properties, NEW status \in Statuses,
           NEW content \in Contents, NEW publisher \in BOOLEAN,
           StartSave(r, p, status, content, publisher)
    PROVE  IInv'
<1> DEFINE work == [op |-> "save", step |-> "write", property |-> p, read |-> ListedRow(p),
                    status |-> status, content |-> content]
<1>1. work \in Works
  BY DEF IInv, TypeOK, Works, Saves, ListedRow
<1>2. Publishes(work) => status = "published"
  BY DEF Publishes
<1> QED BY <1>1, <1>2, StartStep DEF StartSave, Accept

LEMMA StatusStarts ==
    ASSUME IInv, NEW r \in Requests, NEW p \in Properties, NEW status \in Statuses,
           NEW publisher \in BOOLEAN, StartStatus(r, p, status, publisher)
    PROVE  IInv'
<1> DEFINE work == [op |-> "status", step |-> "write", property |-> p, status |-> status]
<1>1. work \in Works
  BY DEF Works, Switches
<1>2. Publishes(work) => status = "published"
  BY DEF Publishes
<1> QED BY <1>1, <1>2, StartStep DEF StartStatus, Accept

LEMMA ScheduleStarts ==
    ASSUME IInv, NEW r \in Requests, NEW p \in Properties, NEW at \in Times,
           NEW until \in Times, NEW publisher \in BOOLEAN,
           StartSchedule(r, p, at, until, publisher)
    PROVE  IInv'
<1> DEFINE work == [op |-> "schedule", step |-> "write", property |-> p,
                    publishAt |-> at, unpublishAt |-> until]
<1>1. work \in Works
  BY DEF Works, Schedules
<1>2. Publishes(work) => at # "none"
  BY DEF Publishes
<1> QED BY <1>1, <1>2, StartStep DEF StartSchedule, Accept

LEMMA TrashStarts ==
    ASSUME IInv, NEW r \in Requests, NEW p \in Properties, NEW bulk \in BOOLEAN,
           StartTrash(r, p, bulk)
    PROVE  IInv'
<1> DEFINE work == [op |-> "trash", step |-> "write", property |-> p,
                    read |-> IF bulk THEN None ELSE row[p], bulk |-> bulk]
<1>1. work \in Works
  BY DEF IInv, TypeOK, Works, Trashings
<1>2. ~Publishes(work)
  BY DEF Publishes
<1> QED BY <1>1, <1>2, StartStep DEF StartTrash, Accept

LEMMA PurgeStarts ==
    ASSUME IInv, NEW r \in Requests, NEW p \in Properties, StartPurge(r, p)
    PROVE  IInv'
<1> DEFINE work == [op |-> "purge", step |-> "write", property |-> p]
<1>1. work \in Works
  BY DEF Works, Purges
<1>2. ~Publishes(work)
  BY DEF Publishes
<1> QED BY <1>1, <1>2, StartStep DEF StartPurge, Accept

LEMMA AskStarts ==
    ASSUME IInv, NEW r \in Requests, NEW p \in Properties, StartAsk(r, p)
    PROVE  IInv'
<1> DEFINE work == [op |-> "ask", step |-> "write", property |-> p]
<1>1. work \in Works
  BY DEF Works, Asks
<1>2. ~Publishes(work)
  BY DEF Publishes
<1> QED BY <1>1, <1>2, StartStep DEF StartAsk, Accept

LEMMA DecisionStarts ==
    ASSUME IInv, NEW r \in Requests, NEW v \in Reviews,
           NEW decision \in {"approve", "reject"}, StartDecide(r, v, decision)
    PROVE  IInv'
<1> DEFINE work == [op |-> decision, step |-> "write", property |-> review[v].property,
                    review |-> v]
<1>1. review[v] # None /\ review[v] \in ReviewRows
  BY DEF StartDecide, Pending, IInv, TypeOK
<1>2. work \in Works
  BY <1>1 DEF Works, Decisions, ReviewRows
<1>3. Publishes(work) => decision = "approve"
  BY DEF Publishes
<1>4. Begin(r, work, decision = "approve") /\ admitted' = admitted
  BY DEF StartDecide, Accept
<1> QED BY <1>1, <1>2, <1>3, <1>4, StartStep

LEMMA ImportStarts ==
    ASSUME IInv, NEW r \in Requests, NEW p \in Properties, NEW content \in Contents,
           NEW staff \in BOOLEAN, NEW publisher \in BOOLEAN,
           StartImport(r, p, content, staff, publisher)
    PROVE  IInv'
<1> DEFINE work == [op |-> "import", step |-> "write", property |-> p, content |-> content,
                    status |-> IF staff THEN "draft" ELSE "published"]
<1>1. work \in Works /\ work.property = p
  BY DEF Works, Imports, Statuses
<1>2. Publishes(work) => ~staff
  BY DEF Publishes
<1>3. /\ Begin(r, work, ~staff /\ publisher)
      /\ admitted' = IF ~staff /\ ~publisher THEN admitted \cup {p} ELSE admitted
  BY <1>1 DEF StartImport, Admit
<1> QED BY <1>1, <1>2, <1>3, StartStep

LEMMA RepairStarts ==
    ASSUME IInv, NEW r \in Requests, NEW p \in Properties, NEW publisher \in BOOLEAN,
           StartRepair(r, p, publisher)
    PROVE  IInv'
<1> DEFINE work == [op |-> "repair", step |-> "write", property |-> p]
<1>1. work \in Works /\ work.property = p
  BY DEF Works, Repairs
<1>2. /\ Begin(r, work, publisher)
      /\ admitted' = IF ~publisher THEN admitted \cup {p} ELSE admitted
  BY <1>1 DEF StartRepair, Admit
<1> QED BY <1>1, <1>2, StartStep

----------------------------------------------------------------------------
\* A request writes one row and moves on or ends.
LEMMA WriteStep ==
    ASSUME IInv, NEW r \in Requests, NEW p \in Properties, NEW new \in Rows \cup {None},
           Write(r, p, new), new # row[p] /\ new # None /\ Shows(new) => p \in Allowed
    PROVE  IInv'
<1>1. OthersTyped' /\ Allowed' = Allowed /\ review' = review
  BY TypeParts DEF IInv, Write, OthersTyped, history
<1>2. row' \in [Properties -> Rows \cup {None}]
  BY DEF IInv, TypeOK, Write
<1>3. \A x \in Properties :
          row'[x] # row[x] /\ row'[x] # None /\ Shows(row'[x]) => x \in Allowed'
  BY <1>1 DEF IInv, TypeOK, Write
<1>4. Sound(Idle, review', Allowed')
  BY DEF Sound
<1> QED BY <1>1, <1>2, <1>3, <1>4, RequestStep DEF Write, Finish, IInv, TypeOK

LEMMA StatusIsSet ==
    ASSUME IInv, NEW r \in Requests, SetStatus(r)
    PROVE  IInv'
<1> DEFINE p == request[r].property  status == request[r].status
           new == [row[p] EXCEPT !.status = status,
                         !.publishAt = IF status = "draft" THEN @ ELSE "none",
                         !.unpublishAt = IF status = "published" THEN @ ELSE "none"]
<1>1. request[r] \in Switches
  BY Running, Shapes DEF IInv, SetStatus, At
<1>2. p \in Properties /\ status \in Statuses
  BY <1>1 DEF Switches
<1>3. status = "published" => p \in Allowed
  BY DEF IInv, RequestsSound, Sound, Publishes, SetStatus, At
<1>4. CASE ~Listed(p)
  <2>1. Write(r, p, row[p]) /\ row[p] \in Rows \cup {None}
    BY <1>2, <1>4 DEF SetStatus, IInv, TypeOK
  <2> QED BY <1>2, <2>1, WriteStep
<1>5. CASE Listed(p)
  <2>1. row[p] \in Rows /\ row[p].from = None
    BY <1>2, <1>5 DEF Listed, Exists, IInv, TypeOK
  <2>2. new \in Rows
    BY <1>2, <2>1 DEF Rows, Times
  <2>3. Shows(new) => status = "published" \/ Shows(row[p])
    BY <1>2, <2>1 DEF Shows, Rows, Statuses
  <2>4. Shows(row[p]) => p \in Allowed
    BY <1>2, <1>5 DEF IInv, RowsGranted, Listed, Exists
  <2>5. Write(r, p, new)
    BY <1>5 DEF SetStatus
  <2> QED BY <1>2, <1>3, <2>2, <2>3, <2>4, <2>5, WriteStep
<1> QED BY <1>4, <1>5

LEMMA ScheduleIsSet ==
    ASSUME IInv, NEW r \in Requests, SetSchedule(r)
    PROVE  IInv'
<1> DEFINE p == request[r].property  w == request[r]
           new == [row[p] EXCEPT !.publishAt = w.publishAt, !.unpublishAt = w.unpublishAt]
<1>1. request[r] \in Schedules
  BY Running, Shapes DEF IInv, SetSchedule, At
<1>2. p \in Properties /\ w.publishAt \in Times /\ w.unpublishAt \in Times
  BY <1>1 DEF Schedules
<1>3. w.publishAt # "none" => p \in Allowed
  BY DEF IInv, RequestsSound, Sound, Publishes, SetSchedule, At
<1>4. CASE ~Listed(p)
  <2>1. Write(r, p, row[p]) /\ row[p] \in Rows \cup {None}
    BY <1>2, <1>4 DEF SetSchedule, IInv, TypeOK
  <2> QED BY <1>2, <2>1, WriteStep
<1>5. CASE Listed(p)
  <2>1. row[p] \in Rows
    BY <1>2, <1>5 DEF Listed, Exists, IInv, TypeOK
  <2>2. new \in Rows
    BY <1>2, <2>1 DEF Rows
  <2>3. Shows(new) => w.publishAt # "none" \/ Shows(row[p])
    BY <1>2, <2>1 DEF Shows, Rows
  <2>4. Shows(row[p]) => p \in Allowed
    BY <1>2, <1>5 DEF IInv, RowsGranted, Listed, Exists
  <2>5. Write(r, p, new)
    BY <1>5 DEF SetSchedule
  <2> QED BY <1>2, <1>3, <2>2, <2>3, <2>4, <2>5, WriteStep
<1> QED BY <1>4, <1>5

LEMMA Repaired ==
    ASSUME IInv, NEW r \in Requests, Repair(r)
    PROVE  IInv'
<1> DEFINE p == request[r].property  new == [row[p] EXCEPT !.status = "published"]
<1>1. request[r] \in Repairs
  BY Running, Shapes DEF IInv, Repair, At
<1>2. p \in Properties
  BY <1>1 DEF Repairs
<1>3. p \in Allowed
  BY DEF IInv, RequestsSound, Sound, Publishes, Repair, At
<1>4. CASE ~Exists(p)
  <2>1. Write(r, p, row[p]) /\ row[p] \in Rows \cup {None}
    BY <1>2, <1>4 DEF Repair, IInv, TypeOK
  <2> QED BY <1>2, <2>1, WriteStep
<1>5. CASE Exists(p)
  <2>1. row[p] \in Rows
    BY <1>2, <1>5 DEF Exists, IInv, TypeOK
  <2>2. new \in Rows
    BY <2>1 DEF Rows, Statuses
  <2>3. Write(r, p, new)
    BY <1>5 DEF Repair
  <2> QED BY <1>2, <1>3, <2>2, <2>3, WriteStep
<1> QED BY <1>4, <1>5

\* A request ends and no row changes.
LEMMA EndStep ==
    ASSUME IInv, NEW r \in Requests, Finish(r), row' = row, Allowed' = Allowed,
           review' \in [Reviews -> ReviewRows \cup {None}],
           \A v \in Reviews : review[v] # None => review'[v] # None, OthersTyped'
    PROVE  IInv'
<1>1. Sound(Idle, review', Allowed')
  BY DEF Sound
<1> QED BY <1>1, RequestStep DEF Finish, IInv, TypeOK

LEMMA RereadEnds ==
    ASSUME IInv, NEW r \in Requests, RereadFails(r)
    PROVE  IInv'
<1>1. request[r].property \in Properties
  BY Running, Shapes DEF IInv, RereadFails, At
<1>2. OthersTyped'
  BY <1>1, TypeParts DEF IInv, RereadFails, OthersTyped, tables
<1> QED BY <1>2, EndStep DEF RereadFails, tables, IInv, TypeOK

LEMMA Stopped ==
    ASSUME IInv, NEW r \in Requests, Stop(r)
    PROVE  IInv'
<1>1. request[r].property \in Properties
  BY Running, Shapes DEF IInv, Stop
<1>2. OthersTyped'
  BY <1>1, TypeParts DEF IInv, Stop, OthersTyped, tables
<1> QED BY <1>2, EndStep DEF Stop, tables, IInv, TypeOK

LEMMA ChangeIsRecorded ==
    ASSUME IInv, NEW r \in Requests, RecordChange(r)
    PROVE  IInv'
<1> DEFINE p == request[r].property
<1>1. request[r] \in Saves \cup Trashings
  BY Running, Shapes DEF IInv, RecordChange, At
<1>2. Before(r) \subseteq Contents /\ After(r) \subseteq Contents
  BY <1>1 DEF Before, After, Saves, Trashings, Rows
<1>3. recorded' \in [Properties -> SUBSET Contents]
  BY <1>2 DEF RecordChange, IInv, TypeOK
<1>4. OthersTyped'
  BY <1>3, TypeParts DEF IInv, RecordChange, OthersTyped, history
<1> QED BY <1>4, EndStep DEF RecordChange, history, IInv, TypeOK

LEMMA Asked ==
    ASSUME IInv, NEW r \in Requests, Ask(r)
    PROVE  IInv'
<1>1. request[r].property \in Properties
  BY Running, Shapes DEF IInv, Ask, At
<1>2. OthersTyped'
  BY TypeParts DEF IInv, Ask, OthersTyped, history
<1>3. /\ review' \in [Reviews -> ReviewRows \cup {None}]
      /\ \A v \in Reviews : review[v] # None => review'[v] # None
  <2> DEFINE new == [property |-> request[r].property, status |-> "pending"]
  <2>1. \/ \E v \in Reviews : review' = [review EXCEPT ![v] = new]
        \/ review' = review
    BY DEF Ask
  <2>2. new \in ReviewRows /\ new # None
    BY <1>1, AbsentAssumption DEF ReviewRows
  <2>3. review \in [Reviews -> ReviewRows \cup {None}]
    BY DEF IInv, TypeOK
  <2> HIDE DEF new
  <2> QED BY <2>1, <2>2, <2>3
<1> QED BY <1>2, <1>3, EndStep DEF Ask, history

LEMMA Decided ==
    ASSUME IInv, NEW r \in Requests, Decide(r)
    PROVE  IInv'
<1> DEFINE v == request[r].review
<1>1. request[r] \in Decisions /\ v \in Reviews
  BY Running, Shapes DEF IInv, Decide, At, Decisions
<1>2. review[v] \in ReviewRows
  <2>1. request[r] # Idle /\ request[r].op \in {"approve", "reject"}
    BY <1>1 DEF Decisions, Idle
  <2>2. review[v] # None
    BY <2>1 DEF IInv, RequestsSound, Sound
  <2> QED BY <1>1, <2>2 DEF IInv, TypeOK
<1>3. \A s \in {"approved", "rejected"} : [review[v] EXCEPT !.status = s] \in ReviewRows
  <2>1. \A old \in ReviewRows, s \in {"approved", "rejected"} :
            [old EXCEPT !.status = s] \in ReviewRows
    BY DEF ReviewRows
  <2> QED BY <1>2, <2>1
<1>4. OthersTyped'
  BY TypeParts DEF IInv, Decide, OthersTyped, history
<1>5. /\ review' \in [Reviews -> ReviewRows \cup {None}]
      /\ \A w \in Reviews : review[w] # None => review'[w] # None
  <2>1. \E new \in ReviewRows : review' = [review EXCEPT ![v] = new] \/ review' = review
    BY <1>2, <1>3 DEF Decide
  <2>2. review \in [Reviews -> ReviewRows \cup {None}] /\ None \notin ReviewRows
    BY AbsentAssumption DEF IInv, TypeOK
  <2> QED BY <1>1, <2>1, <2>2
<1> QED BY <1>4, <1>5, EndStep DEF Decide, history

LEMMA MediaDeleted ==
    ASSUME IInv, NEW r \in Requests, DeleteMedia(r)
    PROVE  IInv'
<1>1. OthersTyped'
  BY TypeParts DEF IInv, DeleteMedia, OthersTyped, history
<1> QED BY <1>1, EndStep DEF DeleteMedia, history, IInv, TypeOK

----------------------------------------------------------------------------
LEMMA Upserted ==
    ASSUME IInv, NEW r \in Requests, Upsert(r)
    PROVE  IInv'
<1> DEFINE p == request[r].property  w == request[r]  q == [w EXCEPT !.step = "reread"]
           new == IF Exists(p) THEN [row[p] EXCEPT !.status = w.status, !.content = w.content]
                  ELSE NewRow(w.status, w.content)
<1>1. w \in Saves /\ w # Idle
  BY Running, Shapes DEF IInv, Upsert, At
<1>2. p \in Properties /\ w.status \in Statuses /\ w.content \in Contents /\ w.op = "save"
  BY <1>1 DEF Saves
<1>3. w.status = "published" => p \in Allowed
  BY <1>1, <1>2 DEF IInv, RequestsSound, Sound, Publishes
<1>4. Exists(p) => row[p] \in Rows /\ (Shows(row[p]) => p \in Allowed)
  BY <1>2 DEF Exists, IInv, TypeOK, RowsGranted
<1>5. new \in Rows
  <2>1. CASE Exists(p)
    BY <1>2, <1>4, <2>1 DEF Rows
  <2>2. CASE ~Exists(p)
    BY <1>2, <2>2 DEF Rows, NewRow, Times
  <2> QED BY <2>1, <2>2
<1>6. Shows(new) => p \in Allowed
  <2>1. CASE Exists(p)
    BY <1>2, <1>3, <1>4, <2>1 DEF Rows, Shows
  <2>2. CASE ~Exists(p)
    BY <1>2, <1>3, <2>2 DEF NewRow, Shows, Statuses
  <2> QED BY <2>1, <2>2
<1>7. row' = [row EXCEPT ![p] = new]
  BY DEF Upsert
<1>8. overwritten' \in [Properties -> SUBSET Contents]
  BY <1>2, <1>4 DEF Upsert, IInv, TypeOK, Rows
<1>9. OthersTyped' /\ Allowed' = Allowed /\ review' = review
  BY <1>8, TypeParts DEF IInv, Upsert, OthersTyped
<1>10. q \in Works /\ q.op = "save" /\ q.step = "reread" /\ q.status = w.status /\ q.property = p
  BY <1>1 DEF Works, Saves
<1>11. Sound(q, review', Allowed')
  BY <1>3, <1>9, <1>10 DEF Sound, Publishes
<1>12. request' = [request EXCEPT ![r] = q]
  BY DEF Upsert, GoOn
<1>13. row' \in [Properties -> Rows \cup {None}]
  BY <1>5, <1>7 DEF IInv, TypeOK
<1>14. \A x \in Properties :
          row'[x] # row[x] /\ row'[x] # None /\ Shows(row'[x]) => x \in Allowed'
  BY <1>6, <1>7, <1>9 DEF IInv, TypeOK
<1>15. review' \in [Reviews -> ReviewRows \cup {None}]
  BY <1>9 DEF IInv, TypeOK
<1> QED BY <1>9, <1>10, <1>11, <1>12, <1>13, <1>14, <1>15, RequestStep

\* A save goes on and no row changes.
LEMMA SaveGoesOn ==
    ASSUME IInv, NEW r \in Requests, request[r] # Idle, request[r].op = "save",
           NEW step \in {"price", "change"}, NEW content \in Contents,
           request' = [request EXCEPT ![r] = [@ EXCEPT !.step = step, !.content = content]],
           step = "price" => request[r].read # None,
           row' = row, review' = review, Allowed' = Allowed, OthersTyped'
    PROVE  IInv'
<1> DEFINE w == request[r]  q == [w EXCEPT !.step = step, !.content = content]
<1>1. w \in Saves
  BY Running, Shapes DEF IInv
<1>2. /\ q \in Works /\ q.op = "save" /\ q.step = step /\ q.read = w.read
      /\ q.status = w.status /\ q.property = w.property
  BY <1>1 DEF Works, Saves
<1>3. w.status = "published" => w.property \in Allowed
  BY DEF IInv, RequestsSound, Sound, Publishes
<1>4. Sound(q, review', Allowed')
  BY <1>2, <1>3 DEF Sound, Publishes
<1> QED BY <1>2, <1>4, RequestStep DEF IInv, TypeOK

LEMMA RereadGoesOn ==
    ASSUME IInv, NEW r \in Requests, Reread(r)
    PROVE  IInv'
<1> DEFINE p == request[r].property
           step == IF PriceChanged(request[r].read, row[p].content) THEN "price" ELSE "change"
<1>1. request[r] \in Saves
  BY Running, Shapes DEF IInv, Reread, At
<1>2. p \in Properties /\ row[p] \in Rows /\ row[p].content \in Contents
  BY <1>1 DEF Saves, Reread, Listed, Exists, IInv, TypeOK, Rows
<1>3. request' = [request EXCEPT ![r] = [@ EXCEPT !.step = step, !.content = row[p].content]]
  BY <1>1 DEF Reread, IInv, TypeOK, Saves
<1>4. step \in {"price", "change"} /\ (step = "price" => request[r].read # None)
  BY DEF PriceChanged
<1>5. OthersTyped'
  BY TypeParts DEF IInv, Reread, OthersTyped, tables, history
<1> QED BY <1>2, <1>3, <1>4, <1>5, SaveGoesOn DEF Reread, At, tables, history

LEMMA AppendTyped ==
    ASSUME NEW S, NEW s \in Seq(S), NEW e \in S
    PROVE  Append(s, e) \in Seq(S)
OBVIOUS

LEMMA PriceIsRecorded ==
    ASSUME IInv, NEW r \in Requests, RecordPrice(r)
    PROVE  IInv'
<1> DEFINE p == request[r].property  w == request[r]
           entry == [before |-> w.read.content.price, after |-> w.content.price]
<1>1. w \in Saves /\ w.read # None
  BY Running, Shapes DEF IInv, RecordPrice, At, RequestsSound, Sound
<1>2. p \in Properties /\ w.read \in Rows /\ w.content \in Contents
  BY <1>1 DEF Saves
<1>3. entry \in [before : Prices, after : Prices]
  BY <1>2 DEF Rows, Contents
<1>4. prices' \in [Properties -> Seq([before : Prices, after : Prices])]
  <2>1. prices \in [Properties -> Seq([before : Prices, after : Prices])]
    BY DEF IInv, TypeOK
  <2>2. Append(prices[p], entry) \in Seq([before : Prices, after : Prices])
    BY <1>2, <1>3, <2>1, AppendTyped
  <2>3. prices' = [prices EXCEPT ![p] = Append(prices[p], entry)]
    BY DEF RecordPrice
  <2> QED BY <2>1, <2>2, <2>3
<1>5. OthersTyped'
  BY <1>4, TypeParts DEF IInv, RecordPrice, OthersTyped, history
<1>6. request' = [request EXCEPT ![r] = [@ EXCEPT !.step = "change", !.content = w.content]]
  BY <1>1 DEF RecordPrice, GoOn, IInv, TypeOK, Saves
<1> QED BY <1>2, <1>5, <1>6, SaveGoesOn DEF RecordPrice, At, history

LEMMA MovedToTrash ==
    ASSUME IInv, NEW r \in Requests, MoveToTrash(r)
    PROVE  IInv'
<1> DEFINE p == request[r].property  w == request[r]  q == [w EXCEPT !.step = "change"]
<1>1. w \in Trashings /\ p \in Properties
  BY Running, Shapes DEF IInv, MoveToTrash, At
<1>2. q \in Works /\ q.op = "trash"
  BY <1>1 DEF Works, Trashings
<1>3. OthersTyped' /\ Allowed' = Allowed /\ review' = review
  BY TypeParts DEF IInv, MoveToTrash, OthersTyped, history
<1>4. Listed(p) => /\ Bin(p) \in Rows
                   /\ Shows(Bin(p)) => p \in Allowed
  <2> SUFFICES ASSUME Listed(p) PROVE Bin(p) \in Rows /\ (Shows(Bin(p)) => p \in Allowed)
    OBVIOUS
  <2>1. row[p] \in Rows /\ (Shows(row[p]) => p \in Allowed)
    BY <1>1 DEF Listed, Exists, IInv, TypeOK, RowsGranted
  <2>2. Bin(p) \in Rows /\ (Shows(Bin(p)) => Shows(row[p]))
    BY <2>1 DEF Bin, Rows, Shows, Statuses
  <2> QED BY <2>1, <2>2
<1>5. row' \in [Properties -> Rows \cup {None}]
  BY <1>1, <1>4 DEF MoveToTrash, IInv, TypeOK
<1>6. \A x \in Properties :
          row'[x] # row[x] /\ row'[x] # None /\ Shows(row'[x]) => x \in Allowed'
  BY <1>1, <1>3, <1>4 DEF MoveToTrash, IInv, TypeOK
<1>7. Sound(q, review', Allowed') /\ Sound(Idle, review', Allowed')
  BY <1>2 DEF Sound, Publishes
<1>8. \E new \in {q, Idle} : request' = [request EXCEPT ![r] = new]
  BY DEF MoveToTrash, GoOn, Finish
<1>9. PICK new \in {q, Idle} : request' = [request EXCEPT ![r] = new]
  BY <1>8
<1> QED BY <1>2, <1>3, <1>5, <1>6, <1>7, <1>9, RequestStep DEF IInv, TypeOK

LEMMA Deleted ==
    ASSUME IInv, NEW r \in Requests, Delete(r)
    PROVE  IInv'
<1> DEFINE p == request[r].property  w == request[r]  q == [w EXCEPT !.step = "media"]
<1>1. w \in Purges /\ p \in Properties
  BY Running, Shapes DEF IInv, Delete, At
<1>2. q \in Works /\ q.op = "purge"
  BY <1>1 DEF Works, Purges
<1>3. OthersTyped' /\ Allowed' = Allowed
  BY <1>1, TypeParts DEF IInv, Delete, OthersTyped
<1>4. /\ row' \in [Properties -> Rows \cup {None}]
      /\ \A x \in Properties : row'[x] # row[x] => row'[x] = None
  BY <1>1 DEF Delete, IInv, TypeOK
<1>5. \A v \in Reviews : review[v] # None => [review[v] EXCEPT !.status = "gone"] \in ReviewRows
  BY DEF IInv, TypeOK, ReviewRows
<1>6. /\ review' \in [Reviews -> ReviewRows \cup {None}]
      /\ \A v \in Reviews : review[v] # None => review'[v] # None
  <2>1. CASE Trashed(p)
    <3>1. review' = [v \in Reviews |->
              IF review[v] # None /\ review[v].property = p
              THEN [review[v] EXCEPT !.status = "gone"] ELSE review[v]]
      BY <2>1 DEF Delete
    <3>2. review \in [Reviews -> ReviewRows \cup {None}] /\ None \notin ReviewRows
      BY DEF IInv, TypeOK
    <3> QED BY <1>5, <3>1, <3>2
  <2>2. CASE ~Trashed(p)
    BY <2>2 DEF Delete, IInv, TypeOK
  <2> QED BY <2>1, <2>2
<1>7. Sound(q, review', Allowed')
  BY <1>2 DEF Sound, Publishes
<1>8. request' = [request EXCEPT ![r] = q]
  BY DEF Delete, GoOn
<1> QED BY <1>2, <1>3, <1>4, <1>6, <1>7, <1>8, RequestStep

LEMMA Published ==
    ASSUME IInv, NEW r \in Requests, Publish(r)
    PROVE  IInv'
<1> DEFINE p == request[r].property  w == request[r]  q == [w EXCEPT !.step = "decide"]
           new == [row[p] EXCEPT !.status = "published"]
<1>1. w \in Decisions /\ p \in Properties /\ w.review \in Reviews /\ w.op = "approve"
  BY Running, Shapes DEF IInv, Publish, At, Decisions
<1>2. p \in Allowed /\ review[w.review] # None
  BY <1>1 DEF IInv, RequestsSound, Sound, Publishes, Publish, At
<1>3. q \in Works /\ q.op = "approve" /\ q.review = w.review /\ q.property = p
  BY <1>1 DEF Works, Decisions
<1>4. OthersTyped' /\ Allowed' = Allowed /\ review' = review
  BY <1>1, TypeParts DEF IInv, Publish, OthersTyped
<1>5. Listed(p) => new \in Rows
  BY <1>1 DEF Listed, Exists, IInv, TypeOK, Rows, Statuses
<1>6. row' = row \/ (Listed(p) /\ row' = [row EXCEPT ![p] = new])
  BY <1>1 DEF Publish, IInv, TypeOK
<1>7. /\ row' \in [Properties -> Rows \cup {None}]
      /\ \A x \in Properties : row'[x] # row[x] => x \in Allowed'
  <2>1. row \in [Properties -> Rows \cup {None}]
    BY DEF IInv, TypeOK
  <2>2. CASE row' = row
    BY <2>1, <2>2
  <2>3. CASE Listed(p) /\ row' = [row EXCEPT ![p] = new]
    BY <1>1, <1>2, <1>4, <1>5, <2>1, <2>3
  <2> QED BY <1>6, <2>2, <2>3
<1>8. Sound(q, review', Allowed')
  BY <1>2, <1>3, <1>4 DEF Sound, Publishes
<1>9. request' = [request EXCEPT ![r] = q]
  BY DEF Publish, GoOn
<1>10. review' \in [Reviews -> ReviewRows \cup {None}]
  BY <1>4 DEF IInv, TypeOK
<1> QED BY <1>3, <1>4, <1>7, <1>8, <1>9, <1>10, RequestStep

LEMMA Imported ==
    ASSUME IInv, NEW r \in Requests, Import(r)
    PROVE  IInv'
<1> DEFINE p == request[r].property  w == request[r]  new == NewRow(w.status, w.content)
<1>1. w \in Imports /\ w # Idle
  BY Running, Shapes DEF IInv, Import, At
<1>2. p \in Properties /\ w.status \in Statuses /\ w.content \in Contents /\ w.op = "import"
  BY <1>1 DEF Imports
<1>3. w.status = "published" => p \in Allowed
  BY <1>1, <1>2 DEF IInv, RequestsSound, Sound, Publishes
<1>4. new \in Rows /\ (Shows(new) => p \in Allowed)
  BY <1>2, <1>3 DEF NewRow, Rows, Times, Shows, Statuses
<1>5. OthersTyped' /\ Allowed' = Allowed /\ review' = review
  BY <1>2, TypeParts DEF IInv, Import, OthersTyped
<1>6. /\ row' \in [Properties -> Rows \cup {None}]
      /\ \A x \in Properties :
             row'[x] # row[x] /\ row'[x] # None /\ Shows(row'[x]) => x \in Allowed'
  BY <1>2, <1>4, <1>5 DEF Import, IInv, TypeOK
<1>7. Sound(Idle, review', Allowed')
  BY DEF Sound
<1> QED BY <1>5, <1>6, <1>7, RequestStep DEF Import, Finish, IInv, TypeOK

----------------------------------------------------------------------------
\* One statement without a request, or the clock, changes one row.
LEMMA RowStep ==
    ASSUME IInv, NEW p \in Properties, NEW new \in Rows, row' = [row EXCEPT ![p] = new],
           Shows(new) => p \in Allowed,
           UNCHANGED <<request, review, Allowed>>, OthersTyped'
    PROVE  IInv'
<1>1. TypeOK'
  BY DEF IInv, TypeOK, OthersTyped
<1>2. RequestsSound'
  BY DEF IInv, RequestsSound
<1>3. RowsGranted'
  BY DEF IInv, TypeOK, RowsGranted
<1> QED BY <1>1, <1>2, <1>3 DEF IInv

LEMMA Expired ==
    ASSUME IInv, NEW p \in Properties, Expire(p)
    PROVE  IInv'
<1> DEFINE extended == [row[p] EXCEPT !.unpublishAt = "future"]
           archived == [row[p] EXCEPT !.status = "archived"]
<1>1. row[p] \in Rows /\ (Shows(row[p]) => p \in Allowed)
  BY DEF Expire, Listed, Exists, IInv, TypeOK, RowsGranted
<1>2. \A new \in {extended, archived} : new \in Rows /\ (Shows(new) => p \in Allowed)
  BY <1>1 DEF Rows, Shows, Statuses, Times
<1>3. PICK new \in {extended, archived} : row' = [row EXCEPT ![p] = new]
  BY DEF Expire
<1>4. OthersTyped'
  <2>1. OthersTyped
    BY TypeParts DEF IInv
  <2>2. started' \in 0..MaxStarts /\ overlapped' \subseteq Properties
    BY <2>1, CountTyped, OverlapTyped DEF Expire, OthersTyped
  <2> QED BY <2>1, <2>2 DEF Expire, OthersTyped
<1> QED BY <1>2, <1>3, <1>4, RowStep DEF Expire

LEMMA ClockAdvances ==
    ASSUME IInv, NEW p \in Properties, Clock(p)
    PROVE  IInv'
<1> DEFINE out == [row[p] EXCEPT !.publishAt = "past"]
           in  == [row[p] EXCEPT !.unpublishAt = "past"]
<1>1. row[p] \in Rows /\ (Shows(row[p]) => p \in Allowed)
  BY DEF Clock, Exists, IInv, TypeOK, RowsGranted
<1>2. CASE row[p].publishAt = "future" /\ row' = [row EXCEPT ![p].publishAt = "past"]
  <2>1. out \in Rows /\ (Shows(out) => Shows(row[p])) /\ row' = [row EXCEPT ![p] = out]
    BY <1>1, <1>2 DEF Rows, Shows, Times
  <2>2. OthersTyped'
    BY TypeParts DEF IInv, Clock, OthersTyped, history
  <2> QED BY <1>1, <2>1, <2>2, RowStep DEF Clock, history
<1>3. CASE row[p].unpublishAt = "future" /\ row' = [row EXCEPT ![p].unpublishAt = "past"]
  <2>1. in \in Rows /\ (Shows(in) => Shows(row[p])) /\ row' = [row EXCEPT ![p] = in]
    BY <1>1, <1>3 DEF Rows, Shows, Times
  <2>2. OthersTyped'
    BY TypeParts DEF IInv, Clock, OthersTyped, history
  <2> QED BY <1>1, <2>1, <2>2, RowStep DEF Clock, history
<1> QED BY <1>2, <1>3 DEF Clock

LEMMA Restored ==
    ASSUME IInv, NEW p \in Properties, NEW publisher \in BOOLEAN, Restore(p, publisher)
    PROVE  IInv'
<1> DEFINE new == [row[p] EXCEPT !.from = None,
              !.status = IF row[p].from = "published" /\ ~publisher THEN "draft" ELSE row[p].from]
<1>1. row[p] \in Rows /\ row[p].from # None /\ (Shows(row[p]) => p \in Allowed)
  BY DEF Restore, Trashed, Exists, IInv, TypeOK, RowsGranted
<1>2. new \in Rows /\ (Shows(new) => Shows(row[p]))
  BY <1>1 DEF Rows, Shows, Statuses
<1>3. OthersTyped'
  <2>1. OthersTyped
    BY TypeParts DEF IInv
  <2>2. started' \in 0..MaxStarts /\ overlapped' \subseteq Properties
    BY <2>1, CountTyped, OverlapTyped DEF Restore, OthersTyped
  <2> QED BY <2>1, <2>2 DEF Restore, OthersTyped
<1> QED BY <1>1, <1>2, <1>3, RowStep DEF Restore

LEMMA NextInv == IInv /\ [Next]_vars => IInv'
<1> SUFFICES ASSUME IInv, [Next]_vars PROVE IInv'
  OBVIOUS
<1>1. ASSUME NEW p \in Properties, NEW r \in Requests, NEW b \in BOOLEAN,
             \/ \E s \in Statuses : \/ \E c \in Contents : StartSave(r, p, s, c, b)
                                    \/ StartStatus(r, p, s, b)
             \/ \E at, until \in {"none", "future"} : StartSchedule(r, p, at, until, b)
             \/ StartTrash(r, p, b)
             \/ StartRepair(r, p, b)
             \/ \E c \in Contents, publisher \in BOOLEAN : StartImport(r, p, c, b, publisher)
      PROVE  IInv'
  <2>1. ASSUME NEW s \in Statuses, NEW c \in Contents, StartSave(r, p, s, c, b) PROVE IInv'
    BY <2>1, SaveStarts
  <2>2. ASSUME NEW s \in Statuses, StartStatus(r, p, s, b) PROVE IInv'
    BY <2>2, StatusStarts
  <2>3. ASSUME NEW at \in {"none", "future"}, NEW until \in {"none", "future"},
               StartSchedule(r, p, at, until, b)
        PROVE  IInv'
    BY <2>3, ScheduleStarts DEF Times
  <2>4. CASE StartTrash(r, p, b)
    BY <2>4, TrashStarts
  <2>5. ASSUME NEW c \in Contents, NEW publisher \in BOOLEAN,
               StartImport(r, p, c, b, publisher)
        PROVE  IInv'
    BY <2>5, ImportStarts
  <2>6. CASE StartRepair(r, p, b)
    BY <2>6, RepairStarts
  <2> QED BY <1>1, <2>1, <2>2, <2>3, <2>4, <2>5, <2>6
<1>2. ASSUME NEW r \in Requests,
             \/ Upsert(r) \/ Reread(r) \/ RereadFails(r) \/ RecordPrice(r) \/ RecordChange(r)
             \/ SetStatus(r) \/ SetSchedule(r) \/ MoveToTrash(r) \/ Delete(r) \/ DeleteMedia(r)
             \/ Ask(r) \/ Publish(r) \/ Decide(r) \/ Import(r) \/ Repair(r) \/ Stop(r)
      PROVE  IInv'
  <2>1. CASE Upsert(r) \/ Reread(r) \/ RereadFails(r) \/ RecordPrice(r) \/ RecordChange(r)
    BY <2>1, Upserted, RereadGoesOn, RereadEnds, PriceIsRecorded, ChangeIsRecorded
  <2>2. CASE SetStatus(r) \/ SetSchedule(r) \/ MoveToTrash(r) \/ Delete(r) \/ DeleteMedia(r)
    BY <2>2, StatusIsSet, ScheduleIsSet, MovedToTrash, Deleted, MediaDeleted
  <2>3. CASE Ask(r) \/ Publish(r) \/ Decide(r) \/ Import(r) \/ Repair(r) \/ Stop(r)
    BY <2>3, Asked, Published, Decided, Imported, Repaired, Stopped
  <2> QED BY <1>2, <2>1, <2>2, <2>3
<1>3. CASE UNCHANGED vars
  BY <1>3 DEF vars, tables, history, IInv, TypeOK, RequestsSound, RowsGranted
<1>4. CASE Next
  <2>1. CASE \E p \in Properties, r \in Requests, b \in BOOLEAN :
               \/ \E s \in Statuses : \/ \E c \in Contents : StartSave(r, p, s, c, b)
                                      \/ StartStatus(r, p, s, b)
               \/ \E at, until \in {"none", "future"} : StartSchedule(r, p, at, until, b)
               \/ StartTrash(r, p, b)
               \/ StartRepair(r, p, b)
               \/ \E c \in Contents, publisher \in BOOLEAN : StartImport(r, p, c, b, publisher)
    BY <1>1, <2>1
  <2>2. CASE \E p \in Properties :
               \/ Expire(p) \/ Clock(p)
               \/ \E publisher \in BOOLEAN : Restore(p, publisher)
    BY <2>2, Expired, ClockAdvances, Restored
  <2>3. CASE \E p \in Properties, r \in Requests :
               StartPurge(r, p) \/ StartAsk(r, p)
    BY <2>3, PurgeStarts, AskStarts
  <2>4. CASE \E r \in Requests, v \in Reviews, d \in {"approve", "reject"} :
               StartDecide(r, v, d)
    BY <2>4, DecisionStarts
  <2>5. CASE \E r \in Requests :
             \/ Upsert(r) \/ Reread(r) \/ RereadFails(r) \/ RecordPrice(r) \/ RecordChange(r)
             \/ SetStatus(r) \/ SetSchedule(r) \/ MoveToTrash(r) \/ Delete(r) \/ DeleteMedia(r)
             \/ Ask(r) \/ Publish(r) \/ Decide(r) \/ Import(r) \/ Repair(r) \/ Stop(r)
    BY <1>2, <2>5
  <2> QED BY <1>4, <2>1, <2>2, <2>3, <2>4, <2>5 DEF Next
<1> QED BY <1>3, <1>4

THEOREM Invariance == Spec => []IInv
BY InitInv, NextInv, PTL DEF Spec

\* The tables and what the requests carry stay well typed (properties.ts,
\* admin-publication.ts).
THEOREM TypeCorrect == Spec => []TypeOK
<1>1. IInv => TypeOK
  BY DEF IInv
<1> QED BY <1>1, Invariance, PTL

\* Whatever becomes of a property, it is public only if someone who may publish
\* asked for it (properties.ts: the checks of property.publish), or an import or
\* a repair was to publish it for someone who may not (divar.ts).
THEOREM PublicIsGranted == Spec => []PublicWasGranted
<1>1. IInv => PublicWasGranted
  BY DEF IInv, RowsGranted, Shows, PublicWasGranted, Public, Listed, Exists
<1> QED BY <1>1, Invariance, PTL

\* A step that keeps every row, or changes one without touching what a row in
\* the trash remembers.
Remembers(p) == Trashed(p) /\ Trashed(p)' => row'[p].from = row[p].from

LEMMA SameRowsRemember ==
    ASSUME row' = row
    PROVE  \A x \in Properties : Remembers(x)
BY DEF Remembers, Trashed, Exists

\* What starts, records, decides or ends changes no row.
LEMMA QuietSteps ==
    ASSUME NEW r \in Requests,
           \/ \E work, grants : Begin(r, work, grants)
           \/ Reread(r) \/ RereadFails(r) \/ RecordPrice(r) \/ RecordChange(r)
           \/ DeleteMedia(r) \/ Ask(r) \/ Decide(r) \/ Stop(r)
    PROVE  row' = row
BY DEF Begin, Reread, RereadFails, RecordPrice, RecordChange, DeleteMedia, Ask, Decide, Stop,
       tables

LEMMA StartsRemember ==
    ASSUME NEW r \in Requests, NEW p, NEW b, NEW v,
           \/ \E s, c : StartSave(r, p, s, c, b) \/ StartStatus(r, p, s, b)
           \/ \E at, until : StartSchedule(r, p, at, until, b)
           \/ StartTrash(r, p, b) \/ StartPurge(r, p) \/ StartAsk(r, p)
           \/ StartRepair(r, p, b) \/ \E c, publisher : StartImport(r, p, c, b, publisher)
           \/ \E d : StartDecide(r, v, d)
    PROVE  \A x \in Properties : Remembers(x)
<1>1. \E work, grants : Begin(r, work, grants)
  BY DEF StartSave, StartStatus, StartSchedule, StartTrash, StartPurge, StartAsk, StartRepair,
         StartImport, StartDecide, Accept, Admit
<1> QED BY <1>1, QuietSteps, SameRowsRemember

\* A statement that writes a row leaves what it remembers, or the row is not,
\* or no longer, in the trash.
LEMMA WritesRemember ==
    ASSUME IInv, NEW r \in Requests,
           \/ Upsert(r) \/ SetStatus(r) \/ SetSchedule(r) \/ MoveToTrash(r) \/ Delete(r)
           \/ Publish(r) \/ Import(r) \/ Repair(r)
    PROVE  \A x \in Properties : Remembers(x)
<1>1. PICK p \in Properties : p = request[r].property
  BY Running, Shapes DEF IInv, At, Upsert, SetStatus, SetSchedule, MoveToTrash, Delete, Publish,
     Import, Repair
<1>2. row \in [Properties -> Rows \cup {None}]
  BY DEF IInv, TypeOK
<1>3. \A x \in Properties \ {p} : row'[x] = row[x]
  BY <1>1, <1>2 DEF Upsert, SetStatus, SetSchedule, MoveToTrash, Delete, Publish, Import, Repair,
     Write
<1>4. Trashed(p) => row[p] \in Rows
  BY <1>1, <1>2 DEF Trashed, Exists
<1>5. Remembers(p)
  <2>1. CASE Upsert(r)
    BY <1>1, <1>2, <1>4, <2>1 DEF Upsert, Remembers, Trashed, Exists, Rows
  <2>2. CASE SetStatus(r)
    BY <1>1, <1>2, <2>2 DEF SetStatus, Write, Remembers, Trashed, Listed
  <2>3. CASE SetSchedule(r)
    BY <1>1, <1>2, <2>3 DEF SetSchedule, Write, Remembers, Trashed, Listed
  <2>4. CASE MoveToTrash(r)
    BY <1>1, <1>2, <2>4 DEF MoveToTrash, Remembers, Trashed, Listed
  <2>5. CASE Delete(r)
    <3>1. Trashed(p) => row'[p] = None
      BY <1>1, <1>2, <2>5 DEF Delete
    <3>2. ~Trashed(p) => row' = row
      BY <1>1, <2>5 DEF Delete
    <3> QED BY <3>1, <3>2 DEF Remembers, Trashed, Exists
  <2>6. CASE Publish(r)
    BY <1>1, <1>2, <2>6 DEF Publish, Remembers, Trashed, Listed
  <2>7. CASE Import(r)
    BY <1>1, <1>2, <2>7 DEF Import, Remembers, Trashed
  <2>8. CASE Repair(r)
    BY <1>1, <1>2, <1>4, <2>8 DEF Repair, Write, Remembers, Trashed, Exists, Rows
  <2> QED BY <2>1, <2>2, <2>3, <2>4, <2>5, <2>6, <2>7, <2>8
<1>6. \A x \in Properties \ {p} : Remembers(x)
  BY <1>3 DEF Remembers, Trashed, Exists
<1> QED BY <1>5, <1>6

LEMMA OthersRemember ==
    ASSUME IInv, NEW p \in Properties,
           Expire(p) \/ Clock(p) \/ \E publisher \in BOOLEAN : Restore(p, publisher)
    PROVE  \A x \in Properties : Remembers(x)
<1>1. row \in [Properties -> Rows \cup {None}] /\ row[p] \in Rows
  BY DEF IInv, TypeOK, Expire, Clock, Restore, Trashed, Listed, Exists
<1>2. \A x \in Properties \ {p} : row'[x] = row[x]
  BY <1>1 DEF Expire, Clock, Restore
<1>3. row'[p].from = row[p].from \/ row'[p].from = None
  <2>1. CASE Expire(p)
    <3>1. \/ row'[p] = [row[p] EXCEPT !.status = "archived"]
          \/ row'[p] = [row[p] EXCEPT !.unpublishAt = "future"]
      BY <1>1, <2>1 DEF Expire
    <3> QED BY <1>1, <3>1 DEF Rows
  <2>2. CASE Clock(p)
    BY <1>1, <2>2 DEF Clock, Rows
  <2>3. CASE \E publisher \in BOOLEAN : Restore(p, publisher)
    <3>1. row'[p] = [row[p] EXCEPT !.from = None, !.status = "draft"]
            \/ row'[p] = [row[p] EXCEPT !.from = None, !.status = row[p].from]
      BY <1>1, <2>3 DEF Restore
    <3>2. \A old \in Rows : /\ [old EXCEPT !.from = None, !.status = "draft"].from = None
                            /\ [old EXCEPT !.from = None, !.status = old.from].from = None
      BY DEF Rows
    <3> QED BY <1>1, <3>1, <3>2
  <2> QED BY <2>1, <2>2, <2>3
<1>4. Remembers(p) /\ \A x \in Properties \ {p} : Remembers(x)
  BY <1>2, <1>3 DEF Remembers, Trashed, Exists
<1> QED BY <1>4

\* Neither a second deletion, nor a save from an old form, nor an import makes
\* the trash forget the status it was to give back (properties.ts: deleted_at
\* is null in the statements that move to the trash).
THEOREM TrashKeepsStatus == Spec => TrashRemembers
<1>1. IInv /\ [Next]_vars => [\A p \in Properties : Remembers(p)]_vars
  <2> SUFFICES ASSUME IInv, Next PROVE \A p \in Properties : Remembers(p)
    OBVIOUS
  <2>1. CASE \E p \in Properties, r \in Requests, b \in BOOLEAN :
               \/ \E s \in Statuses : \/ \E c \in Contents : StartSave(r, p, s, c, b)
                                      \/ StartStatus(r, p, s, b)
               \/ \E at, until \in {"none", "future"} : StartSchedule(r, p, at, until, b)
               \/ StartTrash(r, p, b)
               \/ StartRepair(r, p, b)
               \/ \E c \in Contents, publisher \in BOOLEAN : StartImport(r, p, c, b, publisher)
    BY <2>1, StartsRemember
  <2>2. CASE \E p \in Properties :
               \/ Expire(p) \/ Clock(p)
               \/ \E publisher \in BOOLEAN : Restore(p, publisher)
    BY <2>2, OthersRemember
  <2>3. CASE \E p \in Properties, r \in Requests :
               StartPurge(r, p) \/ StartAsk(r, p)
    BY <2>3, StartsRemember
  <2>4. CASE \E r \in Requests, v \in Reviews, d \in {"approve", "reject"} :
               StartDecide(r, v, d)
    BY <2>4, StartsRemember
  <2>5. CASE \E r \in Requests :
             \/ Upsert(r) \/ Reread(r) \/ RereadFails(r) \/ RecordPrice(r) \/ RecordChange(r)
             \/ SetStatus(r) \/ SetSchedule(r) \/ MoveToTrash(r) \/ Delete(r) \/ DeleteMedia(r)
             \/ Ask(r) \/ Publish(r) \/ Decide(r) \/ Import(r) \/ Repair(r) \/ Stop(r)
    BY <2>5, WritesRemember, QuietSteps, SameRowsRemember
  <2> QED BY <2>1, <2>2, <2>3, <2>4, <2>5 DEF Next
<1>2. [\A p \in Properties : Remembers(p)]_vars
          => [\A p \in Properties : Trashed(p) /\ Trashed(p)' => row'[p].from = row[p].from]_vars
  BY DEF Remembers
<1> QED BY <1>1, <1>2, Invariance, PTL DEF Spec, TrashRemembers

----------------------------------------------------------------------------
(* What a request has read of a property that nobody else deals with stays *)
(* true until it writes.                                                   *)

Deals(r, p) == request[r] # Idle /\ request[r].property = p
Alone(p)    == \A r, t \in Requests : Deals(r, p) /\ Deals(t, p) => r = t

\* What q has read or checked before its first write still holds of the row a.
ReadHolds(q, a) == q # Idle /\ q.step = "write" =>
    /\ q.op = "save" =>
          /\ IF q.read = None THEN a = None \/ a.from # None
             ELSE a # None /\ a.content = q.read.content
          /\ q.status = "published" =>
                \/ q.content.ready
                \/ a # None /\ a.from = None /\ a.status = "published"
    /\ q.op = "status" /\ q.status = "published" /\ a # None /\ a.from = None
          => a.content.ready
    /\ q.op = "purge" => a # None /\ a.from # None
    /\ q.op = "approve" /\ a # None => a.content.ready

Careful ==
    /\ \A r \in Requests :
          request[r] # Idle /\ request[r].op = "repair" => request[r].property \in imported
    /\ \A p \in Properties \ overlapped :
          /\ Alone(p)
          /\ \A r \in Requests : Deals(r, p) => ReadHolds(request[r], row[p])

\* A request begins with a work that it has checked.
Checked(work) ==
    /\ work.step = "write" /\ ReadHolds(work, row[work.property])
    /\ work.op = "repair" => work.property \in imported
    /\ work.op \in {"approve", "reject"} =>
          Pending(work.review) /\ review[work.review].property = work.property

Begins(r) == \E work \in Works, grants \in BOOLEAN : Begin(r, work, grants) /\ Checked(work)

Does(r) ==
    \/ Upsert(r) \/ Reread(r) \/ RereadFails(r) \/ RecordPrice(r) \/ RecordChange(r)
    \/ SetStatus(r) \/ SetSchedule(r) \/ MoveToTrash(r) \/ Delete(r) \/ DeleteMedia(r)
    \/ Ask(r) \/ Publish(r) \/ Decide(r) \/ Import(r) \/ Repair(r) \/ Stop(r)

\* The statements that need no request, and the clock.
Passes(p) == Expire(p) \/ Clock(p) \/ \E publisher \in BOOLEAN : Restore(p, publisher)

LEMMA SaveBegins ==
    ASSUME IInv, NEW r \in Requests, NEW p \in Properties, NEW status \in Statuses,
           NEW content \in Contents, NEW publisher \in BOOLEAN,
           StartSave(r, p, status, content, publisher)
    PROVE  Begins(r)
<1> DEFINE work == [op |-> "save", step |-> "write", property |-> p, read |-> ListedRow(p),
                    status |-> status, content |-> content]
<1>1. work \in Works /\ Begin(r, work, status = "published")
  BY DEF IInv, TypeOK, Works, Saves, ListedRow, StartSave, Accept
<1>2. IF ListedRow(p) = None THEN row[p] = None \/ row[p].from # None
      ELSE row[p] # None /\ row[p].content = ListedRow(p).content
  BY DEF ListedRow, Listed, Exists
<1>3. status = "published" =>
          content.ready \/ (row[p] # None /\ row[p].from = None /\ row[p].status = "published")
  BY DEF StartSave, Listed, Exists
<1>4. Checked(work)
  BY <1>2, <1>3 DEF Checked, ReadHolds
<1> QED BY <1>1, <1>4 DEF Begins

LEMMA PanelBegins ==
    ASSUME IInv, NEW r \in Requests, NEW p \in Properties, NEW b \in BOOLEAN,
           \/ \E status \in Statuses : StartStatus(r, p, status, b)
           \/ \E at, until \in {"none", "future"} : StartSchedule(r, p, at, until, b)
           \/ StartTrash(r, p, b) \/ StartPurge(r, p) \/ StartAsk(r, p) \/ StartRepair(r, p, b)
           \/ \E content \in Contents, publisher \in BOOLEAN :
                 StartImport(r, p, content, b, publisher)
    PROVE  Begins(r)
<1>1. ASSUME NEW status \in Statuses, StartStatus(r, p, status, b) PROVE Begins(r)
  <2> DEFINE work == [op |-> "status", step |-> "write", property |-> p, status |-> status]
  <2>1. work \in Works /\ Begin(r, work, status = "published")
    BY <1>1 DEF Works, Switches, StartStatus, Accept
  <2>2. Checked(work)
    BY <1>1 DEF Checked, ReadHolds, StartStatus, Listed, Exists
  <2> QED BY <2>1, <2>2 DEF Begins
<1>2. ASSUME NEW at \in {"none", "future"}, NEW until \in {"none", "future"},
             StartSchedule(r, p, at, until, b)
      PROVE  Begins(r)
  <2> DEFINE work == [op |-> "schedule", step |-> "write", property |-> p,
                      publishAt |-> at, unpublishAt |-> until]
  <2>1. work \in Works /\ Begin(r, work, at # "none")
    BY <1>2 DEF Works, Schedules, Times, StartSchedule, Accept
  <2>2. Checked(work)
    BY DEF Checked, ReadHolds
  <2> QED BY <2>1, <2>2 DEF Begins
<1>3. CASE StartTrash(r, p, b)
  <2> DEFINE work == [op |-> "trash", step |-> "write", property |-> p,
                      read |-> IF b THEN None ELSE row[p], bulk |-> b]
  <2>1. work \in Works /\ Begin(r, work, FALSE)
    BY <1>3 DEF IInv, TypeOK, Works, Trashings, StartTrash, Accept
  <2>2. Checked(work)
    BY DEF Checked, ReadHolds
  <2> QED BY <2>1, <2>2 DEF Begins
<1>4. CASE StartPurge(r, p)
  <2> DEFINE work == [op |-> "purge", step |-> "write", property |-> p]
  <2>1. work \in Works /\ Begin(r, work, FALSE)
    BY <1>4 DEF Works, Purges, StartPurge, Accept
  <2>2. Checked(work)
    BY <1>4 DEF Checked, ReadHolds, StartPurge, Trashed, Exists
  <2> QED BY <2>1, <2>2 DEF Begins
<1>5. CASE StartAsk(r, p)
  <2> DEFINE work == [op |-> "ask", step |-> "write", property |-> p]
  <2>1. work \in Works /\ Begin(r, work, FALSE)
    BY <1>5 DEF Works, Asks, StartAsk, Accept
  <2>2. Checked(work)
    BY DEF Checked, ReadHolds
  <2> QED BY <2>1, <2>2 DEF Begins
<1>6. CASE StartRepair(r, p, b)
  <2> DEFINE work == [op |-> "repair", step |-> "write", property |-> p]
  <2>1. work \in Works /\ Begin(r, work, b)
    BY <1>6 DEF Works, Repairs, StartRepair, Admit
  <2>2. Checked(work)
    BY <1>6 DEF Checked, ReadHolds, StartRepair
  <2> QED BY <2>1, <2>2 DEF Begins
<1>7. ASSUME NEW content \in Contents, NEW publisher \in BOOLEAN,
             StartImport(r, p, content, b, publisher)
      PROVE  Begins(r)
  <2> DEFINE work == [op |-> "import", step |-> "write", property |-> p, content |-> content,
                      status |-> IF b THEN "draft" ELSE "published"]
  <2>1. work \in Works /\ Begin(r, work, ~b /\ publisher)
    BY <1>7 DEF Works, Imports, Statuses, StartImport, Admit
  <2>2. Checked(work)
    BY DEF Checked, ReadHolds
  <2> QED BY <2>1, <2>2 DEF Begins
<1> QED BY <1>1, <1>2, <1>3, <1>4, <1>5, <1>6, <1>7

LEMMA DecisionBegins ==
    ASSUME IInv, NEW r \in Requests, NEW v \in Reviews,
           NEW decision \in {"approve", "reject"}, StartDecide(r, v, decision)
    PROVE  Begins(r)
<1> DEFINE work == [op |-> decision, step |-> "write", property |-> review[v].property,
                    review |-> v]
<1>1. Pending(v) /\ review[v] \in ReviewRows
  BY DEF StartDecide, Pending, IInv, TypeOK
<1>2. work \in Works
  BY <1>1 DEF Works, Decisions, ReviewRows
<1>3. Begin(r, work, decision = "approve")
  BY DEF StartDecide, Accept
<1>4. Checked(work)
  BY <1>1 DEF Checked, ReadHolds, StartDecide
<1> QED BY <1>2, <1>3, <1>4 DEF Begins

\* The three kinds of a step.
LEMMA Kinds ==
    ASSUME IInv, Next
    PROVE  \/ \E r \in Requests : Begins(r)
           \/ \E r \in Requests : Does(r)
           \/ \E p \in Properties : Passes(p)
<1>1. CASE \E p \in Properties, r \in Requests, b \in BOOLEAN :
             \/ \E s \in Statuses : \/ \E c \in Contents : StartSave(r, p, s, c, b)
                                    \/ StartStatus(r, p, s, b)
             \/ \E at, until \in {"none", "future"} : StartSchedule(r, p, at, until, b)
             \/ StartTrash(r, p, b)
             \/ StartRepair(r, p, b)
             \/ \E c \in Contents, publisher \in BOOLEAN : StartImport(r, p, c, b, publisher)
  BY <1>1, SaveBegins, PanelBegins
<1>2. CASE \E p \in Properties :
             \/ Expire(p) \/ Clock(p)
             \/ \E publisher \in BOOLEAN : Restore(p, publisher)
  BY <1>2 DEF Passes
<1>3. CASE \E p \in Properties, r \in Requests :
             StartPurge(r, p) \/ StartAsk(r, p)
  BY <1>3, PanelBegins
<1>4. CASE \E r \in Requests, v \in Reviews, d \in {"approve", "reject"} :
             StartDecide(r, v, d)
  BY <1>4, DecisionBegins
<1>5. CASE \E r \in Requests :
           \/ Upsert(r) \/ Reread(r) \/ RereadFails(r) \/ RecordPrice(r) \/ RecordChange(r)
           \/ SetStatus(r) \/ SetSchedule(r) \/ MoveToTrash(r) \/ Delete(r) \/ DeleteMedia(r)
           \/ Ask(r) \/ Publish(r) \/ Decide(r) \/ Import(r) \/ Repair(r) \/ Stop(r)
  BY <1>5 DEF Does
<1> QED BY <1>1, <1>2, <1>3, <1>4, <1>5 DEF Next

\* A request that goes on or ends deals with one property, overlaps nothing new,
\* and has written once it goes on.
LEMMA Moved ==
    ASSUME IInv, NEW r \in Requests, Does(r)
    PROVE  /\ request[r] \in Works /\ request[r] # Idle /\ request[r].property \in Properties
           /\ \E q \in Works \cup {Idle} :
                 /\ request' = [request EXCEPT ![r] = q]
                 /\ q # Idle => /\ q.property = request[r].property /\ q.op = request[r].op
                                /\ q.step # "write"
           /\ \A x \in Properties \ {request[r].property} : row'[x] = row[x]
           /\ overlapped' = overlapped /\ imported \subseteq imported'
<1>1. request[r] # Idle
  BY DEF Does, At, Upsert, Reread, RereadFails, RecordPrice, RecordChange, SetStatus,
         SetSchedule, MoveToTrash, Delete, DeleteMedia, Ask, Publish, Decide, Import, Repair, Stop
<1>2. request[r] \in Works /\ request[r].property \in Properties
  BY <1>1, Running, Shapes DEF IInv
<1>3. row \in [Properties -> Rows \cup {None}] /\ request \in [Requests -> Works \cup {Idle}]
  BY DEF IInv, TypeOK
<1> DEFINE p == request[r].property
           Frame == /\ \A x \in Properties \ {p} : row'[x] = row[x]
                    /\ overlapped' = overlapped /\ imported \subseteq imported'
           Goes  == \E q \in Works \cup {Idle} :
                       /\ request' = [request EXCEPT ![r] = q]
                       /\ q # Idle => q.property = p /\ q.op = request[r].op /\ q.step # "write"
<1>4. ASSUME Finish(r) PROVE Goes
  BY <1>4 DEF Finish
<1>5. CASE Upsert(r)
  <2>1. request[r] \in Saves
    BY <1>1, <1>2, <1>5, Shapes DEF Upsert, At
  <2>2. /\ [request[r] EXCEPT !.step = "reread"] \in Saves
        /\ [request[r] EXCEPT !.step = "reread"].step = "reread"
        /\ [request[r] EXCEPT !.step = "reread"].property = p
        /\ [request[r] EXCEPT !.step = "reread"].op = request[r].op
    BY <2>1 DEF Saves
  <2>3. request' = [request EXCEPT ![r] = [request[r] EXCEPT !.step = "reread"]]
    BY <1>5 DEF Upsert, GoOn
  <2>4. Goes
    BY <2>2, <2>3 DEF Works
  <2>5. Frame
    BY <1>2, <1>3, <1>5 DEF Upsert
  <2> QED BY <1>1, <1>2, <2>4, <2>5
<1>6. CASE Reread(r)
  <2> DEFINE step == IF PriceChanged(request[r].read, row[p].content) THEN "price" ELSE "change"
             q == [request[r] EXCEPT !.step = step, !.content = row[p].content]
  <2>1. request[r] \in Saves /\ row[p].content \in Contents
    BY <1>1, <1>2, <1>3, <1>6, Shapes DEF Reread, At, Listed, Exists, Rows
  <2>2. q \in Saves /\ q.step # "write" /\ q.property = p /\ q.op = request[r].op
    BY <2>1 DEF Saves
  <2>3. request' = [request EXCEPT ![r] = q]
    BY <1>3, <1>6, <2>1 DEF Reread, Saves
  <2> HIDE DEF q
  <2>4. Goes
    BY <2>2, <2>3 DEF Works
  <2>5. Frame
    BY <1>6 DEF Reread, tables, history
  <2> QED BY <1>1, <1>2, <2>4, <2>5
<1>7. CASE RecordPrice(r)
  <2> DEFINE q == [request[r] EXCEPT !.step = "change"]
  <2>1. request[r] \in Saves
    BY <1>1, <1>2, <1>7, Shapes DEF RecordPrice, At
  <2>2. q \in Saves /\ q.step # "write" /\ q.property = p /\ q.op = request[r].op
    BY <2>1 DEF Saves
  <2>3. request' = [request EXCEPT ![r] = q]
    BY <1>7 DEF RecordPrice, GoOn
  <2> HIDE DEF q
  <2>4. Goes
    BY <2>2, <2>3 DEF Works
  <2>5. Frame
    BY <1>7 DEF RecordPrice, history
  <2> QED BY <1>1, <1>2, <2>4, <2>5
<1>8. CASE RereadFails(r) \/ RecordChange(r) \/ DeleteMedia(r) \/ Ask(r) \/ Decide(r) \/ Stop(r)
  <2>1. Finish(r) /\ row' = row /\ overlapped' = overlapped /\ imported' = imported
    BY <1>8 DEF RereadFails, RecordChange, DeleteMedia, Ask, Decide, Stop, tables, history
  <2> QED BY <1>1, <1>2, <1>4, <2>1
<1>9. CASE SetStatus(r) \/ SetSchedule(r) \/ Repair(r)
  <2>1. \E new : Write(r, p, new)
    BY <1>9 DEF SetStatus, SetSchedule, Repair
  <2>2. Finish(r) /\ Frame
    BY <1>2, <1>3, <2>1 DEF Write, history
  <2> QED BY <1>1, <1>2, <1>4, <2>2
<1>10. CASE MoveToTrash(r)
  <2> DEFINE q == [request[r] EXCEPT !.step = "change"]
  <2>1. request[r] \in Trashings
    BY <1>1, <1>2, <1>10, Shapes DEF MoveToTrash, At
  <2>2. q \in Trashings /\ q.step # "write" /\ q.property = p /\ q.op = request[r].op
    BY <2>1 DEF Trashings
  <2>3. request' = [request EXCEPT ![r] = q] \/ Finish(r)
    BY <1>10 DEF MoveToTrash, GoOn
  <2> HIDE DEF q
  <2>4. Goes
    BY <1>4, <2>2, <2>3 DEF Works
  <2>5. Frame
    BY <1>2, <1>3, <1>10 DEF MoveToTrash, history
  <2> QED BY <1>1, <1>2, <2>4, <2>5
<1>11. CASE Delete(r)
  <2> DEFINE q == [request[r] EXCEPT !.step = "media"]
  <2>1. request[r] \in Purges
    BY <1>1, <1>2, <1>11, Shapes DEF Delete, At
  <2>2. q \in Purges /\ q.step # "write" /\ q.property = p /\ q.op = request[r].op
    BY <2>1 DEF Purges
  <2>3. request' = [request EXCEPT ![r] = q]
    BY <1>11 DEF Delete, GoOn
  <2> HIDE DEF q
  <2>4. Goes
    BY <2>2, <2>3 DEF Works
  <2>5. row' = [row EXCEPT ![p] = None] \/ row' = row
    BY <1>11 DEF Delete
  <2>6. Frame
    BY <1>2, <1>3, <1>11, <2>5 DEF Delete
  <2> QED BY <1>1, <1>2, <2>4, <2>6
<1>12. CASE Publish(r)
  <2> DEFINE q == [request[r] EXCEPT !.step = "decide"]
  <2>1. request[r] \in Decisions
    BY <1>1, <1>2, <1>12, Shapes DEF Publish, At
  <2>2. q \in Decisions /\ q.step # "write" /\ q.property = p /\ q.op = request[r].op
    BY <2>1 DEF Decisions
  <2>3. request' = [request EXCEPT ![r] = q]
    BY <1>12 DEF Publish, GoOn
  <2> HIDE DEF q
  <2>4. Goes
    BY <2>2, <2>3 DEF Works
  <2>5. Frame
    BY <1>2, <1>3, <1>12 DEF Publish
  <2> QED BY <1>1, <1>2, <2>4, <2>5
<1>13. CASE Import(r)
  <2>1. Finish(r)
    BY <1>13 DEF Import
  <2>2. Frame
    BY <1>2, <1>3, <1>13 DEF Import
  <2> QED BY <1>1, <1>2, <1>4, <2>1, <2>2
<1> QED BY <1>5, <1>6, <1>7, <1>8, <1>9, <1>10, <1>11, <1>12, <1>13 DEF Does

\* One request begins, goes on or ends.
LEMMA CarefulStep ==
    ASSUME IInv, Careful, NEW r \in Requests, NEW p \in Properties,
           NEW q \in Works \cup {Idle}, request' = [request EXCEPT ![r] = q],
           request[r] # Idle => request[r].property = p,
           q # Idle => q.property = p,
           request[r] = Idle /\ Busy(p) => p \in overlapped',
           \A x \in Properties \ {p} : row'[x] = row[x],
           overlapped \subseteq overlapped', imported \subseteq imported',
           q # Idle /\ q.op = "repair" => p \in imported,
           ReadHolds(q, row'[p])
    PROVE  Careful'
<1>1. request'[r] = q /\ \A t \in Requests \ {r} : request'[t] = request[t]
  BY DEF IInv, TypeOK
<1>2. \A t \in Requests : request'[t] # Idle /\ request'[t].op = "repair"
                             => request'[t].property \in imported'
  BY <1>1 DEF Careful
<1>3. ASSUME NEW x \in Properties \ overlapped'
      PROVE  /\ Alone(x)'
             /\ \A t \in Requests : Deals(t, x)' => ReadHolds(request'[t], row'[x])
  <2>1. Alone(x) /\ \A t \in Requests : Deals(t, x) => ReadHolds(request[t], row[x])
    BY <1>3 DEF Careful
  <2>2. CASE x = p
    <3>1. \A t \in Requests \ {r} : ~Deals(t, p)
      BY <1>3, <2>1, <2>2 DEF Alone, Deals, Busy
    <3>2. \A t \in Requests \ {r} : ~Deals(t, p)'
      BY <1>1, <3>1 DEF Deals
    <3> QED BY <1>1, <2>2, <3>2 DEF Alone
  <2>3. CASE x # p
    <3>1. \A t \in Requests : Deals(t, x)' => t # r /\ Deals(t, x) /\ request'[t] = request[t]
      BY <1>1, <2>3 DEF Deals
    <3>2. row'[x] = row[x]
      BY <2>3
    <3> QED BY <2>1, <3>1, <3>2 DEF Alone
  <2> QED BY <2>2, <2>3
<1> QED BY <1>2, <1>3 DEF Careful

LEMMA BeginsCareful ==
    ASSUME IInv, Careful, NEW r \in Requests, Begins(r)
    PROVE  Careful'
<1>1. PICK work \in Works, grants \in BOOLEAN : Begin(r, work, grants) /\ Checked(work)
  BY DEF Begins
<1> DEFINE p == work.property
<1>2. p \in Properties
  BY Shapes
<1>3. /\ row' = row /\ imported' = imported /\ request[r] = Idle
      /\ request' = [request EXCEPT ![r] = work] /\ Overlap(p)
  BY <1>1 DEF Begin, tables
<1>4. overlapped \subseteq overlapped' /\ (Busy(p) => p \in overlapped')
  BY <1>3 DEF Overlap
<1>5. ReadHolds(work, row'[p]) /\ (work.op = "repair" => p \in imported)
  BY <1>1, <1>3 DEF Checked
<1> QED BY <1>2, <1>3, <1>4, <1>5, CarefulStep

LEMMA DoesCareful ==
    ASSUME IInv, Careful, NEW r \in Requests, Does(r)
    PROVE  Careful'
<1> DEFINE p == request[r].property
<1>1. PICK q \in Works \cup {Idle} :
         /\ request' = [request EXCEPT ![r] = q]
         /\ q # Idle => q.property = p /\ q.op = request[r].op /\ q.step # "write"
  BY Moved
<1>2. /\ request[r] # Idle /\ p \in Properties /\ overlapped' = overlapped
      /\ imported \subseteq imported' /\ \A x \in Properties \ {p} : row'[x] = row[x]
  BY Moved
<1>3. q # Idle /\ q.op = "repair" => p \in imported
  BY <1>1, <1>2 DEF Careful
<1>4. ReadHolds(q, row'[p])
  BY <1>1 DEF ReadHolds
<1> QED BY <1>1, <1>2, <1>3, <1>4, CarefulStep

\* Nobody else's statement writes to a property a request deals with, but the clock.
LEMMA Passed ==
    ASSUME IInv, NEW p \in Properties, Passes(p)
    PROVE  /\ request' = request /\ imported' = imported /\ review' = review
           /\ UNCHANGED <<prices, recorded, overwritten, stored, purged, broken, acted>>
           /\ overlapped \subseteq overlapped'
           /\ \A x \in Properties \ {p} : row'[x] = row[x]
           /\ row[p] \in Rows /\ row'[p] \in Rows /\ row'[p].content = row[p].content
           /\ Busy(p) /\ p \notin overlapped' =>
                 row'[p].status = row[p].status /\ row'[p].from = row[p].from
<1>1. row \in [Properties -> Rows \cup {None}] /\ row[p] \in Rows
  BY DEF Passes, Expire, Clock, Restore, Trashed, Listed, Exists, IInv, TypeOK
<1>2. CASE Expire(p)
  <2>1. /\ UNCHANGED <<request, imported, review, prices, recorded, overwritten, stored, purged,
                       broken, acted>>
        /\ Overlap(p)
    BY <1>2 DEF Expire
  <2>2. \E new \in {[row[p] EXCEPT !.unpublishAt = "future"],
                    [row[p] EXCEPT !.status = "archived"]} : row' = [row EXCEPT ![p] = new]
    BY <1>2 DEF Expire
  <2>3. \A new \in {[row[p] EXCEPT !.unpublishAt = "future"],
                    [row[p] EXCEPT !.status = "archived"]} :
           new \in Rows /\ new.content = row[p].content
    BY <1>1 DEF Rows, Times, Statuses
  <2> QED BY <1>1, <2>1, <2>2, <2>3 DEF Overlap
<1>3. CASE Clock(p)
  <2>1. UNCHANGED <<request, imported, review, prices, recorded, overwritten, stored, purged,
                    broken, acted, overlapped>>
    BY <1>3 DEF Clock, history
  <2>2. \E new \in {[row[p] EXCEPT !.publishAt = "past"],
                    [row[p] EXCEPT !.unpublishAt = "past"]} : row' = [row EXCEPT ![p] = new]
    BY <1>3 DEF Clock
  <2>3. \A new \in {[row[p] EXCEPT !.publishAt = "past"],
                    [row[p] EXCEPT !.unpublishAt = "past"]} :
           /\ new \in Rows /\ new.content = row[p].content
           /\ new.status = row[p].status /\ new.from = row[p].from
    BY <1>1 DEF Rows, Times
  <2> QED BY <1>1, <2>1, <2>2, <2>3
<1>4. CASE \E publisher \in BOOLEAN : Restore(p, publisher)
  <2>1. /\ UNCHANGED <<request, imported, review, prices, recorded, overwritten, stored, purged,
                       broken, acted>>
        /\ Overlap(p) /\ row[p].from # None
    BY <1>4 DEF Restore, Trashed
  <2>2. \E s \in {"draft", row[p].from} :
           row' = [row EXCEPT ![p] = [row[p] EXCEPT !.from = None, !.status = s]]
    BY <1>4 DEF Restore
  <2>3. \A s \in {"draft", row[p].from} :
           LET new == [row[p] EXCEPT !.from = None, !.status = s] IN
           new \in Rows /\ new.content = row[p].content
    BY <1>1, <2>1 DEF Rows, Statuses
  <2> QED BY <1>1, <2>1, <2>2, <2>3 DEF Overlap
<1> QED BY <1>2, <1>3, <1>4 DEF Passes

LEMMA PassesCareful ==
    ASSUME IInv, Careful, NEW p \in Properties, Passes(p)
    PROVE  Careful'
<1>1. /\ request' = request /\ imported' = imported /\ overlapped \subseteq overlapped'
      /\ \A x \in Properties \ {p} : row'[x] = row[x]
      /\ row[p] \in Rows /\ row'[p] \in Rows /\ row'[p].content = row[p].content
      /\ Busy(p) /\ p \notin overlapped' =>
            row'[p].status = row[p].status /\ row'[p].from = row[p].from
  BY Passed
<1>2. ASSUME NEW x \in Properties \ overlapped', NEW t \in Requests, Deals(t, x)
      PROVE  ReadHolds(request[t], row'[x])
  <2>1. ReadHolds(request[t], row[x])
    BY <1>1, <1>2 DEF Careful
  <2>2. CASE x = p
    <3>1. Busy(p)
      BY <1>2, <2>2 DEF Deals, Busy
    <3> QED BY <1>1, <1>2, <2>1, <2>2, <3>1 DEF ReadHolds
  <2> QED BY <1>1, <2>1, <2>2
<1> QED BY <1>1, <1>2 DEF Careful, Alone, Deals

\* A property that no two requests ever dealt with at once is as the one request at
\* it has read and checked it.
THEOREM CareIsTaken == Spec => []Careful
<1>1. Init => Careful
  BY DEF Init, Careful, Alone, Deals
<1>2. IInv /\ Careful /\ [Next]_vars => Careful'
  <2> SUFFICES ASSUME IInv, Careful, [Next]_vars PROVE Careful'
    OBVIOUS
  <2>1. CASE UNCHANGED vars
    BY <2>1 DEF vars, tables, history, Careful, Alone, Deals
  <2> QED BY <2>1, Kinds, BeginsCareful, DoesCareful, PassesCareful
<1> QED BY <1>1, <1>2, Invariance, PTL DEF Spec

----------------------------------------------------------------------------
\* A listed property that becomes published is complete.
Completes(p) ==
    /\ Listed(p)' /\ row'[p].status = "published"
    /\ ~Exists(p) \/ (Listed(p) /\ row[p].status # "published")
    => row'[p].content.ready

LEMMA SameCompletes ==
    ASSUME NEW p, row'[p] = row[p]
    PROVE  Completes(p)
BY DEF Completes, Listed, Exists

LEMMA DoesComplete ==
    ASSUME IInv, Careful, NEW r \in Requests, Does(r), NEW p, p = request[r].property,
           p \notin overlapped \cup imported'
    PROVE  Completes(p)
<1>1. /\ request[r] \in Works /\ request[r] # Idle /\ p \in Properties
      /\ imported \subseteq imported' /\ Deals(r, p)
  BY Moved DEF Deals
<1>2. row \in [Properties -> Rows \cup {None}] /\ (Exists(p) => row[p] \in Rows)
  BY <1>1 DEF IInv, TypeOK, Exists
<1>3. ReadHolds(request[r], row[p])
  BY <1>1 DEF Careful
<1>4. CASE Upsert(r)
  <2> DEFINE w == request[r]
  <2>1. w \in Saves /\ w.op = "save" /\ w.step = "write"
    BY <1>1, <1>4, Shapes DEF Upsert, At
  <2>2. w.status = "published" =>
           w.content.ready \/ (row[p] # None /\ row[p].from = None /\ row[p].status = "published")
    BY <1>1, <1>3, <2>1 DEF ReadHolds
  <2>3. row'[p] = IF Exists(p)
                  THEN [row[p] EXCEPT !.status = w.status, !.content = w.content]
                  ELSE NewRow(w.status, w.content)
    BY <1>1, <1>2, <1>4 DEF Upsert
  <2>4. row'[p].status = w.status /\ row'[p].content = w.content
    BY <1>2, <2>3 DEF Rows, NewRow
  <2> QED BY <2>2, <2>4 DEF Completes, Listed, Exists
<1>5. CASE SetStatus(r)
  <2> DEFINE s == request[r].status
  <2>1. request[r].op = "status" /\ request[r].step = "write"
    BY <1>5 DEF SetStatus, At
  <2>2. CASE Listed(p)
    <3>1. row'[p].status = s /\ row'[p].content = row[p].content
      BY <1>1, <1>2, <1>5, <2>2 DEF SetStatus, Write, Listed, Rows
    <3>2. s = "published" => row[p].content.ready
      BY <1>1, <1>3, <2>1, <2>2 DEF ReadHolds, Listed, Exists
    <3> QED BY <3>1, <3>2 DEF Completes
  <2>3. CASE ~Listed(p)
    <3>1. row'[p] = row[p]
      BY <1>1, <1>2, <1>5, <2>3 DEF SetStatus, Write
    <3> QED BY <3>1, SameCompletes
  <2> QED BY <2>2, <2>3
<1>6. CASE SetSchedule(r)
  <2>1. CASE Listed(p)
    <3>1. row'[p].status = row[p].status
      BY <1>1, <1>2, <1>6, <2>1 DEF SetSchedule, Write, Listed, Rows
    <3> QED BY <2>1, <3>1 DEF Completes, Listed, Exists
  <2>2. CASE ~Listed(p)
    <3>1. row'[p] = row[p]
      BY <1>1, <1>2, <1>6, <2>2 DEF SetSchedule, Write
    <3> QED BY <3>1, SameCompletes
  <2> QED BY <2>1, <2>2
<1>7. CASE MoveToTrash(r)
  <2>1. CASE Listed(p)
    <3>1. row'[p].status = "archived"
      BY <1>1, <1>2, <1>7, <2>1 DEF MoveToTrash, Listed, Bin, Rows
    <3> QED BY <3>1 DEF Completes
  <2>2. CASE ~Listed(p)
    <3>1. row' = row
      BY <1>7, <2>2 DEF MoveToTrash
    <3> QED BY <3>1, SameCompletes
  <2> QED BY <2>1, <2>2
<1>8. CASE Delete(r)
  <2>1. row'[p] = None \/ row' = row
    BY <1>1, <1>2, <1>8 DEF Delete
  <2> QED BY <2>1, SameCompletes DEF Completes, Listed, Exists
<1>9. CASE Publish(r)
  <2>1. request[r].op = "approve" /\ request[r].step = "write"
    BY <1>9 DEF Publish, At
  <2>2. CASE Listed(p)
    <3>1. row'[p].content = row[p].content
      BY <1>1, <1>2, <1>9, <2>2 DEF Publish, Listed, Rows
    <3> QED BY <1>1, <1>3, <2>1, <2>2, <3>1 DEF ReadHolds, Completes, Listed, Exists
  <2>3. CASE ~Listed(p)
    <3>1. row' = row
      BY <1>9, <2>3 DEF Publish
    <3> QED BY <3>1, SameCompletes
  <2> QED BY <2>2, <2>3
<1>10. CASE Import(r)
  <2>1. row' = row \/ p \in imported'
    BY <1>10 DEF Import
  <2> QED BY <2>1, SameCompletes
<1>11. CASE Repair(r)
  <2>1. request[r].op = "repair"
    BY <1>11 DEF Repair, At
  <2> QED BY <1>1, <2>1 DEF Careful
<1>12. CASE \/ Reread(r) \/ RereadFails(r) \/ RecordPrice(r) \/ RecordChange(r)
            \/ DeleteMedia(r) \/ Ask(r) \/ Decide(r) \/ Stop(r)
  <2>1. row' = row
    BY <1>12, QuietSteps
  <2> QED BY <2>1, SameCompletes
<1> QED BY <1>4, <1>5, <1>6, <1>7, <1>8, <1>9, <1>10, <1>11, <1>12 DEF Does

LEMMA PassesComplete ==
    ASSUME IInv, NEW p \in Properties, Passes(p)
    PROVE  Completes(p)
<1>1. row \in [Properties -> Rows \cup {None}] /\ row[p] \in Rows
  BY Passed DEF IInv, TypeOK
<1>2. CASE Expire(p)
  <2>1. \/ row'[p] = [row[p] EXCEPT !.unpublishAt = "future"]
        \/ row'[p] = [row[p] EXCEPT !.status = "archived"]
    BY <1>1, <1>2 DEF Expire
  <2>2. row'[p].status \in {row[p].status, "archived"}
    BY <1>1, <2>1 DEF Rows
  <2> QED BY <1>1, <2>2 DEF Completes, Listed, Exists
<1>3. CASE Clock(p)
  <2>1. \/ row'[p] = [row[p] EXCEPT !.unpublishAt = "past"]
        \/ row'[p] = [row[p] EXCEPT !.publishAt = "past"]
    BY <1>1, <1>3 DEF Clock
  <2>2. row'[p].status = row[p].status
    BY <1>1, <2>1 DEF Rows
  <2> QED BY <1>1, <2>2 DEF Completes, Listed, Exists
<1>4. CASE \E publisher \in BOOLEAN : Restore(p, publisher)
  BY <1>4 DEF Restore, Trashed, Completes, Listed
<1> QED BY <1>2, <1>3, <1>4 DEF Passes

\* From the panel, one request at a time, only a complete property becomes published
\* (getPublishReadiness before a save, a bulk change or an approval).
THEOREM OnlyCompleteIsPublished == Spec => PublishedWhenReady
<1>1. IInv /\ Careful /\ [Next]_vars
         => [\A p \in Properties \ (imported' \cup overlapped') : Completes(p)]_vars
  <2> SUFFICES ASSUME IInv, Careful, Next,
                      NEW p \in Properties \ (imported' \cup overlapped')
               PROVE  Completes(p)
    OBVIOUS
  <2>1. ASSUME NEW r \in Requests, Begins(r) PROVE Completes(p)
    <3>1. row' = row
      BY <2>1 DEF Begins, Begin, tables
    <3> QED BY <3>1, SameCompletes
  <2>2. ASSUME NEW r \in Requests, Does(r) PROVE Completes(p)
    <3>1. overlapped' = overlapped /\ (p # request[r].property => row'[p] = row[p])
      BY <2>2, Moved
    <3>2. CASE p = request[r].property
      BY <2>2, <3>1, <3>2, DoesComplete
    <3> QED BY <3>1, <3>2, SameCompletes
  <2>3. ASSUME NEW x \in Properties, Passes(x) PROVE Completes(p)
    <3>1. p # x => row'[p] = row[p]
      BY <2>3, Passed
    <3> QED BY <2>3, <3>1, PassesComplete, SameCompletes
  <2> QED BY <2>1, <2>2, <2>3, Kinds
<1>2. [\A p \in Properties \ (imported' \cup overlapped') : Completes(p)]_vars
         => [\A p \in Properties \ (imported' \cup overlapped') :
                /\ Listed(p)' /\ row'[p].status = "published"
                /\ ~Exists(p) \/ (Listed(p) /\ row[p].status # "published")
                => row'[p].content.ready]_vars
  BY DEF Completes
<1> QED BY <1>1, <1>2, Invariance, CareIsTaken, PTL DEF Spec, PublishedWhenReady

----------------------------------------------------------------------------
\* The images of a property that no two requests dealt with at once are in the store
\* until its row is gone, and a deletion comes to them only then.
Purging(r, p) == Deals(r, p) /\ request[r].op = "purge" /\ request[r].step = "media"

ImagesHold == \A p \in Properties \ overlapped :
    /\ \A r \in Requests : Purging(r, p) => p \in purged
    /\ p \notin purged => p \in stored

\* A step that deletes no image, no row and starts no deletion of images.
LEMMA ImagesStep ==
    ASSUME ImagesHold, overlapped \subseteq overlapped', purged \subseteq purged',
           stored \subseteq stored',
           \A p \in Properties \ overlapped', t \in Requests :
               Purging(t, p)' => Purging(t, p) \/ p \in purged'
    PROVE  ImagesHold'
BY DEF ImagesHold

LEMMA DoesHoldImages ==
    ASSUME IInv, Careful, ImagesHold, NEW r \in Requests, Does(r)
    PROVE  ImagesHold'
<1> DEFINE p == request[r].property
<1>1. /\ request[r] \in Works /\ request[r] # Idle /\ p \in Properties
      /\ overlapped' = overlapped /\ Deals(r, p)
  BY Moved DEF Deals
<1>2. PICK q \in Works \cup {Idle} :
         /\ request' = [request EXCEPT ![r] = q]
         /\ q # Idle => q.property = p /\ q.op = request[r].op /\ q.step # "write"
  BY Moved
<1>3. request'[r] = q /\ \A t \in Requests \ {r} : request'[t] = request[t]
  BY <1>2 DEF IInv, TypeOK
<1>4. \A x \in Properties, t \in Requests \ {r} : Purging(t, x)' => Purging(t, x)
  BY <1>3 DEF Purging, Deals
<1>5. CASE Delete(r)
  <2>1. request[r].op = "purge" /\ request[r].step = "write" /\ stored' = stored
    BY <1>5 DEF Delete, At
  <2>2. p \notin overlapped => Trashed(p)
    BY <1>1, <2>1 DEF Careful, ReadHolds, Trashed, Exists
  <2>3. purged \subseteq purged' /\ (p \notin overlapped => p \in purged')
    BY <1>5, <2>2 DEF Delete
  <2>4. \A x \in Properties : Purging(r, x)' => x = p
    BY <1>2, <1>3 DEF Purging, Deals
  <2> QED BY <1>1, <1>4, <2>1, <2>3, <2>4, ImagesStep
<1>6. CASE DeleteMedia(r)
  <2>1. stored' = stored \ {p} /\ purged' = purged /\ request' = [request EXCEPT ![r] = Idle]
    BY <1>6 DEF DeleteMedia, Finish, history
  <2>2. p \notin overlapped => p \in purged
    BY <1>1, <1>6 DEF ImagesHold, Purging, DeleteMedia, At
  <2>3. \A x \in Properties : ~Purging(r, x)'
    BY <2>1 DEF Purging, Deals, IInv, TypeOK
  <2> QED BY <1>1, <1>4, <2>1, <2>2, <2>3 DEF ImagesHold
<1>7. CASE ~Delete(r) /\ ~DeleteMedia(r)
  <2>1. stored \subseteq stored' /\ purged' = purged
    BY <1>7 DEF Does, Upsert, Reread, RereadFails, RecordPrice, RecordChange, SetStatus,
       SetSchedule, MoveToTrash, Ask, Publish, Decide, Import, Repair, Stop, Write, tables, history
  <2>2. request[r].op = "purge" => q = Idle
    <3>1. CASE Stop(r)
      BY <1>3, <3>1 DEF Stop, Finish, IInv, TypeOK
    <3>2. CASE ~Stop(r)
      BY <1>7, <3>2 DEF Does, Upsert, Reread, RereadFails, RecordPrice, RecordChange, SetStatus,
         SetSchedule, MoveToTrash, Ask, Publish, Decide, Import, Repair, At
    <3> QED BY <3>1, <3>2
  <2>3. \A x \in Properties : ~Purging(r, x)'
    BY <1>2, <1>3, <2>2 DEF Purging, Deals
  <2> QED BY <1>1, <1>4, <2>1, <2>3, ImagesStep
<1> QED BY <1>5, <1>6, <1>7

\* The images of a property that was never deleted for good are kept, in the trash
\* too, unless it was restored during its deletion.
THEOREM ImagesAreKept == Spec => []MediaKept
<1>1. Init => ImagesHold
  BY DEF Init, ImagesHold, Purging, Deals
<1>2. IInv /\ Careful /\ ImagesHold /\ [Next]_vars => ImagesHold'
  <2> SUFFICES ASSUME IInv, Careful, ImagesHold, [Next]_vars PROVE ImagesHold'
    OBVIOUS
  <2>1. CASE UNCHANGED vars
    BY <2>1 DEF vars, tables, history, ImagesHold, Purging, Deals
  <2>2. ASSUME NEW r \in Requests, Begins(r) PROVE ImagesHold'
    <3>1. PICK work \in Works, grants \in BOOLEAN : Begin(r, work, grants) /\ Checked(work)
      BY <2>2 DEF Begins
    <3>2. /\ UNCHANGED <<stored, purged>> /\ work.step = "write"
          /\ request' = [request EXCEPT ![r] = work]
          /\ overlapped \subseteq overlapped'
      BY <3>1 DEF Begin, Checked, Overlap, tables
    <3>3. \A x \in Properties, t \in Requests : Purging(t, x)' => Purging(t, x)
      BY <3>2 DEF Purging, Deals, IInv, TypeOK
    <3> QED BY <3>2, <3>3, ImagesStep
  <2>3. ASSUME NEW x \in Properties, Passes(x) PROVE ImagesHold'
    <3>1. request' = request /\ UNCHANGED <<stored, purged>> /\ overlapped \subseteq overlapped'
      BY <2>3, Passed
    <3> QED BY <3>1, ImagesStep DEF Purging, Deals
  <2> QED BY <2>1, <2>2, <2>3, Kinds, DoesHoldImages
<1>3. ImagesHold => MediaKept
  BY DEF ImagesHold, MediaKept
<1> QED BY <1>1, <1>2, <1>3, Invariance, CareIsTaken, PTL DEF Spec

----------------------------------------------------------------------------
\* A review of a property that no two requests dealt with at once is pending while a
\* request decides it, and one whose approval has published is approved, or gone with
\* its property, or about to be.
Deciding(r, v)  == /\ request[r] # Idle /\ request[r].op \in {"approve", "reject"}
                   /\ request[r].review = v
Approving(r, v) == Deciding(r, v) /\ request[r].op = "approve" /\ request[r].step = "decide"

ReviewsHold ==
    /\ \A r \in Requests, v \in Reviews : Deciding(r, v) =>
          /\ review[v].property = request[r].property
          /\ request[r].property \notin overlapped => review[v].status = "pending"
    /\ \A v \in acted :
          /\ review[v] # None
          /\ review[v].property \notin overlapped \cup broken =>
                \/ review[v].status \in {"approved", "gone"}
                \/ \E r \in Requests : Approving(r, v)

\* No review changes, and nobody forgets one whose approval has published.
LEMMA ReviewsStep ==
    ASSUME IInv, ReviewsHold, review' = review, acted' = acted,
           overlapped \subseteq overlapped', broken \subseteq broken',
           \A t \in Requests, v \in Reviews : Deciding(t, v)' =>
               \/ Deciding(t, v) /\ request'[t].property = request[t].property
               \/ Pending(v) /\ review[v].property = request'[t].property,
           \A t \in Requests, v \in Reviews :
               Approving(t, v) => Approving(t, v)' \/ review[v].property \in broken'
    PROVE  ReviewsHold'
<1>1. ASSUME NEW t \in Requests, NEW v \in Reviews, Deciding(t, v)'
      PROVE  /\ review[v].property = request'[t].property
             /\ request'[t].property \notin overlapped' => review[v].status = "pending"
  BY <1>1 DEF ReviewsHold, Pending
<1>2. ASSUME NEW v \in acted
      PROVE  /\ review[v] # None
             /\ review[v].property \notin overlapped' \cup broken' =>
                   \/ review[v].status \in {"approved", "gone"}
                   \/ \E t \in Requests : Approving(t, v)'
  BY <1>2 DEF ReviewsHold, IInv, TypeOK
<1> QED BY <1>1, <1>2 DEF ReviewsHold

LEMMA AskedReviews ==
    ASSUME IInv, ReviewsHold, NEW r \in Requests, Ask(r)
    PROVE  ReviewsHold'
<1>1. /\ request' = [request EXCEPT ![r] = Idle]
      /\ acted' = acted /\ overlapped' = overlapped /\ broken' = broken
      /\ request[r] # Idle /\ request[r].op = "ask"
  BY DEF Ask, Finish, history, At
<1>2. \A t \in Requests, v \in Reviews : Deciding(t, v) => review[v] # None
  BY DEF Deciding, IInv, RequestsSound, Sound
<1>3. \A t \in Requests, v \in Reviews :
         /\ Deciding(t, v)' => Deciding(t, v) /\ request'[t] = request[t]
         /\ Approving(t, v) => Approving(t, v)'
  BY <1>1 DEF Deciding, Approving, IInv, TypeOK
<1>4. \A v \in Reviews : review[v] # None => review'[v] = review[v]
  BY DEF Ask, IInv, TypeOK
<1>5. acted \subseteq Reviews
  BY DEF IInv, TypeOK
<1>6. ASSUME NEW t \in Requests, NEW v \in Reviews, Deciding(t, v)'
      PROVE  /\ review'[v].property = request'[t].property
             /\ request'[t].property \notin overlapped => review'[v].status = "pending"
  BY <1>2, <1>3, <1>4, <1>6 DEF ReviewsHold
<1>7. ASSUME NEW v \in acted
      PROVE  /\ review'[v] # None
             /\ review'[v].property \notin overlapped \cup broken =>
                   \/ review'[v].status \in {"approved", "gone"}
                   \/ \E t \in Requests : Approving(t, v)'
  BY <1>3, <1>4, <1>5, <1>7 DEF ReviewsHold
<1> QED BY <1>1, <1>6, <1>7 DEF ReviewsHold

LEMMA PublishedReviews ==
    ASSUME IInv, ReviewsHold, NEW r \in Requests, Publish(r)
    PROVE  ReviewsHold'
<1> DEFINE w == request[r]  q == [w EXCEPT !.step = "decide"]
<1>1. w # Idle /\ w.op = "approve" /\ w.step = "write"
  BY DEF Publish, At
<1>2. w \in Decisions /\ w.review \in Reviews
  BY <1>1, Running, Shapes DEF IInv, Decisions
<1>3. /\ q # Idle /\ q.op = "approve" /\ q.step = "decide" /\ q.review = w.review
      /\ q.property = w.property
  BY <1>1, <1>2 DEF Decisions, Idle
<1>4. /\ request' = [request EXCEPT ![r] = q]
      /\ review' = review /\ overlapped' = overlapped /\ broken' = broken
      /\ acted \subseteq acted' /\ acted' \subseteq acted \cup {w.review}
  BY DEF Publish, GoOn
<1> HIDE DEF q
<1>5. request'[r] = q /\ \A t \in Requests \ {r} : request'[t] = request[t]
  BY <1>4 DEF IInv, TypeOK
<1>6. \A t \in Requests, v \in Reviews :
         /\ Deciding(t, v)' => Deciding(t, v) /\ request'[t].property = request[t].property
         /\ Approving(t, v) => Approving(t, v)'
  BY <1>1, <1>3, <1>5 DEF Deciding, Approving
<1>7. PICK x \in Reviews : x = w.review /\ Approving(r, x)' /\ review[x] # None
  BY <1>1, <1>2, <1>3, <1>5 DEF Approving, Deciding, IInv, RequestsSound, Sound
<1>8. ASSUME NEW t \in Requests, NEW v \in Reviews, Deciding(t, v)'
      PROVE  /\ review[v].property = request'[t].property
             /\ request'[t].property \notin overlapped => review[v].status = "pending"
  BY <1>6, <1>8 DEF ReviewsHold
<1>9. ASSUME NEW v \in acted'
      PROVE  /\ review[v] # None
             /\ review[v].property \notin overlapped \cup broken =>
                   \/ review[v].status \in {"approved", "gone"}
                   \/ \E t \in Requests : Approving(t, v)'
  <2>1. CASE v = x
    BY <1>7, <2>1
  <2>2. CASE v # x
    BY <1>4, <1>6, <1>7, <1>9, <2>2 DEF ReviewsHold, IInv, TypeOK
  <2> QED BY <2>1, <2>2
<1> QED BY <1>4, <1>8, <1>9 DEF ReviewsHold

LEMMA DecidedReviews ==
    ASSUME IInv, Careful, ReviewsHold, NEW r \in Requests, Decide(r)
    PROVE  ReviewsHold'
<1> DEFINE w == request[r]  v == request[r].review  p == request[r].property
           said == IF request[r].op = "approve" THEN "approved" ELSE "rejected"
<1>1. w # Idle /\ w.op \in {"approve", "reject"} /\ (w.op = "reject" => w.step = "write")
  BY DEF Decide, At
<1>2. w \in Decisions /\ v \in Reviews /\ p \in Properties
  BY <1>1, Running, Shapes DEF IInv, Decisions
<1>3. review[v] \in ReviewRows /\ review[v] # None
  BY <1>1, <1>2 DEF IInv, TypeOK, RequestsSound, Sound
<1>4. Deciding(r, v) /\ review[v].property = p
      /\ (p \notin overlapped => review[v].status = "pending")
  BY <1>1, <1>2 DEF Deciding, ReviewsHold
<1>5. /\ request' = [request EXCEPT ![r] = Idle]
      /\ acted' = acted /\ overlapped' = overlapped /\ broken' = broken
  BY DEF Decide, Finish, history
<1>6. /\ \A x \in Reviews \ {v} : review'[x] = review[x]
      /\ review'[v].property = p /\ review'[v] # None
      /\ review[v].status # "gone" => review'[v].status = said
      /\ review[v].status = "gone" => review'[v].status = "gone"
  <2>1. [review[v] EXCEPT !.status = said].property = p
        /\ [review[v] EXCEPT !.status = said].status = said
        /\ [review[v] EXCEPT !.status = said] \in ReviewRows
    BY <1>3, <1>4 DEF ReviewRows
  <2>2. review' = IF review[v].status = "gone" THEN review
                  ELSE [review EXCEPT ![v] = [review[v] EXCEPT !.status = said]]
    BY DEF Decide
  <2>3. review \in [Reviews -> ReviewRows \cup {None}] /\ None \notin ReviewRows
    BY AbsentAssumption DEF IInv, TypeOK
  <2> QED BY <1>2, <1>3, <1>4, <2>1, <2>2, <2>3
<1>7. \A t \in Requests, x \in Reviews :
         /\ Deciding(t, x)' => t # r /\ Deciding(t, x) /\ request'[t] = request[t]
         /\ Approving(t, x) /\ t # r => Approving(t, x)'
  BY <1>5 DEF Deciding, Approving, IInv, TypeOK
<1>8. \A t \in Requests : Deciding(t, v) /\ p \notin overlapped => t = r
  <2> SUFFICES ASSUME NEW t \in Requests, Deciding(t, v), p \notin overlapped PROVE t = r
    OBVIOUS
  <2>1. request[t].property = p /\ request[t] # Idle
    BY <1>2, <1>4 DEF ReviewsHold, Deciding
  <2>2. Deals(t, p) /\ Deals(r, p) /\ Alone(p)
    BY <1>1, <1>2, <2>1 DEF Deals, Careful
  <2> QED BY <2>2 DEF Alone
<1>9. ASSUME NEW t \in Requests, NEW x \in Reviews, Deciding(t, x)'
      PROVE  /\ review'[x].property = request'[t].property
             /\ request'[t].property \notin overlapped => review'[x].status = "pending"
  <2>1. /\ t # r /\ Deciding(t, x) /\ request'[t] = request[t]
        /\ review[x].property = request[t].property
        /\ request[t].property \notin overlapped => review[x].status = "pending"
    BY <1>7, <1>9 DEF ReviewsHold
  <2>2. CASE x = v
    BY <1>4, <1>6, <1>8, <2>1, <2>2
  <2>3. CASE x # v
    BY <1>6, <2>1, <2>3
  <2> QED BY <2>2, <2>3
<1>10. ASSUME NEW x \in acted
       PROVE  /\ review'[x] # None
              /\ review'[x].property \notin overlapped \cup broken =>
                    \/ review'[x].status \in {"approved", "gone"}
                    \/ \E t \in Requests : Approving(t, x)'
  <2>1. /\ x \in Reviews /\ review[x] # None
        /\ review[x].property \notin overlapped \cup broken =>
              \/ review[x].status \in {"approved", "gone"}
              \/ \E t \in Requests : Approving(t, x)
    BY <1>10 DEF ReviewsHold, IInv, TypeOK
  <2>2. CASE x = v
    <3>1. SUFFICES ASSUME p \notin overlapped \cup broken
                   PROVE  review'[v].status \in {"approved", "gone"}
      BY <1>6, <2>2
    <3>2. PICK t \in Requests : Approving(t, v)
      BY <1>4, <2>1, <2>2, <3>1
    <3>3. w.op = "approve"
      BY <1>8, <3>1, <3>2 DEF Approving
    <3> QED BY <1>6, <3>3
  <2>3. CASE x # v
    <3>1. review'[x] = review[x]
      BY <1>6, <2>1, <2>3
    <3>2. ~Approving(r, x)
      BY <2>3 DEF Approving, Deciding
    <3> QED BY <1>7, <2>1, <3>1, <3>2
  <2> QED BY <2>2, <2>3
<1> QED BY <1>5, <1>9, <1>10 DEF ReviewsHold

LEMMA DeletedReviews ==
    ASSUME IInv, Careful, ReviewsHold, NEW r \in Requests, Delete(r)
    PROVE  ReviewsHold'
<1> DEFINE p == request[r].property  q == [request[r] EXCEPT !.step = "media"]
<1>1. request[r] # Idle /\ request[r].op = "purge" /\ p \in Properties
  BY Running, Shapes DEF IInv, Delete, At
<1>2. request[r] \in Purges
  BY <1>1, Running, Shapes DEF IInv
<1>3. q.op = "purge" /\ request' = [request EXCEPT ![r] = q]
      /\ acted' = acted /\ overlapped' = overlapped /\ broken' = broken
  BY <1>2 DEF Purges, Delete, GoOn
<1> HIDE DEF q
<1>4. \A t \in Requests, x \in Reviews :
         /\ Deciding(t, x)' => t # r /\ Deciding(t, x) /\ request'[t] = request[t]
         /\ Approving(t, x) => Approving(t, x)'
  BY <1>1, <1>3 DEF Deciding, Approving, IInv, TypeOK
<1>5. \A x \in Reviews :
         \/ review'[x] = review[x]
         \/ /\ review[x] # None /\ review[x].property = p
            /\ review'[x] # None /\ review'[x].property = p /\ review'[x].status = "gone"
  <2>1. ASSUME NEW x \in Reviews, review[x] # None
        PROVE  /\ [review[x] EXCEPT !.status = "gone"].property = review[x].property
               /\ [review[x] EXCEPT !.status = "gone"].status = "gone"
               /\ [review[x] EXCEPT !.status = "gone"] \in ReviewRows
    <3>1. review[x] \in ReviewRows
      BY <2>1 DEF IInv, TypeOK
    <3> QED BY <3>1 DEF ReviewRows
  <2>2. \/ review' = review
        \/ review' = [x \in Reviews |->
              IF review[x] # None /\ review[x].property = p
              THEN [review[x] EXCEPT !.status = "gone"] ELSE review[x]]
    BY DEF Delete
  <2>3. None \notin ReviewRows
    BY AbsentAssumption
  <2> QED BY <2>1, <2>2, <2>3
<1>6. ASSUME NEW t \in Requests, NEW x \in Reviews, Deciding(t, x)'
      PROVE  /\ review'[x].property = request'[t].property
             /\ request'[t].property \notin overlapped => review'[x].status = "pending"
  <2>1. /\ t # r /\ Deciding(t, x) /\ request'[t] = request[t]
        /\ review[x].property = request[t].property
        /\ request[t].property \notin overlapped => review[x].status = "pending"
    BY <1>4, <1>6 DEF ReviewsHold
  <2>2. request[t].property = p => p \in overlapped
    BY <1>1, <2>1 DEF Careful, Alone, Deals, Deciding
  <2> QED BY <1>5, <2>1, <2>2
<1>7. ASSUME NEW x \in acted
      PROVE  /\ review'[x] # None
             /\ review'[x].property \notin overlapped \cup broken =>
                   \/ review'[x].status \in {"approved", "gone"}
                   \/ \E t \in Requests : Approving(t, x)'
  <2>1. /\ x \in Reviews /\ review[x] # None
        /\ review[x].property \notin overlapped \cup broken =>
              \/ review[x].status \in {"approved", "gone"}
              \/ \E t \in Requests : Approving(t, x)'
    BY <1>4, <1>7 DEF ReviewsHold, IInv, TypeOK
  <2> QED BY <1>5, <2>1
<1> QED BY <1>3, <1>6, <1>7 DEF ReviewsHold

LEMMA DoesHoldReviews ==
    ASSUME IInv, Careful, ReviewsHold, NEW r \in Requests, Does(r)
    PROVE  ReviewsHold'
<1> DEFINE p == request[r].property
<1>1. request[r] # Idle /\ overlapped' = overlapped
  BY Moved
<1>2. PICK q \in Works \cup {Idle} :
         /\ request' = [request EXCEPT ![r] = q]
         /\ q # Idle => q.property = p /\ q.op = request[r].op /\ q.step # "write"
  BY Moved
<1>3. request'[r] = q /\ \A t \in Requests \ {r} : request'[t] = request[t]
  BY <1>2 DEF IInv, TypeOK
<1>4. CASE Stop(r)
  <2>1. /\ review' = review /\ acted' = acted /\ broken' = broken \cup {p}
        /\ request' = [request EXCEPT ![r] = Idle]
    BY <1>4 DEF Stop, Finish, tables
  <2>2. \A t \in Requests, v \in Reviews :
           Deciding(t, v)' => Deciding(t, v) /\ request'[t].property = request[t].property
    BY <2>1 DEF Deciding, IInv, TypeOK
  <2>3. \A t \in Requests, v \in Reviews :
           Approving(t, v) => Approving(t, v)' \/ review[v].property \in broken'
    BY <1>3, <2>1 DEF Approving, Deciding, ReviewsHold
  <2> QED BY <1>1, <2>1, <2>2, <2>3, ReviewsStep
<1>5. CASE \/ Upsert(r) \/ Reread(r) \/ RereadFails(r) \/ RecordPrice(r) \/ RecordChange(r)
           \/ SetStatus(r) \/ SetSchedule(r) \/ MoveToTrash(r) \/ DeleteMedia(r)
           \/ Import(r) \/ Repair(r)
  <2>1. review' = review /\ acted' = acted /\ broken \subseteq broken'
    BY <1>5 DEF Upsert, Reread, RereadFails, RecordPrice, RecordChange, SetStatus, SetSchedule,
       MoveToTrash, DeleteMedia, Import, Repair, Write, tables, history
  <2>2. request[r].op \notin {"approve", "reject"}
    BY <1>5 DEF Upsert, Reread, RereadFails, RecordPrice, RecordChange, SetStatus, SetSchedule,
       MoveToTrash, DeleteMedia, Import, Repair, At
  <2>3. \A t \in Requests, v \in Reviews :
           /\ Deciding(t, v)' => Deciding(t, v) /\ request'[t].property = request[t].property
           /\ Approving(t, v) => Approving(t, v)'
    BY <1>2, <1>3, <2>2 DEF Deciding, Approving
  <2> QED BY <1>1, <2>1, <2>3, ReviewsStep
<1> QED BY <1>4, <1>5, AskedReviews, PublishedReviews, DecidedReviews, DeletedReviews DEF Does

\* A review that says rejected has published nothing, unless two requests dealt with
\* its property at once or an approval stopped half way (reviewPropertyPublication).
THEOREM RejectionsHold == Spec => []RejectedPublishesNothing
<1>1. Init => ReviewsHold
  BY DEF Init, ReviewsHold, Deciding
<1>2. IInv /\ Careful /\ ReviewsHold /\ [Next]_vars => ReviewsHold'
  <2> SUFFICES ASSUME IInv, Careful, ReviewsHold, [Next]_vars PROVE ReviewsHold'
    OBVIOUS
  <2>1. CASE UNCHANGED vars
    BY <2>1 DEF vars, tables, history, ReviewsHold, Approving, Deciding
  <2>2. ASSUME NEW r \in Requests, Begins(r) PROVE ReviewsHold'
    <3>1. PICK work \in Works, grants \in BOOLEAN : Begin(r, work, grants) /\ Checked(work)
      BY <2>2 DEF Begins
    <3>2. /\ review' = review /\ acted' = acted /\ broken' = broken /\ request[r] = Idle
          /\ request' = [request EXCEPT ![r] = work] /\ overlapped \subseteq overlapped'
      BY <3>1 DEF Begin, Overlap, tables
    <3>3. work.op \in {"approve", "reject"} =>
             Pending(work.review) /\ review[work.review].property = work.property
      BY <3>1 DEF Checked
    <3>4. request'[r] = work /\ \A t \in Requests \ {r} : request'[t] = request[t]
      BY <3>2 DEF IInv, TypeOK
    <3>5. \A t \in Requests, v \in Reviews : Deciding(t, v)' =>
             \/ Deciding(t, v) /\ request'[t].property = request[t].property
             \/ Pending(v) /\ review[v].property = request'[t].property
      BY <3>3, <3>4 DEF Deciding
    <3>6. \A t \in Requests, v \in Reviews : Approving(t, v) => Approving(t, v)'
      BY <3>2, <3>4 DEF Approving, Deciding
    <3> QED BY <3>2, <3>5, <3>6, ReviewsStep
  <2>3. ASSUME NEW x \in Properties, Passes(x) PROVE ReviewsHold'
    <3>1. request' = request /\ UNCHANGED <<review, acted, broken>> /\ overlapped \subseteq overlapped'
      BY <2>3, Passed
    <3> QED BY <3>1, ReviewsStep DEF Approving, Deciding
  <2> QED BY <2>1, <2>2, <2>3, Kinds, DoesHoldReviews
<1>3. IInv /\ ReviewsHold => RejectedPublishesNothing
  <2> SUFFICES ASSUME IInv, ReviewsHold, NEW v \in Reviews, review[v] # None,
                      review[v].status = "rejected",
                      review[v].property \notin overlapped \cup broken, v \in acted
               PROVE  FALSE
    BY DEF RejectedPublishesNothing
  <2>1. PICK r \in Requests : Approving(r, v)
    BY DEF ReviewsHold
  <2> QED BY <2>1 DEF Approving, ReviewsHold
<1> QED BY <1>1, <1>2, <1>3, Invariance, CareIsTaken, PTL DEF Spec

----------------------------------------------------------------------------
(* The histories of a property that no two requests dealt with at once,    *)
(* while a save of it is on its way and between saves.                     *)

Linked(h)  == \A i \in 1 .. Len(h) - 1 : h[i].after = h[i + 1].before
Ends(h, a) == h # <<>> => a # None /\ h[Len(h)].after = a.content.price
Read(q)    == IF q.read = None THEN {} ELSE {q.read.content}

Saving(r, p) == Deals(r, p) /\ request[r].op = "save" /\ request[r].step # "write"

\* A save that has written the row a: the histories h and rec still stop at what it read.
Midway(q, a, h, over, rec) ==
    /\ a # None
    /\ q.step = "reread" =>
          a.from # None \/ (Ends(h, q.read) /\ over \subseteq rec \cup Read(q))
    /\ q.step = "price"  => q.read # None /\ Ends(h, q.read)
    /\ q.step = "change" => Ends(h, a)
    /\ q.step \in {"price", "change"} => q.content = a.content /\ over \subseteq rec \cup Read(q)

Account(p) ==
    /\ Linked(prices[p])
    /\ (~\E r \in Requests : Saving(r, p)) =>
          Ends(prices[p], row[p]) /\ overwritten[p] \subseteq recorded[p]
    /\ \A r \in Requests : Saving(r, p) =>
          Midway(request[r], row[p], prices[p], overwritten[p], recorded[p])

Accounts == \A p \in Properties \ (overlapped \cup broken \cup purged) : Account(p)

\* A step that writes no content, and moves no save on.
LEMMA AccountStep ==
    ASSUME NEW p \in Properties, Account(p), prices'[p] = prices[p],
           overwritten'[p] = overwritten[p], recorded[p] \subseteq recorded'[p],
           row[p] # None => row'[p] # None /\ row'[p].content = row[p].content,
           \A t \in Requests : Saving(t, p)' <=> Saving(t, p),
           \A t \in Requests : Saving(t, p) =>
               request'[t] = request[t] /\ row'[p].from = row[p].from
    PROVE  Account(p)'
<1>1. Linked(prices'[p])
  BY DEF Account
<1>2. (~\E t \in Requests : Saving(t, p)') =>
         Ends(prices'[p], row'[p]) /\ overwritten'[p] \subseteq recorded'[p]
  BY DEF Account, Ends
<1>3. ASSUME NEW t \in Requests, Saving(t, p)'
      PROVE  Midway(request'[t], row'[p], prices'[p], overwritten'[p], recorded'[p])
  <2>1. Midway(request[t], row[p], prices[p], overwritten[p], recorded[p])
        /\ request'[t] = request[t]
    BY <1>3 DEF Account
  <2>2. row'[p] # None /\ row'[p].content = row[p].content /\ row'[p].from = row[p].from
    BY <1>3, <2>1 DEF Midway
  <2> QED BY <2>1, <2>2 DEF Midway, Ends
<1> QED BY <1>1, <1>2, <1>3 DEF Account

LEMMA LinkedAppend ==
    ASSUME NEW S, NEW h \in Seq(S), NEW e \in S, Linked(h),
           h # <<>> => h[Len(h)].after = e.before
    PROVE  /\ Linked(Append(h, e))
           /\ Append(h, e) # <<>> /\ Append(h, e)[Len(Append(h, e))] = e
<1>1. Len(h) \in Nat /\ Len(Append(h, e)) = Len(h) + 1
      /\ Append(h, e)[Len(h) + 1] = e
      /\ \A i \in 1 .. Len(h) : Append(h, e)[i] = h[i]
  OBVIOUS
<1>2. ASSUME NEW i \in 1 .. Len(Append(h, e)) - 1
      PROVE  Append(h, e)[i].after = Append(h, e)[i + 1].before
  <2>1. CASE i = Len(h)
    BY <1>1, <2>1
  <2>2. CASE i # Len(h)
    <3>1. i \in 1 .. Len(h) - 1 /\ i + 1 \in 1 .. Len(h)
      BY <1>1, <1>2, <2>2
    <3> QED BY <1>1, <3>1 DEF Linked
  <2> QED BY <2>1, <2>2
<1>3. Linked(Append(h, e))
  BY <1>2 DEF Linked
<1>4. Append(h, e) # <<>>
  OBVIOUS
<1> QED BY <1>1, <1>3, <1>4

\* The only request at a property goes on with its save, or ends it.
LEMMA SaveAccount ==
    ASSUME IInv, NEW r \in Requests, NEW p \in Properties, NEW q,
           \A t \in Requests \ {r} : ~Deals(t, p) /\ request'[t] = request[t],
           request'[r] = q, Linked(prices'[p]),
           \/ /\ q = Idle
              /\ Ends(prices'[p], row'[p]) /\ overwritten'[p] \subseteq recorded'[p]
           \/ /\ q # Idle /\ q.property = p /\ q.op = "save" /\ q.step # "write"
              /\ Midway(q, row'[p], prices'[p], overwritten'[p], recorded'[p])
    PROVE  Account(p)'
<1>1. \A t \in Requests \ {r} : ~Saving(t, p)'
  BY DEF Saving, Deals
<1>2. CASE q = Idle
  <2>1. ~Saving(r, p)'
    BY <1>2 DEF Saving, Deals
  <2>2. ~\E t \in Requests : Saving(t, p)'
    BY <1>1, <2>1
  <2>3. Ends(prices'[p], row'[p]) /\ overwritten'[p] \subseteq recorded'[p]
    BY <1>2
  <2> QED BY <2>2, <2>3 DEF Account
<1>3. CASE q # Idle
  <2>1. Saving(r, p)' /\ Midway(q, row'[p], prices'[p], overwritten'[p], recorded'[p])
    BY <1>3 DEF Saving, Deals
  <2> QED BY <1>1, <2>1 DEF Account
<1> QED BY <1>2, <1>3

LEMMA UpsertAccount ==
    ASSUME IInv, Careful, NEW r \in Requests, NEW p \in Properties, p = request[r].property,
           Upsert(r), p \notin overlapped, Account(p),
           \A t \in Requests \ {r} : ~Deals(t, p) /\ request'[t] = request[t]
    PROVE  Account(p)'
<1> DEFINE w == request[r]  q == [w EXCEPT !.step = "reread"]
<1>1. w # Idle /\ w.op = "save" /\ w.step = "write" /\ Deals(r, p)
  BY DEF Upsert, At, Deals
<1>2. w \in Saves
  BY <1>1, Running, Shapes DEF IInv
<1>3. /\ q # Idle /\ q.op = "save" /\ q.step = "reread" /\ q.property = p /\ q.read = w.read
  BY <1>2 DEF Saves, Idle
<1>4. request'[r] = q
  BY DEF Upsert, GoOn, IInv, TypeOK
<1> HIDE DEF q
<1>5. ~\E t \in Requests : Saving(t, p)
  BY <1>1 DEF Saving
<1>6. Linked(prices[p]) /\ Ends(prices[p], row[p]) /\ overwritten[p] \subseteq recorded[p]
  BY <1>5 DEF Account
<1>7. IF w.read = None THEN row[p] = None \/ row[p].from # None
      ELSE row[p] # None /\ row[p].content = w.read.content
  BY <1>1 DEF Careful, ReadHolds
<1>8. /\ prices' = prices /\ recorded' = recorded
      /\ row'[p] = IF Exists(p) THEN [row[p] EXCEPT !.status = w.status, !.content = w.content]
                   ELSE NewRow(w.status, w.content)
      /\ overwritten'[p] = IF Exists(p) THEN overwritten[p] \cup {row[p].content}
                           ELSE overwritten[p]
  BY DEF Upsert, IInv, TypeOK
<1>9. Midway(q, row'[p], prices[p], overwritten'[p], recorded[p])
  <2>1. CASE Exists(p)
    <3>1. row[p] \in Rows /\ w.status \in Statuses /\ w.content \in Contents
      BY <1>2, <2>1 DEF Exists, Saves, IInv, TypeOK
    <3>2. row'[p] \in Rows /\ row'[p].from = row[p].from
      BY <1>8, <2>1, <3>1 DEF Rows
    <3>3. row'[p] # None
      BY <3>2, AbsentAssumption
    <3>4. CASE row[p].from # None
      BY <1>3, <3>2, <3>3, <3>4 DEF Midway
    <3>5. CASE row[p].from = None
      <4>1. w.read # None /\ row[p].content = w.read.content
        BY <1>7, <2>1, <3>5 DEF Exists
      <4>2. Ends(prices[p], w.read)
        BY <1>6, <4>1 DEF Ends
      <4>3. overwritten'[p] \subseteq recorded[p] \cup Read(q)
        BY <1>3, <1>6, <1>8, <2>1, <4>1 DEF Read
      <4> QED BY <1>3, <3>3, <4>2, <4>3 DEF Midway
    <3> QED BY <3>4, <3>5
  <2>2. CASE ~Exists(p)
    <3>1. row'[p] # None
      <4>1. w.status \in Statuses /\ w.content \in Contents
        BY <1>2 DEF Saves
      <4>2. NewRow(w.status, w.content) \in Rows
        BY <4>1 DEF NewRow, Rows, Times
      <4> QED BY <1>8, <2>2, <4>2, AbsentAssumption
    <3>2. prices[p] = <<>>
      BY <1>6, <2>2 DEF Ends, Exists
    <3>3. overwritten'[p] \subseteq recorded[p] \cup Read(q)
      BY <1>6, <1>8, <2>2
    <3>4. Ends(prices[p], w.read)
      BY <3>2 DEF Ends
    <3> QED BY <1>3, <3>1, <3>3, <3>4 DEF Midway
  <2> QED BY <2>1, <2>2
<1> QED BY <1>3, <1>4, <1>6, <1>8, <1>9, SaveAccount

LEMMA RereadAccount ==
    ASSUME IInv, NEW r \in Requests, NEW p \in Properties, p = request[r].property,
           Reread(r), Account(p),
           \A t \in Requests \ {r} : ~Deals(t, p) /\ request'[t] = request[t]
    PROVE  Account(p)'
<1> DEFINE w == request[r]
           step == IF PriceChanged(w.read, row[p].content) THEN "price" ELSE "change"
           q == [w EXCEPT !.content = row[p].content, !.step = step]
<1>1. w # Idle /\ w.op = "save" /\ w.step = "reread" /\ Listed(p) /\ Saving(r, p)
  BY DEF Reread, At, Saving, Deals
<1>2. w \in Saves
  BY <1>1, Running, Shapes DEF IInv
<1>3. /\ q # Idle /\ q.op = "save" /\ q.step = step /\ q.property = p /\ q.read = w.read
      /\ q.content = row[p].content
  BY <1>2 DEF Saves, Idle
<1>4. request'[r] = q
  BY DEF Reread, IInv, TypeOK
<1> HIDE DEF q
<1>5. Ends(prices[p], w.read) /\ overwritten[p] \subseteq recorded[p] \cup Read(w)
      /\ Linked(prices[p])
  BY <1>1 DEF Account, Midway, Listed
<1>6. UNCHANGED <<row, prices, recorded, overwritten>>
  BY DEF Reread, tables, history
<1>7. step = "price" => w.read # None
  BY DEF PriceChanged
<1>8. step = "change" => Ends(prices[p], row[p])
  BY <1>1, <1>5 DEF PriceChanged, Ends, Listed, Exists
<1>9. step \in {"price", "change"} /\ row[p] # None
  BY <1>1 DEF Listed, Exists
<1> HIDE DEF step
<1>10. Midway(q, row[p], prices[p], overwritten[p], recorded[p])
  BY <1>3, <1>5, <1>7, <1>8, <1>9 DEF Midway, Read
<1> QED BY <1>3, <1>4, <1>5, <1>6, <1>9, <1>10, SaveAccount

LEMMA PriceAccount ==
    ASSUME IInv, NEW r \in Requests, NEW p \in Properties, p = request[r].property,
           RecordPrice(r), Account(p),
           \A t \in Requests \ {r} : ~Deals(t, p) /\ request'[t] = request[t]
    PROVE  Account(p)'
<1> DEFINE w == request[r]  q == [w EXCEPT !.step = "change"]
           e == [before |-> w.read.content.price, after |-> w.content.price]
<1>1. w # Idle /\ w.op = "save" /\ w.step = "price" /\ Saving(r, p)
  BY DEF RecordPrice, At, Saving, Deals
<1>2. w \in Saves
  BY <1>1, Running, Shapes DEF IInv
<1>3. /\ q # Idle /\ q.op = "save" /\ q.step = "change" /\ q.property = p /\ q.read = w.read
      /\ q.content = w.content
  BY <1>2 DEF Saves, Idle
<1>4. request'[r] = q
  BY DEF RecordPrice, GoOn, IInv, TypeOK
<1> HIDE DEF q
<1>5. /\ row[p] # None /\ w.read # None /\ Ends(prices[p], w.read) /\ w.content = row[p].content
      /\ overwritten[p] \subseteq recorded[p] \cup Read(w) /\ Linked(prices[p])
  BY <1>1 DEF Account, Midway
<1>6. UNCHANGED <<row, recorded, overwritten>> /\ prices'[p] = Append(prices[p], e)
  BY DEF RecordPrice, history, IInv, TypeOK
<1>7. e \in [before : Prices, after : Prices]
      /\ e.before = w.read.content.price /\ e.after = w.content.price
  BY <1>2, <1>5 DEF Saves, Rows, Contents
<1>8. prices[p] \in Seq([before : Prices, after : Prices])
  BY DEF IInv, TypeOK
<1> HIDE DEF e
<1>9. prices[p] # <<>> => prices[p][Len(prices[p])].after = e.before
  BY <1>5, <1>7 DEF Ends
<1>10. /\ Linked(prices'[p])
       /\ prices'[p] # <<>> /\ prices'[p][Len(prices'[p])] = e
  <2> DEFINE Entries == [before : Prices, after : Prices]
  <2>1. PICK h : h = prices[p]
    OBVIOUS
  <2>2. /\ h \in Seq(Entries) /\ Linked(h) /\ e \in Entries
        /\ h # <<>> => h[Len(h)].after = e.before
    BY <1>5, <1>7, <1>8, <1>9, <2>1
  <2> HIDE DEF Entries
  <2>3. Linked(Append(h, e)) /\ Append(h, e) # <<>> /\ Append(h, e)[Len(Append(h, e))] = e
    BY ONLY <2>2, LinkedAppend
  <2> QED BY <1>6, <2>1, <2>3
<1>11. Ends(prices'[p], row[p])
  BY <1>5, <1>7, <1>10 DEF Ends
<1>12. Midway(q, row[p], prices'[p], overwritten[p], recorded[p])
  BY <1>3, <1>5, <1>11 DEF Midway, Read
<1> QED BY <1>3, <1>4, <1>6, <1>10, <1>12, SaveAccount

LEMMA ChangeAccount ==
    ASSUME IInv, NEW r \in Requests, NEW p \in Properties, p = request[r].property,
           At(r, "save", "change"), RecordChange(r), Account(p),
           \A t \in Requests \ {r} : ~Deals(t, p) /\ request'[t] = request[t]
    PROVE  Account(p)'
<1>1. Saving(r, p) /\ request[r].step = "change"
  BY DEF At, Saving, Deals
<1>2. /\ Linked(prices[p]) /\ Ends(prices[p], row[p])
      /\ overwritten[p] \subseteq recorded[p] \cup Read(request[r])
  BY <1>1 DEF Account, Midway
<1>3. /\ UNCHANGED <<row, prices, overwritten>> /\ request'[r] = Idle
      /\ recorded'[p] = recorded[p] \cup Before(r) \cup After(r)
  BY DEF RecordChange, Finish, history, IInv, TypeOK
<1>4. overwritten[p] \subseteq recorded'[p]
  BY <1>2, <1>3 DEF Before, Read
<1> QED BY <1>2, <1>3, <1>4, SaveAccount

\* A statement of another operation leaves the content of the row and the histories.
LEMMA ContentStays ==
    ASSUME IInv, NEW r \in Requests, NEW p \in Properties, p = request[r].property,
           \/ At(r, "trash", "change") /\ RecordChange(r)
           \/ SetStatus(r) \/ SetSchedule(r) \/ MoveToTrash(r) \/ Delete(r) \/ DeleteMedia(r)
           \/ Ask(r) \/ Publish(r) \/ Decide(r) \/ Import(r) \/ Repair(r),
           p \notin purged'
    PROVE  /\ request[r].op # "save"
           /\ prices' = prices /\ overwritten' = overwritten /\ recorded[p] \subseteq recorded'[p]
           /\ row[p] # None => row'[p] # None /\ row'[p].content = row[p].content
<1>1. row \in [Properties -> Rows \cup {None}] /\ (row[p] # None => row[p] \in Rows)
      /\ None \notin Rows
  BY AbsentAssumption DEF IInv, TypeOK
<1>2. CASE (At(r, "trash", "change") /\ RecordChange(r)) \/ DeleteMedia(r) \/ Ask(r) \/ Decide(r)
  <2>1. request[r].op # "save" /\ UNCHANGED <<row, prices, overwritten>>
    BY <1>2 DEF RecordChange, DeleteMedia, Ask, Decide, At, history
  <2>2. recorded[p] \subseteq recorded'[p]
    BY <1>2 DEF RecordChange, DeleteMedia, Ask, Decide, IInv, TypeOK
  <2> QED BY <2>1, <2>2
<1>3. CASE \/ SetStatus(r) \/ SetSchedule(r) \/ MoveToTrash(r) \/ Publish(r) \/ Import(r)
           \/ Repair(r) \/ Delete(r)
  <2>1. UNCHANGED <<prices, recorded, overwritten>>
    BY <1>3 DEF SetStatus, SetSchedule, MoveToTrash, Publish, Import, Repair, Delete, Write, history
  <2>2. request[r].op # "save"
    BY <1>3 DEF SetStatus, SetSchedule, MoveToTrash, Publish, Import, Repair, Delete, At
  <2>3. ASSUME row[p] # None PROVE row'[p] \in Rows /\ row'[p].content = row[p].content
    <3>1. row[p] \in Rows
      BY <1>1, <2>3
    <3>2. CASE SetStatus(r)
      <4>1. request[r] \in Switches
        BY <3>2, Running, Shapes DEF IInv, SetStatus, At
      <4>2. row'[p] = IF ~Listed(p) THEN row[p] ELSE
               [row[p] EXCEPT !.status = request[r].status,
                         !.publishAt = IF request[r].status = "draft" THEN @ ELSE "none",
                         !.unpublishAt = IF request[r].status = "published" THEN @ ELSE "none"]
        BY <1>1, <3>2 DEF SetStatus, Write
      <4> QED BY <3>1, <4>1, <4>2 DEF Rows, Times, Switches
    <3>3. CASE SetSchedule(r)
      <4>1. request[r] \in Schedules
        BY <3>3, Running, Shapes DEF IInv, SetSchedule, At
      <4>2. row'[p] = IF ~Listed(p) THEN row[p] ELSE
               [row[p] EXCEPT !.publishAt = request[r].publishAt,
                              !.unpublishAt = request[r].unpublishAt]
        BY <1>1, <3>3 DEF SetSchedule, Write
      <4> QED BY <3>1, <4>1, <4>2 DEF Rows, Schedules
    <3>4. CASE MoveToTrash(r)
      <4>1. row'[p] = IF Listed(p)
               THEN [row[p] EXCEPT !.status = "archived", !.from = row[p].status] ELSE row[p]
        BY <1>1, <3>4 DEF MoveToTrash, Bin
      <4> QED BY <3>1, <4>1 DEF Rows, Statuses
    <3>5. CASE Publish(r)
      <4>1. row'[p] = IF Listed(p) THEN [row[p] EXCEPT !.status = "published"] ELSE row[p]
        BY <1>1, <3>5 DEF Publish
      <4> QED BY <3>1, <4>1 DEF Rows, Statuses
    <3>6. CASE Import(r)
      BY <2>3, <3>1, <3>6 DEF Import, Exists
    <3>7. CASE Repair(r)
      <4>1. row'[p] = IF ~Exists(p) THEN row[p] ELSE [row[p] EXCEPT !.status = "published"]
        BY <1>1, <3>7 DEF Repair, Write
      <4> QED BY <3>1, <4>1 DEF Rows, Statuses
    <3>8. CASE Delete(r)
      <4>1. row' = row
        BY <3>8 DEF Delete
      <4> QED BY <3>1, <4>1
    <3> QED BY <1>3, <3>2, <3>3, <3>4, <3>5, <3>6, <3>7, <3>8
  <2> QED BY <1>1, <2>1, <2>2, <2>3
<1> QED BY <1>2, <1>3

LEMMA DoesHoldAccounts ==
    ASSUME IInv, Careful, Accounts, NEW r \in Requests, Does(r)
    PROVE  Accounts'
<1>1. PICK p \in Properties : p = request[r].property
  BY Moved
<1>2. PICK q \in Works \cup {Idle} :
         /\ request' = [request EXCEPT ![r] = q]
         /\ q # Idle => q.property = p /\ q.op = request[r].op /\ q.step # "write"
  BY <1>1, Moved
<1>3. request'[r] = q /\ \A t \in Requests \ {r} : request'[t] = request[t]
  BY <1>2 DEF IInv, TypeOK
<1>4. /\ request[r] # Idle /\ overlapped' = overlapped
      /\ \A x \in Properties \ {p} : row'[x] = row[x]
  BY <1>1, Moved
<1>5. /\ \A x \in Properties \ {p} :
            /\ prices'[x] = prices[x] /\ overwritten'[x] = overwritten[x]
            /\ recorded'[x] = recorded[x]
      /\ broken \subseteq broken' /\ purged \subseteq purged'
  <2>1. CASE \/ Upsert(r) \/ Reread(r) \/ RereadFails(r) \/ RecordPrice(r) \/ RecordChange(r)
    BY <1>1, <2>1 DEF Upsert, Reread, RereadFails, RecordPrice, RecordChange, tables, history,
       IInv, TypeOK
  <2>2. CASE \/ SetStatus(r) \/ SetSchedule(r) \/ MoveToTrash(r) \/ Delete(r) \/ DeleteMedia(r)
             \/ Ask(r) \/ Publish(r) \/ Decide(r) \/ Import(r) \/ Repair(r) \/ Stop(r)
    BY <2>2 DEF SetStatus, SetSchedule, MoveToTrash, Delete, DeleteMedia, Ask, Publish, Decide,
       Import, Repair, Stop, Write, tables, history
  <2> QED BY <2>1, <2>2 DEF Does
<1>6. ASSUME NEW x \in Properties \ {p}, Account(x)
      PROVE  Account(x)'
  <2>1. \A t \in Requests : Saving(t, x)' <=> Saving(t, x)
    BY <1>1, <1>2, <1>3, <1>6 DEF Saving, Deals
  <2>2. \A t \in Requests : Saving(t, x) => t # r
    BY <1>1, <1>6 DEF Saving, Deals
  <2> QED BY <1>3, <1>4, <1>5, <1>6, <2>1, <2>2, AccountStep
<1>7. ASSUME p \notin overlapped' \cup broken' \cup purged'
      PROVE  Account(p)'
  <2>1. p \notin overlapped /\ Account(p)
    BY <1>4, <1>5, <1>7 DEF Accounts
  <2>2. \A t \in Requests \ {r} : ~Deals(t, p) /\ request'[t] = request[t]
    BY <1>1, <1>3, <1>4, <2>1 DEF Careful, Alone, Deals
  <2>3. CASE Upsert(r) \/ Reread(r) \/ RecordPrice(r) \/ (At(r, "save", "change") /\ RecordChange(r))
    BY <1>1, <2>1, <2>2, <2>3, UpsertAccount, RereadAccount, PriceAccount, ChangeAccount
  <2>4. CASE RereadFails(r) \/ Stop(r)
    BY <1>1, <1>7, <2>4 DEF RereadFails, Stop
  <2>5. CASE \/ At(r, "trash", "change") /\ RecordChange(r)
             \/ SetStatus(r) \/ SetSchedule(r) \/ MoveToTrash(r) \/ Delete(r) \/ DeleteMedia(r)
             \/ Ask(r) \/ Publish(r) \/ Decide(r) \/ Import(r) \/ Repair(r)
    <3>1. /\ request[r].op # "save"
          /\ prices' = prices /\ overwritten' = overwritten /\ recorded[p] \subseteq recorded'[p]
          /\ row[p] # None => row'[p] # None /\ row'[p].content = row[p].content
      BY <1>1, <1>7, <2>5, ContentStays
    <3>2. \A t \in Requests : ~Saving(t, p) /\ ~Saving(t, p)'
      BY <1>1, <1>2, <1>3, <2>2, <3>1 DEF Saving, Deals
    <3> QED BY <2>1, <3>1, <3>2, AccountStep
  <2>6. RecordChange(r) => At(r, "save", "change") \/ At(r, "trash", "change")
    BY DEF RecordChange
  <2> QED BY <2>3, <2>4, <2>5, <2>6 DEF Does
<1>8. \A x \in Properties \ (overlapped' \cup broken' \cup purged') : Account(x)'
  <2> SUFFICES ASSUME NEW x \in Properties \ (overlapped' \cup broken' \cup purged')
               PROVE  Account(x)'
    OBVIOUS
  <2>1. CASE x = p
    BY <1>7, <2>1
  <2>2. CASE x # p
    <3>1. Account(x)
      BY <1>4, <1>5 DEF Accounts
    <3> QED BY <1>6, <2>2, <3>1
  <2> QED BY <2>1, <2>2
<1> QED BY <1>8 DEF Accounts

LEMMA OthersHoldAccounts ==
    ASSUME IInv, Careful, Accounts,
           (\E r \in Requests : Begins(r)) \/ \E p \in Properties : Passes(p)
    PROVE  Accounts'
<1>1. ASSUME NEW r \in Requests, Begins(r) PROVE Accounts'
  <2>1. PICK work \in Works, grants \in BOOLEAN : Begin(r, work, grants) /\ Checked(work)
    BY <1>1 DEF Begins
  <2>2. /\ UNCHANGED <<row, prices, recorded, overwritten, broken, purged>>
        /\ request[r] = Idle /\ request' = [request EXCEPT ![r] = work] /\ work.step = "write"
        /\ overlapped \subseteq overlapped'
    BY <2>1 DEF Begin, Checked, Overlap, tables
  <2>3. \A x \in Properties, t \in Requests :
           /\ Saving(t, x)' <=> Saving(t, x)
           /\ Saving(t, x) => request'[t] = request[t]
    BY <2>2 DEF Saving, Deals, IInv, TypeOK
  <2>4. ASSUME NEW x \in Properties, Account(x) PROVE Account(x)'
    BY <2>2, <2>3, <2>4, AccountStep
  <2> QED BY <2>2, <2>4 DEF Accounts
<1>2. ASSUME NEW p \in Properties, Passes(p) PROVE Accounts'
  <2>1. /\ request' = request /\ UNCHANGED <<prices, recorded, overwritten, broken, purged>>
        /\ overlapped \subseteq overlapped'
        /\ \A x \in Properties \ {p} : row'[x] = row[x]
        /\ row'[p] \in Rows /\ row'[p].content = row[p].content
        /\ Busy(p) /\ p \notin overlapped' => row'[p].from = row[p].from
    BY <1>2, Passed
  <2>2. row'[p] # None
    BY <2>1, AbsentAssumption
  <2>3. ASSUME NEW x \in Properties \ overlapped', Account(x) PROVE Account(x)'
    <3>1. \A t \in Requests : /\ Saving(t, x)' <=> Saving(t, x)
                              /\ Saving(t, x) => Busy(x)
      BY <2>1 DEF Saving, Deals, Busy
    <3>2. /\ row[x] # None => row'[x] # None /\ row'[x].content = row[x].content
          /\ Busy(x) => row'[x].from = row[x].from
      BY <2>1, <2>2, <2>3
    <3> QED BY <2>1, <2>3, <3>1, <3>2, AccountStep
  <2> QED BY <2>1, <2>3 DEF Accounts
<1> QED BY <1>1, <1>2

\* The price history of a property that is saved by one request at a time is a chain
\* that ends in its price, and the change history holds whatever those saves have
\* overwritten (0071_property_price_history.sql, saveProperty).
THEOREM HistoriesAreKept == Spec => []HistoriesHold
<1>1. Init => Accounts
  <2> SUFFICES ASSUME Init, NEW p \in Properties PROVE Account(p)
    BY DEF Accounts
  <2>1. /\ prices[p] = <<>> /\ overwritten[p] = {}
        /\ \A r \in Requests : request[r] = Idle
    BY DEF Init
  <2>2. Linked(<<>>)
    BY DEF Linked
  <2> QED BY <2>1, <2>2 DEF Account, Ends, Saving, Deals
<1>2. IInv /\ Careful /\ Accounts /\ [Next]_vars => Accounts'
  <2> SUFFICES ASSUME IInv, Careful, Accounts, [Next]_vars PROVE Accounts'
    OBVIOUS
  <2>1. CASE UNCHANGED vars
    BY <2>1 DEF vars, tables, history, Accounts, Account, Saving, Deals
  <2> QED BY <2>1, Kinds, DoesHoldAccounts, OthersHoldAccounts
<1>3. Accounts => HistoriesHold
  <2> SUFFICES ASSUME Accounts, NEW p \in Properties, Settled(p)
               PROVE  /\ Linked(prices[p])
                      /\ prices[p] # <<>> =>
                            prices[p][Len(prices[p])].after = row[p].content.price
                      /\ overwritten[p] \subseteq recorded[p]
    BY DEF HistoriesHold, PricesChain, Recoverable, Linked
  <2>1. Account(p) /\ ~\E r \in Requests : Saving(r, p)
    BY DEF Settled, Busy, Saving, Deals, Accounts
  <2> QED BY <2>1 DEF Account, Ends
<1> QED BY <1>1, <1>2, <1>3, Invariance, CareIsTaken, PTL DEF Spec
=============================================================================
