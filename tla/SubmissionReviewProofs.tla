----------------------- MODULE SubmissionReviewProofs -----------------------
(***************************************************************************)
(* What the review of submissions keeps for any number of submissions,     *)
(* reviewers and concurrent requests, wherever one of them stops.          *)
(***************************************************************************)
EXTENDS SubmissionReview, FiniteSetTheorems, TLAPS

Listed(s, p, listings) ==
    /\ p \in Properties
    /\ listings[p] # None
    /\ listings[p].of = s

\* What a running request relies on: it has something to do, the rows it read are
\* still there, a new row is pending, and an approval has a consultant and, when about to record the listing, has inserted it.
Sound(q, rows, listings) == q # Idle =>
    /\ q.todo # {} /\ q.todo \subseteq q.names
    /\ q.op # "bulk" => q.new # None
    /\ q.op = "create" => q.new.status = "pending"
    /\ q.op = "approve" => q.new.consultant \in Consultants
    /\ q.op \notin {"create", "bulk"} => \A s \in q.names : rows[s] # None
    /\ q.op = "approve" /\ q.step = "write" =>
          Listed(CHOOSE s \in q.names : TRUE, q.new.property, listings)

RequestsSound == \A r \in Requests : Sound(request[r], row, published)

IInv == TypeOK /\ RequestsSound /\ ApprovedIsPublished

USE ReviewAssumption, AbsentAssumption

LEMMA InitInv == Init => IInv
<1> SUFFICES ASSUME Init PROVE IInv
  OBVIOUS
<1>1. TypeOK
  BY DEF Init, TypeOK
<1>2. RequestsSound
  BY DEF Init, RequestsSound, Sound
<1>3. ApprovedIsPublished
  BY DEF Init, ApprovedIsPublished, HasStatus, Exists
<1> QED BY <1>1, <1>2, <1>3 DEF IInv

\* One request moves on, no row disappears, no listing changes, and a row that is
\* approved after the step is listed: the invariant is kept.
LEMMA RequestStep ==
    ASSUME IInv, NEW r \in Requests, NEW q \in Running \cup {Idle},
           request' = [request EXCEPT ![r] = q],
           row' \in [Submissions -> Rows \cup {None}],
           lead' \in [Submissions -> LeadStatus \cup {None}],
           published' \in [Properties -> Listings \cup {None}],
           version' \in 0 .. MaxVersion,
           overlapped' \subseteq Submissions, broken' \subseteq Submissions,
           Sound(q, row', published'),
           \A s \in Submissions : row[s] # None => row'[s] # None,
           \A p \in Properties : published[p] # None => published'[p] = published[p],
           \A s \in Submissions :
               row'[s] # row[s] /\ row'[s] # None /\ row'[s].status = "approved"
                   => Listed(s, row'[s].property, published')
    PROVE  IInv'
<1>1. TypeOK'
  BY DEF IInv, TypeOK, Sound
<1>2. RequestsSound'
  <2> SUFFICES ASSUME NEW t \in Requests
               PROVE  Sound(request'[t], row', published')
    BY DEF RequestsSound
  <2>1. CASE t = r
    BY <2>1 DEF IInv, TypeOK
  <2>2. CASE t # r
    <3>1. request'[t] = request[t]
      BY <2>2 DEF IInv, TypeOK
    <3>2. Sound(request[t], row, published)
      BY DEF IInv, RequestsSound
    <3>3. request[t] # Idle => request[t].names \subseteq Submissions
      BY DEF IInv, TypeOK, Running
    <3> QED BY <3>1, <3>2, <3>3 DEF Sound, Listed
  <2> QED BY <2>1, <2>2
<1>3. ApprovedIsPublished'
  BY DEF IInv, ApprovedIsPublished, HasStatus, Exists, Listed
<1> QED BY <1>1, <1>2, <1>3 DEF IInv

----------------------------------------------------------------------------
(* The actions *)

LEMMA AcceptInv ==
    ASSUME IInv, NEW r \in Requests, NEW op \in Operations, NEW step \in Steps,
           NEW names \in SUBSET Submissions, NEW todo \in SUBSET names, todo # {},
           NEW new \in Rows \cup {None}, op # "bulk" => new # None,
           op \notin {"create", "bulk"} => \A s \in names : row[s] # None,
           op = "approve" => step = "publish", op = "create" => new.status = "pending",
           op = "approve" => new.consultant \in Consultants,
           Accept(r, op, step, names, todo, new), version' \in 0 .. MaxVersion
    PROVE  IInv'
<1> DEFINE q == [op |-> op, step |-> step, names |-> names, todo |-> todo, new |-> new]
<1>1. q \in Running
  BY DEF Running
<1>2. Sound(q, row', published')
  BY DEF Sound, Accept, tables
<1>3. request' = [request EXCEPT ![r] = q]
  BY DEF Accept
<1>4. /\ row' = row /\ lead' = lead /\ published' = published /\ broken' = broken
      /\ overlapped' \subseteq Submissions
  BY DEF Accept, tables, IInv, TypeOK
<1> HIDE DEF q
<1> QED BY <1>1, <1>2, <1>3, <1>4, RequestStep DEF IInv, TypeOK

LEMMA StartInv ==
    ASSUME IInv, NEW r \in Requests, Start(r)
    PROVE  IInv'
<1> USE DEF IInv, TypeOK
<1>1. ASSUME NEW s \in Submissions, StartCreate(r, s) PROVE IInv'
  <2> DEFINE new == [status |-> "pending", data |-> version', consultant |-> None,
                     property |-> None]
  <2>1. version' \in 0 .. MaxVersion
    <3>1. version < MaxVersion /\ version' = version + 1
      BY <1>1 DEF StartCreate
    <3>2. version \in 0 .. MaxVersion
      OBVIOUS
    <3> QED BY ONLY <3>1, <3>2, ReviewAssumption
  <2>2. new \in Rows /\ new.status = "pending"
    BY <2>1 DEF Rows
  <2>3. Accept(r, "create", "insert", {s}, {s}, new)
    BY <1>1 DEF StartCreate
  <2> HIDE DEF new
  <2> QED BY <2>1, <2>2, <2>3, AcceptInv DEF Operations, Steps
<1>2. ASSUME NEW s \in Submissions, row[s] # None,
             NEW op \in Operations \ {"create", "bulk"}, NEW step \in Steps,
             op = "approve" => step = "publish", NEW new \in Rows,
             op = "approve" => new.consultant \in Consultants,
             Accept(r, op, step, {s}, {s}, new), version' \in 0 .. MaxVersion
      PROVE  IInv'
  BY <1>2, AcceptInv
<1>3. ASSUME NEW s \in Submissions, StartResubmit(r, s) \/ StartEdit(r, s)
      PROVE  IInv'
  <2>1. row[s] \in Rows /\ row[s] # None /\ version' \in 0 .. MaxVersion
    BY <1>3 DEF StartResubmit, StartEdit, HasStatus, Exists
  <2>2. /\ [row[s] EXCEPT !.status = "pending", !.data = version'] \in Rows
        /\ [row[s] EXCEPT !.data = version'] \in Rows
    BY <2>1 DEF Rows
  <2> QED BY <1>2, <1>3, <2>1, <2>2 DEF StartResubmit, StartEdit, Operations, Steps
<1>4. ASSUME NEW s \in Submissions, StartReject(r, s)
      PROVE  IInv'
  <2>1. row[s] \in Rows /\ row[s] # None /\ version' \in 0 .. MaxVersion
    BY <1>4 DEF StartReject, HasStatus, Exists
  <2>2. [row[s] EXCEPT !.status = "rejected"] \in Rows
    BY <2>1 DEF Rows, Decided
  <2> QED BY <1>2, <1>4, <2>1, <2>2 DEF StartReject, Operations, Steps
<1>5. ASSUME NEW s \in Submissions, NEW c \in Consultants \cup {None}, StartAssign(r, s, c)
      PROVE  IInv'
  <2>1. row[s] \in Rows /\ row[s] # None /\ version' \in 0 .. MaxVersion
    BY <1>5 DEF StartAssign, HasStatus, Exists
  <2>2. [row[s] EXCEPT !.consultant = c] \in Rows
    BY <2>1 DEF Rows
  <2> QED BY <1>2, <1>5, <2>1, <2>2 DEF StartAssign, Operations, Steps
<1>6. ASSUME NEW s \in Submissions, NEW c \in Consultants, StartApprove(r, s, c)
      PROVE  IInv'
  <2>1. row[s] \in Rows /\ row[s] # None /\ version' \in 0 .. MaxVersion
    BY <1>6 DEF StartApprove, HasStatus, Exists
  <2> DEFINE new == [row[s] EXCEPT !.status = "approved", !.consultant = c]
  <2>2. new \in Rows /\ new.consultant \in Consultants
    BY <2>1 DEF Rows, Decided
  <2> QED BY <1>2, <1>6, <2>1, <2>2 DEF StartApprove, Operations, Steps
<1>7. ASSUME NEW names \in SUBSET Submissions, StartBulk(r, names)
      PROVE  IInv'
  <2> DEFINE targets == {s \in names : HasStatus(s, "pending")}
  <2>1. targets \in SUBSET names /\ targets # {} /\ version' \in 0 .. MaxVersion
    BY <1>7 DEF StartBulk
  <2>2. Accept(r, "bulk", "write", names, targets, None)
    BY <1>7 DEF StartBulk
  <2> HIDE DEF targets
  <2> QED BY <2>1, <2>2, AcceptInv DEF Operations, Steps
<1> QED BY <1>1, <1>3, <1>4, <1>5, <1>6, <1>7 DEF Start
\* A running request of one submission deals with one of its own.
LEMMA TheNamed ==
    ASSUME IInv, NEW r \in Requests, request[r] # Idle
    PROVE  The(r) \in request[r].names /\ The(r) \in Submissions /\ request[r] \in Running
<1>1. request[r].todo # {} /\ request[r].todo \subseteq request[r].names
  BY DEF IInv, RequestsSound, Sound
<1>2. request[r] \in Running
  BY DEF IInv, TypeOK
<1>3. request[r].names \subseteq Submissions
  BY <1>2 DEF Running
<1> QED BY <1>1, <1>2, <1>3 DEF The

LEMMA CreateInv ==
    ASSUME IInv, NEW r \in Requests,
           \/ InsertLead(r) \/ InsertRow(r)
           \/ \E carriedOut \in BOOLEAN : InsertFails(r, carriedOut)
    PROVE  IInv'
<1>1. request[r].op = "create" /\ request[r] # Idle
  <2>1. request[r].op = "create"
    BY Zenon DEF InsertLead, InsertRow, InsertFails, At
  <2> QED BY <2>1 DEF Idle
<1>2. The(r) \in Submissions /\ request[r] \in Running
  BY <1>1, TheNamed
<1>3. request[r].new \in Rows
  BY <1>1, <1>2 DEF IInv, RequestsSound, Sound, Running
<1>4. CASE InsertLead(r)
  <2> DEFINE q == [request[r] EXCEPT !.step = "write"]
  <2>1. q \in Running
    BY <1>2 DEF Running, Steps
  <2>2. Sound(q, row, published)
    BY <1>1, <1>2 DEF IInv, RequestsSound, Sound, Running
  <2>3. request' = [request EXCEPT ![r] = q]
    BY <1>4 DEF InsertLead, GoOn
  <2>4. lead' \in [Submissions -> LeadStatus \cup {None}]
    BY <1>2, <1>4 DEF InsertLead, IInv, TypeOK, LeadStatus
  <2> HIDE DEF q
  <2> QED BY <1>4, <2>1, <2>2, <2>3, <2>4, RequestStep
          DEF InsertLead, history, IInv, TypeOK
<1>5. CASE InsertRow(r) \/ \E carriedOut \in BOOLEAN : InsertFails(r, carriedOut)
  <2>1. row' = [row EXCEPT ![The(r)] = request[r].new] \/ row' = row
    BY <1>5 DEF InsertRow, InsertFails
  <2>2. /\ lead' \in [Submissions -> LeadStatus \cup {None}]
        /\ published' = published /\ version' = version /\ overlapped' = overlapped
        /\ broken' \subseteq Submissions
        /\ request' = [request EXCEPT ![r] = Idle]
    BY <1>2, <1>5 DEF InsertRow, InsertFails, LeadDeleted, Finish, history, IInv, TypeOK
  <2>3. request[r].new.status = "pending"
    BY <1>1 DEF IInv, RequestsSound, Sound
  <2> QED BY <1>2, <1>3, <2>1, <2>2, <2>3, RequestStep DEF Sound, IInv, TypeOK
<1> QED BY <1>4, <1>5

\* The updates by id: the row is there, and one that comes out approved is listed.
LEMMA UpdateInv ==
    ASSUME IInv, NEW r \in Requests,
           Resubmit(r) \/ Edit(r) \/ Assign(r) \/ Reject(r) \/ Approve(r)
    PROVE  IInv'
<1> DEFINE s == The(r)
           q == [request[r] EXCEPT !.step = "lead"]
<1>1. request[r].op \notin {"nothing", "create", "bulk"}
  BY Zenon DEF Resubmit, Edit, Assign, Reject, Approve, At
<1>2. request[r] # Idle
  BY <1>1 DEF Idle
<1>3. s \in request[r].names /\ s \in Submissions /\ request[r] \in Running
  BY <1>2, TheNamed
<1>4. row[s] \in Rows /\ row[s] # None /\ request[r].new \in Rows
  BY <1>1, <1>2, <1>3 DEF IInv, TypeOK, RequestsSound, Sound, Running
<1>5. q \in Running /\ Sound(q, row, published)
  <2>1. q \in Running
    BY <1>3 DEF Running, Steps
  <2>2. q.step = "lead" /\ q.op = request[r].op /\ q.todo = request[r].todo
        /\ q.names = request[r].names /\ q.new = request[r].new
    BY <1>3 DEF Running
  <2> QED BY <1>1, <1>2, <2>1, <2>2 DEF IInv, RequestsSound, Sound
<1>6. PICK values \in Rows :
         /\ Update(r, values)
         /\ values.status = "approved" => Listed(s, values.property, published)
         /\ request' = [request EXCEPT ![r] = q] \/ request' = [request EXCEPT ![r] = Idle]
  <2>1. row[s].status = "approved" => Listed(s, row[s].property, published)
    BY <1>3, <1>4 DEF IInv, ApprovedIsPublished, HasStatus, Exists, Listed
  <2>2. CASE Resubmit(r)
    <3> DEFINE v == [row[s] EXCEPT !.status = "pending", !.data = request[r].new.data]
    <3>1. v \in Rows /\ v.status = "pending"
      BY <1>4 DEF Rows
    <3> QED BY <2>2, <3>1 DEF Resubmit, GoOn
  <2>3. CASE Edit(r)
    <3> DEFINE v == [row[s] EXCEPT !.data = request[r].new.data]
    <3>1. v \in Rows /\ v.status = row[s].status /\ v.property = row[s].property
      BY <1>4 DEF Rows
    <3> QED BY <2>1, <2>3, <3>1 DEF Edit, Finish
  <2>4. CASE Assign(r)
    <3> DEFINE v == [row[s] EXCEPT !.consultant = request[r].new.consultant]
    <3>1. v \in Rows /\ v.status = row[s].status /\ v.property = row[s].property
      BY <1>4 DEF Rows
    <3> QED BY <2>1, <2>4, <3>1 DEF Assign, Finish
  <2>5. CASE Reject(r)
    <3> DEFINE v == [row[s] EXCEPT !.status = "rejected"]
    <3>1. v \in Rows /\ v.status = "rejected"
      BY <1>4 DEF Rows, Decided
    <3> QED BY <2>5, <3>1 DEF Reject, GoOn
  <2>6. CASE Approve(r)
    <3> DEFINE v == [row[s] EXCEPT !.status = "approved", !.property = request[r].new.property]
    <3>1. v \in Rows /\ v.property = request[r].new.property
      BY <1>4 DEF Rows, Decided
    <3>2. request[r].op = "approve" /\ request[r].step = "write"
      BY <2>6 DEF Approve, At
    <3>3. Listed(s, request[r].new.property, published)
      BY <1>2, <3>2 DEF IInv, RequestsSound, Sound, The
    <3> QED BY <2>6, <3>1, <3>3 DEF Approve, GoOn
  <2> QED BY <2>2, <2>3, <2>4, <2>5, <2>6
<1>7. row' = [row EXCEPT ![s] = values] /\ UNCHANGED <<lead, published, version, history>>
  BY <1>6 DEF Update
<1>8. values # None
  BY <1>6
<1>9. \A t \in Submissions : row[t] # None => row'[t] # None
  BY <1>7, <1>8 DEF IInv, TypeOK
<1>10. Sound(q, row', published')
  BY <1>3, <1>5, <1>7, <1>9 DEF Sound, Listed, Running
<1> HIDE DEF q, s
<1> QED BY <1>3, <1>5, <1>6, <1>7, <1>9, <1>10, RequestStep
        DEF Sound, history, IInv, TypeOK

\* The listing of an approval is a new one.
LEMMA PublishInv ==
    ASSUME IInv, NEW r \in Requests, NEW p \in Properties, Publish(r, p)
    PROVE  IInv'
<1> DEFINE s == The(r)
           q == [request[r] EXCEPT !.step = "write", !.new.property = p]
           listing == [of |-> s, data |-> request[r].new.data,
                       consultant |-> request[r].new.consultant]
<1>1. request[r].op = "approve" /\ request[r] # Idle
  BY DEF Publish, At, Idle
<1>2. s \in request[r].names /\ s \in Submissions /\ request[r] \in Running
  BY <1>1, TheNamed
<1>3. request[r].new \in Rows
  BY <1>1, <1>2 DEF IInv, RequestsSound, Sound, Running
<1>4. request[r].new.consultant \in Consultants
  BY <1>1 DEF IInv, RequestsSound, Sound
<1>5. published[p] = None /\ published' = [published EXCEPT ![p] = listing]
      /\ request' = [request EXCEPT ![r] = q] /\ UNCHANGED <<row, lead, version, history>>
  BY DEF Publish
<1>6. listing \in Listings /\ listing.of = s
  BY <1>2, <1>3, <1>4 DEF Listings, Rows
<1>7. listing # None /\ published' \in [Properties -> Listings \cup {None}]
  BY <1>5, <1>6 DEF IInv, TypeOK
<1>8. Listed(s, p, published')
  BY <1>5, <1>6, <1>7 DEF Listed, IInv, TypeOK
<1>9. /\ q.op = "approve" /\ q.names = request[r].names /\ q.todo = request[r].todo
      /\ q.new = [request[r].new EXCEPT !.property = p]
  BY <1>1, <1>2 DEF Running
<1>10. q.new \in Rows /\ q.new.property = p /\ q.new.consultant = request[r].new.consultant
  BY <1>3, <1>9 DEF Rows
<1>11. q \in Running
  BY <1>2, <1>3, <1>10 DEF Running, Steps
<1>12. Sound(q, row', published')
  <2>1. \A t \in q.names : row'[t] # None
    BY <1>1, <1>5, <1>9 DEF IInv, RequestsSound, Sound
  <2>2. s = CHOOSE t \in q.names : TRUE
    BY <1>9 DEF The
  <2> QED BY <1>1, <1>4, <1>8, <1>9, <1>10, <2>1, <2>2 DEF IInv, RequestsSound, Sound
<1> HIDE DEF q, s, listing
<1>13. \A t \in Properties : published[t] # None => published'[t] = published[t]
  BY <1>5 DEF IInv, TypeOK
<1> QED BY <1>5, <1>7, <1>11, <1>12, <1>13, RequestStep DEF history, IInv, TypeOK

LEMMA BulkRejectInv ==
    ASSUME IInv, NEW r \in Requests, BulkReject(r)
    PROVE  IInv'
<1> DEFINE q == [request[r] EXCEPT !.step = "lead"]
<1>1. request[r].op = "bulk" /\ request[r] # Idle
  BY DEF BulkReject, At, Idle
<1>2. request[r] \in Running
  BY <1>1, TheNamed
<1>3. q \in Running /\ Sound(q, row', published')
  <2>1. q \in Running
    BY <1>2 DEF Running, Steps
  <2>2. q.op = "bulk" /\ q.names = request[r].names /\ q.todo = request[r].todo
    BY <1>1, <1>2 DEF Running
  <2> QED BY <1>1, <2>1, <2>2 DEF IInv, RequestsSound, Sound
<1>4. request' = [request EXCEPT ![r] = q] /\ UNCHANGED <<lead, published, version, history>>
  BY DEF BulkReject, GoOn
<1>5. \A s \in Submissions : row[s] \in Rows \cup {None}
  BY DEF IInv, TypeOK
<1>6. \A s \in Submissions : row[s] # None =>
          [row[s] EXCEPT !.status = "rejected"] \in Rows
          /\ [row[s] EXCEPT !.status = "rejected"].status = "rejected"
  BY <1>5 DEF Rows, Decided
<1>7. \A s \in Submissions :
          \/ row'[s] = row[s]
          \/ row[s] # None /\ row'[s] = [row[s] EXCEPT !.status = "rejected"]
  BY DEF BulkReject, HasStatus, Exists
<1>8. \A s \in Submissions :
          /\ row'[s] \in Rows \cup {None}
          /\ row[s] # None => row'[s] # None
          /\ row'[s] # row[s] => row'[s].status = "rejected"
  BY <1>5, <1>6, <1>7
<1>9. row' \in [Submissions -> Rows \cup {None}]
  <2>1. row' = [s \in Submissions |-> row'[s]]
    BY DEF BulkReject
  <2> QED BY <1>8, <2>1
<1> HIDE DEF q
<1> QED BY <1>3, <1>4, <1>8, <1>9, RequestStep DEF history, IInv, TypeOK

\* The steps on the lead, and stopping, change no row and no listing.
LEMMA LeadInv ==
    ASSUME IInv, NEW r \in Requests,
           \/ \E s \in Submissions : MoveLead(r, s) \/ MoveLeadFails(r, s)
           \/ Stop(r)
    PROVE  IInv'
<1>1. request[r] # Idle
  BY Zenon DEF MoveLead, MoveLeadFails, Stop
<1>2. request[r] \in Running
  BY <1>1, TheNamed
<1>3. /\ UNCHANGED <<row, published, version, overlapped>>
      /\ lead' \in [Submissions -> LeadStatus \cup {None}]
      /\ broken' \subseteq Submissions
  BY <1>2 DEF MoveLead, MoveLeadFails, Stop, LeadAfter, LeadStatus, tables, history,
              Running, IInv, TypeOK
<1>4. PICK q \in Running \cup {Idle} :
         request' = [request EXCEPT ![r] = q] /\ Sound(q, row, published)
  <2>1. CASE request' = [request EXCEPT ![r] = Idle]
    BY <2>1 DEF Sound
  <2>2. CASE \E s \in Submissions :
                /\ s \in request[r].todo /\ request[r].todo # {s} /\ request[r].step = "lead"
                /\ request' = [request EXCEPT ![r] = [request[r] EXCEPT !.todo = @ \ {s}]]
    <3> PICK s \in Submissions :
                /\ s \in request[r].todo /\ request[r].todo # {s} /\ request[r].step = "lead"
                /\ request' = [request EXCEPT ![r] = [request[r] EXCEPT !.todo = @ \ {s}]]
      BY <2>2
    <3> DEFINE q == [request[r] EXCEPT !.todo = @ \ {s}]
    <3>1. q \in Running
      BY <1>2 DEF Running
    <3>2. /\ q.todo = request[r].todo \ {s} /\ q.op = request[r].op /\ q.step = "lead"
          /\ q.names = request[r].names /\ q.new = request[r].new
      BY <1>2 DEF Running
    <3>3. Sound(q, row, published)
      BY <1>1, <3>2 DEF IInv, RequestsSound, Sound
    <3> QED BY <3>1, <3>3
  <2> QED BY <2>1, <2>2 DEF MoveLead, MoveLeadFails, Stop, Done, Finish
<1> QED BY <1>3, <1>4, RequestStep DEF IInv, TypeOK

LEMMA NextInv == IInv /\ [Next]_vars => IInv'
<1> SUFFICES ASSUME IInv, [Next]_vars PROVE IInv'
  OBVIOUS
<1>1. CASE UNCHANGED vars
  BY <1>1 DEF vars, tables, history, IInv, TypeOK, RequestsSound, ApprovedIsPublished,
              HasStatus, Exists
<1>2. ASSUME NEW r \in Requests, Start(r) PROVE IInv'
  BY <1>2, StartInv
<1>3. ASSUME NEW r \in Requests, Step(r) PROVE IInv'
  BY <1>3, CreateInv, UpdateInv, PublishInv, BulkRejectInv, LeadInv DEF Step
<1> QED BY <1>1, <1>2, <1>3 DEF Next

\* The inductive invariant holds of the review in every reachable state.
THEOREM Invariance == Spec => []IInv
BY InitInv, NextInv, PTL DEF Spec

----------------------------------------------------------------------------
(* What a request may rely on about a submission that nobody else deals    *)
(* with.  The request is q; q = Idle when nobody deals with it.            *)

\* A listing made of a submission is the one its row names, or the one a running
\* approval has just inserted.
Known(p, q, a) ==
    \/ a # None /\ a.status = "approved" /\ a.property = p
    \/ q.op = "approve" /\ q.step = "write" /\ q.new.property = p

\* What q read of the row, and what it has written, still hold.
Relies(q, s, a, listings) ==
    /\ q.op = "create" => a = None
    /\ q.op \in {"edit", "assign", "reject", "approve"} /\ q.step # "lead" =>
          a # None /\ a.status = "pending"
    /\ q.op = "resubmit" /\ q.step # "lead" => a # None /\ a.status = "rejected"
    /\ q.op = "bulk" /\ q.step # "lead" =>
          (s \in q.todo <=> a # None /\ a.status = "pending")
    /\ q.op = "approve" /\ q.step # "lead" =>
          q.new.data = a.data /\ a.consultant \in {q.new.consultant, None}
    /\ q.op = "approve" /\ q.step = "write" =>
          /\ listings[q.new.property].data = q.new.data
          /\ listings[q.new.property].consultant = q.new.consultant

\* The status of a submission whose lead is still to be moved.
Written(op) == CASE op = "resubmit" -> "pending" [] op = "approve" -> "approved"
                 [] OTHER -> "rejected"

\* The status of the lead that belongs to a row.
Follows(a) == IF a = None THEN None
              ELSE IF a.status = "pending" THEN "new"
              ELSE IF a.status = "approved" THEN "contacted" ELSE "closed"

\* The lead agrees with the row, or q is about to make it.
Agrees(q, s, a, l) ==
    IF q.op = "create" THEN l = IF q.step = "insert" THEN None ELSE "new"
    ELSE IF q.op # "nothing" /\ q.step = "lead" /\ s \in q.todo
         THEN a # None /\ l # None /\ a.status = Written(q.op)
    ELSE l = Follows(a)

\* A listing says what the row of an approved submission says.
Same(a, listing) == listing.data = a.data /\ a.consultant \in {listing.consultant, None}

Good(q, s, a, l, listings, stopped) ==
    /\ a # None /\ a.status = "approved" => Same(a, listings[a.property])
    /\ Relies(q, s, a, listings)
    /\ ~stopped =>
          /\ \A p \in Properties : listings[p] # None /\ listings[p].of = s => Known(p, q, a)
          /\ Agrees(q, s, a, l)

\* Every operation but a bulk deals with one submission; the lead of an edit, an
\* assignment or a new submission is not moved.
Shaped(q) ==
    /\ q.op \notin {"nothing", "bulk"} => \E s \in Submissions : q.names = {s} /\ q.todo = {s}
    /\ q.op \in {"create", "edit", "assign"} => q.step # "lead"

Alone(s) == \A r, t \in Requests : s \in request[r].names /\ s \in request[t].names => r = t

GoodFor(q, s) == Good(q, s, row[s], lead[s], published, s \in broken)

Careful ==
    /\ \A r \in Requests : Shaped(request[r])
    /\ \A s \in Submissions \ overlapped :
          /\ Alone(s)
          /\ ~Busy(s) => GoodFor(Idle, s)
          /\ \A r \in Requests : s \in request[r].names => GoodFor(request[r], s)

LEMMA InitCareful == Init => Careful
<1> SUFFICES ASSUME Init PROVE Careful
  OBVIOUS
<1>1. \A r \in Requests : request[r] = Idle
  BY DEF Init
<1>2. Idle.op = "nothing" /\ Idle.names = {} /\ Shaped(Idle)
  BY DEF Idle, Shaped
<1>3. \A s \in Submissions : row[s] = None /\ lead[s] = None
  BY DEF Init
<1>4. \A p \in Properties : published[p] = None
  BY DEF Init
<1>5. \A s \in Submissions : GoodFor(Idle, s)
  BY <1>2, <1>3, <1>4 DEF GoodFor, Good, Relies, Agrees, Follows
<1> QED BY <1>1, <1>2, <1>5 DEF Careful, Alone

\* Nothing about a submission that the step does not deal with changes.
LEMMA OthersGood ==
    ASSUME IInv, NEW s \in Submissions, NEW x,
           x = Idle \/ \E t \in Requests : x = request[t] /\ s \in x.names /\ Shaped(x),
           row'[s] = row[s], lead'[s] = lead[s], broken \subseteq broken',
           \A p \in Properties : \/ published'[p] = published[p]
                                 \/ published[p] = None /\ published'[p].of # s,
           GoodFor(x, s)
    PROVE  Good(x, s, row'[s], lead'[s], published', s \in broken')
<1>1. row[s] # None /\ row[s].status = "approved" => Listed(s, row[s].property, published)
  BY DEF IInv, ApprovedIsPublished, HasStatus, Exists, Listed
<1>2. x.op = "approve" /\ x.step = "write" => Listed(s, x.new.property, published)
  <2>1. CASE x = Idle
    BY <2>1 DEF Idle
  <2>2. CASE x # Idle /\ x.op = "approve" /\ x.step = "write"
    <3>1. x.names = {s} /\ \A y, z \in x.names : y = z
      BY <2>2 DEF Shaped
    <3>2. (CHOOSE y \in x.names : TRUE) = s
      BY <3>1
    <3> QED BY <2>2, <3>2 DEF IInv, RequestsSound, Sound
  <2> QED BY <2>1, <2>2
<1>3. \A p \in Properties : Listed(s, p, published) => published'[p] = published[p]
  BY DEF Listed
<1>4. Same(row[s], published[row[s].property]) /\ row[s] # None /\ row[s].status = "approved"
         => Same(row'[s], published'[row'[s].property])
  BY <1>1, <1>3 DEF Listed
<1>5. Relies(x, s, row'[s], published')
  BY <1>2, <1>3 DEF Listed, GoodFor, Good, Relies
<1>6. s \notin broken' =>
         /\ \A p \in Properties :
               published'[p] # None /\ published'[p].of = s => Known(p, x, row'[s])
         /\ Agrees(x, s, row'[s], lead'[s])
  BY DEF GoodFor, Good
<1>7. row[s] # None /\ row[s].status = "approved" => Same(row[s], published[row[s].property])
  BY DEF GoodFor, Good
<1> QED BY <1>4, <1>5, <1>6, <1>7 DEF Good

\* One request moves on.  What it relied on is enough for what it leaves.
LEMMA CarefulStep ==
    ASSUME IInv, Careful, NEW r \in Requests, NEW q \in Running \cup {Idle},
           request' = [request EXCEPT ![r] = q], Shaped(q),
           \/ request[r] = Idle /\ \A s \in q.names : Busy(s) => s \in overlapped'
           \/ q = Idle \/ q.names = request[r].names,
           overlapped \subseteq overlapped', broken \subseteq broken',
           \A s \in Submissions \ (request[r].names \cup q.names) :
               row'[s] = row[s] /\ lead'[s] = lead[s],
           \A p \in Properties : \/ published'[p] = published[p]
                                 \/ published[p] = None /\ published'[p].of \in request[r].names,
           \A s \in (Submissions \cap (request[r].names \cup q.names)) \ overlapped' :
               GoodFor(request[r], s)
                   => Good(q, s, row'[s], lead'[s], published', s \in broken')
    PROVE  Careful'
<1>1. /\ request'[r] = q
      /\ \A t \in Requests \ {r} : request'[t] = request[t]
  BY DEF IInv, TypeOK
<1>2. (\A t \in Requests : Shaped(request[t]))'
  BY <1>1 DEF Careful, Shaped
<1>3. ASSUME NEW s \in Submissions \ overlapped'
      PROVE  /\ Alone(s)'
             /\ (~Busy(s))' => Good(Idle, s, row'[s], lead'[s], published', s \in broken')
             /\ \A t \in Requests : s \in request'[t].names =>
                   Good(request'[t], s, row'[s], lead'[s], published', s \in broken')
  <2>1. /\ Alone(s) /\ (~Busy(s) => GoodFor(Idle, s))
        /\ \A t \in Requests : s \in request[t].names => GoodFor(request[t], s)
    BY <1>3 DEF Careful
  <2>2. Idle.names = {}
    BY DEF Idle
  <2>3. CASE s \in request[r].names \cup q.names
    <3>1. \A t \in Requests \ {r} : s \notin request[t].names
      BY <2>1, <2>2, <2>3 DEF Alone, Busy
    <3>2. GoodFor(request[r], s)
      BY <2>1, <2>2, <2>3, <3>1 DEF Busy
    <3>3. Good(q, s, row'[s], lead'[s], published', s \in broken')
      BY <2>3, <3>2
    <3>4. s \notin q.names => q = Idle
      BY <2>2, <2>3
    <3> QED BY <1>1, <3>1, <3>3, <3>4 DEF Alone, Busy
  <2>4. CASE s \notin request[r].names \cup q.names
    <3>1. row'[s] = row[s] /\ lead'[s] = lead[s]
      BY <2>4
    <3>2. \A p \in Properties : \/ published'[p] = published[p]
                                \/ published[p] = None /\ published'[p].of # s
      BY <2>4
    <3>3. Alone(s)' /\ ((~Busy(s))' => ~Busy(s))
      BY <1>1, <2>1, <2>4 DEF Alone, Busy
    <3>4. (~Busy(s))' => Good(Idle, s, row'[s], lead'[s], published', s \in broken')
      BY <2>1, <3>1, <3>2, <3>3, OthersGood
    <3>5. ASSUME NEW t \in Requests, s \in request'[t].names
          PROVE  Good(request'[t], s, row'[s], lead'[s], published', s \in broken')
      <4>1. t # r /\ request'[t] = request[t]
        BY <1>1, <2>4, <3>5
      <4>2. GoodFor(request[t], s) /\ Shaped(request[t])
        BY <2>1, <3>5, <4>1 DEF Careful
      <4> QED BY <3>1, <3>2, <3>5, <4>1, <4>2, OthersGood
    <3> QED BY <3>3, <3>4, <3>5
  <2> QED BY <2>3, <2>4
<1> QED BY <1>2, <1>3 DEF Careful, GoodFor

LEMMA AcceptCareful ==
    ASSUME IInv, Careful, NEW r \in Requests, NEW op \in Operations, NEW step \in Steps,
           NEW names \in SUBSET Submissions, NEW todo \in SUBSET names,
           NEW new \in Rows \cup {None}, Accept(r, op, step, names, todo, new),
           NEW q, q = [op |-> op, step |-> step, names |-> names, todo |-> todo, new |-> new],
           step # "lead", op = "approve" => step = "publish",
           op # "bulk" => \E s \in Submissions : names = {s} /\ todo = {s},
           op = "create" => step = "insert" /\ \A s \in names : lead[s] = None,
           \A s \in names : Relies(q, s, row[s], published)
    PROVE  Careful'
<1>1. q \in Running /\ q.op = op /\ q.step = step /\ q.names = names
  BY DEF Running
<1>2. Shaped(q)
  BY <1>1 DEF Shaped
<1>3. /\ row' = row /\ lead' = lead /\ published' = published /\ broken' = broken
      /\ request[r] = Idle /\ request' = [request EXCEPT ![r] = q]
      /\ overlapped' = overlapped \cup {s \in names : Busy(s)}
  BY DEF Accept, tables
<1>4. ASSUME NEW s \in names, GoodFor(Idle, s)
      PROVE  Good(q, s, row[s], lead[s], published, s \in broken)
  <2>1. Idle.op = "nothing"
    BY DEF Idle
  <2>2. s \notin broken => Agrees(q, s, row[s], lead[s])
    BY <1>1, <1>4, <2>1 DEF GoodFor, Good, Agrees
  <2>3. \A p \in Properties : Known(p, Idle, row[s]) => Known(p, q, row[s])
    BY <2>1 DEF Known
  <2> QED BY <1>4, <2>2, <2>3 DEF GoodFor, Good
<1>5. /\ \A s \in q.names : Busy(s) => s \in overlapped'
      /\ Idle.names = {}
  BY <1>1, <1>3 DEF Idle
<1> QED BY <1>1, <1>2, <1>3, <1>4, <1>5, CarefulStep

LEMMA StartCareful ==
    ASSUME IInv, Careful, NEW r \in Requests, Start(r)
    PROVE  Careful'
<1>1. version \in 0 .. MaxVersion /\ \A s \in Submissions : row[s] \in Rows \cup {None}
  BY DEF IInv, TypeOK
<1>2. ASSUME NEW s \in Submissions, NEW op \in Operations \ {"bulk"}, NEW step \in Steps \ {"lead"},
             op = "approve" => step = "publish", NEW new \in Rows,
             op = "create" => step = "insert" /\ lead[s] = None,
             Accept(r, op, step, {s}, {s}, new),
             Relies([op |-> op, step |-> step, names |-> {s}, todo |-> {s}, new |-> new],
                       s, row[s], published)
      PROVE  Careful'
  BY <1>2, AcceptCareful
<1>3. ASSUME NEW s \in Submissions, StartCreate(r, s) PROVE Careful'
  <2> DEFINE new == [status |-> "pending", data |-> version', consultant |-> None,
                     property |-> None]
  <2>1. version < MaxVersion /\ version' = version + 1 /\ lead[s] = None /\ row[s] = None
        /\ Accept(r, "create", "insert", {s}, {s}, new)
    BY <1>3 DEF StartCreate, Exists
  <2>2. version' \in 0 .. MaxVersion
    BY ONLY <1>1, <2>1, ReviewAssumption
  <2>3. new \in Rows
    BY <2>2 DEF Rows
  <2> HIDE DEF new
  <2>4. Relies([op |-> "create", step |-> "insert", names |-> {s}, todo |-> {s}, new |-> new],
                  s, row[s], published)
    BY <2>1 DEF Relies
  <2> QED BY <1>2, <2>1, <2>3, <2>4 DEF Operations, Steps
<1>4. ASSUME NEW s \in Submissions, StartResubmit(r, s) PROVE Careful'
  <2> DEFINE new == [row[s] EXCEPT !.status = "pending", !.data = version']
  <2>1. version < MaxVersion /\ version' = version + 1 /\ row[s] # None
        /\ row[s].status = "rejected" /\ Accept(r, "resubmit", "write", {s}, {s}, new)
    BY <1>4 DEF StartResubmit, HasStatus, Exists
  <2>2. version' \in 0 .. MaxVersion
    BY ONLY <1>1, <2>1, ReviewAssumption
  <2>3. new \in Rows
    BY <1>1, <2>1, <2>2 DEF Rows
  <2> HIDE DEF new
  <2>4. Relies([op |-> "resubmit", step |-> "write", names |-> {s}, todo |-> {s}, new |-> new],
                  s, row[s], published)
    BY <2>1 DEF Relies
  <2> QED BY <1>2, <2>1, <2>3, <2>4 DEF Operations, Steps
<1>5. ASSUME NEW s \in Submissions, NEW op \in {"edit", "assign", "reject"}, NEW new \in Rows,
             HasStatus(s, "pending"), Accept(r, op, "write", {s}, {s}, new)
      PROVE  Careful'
  <2>1. Relies([op |-> op, step |-> "write", names |-> {s}, todo |-> {s}, new |-> new],
                  s, row[s], published)
    BY <1>5 DEF Relies, HasStatus, Exists
  <2> QED BY <1>2, <1>5, <2>1 DEF Operations, Steps
<1>6. ASSUME NEW s \in Submissions, StartEdit(r, s) PROVE Careful'
  <2>1. version < MaxVersion /\ version' = version + 1
    BY <1>6 DEF StartEdit
  <2>2. version' \in 0 .. MaxVersion
    BY ONLY <1>1, <2>1, ReviewAssumption
  <2>3. [row[s] EXCEPT !.data = version'] \in Rows
    BY <1>1, <1>6, <2>2 DEF Rows, StartEdit, HasStatus, Exists
  <2> QED BY <1>5, <1>6, <2>3 DEF StartEdit
<1>7. ASSUME NEW s \in Submissions, NEW c \in Consultants \cup {None}, StartAssign(r, s, c)
      PROVE  Careful'
  <2>1. [row[s] EXCEPT !.consultant = c] \in Rows
    BY <1>1, <1>7 DEF Rows, StartAssign, HasStatus, Exists
  <2> QED BY <1>5, <1>7, <2>1 DEF StartAssign
<1>8. ASSUME NEW s \in Submissions, StartReject(r, s) PROVE Careful'
  <2>1. [row[s] EXCEPT !.status = "rejected"] \in Rows
    BY <1>1, <1>8 DEF Rows, Decided, StartReject, HasStatus, Exists
  <2> QED BY <1>5, <1>8, <2>1 DEF StartReject
<1>9. ASSUME NEW s \in Submissions, NEW c \in Consultants, StartApprove(r, s, c)
      PROVE  Careful'
  <2> DEFINE new == [row[s] EXCEPT !.status = "approved", !.consultant = c]
  <2>1. row[s] # None /\ row[s] \in Rows /\ row[s].status = "pending"
        /\ row[s].consultant \in {c, None}
        /\ Accept(r, "approve", "publish", {s}, {s}, new)
    BY <1>1, <1>9 DEF StartApprove, HasStatus, Exists
  <2>2. new \in Rows /\ new.data = row[s].data /\ new.consultant = c
    BY <2>1 DEF Rows, Decided
  <2> HIDE DEF new
  <2>3. Relies([op |-> "approve", step |-> "publish", names |-> {s}, todo |-> {s}, new |-> new],
                  s, row[s], published)
    BY <2>1, <2>2 DEF Relies
  <2> QED BY <1>2, <2>1, <2>2, <2>3 DEF Operations, Steps
<1>10. ASSUME NEW names \in SUBSET Submissions, StartBulk(r, names) PROVE Careful'
  <2> DEFINE targets == {s \in names : HasStatus(s, "pending")}
             q == [op |-> "bulk", step |-> "write", names |-> names, todo |-> targets,
                   new |-> None]
  <2>1. Accept(r, "bulk", "write", names, targets, None)
    BY <1>10 DEF StartBulk
  <2>2. \A s \in names : Relies(q, s, row[s], published)
    BY DEF Relies, HasStatus, Exists
  <2>3. targets \in SUBSET names /\ "bulk" \in Operations /\ "write" \in Steps
    BY DEF Operations, Steps
  <2> HIDE DEF targets
  <2> QED BY <2>1, <2>2, <2>3, AcceptCareful
<1> QED BY <1>3, <1>4, <1>6, <1>7, <1>8, <1>9, <1>10 DEF Start

\* A step of an operation on one submission, which moves on or ends.
LEMMA OneCareful ==
    ASSUME IInv, Careful, NEW r \in Requests, NEW s \in Submissions, s = The(r),
           request[r].op \notin {"nothing", "bulk"},
           NEW q, request' = [request EXCEPT ![r] = q],
           \/ q = Idle
           \/ /\ q \in Running /\ q.op = request[r].op
              /\ q.names = request[r].names /\ q.todo = request[r].todo
              /\ q.op \in {"create", "edit", "assign"} => q.step # "lead",
           \A t \in Submissions \ {s} : row'[t] = row[t] /\ lead'[t] = lead[t],
           \A p \in Properties : \/ published'[p] = published[p]
                                 \/ published[p] = None /\ published'[p].of = s,
           overlapped' = overlapped, broken \subseteq broken',
           s \notin overlapped /\ GoodFor(request[r], s)
               => Good(q, s, row'[s], lead'[s], published', s \in broken')
    PROVE  Careful'
<1>1. PICK x \in Submissions : request[r].names = {x} /\ request[r].todo = {x}
  BY DEF Careful, Shaped
<1>2. x = s
  BY <1>1 DEF The
<1>3. Idle.op = "nothing" /\ Idle.names = {}
  BY DEF Idle
<1>4. Shaped(q) /\ q \in Running \cup {Idle}
  BY <1>1, <1>3 DEF Shaped
<1>5. q = Idle \/ q.names = request[r].names
  OBVIOUS
<1>6. request[r].names \cup q.names = {s}
  BY <1>1, <1>2, <1>3, <1>5
<1>7. \A p \in Properties : \/ published'[p] = published[p]
                            \/ published[p] = None /\ published'[p].of \in request[r].names
  BY <1>1, <1>2
<1> QED BY <1>4, <1>5, <1>6, <1>7, CarefulStep

LEMMA OnlyNamed ==
    ASSUME IInv, Careful, NEW r \in Requests, request[r].op \notin {"nothing", "bulk"}
    PROVE  /\ request[r] # Idle /\ request[r] \in Running
           /\ The(r) \in Submissions /\ request[r].names = {The(r)}
           /\ request[r].new \in Rows
<1>1. request[r] # Idle
  BY DEF Idle
<1>2. request[r] \in Running /\ The(r) \in request[r].names /\ The(r) \in Submissions
  BY <1>1, TheNamed
<1>3. request[r].new \in Rows
  BY <1>1, <1>2 DEF IInv, RequestsSound, Sound, Running
<1> QED BY <1>1, <1>2, <1>3 DEF Careful, Shaped

LEMMA CreateCareful ==
    ASSUME IInv, Careful, NEW r \in Requests,
           \/ InsertLead(r) \/ InsertRow(r)
           \/ \E carriedOut \in BOOLEAN : InsertFails(r, carriedOut)
    PROVE  Careful'
<1>1. request[r].op = "create"
  BY DEF InsertLead, InsertRow, InsertFails, At
<1> DEFINE s == The(r)
           new == request[r].new
<1>2. request[r] \in Running /\ s \in Submissions /\ new \in Rows /\ new.status = "pending"
  BY <1>1, OnlyNamed DEF IInv, RequestsSound, Sound
<1>3. Idle.op = "nothing"
  BY DEF Idle
<1>4. ASSUME GoodFor(request[r], s)
      PROVE  /\ row[s] = None
             /\ s \notin broken =>
                  /\ \A p \in Properties : ~(published[p] # None /\ published[p].of = s)
                  /\ lead[s] = IF request[r].step = "insert" THEN None ELSE "new"
  BY <1>1, <1>4 DEF GoodFor, Good, Relies, Agrees, Known
<1>5. CASE InsertLead(r)
  <2> DEFINE q == [request[r] EXCEPT !.step = "write"]
  <2>1. /\ q \in Running /\ q.op = "create" /\ q.names = request[r].names
        /\ q.todo = request[r].todo /\ q.step = "write"
    BY <1>1, <1>2 DEF Running, Steps
  <2>2. /\ request' = [request EXCEPT ![r] = q] /\ row' = row /\ published' = published
        /\ lead'[s] = "new" /\ \A t \in Submissions \ {s} : lead'[t] = lead[t]
        /\ overlapped' = overlapped /\ broken' = broken
    BY <1>2, <1>5 DEF InsertLead, GoOn, history, IInv, TypeOK
  <2>3. GoodFor(request[r], s) => Good(q, s, row'[s], lead'[s], published', s \in broken')
    BY <1>4, <2>1, <2>2 DEF Good, Relies, Agrees
  <2> HIDE DEF q, s
  <2> QED BY <1>1, <1>2, <2>1, <2>2, <2>3, OneCareful DEF s
<1>6. CASE InsertRow(r)
  <2>1. /\ request' = [request EXCEPT ![r] = Idle] /\ published' = published /\ lead' = lead
        /\ row'[s] = new /\ \A t \in Submissions \ {s} : row'[t] = row[t]
        /\ overlapped' = overlapped /\ broken' = broken
    BY <1>2, <1>6 DEF InsertRow, Finish, history, IInv, TypeOK
  <2>2. request[r].step = "write"
    BY <1>6 DEF InsertRow, At
  <2>3. GoodFor(request[r], s) => Good(Idle, s, row'[s], lead'[s], published', s \in broken')
    BY <1>2, <1>3, <1>4, <2>1, <2>2 DEF Good, Relies, Agrees, Follows
  <2> HIDE DEF s
  <2> QED BY <1>1, <1>2, <2>1, <2>3, OneCareful DEF s
<1>7. ASSUME NEW carriedOut \in BOOLEAN, InsertFails(r, carriedOut)
      PROVE  Careful'
  <2>1. /\ request' = [request EXCEPT ![r] = Idle] /\ published' = published
        /\ lead'[s] = None /\ \A t \in Submissions \ {s} : lead'[t] = lead[t]
        /\ row'[s] = (IF carriedOut THEN new ELSE row[s])
        /\ \A t \in Submissions \ {s} : row'[t] = row[t]
        /\ overlapped' = overlapped /\ broken \subseteq broken'
        /\ carriedOut => s \in broken'
    BY <1>2, <1>7 DEF InsertFails, LeadDeleted, Finish, IInv, TypeOK
  <2>2. GoodFor(request[r], s) => Good(Idle, s, row'[s], lead'[s], published', s \in broken')
    BY <1>2, <1>3, <1>4, <2>1 DEF Good, Relies, Agrees, Follows
  <2> HIDE DEF s
  <2> QED BY <1>1, <1>2, <2>1, <2>2, OneCareful DEF s
<1> QED BY <1>5, <1>6, <1>7

\* The updates by id of a row as the request had read it.
LEMMA UpdatedCareful ==
    ASSUME IInv, Careful, NEW r \in Requests,
           request[r].op \notin {"nothing", "bulk"},
           NEW v \in Rows, Update(r, v), NEW q, request' = [request EXCEPT ![r] = q],
           \/ q = Idle
           \/ /\ request[r].op \notin {"create", "edit", "assign"}
              /\ q = [request[r] EXCEPT !.step = "lead"],
           GoodFor(request[r], The(r))
               => Good(q, The(r), v, lead[The(r)], published, The(r) \in broken)
    PROVE  Careful'
<1> DEFINE s == The(r)
<1>1. request[r] \in Running /\ s \in Submissions
  BY OnlyNamed
<1>2. /\ row'[s] = v /\ \A t \in Submissions \ {s} : row'[t] = row[t]
      /\ lead' = lead /\ published' = published /\ overlapped' = overlapped /\ broken' = broken
  BY <1>1 DEF Update, history, IInv, TypeOK
<1>3. \/ q = Idle
      \/ /\ q \in Running /\ q.op = request[r].op
         /\ q.names = request[r].names /\ q.todo = request[r].todo
         /\ q.op \notin {"create", "edit", "assign"}
  BY <1>1 DEF Running, Steps
<1> HIDE DEF s
<1> QED BY <1>1, <1>2, <1>3, OneCareful DEF s

\* What an update starts from: the row is as it was read, and there is no listing
\* of it but the one an approval has inserted.
LEMMA WritesWhatItRead ==
    ASSUME IInv, Careful, NEW r \in Requests, NEW s, s = The(r),
           request[r].op \in {"resubmit", "edit", "assign", "reject", "approve"},
           request[r].step \in {"publish", "write"}, GoodFor(request[r], s)
    PROVE  /\ row[s] # None /\ row[s] \in Rows
           /\ row[s].status = IF request[r].op = "resubmit" THEN "rejected" ELSE "pending"
           /\ s \notin broken => lead[s] = IF request[r].op = "resubmit" THEN "closed" ELSE "new"
           /\ ~(request[r].op = "approve" /\ request[r].step = "write") /\ s \notin broken =>
                 \A p \in Properties : ~(published[p] # None /\ published[p].of = s)
<1>1. s \in Submissions
  BY OnlyNamed
<1>2. /\ row[s] # None
      /\ row[s].status = IF request[r].op = "resubmit" THEN "rejected" ELSE "pending"
  BY DEF GoodFor, Good, Relies
<1>3. row[s] \in Rows
  BY <1>1, <1>2 DEF IInv, TypeOK
<1>4. s \notin broken => lead[s] = IF request[r].op = "resubmit" THEN "closed" ELSE "new"
  BY <1>2 DEF GoodFor, Good, Agrees, Follows
<1>5. ~(request[r].op = "approve" /\ request[r].step = "write") /\ s \notin broken =>
                 \A p \in Properties : ~(published[p] # None /\ published[p].of = s)
  BY <1>2 DEF GoodFor, Good, Known
<1> QED BY <1>2, <1>3, <1>4, <1>5

LEMMA ResubmitCareful ==
    ASSUME IInv, Careful, NEW r \in Requests, Resubmit(r)
    PROVE  Careful'
<1> DEFINE s == The(r)
           q == [request[r] EXCEPT !.step = "lead"]
           v == [row[s] EXCEPT !.status = "pending", !.data = request[r].new.data]
<1>1. request[r].op = "resubmit" /\ request[r].step = "write"
  BY DEF Resubmit, At
<1>2. request[r] \in Running /\ request[r].new \in Rows /\ row[s] \in Rows
  BY <1>1, OnlyNamed DEF IInv, TypeOK, RequestsSound, Sound
<1>3. v \in Rows /\ v.status = "pending"
  BY <1>2 DEF Rows
<1>4. q.op = "resubmit" /\ q.step = "lead" /\ s \in q.todo
  BY <1>1, <1>2, OnlyNamed DEF Careful, Shaped, Running
<1> HIDE DEF q, v
<1>5. ASSUME GoodFor(request[r], s)
      PROVE  Good(q, s, v, lead[s], published, s \in broken)
  <2>1. s \notin broken =>
           /\ lead[s] = "closed"
           /\ \A p \in Properties : ~(published[p] # None /\ published[p].of = s)
    BY <1>1, <1>5, WritesWhatItRead
  <2>2. v # None /\ None # "closed"
    BY <1>3 DEF LeadStatus
  <2> QED BY <1>3, <1>4, <2>1, <2>2 DEF Good, Relies, Agrees, Written, Follows
<1>6. Update(r, v) /\ request' = [request EXCEPT ![r] = q]
  BY DEF Resubmit, GoOn, q, v
<1> HIDE DEF s
<1> QED BY <1>1, <1>3, <1>5, <1>6, UpdatedCareful DEF q, s

\* An edit or an assignment leaves the status, and the row is not approved.
LEMMA EditCareful ==
    ASSUME IInv, Careful, NEW r \in Requests, Edit(r) \/ Assign(r)
    PROVE  Careful'
<1> DEFINE s == The(r)
<1>1. request[r].op \in {"edit", "assign"} /\ request[r].step = "write"
  BY DEF Edit, Assign, At
<1>2. request[r] \in Running /\ request[r].new \in Rows /\ row[s] \in Rows
  BY <1>1, OnlyNamed DEF IInv, TypeOK, RequestsSound, Sound
<1>3. PICK v \in Rows : v.status = row[s].status /\ Update(r, v)
  <2>1. CASE Edit(r)
    <3> DEFINE v == [row[s] EXCEPT !.data = request[r].new.data]
    <3>1. v \in Rows /\ v.status = row[s].status
      BY <1>2 DEF Rows
    <3> QED BY <2>1, <3>1 DEF Edit
  <2>2. CASE Assign(r)
    <3> DEFINE v == [row[s] EXCEPT !.consultant = request[r].new.consultant]
    <3>1. v \in Rows /\ v.status = row[s].status
      BY <1>2 DEF Rows
    <3> QED BY <2>2, <3>1 DEF Assign
  <2> QED BY <2>1, <2>2
<1>4. ASSUME GoodFor(request[r], s)
      PROVE  Good(Idle, s, v, lead[s], published, s \in broken)
  <2>1. /\ row[s].status = "pending"
        /\ s \notin broken =>
           /\ lead[s] = "new"
           /\ \A p \in Properties : ~(published[p] # None /\ published[p].of = s)
    BY <1>1, <1>4, WritesWhatItRead
  <2>2. v # None /\ Idle.op = "nothing"
    BY <1>3 DEF Idle
  <2> QED BY <1>3, <2>1, <2>2 DEF Good, Relies, Agrees, Follows
<1>5. request' = [request EXCEPT ![r] = Idle]
  BY DEF Edit, Assign, Finish
<1> HIDE DEF s
<1> QED BY <1>1, <1>3, <1>4, <1>5, UpdatedCareful DEF s

LEMMA RejectCareful ==
    ASSUME IInv, Careful, NEW r \in Requests, Reject(r)
    PROVE  Careful'
<1> DEFINE s == The(r)
           q == [request[r] EXCEPT !.step = "lead"]
           v == [row[s] EXCEPT !.status = "rejected"]
<1>1. request[r].op = "reject" /\ request[r].step = "write"
  BY DEF Reject, At
<1>2. request[r] \in Running /\ row[s] \in Rows
  BY <1>1, OnlyNamed DEF IInv, TypeOK, RequestsSound, Sound
<1>3. v \in Rows /\ v.status = "rejected"
  BY <1>2 DEF Rows, Decided
<1>4. q.op = "reject" /\ q.step = "lead" /\ s \in q.todo
  BY <1>1, <1>2, OnlyNamed DEF Careful, Shaped, Running
<1> HIDE DEF q, v
<1>5. ASSUME GoodFor(request[r], s)
      PROVE  Good(q, s, v, lead[s], published, s \in broken)
  <2>1. s \notin broken =>
           /\ lead[s] = "new"
           /\ \A p \in Properties : ~(published[p] # None /\ published[p].of = s)
    BY <1>1, <1>5, WritesWhatItRead
  <2>2. v # None /\ None # "new"
    BY <1>3 DEF LeadStatus
  <2> QED BY <1>3, <1>4, <2>1, <2>2 DEF Good, Relies, Agrees, Written
<1>6. Update(r, v) /\ request' = [request EXCEPT ![r] = q]
  BY DEF Reject, GoOn, q, v
<1> HIDE DEF s
<1> QED BY <1>1, <1>3, <1>5, <1>6, UpdatedCareful DEF q, s

\* The listing of an approval says what the row says, which nobody changed.
LEMMA ApproveCareful ==
    ASSUME IInv, Careful, NEW r \in Requests, Approve(r)
    PROVE  Careful'
<1> DEFINE s == The(r)
           new == request[r].new
           q == [request[r] EXCEPT !.step = "lead"]
           v == [row[s] EXCEPT !.status = "approved", !.property = new.property]
<1>1. request[r].op = "approve" /\ request[r].step = "write"
  BY DEF Approve, At
<1>2. request[r] \in Running /\ new \in Rows /\ row[s] \in Rows
  BY <1>1, OnlyNamed DEF IInv, TypeOK, RequestsSound, Sound
<1>3. /\ v \in Rows /\ v.status = "approved" /\ v.property = new.property
      /\ v.data = row[s].data /\ v.consultant = row[s].consultant
  BY <1>2 DEF Rows, Decided
<1>4. q.op = "approve" /\ q.step = "lead" /\ s \in q.todo
  BY <1>1, <1>2, OnlyNamed DEF Careful, Shaped, Running
<1> HIDE DEF q, v
<1>5. ASSUME GoodFor(request[r], s)
      PROVE  Good(q, s, v, lead[s], published, s \in broken)
  <2>1. row[s].status = "pending" /\ (s \notin broken => lead[s] = "new")
    BY <1>1, <1>5, WritesWhatItRead
  <2>2. v # None /\ None # "new"
    BY <1>3 DEF LeadStatus
  <2>3. Same(v, published[v.property])
    BY <1>1, <1>3, <1>5 DEF GoodFor, Good, Relies, Same
  <2>4. \A p \in Properties : Known(p, request[r], row[s]) => Known(p, q, v)
    BY <1>3, <2>1, <2>2 DEF Known
  <2>5. Relies(q, s, v, published) /\ (s \notin broken => Agrees(q, s, v, lead[s]))
    BY <1>3, <1>4, <2>1, <2>2 DEF Relies, Agrees, Written
  <2> QED BY <1>5, <2>3, <2>4, <2>5 DEF GoodFor, Good
<1>6. Update(r, v) /\ request' = [request EXCEPT ![r] = q]
  BY DEF Approve, GoOn, q, v
<1> HIDE DEF s
<1> QED BY <1>1, <1>3, <1>5, <1>6, UpdatedCareful DEF q, s

\* There was no listing before: this is the only one.
LEMMA PublishCareful ==
    ASSUME IInv, Careful, NEW r \in Requests, NEW p \in Properties, Publish(r, p)
    PROVE  Careful'
<1> DEFINE s == The(r)
           new == request[r].new
           listing == [of |-> s, data |-> new.data, consultant |-> new.consultant]
           q == [request[r] EXCEPT !.step = "write", !.new.property = p]
<1>1. request[r].op = "approve" /\ request[r].step = "publish"
  BY DEF Publish, At
<1>2. request[r] \in Running /\ s \in Submissions /\ new \in Rows
  BY <1>1, OnlyNamed
<1>3. /\ q.op = "approve" /\ q.step = "write" /\ q.names = request[r].names
      /\ q.todo = request[r].todo /\ q.new = [new EXCEPT !.property = p]
  BY <1>1, <1>2 DEF Running
<1>4. /\ q.new \in Rows /\ q.new.property = p /\ q.new.data = new.data
      /\ q.new.consultant = new.consultant
  BY <1>2, <1>3 DEF Rows
<1>5. q \in Running
  BY <1>2, <1>3, <1>4 DEF Running, Steps
<1>6. /\ request' = [request EXCEPT ![r] = q] /\ row' = row /\ lead' = lead
      /\ overlapped' = overlapped /\ broken' = broken
      /\ published[p] = None /\ published' = [published EXCEPT ![p] = listing]
  BY DEF Publish, history
<1> HIDE DEF q
<1>7. /\ published'[p] = listing
      /\ \A t \in Properties \ {p} : published'[t] = published[t]
  BY <1>6 DEF IInv, TypeOK
<1>8. ASSUME GoodFor(request[r], s)
      PROVE  Good(q, s, row'[s], lead'[s], published', s \in broken')
  <2>1. /\ row[s].status = "pending"
        /\ s \notin broken =>
              /\ lead[s] = "new"
              /\ \A t \in Properties : ~(published[t] # None /\ published[t].of = s)
    BY <1>1, <1>8, WritesWhatItRead
  <2>2. Relies(q, s, row[s], published')
    BY <1>1, <1>3, <1>4, <1>7, <1>8 DEF GoodFor, Good, Relies
  <2>3. s \notin broken => \A t \in Properties :
              published'[t] # None /\ published'[t].of = s => Known(t, q, row[s])
    BY <1>3, <1>4, <1>7, <2>1 DEF Known
  <2>4. s \notin broken => Agrees(q, s, row[s], lead[s])
    BY <1>1, <1>3, <1>8 DEF GoodFor, Good, Agrees
  <2> QED BY <1>6, <2>1, <2>2, <2>3, <2>4 DEF Good
<1>9. \A t \in Properties : \/ published'[t] = published[t]
                            \/ published[t] = None /\ published'[t].of = s
  BY <1>6, <1>7
<1>10. \A t \in Submissions \ {s} : row'[t] = row[t] /\ lead'[t] = lead[t]
  BY <1>6
<1>11. request[r].op \notin {"nothing", "bulk"} /\ q.op = request[r].op
  BY <1>1, <1>3
<1>12. q.op \notin {"create", "edit", "assign"}
  BY <1>3
<1> HIDE DEF s, listing
<1> QED BY <1>2, <1>3, <1>5, <1>6, <1>8, <1>9, <1>10, <1>11, <1>12, OneCareful DEF s

\* Those to do are the ones it rejects, since nobody else deals with them.
LEMMA BulkCareful ==
    ASSUME IInv, Careful, NEW r \in Requests, BulkReject(r)
    PROVE  Careful'
<1> DEFINE q == [request[r] EXCEPT !.step = "lead"]
<1>1. request[r].op = "bulk" /\ request[r].step = "write" /\ request[r] # Idle
  BY DEF BulkReject, At, Idle
<1>2. request[r] \in Running
  BY <1>1, TheNamed
<1>3. /\ q \in Running /\ q.op = "bulk" /\ q.step = "lead" /\ q.names = request[r].names
      /\ q.todo = request[r].todo
  BY <1>1, <1>2 DEF Running, Steps
<1>4. /\ request' = [request EXCEPT ![r] = q] /\ lead' = lead /\ published' = published
      /\ overlapped' = overlapped /\ broken' = broken
  BY DEF BulkReject, GoOn, history
<1>5. Shaped(q)
  BY <1>3 DEF Shaped
<1>6. ASSUME NEW s \in Submissions
      PROVE  row'[s] = IF s \in request[r].names /\ HasStatus(s, "pending")
                       THEN [row[s] EXCEPT !.status = "rejected"] ELSE row[s]
  BY DEF BulkReject
<1> HIDE DEF q
<1>7. ASSUME NEW s \in Submissions, s \in request[r].names, GoodFor(request[r], s)
      PROVE  Good(q, s, row'[s], lead'[s], published', s \in broken')
  <2>1. /\ s \in q.todo <=> HasStatus(s, "pending")
        /\ s \notin broken => lead[s] = Follows(row[s])
    BY <1>1, <1>3, <1>7 DEF GoodFor, Good, Relies, Agrees, HasStatus, Exists
  <2>2. CASE HasStatus(s, "pending")
    <3>1. row[s] \in Rows /\ row[s] # None /\ row[s].status = "pending"
      BY <2>2 DEF HasStatus, Exists, IInv, TypeOK
    <3>2. row'[s] \in Rows /\ row'[s].status = "rejected"
      BY <1>6, <1>7, <2>2, <3>1 DEF Rows, Decided
    <3>3. row'[s] # None /\ None # "new"
      BY <3>2 DEF LeadStatus
    <3>4. s \notin broken =>
             /\ lead[s] = "new"
             /\ \A p \in Properties : ~(published[p] # None /\ published[p].of = s)
      BY <1>1, <1>7, <2>1, <3>1 DEF GoodFor, Good, Known, Follows
    <3> QED BY <1>3, <1>4, <2>1, <2>2, <3>2, <3>3, <3>4 DEF Good, Relies, Agrees, Written
  <2>3. CASE ~HasStatus(s, "pending")
    <3>1. row'[s] = row[s] /\ s \notin q.todo
      BY <1>6, <2>1, <2>3
    <3>2. Relies(q, s, row[s], published) /\ (s \notin broken => Agrees(q, s, row[s], lead[s]))
      BY <1>3, <2>1, <3>1 DEF Relies, Agrees
    <3>3. \A p \in Properties : Known(p, request[r], row[s]) => Known(p, q, row[s])
      BY <1>1 DEF Known
    <3> QED BY <1>4, <1>7, <3>1, <3>2, <3>3 DEF GoodFor, Good
  <2> QED BY <2>2, <2>3
<1>8. \A s \in Submissions \ (request[r].names \cup q.names) :
          row'[s] = row[s] /\ lead'[s] = lead[s]
  BY <1>4, <1>6
<1> QED BY <1>3, <1>4, <1>5, <1>7, <1>8, CarefulStep

\* A lead is moved or left behind; or the request stops.
LEMMA LeadCareful ==
    ASSUME IInv, Careful, NEW r \in Requests, NEW s \in Submissions,
           MoveLead(r, s) \/ MoveLeadFails(r, s)
    PROVE  Careful'
<1>1. request[r] # Idle /\ request[r].step = "lead" /\ s \in request[r].todo
  BY DEF MoveLead, MoveLeadFails
<1>2. request[r] \in Running /\ request[r].todo \subseteq request[r].names
      /\ request[r].names \subseteq Submissions
  BY <1>1, TheNamed DEF IInv, RequestsSound, Sound, Running
<1>3. /\ request[r].op \in {"resubmit", "approve", "reject", "bulk"}
      /\ request[r].op # "bulk" => request[r].names = {s} /\ request[r].todo = {s}
  BY <1>1, <1>2 DEF Careful, Shaped, Running, Operations
<1> DEFINE q == IF request[r].todo = {s} THEN Idle
                ELSE [request[r] EXCEPT !.todo = @ \ {s}]
<1>4. \/ q = Idle /\ request[r].todo = {s}
      \/ /\ request[r].todo # {s}
         /\ q \in Running /\ q.op = "bulk" /\ q.step = "lead" /\ q.names = request[r].names
         /\ q.todo = request[r].todo \ {s}
  BY <1>1, <1>2, <1>3 DEF Running
<1>5. Idle.op = "nothing" /\ Idle.names = {}
  BY DEF Idle
<1>6. Shaped(q)
  BY <1>4, <1>5 DEF Shaped
<1>7. /\ request' = [request EXCEPT ![r] = q] /\ row' = row /\ published' = published
      /\ overlapped' = overlapped
      /\ \A t \in Submissions \ {s} : lead'[t] = lead[t]
      /\ \/ s \in broken' /\ broken' = broken \cup {s}
         \/ /\ broken' = broken
            /\ lead'[s] = IF lead[s] = None THEN None ELSE LeadAfter(request[r].op)
  BY DEF MoveLead, MoveLeadFails, Done, tables, history, IInv, TypeOK
<1> HIDE DEF q
<1>8. ASSUME NEW t \in Submissions, t \in request[r].names, GoodFor(request[r], t)
      PROVE  Good(q, t, row'[t], lead'[t], published', t \in broken')
  <2>1. /\ row[t] # None /\ row[t].status = "approved" => Same(row[t], published[row[t].property])
        /\ Relies(q, t, row[t], published)
    BY <1>4, <1>5, <1>8 DEF GoodFor, Good, Relies
  <2>2. t \notin broken => \A p \in Properties :
              published[p] # None /\ published[p].of = t => Known(p, q, row[t])
    BY <1>1, <1>8 DEF GoodFor, Good, Known
  <2>3. CASE t = s
    <3>1. t \notin broken =>
             row[s] # None /\ lead[s] # None /\ row[s].status = Written(request[r].op)
      BY <1>1, <1>3, <1>8, <2>3 DEF GoodFor, Good, Agrees
    <3>2. t \notin broken' => t \notin broken /\ lead'[s] = LeadAfter(request[r].op)
      BY <1>7, <2>3, <3>1
    <3>3. t \notin broken' => lead'[s] = Follows(row[s])
      BY <1>3, <3>1, <3>2 DEF LeadAfter, Written, Follows
    <3>4. t \notin broken' => Agrees(q, t, row[t], lead'[t])
      BY <1>4, <1>5, <2>3, <3>3 DEF Agrees
    <3> QED BY <1>7, <2>1, <2>2, <3>2, <3>4 DEF Good
  <2>4. CASE t # s
    <3>1. t \notin broken => Agrees(q, t, row[t], lead[t])
      BY <1>1, <1>3, <1>4, <1>5, <1>8, <2>4 DEF GoodFor, Good, Agrees, Written
    <3> QED BY <1>7, <2>1, <2>2, <2>4, <3>1 DEF Good
  <2> QED BY <2>3, <2>4
<1>9. broken \subseteq broken' /\ (q = Idle \/ q.names = request[r].names)
  BY <1>4, <1>7
<1>10. \A t \in Submissions \ (request[r].names \cup q.names) :
          row'[t] = row[t] /\ lead'[t] = lead[t]
  BY <1>1, <1>2, <1>7
<1>11. q \in Running \cup {Idle} /\ q.names \subseteq request[r].names
  BY <1>4, <1>5
<1> QED BY <1>6, <1>7, <1>8, <1>9, <1>10, <1>11, CarefulStep

LEMMA StopCareful ==
    ASSUME IInv, Careful, NEW r \in Requests, Stop(r)
    PROVE  Careful'
<1>1. /\ request' = [request EXCEPT ![r] = Idle] /\ row' = row /\ lead' = lead
      /\ published' = published /\ overlapped' = overlapped
      /\ broken' = broken \cup request[r].names
  BY DEF Stop, Finish, tables
<1>2. Idle.op = "nothing" /\ Idle.names = {} /\ Shaped(Idle)
  BY DEF Idle, Shaped
<1>3. ASSUME NEW s \in Submissions, s \in request[r].names, GoodFor(request[r], s)
      PROVE  Good(Idle, s, row'[s], lead'[s], published', s \in broken')
  BY <1>1, <1>2, <1>3 DEF GoodFor, Good, Relies
<1> QED BY <1>1, <1>2, <1>3, CarefulStep

\* What a request has read of a submission that nobody else deals with stays true.
THEOREM CareIsTaken == Spec => []Careful
<1>1. IInv /\ Careful /\ [Next]_vars => Careful'
  <2> SUFFICES ASSUME IInv, Careful, [Next]_vars PROVE Careful'
    OBVIOUS
  <2>1. CASE UNCHANGED vars
    BY <2>1 DEF vars, tables, history, Careful, Shaped, Alone, Busy, GoodFor
  <2>2. ASSUME NEW r \in Requests, Start(r) PROVE Careful'
    BY <2>2, StartCareful
  <2>3. ASSUME NEW r \in Requests, Step(r) PROVE Careful'
    BY <2>3, CreateCareful, ResubmitCareful, EditCareful, RejectCareful, ApproveCareful,
       PublishCareful, BulkCareful, LeadCareful, StopCareful DEF Step
  <2> QED BY <2>1, <2>2, <2>3 DEF Next
<1> QED BY InitCareful, <1>1, Invariance, PTL DEF Spec

----------------------------------------------------------------------------
(* The theorems *)

\* The tables and the requests stay well typed (TypeOK), for every instance.
THEOREM TypeCorrect == Spec => []TypeOK
<1>1. IInv => TypeOK
  BY DEF IInv
<1> QED BY <1>1, Invariance, PTL

\* Whatever requests overlap, and wherever one of them stops, an approved
\* submission names a property that was published for it.
THEOREM ApprovalPublishes == Spec => []ApprovedIsPublished
<1>1. IInv => ApprovedIsPublished
  BY DEF IInv
<1> QED BY <1>1, Invariance, PTL

\* Through rejections, corrections, edits and repeated approvals a submission is
\* published at most once, by the approval that decides it, unless two requests dealt
\* with it at once or one stopped half way.
THEOREM OnceAtMost == Spec => []PublishedOnce
<1>1. IInv /\ Careful => PublishedOnce
  <2> SUFFICES ASSUME Careful, NEW s \in Submissions \ (overlapped \cup broken),
                      ListingsOf(s) # {}
               PROVE  /\ Cardinality(ListingsOf(s)) = 1
                      /\ \/ HasStatus(s, "approved")
                         \/ \E r \in Requests : s \in request[r].names /\ At(r, "approve", "write")
    BY DEF PublishedOnce
  <2>1. PICK q : /\ GoodFor(q, s)
                 /\ \/ q = Idle /\ ~Busy(s)
                    \/ \E r \in Requests : s \in request[r].names /\ q = request[r]
    BY DEF Careful, Busy
  <2>2. \A p \in ListingsOf(s) : Known(p, q, row[s])
    BY <2>1 DEF GoodFor, Good, ListingsOf
  <2>3. q.op = "approve" /\ q.step = "write" => ~HasStatus(s, "approved")
    BY <2>1 DEF GoodFor, Good, Relies, HasStatus
  <2>4. \A p, t \in ListingsOf(s) : p = t
    BY <2>2, <2>3 DEF Known, HasStatus, Exists
  <2>5. PICK p \in ListingsOf(s) : ListingsOf(s) = {p}
    BY <2>4
  <2>6. Cardinality(ListingsOf(s)) = 1
    BY <2>5, FS_Singleton
  <2>7. Known(p, q, row[s])
    BY <2>2, <2>5
  <2>8. q.op = "approve" => q # Idle
    BY DEF Idle
  <2> QED BY <2>1, <2>6, <2>7, <2>8 DEF Known, HasStatus, Exists, At
<1> QED BY <1>1, Invariance, CareIsTaken, PTL

\* Every listing of a submission shows what was last written, under the consultant
\* assigned, unless two requests dealt with it at once or an approval stopped before
\* it recorded the listing.
THEOREM AsReviewed == Spec => []PublishedAsReviewed
<1>1. IInv /\ Careful => PublishedAsReviewed
  <2> SUFFICES ASSUME IInv, Careful, NEW s \in Submissions \ overlapped, NEW p \in ListingsOf(s),
                      s \notin broken \/ Recorded(s, p)
               PROVE  Same(row[s], published[p])
    BY DEF PublishedAsReviewed, Same
  <2>1. /\ Alone(s)
        /\ \A r \in Requests : s \in request[r].names => GoodFor(request[r], s)
        /\ HasStatus(s, "approved") => Same(row[s], published[row[s].property])
    <3>1. PICK q : GoodFor(q, s)
      BY DEF Careful, Busy
    <3>2. HasStatus(s, "approved") => Same(row[s], published[row[s].property])
      BY <3>1 DEF GoodFor, Good, HasStatus, Exists
    <3> QED BY <3>2 DEF Careful
  <2>2. Recorded(s, p)
    <3> SUFFICES ASSUME s \notin broken PROVE Recorded(s, p)
      OBVIOUS
    <3>1. PICK q : /\ GoodFor(q, s)
                   /\ q = Idle \/ \E r \in Requests : s \in request[r].names /\ q = request[r]
      BY DEF Careful, Busy
    <3>2. Known(p, q, row[s])
      BY <3>1 DEF GoodFor, Good, ListingsOf
    <3>3. q.op = "approve" => q # Idle
      BY DEF Idle
    <3> QED BY <3>1, <3>2, <3>3 DEF Known, Recorded, HasStatus, Exists, At
  <2>3. CASE HasStatus(s, "approved") /\ row[s].property = p
    BY <2>1, <2>3
  <2>4. ASSUME NEW r \in Requests, s \in request[r].names, At(r, "approve", "write"),
               request[r].new.property = p
        PROVE  Same(row[s], published[p])
    BY <2>1, <2>4 DEF GoodFor, Good, Relies, At, Same
  <2> QED BY <2>2, <2>3, <2>4 DEF Recorded
<1> QED BY <1>1, Invariance, CareIsTaken, PTL

\* Between requests the lead of a submission has the status of its review, unless two
\* requests dealt with it at once or one stopped half way.
THEOREM LeadsFollow == Spec => []LeadFollows
<1>1. IInv /\ Careful => LeadFollows
  <2> SUFFICES ASSUME IInv, Careful, NEW s \in Submissions \ (overlapped \cup broken), ~Busy(s)
               PROVE  lead[s] = LeadOf(s)
    BY DEF LeadFollows
  <2>1. lead[s] = Follows(row[s])
    BY DEF Careful, GoodFor, Good, Agrees, Idle
  <2>2. row[s] # None => row[s].status \in {"pending", "approved", "rejected"}
    BY DEF IInv, TypeOK, Rows, Decided
  <2> QED BY <2>1, <2>2 DEF Follows, LeadOf, Exists
<1> QED BY <1>1, Invariance, CareIsTaken, PTL


\* What stands of "nothing is published on the public list before it is approved":
\* between requests, a submission that two requests did not deal with at once, and
\* none of whose requests stopped half way, is listed only if its approval stands.
UnapprovedStayOut ==
    \A s \in Submissions \ (overlapped \cup broken) :
        ~Busy(s) /\ ListingsOf(s) # {} => HasStatus(s, "approved")

THEOREM OnlyApprovedAreListed == Spec => []UnapprovedStayOut
<1>1. PublishedOnce => UnapprovedStayOut
  BY DEF PublishedOnce, UnapprovedStayOut, Busy, At
<1> QED BY <1>1, OnceAtMost, PTL
=============================================================================
