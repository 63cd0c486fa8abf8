-------------------------- MODULE SubmissionReview --------------------------
(***************************************************************************)
(* A customer offers a property for the site and the office reviews it     *)
(* (customer-property-submissions.post.ts, admin-customer-property-        *)
(* submissions.post.ts).  Approving publishes a new property; every        *)
(* submission also has a lead in the CRM.  A handler reads the row, checks *)
(* its status, and then writes by id: one action per statement, with any   *)
(* number of requests in between, and a request may stop after any of its  *)
(* statements.                                                             *)
(***************************************************************************)
EXTENDS Integers, FiniteSets

CONSTANTS
    Submissions, \* ids of the submissions ever made
    Properties,  \* ids of the properties ever published
    Consultants,
    Requests,    \* requests in flight at once
    MaxVersion,  \* bound on the times property data is written
    None

ASSUME ReviewAssumption ==
    /\ MaxVersion \in Nat
    /\ None \notin Properties /\ None \notin Consultants

VARIABLES
    row,        \* table customer_property_submissions
    lead,       \* status of the submission's row in leads
    published,  \* rows of properties that an approval inserted
    request,    \* what each request is doing, with the row it read
    version,    \* property data written so far
    overlapped, \* submissions two requests have dealt with at once
    broken      \* submissions a request has left half done

tables  == <<row, lead, published>>
history == <<overlapped, broken>>
vars    == <<tables, request, version, history>>

Decided == {"approved", "rejected"}
Rows == [status : {"pending"} \cup Decided, data : 0 .. MaxVersion,
         consultant : Consultants \cup {None}, property : Properties \cup {None}]
Listings == [of : Submissions, data : 0 .. MaxVersion, consultant : Consultants]
LeadStatus == {"new", "contacted", "closed"}

ASSUME AbsentAssumption == None \notin Rows \cup Listings \cup LeadStatus

(* A request deals with the submissions it names; todo are those it has   *)
(* still to write, new is the row as it would leave it.                   *)
Operations == {"create", "resubmit", "edit", "assign", "approve", "reject", "bulk"}
Steps      == {"insert", "publish", "write", "lead"}
Idle       == [op |-> "nothing", names |-> {}]
Running    == [op : Operations, step : Steps, names : SUBSET Submissions,
               todo : SUBSET Submissions, new : Rows \cup {None}]

Exists(s)      == row[s] # None
HasStatus(s, status) == Exists(s) /\ row[s].status = status
Busy(s)        == \E r \in Requests : s \in request[r].names
Finish(r)      == request' = [request EXCEPT ![r] = Idle]
GoOn(r, step)  == request' = [request EXCEPT ![r].step = step]
The(r)         == CHOOSE s \in request[r].names : TRUE
At(r, op, step) == request[r].op = op /\ request[r].step = step

Init ==
    /\ row = [s \in Submissions |-> None] /\ lead = [s \in Submissions |-> None]
    /\ published = [p \in Properties |-> None]
    /\ request = [r \in Requests |-> Idle]
    /\ version = 0 /\ overlapped = {} /\ broken = {}

Accept(r, op, step, names, todo, new) ==
    /\ request[r] = Idle
    /\ request' = [request EXCEPT ![r] = [op |-> op, step |-> step, names |-> names,
                                          todo |-> todo, new |-> new]]
    /\ overlapped' = overlapped \cup {s \in names : Busy(s)}
    /\ UNCHANGED <<tables, broken>>

----------------------------------------------------------------------------
(* What a request reads *)

(* The customer sends a new property.  A pending row of the same phone     *)
(* not older than 30 minutes would be answered instead, without a write;   *)
(* rows here may be of any age.                                            *)
StartCreate(r, s) ==
    /\ ~Exists(s) /\ lead[s] = None /\ ~Busy(s) /\ s \notin broken
    /\ version < MaxVersion /\ version' = version + 1
    /\ Accept(r, "create", "insert", {s}, {s},
              [status |-> "pending", data |-> version', consultant |-> None, property |-> None])

(* The customer corrects a rejected one. *)
StartResubmit(r, s) ==
    /\ HasStatus(s, "rejected")
    /\ version < MaxVersion /\ version' = version + 1
    /\ Accept(r, "resubmit", "write", {s}, {s},
              [row[s] EXCEPT !.status = "pending", !.data = version'])

\* Mutant: an edit of a submission of any status
StartEditOfAny(r, s) ==
    /\ Exists(s)
    /\ version < MaxVersion /\ version' = version + 1
    /\ Accept(r, "edit", "write", {s}, {s}, [row[s] EXCEPT !.data = version'])

StartEdit(r, s) ==
    /\ HasStatus(s, "pending")
    /\ version < MaxVersion /\ version' = version + 1
    /\ Accept(r, "edit", "write", {s}, {s}, [row[s] EXCEPT !.data = version'])

StartAssign(r, s, c) ==
    /\ HasStatus(s, "pending")
    /\ Accept(r, "assign", "write", {s}, {s}, [row[s] EXCEPT !.consultant = c])
    /\ UNCHANGED version

StartReject(r, s) ==
    /\ HasStatus(s, "pending")
    /\ Accept(r, "reject", "write", {s}, {s}, [row[s] EXCEPT !.status = "rejected"])
    /\ UNCHANGED version

\* Mutant: an approved one is approved again
StartApproveAgain(r, s, c) ==
    /\ Exists(s) /\ row[s].status # "rejected" /\ row[s].consultant \in {c, None}
    /\ Accept(r, "approve", "publish", {s}, {s},
              [row[s] EXCEPT !.status = "approved", !.consultant = c])
    /\ UNCHANGED version

(* An approved one is answered with its property, a rejected one is        *)
(* refused.  The consultant is the assigned one, else the reviewer's.      *)
StartApprove(r, s, c) ==
    /\ HasStatus(s, "pending") /\ row[s].consultant \in {c, None}
    /\ Accept(r, "approve", "publish", {s}, {s},
              [row[s] EXCEPT !.status = "approved", !.consultant = c])
    /\ UNCHANGED version

(* The pending ones among those named are the ones whose leads will close. *)
StartBulk(r, names) ==
    LET targets == {s \in names : HasStatus(s, "pending")} IN
    /\ targets # {}
    /\ Accept(r, "bulk", "write", names, targets, None)
    /\ UNCHANGED version

----------------------------------------------------------------------------
(* What it writes *)

InsertLead(r) ==
    /\ At(r, "create", "insert")
    /\ lead' = [lead EXCEPT ![The(r)] = "new"]
    /\ GoOn(r, "write")
    /\ UNCHANGED <<row, published, version, history>>

InsertRow(r) ==
    /\ At(r, "create", "write")
    /\ row' = [row EXCEPT ![The(r)] = request[r].new]
    /\ Finish(r)
    /\ UNCHANGED <<lead, published, version, history>>

\* Mutant: the lead is left behind
LeadKept(s) == lead
(* The handler of a failed create deletes the lead it inserted. *)
LeadDeleted(s) == [lead EXCEPT ![s] = None]

(* The insert is reported as failed; it may have been carried out.         *)
InsertFails(r, carriedOut) ==
    LET s == The(r) IN
    /\ At(r, "create", "write")
    /\ row' = IF carriedOut THEN [row EXCEPT ![s] = request[r].new] ELSE row
    /\ lead' = LeadDeleted(s)
    /\ broken' = IF carriedOut THEN broken \cup {s} ELSE broken
    /\ Finish(r)
    /\ UNCHANGED <<published, version, overlapped>>

(* The update by id of resubmit, reject and approve leaves the lead to do; *)
(* edit and assign are done.                                               *)
Update(r, values) ==
    LET s == The(r) IN
    /\ row' = [row EXCEPT ![s] = values]
    /\ UNCHANGED <<lead, published, version, history>>

Resubmit(r) ==
    /\ At(r, "resubmit", "write")
    /\ Update(r, [row[The(r)] EXCEPT !.status = "pending", !.data = request[r].new.data])
    /\ GoOn(r, "lead")

Edit(r) ==
    /\ At(r, "edit", "write")
    /\ Update(r, [row[The(r)] EXCEPT !.data = request[r].new.data])
    /\ Finish(r)

Assign(r) ==
    /\ At(r, "assign", "write")
    /\ Update(r, [row[The(r)] EXCEPT !.consultant = request[r].new.consultant])
    /\ Finish(r)

Reject(r) ==
    /\ At(r, "reject", "write")
    /\ Update(r, [row[The(r)] EXCEPT !.status = "rejected"])
    /\ GoOn(r, "lead")

(* The listing is inserted as published, with the data that was read. *)
Publish(r, p) ==
    /\ At(r, "approve", "publish")
    /\ published[p] = None
    /\ published' = [published EXCEPT ![p] =
           [of |-> The(r), data |-> request[r].new.data, consultant |-> request[r].new.consultant]]
    /\ request' = [request EXCEPT ![r].step = "write", ![r].new.property = p]
    /\ UNCHANGED <<row, lead, version, history>>

\* Mutant: the property is not recorded in the submission
ApproveOnly(r) ==
    /\ At(r, "approve", "write")
    /\ Update(r, [row[The(r)] EXCEPT !.status = "approved"])
    /\ GoOn(r, "lead")

Approve(r) ==
    /\ At(r, "approve", "write")
    /\ Update(r, [row[The(r)] EXCEPT !.status = "approved", !.property = request[r].new.property])
    /\ GoOn(r, "lead")

(* The bulk update, alone, checks the status again: of all that were named *)
(* it rejects those now pending.                                           *)
BulkReject(r) ==
    /\ At(r, "bulk", "write")
    /\ row' = [s \in Submissions |->
                 IF s \in request[r].names /\ HasStatus(s, "pending")
                 THEN [row[s] EXCEPT !.status = "rejected"] ELSE row[s]]
    /\ GoOn(r, "lead")
    /\ UNCHANGED <<lead, published, version, history>>

LeadAfter(op) == CASE op = "resubmit" -> "new"
                   [] op = "approve"  -> "contacted"
                   [] OTHER           -> "closed"

(* One submission is dealt with; the request ends with the last. *)
Done(r, s) ==
    request' = [request EXCEPT ![r] =
        IF request[r].todo = {s} THEN Idle ELSE [request[r] EXCEPT !.todo = @ \ {s}]]

(* An update of a lead that is gone touches nothing. *)
MoveLead(r, s) ==
    /\ request[r] # Idle /\ request[r].step = "lead" /\ s \in request[r].todo
    /\ lead' = IF lead[s] = None THEN lead
               ELSE [lead EXCEPT ![s] = LeadAfter(request[r].op)]
    /\ Done(r, s)
    /\ UNCHANGED <<row, published, version, history>>

(* A failed update of a lead is ignored. *)
MoveLeadFails(r, s) ==
    /\ request[r] # Idle /\ request[r].step = "lead" /\ s \in request[r].todo
    /\ Done(r, s)
    /\ broken' = broken \cup {s}
    /\ UNCHANGED <<tables, version, overlapped>>

(* The request stops: a statement fails, or the process does. *)
Stop(r) ==
    /\ request[r] # Idle
    /\ Finish(r)
    /\ broken' = broken \cup request[r].names
    /\ UNCHANGED <<tables, version, overlapped>>

----------------------------------------------------------------------------
Start(r) ==
    \/ \E s \in Submissions : \/ StartCreate(r, s) \/ StartResubmit(r, s)
                              \/ StartEdit(r, s)   \/ StartReject(r, s)
                              \/ \E c \in Consultants \cup {None} : StartAssign(r, s, c)
                              \/ \E c \in Consultants : StartApprove(r, s, c)
    \/ \E names \in SUBSET Submissions : StartBulk(r, names)

Step(r) ==
    \/ InsertLead(r) \/ InsertRow(r)
    \/ \E carriedOut \in BOOLEAN : InsertFails(r, carriedOut)
    \/ Resubmit(r) \/ Edit(r) \/ Assign(r) \/ Reject(r) \/ Approve(r) \/ BulkReject(r)
    \/ \E p \in Properties : Publish(r, p)
    \/ \E s \in Submissions : MoveLead(r, s) \/ MoveLeadFails(r, s)
    \/ Stop(r)

Next == \E r \in Requests : Start(r) \/ Step(r)

Spec == Init /\ [][Next]_vars

----------------------------------------------------------------------------
(* Properties *)

(* The tables and the requests are well typed, and no request is left with *)
(* nothing to do.                                                          *)
TypeOK ==
    /\ row \in [Submissions -> Rows \cup {None}]
    /\ lead \in [Submissions -> LeadStatus \cup {None}]
    /\ published \in [Properties -> Listings \cup {None}]
    /\ request \in [Requests -> Running \cup {Idle}]
    /\ version \in 0 .. MaxVersion
    /\ overlapped \subseteq Submissions /\ broken \subseteq Submissions
    /\ \A r \in Requests : request[r] # Idle => request[r].todo # {}

(* An approved submission names a property that was published for it,      *)
(* whatever requests overlapped and wherever one stopped: the insert comes *)
(* before the update that records it, and nothing else sets the column.    *)
ApprovedIsPublished ==
    \A s \in Submissions : HasStatus(s, "approved") =>
        /\ row[s].property \in Properties
        /\ published[row[s].property] # None
        /\ published[row[s].property].of = s

ListingsOf(s) == {p \in Properties : published[p] # None /\ published[p].of = s}

(* Through any number of rejections, corrections, edits and repeated       *)
(* approvals a submission is published at most once, and only by the       *)
(* approval that decides it, unless two requests dealt with it at once or  *)
(* one stopped half way.                                                   *)
PublishedOnce ==
    \A s \in Submissions \ (overlapped \cup broken) : ListingsOf(s) # {} =>
        /\ Cardinality(ListingsOf(s)) = 1
        /\ \/ HasStatus(s, "approved")
           \/ \E r \in Requests : s \in request[r].names /\ At(r, "approve", "write")

(* A listing is recorded once the approval that inserted it has gone on to *)
(* the submission, or still can.                                           *)
Recorded(s, p) ==
    \/ HasStatus(s, "approved") /\ row[s].property = p
    \/ \E r \in Requests : /\ s \in request[r].names /\ At(r, "approve", "write")
                           /\ request[r].new.property = p

(* Every listing of a submission shows the data last written, under the    *)
(* consultant assigned, unless two requests dealt with it at once or an    *)
(* approval stopped before it recorded the listing.  A listing left behind *)
(* that way stays on the site as it was, whatever the review does next     *)
(* (NothingUnapproved); the ones that are recorded show what was reviewed  *)
(* even then.                                                              *)
PublishedAsReviewed ==
    \A s \in Submissions \ overlapped : \A p \in ListingsOf(s) :
        s \notin broken \/ Recorded(s, p) =>
            /\ published[p].data = row[s].data
            /\ row[s].consultant \in {published[p].consultant, None}

LeadOf(s) == IF ~Exists(s) THEN None
             ELSE CASE row[s].status = "pending"  -> "new"
                    [] row[s].status = "approved" -> "contacted"
                    [] row[s].status = "rejected" -> "closed"

(* The lead follows the submission: there is none without a submission,    *)
(* also when the insert of the submission failed, and between requests its *)
(* status, which the customer sees, is the one of the review.  (Consultants*)
(* may move a lead by hand; these are the moves of the review.)            *)
LeadFollows ==
    \A s \in Submissions \ (overlapped \cup broken) : ~Busy(s) => lead[s] = LeadOf(s)

(* "Nothing is published on the public list before it is approved": once   *)
(* no request deals with a submission, its listings are of an approval     *)
(* that stands.                                                            *)
NothingUnapproved ==
    \A s \in Submissions : ~Busy(s) /\ ListingsOf(s) # {} => HasStatus(s, "approved")

=============================================================================
