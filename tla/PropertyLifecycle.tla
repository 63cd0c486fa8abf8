------------------------- MODULE PropertyLifecycle -------------------------
(***************************************************************************)
(* The life of a property: drafts, publication, schedule, trash, permanent *)
(* deletion and the histories (src/lib/properties.ts), with its two other  *)
(* writers, the reviews of publication (admin-publication.ts) and the      *)
(* import of advertisements (divar.ts).  A handler reads the row, checks   *)
(* it, and then writes by id: one action per statement that changes state, *)
(* any number of requests in between, and a request may stop after any of  *)
(* them.  A bulk operation is the same statements on many properties, which*)
(* share no state: each is followed on its own.                            *)
(***************************************************************************)
EXTENDS Integers, Sequences

CONSTANTS
    Properties, \* ids ever used
    Prices,
    Reviews,    \* ids of the reviews ever requested
    Requests,   \* requests in flight at once
    MaxStarts,  \* bound on the operations
    None

ASSUME StartsAssumption == MaxStarts \in Nat

VARIABLES
    row,         \* table properties
    review,      \* table property_publication_reviews
    prices,      \* table admin_property_price_history, by property
    recorded,    \* contents the rows of property_change_history hold whole
    stored,      \* properties whose images are in the media store
    request,     \* what each request is doing
    started,     \* number of operations so far
    imported,    \* properties the import has inserted
    granted,     \* properties that someone who may publish asked to publish
    admitted,    \* properties that an import or a repair was to publish for
                 \* someone who may not
    overwritten, \* contents a save has replaced
    purged,      \* ids whose row was deleted for good
    acted,       \* reviews whose approval has published the property
    overlapped,  \* properties two requests have dealt with at once
    broken       \* properties a request has left half done

tables  == <<row, review, prices, recorded, stored>>
history == <<imported, granted, admitted, overwritten, purged, acted, overlapped, broken>>
vars    == <<tables, request, started, history>>

(* The content of a property: its price, and whether it is complete enough *)
(* to be published (getPublishReadiness).  A time of the schedule is absent*)
(* (none), in the future or past.  from is deleted_from_status: it and     *)
(* deleted_at are set by the trash and cleared by the restore together.    *)
Statuses == {"draft", "published", "archived"}
Times    == {"none", "future", "past"}
Contents == [price : Prices, ready : BOOLEAN]
Rows     == [status : Statuses, content : Contents, from : Statuses \cup {None},
             publishAt : Times, unpublishAt : Times]

\* A gone review was deleted with its property.
ReviewRows == [property : Properties, status : {"pending", "approved", "rejected", "gone"}]

\* What a request still has to do, and what it has read for it.
Idle      == [op |-> "nothing"]
Saves     == [op : {"save"}, step : {"write", "reread", "price", "change"},
              property : Properties, read : Rows \cup {None}, status : Statuses,
              content : Contents]
Switches  == [op : {"status"}, step : {"write"}, property : Properties, status : Statuses]
Trashings == [op : {"trash"}, step : {"write", "change"}, property : Properties,
              read : Rows \cup {None}, bulk : BOOLEAN]
Purges    == [op : {"purge"}, step : {"write", "media"}, property : Properties]
Schedules == [op : {"schedule"}, step : {"write"}, property : Properties,
              publishAt : Times, unpublishAt : Times]
Asks      == [op : {"ask"}, step : {"write"}, property : Properties]
Decisions == [op : {"approve", "reject"}, step : {"write", "decide"},
              property : Properties, review : Reviews]
Imports   == [op : {"import"}, step : {"write"}, property : Properties,
              status : Statuses, content : Contents]
Repairs   == [op : {"repair"}, step : {"write"}, property : Properties]
Works     == Saves \cup Switches \cup Trashings \cup Purges \cup Schedules \cup Asks
                 \cup Decisions \cup Imports \cup Repairs

ASSUME AbsentAssumption ==
    /\ None \notin Rows /\ None \notin ReviewRows /\ None \notin Statuses

Exists(p)  == row[p] # None
Trashed(p) == Exists(p) /\ row[p].from # None
Listed(p)  == Exists(p) /\ row[p].from = None
Fresh(p)   == ~Exists(p) /\ p \notin purged

\* select ... where deleted_at is null
ListedRow(p) == IF Listed(p) THEN row[p] ELSE None

\* PUBLIC_PUBLICATION_WHERE
Public(p) ==
    /\ Listed(p)
    /\ \/ row[p].status = "published"
       \/ row[p].status = "draft" /\ row[p].publishAt = "past"
    /\ row[p].unpublishAt # "past"

NewRow(status, content) == [status |-> status, content |-> content, from |-> None,
                            publishAt |-> "none", unpublishAt |-> "none"]

Count           == started < MaxStarts /\ started' = started + 1
Busy(p)         == \E r \in Requests : request[r] # Idle /\ request[r].property = p
At(r, op, step) == request[r] # Idle /\ request[r].op = op /\ request[r].step = step
Finish(r)       == request' = [request EXCEPT ![r] = Idle]
GoOn(r, step)   == request' = [request EXCEPT ![r].step = step]
Overlap(p)      == overlapped' = IF Busy(p) THEN overlapped \cup {p} ELSE overlapped

\* Some drafts are there already, and no history of them.
Init ==
    /\ row \in [Properties -> {None} \cup {NewRow("draft", c) : c \in Contents}]
    /\ imported \in SUBSET {p \in Properties : row[p] # None}
    /\ review = [v \in Reviews |-> None]
    /\ prices = [p \in Properties |-> <<>>] /\ recorded = [p \in Properties |-> {}]
    /\ stored = Properties
    /\ request = [r \in Requests |-> Idle]
    /\ started = 0
    /\ granted = {} /\ admitted = {} /\ overwritten = [p \in Properties |-> {}]
    /\ purged = {} /\ acted = {} /\ overlapped = {} /\ broken = {}

\* A request starts.  grants: someone who may publish asks to publish.  The id
\* of a new property is new, and any other one comes from a page of the panel.
Begin(r, work, grants) ==
    LET p == work.property IN
    /\ request[r] = Idle
    /\ Count
    /\ Fresh(p) => work.op \in {"save", "import"} /\ ~Busy(p)
    /\ request' = [request EXCEPT ![r] = work]
    /\ granted' = IF grants THEN granted \cup {p} ELSE granted
    /\ Overlap(p)
    /\ UNCHANGED <<tables, imported, overwritten, purged, acted, broken>>
Accept(r, work, grants) == Begin(r, work, grants) /\ UNCHANGED admitted

\* The only statement of an operation that changes the row, as its last step.
Write(r, p, new) ==
    /\ row' = [row EXCEPT ![p] = new]
    /\ Finish(r)
    /\ UNCHANGED <<review, prices, recorded, stored, started, history>>

----------------------------------------------------------------------------
(* saveProperty.  An id that the form sends is used whatever has become of *)
(* the property since the form was opened.                                 *)

StartSave(r, p, status, content, publisher) ==
    /\ status = "published" =>
          /\ publisher
          /\ content.ready \/ (Listed(p) /\ row[p].status = "published")
    /\ Accept(r, [op |-> "save", step |-> "write", property |-> p, read |-> ListedRow(p),
                  status |-> status, content |-> content], status = "published")

\* insert ... on conflict (id) do update, in the trash or not
Upsert(r) ==
    LET p == request[r].property  w == request[r] IN
    /\ At(r, "save", "write")
    /\ row' = [row EXCEPT ![p] =
          IF Exists(p) THEN [@ EXCEPT !.status = w.status, !.content = w.content]
          ELSE NewRow(w.status, w.content)]
    /\ overwritten' = [overwritten EXCEPT ![p] =
          IF Exists(p) THEN @ \cup {row[p].content} ELSE @]
    /\ GoOn(r, "reread")
    /\ UNCHANGED <<review, prices, recorded, stored, started, imported, granted, admitted, purged,
                   acted, overlapped, broken>>

PriceChanged(before, after) == before # None /\ before.content.price # after.price

Reread(r) ==
    LET p == request[r].property IN
    /\ At(r, "save", "reread") /\ Listed(p)
    /\ request' = [request EXCEPT ![r].content = row[p].content,
          ![r].step = IF PriceChanged(request[r].read, row[p].content) THEN "price" ELSE "change"]
    /\ UNCHANGED <<tables, started, history>>

\* The row is gone or in the trash: the save is reported as failed.
RereadFails(r) ==
    LET p == request[r].property IN
    /\ At(r, "save", "reread") /\ ~Listed(p)
    /\ Finish(r)
    /\ broken' = broken \cup {p}
    /\ UNCHANGED <<tables, started, imported, granted, admitted, overwritten, purged, acted,
                   overlapped>>

\* Mutant: the price before is taken from the row after the write.
RecordPriceLate(r) ==
    LET p == request[r].property IN
    /\ At(r, "save", "price")
    /\ prices' = [prices EXCEPT ![p] = Append(@,
          [before |-> request[r].content.price, after |-> request[r].content.price])]
    /\ GoOn(r, "change")
    /\ UNCHANGED <<row, review, recorded, stored, started, history>>

RecordPrice(r) ==
    LET p == request[r].property IN
    /\ At(r, "save", "price")
    /\ prices' = [prices EXCEPT ![p] = Append(@,
          [before |-> request[r].read.content.price, after |-> request[r].content.price])]
    /\ GoOn(r, "change")
    /\ UNCHANGED <<row, review, recorded, stored, started, history>>

\* The history row holds the row that was read, and what a save made of it.
Before(r) == IF request[r].read = None THEN {} ELSE {request[r].read.content}
After(r)  == IF request[r].op = "save" THEN {request[r].content} ELSE {}

RecordChange(r) ==
    LET p == request[r].property IN
    /\ At(r, "save", "change") \/ At(r, "trash", "change")
    /\ recorded' = [recorded EXCEPT ![p] = @ \cup Before(r) \cup After(r)]
    /\ Finish(r)
    /\ UNCHANGED <<row, review, prices, stored, started, history>>

----------------------------------------------------------------------------
(* bulkUpdatePropertyStatus, updatePropertySchedule and the expiry of      *)
(* listings.  The history rows of bulk operations hold a few columns only. *)

\* Mutant: a bulk publication is not checked.
StartStatusUnchecked(r, p, status, publisher) ==
    /\ status = "published" => publisher
    /\ Accept(r, [op |-> "status", step |-> "write", property |-> p, status |-> status],
              status = "published")

\* A property that is not found is not checked either.
StartStatus(r, p, status, publisher) ==
    /\ status = "published" => publisher /\ (Listed(p) => row[p].content.ready)
    /\ Accept(r, [op |-> "status", step |-> "write", property |-> p, status |-> status],
              status = "published")

SetStatus(r) ==
    LET p == request[r].property  status == request[r].status IN
    /\ At(r, "status", "write")
    /\ Write(r, p, IF ~Listed(p) THEN row[p] ELSE
          [row[p] EXCEPT !.status = status,
                         !.publishAt = IF status = "draft" THEN @ ELSE "none",
                         !.unpublishAt = IF status = "published" THEN @ ELSE "none"])

\* Mutant: whoever manages properties may schedule their publication.
StartScheduleByAny(r, p, at, until, publisher) ==
    /\ Listed(p)
    /\ at # "none" /\ row[p].status = "draft" => row[p].content.ready
    /\ Accept(r, [op |-> "schedule", step |-> "write", property |-> p, publishAt |-> at,
                  unpublishAt |-> until], at # "none" /\ publisher)

StartSchedule(r, p, at, until, publisher) ==
    /\ at # "none" => publisher
    /\ Listed(p)
    /\ at # "none" /\ row[p].status = "draft" => row[p].content.ready
    /\ Accept(r, [op |-> "schedule", step |-> "write", property |-> p, publishAt |-> at,
                  unpublishAt |-> until], at # "none")

SetSchedule(r) ==
    LET p == request[r].property  w == request[r] IN
    /\ At(r, "schedule", "write")
    /\ Write(r, p, IF ~Listed(p) THEN row[p] ELSE
          [row[p] EXCEPT !.publishAt = w.publishAt, !.unpublishAt = w.unpublishAt])

\* extend and archiveExpired: one statement each
Expire(p) ==
    /\ \/ /\ Listed(p) /\ row' = [row EXCEPT ![p].unpublishAt = "future"]
       \/ /\ Exists(p) /\ row[p].status = "published" /\ row[p].unpublishAt = "past"
          /\ row' = [row EXCEPT ![p].status = "archived"]
    /\ Count /\ Overlap(p)
    /\ UNCHANGED <<review, prices, recorded, stored, request, imported, granted, admitted,
                   overwritten, purged, acted, broken>>

\* A time of the schedule comes.
Clock(p) ==
    /\ Exists(p)
    /\ \/ row[p].publishAt = "future" /\ row' = [row EXCEPT ![p].publishAt = "past"]
       \/ row[p].unpublishAt = "future" /\ row' = [row EXCEPT ![p].unpublishAt = "past"]
    /\ UNCHANGED <<review, prices, recorded, stored, request, started, history>>

----------------------------------------------------------------------------
(* deleteProperty, bulkDeleteProperties, restoreDeletedProperty and        *)
(* permanentlyDeleteProperty.                                              *)

StartTrash(r, p, bulk) ==
    /\ Accept(r, [op |-> "trash", step |-> "write", property |-> p,
                  read |-> IF bulk THEN None ELSE row[p], bulk |-> bulk], FALSE)

Bin(p) == [row[p] EXCEPT !.status = "archived", !.from = row[p].status]

\* Mutant: what is in the trash already is put there again.
MoveToTrashAgain(r) ==
    LET p == request[r].property IN
    /\ At(r, "trash", "write")
    /\ row' = IF Exists(p) THEN [row EXCEPT ![p] = Bin(p)] ELSE row
    /\ IF Exists(p) /\ ~request[r].bulk /\ request[r].read # None
       THEN GoOn(r, "change") ELSE Finish(r)
    /\ UNCHANGED <<review, prices, recorded, stored, started, history>>

MoveToTrash(r) ==
    LET p == request[r].property IN
    /\ At(r, "trash", "write")
    /\ row' = IF Listed(p) THEN [row EXCEPT ![p] = Bin(p)] ELSE row
    /\ IF Listed(p) /\ ~request[r].bulk /\ request[r].read # None
       THEN GoOn(r, "change") ELSE Finish(r)
    /\ UNCHANGED <<review, prices, recorded, stored, started, history>>

Restore(p, publisher) ==
    /\ Trashed(p)
    /\ row' = [row EXCEPT ![p] = [@ EXCEPT !.from = None,
          !.status = IF row[p].from = "published" /\ ~publisher THEN "draft" ELSE row[p].from]]
    /\ Count /\ Overlap(p)
    /\ UNCHANGED <<review, prices, recorded, stored, request, imported, granted, admitted,
                   overwritten, purged, acted, broken>>

\* Mutant: what is not in the trash is purged like the rest.
StartPurgeOfAny(r, p) ==
    /\ Exists(p)
    /\ Accept(r, [op |-> "purge", step |-> "write", property |-> p], FALSE)

StartPurge(r, p) ==
    /\ Trashed(p)
    /\ Accept(r, [op |-> "purge", step |-> "write", property |-> p], FALSE)

\* delete ... where deleted_at is not null; the reviews go by a cascade.
Delete(r) ==
    LET p == request[r].property IN
    /\ At(r, "purge", "write")
    /\ IF Trashed(p)
       THEN /\ row' = [row EXCEPT ![p] = None]
            /\ review' = [v \in Reviews |->
                  IF review[v] # None /\ review[v].property = p
                  THEN [review[v] EXCEPT !.status = "gone"] ELSE review[v]]
            /\ purged' = purged \cup {p}
       ELSE UNCHANGED <<row, review, purged>>
    /\ GoOn(r, "media")
    /\ UNCHANGED <<prices, recorded, stored, started, imported, granted, admitted, overwritten,
                   acted, overlapped, broken>>

DeleteMedia(r) ==
    /\ At(r, "purge", "media")
    /\ stored' = stored \ {request[r].property}
    /\ Finish(r)
    /\ UNCHANGED <<row, review, prices, recorded, started, history>>

----------------------------------------------------------------------------
(* requestPropertyPublication and reviewPropertyPublication.               *)

StartAsk(r, p) ==
    /\ Listed(p) /\ row[p].status # "published" /\ row[p].content.ready
    /\ Accept(r, [op |-> "ask", step |-> "write", property |-> p], FALSE)

Pending(v) == review[v] # None /\ review[v].status = "pending"

\* One pending review per property (a unique index); the property must exist.
Ask(r) ==
    LET p == request[r].property IN
    /\ At(r, "ask", "write")
    /\ \/ /\ Exists(p) /\ ~\E v \in Reviews : Pending(v) /\ review[v].property = p
          /\ \E v \in Reviews :
                /\ review[v] = None
                /\ review' = [review EXCEPT ![v] = [property |-> p, status |-> "pending"]]
       \/ /\ ~Exists(p) \/ \E v \in Reviews : Pending(v) /\ review[v].property = p
          /\ UNCHANGED review
    /\ Finish(r)
    /\ UNCHANGED <<row, prices, recorded, stored, started, history>>

\* Mutant: a review that was decided can be decided again.
StartDecideAgain(r, v, decision) ==
    /\ review[v] # None
    /\ LET p == review[v].property IN
       /\ Exists(p)
       /\ decision = "approve" => row[p].content.ready
       /\ Accept(r, [op |-> decision, step |-> "write", property |-> p, review |-> v],
                 decision = "approve")

\* The property is read in the trash or not.
StartDecide(r, v, decision) ==
    /\ Pending(v)
    /\ LET p == review[v].property IN
       /\ Exists(p)
       /\ decision = "approve" => row[p].content.ready
       /\ Accept(r, [op |-> decision, step |-> "write", property |-> p, review |-> v],
                 decision = "approve")

Publish(r) ==
    LET p == request[r].property IN
    /\ At(r, "approve", "write")
    /\ row'   = IF Listed(p) THEN [row EXCEPT ![p].status = "published"] ELSE row
    /\ acted' = IF Listed(p) THEN acted \cup {request[r].review} ELSE acted
    /\ GoOn(r, "decide")
    /\ UNCHANGED <<review, prices, recorded, stored, started, imported, granted, admitted,
                   overwritten, purged, overlapped, broken>>

\* The review is updated by its id, pending or not.
Decide(r) ==
    LET v == request[r].review IN
    /\ At(r, "approve", "decide") \/ At(r, "reject", "write")
    /\ review' = IF review[v].status = "gone" THEN review
                 ELSE [review EXCEPT ![v].status =
                         IF request[r].op = "approve" THEN "approved" ELSE "rejected"]
    /\ Finish(r)
    /\ UNCHANGED <<row, prices, recorded, stored, started, history>>

----------------------------------------------------------------------------
(* importDivarFile: a new property, published unless a member of the staff *)
(* imports it, or the property of the advertisement once more, published   *)
(* again whatever has become of it.  It asks for divar.import alone, which *)
(* sales have without property.publish.  An approved submission inserts its*)
(* property as the import does (SubmissionReview), and asks for            *)
(* property.manage alone.                                                  *)

Admit(r, work, publishes, publisher) ==
    /\ Begin(r, work, publishes /\ publisher)
    /\ admitted' = IF publishes /\ ~publisher THEN admitted \cup {work.property} ELSE admitted

StartImport(r, p, content, staff, publisher) ==
    /\ staff => ~publisher
    /\ Fresh(p) \/ (p \in imported /\ ~Exists(p) /\ ~staff)
    /\ Admit(r, [op |-> "import", step |-> "write", property |-> p, content |-> content,
                 status |-> IF staff THEN "draft" ELSE "published"], ~staff, publisher)

\* The images were uploaded before; an id that exists fails the insert.
Import(r) ==
    LET p == request[r].property IN
    /\ At(r, "import", "write")
    /\ IF Exists(p) THEN UNCHANGED <<row, stored, imported>>
       ELSE /\ row' = [row EXCEPT ![p] = NewRow(request[r].status, request[r].content)]
            /\ stored' = stored \cup {p} /\ imported' = imported \cup {p}
    /\ Finish(r)
    /\ UNCHANGED <<review, prices, recorded, started, granted, admitted, overwritten, purged,
                   acted, overlapped, broken>>

StartRepair(r, p, publisher) ==
    /\ p \in imported /\ Exists(p)
    /\ Admit(r, [op |-> "repair", step |-> "write", property |-> p], TRUE, publisher)

\* Images and place are not part of what must be complete; deleted_at is not
\* looked at.
Repair(r) ==
    LET p == request[r].property IN
    /\ At(r, "repair", "write")
    /\ Write(r, p, IF ~Exists(p) THEN row[p] ELSE [row[p] EXCEPT !.status = "published"])

\* A statement of the request fails, or its process ends, half way: one that
\* stops before its first write leaves nothing behind.
Stop(r) ==
    /\ request[r] # Idle
    /\ request[r].step # "write"
    /\ Finish(r)
    /\ broken' = broken \cup {request[r].property}
    /\ UNCHANGED <<tables, started, imported, granted, admitted, overwritten, purged, acted,
                   overlapped>>

Next ==
    \/ \E p \in Properties, r \in Requests, b \in BOOLEAN :
          \/ \E s \in Statuses : \/ \E c \in Contents : StartSave(r, p, s, c, b)
                                 \/ StartStatus(r, p, s, b)
          \/ \E at, until \in {"none", "future"} : StartSchedule(r, p, at, until, b)
          \/ StartTrash(r, p, b)
          \/ StartRepair(r, p, b)
          \/ \E c \in Contents, publisher \in BOOLEAN : StartImport(r, p, c, b, publisher)
    \/ \E p \in Properties : \/ Expire(p) \/ Clock(p)
                             \/ \E publisher \in BOOLEAN : Restore(p, publisher)
    \/ \E p \in Properties, r \in Requests :
          StartPurge(r, p) \/ StartAsk(r, p)
    \/ \E r \in Requests, v \in Reviews, d \in {"approve", "reject"} : StartDecide(r, v, d)
    \/ \E r \in Requests :
          \/ Upsert(r) \/ Reread(r) \/ RereadFails(r) \/ RecordPrice(r) \/ RecordChange(r)
          \/ SetStatus(r) \/ SetSchedule(r) \/ MoveToTrash(r) \/ Delete(r) \/ DeleteMedia(r)
          \/ Ask(r) \/ Publish(r) \/ Decide(r) \/ Import(r) \/ Repair(r) \/ Stop(r)

Spec == Init /\ [][Next]_vars

----------------------------------------------------------------------------
(* Properties.                                                             *)

\* The tables and what the requests carry are well typed.
TypeOK ==
    /\ row \in [Properties -> Rows \cup {None}]
    /\ review \in [Reviews -> ReviewRows \cup {None}]
    /\ prices \in [Properties -> Seq([before : Prices, after : Prices])]
    /\ recorded \in [Properties -> SUBSET Contents]
    /\ overwritten \in [Properties -> SUBSET Contents]
    /\ request \in [Requests -> Works \cup {Idle}]
    /\ started \in 0..MaxStarts
    /\ acted \subseteq Reviews
    /\ \A props \in {stored, imported, granted, admitted, purged, overlapped, broken} :
          props \subseteq Properties

\* No mix of drafts, schedules, trash, restores, reviews, imports and repairs
\* shows the public a property that nobody who may publish asked to publish, but
\* for one that an import or a repair was to publish for someone who may not.
\* That "only the roles allowed to approve the final publication" put a property
\* on the site (admin-publication-queue.tsx:52) is thus kept by every handler of
\* this module but the import, which publishes for sales too.
PublicWasGranted == \A p \in Properties : Public(p) => p \in granted \cup admitted

\* While a property is in the trash, the status that a restore gives back
\* does not change, whoever trashes, saves or imports it once more.
TrashRemembers ==
    [][\A p \in Properties : Trashed(p) /\ Trashed(p)' => row'[p].from = row[p].from]_vars

\* Nobody deals with p, and nobody ever did while another request did, nor
\* left it half done or deleted it for good.
Settled(p) == Exists(p) /\ ~Busy(p) /\ p \notin overlapped \cup broken \cup purged

\* The price history of a property that was saved by one request at a time is
\* a chain that ends in its price (0071_property_price_history.sql).
PricesChain ==
    \A p \in Properties : Settled(p) =>
        LET h == prices[p] IN
        /\ \A i \in 1..Len(h) - 1 : h[i].after = h[i + 1].before
        /\ h # <<>> => h[Len(h)].after = row[p].content.price

\* Whatever such saves have overwritten, the change history still holds.
Recoverable == \A p \in Properties : Settled(p) => overwritten[p] \subseteq recorded[p]

\* Both histories, for the properties no two requests dealt with at once.
HistoriesHold == PricesChain /\ Recoverable

\* The images of a property that was never deleted for good are kept, in the
\* trash too, unless it was restored during its deletion.
MediaKept ==
    \A p \in Properties : Exists(p) /\ p \notin overlapped \cup purged => p \in stored

\* From the panel, one request at a time, only a complete property becomes
\* published (getPublishReadiness before a save, a bulk change or an approval).
PublishedWhenReady ==
    [][\A p \in Properties \ (imported' \cup overlapped') :
          /\ Listed(p)' /\ row'[p].status = "published"
          /\ ~Exists(p) \/ (Listed(p) /\ row[p].status # "published")
          => row'[p].content.ready]_vars

\* A review that says rejected has published nothing, unless two managers
\* decided it at once or an approval stopped half way.
RejectedPublishesNothing ==
    \A v \in Reviews :
        /\ review[v] # None /\ review[v].status = "rejected"
        /\ review[v].property \notin overlapped \cup broken
        => v \notin acted
=============================================================================
