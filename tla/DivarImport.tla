---------------------------- MODULE DivarImport ----------------------------
(***************************************************************************)
(* Advertisements of an external site (Divar) on their way to a listing:   *)
(* src/lib/divar.ts (the crawl's upserts, the list, the import) and        *)
(* src/lib/divar-review.ts (hand approval, its revocation, deletion).      *)
(*                                                                         *)
(* An advertisement has at most one row; a row deleted and crawled again   *)
(* has a new id, and a handler names its row by id.  A handler reads the   *)
(* row once and then updates it unconditionally, with calls to Divar, to   *)
(* the image host and to the database in between: every statement is a     *)
(* step.  What an import writes into a property is PropertyLifecycle's;    *)
(* here a property is the advertisement it was made of.                    *)
(***************************************************************************)
EXTENDS Integers, FiniteSets

CONSTANTS
    Ads,        \* advertisements (their tokens)
    Requests,   \* slots for concurrent handlers
    MaxRows,    \* bound on the rows ever inserted for one advertisement
    MaxImports, \* bound on the properties ever created
    Nothing

Ids        == 1 .. MaxRows
Properties == 1 .. MaxImports

VARIABLES
    verdict,    \* what the agency filter says of the advertisement as served now
    crawled,    \* what the running crawl read of it, until it is stored
    row,        \* divar_files, by token
    rowIds,     \* row ids drawn so far, by token
    property,   \* properties an import inserted: the advertisement, or Nothing
    request,    \* the handlers
    overlapped, \* advertisements two handlers worked on at once
    broken,     \* advertisements an import of which stopped before naming its property
    demoted     \* advertisements an import refused while their listing existed

ads           == <<verdict, crawled>>
files         == <<row, rowIds>>
importHistory == <<overlapped, broken, demoted>>
importVars    == <<ads, files, property, request, importHistory>>

Verdicts == {"private", "agency"}

Rows == [id : Ids, status : {"accepted", "imported", "rejected"},
         override : BOOLEAN,              \* manual_override
         flagged : BOOLEAN,               \* the filter rejects the stored text
         link : Properties \cup {Nothing}]   \* imported_property_id

Steps == {"refuse", "fetch", "look", "unlink", "insert", "record", "stamp",
          "approve", "revoke"}

\* What a handler read of the row, and the property it is about.
Handlers == [step : Steps, ad : Ads, id : Ids, override : BOOLEAN, force : BOOLEAN,
             property : Properties \cup {Nothing}]

ASSUME BoundsAssumption == {MaxRows, MaxImports} \subseteq Nat

ASSUME NothingAssumption ==
    Nothing \notin Ads \cup Verdicts \cup Int \cup Rows \cup Handlers

ImportInit ==
    /\ verdict \in [Ads -> Verdicts]
    /\ crawled = [a \in Ads |-> Nothing]
    /\ row = [a \in Ads |-> Nothing]
    /\ rowIds = [a \in Ads |-> 0]
    /\ property = [p \in Properties |-> Nothing]
    /\ request = [r \in Requests |-> Nothing]
    /\ overlapped = {} /\ broken = {} /\ demoted = {}

----------------------------------------------------------------------------
(* The crawl *)

\* The owner edits the advertisement, or another filter rule comes to bear.
AdChanges(a) ==
    /\ \E v \in Verdicts \ {verdict[a]} : verdict' = [verdict EXCEPT ![a] = v]
    /\ UNCHANGED <<crawled, files, property, request, importHistory>>

\* The detail is fetched batch by batch; the rows are stored later.
Crawl(a) ==
    /\ crawled[a] = Nothing
    /\ crawled' = [crawled EXCEPT ![a] = verdict[a]]
    /\ UNCHANGED <<verdict, files, property, request, importHistory>>

NewRow(a, status, flagged) ==
    [id |-> rowIds[a] + 1, status |-> status, override |-> FALSE,
     flagged |-> flagged, link |-> Nothing]

\* insert ... on conflict (token) do update.
Upsert(a, new, update) ==
    IF row[a] = Nothing
    THEN /\ rowIds[a] < MaxRows
         /\ rowIds' = [rowIds EXCEPT ![a] = @ + 1]
         /\ row' = [row EXCEPT ![a] = new]
    ELSE row' = [row EXCEPT ![a] = update] /\ UNCHANGED rowIds

\* Mutant: a later sync overrules the admin who approved the file.
RejectedUnlessImported(old) ==
    [old EXCEPT !.status  = IF @ = "imported" THEN @ ELSE "rejected",
                !.flagged = @ \/ ~old.override]

\* The seller type of a rejected row is one the filter itself rejects.
RejectedAgain(old) ==
    [old EXCEPT !.status  = IF @ = "imported" THEN @
                            ELSE IF old.override THEN "accepted" ELSE "rejected",
                !.flagged = @ \/ ~old.override]

AcceptedAgain(old) ==
    [old EXCEPT !.status  = IF @ = "imported" THEN @ ELSE "accepted",
                !.flagged = FALSE]

StoreRejected(a) ==
    /\ crawled[a] = "agency"
    /\ Upsert(a, NewRow(a, "rejected", TRUE), RejectedAgain(row[a]))
    /\ crawled' = [crawled EXCEPT ![a] = Nothing]
    /\ UNCHANGED <<verdict, property, request, importHistory>>

\* (The status read just before only decides what a row inserted anew says.)
StoreAccepted(a) ==
    /\ crawled[a] = "private"
    /\ Upsert(a, NewRow(a, "accepted", FALSE), AcceptedAgain(row[a]))
    /\ crawled' = [crawled EXCEPT ![a] = Nothing]
    /\ UNCHANGED <<verdict, property, request, importHistory>>

\* Opening the list of accepted files applies the filter to them again.
ListAccepted(a) ==
    /\ row[a] # Nothing
    /\ row[a].status = "accepted" /\ ~row[a].override /\ row[a].flagged
    /\ row' = [row EXCEPT ![a].status = "rejected"]
    /\ UNCHANGED <<ads, rowIds, property, request, importHistory>>

----------------------------------------------------------------------------
(* Handlers *)

Open(a) == {r \in Requests : request[r] # Nothing /\ request[r].ad = a}

\* A handler has read the row of an advertisement.
Starts(r, a, step, force) ==
    /\ request[r] = Nothing /\ row[a] # Nothing
    /\ request' = [request EXCEPT ![r] =
           [step |-> step, ad |-> a, id |-> row[a].id, override |-> row[a].override,
            force |-> force, property |-> row[a].link]]
    /\ overlapped' = IF Open(a) = {} THEN overlapped ELSE overlapped \cup {a}
    /\ UNCHANGED <<ads, files, property, broken, demoted>>

Goes(r, step) == request' = [request EXCEPT ![r].step = step]
Ends(r)       == request' = [request EXCEPT ![r] = Nothing]

\* update divar_files ... where id = $1: nothing happens when that row is gone.
StillThere(h) == row[h.ad] # Nothing /\ row[h.ad].id = h.id

UpdateFile(h, update) ==
    row' = IF StillThere(h) THEN [row EXCEPT ![h.ad] = update] ELSE row

\* The next statement of an import that is not refused.
Onward(link) == IF link = Nothing THEN "insert" ELSE "look"

\* importDivarFile: refuse a rejected file, and one whose stored text is flagged
\* unless a human approved it.  A repair, or a row without images, is fetched again.
\* (Staff import only what has no property yet, and do not repair.)
StartImport(r, a) ==
    /\ row[a] # Nothing /\ row[a].status # "rejected"
    /\ IF row[a].flagged /\ ~row[a].override THEN Starts(r, a, "refuse", FALSE)
       ELSE \/ Starts(r, a, "fetch", FALSE)
            \/ Starts(r, a, Onward(row[a].link), FALSE)

\* The advertisement, as served now, is filtered too; a failed fetch is ignored.
Fetch(r) ==
    /\ request[r] # Nothing /\ request[r].step = "fetch"
    /\ \/ Goes(r, Onward(request[r].property))
       \/ /\ verdict[request[r].ad] = "agency" /\ ~request[r].override
          /\ Goes(r, "refuse")
    /\ UNCHANGED <<ads, files, property, importHistory>>

Refuse(r) ==
    /\ request[r] # Nothing /\ request[r].step = "refuse"
    /\ LET h == request[r] IN
          /\ UpdateFile(h, [row[h.ad] EXCEPT !.status = "rejected"])
          /\ demoted' = IF h.property # Nothing /\ property[h.property] # Nothing
                        THEN demoted \cup {h.ad} ELSE demoted
    /\ Ends(r)
    /\ UNCHANGED <<ads, rowIds, property, overlapped, broken>>

\* Mutant of Look: does not find the property.
LookMisses(r) ==
    /\ request[r] # Nothing /\ request[r].step = "look"
    /\ Goes(r, "unlink")
    /\ UNCHANGED <<ads, files, property, importHistory>>

\* A file imported before: is its property still there?
Look(r) ==
    /\ request[r] # Nothing /\ request[r].step = "look"
    /\ Goes(r, IF property[request[r].property] = Nothing THEN "unlink" ELSE "stamp")
    /\ UNCHANGED <<ads, files, property, importHistory>>

Unlink(r) ==
    /\ request[r] # Nothing /\ request[r].step = "unlink"
    /\ LET h == request[r] IN
          UpdateFile(h, [row[h.ad] EXCEPT !.link = Nothing, !.status = "accepted"])
    /\ Goes(r, "insert")
    /\ UNCHANGED <<ads, rowIds, property, importHistory>>

\* The images and the status of the property are updated, then the file's.
Stamp(r) ==
    /\ request[r] # Nothing /\ request[r].step = "stamp"
    /\ LET h == request[r] IN UpdateFile(h, [row[h.ad] EXCEPT !.status = "imported"])
    /\ Ends(r)
    /\ UNCHANGED <<ads, rowIds, property, importHistory>>

\* A property that was purged is inserted again under its id, which fails when
\* another import has done so; a new one gets an id nobody has drawn or named.
Insert(r) ==
    /\ request[r] # Nothing /\ request[r].step = "insert"
    /\ LET h == request[r]
           drawn == {p \in Properties :
                        \/ property[p] # Nothing
                        \/ \E a \in Ads : row[a] # Nothing /\ row[a].link = p
                        \/ \E s \in Requests : request[s] # Nothing /\ request[s].property = p}
       IN IF h.property # Nothing /\ property[h.property] # Nothing
          THEN Ends(r) /\ UNCHANGED property
          ELSE \E p \in IF h.property # Nothing THEN {h.property} ELSE Properties \ drawn :
                  /\ property' = [property EXCEPT ![p] = h.ad]
                  /\ request' = [request EXCEPT ![r].step = "record", ![r].property = p]
    /\ UNCHANGED <<ads, files, importHistory>>

Record(r) ==
    /\ request[r] # Nothing /\ request[r].step = "record"
    /\ LET h == request[r] IN
          UpdateFile(h, [row[h.ad] EXCEPT !.status = "imported", !.link = h.property])
    /\ Ends(r)
    /\ UNCHANGED <<ads, rowIds, property, importHistory>>

\* approveDivarFile: not for a published file; the advertisement is read again.
StartApprove(r, a, force) ==
    /\ row[a] # Nothing /\ row[a].status # "imported"
    /\ Starts(r, a, "approve", force)

\* Unless forced, the fetch must succeed and the filter must agree.
Approve(r) ==
    /\ request[r] # Nothing /\ request[r].step = "approve"
    /\ LET h == request[r] IN
          /\ h.force \/ verdict[h.ad] = "private"
          /\ UpdateFile(h, [row[h.ad] EXCEPT !.status = "accepted", !.override = TRUE])
    /\ Ends(r)
    /\ UNCHANGED <<ads, rowIds, property, importHistory>>

ApproveStops(r) ==
    /\ request[r] # Nothing /\ request[r].step = "approve" /\ ~request[r].force
    /\ Ends(r)
    /\ UNCHANGED <<ads, files, property, importHistory>>

\* revokeDivarOverride
StartRevoke(r, a) ==
    /\ row[a] # Nothing /\ row[a].status # "imported" /\ row[a].override
    /\ Starts(r, a, "revoke", FALSE)

Revoke(r) ==
    /\ request[r] # Nothing /\ request[r].step = "revoke"
    /\ LET h == request[r] IN
          UpdateFile(h, [row[h.ad] EXCEPT !.status = "rejected", !.override = FALSE])
    /\ Ends(r)
    /\ UNCHANGED <<ads, rowIds, property, importHistory>>

\* Mutant: published files are not protected.
DeletesAny(a) == row[a] # Nothing

Deletable(a) == row[a] # Nothing /\ row[a].status # "imported"

\* deleteDivarFiles: one statement.
Delete(a) ==
    /\ Deletable(a)
    /\ row' = [row EXCEPT ![a] = Nothing]
    /\ overlapped' = IF Open(a) = {} THEN overlapped ELSE overlapped \cup {a}
    /\ UNCHANGED <<ads, rowIds, property, request, broken, demoted>>

\* The panel purges a property from the trash.
Purge(p) ==
    /\ property[p] # Nothing
    /\ property' = [property EXCEPT ![p] = Nothing]
    /\ UNCHANGED <<ads, files, request, importHistory>>

\* A statement of a handler fails, or the server stops.
Dies(r) ==
    /\ request[r] # Nothing
    /\ broken' = IF request[r].step = "record" THEN broken \cup {request[r].ad} ELSE broken
    /\ Ends(r)
    /\ UNCHANGED <<ads, files, property, overlapped, demoted>>

----------------------------------------------------------------------------
(* Specification *)

Arrives(r) == \E a \in Ads : \/ StartImport(r, a) \/ StartRevoke(r, a)
                             \/ \E force \in BOOLEAN : StartApprove(r, a, force)

Proceeds(r) == \/ Fetch(r) \/ Refuse(r) \/ Look(r) \/ Unlink(r) \/ Stamp(r) \/ Insert(r)
               \/ Record(r) \/ Approve(r) \/ ApproveStops(r) \/ Revoke(r) \/ Dies(r)

Sync(a) == AdChanges(a) \/ Crawl(a) \/ StoreRejected(a) \/ StoreAccepted(a)

ImportNext == \/ \E a \in Ads : Sync(a) \/ ListAccepted(a) \/ Delete(a)
              \/ \E p \in Properties : Purge(p)
              \/ \E r \in Requests : Arrives(r) \/ Proceeds(r)

ImportSpec == ImportInit /\ [][ImportNext]_importVars

----------------------------------------------------------------------------
(* Properties *)

FilesTypeOK ==
    /\ verdict \in [Ads -> Verdicts]
    /\ crawled \in [Ads -> Verdicts \cup {Nothing}]
    /\ row \in [Ads -> Rows \cup {Nothing}]
    /\ rowIds \in [Ads -> 0 .. MaxRows]
    /\ property \in [Properties -> Ads \cup {Nothing}]
    /\ request \in [Requests -> Handlers \cup {Nothing}]
    /\ overlapped \subseteq Ads /\ broken \subseteq Ads /\ demoted \subseteq Ads

\* "Published files are protected": every listing an import made is named by
\* the file of its advertisement, or is about to be, whatever the crawl finds,
\* the admins decide and the filter says later - unless two handlers overlapped,
\* an import stopped before it named its property, or one refused the file of a
\* listing.
ListingHasFile ==
    \A p \in Properties : property[p] # Nothing =>
        LET a == property[p] IN
        \/ a \in overlapped \cup broken \cup demoted
        \/ row[a] # Nothing /\ row[a].link = p
        \/ \E r \in Requests : /\ request[r] # Nothing /\ request[r].step = "record"
                               /\ request[r].property = p

\* So, with the same exceptions, an advertisement is never published twice, and
\* its file is not deleted while its listing stays: through repairs, purges, a
\* second crawl and a second import of what was imported before.
OneListing ==
    \A p \in Properties :
        property[p] # Nothing /\ property[p] \notin overlapped \cup broken \cup demoted =>
            /\ row[property[p]] # Nothing
            /\ \A q \in Properties : property[q] = property[p] => q = p

\* "A hand-approved file keeps its approval": neither a sync nor an import
\* rejects a file a human approved, unless it worked on what it had read before.
ApprovalStands ==
    \A a \in Ads : row[a] # Nothing /\ row[a].override /\ a \notin overlapped =>
        row[a].status # "rejected"
=============================================================================
