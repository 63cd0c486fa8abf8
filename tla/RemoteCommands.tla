--------------------------- MODULE RemoteCommands ---------------------------
(***************************************************************************)
(* Remote commands of the phone bridge.  The panel inserts a row            *)
(* (admin-phone-bridge-remote.ts), the phone polls for the oldest one       *)
(* (remote-control/command.get.ts), asks its user, does the work and posts  *)
(* a result once (RemoteControlService.kt and the Remote*Activity classes;  *)
(* photo.post.ts, audio.post.ts, result.post.ts, data.post.ts).  Nothing is *)
(* retried: what is lost is left to the expiry of the row.                  *)
(*                                                                          *)
(* One phone.  A tick is 60 seconds; a row past its expires_at has left = 0.*)
(* take_photo stands for every action that opens an activity and posts from *)
(* a thread of its own (manage_files, list_apps, list_notifications).       *)
(***************************************************************************)
EXTENDS Naturals, FiniteSets, Sequences

CONSTANTS MaxCommands,   \* commands the panel ever creates (bound)
          Admins,        \* requests of the panel that may run at once
          Asked,         \* sequences of kinds the panel may ask for (bound)
          None,          \* no row, no request, no dialog
          MaxFaults,     \* lost messages, killed processes, stopped services
          MaxChanges     \* changes of the device's policy

Kinds == {"get_location", "take_photo", "record_audio", "restore_data"}

ASSUME CommandsAssumption == MaxCommands \in Nat
ASSUME AskedAssumption == Asked \subseteq Seq(Kinds)
ASSUME BoundsAssumption == MaxFaults \in Nat /\ MaxChanges \in Nat

Commands == 1..MaxCommands   \* in the order of created_at

VARIABLES
    cmd,         \* phone_bridge_remote_commands
    files,       \* commands whose photo or recording is in phone_bridge_files
    allowed,     \* kinds whose module is not disallowed in allowed_modules
    admin,       \* kind each panel request has checked and not yet inserted
    poll,        \* the poll in progress
    remoteOn,    \* prefs.remoteControlEnabled
    polling,     \* the service's poll loop runs
    located,     \* the command whose location request is current
    callbacks,   \* getCurrentLocation calls not yet answered
    work,        \* what the phone's activities do for each command
    taken,       \* ticks since the recording started, up to one
    report,      \* results and failures on their way to the server
    pending,     \* prefs.pendingRemoteDataCommandId
    prompted,    \* prefs.promptedRemoteDataCommandId
    dialog,      \* the approval dialog on screen
    faults, changes,
    \* History, for the properties only.
    overlapped,  \* two creations were in progress at once
    confirmed,   \* commands the user confirmed on the phone
    refused,     \* commands with a report refused while they were running
    torn         \* the approval dialog went away without an answer

serverVars == <<cmd, files, allowed>>
phoneVars  == <<remoteOn, polling, located, callbacks, work, taken>>
restoreVars == <<pending, prompted, dialog, torn>>
history == <<overlapped, confirmed, refused>>
vars == <<serverVars, admin, poll, phoneVars, report, restoreVars, faults, changes, history>>

Statuses == {"queued", "running", "succeeded", "failed", "expired"}
Ended == {"succeeded", "failed", "expired"}
Rows == [kind : Kinds, status : Statuses, left : 0..3]
ASSUME NoneAssumption == None \notin Commands /\ None \notin Kinds /\ None \notin Rows
Reports == [c : Commands, kind : Kinds, ok : BOOLEAN, fits : BOOLEAN]
Idle == [at |-> "idle", seen |-> {}, c |-> None]

Exists(c) == cmd[c] # None
\* The condition of the panel's check and of the claim.
Active(c) == Exists(c) /\ cmd[c].status \in {"queued", "running"} /\ cmd[c].left > 0
\* expires_at of the insert: 180 seconds, or 60 for every other action.
Ttl(kind) == IF kind \in {"take_photo", "restore_data"} THEN 3 ELSE 1

\* The bound on what is asked: the kinds so far begin one of the sequences.
Planned(c, kind) == \E s \in Asked : /\ c <= Len(s) /\ s[c] = kind
                                     /\ \A d \in Commands : Exists(d) => d <= Len(s) /\ s[d] = cmd[d].kind

\* "update ... set status ... where id and status='running'".
SetIfRunning(c, status) ==
    IF Exists(c) /\ cmd[c].status = "running" THEN [cmd EXCEPT ![c].status = status] ELSE cmd
\* The report of a failure: postResultError.
Failure(c, kind) == [c |-> c, kind |-> kind, ok |-> FALSE, fits |-> TRUE]

Init == /\ cmd = [c \in Commands |-> None] /\ files = {} /\ allowed = Kinds
        /\ admin = [a \in Admins |-> None] /\ poll = Idle
        /\ remoteOn = TRUE /\ polling = TRUE /\ located = None /\ callbacks = {}
        /\ work = [c \in Commands |-> "none"] /\ taken = [c \in Commands |-> 0]
        /\ report = {}
        /\ pending = None /\ prompted = None /\ dialog = None
        /\ faults = 0 /\ changes = 0
        /\ overlapped = FALSE /\ confirmed = {} /\ refused = {} /\ torn = FALSE

-----------------------------------------------------------------------------
(* The panel. *)

\* Mutant of NoneActive: a running command does not count.
NoneQueued == \A c \in Commands : Active(c) => cmd[c].status # "queued"
NoneActive == \A c \in Commands : ~Active(c)

\* The checks of createPhoneBridgeRemoteCommand, up to the insert.
CheckCommand(a, kind) ==
    /\ admin[a] = None /\ kind \in allowed
    /\ \E c \in Commands : ~Exists(c) /\ Planned(c, kind)
    /\ NoneActive
    /\ admin' = [admin EXCEPT ![a] = kind]
    /\ overlapped' = (overlapped \/ \E b \in Admins : admin[b] # None)
    /\ UNCHANGED <<serverVars, poll, phoneVars, report, restoreVars, faults, changes,
                   confirmed, refused>>

InsertCommand(a) ==
    /\ admin[a] # None
    /\ \E c \in Commands :
          /\ ~Exists(c) /\ \A d \in Commands : d < c => Exists(d)
          /\ Planned(c, admin[a])
          /\ cmd' = [cmd EXCEPT ![c] = [kind |-> admin[a], status |-> "queued",
                                        left |-> Ttl(admin[a])]]
    /\ admin' = [admin EXCEPT ![a] = None]
    /\ UNCHANGED <<files, allowed, poll, phoneVars, report, restoreVars, faults, changes,
                   history>>

\* setPhoneBridgeDevicePolicy, for one module.
SetPolicy(kind) ==
    /\ changes < MaxChanges /\ changes' = changes + 1
    /\ \E c \in Commands : Planned(c, kind)
    /\ allowed' = IF kind \in allowed THEN allowed \ {kind} ELSE allowed \cup {kind}
    /\ UNCHANGED <<cmd, files, admin, poll, phoneVars, report, restoreVars, faults, history>>

Elapsed(c) == IF Exists(c) /\ cmd[c].left > 0 THEN [cmd[c] EXCEPT !.left = @ - 1] ELSE cmd[c]

\* Time passes for every row, and for the recordings.
Tick ==
    /\ \E c \in Commands : Exists(c) /\ cmd[c].left > 0
    /\ cmd' = [c \in Commands |-> Elapsed(c)]
    /\ taken' = [c \in Commands |->
                 IF work[c] \in {"working", "uploaded"} /\ cmd[c].kind = "record_audio"
                 THEN 1 ELSE taken[c]]
    /\ UNCHANGED <<files, allowed, admin, poll, remoteOn, polling, located, callbacks, work,
                   report, restoreVars, faults, changes, history>>

-----------------------------------------------------------------------------
(* The poll: one handler of the server, one worker thread of the phone. *)

\* The handler reads the device's modules ...
PollBegin ==
    /\ polling /\ remoteOn /\ poll = Idle
    /\ poll' = [poll EXCEPT !.at = "read", !.seen = allowed]
    /\ UNCHANGED <<serverVars, admin, phoneVars, report, restoreVars, faults, changes, history>>

\* Mutant of Overdue: only a queued command expires.
OverdueQueued(c) == Exists(c) /\ cmd[c].status = "queued" /\ cmd[c].left = 0
Overdue(c) == Exists(c) /\ cmd[c].status \in {"queued", "running"} /\ cmd[c].left = 0

\* ... marks what has expired ...
PollExpire ==
    /\ poll.at = "read"
    /\ cmd' = [c \in Commands |->
                 IF Overdue(c) THEN [cmd[c] EXCEPT !.status = "expired"] ELSE cmd[c]]
    /\ poll' = [poll EXCEPT !.at = "expired"]
    /\ UNCHANGED <<files, allowed, admin, phoneVars, report, restoreVars, faults, changes,
                   history>>

\* Mutant of Claimable: the oldest queued row, expired or not.
ClaimableLate(c) == Exists(c) /\ cmd[c].status = "queued"
\* ... and claims the oldest queued row that has not expired.
Claimable(c) == Exists(c) /\ cmd[c].status = "queued" /\ cmd[c].left > 0
PollClaim ==
    /\ poll.at = "expired"
    /\ \/ /\ \A c \in Commands : ~Claimable(c)
          /\ poll' = Idle /\ UNCHANGED cmd
       \/ \E c \in Commands :
             /\ Claimable(c) /\ \A d \in Commands : d < c => ~Claimable(d)
             /\ cmd' = [cmd EXCEPT ![c].status = "running"]
             /\ poll' = [poll EXCEPT !.at = "claimed", !.c = c]
    /\ UNCHANGED <<files, allowed, admin, phoneVars, report, restoreVars, faults, changes,
                   history>>

\* The claimed row's module is disallowed: it fails and nothing is answered.
PollDisallowed ==
    /\ poll.at = "claimed" /\ cmd[poll.c].kind \notin poll.seen
    /\ cmd' = SetIfRunning(poll.c, "failed")
    /\ poll' = Idle
    /\ UNCHANGED <<files, allowed, admin, phoneVars, report, restoreVars, faults, changes,
                   history>>

\* The answer, or the request before it, is lost: fetchCommand's runCatching.
PollLost ==
    /\ poll # Idle /\ faults < MaxFaults
    /\ faults' = faults + 1
    /\ poll' = Idle
    /\ UNCHANGED <<serverVars, admin, phoneVars, report, restoreVars, changes, history>>

\* The command reaches the phone.
Answered(kind) ==
    /\ poll.at = "claimed" /\ kind \in poll.seen /\ cmd[poll.c].kind = kind
    /\ poll' = Idle
    /\ UNCHANGED <<serverVars, admin, remoteOn, polling, taken, faults, changes, history>>

\* handleGetLocation: a failure at once, or the current request is replaced.
HandleGetLocation ==
    /\ Answered("get_location")
    /\ \/ /\ report' = report \cup {Failure(poll.c, "get_location")}
          /\ UNCHANGED <<located, callbacks>>
       \/ /\ located' = poll.c /\ callbacks' = callbacks \cup {poll.c}
          /\ UNCHANGED report
    /\ UNCHANGED <<work, restoreVars>>

\* Mutant of Notify: the work starts without the user.
NotifyAndStart(c) == work' = [work EXCEPT ![c] = "working"]
\* handleTakePhotoRequest, handleRecordAudioRequest: a notification opens the
\* activity.
Notify(c) == work' = [work EXCEPT ![c] = "notified"]
HandleTakePhoto ==
    /\ Answered("take_photo") /\ Notify(poll.c)
    /\ UNCHANGED <<located, callbacks, report, restoreVars>>
\* Without the microphone permission postResultError is called with its
\* default action, "take_photo".
HandleRecordAudio ==
    /\ Answered("record_audio")
    /\ \/ Notify(poll.c) /\ UNCHANGED report
       \/ report' = report \cup {Failure(poll.c, "take_photo")} /\ UNCHANGED work
    /\ UNCHANGED <<located, callbacks, restoreVars>>

\* prepareRestoreApproval: refused while another one waits or when the user
\* has not enabled the module, else remembered until the user answers.
PrepareRestoreApproval ==
    /\ Answered("restore_data")
    /\ \/ /\ report' = report \cup {Failure(poll.c, "restore_data")}
          /\ UNCHANGED <<pending, prompted>>
       \/ /\ pending = None
          /\ pending' = poll.c /\ prompted' = None
          /\ UNCHANGED report
    /\ UNCHANGED <<located, callbacks, work, dialog, torn>>

-----------------------------------------------------------------------------
(* The phone's location request. *)

\* getCurrentLocation calls back: whatever request is current is cleared.
LocationArrives(c) ==
    /\ c \in callbacks /\ poll = Idle
    /\ callbacks' = callbacks \ {c} /\ located' = None
    /\ \E ok \in BOOLEAN :
          report' = report \cup {[c |-> c, kind |-> "get_location", ok |-> ok, fits |-> TRUE]}
    /\ UNCHANGED <<serverVars, admin, poll, remoteOn, polling, work, taken, restoreVars, faults,
                   changes, history>>

LocationTimeout ==
    /\ located # None /\ poll = Idle
    /\ report' = report \cup {Failure(located, "get_location")}
    /\ located' = None
    /\ UNCHANGED <<serverVars, admin, poll, remoteOn, polling, callbacks, work, taken,
                   restoreVars, faults, changes, history>>

-----------------------------------------------------------------------------
(* The activities: the user confirms, the work is done, the result is sent. *)

Confirm(c) ==
    /\ work[c] = "notified"
    /\ work' = [work EXCEPT ![c] = "working"] /\ taken' = [taken EXCEPT ![c] = 0]
    /\ confirmed' = confirmed \cup {c}
    /\ UNCHANGED <<serverVars, admin, poll, remoteOn, polling, located, callbacks, report,
                   restoreVars, faults, changes, overlapped, refused>>

\* The user leaves: the camera posts a failure (cancelAndFinish), the recorder
\* stops without a word.
Leave(c) ==
    /\ work[c] \in {"notified", "working"} \/ (work[c] = "uploaded" /\ cmd[c].kind = "take_photo")
    /\ work' = [work EXCEPT ![c] = "done"] /\ taken' = [taken EXCEPT ![c] = 0]
    /\ report' = IF cmd[c].kind = "take_photo" THEN report \cup {Failure(c, "take_photo")}
                 ELSE report
    /\ UNCHANGED <<serverVars, admin, poll, remoteOn, polling, located, callbacks,
                   restoreVars, faults, changes, history>>

\* photo.post.ts, audio.post.ts: the row must be running and not expired, the
\* module allowed.  After a failure the activity stays open for another try.
UploadAccepted(c) ==
    cmd[c].status = "running" /\ cmd[c].left > 0 /\ cmd[c].kind \in allowed
Upload(c) ==
    /\ work[c] = "working"
    /\ \/ /\ UploadAccepted(c)
          /\ files' = files \cup {c}
          /\ work' = [work EXCEPT ![c] = "uploaded"]
          /\ UNCHANGED <<taken, report, faults>>
       \/ /\ ~UploadAccepted(c)
          /\ report' = report \cup {Failure(c, cmd[c].kind)}
          /\ work' = [work EXCEPT ![c] = "notified"] /\ taken' = [taken EXCEPT ![c] = 0]
          /\ UNCHANGED <<files, faults>>
       \/ /\ faults < MaxFaults /\ faults' = faults + 1   \* no answer comes back
          /\ files' = IF UploadAccepted(c) THEN files \cup {c} ELSE files
          /\ report' = report \cup {Failure(c, cmd[c].kind)}
          /\ work' = [work EXCEPT ![c] = "notified"] /\ taken' = [taken EXCEPT ![c] = 0]
    /\ UNCHANGED <<cmd, allowed, admin, poll, remoteOn, polling, located, callbacks,
                   restoreVars, changes, history>>

\* The result names the file; result.post.ts wants 60 seconds of a recording.
SendResult(c) ==
    /\ work[c] = "uploaded"
    /\ work' = [work EXCEPT ![c] = "notified"] /\ taken' = [taken EXCEPT ![c] = 0]
    /\ report' = report \cup {[c |-> c, kind |-> cmd[c].kind, ok |-> TRUE,
                               fits |-> cmd[c].kind = "take_photo" \/ taken[c] = 1]}
    /\ UNCHANGED <<serverVars, admin, poll, remoteOn, polling, located, callbacks,
                   restoreVars, faults, changes, history>>

-----------------------------------------------------------------------------
(* The reports. *)

\* Mutant of ResultAccepted: refuses a result after the expiry.
ResultAcceptedInTime(r) ==
    /\ r.ok => r.fits
    /\ Exists(r.c) /\ cmd[r.c].kind = r.kind /\ cmd[r.c].status = "running" /\ cmd[r.c].left > 0

\* result.post.ts: the update wants the action of the row and status running;
\* it does not look at expires_at.
ResultAccepted(r) ==
    /\ r.ok => r.fits
    /\ Exists(r.c) /\ cmd[r.c].kind = r.kind /\ cmd[r.c].status = "running"

\* data.post.ts, a failure: an expired row is marked, a running one fails.
DataStatus(r) == IF cmd[r.c].left = 0 THEN "expired" ELSE "failed"

Accept(r) == IF r.kind = "restore_data" THEN cmd[r.c].left > 0 /\ cmd[r.c].status = "running"
             ELSE ResultAccepted(r)
CmdAfter(r) ==
    IF r.kind # "restore_data"
    THEN IF ResultAccepted(r)
         THEN [cmd EXCEPT ![r.c].status = IF r.ok THEN "succeeded" ELSE "failed"] ELSE cmd
    ELSE SetIfRunning(r.c, DataStatus(r))

\* An acknowledged report closes the activity.
Closed(r) == IF Accept(r) /\ (work[r.c] \in {"notified", "working"}
                               \/ (work[r.c] = "uploaded" /\ r.kind = "take_photo"))
             THEN [work EXCEPT ![r.c] = "done"] ELSE work

DeliverReport(r) ==
    /\ r \in report
    /\ report' = report \ {r}
    /\ cmd' = CmdAfter(r)
    /\ \/ work' = Closed(r) /\ UNCHANGED faults
       \/ work' = work /\ faults < MaxFaults /\ faults' = faults + 1   \* no answer
    /\ refused' = IF cmd'[r.c].status = "running" THEN refused \cup {r.c} ELSE refused
    /\ UNCHANGED <<files, allowed, admin, poll, remoteOn, polling, located, callbacks, taken,
                   restoreVars, changes, overlapped, confirmed>>

\* Every report is posted once.
LoseReport(r) ==
    /\ r \in report /\ faults < MaxFaults
    /\ faults' = faults + 1
    /\ report' = report \ {r}
    /\ UNCHANGED <<serverVars, admin, poll, phoneVars, restoreVars, changes, history>>

-----------------------------------------------------------------------------
(* The approval of a restore (MainActivity.maybePromptRemoteDataApproval). *)

\* On resume; the flag is saved before the dialog is shown.
Prompt ==
    /\ pending # None /\ prompted # pending
    /\ prompted' = pending /\ dialog' = pending
    /\ UNCHANGED <<serverVars, admin, poll, phoneVars, report, pending, torn, faults, changes,
                   history>>

\* Mutant of CancelDialog: does not ask again.
CancelDialogForGood ==
    /\ dialog # None
    /\ dialog' = None /\ UNCHANGED prompted
    /\ UNCHANGED <<serverVars, admin, poll, phoneVars, report, pending, torn, faults, changes,
                   history>>
CancelDialog ==
    /\ dialog # None
    /\ dialog' = None /\ prompted' = None
    /\ UNCHANGED <<serverVars, admin, poll, phoneVars, report, pending, torn, faults, changes,
                   history>>

\* Approve or deny.  The service answers from onStartCommand, on the main
\* thread: the platform refuses its network calls there, postJson returns
\* false, and both ways the request is forgotten without a word to the server.
AnswerRestore ==
    /\ dialog # None
    /\ dialog' = None /\ pending' = None /\ prompted' = None
    /\ UNCHANGED <<serverVars, admin, poll, phoneVars, report, torn, faults, changes, history>>

\* The activity is recreated: its dialog goes without the cancel listener.
TearDown ==
    /\ dialog # None /\ faults < MaxFaults
    /\ faults' = faults + 1
    /\ dialog' = None /\ torn' = TRUE
    /\ UNCHANGED <<serverVars, admin, poll, phoneVars, report, pending, prompted, changes,
                   history>>

-----------------------------------------------------------------------------
(* The service. *)

\* The switch in the app; the worker finishes the poll it is in.
StopRemote ==
    /\ remoteOn /\ faults < MaxFaults
    /\ faults' = faults + 1
    /\ remoteOn' = FALSE /\ polling' = FALSE /\ located' = None /\ callbacks' = {}
    /\ UNCHANGED <<serverVars, admin, poll, work, taken, report, restoreVars, changes, history>>

\* The process dies.  START_STICKY restarts the service without an action, so
\* it does not poll; activities and notifications can be opened again.
KillProcess ==
    /\ faults < MaxFaults
    /\ faults' = faults + 1
    /\ polling' = FALSE /\ located' = None /\ callbacks' = {} /\ poll' = Idle
    /\ work' = [c \in Commands |-> IF work[c] \in {"working", "uploaded"} THEN "notified"
                                   ELSE work[c]]
    /\ report' \in SUBSET report
    /\ dialog' = None /\ torn' = (torn \/ dialog # None)
    /\ UNCHANGED <<serverVars, admin, remoteOn, taken, pending, prompted, changes, history>>

\* The user opens the app with the switch on, or turns it on.
StartRemote ==
    /\ ~polling
    /\ remoteOn' = TRUE /\ polling' = TRUE
    /\ UNCHANGED <<serverVars, admin, poll, located, callbacks, work, taken, report, restoreVars,
                   faults, changes, history>>

-----------------------------------------------------------------------------
Panel == \/ \E a \in Admins : InsertCommand(a) \/ \E kind \in Kinds : CheckCommand(a, kind)
         \/ \E kind \in Kinds : SetPolicy(kind)
Poll == PollBegin \/ PollExpire \/ PollClaim \/ PollDisallowed \/ PollLost
Handle == HandleGetLocation \/ HandleTakePhoto \/ HandleRecordAudio \/ PrepareRestoreApproval
PhoneWork == \/ \E c \in Commands : \/ LocationArrives(c) \/ Confirm(c) \/ Leave(c)
                                    \/ Upload(c) \/ SendResult(c)
             \/ LocationTimeout
             \/ \E r \in report : DeliverReport(r) \/ LoseReport(r)
Restore == Prompt \/ CancelDialog \/ AnswerRestore \/ TearDown
Service == StopRemote \/ KillProcess \/ StartRemote
Next == Panel \/ Tick \/ Poll \/ Handle \/ PhoneWork \/ Restore \/ Service

\* The poll loop runs every 5 seconds (POLL_MS), time passes, and the app is
\* opened again after the service stopped.  Nothing is assumed of the user's
\* answers, of the GPS or of the reports.
Fairness == /\ WF_vars(Tick) /\ WF_vars(PollBegin) /\ WF_vars(PollExpire)
            /\ WF_vars(PollClaim) /\ WF_vars(PollDisallowed \/ Handle) /\ WF_vars(StartRemote)
Spec == Init /\ [][Next]_vars
FairSpec == Spec /\ Fairness

-----------------------------------------------------------------------------
(* Properties. *)

\* The type invariant.
TypeOK ==
    /\ cmd \in [Commands -> Rows \cup {None}]
    /\ files \subseteq Commands /\ allowed \subseteq Kinds
    /\ admin \in [Admins -> Kinds \cup {None}]
    /\ poll \in [at : {"idle", "read", "expired", "claimed"}, seen : SUBSET Kinds,
                 c : Commands \cup {None}]
    /\ poll.at = "claimed" => poll.c \in Commands /\ Exists(poll.c)
    /\ remoteOn \in BOOLEAN /\ polling \in BOOLEAN
    /\ located \in Commands \cup {None} /\ callbacks \subseteq Commands
    /\ work \in [Commands -> {"none", "notified", "working", "uploaded", "done"}]
    /\ taken \in [Commands -> 0..1]
    /\ \A c \in Commands : work[c] # "none" \/ c \in callbacks \/ c = located => Exists(c)
    /\ report \subseteq Reports /\ \A r \in report : Exists(r.c)
    /\ \A x \in {pending, prompted, dialog} : x \in Commands \cup {None}
    /\ faults \in 0..MaxFaults /\ changes \in 0..MaxChanges
    /\ overlapped \in BOOLEAN /\ torn \in BOOLEAN
    /\ confirmed \subseteq Commands /\ refused \subseteq Commands

\* A device has one active command at a time ("a remote command is still
\* running, first get its result"), as long as no two requests of the panel
\* are between the check and the insert at once.
OneActive == ~overlapped => \A c, d \in Commands : Active(c) /\ Active(d) => c = d

\* A command that ended stays as it ended, whatever arrives later: a second
\* report of the same location, a result after the expiry, a late failure.
Final(c) == Exists(c) /\ cmd[c].status \in Ended =>
              Exists(c)' /\ cmd'[c].status = cmd[c].status
FinishedIsFinal == [][\A c \in Commands : Final(c)]_vars

\* No photo or recording reaches the server, and no command but a location
\* succeeds, unless the user confirmed that command on the phone.
NothingWithoutTheUser ==
    \A c \in Commands :
        c \in files \/ (Exists(c) /\ cmd[c].status = "succeeded" /\ cmd[c].kind # "get_location")
          => c \in confirmed

\* A restore the phone remembers can be answered: its dialog is shown or will
\* be.  Only an activity recreated under the dialog breaks it, and then every
\* later restore is refused as well.
PendingCanBeAnswered == pending # None => dialog = pending \/ prompted # pending \/ torn

\* A report about a running command is refused only for a recording: its
\* missing permission is reported as a photo's, and one shorter than a minute
\* does not fit; every other report that finds its command running ends it.
OnlyRecordingsAreRefused == \A c \in refused : cmd[c].kind = "record_audio"

\* Every command ends, though its answer, its result or the phone's process
\* is lost and though the user never answers: by its expiry at the latest.
CommandsEnd == \A c \in Commands : Exists(c) ~> Exists(c) /\ cmd[c].status \in Ended

-----------------------------------------------------------------------------
(* The promise of CommandPromise, and how its state is read off this one. *)

Stage(c) ==
    IF ~Exists(c) THEN "none"
    ELSE IF cmd[c].status = "queued" THEN IF cmd[c].left > 0 THEN "waiting" ELSE "missed"
    ELSE IF cmd[c].status = "running" THEN IF cmd[c].left > 0 THEN "given" ELSE "late"
    ELSE cmd[c].status

stages == [c \in Commands |-> Stage(c)]
locations == {c \in Commands : Exists(c) /\ cmd[c].kind = "get_location"}

Promise == INSTANCE CommandPromise WITH
               stage <- stages, plain <- locations, consent <- confirmed,
               evidence <- files, crowded <- overlapped

\* The bridge keeps its promise: each command is asked for alone, given once, in
\* time and in order, ends once, and succeeds only if the phone was given it and
\* its user agreed, whatever is lost and however late the answers are.
KeepsPromise == Promise!Spec
=============================================================================
