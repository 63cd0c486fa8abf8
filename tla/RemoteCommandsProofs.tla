------------------------ MODULE RemoteCommandsProofs ------------------------
(***************************************************************************)
(* Proofs about RemoteCommands: for any number of commands and of requests  *)
(* of the panel, and any number of faults.                                  *)
(***************************************************************************)
EXTENDS RemoteCommands, TLAPS

USE CommandsAssumption, NoneAssumption, BoundsAssumption DEF Commands

\* What an UPDATE of a status does to the table.
SetStatus(c, s) == [cmd EXCEPT ![c].status = s]
LEMMA CmdSet ==
    ASSUME TypeOK, NEW c \in Commands, Exists(c), NEW s \in Statuses
    PROVE  /\ SetStatus(c, s) \in [Commands -> Rows \cup {None}]
           /\ SetStatus(c, s)[c] # None /\ SetStatus(c, s)[c].kind = cmd[c].kind
           /\ SetStatus(c, s)[c].status = s /\ SetStatus(c, s)[c].left = cmd[c].left
           /\ \A d \in Commands : d # c => SetStatus(c, s)[d] = cmd[d]
  <1>1. cmd[c] \in Rows
    BY DEF TypeOK, Exists
  <1>2. SetStatus(c, s) = [cmd EXCEPT ![c] = [cmd[c] EXCEPT !.status = s]]
    BY DEF SetStatus
  <1> DEFINE row == [cmd[c] EXCEPT !.status = s]
  <1>3. row \in Rows /\ row.kind = cmd[c].kind /\ row.status = s /\ row.left = cmd[c].left
    BY <1>1 DEF Rows
  <1> HIDE DEF row
  <1>4. SetStatus(c, s) = [cmd EXCEPT ![c] = row]
    BY <1>2 DEF row
  <1> QED
    BY <1>3, <1>4 DEF TypeOK

-----------------------------------------------------------------------------
(* The type invariant, action by action. *)

\* How a step changes one row: not at all, by its insert, by its age, or by a
\* change of status that was not final and makes nothing active again.
RowStep(c) ==
    \/ cmd'[c] = cmd[c]
    \/ ~Exists(c) /\ cmd'[c].status = "queued" /\ \E a \in Admins : InsertCommand(a)
    \/ /\ Exists(c) /\ Exists(c)' /\ cmd'[c].kind = cmd[c].kind
       /\ cmd'[c].status # cmd[c].status => cmd[c].status \in {"queued", "running"}
       /\ Active(c)' => Active(c)
RowsStep == /\ cmd' \in [Commands -> Rows \cup {None}]
            /\ \A c \in Commands : RowStep(c) /\ (Exists(c) => Exists(c)')

\* A step that leaves the rows alone.
LEMMA RowsSame == ASSUME TypeOK, UNCHANGED cmd PROVE RowsStep
  BY DEF TypeOK, RowsStep, RowStep, Exists

\* A step that changes the status of a row that has not ended, to one that is
\* not active unless it was before.
LEMMA RowsSet ==
    ASSUME TypeOK, NEW c \in Commands, Exists(c), cmd[c].status \in {"queued", "running"},
           NEW s \in Statuses, s \in {"queued", "running"} => Active(c),
           cmd' = SetStatus(c, s)
    PROVE  RowsStep
  <1>1. /\ cmd' \in [Commands -> Rows \cup {None}]
        /\ cmd'[c] # None /\ cmd'[c].kind = cmd[c].kind /\ cmd'[c].status = s
        /\ cmd'[c].left = cmd[c].left
        /\ \A d \in Commands : d # c => cmd'[d] = cmd[d]
    BY CmdSet
  <1>2. Active(c)' => Active(c)
    BY <1>1 DEF Active
  <1> QED
    BY <1>1, <1>2 DEF RowsStep, RowStep, Exists

LEMMA RowsInsert == ASSUME TypeOK, NEW a \in Admins, InsertCommand(a) PROVE RowsStep
  <1>1. PICK c \in Commands :
           /\ ~Exists(c)
           /\ cmd' = [cmd EXCEPT ![c] = [kind |-> admin[a], status |-> "queued",
                                        left |-> Ttl(admin[a])]]
    BY DEF InsertCommand
  <1>2. admin[a] \in Kinds
    BY DEF InsertCommand, TypeOK
  <1>3. [kind |-> admin[a], status |-> "queued", left |-> Ttl(admin[a])] \in Rows
    BY <1>2 DEF Rows, Statuses, Ttl
  <1>4. cmd' \in [Commands -> Rows \cup {None}] /\ cmd'[c] # None /\ cmd'[c].status = "queued"
          /\ \A d \in Commands : d # c => cmd'[d] = cmd[d]
    BY <1>1, <1>3 DEF TypeOK
  <1> QED
    BY <1>1, <1>4 DEF RowsStep, RowStep, Exists

LEMMA RowsTick == ASSUME TypeOK, Tick PROVE RowsStep
  <1>1. cmd' = [c \in Commands |-> Elapsed(c)]
    BY DEF Tick
  <1> SUFFICES ASSUME NEW c \in Commands
               PROVE  cmd'[c] \in Rows \cup {None} /\ RowStep(c) /\ (Exists(c) => Exists(c)')
    BY <1>1 DEF RowsStep
  <1>2. CASE Exists(c) /\ cmd[c].left > 0
    <2>1. cmd[c] \in Rows /\ cmd'[c] = [cmd[c] EXCEPT !.left = @ - 1]
      BY <1>1, <1>2 DEF Elapsed, Exists, TypeOK
    <2>2. cmd'[c] \in Rows /\ cmd'[c].kind = cmd[c].kind /\ cmd'[c].status = cmd[c].status
      BY <2>1, <1>2 DEF Rows
    <2>3. Exists(c)' /\ (Active(c)' => Active(c))
      BY <1>2, <2>2 DEF Exists, Active
    <2> QED
      BY <1>2, <2>2, <2>3 DEF RowStep
  <1>3. CASE ~(Exists(c) /\ cmd[c].left > 0)
    <2>1. cmd'[c] = cmd[c]
      BY <1>1, <1>3 DEF Elapsed
    <2> QED
      BY <2>1 DEF RowStep, Exists, TypeOK
  <1> QED
    BY <1>2, <1>3

LEMMA RowsExpire == ASSUME TypeOK, PollExpire PROVE RowsStep
  <1>1. cmd' = [c \in Commands |-> IF Overdue(c) THEN [cmd[c] EXCEPT !.status = "expired"]
                                   ELSE cmd[c]]
    BY DEF PollExpire
  <1> SUFFICES ASSUME NEW c \in Commands
               PROVE  cmd'[c] \in Rows \cup {None} /\ RowStep(c) /\ (Exists(c) => Exists(c)')
    BY <1>1 DEF RowsStep
  <1>2. CASE Overdue(c)
    <2>1. cmd[c] \in Rows /\ cmd'[c] = [cmd[c] EXCEPT !.status = "expired"]
      BY <1>1, <1>2 DEF Overdue, Exists, TypeOK
    <2>2. cmd'[c] \in Rows /\ cmd'[c].kind = cmd[c].kind /\ cmd'[c].status = "expired"
      BY <2>1 DEF Rows, Statuses
    <2>3. Exists(c)' /\ ~Active(c)'
      BY <2>2 DEF Exists, Active
    <2> QED
      BY <1>2, <2>2, <2>3 DEF RowStep, Overdue
  <1>3. CASE ~Overdue(c)
    <2>1. cmd'[c] = cmd[c]
      BY <1>1, <1>3
    <2> QED
      BY <2>1 DEF RowStep, Exists, TypeOK
  <1> QED
    BY <1>2, <1>3

LEMMA RowsClaim == ASSUME TypeOK, PollClaim PROVE RowsStep
  <1>1. CASE UNCHANGED cmd
    BY <1>1, RowsSame
  <1>2. CASE \E c \in Commands : Claimable(c) /\ cmd' = SetStatus(c, "running")
    <2>1. PICK c \in Commands : Claimable(c) /\ cmd' = SetStatus(c, "running")
      BY <1>2
    <2>2. Exists(c) /\ Active(c) /\ cmd[c].status = "queued"
      BY <2>1 DEF Claimable, Active
    <2>3. "running" \in Statuses
      BY DEF Statuses
    <2> QED
      BY <2>1, <2>2, <2>3, RowsSet
  <1> QED
    BY <1>1, <1>2 DEF PollClaim, SetStatus

LEMMA RowsRunning ==
    ASSUME TypeOK, NEW c \in Commands, NEW s \in Ended, cmd' = SetIfRunning(c, s)
    PROVE  RowsStep
  <1>1. CASE Exists(c) /\ cmd[c].status = "running"
    <2>1. cmd' = SetStatus(c, s) /\ s \in Statuses /\ s \notin {"queued", "running"}
      BY <1>1 DEF SetIfRunning, SetStatus, Statuses, Ended
    <2> QED
      BY <1>1, <2>1, RowsSet
  <1>2. CASE ~(Exists(c) /\ cmd[c].status = "running")
    BY <1>2, RowsSame DEF SetIfRunning
  <1> QED
    BY <1>1, <1>2

LEMMA RowsDisallowed == ASSUME TypeOK, PollDisallowed PROVE RowsStep
  <1>1. poll.c \in Commands /\ cmd' = SetIfRunning(poll.c, "failed")
    BY DEF PollDisallowed, TypeOK
  <1> QED
    BY <1>1, RowsRunning DEF Ended

LEMMA RowsDeliver == ASSUME TypeOK, NEW r \in report, DeliverReport(r) PROVE RowsStep
  <1>1. r.c \in Commands /\ r.ok \in BOOLEAN /\ cmd' = CmdAfter(r)
    BY DEF TypeOK, Reports, DeliverReport
  <1>2. CASE r.kind = "restore_data"
    BY <1>1, <1>2, RowsRunning DEF CmdAfter, DataStatus, Ended
  <1>3. CASE r.kind # "restore_data" /\ ~ResultAccepted(r)
    BY <1>1, <1>3, RowsSame DEF CmdAfter
  <1>4. CASE r.kind # "restore_data" /\ ResultAccepted(r)
    <2>1. Exists(r.c) /\ cmd[r.c].status = "running"
      BY <1>4 DEF ResultAccepted
    <2>2. PICK s \in Ended : cmd' = SetStatus(r.c, s)
      BY <1>1, <1>4 DEF CmdAfter, SetStatus, Ended
    <2>3. s \in Statuses /\ s \notin {"queued", "running"}
      BY DEF Statuses, Ended
    <2> QED
      BY <1>1, <2>1, <2>2, <2>3, RowsSet
  <1> QED
    BY <1>2, <1>3, <1>4

\* The actions that change rows.
LEMMA CmdFrame ==
    ASSUME [Next]_vars
    PROVE  \/ UNCHANGED cmd \/ Tick \/ PollExpire \/ PollClaim \/ PollDisallowed
           \/ (\E a \in Admins : InsertCommand(a)) \/ \E r \in report : DeliverReport(r)
  <1>1. Panel => (\E a \in Admins : InsertCommand(a)) \/ UNCHANGED cmd
    BY DEF Panel, CheckCommand, SetPolicy, serverVars
  <1>2. Poll \/ Handle => PollExpire \/ PollClaim \/ PollDisallowed \/ UNCHANGED cmd
    BY DEF Poll, Handle, PollBegin, PollLost, HandleGetLocation, HandleTakePhoto,
           HandleRecordAudio, PrepareRestoreApproval, Answered, serverVars
  <1>3. PhoneWork => (\E r \in report : DeliverReport(r)) \/ UNCHANGED cmd
    BY DEF PhoneWork, LocationArrives, LocationTimeout, Confirm, Leave, Upload, SendResult,
           LoseReport, serverVars
  <1>4. Restore \/ Service => UNCHANGED cmd
    BY DEF Restore, Prompt, CancelDialog, AnswerRestore, TearDown, Service, StopRemote,
           KillProcess, StartRemote, serverVars
  <1> QED
    BY <1>1, <1>2, <1>3, <1>4 DEF Next, vars, serverVars

\* Every step changes the rows so.
LEMMA RowsNext == ASSUME TypeOK, [Next]_vars PROVE RowsStep
  BY CmdFrame, RowsSame, RowsTick, RowsExpire, RowsClaim, RowsDisallowed, RowsInsert, RowsDeliver

\* The type invariant in parts: the rows, which RowsNext keeps, and these.
PollOK ==
    /\ poll \in [at : {"idle", "read", "expired", "claimed"}, seen : SUBSET Kinds,
                 c : Commands \cup {None}]
    /\ poll.at = "claimed" => poll.c \in Commands /\ Exists(poll.c)
WorkOK ==
    /\ work \in [Commands -> {"none", "notified", "working", "uploaded", "done"}]
    /\ taken \in [Commands -> 0..1]
    /\ \A c \in Commands : work[c] # "none" => Exists(c)
LocationOK == /\ located \in Commands \cup {None} /\ callbacks \subseteq Commands
              /\ \A c \in callbacks \cup {located} : c # None => Exists(c)
ReportsOK == report \subseteq Reports /\ \A r \in report : Exists(r.c)
PlainOK ==
    /\ files \subseteq Commands /\ allowed \subseteq Kinds
    /\ admin \in [Admins -> Kinds \cup {None}]
    /\ remoteOn \in BOOLEAN /\ polling \in BOOLEAN
    /\ pending \in Commands \cup {None} /\ prompted \in Commands \cup {None}
    /\ dialog \in Commands \cup {None}
    /\ faults \in 0..MaxFaults /\ changes \in 0..MaxChanges
    /\ overlapped \in BOOLEAN /\ torn \in BOOLEAN
    /\ confirmed \subseteq Commands /\ refused \subseteq Commands
TypeInv == /\ cmd \in [Commands -> Rows \cup {None}]
           /\ PollOK /\ WorkOK /\ LocationOK /\ ReportsOK /\ PlainOK

LEMMA TypeSplit == TypeOK <=> TypeInv
  <1>1. TypeOK => TypeInv
    BY DEF TypeOK, TypeInv, PollOK, WorkOK, LocationOK, ReportsOK, PlainOK
  <1>2. TypeInv => TypeOK
    BY DEF TypeOK, TypeInv, PollOK, WorkOK, LocationOK, ReportsOK, PlainOK
  <1> QED
    BY <1>1, <1>2

LEMMA InitType == Init => TypeInv
  <1> SUFFICES ASSUME Init PROVE TypeInv
    OBVIOUS
  <1>1. PollOK
    <2>1. poll = [at |-> "idle", seen |-> {}, c |-> None]
      BY DEF Init, Idle
    <2> QED
      BY <2>1 DEF PollOK
  <1>2. cmd \in [Commands -> Rows \cup {None}] /\ WorkOK
    BY DEF Init, WorkOK
  <1>3. LocationOK /\ ReportsOK
    BY DEF Init, LocationOK, ReportsOK
  <1>4. PlainOK
    <2>1. admin \in [Admins -> Kinds \cup {None}] /\ allowed \subseteq Kinds
      BY DEF Init
    <2>2. faults \in 0..MaxFaults /\ changes \in 0..MaxChanges
      BY DEF Init
    <2> QED
      BY <2>1, <2>2 DEF Init, PlainOK
  <1> QED
    BY <1>1, <1>2, <1>3, <1>4 DEF TypeInv

\* Which actions leave which part alone.
LEMMA Frames ==
    /\ Panel \/ Tick \/ PhoneWork \/ Restore \/ StopRemote \/ StartRemote => UNCHANGED poll
    /\ Panel \/ Poll \/ Restore \/ StopRemote \/ StartRemote => UNCHANGED <<work, taken>>
    /\ Panel \/ Tick \/ Poll \/ Restore => UNCHANGED <<located, callbacks>>
    /\ Panel \/ Tick \/ Poll \/ Restore \/ StopRemote \/ StartRemote => UNCHANGED report
  <1> USE DEF serverVars, phoneVars, restoreVars, history
  <1>1. Panel \/ Tick => UNCHANGED <<poll, located, callbacks, report>>
    BY DEF Panel, CheckCommand, InsertCommand, SetPolicy, Tick
  <1>2. Panel => UNCHANGED <<work, taken>>
    BY DEF Panel, CheckCommand, InsertCommand, SetPolicy
  <1>3. Poll => UNCHANGED <<work, taken, located, callbacks, report>>
    BY DEF Poll, PollBegin, PollExpire, PollClaim, PollDisallowed, PollLost
  <1>4. PhoneWork => UNCHANGED poll
    BY DEF PhoneWork, LocationArrives, LocationTimeout, Confirm, Leave, Upload, SendResult,
           DeliverReport, LoseReport
  <1>5. Restore => UNCHANGED <<poll, work, taken, located, callbacks, report>>
    BY DEF Restore, Prompt, CancelDialog, AnswerRestore, TearDown
  <1>6. StopRemote \/ StartRemote => UNCHANGED <<poll, work, taken, report>>
    BY DEF StopRemote, StartRemote
  <1> QED
    BY <1>1, <1>2, <1>3, <1>4, <1>5, <1>6

LEMMA HandleAnswered ==
    ASSUME PollOK, Handle
    PROVE  /\ poll.c \in Commands /\ Exists(poll.c) /\ poll' = Idle
           /\ cmd' = cmd /\ UNCHANGED <<taken, admin>>
  BY DEF PollOK, Handle, HandleGetLocation, HandleTakePhoto, HandleRecordAudio,
         PrepareRestoreApproval, Answered, serverVars

\* A command that exists goes on existing.
LEMMA ExistsOn == ASSUME TypeOK, [Next]_vars, NEW c \in Commands, Exists(c) PROVE Exists(c)'
  BY RowsNext DEF RowsStep

LEMMA IdleOK == poll' = Idle => PollOK'
  BY DEF PollOK, Idle

LEMMA PollNext == ASSUME TypeOK, PollOK, PlainOK, [Next]_vars PROVE PollOK'
  <1>1. CASE UNCHANGED poll
    BY <1>1, ExistsOn DEF PollOK
  <1>2. CASE poll' = Idle
    BY <1>2, IdleOK
  <1>3. CASE PollBegin
    BY <1>3 DEF PollOK, PlainOK, PollBegin, Idle
  <1>4. CASE PollExpire
    BY <1>4 DEF PollOK, PollExpire
  <1>5. CASE PollClaim /\ poll' # Idle
    <2>1. PICK c \in Commands : Claimable(c) /\ poll' = [poll EXCEPT !.at = "claimed", !.c = c]
      BY <1>5 DEF PollClaim
    <2>2. Exists(c)'
      BY <2>1, ExistsOn DEF Claimable
    <2> QED
      BY <2>1, <2>2 DEF PollOK
  <1>6. PollDisallowed \/ PollLost \/ KillProcess => poll' = Idle
    BY DEF PollDisallowed, PollLost, KillProcess
  <1> QED
    BY <1>1, <1>2, <1>3, <1>4, <1>5, <1>6, Frames, HandleAnswered
    DEF Next, Poll, Service, vars

\* The kind of a command the phone works on.
LEMMA KindOf == ASSUME TypeInv, NEW c \in Commands, Exists(c) PROVE cmd[c].kind \in Kinds
  BY DEF TypeInv, Exists, Rows

\* work' and taken' change at one command, which exists.
WorkStep == \E c \in Commands : \E s \in {"notified", "working", "uploaded", "done"} :
               /\ Exists(c) /\ (work' = work \/ work' = [work EXCEPT ![c] = s])
               /\ taken' = taken \/ taken' = [taken EXCEPT ![c] = 0]
LEMMA WorkStepOK == ASSUME TypeOK, WorkOK, [Next]_vars, WorkStep PROVE WorkOK'
  <1>1. PICK c \in Commands, s \in {"notified", "working", "uploaded", "done"} :
               /\ Exists(c) /\ (work' = work \/ work' = [work EXCEPT ![c] = s])
               /\ taken' = taken \/ taken' = [taken EXCEPT ![c] = 0]
    BY DEF WorkStep
  <1>2. taken' \in [Commands -> 0..1]
    BY <1>1 DEF WorkOK
  <1>3. work' \in [Commands -> {"none", "notified", "working", "uploaded", "done"}]
    BY <1>1 DEF WorkOK
  <1>4. \A d \in Commands : work'[d] # "none" => Exists(d)
    BY <1>1 DEF WorkOK
  <1> QED
    BY <1>2, <1>3, <1>4, ExistsOn DEF WorkOK

LEMMA WorkNext == ASSUME TypeOK, TypeInv, [Next]_vars PROVE WorkOK'
  <1>0. PollOK /\ WorkOK /\ ReportsOK
    BY DEF TypeInv
  <1>1. CASE UNCHANGED <<work, taken>>
    BY <1>0, <1>1, ExistsOn DEF WorkOK
  <1>2. CASE Tick
    BY <1>0, <1>2, ExistsOn DEF WorkOK, Tick
  <1>3. CASE Handle
    <2>1. WorkStep
      BY <1>0, <1>3, HandleAnswered DEF WorkStep, Handle, HandleGetLocation, HandleTakePhoto,
            HandleRecordAudio, PrepareRestoreApproval, Notify
    <2> QED
      BY <1>0, <2>1, WorkStepOK
  <1>4. ASSUME NEW c \in Commands, Confirm(c) \/ Leave(c) \/ Upload(c) \/ SendResult(c)
        PROVE  WorkOK'
    <2>1. Exists(c)
      BY <1>0, <1>4 DEF WorkOK, Confirm, Leave, Upload, SendResult
    <2>2. WorkStep
      BY <1>4, <2>1 DEF WorkStep, Confirm, Leave, Upload, SendResult
    <2> QED
      BY <1>0, <2>2, WorkStepOK
  <1>5. ASSUME NEW r \in report, DeliverReport(r) PROVE WorkOK'
    <2>1. r.c \in Commands /\ Exists(r.c)
      BY <1>0 DEF ReportsOK, Reports
    <2>2. WorkStep
      BY <1>5, <2>1 DEF WorkStep, DeliverReport, Closed
    <2> QED
      BY <1>0, <2>2, WorkStepOK
  <1>6. CASE KillProcess
    <2>1. /\ work' = [c \in Commands |-> IF work[c] \in {"working", "uploaded"} THEN "notified"
                                         ELSE work[c]]
          /\ taken' = taken
      BY <1>6 DEF KillProcess
    <2> QED
      BY <1>0, <2>1, ExistsOn DEF WorkOK
  <1>7. PhoneWork => \/ UNCHANGED <<work, taken>>
                     \/ \E c \in Commands : Confirm(c) \/ Leave(c) \/ Upload(c) \/ SendResult(c)
                     \/ \E r \in report : DeliverReport(r)
    BY DEF PhoneWork, LocationArrives, LocationTimeout, LoseReport, phoneVars
  <1> QED
    BY <1>1, <1>2, <1>3, <1>4, <1>5, <1>6, <1>7, Frames DEF Next, Service, vars, phoneVars

LEMMA LocationNext == ASSUME TypeOK, PollOK, LocationOK, [Next]_vars PROVE LocationOK'
  <1>1. CASE UNCHANGED <<located, callbacks>>
    BY <1>1, ExistsOn DEF LocationOK
  <1>2. CASE Handle
    <2>1. /\ located' \in {located, poll.c} /\ callbacks' \subseteq callbacks \cup {poll.c}
          /\ poll.c \in Commands /\ Exists(poll.c)
      BY <1>2, HandleAnswered DEF Handle, HandleGetLocation, HandleTakePhoto,
            HandleRecordAudio, PrepareRestoreApproval
    <2> QED
      BY <2>1, ExistsOn DEF LocationOK
  <1>3. CASE PhoneWork
    <2>1. located' \in {located, None} /\ callbacks' \subseteq callbacks
      BY <1>3 DEF PhoneWork, LocationArrives, LocationTimeout, Confirm, Leave, Upload, SendResult,
           DeliverReport, LoseReport, phoneVars
    <2> QED
      BY <2>1, ExistsOn DEF LocationOK
  <1>4. CASE Service
    <2>1. located' \in {located, None} /\ callbacks' \subseteq callbacks
      BY <1>4 DEF Service, StopRemote, KillProcess, StartRemote
    <2> QED
      BY <2>1, ExistsOn DEF LocationOK
  <1> QED
    BY <1>1, <1>2, <1>3, <1>4, Frames DEF Next, vars, phoneVars

\* A step sends at most one report, about a command that exists.
LEMMA ReportStepOK ==
    ASSUME TypeOK, ReportsOK, [Next]_vars, NEW c \in Commands, Exists(c), NEW k \in Kinds,
           NEW ok \in BOOLEAN, NEW fits \in BOOLEAN,
           report' \subseteq report \cup {[c |-> c, kind |-> k, ok |-> ok, fits |-> fits]}
    PROVE  ReportsOK'
  <1>1. [c |-> c, kind |-> k, ok |-> ok, fits |-> fits] \in Reports
    BY DEF Reports
  <1>2. report' \subseteq Reports
    BY <1>1 DEF ReportsOK
  <1>3. \A r \in report' : r.c \in Commands /\ Exists(r.c)
    BY DEF ReportsOK, Reports
  <1> QED
    BY <1>2, <1>3, ExistsOn DEF ReportsOK

\* The reports of each action.
LEMMA ReportsNext == ASSUME TypeOK, TypeInv, [Next]_vars PROVE ReportsOK'
  <1>0. PollOK /\ WorkOK /\ LocationOK /\ ReportsOK /\ \A c \in Commands : Exists(c) => cmd[c].kind \in Kinds
    BY KindOf DEF TypeInv
  <1>00. /\ {"get_location", "take_photo", "restore_data"} \subseteq Kinds
         /\ FALSE \in BOOLEAN /\ TRUE \in BOOLEAN
    BY DEF Kinds
  <1>1. CASE report' \subseteq report
    BY <1>0, <1>1, ExistsOn DEF ReportsOK, Reports
  <1>2. CASE Handle
    <2>1. poll.c \in Commands /\ Exists(poll.c)
      BY <1>0, <1>2, HandleAnswered
    <2>2. \/ report' \subseteq report
          \/ \E k \in {"get_location", "take_photo", "restore_data"} :
                report' = report \cup {Failure(poll.c, k)}
      BY <1>2 DEF Handle, HandleGetLocation, HandleTakePhoto, HandleRecordAudio,
            PrepareRestoreApproval
    <2>3. ASSUME NEW k \in {"get_location", "take_photo", "restore_data"},
                 report' = report \cup {Failure(poll.c, k)}
          PROVE  ReportsOK'
      BY <1>0, <1>00, <2>1, <2>3, ReportStepOK DEF Failure
    <2> QED
      BY <1>1, <2>2, <2>3
  <1>3. ASSUME NEW c \in Commands, LocationArrives(c) PROVE ReportsOK'
    <2>1. c \in callbacks /\ Exists(c)
      BY <1>0, <1>3 DEF LocationArrives, LocationOK
    <2>2. PICK ok \in BOOLEAN :
             report' = report \cup {[c |-> c, kind |-> "get_location", ok |-> ok, fits |-> TRUE]}
      BY <1>3 DEF LocationArrives
    <2> QED
      BY <1>0, <1>00, <2>1, <2>2, ReportStepOK
  <1>4. CASE LocationTimeout
    <2>1. /\ located \in Commands /\ Exists(located)
          /\ report' = report \cup {Failure(located, "get_location")}
      BY <1>0, <1>4 DEF LocationTimeout, LocationOK
    <2> QED
      BY <1>0, <1>00, <2>1, ReportStepOK DEF Failure
  <1>5. ASSUME NEW c \in Commands, Leave(c) \/ Upload(c) PROVE ReportsOK'
    <2>1. Exists(c)
      BY <1>0, <1>5 DEF WorkOK, Leave, Upload
    <2>2. \/ report' = report
          \/ \E k \in {"take_photo", cmd[c].kind} : report' = report \cup {Failure(c, k)}
      BY <1>5 DEF Leave, Upload
    <2>3. ASSUME NEW k \in Kinds, report' = report \cup {Failure(c, k)} PROVE ReportsOK'
      BY <1>0, <1>00, <2>1, <2>3, ReportStepOK DEF Failure
    <2> QED
      BY <1>0, <1>00, <1>1, <2>1, <2>2, <2>3
  <1>6. ASSUME NEW c \in Commands, SendResult(c) PROVE ReportsOK'
    <2>1. Exists(c)
      BY <1>0, <1>6 DEF WorkOK, SendResult
    <2>2. PICK fits \in BOOLEAN :
             report' = report \cup {[c |-> c, kind |-> cmd[c].kind, ok |-> TRUE, fits |-> fits]}
      BY <1>6 DEF SendResult
    <2> QED
      BY <1>0, <1>00, <2>1, <2>2, ReportStepOK
  <1>7. PhoneWork => \/ report' \subseteq report \/ LocationTimeout
                     \/ \E c \in Commands : LocationArrives(c) \/ Leave(c) \/ Upload(c) \/ SendResult(c)
    BY DEF PhoneWork, Confirm, DeliverReport, LoseReport
  <1>8. KillProcess => report' \subseteq report
    BY DEF KillProcess
  <1> QED
    BY <1>1, <1>2, <1>3, <1>4, <1>5, <1>6, <1>7, <1>8, Frames DEF Next, Service, vars

LEMMA PlainNext == ASSUME TypeInv, [Next]_vars PROVE PlainOK'
  <1>0. PlainOK /\ PollOK /\ ReportsOK
    BY DEF TypeInv
  <1> USE DEF serverVars, phoneVars, restoreVars, history
  <1>1. ASSUME NEW a \in Admins, NEW kind \in Kinds, CheckCommand(a, kind) PROVE PlainOK'
    BY <1>0, <1>1 DEF CheckCommand, PlainOK
  <1>2. ASSUME NEW a \in Admins, InsertCommand(a) PROVE PlainOK'
    BY <1>0, <1>2 DEF InsertCommand, PlainOK
  <1>3. ASSUME NEW kind \in Kinds, SetPolicy(kind) PROVE PlainOK'
    BY <1>0, <1>3 DEF SetPolicy, PlainOK
  <1>4. CASE Tick \/ PollBegin \/ PollExpire \/ PollClaim \/ PollDisallowed
    BY <1>0, <1>4 DEF Tick, PollBegin, PollExpire, PollClaim, PollDisallowed, PlainOK
  <1>5. CASE PollLost
    BY <1>0, <1>5 DEF PollLost, PlainOK
  <1>6. CASE Handle
    <2>1. /\ UNCHANGED <<files, allowed, admin, remoteOn, polling, dialog, torn, faults, changes,
                         history>>
          /\ pending' \in {pending, poll.c} /\ prompted' \in {prompted, None}
          /\ poll.c \in Commands
      BY <1>0, <1>6, HandleAnswered DEF Handle, HandleGetLocation, HandleTakePhoto,
            HandleRecordAudio, PrepareRestoreApproval, Answered
    <2> QED
      BY <1>0, <2>1 DEF PlainOK
  <1>7. CASE PhoneWork
    <2>1. /\ UNCHANGED <<allowed, admin, remoteOn, polling, pending, prompted, dialog, torn,
                         changes, overlapped>>
      BY <1>7 DEF PhoneWork, LocationArrives, LocationTimeout, Confirm, Leave, Upload, SendResult,
           DeliverReport, LoseReport
    <2>2. /\ faults' = faults \/ (faults < MaxFaults /\ faults' = faults + 1)
          /\ files' \subseteq files \cup Commands /\ confirmed' \subseteq confirmed \cup Commands
      BY <1>7 DEF PhoneWork, LocationArrives, LocationTimeout, Confirm, Leave, Upload, SendResult,
           DeliverReport, LoseReport
    <2>3. \A r \in report : r.c \in Commands
      BY <1>0 DEF ReportsOK, Reports
    <2>4. refused' \subseteq refused \cup Commands
      BY <1>7, <2>3 DEF PhoneWork, LocationArrives, LocationTimeout, Confirm, Leave, Upload,
           SendResult, DeliverReport, LoseReport
    <2> QED
      BY <1>0, <2>1, <2>2, <2>4 DEF PlainOK
  <1>8. CASE Restore \/ Service
    <2>1. /\ UNCHANGED <<files, allowed, admin, changes, history>>
          /\ faults' = faults \/ (faults < MaxFaults /\ faults' = faults + 1)
      BY <1>8 DEF Restore, Prompt, CancelDialog, AnswerRestore, TearDown, Service, StopRemote,
           KillProcess, StartRemote
    <2>2. /\ pending' \in {pending, None} /\ prompted' \in {prompted, pending, None}
          /\ dialog' \in {dialog, pending, None}
      BY <1>8 DEF Restore, Prompt, CancelDialog, AnswerRestore, TearDown, Service, StopRemote,
           KillProcess, StartRemote
    <2>3. torn' \in BOOLEAN /\ remoteOn' \in BOOLEAN /\ polling' \in BOOLEAN
      BY <1>0, <1>8 DEF Restore, Prompt, CancelDialog, AnswerRestore, TearDown, Service, StopRemote,
           KillProcess, StartRemote, PlainOK
    <2> QED
      BY <1>0, <2>1, <2>2, <2>3 DEF PlainOK
  <1>9. CASE UNCHANGED vars
    BY <1>0, <1>9 DEF vars, PlainOK
  <1> QED
    BY <1>1, <1>2, <1>3, <1>4, <1>5, <1>6, <1>7, <1>8, <1>9 DEF Next, Panel, Poll

LEMMA TypeNext == ASSUME TypeOK, [Next]_vars PROVE TypeOK'
  <1>1. TypeInv
    BY TypeSplit
  <1>2. PollOK' /\ WorkOK' /\ LocationOK' /\ ReportsOK' /\ PlainOK'
    BY <1>1, PollNext, WorkNext, LocationNext, ReportsNext, PlainNext DEF TypeInv
  <1>3. cmd' \in [Commands -> Rows \cup {None}]
    BY RowsNext DEF RowsStep
  <1>4. TypeInv'
    BY <1>2, <1>3 DEF TypeInv
  <1> QED
    BY <1>4, TypeSplit, PTL

\* The type invariant holds in every reachable state.
THEOREM TypeCorrect == Spec => []TypeOK
  <1>1. Init => TypeOK
    BY InitType, TypeSplit
  <1>2. TypeOK /\ [Next]_vars => TypeOK'
    BY TypeNext
  <1> QED
    BY <1>1, <1>2, PTL DEF Spec

\* What has ended stays as it ended, whatever a poll, a late report, another
\* report of the same command or an expiry does afterwards.
THEOREM EndsAreFinal == Spec => FinishedIsFinal
  <1>1. ASSUME TypeOK, [Next]_vars, NEW c \in Commands PROVE Final(c)
    <2>1. RowsStep
      BY <1>1, RowsNext
    <2> QED
      BY <2>1 DEF RowsStep, RowStep, Final, Ended
  <1>2. TypeOK /\ [Next]_vars => [\A c \in Commands : Final(c)]_vars
    BY <1>1
  <1> QED
    BY <1>2, TypeCorrect, PTL DEF Spec, FinishedIsFinal

-----------------------------------------------------------------------------
(* One active command.  Unless two creations overlapped, one request at most *)
(* is between its check and its insert, and while it is nothing is active.   *)

Serial == ~overlapped => /\ \A a, b \in Admins : admin[a] # None /\ admin[b] # None => a = b
                         /\ \A a \in Admins : admin[a] # None => NoneActive
SerialInv == Serial /\ OneActive

LEMMA SerialNext == ASSUME TypeOK, SerialInv, [Next]_vars PROVE SerialInv'
  <1>0. admin \in [Admins -> Kinds \cup {None}] /\ overlapped \in BOOLEAN
    BY DEF TypeOK
  <1>1. ASSUME NEW a \in Admins, InsertCommand(a) PROVE SerialInv'
    <2>1. PICK c \in Commands : \A d \in Commands : d # c => cmd'[d] = cmd[d]
      BY <1>1 DEF InsertCommand, TypeOK
    <2>2. overlapped' = overlapped /\ admin[a] # None /\ admin' = [admin EXCEPT ![a] = None]
      BY <1>1 DEF InsertCommand, history
    <2>3. ASSUME ~overlapped PROVE Serial' /\ OneActive'
      <3>1. \A d \in Commands : d # c => ~Active(d)'
        BY <2>1, <2>2, <2>3 DEF SerialInv, Serial, NoneActive, Active, Exists
      <3>2. \A b \in Admins : admin'[b] = None
        BY <1>0, <2>2, <2>3 DEF SerialInv, Serial
      <3> QED
        BY <3>1, <3>2 DEF Serial, OneActive
    <2> QED
      BY <2>2, <2>3 DEF SerialInv, Serial, OneActive
  <1>2. ASSUME ~\E a \in Admins : InsertCommand(a) PROVE SerialInv'
    <2>1. \A c \in Commands : Active(c)' => Active(c)
      BY <1>2, RowsNext DEF RowsStep, RowStep, Active, Exists
    <2>2. CASE UNCHANGED <<admin, overlapped>>
      BY <2>1, <2>2 DEF SerialInv, Serial, OneActive, NoneActive
    <2>3. ASSUME NEW a \in Admins, NEW kind \in Kinds, CheckCommand(a, kind) PROVE SerialInv'
      <3>1. /\ admin' = [admin EXCEPT ![a] = kind] /\ NoneActive
            /\ overlapped' = (overlapped \/ \E b \in Admins : admin[b] # None)
        BY <2>3 DEF CheckCommand
      <3>2. ASSUME ~overlapped' PROVE \A b \in Admins : b # a => admin'[b] = None
        BY <1>0, <3>1, <3>2
      <3>3. NoneActive'
        BY <2>1, <3>1 DEF NoneActive
      <3> QED
        BY <3>2, <3>3 DEF SerialInv, Serial, OneActive, NoneActive
    <2>4. Panel => UNCHANGED <<admin, overlapped>>
                   \/ \E a \in Admins, kind \in Kinds : CheckCommand(a, kind)
      BY <1>2 DEF Panel, SetPolicy, history
    <2>5. Tick \/ Poll \/ Handle => UNCHANGED <<admin, overlapped>>
      BY DEF Tick, Poll, PollBegin, PollExpire, PollClaim, PollDisallowed, PollLost, Handle,
             HandleGetLocation, HandleTakePhoto, HandleRecordAudio, PrepareRestoreApproval,
             Answered, history
    <2>6. PhoneWork => UNCHANGED <<admin, overlapped>>
      BY DEF PhoneWork, LocationArrives, LocationTimeout, Confirm, Leave, Upload, SendResult,
             DeliverReport, LoseReport, history
    <2>7. Restore \/ Service => UNCHANGED <<admin, overlapped>>
      BY DEF Restore, Prompt, CancelDialog, AnswerRestore, TearDown, Service, StopRemote,
             KillProcess, StartRemote, history
    <2> QED
      BY <2>2, <2>3, <2>4, <2>5, <2>6, <2>7 DEF Next, vars, history
  <1> QED
    BY <1>1, <1>2

\* As long as no two requests of the panel are between check and insert at
\* once, a device never has two active commands.
THEOREM OneCommandAtATime == Spec => []OneActive
  <1>1. Init => SerialInv
    BY DEF Init, SerialInv, Serial, OneActive, Active, Exists
  <1>2. TypeOK /\ SerialInv /\ [Next]_vars => SerialInv'
    BY SerialNext
  <1>3. SerialInv => OneActive
    BY DEF SerialInv
  <1> QED
    BY <1>1, <1>2, <1>3, TypeCorrect, PTL DEF Spec

-----------------------------------------------------------------------------
(* The user's confirmation comes before everything that follows from it.    *)

\* A command at work, and a result on its way, was confirmed.
Asking == /\ \A c \in Commands : work[c] \in {"working", "uploaded"} => c \in confirmed
          /\ \A r \in report : r.ok /\ r.kind # "get_location" => r.c \in confirmed
UserInv == Asking /\ NothingWithoutTheUser

LEMMA UserNext == ASSUME TypeOK, UserInv, [Next]_vars PROVE UserInv'
  <1>0. /\ work \in [Commands -> {"none", "notified", "working", "uploaded", "done"}]
        /\ \A r \in report : r.c \in Commands
    BY DEF TypeOK, Reports
  <1>1. confirmed \subseteq confirmed'
    <2>1. Panel \/ Tick \/ Poll \/ Handle => confirmed' = confirmed
      BY DEF Panel, CheckCommand, InsertCommand, SetPolicy, Tick, Poll, PollBegin, PollExpire,
             PollClaim, PollDisallowed, PollLost, Handle, HandleGetLocation, HandleTakePhoto,
             HandleRecordAudio, PrepareRestoreApproval, Answered, history
    <2>2. PhoneWork => confirmed \subseteq confirmed'
      BY DEF PhoneWork, LocationArrives, LocationTimeout, Confirm, Leave, Upload, SendResult,
             DeliverReport, LoseReport, history
    <2>3. Restore \/ Service => confirmed' = confirmed
      BY DEF Restore, Prompt, CancelDialog, AnswerRestore, TearDown, Service, StopRemote,
             KillProcess, StartRemote, history
    <2> QED
      BY <2>1, <2>2, <2>3 DEF Next, vars, history
  \* The work.
  <1>2. ASSUME NEW c \in Commands, work'[c] \in {"working", "uploaded"} PROVE c \in confirmed'
    <2>1. CASE work'[c] = work[c]
      BY <1>1, <1>2, <2>1 DEF UserInv, Asking
    <2>2. CASE Handle \/ KillProcess
      BY <1>0, <1>1, <1>2, <2>2, HandleAnswered, TypeSplit DEF TypeInv, Handle, HandleGetLocation,
         HandleTakePhoto, HandleRecordAudio, PrepareRestoreApproval, Notify, KillProcess,
         UserInv, Asking
    <2>3. CASE PhoneWork
      <3>1. ASSUME NEW d \in Commands, Confirm(d) PROVE c \in confirmed'
        BY <1>0, <1>1, <1>2, <3>1 DEF Confirm, UserInv, Asking
      <3>2. ASSUME NEW d \in Commands, Leave(d) \/ SendResult(d) PROVE work'[c] = work[c]
        BY <1>0, <1>2, <3>2 DEF Leave, SendResult
      <3>3. ASSUME NEW d \in Commands, Upload(d) PROVE c \in confirmed'
        <4>1. work'[c] = work[c] \/ (c = d /\ work[d] = "working")
          BY <1>0, <1>2, <3>3 DEF Upload
        <4> QED
          BY <1>1, <2>1, <4>1 DEF UserInv, Asking
      <3>4. ASSUME NEW r \in report, DeliverReport(r) PROVE work'[c] = work[c]
        BY <1>0, <1>2, <3>4 DEF DeliverReport, Closed
      <3> QED
        BY <2>1, <2>3, <3>1, <3>2, <3>3, <3>4 DEF PhoneWork, LocationArrives, LocationTimeout,
           LoseReport, phoneVars
    <2> QED
      BY <2>1, <2>2, <2>3, Frames DEF Next, Service, vars, phoneVars, Tick
  \* The reports.
  <1>3. ASSUME NEW r \in report', r.ok, r.kind # "get_location" PROVE r.c \in confirmed'
    <2>1. CASE r \in report
      BY <1>1, <1>3, <2>1 DEF UserInv, Asking
    <2>2. ASSUME NEW c, NEW k, report' = report \cup {Failure(c, k)} PROVE r \in report
      BY <1>3, <2>2 DEF Failure
    <2>3. CASE Handle
      BY <2>1, <2>2, <2>3 DEF Handle, HandleGetLocation, HandleTakePhoto, HandleRecordAudio,
         PrepareRestoreApproval
    <2>4. CASE PhoneWork
      <3>1. ASSUME NEW c \in Commands, LocationArrives(c) PROVE r \in report
        BY <1>3, <3>1 DEF LocationArrives
      <3>2. ASSUME NEW c \in Commands, Leave(c) \/ Upload(c) \/ Confirm(c) PROVE r \in report
        BY <2>2, <3>2 DEF Leave, Upload, Confirm
      <3>3. ASSUME NEW c \in Commands, SendResult(c) PROVE r \in report \/ r.c \in confirmed'
        <4>1. c \in confirmed'
          BY <1>1, <3>3 DEF SendResult, UserInv, Asking
        <4> QED
          BY <3>3, <4>1 DEF SendResult
      <3>4. LocationTimeout => r \in report
        BY <2>2 DEF LocationTimeout
      <3> QED
        BY <2>1, <2>4, <3>1, <3>2, <3>3, <3>4 DEF PhoneWork, DeliverReport, LoseReport
    <2>5. KillProcess => report' \subseteq report
      BY DEF KillProcess
    <2> QED
      BY <2>1, <2>3, <2>4, <2>5, Frames DEF Next, Service, vars
  \* What the server has.
  <1>4. ASSUME NEW c \in Commands, c \in files' PROVE c \in confirmed'
    <2>1. CASE c \in files
      BY <1>1, <2>1 DEF UserInv, NothingWithoutTheUser
    <2>2. c \in files \/ work[c] = "working"
      <3>1. PhoneWork => c \in files \/ work[c] = "working"
        BY <1>4 DEF PhoneWork, LocationArrives, LocationTimeout, Confirm, Leave, Upload, SendResult,
             DeliverReport, LoseReport, serverVars
      <3>2. Panel \/ Tick \/ Poll \/ Handle => files' = files
        BY DEF Panel, CheckCommand, InsertCommand, SetPolicy, Tick, Poll, PollBegin, PollExpire,
             PollClaim, PollDisallowed, PollLost, Handle, HandleGetLocation, HandleTakePhoto,
             HandleRecordAudio, PrepareRestoreApproval, Answered, serverVars
      <3>3. Restore \/ Service => files' = files
        BY DEF Restore, Prompt, CancelDialog, AnswerRestore, TearDown, Service, StopRemote,
             KillProcess, StartRemote, serverVars
      <3> QED
        BY <1>4, <3>1, <3>2, <3>3 DEF Next, vars, serverVars
    <2> QED
      BY <1>1, <2>1, <2>2 DEF UserInv, Asking
  <1>5. ASSUME NEW c \in Commands, Exists(c)', cmd'[c].status = "succeeded",
               cmd'[c].kind # "get_location"
        PROVE  c \in confirmed'
    <2>1. CASE Exists(c) /\ cmd[c].status = "succeeded" /\ cmd'[c].kind = cmd[c].kind
      BY <1>1, <1>5, <2>1 DEF UserInv, NothingWithoutTheUser
    <2>2. ASSUME NEW r \in report, DeliverReport(r), cmd'[c] # cmd[c] PROVE c \in confirmed'
      <3>1. Exists(c) /\ cmd'[c].kind = cmd[c].kind
        BY <1>5, <2>2, RowsNext DEF RowsStep, RowStep
      <3>2. c = r.c /\ r.ok /\ r.kind = cmd[c].kind
        BY <1>5, <2>2, <3>1 DEF DeliverReport, CmdAfter, ResultAccepted, SetIfRunning, DataStatus, TypeOK
      <3> QED
        BY <1>1, <1>5, <3>1, <3>2 DEF UserInv, Asking
    <2>3. CASE cmd'[c] = cmd[c]
      BY <1>5, <2>1, <2>3 DEF Exists
    <2>4. CASE Exists(c)
      <3>1. cmd[c] \in Rows /\ cmd'[c].kind = cmd[c].kind
        BY <1>5, <2>4, RowsNext DEF RowsStep, RowStep, TypeOK, Exists
      <3>2. Tick => cmd'[c].status = cmd[c].status
        BY <3>1 DEF Tick, Elapsed, Rows
      <3>3. ~PollExpire \/ cmd'[c] = cmd[c]
        BY <1>5, <3>1 DEF PollExpire, Rows
      <3>4. ASSUME NEW d \in Commands, Exists(d), NEW st \in {"running", "failed"},
                   cmd' = SetStatus(d, st)
            PROVE  cmd'[c] = cmd[c]
        <4>1. st \in Statuses /\ st # "succeeded"
          BY DEF Statuses
        <4> QED
          BY <1>5, <3>4, <4>1, CmdSet
      <3>5. PollClaim => cmd'[c] = cmd[c]
        BY <3>4 DEF PollClaim, Claimable, SetStatus
      <3>6. PollDisallowed => cmd'[c] = cmd[c]
        <4>1. poll.at = "claimed" => poll.c \in Commands
          BY DEF TypeOK
        <4> QED
          BY <3>4, <4>1 DEF PollDisallowed, SetIfRunning, SetStatus
      <3>7. ~\E a \in Admins : InsertCommand(a) /\ cmd'[c] # cmd[c]
        BY <2>4 DEF InsertCommand, TypeOK
      <3> QED
        BY <1>5, <2>1, <2>2, <2>3, <2>4, <3>1, <3>2, <3>3, <3>5, <3>6, <3>7, CmdFrame
    <2>5. CASE ~Exists(c)
      BY <1>5, <2>3, <2>5, RowsNext DEF RowsStep, RowStep
    <2> QED
      BY <2>4, <2>5
  <1> QED
    BY <1>2, <1>3, <1>4, <1>5 DEF UserInv, Asking, NothingWithoutTheUser

\* No photo or recording, and no success but a location's, without the user's
\* confirmation of that very command.
THEOREM UserComesFirst == Spec => []NothingWithoutTheUser
  <1>1. Init => UserInv
    BY DEF Init, UserInv, Asking, NothingWithoutTheUser, Exists
  <1>2. TypeOK /\ UserInv /\ [Next]_vars => UserInv'
    BY UserNext
  <1>3. UserInv => NothingWithoutTheUser
    BY DEF UserInv
  <1> QED
    BY <1>1, <1>2, <1>3, TypeCorrect, PTL DEF Spec

-----------------------------------------------------------------------------
(* The approval dialog. *)

LEMMA DialogNext == ASSUME TypeOK, PendingCanBeAnswered, [Next]_vars PROVE PendingCanBeAnswered'
  <1>0. pending \in Commands \cup {None} /\ dialog \in Commands \cup {None} /\ torn \in BOOLEAN
    BY DEF TypeOK
  <1>1. CASE UNCHANGED restoreVars
    BY <1>1 DEF restoreVars, PendingCanBeAnswered
  <1>2. CASE PrepareRestoreApproval
    <2>1. /\ poll.c \in Commands /\ dialog' = dialog /\ torn' = torn
          /\ UNCHANGED <<pending, prompted>> \/ (pending' = poll.c /\ prompted' = None)
      BY <1>2, HandleAnswered, TypeSplit DEF TypeInv, Handle, PrepareRestoreApproval
    <2> QED
      BY <2>1 DEF PendingCanBeAnswered
  <1>3. CASE Restore
    BY <1>0, <1>3 DEF Restore, Prompt, CancelDialog, AnswerRestore, TearDown, PendingCanBeAnswered
  <1>4. CASE KillProcess
    BY <1>0, <1>4 DEF KillProcess, PendingCanBeAnswered
  <1>5. Panel \/ Tick \/ Poll => UNCHANGED restoreVars
    BY DEF Panel, CheckCommand, InsertCommand, SetPolicy, Tick, Poll, PollBegin, PollExpire,
           PollClaim, PollDisallowed, PollLost
  <1>6. Handle => PrepareRestoreApproval \/ UNCHANGED restoreVars
    BY DEF Handle, HandleGetLocation, HandleTakePhoto, HandleRecordAudio
  <1>7. PhoneWork \/ StopRemote \/ StartRemote => UNCHANGED restoreVars
    BY DEF PhoneWork, LocationArrives, LocationTimeout, Confirm, Leave, Upload, SendResult,
           DeliverReport, LoseReport, StopRemote, StartRemote
  <1> QED
    BY <1>1, <1>2, <1>3, <1>4, <1>5, <1>6, <1>7 DEF Next, Service, vars

\* A restore the phone remembers is asked about, unless its activity was
\* recreated, or the process killed, under the dialog.
THEOREM RestoresAreAsked == Spec => []PendingCanBeAnswered
  <1>1. Init => PendingCanBeAnswered
    BY DEF Init, PendingCanBeAnswered
  <1>2. TypeOK /\ PendingCanBeAnswered /\ [Next]_vars => PendingCanBeAnswered'
    BY DialogNext
  <1> QED
    BY <1>1, <1>2, TypeCorrect, PTL DEF Spec

-----------------------------------------------------------------------------
(* Which reports the server refuses. *)

\* But for recordings a report names its command's kind and fits it.
Fitting == \A r \in report : cmd[r.c].kind # "record_audio" => r.kind = cmd[r.c].kind /\ r.fits
RefusedKnown == \A c \in refused : Exists(c)
\* What the phone works on, and locates, is of the kind that started it.
Own == /\ \A c \in Commands : c \in callbacks \/ c = located => cmd[c].kind = "get_location"
       /\ \A c \in Commands : work[c] # "none" => cmd[c].kind \in {"take_photo", "record_audio"}
RefusalInv == Fitting /\ RefusedKnown /\ Own /\ OnlyRecordingsAreRefused

LEMMA OwnNext ==
    ASSUME TypeOK, Own, [Next]_vars,
           \A c \in Commands : Exists(c) => cmd'[c].kind = cmd[c].kind
    PROVE  Own'
  <1>0. TypeInv
    BY TypeSplit
  <1>1. ASSUME NEW c \in Commands, c \in callbacks' \/ c = located',
               ~(c \in callbacks \/ c = located)
        PROVE  Exists(c) /\ cmd[c].kind = "get_location"
    <2>1. CASE Handle
      BY <1>0, <1>1, <2>1, HandleAnswered DEF TypeInv, Handle, HandleGetLocation, HandleTakePhoto,
         HandleRecordAudio, PrepareRestoreApproval, Answered
    <2>2. PhoneWork \/ Service => located' \in {located, None} /\ callbacks' \subseteq callbacks
      BY DEF PhoneWork, LocationArrives, LocationTimeout, Confirm, Leave, Upload, SendResult,
           DeliverReport, LoseReport, Service, StopRemote, KillProcess, StartRemote, phoneVars
    <2> QED
      BY <1>1, <2>1, <2>2, Frames DEF Next, vars, phoneVars
  <1>2. ASSUME NEW c \in Commands, work'[c] # "none", work[c] = "none"
        PROVE  Exists(c) /\ cmd[c].kind \in {"take_photo", "record_audio"}
    <2>0. work \in [Commands -> {"none", "notified", "working", "uploaded", "done"}]
      BY DEF TypeOK
    <2>1. CASE Handle
      BY <1>0, <1>2, <2>0, <2>1, HandleAnswered DEF TypeInv, Handle, HandleGetLocation,
         HandleTakePhoto, HandleRecordAudio, PrepareRestoreApproval, Answered, Notify
    <2>2. ~PhoneWork
      <3>1. ASSUME NEW d \in Commands, Confirm(d) \/ Leave(d) \/ Upload(d) \/ SendResult(d)
            PROVE  FALSE
        BY <1>2, <2>0, <3>1 DEF Confirm, Leave, Upload, SendResult
      <3>2. ASSUME NEW r \in report, DeliverReport(r) PROVE FALSE
        BY <1>2, <2>0, <3>2 DEF DeliverReport, Closed
      <3> QED
        BY <1>2, <3>1, <3>2 DEF PhoneWork, LocationArrives, LocationTimeout, LoseReport, phoneVars
    <2>3. ~KillProcess /\ (Tick => work' = work)
      BY <1>2, <2>0 DEF KillProcess, Tick
    <2> QED
      BY <1>2, <2>1, <2>2, <2>3, Frames DEF Next, Service, vars, phoneVars
  <1>3. \A c \in Commands : (c \in callbacks \/ c = located) => Exists(c)
    BY <1>0 DEF TypeInv, LocationOK
  <1>4. \A c \in Commands : work[c] # "none" => Exists(c)
    BY <1>0 DEF TypeInv, WorkOK
  <1> QED
    BY <1>1, <1>2, <1>3, <1>4 DEF Own

LEMMA RefusalNext == ASSUME TypeOK, RefusalInv, [Next]_vars PROVE RefusalInv'
  <1>0. /\ \A r \in report : r.c \in Commands /\ Exists(r.c)
        /\ refused \subseteq Commands
        /\ \A c \in Commands : Exists(c) => Exists(c)' /\ cmd'[c].kind = cmd[c].kind
        /\ \A c \in Commands : work[c] # "none" => Exists(c)
        /\ \A c \in callbacks \cup {located} : c # None => c \in Commands /\ Exists(c)
    <2>1. TypeInv
      BY TypeSplit
    <2>2. \A c \in Commands : Exists(c) => Exists(c)' /\ cmd'[c].kind = cmd[c].kind
      BY RowsNext DEF RowsStep, RowStep
    <2> QED
      BY <2>1, <2>2 DEF TypeInv, ReportsOK, Reports, PlainOK, WorkOK, LocationOK
  <1>1. \A r \in report : cmd'[r.c].kind # "record_audio" => r.kind = cmd'[r.c].kind /\ r.fits
    BY <1>0 DEF RefusalInv, Fitting
  \* A new report: r.
  <1>2. ASSUME NEW r \in report', r \notin report, cmd'[r.c].kind # "record_audio"
        PROVE  r.kind = cmd'[r.c].kind /\ r.fits
    <2>1. ASSUME NEW c \in Commands, Exists(c), NEW k,
                 report' = report \cup {Failure(c, k)},
                 cmd[c].kind # "record_audio" => k = cmd[c].kind
          PROVE  r.kind = cmd'[r.c].kind /\ r.fits
      <3>1. r = Failure(c, k)
        BY <1>2, <2>1
      <3>2. r.c = c /\ r.kind = k /\ r.fits
        BY <3>1 DEF Failure
      <3> QED
        BY <1>0, <1>2, <2>1, <3>2
    <2>2. CASE Handle
      <3>1. poll.c \in Commands /\ Exists(poll.c)
        BY <2>2, HandleAnswered, TypeSplit DEF TypeInv
      <3>2. CASE HandleGetLocation
        BY <1>2, <2>1, <3>1, <3>2 DEF HandleGetLocation, Answered
      <3>3. CASE HandleTakePhoto
        BY <1>2, <3>3 DEF HandleTakePhoto
      <3>4. CASE HandleRecordAudio
        BY <1>2, <2>1, <3>1, <3>4 DEF HandleRecordAudio, Answered
      <3>5. CASE PrepareRestoreApproval
        BY <1>2, <2>1, <3>1, <3>5 DEF PrepareRestoreApproval, Answered
      <3> QED
        BY <2>2, <3>2, <3>3, <3>4, <3>5 DEF Handle
    <2>3. ASSUME NEW c \in Commands, LocationArrives(c) PROVE r.kind = cmd'[r.c].kind /\ r.fits
      BY <1>0, <1>2, <2>3 DEF LocationArrives, RefusalInv, Own
    <2>4. CASE PhoneWork
      <3>1. CASE LocationTimeout
        <4>1. located \in Commands /\ Exists(located) /\ cmd[located].kind = "get_location"
          BY <1>0, <3>1 DEF LocationTimeout, RefusalInv, Own
        <4> QED
          BY <2>1, <3>1, <4>1 DEF LocationTimeout
      <3>2. ASSUME NEW c \in Commands, Leave(c) PROVE r.kind = cmd'[r.c].kind /\ r.fits
        BY <1>0, <1>2, <2>1, <3>2 DEF Leave
      <3>3. ASSUME NEW c \in Commands, Upload(c) PROVE r.kind = cmd'[r.c].kind /\ r.fits
        BY <1>0, <1>2, <2>1, <3>3 DEF Upload
      <3>4. ASSUME NEW c \in Commands, SendResult(c) PROVE r.kind = cmd'[r.c].kind /\ r.fits
        <4>1. r.c = c /\ r.kind = cmd[c].kind /\ r.fits = (cmd[c].kind = "take_photo" \/ taken[c] = 1)
          BY <1>2, <3>4 DEF SendResult
        <4>2. Exists(c) /\ cmd[c].kind \in {"take_photo", "record_audio"}
          BY <1>0, <3>4 DEF SendResult, RefusalInv, Own
        <4> QED
          BY <1>0, <1>2, <4>1, <4>2
      <3> QED
        BY <1>2, <2>3, <2>4, <3>1, <3>2, <3>3, <3>4 DEF PhoneWork, Confirm, DeliverReport, LoseReport
    <2>5. KillProcess => report' \subseteq report
      BY DEF KillProcess
    <2> QED
      BY <1>2, <2>2, <2>4, <2>5, Frames DEF Next, Service, vars
  \* A new refusal: c.
  <1>3. ASSUME NEW c \in refused', c \notin refused
        PROVE  c \in Commands /\ Exists(c) /\ cmd[c].kind = "record_audio"
    <2>1. PICK r \in report : DeliverReport(r)
      <3>1. Panel \/ Tick \/ Poll \/ Handle => refused' = refused
        BY DEF Panel, CheckCommand, InsertCommand, SetPolicy, Tick, Poll, PollBegin, PollExpire,
             PollClaim, PollDisallowed, PollLost, Handle, HandleGetLocation, HandleTakePhoto,
             HandleRecordAudio, PrepareRestoreApproval, Answered, history
      <3>2. PhoneWork => refused' = refused \/ \E r \in report : DeliverReport(r)
        BY DEF PhoneWork, LocationArrives, LocationTimeout, Confirm, Leave, Upload, SendResult,
             LoseReport, history
      <3>3. Restore \/ Service => refused' = refused
        BY DEF Restore, Prompt, CancelDialog, AnswerRestore, TearDown, Service, StopRemote,
             KillProcess, StartRemote, history
      <3> QED
        BY <1>3, <3>1, <3>2, <3>3 DEF Next, vars, history
    <2>2. c = r.c /\ cmd'[c].status = "running" /\ cmd' = CmdAfter(r)
      BY <1>3, <2>1 DEF DeliverReport
    <2>3. c \in Commands /\ Exists(c)
      BY <1>0, <2>2
    <2>4. SUFFICES ASSUME cmd[c].kind # "record_audio" PROVE FALSE
      BY <2>3
    <2>5. r.kind = cmd[c].kind /\ r.fits
      BY <2>2, <2>4 DEF RefusalInv, Fitting
    <2>6. ASSUME NEW s \in Ended, cmd' = SetStatus(c, s) PROVE FALSE
      <3>1. s \in Statuses /\ s # "running"
        BY DEF Ended, Statuses
      <3> QED
        BY <2>2, <2>3, <2>6, <3>1, CmdSet
    <2>7. CASE r.kind = "restore_data"
      <3>1. PICK s \in Ended : CmdAfter(r) = SetIfRunning(c, s)
        BY <2>2, <2>7 DEF CmdAfter, DataStatus, Ended
      <3> QED
        BY <2>2, <2>3, <2>6, <3>1 DEF SetIfRunning, SetStatus
    <2>8. CASE r.kind # "restore_data"
      <3>1. CASE ResultAccepted(r)
        <4>1. PICK s \in Ended : CmdAfter(r) = SetStatus(c, s)
          BY <2>2, <2>8, <3>1 DEF CmdAfter, SetStatus, Ended
        <4> QED
          BY <2>2, <2>6, <4>1
      <3>2. CASE ~ResultAccepted(r)
        BY <2>2, <2>3, <2>5, <2>8, <3>2 DEF CmdAfter, ResultAccepted
      <3> QED
        BY <3>1, <3>2
    <2> QED
      BY <2>7, <2>8
  <1>4. Own'
    BY <1>0, OwnNext DEF RefusalInv
  <1> QED
    BY <1>0, <1>1, <1>2, <1>3, <1>4 DEF RefusalInv, Fitting, RefusedKnown, OnlyRecordingsAreRefused

\* A report that finds its command running ends it, unless it is about a
\* recording.
THEOREM RefusalsAreOfRecordings == Spec => []OnlyRecordingsAreRefused
  <1>1. Init => RefusalInv
    BY DEF Init, RefusalInv, Fitting, RefusedKnown, Own, OnlyRecordingsAreRefused
  <1>2. TypeOK /\ RefusalInv /\ [Next]_vars => RefusalInv'
    BY RefusalNext
  <1>3. RefusalInv => OnlyRecordingsAreRefused
    BY DEF RefusalInv
  <1> QED
    BY <1>1, <1>2, <1>3, TypeCorrect, PTL DEF Spec

-----------------------------------------------------------------------------
(* The promise.  What the phone works on it was given: only a poll that     *)
(* claims a command starts anything, and no row returns to the queue.       *)

Given(c) == Exists(c) /\ cmd[c].status # "queued"
GivenFirst == /\ \A c \in Commands : work[c] # "none" => Given(c)
              /\ poll.at = "claimed" => Given(poll.c)

\* A row that was given stays so.
LEMMA GivenStays == ASSUME TypeOK, [Next]_vars, NEW c \in Commands, Given(c) PROVE Given(c)'
  <1>0. Exists(c)' /\ cmd[c] \in Rows
    BY ExistsOn DEF Given, TypeOK, Exists
  <1>1. CASE UNCHANGED cmd
    BY <1>1 DEF Given, Exists
  <1>2. CASE Tick
    BY <1>0, <1>2 DEF Tick, Elapsed, Given, Rows
  <1>3. CASE PollExpire
    BY <1>0, <1>3 DEF PollExpire, Given, Rows
  <1>4. ASSUME NEW d \in Commands, Exists(d), NEW s \in Statuses \ {"queued"},
               cmd' = SetStatus(d, s)
        PROVE  Given(c)'
    BY <1>0, <1>4, CmdSet DEF Given
  <1>5. CASE PollClaim
    BY <1>1, <1>4, <1>5 DEF PollClaim, Claimable, SetStatus, Statuses
  <1>6. ASSUME NEW d \in Commands, NEW s \in Ended, cmd' = SetIfRunning(d, s)
        PROVE  Given(c)'
    BY <1>1, <1>4, <1>6 DEF SetIfRunning, SetStatus, Statuses, Ended
  <1>7. CASE PollDisallowed
    BY <1>6, <1>7 DEF PollDisallowed, TypeOK, Ended
  <1>8. ASSUME NEW r \in report, DeliverReport(r) PROVE Given(c)'
    <2>1. r.c \in Commands /\ Exists(r.c) /\ cmd' = CmdAfter(r)
      BY <1>8 DEF TypeOK, Reports, DeliverReport
    <2>2. CASE r.kind = "restore_data"
      BY <1>6, <2>1, <2>2 DEF CmdAfter, DataStatus, Ended
    <2>3. CASE r.kind # "restore_data"
      BY <1>1, <1>4, <2>1, <2>3 DEF CmdAfter, SetStatus, Statuses
    <2> QED
      BY <2>2, <2>3
  <1>9. ASSUME NEW a \in Admins, InsertCommand(a) PROVE Given(c)'
    <2>1. cmd'[c] = cmd[c]
      BY <1>9 DEF InsertCommand, Given, TypeOK
    <2> QED
      BY <1>0, <2>1 DEF Given
  <1> QED
    BY <1>1, <1>2, <1>3, <1>5, <1>7, <1>8, <1>9, CmdFrame

\* Nothing but an answered poll starts work on a command.
LEMMA WorkStarts ==
    ASSUME TypeOK, [Next]_vars, NEW c \in Commands, work[c] = "none", work'[c] # "none"
    PROVE  poll.at = "claimed" /\ c = poll.c
  <1>0. work \in [Commands -> {"none", "notified", "working", "uploaded", "done"}]
    BY DEF TypeOK
  <1>1. CASE Handle
    BY <1>0, <1>1 DEF Handle, HandleGetLocation, HandleTakePhoto, HandleRecordAudio,
       PrepareRestoreApproval, Answered, Notify
  <1>2. ASSUME NEW d \in Commands, Confirm(d) \/ Leave(d) \/ Upload(d) \/ SendResult(d)
        PROVE  FALSE
    BY <1>0, <1>2 DEF Confirm, Leave, Upload, SendResult
  <1>3. ASSUME NEW r \in report, DeliverReport(r) PROVE FALSE
    BY <1>0, <1>3 DEF DeliverReport, Closed
  <1>4. CASE KillProcess
    BY <1>0, <1>4 DEF KillProcess
  <1>5. PhoneWork => FALSE
    BY <1>2, <1>3 DEF PhoneWork, LocationArrives, LocationTimeout, LoseReport, phoneVars
  <1>6. Tick => FALSE
    BY DEF Tick
  <1> QED
    BY <1>1, <1>4, <1>5, <1>6, Frames DEF Next, Service, vars, phoneVars

LEMMA GivenNext == ASSUME TypeOK, GivenFirst, [Next]_vars PROVE GivenFirst'
  <1>1. ASSUME NEW c \in Commands, work'[c] # "none" PROVE Given(c)'
    BY <1>1, WorkStarts, GivenStays DEF GivenFirst
  <1>2. ASSUME poll'.at = "claimed" PROVE Given(poll.c)'
    <2>0. PollOK
      BY TypeSplit DEF TypeInv
    <2>1. CASE UNCHANGED poll
      BY <1>2, <2>0, <2>1, GivenStays DEF GivenFirst, PollOK, Given, Exists
    <2>2. CASE PollClaim /\ poll' # Idle
      <3>1. PICK c \in Commands : /\ Claimable(c) /\ cmd' = SetStatus(c, "running")
                                  /\ poll' = [poll EXCEPT !.at = "claimed", !.c = c]
        BY <2>2 DEF PollClaim, SetStatus
      <3>2. cmd'[c] # None /\ cmd'[c].status = "running"
        BY <3>1, CmdSet DEF Claimable, Statuses
      <3>3. poll'.c = c
        BY <2>0, <3>1 DEF PollOK
      <3> QED
        BY <3>2, <3>3 DEF Given, Exists
    <2>3. poll' # Idle
      BY <1>2 DEF Idle
    <2>4. ~PollBegin /\ ~PollExpire
      BY <1>2, <2>0 DEF PollBegin, PollExpire, PollOK
    <2>5. PollDisallowed \/ PollLost \/ KillProcess \/ Handle => poll' = Idle
      BY <2>0, HandleAnswered DEF PollDisallowed, PollLost, KillProcess
    <2> QED
      BY <2>1, <2>2, <2>3, <2>4, <2>5, Frames DEF Next, Poll, Service, vars
  <1> QED
    BY <1>1, <1>2 DEF GivenFirst

\* What a stage says of the row.
LEMMA StageOf ==
    ASSUME TypeOK, NEW c \in Commands
    PROVE  /\ Stage(c) \in Promise!Stages /\ stages[c] = Stage(c)
           /\ Stage(c) = "none" <=> ~Exists(c)
           /\ Stage(c) = "waiting" <=> Claimable(c)
           /\ Stage(c) \in {"waiting", "given"} <=> Active(c)
           /\ Stage(c) \in {"none", "waiting", "missed"} <=> ~Given(c)
           /\ Stage(c) \in {"missed", "late"} <=> Overdue(c)
           /\ Stage(c) = "given" <=> Exists(c) /\ cmd[c].status = "running" /\ cmd[c].left > 0
           /\ Stage(c) = "late" <=> Exists(c) /\ cmd[c].status = "running" /\ cmd[c].left = 0
  <1>1. Exists(c) => cmd[c].status \in Statuses /\ cmd[c].left \in 0..3
    BY DEF TypeOK, Exists, Rows
  <1>2. stages[c] = Stage(c)
    BY DEF stages
  <1> QED
    BY <1>1, <1>2 DEF Stage, Promise!Stages, Claimable, Active, Given, Overdue, Statuses

\* A step that leaves a row alone leaves its stage alone; only an insert
\* changes which commands are locations.
LEMMA StageSame == ASSUME NEW c \in Commands, cmd'[c] = cmd[c] PROVE Stage(c)' = Stage(c)
  BY DEF Stage, Exists

LEMMA StageSet ==
    ASSUME NEW c \in Commands, \A d \in Commands : d # c => cmd'[d] = cmd[d],
           NEW s, Stage(c)' = s
    PROVE  stages' = [stages EXCEPT ![c] = s]
  <1>1. \A d \in Commands : Stage(d)' = IF d = c THEN s ELSE Stage(d)
    BY StageSame
  <1> QED
    BY <1>1 DEF stages

LEMMA LocationsSame ==
    ASSUME TypeOK, [Next]_vars, ~\E a \in Admins : InsertCommand(a)
    PROVE  locations' = locations
  <1>1. ASSUME NEW c \in Commands
        PROVE  /\ Exists(c)' <=> Exists(c)
               /\ Exists(c) => cmd'[c].kind = cmd[c].kind
    BY RowsNext DEF RowsStep, RowStep, Exists
  <1> QED
    BY <1>1 DEF locations

\* The new status of a row that is running.
LEMMA StageEnds ==
    ASSUME TypeOK, NEW c \in Commands, NEW s \in Ended, cmd' = SetIfRunning(c, s)
    PROVE  \/ stages' = stages
           \/ /\ Stage(c) \in {"given", "late"}
              /\ stages' = [stages EXCEPT ![c] = s]
  <1>1. CASE Exists(c) /\ cmd[c].status = "running"
    <2>1. cmd' = SetStatus(c, s) /\ s \in Statuses \ {"queued", "running"}
      BY <1>1 DEF SetIfRunning, SetStatus, Ended, Statuses
    <2>2. /\ cmd'[c] # None /\ cmd'[c].status = s
          /\ \A d \in Commands : d # c => cmd'[d] = cmd[d]
      BY <1>1, <2>1, CmdSet
    <2>3. Stage(c)' = s
      BY <2>1, <2>2 DEF Stage, Exists
    <2>4. cmd[c].left \in 0..3
      BY <1>1 DEF TypeOK, Exists, Rows
    <2>5. Stage(c) \in {"given", "late"}
      BY <1>1, <2>4 DEF Stage
    <2> QED
      BY <2>2, <2>3, <2>5, StageSet
  <1>2. CASE ~(Exists(c) /\ cmd[c].status = "running")
    <2>1. cmd' = cmd
      BY <1>2 DEF SetIfRunning
    <2> QED
      BY <2>1, StageSame DEF stages
  <1> QED
    BY <1>1, <1>2

----------------------------------------------------------------------------
(* Each step maps to a step of the promise or to a stutter. *)

\* Whatever else a step of the phone does, the promise sees nothing of it.
Unseen == UNCHANGED <<stages, locations, confirmed, files, overlapped>>

LEMMA PromiseAsked ==
    ASSUME TypeOK, SerialInv, NEW a \in Admins, InsertCommand(a), [Next]_vars
    PROVE  \E c \in Commands : Promise!Ask(c)
  <1>1. PICK c \in Commands :
           /\ ~Exists(c) /\ \A d \in Commands : d < c => Exists(d)
           /\ cmd' = [cmd EXCEPT ![c] = [kind |-> admin[a], status |-> "queued",
                                        left |-> Ttl(admin[a])]]
    BY DEF InsertCommand
  <1>2. admin[a] # None /\ UNCHANGED <<confirmed, files, overlapped>>
    BY DEF InsertCommand, history
  <1>3. /\ cmd'[c] = [kind |-> admin[a], status |-> "queued", left |-> Ttl(admin[a])]
        /\ \A d \in Commands : d # c => cmd'[d] = cmd[d]
    BY <1>1 DEF TypeOK
  <1>4. Exists(c)'
    <2>1. admin[a] \in Kinds
      BY <1>2 DEF TypeOK
    <2>2. cmd'[c] \in Rows
      BY <1>3, <2>1 DEF Rows, Statuses, Ttl
    <2> QED
      BY <2>2 DEF Exists
  <1>5. Stage(c)' = "waiting"
    BY <1>3, <1>4 DEF Stage, Ttl
  <1>6. stages' = [stages EXCEPT ![c] = "waiting"]
    BY <1>3, <1>5, StageSet
  <1>7. locations' = locations \/ locations' = locations \cup {c}
    BY <1>1, <1>3 DEF locations, Exists
  <1>8. overlapped \/ \A d \in Commands : stages[d] \notin {"waiting", "given"}
    BY <1>2, StageOf DEF SerialInv, Serial, NoneActive
  <1>9. stages[c] = "none" /\ \A d \in Commands : d < c => stages[d] # "none"
    BY <1>1, StageOf
  <1> QED
    BY <1>2, <1>6, <1>7, <1>8, <1>9 DEF Promise!Ask

LEMMA PromiseLapses == ASSUME TypeOK, Tick, [Next]_vars PROVE Promise!Lapse
  <1> DEFINE late == {c \in Commands : Exists(c) /\ cmd[c].left = 1}
  <1>1. cmd' = [c \in Commands |-> Elapsed(c)] /\ UNCHANGED <<confirmed, files, overlapped>>
    BY DEF Tick, history
  <1>2. locations' = locations
    BY LocationsSame DEF Tick, InsertCommand, TypeOK
  <1>3. ASSUME NEW c \in Commands PROVE stages'[c] = Promise!Lapses(late)[c]
    <2>0. stages'[c] = Stage(c)' /\ stages[c] = Stage(c)
      BY DEF stages
    <2>1. CASE ~Exists(c)
      <3>1. Stage(c)' = "none" /\ Stage(c) = "none"
        BY <1>1, <2>1 DEF Elapsed, Stage, Exists
      <3> QED
        BY <2>0, <2>1, <3>1 DEF Promise!Lapses
    <2>2. CASE Exists(c)
      <3>1. cmd[c] \in Rows
        BY <2>2 DEF Exists, TypeOK
      <3>2. CASE cmd[c].left = 0
        <4>0. cmd'[c] = cmd[c]
          BY <1>1, <3>2 DEF Elapsed
        <4>1. Stage(c)' = Stage(c)
          BY <4>0, StageSame
        <4>2. c \notin late
          BY <3>2
        <4> HIDE DEF late
        <4> QED
          BY <2>0, <4>1, <4>2 DEF Promise!Lapses
      <3>3. CASE cmd[c].left > 0
        <4>1. /\ cmd'[c] # None /\ cmd'[c].status = cmd[c].status
              /\ cmd'[c].left = cmd[c].left - 1
          BY <1>1, <2>2, <3>1, <3>3 DEF Elapsed, Rows
        <4> QED
          BY <2>0, <2>2, <3>1, <3>3, <4>1 DEF Promise!Lapses, Stage, Exists, Rows, Statuses
      <3> QED
        BY <3>1, <3>2, <3>3 DEF Rows
    <2> QED
      BY <2>1, <2>2
  <1>4. stages' = Promise!Lapses(late)
    BY <1>3 DEF stages, Promise!Lapses
  <1> QED
    BY <1>1, <1>2, <1>4 DEF Promise!Lapse

LEMMA PromiseExpires == ASSUME TypeOK, PollExpire, [Next]_vars PROVE Promise!Expire
  <1> DEFINE over == {c \in Commands : Overdue(c)}
  <1>1. /\ cmd' = [c \in Commands |-> IF Overdue(c) THEN [cmd[c] EXCEPT !.status = "expired"]
                                      ELSE cmd[c]]
        /\ UNCHANGED <<confirmed, files, overlapped, admin>>
    BY DEF PollExpire, history
  <1>2. locations' = locations
    BY <1>1, LocationsSame DEF InsertCommand, TypeOK
  <1>3. ASSUME NEW c \in Commands PROVE stages'[c] = Promise!Expires(over)[c]
    <2>0. stages'[c] = Stage(c)' /\ stages[c] = Stage(c)
      BY DEF stages
    <2>1. CASE ~Overdue(c)
      <3>1. Stage(c)' = Stage(c)
        BY <1>1, <2>1, StageSame
      <3> QED
        BY <2>0, <2>1, <3>1 DEF Promise!Expires
    <2>2. CASE Overdue(c)
      <3>1. cmd'[c] # None /\ cmd'[c].status = "expired"
        <4>1. cmd[c] \in Rows /\ cmd'[c] = [cmd[c] EXCEPT !.status = "expired"]
          BY <1>1, <2>2 DEF Overdue, TypeOK, Exists
        <4>2. cmd'[c] \in Rows /\ cmd'[c].status = "expired"
          BY <4>1 DEF Rows, Statuses
        <4> QED
          BY <4>2
      <3>2. Stage(c)' = "expired"
        BY <3>1 DEF Stage, Exists
      <3> QED
        BY <2>0, <2>2, <3>2, StageOf DEF Promise!Expires
    <2> QED
      BY <2>1, <2>2
  <1>4. stages' = Promise!Expires(over)
    BY <1>3 DEF stages, Promise!Expires
  <1> QED
    BY <1>1, <1>2, <1>4 DEF Promise!Expire

LEMMA PromiseGiven ==
    ASSUME TypeOK, PollClaim, [Next]_vars
    PROVE  Unseen \/ \E c \in Commands : Promise!Give(c)
  <1>1. UNCHANGED <<confirmed, files, overlapped, admin>>
    BY DEF PollClaim, history
  <1>2. locations' = locations
    BY <1>1, LocationsSame DEF InsertCommand, TypeOK
  <1>3. CASE UNCHANGED cmd
    <2>1. stages' = stages
      BY <1>3, StageSame DEF stages
    <2> QED
      BY <1>1, <1>2, <2>1 DEF Unseen
  <1>4. CASE ~UNCHANGED cmd
    <2>1. PICK c \in Commands : /\ Claimable(c) /\ \A d \in Commands : d < c => ~Claimable(d)
                                /\ cmd' = SetStatus(c, "running")
      BY <1>4 DEF PollClaim, SetStatus
    <2>2. /\ cmd'[c] # None /\ cmd'[c].status = "running" /\ cmd'[c].left = cmd[c].left
          /\ \A d \in Commands : d # c => cmd'[d] = cmd[d]
      BY <2>1, CmdSet DEF Claimable, Statuses
    <2>3. Stage(c)' = "given"
      BY <2>1, <2>2 DEF Stage, Exists, Claimable
    <2>4. stages' = [stages EXCEPT ![c] = "given"]
      BY <2>2, <2>3, StageSet
    <2>5. stages[c] = "waiting" /\ \A d \in Commands : d < c => stages[d] # "waiting"
      BY <2>1, StageOf
    <2> QED
      BY <1>1, <1>2, <2>4, <2>5 DEF Promise!Give
  <1> QED
    BY <1>3, <1>4

LEMMA PromiseRefused ==
    ASSUME TypeOK, PollDisallowed, [Next]_vars
    PROVE  Unseen \/ \E c \in Commands : Promise!End(c)
  <1>1. UNCHANGED <<confirmed, files, overlapped, admin>>
    BY DEF PollDisallowed, history
  <1>2. locations' = locations
    BY <1>1, LocationsSame DEF InsertCommand, TypeOK
  <1>3. poll.c \in Commands /\ cmd' = SetIfRunning(poll.c, "failed")
    BY DEF PollDisallowed, TypeOK
  <1>4. \/ stages' = stages
        \/ /\ stages[poll.c] \in {"given", "late"}
           /\ stages' = [stages EXCEPT ![poll.c] = "failed"]
    BY <1>3, StageEnds, StageOf DEF Ended
  <1> QED
    BY <1>1, <1>2, <1>3, <1>4 DEF Unseen, Promise!End

LEMMA PromiseReported ==
    ASSUME TypeOK, UserInv, NEW r \in report, DeliverReport(r), [Next]_vars
    PROVE  Unseen \/ Promise!Expire \/ \E c \in Commands : Promise!End(c)
  <1>1. /\ UNCHANGED <<confirmed, files, overlapped, admin>> /\ cmd' = CmdAfter(r)
        /\ r.c \in Commands /\ Exists(r.c) /\ r.ok \in BOOLEAN
    BY DEF DeliverReport, TypeOK, Reports
  <1>2. locations' = locations
    BY <1>1, LocationsSame DEF InsertCommand, TypeOK
  <1> DEFINE c == r.c
  <1>3. CASE r.kind = "restore_data" /\ cmd[c].left # 0
    <2>1. cmd' = SetIfRunning(c, "failed")
      BY <1>1, <1>3 DEF CmdAfter, DataStatus
    <2>2. \/ stages' = stages
          \/ stages[c] \in {"given", "late"} /\ stages' = [stages EXCEPT ![c] = "failed"]
      BY <1>1, <2>1, StageEnds, StageOf DEF Ended
    <2> QED
      BY <1>1, <1>2, <2>2 DEF Unseen, Promise!End
  <1>4. CASE r.kind = "restore_data" /\ cmd[c].left = 0
    <2>1. cmd' = SetIfRunning(c, "expired")
      BY <1>1, <1>4 DEF CmdAfter, DataStatus
    <2>2. \/ stages' = stages
          \/ stages[c] \in {"given", "late"} /\ stages' = [stages EXCEPT ![c] = "expired"]
      BY <1>1, <2>1, StageEnds, StageOf DEF Ended
    <2>3. stages[c] # "given"
      BY <1>1, <1>4, StageOf
    <2>4. ASSUME stages[c] = "late", stages' = [stages EXCEPT ![c] = "expired"]
          PROVE  stages' = Promise!Expires({c})
      <3>1. stages \in [Commands -> Promise!Stages]
        BY StageOf DEF stages
      <3> QED
        BY <1>1, <2>4, <3>1 DEF Promise!Expires
    <2>5. {c} \in SUBSET Commands
      BY <1>1
    <2> QED
      BY <1>1, <1>2, <2>2, <2>3, <2>4, <2>5 DEF Unseen, Promise!Expire
  <1>5. CASE r.kind # "restore_data" /\ ResultAccepted(r)
    <2>1. PICK s \in {"succeeded", "failed"} :
             /\ cmd' = [cmd EXCEPT ![c].status = s]
             /\ s = "succeeded" => r.ok
      BY <1>1, <1>5 DEF CmdAfter
    <2>2. Exists(c) /\ cmd[c].status = "running" /\ cmd[c].kind = r.kind
      BY <1>5 DEF ResultAccepted
    <2>3. cmd' = SetIfRunning(c, s)
      BY <2>1, <2>2 DEF SetIfRunning
    <2>4. \/ stages' = stages
          \/ stages[c] \in {"given", "late"} /\ stages' = [stages EXCEPT ![c] = s]
      BY <1>1, <2>3, StageEnds, StageOf DEF Ended
    <2>5. s = "succeeded" => c \in locations \cup confirmed
      BY <1>1, <2>1, <2>2 DEF UserInv, Asking, locations
    <2> QED
      BY <1>1, <1>2, <2>4, <2>5 DEF Unseen, Promise!End
  <1>6. CASE r.kind # "restore_data" /\ ~ResultAccepted(r)
    <2>1. stages' = stages
      BY <1>1, <1>6, StageSame DEF stages, CmdAfter
    <2> QED
      BY <1>1, <1>2, <2>1 DEF Unseen
  <1> QED
    BY <1>3, <1>4, <1>5, <1>6

\* The phone uploads only what it was given and its user agreed to.
LEMMA PromiseStored ==
    ASSUME TypeOK, UserInv, NEW c \in Commands, Upload(c), [Next]_vars
    PROVE  Unseen \/ Promise!Store(c)
  <1>1. /\ UNCHANGED <<cmd, admin, confirmed, overlapped>> /\ work[c] = "working"
        /\ files' = files \/ (files' = files \cup {c} /\ UploadAccepted(c))
    BY DEF Upload, history
  <1>2. stages' = stages /\ locations' = locations
    BY <1>1 DEF stages, locations, Stage, Exists
  <1>3. c \in confirmed /\ Exists(c)
    BY <1>1 DEF UserInv, Asking, TypeOK
  <1>4. UploadAccepted(c) => stages[c] = "given"
    BY <1>3, StageOf DEF UploadAccepted
  <1> QED
    BY <1>1, <1>2, <1>3, <1>4 DEF Unseen, Promise!Store, Promise!Seen

LEMMA PromiseAgreed ==
    ASSUME TypeOK, GivenFirst, NEW c \in Commands, Confirm(c)
    PROVE  Promise!Agree(c)
  <1>1. UNCHANGED <<cmd, files, overlapped>> /\ confirmed' = confirmed \cup {c}
    BY DEF Confirm, serverVars
  <1>2. stages' = stages /\ locations' = locations
    BY <1>1 DEF stages, locations, Stage, Exists
  <1>3. stages[c] \notin {"none", "waiting", "missed"}
    BY StageOf DEF GivenFirst, Confirm
  <1> QED
    BY <1>1, <1>2, <1>3 DEF Promise!Agree, Promise!Seen

LEMMA PromiseCrowded ==
    ASSUME TypeOK, NEW a \in Admins, NEW kind \in Kinds, CheckCommand(a, kind)
    PROVE  Unseen \/ Promise!Crowd
  <1>1. UNCHANGED <<cmd, files, confirmed>> /\ (overlapped' = overlapped \/ overlapped' = TRUE)
    BY DEF CheckCommand, serverVars, TypeOK
  <1>2. stages' = stages /\ locations' = locations
    BY <1>1 DEF stages, locations, Stage, Exists
  <1> QED
    BY <1>1, <1>2 DEF Unseen, Promise!Crowd

\* Every other step is one the promise does not see.
LEMMA PromiseFrame ==
    ASSUME [Next]_vars
    PROVE  \/ UNCHANGED <<cmd, confirmed, files, overlapped>>
           \/ Tick \/ PollExpire \/ PollClaim \/ PollDisallowed
           \/ \E a \in Admins : InsertCommand(a) \/ \E kind \in Kinds : CheckCommand(a, kind)
           \/ \E r \in report : DeliverReport(r)
           \/ \E c \in Commands : Confirm(c) \/ Upload(c)
  <1> USE DEF serverVars, history
  <1>1. \A kind \in Kinds : SetPolicy(kind) => UNCHANGED <<cmd, confirmed, files, overlapped>>
    BY DEF SetPolicy
  <1>2. PollBegin \/ PollLost \/ Handle => UNCHANGED <<cmd, confirmed, files, overlapped>>
    BY DEF PollBegin, PollLost, Handle, HandleGetLocation, HandleTakePhoto, HandleRecordAudio,
           PrepareRestoreApproval, Answered
  <1>3. \A c \in Commands : LocationArrives(c) \/ Leave(c) \/ SendResult(c)
            => UNCHANGED <<cmd, confirmed, files, overlapped>>
    BY DEF LocationArrives, Leave, SendResult
  <1>4. LocationTimeout \/ (\E r \in report : LoseReport(r))
            => UNCHANGED <<cmd, confirmed, files, overlapped>>
    BY DEF LocationTimeout, LoseReport
  <1>5. Restore \/ Service => UNCHANGED <<cmd, confirmed, files, overlapped>>
    BY DEF Restore, Prompt, CancelDialog, AnswerRestore, TearDown, Service, StopRemote,
           KillProcess, StartRemote
  <1> QED
    BY <1>1, <1>2, <1>3, <1>4, <1>5 DEF Next, Panel, Poll, PhoneWork, vars

LEMMA PromiseNext ==
    ASSUME TypeOK, SerialInv, UserInv, GivenFirst, [Next]_vars
    PROVE  [Promise!Next]_(Promise!vars)
  <1>1. ASSUME UNCHANGED <<cmd, confirmed, files, overlapped>> PROVE Unseen
    BY <1>1 DEF Unseen, stages, locations, Stage, Exists
  <1>2. Unseen => UNCHANGED Promise!vars
    BY DEF Unseen, Promise!vars
  <1>3. ASSUME NEW a \in Admins, InsertCommand(a) PROVE Promise!Next
    BY <1>3, PromiseAsked DEF Promise!Next
  <1>4. ASSUME NEW a \in Admins, NEW kind \in Kinds, CheckCommand(a, kind)
        PROVE  Unseen \/ Promise!Next
    BY <1>4, PromiseCrowded DEF Promise!Next
  <1>5. Tick \/ PollExpire => Promise!Next
    BY PromiseLapses, PromiseExpires DEF Promise!Next
  <1>6. PollClaim \/ PollDisallowed => Unseen \/ Promise!Next
    BY PromiseGiven, PromiseRefused DEF Promise!Next
  <1>7. ASSUME NEW r \in report, DeliverReport(r) PROVE Unseen \/ Promise!Next
    BY <1>7, PromiseReported DEF Promise!Next
  <1>8. ASSUME NEW c \in Commands, Confirm(c) \/ Upload(c) PROVE Unseen \/ Promise!Next
    BY <1>8, PromiseStored, PromiseAgreed DEF Promise!Next
  <1> QED
    BY <1>1, <1>2, <1>3, <1>4, <1>5, <1>6, <1>7, <1>8, PromiseFrame

\* The panel, the server and the phone together keep the promise of
\* CommandPromise, for any number of commands and requests: each command is
\* asked for alone, given once, in time and in order, ends once, and succeeds
\* only if the phone was given it and its user agreed.
THEOREM PromiseIsKept == Spec => KeepsPromise
  <1>1. Init => SerialInv /\ UserInv /\ GivenFirst
    BY DEF Init, SerialInv, Serial, OneActive, Active, Exists, UserInv, Asking,
           NothingWithoutTheUser, GivenFirst, Idle
  <1>2. Init => Promise!Init
    BY DEF Init, Promise!Init, stages, Stage, locations, Exists
  <1>3. TypeOK /\ SerialInv /\ UserInv /\ GivenFirst /\ [Next]_vars
            => SerialInv' /\ UserInv' /\ GivenFirst'
    BY SerialNext, UserNext, GivenNext
  <1>4. TypeOK /\ SerialInv /\ UserInv /\ GivenFirst /\ [Next]_vars
            => [Promise!Next]_(Promise!vars)
    BY PromiseNext
  <1>5. Spec => [](SerialInv /\ UserInv /\ GivenFirst)
    BY <1>1, <1>3, TypeCorrect, PTL DEF Spec
  <1> QED
    BY <1>2, <1>4, <1>5, TypeCorrect, PTL DEF Spec, KeepsPromise, Promise!Spec
=============================================================================
