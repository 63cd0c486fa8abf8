----------------------------- MODULE DeviceSync -----------------------------
(***************************************************************************)
(* What the server does with the phone's snapshots and heartbeats           *)
(* (device-sync/v1.post.ts and v1/heartbeat.post.ts): it authenticates the  *)
(* device (phone-bridge-auth.ts), accepts a signed request within a clock   *)
(* skew and remembers its nonce (phone-bridge-signature.server.ts), reduces *)
(* a snapshot to the modules allowed, and stamps the device with the        *)
(* revision of the policy, by which a heartbeat is told whether a new       *)
(* snapshot is wanted.  One statement is one step; the network may lose,    *)
(* delay or repeat a request, and the panel changes the device meanwhile.   *)
(*                                                                          *)
(* One device and one work of its phone (PhoneQueue has two).  Policies are *)
(* told apart by their revision.  The clocks of the server and its database *)
(* agree; the phone's is off by at most the skew.                           *)
(***************************************************************************)
EXTENDS Integers

CONSTANTS
    Messages,    \* requests of the phone that exist at one time (bound)
    Handlers,    \* requests the server handles at one time (bound)
    MaxPackets,  \* snapshots the phone ever queues (bound)
    MaxChanges,  \* changes by the panel, the user or the phone's data (bound)
    MaxFaults,   \* lost, late and repeated messages, stopped handlers (bound)
    Skew,        \* MAX_CLOCK_SKEW_MS
    Ttl,         \* NONCE_TTL_MS
    Latency,     \* the longest between the check of a timestamp and the insert of its nonce
    None

ASSUME BoundsAssumption == MaxPackets \in Nat /\ MaxChanges \in Nat /\ MaxFaults \in Nat
ASSUME ClockAssumption ==
    /\ Skew \in Nat /\ Latency \in Nat /\ Ttl \in Nat
    /\ Ttl >= 2 * Skew

VARIABLES
    device,    \* the row of phone_bridge_devices
    stored,    \* phone_bridge_syncs: the revision each packet was reduced by
    nonce,     \* phone_bridge_request_nonces: ticks until expires_at
    message,   \* requests in the network, with the age of their timestamps
    handler,   \* where each handler is
    phone,     \* token, packet to send, request awaited, data not yet collected
    packets,   \* packets queued so far
    faults, changes,
    \* History, for the properties only.
    accepted,  \* how often the nonce of a message was accepted while its
               \* timestamp was fresh, at the insert and not only at the check
    taken,     \* packets accepted at least once
    disturbed  \* packets accepted twice, stopped half way, or met by a change

server  == <<device, stored, nonce>>
history == <<accepted, taken, disturbed>>
vars    == <<server, message, handler, phone, packets, faults, changes, history>>

Packets   == 1 .. MaxPackets
Revisions == 1 .. MaxChanges + 1
Tokens    == 1 .. MaxChanges + 1
Ages      == -Skew .. Skew + 1    \* Skew + 1 is any greater age
Devices   == [enabled : BOOLEAN, token : Tokens, revision : Revisions,
              snapshot : Revisions, last : Packets \cup {None}]
Requests  == [packet : Packets \cup {None}, token : Tokens, age : Ages, delivered : BOOLEAN]
Steps     == {"idle", "auth", "fresh", "forget", "remember", "upsert", "store", "policy", "answer"}
Replies   == {"ok", "snapshot", "auth", "repeat"}
Handled   == [at : Steps, m : Messages \cup {None}, revision : Revisions,
              late : 0 .. Latency, reply : Replies]
Idle      == [at |-> "idle", m |-> None, revision |-> 1, late |-> 0, reply |-> "ok"]

ASSUME NoneAssumption == None \notin Messages \cup Int \cup Requests

InNetwork(m)  == message[m] # None
Serving(h, m) == handler[h].at # "idle" /\ handler[h].m = m
Served(m)     == \E h \in Handlers : Serving(h, m)
Request(h)    == message[handler[h].m]
Fault         == faults < MaxFaults /\ faults' = faults + 1
Change        == changes < MaxChanges /\ changes' = changes + 1

\* A registered device that has sent nothing.
Init ==
    /\ device = [enabled |-> TRUE, token |-> 1, revision |-> 1, snapshot |-> 1, last |-> None]
    /\ stored = [p \in Packets |-> None]
    /\ nonce = [m \in Messages |-> None] /\ message = [m \in Messages |-> None]
    /\ handler = [h \in Handlers |-> Idle]
    /\ phone = [token |-> 1, unsent |-> None, waiting |-> None, dirty |-> TRUE]
    /\ packets = 0 /\ faults = 0 /\ changes = 0
    /\ accepted = [m \in Messages |-> 0] /\ taken = {} /\ disturbed = {}

-----------------------------------------------------------------------------
(* The phone (SyncWorker.doWork, one call at a time) and the network. *)

DataChanges ==
    /\ ~phone.dirty /\ Change
    /\ phone' = [phone EXCEPT !.dirty = TRUE]
    /\ UNCHANGED <<server, message, handler, packets, faults, history>>

\* Nothing is queued, and the snapshot is not the one noted last.
Collect ==
    /\ phone.waiting = None /\ phone.unsent = None /\ phone.dirty /\ packets < MaxPackets
    /\ packets' = packets + 1
    /\ phone' = [phone EXCEPT !.unsent = packets + 1, !.dirty = FALSE]
    /\ UNCHANGED <<server, message, handler, faults, changes, history>>

\* A snapshot if one is queued, else a heartbeat.  A nonce is fresh: m was the
\* name of a request that is gone, and the row of its nonce matches nothing.
Send(m) ==
    /\ phone.waiting = None /\ ~InNetwork(m)
    /\ phone.unsent # None \/ ~phone.dirty
    /\ \E age \in -Skew .. Skew :
          message' = [message EXCEPT ![m] = [packet |-> phone.unsent, token |-> phone.token,
                                             age |-> age, delivered |-> FALSE]]
    /\ phone' = [phone EXCEPT !.waiting = m]
    /\ nonce' = [nonce EXCEPT ![m] = None]
    /\ accepted' = [accepted EXCEPT ![m] = 0]
    /\ UNCHANGED <<device, stored, handler, packets, faults, changes, taken, disturbed>>

\* Again only if the network repeats it: OkHttp sends a call again when its
\* connection fails.
Deliver(h, m) ==
    /\ handler[h].at = "idle" /\ InNetwork(m)
    /\ IF message[m].delivered THEN Fault ELSE UNCHANGED faults
    /\ handler' = [handler EXCEPT ![h] = [Idle EXCEPT !.at = "auth", !.m = m]]
    /\ message' = [message EXCEPT ![m].delivered = TRUE]
    /\ UNCHANGED <<server, phone, packets, changes, history>>

\* A request is lost, or will not be repeated any more.
Vanish(m) ==
    /\ InNetwork(m) /\ ~Served(m)
    /\ IF message[m].delivered THEN phone.waiting # m /\ UNCHANGED faults ELSE Fault
    /\ message' = [message EXCEPT ![m] = None]
    /\ UNCHANGED <<server, handler, phone, packets, changes, history>>

\* No answer will come, or it comes too late.
GiveUp ==
    /\ phone.waiting # None
    /\ LET m == phone.waiting
       IN IF ~InNetwork(m) \/ (message[m].delivered /\ ~Served(m)) THEN UNCHANGED faults ELSE Fault
    /\ phone' = [phone EXCEPT !.waiting = None]
    /\ UNCHANGED <<server, message, handler, packets, changes, history>>

\* A call takes less than a tick, and so does a handler between its check of the
\* timestamp and its insert of the nonce, but for Latency ticks.
Between(h) == handler[h].at \in {"forget", "remember"}

Tick ==
    /\ phone.waiting = None
    /\ \A h \in Handlers : Between(h) => handler[h].late < Latency
    /\ message' = [m \in Messages |->
                     IF InNetwork(m) /\ message[m].age <= Skew
                     THEN [message[m] EXCEPT !.age = @ + 1] ELSE message[m]]
    /\ nonce' = [m \in Messages |-> IF nonce[m] # None /\ nonce[m] >= 0
                                    THEN nonce[m] - 1 ELSE nonce[m]]
    /\ handler' = [h \in Handlers |-> IF Between(h) THEN [handler[h] EXCEPT !.late = @ + 1]
                                      ELSE handler[h]]
    /\ UNCHANGED <<device, stored, phone, packets, faults, changes, history>>

-----------------------------------------------------------------------------
(* The handlers. *)

Goto(h, step) == handler' = [handler EXCEPT ![h].at = step]
Respond(h, reply) == handler' = [handler EXCEPT ![h] = [@ EXCEPT !.at = "answer", !.reply = reply]]

\* authenticateDevice: one read of the row decides, and yields the policy.
Authenticate(h) ==
    /\ handler[h].at = "auth"
    /\ IF device.enabled /\ Request(h).token = device.token
       THEN handler' = [handler EXCEPT ![h] = [@ EXCEPT !.at = "fresh",
                                                        !.revision = device.revision]]
       ELSE Respond(h, "auth")
    /\ UNCHANGED <<server, message, phone, packets, faults, changes, history>>

CheckFreshness(h) ==
    /\ handler[h].at = "fresh"
    /\ IF Request(h).age <= Skew THEN Goto(h, "forget") ELSE Respond(h, "auth")
    /\ UNCHANGED <<server, message, phone, packets, faults, changes, history>>

\* Mutant of Lapsed: expires_at <= current_timestamp.
LapsedEarly(left) == left <= 0
Lapsed(left) == left < 0

ForgetNonces(h) ==
    /\ handler[h].at = "forget"
    /\ nonce' = [m \in Messages |-> IF nonce[m] # None /\ Lapsed(nonce[m]) THEN None ELSE nonce[m]]
    /\ Goto(h, "remember")
    /\ UNCHANGED <<device, stored, message, phone, packets, faults, changes, history>>

\* The insert, on conflict do nothing.
RememberNonce(h) ==
    /\ handler[h].at = "remember"
    /\ LET m == handler[h].m
           p == Request(h).packet
       IN IF nonce[m] # None
          THEN Respond(h, "repeat") /\ UNCHANGED <<nonce, history>>
          ELSE /\ Goto(h, IF p = None THEN "policy" ELSE "upsert")
               /\ nonce' = [nonce EXCEPT ![m] = Ttl]
               /\ accepted' = IF Request(h).age > Skew THEN accepted
                               ELSE [accepted EXCEPT ![m] = @ + 1]
               /\ taken' = taken \cup {p}
               /\ disturbed' = IF p \in taken THEN disturbed \cup {p} ELSE disturbed
    /\ UNCHANGED <<device, stored, message, phone, packets, faults, changes>>

\* The row of the device, with the policy revision of this moment.
Upsert(h) ==
    /\ handler[h].at = "upsert"
    /\ device' = [device EXCEPT !.last = Request(h).packet, !.snapshot = device.revision]
    /\ disturbed' = IF handler[h].revision # device.revision
                    THEN disturbed \cup {Request(h).packet} ELSE disturbed
    /\ Goto(h, "store")
    /\ UNCHANGED <<stored, nonce, message, phone, packets, faults, changes, accepted, taken>>

\* The snapshot itself, on conflict do nothing.
Store(h) ==
    /\ handler[h].at = "store"
    /\ stored' = [stored EXCEPT ![Request(h).packet] = IF @ = None THEN handler[h].revision ELSE @]
    /\ Respond(h, "ok")
    /\ UNCHANGED <<device, nonce, message, phone, packets, faults, changes, history>>

\* Mutant of SnapshotRequired: the two revisions the wrong way round.
RequiredWhenBehind == device.revision < device.snapshot
SnapshotRequired == device.revision # device.snapshot

\* Mutant of Heartbeat: the policy is taken as applied once the phone is told.
HeartbeatApplies(h) ==
    /\ handler[h].at = "policy"
    /\ Respond(h, IF SnapshotRequired THEN "snapshot" ELSE "ok")
    /\ device' = [device EXCEPT !.snapshot = device.revision]
    /\ UNCHANGED <<stored, nonce, message, phone, packets, faults, changes, history>>
Heartbeat(h) ==
    /\ handler[h].at = "policy"
    /\ Respond(h, IF SnapshotRequired THEN "snapshot" ELSE "ok")
    /\ UNCHANGED <<server, message, phone, packets, faults, changes, history>>

\* A repeated packet is a dead letter, and its hash is not noted.
Hear(packet, reply) ==
    phone' = [phone EXCEPT
        !.waiting = None,
        !.unsent = IF packet # None /\ reply \in {"ok", "repeat"} THEN None ELSE @,
        !.dirty = @ \/ reply = "snapshot" \/ (packet # None /\ reply = "repeat")]

\* The phone hears the answer if it still waits for it.
Answer(h) ==
    /\ handler[h].at = "answer"
    /\ handler' = [handler EXCEPT ![h] = Idle]
    /\ IF phone.waiting = handler[h].m THEN Hear(Request(h).packet, handler[h].reply)
       ELSE UNCHANGED phone
    /\ UNCHANGED <<server, message, packets, faults, changes, history>>

\* A statement fails, the server dies, or the answer is lost.
Stop(h) ==
    /\ handler[h].at # "idle" /\ Fault
    /\ handler' = [handler EXCEPT ![h] = Idle]
    /\ disturbed' = IF handler[h].at = "store" THEN disturbed \cup {Request(h).packet}
                    ELSE disturbed
    /\ UNCHANGED <<server, message, phone, packets, changes, accepted, taken>>

-----------------------------------------------------------------------------
(* The panel and the user (admin-phone-bridge.ts, register.post.ts). *)

SetPolicy ==
    /\ Change
    /\ device' = [device EXCEPT !.revision = @ + 1]
    /\ UNCHANGED <<stored, nonce, message, handler, phone, packets, faults, history>>

SetEnabled ==
    /\ Change
    /\ device' = [device EXCEPT !.enabled = ~@]
    /\ UNCHANGED <<stored, nonce, message, handler, phone, packets, faults, history>>

\* rotatePhoneBridgeDeviceToken, and the upsert of a registration: a new token,
\* and the device is enabled.
NewToken == Change /\ device' = [device EXCEPT !.token = @ + 1, !.enabled = TRUE]

RotateToken ==
    /\ NewToken
    /\ UNCHANGED <<stored, nonce, message, handler, phone, packets, faults, history>>

EnterToken ==
    /\ phone.token # device.token
    /\ phone' = [phone EXCEPT !.token = device.token]
    /\ UNCHANGED <<server, message, handler, packets, faults, changes, history>>

\* The token comes with the answer, which may be lost.
Register ==
    /\ NewToken
    /\ \/ phone' = [phone EXCEPT !.token = device.token + 1] /\ UNCHANGED faults
       \/ UNCHANGED phone /\ Fault
    /\ UNCHANGED <<stored, nonce, message, handler, packets, history>>

-----------------------------------------------------------------------------
Handle(h) == \/ Authenticate(h) \/ CheckFreshness(h) \/ ForgetNonces(h) \/ RememberNonce(h)
             \/ Upsert(h) \/ Store(h) \/ Heartbeat(h) \/ Answer(h)
Panel     == SetPolicy \/ SetEnabled \/ RotateToken \/ EnterToken \/ Register
Network   == \E m \in Messages : Vanish(m) \/ \E h \in Handlers : Deliver(h, m)
Next == \/ DataChanges \/ Collect \/ GiveUp \/ Tick \/ Panel \/ Network
        \/ \E m \in Messages : Send(m)
        \/ \E h \in Handlers : Handle(h) \/ Stop(h)

Spec == Init /\ [][Next]_vars

\* The periodic work goes on, requests arrive and their handlers take their
\* next step.
Fairness ==
    /\ WF_vars(Collect) /\ WF_vars(\E m \in Messages : Send(m))
    /\ WF_vars(GiveUp /\ UNCHANGED faults) /\ WF_vars(Network /\ UNCHANGED faults)
    /\ \A h \in Handlers : WF_vars(Handle(h))
FairSpec == Spec /\ Fairness

-----------------------------------------------------------------------------
(* Properties. *)

\* The type invariant.
TypeOK ==
    /\ device \in Devices
    /\ stored \in [Packets -> Revisions \cup {None}]
    /\ nonce \in [Messages -> (-1 .. Ttl) \cup {None}]
    /\ message \in [Messages -> Requests \cup {None}]
    /\ handler \in [Handlers -> Handled]
    /\ \A h \in Handlers : handler[h].at # "idle" =>
          handler[h].m # None /\ InNetwork(handler[h].m) /\ Request(h).delivered
    /\ \A h \in Handlers : handler[h].at \in {"upsert", "store"} => Request(h).packet # None
    /\ phone \in [token : Tokens, unsent : Packets \cup {None},
                  waiting : Messages \cup {None}, dirty : BOOLEAN]
    /\ packets \in 0 .. MaxPackets /\ faults \in 0 .. MaxFaults /\ changes \in 0 .. MaxChanges
    /\ accepted \in [Messages -> Nat]
    /\ taken \subseteq Packets \cup {None} /\ disturbed \subseteq Packets \cup {None}

\* A signed request takes effect once while its timestamp is fresh, however
\* often the network repeats it: the nonce is kept for just as long as the
\* window lasts from its earliest acceptance.  What is left is a request that
\* passes the check at the end of the window and goes stale before its nonce is
\* inserted, when the nonce of its first time may be gone (Ttl = 2 * Skew leaves
\* no room for the statements in between).
AcceptedOnceWhileFresh == \A m \in Messages : accepted[m] <= 1

\* The revision the server believes applied is the one the last snapshot was
\* reduced by, so that a policy that changed is asked for: unless the policy
\* changed while that packet was handled, it was stopped between its two writes,
\* or it was sent again after its answer was lost.
SnapshotFollowsPolicy ==
    device.last \notin disturbed \cup {None} =>
        \/ stored[device.last] = device.snapshot
        \/ \E h \in Handlers : handler[h].at = "store" /\ Request(h).packet = device.last

\* A changed policy reaches the phone, which answers with a fresh snapshot,
\* whatever is lost on the way, as long as it may speak to the server.
PolicyReachesPhone ==
    device.revision # device.snapshot
        ~> \/ device.revision = device.snapshot
           \/ ~device.enabled \/ phone.token # device.token
=============================================================================
