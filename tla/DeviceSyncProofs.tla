--------------------------- MODULE DeviceSyncProofs ---------------------------
(***************************************************************************)
(* Proofs about DeviceSync: for any number of requests, handlers, packets,  *)
(* changes and faults, and any skew, latency and lifetime of a nonce that   *)
(* ClockAssumption admits.                                                  *)
(***************************************************************************)
EXTENDS DeviceSync, TLAPS

USE BoundsAssumption, ClockAssumption, NoneAssumption

-----------------------------------------------------------------------------
(* The type invariant, part by part. *)

Bounded == device.revision <= changes + 1 /\ device.token <= changes + 1
DeviceType == device \in Devices /\ Bounded
StoredType == stored \in [Packets -> Revisions \cup {None}]
NonceType == nonce \in [Messages -> (-1 .. Ttl) \cup {None}]
MessageType == message \in [Messages -> Requests \cup {None}]
HandlerType == handler \in [Handlers -> Handled]
ServesRequest == \A h \in Handlers : handler[h].at # "idle" =>
                    handler[h].m # None /\ InNetwork(handler[h].m) /\ Request(h).delivered
ServesPacket == \A h \in Handlers : handler[h].at \in {"upsert", "store"} => Request(h).packet # None
PhoneType == phone \in [token : Tokens, unsent : Packets \cup {None},
                        waiting : Messages \cup {None}, dirty : BOOLEAN]
BoundsType == packets \in 0 .. MaxPackets /\ faults \in 0 .. MaxFaults /\ changes \in 0 .. MaxChanges
AcceptedType == accepted \in [Messages -> Nat]
HistoryType == taken \subseteq Packets \cup {None} /\ disturbed \subseteq Packets \cup {None}

ServerTypes == DeviceType /\ StoredType /\ NonceType
TInv == /\ ServerTypes /\ MessageType /\ HandlerType /\ ServesRequest /\ ServesPacket
        /\ PhoneType /\ BoundsType /\ AcceptedType /\ HistoryType

LEMMA TypeSplit == TInv <=> TypeOK /\ Bounded
  BY DEF TInv, ServerTypes, TypeOK, DeviceType, StoredType, NonceType, MessageType, HandlerType,
         ServesRequest, ServesPacket, PhoneType, BoundsType, AcceptedType, HistoryType

LEMMA InitType == Init => TInv
  <1> SUFFICES ASSUME Init PROVE TInv
    OBVIOUS
  <1>1. 1 \in Revisions /\ 1 \in Tokens
    BY DEF Revisions, Tokens
  <1>2. DeviceType /\ StoredType /\ NonceType
    BY <1>1 DEF Init, DeviceType, StoredType, NonceType, Bounded, Devices
  <1>3. Idle \in Handled
    BY <1>1 DEF Idle, Handled, Steps, Replies
  <1>4. HandlerType /\ ServesRequest /\ ServesPacket
    BY <1>3 DEF Init, HandlerType, ServesRequest, ServesPacket, Idle
  <1>5. MessageType /\ PhoneType /\ BoundsType
    BY <1>1 DEF Init, MessageType, PhoneType, BoundsType
  <1>6. AcceptedType /\ HistoryType
    BY DEF Init, AcceptedType, HistoryType
  <1> QED
    BY <1>2, <1>4, <1>5, <1>6 DEF TInv, ServerTypes

\* A handler takes a step: only its place, its policy and its reply change, and
\* an idle handler does not take one.
Advances(h) ==
    /\ handler' \in [Handlers -> Handled]
    /\ \A g \in Handlers : g # h => handler'[g] = handler[g]
    /\ handler[h].at # "idle"
    /\ handler'[h].m = handler[h].m /\ handler'[h].late = handler[h].late

LEMMA GotoAdvances ==
    ASSUME HandlerType, NEW h \in Handlers, handler[h].at # "idle", NEW step \in Steps, Goto(h, step)
    PROVE  Advances(h) /\ handler'[h].at = step /\ handler'[h].revision = handler[h].revision
  <1>1. handler[h] \in Handled
    BY DEF HandlerType
  <1> DEFINE row == [handler[h] EXCEPT !.at = step]
  <1>2. row \in Handled /\ row.at = step /\ row.m = handler[h].m /\ row.late = handler[h].late
          /\ row.revision = handler[h].revision
    BY <1>1 DEF Handled
  <1>3. handler' = [handler EXCEPT ![h] = row]
    BY DEF Goto
  <1> HIDE DEF row
  <1> QED
    BY <1>2, <1>3 DEF Advances, HandlerType

LEMMA RespondAdvances ==
    ASSUME HandlerType, NEW h \in Handlers, handler[h].at # "idle", NEW reply \in Replies,
           Respond(h, reply)
    PROVE  Advances(h) /\ handler'[h].at = "answer" /\ handler'[h].revision = handler[h].revision
  <1>1. handler[h] \in Handled
    BY DEF HandlerType
  <1> DEFINE row == [handler[h] EXCEPT !.at = "answer", !.reply = reply]
  <1>2. row \in Handled /\ row.at = "answer" /\ row.m = handler[h].m
          /\ row.late = handler[h].late /\ row.revision = handler[h].revision
    BY <1>1 DEF Handled, Steps
  <1>3. handler' = [handler EXCEPT ![h] = row]
    BY DEF Respond
  <1> HIDE DEF row
  <1> QED
    BY <1>2, <1>3 DEF Advances, HandlerType

\* The policy may be read on the way.
LEMMA AuthenticateAdvances ==
    ASSUME TInv, NEW h \in Handlers, Authenticate(h)
    PROVE  Advances(h) /\ handler'[h].at \in {"fresh", "answer"}
  <1>0. HandlerType /\ device.revision \in Revisions /\ handler[h].at = "auth" /\ "auth" \in Replies
    BY DEF TInv, ServerTypes, DeviceType, Devices, Authenticate, Replies
  <1>1. handler[h] \in Handled
    BY <1>0 DEF HandlerType
  <1> DEFINE row == [handler[h] EXCEPT !.at = "fresh", !.revision = device.revision]
  <1>2. row \in Handled /\ row.at = "fresh" /\ row.m = handler[h].m /\ row.late = handler[h].late
    BY <1>0, <1>1 DEF Handled, Steps
  <1>3. handler' = [handler EXCEPT ![h] = row] \/ Respond(h, "auth")
    BY DEF Authenticate
  <1> HIDE DEF row
  <1>4. CASE Respond(h, "auth")
    BY <1>0, <1>4, RespondAdvances
  <1>5. CASE handler' = [handler EXCEPT ![h] = row]
    BY <1>0, <1>2, <1>5 DEF Advances, HandlerType
  <1> QED
    BY <1>3, <1>4, <1>5

\* The parts about handlers, and the others.
HandlersFine == HandlerType /\ ServesRequest /\ ServesPacket
OthersFine == PhoneType /\ BoundsType /\ AcceptedType /\ HistoryType

LEMMA Parts == TInv <=> ServerTypes /\ MessageType /\ HandlersFine /\ OthersFine
  BY DEF TInv, HandlersFine, OthersFine

LEMMA AdvanceFine ==
    ASSUME HandlersFine, NEW h \in Handlers, Advances(h), UNCHANGED message,
           handler'[h].at \in {"upsert", "store"} => Request(h).packet # None
    PROVE  HandlersFine'
  <1>1. HandlerType'
    BY DEF Advances, HandlerType
  <1>2. ServesRequest'
    BY DEF HandlersFine, Advances, ServesRequest, InNetwork, Request
  <1>3. ServesPacket'
    BY DEF HandlersFine, Advances, ServesPacket, Request
  <1> QED
    BY <1>1, <1>2, <1>3 DEF HandlersFine

\* A handler starts or ends; the others go on.
LEMMA ReplaceFine ==
    ASSUME HandlersFine, NEW h \in Handlers, NEW row \in Handled,
           handler' = [handler EXCEPT ![h] = row], row.at \notin {"upsert", "store"},
           row.at # "idle" => row.m # None /\ InNetwork(row.m)' /\ message'[row.m].delivered,
           \A g \in Handlers : g # h /\ handler[g].at # "idle" =>
              /\ message'[handler[g].m] # None /\ message'[handler[g].m].delivered
              /\ message'[handler[g].m].packet = message[handler[g].m].packet
    PROVE  HandlersFine'
  <1>1. handler'[h] = row /\ \A g \in Handlers : g # h => handler'[g] = handler[g]
    BY DEF HandlersFine, HandlerType
  <1>2. HandlerType'
    BY DEF HandlersFine, HandlerType
  <1>3. ServesRequest'
    BY <1>1 DEF HandlersFine, ServesRequest, InNetwork, Request
  <1>4. ServesPacket'
    BY <1>1 DEF HandlersFine, ServesPacket, Request
  <1> QED
    BY <1>2, <1>3, <1>4 DEF HandlersFine

LEMMA IdleHandled == Idle \in Handled /\ Idle.at = "idle" /\ Idle.late = 0
  <1>1. 1 \in Revisions
    BY DEF Revisions
  <1> QED
    BY <1>1 DEF Idle, Handled, Steps, Replies

LEMMA IdleFine ==
    ASSUME HandlersFine, NEW h \in Handlers, handler' = [handler EXCEPT ![h] = Idle],
           UNCHANGED message
    PROVE  HandlersFine'
  <1>1. \A g \in Handlers : g # h /\ handler[g].at # "idle" =>
              /\ message'[handler[g].m] # None /\ message'[handler[g].m].delivered
              /\ message'[handler[g].m].packet = message[handler[g].m].packet
    BY DEF HandlersFine, ServesRequest, InNetwork, Request
  <1> QED
    BY <1>1, IdleHandled, ReplaceFine

\* What a request that is handled is.
LEMMA Handling ==
    ASSUME TInv, NEW h \in Handlers, handler[h].at # "idle"
    PROVE  /\ handler[h] \in Handled /\ handler[h].m \in Messages
           /\ InNetwork(handler[h].m) /\ Request(h) \in Requests
  <1>1. handler[h] \in Handled /\ handler[h].m # None /\ InNetwork(handler[h].m)
    BY DEF TInv, HandlerType, ServesRequest
  <1>2. handler[h].m \in Messages
    BY <1>1 DEF Handled
  <1> QED
    BY <1>1, <1>2 DEF TInv, MessageType, InNetwork, Request

LEMMA Handles == ASSUME TInv, NEW h \in Handlers, Handle(h) PROVE HandlersFine'
  <1>0. HandlersFine /\ HandlerType
    BY Parts DEF HandlersFine
  <1>1. CASE Authenticate(h)
    <2>1. Advances(h) /\ handler'[h].at \in {"fresh", "answer"} /\ UNCHANGED message
      BY <1>1, AuthenticateAdvances DEF Authenticate
    <2> QED
      BY <1>0, <2>1, AdvanceFine
  <1>2. CASE CheckFreshness(h)
    <2>1. handler[h].at # "idle" /\ UNCHANGED message /\ (Goto(h, "forget") \/ Respond(h, "auth"))
      BY <1>2 DEF CheckFreshness
    <2>2. "forget" \in Steps /\ "auth" \in Replies
      BY DEF Steps, Replies
    <2>3. Advances(h) /\ handler'[h].at \in {"forget", "answer"}
      BY <1>0, <2>1, <2>2, GotoAdvances, RespondAdvances
    <2> QED
      BY <1>0, <2>1, <2>3, AdvanceFine
  <1>3. CASE ForgetNonces(h)
    <2>1. handler[h].at # "idle" /\ UNCHANGED message /\ Goto(h, "remember") /\ "remember" \in Steps
      BY <1>3 DEF ForgetNonces, Steps
    <2>2. Advances(h) /\ handler'[h].at = "remember"
      BY <1>0, <2>1, GotoAdvances
    <2> QED
      BY <1>0, <2>1, <2>2, AdvanceFine
  <1>4. CASE RememberNonce(h)
    <2> DEFINE step == IF Request(h).packet = None THEN "policy" ELSE "upsert"
    <2>1. /\ handler[h].at # "idle" /\ UNCHANGED message
          /\ Respond(h, "repeat") \/ Goto(h, step)
      BY <1>4 DEF RememberNonce
    <2>2. step \in Steps /\ "repeat" \in Replies /\ (step = "upsert" => Request(h).packet # None)
            /\ step # "store"
      BY DEF Steps, Replies
    <2> HIDE DEF step
    <2>3. Advances(h) /\ handler'[h].at \in {step, "answer"}
      BY <1>0, <2>1, <2>2, GotoAdvances, RespondAdvances
    <2> QED
      BY <1>0, <2>1, <2>2, <2>3, AdvanceFine
  <1>5. CASE Upsert(h)
    <2>1. handler[h].at = "upsert" /\ UNCHANGED message /\ Goto(h, "store") /\ "store" \in Steps
      BY <1>5 DEF Upsert, Steps
    <2>2. Advances(h) /\ Request(h).packet # None
      BY <1>0, <2>1, GotoAdvances DEF HandlersFine, ServesPacket
    <2> QED
      BY <1>0, <2>1, <2>2, AdvanceFine
  <1>6. CASE Store(h)
    <2>1. handler[h].at # "idle" /\ UNCHANGED message /\ Respond(h, "ok") /\ "ok" \in Replies
      BY <1>6 DEF Store, Replies
    <2>2. Advances(h) /\ handler'[h].at = "answer"
      BY <1>0, <2>1, RespondAdvances
    <2> QED
      BY <1>0, <2>1, <2>2, AdvanceFine
  <1>7. CASE Heartbeat(h)
    <2> DEFINE reply == IF SnapshotRequired THEN "snapshot" ELSE "ok"
    <2>1. handler[h].at # "idle" /\ UNCHANGED message /\ Respond(h, reply) /\ reply \in Replies
      BY <1>7 DEF Heartbeat, Replies
    <2>2. Advances(h) /\ handler'[h].at = "answer"
      BY <1>0, <2>1, RespondAdvances
    <2> QED
      BY <1>0, <2>1, <2>2, AdvanceFine
  <1>8. CASE Answer(h)
    BY <1>0, <1>8, IdleFine DEF Answer
  <1> QED
    BY <1>1, <1>2, <1>3, <1>4, <1>5, <1>6, <1>7, <1>8 DEF Handle

\* How a request in the network may change.
LEMMA DeliverFine ==
    ASSUME TInv, NEW h \in Handlers, NEW m \in Messages, Deliver(h, m)
    PROVE  /\ MessageType' /\ HandlersFine'
           /\ \A n \in Messages :
                 /\ InNetwork(n)' <=> InNetwork(n)
                 /\ message'[n].packet = message[n].packet /\ message'[n].age = message[n].age
           /\ handler'[h].at = "auth" /\ handler'[h].m = m /\ handler'[h].late = 0
           /\ \A g \in Handlers : g # h => handler'[g] = handler[g]
  <1>1. InNetwork(m) /\ message[m] \in Requests
    BY DEF Deliver, InNetwork, TInv, MessageType
  <1> DEFINE request == [message[m] EXCEPT !.delivered = TRUE]
             row == [Idle EXCEPT !.at = "auth", !.m = m]
  <1>2. request \in Requests /\ request.delivered /\ request.packet = message[m].packet
          /\ request.age = message[m].age /\ request # None
    <2>1. request \in Requests /\ request.delivered /\ request.packet = message[m].packet
            /\ request.age = message[m].age
      BY <1>1 DEF Requests
    <2> QED
      BY <2>1
  <1>3. row \in Handled /\ row.at = "auth" /\ row.m = m /\ row.late = 0
    BY IdleHandled DEF Handled, Steps
  <1>4. handler' = [handler EXCEPT ![h] = row] /\ message' = [message EXCEPT ![m] = request]
    BY DEF Deliver
  <1> HIDE DEF request, row
  <1>5. message' \in [Messages -> Requests \cup {None}] /\ message'[m] = request
          /\ \A n \in Messages : n # m => message'[n] = message[n]
    BY <1>2, <1>4 DEF TInv, MessageType
  <1>6. \A g \in Handlers : g # h /\ handler[g].at # "idle" =>
           /\ message'[handler[g].m] # None /\ message'[handler[g].m].delivered
           /\ message'[handler[g].m].packet = message[handler[g].m].packet
    <2> SUFFICES ASSUME NEW g \in Handlers, g # h, handler[g].at # "idle"
                 PROVE  /\ message'[handler[g].m] # None /\ message'[handler[g].m].delivered
                        /\ message'[handler[g].m].packet = message[handler[g].m].packet
      OBVIOUS
    <2>1. handler[g].m \in Messages /\ InNetwork(handler[g].m) /\ message[handler[g].m].delivered
      BY Handling DEF TInv, ServesRequest, Request
    <2> QED
      BY <1>2, <1>5, <2>1 DEF InNetwork
  <1>7. m # None /\ InNetwork(m)' /\ message'[m].delivered
    BY <1>2, <1>5 DEF InNetwork
  <1>8. HandlersFine
    BY Parts
  <1>9. HandlersFine'
    BY <1>3, <1>4, <1>6, <1>7, <1>8, ReplaceFine
  <1>10. handler'[h] = row /\ \A g \in Handlers : g # h => handler'[g] = handler[g]
    BY <1>4 DEF TInv, HandlerType
  <1>11. \A n \in Messages :
           /\ InNetwork(n)' <=> InNetwork(n)
           /\ message'[n].packet = message[n].packet /\ message'[n].age = message[n].age
    BY <1>1, <1>2, <1>5 DEF InNetwork
  <1> QED
    BY <1>3, <1>5, <1>9, <1>10, <1>11 DEF MessageType

\* A message that changes while nobody handles it.
LEMMA UnservedFine ==
    ASSUME TInv, NEW m \in Messages, ~Served(m), UNCHANGED handler,
           NEW row \in Requests \cup {None}, message' = [message EXCEPT ![m] = row]
    PROVE  MessageType' /\ HandlersFine'
  <1>1. MessageType' /\ \A n \in Messages : n # m => message'[n] = message[n]
    BY DEF TInv, MessageType
  <1>2. \A h \in Handlers : handler[h].at # "idle" =>
          handler[h].m \in Messages /\ handler[h].m # m
    BY Handling DEF Served, Serving
  <1>3. HandlerType' /\ ServesRequest'
    BY <1>1, <1>2 DEF TInv, HandlerType, ServesRequest, InNetwork, Request
  <1>4. ServesPacket'
    BY <1>1, <1>2 DEF TInv, ServesPacket, Request
  <1> QED
    BY <1>1, <1>3, <1>4 DEF HandlersFine

LEMMA AbsentUnserved == ASSUME TInv, NEW m \in Messages, ~InNetwork(m) PROVE ~Served(m)
  BY DEF TInv, ServesRequest, Served, Serving

\* Time passes: every request ages, every handler that waits gets later.
LEMMA TickFine ==
    ASSUME TInv, Tick
    PROVE  /\ MessageType' /\ HandlersFine' /\ NonceType'
           /\ \A m \in Messages :
                 /\ InNetwork(m)' <=> InNetwork(m)
                 /\ InNetwork(m) => message'[m].packet = message[m].packet
                 /\ InNetwork(m) /\ message[m].age <= Skew => message'[m].age = message[m].age + 1
                 /\ InNetwork(m) /\ message[m].age > Skew => message'[m].age = message[m].age
           /\ \A h \in Handlers :
                 /\ handler'[h].at = handler[h].at /\ handler'[h].m = handler[h].m
                 /\ handler'[h].revision = handler[h].revision
                 /\ handler'[h].late = IF Between(h) THEN handler[h].late + 1 ELSE handler[h].late
  <1> USE DEF Tick
  <1>1. /\ MessageType'
        /\ \A m \in Messages :
              /\ InNetwork(m)' <=> InNetwork(m)
              /\ InNetwork(m) => /\ message'[m].packet = message[m].packet
                                 /\ message'[m].delivered = message[m].delivered
              /\ InNetwork(m) /\ message[m].age <= Skew => message'[m].age = message[m].age + 1
              /\ InNetwork(m) /\ message[m].age > Skew => message'[m].age = message[m].age
    <2> DEFINE row(m) == IF InNetwork(m) /\ message[m].age <= Skew
                         THEN [message[m] EXCEPT !.age = @ + 1] ELSE message[m]
    <2>1. message' = [m \in Messages |-> row(m)]
      OBVIOUS
    <2>2. ASSUME NEW m \in Messages
          PROVE  /\ row(m) \in Requests \cup {None} /\ (row(m) # None <=> InNetwork(m))
                 /\ InNetwork(m) => /\ row(m).packet = message[m].packet
                                    /\ row(m).delivered = message[m].delivered
                 /\ InNetwork(m) /\ message[m].age <= Skew => row(m).age = message[m].age + 1
                 /\ InNetwork(m) /\ message[m].age > Skew => row(m).age = message[m].age
      <3>1. message[m] \in Requests \cup {None}
        BY DEF TInv, MessageType
      <3>2. CASE InNetwork(m) /\ message[m].age <= Skew
        <4>1. row(m) = [message[m] EXCEPT !.age = @ + 1] /\ message[m] \in Requests
          BY <3>1, <3>2 DEF InNetwork
        <4>2. /\ row(m) \in Requests /\ row(m).packet = message[m].packet
              /\ row(m).delivered = message[m].delivered /\ row(m).age = message[m].age + 1
          BY <3>2, <4>1 DEF Requests, Ages
        <4>3. message[m].age \in Int /\ row(m) # None
          BY <4>1, <4>2 DEF Requests, Ages
        <4> HIDE DEF row
        <4> QED
          BY <3>2, <4>2, <4>3
      <3>3. CASE ~(InNetwork(m) /\ message[m].age <= Skew)
        <4>1. row(m) = message[m]
          BY <3>3
        <4> HIDE DEF row
        <4> QED
          BY <3>1, <3>3, <4>1 DEF InNetwork, Requests, Ages
      <3> QED
        BY <3>2, <3>3
    <2> HIDE DEF row
    <2> QED
      BY <2>1, <2>2 DEF MessageType, InNetwork
  <1>2. /\ HandlerType'
        /\ \A h \in Handlers :
              /\ handler'[h].at = handler[h].at /\ handler'[h].m = handler[h].m
              /\ handler'[h].revision = handler[h].revision
              /\ handler'[h].late = IF Between(h) THEN handler[h].late + 1 ELSE handler[h].late
    <2> DEFINE row(h) == IF Between(h) THEN [handler[h] EXCEPT !.late = @ + 1] ELSE handler[h]
    <2>1. handler' = [h \in Handlers |-> row(h)]
      OBVIOUS
    <2>2. ASSUME NEW h \in Handlers
          PROVE  /\ row(h) \in Handled /\ row(h).at = handler[h].at /\ row(h).m = handler[h].m
                 /\ row(h).revision = handler[h].revision
                 /\ row(h).late = IF Between(h) THEN handler[h].late + 1 ELSE handler[h].late
      <3>1. handler[h] \in Handled /\ (Between(h) => handler[h].late < Latency)
        BY DEF TInv, HandlerType
      <3> QED
        BY <3>1 DEF Handled
    <2> HIDE DEF row
    <2> QED
      BY <2>1, <2>2 DEF HandlerType
  <1>3. ServesRequest' /\ ServesPacket'
    <2> SUFFICES ASSUME NEW h \in Handlers, handler'[h].at # "idle"
                 PROVE  /\ handler'[h].m # None /\ InNetwork(handler[h].m)' /\ Request(h)'.delivered
                        /\ handler'[h].at \in {"upsert", "store"} => Request(h)'.packet # None
      BY DEF ServesRequest, ServesPacket
    <2>1. handler[h].at # "idle" /\ handler'[h].m = handler[h].m
      BY <1>2
    <2>2. /\ handler[h].m \in Messages /\ InNetwork(handler[h].m) /\ handler[h].m # None
          /\ message[handler[h].m].delivered
          /\ handler[h].at \in {"upsert", "store"} => message[handler[h].m].packet # None
      BY <2>1, Handling DEF TInv, ServesRequest, ServesPacket, Request
    <2> QED
      BY <1>1, <1>2, <2>1, <2>2 DEF Request
  <1>4. NonceType'
    BY DEF TInv, ServerTypes, NonceType
  <1> QED
    BY <1>1, <1>2, <1>3, <1>4 DEF HandlersFine

\* What every step leaves alone.
Framed ==
    /\ UNCHANGED device \/ Panel \/ \E h \in Handlers : Upsert(h)
    /\ UNCHANGED stored \/ \E h \in Handlers : Store(h)
    /\ \/ UNCHANGED nonce \/ Tick \/ \E m \in Messages : Send(m)
       \/ \E h \in Handlers : ForgetNonces(h) \/ RememberNonce(h)
    /\ \/ UNCHANGED <<message, handler>> \/ Tick \/ Network \/ \E m \in Messages : Send(m)
       \/ \E h \in Handlers : Handle(h) \/ Stop(h)
    /\ \/ UNCHANGED phone \/ DataChanges \/ Collect \/ GiveUp \/ Panel
       \/ (\E m \in Messages : Send(m)) \/ (\E h \in Handlers : Answer(h))
    /\ UNCHANGED packets \/ Collect
    /\ UNCHANGED faults \/ Fault
    /\ UNCHANGED changes \/ Change
    /\ \/ UNCHANGED accepted \/ (\E m \in Messages : Send(m))
       \/ \E h \in Handlers : RememberNonce(h)
    /\ UNCHANGED taken \/ \E h \in Handlers : RememberNonce(h)
    /\ UNCHANGED disturbed \/ \E h \in Handlers : RememberNonce(h) \/ Upsert(h) \/ Stop(h)

LEMMA Frames == Next => Framed
  <1> USE DEF server, history
  <1>1. CASE DataChanges \/ Collect \/ GiveUp \/ Tick
    BY <1>1 DEF DataChanges, Collect, GiveUp, Tick, Framed, Fault, Change
  <1>2. CASE Panel
    <2>1. /\ UNCHANGED <<stored, nonce, message, handler, packets, history>>
          /\ UNCHANGED faults \/ Fault
          /\ UNCHANGED changes \/ Change
      BY <1>2 DEF Panel, SetPolicy, SetEnabled, RotateToken, EnterToken, Register, NewToken
    <2> QED
      BY <1>2, <2>1 DEF Framed
  <1>3. CASE Network
    <2>1. /\ UNCHANGED <<server, phone, packets, changes, history>>
          /\ UNCHANGED faults \/ Fault
      BY <1>3 DEF Network, Vanish, Deliver
    <2> QED
      BY <1>3, <2>1 DEF Framed
  <1>4. CASE \E m \in Messages : Send(m)
    <2>1. UNCHANGED <<device, stored, packets, faults, changes, taken, disturbed>>
      BY <1>4 DEF Send
    <2> QED
      BY <1>4, <2>1 DEF Framed
  <1>5. ASSUME NEW h \in Handlers, Handle(h) PROVE Framed
    <2>1. UNCHANGED <<packets, faults, changes>>
      BY <1>5 DEF Handle, Authenticate, CheckFreshness, ForgetNonces, RememberNonce, Upsert,
                  Store, Heartbeat, Answer
    <2>2. UNCHANGED device \/ Upsert(h)
      BY <1>5 DEF Handle, Authenticate, CheckFreshness, ForgetNonces, RememberNonce,
                  Store, Heartbeat, Answer
    <2>3. UNCHANGED stored \/ Store(h)
      BY <1>5 DEF Handle, Authenticate, CheckFreshness, ForgetNonces, RememberNonce, Upsert,
                  Heartbeat, Answer
    <2>4. UNCHANGED nonce \/ ForgetNonces(h) \/ RememberNonce(h)
      BY <1>5 DEF Handle, Authenticate, CheckFreshness, Upsert, Store, Heartbeat, Answer
    <2>5. UNCHANGED phone \/ Answer(h)
      BY <1>5 DEF Handle, Authenticate, CheckFreshness, ForgetNonces, RememberNonce, Upsert,
                  Store, Heartbeat
    <2>6. UNCHANGED <<accepted, taken>> \/ RememberNonce(h)
      BY <1>5 DEF Handle, Authenticate, CheckFreshness, ForgetNonces, Upsert, Store, Heartbeat, Answer
    <2>7. UNCHANGED disturbed \/ RememberNonce(h) \/ Upsert(h)
      BY <1>5 DEF Handle, Authenticate, CheckFreshness, ForgetNonces, Store, Heartbeat, Answer
    <2> QED
      BY <1>5, <2>1, <2>2, <2>3, <2>4, <2>5, <2>6, <2>7 DEF Framed
  <1>6. ASSUME NEW h \in Handlers, Stop(h) PROVE Framed
    <2>1. UNCHANGED <<server, phone, packets, changes, accepted, taken>> /\ Fault
      BY <1>6 DEF Stop
    <2> QED
      BY <1>6, <2>1 DEF Framed
  <1> QED
    BY <1>1, <1>2, <1>3, <1>4, <1>5, <1>6 DEF Next

LEMMA HandlersStep == ASSUME TInv, Next PROVE MessageType' /\ HandlersFine'
  <1>0. HandlersFine /\ MessageType
    BY Parts
  <1>1. CASE UNCHANGED <<message, handler>>
    BY <1>0, <1>1 DEF HandlersFine, HandlerType, ServesRequest, ServesPacket, InNetwork, Request,
                      MessageType
  <1>2. CASE Tick
    BY <1>2, TickFine
  <1>3. CASE Network
    <2>1. ASSUME NEW m \in Messages, Vanish(m) PROVE MessageType' /\ HandlersFine'
      BY <2>1, UnservedFine DEF Vanish
    <2>2. ASSUME NEW m \in Messages, NEW h \in Handlers, Deliver(h, m)
          PROVE  MessageType' /\ HandlersFine'
      BY <2>2, DeliverFine
    <2> QED
      BY <1>3, <2>1, <2>2 DEF Network
  <1>4. ASSUME NEW m \in Messages, Send(m) PROVE MessageType' /\ HandlersFine'
    <2>1. ~Served(m) /\ UNCHANGED handler
      BY <1>4, AbsentUnserved DEF Send
    <2>2. PICK age \in -Skew .. Skew :
             message' = [message EXCEPT ![m] = [packet |-> phone.unsent, token |-> phone.token,
                                                age |-> age, delivered |-> FALSE]]
      BY <1>4 DEF Send
    <2>3. [packet |-> phone.unsent, token |-> phone.token, age |-> age, delivered |-> FALSE] \in Requests
      BY DEF TInv, PhoneType, Requests, Ages
    <2> QED
      BY <2>1, <2>2, <2>3, UnservedFine
  <1>5. ASSUME NEW h \in Handlers, Handle(h) PROVE MessageType' /\ HandlersFine'
    <2>1. UNCHANGED message
      BY <1>5 DEF Handle, Authenticate, CheckFreshness, ForgetNonces, RememberNonce, Upsert,
                  Store, Heartbeat, Answer
    <2> QED
      BY <1>0, <1>5, <2>1, Handles DEF MessageType
  <1>6. ASSUME NEW h \in Handlers, Stop(h) PROVE MessageType' /\ HandlersFine'
    BY <1>0, <1>6, IdleFine DEF Stop, MessageType
  <1> QED
    BY <1>1, <1>2, <1>3, <1>4, <1>5, <1>6, Frames DEF Framed

LEMMA ServerStep == ASSUME TInv, Next PROVE ServerTypes'
  <1>1. DeviceType'
    <2>0. DeviceType /\ BoundsType
      BY DEF TInv, ServerTypes
    <2>1. CASE UNCHANGED device
      BY <2>0, <2>1, Frames DEF DeviceType, Bounded, Devices, Revisions, Tokens, Framed, Change, BoundsType
    <2>2. CASE Panel
      <3>1. CASE EnterToken
        BY <2>0, <3>1 DEF EnterToken, server, DeviceType, Bounded
      <3>2. CASE SetPolicy \/ NewToken
        <4>1. changes' = changes + 1 /\ changes < MaxChanges
          BY <3>2 DEF SetPolicy, NewToken, Change
        <4>2. \/ device' = [device EXCEPT !.revision = @ + 1]
              \/ device' = [device EXCEPT !.token = @ + 1, !.enabled = TRUE]
          BY <3>2 DEF SetPolicy, NewToken
        <4>3. device.revision + 1 \in Revisions /\ device.token + 1 \in Tokens
          BY <2>0, <4>1 DEF DeviceType, Bounded, Devices, Revisions, Tokens, BoundsType
        <4>4. device' \in Devices
          BY <2>0, <4>2, <4>3 DEF DeviceType, Devices
        <4>5. /\ device'.revision \in {device.revision, device.revision + 1}
              /\ device'.token \in {device.token, device.token + 1}
          BY <2>0, <4>2 DEF DeviceType, Devices
        <4>6. Bounded'
          BY <2>0, <4>1, <4>3, <4>5 DEF DeviceType, Bounded, Devices, Revisions, Tokens, BoundsType
        <4> QED
          BY <4>4, <4>6 DEF DeviceType
      <3>3. CASE SetEnabled
        <4> DEFINE enabled == ~device.enabled
        <4>1. device' = [device EXCEPT !.enabled = enabled] /\ changes' = changes + 1
          BY <2>0, <3>3 DEF SetEnabled, Change, DeviceType, Devices
        <4>2. enabled \in BOOLEAN
          OBVIOUS
        <4> HIDE DEF enabled
        <4>3. /\ device' \in Devices /\ device'.revision = device.revision
              /\ device'.token = device.token
          BY <2>0, <4>1, <4>2 DEF DeviceType, Devices
        <4> QED
          BY <2>0, <4>1, <4>3 DEF DeviceType, Bounded, Devices, Revisions, Tokens, BoundsType
      <3> QED
        BY <2>2, <3>1, <3>2, <3>3 DEF Panel, RotateToken, Register
    <2>3. ASSUME NEW h \in Handlers, Upsert(h) PROVE DeviceType'
      <3>1. Request(h).packet \in Packets \cup {None}
        BY <2>3, Handling DEF Upsert, Requests
      <3> QED
        BY <2>0, <2>3, <3>1 DEF Upsert, DeviceType, Bounded, Devices
    <2> QED
      BY <2>1, <2>2, <2>3, Frames DEF Framed
  <1>2. StoredType'
    <2>1. ASSUME NEW h \in Handlers, Store(h) PROVE StoredType'
      <3>1. handler[h].revision \in Revisions
        BY <2>1, Handling DEF Store, Handled
      <3> QED
        BY <2>1, <3>1 DEF Store, TInv, ServerTypes, StoredType
    <2> QED
      BY <2>1, Frames DEF Framed, TInv, ServerTypes, StoredType
  <1>3. NonceType'
    <2>1. ASSUME NEW m \in Messages, Send(m) PROVE NonceType'
      BY <2>1 DEF Send, TInv, ServerTypes, NonceType
    <2>2. ASSUME NEW h \in Handlers, ForgetNonces(h) \/ RememberNonce(h) PROVE NonceType'
      BY <2>2 DEF ForgetNonces, RememberNonce, TInv, ServerTypes, NonceType
    <2> QED
      BY <2>1, <2>2, TickFine, Frames DEF Framed, TInv, ServerTypes, NonceType
  <1> QED
    BY <1>1, <1>2, <1>3 DEF ServerTypes

LEMMA PhoneStep == ASSUME TInv, Next PROVE PhoneType'
  <1>0. PhoneType /\ BoundsType /\ device.token \in Tokens
    BY DEF TInv, ServerTypes, DeviceType, Devices
  <1>1. CASE UNCHANGED phone
    BY <1>0, <1>1 DEF PhoneType
  <1>2. CASE DataChanges \/ GiveUp
    BY <1>0, <1>2 DEF DataChanges, GiveUp, PhoneType
  <1>3. CASE Collect
    <2>1. packets + 1 \in Packets
      BY <1>0, <1>3 DEF Collect, BoundsType, Packets
    <2> QED
      BY <1>0, <1>3, <2>1 DEF Collect, PhoneType
  <1>4. CASE Panel
    <2>1. CASE Register
      <3>1. device.token + 1 \in Tokens
        BY <2>1 DEF Register, NewToken, Change, TInv, ServerTypes, DeviceType, Bounded, Devices, Tokens,
                    BoundsType
      <3> QED
        BY <1>0, <2>1, <3>1 DEF Register, PhoneType
    <2> QED
      BY <1>0, <1>4, <2>1 DEF Panel, SetPolicy, SetEnabled, RotateToken, EnterToken, PhoneType
  <1>5. ASSUME NEW m \in Messages, Send(m) PROVE PhoneType'
    BY <1>0, <1>5 DEF Send, PhoneType
  <1>6. ASSUME NEW h \in Handlers, Answer(h) PROVE PhoneType'
    <2>1. CASE UNCHANGED phone
      BY <1>0, <2>1 DEF PhoneType
    <2>2. CASE Hear(Request(h).packet, handler[h].reply)
      <3> DEFINE dirty == \/ phone.dirty \/ handler[h].reply = "snapshot"
                          \/ Request(h).packet # None /\ handler[h].reply = "repeat"
                 unsent == IF Request(h).packet # None /\ handler[h].reply \in {"ok", "repeat"}
                           THEN None ELSE phone.unsent
      <3>1. phone' = [phone EXCEPT !.waiting = None, !.unsent = unsent, !.dirty = dirty]
        BY <1>0, <2>2 DEF Hear, PhoneType
      <3>2. dirty \in BOOLEAN /\ unsent \in Packets \cup {None}
        BY <1>0 DEF PhoneType
      <3> HIDE DEF dirty, unsent
      <3> QED
        BY <1>0, <3>1, <3>2 DEF PhoneType
    <2> QED
      BY <1>6, <2>1, <2>2 DEF Answer
  <1> QED
    BY <1>1, <1>2, <1>3, <1>4, <1>5, <1>6, Frames DEF Framed

LEMMA RestStep == ASSUME TInv, Next PROVE BoundsType' /\ AcceptedType' /\ HistoryType'
  <1>1. BoundsType'
    BY Frames DEF Framed, TInv, BoundsType, Collect, Fault, Change
  <1>2. AcceptedType'
    <2>1. ASSUME NEW m \in Messages, Send(m) PROVE AcceptedType'
      BY <2>1 DEF Send, TInv, AcceptedType
    <2>2. ASSUME NEW h \in Handlers, RememberNonce(h) PROVE AcceptedType'
      BY <2>2 DEF RememberNonce, history, TInv, AcceptedType
    <2> QED
      BY <2>1, <2>2, Frames DEF Framed, TInv, AcceptedType
  <1>3. ASSUME NEW h \in Handlers, handler[h].at # "idle"
        PROVE  Request(h).packet \in Packets \cup {None}
    BY <1>3, Handling DEF Requests
  <1>4. HistoryType'
    <2>1. ASSUME NEW h \in Handlers, RememberNonce(h) \/ Upsert(h) \/ Stop(h) PROVE HistoryType'
      <3>1. handler[h].at # "idle"
        BY <2>1 DEF RememberNonce, Upsert, Stop
      <3>2. Request(h).packet \in Packets \cup {None}
        BY <1>3, <3>1
      <3>3. /\ taken' \in {taken, taken \cup {Request(h).packet}}
            /\ disturbed' \in {disturbed, disturbed \cup {Request(h).packet}}
        BY <2>1 DEF RememberNonce, Upsert, Stop, history
      <3> QED
        BY <3>2, <3>3 DEF TInv, HistoryType
    <2> QED
      BY <2>1, Frames DEF Framed, TInv, HistoryType
  <1> QED
    BY <1>1, <1>2, <1>4

LEMMA TypeStep == TInv /\ [Next]_vars => TInv'
  <1>1. CASE Next /\ TInv
    BY <1>1, HandlersStep, ServerStep, PhoneStep, RestStep DEF TInv, HandlersFine
  <1>2. CASE UNCHANGED vars /\ TInv
    BY <1>2 DEF TInv, vars, server, history, ServerTypes, DeviceType, Bounded, StoredType, NonceType,
        MessageType, HandlerType, ServesRequest, ServesPacket, InNetwork, Request, PhoneType, BoundsType,
        AcceptedType, HistoryType
  <1> QED
    BY <1>1, <1>2

\* Type correctness: every request a handler works on is in the network, and the
\* device, the nonces and the phone keep their shapes whatever is lost or repeated.
THEOREM TypeCorrect == Spec => []TypeOK
  <1>1. TInv => TypeOK
    BY TypeSplit
  <1> QED
    BY InitType, TypeStep, <1>1, PTL DEF Spec

-----------------------------------------------------------------------------
(* A nonce is accepted once while its request is fresh. *)

\* While its request is fresh, the nonce of an accepted request is remembered.
Remembered ==
    \A m \in Messages : accepted[m] >= 1 /\ InNetwork(m) /\ message[m].age <= Skew =>
        nonce[m] # None /\ nonce[m] >= Ttl - Skew - message[m].age
OnceInv == Remembered /\ AcceptedOnceWhileFresh

LEMMA InitOnce == Init => OnceInv
  BY DEF Init, OnceInv, Remembered, AcceptedOnceWhileFresh

\* A step that is not about the age of a request or a nonce.
LEMMA OnceSame == ASSUME OnceInv, UNCHANGED <<nonce, accepted, message>> PROVE OnceInv'
  BY DEF OnceInv, Remembered, AcceptedOnceWhileFresh, InNetwork

LEMMA OnceTick == ASSUME TInv, OnceInv, Tick PROVE OnceInv'
  <1>1. /\ accepted' = accepted
        /\ \A m \in Messages : nonce'[m] = IF nonce[m] # None /\ nonce[m] >= 0
                                          THEN nonce[m] - 1 ELSE nonce[m]
    BY DEF Tick, history
  <1>2. Remembered'
    <2> SUFFICES ASSUME NEW m \in Messages, accepted[m] >= 1, InNetwork(m)', message'[m].age <= Skew
                 PROVE  nonce'[m] # None /\ nonce'[m] >= Ttl - Skew - message'[m].age
      BY <1>1 DEF Remembered
    <2>1. InNetwork(m) /\ message[m].age \in Int
      BY TickFine DEF TInv, MessageType, InNetwork, Requests, Ages
    <2>2. message[m].age <= Skew /\ message'[m].age = message[m].age + 1
      BY <2>1, TickFine
    <2>3. nonce[m] # None /\ nonce[m] >= Ttl - Skew - message[m].age
      BY <2>1, <2>2 DEF OnceInv, Remembered
    <2>4. nonce[m] \in Int
      BY <2>3 DEF TInv, ServerTypes, NonceType
    <2> QED
      BY <1>1, <2>1, <2>2, <2>3, <2>4
  <1> QED
    BY <1>1, <1>2 DEF OnceInv, AcceptedOnceWhileFresh

LEMMA OnceSend == ASSUME TInv, OnceInv, NEW m \in Messages, Send(m) PROVE OnceInv'
  <1>1. /\ \A n \in Messages : n # m => message'[n] = message[n]
        /\ accepted'[m] = 0 /\ \A n \in Messages : n # m => accepted'[n] = accepted[n]
        /\ \A n \in Messages : n # m => nonce'[n] = nonce[n]
    BY DEF Send, TInv, AcceptedType, MessageType, ServerTypes, NonceType
  <1> QED
    BY <1>1 DEF OnceInv, Remembered, AcceptedOnceWhileFresh, InNetwork

LEMMA OnceNetwork == ASSUME TInv, OnceInv, Network PROVE OnceInv'
  <1>1. accepted' = accepted /\ nonce' = nonce
    BY DEF Network, Vanish, Deliver, server, history
  <1>2. ASSUME NEW m \in Messages, Vanish(m) PROVE OnceInv'
    <2>1. \A n \in Messages : InNetwork(n)' => message'[n] = message[n]
      BY <1>2 DEF Vanish, TInv, MessageType, InNetwork
    <2> QED
      BY <1>1, <2>1 DEF OnceInv, Remembered, AcceptedOnceWhileFresh, InNetwork
  <1>3. ASSUME NEW m \in Messages, NEW h \in Handlers, Deliver(h, m) PROVE OnceInv'
    <2>1. \A n \in Messages :
                (InNetwork(n)' <=> InNetwork(n)) /\ message'[n].age = message[n].age
      BY <1>3, DeliverFine
    <2> QED
      BY <1>1, <2>1 DEF OnceInv, Remembered, AcceptedOnceWhileFresh
  <1> QED
    BY <1>2, <1>3 DEF Network

\* The nonce of a fresh request that was accepted has not expired.
LEMMA OnceForget == ASSUME TInv, OnceInv, NEW h \in Handlers, ForgetNonces(h) PROVE OnceInv'
  <1>1. \A m \in Messages : nonce[m] # None /\ nonce[m] >= 0 => nonce'[m] = nonce[m]
    BY DEF ForgetNonces, Lapsed, TInv, ServerTypes, NonceType
  <1>2. Remembered'
    <2> SUFFICES ASSUME NEW m \in Messages, accepted[m] >= 1, InNetwork(m), message[m].age <= Skew
                 PROVE  nonce'[m] # None /\ nonce'[m] >= Ttl - Skew - message[m].age
      BY DEF Remembered, InNetwork, ForgetNonces, history
    <2>1. nonce[m] # None /\ nonce[m] >= Ttl - Skew - message[m].age
      BY DEF OnceInv, Remembered
    <2>2. message[m].age \in Int /\ nonce[m] \in Int
      BY <2>1 DEF TInv, MessageType, InNetwork, Requests, Ages, ServerTypes, NonceType
    <2> QED
      BY <1>1, <2>1, <2>2
  <1> QED
    BY <1>2 DEF OnceInv, AcceptedOnceWhileFresh, ForgetNonces, history

\* An insert succeeds when the nonce is not remembered: then the request was not
\* accepted before, or it is not fresh any more.
LEMMA OnceRemember == ASSUME TInv, OnceInv, NEW h \in Handlers, RememberNonce(h) PROVE OnceInv'
  <1> DEFINE m == handler[h].m
  <1>1. m \in Messages /\ InNetwork(m) /\ message' = message
          /\ message[m].age \in Int /\ message[m].age >= -Skew
    BY Handling DEF RememberNonce, TInv, MessageType, InNetwork, Requests, Ages
  <1>2. CASE UNCHANGED <<nonce, history>>
    BY <1>1, <1>2, OnceSame DEF history
  <1>3. CASE /\ nonce[m] = None /\ nonce' = [nonce EXCEPT ![m] = Ttl]
             /\ accepted' = IF Request(h).age > Skew THEN accepted
                            ELSE [accepted EXCEPT ![m] = @ + 1]
    <2>1. /\ nonce'[m] = Ttl /\ \A n \in Messages : n # m => nonce'[n] = nonce[n]
          /\ \A n \in Messages : n # m => accepted'[n] = accepted[n]
          /\ accepted[m] \in Nat
      BY <1>1, <1>3 DEF TInv, ServerTypes, NonceType, AcceptedType
    <2>2. AcceptedOnceWhileFresh'
      <3>1. CASE Request(h).age > Skew
        BY <1>3, <3>1 DEF OnceInv, AcceptedOnceWhileFresh
      <3>2. CASE ~(Request(h).age > Skew)
        <4>1. accepted'[m] = accepted[m] + 1
          BY <1>1, <1>3, <3>2 DEF TInv, AcceptedType
        <4>2. accepted[m] = 0
          BY <1>1, <1>3, <2>1, <3>2 DEF OnceInv, Remembered, Request
        <4> QED
          BY <2>1, <4>1, <4>2 DEF OnceInv, AcceptedOnceWhileFresh
      <3> QED
        BY <3>1, <3>2
    <2>3. Ttl >= Ttl - Skew - message[m].age /\ Ttl # None
      BY <1>1
    <2>4. Remembered'
      BY <1>1, <2>1, <2>3 DEF OnceInv, Remembered, InNetwork
    <2> QED
      BY <2>2, <2>4 DEF OnceInv
  <1> QED
    BY <1>2, <1>3 DEF RememberNonce

LEMMA OnceStep == TInv /\ OnceInv /\ [Next]_vars => OnceInv'
  <1> SUFFICES ASSUME TInv, OnceInv, [Next]_vars PROVE OnceInv'
    OBVIOUS
  <1>1. CASE DataChanges \/ Collect \/ GiveUp \/ Panel \/ UNCHANGED vars
    <2>1. UNCHANGED <<nonce, accepted, message>>
      BY <1>1 DEF DataChanges, Collect, GiveUp, Panel, SetPolicy, SetEnabled, RotateToken, EnterToken,
                  Register, NewToken, vars, server, history
    <2> QED
      BY <2>1, OnceSame
  <1>2. ASSUME NEW h \in Handlers, Handle(h) \/ Stop(h) PROVE OnceInv'
    <2>1. CASE Authenticate(h) \/ CheckFreshness(h) \/ Upsert(h) \/ Store(h) \/ Heartbeat(h)
                 \/ Answer(h) \/ Stop(h)
      <3>1. UNCHANGED <<nonce, accepted, message>>
        BY <2>1 DEF Authenticate, CheckFreshness, Upsert, Store, Heartbeat, Answer, Stop, server, history
      <3> QED
        BY <3>1, OnceSame
    <2> QED
      BY <1>2, <2>1, OnceForget, OnceRemember DEF Handle
  <1> QED
    BY <1>1, <1>2, OnceTick, OnceSend, OnceNetwork DEF Next

\* Whatever the network repeats, however late and however long a handler takes,
\* a signed request is accepted at most once while its timestamp is fresh: a
\* nonce is kept for as long as its timestamp may be found fresh.
THEOREM AcceptsOnce == Spec => []AcceptedOnceWhileFresh
  <1>1. Init => TInv /\ OnceInv
    BY InitType, InitOnce
  <1>2. TInv /\ OnceInv /\ [Next]_vars => (TInv /\ OnceInv)'
    BY TypeStep, OnceStep
  <1>3. TInv /\ OnceInv => AcceptedOnceWhileFresh
    BY DEF OnceInv
  <1> QED
    BY <1>1, <1>2, <1>3, PTL DEF Spec

-----------------------------------------------------------------------------
(* The revision of the last snapshot. *)

Writing(h) == handler[h].at \in {"upsert", "store"}
Packet(h) == Request(h).packet

\* What was written, or is being written, was accepted.
WritesAreTaken ==
    /\ \A h \in Handlers : Writing(h) => Packet(h) \in taken
    /\ \A p \in Packets : stored[p] # None => p \in taken
    /\ device.last # None => device.last \in taken

\* A packet that nothing disturbed has one writer, which is the first.
OneWriter ==
    \A g, h \in Handlers : g # h /\ Writing(g) /\ Writing(h) /\ Packet(g) = Packet(h) =>
        Packet(h) \in disturbed
FirstWriter ==
    \A h \in Handlers : Writing(h) /\ Packet(h) \notin disturbed =>
        /\ stored[Packet(h)] = None
        /\ handler[h].at = "upsert" => device.last # Packet(h)
        /\ handler[h].at = "store" /\ device.last = Packet(h) =>
              handler[h].revision = device.snapshot
FollowInv == WritesAreTaken /\ OneWriter /\ FirstWriter /\ SnapshotFollowsPolicy

LEMMA InitFollow == Init => FollowInv
  BY DEF Init, FollowInv, WritesAreTaken, OneWriter, FirstWriter, SnapshotFollowsPolicy, Writing, Idle

\* The packet of a writer is a packet.
LEMMA WriterPacket ==
    ASSUME TInv, NEW h \in Handlers, Writing(h) PROVE Packet(h) \in Packets /\ Packet(h) # None
  <1>1. Packet(h) \in Packets \cup {None} /\ Packet(h) # None
    BY Handling DEF Writing, Packet, Requests, TInv, ServesPacket
  <1> QED
    BY <1>1

\* A step that writes nothing: nobody becomes a writer, and one that stops
\* between its writes disturbs its packet.
Quiet ==
    /\ stored' = stored /\ device'.last = device.last /\ device'.snapshot = device.snapshot
    /\ taken \subseteq taken' /\ disturbed \subseteq disturbed'
    /\ \A h \in Handlers : Writing(h)' => /\ Writing(h) /\ Packet(h)' = Packet(h)
                                         /\ handler'[h].at = handler[h].at
                                         /\ handler'[h].revision = handler[h].revision
    /\ \A h \in Handlers : handler[h].at = "store" =>
          handler'[h].at = "store" \/ Packet(h) \in disturbed'

LEMMA FollowQuiet == ASSUME FollowInv, Quiet PROVE FollowInv'
  <1>1. WritesAreTaken'
    BY DEF FollowInv, Quiet, WritesAreTaken
  <1>2. OneWriter'
    BY DEF FollowInv, Quiet, OneWriter
  <1>3. FirstWriter'
    BY DEF FollowInv, Quiet, FirstWriter
  <1>4. SnapshotFollowsPolicy'
    <2> SUFFICES ASSUME device.last \notin disturbed \cup {None}, device.last \notin disturbed'
                 PROVE  \/ stored[device.last] = device.snapshot
                        \/ \E h \in Handlers : handler'[h].at = "store" /\ Packet(h)' = device.last
      BY DEF Quiet, SnapshotFollowsPolicy, Packet
    <2>1. CASE stored[device.last] = device.snapshot
      BY <2>1
    <2>2. ASSUME NEW h \in Handlers, handler[h].at = "store", Packet(h) = device.last
          PROVE  handler'[h].at = "store" /\ Packet(h)' = device.last
      <3>1. handler'[h].at = "store"
        BY <2>2 DEF Quiet
      <3> QED
        BY <2>2, <3>1 DEF Quiet, Writing
    <2> QED
      BY <2>1, <2>2 DEF FollowInv, SnapshotFollowsPolicy, Packet
  <1> QED
    BY <1>1, <1>2, <1>3, <1>4 DEF FollowInv

\* A step of a handler that neither was nor becomes a writer.
LEMMA QuietAdvance ==
    ASSUME NEW h \in Handlers, Advances(h), UNCHANGED <<device, stored, message>>,
           taken \subseteq taken', disturbed \subseteq disturbed', ~Writing(h), ~Writing(h)'
    PROVE  Quiet
  BY DEF Quiet, Advances, Writing, Packet, Request

LEMMA QuietIdle ==
    ASSUME TInv, NEW h \in Handlers, handler' = [handler EXCEPT ![h] = Idle],
           UNCHANGED <<device, stored, message, taken>>, disturbed \subseteq disturbed',
           handler[h].at = "store" => Packet(h) \in disturbed'
    PROVE  Quiet
  <1>1. handler'[h].at = "idle" /\ \A g \in Handlers : g # h => handler'[g] = handler[g]
    BY IdleHandled DEF TInv, HandlerType
  <1> QED
    BY <1>1 DEF Quiet, Writing, Packet, Request

LEMMA QuietTick == ASSUME TInv, Tick PROVE Quiet
  <1>1. UNCHANGED <<device, stored, taken, disturbed>>
    BY DEF Tick, history
  <1>2. ASSUME NEW h \in Handlers, Writing(h)
        PROVE  Packet(h)' = Packet(h)
    <2>1. handler[h].m \in Messages /\ InNetwork(handler[h].m)
      BY <1>2, Handling DEF Writing
    <2> QED
      BY <2>1, TickFine DEF Packet, Request
  <1> QED
    BY <1>1, <1>2, TickFine DEF Quiet, Writing

LEMMA QuietNetwork == ASSUME TInv, Network \/ \E m \in Messages : Send(m) PROVE Quiet
  <1>1. UNCHANGED <<device, stored, taken, disturbed>>
    BY DEF Network, Vanish, Deliver, Send, server, history
  <1>2. ASSUME NEW m \in Messages, Vanish(m) \/ Send(m) PROVE Quiet
    <2>1. ~Served(m) /\ handler' = handler
      BY <1>2, AbsentUnserved DEF Vanish, Send
    <2>2. \A n \in Messages : n # m => message'[n] = message[n]
      BY <1>2 DEF Vanish, Send, TInv, MessageType
    <2>3. \A h \in Handlers : Writing(h) => handler[h].m \in Messages /\ handler[h].m # m
      BY <2>1, Handling DEF Writing, Served, Serving
    <2> QED
      BY <1>1, <2>1, <2>2, <2>3 DEF Quiet, Writing, Packet, Request
  <1>3. ASSUME NEW m \in Messages, NEW h \in Handlers, Deliver(h, m) PROVE Quiet
    <2>1. /\ \A n \in Messages : message'[n].packet = message[n].packet
          /\ handler'[h].at = "auth" /\ handler[h].at = "idle"
          /\ \A g \in Handlers : g # h => handler'[g] = handler[g]
      BY <1>3, DeliverFine DEF Deliver
    <2>2. \A g \in Handlers : Writing(g) => handler[g].m \in Messages
      BY Handling DEF Writing
    <2> QED
      BY <1>1, <2>1, <2>2 DEF Quiet, Writing, Packet, Request
  <1> QED
    BY <1>2, <1>3 DEF Network

LEMMA QuietPanel == ASSUME TInv, Panel PROVE Quiet
  <1>1. UNCHANGED <<stored, message, handler, taken, disturbed>>
    BY DEF Panel, SetPolicy, SetEnabled, RotateToken, EnterToken, Register, NewToken, server, history
  <1>2. device'.last = device.last /\ device'.snapshot = device.snapshot
    BY DEF TInv, ServerTypes, DeviceType, Devices, Panel, SetPolicy, SetEnabled, RotateToken,
           EnterToken, Register, NewToken, server
  <1> QED
    BY <1>1, <1>2 DEF Quiet, Writing, Packet, Request

LEMMA FollowRemember == ASSUME TInv, FollowInv, NEW h \in Handlers, RememberNonce(h) PROVE FollowInv'
  <1> DEFINE p == Packet(h)
             step == IF p = None THEN "policy" ELSE "upsert"
  <1>0. /\ HandlerType /\ handler[h].at = "remember" /\ ~Writing(h)
        /\ UNCHANGED <<device, stored, message>>
        /\ "repeat" \in Replies /\ step \in Steps
    BY DEF TInv, RememberNonce, Writing, Replies, Steps
  <1>1. CASE Respond(h, "repeat") /\ UNCHANGED history
    <2>1. Advances(h) /\ ~Writing(h)'
      BY <1>0, <1>1, RespondAdvances DEF Writing
    <2> QED
      BY <1>0, <1>1, <2>1, QuietAdvance, FollowQuiet DEF history
  <1>2. CASE Goto(h, step) /\ taken' = taken \cup {p}
             /\ disturbed' = IF p \in taken THEN disturbed \cup {p} ELSE disturbed
    <2>1. Advances(h) /\ handler'[h].at = step
      BY <1>0, <1>2, GotoAdvances
    <2>2. CASE p = None
      <3>1. ~Writing(h)'
        BY <2>1, <2>2 DEF Writing
      <3> QED
        BY <1>0, <1>2, <2>1, <3>1, QuietAdvance, FollowQuiet
    <2>3. CASE p # None
      <3>1. /\ handler'[h].at = "upsert" /\ Packet(h)' = p /\ p \in taken'
            /\ p \in Packets
        <4>1. Packet(h) \in Packets \cup {None}
          BY <1>0, Handling DEF Requests, Packet
        <4> QED
          BY <1>0, <1>2, <2>1, <2>3, <4>1 DEF Advances, Packet, Request
      <3>2. \A g \in Handlers : g # h => handler'[g] = handler[g] /\ Packet(g)' = Packet(g)
                                       /\ (Writing(g)' <=> Writing(g))
        BY <1>0, <2>1 DEF Advances, Packet, Request, Writing
      <3>3. /\ taken \subseteq taken' /\ disturbed \subseteq disturbed'
            /\ p \notin disturbed' => p \notin taken
        BY <1>2
      <3> HIDE DEF p, step
      <3>4. WritesAreTaken'
        BY <1>0, <3>1, <3>2, <3>3 DEF FollowInv, WritesAreTaken
      <3>5. OneWriter'
        BY <3>1, <3>2, <3>3 DEF FollowInv, OneWriter, WritesAreTaken
      <3>6. FirstWriter'
        BY <1>0, <2>3, <3>1, <3>2, <3>3 DEF FollowInv, FirstWriter, WritesAreTaken
      <3>7. SnapshotFollowsPolicy'
        <4>1. \A g \in Handlers : handler[g].at = "store" => handler'[g].at = "store" /\ Packet(g)' = Packet(g)
          BY <1>0, <3>2
        <4> QED
          BY <1>0, <3>3, <4>1 DEF FollowInv, SnapshotFollowsPolicy, Packet
      <3> QED
        BY <3>4, <3>5, <3>6, <3>7 DEF FollowInv
    <2> QED
      BY <2>2, <2>3
  <1> QED
    BY <1>1, <1>2 DEF RememberNonce, Packet

LEMMA FollowUpsert == ASSUME TInv, FollowInv, NEW h \in Handlers, Upsert(h) PROVE FollowInv'
  <1> DEFINE p == Packet(h)
  <1>0. /\ HandlerType /\ handler[h].at = "upsert" /\ Writing(h) /\ "store" \in Steps
        /\ UNCHANGED <<stored, message, taken>>
    BY DEF TInv, Upsert, Writing, Steps
  <1>1. p \in Packets /\ p # None
    BY <1>0, WriterPacket
  <1>2. Advances(h) /\ handler'[h].at = "store" /\ handler'[h].revision = handler[h].revision
    BY <1>0, GotoAdvances DEF Upsert
  <1>3. device'.last = p /\ device'.snapshot = device.revision
    BY DEF Upsert, TInv, ServerTypes, DeviceType, Devices, Packet
  <1>4. /\ disturbed \subseteq disturbed'
        /\ p \notin disturbed' => handler[h].revision = device.revision
    BY DEF Upsert, Packet
  <1>5. \A g \in Handlers : Packet(g)' = Packet(g) /\ (Writing(g)' <=> Writing(g))
                             /\ (g # h => handler'[g] = handler[g])
    BY <1>0, <1>2 DEF Advances, Packet, Request, Writing
  <1> HIDE DEF p
  <1>6. WritesAreTaken'
    BY <1>0, <1>3, <1>5 DEF FollowInv, WritesAreTaken, p
  <1>7. OneWriter'
    BY <1>4, <1>5 DEF FollowInv, OneWriter
  <1>8. FirstWriter'
    <2> SUFFICES ASSUME NEW g \in Handlers, Writing(g), Packet(g) \notin disturbed'
                 PROVE  /\ stored[Packet(g)] = None
                        /\ handler'[g].at = "upsert" => p # Packet(g)
                        /\ handler'[g].at = "store" /\ p = Packet(g) =>
                              handler'[g].revision = device'.snapshot
      BY <1>0, <1>3, <1>5 DEF FirstWriter
    <2>1. CASE g = h
      BY <1>2, <1>3, <1>4, <2>1 DEF FollowInv, FirstWriter, p
    <2>2. CASE g # h
      <3>1. Packet(g) # p
        BY <1>0, <1>4, <2>2 DEF FollowInv, OneWriter, p
      <3> QED
        BY <1>4, <3>1 DEF FollowInv, FirstWriter
    <2> QED
      BY <2>1, <2>2
  <1>9. SnapshotFollowsPolicy'
    BY <1>2, <1>3, <1>5 DEF SnapshotFollowsPolicy, Packet, p
  <1> QED
    BY <1>6, <1>7, <1>8, <1>9 DEF FollowInv

LEMMA FollowStore == ASSUME TInv, FollowInv, NEW h \in Handlers, Store(h) PROVE FollowInv'
  <1> DEFINE p == Packet(h)
  <1>0. /\ HandlerType /\ handler[h].at = "store" /\ Writing(h) /\ "ok" \in Replies
        /\ UNCHANGED <<device, message, taken, disturbed>>
    BY DEF TInv, Store, Writing, Replies, history
  <1>1. p \in Packets /\ p # None
    BY <1>0, WriterPacket
  <1>2. Advances(h) /\ handler'[h].at = "answer"
    BY <1>0, RespondAdvances DEF Store
  <1>3. /\ \A q \in Packets : q # p => stored'[q] = stored[q]
        /\ stored'[p] = IF stored[p] = None THEN handler[h].revision ELSE stored[p]
    BY <1>1 DEF Store, TInv, ServerTypes, StoredType, Packet
  <1>4. \A g \in Handlers : /\ Packet(g)' = Packet(g)
                            /\ g # h => handler'[g] = handler[g] /\ (Writing(g)' <=> Writing(g))
    BY <1>0, <1>2 DEF Advances, Packet, Request, Writing
  <1>5. ~Writing(h)'
    BY <1>2 DEF Writing
  <1>6. p \in taken
    BY <1>0 DEF FollowInv, WritesAreTaken, p
  <1> HIDE DEF p
  <1>7. WritesAreTaken'
    BY <1>0, <1>3, <1>4, <1>5, <1>6 DEF FollowInv, WritesAreTaken
  <1>8. OneWriter'
    BY <1>0, <1>4, <1>5 DEF FollowInv, OneWriter
  <1>9. FirstWriter'
    <2> SUFFICES ASSUME NEW g \in Handlers, g # h, Writing(g), Packet(g) \notin disturbed
                 PROVE  /\ stored'[Packet(g)] = None
                        /\ handler[g].at = "upsert" => device.last # Packet(g)
                        /\ handler[g].at = "store" /\ device.last = Packet(g) =>
                              handler[g].revision = device.snapshot
      BY <1>0, <1>4, <1>5 DEF FirstWriter
    <2>1. Packet(g) # p /\ Packet(g) \in Packets
      BY <1>0, WriterPacket DEF FollowInv, OneWriter, p
    <2> QED
      BY <1>3, <2>1 DEF FollowInv, FirstWriter
  <1>10. SnapshotFollowsPolicy'
    <2> SUFFICES ASSUME device.last \notin disturbed \cup {None}
                 PROVE  \/ stored'[device.last] = device.snapshot
                        \/ \E g \in Handlers : handler'[g].at = "store" /\ Packet(g)' = device.last
      BY <1>0 DEF SnapshotFollowsPolicy, Packet
    <2>1. CASE device.last = p
      <3>1. stored[p] = None /\ handler[h].revision = device.snapshot
        BY <1>0, <2>1 DEF FollowInv, FirstWriter, p
      <3> QED
        BY <1>3, <2>1, <3>1
    <2>2. CASE device.last # p
      <3>1. device.last \in Packets
        BY DEF TInv, ServerTypes, DeviceType, Devices
      <3>2. \A g \in Handlers : Packet(g) = device.last => g # h
        BY <2>2 DEF p
      <3> QED
        BY <1>3, <1>4, <2>2, <3>1, <3>2 DEF FollowInv, SnapshotFollowsPolicy, Packet
    <2> QED
      BY <2>1, <2>2
  <1> QED
    BY <1>7, <1>8, <1>9, <1>10 DEF FollowInv

LEMMA FollowHandle == ASSUME TInv, FollowInv, NEW h \in Handlers, Handle(h) PROVE FollowInv'
  <1>0. HandlerType
    BY DEF TInv
  <1>1. CASE Authenticate(h)
    <2>1. /\ Advances(h) /\ ~Writing(h) /\ ~Writing(h)'
          /\ UNCHANGED <<device, stored, message, taken, disturbed>>
      BY <1>1, AuthenticateAdvances DEF Authenticate, server, history, Writing
    <2> QED
      BY <2>1, QuietAdvance, FollowQuiet
  <1>2. CASE CheckFreshness(h)
    <2>1. /\ "forget" \in Steps /\ "auth" \in Replies /\ handler[h].at = "fresh"
          /\ Goto(h, "forget") \/ Respond(h, "auth")
          /\ UNCHANGED <<device, stored, message, taken, disturbed>>
      BY <1>2 DEF CheckFreshness, Steps, Replies, server, history
    <2>2. Advances(h) /\ ~Writing(h) /\ ~Writing(h)'
      BY <1>0, <2>1, GotoAdvances, RespondAdvances DEF Writing
    <2> QED
      BY <2>1, <2>2, QuietAdvance, FollowQuiet
  <1>3. CASE ForgetNonces(h)
    <2>1. /\ "remember" \in Steps /\ handler[h].at = "forget" /\ Goto(h, "remember")
          /\ UNCHANGED <<device, stored, message, taken, disturbed>>
      BY <1>3 DEF ForgetNonces, Steps, history
    <2>2. Advances(h) /\ ~Writing(h) /\ ~Writing(h)'
      BY <1>0, <2>1, GotoAdvances DEF Writing
    <2> QED
      BY <2>1, <2>2, QuietAdvance, FollowQuiet
  <1>4. CASE Heartbeat(h)
    <2> DEFINE reply == IF SnapshotRequired THEN "snapshot" ELSE "ok"
    <2>1. /\ handler[h].at = "policy" /\ Respond(h, reply) /\ reply \in Replies
          /\ UNCHANGED <<device, stored, message, taken, disturbed>>
      BY <1>4 DEF Heartbeat, Replies, server, history
    <2>2. Advances(h) /\ ~Writing(h) /\ ~Writing(h)'
      BY <1>0, <2>1, RespondAdvances DEF Writing
    <2> QED
      BY <2>1, <2>2, QuietAdvance, FollowQuiet
  <1>5. CASE Answer(h)
    <2>1. Quiet
      BY <1>5, QuietIdle DEF Answer, server, history
    <2> QED
      BY <2>1, FollowQuiet
  <1> QED
    BY <1>1, <1>2, <1>3, <1>4, <1>5, FollowRemember, FollowUpsert, FollowStore DEF Handle

LEMMA FollowStep == TInv /\ FollowInv /\ [Next]_vars => FollowInv'
  <1> SUFFICES ASSUME TInv, FollowInv, [Next]_vars PROVE FollowInv'
    OBVIOUS
  <1>1. CASE DataChanges \/ Collect \/ GiveUp \/ UNCHANGED vars
    <2>1. UNCHANGED <<device, stored, message, handler, taken, disturbed>>
      BY <1>1 DEF DataChanges, Collect, GiveUp, vars, server, history
    <2> QED
      BY <2>1, FollowQuiet DEF Quiet, Writing, Packet, Request
  <1>2. ASSUME NEW h \in Handlers, Stop(h) PROVE FollowInv'
    <2>1. Quiet
      BY <1>2, QuietIdle DEF Stop, server, Packet
    <2> QED
      BY <2>1, FollowQuiet
  <1> QED
    BY <1>1, <1>2, QuietTick, QuietNetwork, QuietPanel, FollowQuiet, FollowHandle DEF Next

\* The revision noted for the last snapshot is the one it was reduced by, unless
\* its packet was met by a change, stopped half way or accepted twice.
THEOREM SnapshotsFollow == Spec => []SnapshotFollowsPolicy
  <1>1. Init => TInv /\ FollowInv
    BY InitType, InitFollow
  <1>2. TInv /\ FollowInv /\ [Next]_vars => (TInv /\ FollowInv)'
    BY TypeStep, FollowStep
  <1>3. TInv /\ FollowInv => SnapshotFollowsPolicy
    BY DEF FollowInv
  <1> QED
    BY <1>1, <1>2, <1>3, PTL DEF Spec
=============================================================================
