------------------------ MODULE ChunkedUploadProofs ------------------------
(* Proofs about ChunkedUpload, for every value of its constants: type      *)
(* correctness; exclusion of completions, finality of results, the promise *)
(* and the price of duplicates, if no completion outlives its claim; and,  *)
(* with no such assumption, that what is published is whole, processed,    *)
(* typed and served, and that nothing is orphaned without a fault.         *)
EXTENDS ChunkedUpload, FiniteSetTheorems, TLAPS

USE DEF rows, objects, business, ambient, requests

----------------------------------------------------------------------------
(* Type correctness *)

\* What a request carries is what its next call needs: an upload unless it is
\* idle, a database row while the object is being prepared, an address once
\* it is stored.
Located ==
    \A r \in Requests :
        /\ pc[r] # "idle" => target[r] \in Uploads
        /\ pc[r] \in {"transform", "offload", "drop"} =>
               \E id \in MediaId : url[r] = DatabaseUrl(id)
        /\ pc[r] \in {"mark", "verify", "erase", "finish", "save"} =>
               url[r] \in Urls

TypeInv == TypeOK /\ Located

\* The deletion of sessions keeps the two tables well typed.
LEMMA DeletionTyped ==
    ASSUME NEW gone, TypeOK, DeleteSessions(gone)
    PROVE  /\ session' \in [Uploads -> Sessions \cup {NoRow}]
           /\ chunks' \in [Uploads -> SUBSET Index]
BY DEF TypeOK, DeleteSessions

\* The deletion of an object keeps both stores well typed.
LEMMA ErasureTyped ==
    ASSUME NEW address, TypeOK, DeleteStoredMedia(address)
    PROVE  /\ media' \in [MediaId -> Objects \cup {NoMedia}]
           /\ bucket' \in [Uploads -> Objects \cup {NoMedia}]
BY DEF TypeOK, DeleteStoredMedia

\* The handler of an outcome is the next call or the error path.
LEMMA OutcomeTyped ==
    ASSUME NEW r \in Requests, NEW ok \in BOOLEAN, NEW next, NEW handler,
           TypeOK, Outcome(r, ok, next, handler),
           next \in Completing \cup {"idle", "store"},
           handler \in Completing \cup {"idle", "store"}
    PROVE  /\ pc' \in [Requests -> Completing \cup {"idle", "store"}]
           /\ pc' = [pc EXCEPT ![r] = IF ok THEN next ELSE handler]
           /\ faults' \in 0 .. MaxFaults
BY SizesAssumption DEF TypeOK, Outcome, Fault

LEMMA InitTyped == Init => TypeInv
<1> SUFFICES ASSUME Init PROVE TypeOK /\ Located
  BY DEF TypeInv
<1>1. 0 \in Index /\ 0 \in 0 .. MaxChunks /\ 0 \in 0 .. MaxObjects /\ 0 \in 0 .. MaxFaults
  BY SizesAssumption DEF Index
<1>2. TypeOK
  BY <1>1 DEF Init, TypeOK
<1>3. Located
  BY DEF Init, Located
<1> QED BY <1>2, <1>3

LEMMA ArrivalsTyped ==
    ASSUME TypeInv, NEW r \in Requests, Arrives(r)
    PROVE  TypeInv'
<1>1. CASE \E u \in Uploads, i \in Index : CheckChunk(r, u, i)
  BY <1>1 DEF TypeInv, TypeOK, Located, CheckChunk
<1>2. CASE \E u \in Uploads, ok \in BOOLEAN : Claim(r, u, ok)
  <2> PICK u \in Uploads, ok \in BOOLEAN : Claim(r, u, ok)
    BY <1>2
  <2>1. session' \in [Uploads -> Sessions \cup {NoRow}]
    <3>1. session[u] \in Sessions
      BY DEF Claim, TypeInv, TypeOK, Exists
    <3>2. [session[u] EXCEPT !.state = "completing", !.started = "recent"]
              \in Sessions
      BY <3>1 DEF Sessions, States, Started
    <3>3. session' = [session EXCEPT ![u] =
              [session[u] EXCEPT !.state = "completing", !.started = "recent"]]
      BY <3>1 DEF Claim, Sessions, TypeInv, TypeOK
    <3> QED BY <3>2, <3>3 DEF TypeInv, TypeOK
  <2>2. FirstCall(session[u]) \in {"count", "discard"}
    BY DEF FirstCall
  <2>3. /\ pc' \in [Requests -> Completing \cup {"idle", "store"}]
        /\ pc' = [pc EXCEPT ![r] = IF ok THEN FirstCall(session[u]) ELSE "idle"]
        /\ faults' \in 0 .. MaxFaults
    BY <2>2, OutcomeTyped DEF Claim, TypeInv, Completing
  <2>4. TypeOK'
    BY <2>1, <2>3 DEF Claim, TypeInv, TypeOK
  <2>5. Located'
    <3>1. pc'[r] \in {"idle", "count", "discard"} /\ target'[r] \in Uploads
      BY <2>2, <2>3 DEF Claim, TypeInv, TypeOK
    <3>2. \A s \in Requests \ {r} :
              pc'[s] = pc[s] /\ target'[s] = target[s] /\ url'[s] = url[s]
      BY <2>3 DEF Claim, TypeInv, TypeOK
    <3> QED BY <3>1, <3>2 DEF TypeInv, Located
  <2> QED BY <2>4, <2>5 DEF TypeInv
<1> QED BY <1>1, <1>2 DEF Arrives

LEMMA FaultsTyped ==
    ASSUME TypeInv, NEW r \in Requests, Fails(r)
    PROVE  TypeInv'
<1>0. Fault => faults' \in 0 .. MaxFaults
  BY SizesAssumption DEF Fault, TypeInv, TypeOK
<1>1. CASE TransformFails(r)
  BY <1>0, <1>1, ErasureTyped
  DEF TransformFails, TypeInv, TypeOK, Located, Completing
<1>2. CASE EraseFails(r)
  BY <1>0, <1>2 DEF EraseFails, TypeInv, TypeOK, Located, Completing
<1>3. CASE CallFails(r)
  BY <1>0, <1>3 DEF CallFails, TypeInv, TypeOK, Located, Completing, Guarded
<1>4. CASE RequestDies(r)
  BY <1>0, <1>4 DEF RequestDies, TypeInv, TypeOK, Located, Completing
<1> QED BY <1>1, <1>2, <1>3, <1>4 DEF Fails

\* The steps that are no request's leave the requests alone.
LEMMA RequestsUntouched ==
    ASSUME Prune \/ \E u \in Uploads : Begin(u) \/ Abort(u) \/ LeaseLapses(u)
                                           \/ GrowsOld(u)
    PROVE  pc' = pc /\ target' = target /\ index' = index /\ url' = url
<1>1. CASE Prune
  BY <1>1 DEF Prune
<1>2. ASSUME NEW u \in Uploads, Begin(u)
      PROVE  pc' = pc /\ target' = target /\ index' = index /\ url' = url
  BY <1>2 DEF Begin
<1>3. ASSUME NEW u \in Uploads, Abort(u)
      PROVE  pc' = pc /\ target' = target /\ index' = index /\ url' = url
  BY <1>3 DEF Abort
<1>4. ASSUME NEW u \in Uploads, LeaseLapses(u)
      PROVE  pc' = pc /\ target' = target /\ index' = index /\ url' = url
  BY <1>4 DEF LeaseLapses
<1>5. ASSUME NEW u \in Uploads, GrowsOld(u)
      PROVE  pc' = pc /\ target' = target /\ index' = index /\ url' = url
  BY <1>5 DEF GrowsOld
<1> QED BY <1>1, <1>2, <1>3, <1>4, <1>5

LEMMA SessionsTyped ==
    ASSUME TypeInv,
           Prune \/ \E u \in Uploads : Begin(u) \/ Abort(u) \/ LeaseLapses(u)
                                           \/ GrowsOld(u)
    PROVE  TypeInv'
<1>0. Located'
  BY RequestsUntouched DEF TypeInv, Located
<1> SUFFICES TypeOK'
  BY <1>0 DEF TypeInv
<1>1. CASE Prune
  BY <1>1, RequestsUntouched, DeletionTyped DEF Prune, TypeInv, TypeOK
<1>2. ASSUME NEW u \in Uploads, Begin(u) PROVE TypeOK'
  BY <1>2, RequestsUntouched DEF Begin, NewSession, Sessions, States, Started, TypeInv, TypeOK
<1>3. ASSUME NEW u \in Uploads, Abort(u) PROVE TypeOK'
  BY <1>3, RequestsUntouched, DeletionTyped DEF Abort, TypeInv, TypeOK
<1>4. ASSUME NEW u \in Uploads, LeaseLapses(u) PROVE TypeOK'
  BY <1>4, RequestsUntouched DEF LeaseLapses, Exists, Sessions, Started, TypeInv, TypeOK
<1>5. ASSUME NEW u \in Uploads, GrowsOld(u) PROVE TypeOK'
  BY <1>5, RequestsUntouched DEF GrowsOld, TypeInv, TypeOK
<1> QED BY <1>1, <1>2, <1>3, <1>4, <1>5

LEMMA ProgressTyped ==
    ASSUME TypeInv, NEW r \in Requests, Progress(r)
    PROVE  TypeInv'
<1> USE DEF TypeInv, Completing
<1>1. CASE Discard(r)
  BY <1>1, DeletionTyped DEF Discard, TypeOK, Located
<1>2. CASE Count(r)
  BY <1>2 DEF Count, TypeOK, Located
<1>3. CASE Reopen(r)
  <2>a. \A old \in Sessions : [old EXCEPT !.state = "pending", !.started = "null"] \in Sessions
    BY DEF Sessions, States, Started
  <2>1. session' \in [Uploads -> Sessions \cup {NoRow}]
    BY <1>3, <2>a DEF Reopen, UpdateRow, Exists, TypeOK, Located
  <2> QED BY <1>3, <2>1 DEF Reopen, TypeOK, Located
<1>4. CASE Lookup(r)
  BY <1>4 DEF Lookup, Exists, Sessions, TypeOK, Located
<1>5. CASE AssembleNothing(r)
  BY <1>5 DEF AssembleNothing, TypeOK, Located
<1>6. CASE Transform(r)
  <2>1. PICK id \in MediaId : url[r] = DatabaseUrl(id)
    BY <1>6 DEF Transform, Located
  <2>2. \A object \in Objects : [object EXCEPT !.processed = TRUE] \in Objects
    BY DEF Objects
  <2>3. media' \in [MediaId -> Objects \cup {NoMedia}]
    BY <1>6, <2>1, <2>2 DEF Transform, DatabaseUrl, TypeOK
  <2>4. TypeOK'
    BY <1>6, <2>3 DEF Transform, TypeOK
  <2>5. Located'
    BY <1>6 DEF Transform, TypeOK, Located
  <2> QED BY <2>4, <2>5
<1>7. CASE KeepInDatabase(r)
  BY <1>7 DEF KeepInDatabase, Urls, TypeOK, Located
<1>8. CASE Offload(r)
  <2>1. PICK id \in MediaId : url[r] = DatabaseUrl(id)
    BY <1>8 DEF Offload, Located
  <2>2. media[url[r].key] \in Objects \cup {NoMedia}
    BY <2>1 DEF DatabaseUrl, TypeOK
  <2>3. bucket' \in [Uploads -> Objects \cup {NoMedia}]
    BY <1>8, <2>2 DEF Offload, TypeOK
  <2> QED BY <1>8, <2>3 DEF Offload, TypeOK, Located
<1>9. CASE Verify(r)
  BY <1>9 DEF Verify, TypeOK, Located
<1>10. CASE Erase(r)
  BY <1>10, ErasureTyped DEF Erase, TypeOK, Located
<1>11. CASE Forget(r)
  BY <1>11, DeletionTyped DEF Forget, TypeOK, Located
<1>12. CASE Release(r)
  <2>a. \A old \in Sessions : Released(old) \in Sessions
    BY DEF Released, Sessions, States, Started
  <2>1. Exists(target[r]) => Released(session[target[r]]) \in Sessions
    BY <1>12, <2>a DEF Release, Exists, TypeOK, Located
  <2>2. session' \in [Uploads -> Sessions \cup {NoRow}]
    BY <1>12, <2>1 DEF Release, UpdateRow, TypeOK
  <2>3. TypeOK'
    BY <1>12, <2>2 DEF Release, TypeOK
  <2>4. Located'
    BY <1>12 DEF Release, TypeOK, Located
  <2> QED BY <2>3, <2>4
<1>13. ASSUME NEW ok \in BOOLEAN, StoreChunk(r, ok) PROVE TypeInv'
  <2>1. chunks' \in [Uploads -> SUBSET Index]
    <3>1. index[r] \in Index /\ target[r] \in Uploads
      BY <1>13 DEF StoreChunk, TypeOK, Located
    <3>2. chunks[target[r]] \cup {index[r]} \in SUBSET Index
      BY <3>1 DEF TypeOK
    <3> QED BY <1>13, <3>2 DEF StoreChunk, TypeOK
  <2> QED BY <1>13, <2>1, OutcomeTyped DEF StoreChunk, TypeOK, Located
<1>14. ASSUME NEW ok \in BOOLEAN, Assemble(r, ok) PROVE TypeInv'
  <2>1. minted' \in MediaId /\ minted' \in 0 .. MaxObjects
    BY <1>14, SizesAssumption DEF Assemble, MediaId, TypeOK
  <2>2. target[r] \in Uploads
    BY <1>14 DEF Assemble, Located
  <2>3. media' \in [MediaId -> Objects \cup {NoMedia}]
    BY <1>14, <2>1, <2>2 DEF Assemble, Objects, TypeOK
  <2>4. url' \in [Requests -> Urls \cup {NoUrl}]
    BY <1>14, <2>1 DEF Assemble, Urls, TypeOK
  <2>5. /\ pc' = [pc EXCEPT ![r] = IF ok THEN "transform" ELSE "release"]
        /\ pc' \in [Requests -> Completing \cup {"idle", "store"}]
        /\ faults' \in 0 .. MaxFaults
    BY <1>14, OutcomeTyped DEF Assemble
  <2>6. TypeOK'
    BY <1>14, <2>1, <2>3, <2>4, <2>5 DEF Assemble, TypeOK
  <2>7. Located'
    BY <1>14, <2>1, <2>2, <2>5 DEF Assemble, TypeOK, Located
  <2> QED BY <2>6, <2>7
<1>15. ASSUME NEW ok \in BOOLEAN, DropCopy(r, ok) PROVE TypeInv'
  <2>1. target[r] \in Uploads
    BY <1>15 DEF DropCopy, Located
  <2>2. url' \in [Requests -> Urls \cup {NoUrl}]
    BY <1>15, <2>1 DEF DropCopy, Urls, TypeOK
  <2>3. /\ pc' = [pc EXCEPT ![r] = IF ok THEN "mark" ELSE "release"]
        /\ pc' \in [Requests -> Completing \cup {"idle", "store"}]
        /\ faults' \in 0 .. MaxFaults
    BY <1>15, OutcomeTyped DEF DropCopy
  <2>4. TypeOK'
    BY <1>15, <2>2, <2>3, ErasureTyped DEF DropCopy, TypeOK
  <2>5. Located'
    BY <1>15, <2>1, <2>3 DEF DropCopy, TypeOK, Located, Urls
  <2> QED BY <2>4, <2>5
<1>16. ASSUME NEW ok \in BOOLEAN, Mark(r, ok) PROVE TypeInv'
  <2>a. target[r] \in Uploads /\ url[r] \in Urls
    BY <1>16 DEF Mark, Located
  <2>b. \A old \in Sessions, address \in Urls :
            [old EXCEPT !.state = "assembled", !.storedUrl = address] \in Sessions
    BY DEF Sessions, States
  <2>1. session' \in [Uploads -> Sessions \cup {NoRow}]
    BY <1>16, <2>a, <2>b DEF Mark, UpdateRow, Exists, TypeOK
  <2>2. /\ pc' = [pc EXCEPT ![r] = IF ok THEN "verify" ELSE "release"]
        /\ pc' \in [Requests -> Completing \cup {"idle", "store"}]
        /\ faults' \in 0 .. MaxFaults
    BY <1>16, OutcomeTyped DEF Mark
  <2> QED BY <1>16, <2>1, <2>2 DEF Mark, TypeOK, Located
<1>17. ASSUME NEW ok \in BOOLEAN, Finish(r, ok) PROVE TypeInv'
  <2>1. /\ records' \in [Uploads -> Nat]
        /\ published' \in [Uploads -> SUBSET Urls]
    BY <1>17 DEF Finish, TypeOK, Located
  <2>2. /\ pc' = [pc EXCEPT ![r] = IF ok THEN "save" ELSE "release"]
        /\ pc' \in [Requests -> Completing \cup {"idle", "store"}]
        /\ faults' \in 0 .. MaxFaults
    BY <1>17, OutcomeTyped DEF Finish
  <2> QED BY <1>17, <2>1, <2>2 DEF Finish, TypeOK, Located
<1>18. ASSUME NEW ok \in BOOLEAN, SaveResult(r, ok) PROVE TypeInv'
  <2>a. target[r] \in Uploads
    BY <1>18 DEF SaveResult, Located
  <2>b. \A old \in Sessions : [old EXCEPT !.result = TRUE] \in Sessions
    BY DEF Sessions
  <2>1. session' \in [Uploads -> Sessions \cup {NoRow}]
    BY <1>18, <2>a, <2>b DEF SaveResult, UpdateRow, Exists, TypeOK
  <2>2. /\ pc' = [pc EXCEPT ![r] = IF ok THEN "cleanup" ELSE "release"]
        /\ pc' \in [Requests -> Completing \cup {"idle", "store"}]
        /\ faults' \in 0 .. MaxFaults
    BY <1>18, OutcomeTyped DEF SaveResult
  <2> QED BY <1>18, <2>1, <2>2 DEF SaveResult, TypeOK, Located
<1>19. ASSUME NEW ok \in BOOLEAN, Cleanup(r, ok) PROVE TypeInv'
  BY <1>19, OutcomeTyped, DeletionTyped DEF Cleanup, TypeOK, Located
<1> QED
  BY <1>1, <1>2, <1>3, <1>4, <1>5, <1>6, <1>7, <1>8, <1>9, <1>10, <1>11,
     <1>12, <1>13, <1>14, <1>15, <1>16, <1>17, <1>18, <1>19 DEF Progress

LEMMA StepTyped == TypeInv /\ [Next]_vars => TypeInv'
<1> SUFFICES ASSUME TypeInv, [Next]_vars PROVE TypeInv'
  OBVIOUS
<1>1. CASE Next
  BY <1>1, ArrivalsTyped, FaultsTyped, SessionsTyped, ProgressTyped DEF Next
<1>2. CASE UNCHANGED vars
  <2>1. /\ UNCHANGED rows /\ UNCHANGED objects /\ UNCHANGED business
        /\ UNCHANGED ambient /\ UNCHANGED requests /\ faults' = faults
    BY <1>2 DEF vars
  <2> QED BY <2>1 DEF TypeInv, TypeOK, Located
<1> QED BY <1>1, <1>2

\* Every reachable state is well typed, and no call of a handler is reached
\* without the row or the address it works on.
THEOREM TypeCorrect == Spec => []TypeOK
<1>1. TypeInv => TypeOK
  BY DEF TypeInv
<1> QED BY InitTyped, StepTyped, <1>1, PTL DEF Spec

----------------------------------------------------------------------------
(* Mutual exclusion of completions *)

\* The row of an upload being completed is claimed, and freshly so, unless it
\* was pruned; a pruned row never comes back, as ids are not reused.
Held ==
    \A r \in Requests : pc[r] \in Completing =>
        /\ plan[target[r]] # 0
        /\ Exists(target[r]) =>
               /\ session[target[r]].state \in {"completing", "assembled"}
               /\ session[target[r]].started = "recent"

Planned == \A u \in Uploads : Exists(u) => plan[u] # 0

\* The calls of a completion up to the one that stores its result.
BeforeSave == {"count", "lookup", "assemble", "transform", "offload", "drop",
               "mark", "verify", "finish", "save"}

\* A completion that may still insert the business row works on a session
\* without a stored result.
Unsaved ==
    \A r \in Requests : pc[r] \in BeforeSave /\ Exists(target[r]) =>
        ~session[target[r]].result

ClaimInv == TypeInv /\ Held /\ Planned /\ Unsaved /\ ExclusiveCompletion

\* What a step of a request that has arrived can touch.
StaysLocal(r) ==
    /\ pc[r] # "idle" /\ target[r] \in Uploads
    /\ target' = target /\ plan' = plan
    /\ \A s \in Requests \ {r} : pc'[s] = pc[s]
    /\ \A u \in Uploads \ {target[r]} : session'[u] = session[u]
    /\ pc[r] = "store" => session' = session

\* A request that goes on keeps its claim, and goes back to no earlier phase.
KeepsClaim(r) ==
    \/ pc'[r] = "idle"
    \/ /\ pc[r] \in Completing /\ pc'[r] \in Completing
       /\ session'[target[r]] # NoRow =>
              /\ session[target[r]] # NoRow
              /\ session'[target[r]].state \in {session[target[r]].state, "assembled"}
              /\ session'[target[r]].started = session[target[r]].started
              /\ pc'[r] \in BeforeSave =>
                     session'[target[r]].result = session[target[r]].result
       /\ pc'[r] \in BeforeSave => pc[r] \in BeforeSave

\* A row that did not exist before the step does not exist after it.
NoResurrection == \A u \in Uploads : session[u] = NoRow => session'[u] = NoRow

LEMMA ProgressIsLocal ==
    ASSUME TypeInv, NEW r \in Requests, Progress(r)
    PROVE  StaysLocal(r) /\ KeepsClaim(r) /\ NoResurrection
<1>0. TypeOK /\ (pc[r] # "idle" => target[r] \in Uploads)
  BY DEF TypeInv, Located
<1> USE <1>0 DEF StaysLocal, KeepsClaim, NoResurrection, Completing, BeforeSave
<1>1. CASE Discard(r)
  BY <1>1 DEF Discard, DeleteSessions, TypeOK
<1>2. CASE Count(r)
  BY <1>2 DEF Count, TypeOK
<1>3. CASE Reopen(r)
  BY <1>3 DEF Reopen, UpdateRow, Exists, TypeOK
<1>4. CASE Lookup(r)
  BY <1>4 DEF Lookup, TypeOK
<1>5. CASE AssembleNothing(r)
  BY <1>5 DEF AssembleNothing, TypeOK
<1>6. CASE Transform(r)
  BY <1>6 DEF Transform, TypeOK
<1>7. CASE KeepInDatabase(r)
  BY <1>7 DEF KeepInDatabase, TypeOK
<1>8. CASE Offload(r)
  BY <1>8 DEF Offload, TypeOK
<1>9. CASE Verify(r)
  BY <1>9 DEF Verify, TypeOK
<1>10. CASE Erase(r)
  BY <1>10 DEF Erase, TypeOK
<1>11. CASE Forget(r)
  BY <1>11 DEF Forget, DeleteSessions, TypeOK
<1>12. CASE Release(r)
  BY <1>12 DEF Release, UpdateRow, Exists, TypeOK
<1>13. ASSUME NEW ok \in BOOLEAN, StoreChunk(r, ok)
       PROVE  StaysLocal(r) /\ KeepsClaim(r) /\ NoResurrection
  BY <1>13 DEF StoreChunk, Outcome, TypeOK
<1>14. ASSUME NEW ok \in BOOLEAN, Assemble(r, ok)
       PROVE  StaysLocal(r) /\ KeepsClaim(r) /\ NoResurrection
  BY <1>14 DEF Assemble, Outcome, TypeOK
<1>15. ASSUME NEW ok \in BOOLEAN, DropCopy(r, ok)
       PROVE  StaysLocal(r) /\ KeepsClaim(r) /\ NoResurrection
  BY <1>15 DEF DropCopy, Outcome, TypeOK
<1>16. ASSUME NEW ok \in BOOLEAN, Mark(r, ok)
       PROVE  StaysLocal(r) /\ KeepsClaim(r) /\ NoResurrection
  BY <1>16 DEF Mark, UpdateRow, Exists, Sessions, Outcome, TypeOK
<1>17. ASSUME NEW ok \in BOOLEAN, Finish(r, ok)
       PROVE  StaysLocal(r) /\ KeepsClaim(r) /\ NoResurrection
  BY <1>17 DEF Finish, Outcome, TypeOK
<1>18. ASSUME NEW ok \in BOOLEAN, SaveResult(r, ok)
       PROVE  StaysLocal(r) /\ KeepsClaim(r) /\ NoResurrection
  BY <1>18 DEF SaveResult, UpdateRow, Exists, Sessions, Outcome, TypeOK
<1>19. ASSUME NEW ok \in BOOLEAN, Cleanup(r, ok)
       PROVE  StaysLocal(r) /\ KeepsClaim(r) /\ NoResurrection
  BY <1>19 DEF Cleanup, DeleteSessions, Outcome, TypeOK
<1> QED
  BY <1>1, <1>2, <1>3, <1>4, <1>5, <1>6, <1>7, <1>8, <1>9, <1>10, <1>11,
     <1>12, <1>13, <1>14, <1>15, <1>16, <1>17, <1>18, <1>19 DEF Progress

LEMMA FaultIsLocal ==
    ASSUME TypeInv, NEW r \in Requests, Fails(r)
    PROVE  StaysLocal(r) /\ KeepsClaim(r) /\ NoResurrection
<1>0. TypeOK /\ (pc[r] # "idle" => target[r] \in Uploads)
  BY DEF TypeInv, Located
<1> USE <1>0 DEF StaysLocal, KeepsClaim, NoResurrection, Completing, BeforeSave
<1>1. CASE TransformFails(r)
  BY <1>1 DEF TransformFails, TypeOK
<1>2. CASE EraseFails(r)
  BY <1>2 DEF EraseFails, TypeOK
<1>3. CASE CallFails(r)
  BY <1>3 DEF CallFails, Guarded, TypeOK
<1>4. CASE RequestDies(r)
  BY <1>4 DEF RequestDies, Guarded, Unguarded, TypeOK
<1> QED BY <1>1, <1>2, <1>3, <1>4 DEF Fails

\* A step of one request disturbs no other completion.
LEMMA LocalStepKeepsClaims ==
    ASSUME ClaimInv, TypeInv', NEW r \in Requests,
           StaysLocal(r), KeepsClaim(r), NoResurrection
    PROVE  ClaimInv'
<1>1. Planned'
  BY DEF ClaimInv, Planned, StaysLocal, NoResurrection, Exists
<1>2. ASSUME NEW s \in Requests \ {r}, pc'[s] \in Completing
      PROVE  /\ pc[s] \in Completing
             /\ session'[target[s]] = session[target[s]]
  <2>1. pc[s] \in Completing /\ target[s] \in Uploads
    BY <1>2 DEF StaysLocal, ClaimInv, TypeInv, Located, Completing
  <2>2. CASE pc[r] = "store"
    BY <2>1, <2>2 DEF StaysLocal
  <2>3. CASE pc[r] \in Completing
    BY <2>1, <2>3 DEF StaysLocal, ClaimInv, ExclusiveCompletion, Completes
  <2>4. pc[r] = "store" \/ pc[r] \in Completing
    BY DEF StaysLocal, ClaimInv, TypeInv, TypeOK
  <2> QED BY <2>1, <2>2, <2>3, <2>4
<1>3. Held'
  <2> SUFFICES ASSUME NEW s \in Requests, pc'[s] \in Completing
               PROVE  /\ plan'[target'[s]] # 0
                      /\ session'[target'[s]] # NoRow =>
                            /\ session'[target'[s]].state \in {"completing", "assembled"}
                            /\ session'[target'[s]].started = "recent"
    BY DEF Held, Exists
  <2>1. CASE s = r
    BY <2>1 DEF StaysLocal, KeepsClaim, ClaimInv, Held, Exists, Completing
  <2>2. CASE s # r
    BY <1>2, <2>2 DEF StaysLocal, ClaimInv, Held, Exists
  <2> QED BY <2>1, <2>2
<1>4. Unsaved'
  <2> SUFFICES ASSUME NEW s \in Requests, pc'[s] \in BeforeSave,
                      session'[target'[s]] # NoRow
               PROVE  ~session'[target'[s]].result
    BY DEF Unsaved, Exists
  <2>1. CASE s = r
    BY <2>1 DEF StaysLocal, KeepsClaim, ClaimInv, Unsaved, Exists, BeforeSave
  <2>2. CASE s # r
    BY <1>2, <2>2 DEF StaysLocal, ClaimInv, Unsaved, Exists, BeforeSave,
                      Completing
  <2> QED BY <2>1, <2>2
<1>5. ExclusiveCompletion'
  <2>1. \A s \in Requests : pc'[s] \in Completing => pc[s] \in Completing
    BY <1>2 DEF KeepsClaim, Completing
  <2> QED BY <2>1 DEF StaysLocal, ClaimInv, ExclusiveCompletion, Completes
<1> QED BY <1>1, <1>3, <1>4, <1>5 DEF ClaimInv

LEMMA ArrivalKeepsClaims ==
    ASSUME ClaimInv, TypeInv', NEW r \in Requests, Arrives(r)
    PROVE  ClaimInv'
<1>1. ASSUME NEW u \in Uploads, NEW i \in Index, CheckChunk(r, u, i)
      PROVE  ClaimInv'
  <2>1. /\ session' = session /\ plan' = plan /\ pc'[r] = "store"
        /\ \A s \in Requests \ {r} : pc'[s] = pc[s] /\ target'[s] = target[s]
    BY <1>1 DEF CheckChunk, ClaimInv, TypeInv, TypeOK
  <2>2. pc'[r] \notin Completing /\ pc'[r] \notin BeforeSave
    BY <2>1 DEF Completing, BeforeSave
  <2> QED BY <2>1, <2>2 DEF ClaimInv, Held, Planned, Unsaved, Exists,
                            ExclusiveCompletion, Completes
<1>2. ASSUME NEW u \in Uploads, NEW ok \in BOOLEAN, Claim(r, u, ok)
      PROVE  ClaimInv'
  <2>1. \A s \in Requests : ~Completes(s, u)
    BY <1>2 DEF Claim, Claimable, Completes, ClaimInv, Held
  <2>2. /\ plan' = plan /\ target'[r] = u /\ session[u] # NoRow
        /\ \A s \in Requests \ {r} : pc'[s] = pc[s] /\ target'[s] = target[s]
        /\ \A v \in Uploads \ {u} : session'[v] = session[v]
    BY <1>2 DEF Claim, Exists, Outcome, ClaimInv, TypeInv, TypeOK
  <2>3. /\ session'[u].state = "completing" /\ session'[u].started = "recent"
        /\ session'[u].result = session[u].result
    BY <1>2 DEF Claim, Exists, Sessions, ClaimInv, TypeInv, TypeOK
  <2>4. pc'[r] = IF ok THEN FirstCall(session[u]) ELSE "idle"
    BY <1>2 DEF Claim, Outcome, ClaimInv, TypeInv, TypeOK
  <2>5. ASSUME NEW s \in Requests \ {r}, pc'[s] \in Completing
        PROVE  /\ pc[s] \in Completing /\ target[s] \in Uploads \ {u}
               /\ session'[target[s]] = session[target[s]]
    BY <2>1, <2>2, <2>5 DEF Completes, ClaimInv, TypeInv, Located, Completing
  <2>6. Planned'
    BY <2>2 DEF ClaimInv, Planned, Exists
  <2>7. Held'
    BY <2>2, <2>3, <2>5 DEF ClaimInv, Held, Planned, Exists
  <2>8. Unsaved'
    <3> SUFFICES ASSUME NEW s \in Requests, pc'[s] \in BeforeSave,
                        session'[target'[s]] # NoRow
                 PROVE  ~session'[target'[s]].result
      BY DEF Unsaved, Exists
    <3>1. CASE s = r
      BY <2>2, <2>3, <2>4, <3>1 DEF FirstCall, BeforeSave
    <3>2. CASE s # r
      BY <2>2, <2>5, <3>2 DEF ClaimInv, Unsaved, Exists, BeforeSave, Completing
    <3> QED BY <3>1, <3>2
  <2>9. ExclusiveCompletion'
    BY <2>2, <2>5 DEF ClaimInv, ExclusiveCompletion, Completes
  <2> QED BY <2>6, <2>7, <2>8, <2>9 DEF ClaimInv
<1> QED BY <1>1, <1>2 DEF Arrives

LEMMA SessionStepKeepsClaims ==
    ASSUME ClaimInv, TypeInv', ~SlowRequests,
           Prune \/ \E u \in Uploads : Begin(u) \/ Abort(u) \/ LeaseLapses(u)
                                           \/ GrowsOld(u)
    PROVE  ClaimInv'
<1>0. pc' = pc /\ target' = target
  BY RequestsUntouched
<1>1. \A r \in Requests : pc[r] \in Completing => target[r] \in Uploads
  BY DEF ClaimInv, TypeInv, Located, Completing
<1> SUFFICES ASSUME TRUE PROVE Held' /\ Planned' /\ Unsaved'
  BY <1>0 DEF ClaimInv, ExclusiveCompletion, Completes
<1> USE <1>0, <1>1 DEF ClaimInv, Held, Planned, Unsaved, Exists, BeforeSave, Completing
<1>2. CASE Prune
  BY <1>2 DEF Prune, DeleteSessions
<1>3. ASSUME NEW u \in Uploads, Begin(u) PROVE Held' /\ Planned' /\ Unsaved'
  BY <1>3 DEF Begin, TypeInv, TypeOK
<1>4. ASSUME NEW u \in Uploads, Abort(u) PROVE Held' /\ Planned' /\ Unsaved'
  BY <1>4 DEF Abort, DeleteSessions
<1>5. ASSUME NEW u \in Uploads, LeaseLapses(u) PROVE Held' /\ Planned' /\ Unsaved'
  BY <1>5 DEF LeaseLapses, Completes, TypeInv, TypeOK
<1>6. ASSUME NEW u \in Uploads, GrowsOld(u) PROVE Held' /\ Planned' /\ Unsaved'
  BY <1>6 DEF GrowsOld
<1> QED BY <1>2, <1>3, <1>4, <1>5, <1>6

LEMMA StepKeepsClaims == ~SlowRequests => (ClaimInv /\ [Next]_vars => ClaimInv')
<1> SUFFICES ASSUME ~SlowRequests, ClaimInv, [Next]_vars PROVE ClaimInv'
  OBVIOUS
<1>1. TypeInv'
  BY StepTyped DEF ClaimInv
<1>2. CASE \E r \in Requests : Progress(r)
  BY <1>1, <1>2, ProgressIsLocal, LocalStepKeepsClaims DEF ClaimInv
<1>3. CASE \E r \in Requests : Fails(r)
  BY <1>1, <1>3, FaultIsLocal, LocalStepKeepsClaims DEF ClaimInv
<1>4. CASE \E r \in Requests : Arrives(r)
  BY <1>1, <1>4, ArrivalKeepsClaims
<1>5. CASE Prune \/ \E u \in Uploads : Begin(u) \/ Abort(u) \/ LeaseLapses(u)
                                           \/ GrowsOld(u)
  BY <1>1, <1>5, SessionStepKeepsClaims
<1>6. CASE UNCHANGED vars
  BY <1>1, <1>6 DEF vars, ClaimInv, Held, Planned, Unsaved, Exists,
                    ExclusiveCompletion, Completes
<1> QED BY <1>2, <1>3, <1>4, <1>5, <1>6 DEF Next

LEMMA InitHoldsNoClaim == Init => ClaimInv
<1> SUFFICES ASSUME Init PROVE ClaimInv
  OBVIOUS
<1>1. \A r \in Requests : pc[r] \notin Completing /\ pc[r] \notin BeforeSave
  BY DEF Init, Completing, BeforeSave
<1>2. \A u \in Uploads : ~Exists(u)
  BY DEF Init, Exists
<1> QED BY <1>1, <1>2, InitTyped DEF ClaimInv, Held, Planned, Unsaved,
                                     ExclusiveCompletion, Completes

\* As long as no completion outlives its lease, two requests never complete
\* the same upload at the same time, whatever calls fail, whichever server
\* dies and whenever sessions are pruned: the claim is a lock.
THEOREM CompletionIsExclusive ==
    ~SlowRequests => (Spec => []ExclusiveCompletion)
<1> SUFFICES ASSUME ~SlowRequests PROVE Spec => []ExclusiveCompletion
  OBVIOUS
<1>1. ClaimInv /\ [Next]_vars => ClaimInv'
  BY StepKeepsClaims
<1>2. ClaimInv => ExclusiveCompletion
  BY DEF ClaimInv
<1> QED BY InitHoldsNoClaim, <1>1, <1>2, PTL DEF Spec

----------------------------------------------------------------------------
(* A stored result is final *)

\* Only config.finish inserts a business row.
LEMMA OnlyFinishRecords ==
    ASSUME [Next]_vars
    PROVE  \/ records' = records
           \/ \E r \in Requests :
                 /\ pc[r] = "finish"
                 /\ records' = [records EXCEPT ![target[r]] = @ + 1]
<1>1. ASSUME NEW r \in Requests, Progress(r)
      PROVE  records' = records \/ \E ok \in BOOLEAN : Finish(r, ok)
  BY <1>1 DEF Progress, Discard, Count, Reopen, Lookup, AssembleNothing,
     Transform, KeepInDatabase, Offload, Verify, Erase, Forget, Release,
     StoreChunk, Assemble, DropCopy, Mark, SaveResult, Cleanup
<1>2. ASSUME NEW r \in Requests, Fails(r) PROVE records' = records
  BY <1>2 DEF Fails, TransformFails, EraseFails, CallFails, RequestDies
<1>3. ASSUME NEW r \in Requests, Arrives(r) PROVE records' = records
  BY <1>3 DEF Arrives, CheckChunk, Claim
<1>4. CASE Prune
  BY <1>4 DEF Prune
<1>5. ASSUME NEW u \in Uploads, Begin(u) \/ Abort(u) \/ LeaseLapses(u) \/ GrowsOld(u)
      PROVE  records' = records
  BY <1>5 DEF Begin, Abort, LeaseLapses, GrowsOld
<1>6. CASE UNCHANGED vars
  BY <1>6 DEF vars
<1> QED BY <1>1, <1>2, <1>3, <1>4, <1>5, <1>6 DEF Next, Finish

\* As long as no completion outlives its lease, a completion whose result was
\* stored is never carried out again: every later one answers from the row.
THEOREM ResultIsFinal == ~SlowRequests => (Spec => StoredResultIsFinal)
<1> SUFFICES ASSUME ~SlowRequests PROVE Spec => StoredResultIsFinal
  OBVIOUS
<1>1. ClaimInv /\ [Next]_vars => ClaimInv'
  BY StepKeepsClaims
<1>2. ClaimInv /\ [Next]_vars =>
        [\A u \in Uploads : Exists(u) /\ session[u].result
                               => records'[u] = records[u]]_vars
  <2> SUFFICES ASSUME ClaimInv, [Next]_vars, NEW u \in Uploads,
                      Exists(u), session[u].result
               PROVE  records'[u] = records[u]
    OBVIOUS
  <2>1. CASE records' = records
    BY <2>1
  <2>2. CASE \E r \in Requests : /\ pc[r] = "finish"
                                 /\ records' = [records EXCEPT ![target[r]] = @ + 1]
    BY <2>2 DEF ClaimInv, Unsaved, BeforeSave, TypeInv, TypeOK
  <2> QED BY <2>1, <2>2, OnlyFinishRecords
<1> QED BY InitHoldsNoClaim, <1>1, <1>2, PTL DEF Spec, StoredResultIsFinal

----------------------------------------------------------------------------
(* The promise of UploadPromise *)

\* A result is stored only after its business row was inserted.
Recorded == \A r \in Requests : pc[r] = "save" => records[target[r]] > 0

PromiseInv == ClaimInv /\ Recorded

Promised == Promise!Next \/ UNCHANGED Promise!vars

\* What the abstract state reads of an upload's row.
SameStage == \A u \in Uploads : Stage(u)' = Stage(u)

\* A step of a request that inserts nothing and changes no stage: it goes on,
\* gives up its right to insert, or ends.
Quiet(r) ==
    /\ StaysLocal(r) /\ SameStage /\ records' = records
    /\ pc'[r] \in Completing \cup {"idle"}
    /\ pc[r] = "store" => pc'[r] = "idle"
    /\ pc'[r] \in MayPublish => pc[r] \in MayPublish

\* The request completing an upload says how it is held.
LEMMA HolderHolds ==
    ASSUME ExclusiveCompletion, NEW r \in Requests,
           pc[r] \in Completing, target[r] \in Uploads
    PROVE  Hold(target[r]) = IF pc[r] \in MayPublish THEN "held" ELSE "spent"
BY DEF Hold, ExclusiveCompletion, Completes

\* A step of one request leaves the hold of the other uploads alone.
LEMMA OthersHold ==
    ASSUME NEW r \in Requests, StaysLocal(r),
           NEW u \in Uploads, u # target[r]
    PROVE  Hold(u)' = Hold(u)
<1>1. \A s \in Requests : Completes(s, u)' <=> Completes(s, u)
  <2> SUFFICES ASSUME NEW s \in Requests PROVE Completes(s, u)' <=> Completes(s, u)
    OBVIOUS
  <2>1. CASE s = r
    BY <2>1 DEF Completes, StaysLocal
  <2>2. CASE s # r
    BY <2>2 DEF Completes, StaysLocal
  <2> QED BY <2>1, <2>2
<1>2. \A s \in Requests : Completes(s, u) => pc'[s] = pc[s]
  BY DEF Completes, StaysLocal
<1> QED BY <1>1, <1>2 DEF Hold

\* What becomes of the hold of the upload a completion is about.
LEMMA HoldAfter ==
    ASSUME ClaimInv, NEW r \in Requests, NEW u \in Uploads, u = target[r],
           StaysLocal(r), pc[r] \in Completing, pc'[r] \in Completing \cup {"idle"}
    PROVE  Hold(u)' = IF pc'[r] = "idle" THEN "free"
                      ELSE IF pc'[r] \in MayPublish THEN "held" ELSE "spent"
<1>1. target'[r] = u
  BY DEF StaysLocal
<1>2. \A s \in Requests \ {r} : ~Completes(s, u)'
  <2> SUFFICES ASSUME NEW s \in Requests \ {r}, Completes(s, u)' PROVE FALSE
    OBVIOUS
  <2>1. Completes(s, u)
    BY DEF Completes, StaysLocal
  <2>2. Completes(r, u)
    BY DEF Completes
  <2> QED BY <2>1, <2>2 DEF ClaimInv, ExclusiveCompletion
<1>3. Completes(r, u)' <=> pc'[r] \in Completing
  BY <1>1 DEF Completes
<1>4. "idle" \notin Completing /\ MayPublish \subseteq Completing
  BY DEF Completing, MayPublish
<1> QED BY <1>2, <1>3, <1>4 DEF Hold

\* The mapped state after a step that changes one upload at most.
LEMMA MappedStep ==
    ASSUME NEW u \in Uploads,
           \A v \in Uploads \ {u} : Stage(v)' = Stage(v) /\ Hold(v)' = Hold(v)
    PROVE  /\ stages[u] = Stage(u) /\ holds[u] = Hold(u)
           /\ stages' = [stages EXCEPT ![u] = Stage(u)']
           /\ holds' = [holds EXCEPT ![u] = Hold(u)']
           /\ Stage(u)' = Stage(u) => stages' = stages
           /\ Hold(u)' = Hold(u) => holds' = holds
<1>1. stages' = [v \in Uploads |-> Stage(v)'] /\ holds' = [v \in Uploads |-> Hold(v)']
  BY DEF stages, holds
<1>2. stages = [v \in Uploads |-> Stage(v)] /\ holds = [v \in Uploads |-> Hold(v)]
  BY DEF stages, holds
<1> QED BY <1>1, <1>2

\* A quiet step of a completion is a Yield, a Leave or a stutter.
LEMMA QuietIsPromised ==
    ASSUME ClaimInv, NEW r \in Requests, Quiet(r)
    PROVE  Promised
<1>1. PICK u \in Uploads : u = target[r]
  BY DEF Quiet, StaysLocal
<1>2. \A v \in Uploads : Stage(v)' = Stage(v)
  BY DEF Quiet, SameStage
<1>3. \A v \in Uploads \ {u} : Hold(v)' = Hold(v)
  BY <1>1, OthersHold DEF Quiet
<1>4. /\ stages' = stages /\ records' = records /\ holds[u] = Hold(u)
      /\ holds' = [holds EXCEPT ![u] = Hold(u)']
      /\ Hold(u)' = Hold(u) => holds' = holds
  BY <1>2, <1>3, MappedStep DEF Quiet
<1>5. \/ Hold(u)' = Hold(u)
      \/ Hold(u) = "held" /\ Hold(u)' = "spent"
      \/ Hold(u) # "free" /\ Hold(u)' = "free"
  <2>1. CASE pc[r] \in Completing
    <3>1. Hold(u) = IF pc[r] \in MayPublish THEN "held" ELSE "spent"
      BY <1>1, <2>1, HolderHolds DEF ClaimInv
    <3>2. Hold(u)' = IF pc'[r] = "idle" THEN "free"
                     ELSE IF pc'[r] \in MayPublish THEN "held" ELSE "spent"
      BY <1>1, <2>1, HoldAfter DEF Quiet
    <3> QED BY <3>1, <3>2 DEF Quiet
  <2>2. CASE pc[r] \notin Completing
    <3>1. pc[r] = "store" /\ pc'[r] = "idle"
      BY <2>2 DEF Quiet, StaysLocal, ClaimInv, TypeInv, TypeOK
    <3>2. \A s \in Requests : Completes(s, u)' <=> Completes(s, u)
      BY <3>1 DEF Completes, Completing, Quiet, StaysLocal
    <3>3. \A s \in Requests : Completes(s, u) => pc'[s] = pc[s]
      BY <3>1 DEF Completes, Completing, Quiet, StaysLocal
    <3> QED BY <3>2, <3>3 DEF Hold
  <2> QED BY <2>1, <2>2
<1>6. CASE Hold(u)' = Hold(u)
  BY <1>4, <1>6 DEF Promised, Promise!vars
<1>7. CASE Hold(u) = "held" /\ Hold(u)' = "spent"
  <2>1. Promise!Yield(u)
    BY <1>4, <1>7 DEF Promise!Yield
  <2> QED BY <2>1 DEF Promised, Promise!Next
<1>8. CASE Hold(u) # "free" /\ Hold(u)' = "free"
  <2>1. Promise!Leave(u)
    BY <1>4, <1>8 DEF Promise!Leave
  <2> QED BY <2>1 DEF Promised, Promise!Next
<1> QED BY <1>5, <1>6, <1>7, <1>8

\* An update of a session's row that keeps its result keeps the stages.
LEMMA StageOfRow ==
    ASSUME TypeOK, plan' = plan, NEW u \in Uploads, NEW row, UpdateRow(u, row),
           Exists(u) => row \in Sessions /\ row.result = session[u].result
    PROVE  SameStage
<1>1. ASSUME NEW v \in Uploads
      PROVE  /\ (session'[v] = NoRow) <=> (session[v] = NoRow)
             /\ session[v] # NoRow => session'[v].result = session[v].result
  BY <1>1, NoRowAssumption DEF UpdateRow, Exists, TypeOK
<1> QED BY <1>1 DEF SameStage, Stage, Exists

\* The calls of a completion that neither insert, nor store a result, nor
\* delete a session.
LEMMA QuietProgress ==
    ASSUME ClaimInv, NEW r \in Requests, Progress(r)
    PROVE  \/ Quiet(r)
           \/ Discard(r) \/ Forget(r)
           \/ \E ok \in BOOLEAN : Finish(r, ok) \/ SaveResult(r, ok) \/ Cleanup(r, ok)
<1>0. StaysLocal(r) /\ plan' = plan
  BY ProgressIsLocal DEF ClaimInv, StaysLocal
<1>1. TypeOK /\ (pc[r] # "idle" => target[r] \in Uploads)
  BY DEF ClaimInv, TypeInv, Located
<1>2. session' = session => SameStage
  BY <1>0 DEF SameStage, Stage, Exists
<1> USE <1>0, <1>1, <1>2 DEF Quiet, Completing, MayPublish
<1>3. CASE Count(r)
  BY <1>3 DEF Count, TypeOK
<1>4. CASE Reopen(r)
  <2> DEFINE row == [session[target[r]] EXCEPT !.state = "pending", !.started = "null"]
  <2>1. Exists(target[r]) => row \in Sessions /\ row.result = session[target[r]].result
    BY <1>4 DEF Reopen, Exists, Sessions, States, Started, TypeOK
  <2>2. UpdateRow(target[r], row)
    BY <1>4 DEF Reopen
  <2> HIDE DEF row
  <2>3. SameStage
    BY <1>4, <2>1, <2>2, StageOfRow DEF Reopen
  <2> QED BY <1>4, <2>3 DEF Reopen, TypeOK
<1>5. CASE Lookup(r)
  BY <1>5 DEF Lookup, TypeOK
<1>6. CASE AssembleNothing(r)
  BY <1>6 DEF AssembleNothing, TypeOK
<1>7. CASE Transform(r)
  BY <1>7 DEF Transform, TypeOK
<1>8. CASE KeepInDatabase(r)
  BY <1>8 DEF KeepInDatabase, TypeOK
<1>9. CASE Offload(r)
  BY <1>9 DEF Offload, TypeOK
<1>10. CASE Verify(r)
  BY <1>10 DEF Verify, TypeOK
<1>11. CASE Erase(r)
  BY <1>11 DEF Erase, TypeOK
<1>12. CASE Release(r)
  <2> DEFINE row == Released(session[target[r]])
  <2>0. \A old \in Sessions : Released(old) \in Sessions /\ Released(old).result = old.result
    BY DEF Released, Sessions, States, Started
  <2>1. Exists(target[r]) => row \in Sessions /\ row.result = session[target[r]].result
    BY <1>12, <2>0 DEF Release, Exists, TypeOK
  <2>2. UpdateRow(target[r], row)
    BY <1>12 DEF Release
  <2> HIDE DEF row
  <2>3. SameStage
    BY <1>12, <2>1, <2>2, StageOfRow DEF Release
  <2> QED BY <1>12, <2>3 DEF Release, TypeOK
<1>13. ASSUME NEW ok \in BOOLEAN, StoreChunk(r, ok) PROVE Quiet(r)
  BY <1>13 DEF StoreChunk, Outcome, TypeOK
<1>14. ASSUME NEW ok \in BOOLEAN, Assemble(r, ok) PROVE Quiet(r)
  BY <1>14 DEF Assemble, Outcome, TypeOK
<1>15. ASSUME NEW ok \in BOOLEAN, DropCopy(r, ok) PROVE Quiet(r)
  BY <1>15 DEF DropCopy, Outcome, TypeOK
<1>16. ASSUME NEW ok \in BOOLEAN, Mark(r, ok) PROVE Quiet(r)
  <2> DEFINE row == [session[target[r]] EXCEPT !.state = "assembled", !.storedUrl = url[r]]
  <2>0. url[r] \in Urls
    BY <1>16 DEF Mark, ClaimInv, TypeInv, Located
  <2>1. Exists(target[r]) => row \in Sessions /\ row.result = session[target[r]].result
    BY <1>16, <2>0 DEF Mark, Exists, Sessions, States, TypeOK
  <2>2. UpdateRow(target[r], row)
    BY <1>16 DEF Mark
  <2> HIDE DEF row
  <2>3. SameStage
    BY <1>16, <2>1, <2>2, StageOfRow DEF Mark
  <2> QED BY <1>16, <2>3 DEF Mark, Outcome, TypeOK
<1> QED
  BY <1>3, <1>4, <1>5, <1>6, <1>7, <1>8, <1>9, <1>10, <1>11, <1>12, <1>13,
     <1>14, <1>15, <1>16 DEF Progress

LEMMA QuietFaults ==
    ASSUME ClaimInv, NEW r \in Requests, Fails(r)
    PROVE  Quiet(r)
<1>0. StaysLocal(r) /\ plan' = plan
  BY FaultIsLocal DEF ClaimInv, StaysLocal
<1>1. TypeOK
  BY DEF ClaimInv, TypeInv
<1>2. session' = session => SameStage
  BY <1>0 DEF SameStage, Stage, Exists
<1> USE <1>0, <1>1, <1>2 DEF Quiet, Completing, MayPublish
<1>3. CASE TransformFails(r)
  BY <1>3 DEF TransformFails, TypeOK
<1>4. CASE EraseFails(r)
  BY <1>4 DEF EraseFails, TypeOK
<1>5. CASE CallFails(r)
  BY <1>5 DEF CallFails, Guarded, TypeOK
<1>6. CASE RequestDies(r)
  BY <1>6 DEF RequestDies, Guarded, Unguarded, TypeOK
<1> QED BY <1>3, <1>4, <1>5, <1>6 DEF Fails

\* What a completion changes at most: the stage and the hold of its upload.
LEMMA LocalStages ==
    ASSUME NEW r \in Requests, StaysLocal(r)
    PROVE  \A v \in Uploads \ {target[r]} : Stage(v)' = Stage(v)
BY DEF StaysLocal, Stage, Exists

\* The insert of the business row is a Publish.
LEMMA FinishIsPromised ==
    ASSUME ClaimInv, NEW r \in Requests, NEW ok \in BOOLEAN, Finish(r, ok)
    PROVE  Promised
<1>1. StaysLocal(r)
  BY ProgressIsLocal DEF ClaimInv, Progress
<1>2. PICK u \in Uploads : u = target[r]
  BY <1>1 DEF StaysLocal
<1>3. pc[r] = "finish" /\ pc'[r] \in {"save", "release"}
  BY DEF Finish, Outcome, ClaimInv, TypeInv, TypeOK
<1>4. Hold(u) = "held"
  BY <1>2, <1>3, HolderHolds DEF ClaimInv, Completing, MayPublish
<1>5. Hold(u)' = "spent"
  BY <1>1, <1>2, <1>3, HoldAfter DEF Completing, MayPublish
<1>6. Stage(u)' = Stage(u)
  BY DEF Finish, Stage, Exists
<1>7. Promise!Publish(u)
  <2>1. /\ stages' = stages /\ holds[u] = "held"
        /\ holds' = [holds EXCEPT ![u] = "spent"]
    BY <1>1, <1>2, <1>4, <1>5, <1>6, MappedStep, OthersHold, LocalStages
  <2>2. records' = [records EXCEPT ![u] = @ + 1]
    BY <1>2 DEF Finish
  <2> QED BY <2>1, <2>2 DEF Promise!Publish
<1> QED BY <1>7 DEF Promised, Promise!Next

\* The result is stored once, after the insert: a Settle, unless the session
\* is gone.
LEMMA SaveIsPromised ==
    ASSUME PromiseInv, NEW r \in Requests, NEW ok \in BOOLEAN, SaveResult(r, ok)
    PROVE  Promised
<1>0. ClaimInv /\ TypeOK
  BY DEF PromiseInv, ClaimInv, TypeInv
<1>1. StaysLocal(r)
  BY <1>0, ProgressIsLocal DEF ClaimInv, Progress
<1>2. PICK u \in Uploads : u = target[r]
  BY <1>1 DEF StaysLocal
<1>3. pc[r] = "save" /\ pc'[r] \in {"cleanup", "release"}
  BY <1>0 DEF SaveResult, Outcome, TypeOK
<1>4. Hold(u) = "spent"
  BY <1>0, <1>2, <1>3, HolderHolds DEF ClaimInv, Completing, MayPublish
<1>5. Hold(u)' = Hold(u)
  BY <1>0, <1>1, <1>2, <1>3, <1>4, HoldAfter DEF Completing, MayPublish
<1>6. /\ stages[u] = Stage(u) /\ holds[u] = "spent" /\ holds' = holds
      /\ stages' = [stages EXCEPT ![u] = Stage(u)']
      /\ Stage(u)' = Stage(u) => stages' = stages
  BY <1>1, <1>2, <1>4, <1>5, MappedStep, OthersHold, LocalStages
<1>7. records' = records /\ records[u] > 0 /\ plan' = plan
  BY <1>2, <1>3 DEF SaveResult, PromiseInv, Recorded
<1>8. CASE Exists(u)
  <2>1. session[u] \in Sessions /\ ~session[u].result
    BY <1>0, <1>2, <1>3, <1>8 DEF Exists, TypeOK, ClaimInv, Unsaved, BeforeSave
  <2>2. session'[u] \in Sessions /\ session'[u].result
    BY <1>0, <1>2, <1>8, <2>1 DEF SaveResult, UpdateRow, Sessions, TypeOK
  <2>3. Stage(u) = "open" /\ Stage(u)' = "settled"
    BY <1>8, <2>1, <2>2, NoRowAssumption DEF Stage, Exists
  <2>4. Promise!Settle(u)
    BY <1>6, <1>7, <2>3 DEF Promise!Settle
  <2> QED BY <2>4 DEF Promised, Promise!Next
<1>9. CASE ~Exists(u)
  <2>1. session' = session
    BY <1>2, <1>9 DEF SaveResult, UpdateRow
  <2>2. Stage(u)' = Stage(u)
    BY <1>7, <2>1 DEF Stage, Exists
  <2> QED BY <1>6, <1>7, <2>2 DEF Promised, Promise!vars
<1> QED BY <1>8, <1>9

\* Only its holder closes an upload, when it inserts nothing more.
LEMMA ClosingIsPromised ==
    ASSUME ClaimInv, NEW r \in Requests,
           Discard(r) \/ Forget(r) \/ \E ok \in BOOLEAN : Cleanup(r, ok)
    PROVE  Promised
<1>0. TypeOK
  BY DEF ClaimInv, TypeInv
<1>1. StaysLocal(r)
  BY ProgressIsLocal DEF ClaimInv, Progress
<1>2. PICK u \in Uploads : u = target[r]
  BY <1>1 DEF StaysLocal
<1>3. /\ pc[r] \in {"discard", "forget", "cleanup"} /\ pc'[r] \in {"idle", "release"}
      /\ session'[u] = NoRow /\ records' = records /\ plan' = plan
  BY <1>0, <1>2 DEF Discard, Forget, Cleanup, Outcome, DeleteSessions, TypeOK
<1>4. Hold(u) = "spent"
  BY <1>2, <1>3, HolderHolds DEF ClaimInv, Completing, MayPublish
<1>5. Hold(u)' \in {"free", "spent"}
  BY <1>1, <1>2, <1>3, HoldAfter DEF Completing, MayPublish
<1>6. /\ stages[u] = Stage(u) /\ holds[u] = "spent"
      /\ stages' = [stages EXCEPT ![u] = Stage(u)']
      /\ holds' = [holds EXCEPT ![u] = Hold(u)']
      /\ Stage(u)' = Stage(u) => stages' = stages
      /\ Hold(u)' = Hold(u) => holds' = holds
  BY <1>1, <1>2, <1>4, MappedStep, OthersHold, LocalStages
<1>7. plan[u] # 0
  BY <1>2, <1>3 DEF ClaimInv, Held, Completing
<1>8. Stage(u)' = "gone"
  BY <1>3, <1>7 DEF Stage, Exists
<1>9. CASE Exists(u)
  <2>1. Stage(u) \in {"open", "settled"}
    BY <1>9 DEF Stage
  <2>2. Promise!Close(u)
    BY <1>3, <1>4, <1>5, <1>6, <1>8, <2>1 DEF Promise!Close
  <2> QED BY <2>2 DEF Promised, Promise!Next
<1>10. CASE ~Exists(u)
  <2>1. stages' = stages
    BY <1>6, <1>7, <1>8, <1>10 DEF Stage
  <2>2. CASE Hold(u)' = "free"
    <3>1. Promise!Leave(u)
      BY <1>3, <1>6, <2>1, <2>2 DEF Promise!Leave
    <3> QED BY <3>1 DEF Promised, Promise!Next
  <2>3. CASE Hold(u)' = "spent"
    BY <1>3, <1>4, <1>6, <2>1, <2>3 DEF Promised, Promise!vars
  <2> QED BY <1>5, <2>2, <2>3
<1> QED BY <1>9, <1>10

\* A request that arrives takes the upload, or nothing: the claim is granted
\* only on a session nobody holds.
LEMMA ArrivalIsPromised ==
    ASSUME ClaimInv, NEW r \in Requests, Arrives(r)
    PROVE  Promised
<1>0. TypeOK
  BY DEF ClaimInv, TypeInv
<1>1. ASSUME NEW u \in Uploads, NEW i \in Index, CheckChunk(r, u, i)
      PROVE  Promised
  <2>1. session' = session /\ plan' = plan /\ records' = records
    BY <1>1 DEF CheckChunk
  <2>2. \A v \in Uploads : Stage(v)' = Stage(v)
    BY <2>1 DEF Stage, Exists
  <2>3. \A s \in Requests, v \in Uploads :
            /\ Completes(s, v)' <=> Completes(s, v)
            /\ Completes(s, v) => pc'[s] = pc[s]
    BY <1>0, <1>1 DEF CheckChunk, Completes, Completing, TypeOK
  <2>4. \A v \in Uploads : Hold(v)' = Hold(v)
    BY <2>3 DEF Hold
  <2> QED BY <2>1, <2>2, <2>4, MappedStep DEF Promised, Promise!vars
<1>2. ASSUME NEW u \in Uploads, NEW ok \in BOOLEAN, Claim(r, u, ok)
      PROVE  Promised
  <2>1. /\ \A s \in Requests : ~Completes(s, u)
        /\ session[u] \in Sessions
    BY <1>0, <1>2 DEF Claim, Claimable, Completes, ClaimInv, Held, Exists, TypeOK
  <2>2. /\ pc[r] = "idle" /\ target'[r] = u /\ plan' = plan /\ records' = records
        /\ pc'[r] = IF ok THEN FirstCall(session[u]) ELSE "idle"
        /\ \A s \in Requests \ {r} : pc'[s] = pc[s] /\ target'[s] = target[s]
    BY <1>0, <1>2 DEF Claim, Outcome, TypeOK
  <2>3. \A v \in Uploads : Stage(v)' = Stage(v)
    <3>1. /\ session'[u] \in Sessions /\ session'[u].result = session[u].result
          /\ \A v \in Uploads \ {u} : session'[v] = session[v]
      BY <1>0, <1>2, <2>1 DEF Claim, Sessions, States, Started, TypeOK
    <3> QED BY <2>1, <2>2, <3>1, NoRowAssumption DEF Stage, Exists
  <2>4. \A v \in Uploads \ {u} : Hold(v)' = Hold(v)
    <3>1. \A s \in Requests, v \in Uploads \ {u} :
              /\ Completes(s, v)' <=> Completes(s, v)
              /\ Completes(s, v) => pc'[s] = pc[s]
      BY <2>2 DEF Completes, Completing
    <3> QED BY <3>1 DEF Hold
  <2>5. Hold(u) = "free"
    BY <2>1 DEF Hold
  <2>6. \A s \in Requests \ {r} : ~Completes(s, u)'
    BY <2>1, <2>2 DEF Completes
  <2>7. /\ stages' = stages /\ stages[u] = Stage(u) /\ holds[u] = "free"
        /\ holds' = [holds EXCEPT ![u] = Hold(u)']
        /\ Hold(u)' = Hold(u) => holds' = holds
    BY <2>3, <2>4, <2>5, MappedStep
  <2>8. CASE ~ok
    <3>1. \A s \in Requests : ~Completes(s, u)'
      BY <2>2, <2>6, <2>8 DEF Completes, Completing
    <3>2. Hold(u)' = "free"
      BY <3>1 DEF Hold
    <3> QED BY <2>2, <2>5, <2>7, <3>2 DEF Promised, Promise!vars
  <2>9. CASE ok
    <3>1. Completes(r, u)' /\ pc'[r] = IF session[u].result THEN "discard" ELSE "count"
      BY <2>2, <2>9 DEF Completes, Completing, FirstCall
    <3>2. Hold(u)' = IF session[u].result THEN "spent" ELSE "held"
      BY <2>6, <3>1 DEF Hold, MayPublish
    <3>3. Stage(u) = IF session[u].result THEN "settled" ELSE "open"
      BY <2>1, NoRowAssumption DEF Stage, Exists
    <3>4. Promise!Take(u)
      BY <2>2, <2>7, <3>2, <3>3 DEF Promise!Take
    <3> QED BY <3>4 DEF Promised, Promise!Next
  <2> QED BY <2>8, <2>9
<1> QED BY <1>1, <1>2 DEF Arrives

\* The steps that are no request's open an upload, lose some, or change
\* nothing of the promise.
LEMMA SessionStepIsPromised ==
    ASSUME ClaimInv, Prune \/ \E u \in Uploads : Begin(u) \/ Abort(u) \/ LeaseLapses(u)
                                                     \/ GrowsOld(u)
    PROVE  Promised
<1>0. TypeOK
  BY DEF ClaimInv, TypeInv
<1>1. \A v \in Uploads : Hold(v)' = Hold(v)
  BY RequestsUntouched DEF Hold, Completes
<1>2. holds' = holds
  <2>1. holds' = [v \in Uploads |-> Hold(v)'] /\ holds = [v \in Uploads |-> Hold(v)]
    BY DEF holds
  <2> QED BY <1>1, <2>1
<1>3. stages' = [v \in Uploads |-> Stage(v)'] /\ stages = [v \in Uploads |-> Stage(v)]
  BY DEF stages
<1>4. ASSUME NEW gone \in SUBSET Uploads, DeleteSessions(gone), plan' = plan,
             records' = records, \A u \in gone : session[u] = NoRow \/ plan[u] # 0
      PROVE  Promised
  <2>1. \A v \in Uploads : \/ Stage(v)' = Stage(v)
                           \/ Stage(v) # "none" /\ Stage(v)' = "gone"
    BY <1>4 DEF DeleteSessions, Stage, Exists
  <2>2. \A v \in Uploads : Stage(v)' \in Promise!Stages
    BY DEF Stage, Promise!Stages
  <2>3. Promise!Lose
    BY <1>2, <1>3, <1>4, <2>1, <2>2 DEF Promise!Lose
  <2> QED BY <2>3 DEF Promised, Promise!Next
<1>5. CASE Prune
  <2>1. aged \subseteq Uploads /\ \A u \in aged : session[u] = NoRow \/ plan[u] # 0
    BY <1>0 DEF TypeOK, ClaimInv, Planned, Exists
  <2> QED BY <1>4, <1>5, <2>1 DEF Prune
<1>6. ASSUME NEW u \in Uploads, Abort(u) PROVE Promised
  <2>1. \A v \in {u} : session[v] = NoRow \/ plan[v] # 0
    BY DEF ClaimInv, Planned, Exists
  <2> QED BY <1>4, <1>6, <2>1 DEF Abort
<1>7. ASSUME NEW u \in Uploads, Begin(u) PROVE Promised
  <2>1. PICK total \in 1 .. MaxChunks :
            /\ plan' = [plan EXCEPT ![u] = total]
            /\ session' = [session EXCEPT ![u] = NewSession(total)]
    BY <1>7 DEF Begin
  <2>2. Stage(u) = "none"
    BY <1>7 DEF Begin, ClaimInv, Planned, Stage
  <2>3. Stage(u)' = "open"
    <3>1. NewSession(total) \in Sessions /\ ~NewSession(total).result
      BY DEF NewSession, Sessions, States, Started
    <3>2. session'[u] = NewSession(total)
      BY <1>0, <2>1 DEF TypeOK
    <3> QED BY <3>1, <3>2, NoRowAssumption DEF Stage, Exists
  <2>4. \A v \in Uploads \ {u} : Stage(v)' = Stage(v)
    BY <1>0, <2>1 DEF Stage, Exists, TypeOK
  <2>5. stages[u] = "none" /\ stages' = [stages EXCEPT ![u] = "open"]
    BY <1>1, <2>2, <2>3, <2>4, MappedStep
  <2>6. Promise!Open(u)
    BY <1>2, <1>7, <2>5 DEF Promise!Open, Begin
  <2> QED BY <2>6 DEF Promised, Promise!Next
<1>8. ASSUME NEW u \in Uploads, LeaseLapses(u) PROVE Promised
  <2>1. /\ \A v \in Uploads : /\ (session'[v] = NoRow) <=> (session[v] = NoRow)
                              /\ session[v] # NoRow => session'[v].result = session[v].result
        /\ plan' = plan /\ records' = records
    <3>1. session[u] \in Sessions
      BY <1>0, <1>8 DEF LeaseLapses, Exists, TypeOK
    <3>2. /\ session'[u] \in Sessions /\ session'[u].result = session[u].result
          /\ \A v \in Uploads \ {u} : session'[v] = session[v]
      BY <1>0, <1>8, <3>1 DEF LeaseLapses, Sessions, Started, TypeOK
    <3> QED BY <1>8, <3>1, <3>2, NoRowAssumption DEF LeaseLapses
  <2>2. \A v \in Uploads : Stage(v)' = Stage(v)
    BY <2>1 DEF Stage, Exists
  <2> QED BY <1>2, <1>3, <2>1, <2>2 DEF Promised, Promise!vars
<1>9. ASSUME NEW u \in Uploads, GrowsOld(u) PROVE Promised
  <2>1. \A v \in Uploads : Stage(v)' = Stage(v)
    BY <1>9 DEF GrowsOld, Stage, Exists
  <2> QED BY <1>2, <1>3, <1>9, <2>1 DEF GrowsOld, Promised, Promise!vars
<1> QED BY <1>5, <1>6, <1>7, <1>8, <1>9

LEMMA StepIsPromised == PromiseInv /\ [Next]_vars => [Promise!Next]_(Promise!vars)
<1> SUFFICES ASSUME PromiseInv, [Next]_vars PROVE Promised
  BY DEF Promised
<1>0. ClaimInv
  BY DEF PromiseInv
<1>1. ASSUME NEW r \in Requests, Progress(r) PROVE Promised
  BY <1>0, <1>1, QuietProgress, QuietIsPromised, FinishIsPromised, SaveIsPromised,
     ClosingIsPromised
<1>2. ASSUME NEW r \in Requests, Fails(r) PROVE Promised
  BY <1>0, <1>2, QuietFaults, QuietIsPromised
<1>3. ASSUME NEW r \in Requests, Arrives(r) PROVE Promised
  BY <1>0, <1>3, ArrivalIsPromised
<1>4. CASE Prune \/ \E u \in Uploads : Begin(u) \/ Abort(u) \/ LeaseLapses(u)
                                           \/ GrowsOld(u)
  BY <1>0, <1>4, SessionStepIsPromised
<1>5. CASE UNCHANGED vars
  <2>1. \A u \in Uploads : Stage(u)' = Stage(u) /\ Hold(u)' = Hold(u)
    BY <1>5 DEF vars, Stage, Hold, Exists, Completes
  <2>2. stages' = [v \in Uploads |-> Stage(v)'] /\ stages = [v \in Uploads |-> Stage(v)]
    BY DEF stages
  <2>3. holds' = [v \in Uploads |-> Hold(v)'] /\ holds = [v \in Uploads |-> Hold(v)]
    BY DEF holds
  <2>4. stages' = stages /\ holds' = holds
    BY <2>1, <2>2, <2>3
  <2> QED BY <1>5, <2>4 DEF vars, Promised, Promise!vars
<1> QED BY <1>1, <1>2, <1>3, <1>4, <1>5 DEF Next

\* Only the insert of the business row leads to the statement that stores its
\* result.
LEMMA StepRecords == PromiseInv /\ [Next]_vars => Recorded'
<1> SUFFICES ASSUME PromiseInv, [Next]_vars, NEW s \in Requests, pc'[s] = "save"
             PROVE  records'[target'[s]] > 0
  BY DEF Recorded
<1>0. TypeOK /\ ClaimInv
  BY DEF PromiseInv, ClaimInv, TypeInv
<1>1. \A u \in Uploads : records[u] \in Nat /\ records'[u] \in Nat /\ records'[u] >= records[u]
  BY <1>0, OnlyFinishRecords DEF TypeOK
<1>2. CASE pc[s] = "save" /\ target'[s] = target[s]
  BY <1>0, <1>1, <1>2 DEF PromiseInv, Recorded, ClaimInv, TypeInv, Located
<1>3. CASE \E ok \in BOOLEAN : Finish(s, ok)
  BY <1>0, <1>3 DEF Finish, TypeOK, ClaimInv, TypeInv, Located
<1>4. \/ pc[s] = "save" /\ target'[s] = target[s]
      \/ \E ok \in BOOLEAN : Finish(s, ok)
  <2>1. ASSUME NEW r \in Requests, StaysLocal(r), r # s
        PROVE  pc[s] = "save" /\ target'[s] = target[s]
    BY <2>1 DEF StaysLocal
  <2>2. ASSUME NEW r \in Requests, Progress(r)
        PROVE  \/ pc[s] = "save" /\ target'[s] = target[s]
               \/ \E ok \in BOOLEAN : Finish(s, ok)
    <3>1. StaysLocal(r)
      BY <1>0, <2>2, ProgressIsLocal DEF ClaimInv
    <3>2. CASE r = s
      BY <1>0, <2>2, <3>2 DEF Progress, Discard, Count, Reopen, Lookup, AssembleNothing,
         Transform, KeepInDatabase, Offload, Verify, Erase, Forget, Release,
         StoreChunk, Assemble, DropCopy, Mark, SaveResult, Cleanup, Outcome, TypeOK
    <3> QED BY <2>1, <3>1, <3>2
  <2>3. ASSUME NEW r \in Requests, Fails(r)
        PROVE  pc[s] = "save" /\ target'[s] = target[s]
    <3>1. StaysLocal(r)
      BY <1>0, <2>3, FaultIsLocal DEF ClaimInv
    <3>2. CASE r = s
      BY <1>0, <2>3, <3>2 DEF Fails, TransformFails, EraseFails, CallFails, RequestDies, TypeOK
    <3> QED BY <2>1, <3>1, <3>2
  <2>4. ASSUME NEW r \in Requests, Arrives(r)
        PROVE  pc[s] = "save" /\ target'[s] = target[s]
    BY <1>0, <2>4 DEF Arrives, CheckChunk, Claim, FirstCall, Outcome, TypeOK
  <2>5. CASE Prune \/ \E u \in Uploads : Begin(u) \/ Abort(u) \/ LeaseLapses(u)
                                             \/ GrowsOld(u)
    BY <2>5, RequestsUntouched
  <2>6. CASE UNCHANGED vars
    BY <2>6 DEF vars
  <2> QED BY <2>2, <2>3, <2>4, <2>5, <2>6 DEF Next
<1> QED BY <1>2, <1>3, <1>4

\* As long as no completion outlives its lease, the handler implements the
\* promise, whatever calls fail, whichever server dies and whenever sessions
\* are pruned: one completion holds an upload at a time, each inserts at most
\* one business row, and none after a result was stored.
THEOREM PromiseIsKept == ~SlowRequests => (Spec => KeepsPromise)
<1> SUFFICES ASSUME ~SlowRequests PROVE Spec => KeepsPromise
  OBVIOUS
<1>1. Init => PromiseInv /\ Promise!Init
  <2> SUFFICES ASSUME Init PROVE PromiseInv /\ Promise!Init
    OBVIOUS
  <2>1. Recorded
    BY DEF Init, Recorded
  <2>2. \A u \in Uploads : Stage(u) = "none" /\ Hold(u) = "free"
    BY DEF Init, Stage, Hold, Exists, Completes, Completing
  <2>3. Promise!Init
    BY <2>2 DEF Init, Promise!Init, stages, holds
  <2> QED BY <2>1, <2>3, InitHoldsNoClaim DEF PromiseInv
<1>2. PromiseInv /\ [Next]_vars => PromiseInv'
  BY StepKeepsClaims, StepRecords DEF PromiseInv
<1> QED BY <1>1, <1>2, StepIsPromised, PTL DEF Spec, KeepsPromise, Promise!Spec
----------------------------------------------------------------------------
(* What is published stays sound *)

\* The calls of a completion that work on the object at url.
Carriers == {"transform", "offload", "drop", "mark", "verify", "erase", "finish"}

\* An object of the upload that went through config.transform.
Ready(object, u) == object # NoMedia /\ object.upload = u /\ object.processed

\* An address a completion of the upload may hold: what it names is ready, or
\* was erased.
Usable(address, u) ==
    \/ address = BucketUrl(u) /\ Ready(bucket[u], u)
    \/ \E id \in MediaId : /\ address = DatabaseUrl(id) /\ id <= minted
                           /\ media[id] = NoMedia \/ Ready(media[id], u)

\* An address of which no clean-up erases the object.
Lasting(address, u) ==
    /\ Usable(address, u)
    /\ \A id \in MediaId : address = DatabaseUrl(id) =>
                               media[id] # NoMedia /\ u \notin Mistyped

\* Before it has marked the session, a completion is alone with its object.
Knows(r, id) == pc[r] \in {"transform", "offload", "drop", "mark"} /\ url[r] = DatabaseUrl(id)

PrivateTo(r, id) ==
    /\ id <= minted
    /\ media[id] # NoMedia /\ media[id].upload = target[r]
    /\ pc[r] # "transform" => media[id].processed
    /\ pc[r] = "drop" => Ready(bucket[target[r]], target[r])
    /\ \A s \in Requests \ {r} : pc[s] \in Carriers => url[s] # DatabaseUrl(id)
    /\ \A u \in Uploads : /\ DatabaseUrl(id) \notin published[u]
                          /\ Exists(u) => session[u].storedUrl # DatabaseUrl(id)

\* What a completion rejects is of the wrong type, or already erased.
Rejectable(address) == \E id \in MediaId :
    /\ address = DatabaseUrl(id) /\ id <= minted
    /\ media[id] = NoMedia \/ media[id].upload \in Mistyped

CarriesSound(r) ==
    /\ \A id \in MediaId : Knows(r, id) => PrivateTo(r, id)
    /\ pc[r] \in {"mark", "verify"} => Usable(url[r], target[r])
    /\ pc[r] = "erase" => Rejectable(url[r])
    /\ pc[r] = "finish" => Lasting(url[r], target[r])

AllCarrySound   == \A r \in Requests : CarriesSound(r)
Fresh           == \A id \in MediaId : id > minted => media[id] = NoMedia
RowsUsable      == \A u \in Uploads : Exists(u) /\ session[u].storedUrl # NoUrl
                                          => Usable(session[u].storedUrl, u)
BusinessLasting == \A u \in Uploads : \A address \in published[u] : Lasting(address, u)

MediaInv == TypeInv /\ AllCarrySound /\ Fresh /\ RowsUsable /\ BusinessLasting

LEMMA Addresses ==
    /\ \A i, j \in MediaId : DatabaseUrl(i) = DatabaseUrl(j) => i = j
    /\ \A i \in MediaId, u \in Uploads : DatabaseUrl(i) # BucketUrl(u)
    /\ \A i \in MediaId : /\ DatabaseUrl(i) # NoUrl /\ DatabaseUrl(i).storage = "database"
                          /\ DatabaseUrl(i).key = i /\ DatabaseUrl(i) \in Urls
    /\ \A u \in Uploads : /\ BucketUrl(u).storage = "object-store" /\ BucketUrl(u).key = u
                          /\ BucketUrl(u) \in Urls
    /\ \A a \in Urls : \/ \E i \in MediaId : a = DatabaseUrl(i)
                       \/ \E u \in Uploads : a = BucketUrl(u)
<1>1. \A i \in MediaId : /\ DatabaseUrl(i).storage = "database"
                         /\ DatabaseUrl(i).key = i /\ DatabaseUrl(i) \in Urls
  BY DEF DatabaseUrl, Urls
<1>2. \A u \in Uploads : /\ BucketUrl(u).storage = "object-store" /\ BucketUrl(u).key = u
                         /\ BucketUrl(u) \in Urls
  BY DEF BucketUrl, Urls
<1>3. \A a \in Urls : \/ \E i \in MediaId : a = DatabaseUrl(i)
                      \/ \E u \in Uploads : a = BucketUrl(u)
  BY DEF Urls
<1>4. \A i \in MediaId, u \in Uploads : DatabaseUrl(i) # BucketUrl(u)
  BY <1>1, <1>2
<1>5. \A i \in MediaId : DatabaseUrl(i) # NoUrl
  BY <1>1, AbsentAssumption
<1> QED BY <1>1, <1>2, <1>3, <1>4, <1>5

\* The stores only get better for those who hold an address: an object keeps
\* its upload, a processed one stays so, and nothing comes back.
StoreGrows ==
    /\ minted <= minted'
    /\ \A id \in MediaId : id <= minted /\ media'[id] # NoMedia =>
          /\ media[id] # NoMedia /\ media'[id].upload = media[id].upload
          /\ media[id].processed => media'[id].processed
    /\ \A u \in Uploads : Ready(bucket[u], u) => Ready(bucket'[u], u)

LEMMA UsableStays ==
    ASSUME TypeOK, TypeOK', StoreGrows, NEW u \in Uploads, NEW address, Usable(address, u)
    PROVE  Usable(address, u)'
<1>1. minted \in Nat /\ minted' \in Nat /\ MediaId \subseteq Nat
  BY SizesAssumption DEF TypeOK, MediaId
<1>2. CASE address = BucketUrl(u) /\ Ready(bucket[u], u)
  BY <1>2 DEF StoreGrows, Usable, Ready
<1>3. CASE \E id \in MediaId : /\ address = DatabaseUrl(id) /\ id <= minted
                               /\ media[id] = NoMedia \/ Ready(media[id], u)
  <2> PICK id \in MediaId : /\ address = DatabaseUrl(id) /\ id <= minted
                            /\ media[id] = NoMedia \/ Ready(media[id], u)
    BY <1>3
  <2>1. id <= minted'
    BY <1>1 DEF StoreGrows
  <2>2. media'[id] = NoMedia \/ Ready(media'[id], u)
    BY DEF StoreGrows, Ready
  <2> QED BY <2>1, <2>2 DEF Usable, Ready
<1> QED BY <1>2, <1>3 DEF Usable

LEMMA LastingStays ==
    ASSUME TypeOK, TypeOK', StoreGrows, NEW u \in Uploads, NEW address, Lasting(address, u),
           \A id \in MediaId : address = DatabaseUrl(id) => media'[id] # NoMedia
    PROVE  Lasting(address, u)'
<1>1. Usable(address, u)'
  BY UsableStays DEF Lasting
<1> QED BY <1>1 DEF Lasting

\* What a step of one request may do to what the others hold: nothing, as long
\* as it changes no object they count on and hands nobody's secret on.
Considerate(r) ==
    /\ StoreGrows
    /\ \A s \in Requests \ {r} : pc'[s] = pc[s] /\ url'[s] = url[s] /\ target'[s] = target[s]
    /\ \A s \in Requests \ {r}, id \in MediaId :
          /\ Knows(s, id) \/ (pc[s] = "finish" /\ url[s] = DatabaseUrl(id)) =>
                 media'[id] = media[id]
          /\ Knows(s, id) /\ pc'[r] \in Carriers => url'[r] # DatabaseUrl(id)
    /\ \A u \in Uploads, id \in MediaId :
          DatabaseUrl(id) \in published[u] => media'[id] = media[id]
    /\ \A u \in Uploads : session'[u] # NoRow =>
          \/ session'[u].storedUrl = NoUrl
          \/ session[u] # NoRow /\ session'[u].storedUrl = session[u].storedUrl
          \/ u = target[r] /\ pc[r] = "mark" /\ session'[u].storedUrl = url[r]
    /\ \A u \in Uploads :
          \/ published'[u] = published[u]
          \/ /\ u = target[r] /\ pc[r] = "finish" /\ media' = media
             /\ published'[u] = published[u] \cup {url[r]}

LEMMA OthersCarrySound ==
    ASSUME MediaInv, TypeOK', NEW r \in Requests, Considerate(r),
           NEW s \in Requests \ {r}
    PROVE  CarriesSound(s)'
<1>0. /\ TypeOK /\ CarriesSound(s) /\ CarriesSound(r)
      /\ pc'[s] = pc[s] /\ url'[s] = url[s] /\ target'[s] = target[s]
      /\ pc[s] # "idle" => target[s] \in Uploads
      /\ minted \in Nat /\ minted' \in Nat /\ MediaId \subseteq Nat
  BY SizesAssumption DEF MediaInv, AllCarrySound, TypeInv, TypeOK, Located, Considerate, MediaId
<1>1. ASSUME NEW id \in MediaId, Knows(s, id)'
      PROVE  PrivateTo(s, id)'
  <2>1. Knows(s, id) /\ PrivateTo(s, id) /\ media'[id] = media[id]
    BY <1>0, <1>1 DEF Knows, CarriesSound, Considerate
  <2>2. id <= minted'
    BY <1>0, <2>1 DEF PrivateTo, Considerate, StoreGrows
  <2>3. pc'[s] = "drop" => Ready(bucket'[target'[s]], target'[s])
    BY <1>0, <2>1 DEF PrivateTo, Considerate, StoreGrows
  <2>4. \A t \in Requests \ {s} : pc'[t] \in Carriers => url'[t] # DatabaseUrl(id)
    BY <1>0, <2>1 DEF PrivateTo, Considerate
  <2>5. pc[r] \in Carriers => url[r] # DatabaseUrl(id)
    BY <2>1 DEF PrivateTo
  <2>6. ASSUME NEW u \in Uploads
        PROVE  /\ DatabaseUrl(id) \notin published'[u]
               /\ Exists(u)' => session'[u].storedUrl # DatabaseUrl(id)
    <3>1. DatabaseUrl(id) \notin published'[u]
      BY <2>1, <2>5 DEF PrivateTo, Considerate, Carriers
    <3>2. Exists(u)' => session'[u].storedUrl # DatabaseUrl(id)
      BY <2>1, <2>5, Addresses DEF PrivateTo, Considerate, Carriers, Exists
    <3> QED BY <3>1, <3>2
  <2> QED BY <1>0, <2>1, <2>2, <2>3, <2>4, <2>6 DEF PrivateTo
<1>2. pc'[s] \in {"mark", "verify"} => Usable(url[s], target[s])'
  BY <1>0, UsableStays DEF CarriesSound, Considerate
<1>3. ASSUME pc'[s] = "erase" PROVE Rejectable(url[s])'
  <2>1. PICK id \in MediaId : /\ url[s] = DatabaseUrl(id) /\ id <= minted
                              /\ media[id] = NoMedia \/ media[id].upload \in Mistyped
    BY <1>0, <1>3 DEF CarriesSound, Rejectable
  <2>2. id <= minted' /\ (media'[id] = NoMedia \/ media'[id].upload \in Mistyped)
    BY <1>0, <2>1 DEF Considerate, StoreGrows
  <2> QED BY <1>0, <2>1, <2>2 DEF Rejectable
<1>4. ASSUME pc'[s] = "finish" PROVE Lasting(url[s], target[s])'
  <2>1. Lasting(url[s], target[s])
    BY <1>0, <1>4 DEF CarriesSound
  <2>2. \A id \in MediaId : url[s] = DatabaseUrl(id) => media'[id] # NoMedia
    BY <1>0, <1>4, <2>1 DEF Considerate, Lasting
  <2>3. Lasting(url[s], target[s])' <=> \A x \in {url[s]}, y \in {target[s]} : Lasting(x, y)'
    BY <1>0
  <2> QED BY <1>0, <1>4, <2>1, <2>2, <2>3, LastingStays DEF Considerate
<1> QED BY <1>1, <1>2, <1>3, <1>4 DEF CarriesSound

LEMMA RowsStayUsable ==
    ASSUME MediaInv, TypeOK', NEW r \in Requests, Considerate(r)
    PROVE  RowsUsable' /\ BusinessLasting'
<1>0. TypeOK /\ CarriesSound(r)
  BY DEF MediaInv, AllCarrySound, TypeInv
<1>1. RowsUsable'
  <2> SUFFICES ASSUME NEW u \in Uploads, session'[u] # NoRow, session'[u].storedUrl # NoUrl
               PROVE  Usable(session[u].storedUrl, u)'
    BY DEF RowsUsable, Exists
  <2>1. PICK a : a = session'[u].storedUrl
    OBVIOUS
  <2>2. Usable(a, u)
    BY <1>0, <2>1 DEF Considerate, CarriesSound, MediaInv, RowsUsable, Exists
  <2>3. Usable(a, u)'
    BY <1>0, <2>2, UsableStays DEF Considerate
  <2> QED BY <2>1, <2>3 DEF Usable
<1>2. BusinessLasting'
  <2> SUFFICES ASSUME NEW u \in Uploads, NEW a \in published'[u]
               PROVE  Lasting(a, u)'
    BY DEF BusinessLasting
  <2>1. /\ Lasting(a, u)
        /\ \A id \in MediaId : a = DatabaseUrl(id) => media'[id] = media[id]
    BY <1>0 DEF Considerate, CarriesSound, MediaInv, BusinessLasting
  <2>2. \A id \in MediaId : a = DatabaseUrl(id) => media'[id] # NoMedia
    BY <2>1 DEF Lasting
  <2> QED BY <1>0, <2>1, <2>2, LastingStays DEF Considerate
<1> QED BY <1>1, <1>2

\* A step that touches no object, address or business row, and takes no request
\* to a call on an object.
Harmless ==
    /\ media' = media /\ minted' = minted /\ bucket' = bucket /\ published' = published
    /\ \A r \in Requests : pc'[r] \in Carriers =>
          pc'[r] = pc[r] /\ url'[r] = url[r] /\ target'[r] = target[r]
    /\ \A u \in Uploads : session'[u] # NoRow =>
          \/ session'[u].storedUrl = NoUrl
          \/ session[u] # NoRow /\ session'[u].storedUrl = session[u].storedUrl

LEMMA HarmlessStep ==
    ASSUME MediaInv, TypeInv', Harmless
    PROVE  MediaInv'
<1>0. \A a, u : /\ Usable(a, u) => Usable(a, u)'
                /\ Rejectable(a) => Rejectable(a)'
                /\ Lasting(a, u) => Lasting(a, u)'
  BY DEF Harmless, Usable, Lasting, Rejectable, Ready
<1>1. ASSUME NEW r \in Requests PROVE CarriesSound(r)'
  <2>0. CarriesSound(r) /\ (pc'[r] \in Carriers =>
                               pc'[r] = pc[r] /\ url'[r] = url[r] /\ target'[r] = target[r])
    BY DEF MediaInv, AllCarrySound, Harmless
  <2>1. ASSUME NEW id \in MediaId, Knows(r, id)' PROVE PrivateTo(r, id)'
    <3>1. Knows(r, id) /\ PrivateTo(r, id) /\ pc'[r] \in Carriers
      BY <2>0, <2>1 DEF Knows, CarriesSound, Carriers
    <3>2. \A s \in Requests \ {r} : pc'[s] \in Carriers => url'[s] # DatabaseUrl(id)
      BY <3>1 DEF PrivateTo, Harmless
    <3>3. \A u \in Uploads : /\ DatabaseUrl(id) \notin published'[u]
                             /\ Exists(u)' => session'[u].storedUrl # DatabaseUrl(id)
      BY <3>1, Addresses DEF PrivateTo, Harmless, Exists
    <3> QED BY <2>0, <3>1, <3>2, <3>3 DEF PrivateTo, Harmless, Ready
  <2>2. PICK a, u : a = url[r] /\ u = target[r]
    OBVIOUS
  <2>3. pc'[r] \in Carriers => url'[r] = a /\ target'[r] = u
    BY <2>0, <2>2
  <2>4. pc'[r] \in {"mark", "verify"} => Usable(url[r], target[r])'
    <3> SUFFICES ASSUME pc'[r] \in {"mark", "verify"} PROVE Usable(url[r], target[r])'
      OBVIOUS
    <3>1. Usable(a, u)'
      BY <1>0, <2>0, <2>2 DEF CarriesSound, Carriers
    <3> QED BY <2>3, <3>1 DEF Usable, Carriers
  <2>5. pc'[r] = "erase" => Rejectable(url[r])'
    <3> SUFFICES ASSUME pc'[r] = "erase" PROVE Rejectable(url[r])'
      OBVIOUS
    <3>1. Rejectable(a)'
      BY <1>0, <2>0, <2>2 DEF CarriesSound, Carriers
    <3> QED BY <2>3, <3>1 DEF Rejectable, Carriers
  <2>6. pc'[r] = "finish" => Lasting(url[r], target[r])'
    <3> SUFFICES ASSUME pc'[r] = "finish" PROVE Lasting(url[r], target[r])'
      OBVIOUS
    <3>1. Lasting(a, u)'
      BY <1>0, <2>0, <2>2 DEF CarriesSound, Carriers
    <3> QED BY <2>3, <3>1 DEF Lasting, Usable, Carriers
  <2> QED BY <2>1, <2>4, <2>5, <2>6 DEF CarriesSound
<1>2. Fresh'
  BY DEF MediaInv, Fresh, Harmless
<1>3. RowsUsable'
  <2> SUFFICES ASSUME NEW u \in Uploads, session'[u] # NoRow, session'[u].storedUrl # NoUrl
               PROVE  Usable(session[u].storedUrl, u)'
    BY DEF RowsUsable, Exists
  <2>1. PICK a : a = session'[u].storedUrl
    OBVIOUS
  <2>2. Usable(a, u)
    BY <2>1 DEF Harmless, MediaInv, RowsUsable, Exists
  <2>3. Usable(a, u)'
    BY <1>0, <2>2
  <2> QED BY <2>1, <2>3 DEF Usable
<1>4. BusinessLasting'
  BY <1>0 DEF MediaInv, BusinessLasting, Harmless
<1> QED BY <1>1, <1>2, <1>3, <1>4 DEF MediaInv, AllCarrySound

\* Which rows an update of one session changes.
LEMMA UpdatedRows ==
    ASSUME TypeOK, NEW u \in Uploads, NEW row, UpdateRow(u, row),
           Exists(u) => row.storedUrl = session[u].storedUrl
    PROVE  \A v \in Uploads : session'[v] # NoRow =>
               session[v] # NoRow /\ session'[v].storedUrl = session[v].storedUrl
BY DEF UpdateRow, Exists, TypeOK

LEMMA FailsHarmless ==
    ASSUME TypeInv, NEW r \in Requests, EraseFails(r) \/ CallFails(r) \/ RequestDies(r)
    PROVE  Harmless
BY DEF TypeInv, TypeOK, EraseFails, CallFails, RequestDies, Harmless, Carriers

LEMMA SessionsHarmless ==
    ASSUME TypeInv,
           Prune \/ \E u \in Uploads : Begin(u) \/ Abort(u) \/ LeaseLapses(u)
                                           \/ GrowsOld(u)
    PROVE  Harmless
<1> USE DEF TypeInv, TypeOK, Harmless
<1>0. pc' = pc /\ target' = target /\ url' = url
  BY RequestsUntouched
<1>1. CASE Prune
  BY <1>0, <1>1 DEF Prune, DeleteSessions
<1>2. ASSUME NEW u \in Uploads, Begin(u) PROVE Harmless
  BY <1>0, <1>2 DEF Begin, NewSession
<1>3. ASSUME NEW u \in Uploads, Abort(u) PROVE Harmless
  BY <1>0, <1>3 DEF Abort, DeleteSessions
<1>4. ASSUME NEW u \in Uploads, LeaseLapses(u) PROVE Harmless
  BY <1>0, <1>4 DEF LeaseLapses, Exists, Sessions
<1>5. ASSUME NEW u \in Uploads, GrowsOld(u) PROVE Harmless
  BY <1>0, <1>5 DEF GrowsOld
<1> QED BY <1>1, <1>2, <1>3, <1>4, <1>5

LEMMA ArrivalsHarmless ==
    ASSUME TypeInv, NEW r \in Requests, Arrives(r)
    PROVE  Harmless
<1> USE DEF TypeInv, TypeOK, Harmless, Carriers
<1>1. ASSUME NEW u \in Uploads, NEW i \in Index, CheckChunk(r, u, i) PROVE Harmless
  BY <1>1 DEF CheckChunk
<1>2. ASSUME NEW u \in Uploads, NEW ok \in BOOLEAN, Claim(r, u, ok) PROVE Harmless
  BY <1>2 DEF Claim, FirstCall, Outcome, Exists, Sessions
<1> QED BY <1>1, <1>2 DEF Arrives

LEMMA ProgressHarmless ==
    ASSUME TypeInv, NEW r \in Requests,
           \/ Discard(r) \/ Count(r) \/ Reopen(r) \/ AssembleNothing(r) \/ Forget(r)
           \/ Release(r)
           \/ \E ok \in BOOLEAN : StoreChunk(r, ok) \/ SaveResult(r, ok) \/ Cleanup(r, ok)
    PROVE  Harmless
<1>0. TypeOK /\ (pc[r] # "idle" => target[r] \in Uploads)
  BY DEF TypeInv, Located
<1> USE <1>0 DEF TypeOK, Harmless, Carriers
<1>1. CASE Discard(r)
  BY <1>1 DEF Discard, DeleteSessions
<1>2. CASE Count(r)
  BY <1>2 DEF Count
<1>3. CASE Reopen(r)
  <2>1. \A u \in Uploads : session'[u] # NoRow =>
            session[u] # NoRow /\ session'[u].storedUrl = session[u].storedUrl
    BY <1>3, UpdatedRows DEF Reopen, Exists, Sessions
  <2> QED BY <1>3, <2>1 DEF Reopen
<1>4. CASE AssembleNothing(r)
  BY <1>4 DEF AssembleNothing
<1>5. CASE Forget(r)
  BY <1>5 DEF Forget, DeleteSessions
<1>6. CASE Release(r)
  <2>1. \A old \in Sessions : Released(old).storedUrl = old.storedUrl
    BY DEF Released, Sessions
  <2>2. \A u \in Uploads : session'[u] # NoRow =>
            session[u] # NoRow /\ session'[u].storedUrl = session[u].storedUrl
    BY <1>6, <2>1, UpdatedRows DEF Release, Exists
  <2> QED BY <1>6, <2>2 DEF Release
<1>7. ASSUME NEW ok \in BOOLEAN, StoreChunk(r, ok) PROVE Harmless
  BY <1>7 DEF StoreChunk, Outcome
<1>8. ASSUME NEW ok \in BOOLEAN, SaveResult(r, ok) PROVE Harmless
  <2>1. \A u \in Uploads : session'[u] # NoRow =>
            session[u] # NoRow /\ session'[u].storedUrl = session[u].storedUrl
    BY <1>8, UpdatedRows DEF SaveResult, Exists, Sessions
  <2> QED BY <1>8, <2>1 DEF SaveResult, Outcome
<1>9. ASSUME NEW ok \in BOOLEAN, Cleanup(r, ok) PROVE Harmless
  BY <1>9 DEF Cleanup, DeleteSessions, Outcome
<1> QED BY <1>1, <1>2, <1>3, <1>4, <1>5, <1>6, <1>7, <1>8, <1>9

\* What a completion that takes a step knows of its own object.
LEMMA OwnObject ==
    ASSUME MediaInv, NEW r \in Requests, pc[r] \in {"transform", "offload", "drop"}
    PROVE  /\ target[r] \in Uploads
           /\ \E id \in MediaId : /\ url[r] = DatabaseUrl(id) /\ url[r].key = id
                                  /\ url[r].storage = "database" /\ PrivateTo(r, id)
BY Addresses DEF MediaInv, AllCarrySound, TypeInv, Located, CarriesSound, Knows

\* A step at an object only this request knows, that changes no other object, no
\* session and no business row, is considerate.
LEMMA AtOwnObject ==
    ASSUME MediaInv, NEW r \in Requests, NEW id \in MediaId, PrivateTo(r, id), pc[r] \in Carriers,
           StoreGrows, session' = session, published' = published,
           \A s \in Requests \ {r} : pc'[s] = pc[s] /\ url'[s] = url[s] /\ target'[s] = target[s],
           \A j \in MediaId \ {id} : media'[j] = media[j],
           pc'[r] \in Carriers => url'[r] = DatabaseUrl(id) \/ \E u \in Uploads : url'[r] = BucketUrl(u)
    PROVE  Considerate(r)
<1>1. ASSUME NEW s \in Requests \ {r}, NEW j \in MediaId
      PROVE  /\ Knows(s, j) \/ (pc[s] = "finish" /\ url[s] = DatabaseUrl(j)) => media'[j] = media[j]
             /\ Knows(s, j) /\ pc'[r] \in Carriers => url'[r] # DatabaseUrl(j)
  <2>1. Knows(s, j) \/ (pc[s] = "finish" /\ url[s] = DatabaseUrl(j)) => j # id
    BY DEF PrivateTo, Carriers, Knows
  <2> QED BY <2>1, Addresses
<1>2. \A u \in Uploads, j \in MediaId : DatabaseUrl(j) \in published[u] => media'[j] = media[j]
  BY DEF PrivateTo
<1> QED BY <1>1, <1>2 DEF Considerate

LEMMA StoreSteps ==
    ASSUME TypeOK, minted' = minted
    PROVE  /\ media' = media /\ bucket' = bucket => StoreGrows
           /\ \A id \in MediaId :
                  media' = [media EXCEPT ![id] = NoMedia] /\ bucket' = bucket => StoreGrows
BY SizesAssumption DEF StoreGrows, TypeOK

LEMMA TransformSound ==
    ASSUME MediaInv, NEW r \in Requests, Transform(r)
    PROVE  Considerate(r) /\ Fresh' /\ CarriesSound(r)'
<1>0. TypeOK /\ pc[r] = "transform" /\ pc'[r] = "offload"
  BY DEF MediaInv, TypeInv, TypeOK, Transform
<1>1. PICK id \in MediaId : url[r] = DatabaseUrl(id) /\ url[r].key = id /\ PrivateTo(r, id)
  BY <1>0, OwnObject
<1>2. media[id] \in Objects /\ media[id] # NoMedia
  BY <1>0, <1>1 DEF TypeOK, PrivateTo
<1>3. media' = [media EXCEPT ![id] = [media[id] EXCEPT !.processed = TRUE]]
  BY <1>0, <1>1, <1>2 DEF Transform, TypeOK
<1>4. /\ media'[id] \in Objects /\ media'[id] # NoMedia /\ media'[id].processed
      /\ media'[id].upload = media[id].upload
  BY <1>0, <1>2, <1>3, AbsentAssumption DEF TypeOK, Objects
<1>5. StoreGrows
  BY <1>0, <1>2, <1>3, <1>4, SizesAssumption DEF Transform, StoreGrows, TypeOK
<1>6. Considerate(r)
  BY <1>0, <1>1, <1>3, <1>5, AtOwnObject DEF Transform, Carriers, TypeOK
<1>7. Fresh'
  BY <1>0, <1>1, <1>3, SizesAssumption DEF Transform, MediaInv, Fresh, PrivateTo, TypeOK, MediaId
<1>8. CarriesSound(r)'
  <2>1. ASSUME NEW j \in MediaId, Knows(r, j)' PROVE PrivateTo(r, j)'
    <3>1. j = id
      BY <1>1, <2>1, Addresses DEF Knows, Transform
    <3> QED BY <1>0, <1>1, <1>4, <3>1 DEF PrivateTo, Transform, TypeOK, Exists
  <2> QED BY <1>0, <2>1 DEF CarriesSound
<1> QED BY <1>6, <1>7, <1>8

LEMMA TransformFailsSound ==
    ASSUME MediaInv, NEW r \in Requests, TransformFails(r)
    PROVE  Considerate(r) /\ Fresh' /\ CarriesSound(r)'
<1>0. TypeOK /\ pc[r] = "transform" /\ pc'[r] = "release"
  BY DEF MediaInv, TypeInv, TypeOK, TransformFails
<1>1. PICK id \in MediaId : /\ url[r] = DatabaseUrl(id) /\ url[r].key = id
                            /\ url[r].storage = "database" /\ PrivateTo(r, id)
  BY <1>0, OwnObject
<1>2. media' = [media EXCEPT ![id] = NoMedia] /\ bucket' = bucket /\ minted' = minted
  BY <1>1 DEF TransformFails, DeleteStoredMedia
<1>3. StoreGrows
  BY <1>0, <1>2, StoreSteps
<1>4. Considerate(r)
  BY <1>0, <1>1, <1>2, <1>3, AtOwnObject DEF TransformFails, Carriers, TypeOK
<1>5. Fresh'
  BY <1>0, <1>2 DEF MediaInv, Fresh, TypeOK
<1>6. CarriesSound(r)'
  BY <1>0 DEF CarriesSound, Knows
<1> QED BY <1>4, <1>5, <1>6

LEMMA KeepInDatabaseSound ==
    ASSUME MediaInv, NEW r \in Requests, KeepInDatabase(r)
    PROVE  Considerate(r) /\ Fresh' /\ CarriesSound(r)'
<1>0. TypeOK /\ pc[r] = "offload" /\ pc'[r] = "mark" /\ url'[r] = url[r] /\ target'[r] = target[r]
  BY DEF MediaInv, TypeInv, TypeOK, KeepInDatabase
<1>1. PICK id \in MediaId : url[r] = DatabaseUrl(id) /\ PrivateTo(r, id)
  BY <1>0, OwnObject
<1>2. /\ media' = media /\ bucket' = bucket /\ minted' = minted
      /\ session' = session /\ published' = published
  BY DEF KeepInDatabase
<1>3. Considerate(r)
  BY <1>0, <1>1, <1>2, StoreSteps, AtOwnObject DEF KeepInDatabase, Carriers, TypeOK
<1>4. Fresh'
  BY <1>2 DEF MediaInv, Fresh
<1>5. CarriesSound(r)'
  <2>1. ASSUME NEW j \in MediaId, Knows(r, j)' PROVE PrivateTo(r, j)'
    <3>1. j = id
      BY <1>0, <1>1, <2>1, Addresses DEF Knows
    <3> QED BY <1>0, <1>1, <1>2, <3>1 DEF PrivateTo, KeepInDatabase, TypeOK, Exists
  <2>2. Usable(url[r], target[r])'
    BY <1>0, <1>1, <1>2 DEF Usable, PrivateTo, Ready
  <2> QED BY <1>0, <2>1, <2>2 DEF CarriesSound
<1> QED BY <1>3, <1>4, <1>5

LEMMA OffloadSound ==
    ASSUME MediaInv, NEW r \in Requests, Offload(r)
    PROVE  Considerate(r) /\ Fresh' /\ CarriesSound(r)'
<1>0. TypeOK /\ pc[r] = "offload" /\ pc'[r] = "drop" /\ url'[r] = url[r] /\ target'[r] = target[r]
  BY DEF MediaInv, TypeInv, TypeOK, Offload
<1>1. PICK id \in MediaId : url[r] = DatabaseUrl(id) /\ url[r].key = id /\ PrivateTo(r, id)
  BY <1>0, OwnObject
<1>2. /\ media' = media /\ minted' = minted /\ session' = session /\ published' = published
      /\ bucket' = [bucket EXCEPT ![target[r]] = media[id]]
  BY <1>1 DEF Offload
<1>3. target[r] \in Uploads /\ Ready(media[id], target[r])
  BY <1>0, <1>1, OwnObject DEF PrivateTo, Ready
<1>4. /\ Ready(bucket'[target[r]], target[r])
      /\ \A u \in Uploads : Ready(bucket[u], u) => Ready(bucket'[u], u)
  BY <1>0, <1>2, <1>3 DEF TypeOK
<1>5. StoreGrows
  BY <1>0, <1>2, <1>4, SizesAssumption DEF StoreGrows, TypeOK
<1>6. Considerate(r)
  BY <1>0, <1>1, <1>2, <1>5, AtOwnObject DEF Offload, Carriers, TypeOK
<1>7. Fresh'
  BY <1>2 DEF MediaInv, Fresh
<1>8. CarriesSound(r)'
  <2>1. ASSUME NEW j \in MediaId, Knows(r, j)' PROVE PrivateTo(r, j)'
    <3>1. j = id
      BY <1>0, <1>1, <2>1, Addresses DEF Knows
    <3>2. Ready(bucket'[target'[r]], target'[r])
      BY <1>0, <1>4
    <3> QED BY <1>0, <1>1, <1>2, <3>1, <3>2 DEF PrivateTo, Offload, TypeOK, Exists
  <2> QED BY <1>0, <2>1 DEF CarriesSound
<1> QED BY <1>6, <1>7, <1>8

LEMMA DropCopySound ==
    ASSUME MediaInv, NEW r \in Requests, NEW ok \in BOOLEAN, DropCopy(r, ok)
    PROVE  Considerate(r) /\ Fresh' /\ CarriesSound(r)'
<1>0. /\ TypeOK /\ pc[r] = "drop" /\ target'[r] = target[r]
      /\ pc'[r] = IF ok THEN "mark" ELSE "release"
      /\ ok => url'[r] = BucketUrl(target[r])
  BY DEF MediaInv, TypeInv, TypeOK, DropCopy, Outcome
<1>1. PICK id \in MediaId : /\ url[r] = DatabaseUrl(id) /\ url[r].key = id
                            /\ url[r].storage = "database" /\ PrivateTo(r, id)
  BY <1>0, OwnObject
<1>2. media' = [media EXCEPT ![id] = NoMedia] /\ bucket' = bucket /\ minted' = minted
  BY <1>1 DEF DropCopy, DeleteStoredMedia
<1>3. target[r] \in Uploads /\ Ready(bucket[target[r]], target[r])
  BY <1>0, <1>1, OwnObject DEF PrivateTo
<1>4. StoreGrows
  BY <1>0, <1>2, StoreSteps
<1>5. Considerate(r)
  BY <1>0, <1>1, <1>2, <1>3, <1>4, AtOwnObject DEF DropCopy, Outcome, Carriers, TypeOK
<1>6. Fresh'
  BY <1>0, <1>2 DEF MediaInv, Fresh, TypeOK
<1>7. CarriesSound(r)'
  <2>1. ok => Usable(url[r], target[r])'
    BY <1>0, <1>2, <1>3 DEF Usable, Ready
  <2> QED BY <1>0, <1>3, <2>1, Addresses DEF CarriesSound, Knows
<1> QED BY <1>5, <1>6, <1>7

\* An address of a row or of another completion is nobody's secret.
LEMMA LookupSound ==
    ASSUME MediaInv, NEW r \in Requests, Lookup(r)
    PROVE  Considerate(r) /\ Fresh' /\ CarriesSound(r)'
<1>0. /\ TypeOK /\ pc[r] = "lookup" /\ target[r] \in Uploads /\ target' = target
      /\ media' = media /\ bucket' = bucket /\ minted' = minted
      /\ session' = session /\ published' = published
  BY DEF MediaInv, TypeInv, TypeOK, Located, Lookup
<1>1. PICK a : a = IF Exists(target[r]) THEN session[target[r]].storedUrl ELSE NoUrl
  OBVIOUS
<1>2. url'[r] = a /\ pc'[r] = IF a = NoUrl THEN "assemble" ELSE "verify"
  BY <1>0, <1>1 DEF Lookup, TypeOK
<1>3. a # NoUrl => Usable(a, target[r])
  BY <1>0, <1>1 DEF MediaInv, RowsUsable
<1>4. \A s \in Requests \ {r} : pc'[s] = pc[s] /\ url'[s] = url[s]
  BY <1>0 DEF Lookup, TypeOK
<1>5. \A s \in Requests \ {r}, id \in MediaId :
          Knows(s, id) /\ pc'[r] \in Carriers => url'[r] # DatabaseUrl(id)
  <2> SUFFICES ASSUME NEW s \in Requests \ {r}, NEW id \in MediaId, Knows(s, id), a # NoUrl
               PROVE  a # DatabaseUrl(id)
    BY <1>2 DEF Carriers
  <2>1. PrivateTo(s, id)
    BY DEF MediaInv, AllCarrySound, CarriesSound
  <2> QED BY <1>0, <1>1, <2>1 DEF PrivateTo
<1>6. Considerate(r)
  BY <1>0, <1>4, <1>5, StoreSteps DEF Considerate
<1>7. Fresh'
  BY <1>0 DEF MediaInv, Fresh
<1>8. CarriesSound(r)'
  <2>1. a # NoUrl => Usable(url[r], target[r])'
    BY <1>0, <1>2, <1>3 DEF Usable, Ready
  <2> QED BY <1>2, <2>1 DEF CarriesSound, Knows
<1> QED BY <1>6, <1>7, <1>8

\* Every id a completion or a row knows was drawn.
LEMMA KnownWasDrawn ==
    ASSUME MediaInv, NEW id \in MediaId, id > minted
    PROVE  /\ media[id] = NoMedia
           /\ \A s \in Requests : pc[s] \in Carriers => url[s] # DatabaseUrl(id)
           /\ \A u \in Uploads : /\ DatabaseUrl(id) \notin published[u]
                                 /\ Exists(u) => session[u].storedUrl # DatabaseUrl(id)
<1>0. minted \in Nat /\ MediaId \subseteq Nat
  BY SizesAssumption DEF MediaInv, TypeInv, TypeOK, MediaId
<1>1. \A u \in Uploads : ~Usable(DatabaseUrl(id), u)
  BY <1>0, Addresses DEF Usable
<1>2. ~Rejectable(DatabaseUrl(id))
  BY <1>0, Addresses DEF Rejectable
<1>3. ASSUME NEW s \in Requests, pc[s] \in Carriers, url[s] = DatabaseUrl(id) PROVE FALSE
  <2>1. CarriesSound(s) /\ target[s] \in Uploads
    BY <1>3 DEF MediaInv, AllCarrySound, TypeInv, Located, Carriers
  <2>2. CASE Knows(s, id)
    BY <1>0, <2>1, <2>2 DEF CarriesSound, PrivateTo
  <2>3. CASE ~Knows(s, id)
    BY <1>1, <1>2, <1>3, <2>1, <2>3 DEF CarriesSound, Knows, Carriers, Lasting
  <2> QED BY <2>2, <2>3
<1>4. ASSUME NEW u \in Uploads
      PROVE  /\ DatabaseUrl(id) \notin published[u]
             /\ Exists(u) => session[u].storedUrl # DatabaseUrl(id)
  BY <1>1, Addresses DEF MediaInv, BusinessLasting, RowsUsable, Lasting
<1>5. media[id] = NoMedia
  BY DEF MediaInv, Fresh
<1> QED BY <1>3, <1>4, <1>5

LEMMA AssembleSound ==
    ASSUME MediaInv, NEW r \in Requests, NEW ok \in BOOLEAN, Assemble(r, ok)
    PROVE  Considerate(r) /\ Fresh' /\ CarriesSound(r)'
<1>0. /\ TypeOK /\ pc[r] = "assemble" /\ target[r] \in Uploads /\ target' = target
      /\ pc'[r] = IF ok THEN "transform" ELSE "release"
      /\ session' = session /\ published' = published /\ bucket' = bucket
      /\ \A s \in Requests \ {r} : pc'[s] = pc[s] /\ url'[s] = url[s]
  BY DEF MediaInv, TypeInv, TypeOK, Located, Assemble, Outcome
<1>1. PICK id \in MediaId : id = minted + 1
  BY <1>0, SizesAssumption DEF Assemble, TypeOK, MediaId
<1>2. id > minted /\ minted \in Nat /\ minted' = id
  BY <1>0, <1>1, SizesAssumption DEF Assemble, TypeOK
<1>3. PICK object : object = [upload |-> target[r], parts |-> chunks[target[r]], processed |-> FALSE]
  OBVIOUS
<1>4. media' = [media EXCEPT ![id] = object] /\ object \in Objects /\ object.upload = target[r]
  BY <1>0, <1>2, <1>3 DEF Assemble, TypeOK, Objects
<1>5. ok => url'[r] = DatabaseUrl(id)
  BY <1>0, <1>2 DEF Assemble, TypeOK
<1>6. /\ media[id] = NoMedia
      /\ \A s \in Requests : pc[s] \in Carriers => url[s] # DatabaseUrl(id)
      /\ \A u \in Uploads : /\ DatabaseUrl(id) \notin published[u]
                            /\ Exists(u) => session[u].storedUrl # DatabaseUrl(id)
  BY <1>2, KnownWasDrawn
<1>7. StoreGrows
  BY <1>0, <1>2, <1>4 DEF StoreGrows, TypeOK, MediaId
<1>8. Considerate(r)
  <2>1. ASSUME NEW s \in Requests \ {r}, NEW j \in MediaId
        PROVE  /\ Knows(s, j) \/ (pc[s] = "finish" /\ url[s] = DatabaseUrl(j)) => media'[j] = media[j]
               /\ Knows(s, j) /\ pc'[r] \in Carriers => url'[r] # DatabaseUrl(j)
    <3>1. Knows(s, j) \/ (pc[s] = "finish" /\ url[s] = DatabaseUrl(j)) => j # id
      BY <1>6 DEF Knows, Carriers
    <3>2. j # id => media'[j] = media[j]
      BY <1>0, <1>4 DEF TypeOK
    <3> QED BY <1>0, <1>5, <3>1, <3>2, Addresses DEF Carriers
  <2>2. \A u \in Uploads, j \in MediaId : DatabaseUrl(j) \in published[u] => media'[j] = media[j]
    BY <1>0, <1>4, <1>6 DEF TypeOK
  <2> QED BY <1>0, <1>7, <2>1, <2>2 DEF Considerate
<1>9. Fresh'
  BY <1>0, <1>2, <1>4 DEF MediaInv, Fresh, TypeOK, MediaId
<1>10. CarriesSound(r)'
  <2>1. ASSUME NEW j \in MediaId, Knows(r, j)' PROVE PrivateTo(r, j)'
    <3>1. ok /\ j = id
      BY <1>0, <1>5, <2>1, Addresses DEF Knows
    <3>2. media'[id] # NoMedia /\ media'[id].upload = target'[r]
      BY <1>0, <1>4, AbsentAssumption DEF TypeOK
    <3>3. \A s \in Requests \ {r} : pc'[s] \in Carriers => url'[s] # DatabaseUrl(id)
      BY <1>0, <1>6
    <3>4. \A u \in Uploads : /\ DatabaseUrl(id) \notin published'[u]
                             /\ Exists(u)' => session'[u].storedUrl # DatabaseUrl(id)
      BY <1>0, <1>6 DEF Exists
    <3>5. id <= minted' /\ pc'[r] = "transform"
      BY <1>0, <1>1, <1>2, <3>1
    <3> QED BY <3>1, <3>2, <3>3, <3>4, <3>5 DEF PrivateTo
  <2> QED BY <1>0, <2>1 DEF CarriesSound
<1> QED BY <1>8, <1>9, <1>10

LEMMA MarkSound ==
    ASSUME MediaInv, NEW r \in Requests, NEW ok \in BOOLEAN, Mark(r, ok)
    PROVE  Considerate(r) /\ Fresh' /\ CarriesSound(r)'
<1>0. /\ TypeOK /\ pc[r] = "mark" /\ target[r] \in Uploads /\ target' = target /\ url' = url
      /\ pc'[r] = IF ok THEN "verify" ELSE "release"
      /\ media' = media /\ bucket' = bucket /\ minted' = minted /\ published' = published
      /\ \A s \in Requests \ {r} : pc'[s] = pc[s]
      /\ CarriesSound(r)
  BY DEF MediaInv, TypeInv, TypeOK, Located, Mark, Outcome, AllCarrySound
<1>1. \A u \in Uploads : session'[u] # NoRow =>
          \/ session[u] # NoRow /\ session'[u].storedUrl = session[u].storedUrl
          \/ u = target[r] /\ session'[u].storedUrl = url[r]
  BY <1>0 DEF Mark, UpdateRow, Exists, Sessions, TypeOK
<1>2. \A s \in Requests \ {r}, id \in MediaId :
          Knows(s, id) /\ pc'[r] \in Carriers => url'[r] # DatabaseUrl(id)
  <2> SUFFICES ASSUME NEW s \in Requests \ {r}, NEW id \in MediaId, Knows(s, id)
               PROVE  url[r] # DatabaseUrl(id)
    BY <1>0
  <2>1. PrivateTo(s, id)
    BY DEF MediaInv, AllCarrySound, CarriesSound
  <2> QED BY <1>0, <2>1 DEF PrivateTo, Carriers
<1>3. Considerate(r)
  BY <1>0, <1>1, <1>2, StoreSteps DEF Considerate
<1>4. Fresh'
  BY <1>0 DEF MediaInv, Fresh
<1>5. CarriesSound(r)'
  <2>1. Usable(url[r], target[r])'
    BY <1>0 DEF CarriesSound, Usable, Ready
  <2> QED BY <1>0, <2>1 DEF CarriesSound, Knows
<1> QED BY <1>3, <1>4, <1>5

\* A step of a completion that has marked its session, at its object.
LEMMA AtSharedObject ==
    ASSUME MediaInv, NEW r \in Requests, pc[r] \in Carriers,
           StoreGrows, session' = session, pc'[r] \in Carriers => url'[r] = url[r],
           \A s \in Requests \ {r} : pc'[s] = pc[s] /\ url'[s] = url[s] /\ target'[s] = target[s],
           media' = media,
           \A u \in Uploads : \/ published'[u] = published[u]
                              \/ /\ u = target[r] /\ pc[r] = "finish"
                                 /\ published'[u] = published[u] \cup {url[r]}
    PROVE  Considerate(r)
<1>1. \A s \in Requests \ {r}, id \in MediaId :
          Knows(s, id) /\ pc'[r] \in Carriers => url'[r] # DatabaseUrl(id)
  <2> SUFFICES ASSUME NEW s \in Requests \ {r}, NEW id \in MediaId, Knows(s, id)
               PROVE  url[r] # DatabaseUrl(id)
    OBVIOUS
  <2>1. PrivateTo(s, id)
    BY DEF MediaInv, AllCarrySound, CarriesSound
  <2> QED BY <2>1 DEF PrivateTo
<1> QED BY <1>1 DEF Considerate

LEMMA VerifySound ==
    ASSUME MediaInv, NEW r \in Requests, Verify(r)
    PROVE  Considerate(r) /\ Fresh' /\ CarriesSound(r)'
<1>0. /\ TypeOK /\ pc[r] = "verify" /\ target[r] \in Uploads /\ target' = target /\ url' = url
      /\ pc'[r] = IF PassesSignature(url[r]) THEN "finish" ELSE "erase"
      /\ media' = media /\ bucket' = bucket /\ minted' = minted
      /\ published' = published /\ session' = session
      /\ \A s \in Requests \ {r} : pc'[s] = pc[s]
      /\ Usable(url[r], target[r])
  BY DEF MediaInv, TypeInv, TypeOK, Located, Verify, AllCarrySound, CarriesSound
<1>1. Considerate(r)
  BY <1>0, StoreSteps, AtSharedObject DEF Carriers
<1>2. Fresh'
  BY <1>0 DEF MediaInv, Fresh
<1>3. PassesSignature(url[r]) => Lasting(url[r], target[r])
  BY <1>0, Addresses DEF PassesSignature, Serves, ObjectAt, Lasting, Usable, Ready
<1>4. ~PassesSignature(url[r]) => Rejectable(url[r])
  BY <1>0, Addresses DEF PassesSignature, Serves, ObjectAt, Rejectable, Usable
<1>5. CarriesSound(r)'
  <2>1. PassesSignature(url[r]) => Lasting(url[r], target[r])'
    BY <1>0, <1>3 DEF Lasting, Usable, Ready
  <2>2. ~PassesSignature(url[r]) => Rejectable(url[r])'
    BY <1>0, <1>4 DEF Rejectable
  <2> QED BY <1>0, <2>1, <2>2 DEF CarriesSound, Knows
<1> QED BY <1>1, <1>2, <1>5

\* What is rejected has no reader, or is gone already.
LEMMA EraseSound ==
    ASSUME MediaInv, NEW r \in Requests, Erase(r)
    PROVE  Considerate(r) /\ Fresh' /\ CarriesSound(r)'
<1>0. /\ TypeOK /\ pc[r] = "erase" /\ target' = target /\ url' = url /\ pc'[r] = "forget"
      /\ minted' = minted /\ published' = published /\ session' = session
      /\ \A s \in Requests \ {r} : pc'[s] = pc[s]
  BY DEF MediaInv, TypeInv, TypeOK, Erase
<1>1. PICK id \in MediaId : /\ url[r] = DatabaseUrl(id) /\ id <= minted
                            /\ media[id] = NoMedia \/ media[id].upload \in Mistyped
  BY <1>0 DEF MediaInv, AllCarrySound, CarriesSound, Rejectable
<1>2. media' = [media EXCEPT ![id] = NoMedia] /\ bucket' = bucket
  BY <1>1, Addresses DEF Erase, DeleteStoredMedia
<1>3. \A u \in Uploads : ~Lasting(DatabaseUrl(id), u)
  BY <1>1, Addresses DEF Lasting, Usable, Ready
<1>4. ASSUME NEW s \in Requests \ {r}, NEW j \in MediaId,
             Knows(s, j) \/ (pc[s] = "finish" /\ url[s] = DatabaseUrl(j))
      PROVE  media'[j] = media[j]
  <2>1. CASE Knows(s, j)
    <3>1. PrivateTo(s, j)
      BY <2>1 DEF MediaInv, AllCarrySound, CarriesSound
    <3>2. j # id
      BY <1>0, <1>1, <3>1 DEF PrivateTo, Carriers
    <3> QED BY <1>0, <1>2, <3>2 DEF TypeOK
  <2>2. CASE pc[s] = "finish" /\ url[s] = DatabaseUrl(j)
    <3>1. Lasting(DatabaseUrl(j), target[s]) /\ target[s] \in Uploads
      BY <2>2 DEF MediaInv, AllCarrySound, CarriesSound, TypeInv, Located
    <3>2. j # id
      BY <1>3, <3>1
    <3> QED BY <1>0, <1>2, <3>2 DEF TypeOK
  <2> QED BY <1>4, <2>1, <2>2
<1>5. \A u \in Uploads, j \in MediaId : DatabaseUrl(j) \in published[u] => media'[j] = media[j]
  BY <1>0, <1>2, <1>3 DEF MediaInv, BusinessLasting, TypeOK
<1>6. StoreGrows
  BY <1>0, <1>2, StoreSteps
<1>7. Considerate(r)
  BY <1>0, <1>4, <1>5, <1>6 DEF Considerate, Carriers
<1>8. Fresh'
  BY <1>0, <1>2 DEF MediaInv, Fresh, TypeOK
<1>9. CarriesSound(r)'
  BY <1>0 DEF CarriesSound, Knows
<1> QED BY <1>7, <1>8, <1>9

LEMMA FinishSound ==
    ASSUME MediaInv, NEW r \in Requests, NEW ok \in BOOLEAN, Finish(r, ok)
    PROVE  Considerate(r) /\ Fresh' /\ CarriesSound(r)'
<1>0. /\ TypeOK /\ pc[r] = "finish" /\ pc'[r] \in {"save", "release"} /\ pc'[r] \notin Carriers
      /\ target' = target /\ url' = url /\ target[r] \in Uploads
      /\ media' = media /\ bucket' = bucket /\ minted' = minted /\ session' = session
      /\ published' = [published EXCEPT ![target[r]] = @ \cup {url[r]}]
      /\ \A s \in Requests \ {r} : pc'[s] = pc[s]
  BY DEF MediaInv, TypeInv, TypeOK, Located, Finish, Outcome, Carriers
<1>1. Considerate(r)
  BY <1>0, StoreSteps, AtSharedObject DEF Carriers, TypeOK
<1>2. Fresh'
  BY <1>0 DEF MediaInv, Fresh
<1>3. CarriesSound(r)'
  BY <1>0 DEF CarriesSound, Knows, Carriers
<1> QED BY <1>1, <1>2, <1>3

LEMMA SoundStep == MediaInv /\ [Next]_vars => MediaInv'
<1> SUFFICES ASSUME MediaInv, [Next]_vars PROVE MediaInv'
  OBVIOUS
<1>0. TypeInv /\ TypeInv' /\ TypeOK'
  BY StepTyped DEF MediaInv, TypeInv
<1>1. CASE Harmless
  BY <1>0, <1>1, HarmlessStep
<1>2. ASSUME NEW r \in Requests, Considerate(r), Fresh', CarriesSound(r)'
      PROVE  MediaInv'
  <2>1. \A s \in Requests : CarriesSound(s)'
    BY <1>0, <1>2, OthersCarrySound
  <2>2. RowsUsable' /\ BusinessLasting'
    BY <1>0, <1>2, RowsStayUsable
  <2> QED BY <1>0, <1>2, <2>1, <2>2 DEF MediaInv, AllCarrySound
<1>3. ASSUME NEW r \in Requests, Progress(r) PROVE MediaInv'
  BY <1>0, <1>1, <1>2, <1>3, ProgressHarmless, LookupSound, AssembleSound, TransformSound,
     KeepInDatabaseSound, OffloadSound, DropCopySound, MarkSound, VerifySound, EraseSound,
     FinishSound DEF Progress
<1>4. ASSUME NEW r \in Requests, Fails(r) PROVE MediaInv'
  BY <1>0, <1>1, <1>2, <1>4, FailsHarmless, TransformFailsSound DEF Fails
<1>5. ASSUME NEW r \in Requests, Arrives(r) PROVE MediaInv'
  BY <1>0, <1>1, <1>5, ArrivalsHarmless
<1>6. CASE Prune \/ \E u \in Uploads : Begin(u) \/ Abort(u) \/ LeaseLapses(u) \/ GrowsOld(u)
  BY <1>0, <1>1, <1>6, SessionsHarmless
<1>7. CASE UNCHANGED vars
  BY <1>0, <1>1, <1>7 DEF vars, Harmless
<1> QED BY <1>3, <1>4, <1>5, <1>6, <1>7 DEF Next

LEMMA InitSound == Init => MediaInv
<1> SUFFICES ASSUME Init PROVE MediaInv
  OBVIOUS
<1>1. AllCarrySound
  BY DEF Init, AllCarrySound, CarriesSound, Knows
<1> QED BY <1>1, InitTyped DEF MediaInv, Init, Fresh, RowsUsable, BusinessLasting, Exists

\* What a business row points to stays served, went through the transform and
\* is of its type, for any number of requests, uploads and faults, and even
\* when completions outlive their lease and work on one upload together.
THEOREM PublishedStaysSound == Spec => []PublishedIsSound
<1>1. MediaInv => PublishedIsSound
  <2> SUFFICES ASSUME MediaInv, NEW u \in Uploads, NEW a \in published[u]
               PROVE  /\ Serves(a) /\ ObjectAt(a).processed
                      /\ u \in Mistyped => a.storage = "object-store"
    BY DeploymentAssumption DEF PublishedIsSound, Served, Processed, Typed
  <2>1. Lasting(a, u)
    BY DEF MediaInv, BusinessLasting
  <2> QED BY <2>1, Addresses DEF Lasting, Usable, Ready, Serves, ObjectAt
<1> QED BY InitSound, SoundStep, <1>1, PTL DEF Spec

----------------------------------------------------------------------------
(* What is published is whole *)

\* The chunks of a session are among those announced, all of them once they
\* have been counted; they go when the session goes.
SessionFits(u) ==
    /\ Exists(u) => plan[u] # 0 /\ session[u].total = plan[u]
    /\ chunks[u] \subseteq 0 .. plan[u] - 1
    /\ ~Exists(u) => chunks[u] = {}

RequestFits(r) ==
    /\ pc[r] = "store" => index[r] < plan[target[r]]
    /\ pc[r] \in {"count", "lookup", "assemble"} => plan[target[r]] # 0
    /\ pc[r] \in {"lookup", "assemble"} /\ Exists(target[r]) =>
           chunks[target[r]] = 0 .. plan[target[r]] - 1

Whole(object) == plan[object.upload] # 0 /\ object.parts = 0 .. plan[object.upload] - 1

ChunksFit    == (\A u \in Uploads : SessionFits(u)) /\ (\A r \in Requests : RequestFits(r))
WholeObjects == /\ \A id \in MediaId : media[id] # NoMedia => Whole(media[id])
                /\ \A u \in Uploads : bucket[u] # NoMedia => Whole(bucket[u])

WholeInv == TypeInv /\ ChunksFit /\ WholeObjects

\* A step that assembles nothing: an object afterwards has the upload and the
\* chunks of one before.
Old(object) == \/ \E id \in MediaId : /\ media[id] # NoMedia
                                      /\ object.upload = media[id].upload
                                      /\ object.parts = media[id].parts
               \/ \E u \in Uploads : /\ bucket[u] # NoMedia
                                     /\ object.upload = bucket[u].upload
                                     /\ object.parts = bucket[u].parts

AssemblesNothing ==
    /\ \A id \in MediaId : media'[id] # NoMedia => Old(media'[id])
    /\ \A u \in Uploads : bucket'[u] # NoMedia => Old(bucket'[u])

LEMMA ErasureAssemblesNothing ==
    ASSUME TypeOK, NEW address \in Urls, DeleteStoredMedia(address)
    PROVE  AssemblesNothing
BY DEF TypeOK, DeleteStoredMedia, AssemblesNothing, Old

LEMMA OldStaysWhole ==
    ASSUME TypeOK, WholeObjects, AssemblesNothing, TypeOK',
           \A u \in Uploads : plan[u] # 0 => plan'[u] = plan[u]
    PROVE  WholeObjects'
<1>1. \A u \in Uploads : plan[u] # 0
          => plan'[u] # 0 /\ (0 .. plan'[u] - 1) = (0 .. plan[u] - 1)
  OBVIOUS
<1>2. ASSUME NEW object \in Objects, Old(object)
      PROVE  plan'[object.upload] # 0 /\ object.parts = 0 .. plan'[object.upload] - 1
  <2>1. object.upload \in Uploads
    BY DEF Objects
  <2>2. plan[object.upload] # 0 /\ object.parts = 0 .. plan[object.upload] - 1
    BY <1>2 DEF Old, WholeObjects, Whole
  <2> QED BY <1>1, <2>1, <2>2
<1>3. /\ \A id \in MediaId : media'[id] # NoMedia => media'[id] \in Objects
      /\ \A u \in Uploads : bucket'[u] # NoMedia => bucket'[u] \in Objects
  BY DEF TypeOK
<1> QED BY <1>2, <1>3 DEF AssemblesNothing, WholeObjects, Whole

\* A step that adds no chunk and no session, and counts none.
AddsNothing ==
    /\ plan' = plan
    /\ \A u \in Uploads :
          \/ session'[u] = NoRow /\ chunks'[u] = {}
          \/ /\ session[u] # NoRow /\ session'[u] # NoRow
             /\ session'[u].total = session[u].total /\ chunks'[u] = chunks[u]
    /\ \A r \in Requests :
          /\ pc'[r] = "store" => pc[r] = "store" /\ index'[r] = index[r] /\ target'[r] = target[r]
          /\ pc'[r] = "count" => pc[r] = "count" /\ target'[r] = target[r]
          /\ pc'[r] \in {"lookup", "assemble"} =>
                 pc[r] \in {"lookup", "assemble"} /\ target'[r] = target[r]

LEMMA NothingAdded ==
    ASSUME TypeInv, ChunksFit, AddsNothing
    PROVE  ChunksFit'
<1>1. ASSUME NEW u \in Uploads PROVE SessionFits(u)'
  BY DEF ChunksFit, AddsNothing, SessionFits, Exists
<1>2. ASSUME NEW r \in Requests PROVE RequestFits(r)'
  <2>0. RequestFits(r) /\ (pc[r] # "idle" => target[r] \in Uploads)
    BY DEF ChunksFit, TypeInv, Located
  <2>1. pc'[r] = "store" => index'[r] < plan'[target'[r]]
    BY <2>0 DEF RequestFits, AddsNothing
  <2>2. pc'[r] \in {"count", "lookup", "assemble"} => plan'[target'[r]] # 0
    BY <2>0 DEF RequestFits, AddsNothing
  <2>3. pc'[r] \in {"lookup", "assemble"} /\ session'[target'[r]] # NoRow =>
            chunks'[target'[r]] = 0 .. plan'[target'[r]] - 1
    BY <2>0 DEF RequestFits, AddsNothing, Exists
  <2> QED BY <2>1, <2>2, <2>3 DEF RequestFits, Exists
<1> QED BY <1>1, <1>2 DEF ChunksFit

\* The rows and the requests of the steps above.
LEMMA SameRowsFit ==
    ASSUME WholeInv, plan' = plan,
           \/ session' = session /\ chunks' = chunks
           \/ \E gone : DeleteSessions(gone)
           \/ \E u \in Uploads, row \in Sessions \cup {NoRow} :
                 /\ UpdateRow(u, row) /\ chunks' = chunks
                 /\ Exists(u) => row # NoRow /\ row.total = session[u].total
    PROVE  \A u \in Uploads :
              \/ session'[u] = NoRow /\ chunks'[u] = {}
              \/ /\ session[u] # NoRow /\ session'[u] # NoRow
                 /\ session'[u].total = session[u].total /\ chunks'[u] = chunks[u]
<1>0. TypeOK /\ \A u \in Uploads : session[u] = NoRow => chunks[u] = {}
  BY DEF WholeInv, TypeInv, ChunksFit, SessionFits, Exists
<1>1. CASE session' = session /\ chunks' = chunks
  BY <1>0, <1>1
<1>2. CASE \E gone : DeleteSessions(gone)
  BY <1>0, <1>2 DEF DeleteSessions
<1>3. CASE \E u \in Uploads, row \in Sessions \cup {NoRow} :
              /\ UpdateRow(u, row) /\ chunks' = chunks
              /\ Exists(u) => row # NoRow /\ row.total = session[u].total
  BY <1>0, <1>3 DEF UpdateRow, Exists, TypeOK
<1> QED BY <1>1, <1>2, <1>3

\* A step of a request that leaves the objects alone.
LEMMA SameObjects ==
    ASSUME TypeInv, media' = media, bucket' = bucket
    PROVE  AssemblesNothing
BY DEF AssemblesNothing, Old

LEMMA ProgressAddsNothing ==
    ASSUME WholeInv, NEW r \in Requests, Progress(r)
    PROVE  AddsNothing \/ Count(r) \/ \E ok \in BOOLEAN : StoreChunk(r, ok)
<1>0. TypeOK /\ (pc[r] # "idle" => target[r] \in Uploads)
  BY DEF WholeInv, TypeInv, Located
<1>1. plan' = plan
  BY ProgressIsLocal DEF WholeInv, StaysLocal
<1> DEFINE Rows == \A u \in Uploads :
              \/ session'[u] = NoRow /\ chunks'[u] = {}
              \/ /\ session[u] # NoRow /\ session'[u] # NoRow
                 /\ session'[u].total = session[u].total /\ chunks'[u] = chunks[u]
<1>2. session' = session /\ chunks' = chunks => Rows
  BY <1>1, SameRowsFit
<1>3. (\E gone : DeleteSessions(gone)) => Rows
  BY <1>1, SameRowsFit
<1>4. ASSUME NEW u \in Uploads, NEW row, UpdateRow(u, row), chunks' = chunks,
             Exists(u) => row \in Sessions /\ row.total = session[u].total
      PROVE  Rows
  <2>1. CASE Exists(u)
    BY <1>1, <1>4, <2>1, SameRowsFit, NoRowAssumption
  <2>2. CASE ~Exists(u)
    <3>1. session' = session
      BY <1>4, <2>2 DEF UpdateRow
    <3> QED BY <1>2, <1>4, <3>1
  <2> QED BY <2>1, <2>2
<1> HIDE DEF Rows
<1>5. /\ Rows
      /\ \A s \in Requests : /\ pc'[s] = "store" => pc[s] = "store" /\ index'[s] = index[s]
                             /\ pc'[s] = "count" => pc[s] = "count"
                             /\ pc'[s] \in {"lookup", "assemble"} => pc[s] \in {"lookup", "assemble"}
      /\ target' = target
      => AddsNothing
  BY <1>1 DEF Rows, AddsNothing
<1> USE <1>0 DEF TypeOK
<1>6. CASE Discard(r)
  BY <1>3, <1>5, <1>6 DEF Discard
<1>7. CASE Reopen(r)
  <2> DEFINE row == [session[target[r]] EXCEPT !.state = "pending", !.started = "null"]
  <2>1. Exists(target[r]) => row \in Sessions /\ row.total = session[target[r]].total
    BY <1>7 DEF Reopen, Exists, Sessions, States, Started
  <2>2. UpdateRow(target[r], row) /\ chunks' = chunks
    BY <1>7 DEF Reopen
  <2> HIDE DEF row
  <2>3. Rows
    BY <1>4, <1>7, <2>1, <2>2 DEF Reopen
  <2> QED BY <1>5, <1>7, <2>3 DEF Reopen
<1>8. CASE Lookup(r)
  BY <1>2, <1>5, <1>8 DEF Lookup
<1>9. CASE AssembleNothing(r) \/ Transform(r) \/ KeepInDatabase(r)
  BY <1>2, <1>5, <1>9 DEF AssembleNothing, Transform, KeepInDatabase
<1>10. CASE Offload(r) \/ Verify(r) \/ Erase(r)
  BY <1>2, <1>5, <1>10 DEF Offload, Verify, Erase
<1>11. CASE Forget(r)
  BY <1>3, <1>5, <1>11 DEF Forget
<1>12. CASE Release(r)
  <2> DEFINE row == Released(session[target[r]])
  <2>0. \A old \in Sessions : Released(old) \in Sessions /\ Released(old).total = old.total
    BY DEF Released, Sessions, States, Started
  <2>1. Exists(target[r]) => row \in Sessions /\ row.total = session[target[r]].total
    BY <1>12, <2>0 DEF Release, Exists
  <2>2. UpdateRow(target[r], row) /\ chunks' = chunks
    BY <1>12 DEF Release
  <2> HIDE DEF row
  <2>3. Rows
    BY <1>4, <1>12, <2>1, <2>2 DEF Release
  <2> QED BY <1>5, <1>12, <2>3 DEF Release
<1>13. ASSUME NEW ok \in BOOLEAN, Assemble(r, ok) \/ DropCopy(r, ok) \/ Finish(r, ok)
       PROVE  AddsNothing
  BY <1>2, <1>5, <1>13 DEF Assemble, DropCopy, Finish, Outcome
<1>14. ASSUME NEW ok \in BOOLEAN, Mark(r, ok) PROVE AddsNothing
  <2> DEFINE row == [session[target[r]] EXCEPT !.state = "assembled", !.storedUrl = url[r]]
  <2>0. url[r] \in Urls
    BY <1>14 DEF Mark, WholeInv, TypeInv, Located
  <2>1. Exists(target[r]) => row \in Sessions /\ row.total = session[target[r]].total
    BY <1>14, <2>0 DEF Mark, Exists, Sessions, States
  <2>2. UpdateRow(target[r], row) /\ chunks' = chunks
    BY <1>14 DEF Mark
  <2> HIDE DEF row
  <2>3. Rows
    BY <1>4, <1>14, <2>1, <2>2 DEF Mark
  <2> QED BY <1>5, <1>14, <2>3 DEF Mark, Outcome
<1>15. ASSUME NEW ok \in BOOLEAN, SaveResult(r, ok) PROVE AddsNothing
  <2> DEFINE row == [session[target[r]] EXCEPT !.result = TRUE]
  <2>1. Exists(target[r]) => row \in Sessions /\ row.total = session[target[r]].total
    BY <1>15 DEF SaveResult, Exists, Sessions
  <2>2. UpdateRow(target[r], row) /\ chunks' = chunks
    BY <1>15 DEF SaveResult
  <2> HIDE DEF row
  <2>3. Rows
    BY <1>4, <1>15, <2>1, <2>2 DEF SaveResult
  <2> QED BY <1>5, <1>15, <2>3 DEF SaveResult, Outcome
<1>16. ASSUME NEW ok \in BOOLEAN, Cleanup(r, ok) PROVE AddsNothing
  BY <1>3, <1>5, <1>16 DEF Cleanup, Outcome
<1> QED
  BY <1>6, <1>7, <1>8, <1>9, <1>10, <1>11, <1>12, <1>13, <1>14, <1>15, <1>16 DEF Progress

\* A count of all the chunks is all the chunks.
LEMMA CountSeesAll ==
    ASSUME NEW n \in Nat, NEW S \in SUBSET (0 .. n - 1), Cardinality(S) = n
    PROVE  S = 0 .. n - 1
<1>1. IsFiniteSet(0 .. n - 1) /\ Cardinality(0 .. n - 1) = n
  <2>1. 0 \in Int /\ n - 1 \in Int
    OBVIOUS
  <2>2. /\ IsFiniteSet(0 .. n - 1)
        /\ Cardinality(0 .. n - 1) = IF 0 > n - 1 THEN 0 ELSE (n - 1) - 0 + 1
    BY <2>1, FS_Interval
  <2> QED BY <2>2
<1> QED BY <1>1, FS_Subset

LEMMA CountFits ==
    ASSUME WholeInv, NEW r \in Requests, Count(r)
    PROVE  ChunksFit'
<1>0. /\ TypeOK /\ pc[r] = "count" /\ target[r] \in Uploads /\ target' = target /\ index' = index
      /\ session' = session /\ chunks' = chunks /\ plan' = plan
      /\ pc'[r] = IF AllReceived(target[r]) THEN "lookup" ELSE "reopen"
      /\ \A s \in Requests \ {r} : pc'[s] = pc[s]
  BY DEF WholeInv, TypeInv, TypeOK, Located, Count
<1>1. \A u \in Uploads : SessionFits(u)'
  BY <1>0 DEF WholeInv, ChunksFit, SessionFits, Exists
<1>2. AllReceived(target[r]) => chunks[target[r]] = 0 .. plan[target[r]] - 1
  <2>1. SessionFits(target[r]) /\ plan[target[r]] \in Nat
    BY <1>0, SizesAssumption DEF WholeInv, ChunksFit, TypeOK
  <2> QED BY <2>1, CountSeesAll DEF AllReceived, SessionFits
<1>3. ASSUME NEW s \in Requests PROVE RequestFits(s)'
  <2>1. RequestFits(s)
    BY DEF WholeInv, ChunksFit
  <2>2. CASE s # r
    BY <1>0, <2>1, <2>2 DEF RequestFits, Exists
  <2>3. CASE s = r
    BY <1>0, <1>2, <2>1, <2>3 DEF RequestFits, Exists
  <2> QED BY <2>2, <2>3
<1> QED BY <1>1, <1>3 DEF ChunksFit

\* A chunk that arrives after the count is one that was counted.
LEMMA StoreChunkFits ==
    ASSUME WholeInv, NEW r \in Requests, NEW ok \in BOOLEAN, StoreChunk(r, ok)
    PROVE  ChunksFit'
<1>0. /\ TypeOK /\ pc[r] = "store" /\ target[r] \in Uploads /\ index[r] \in Nat
      /\ target' = target /\ index' = index /\ session' = session /\ plan' = plan
      /\ pc'[r] = "idle" /\ \A s \in Requests \ {r} : pc'[s] = pc[s]
      /\ chunks' = IF Exists(target[r]) THEN [chunks EXCEPT ![target[r]] = @ \cup {index[r]}]
                   ELSE chunks
      /\ index[r] < plan[target[r]] /\ plan[target[r]] \in Nat
      /\ \A u \in Uploads : plan[u] \in Nat
  BY SizesAssumption DEF WholeInv, TypeInv, TypeOK, Located, StoreChunk, Outcome, Index,
     ChunksFit, RequestFits
<1>1. index[r] \in 0 .. plan[target[r]] - 1
  BY <1>0
<1>2. ASSUME NEW u \in Uploads PROVE SessionFits(u)'
  <2>1. SessionFits(u)
    BY DEF WholeInv, ChunksFit
  <2>2. CASE u = target[r] /\ Exists(u)
    <3>1. chunks'[u] = chunks[u] \cup {index[r]}
      BY <1>0, <2>2 DEF TypeOK
    <3>2. chunks'[u] \subseteq 0 .. plan'[u] - 1
      BY <1>0, <1>1, <2>1, <2>2, <3>1 DEF SessionFits
    <3> QED BY <1>0, <2>1, <2>2, <3>2 DEF SessionFits, Exists
  <2>3. CASE ~(u = target[r] /\ Exists(u))
    <3>1. chunks'[u] = chunks[u]
      BY <1>0, <2>3 DEF TypeOK
    <3> QED BY <1>0, <2>1, <3>1 DEF SessionFits, Exists
  <2> QED BY <2>2, <2>3
<1>3. ASSUME NEW s \in Requests PROVE RequestFits(s)'
  <2>1. RequestFits(s)
    BY DEF WholeInv, ChunksFit
  <2>2. CASE s = r
    BY <1>0, <2>2 DEF RequestFits
  <2>3. CASE s # r
    <3>1. pc[s] \in {"lookup", "assemble"} /\ Exists(target[s]) =>
              chunks'[target[s]] = 0 .. plan[target[s]] - 1
      <4> SUFFICES ASSUME pc[s] \in {"lookup", "assemble"}, Exists(target[s])
                   PROVE  chunks'[target[s]] = 0 .. plan[target[s]] - 1
        OBVIOUS
      <4>1. chunks[target[s]] = 0 .. plan[target[s]] - 1 /\ target[s] \in Uploads
        BY <2>1 DEF RequestFits, WholeInv, TypeInv, Located
      <4>2. CASE target[s] = target[r]
        BY <1>0, <1>1, <4>1, <4>2 DEF TypeOK
      <4>3. CASE target[s] # target[r]
        BY <1>0, <4>1, <4>3 DEF TypeOK
      <4> QED BY <4>2, <4>3
    <3> QED BY <1>0, <2>1, <2>3, <3>1 DEF RequestFits, Exists
  <2> QED BY <2>2, <2>3
<1> QED BY <1>2, <1>3 DEF ChunksFit

\* Only a session that exists takes chunks and is claimed.
LEMMA ArrivalFits ==
    ASSUME WholeInv, NEW r \in Requests, Arrives(r)
    PROVE  ChunksFit'
<1>0. TypeOK /\ ChunksFit
  BY DEF WholeInv, TypeInv
<1>1. ASSUME NEW u \in Uploads, NEW i \in Index, CheckChunk(r, u, i)
      PROVE  ChunksFit'
  <2>1. /\ session' = session /\ chunks' = chunks /\ plan' = plan
        /\ pc'[r] = "store" /\ target'[r] = u /\ index'[r] = i /\ i < plan[u]
        /\ \A s \in Requests \ {r} : pc'[s] = pc[s] /\ target'[s] = target[s] /\ index'[s] = index[s]
    BY <1>0, <1>1 DEF CheckChunk, AcceptsChunk, TypeOK, ChunksFit, SessionFits
  <2> QED BY <1>0, <2>1 DEF ChunksFit, SessionFits, RequestFits, Exists
<1>2. ASSUME NEW u \in Uploads, NEW ok \in BOOLEAN, Claim(r, u, ok)
      PROVE  ChunksFit'
  <2>1. /\ chunks' = chunks /\ plan' = plan /\ index' = index /\ plan[u] # 0
        /\ pc'[r] \in {"count", "discard", "idle"} /\ target'[r] = u
        /\ \A s \in Requests \ {r} : pc'[s] = pc[s] /\ target'[s] = target[s]
    BY <1>0, <1>2 DEF Claim, FirstCall, Outcome, TypeOK, ChunksFit, SessionFits
  <2>2. \A v \in Uploads : /\ (session'[v] = NoRow) <=> (session[v] = NoRow)
                           /\ session[v] # NoRow => session'[v].total = session[v].total
    <3>1. session[u] \in Sessions /\ session[u] # NoRow
      BY <1>0, <1>2 DEF Claim, Exists, TypeOK
    <3>2. PICK row : row = [session[u] EXCEPT !.state = "completing", !.started = "recent"]
      OBVIOUS
    <3>3. row \in Sessions /\ row.total = session[u].total
      BY <3>1, <3>2 DEF Sessions, States, Started
    <3>4. session' = [session EXCEPT ![u] = row]
      BY <1>0, <1>2, <3>1, <3>2 DEF Claim, Sessions, TypeOK
    <3> QED BY <1>0, <3>1, <3>3, <3>4, NoRowAssumption DEF TypeOK
  <2>3. \A v \in Uploads : SessionFits(v)'
    BY <1>0, <2>1, <2>2 DEF ChunksFit, SessionFits, Exists
  <2>4. ASSUME NEW s \in Requests PROVE RequestFits(s)'
    <3>1. RequestFits(s) /\ (pc[s] # "idle" => target[s] \in Uploads)
      BY DEF WholeInv, ChunksFit, TypeInv, Located
    <3>2. CASE s = r
      BY <2>1, <3>2 DEF RequestFits
    <3>3. CASE s # r
      BY <2>1, <2>2, <3>1, <3>3 DEF RequestFits, Exists
    <3> QED BY <3>2, <3>3
  <2> QED BY <2>3, <2>4 DEF ChunksFit
<1> QED BY <1>1, <1>2 DEF Arrives

\* A new session has an id nothing refers to yet.
LEMMA BeginFits ==
    ASSUME WholeInv, NEW u \in Uploads, Begin(u)
    PROVE  ChunksFit' /\ \A v \in Uploads : plan[v] # 0 => plan'[v] = plan[v]
<1>0. TypeOK /\ ChunksFit
  BY DEF WholeInv, TypeInv
<1>1. PICK total \in 1 .. MaxChunks : /\ plan' = [plan EXCEPT ![u] = total]
                                      /\ session' = [session EXCEPT ![u] = NewSession(total)]
  BY DEF Begin
<1>2. plan[u] = 0 /\ pc' = pc /\ target' = target /\ index' = index /\ chunks' = chunks
  BY DEF Begin
<1>3. \A v \in Uploads \ {u} : session'[v] = session[v] /\ plan'[v] = plan[v]
  BY <1>0, <1>1 DEF TypeOK
<1>4. plan'[u] = total /\ session'[u].total = total /\ total \in Nat \ {0} /\ chunks[u] = {}
  BY <1>0, <1>1, <1>2, SizesAssumption DEF NewSession, TypeOK, ChunksFit, SessionFits
<1>5. \A v \in Uploads : SessionFits(v)'
  <2>1. SessionFits(u)'
    BY <1>2, <1>4 DEF SessionFits
  <2>2. \A v \in Uploads \ {u} : SessionFits(v)'
    BY <1>0, <1>2, <1>3 DEF ChunksFit, SessionFits, Exists
  <2> QED BY <2>1, <2>2
<1>6. ASSUME NEW s \in Requests PROVE RequestFits(s)'
  <2>1. RequestFits(s) /\ (pc[s] # "idle" => target[s] \in Uploads)
    BY DEF WholeInv, ChunksFit, TypeInv, Located
  <2>2. pc[s] \in {"store", "count", "lookup", "assemble"} => target[s] # u
    BY <1>0, <1>2, <2>1 DEF RequestFits, TypeOK, Index
  <2> QED BY <1>2, <1>3, <2>1, <2>2 DEF RequestFits, Exists
<1>7. \A v \in Uploads : plan[v] # 0 => plan'[v] = plan[v]
  BY <1>2, <1>3
<1> QED BY <1>5, <1>6, <1>7 DEF ChunksFit

LEMMA OtherStepsFit ==
    ASSUME WholeInv,
           \/ \E r \in Requests : Fails(r)
           \/ Prune \/ \E u \in Uploads : Abort(u) \/ LeaseLapses(u) \/ GrowsOld(u)
    PROVE  AddsNothing /\ AssemblesNothing
<1>0. TypeOK /\ TypeInv
  BY DEF WholeInv, TypeInv
<1> DEFINE Rows == \A u \in Uploads :
              \/ session'[u] = NoRow /\ chunks'[u] = {}
              \/ /\ session[u] # NoRow /\ session'[u] # NoRow
                 /\ session'[u].total = session[u].total /\ chunks'[u] = chunks[u]
<1>1. ASSUME plan' = plan,
             UNCHANGED <<session, chunks>> \/ \E gone : DeleteSessions(gone)
      PROVE  Rows
  BY <1>1, SameRowsFit
<1> USE <1>0 DEF TypeOK
<1>2. ASSUME NEW r \in Requests, EraseFails(r) \/ CallFails(r) \/ RequestDies(r)
      PROVE  AddsNothing /\ AssemblesNothing
  <2>1. Rows
    BY <1>1, <1>2 DEF EraseFails, CallFails, RequestDies
  <2>2. AddsNothing
    BY <1>2, <2>1 DEF EraseFails, CallFails, RequestDies, AddsNothing
  <2> QED BY <1>2, <2>2, SameObjects DEF EraseFails, CallFails, RequestDies
<1>3. ASSUME NEW r \in Requests, TransformFails(r)
      PROVE  AddsNothing /\ AssemblesNothing
  <2>1. Rows
    BY <1>1, <1>3 DEF TransformFails
  <2>2. AddsNothing
    BY <1>3, <2>1 DEF TransformFails, AddsNothing
  <2>3. url[r] \in Urls
    BY <1>3, Addresses DEF TransformFails, TypeInv, Located
  <2> QED BY <1>3, <2>2, <2>3, ErasureAssemblesNothing DEF TransformFails
<1>4. CASE Prune
  <2>1. Rows
    BY <1>1, <1>4 DEF Prune
  <2> QED BY <1>4, <2>1, SameObjects DEF Prune, AddsNothing
<1>5. ASSUME NEW u \in Uploads, Abort(u)
      PROVE  AddsNothing /\ AssemblesNothing
  <2>1. Rows
    BY <1>1, <1>5 DEF Abort
  <2> QED BY <1>5, <2>1, SameObjects DEF Abort, AddsNothing
<1>6. ASSUME NEW u \in Uploads, LeaseLapses(u)
      PROVE  AddsNothing /\ AssemblesNothing
  <2>0. \A v \in Uploads : session[v] = NoRow => chunks[v] = {}
    BY DEF WholeInv, ChunksFit, SessionFits, Exists
  <2>1. Rows
    <3>1. session[u] \in Sessions
      BY <1>6 DEF LeaseLapses, Exists
    <3>2. PICK row : row = [session[u] EXCEPT !.started = "lapsed"]
      OBVIOUS
    <3>3. row \in Sessions /\ row.total = session[u].total
      BY <3>1, <3>2 DEF Sessions, Started
    <3>4. session' = [session EXCEPT ![u] = row] /\ chunks' = chunks
      BY <1>6, <3>1, <3>2 DEF LeaseLapses, Sessions
    <3> QED BY <2>0, <3>1, <3>3, <3>4, NoRowAssumption
  <2> QED BY <1>6, <2>1, SameObjects DEF LeaseLapses, AddsNothing
<1>7. ASSUME NEW u \in Uploads, GrowsOld(u)
      PROVE  AddsNothing /\ AssemblesNothing
  <2>1. Rows
    BY <1>1, <1>7 DEF GrowsOld
  <2> QED BY <1>7, <2>1, SameObjects DEF GrowsOld, AddsNothing
<1> QED BY <1>2, <1>3, <1>4, <1>5, <1>6, <1>7 DEF Fails

\* What a completion assembles was counted.
LEMMA ProgressKeepsWhole ==
    ASSUME WholeInv, TypeInv', NEW r \in Requests, Progress(r)
    PROVE  WholeObjects'
<1>0. /\ TypeOK /\ TypeOK' /\ WholeObjects /\ plan' = plan /\ TypeInv
      /\ (pc[r] # "idle" => target[r] \in Uploads)
  BY ProgressIsLocal DEF WholeInv, TypeInv, StaysLocal, Located
<1>1. AssemblesNothing => WholeObjects'
  BY <1>0, OldStaysWhole
<1>2. media' = media /\ bucket' = bucket => AssemblesNothing
  BY <1>0, SameObjects
<1>3. CASE \/ Discard(r) \/ Count(r) \/ Reopen(r) \/ Lookup(r)
           \/ AssembleNothing(r) \/ KeepInDatabase(r) \/ Verify(r) \/ Forget(r) \/ Release(r)
           \/ \E ok \in BOOLEAN : \/ StoreChunk(r, ok) \/ Mark(r, ok) \/ Finish(r, ok)
                                  \/ SaveResult(r, ok) \/ Cleanup(r, ok)
  BY <1>1, <1>2, <1>3 DEF Discard, Count, Reopen, Lookup, AssembleNothing, KeepInDatabase,
     Verify, Forget, Release, StoreChunk, Mark, Finish, SaveResult, Cleanup
<1>4. CASE Transform(r)
  <2>1. PICK id \in MediaId : url[r].key = id
    BY <1>0, <1>4, Addresses DEF Transform, TypeInv, Located
  <2>2. bucket' = bucket
    BY <1>4 DEF Transform
  <2>3. media' = [media EXCEPT ![id] = IF media[id] = NoMedia THEN NoMedia
                                       ELSE [media[id] EXCEPT !.processed = TRUE]]
    BY <1>0, <1>4, <2>1 DEF Transform, TypeOK
  <2>4. AssemblesNothing
    BY <1>0, <2>2, <2>3 DEF AssemblesNothing, Old, TypeOK, Objects
  <2> QED BY <1>1, <2>4
<1>5. CASE Offload(r)
  <2>1. PICK id \in MediaId : url[r].key = id
    BY <1>0, <1>5, Addresses DEF Offload, TypeInv, Located
  <2>2. media' = media /\ bucket' = [bucket EXCEPT ![target[r]] = media[id]]
    BY <1>5, <2>1 DEF Offload
  <2>3. AssemblesNothing
    BY <1>0, <1>5, <2>2 DEF AssemblesNothing, Old, TypeOK, Offload
  <2> QED BY <1>1, <2>3
<1>6. CASE Erase(r) \/ \E ok \in BOOLEAN : DropCopy(r, ok)
  <2>1. url[r] \in Urls /\ DeleteStoredMedia(url[r])
    BY <1>0, <1>6, Addresses DEF Erase, DropCopy, TypeInv, Located
  <2> QED BY <1>0, <1>1, <2>1, ErasureAssemblesNothing
<1>7. ASSUME NEW ok \in BOOLEAN, Assemble(r, ok)
      PROVE  WholeObjects'
  <2>1. PICK object : object = [upload |-> target[r], parts |-> chunks[target[r]], processed |-> FALSE]
    OBVIOUS
  <2>2. minted' \in MediaId /\ bucket' = bucket /\ media' = [media EXCEPT ![minted'] = object]
    BY <1>0, <1>7, <2>1, SizesAssumption DEF Assemble, TypeOK, MediaId
  <2>3. RequestFits(r) /\ SessionFits(target[r]) /\ pc[r] = "assemble" /\ chunks[target[r]] # {}
    BY <1>0, <1>7 DEF Assemble, WholeInv, ChunksFit
  <2>4. Whole(object)
    BY <2>1, <2>3 DEF RequestFits, SessionFits, Whole
  <2>5. \A x : Whole(x) => plan'[x.upload] # 0 /\ x.parts = 0 .. plan'[x.upload] - 1
    BY <1>0 DEF Whole
  <2>6. ASSUME NEW id \in MediaId, media'[id] # NoMedia
        PROVE  media'[id] = object \/ (media[id] # NoMedia /\ media'[id] = media[id])
    BY <1>0, <2>2, <2>6 DEF TypeOK
  <2>7. /\ \A id \in MediaId : media'[id] # NoMedia =>
               plan'[media'[id].upload] # 0 /\ media'[id].parts = 0 .. plan'[media'[id].upload] - 1
        /\ \A u \in Uploads : bucket'[u] # NoMedia =>
               plan'[bucket'[u].upload] # 0 /\ bucket'[u].parts = 0 .. plan'[bucket'[u].upload] - 1
    BY <1>0, <2>2, <2>4, <2>5, <2>6 DEF WholeObjects
  <2> QED BY <2>7 DEF WholeObjects, Whole
<1> QED BY <1>3, <1>4, <1>5, <1>6, <1>7 DEF Progress

LEMMA WholeStep == WholeInv /\ [Next]_vars => WholeInv'
<1> SUFFICES ASSUME WholeInv, [Next]_vars PROVE WholeInv'
  OBVIOUS
<1>0. TypeInv /\ TypeInv' /\ TypeOK /\ TypeOK' /\ ChunksFit /\ WholeObjects
  BY StepTyped DEF WholeInv, TypeInv
<1>1. AddsNothing /\ AssemblesNothing => WholeInv'
  <2> SUFFICES ASSUME AddsNothing, AssemblesNothing PROVE WholeInv'
    OBVIOUS
  <2>1. ChunksFit'
    BY <1>0, NothingAdded
  <2>2. WholeObjects'
    BY <1>0, OldStaysWhole DEF AddsNothing
  <2> QED BY <1>0, <2>1, <2>2 DEF WholeInv
<1>2. ASSUME NEW r \in Requests, Progress(r) PROVE WholeInv'
  <2>1. WholeObjects'
    BY <1>0, <1>2, ProgressKeepsWhole
  <2>2. ChunksFit'
    BY <1>0, <1>2, ProgressAddsNothing, NothingAdded, CountFits, StoreChunkFits
  <2> QED BY <1>0, <2>1, <2>2 DEF WholeInv
<1>3. ASSUME NEW r \in Requests, Arrives(r) PROVE WholeInv'
  <2>1. plan' = plan /\ media' = media /\ bucket' = bucket
    BY <1>3 DEF Arrives, CheckChunk, Claim
  <2>2. WholeObjects'
    BY <1>0, <2>1, SameObjects, OldStaysWhole
  <2> QED BY <1>0, <1>3, <2>2, ArrivalFits DEF WholeInv
<1>4. ASSUME NEW u \in Uploads, Begin(u) PROVE WholeInv'
  <2>1. media' = media /\ bucket' = bucket
    BY <1>4 DEF Begin
  <2>2. ChunksFit' /\ WholeObjects'
    BY <1>0, <1>4, <2>1, BeginFits, SameObjects, OldStaysWhole
  <2> QED BY <1>0, <2>2 DEF WholeInv
<1>5. CASE UNCHANGED vars
  BY <1>0, <1>5 DEF vars, WholeInv, ChunksFit, WholeObjects, SessionFits, RequestFits, Whole, Exists
<1> QED BY <1>1, <1>2, <1>3, <1>4, <1>5, OtherStepsFit DEF Next

LEMMA InitWhole == Init => WholeInv
<1> SUFFICES ASSUME Init PROVE WholeInv
  OBVIOUS
<1>1. ChunksFit
  BY DEF Init, ChunksFit, SessionFits, RequestFits, Exists
<1>2. WholeObjects
  BY DEF Init, WholeObjects
<1> QED BY <1>1, <1>2, InitTyped DEF WholeInv

\* A published object holds every chunk of its upload and nothing else, for any
\* number of chunks, requests and faults: chunks that arrive late, sessions that
\* are pruned and completions that overlap change nothing about it.
THEOREM PublishedStaysWhole == Spec => []PublishedIsWhole
<1>1. MediaInv /\ WholeInv => PublishedIsWhole
  <2> SUFFICES ASSUME MediaInv, WholeInv, NEW u \in Uploads, NEW a \in published[u]
               PROVE  ObjectAt(a).parts = 0 .. plan[u] - 1
    BY DEF PublishedIsWhole
  <2>1. Lasting(a, u)
    BY DEF MediaInv, BusinessLasting
  <2>2. /\ ObjectAt(a).upload = u
        /\ \/ \E id \in MediaId : media[id] # NoMedia /\ ObjectAt(a) = media[id]
           \/ bucket[u] # NoMedia /\ ObjectAt(a) = bucket[u]
    BY <2>1, Addresses DEF Lasting, Usable, Ready, ObjectAt
  <2> QED BY <2>2 DEF WholeInv, WholeObjects, Whole
<1> QED BY InitSound, SoundStep, InitWhole, WholeStep, <1>1, PTL DEF Spec

----------------------------------------------------------------------------
(* Nothing is orphaned without a fault *)

LEMMA FaultsOnlyGrow == ASSUME TypeInv, [Next]_vars PROVE faults <= faults'
<1>0. faults \in Nat
  BY SizesAssumption DEF TypeInv, TypeOK
<1> USE <1>0 DEF Outcome, Fault
<1>1. ASSUME NEW r \in Requests, Progress(r) PROVE faults <= faults'
  <2>1. CASE \/ Discard(r) \/ Count(r) \/ Reopen(r) \/ Lookup(r)
             \/ AssembleNothing(r) \/ Transform(r) \/ KeepInDatabase(r) \/ Offload(r)
             \/ Verify(r) \/ Erase(r) \/ Forget(r) \/ Release(r)
    BY <2>1 DEF Discard, Count, Reopen, Lookup, AssembleNothing, Transform, KeepInDatabase,
       Offload, Verify, Erase, Forget, Release
  <2>2. CASE \E ok \in BOOLEAN :
                \/ StoreChunk(r, ok) \/ Assemble(r, ok) \/ DropCopy(r, ok)
                \/ Mark(r, ok) \/ Finish(r, ok) \/ SaveResult(r, ok) \/ Cleanup(r, ok)
    BY <2>2 DEF StoreChunk, Assemble, DropCopy, Mark, Finish, SaveResult, Cleanup
  <2> QED BY <1>1, <2>1, <2>2 DEF Progress
<1>2. ASSUME NEW r \in Requests, Fails(r) PROVE faults <= faults'
  BY <1>2 DEF Fails, TransformFails, EraseFails, CallFails, RequestDies
<1>3. ASSUME NEW r \in Requests, Arrives(r) PROVE faults <= faults'
  BY <1>3 DEF Arrives, CheckChunk, Claim
<1>4. CASE Prune \/ \E u \in Uploads : Begin(u) \/ Abort(u) \/ LeaseLapses(u) \/ GrowsOld(u)
  <2>1. Prune => faults' = faults
    BY DEF Prune
  <2>2. \A u \in Uploads : /\ Begin(u) => faults' = faults
                           /\ Abort(u) => faults' = faults
                           /\ LeaseLapses(u) => faults' = faults
                           /\ GrowsOld(u) => faults' = faults
    BY DEF Begin, Abort, LeaseLapses, GrowsOld
  <2> QED BY <1>4, <2>1, <2>2
<1>5. CASE UNCHANGED vars
  BY <1>5 DEF vars
<1> QED BY <1>1, <1>2, <1>3, <1>4, <1>5 DEF Next

\* As long as nothing failed, an object is published or in the hands of the
\* completion that assembled it: it need not be found through its session.
Referred == faults = 0 => \A id \in MediaId : media[id] # NoMedia =>
    \/ \E u \in Uploads : DatabaseUrl(id) \in published[u]
    \/ \E r \in Requests : pc[r] \in Carriers /\ url[r] = DatabaseUrl(id)

LEMMA ReferredStep ==
    ASSUME Referred, faults' = 0 => faults = 0,
           \A u \in Uploads : published[u] \subseteq published'[u],
           \A id \in MediaId : media'[id] # NoMedia => media[id] # NoMedia,
           \A r \in Requests, id \in MediaId :
               pc[r] \in Carriers /\ url[r] = DatabaseUrl(id) /\ media'[id] # NoMedia =>
                   \/ pc'[r] \in Carriers /\ url'[r] = url[r]
                   \/ \E u \in Uploads : DatabaseUrl(id) \in published'[u]
    PROVE  Referred'
BY DEF Referred

LEMMA ProgressRefers ==
    ASSUME TypeInv, TypeInv', Referred, NEW r \in Requests, Progress(r)
    PROVE  Referred'
<1>0. TypeOK /\ faults \in Nat /\ (pc[r] # "idle" => target[r] \in Uploads)
  BY SizesAssumption DEF TypeInv, TypeOK, Located
<1>1. faults + 1 # 0
  BY <1>0
<1>2. CASE \/ Discard(r) \/ Count(r) \/ Reopen(r) \/ Lookup(r) \/ AssembleNothing(r)
           \/ KeepInDatabase(r) \/ Offload(r) \/ Verify(r) \/ Forget(r) \/ Release(r)
  BY <1>0, <1>2, ReferredStep DEF Discard, Count, Reopen, Lookup, AssembleNothing,
     KeepInDatabase, Offload, Verify, Forget, Release, Carriers, TypeOK
<1>3. CASE Transform(r)
  BY <1>0, <1>3, ReferredStep DEF Transform, Carriers, TypeOK
<1>4. CASE Erase(r)
  <2>1. \A id \in MediaId : url[r] = DatabaseUrl(id) => media'[id] = NoMedia
    BY <1>0, <1>4, Addresses DEF Erase, DeleteStoredMedia, TypeOK
  <2>2. \A id \in MediaId : media'[id] # NoMedia => media[id] # NoMedia
    BY <1>0, <1>4 DEF Erase, DeleteStoredMedia, TypeOK
  <2> QED BY <1>0, <1>4, <2>1, <2>2, ReferredStep DEF Erase, Carriers, TypeOK
<1>5. ASSUME NEW ok \in BOOLEAN,
             StoreChunk(r, ok) \/ SaveResult(r, ok) \/ Cleanup(r, ok) \/ Mark(r, ok)
      PROVE  Referred'
  <2>1. CASE faults' # 0
    BY <2>1 DEF Referred
  <2>2. CASE faults' = 0
    <3>1. ok
      BY <1>1, <1>5, <2>2 DEF StoreChunk, SaveResult, Cleanup, Mark, Outcome, Fault
    <3> QED BY <1>0, <1>5, <3>1, ReferredStep
            DEF StoreChunk, SaveResult, Cleanup, Mark, Outcome, Carriers, TypeOK
  <2> QED BY <2>1, <2>2
<1>6. ASSUME NEW ok \in BOOLEAN, DropCopy(r, ok) PROVE Referred'
  <2>1. \A id \in MediaId : url[r] = DatabaseUrl(id) => media'[id] = NoMedia
    BY <1>0, <1>6, Addresses DEF DropCopy, DeleteStoredMedia, TypeOK
  <2>2. \A id \in MediaId : media'[id] # NoMedia => media[id] # NoMedia
    BY <1>0, <1>6 DEF DropCopy, DeleteStoredMedia, TypeOK
  <2>3. faults' = 0 => faults = 0
    BY <1>1, <1>6 DEF DropCopy, Outcome, Fault
  <2> QED BY <1>0, <1>6, <2>1, <2>2, <2>3, ReferredStep DEF DropCopy, Outcome, TypeOK
<1>7. ASSUME NEW ok \in BOOLEAN, Finish(r, ok) PROVE Referred'
  <2>1. faults' = 0 => faults = 0
    BY <1>1, <1>7 DEF Finish, Outcome, Fault
  <2>2. url[r] \in published'[target[r]] /\ target[r] \in Uploads
    BY <1>0, <1>7 DEF Finish, TypeOK
  <2> QED BY <1>0, <1>7, <2>1, <2>2, ReferredStep DEF Finish, Outcome, TypeOK
<1>8. ASSUME NEW ok \in BOOLEAN, Assemble(r, ok) PROVE Referred'
  <2>1. CASE faults' # 0
    BY <2>1 DEF Referred
  <2>2. CASE faults' = 0
    <3>1. ok /\ faults = 0
      BY <1>1, <1>8, <2>2 DEF Assemble, Outcome, Fault
    <3>2. /\ pc'[r] = "transform" /\ url'[r] = DatabaseUrl(minted') /\ published' = published
          /\ \A s \in Requests \ {r} : pc'[s] = pc[s] /\ url'[s] = url[s]
          /\ \A id \in MediaId : id # minted' => media'[id] = media[id]
          /\ pc[r] \notin Carriers
      BY <1>0, <1>8, <3>1 DEF Assemble, Outcome, TypeOK, Carriers
    <3>3. ASSUME NEW id \in MediaId, media'[id] # NoMedia
          PROVE  \/ \E u \in Uploads : DatabaseUrl(id) \in published'[u]
                 \/ \E s \in Requests : pc'[s] \in Carriers /\ url'[s] = DatabaseUrl(id)
      <4>1. CASE id = minted'
        BY <3>2, <4>1 DEF Carriers
      <4>2. CASE id # minted'
        BY <3>1, <3>2, <3>3, <4>2 DEF Referred
      <4> QED BY <4>1, <4>2
    <3> QED BY <3>3 DEF Referred
  <2> QED BY <2>1, <2>2
<1> QED BY <1>2, <1>3, <1>4, <1>5, <1>6, <1>7, <1>8 DEF Progress

LEMMA StepRefers == TypeInv /\ Referred /\ [Next]_vars => Referred'
<1> SUFFICES ASSUME TypeInv, Referred, [Next]_vars PROVE Referred'
  OBVIOUS
<1>0. TypeInv' /\ TypeOK /\ faults \in Nat
  BY StepTyped, SizesAssumption DEF TypeInv, TypeOK
<1>1. ASSUME NEW r \in Requests, Progress(r) PROVE Referred'
  BY <1>0, <1>1, ProgressRefers
<1>2. ASSUME NEW r \in Requests, Fails(r) PROVE Referred'
  <2>1. faults' # 0
    BY <1>0, <1>2 DEF Fails, TransformFails, EraseFails, CallFails, RequestDies, Fault
  <2> QED BY <2>1 DEF Referred
<1>3. ASSUME NEW r \in Requests, Arrives(r) PROVE Referred'
  <2>1. faults' = 0 => faults = 0
    BY <1>0, <1>3, FaultsOnlyGrow DEF TypeInv, TypeOK
  <2> QED BY <1>0, <1>3, <2>1, ReferredStep DEF Arrives, CheckChunk, Claim, Outcome, Carriers, TypeOK
<1>4. CASE Prune \/ \E u \in Uploads : Begin(u) \/ Abort(u) \/ LeaseLapses(u) \/ GrowsOld(u)
  BY <1>4, RequestsUntouched, ReferredStep DEF Prune, Begin, Abort, LeaseLapses, GrowsOld
<1>5. CASE UNCHANGED vars
  BY <1>5 DEF vars, Referred
<1> QED BY <1>1, <1>2, <1>3, <1>4, <1>5 DEF Next

\* While no call has failed and no server died, every media object is published
\* or being dealt with, however requests interleave, sessions are pruned and
\* completions outlive their lease.
THEOREM NothingIsOrphaned == Spec => []NoOrphanWithoutFault
<1>1. Init => Referred
  BY DEF Init, Referred
<1>2. Referred => NoOrphanWithoutFault
  BY DEF Referred, NoOrphanWithoutFault, Carriers, Completing
<1> QED BY InitTyped, StepTyped, <1>1, StepRefers, <1>2, PTL DEF Spec

----------------------------------------------------------------------------
(* A second business row costs a fault *)

\* While a completion may still insert the row of its upload, and while no
\* result is stored or being stored, each row inserted so far cost a fault.
Paid ==
    /\ \A u \in Uploads : plan[u] = 0 => records[u] = 0
    /\ \A r \in Requests : pc[r] \in MayPublish => records[target[r]] <= faults
    /\ \A u \in Uploads :
          Exists(u) /\ ~session[u].result
          /\ (\A r \in Requests : ~(pc[r] = "save" /\ target[r] = u)) => records[u] <= faults

PaidInv == ClaimInv /\ Paid /\ DuplicatesNeedFaults

\* A step that inserts no business row, opens no session and claims none.
PaysAsItGoes ==
    /\ records' = records /\ faults <= faults'
    /\ \A u \in Uploads : plan'[u] = 0 => plan[u] = 0
    /\ \A s \in Requests : pc'[s] \in MayPublish => pc[s] \in MayPublish /\ target'[s] = target[s]
    /\ \A u \in Uploads : Exists(u)' /\ ~session'[u].result => Exists(u) /\ ~session[u].result
    /\ \A s \in Requests : pc[s] = "save" =>
          \/ pc'[s] = "save" /\ target'[s] = target[s]
          \/ faults' = faults + 1
          \/ session'[target[s]] # NoRow => session'[target[s]].result

LEMMA PaidAsItGoes ==
    ASSUME PaidInv, TypeInv', PaysAsItGoes
    PROVE  Paid' /\ DuplicatesNeedFaults'
<1>0. /\ \A u \in Uploads : records[u] \in Nat /\ records'[u] = records[u]
      /\ faults \in Nat /\ faults' \in Nat /\ faults <= faults'
      /\ \A s \in Requests : pc[s] # "idle" => target[s] \in Uploads
  BY SizesAssumption DEF PaidInv, ClaimInv, TypeInv, TypeOK, Located, PaysAsItGoes
<1>1. DuplicatesNeedFaults'
  BY <1>0 DEF PaidInv, DuplicatesNeedFaults
<1>2. \A u \in Uploads : plan'[u] = 0 => records'[u] = 0
  BY <1>0 DEF PaidInv, Paid, PaysAsItGoes
<1>3. \A r \in Requests : pc'[r] \in MayPublish => records'[target'[r]] <= faults'
  BY <1>0 DEF PaidInv, Paid, PaysAsItGoes, MayPublish
<1>4. ASSUME NEW u \in Uploads, Exists(u)', ~session'[u].result,
             \A r \in Requests : ~(pc'[r] = "save" /\ target'[r] = u)
      PROVE  records'[u] <= faults'
  <2>1. Exists(u) /\ ~session[u].result
    BY <1>4 DEF PaysAsItGoes
  <2>2. CASE \A r \in Requests : ~(pc[r] = "save" /\ target[r] = u)
    BY <1>0, <2>1, <2>2 DEF PaidInv, Paid
  <2>3. CASE \E r \in Requests : pc[r] = "save" /\ target[r] = u
    <3>1. faults' = faults + 1
      BY <1>4, <2>3 DEF PaysAsItGoes, Exists
    <3> QED BY <1>0, <3>1 DEF PaidInv, DuplicatesNeedFaults
  <2> QED BY <2>2, <2>3
<1> QED BY <1>1, <1>2, <1>3, <1>4 DEF Paid

\* The calls of a completion but the insert.
LEMMA ProgressPays ==
    ASSUME PaidInv, TypeInv', NEW r \in Requests, Progress(r), faults <= faults',
           \A ok \in BOOLEAN : ~Finish(r, ok)
    PROVE  PaysAsItGoes
<1>0. /\ TypeOK /\ (pc[r] # "idle" => target[r] \in Uploads) /\ ClaimInv
      /\ \A u \in Uploads : plan'[u] = plan[u]
      /\ target' = target /\ \A s \in Requests \ {r} : pc'[s] = pc[s]
      /\ \A u \in Uploads \ {target[r]} : session'[u] = session[u]
      /\ pc[r] # "idle"
  BY ProgressIsLocal DEF PaidInv, ClaimInv, TypeInv, Located, StaysLocal
<1>1. CASE Quiet(r) /\ pc[r] # "save"
  <2>1. \A u \in Uploads : Exists(u)' /\ ~session'[u].result => Exists(u) /\ ~session[u].result
    BY <1>0, <1>1 DEF Quiet, SameStage, Stage, Exists
  <2> QED BY <1>0, <1>1, <2>1 DEF Quiet, PaysAsItGoes
<1>2. CASE Discard(r) \/ Forget(r) \/ \E ok \in BOOLEAN : Cleanup(r, ok)
  <2>1. /\ pc[r] \in {"discard", "forget", "cleanup"} /\ pc'[r] \in {"idle", "release"}
        /\ session'[target[r]] = NoRow /\ records' = records
    BY <1>0, <1>2 DEF Discard, Forget, Cleanup, Outcome, DeleteSessions, TypeOK
  <2> QED BY <1>0, <2>1 DEF PaysAsItGoes, MayPublish, Exists
<1>3. ASSUME NEW ok \in BOOLEAN, SaveResult(r, ok) PROVE PaysAsItGoes
  <2>1. /\ pc[r] = "save" /\ pc'[r] \in {"cleanup", "release"} /\ records' = records
    BY <1>0, <1>3 DEF SaveResult, Outcome, TypeOK
  <2>2. /\ Exists(target[r])' => Exists(target[r]) /\ session'[target[r]].result
    BY <1>0, <1>3 DEF SaveResult, UpdateRow, Exists, Sessions, TypeOK
  <2> QED BY <1>0, <2>1, <2>2 DEF PaysAsItGoes, MayPublish, Exists
<1>4. pc[r] = "save" => \E ok \in BOOLEAN : SaveResult(r, ok)
  BY DEF Progress, Discard, Count, Reopen, Lookup, AssembleNothing, Transform,
     KeepInDatabase, Offload, Verify, Erase, Forget, Release, StoreChunk, Assemble, DropCopy,
     Mark, Finish, Cleanup
<1> QED BY <1>0, <1>1, <1>2, <1>3, <1>4, QuietProgress

LEMMA FaultPays ==
    ASSUME PaidInv, TypeInv', NEW r \in Requests, Fails(r)
    PROVE  PaysAsItGoes
<1>0. TypeOK /\ ClaimInv /\ TypeInv /\ faults \in Nat
  BY SizesAssumption DEF PaidInv, ClaimInv, TypeInv, TypeOK
<1>1. Quiet(r) /\ StaysLocal(r)
  BY <1>0, QuietFaults, FaultIsLocal
<1>2. faults' = faults + 1
  BY <1>0 DEF Fails, TransformFails, EraseFails, CallFails, RequestDies, Fault
<1>3. \A u \in Uploads : Exists(u)' /\ ~session'[u].result => Exists(u) /\ ~session[u].result
  BY <1>1 DEF Quiet, SameStage, Stage, Exists
<1> QED BY <1>0, <1>1, <1>2, <1>3 DEF Quiet, StaysLocal, PaysAsItGoes

LEMMA SessionsPay ==
    ASSUME PaidInv, TypeInv',
           Prune \/ \E u \in Uploads : Abort(u) \/ LeaseLapses(u) \/ GrowsOld(u)
    PROVE  PaysAsItGoes
<1>0. TypeOK /\ faults \in Nat /\ pc' = pc /\ target' = target
  BY SizesAssumption, RequestsUntouched DEF PaidInv, ClaimInv, TypeInv, TypeOK
<1> USE <1>0 DEF PaysAsItGoes, Exists
<1>1. CASE Prune
  BY <1>1 DEF Prune, DeleteSessions
<1>2. ASSUME NEW u \in Uploads, Abort(u) PROVE PaysAsItGoes
  BY <1>2 DEF Abort, DeleteSessions
<1>3. ASSUME NEW u \in Uploads, LeaseLapses(u) PROVE PaysAsItGoes
  BY <1>3 DEF LeaseLapses, Sessions, TypeOK
<1>4. ASSUME NEW u \in Uploads, GrowsOld(u) PROVE PaysAsItGoes
  BY <1>4 DEF GrowsOld
<1> QED BY <1>1, <1>2, <1>3, <1>4

\* The insert: the row before it was paid for, and nobody else may insert one.
LEMMA FinishPays ==
    ASSUME PaidInv, TypeInv', NEW r \in Requests, NEW ok \in BOOLEAN, Finish(r, ok)
    PROVE  Paid' /\ DuplicatesNeedFaults'
<1>0. /\ TypeOK /\ pc[r] = "finish" /\ target[r] \in Uploads /\ target' = target
      /\ session' = session /\ plan' = plan
      /\ pc'[r] = IF ok THEN "save" ELSE "release"
      /\ faults' = IF ok THEN faults ELSE faults + 1
      /\ \A s \in Requests \ {r} : pc'[s] = pc[s]
      /\ faults \in Nat /\ \A u \in Uploads : records[u] \in Nat
      /\ \A s \in Requests : pc[s] # "idle" => target[s] \in Uploads
  BY SizesAssumption DEF PaidInv, ClaimInv, TypeInv, TypeOK, Located, Finish, Outcome, Fault
<1>1. PICK u \in Uploads : u = target[r]
  BY <1>0
<1>2. records[u] <= faults /\ plan[u] # 0
  BY <1>0, <1>1 DEF PaidInv, Paid, MayPublish, ClaimInv, Held, Completing
<1>3. records'[u] = records[u] + 1 /\ \A v \in Uploads \ {u} : records'[v] = records[v]
  BY <1>0, <1>1 DEF Finish, TypeOK
<1>4. \A s \in Requests \ {r} : pc[s] \in MayPublish => target[s] # u
  BY <1>0, <1>1 DEF PaidInv, ClaimInv, ExclusiveCompletion, Completes, MayPublish, Completing
<1>5. DuplicatesNeedFaults'
  BY <1>0, <1>2, <1>3 DEF PaidInv, DuplicatesNeedFaults
<1>6. \A v \in Uploads : plan'[v] = 0 => records'[v] = 0
  BY <1>0, <1>2, <1>3 DEF PaidInv, Paid
<1>7. \A s \in Requests : pc'[s] \in MayPublish => records'[target'[s]] <= faults'
  <2> SUFFICES ASSUME NEW s \in Requests, pc'[s] \in MayPublish
               PROVE  records'[target[s]] <= faults'
    BY <1>0
  <2>1. s # r /\ pc[s] \in MayPublish /\ target[s] \in Uploads \ {u}
    BY <1>0, <1>4 DEF MayPublish
  <2> QED BY <1>0, <1>3, <2>1 DEF PaidInv, Paid
<1>8. ASSUME NEW v \in Uploads, Exists(v)', ~session'[v].result,
             \A s \in Requests : ~(pc'[s] = "save" /\ target'[s] = v)
      PROVE  records'[v] <= faults'
  <2>1. CASE v = u
    BY <1>0, <1>1, <1>2, <1>3, <1>8, <2>1
  <2>2. CASE v # u
    <3>1. \A s \in Requests : ~(pc[s] = "save" /\ target[s] = v)
      BY <1>0, <1>1, <1>8, <2>2
    <3> QED BY <1>0, <1>3, <1>8, <2>2, <3>1 DEF PaidInv, Paid, Exists
  <2> QED BY <2>1, <2>2
<1> QED BY <1>5, <1>6, <1>7, <1>8 DEF Paid

\* A claim finds every row inserted so far paid for, and so does a new session.
LEMMA ArrivalPays ==
    ASSUME PaidInv, TypeInv', NEW r \in Requests, Arrives(r), faults <= faults'
    PROVE  Paid' /\ DuplicatesNeedFaults'
<1>0. /\ TypeOK /\ faults \in Nat /\ faults' \in Nat /\ faults <= faults'
      /\ records' = records /\ plan' = plan /\ (\A u \in Uploads : records[u] \in Nat)
      /\ \A s \in Requests : pc[s] # "idle" => target[s] \in Uploads
  BY SizesAssumption DEF PaidInv, ClaimInv, TypeInv, TypeOK, Located, Arrives, CheckChunk, Claim
<1>1. ASSUME NEW u \in Uploads, NEW i \in Index, CheckChunk(r, u, i)
      PROVE  Paid' /\ DuplicatesNeedFaults'
  <2>1. PaysAsItGoes
    BY <1>0, <1>1 DEF CheckChunk, PaysAsItGoes, MayPublish, TypeOK, Exists
  <2> QED BY <2>1, PaidAsItGoes
<1>2. ASSUME NEW u \in Uploads, NEW ok \in BOOLEAN, Claim(r, u, ok)
      PROVE  Paid' /\ DuplicatesNeedFaults'
  <2>1. /\ pc[r] = "idle" /\ Exists(u) /\ target'[r] = u
        /\ pc'[r] \in {"idle", "discard", "count"}
        /\ pc'[r] = "count" => ~session[u].result
        /\ \A s \in Requests \ {r} : pc'[s] = pc[s] /\ target'[s] = target[s]
    BY <1>0, <1>2 DEF Claim, FirstCall, Outcome, TypeOK
  <2>2. \A s \in Requests : ~(pc[s] = "save" /\ target[s] = u)
    BY <1>2 DEF Claim, Claimable, PaidInv, ClaimInv, Held, Completing
  <2>3. \A v \in Uploads : Exists(v)' => Exists(v) /\ session'[v].result = session[v].result
    BY <1>0, <1>2 DEF Claim, Exists, Sessions, TypeOK
  <2>4. DuplicatesNeedFaults'
    BY <1>0 DEF PaidInv, DuplicatesNeedFaults
  <2>5. ASSUME NEW s \in Requests, pc'[s] \in MayPublish PROVE records'[target'[s]] <= faults'
    <3>1. CASE s = r
      <4>1. records[u] <= faults
        BY <2>1, <2>2, <2>5, <3>1 DEF PaidInv, Paid, MayPublish
      <4> QED BY <1>0, <2>1, <3>1, <4>1
    <3>2. CASE s # r
      BY <1>0, <2>1, <2>5, <3>2 DEF PaidInv, Paid, MayPublish
    <3> QED BY <3>1, <3>2
  <2>6. ASSUME NEW v \in Uploads, Exists(v)', ~session'[v].result,
               \A s \in Requests : ~(pc'[s] = "save" /\ target'[s] = v)
        PROVE  records'[v] <= faults'
    <3>1. \A s \in Requests : ~(pc[s] = "save" /\ target[s] = v)
      BY <2>1, <2>6
    <3> QED BY <1>0, <2>3, <2>6, <3>1 DEF PaidInv, Paid
  <2> QED BY <1>0, <2>4, <2>5, <2>6 DEF PaidInv, Paid
<1> QED BY <1>1, <1>2 DEF Arrives

LEMMA BeginPays ==
    ASSUME PaidInv, TypeInv', NEW u \in Uploads, Begin(u)
    PROVE  Paid' /\ DuplicatesNeedFaults'
<1>0. /\ TypeOK /\ faults \in Nat /\ faults' = faults /\ records' = records
      /\ pc' = pc /\ target' = target /\ records[u] = 0 /\ plan'[u] # 0
      /\ \A v \in Uploads \ {u} : session'[v] = session[v] /\ plan'[v] = plan[v]
  BY SizesAssumption DEF PaidInv, Paid, ClaimInv, TypeInv, TypeOK, Begin
<1> QED BY <1>0 DEF PaidInv, Paid, DuplicatesNeedFaults, Exists

LEMMA StepPays == ~SlowRequests => (PaidInv /\ [Next]_vars => PaidInv')
<1> SUFFICES ASSUME ~SlowRequests, PaidInv, [Next]_vars PROVE PaidInv'
  OBVIOUS
<1>0. ClaimInv' /\ TypeInv' /\ faults <= faults'
  BY StepKeepsClaims, FaultsOnlyGrow DEF PaidInv, ClaimInv
<1> SUFFICES Paid' /\ DuplicatesNeedFaults'
  BY <1>0 DEF PaidInv
<1>1. ASSUME NEW r \in Requests, Progress(r) PROVE Paid' /\ DuplicatesNeedFaults'
  BY <1>0, <1>1, ProgressPays, PaidAsItGoes, FinishPays
<1>2. ASSUME NEW r \in Requests, Fails(r) PROVE Paid' /\ DuplicatesNeedFaults'
  BY <1>0, <1>2, FaultPays, PaidAsItGoes
<1>3. ASSUME NEW r \in Requests, Arrives(r) PROVE Paid' /\ DuplicatesNeedFaults'
  BY <1>0, <1>3, ArrivalPays
<1>4. ASSUME NEW u \in Uploads, Begin(u) PROVE Paid' /\ DuplicatesNeedFaults'
  BY <1>0, <1>4, BeginPays
<1>5. CASE Prune \/ \E u \in Uploads : Abort(u) \/ LeaseLapses(u) \/ GrowsOld(u)
  BY <1>0, <1>5, SessionsPay, PaidAsItGoes
<1>6. CASE UNCHANGED vars
  BY <1>6 DEF vars, PaidInv, Paid, DuplicatesNeedFaults, Exists
<1> QED BY <1>1, <1>2, <1>3, <1>4, <1>5, <1>6 DEF Next

\* As long as no completion outlives its lease, the second, third, ... business
\* row of an upload each cost a fault: interleaving alone makes no duplicate.
THEOREM DuplicatesArePaid == ~SlowRequests => (Spec => []DuplicatesNeedFaults)
<1> SUFFICES ASSUME ~SlowRequests PROVE Spec => []DuplicatesNeedFaults
  OBVIOUS
<1>1. Init => PaidInv
  <2> SUFFICES ASSUME Init PROVE PaidInv
    OBVIOUS
  <2>1. \A r \in Requests : pc[r] \notin MayPublish
    BY DEF Init, MayPublish
  <2>2. \A u \in Uploads : ~Exists(u) /\ records[u] = 0
    BY DEF Init, Exists
  <2>3. faults = 0
    BY DEF Init
  <2> QED BY <2>1, <2>2, <2>3, InitHoldsNoClaim DEF PaidInv, Paid, DuplicatesNeedFaults
<1>2. PaidInv /\ [Next]_vars => PaidInv'
  BY StepPays
<1>3. PaidInv => DuplicatesNeedFaults
  BY DEF PaidInv
<1> QED BY <1>1, <1>2, <1>3, PTL DEF Spec

=============================================================================
