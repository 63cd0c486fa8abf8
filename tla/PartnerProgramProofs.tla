------------------------ MODULE PartnerProgramProofs ------------------------
(***************************************************************************)
(* What the loyalty program keeps for any number of partners, contracts    *)
(* and concurrent requests: cards that add up and rewards that follow the  *)
(* count of approvals; and, where no two requests deal with one contract   *)
(* or reward at once, that each counts once and a decision stands.         *)
(***************************************************************************)
EXTENDS PartnerProgram, FiniteSetTheorems, TLAPS

\* A contract belongs to an account, and a request names rows that exist: rows
\* are never deleted.
RowsExist ==
    /\ \A c \in Submitted : account[contract[c].partner] # NoRow
    /\ \A r \in Requests :
          /\ request[r] \in Submissions => account[request[r].partner] # NoRow
          /\ request[r] \in Approvals => request[r].contract \in Submitted
          /\ request[r] \in Claims =>
                request[r].reward \in Rewards(request[r].partner)

IInv == TypeOK /\ RowsExist /\ CardAddsUp /\ RewardsFollowCount

USE ProgramAssumption, AbsentAssumption

\* The arithmetic of one more approval.
LEMMA NextReward ==
    ASSUME NEW n \in Nat
    PROVE  1 .. (n + 1) \div 3 =
               IF (n + 1) % 3 = 0 THEN (1 .. n \div 3) \cup {(n + 1) \div 3}
                                  ELSE 1 .. n \div 3
<1>1. CASE (n + 1) % 3 = 0
  <2>1. (n + 1) \div 3 = (n \div 3) + 1
    BY <1>1
  <2>2. n \div 3 \in Nat
    OBVIOUS
  <2>3. \A q \in Nat : 1 .. (q + 1) = (1 .. q) \cup {q + 1}
    OBVIOUS
  <2> QED BY <1>1, <2>1, <2>2, <2>3
<1>2. CASE (n + 1) % 3 # 0
  <2>1. (n + 1) \div 3 = n \div 3
    BY <1>2
  <2> QED BY <1>2, <2>1
<1> QED BY <1>1, <1>2

\* A full card is what the next one adds.
LEMMA FullCard ==
    ASSUME NEW k \in Nat
    PROVE  CardSize * ((k + 1) - 1) = CardSize * (k - 1) + CardSize
<1>1. CardSize \in Nat
  OBVIOUS
<1> QED BY <1>1

----------------------------------------------------------------------------
(* The invariant holds at first and is kept by every action *)

LEMMA InitInv == Init => IInv
<1> SUFFICES ASSUME Init PROVE IInv
  OBVIOUS
<1>1. TypeOK
  BY DEF Init, TypeOK, Idle
<1>2. Submitted = {}
  BY DEF Init, Submitted
<1>3. RowsExist
  BY <1>2 DEF Init, RowsExist, Idle, Submissions, Approvals, Claims
<1>4. CardAddsUp /\ RewardsFollowCount
  BY DEF Init, CardAddsUp, RewardsFollowCount, Rewards
<1> QED BY <1>1, <1>3, <1>4 DEF IInv

\* The actions on an account alone: it stays well typed, adds up, keeps its
\* count and does not disappear.
LEMMA AccountInv ==
    ASSUME IInv, NEW p \in Partners, NEW row \in Accounts,
           account[p] # NoRow => row.count = account[p].count,
           account[p] = NoRow => row.count = 0,
           row.count = CardSize * (row.card - 1) + row.stamps,
           row # NoRow,
           account' = [account EXCEPT ![p] = row],
           UNCHANGED <<contract, available, claimed, request, history>>
    PROVE  IInv'
<1>1. TypeOK'
  BY DEF IInv, TypeOK, history
<1>2. /\ account'[p] = row
      /\ \A q \in Partners \ {p} : account'[q] = account[q]
  BY DEF IInv, TypeOK
<1>3. RowsExist'
  <2>1. Submitted' = Submitted
    BY DEF Submitted
  <2>2. \A q \in Partners : account[q] # NoRow => account'[q] # NoRow
    BY <1>2
  <2>3. \A c \in Submitted : contract[c].partner \in Partners
    BY DEF IInv, TypeOK, Submitted, Rows
  <2>4. \A r \in Requests : request[r] \in Submissions => request[r].partner \in Partners
    BY DEF Submissions
  <2> QED BY <2>1, <2>2, <2>3, <2>4 DEF IInv, RowsExist, Rewards
<1>4. CardAddsUp'
  BY <1>2 DEF IInv, CardAddsUp
<1>5. RewardsFollowCount'
  <2>1. row.count = 0 => 1 .. row.count \div RewardEvery = {}
    BY DEF RewardEvery
  <2> QED BY <1>2, <2>1 DEF IInv, RewardsFollowCount, Rewards
<1> QED BY <1>1, <1>3, <1>4, <1>5 DEF IInv

LEMMA CreateAccountInv ==
    ASSUME IInv, NEW p \in Partners, CreateAccount(p)
    PROVE  IInv'
<1> DEFINE row == [status |-> "active", card |-> 1, stamps |-> 0, count |-> 0]
<1>1. row \in Accounts /\ row # NoRow
  BY DEF Accounts
<1>2. row.count = CardSize * (row.card - 1) + row.stamps /\ row.count = 0
  OBVIOUS
<1>3. account[p] = NoRow /\ account' = [account EXCEPT ![p] = row]
  BY DEF CreateAccount
<1> HIDE DEF row
<1> QED BY <1>1, <1>2, <1>3, AccountInv DEF CreateAccount

LEMMA UpdateStatusInv ==
    ASSUME IInv, NEW p \in Partners, NEW status \in {"active", "suspended"},
           UpdateStatus(p, status)
    PROVE  IInv'
<1> DEFINE row == [account[p] EXCEPT !.status = status]
<1>1. account[p] # NoRow /\ account[p] \in Accounts
  BY DEF IInv, TypeOK, UpdateStatus
<1>2. row \in Accounts /\ row # NoRow /\ row.count = account[p].count
  BY <1>1 DEF Accounts
<1>3. row.count = CardSize * (row.card - 1) + row.stamps
  BY <1>1 DEF IInv, CardAddsUp, Accounts
<1>4. account' = [account EXCEPT ![p] = row]
  BY DEF UpdateStatus
<1> HIDE DEF row
<1> QED BY <1>1, <1>2, <1>3, <1>4, AccountInv DEF UpdateStatus

LEMMA IssueNewCardInv ==
    ASSUME IInv, NEW p \in Partners, IssueNewCard(p)
    PROVE  IInv'
<1> DEFINE row == [status |-> account[p].status, card |-> account[p].card + 1,
                   stamps |-> 0, count |-> account[p].count]
<1>1. account[p] # NoRow /\ account[p] \in Accounts /\ account[p].stamps = CardSize
  BY DEF IInv, TypeOK, IssueNewCard, Accounts
<1>2. row \in Accounts /\ row # NoRow /\ row.count = account[p].count
  BY <1>1 DEF Accounts
<1>3. row.count = CardSize * (row.card - 1) + row.stamps
  <2>1. account[p].count = CardSize * (account[p].card - 1) + CardSize
    BY <1>1 DEF IInv, CardAddsUp
  <2>2. row.card = account[p].card + 1 /\ row.stamps = 0 /\ account[p].card \in Nat
    BY <1>1 DEF Accounts
  <2> QED BY <1>2, <2>1, <2>2, FullCard
<1>4. account' = [account EXCEPT ![p] = row]
  BY <1>1 DEF IssueNewCard, IInv, TypeOK, Accounts
<1> HIDE DEF row
<1> QED BY <1>1, <1>2, <1>3, <1>4, AccountInv DEF IssueNewCard

\* The actions that only change what a request is doing, or a contract, leave
\* cards and rewards alone.
LEMMA UntouchedInv ==
    ASSUME IInv, UNCHANGED <<account, available, claimed>>
    PROVE  CardAddsUp' /\ RewardsFollowCount'
BY DEF IInv, CardAddsUp, RewardsFollowCount, Rewards

\* A request that starts has read rows that exist.
LEMMA RequestInv ==
    ASSUME IInv, NEW r \in Requests, NEW next,
           \/ next = Idle
           \/ next \in Submissions /\ account[next.partner] # NoRow
           \/ next \in Approvals /\ next.contract \in Submitted
           \/ next \in Claims /\ next.reward \in Rewards(next.partner),
           request' = [request EXCEPT ![r] = next],
           overlapped' \subseteq Partners, granted' = granted,
           UNCHANGED tables
    PROVE  IInv'
<1>1. TypeOK'
  BY DEF IInv, TypeOK, tables
<1>2. Submitted' = Submitted /\ \A p \in Partners : Rewards(p)' = Rewards(p)
  BY DEF Submitted, Rewards, tables
<1>3. \A s \in Requests : request'[s] = IF s = r THEN next ELSE request[s]
  BY DEF IInv, TypeOK
<1>4. next = Idle => next \notin Submissions \cup Approvals \cup Claims
  BY DEF Idle, Submissions, Approvals, Claims
<1>5. /\ next \in Submissions => next \notin Approvals /\ next \notin Claims
      /\ next \in Approvals => next \notin Submissions /\ next \notin Claims
      /\ next \in Claims => next \notin Submissions /\ next \notin Approvals
  BY DEF Submissions, Approvals, Claims
<1>6. RowsExist'
  BY <1>2, <1>3, <1>4, <1>5 DEF IInv, RowsExist, Rewards, tables
<1> QED BY <1>1, <1>6, UntouchedInv DEF IInv, tables

LEMMA StartSubmitInv ==
    ASSUME IInv, NEW r \in Requests, NEW p \in Partners, StartSubmit(r, p)
    PROVE  IInv'
<1> DEFINE next == [doing |-> "submit", partner |-> p]
<1>1. next \in Submissions /\ account[next.partner] # NoRow
  BY DEF StartSubmit, TakesStamps, Submissions
<1>2. overlapped' \subseteq Partners /\ granted' = granted
  BY DEF StartSubmit, history, IInv, TypeOK
<1>3. request' = [request EXCEPT ![r] = next] /\ UNCHANGED tables
  BY DEF StartSubmit
<1> HIDE DEF next
<1> QED BY <1>1, <1>2, <1>3, RequestInv

LEMMA StartApproveInv ==
    ASSUME IInv, NEW r \in Requests, NEW c \in Contracts, StartApprove(r, c)
    PROVE  IInv'
<1> DEFINE next == [doing |-> "approve", contract |-> c]
<1>1. next \in Approvals /\ next.contract \in Submitted
  BY DEF StartApprove, Approvals
<1>2. overlapped' \subseteq Partners /\ granted' = granted
  BY DEF StartApprove, IInv, TypeOK, Submitted, Rows
<1>3. request' = [request EXCEPT ![r] = next] /\ UNCHANGED tables
  BY DEF StartApprove
<1> HIDE DEF next
<1> QED BY <1>1, <1>2, <1>3, RequestInv

LEMMA StartClaimInv ==
    ASSUME IInv, NEW r \in Requests, NEW p \in Partners, StartClaim(r, p)
    PROVE  IInv'
<1>1. PICK oldest \in available[p] :
          request' = [request EXCEPT ![r] = [doing |-> "claim", partner |-> p,
                                             reward |-> oldest]]
  BY DEF StartClaim
<1> DEFINE next == [doing |-> "claim", partner |-> p, reward |-> oldest]
<1>2. next \in Claims /\ next.reward \in Rewards(next.partner)
  BY DEF IInv, TypeOK, Claims, Rewards
<1>3. overlapped' \subseteq Partners /\ granted' = granted
  BY DEF StartClaim, IInv, TypeOK
<1>4. request' = [request EXCEPT ![r] = next] /\ UNCHANGED tables
  BY <1>1 DEF StartClaim
<1> HIDE DEF next
<1> QED BY <1>2, <1>3, <1>4, RequestInv

\* An inserted contract belongs to the account that was checked.
LEMMA InsertContractInv ==
    ASSUME IInv, NEW r \in Requests, NEW c \in Contracts,
           NEW ref \in References \cup {NoRef}, InsertContract(r, c, ref)
    PROVE  IInv'
<1> DEFINE p == request[r].partner
           row == [partner |-> p, ref |-> ref, status |-> "pending"]
<1>1. p \in Partners /\ account[p] # NoRow
  BY DEF InsertContract, Submissions, IInv, RowsExist
<1>2. row \in Rows /\ row # NoRow /\ row.partner = p
  BY <1>1 DEF Rows
<1>3. contract' \in {contract, [contract EXCEPT ![c] = row]}
  BY DEF InsertContract
<1> HIDE DEF row, p
<1>4. \A d \in Contracts : contract'[d] = contract[d] \/ contract'[d] = row
  BY <1>3 DEF IInv, TypeOK
<1>5. TypeOK'
  BY <1>2, <1>3 DEF InsertContract, IInv, TypeOK, history
<1>6. Submitted \subseteq Submitted'
  BY <1>2, <1>4 DEF Submitted
<1>7. \A d \in Submitted' : account'[contract'[d].partner] # NoRow
  BY <1>1, <1>2, <1>4 DEF InsertContract, IInv, RowsExist, Submitted
<1>8. \A s \in Requests : request'[s] = IF s = r THEN Idle ELSE request[s]
  BY DEF InsertContract, IInv, TypeOK
<1>9. Idle \notin Submissions \cup Approvals \cup Claims
  BY DEF Idle, Submissions, Approvals, Claims
<1>10. RowsExist'
  BY <1>6, <1>7, <1>8, <1>9 DEF InsertContract, IInv, RowsExist, Rewards
<1>11. CardAddsUp' /\ RewardsFollowCount'
  BY UntouchedInv DEF InsertContract
<1> QED BY <1>5, <1>10, <1>11 DEF IInv

LEMMA RejectInv ==
    ASSUME IInv, NEW c \in Contracts, Reject(c)
    PROVE  IInv'
<1>1. c \in Submitted /\ contract[c] \in Rows
  BY DEF Reject, IInv, TypeOK, Submitted
<1> DEFINE row == [contract[c] EXCEPT !.status = "rejected"]
<1>2. row \in Rows /\ row # NoRow /\ row.partner = contract[c].partner
  BY <1>1 DEF Rows
<1>3. contract' = [contract EXCEPT ![c] = row]
  BY DEF Reject
<1>4. contract[c].partner \in Partners
  BY <1>1 DEF Rows
<1> HIDE DEF row
<1>5. TypeOK'
  BY <1>2, <1>3, <1>4 DEF Reject, IInv, TypeOK
<1>6. \A d \in Contracts : contract'[d] = IF d = c THEN row ELSE contract[d]
  BY <1>3 DEF IInv, TypeOK
<1>7. Submitted' = Submitted
  BY <1>1, <1>2, <1>6 DEF Submitted
<1>8. RowsExist'
  BY <1>1, <1>2, <1>6, <1>7 DEF Reject, IInv, RowsExist, Rewards, Submitted
<1>9. CardAddsUp' /\ RewardsFollowCount'
  BY UntouchedInv DEF Reject
<1> QED BY <1>5, <1>8, <1>9 DEF IInv

\* A claim moves a reward from one status to the other.
LEMMA ClaimInv ==
    ASSUME IInv, NEW r \in Requests, Claim(r)
    PROVE  IInv'
<1> DEFINE p == request[r].partner
           n == request[r].reward
<1>1. request[r] \in Claims /\ p \in Partners /\ n \in Nat /\ n \in Rewards(p)
  BY DEF Claim, Claims, IInv, RowsExist
<1>2. /\ available' = [available EXCEPT ![p] = @ \ {n}]
      /\ claimed' = [claimed EXCEPT ![p] = @ \cup {n}]
      /\ granted' = [granted EXCEPT ![p] = @ + 1]
      /\ request' = [request EXCEPT ![r] = Idle]
      /\ UNCHANGED <<account, contract, overlapped>>
  BY DEF Claim
<1> HIDE DEF p, n
<1>3. TypeOK'
  BY <1>1, <1>2 DEF IInv, TypeOK
<1>4. \A q \in Partners :
         /\ available'[q] = IF q = p THEN available[p] \ {n} ELSE available[q]
         /\ claimed'[q] = IF q = p THEN claimed[p] \cup {n} ELSE claimed[q]
  BY <1>2 DEF IInv, TypeOK
<1>5. \A q \in Partners : Rewards(q)' = Rewards(q)
  BY <1>1, <1>4 DEF Rewards
<1>6. Submitted' = Submitted
  BY <1>2 DEF Submitted
<1>7. \A s \in Requests : request'[s] = IF s = r THEN Idle ELSE request[s]
  BY <1>2 DEF IInv, TypeOK
<1>8. Idle \notin Submissions \cup Approvals \cup Claims
  BY DEF Idle, Submissions, Approvals, Claims
<1>9. \A s \in Requests : request[s] \in Claims => request[s].partner \in Partners
  BY DEF Claims
<1>10. RowsExist'
  BY <1>2, <1>5, <1>6, <1>7, <1>8, <1>9 DEF IInv, RowsExist
<1>11. CardAddsUp'
  BY <1>2 DEF IInv, CardAddsUp
<1>12. RewardsFollowCount'
  BY <1>2, <1>4, <1>5 DEF IInv, RewardsFollowCount
<1> QED BY <1>3, <1>10, <1>11, <1>12 DEF IInv

\* An approval adds a stamp and a count, and the reward that goes with it.
LEMMA ApproveInv ==
    ASSUME IInv, NEW r \in Requests, Approve(r)
    PROVE  IInv'
<1> DEFINE c == request[r].contract
           p == contract[c].partner
           row == [account[p] EXCEPT !.stamps = account[p].stamps + 1,
                                     !.count = account[p].count + 1]
           signed == [contract[c] EXCEPT !.status = "approved"]
           won == Earned(p, account[p].count + 1)
<1>1. c \in Submitted /\ contract[c] \in Rows /\ p \in Partners
      /\ account[p] # NoRow /\ account[p] \in Accounts
  BY DEF Approve, Approvals, IInv, RowsExist, TypeOK, Submitted, Rows
<1>2. request' = [request EXCEPT ![r] = Idle] /\ UNCHANGED <<claimed, history>>
  BY DEF Approve
<1>3. CASE CanStamp(c)
  <2>0. /\ account[p].stamps < CardSize
        /\ account[p].stamps \in Nat /\ account[p].count \in Nat
        /\ account[p].card \in Nat \ {0}
        /\ account[p].status \in {"active", "suspended"}
    BY <1>1, <1>3 DEF CanStamp, TakesStamps, Accounts
  <2>1. row \in Accounts /\ row # NoRow
    <3>1. account[p].stamps + 1 \in 0 .. CardSize /\ account[p].count + 1 \in Nat
      BY <2>0
    <3>2. row \in Accounts
      BY <1>1, <3>1 DEF Accounts
    <3> QED BY <3>2
  <2>2. signed \in Rows /\ signed # NoRow /\ signed.partner = p
    BY <1>1 DEF Rows
  <2>3. account' = [account EXCEPT ![p] = row]
    <3>1. account' = [account EXCEPT ![p].stamps = @ + 1, ![p].count = account[p].count + 1]
      BY <1>3 DEF Approve
    <3>3. account \in [Partners -> Accounts \cup {NoRow}]
      BY DEF IInv, TypeOK
    <3> QED BY <1>1, <3>1, <3>3
  <2>4. contract' = [contract EXCEPT ![c] = signed]
    BY <1>1, <1>3 DEF Approve
  <2>5. available' = [available EXCEPT ![p] = @ \cup won]
    BY <1>1, <1>3 DEF Approve
  <2>6. won \subseteq Nat
    <3>1. account[p].count + 1 \in Nat
      BY <1>1 DEF Accounts
    <3>2. (account[p].count + 1) \div 3 \in Nat
      BY <3>1
    <3> QED BY <3>2 DEF Earned, RewardEvery
  <2>7. row.count = CardSize * (row.card - 1) + row.stamps
    <3>1. account[p].count = CardSize * (account[p].card - 1) + account[p].stamps
      BY <1>1 DEF IInv, CardAddsUp
    <3>2. CardSize * (account[p].card - 1) \in Int
      BY <1>1 DEF Accounts
    <3> QED BY <1>1, <3>1, <3>2 DEF Accounts
  <2>8. /\ won \cap Rewards(p) = {}
        /\ Rewards(p) \cup won = 1 .. row.count \div RewardEvery
    <3>1. Rewards(p) = 1 .. account[p].count \div 3
      BY <1>1 DEF IInv, RewardsFollowCount, RewardEvery
    <3>2. account[p].count \in Nat /\ row.count = account[p].count + 1
      BY <1>1 DEF Accounts
    <3>3. won \cap Rewards(p) = {}
      BY DEF Earned
    <3>4. Rewards(p) \cup won =
             IF row.count % 3 = 0 THEN Rewards(p) \cup {row.count \div 3}
                                  ELSE Rewards(p)
      BY <3>2 DEF Earned, RewardEvery
    <3> HIDE DEF row, won
    <3> QED BY <3>1, <3>2, <3>3, <3>4, NextReward DEF RewardEvery
  <2> HIDE DEF row, signed, won, p, c
  <2>9. TypeOK'
    BY <1>1, <1>2, <2>1, <2>2, <2>3, <2>4, <2>5, <2>6
       DEF IInv, TypeOK, history, Submitted
  <2>10. \A q \in Partners :
            /\ account'[q] = IF q = p THEN row ELSE account[q]
            /\ available'[q] = IF q = p THEN available[p] \cup won ELSE available[q]
    BY <2>3, <2>5 DEF IInv, TypeOK
  <2>11. \A d \in Contracts : contract'[d] = IF d = c THEN signed ELSE contract[d]
    BY <2>4 DEF IInv, TypeOK
  <2>12. Submitted' = Submitted
    BY <1>1, <2>2, <2>11 DEF Submitted
  <2>13. \A q \in Partners :
            Rewards(q)' = IF q = p THEN Rewards(p) \cup won ELSE Rewards(q)
    BY <1>2, <2>10 DEF Rewards
  <2>14. RowsExist'
    <3>1. \A d \in Submitted : contract[d].partner \in Partners
      BY DEF IInv, TypeOK, Submitted, Rows
    <3>2. \A d \in Submitted' : account'[contract'[d].partner] # NoRow
      BY <1>1, <2>1, <2>2, <2>10, <2>11, <2>12, <3>1
         DEF IInv, RowsExist, Submitted
    <3>3. \A s \in Requests : request'[s] = IF s = r THEN Idle ELSE request[s]
      BY <1>2 DEF IInv, TypeOK
    <3>4. Idle \notin Submissions \cup Approvals \cup Claims
      BY DEF Idle, Submissions, Approvals, Claims
    <3>5. \A s \in Requests :
             /\ request[s] \in Claims => request[s].partner \in Partners
             /\ request[s] \in Submissions => request[s].partner \in Partners
      BY DEF Claims, Submissions
    <3> QED BY <2>1, <2>10, <2>12, <2>13, <3>2, <3>3, <3>4, <3>5
            DEF IInv, RowsExist
  <2>15. CardAddsUp'
    BY <2>7, <2>10 DEF IInv, CardAddsUp
  <2>16. RewardsFollowCount'
    BY <1>1, <1>2, <2>1, <2>8, <2>10, <2>13 DEF IInv, RewardsFollowCount, Rewards
  <2> QED BY <2>9, <2>14, <2>15, <2>16 DEF IInv
<1>4. CASE ~CanStamp(c)
  <2>1. UNCHANGED tables
    BY <1>2, <1>4 DEF Approve, tables
  <2>2. overlapped' \subseteq Partners /\ granted' = granted
    BY <1>2 DEF history, IInv, TypeOK
  <2> QED BY <1>2, <2>1, <2>2, RequestInv
<1> QED BY <1>3, <1>4

LEMMA NextInv == IInv /\ [Next]_vars => IInv'
<1> SUFFICES ASSUME IInv, [Next]_vars PROVE IInv'
  OBVIOUS
<1>1. CASE UNCHANGED vars
  BY <1>1 DEF vars, tables, history, IInv, TypeOK, RowsExist, CardAddsUp,
              RewardsFollowCount, Submitted, Rewards
<1>2. CASE Next
  BY <1>2, CreateAccountInv, UpdateStatusInv, IssueNewCardInv, StartSubmitInv,
     StartApproveInv, StartClaimInv, InsertContractInv, RejectInv, ClaimInv,
     ApproveInv DEF Next
<1> QED BY <1>1, <1>2

----------------------------------------------------------------------------
(* The theorems *)

\* The tables keep their types, and requests refer to rows that exist: no
\* approval, claim or submission acts on a row that is not there.
THEOREM TypeCorrect == Spec => [](TypeOK /\ RowsExist)
<1>1. Init => IInv
  BY InitInv
<1>2. IInv /\ [Next]_vars => IInv'
  BY NextInv
<1>3. IInv => TypeOK /\ RowsExist
  BY DEF IInv
<1> QED BY <1>1, <1>2, <1>3, PTL DEF Spec

\* Whatever approvals, suspensions and new cards run at once, the stamps on an
\* agency's cards are the approvals counted; every third of them earns one
\* reward, never two and never none, and a claimed one is not available again.
THEOREM BooksAreKept == Spec => []BooksAddUp
<1>1. Init => IInv
  BY InitInv
<1>2. IInv /\ [Next]_vars => IInv'
  BY NextInv
<1>3. IInv => BooksAddUp
  BY DEF IInv, BooksAddUp
<1> QED BY <1>1, <1>2, <1>3, PTL DEF Spec

----------------------------------------------------------------------------
(* Without overlap a contract is counted once and a reward granted once *)

\* Of a partner whose rows no two requests deal with at once, the one approval of a
\* contract finds it pending, and the one claim finds its reward available.
ApprovalHolds(r) ==
    request[r] \in Approvals /\ contract[request[r].contract].partner \notin overlapped =>
        /\ contract[request[r].contract].status = "pending"
        /\ \A s \in Requests :
              request[s] \in Approvals /\ request[s].contract = request[r].contract => s = r

ClaimHolds(r) ==
    request[r] \in Claims /\ request[r].partner \notin overlapped =>
        /\ request[r].reward \in available[request[r].partner]
        /\ \A s \in Requests :
              request[s] \in Claims /\ request[s].partner = request[r].partner => s = r

Careful == \A r \in Requests : ApprovalHolds(r) /\ ClaimHolds(r)

\* What was counted and granted to a partner.
CountHolds(p) == IsFiniteSet(Approved(p)) /\ (account[p] # NoRow =>
                                                 account[p].count = Cardinality(Approved(p)))
GrantHolds(p) == IsFiniteSet(claimed[p]) /\ granted[p] = Cardinality(claimed[p])
Counted == \A p \in Partners \ overlapped : CountHolds(p) /\ GrantHolds(p)

LEMMA KindsApart ==
    /\ \A x \in Approvals : x \notin Claims /\ x # Idle /\ x.contract \in Contracts
    /\ \A x \in Claims : x \notin Approvals /\ x # Idle /\ x.partner \in Partners
    /\ \A x \in Submissions : x \notin Approvals /\ x \notin Claims
    /\ Idle \notin Approvals /\ Idle \notin Claims
BY DEF Approvals, Claims, Submissions, Idle

\* An account without contracts has no approved one.
LEMMA NoneApproved ==
    ASSUME IInv, NEW p \in Partners, account[p] = NoRow
    PROVE  Approved(p) = {}
BY DEF IInv, RowsExist, Approved, Of, Submitted

\* The actions on an account keep its count; a new one has none.
LEMMA AccountCounted ==
    ASSUME IInv, Careful, Counted,
           UNCHANGED <<contract, available, claimed, request, history>>,
           \A p \in Partners : account'[p] # NoRow =>
               account'[p].count = IF account[p] = NoRow THEN 0 ELSE account[p].count
    PROVE  Careful' /\ Counted'
<1>1. Careful'
  BY DEF Careful, ApprovalHolds, ClaimHolds, history
<1>2. ASSUME NEW p \in Partners \ overlapped PROVE CountHolds(p)' /\ GrantHolds(p)'
  <2>1. CountHolds(p) /\ GrantHolds(p)
    BY <1>2 DEF Counted
  <2>2. Approved(p)' = Approved(p)
    BY DEF Approved, Of, Submitted
  <2>3. account[p] = NoRow => Cardinality(Approved(p)) = 0
    BY NoneApproved, FS_EmptySet
  <2>4. CountHolds(p)'
    BY <2>1, <2>2, <2>3 DEF CountHolds
  <2> QED BY <2>1, <2>4 DEF GrantHolds, history
<1> QED BY <1>1, <1>2 DEF Counted, history

\* A request starts.
LEMMA StartCounted ==
    ASSUME IInv, Careful, Counted, NEW r \in Requests, NEW next, request[r] = Idle,
           request' = [request EXCEPT ![r] = next], UNCHANGED <<tables, granted>>,
           overlapped \subseteq overlapped',
           next \in Approvals =>
              /\ contract[next.contract].status = "pending"
              /\ InFlight(next.contract) => contract[next.contract].partner \in overlapped',
           next \in Claims =>
              /\ next.reward \in available[next.partner]
              /\ (\E s \in Requests : request[s] \in Claims /\ request[s].partner = next.partner)
                    => next.partner \in overlapped'
    PROVE  Careful' /\ Counted'
<1>1. request'[r] = next /\ \A s \in Requests \ {r} : request'[s] = request[s]
  BY DEF IInv, TypeOK
<1>2. UNCHANGED <<account, contract, available, claimed, granted>>
  BY DEF tables
<1>3. Idle \notin Approvals /\ Idle \notin Claims
  BY KindsApart
<1>4. ASSUME NEW s \in Requests PROVE ApprovalHolds(s)'
  <2>1. CASE s = r
    BY <1>1, <1>2, <2>1 DEF ApprovalHolds, InFlight
  <2>2. CASE s # r
    <3>1. ApprovalHolds(s)
      BY DEF Careful
    <3>2. next \in Approvals /\ request[s] \in Approvals /\ request[s].contract = next.contract
             => contract[next.contract].partner \in overlapped'
      BY DEF InFlight
    <3> QED BY <1>1, <1>2, <2>2, <3>1, <3>2 DEF ApprovalHolds
  <2> QED BY <2>1, <2>2
<1>5. ASSUME NEW s \in Requests PROVE ClaimHolds(s)'
  <2>1. CASE s = r
    BY <1>1, <1>2, <2>1 DEF ClaimHolds
  <2>2. CASE s # r
    <3>1. ClaimHolds(s)
      BY DEF Careful
    <3> QED BY <1>1, <1>2, <2>2, <3>1 DEF ClaimHolds
  <2> QED BY <2>1, <2>2
<1>6. Counted'
  BY <1>2 DEF Counted, CountHolds, GrantHolds, Approved, Of, Submitted
<1> QED BY <1>4, <1>5, <1>6 DEF Careful

LEMMA StartsCounted ==
    ASSUME IInv, Careful, Counted, NEW r \in Requests,
           \/ \E p \in Partners : StartSubmit(r, p) \/ StartClaim(r, p)
           \/ \E c \in Contracts : StartApprove(r, c)
    PROVE  Careful' /\ Counted'
<1>1. ASSUME NEW p \in Partners, StartSubmit(r, p) PROVE Careful' /\ Counted'
  <2> DEFINE next == [doing |-> "submit", partner |-> p]
  <2>1. next \notin Approvals /\ next \notin Claims
    BY DEF Approvals, Claims
  <2>2. /\ request[r] = Idle /\ request' = [request EXCEPT ![r] = next]
        /\ UNCHANGED <<tables, granted>> /\ overlapped \subseteq overlapped'
    BY <1>1 DEF StartSubmit, history
  <2> HIDE DEF next
  <2> QED BY <2>1, <2>2, StartCounted
<1>2. ASSUME NEW p \in Partners, StartClaim(r, p) PROVE Careful' /\ Counted'
  <2>1. PICK oldest \in available[p] :
           request' = [request EXCEPT ![r] = [doing |-> "claim", partner |-> p,
                                              reward |-> oldest]]
    BY <1>2 DEF StartClaim
  <2> DEFINE next == [doing |-> "claim", partner |-> p, reward |-> oldest]
  <2>2. next \notin Approvals /\ next.partner = p /\ next.reward = oldest
    BY DEF Approvals
  <2>3. /\ request[r] = Idle /\ request' = [request EXCEPT ![r] = next]
        /\ UNCHANGED <<tables, granted>> /\ overlapped \subseteq overlapped'
        /\ (\E s \in Requests : request[s] \in Claims /\ request[s].partner = p)
              => p \in overlapped'
    BY <1>2, <2>1 DEF StartClaim
  <2> HIDE DEF next
  <2> QED BY <2>2, <2>3, StartCounted
<1>3. ASSUME NEW c \in Contracts, StartApprove(r, c) PROVE Careful' /\ Counted'
  <2> DEFINE next == [doing |-> "approve", contract |-> c]
  <2>1. next \notin Claims /\ next.contract = c
    BY DEF Claims
  <2>2. /\ request[r] = Idle /\ request' = [request EXCEPT ![r] = next]
        /\ UNCHANGED <<tables, granted>> /\ overlapped \subseteq overlapped'
        /\ contract[c].status = "pending" /\ (InFlight(c) => contract[c].partner \in overlapped')
    BY <1>3 DEF StartApprove
  <2> HIDE DEF next
  <2> QED BY <2>1, <2>2, StartCounted
<1> QED BY <1>1, <1>2, <1>3

\* A request ends and no row that another one relies on changes.
LEMMA InsertCounted ==
    ASSUME IInv, Careful, Counted, NEW r \in Requests, NEW c \in Contracts,
           NEW ref \in References \cup {NoRef}, InsertContract(r, c, ref)
    PROVE  Careful' /\ Counted'
<1>1. /\ request' = [request EXCEPT ![r] = Idle] /\ contract[c] = NoRow
      /\ UNCHANGED <<account, available, claimed, granted, overlapped>>
  BY DEF InsertContract, history
<1>2. request'[r] = Idle /\ \A s \in Requests \ {r} : request'[s] = request[s]
  BY <1>1 DEF IInv, TypeOK
<1>3. /\ \A d \in Contracts \ {c} : contract'[d] = contract[d]
      /\ contract'[c] = NoRow \/ contract'[c].status = "pending"
  BY <1>1 DEF InsertContract, IInv, TypeOK
<1>4. Idle \notin Approvals /\ Idle \notin Claims
  BY KindsApart
<1>5. \A s \in Requests : request[s] \in Approvals =>
         request[s].contract \in Contracts \ {c}
  BY <1>1, KindsApart DEF IInv, RowsExist, Submitted
<1>6. ASSUME NEW s \in Requests PROVE ApprovalHolds(s)' /\ ClaimHolds(s)'
  <2>1. ApprovalHolds(s) /\ ClaimHolds(s)
    BY DEF Careful
  <2>2. ApprovalHolds(s)'
    BY <1>1, <1>2, <1>3, <1>4, <1>5, <2>1 DEF ApprovalHolds
  <2>3. ClaimHolds(s)'
    BY <1>1, <1>2, <1>4, <2>1 DEF ClaimHolds
  <2> QED BY <2>2, <2>3
<1>7. \A p \in Partners : Approved(p)' = Approved(p)
  BY <1>1, <1>3 DEF Approved, Of, Submitted
<1>8. Counted'
  BY <1>1, <1>7 DEF Counted, CountHolds, GrantHolds
<1> QED BY <1>6, <1>8 DEF Careful

LEMMA RejectCounted ==
    ASSUME IInv, Careful, Counted, NEW c \in Contracts, Reject(c)
    PROVE  Careful' /\ Counted'
<1> DEFINE row == [contract[c] EXCEPT !.status = "rejected"]
<1>1. /\ c \in Submitted /\ contract[c].status = "pending" /\ contract[c] \in Rows
      /\ UNCHANGED <<account, available, claimed, request, granted>>
      /\ overlapped \subseteq overlapped'
      /\ InFlight(c) => contract[c].partner \in overlapped'
      /\ contract' = [contract EXCEPT ![c] = row]
  BY DEF Reject, IInv, TypeOK, Submitted
<1>2. row # NoRow /\ row.partner = contract[c].partner /\ row.status = "rejected"
      /\ row \in Rows
  BY <1>1 DEF Rows
<1> HIDE DEF row
<1>3. contract'[c] = row /\ \A d \in Contracts \ {c} : contract'[d] = contract[d]
  BY <1>1 DEF IInv, TypeOK
<1>4. ASSUME NEW s \in Requests PROVE ApprovalHolds(s)' /\ ClaimHolds(s)'
  <2>1. ApprovalHolds(s) /\ ClaimHolds(s)
    BY DEF Careful
  <2>2. request[s] \in Approvals /\ request[s].contract = c => contract[c].partner \in overlapped'
    BY <1>1 DEF InFlight
  <2>3. request[s] \in Approvals => request[s].contract \in Contracts
    BY KindsApart
  <2>4. ApprovalHolds(s)'
    BY <1>1, <1>2, <1>3, <2>1, <2>2, <2>3 DEF ApprovalHolds
  <2>5. ClaimHolds(s)'
    BY <1>1, <2>1 DEF ClaimHolds
  <2> QED BY <2>4, <2>5
<1>5. \A p \in Partners : Approved(p)' = Approved(p)
  BY <1>1, <1>2, <1>3 DEF Approved, Of, Submitted
<1>6. Counted'
  BY <1>1, <1>5 DEF Counted, CountHolds, GrantHolds
<1> QED BY <1>4, <1>6 DEF Careful

LEMMA ClaimCounted ==
    ASSUME IInv, Careful, Counted, NEW r \in Requests, Claim(r)
    PROVE  Careful' /\ Counted'
<1>1. request[r] \in Claims /\ request[r].partner \in Partners
  BY KindsApart DEF Claim
<1>2. PICK p \in Partners : p = request[r].partner
  BY <1>1
<1>3. PICK n : n = request[r].reward
  OBVIOUS
<1>4. /\ available' = [available EXCEPT ![p] = @ \ {n}]
      /\ claimed' = [claimed EXCEPT ![p] = @ \cup {n}]
      /\ granted' = [granted EXCEPT ![p] = @ + 1]
      /\ request' = [request EXCEPT ![r] = Idle]
      /\ UNCHANGED <<account, contract, overlapped>>
  BY <1>2, <1>3 DEF Claim
<1>5. /\ request'[r] = Idle /\ \A s \in Requests \ {r} : request'[s] = request[s]
      /\ \A q \in Partners \ {p} : /\ available'[q] = available[q] /\ claimed'[q] = claimed[q]
                                   /\ granted'[q] = granted[q]
      /\ claimed'[p] = claimed[p] \cup {n} /\ granted'[p] = granted[p] + 1
  BY <1>4 DEF IInv, TypeOK
<1>6. Idle \notin Approvals /\ Idle \notin Claims
  BY KindsApart
<1>7. p \notin overlapped => /\ n \in available[p]
                             /\ \A s \in Requests :
                                   request[s] \in Claims /\ request[s].partner = p => s = r
  BY <1>1, <1>2, <1>3 DEF Careful, ClaimHolds
<1>8. ASSUME NEW s \in Requests PROVE ApprovalHolds(s)' /\ ClaimHolds(s)'
  <2>1. ApprovalHolds(s) /\ ClaimHolds(s)
    BY DEF Careful
  <2>2. ApprovalHolds(s)'
    BY <1>4, <1>5, <1>6, <2>1 DEF ApprovalHolds
  <2>3. request[s] \in Claims => request[s].partner \in Partners
    BY KindsApart
  <2>4. ClaimHolds(s)'
    BY <1>4, <1>5, <1>6, <1>7, <2>1, <2>3 DEF ClaimHolds
  <2> QED BY <2>2, <2>4
<1>9. ASSUME NEW q \in Partners \ overlapped PROVE CountHolds(q)' /\ GrantHolds(q)'
  <2>1. CountHolds(q) /\ GrantHolds(q)
    BY <1>9 DEF Counted
  <2>2. CountHolds(q)'
    BY <1>4, <2>1 DEF CountHolds, Approved, Of, Submitted
  <2>3. CASE q = p
    <3>1. n \notin claimed[p]
      BY <1>7, <1>9, <2>3 DEF IInv, RewardsFollowCount
    <3>2. /\ IsFiniteSet(claimed[p] \cup {n})
          /\ Cardinality(claimed[p] \cup {n}) = Cardinality(claimed[p]) + 1
      BY <2>1, <2>3, <3>1, FS_AddElement DEF GrantHolds
    <3> QED BY <1>5, <2>1, <2>2, <2>3, <3>2 DEF GrantHolds
  <2>4. CASE q # p
    BY <1>5, <2>1, <2>2, <2>4 DEF GrantHolds
  <2> QED BY <2>3, <2>4
<1> QED BY <1>4, <1>8, <1>9 DEF Careful, Counted

LEMMA ApproveCounted ==
    ASSUME IInv, Careful, Counted, NEW r \in Requests, Approve(r)
    PROVE  Careful' /\ Counted'
<1>1. request[r] \in Approvals /\ request[r].contract \in Submitted
  BY DEF Approve, IInv, RowsExist
<1>2. PICK c \in Submitted : c = request[r].contract
  BY <1>1
<1>3. contract[c] \in Rows /\ c \in Contracts /\ contract[c].partner \in Partners
  BY DEF Submitted, IInv, TypeOK, Rows
<1>4. PICK p \in Partners : p = contract[c].partner
  BY <1>3
<1>5. /\ request' = [request EXCEPT ![r] = Idle] /\ claimed' = claimed /\ granted' = granted
      /\ overlapped' = overlapped
  BY DEF Approve, history
<1>6. request'[r] = Idle /\ \A s \in Requests \ {r} : request'[s] = request[s]
  BY <1>5 DEF IInv, TypeOK
<1>7. Idle \notin Approvals /\ Idle \notin Claims
  BY KindsApart
<1>8. p \notin overlapped => /\ contract[c].status = "pending"
                             /\ \A s \in Requests :
                                   request[s] \in Approvals /\ request[s].contract = c => s = r
  BY <1>1, <1>2, <1>4 DEF Careful, ApprovalHolds
<1>9. CASE ~CanStamp(c)
  <2>1. UNCHANGED <<account, contract, available>>
    BY <1>2, <1>9 DEF Approve
  <2>2. ASSUME NEW s \in Requests PROVE ApprovalHolds(s)' /\ ClaimHolds(s)'
    BY <1>5, <1>6, <1>7, <2>1 DEF Careful, ApprovalHolds, ClaimHolds
  <2>3. Counted'
    BY <1>5, <2>1 DEF Counted, CountHolds, GrantHolds, Approved, Of, Submitted
  <2> QED BY <2>2, <2>3 DEF Careful
<1>10. CASE CanStamp(c)
  <2> DEFINE signed == [contract[c] EXCEPT !.status = "approved"]
  <2>1. /\ account' = [account EXCEPT ![p].stamps = @ + 1, ![p].count = account[p].count + 1]
        /\ contract' = [contract EXCEPT ![c] = signed]
        /\ \E won : available' = [available EXCEPT ![p] = @ \cup won]
    BY <1>2, <1>4, <1>10 DEF Approve
  <2>2. signed # NoRow /\ signed.partner = p /\ signed.status = "approved"
    <3>1. signed \in Rows /\ signed.partner = p /\ signed.status = "approved"
      BY <1>3, <1>4 DEF Rows
    <3> QED BY <3>1, AbsentAssumption
  <2> HIDE DEF signed
  <2>3. /\ contract'[c] = signed /\ \A d \in Contracts \ {c} : contract'[d] = contract[d]
        /\ \A q \in Partners : available[q] \subseteq available'[q]
        /\ \A q \in Partners \ {p} : account'[q] = account[q]
    BY <1>3, <2>1 DEF IInv, TypeOK
  <2>4. account[p] # NoRow /\ account'[p].count = account[p].count + 1
    <3>1. account[p] # NoRow /\ account[p] \in Accounts
      BY <1>4, <1>10 DEF CanStamp, TakesStamps, IInv, TypeOK
    <3> QED BY <2>1, <3>1 DEF IInv, TypeOK, Accounts
  <2>5. ASSUME NEW s \in Requests PROVE ApprovalHolds(s)' /\ ClaimHolds(s)'
    <3>1. ApprovalHolds(s) /\ ClaimHolds(s)
      BY DEF Careful
    <3>2. /\ request[s] \in Approvals => request[s].contract \in Contracts
          /\ request[s] \in Claims => request[s].partner \in Partners
      BY KindsApart
    <3>3. ApprovalHolds(s)'
      <4>1. CASE s = r
        BY <1>6, <1>7, <4>1 DEF ApprovalHolds
      <4>2. CASE s # r /\ request[s] \in Approvals /\ request[s].contract = c
        <5>1. p \in overlapped
          BY <1>8, <4>2
        <5> QED BY <1>5, <1>6, <2>2, <2>3, <4>2, <5>1 DEF ApprovalHolds
      <4>3. CASE s # r /\ ~(request[s] \in Approvals /\ request[s].contract = c)
        <5>1. request'[s] = request[s]
          BY <1>6, <4>3
        <5>2. request[s] \in Approvals =>
                 contract'[request[s].contract] = contract[request[s].contract]
          BY <2>3, <3>2, <4>3
        <5> QED BY <1>5, <1>6, <1>7, <3>1, <5>1, <5>2 DEF ApprovalHolds
      <4> QED BY <4>1, <4>2, <4>3
    <3>4. ClaimHolds(s)'
      BY <1>5, <1>6, <1>7, <2>3, <3>1, <3>2 DEF ClaimHolds
    <3> QED BY <3>3, <3>4
  <2>6. ASSUME NEW q \in Partners \ overlapped PROVE CountHolds(q)' /\ GrantHolds(q)'
    <3>1. CountHolds(q) /\ GrantHolds(q)
      BY <2>6 DEF Counted
    <3>2. GrantHolds(q)'
      BY <1>5, <3>1 DEF GrantHolds
    <3>3. CASE q = p
      <4>1. contract[c].status = "pending"
        BY <1>8, <2>6, <3>3
      <4>2. c \notin Approved(p) /\ Approved(p)' = Approved(p) \cup {c}
        BY <1>3, <1>4, <2>2, <2>3, <4>1 DEF Approved, Of, Submitted
      <4>3. /\ IsFiniteSet(Approved(p) \cup {c})
            /\ Cardinality(Approved(p) \cup {c}) = Cardinality(Approved(p)) + 1
        BY <3>1, <3>3, <4>2, FS_AddElement DEF CountHolds
      <4>4. CountHolds(p)'
        BY <2>4, <3>1, <3>3, <4>2, <4>3 DEF CountHolds
      <4> QED BY <3>2, <3>3, <4>4
    <3>4. CASE q # p
      <4>1. Approved(q)' = Approved(q)
        BY <1>3, <1>4, <2>2, <2>3, <3>4 DEF Approved, Of, Submitted
      <4> QED BY <2>3, <3>1, <3>2, <3>4, <4>1 DEF CountHolds
    <3> QED BY <3>3, <3>4
  <2> QED BY <1>5, <2>5, <2>6 DEF Careful, Counted
<1> QED BY <1>9, <1>10

LEMMA NextCounted == IInv /\ Careful /\ Counted /\ [Next]_vars => Careful' /\ Counted'
<1> SUFFICES ASSUME IInv, Careful, Counted, [Next]_vars PROVE Careful' /\ Counted'
  OBVIOUS
<1>1. CASE UNCHANGED vars
  BY <1>1 DEF vars, tables, history, Careful, ApprovalHolds, ClaimHolds, Counted, CountHolds,
     GrantHolds, Approved, Of, Submitted
<1>2. ASSUME NEW p \in Partners,
             \/ CreateAccount(p) \/ IssueNewCard(p)
             \/ \E status \in {"active", "suspended"} : UpdateStatus(p, status)
      PROVE  Careful' /\ Counted'
  <2>1. UNCHANGED <<contract, available, claimed, request, history>>
    BY <1>2 DEF CreateAccount, IssueNewCard, UpdateStatus
  <2>2. account \in [Partners -> Accounts \cup {NoRow}]
    BY DEF IInv, TypeOK
  <2>3. account[p] # NoRow => account[p] \in Accounts
    BY <2>2
  <2>4. account'[p].count = IF account[p] = NoRow THEN 0 ELSE account[p].count
    BY <1>2, <2>2, <2>3 DEF CreateAccount, IssueNewCard, UpdateStatus, Accounts
  <2>5. \A q \in Partners \ {p} : account'[q] = account[q]
    BY <1>2, <2>2 DEF CreateAccount, IssueNewCard, UpdateStatus
  <2>6. \A q \in Partners : account'[q] # NoRow =>
           account'[q].count = IF account[q] = NoRow THEN 0 ELSE account[q].count
    BY <2>4, <2>5
  <2> QED BY <2>1, <2>6, AccountCounted
<1>3. CASE Next
  BY <1>2, <1>3, StartsCounted, InsertCounted, RejectCounted, ApproveCounted, ClaimCounted DEF Next
<1> QED BY <1>1, <1>3

LEMMA CountedAlways == Spec => [](IInv /\ Careful /\ Counted)
<1>1. Init => IInv /\ Careful /\ Counted
  <2> SUFFICES ASSUME Init PROVE Careful /\ Counted
    BY InitInv
  <2>1. Careful
    BY KindsApart DEF Init, Careful, ApprovalHolds, ClaimHolds
  <2>2. \A p \in Partners : Approved(p) = {} /\ claimed[p] = {} /\ granted[p] = 0
                            /\ account[p] = NoRow
    BY DEF Init, Approved, Of, Submitted
  <2> QED BY <2>1, <2>2, FS_EmptySet DEF Counted, CountHolds, GrantHolds
<1> QED BY <1>1, NextInv, NextCounted, PTL DEF Spec

\* Unless two requests deal with the same contract or reward at once, an approved
\* contract is counted once and a claimed reward granted once, whatever else runs
\* concurrently (the checks inside the statements of approve and claim).
THEOREM CountedOnce == Spec => []OnceWithoutOverlap
<1>1. Counted => OnceWithoutOverlap
  BY DEF Counted, CountHolds, GrantHolds, OnceWithoutOverlap
<1> QED BY <1>1, CountedAlways, PTL

\* Unless two requests deal with the same contract at once, an approved or rejected
\* contract never changes its status.
THEOREM DecisionsAreFinal == Spec => DecisionStands
<1> DEFINE Stands == \A c \in Submitted : \/ contract[c].status = "pending"
                                          \/ contract'[c].status = contract[c].status
                                          \/ contract[c].partner \in overlapped
<1>1. IInv /\ Careful /\ [Next]_vars => [Stands]_vars
  <2> SUFFICES ASSUME IInv, Careful, Next PROVE Stands
    OBVIOUS
  <2>1. contract \in [Contracts -> Rows \cup {NoRow}]
    BY DEF IInv, TypeOK
  <2>2. ASSUME contract' = contract PROVE Stands
    BY <2>2
  <2>3. ASSUME NEW p \in Partners,
               \/ CreateAccount(p) \/ IssueNewCard(p)
               \/ \E status \in {"active", "suspended"} : UpdateStatus(p, status)
               \/ \E r \in Requests : StartSubmit(r, p) \/ StartClaim(r, p)
        PROVE  contract' = contract
    BY <2>3 DEF CreateAccount, IssueNewCard, UpdateStatus, StartSubmit, StartClaim, tables
  <2>4. ASSUME NEW c \in Contracts, Reject(c) PROVE Stands
    BY <2>1, <2>4 DEF Reject, Submitted
  <2>5. ASSUME NEW r \in Requests, NEW c \in Contracts, StartApprove(r, c)
        PROVE  contract' = contract
    BY <2>5 DEF StartApprove, tables
  <2>6. ASSUME NEW r \in Requests, NEW c \in Contracts, NEW ref \in References \cup {NoRef},
               InsertContract(r, c, ref)
        PROVE  Stands
    BY <2>1, <2>6 DEF InsertContract, Submitted
  <2>7. ASSUME NEW r \in Requests, Claim(r) PROVE contract' = contract
    BY <2>7 DEF Claim
  <2>8. ASSUME NEW r \in Requests, Approve(r) PROVE Stands
    <3>1. PICK c : c = request[r].contract
      OBVIOUS
    <3>2. \A d \in Contracts \ {c} : contract'[d] = contract[d]
      BY <2>1, <2>8, <3>1 DEF Approve
    <3>3. contract[c].status = "pending" \/ contract[c].partner \in overlapped
      BY <2>8, <3>1 DEF Careful, ApprovalHolds, Approve
    <3> QED BY <3>2, <3>3 DEF Submitted
  <2> QED BY <2>2, <2>3, <2>4, <2>5, <2>6, <2>7, <2>8 DEF Next
<1> QED BY <1>1, CountedAlways, PTL DEF Spec, DecisionStands

\* What stands of "every 3 approved contracts creates one available
\* free-registration reward": a partner none of whose contracts two requests dealt
\* with at once has exactly one reward, available or claimed, per three approvals.
EarnedUnlessOverlapped ==
    \A p \in Partners \ overlapped :
        Cardinality(Rewards(p)) = Cardinality(Approved(p)) \div RewardEvery

THEOREM RewardsAreEarnedOnce == Spec => []EarnedUnlessOverlapped
<1>1. IInv /\ Counted => EarnedUnlessOverlapped
  <2> SUFFICES ASSUME IInv, Counted, NEW p \in Partners \ overlapped
               PROVE  Cardinality(Rewards(p)) = Cardinality(Approved(p)) \div RewardEvery
    BY DEF EarnedUnlessOverlapped
  <2>1. CASE account[p] = NoRow
    <3>1. Rewards(p) = {}
      BY <2>1 DEF IInv, RewardsFollowCount
    <3>2. Approved(p) = {}
      BY <2>1, NoneApproved
    <3>3. Cardinality({}) = 0
      BY FS_EmptySet
    <3>4. 0 \div RewardEvery = 0
      BY DEF RewardEvery
    <3> QED
      BY <3>1, <3>2, <3>3, <3>4
  <2>2. CASE account[p] # NoRow
    <3>0. account[p].count \in Nat
      BY <2>2 DEF IInv, TypeOK, Accounts
    <3>1. account[p].count = Cardinality(Approved(p))
      BY <2>2 DEF Counted, CountHolds
    <3>2. Rewards(p) = 1 .. account[p].count \div RewardEvery
      BY <2>2 DEF IInv, RewardsFollowCount
    <3>3. account[p].count \div RewardEvery \in Nat
      BY <3>0 DEF RewardEvery
    <3>4. Cardinality(1 .. account[p].count \div RewardEvery)
              = account[p].count \div RewardEvery
      BY <3>3, FS_Interval
    <3> QED
      BY <3>1, <3>2, <3>4
  <2> QED
    BY <2>1, <2>2
<1> QED BY <1>1, CountedAlways, PTL
=============================================================================
