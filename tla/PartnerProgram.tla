--------------------------- MODULE PartnerProgram ---------------------------
(***************************************************************************)
(* The partner loyalty program (partner-program.server.ts): an agency's    *)
(* contracts are approved by the office, each approval stamps its card,    *)
(* and every third one earns a free registration.  Each function is one    *)
(* SQL statement under READ COMMITTED.  A statement reads its snapshot     *)
(* when it starts; when it then has to wait for a row, PostgreSQL checks   *)
(* again what the WHERE clause says of that row, and nothing else.  So an  *)
(* approval or a claim has two steps: what it reads first, and what it     *)
(* does once it holds the rows.                                            *)
(***************************************************************************)
EXTENDS Integers, FiniteSets

CONSTANTS
    Partners,
    Contracts,   \* ids of the contracts ever submitted
    References,  \* contract references the agency may type
    Requests,    \* requests in flight at once
    CardSize,    \* stamps on a card
    MaxCards, MaxCount, MaxGrants,  \* bounds on new cards, approvals, claims
    NoRow, NoRef

ASSUME ProgramAssumption ==
    /\ CardSize \in Nat \ {0}
    /\ {MaxCards, MaxCount, MaxGrants} \subseteq Nat
    /\ NoRef \notin References

VARIABLES
    account,   \* table partner_accounts
    contract,  \* table partner_contracts
    available, \* table partner_rewards: reward numbers by status, by partner
    claimed,
    request,   \* what each request is doing, with what it has read
    granted,   \* claims answered with success, by partner
    overlapped \* partners two requests have dealt with the same row of at once

tables  == <<account, contract, available, claimed>>
history == <<granted, overlapped>>
vars    == <<tables, request, history>>

RewardEvery == 3

Accounts == [status : {"active", "suspended"}, card : Nat \ {0},
             stamps : 0 .. CardSize, count : Nat]
Rows     == [partner : Partners, ref : References \cup {NoRef},
             status : {"pending", "approved", "rejected"}]

ASSUME AbsentAssumption == NoRow \notin Accounts /\ NoRow \notin Rows

Idle     == [doing |-> "nothing"]
Submissions == [doing : {"submit"}, partner : Partners]
Approvals   == [doing : {"approve"}, contract : Contracts]
Claims      == [doing : {"claim"}, partner : Partners, reward : Nat]

Submitted  == {c \in Contracts : contract[c] # NoRow}
Of(p)      == {c \in Submitted : contract[c].partner = p}
Approved(p) == {c \in Of(p) : contract[c].status = "approved"}
Rewards(p) == available[p] \cup claimed[p]

Init ==
    /\ account = [p \in Partners |-> NoRow]
    /\ contract = [c \in Contracts |-> NoRow]
    /\ available = [p \in Partners |-> {}] /\ claimed = [p \in Partners |-> {}]
    /\ request = [r \in Requests |-> Idle]
    /\ granted = [p \in Partners |-> 0] /\ overlapped = {}

----------------------------------------------------------------------------
(* Accounts *)

CreateAccount(p) ==
    /\ account[p] = NoRow
    /\ account' = [account EXCEPT ![p] = [status |-> "active", card |-> 1,
                                          stamps |-> 0, count |-> 0]]
    /\ UNCHANGED <<contract, available, claimed, request, history>>

UpdateStatus(p, status) ==
    /\ account[p] # NoRow
    /\ account' = [account EXCEPT ![p].status = status]
    /\ UNCHANGED <<contract, available, claimed, request, history>>

IssueNewCard(p) ==
    /\ account[p] # NoRow
    /\ account[p].status = "active"
    /\ account[p].stamps >= CardSize
    /\ account[p].card < MaxCards
    /\ account' = [account EXCEPT ![p].card = @ + 1, ![p].stamps = 0]
    /\ UNCHANGED <<contract, available, claimed, request, history>>

----------------------------------------------------------------------------
(* Contracts *)

\* The active-account and full-card checks of submitPartnerContract and the
\* stamp of an approval are the same condition.
TakesStamps(p) == /\ account[p] # NoRow
                  /\ account[p].status = "active"
                  /\ account[p].stamps < CardSize

\* The partial unique index on (partner_id, contract_reference).
ReferenceFree(p, ref, c) ==
    ref # NoRef => \A other \in Of(p) \ {c} :
                       contract[other].ref = ref => contract[other].status = "rejected"

StartSubmit(r, p) ==
    /\ request[r] = Idle
    /\ TakesStamps(p)
    /\ request' = [request EXCEPT ![r] = [doing |-> "submit", partner |-> p]]
    /\ UNCHANGED <<tables, history>>

InsertContract(r, c, ref) ==
    /\ request[r] \in Submissions
    /\ contract[c] = NoRow
    /\ LET p == request[r].partner
       IN contract' = IF ReferenceFree(p, ref, c)
                      THEN [contract EXCEPT ![c] = [partner |-> p, ref |-> ref,
                                                    status |-> "pending"]]
                      ELSE contract
    /\ request' = [request EXCEPT ![r] = Idle]
    /\ UNCHANGED <<account, available, claimed, history>>

InFlight(c) == \E r \in Requests : request[r] \in Approvals /\ request[r].contract = c

\* The snapshot of an approval: the contract is pending.
StartApprove(r, c) ==
    /\ request[r] = Idle
    /\ c \in Submitted
    /\ contract[c].status = "pending"
    /\ request' = [request EXCEPT ![r] = [doing |-> "approve", contract |-> c]]
    /\ overlapped' = overlapped \cup
                        (IF InFlight(c) THEN {contract[c].partner} ELSE {})
    /\ UNCHANGED <<tables, granted>>

\* CTE acct: the account is stamped if, once its row is held, it still takes a
\* stamp.
CanStamp(c) == /\ TakesStamps(contract[c].partner)
               /\ ReferenceFree(contract[c].partner, contract[c].ref, c)

\* Mutant: every third approval re-opens the rewards already claimed.
EarnedAgain(p, count) ==
    IF count % RewardEvery = 0 THEN 1 .. count \div RewardEvery ELSE {}

\* CTE reward, with on conflict do nothing.
Earned(p, count) ==
    IF count % RewardEvery = 0 /\ count \div RewardEvery \notin Rewards(p)
    THEN {count \div RewardEvery} ELSE {}

Approve(r) ==
    /\ request[r] \in Approvals
    /\ LET c == request[r].contract
           p == contract[c].partner
           count == account[p].count + 1
       IN IF CanStamp(c)
          THEN /\ count <= MaxCount
               /\ account' = [account EXCEPT ![p].stamps = @ + 1, ![p].count = count]
               /\ contract' = [contract EXCEPT ![c].status = "approved"]
               /\ available' = [available EXCEPT ![p] = @ \cup Earned(p, count)]
          ELSE UNCHANGED <<account, contract, available>>
    /\ request' = [request EXCEPT ![r] = Idle]
    /\ UNCHANGED <<claimed, history>>

\* Mutant: a contract already decided is rejected.
RejectAny(c) ==
    /\ c \in Submitted
    /\ contract' = [contract EXCEPT ![c].status = "rejected"]
    /\ overlapped' = overlapped \cup
                        (IF InFlight(c) THEN {contract[c].partner} ELSE {})
    /\ UNCHANGED <<account, available, claimed, request, granted>>

\* One row, whose status is checked again once it is held.
Reject(c) ==
    /\ c \in Submitted
    /\ contract[c].status = "pending"
    /\ contract' = [contract EXCEPT ![c].status = "rejected"]
    /\ overlapped' = overlapped \cup
                        (IF InFlight(c) THEN {contract[c].partner} ELSE {})
    /\ UNCHANGED <<account, available, claimed, request, granted>>

----------------------------------------------------------------------------
(* Rewards *)

\* The sub-select of claimPartnerReward: the oldest available reward, which is
\* the lowest-numbered one.
StartClaim(r, p) ==
    /\ request[r] = Idle
    /\ \E oldest \in available[p] :
          /\ \A reward \in available[p] : oldest <= reward
          /\ request' = [request EXCEPT ![r] = [doing |-> "claim", partner |-> p,
                                                reward |-> oldest]]
    /\ overlapped' = overlapped \cup
                        (IF \E s \in Requests : /\ request[s] \in Claims
                                                /\ request[s].partner = p
                         THEN {p} ELSE {})
    /\ UNCHANGED <<tables, granted>>

\* Mutant: the reward is handed out and stays available.
ClaimKeeps(r) ==
    /\ request[r] \in Claims
    /\ LET p == request[r].partner
       IN /\ granted[p] < MaxGrants
          /\ granted' = [granted EXCEPT ![p] = @ + 1]
    /\ request' = [request EXCEPT ![r] = Idle]
    /\ UNCHANGED <<account, contract, available, claimed, overlapped>>

\* The outer WHERE names the reward by id only.
Claim(r) ==
    /\ request[r] \in Claims
    /\ LET p == request[r].partner
       IN /\ granted[p] < MaxGrants
          /\ granted' = [granted EXCEPT ![p] = @ + 1]
          /\ available' = [available EXCEPT ![p] = @ \ {request[r].reward}]
          /\ claimed' = [claimed EXCEPT ![p] = @ \cup {request[r].reward}]
    /\ request' = [request EXCEPT ![r] = Idle]
    /\ UNCHANGED <<account, contract, overlapped>>

----------------------------------------------------------------------------
(* Specification *)

Next ==
    \/ \E p \in Partners :
          \/ CreateAccount(p) \/ IssueNewCard(p)
          \/ \E status \in {"active", "suspended"} : UpdateStatus(p, status)
          \/ \E r \in Requests : StartSubmit(r, p) \/ StartClaim(r, p)
    \/ \E c \in Contracts :
          \/ Reject(c)
          \/ \E r \in Requests :
                \/ StartApprove(r, c)
                \/ \E ref \in References \cup {NoRef} : InsertContract(r, c, ref)
    \/ \E r \in Requests : Approve(r) \/ Claim(r)

Spec == Init /\ [][Next]_vars

----------------------------------------------------------------------------
(* Properties *)

TypeOK ==
    /\ account \in [Partners -> Accounts \cup {NoRow}]
    /\ contract \in [Contracts -> Rows \cup {NoRow}]
    /\ available \in [Partners -> SUBSET Nat] /\ claimed \in [Partners -> SUBSET Nat]
    /\ request \in [Requests -> {Idle} \cup Submissions \cup Approvals \cup Claims]
    /\ granted \in [Partners -> Nat]
    /\ overlapped \subseteq Partners

\* A card is never over-stamped, skipped or reset early, whatever approvals and
\* new cards run at once: all approvals are on the full cards before this one
\* or stamped on it.
CardAddsUp ==
    \A p \in Partners :
        account[p] # NoRow =>
            account[p].count = CardSize * (account[p].card - 1) + account[p].stamps

\* Every third counted approval has earned exactly one reward, numbered in
\* order, and a claimed reward never becomes available again.
RewardsFollowCount ==
    \A p \in Partners :
        /\ available[p] \cap claimed[p] = {}
        /\ Rewards(p) = IF account[p] = NoRow THEN {}
                        ELSE 1 .. account[p].count \div RewardEvery

\* The books of a partner: cards and rewards both follow the count.
BooksAddUp == CardAddsUp /\ RewardsFollowCount

\* Unless two requests deal with the same contract or reward at once, a contract
\* is counted once and a reward granted once, whatever else runs concurrently.
OnceWithoutOverlap ==
    \A p \in Partners \ overlapped :
        /\ account[p] # NoRow => account[p].count = Cardinality(Approved(p))
        /\ granted[p] = Cardinality(claimed[p])

\* A decision stands: unless two requests deal with the same contract at once,
\* an approved or rejected contract never changes its status.
DecisionStands ==
    [][\A c \in Submitted :
          \/ contract[c].status = "pending"
          \/ contract'[c].status = contract[c].status
          \/ contract[c].partner \in overlapped]_vars

\* "every 3 approved contracts creates one available free-registration reward".
RewardsAreEarned ==
    \A p \in Partners :
        Cardinality(Rewards(p)) = Cardinality(Approved(p)) \div RewardEvery
=============================================================================
