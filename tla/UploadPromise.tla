--------------------------- MODULE UploadPromise ---------------------------
(***************************************************************************)
(* What the chunked upload promises of an upload, whatever fails: a         *)
(* completion holds the upload alone; one hold inserts at most one business *)
(* row; once a completion's result is stored, no later hold inserts         *)
(* another; and an upload that is gone never comes back.  ChunkedUpload     *)
(* implements it.                                                           *)
(***************************************************************************)
EXTENDS Integers

CONSTANTS Uploads

VARIABLES
    stage,    \* "none" before begin, "open", "settled" with a stored result, "gone"
    hold,     \* "free", "held" by a completion, "spent": it inserts nothing more
    records   \* business rows inserted

vars == <<stage, hold, records>>

Stages == {"none", "open", "settled", "gone"}
Holds  == {"free", "held", "spent"}

Init == /\ stage = [u \in Uploads |-> "none"]
        /\ hold = [u \in Uploads |-> "free"]
        /\ records = [u \in Uploads |-> 0]

Open(u) ==
    /\ stage[u] = "none"
    /\ stage' = [stage EXCEPT ![u] = "open"]
    /\ UNCHANGED <<hold, records>>

\* A completion takes an upload nobody holds; with a stored result it only answers.
Take(u) ==
    /\ hold[u] = "free" /\ stage[u] \in {"open", "settled"}
    /\ hold' = [hold EXCEPT ![u] = IF stage[u] = "open" THEN "held" ELSE "spent"]
    /\ UNCHANGED <<stage, records>>

Publish(u) ==
    /\ hold[u] = "held"
    /\ hold' = [hold EXCEPT ![u] = "spent"]
    /\ records' = [records EXCEPT ![u] = @ + 1]
    /\ UNCHANGED stage

Settle(u) ==
    /\ hold[u] = "spent" /\ stage[u] = "open" /\ records[u] > 0
    /\ stage' = [stage EXCEPT ![u] = "settled"]
    /\ UNCHANGED <<hold, records>>

\* The holder has nothing more to insert, or has ended.
Yield(u) ==
    /\ hold[u] = "held"
    /\ hold' = [hold EXCEPT ![u] = "spent"]
    /\ UNCHANGED <<stage, records>>

Leave(u) ==
    /\ hold[u] # "free"
    /\ hold' = [hold EXCEPT ![u] = "free"]
    /\ UNCHANGED <<stage, records>>

\* The holder forgets the upload, before it ends or as it does.
Close(u) ==
    /\ hold[u] = "spent" /\ stage[u] \in {"open", "settled"}
    /\ stage' = [stage EXCEPT ![u] = "gone"]
    /\ UNCHANGED records
    /\ hold' = hold \/ hold' = [hold EXCEPT ![u] = "free"]

\* Uploads are aborted or pruned, whether held or not.
Lose ==
    /\ UNCHANGED <<hold, records>>
    /\ stage' \in [Uploads -> Stages]
    /\ \A u \in Uploads : stage'[u] = stage[u] \/ (stage[u] # "none" /\ stage'[u] = "gone")

Next == \/ Lose
        \/ \E u \in Uploads : \/ Open(u) \/ Take(u) \/ Publish(u) \/ Settle(u)
                              \/ Yield(u) \/ Leave(u) \/ Close(u)

Spec == Init /\ [][Next]_vars
=============================================================================
