---------------------------- MODULE MCPhoneQueue ----------------------------
(* Finite instances of PhoneQueue.                                         *)
EXTENDS PhoneQueue, TLC

\* The two works are interchangeable, and so are the snapshots: sound for the
\* runs that check invariants only.
Symmetry == Permutations(Workers) \cup Permutations(Snapshots)

\* For the run with a liveness property, where TLC's symmetry is not sound: the
\* snapshots have no order, so the first one may be taken to be a fixed one.
FirstInit == Init /\ data = (CHOOSE first \in Snapshots : TRUE)

FairSpecFromFirst == FirstInit /\ [][Next]_vars /\ Fairness
=============================================================================
