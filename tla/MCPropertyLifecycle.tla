------------------------ MODULE MCPropertyLifecycle ------------------------
(***************************************************************************)
(* A small instance of PropertyLifecycle for TLC.                          *)
(***************************************************************************)
EXTENDS PropertyLifecycle, TLC

Interchangeable == Permutations(Requests) \cup Permutations(Prices)
=============================================================================
