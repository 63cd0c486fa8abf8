-------------------------- MODULE MCChunkedUpload --------------------------
(* Finite instances of ChunkedUpload.  The requests are interchangeable,   *)
(* which the runs without liveness use; the uploads are not, Mistyped tells *)
(* them apart.                                                             *)
EXTENDS ChunkedUpload, TLC

Symmetry == Permutations(Requests)
=============================================================================
