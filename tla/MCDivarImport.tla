--------------------------- MODULE MCDivarImport ---------------------------
(* Model values for DivarImport: the advertisements, and the slots, are alike. *)
EXTENDS DivarImport, TLC

Symmetry == Permutations(Ads) \cup Permutations(Requests)
=============================================================================
