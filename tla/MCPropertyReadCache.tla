------------------------ MODULE MCPropertyReadCache -------------------------
(* Small instances of PropertyReadCache. *)
EXTENDS PropertyReadCache, TLC

CONSTANTS short, long

MCTTL == (short :> 1) @@ (long :> 2)
Symmetry == Permutations(Loads)

=============================================================================
