-------------------------- MODULE MCPartnerProgram --------------------------
(* Finite instances of PartnerProgram: contracts, references and requests   *)
(* are interchangeable.                                                     *)
EXTENDS PartnerProgram, TLC

Symmetry == Permutations(Contracts) \cup Permutations(References)
                \cup Permutations(Requests)
=============================================================================
