------------------------- MODULE MCSubmissionReview -------------------------
(* Small instances of SubmissionReview. *)
EXTENDS SubmissionReview, TLC

Symmetry == Permutations(Submissions) \cup Permutations(Properties)
            \cup Permutations(Consultants) \cup Permutations(Requests)

=============================================================================
