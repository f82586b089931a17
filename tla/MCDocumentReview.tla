------------------------- MODULE MCDocumentReview -------------------------
(* Instances of DocumentReview for TLC. *)
EXTENDS DocumentReview, TLC

CONSTANTS w1, w2, c1, c2, c3, s1, s2, k1

\* Workers and candidate ids are interchangeable in safety runs.
Symmetry == Permutations(Workers) \cup Permutations(CandIds)
=============================================================================
