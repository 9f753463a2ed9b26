-------------------------- MODULE MCDocumentReview --------------------------
(***************************************************************************)
(* Small instances of DocumentReview.  Files and call slots are            *)
(* interchangeable, so the safety runs are checked up to their permutation.*)
(***************************************************************************)
EXTENDS DocumentReview, TLC

Symmetry == Permutations(Blobs) \cup Permutations(Calls)
=============================================================================
