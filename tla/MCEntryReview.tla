------------------------------ MODULE MCEntryReview ------------------------------
(* Small instances of EntryReview for TLC. *)
EXTENDS EntryReview, TLC

(* Requests and fields are interchangeable. *)
Symmetry == Permutations(Requests) \union Permutations(FieldIds)
================================================================================
