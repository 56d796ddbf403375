-------------------------- MODULE MCProcessingRegistry --------------------------
(* A small instance of ProcessingRegistry for TLC. *)
EXTENDS ProcessingRegistry, TLC

(* Requests, workers and jobs are interchangeable. *)
Symmetry == Permutations(Requests) \union Permutations(Workers) \union Permutations(Jobs)
================================================================================
