----------------------------- MODULE MCSourceIntake -----------------------------
(* Small instances of SourceIntake for TLC. *)
EXTENDS SourceIntake, TLC

(* Uploads and worker processes are interchangeable. *)
Symmetry == Permutations(Files) \union Permutations(Workers)
================================================================================
