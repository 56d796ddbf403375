------------------------------ MODULE MCUndisturbed ------------------------------
(* A small instance of OneAtATime for TLC. *)
EXTENDS OneAtATime

(* Every form an editor can submit. *)
AllForms == Metadata
================================================================================
