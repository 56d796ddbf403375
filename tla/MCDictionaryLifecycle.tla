------------------------- MODULE MCDictionaryLifecycle -------------------------
(* Small instances of DictionaryLifecycle for TLC. *)
EXTENDS DictionaryLifecycle, TLC

(* Every form an editor can submit. *)
AllForms == Metadata

(* Only the complete form: ranges and inspections still take readiness away. *)
CompleteForm == {[scalars |-> TRUE, languages |-> TRUE]}

(* Requests and lexemes are interchangeable: no action singles one out. *)
Symmetry == Permutations(Requests) \union Permutations(Lexemes)
================================================================================
