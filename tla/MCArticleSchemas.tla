---------------------------- MODULE MCArticleSchemas ----------------------------
(* A small instance of ArticleSchemas for TLC. *)
EXTENDS ArticleSchemas, TLC

(* Requests, workers and rows are interchangeable. *)
Symmetry == Permutations(Editors) \union Permutations(Workers) \union Permutations(Ids)
================================================================================
