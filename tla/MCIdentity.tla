------------------------------- MODULE MCIdentity -------------------------------
(* A small instance of Identity for TLC. *)
EXTENDS Identity, TLC

(* Everything that has no order is interchangeable. *)
Symmetry ==
  Permutations(Users) \union Permutations(Emails) \union Permutations(Passwords)
    \union Permutations(Sessions) \union Permutations(Tokens) \union Permutations(Requests)
================================================================================
