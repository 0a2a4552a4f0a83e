------------------------------ MODULE MCRelations ------------------------------
(***************************************************************************)
(* Two users and two names of tags, which nothing tells apart.             *)
(***************************************************************************)
EXTENDS Relations, TLC

Symmetry == Permutations(Users) \cup Permutations(TagNames)
=============================================================================
