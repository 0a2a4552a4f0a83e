------------------------------ MODULE MCFtList ------------------------------
(***************************************************************************)
(* Every list of up to five nodes, built and taken apart in every way.     *)
(***************************************************************************)
EXTENDS FtList

CONSTANTS n1, n2, n3, n4, n5

MCNodes == {n1, n2, n3, n4, n5}
=============================================================================
