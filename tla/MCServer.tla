------------------------------ MODULE MCServer ------------------------------
(***************************************************************************)
(* An instance of Server for TLC: more connections than descriptors, so    *)
(* that descriptors run out and are reused, and requests of one segment.   *)
(* The third client's is one the callback may not come back from.          *)
(***************************************************************************)
EXTENDS Server, TLC

CONSTANTS c1, c2, c3

MCConns == {c1, c2, c3}
MCSizeOne == [c \in Conns |-> 1]
MCCrashes == c1 :> {} @@ c2 :> {} @@ c3 :> {1}
=============================================================================
