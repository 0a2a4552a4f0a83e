------------------------------- MODULE MCRouter -------------------------------
(***************************************************************************)
(* Every request of up to eight tokens over one word, long enough for an   *)
(* empty method, a header or a body and a byte 0, lines on both sides of   *)
(* the size of first_line, and routes for the path of that word: longer    *)
(* paths have no route.                                                    *)
(***************************************************************************)
EXTENDS Router

MCPaths == {<<"a">>}
=============================================================================
