---------------------------- MODULE MCHttpServer ----------------------------
(***************************************************************************)
(* Instances of Server and HttpServer for TLC: more connections than       *)
(* descriptors, so that descriptors run out and are reused, and an event   *)
(* array shorter than the ready list.  The second client's request is for a *)
(* handler, is cut in its path and in its body, and is longer than the     *)
(* buffer; the third one's line does not fit in first_line; the first one  *)
(* asks for a path without an entry.                                       *)
(***************************************************************************)
EXTENDS HttpServer, TLC

CONSTANTS c1, c2, c3

MCConns == {c1, c2, c3}

\* "GET b v", "GET ab v" with a header and a body, and "GET aba v".
MCRequest ==
    c1 :> <<"GET", "SP", "b", "SP", "v", "CRLF", "CRLF">>
    @@ c2 :> <<"GET", "SP", "a", "b", "SP", "v", "CRLF", "a", "CRLF", "CRLF", "b", "b">>
    @@ c3 :> <<"GET", "SP", "a", "b", "a", "SP", "v", "CRLF", "CRLF">>

MCFirstLine == 7

MCSize == c1 :> 1 @@ c2 :> 3 @@ c3 :> 1
MCCuts == c1 :> <<7>> @@ c2 :> <<3, 11, 12>> @@ c3 :> <<9>>
MCCrashes == c1 :> {} @@ c2 :> {} @@ c3 :> {1}

\* The second client's path has a handler; the other entry is empty.
MCRoutes ==
    <<[path |-> <<"a">>, handler |-> NULL],
      [path |-> <<"a", "b">>, handler |-> "handler"]>>

\* Bounds the states: of three clients one closes, one resets and one is refused
\* at most.
OneOfEach ==
    \A how \in {"fin", "rst", "refused"} :
        Cardinality({c \in Conns : how \in {peer[c], conn[c]}}) <= 1
=============================================================================
