----------------------------- MODULE HttpServer -----------------------------
(***************************************************************************)
(* Server and Router together: the callback that main.c hands to server.c  *)
(* is router_handle_http_request, called on the bytes that the one recv of  *)
(* a client returned.  A request now has contents and is cut into segments *)
(* somewhere; a client is answered from those that had arrived, and a      *)
(* handler is given no more than those.                                    *)
(***************************************************************************)
EXTENDS Server

CONSTANTS
    Words,    \* pieces of a method, path, header or body
    NULL,
    ERROR,
    Request,  \* what each client sends, in tokens
    FirstLine,  \* size of the router's first_line
    Cuts,     \* for each client, the length of its first n segments
    Routes    \* the entries added to the router before the loop starts

Tokens(c) == Len(Request[c])

VARIABLE reply  \* how each client was answered

Router == INSTANCE Router WITH
    m_routes <- Routes, request <- <<>>, reply <- reply,
    Paths <- {Routes[i].path : i \in DOMAIN Routes},
    MaxTokens <- 0, MaxRoutes <- Len(Routes)

\* The first n segments of a client's request.
Bytes(c, n) == IF n = 0 THEN <<>> ELSE SubSeq(Request[c], 1, Cuts[c][n])

ASSUME CutsAssumption ==
    \A c \in Conns :
        /\ Request[c] \in Seq(Router!Tokens)
        /\ Cuts[c] \in Seq(1..Tokens(c))
        /\ Len(Cuts[c]) = Size[c]
        /\ Cuts[c][Size[c]] = Tokens(c)
        /\ Crashes[c] = {n \in 1..Size[c] : ~Router!LineFits(Bytes(c, n))}

httpVars == <<vars, reply>>

HttpInit ==
    /\ Init
    /\ reply = [c \in Conns |-> Router!NoReply]

\* mutant: buf[ret] is not set to '\\0', and what a longer request answered
\* before has left in the buffer is read as well
WithLeftover(c, n) ==
    IF \E d \in Conns : Cuts[c][n] < Len(Bytes(d, answered[d]))
    THEN LET d == CHOOSE d \in Conns : Cuts[c][n] < Len(Bytes(d, answered[d]))
         IN  Bytes(c, n) \o Router!After(Bytes(d, answered[d]), Cuts[c][n])
    ELSE Bytes(c, n)

\* buf up to the '\\0' that is put behind what recv returned.
Buffer(c, n) == Bytes(c, n)

\* The answer is made in the step that uses what recv returned.
m_http_request_handler ==
    IF answered' = answered THEN UNCHANGED reply
    ELSE LET c == fdtab[Event.fd]
         IN  \E r \in Router!Replies(Buffer(c, received)) :
                reply' = [reply EXCEPT ![c] = r]

HttpNext == Next /\ m_http_request_handler

HttpSpec == HttpInit /\ [][HttpNext]_httpVars

-----------------------------------------------------------------------------

\* The request line, which is all that the router looks at, was complete in
\* what recv returned.
LineArrived(c) == Router!HasLine(Bytes(c, answered[c]))

SameAnswer(given, deserved) ==
    given.answer = deserved.answer /\ given.path = deserved.path

\* What a handler is given: its client's own request, from its first byte, as
\* far as recv returned it.  The line is in it; a body may be cut anywhere.
GivenItsRequest(c) ==
    /\ Router!IsPrefix(reply[c].request, Request[c])
    /\ Router!HasLine(reply[c].request)

\* Wherever the network cuts the requests, and whoever else sends, leaves or
\* is answered meanwhile, a client whose request line fits in first_line is
\* answered with the code and by the entry that its own whole request deserves,
\* or with a 400 if recv came before its line was complete.  A handler gets
\* the beginning of that client's request with its line, and of no other's;
\* whether it gets the rest is left to chance (server.c:103-128,
\* router.c:187-235).
AnswerFitsRequest ==
    \A c \in Conns :
        reply[c] # Router!NoReply /\ Router!LineFits(Request[c]) =>
            \/ reply[c].answer = "400" /\ ~LineArrived(c)
            \/ /\ \E r \in Router!Replies(Request[c]) : SameAnswer(reply[c], r)
               /\ reply[c].answer = "handler" => GivenItsRequest(c)
=============================================================================
