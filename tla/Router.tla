--------------------------------- MODULE Router ---------------------------------
(***************************************************************************)
(* The router of server/srcs/router/router.c: a table from paths to        *)
(* handlers, router_handle_http_request, which finds the path in what recv *)
(* returned and answers or calls the handler, and router_parse_http_request, *)
(* the second parser, which a handler calls on the same bytes.             *)
(*                                                                         *)
(* Bytes come as tokens: words, a space, the byte 0, and the pair \r\n,     *)
(* which never comes in halves; sizes are counted in tokens.               *)
(***************************************************************************)
EXTENDS Integers, Sequences, SequencesExt

CONSTANTS
    Words,       \* pieces of a method, path, header or body
    Paths,       \* what routes are added for
    NULL,
    ERROR,
    FirstLine,   \* size of first_line
    MaxTokens,   \* bound on the length of a request
    MaxRoutes    \* bound on the size of the table

SP == "SP"
CRLF == "CRLF"
NUL == "NUL"

Tokens == Words \cup {SP, CRLF, NUL}

ASSUME WordsAssumption ==
    /\ Words \cap {SP, CRLF, NUL} = {}
    /\ Paths \subseteq Seq(Words)
    /\ NULL \notin Seq(Tokens)
ASSUME BoundsAssumption ==
    FirstLine \in Nat \ {0} /\ {MaxTokens, MaxRoutes} \subseteq Nat

VARIABLES
    m_routes,  \* the entries of the table, in the order they were added
    request,   \* what has arrived
    reply      \* how the request was answered; the path of the entry and what
               \* its handler was given as the request

NoReply == [answer |-> "none", path |-> NULL, request |-> NULL]

Crashed == [answer |-> "crash", path |-> NULL, request |-> NULL]

vars == <<m_routes, request, reply>>

-----------------------------------------------------------------------------
(* strstr, memchr and strchr: the place of a token, 0 for none.            *)

Find(s, token) == SelectInSeq(s, LAMBDA t : t = token)

Before(s, i) == SubSeq(s, 1, i - 1)

After(s, i) == SubSeq(s, i + 1, Len(s))

UpTo(s, token) == IF Find(s, token) = 0 THEN s ELSE Before(s, Find(s, token))

\* strstr(s, "\r\n\r\n")
FindBlankLine(s) ==
    LET starts == {i \in 1..(Len(s) - 1) : s[i] = CRLF /\ s[i + 1] = CRLF}
    IN  IF starts = {} THEN 0 ELSE CHOOSE i \in starts : \A j \in starts : i <= j

\* What the string functions see of a buffer: it ends at its first byte 0.
Text(bytes) == UpTo(bytes, NUL)

FirstLineOf(bytes) == UpTo(Text(bytes), CRLF)

HasLine(bytes) == Find(Text(bytes), CRLF) # 0

\* first_line has room for the line and the byte 0 behind it.  Nothing in
\* the code checks it.
LineFits(bytes) == HasLine(bytes) => Len(FirstLineOf(bytes)) < FirstLine

\* mutant: the line is cut at its first space and the wrong half is looked up
RouteOfMethod(bytes) ==
    IF ~HasLine(bytes) \/ Find(FirstLineOf(bytes), SP) = 0 THEN NULL
    ELSE UpTo(FirstLineOf(bytes), SP)

\* The path router_handle_http_request looks up, NULL for a bad request: what
\* stands after the first space of a line that fits, up to the next space.
RouteOf(bytes) ==
    LET line == FirstLineOf(bytes)
    IN  IF ~HasLine(bytes) \/ Find(line, SP) = 0 THEN NULL
        ELSE UpTo(After(line, Find(line, SP)), SP)

\* mutant: the body starts on the blank line
BodyStartsEarly(rest) == FindBlankLine(rest)

BodyStart(rest) == FindBlankLine(rest) + 1

\* router_parse_http_request: the line needs both its spaces, and a blank line
\* must follow at least one line end after it.  Whether there is a body is
\* told by request_len; strndup ends it at a byte 0.
router_parse_http_request(bytes) ==
    LET text == Text(bytes)
        line == FirstLineOf(bytes)
        afterMethod == After(line, Find(line, SP))
        rest == After(text, Find(text, CRLF))
        body == After(rest, BodyStart(rest))
    IN  IF \/ ~HasLine(bytes)
           \/ Find(line, SP) = 0
           \/ Find(afterMethod, SP) = 0
           \/ FindBlankLine(rest) = 0
        THEN ERROR
        ELSE [method |-> Before(line, Find(line, SP)),
              route |-> Before(afterMethod, Find(afterMethod, SP)),
              headers |-> Before(rest, FindBlankLine(rest)),
              body |-> IF Find(text, CRLF) + BodyStart(rest) < Len(bytes)
                       THEN body ELSE NULL]

-----------------------------------------------------------------------------

Init ==
    /\ m_routes = <<>>
    /\ request = <<>>
    /\ reply = NoReply

\* The next bytes reach the socket.
Arrive ==
    /\ reply = NoReply
    /\ Len(request) < MaxTokens
    /\ \E t \in Tokens : request' = Append(request, t)
    /\ UNCHANGED <<m_routes, reply>>

\* The answered connection is closed and another one is there.
NextConnection ==
    /\ reply \notin {NoReply, Crashed}
    /\ request' = <<>>
    /\ reply' = NoReply
    /\ UNCHANGED m_routes

\* No look at what is there: a path may be added twice.
router_add(path, handler) ==
    /\ reply # Crashed
    /\ Len(m_routes) < MaxRoutes
    /\ m_routes' = Append(m_routes, [path |-> path, handler |-> handler])
    /\ UNCHANGED <<request, reply>>

router_delete(i) ==
    /\ reply # Crashed
    /\ i \in DOMAIN m_routes
    /\ m_routes' = RemoveAt(m_routes, i)
    /\ UNCHANGED <<request, reply>>

router_clear ==
    /\ reply # Crashed
    /\ m_routes # <<>>
    /\ m_routes' = <<>>
    /\ UNCHANGED <<request, reply>>

\* Of two entries for one path the hash table finds the later one, until its
\* buckets are expanded, which turns their order around.
router_find(path) == {i \in DOMAIN m_routes : m_routes[i].path = path}

Refusal(code) == [answer |-> code, path |-> NULL, request |-> NULL]

\* What entry i makes of a request.
EntryReply(i, bytes) ==
    IF m_routes[i].handler = NULL
    THEN [answer |-> "500", path |-> m_routes[i].path, request |-> NULL]
    ELSE [answer |-> "handler", path |-> m_routes[i].path, request |-> bytes]

\* What a request whose line fits is answered.
Answers(bytes) ==
    LET route == RouteOf(bytes)
    IN  IF route = NULL THEN {Refusal("400")}
        ELSE IF router_find(route) = {} THEN {Refusal("404")}
        ELSE {EntryReply(i, bytes) : i \in router_find(route)}

\* A line that does not fit is written past first_line over what else is on
\* the stack: if an answer comes after that, it may be any.
AnyAnswers(bytes) ==
    {Refusal("400"), Refusal("404")} \cup {EntryReply(i, bytes) : i \in DOMAIN m_routes}

\* What the caller may find in its reply, given the bytes that recv returned.
Replies(bytes) == IF LineFits(bytes) THEN Answers(bytes) ELSE AnyAnswers(bytes)

router_handle_http_request ==
    /\ reply = NoReply
    /\ request # <<>>
    /\ reply' \in Replies(request)
    /\ UNCHANGED <<m_routes, request>>

\* ... and if none comes, the process is over.
router_handle_http_request_crashes ==
    /\ reply = NoReply
    /\ ~LineFits(request)
    /\ reply' = Crashed
    /\ UNCHANGED <<m_routes, request>>

\* Nothing runs after a crash; stuttering here is not a deadlock.
Ended == reply = Crashed /\ UNCHANGED vars

Next ==
    \/ Arrive
    \/ NextConnection
    \/ \E path \in Paths, handler \in {NULL, "handler"} : router_add(path, handler)
    \/ \E i \in 1..MaxRoutes : router_delete(i)
    \/ router_clear
    \/ router_handle_http_request
    \/ router_handle_http_request_crashes
    \/ Ended

Spec == Init /\ [][Next]_vars

-----------------------------------------------------------------------------

Called == reply.answer = "handler"

Parsed == router_parse_http_request(request)

\* A handler that parses its request finds the path it was registered for:
\* the two parsers (router.c:159-169,204-212) cut out the same piece of a
\* line that fits in the 255 bytes of first_line (router.c:191,202).  Nothing
\* is said of a longer one.
HandlerSeesItsPath ==
    Called /\ LineFits(reply.request) =>
        LET parsed == router_parse_http_request(reply.request)
        IN  parsed # ERROR => parsed.route = reply.path

\* The pieces of a parsed request put together are the request up to its
\* first byte 0: nothing between the method and the body is lost or shared
\* (router.c:163-180).
PiecesMakeTheRequest ==
    Parsed # ERROR =>
        \E n \in 0..Len(request) :
            LET text == Text(request)
                version == SubSeq(text, n + 1, Find(text, CRLF) - 1)
                body == IF Parsed.body = NULL THEN <<>> ELSE Parsed.body
            IN  text = Parsed.method \o <<SP>> \o Parsed.route \o <<SP>>
                         \o version \o <<CRLF>> \o Parsed.headers
                         \o <<CRLF, CRLF>> \o body
=============================================================================
