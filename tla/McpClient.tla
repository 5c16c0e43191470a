------------------------------- MODULE McpClient -------------------------------
(***************************************************************************)
(* pawbun-toolkit's MCP client: a session that makes one request at a time *)
(* over one of two transports.  The stdio transport writes a line and      *)
(* reads a line.  The SSE transport posts its requests, and a task in the  *)
(* background reads the server's event stream, reconnects it, and hands    *)
(* each response to the request it answers.                                *)
(*                                                                         *)
(* Abstractions: a response is the id it carries; parsing is not modelled; *)
(* time limits pass at any moment.  The HTTP client has a time limit for   *)
(* the connection only: a POST that a server takes and leaves unanswered   *)
(* lasts for ever.                                                         *)
(***************************************************************************)
EXTENDS Integers, Sequences

CONSTANTS MaxCalls,     \* bound: calls of list_tools and call_tool
          MaxSseRetries, \* connection attempts in a row (5)
          MaxConnects   \* bound: connections made

ASSUME McpClientAssumption == {MaxCalls, MaxSseRetries, MaxConnects} \subseteq Nat

VARIABLES via,       \* circumstance: "stdio" or "sse"
          server,    \* circumstance: "silent" (no answer to a notification), "echoes", "chatty",
                     \* "mute" (it may leave a POST unanswered)
          stage,     \* of McpAdapter::connect, then "session"
          next_id,
          pc,        \* where request() is
          asked,     \* the id of the request under way, Note for a notification
          reply,     \* what the last request returned
          link,      \* sse_reader_loop
          retry_count,
          connects,
          endpoint,  \* whether post_url is known
          routes,    \* pending response channels
          mail,      \* what came through the channel of the request under way
          pending,   \* what the server has to answer
          pipe       \* stdio: the lines in the child's stdout

mcpClientVars == <<via, server, stage, next_id, pc, asked, reply, link, retry_count, connects,
                   endpoint, routes, mail, pending, pipe>>
circumstances == <<via, server>>
reader == <<link, retry_count, connects>>
wires == <<pending, pipe>>

Note == -1        \* an answer without an id
Lost == -2        \* "SSE connection lost", "response channel closed"
Failed == -3      \* any other error
Nothing == -4

McpClientInit ==
    /\ via \in {"stdio", "sse"}
    /\ server \in {"silent", "echoes", "chatty"} \cup (IF via = "sse" THEN {"mute"} ELSE {})
    /\ stage = "initialize" /\ next_id = 0 /\ pc = "idle" /\ asked = Nothing /\ reply = Nothing
    /\ link = "down" /\ retry_count = 0 /\ connects = 0
    /\ endpoint = FALSE /\ routes = {} /\ mail = Nothing /\ pending = <<>> /\ pipe = <<>>

-----------------------------------------------------------------------------
(* McpAdapter and McpSession.                                               *)

Request(id) ==
    /\ pc = "idle"
    /\ asked' = id
    /\ pc' = IF via = "sse" THEN "handshake" ELSE "writing"
    /\ mail' = Nothing
    /\ UNCHANGED <<circumstances, stage, reply, reader, endpoint, routes, wires>>

\* connect: the initialize request, then the notification.
Connect ==
    \/ stage = "initialize" /\ Request(0) /\ next_id' = 1
    \/ stage = "notify" /\ Request(Note) /\ UNCHANGED next_id

\* list_tools, call_tool: a fresh id, whatever became of the last request.
CallTool ==
    /\ stage = "session" /\ next_id <= MaxCalls
    /\ Request(next_id)
    /\ next_id' = next_id + 1

\* request() is over; an error in connect is connect's.
Returns(with) ==
    /\ reply' = with
    /\ pc' = "idle"
    /\ stage' = IF stage = "session" THEN stage
                ELSE IF with \in {Lost, Failed} THEN "failed"
                ELSE IF stage = "initialize" THEN "notify" ELSE "session"

-----------------------------------------------------------------------------
(* StdioTransport.                                                          *)

WriteRequest ==
    /\ pc = "writing"
    /\ \/ pending' = Append(pending, asked) /\ pc' = "reading" /\ UNCHANGED <<reply, stage>>
       \/ Returns(Failed) /\ UNCHANGED pending
    /\ UNCHANGED <<circumstances, next_id, asked, reader, endpoint, routes, mail, pipe>>

\* The next line is the response, of whatever it is.
ReadResponse ==
    /\ pc = "reading" /\ pipe # <<>>
    /\ Returns(Head(pipe))
    /\ pipe' = Tail(pipe)
    /\ UNCHANGED <<circumstances, next_id, asked, reader, endpoint, routes, mail, pending>>

-----------------------------------------------------------------------------
(* SseTransport::request.                                                   *)

\* 30 seconds for the endpoint, or the reader has given up.
HandshakeFails ==
    /\ pc = "handshake" /\ ~endpoint
    /\ Returns(Failed)
    /\ UNCHANGED <<circumstances, next_id, asked, reader, endpoint, routes, mail, wires>>

HandshakeDone ==
    /\ pc = "handshake" /\ endpoint
    /\ routes' = IF asked = Note THEN routes ELSE routes \cup {asked}
    /\ pc' = "posting"
    /\ UNCHANGED <<circumstances, stage, next_id, asked, reply, reader, endpoint, mail, wires>>

\* The POST is answered: accepted, refused (the route is removed), or failed (it stays).  That
\* of a notification is as good as accepted when it is refused: its status is not read.
PostAccepted ==
    /\ pc = "posting"
    /\ \/ pending' = Append(pending, asked)
       \/ asked = Note /\ UNCHANGED pending
    /\ IF asked = Note THEN Returns(Note) ELSE pc' = "waiting" /\ UNCHANGED <<reply, stage>>
    /\ UNCHANGED <<circumstances, next_id, asked, reader, endpoint, routes, mail, pipe>>

PostFails ==
    /\ pc = "posting"
    /\ Returns(Failed)
    /\ \E refused \in {asked # Note, FALSE} : routes' = IF refused THEN routes \ {asked} ELSE routes
    /\ UNCHANGED <<circumstances, next_id, asked, reader, endpoint, mail, wires>>

ReceiveReply ==
    /\ pc = "waiting" /\ mail # Nothing
    /\ Returns(mail)
    /\ UNCHANGED <<circumstances, next_id, asked, reader, endpoint, routes, mail, wires>>

ReplyTimesOut_Never == FALSE /\ UNCHANGED mcpClientVars

\* 60 seconds.
ReplyTimesOut ==
    /\ pc = "waiting"
    /\ Returns(Failed)
    /\ routes' = routes \ {asked}
    /\ UNCHANGED <<circumstances, next_id, asked, reader, endpoint, mail, wires>>

-----------------------------------------------------------------------------
(* sse_reader_loop.                                                         *)

ReaderConnects ==
    /\ via = "sse" /\ link = "down" /\ connects < MaxConnects
    /\ link' = "open" /\ connects' = connects + 1
    /\ UNCHANGED <<circumstances, stage, next_id, pc, asked, reply, retry_count, endpoint, routes, mail, wires>>

\* The endpoint event; one that is no valid URL ends the connection with an error.
EndpointEvent ==
    /\ link = "open"
    /\ endpoint' = TRUE
    /\ UNCHANGED <<circumstances, stage, next_id, pc, asked, reply, reader, routes, mail, wires>>

\* Every pending request is told that it is lost, and the endpoint is forgotten.
DrainPendingRoutes ==
    /\ mail' = IF asked \in routes /\ pc \in {"posting", "waiting"} THEN Lost ELSE mail
    /\ routes' = {} /\ endpoint' = FALSE

\* A stream that ends resets the count of retries; an error adds to it, and is final beyond
\* MaxSseRetries.
StreamEnds ==
    /\ link = "open"
    /\ DrainPendingRoutes
    /\ link' = "down" /\ retry_count' = 0
    /\ pending' \in {pending, <<>>}
    /\ UNCHANGED <<circumstances, stage, next_id, pc, asked, reply, connects, pipe>>

StreamFails ==
    /\ via = "sse" /\ link \in {"down", "open"}
    /\ DrainPendingRoutes
    /\ retry_count' = IF retry_count <= MaxSseRetries THEN retry_count + 1 ELSE retry_count
    /\ link' = IF MaxSseRetries > 0 /\ retry_count' > MaxSseRetries THEN "over" ELSE "down"
    /\ UNCHANGED <<circumstances, stage, next_id, pc, asked, reply, connects, wires>>

RouteResponse_ToAnyone(id) ==
    /\ mail' = IF pc \in {"posting", "waiting"} THEN id ELSE mail
    /\ routes' = routes \ {id}

\* A response goes to the request that waits under its id, if one does.
RouteResponse(id) ==
    /\ mail' = IF id \in routes /\ id = asked /\ pc \in {"posting", "waiting"} THEN id ELSE mail
    /\ routes' = routes \ {id}

-----------------------------------------------------------------------------
(* The server: it answers what it was sent, in any order over SSE; a chatty *)
(* one sends notifications of its own.                                      *)

Without(seq, i) == SubSeq(seq, 1, i - 1) \o SubSeq(seq, i + 1, Len(seq))

ServerAnswers ==
    \E i \in DOMAIN pending :
        /\ via = "stdio" => i = 1
        /\ via = "sse" => link = "open"
        /\ pending' = Without(pending, i)
        /\ LET answered == pending[i] # Note \/ server = "echoes"
           IN IF via = "stdio"
              THEN pipe' = (IF answered THEN Append(pipe, pending[i]) ELSE pipe) /\ UNCHANGED <<mail, routes>>
              ELSE RouteResponse(pending[i]) /\ UNCHANGED pipe
        /\ UNCHANGED <<circumstances, stage, next_id, pc, asked, reply, reader, endpoint>>

ServerTalks ==
    /\ server = "chatty" /\ via = "stdio" /\ Len(pipe) < 2
    /\ pipe' = Append(pipe, Note)
    /\ UNCHANGED <<circumstances, stage, next_id, pc, asked, reply, reader, endpoint, routes, mail, pending>>

McpClientNext ==
    \/ Connect \/ CallTool \/ WriteRequest \/ ReadResponse
    \/ HandshakeFails \/ HandshakeDone \/ PostAccepted \/ PostFails \/ ReceiveReply \/ ReplyTimesOut
    \/ ReaderConnects \/ EndpointEvent \/ StreamEnds \/ StreamFails
    \/ ServerAnswers \/ ServerTalks

\* What has a time limit ends, and a server over stdio answers; a POST has none, and ends
\* because the server, or the network, answers it.
McpClientFairness ==
    /\ WF_mcpClientVars(WriteRequest) /\ WF_mcpClientVars(ReadResponse)
    /\ WF_mcpClientVars(HandshakeFails \/ HandshakeDone)
    /\ WF_mcpClientVars(server # "mute" /\ (PostAccepted \/ PostFails))
    /\ WF_mcpClientVars(ReceiveReply) /\ WF_mcpClientVars(ReplyTimesOut)
    /\ WF_mcpClientVars(via = "stdio" /\ ServerAnswers) /\ WF_mcpClientVars(Connect)

McpClientSpec == McpClientInit /\ [][McpClientNext]_mcpClientVars /\ McpClientFairness

-----------------------------------------------------------------------------
\* A request that returns a response returns its own, however late, lost or reordered the
\* answers to earlier requests are; over stdio only from a server that says nothing
\* unasked and answers notifications, since no id is compared there.
ReplyMatches == [][pc # "idle" /\ pc' = "idle" /\ reply' \notin {Lost, Failed} /\ (via = "sse" \/ server = "echoes")
                   => reply' = asked]_mcpClientVars

\* Every request returns, though the connection may break at any point and an answer may
\* never come: over SSE from a server that answers its POST, and whatever the server does
\* once the POST is answered; over stdio only an answer ends it.
RequestReturns ==
    /\ (IF via = "sse" THEN server # "mute" ELSE server = "echoes") => (pc # "idle" ~> pc = "idle")
    /\ pc = "waiting" ~> pc = "idle"

\* What the documentation says of connect and the code does not keep: it ends.  Over stdio
\* it reads an answer to its notification, which a server does not send.
ConnectReturns == server # "chatty" => <>(stage \in {"session", "failed"})

\* What a reader may expect and the code does not keep (README).
\* A request over SSE returns whatever the server does: its POST has no time limit.
RequestReturnsAlways == via = "sse" => (pc # "idle" ~> pc = "idle")
\* No channel is left behind once its request has returned.
NoRouteLeft == pc = "idle" => routes = {}
\* Over stdio, too, each answer is that of its request.
ReplyMatchesAlways == [][pc # "idle" /\ pc' = "idle" /\ reply' \notin {Lost, Failed} => reply' = asked]_mcpClientVars
==============================================================================
