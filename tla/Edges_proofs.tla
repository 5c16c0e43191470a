----------------------------- MODULE Edges_proofs -----------------------------
(***************************************************************************)
(* The edges of an agent, for any number of calls, clients and requests:   *)
(* whose answer a request of the MCP client returns, to whom and how often *)
(* the MCP server's one loop answers, how often a language model is asked  *)
(* and what its breaker lets through, what the hooks around a call keep,   *)
(* and what the answer of a tool's host tells.                             *)
(***************************************************************************)
EXTENDS McpClient, McpServer, ProviderAccess, CircuitBreaker, HookChain, ToolHost, FoldLemmas,
        FiniteSetTheorems

-----------------------------------------------------------------------------
(* The client's replies.                                                    *)

\* Over SSE the channel of the request under way holds its own answer or none.
OwnMail == via = "sse" => /\ pc \in {"idle", "handshake", "posting", "waiting"}
                          /\ pc # "idle" => mail \in {Nothing, Lost, asked}

\* Over stdio a server that answers everything, and says nothing unasked, has one line on
\* its way while a request reads, and none else.
OneLine == via = "stdio" =>
    /\ pc \in {"idle", "writing", "reading"} /\ link # "open"
    /\ server = "echoes" => IF pc = "reading" THEN \/ pending = <<asked>> /\ pipe = <<>>
                                                   \/ pending = <<>> /\ pipe = <<asked>>
                            ELSE pending = <<>> /\ pipe = <<>>

ReplyInv == via \in {"stdio", "sse"} /\ OwnMail /\ OneLine

LEMMA ReplyInvInit == McpClientInit => ReplyInv
  BY DEF McpClientInit, ReplyInv, OwnMail, OneLine

LEMMA WithoutOnly == \A x : Without(<<x>>, 1) = <<>>
  BY DEF Without

\* What the server does to the one line.
LEMMA AnswersOneLine ==
  ASSUME ReplyInv, via = "stdio", server = "echoes", ServerAnswers
  PROVE  pc = "reading" /\ pending' = <<>> /\ pipe' = <<asked>>
<1>1. PICK i \in DOMAIN pending :
         /\ i = 1 /\ pending' = Without(pending, i) /\ pipe' = Append(pipe, pending[i])
  BY DEF ServerAnswers
<1>2. pending = <<asked>> /\ pipe = <<>> /\ pc = "reading"
  BY <1>1 DEF ReplyInv, OneLine
<1> QED
  BY <1>1, <1>2, WithoutOnly

LEMMA OwnMailStep ==
  ASSUME ReplyInv, via = "sse", McpClientNext
  PROVE  OwnMail'
<1>0. via' = via /\ pc \in {"idle", "handshake", "posting", "waiting"}
  BY DEF McpClientNext, Connect, CallTool, Request, WriteRequest, ReadResponse, HandshakeFails,
         HandshakeDone, PostAccepted, PostFails, ReceiveReply, ReplyTimesOut, ReaderConnects,
         EndpointEvent, StreamEnds, StreamFails, ServerAnswers, ServerTalks, circumstances,
         ReplyInv, OwnMail
<1>1. CASE Connect \/ CallTool
  BY <1>0, <1>1 DEF Connect, CallTool, Request, OwnMail
<1>2. CASE WriteRequest \/ ReadResponse \/ ServerTalks
  BY <1>0, <1>2 DEF WriteRequest, ReadResponse, ServerTalks
<1>3. CASE HandshakeFails \/ PostFails \/ ReceiveReply \/ ReplyTimesOut
  BY <1>0, <1>3 DEF HandshakeFails, PostFails, ReceiveReply, ReplyTimesOut, Returns, OwnMail
<1>4. CASE HandshakeDone \/ PostAccepted
  BY <1>0, <1>4 DEF HandshakeDone, PostAccepted, Returns, OwnMail, ReplyInv
<1>5. CASE ReaderConnects \/ EndpointEvent
  BY <1>0, <1>5 DEF ReaderConnects, EndpointEvent, OwnMail, ReplyInv
<1>6. CASE StreamEnds \/ StreamFails
  BY <1>0, <1>6 DEF StreamEnds, StreamFails, DrainPendingRoutes, OwnMail, ReplyInv
<1>7. CASE ServerAnswers
  BY <1>0, <1>7 DEF ServerAnswers, RouteResponse, OwnMail, ReplyInv
<1> QED
  BY <1>1, <1>2, <1>3, <1>4, <1>5, <1>6, <1>7 DEF McpClientNext

LEMMA OneLineStep ==
  ASSUME ReplyInv, via = "stdio", McpClientNext
  PROVE  OneLine'
<1>0. /\ via' = via /\ server' = server /\ pc \in {"idle", "writing", "reading"} /\ link # "open"
  BY DEF McpClientNext, Connect, CallTool, Request, WriteRequest, ReadResponse, HandshakeFails,
         HandshakeDone, PostAccepted, PostFails, ReceiveReply, ReplyTimesOut, ReaderConnects,
         EndpointEvent, StreamEnds, StreamFails, ServerAnswers, ServerTalks, circumstances,
         ReplyInv, OneLine
<1>1. CASE Connect \/ CallTool
  BY <1>0, <1>1 DEF Connect, CallTool, Request, OneLine, reader, wires, ReplyInv
<1>2. CASE WriteRequest
  BY <1>0, <1>2 DEF WriteRequest, Returns, OneLine, reader, ReplyInv
<1>3. CASE ReadResponse
  <2>1. /\ pc = "reading" /\ pc' = "idle" /\ pipe # <<>> /\ pipe' = Tail(pipe)
        /\ pending' = pending /\ link' = link
    BY <1>3 DEF ReadResponse, Returns, reader
  <2>2. server = "echoes" => pending' = <<>> /\ pipe' = <<>>
    <3>1. server = "echoes" => pending = <<>> /\ pipe = <<asked>>
      BY <2>1 DEF ReplyInv, OneLine
    <3>2. Tail(<<asked>>) = <<>>
      OBVIOUS
    <3> QED
      BY <2>1, <3>1, <3>2
  <2> QED
    BY <1>0, <2>1, <2>2 DEF OneLine
<1>4. CASE ServerAnswers
  <2>1. CASE server = "echoes"
    BY <1>0, <1>4, <2>1, AnswersOneLine DEF ServerAnswers, OneLine, reader
  <2>2. CASE server # "echoes"
    BY <1>0, <1>4, <2>2 DEF ServerAnswers, OneLine, reader
  <2> QED
    BY <2>1, <2>2
<1>5. CASE ServerTalks
  BY <1>0, <1>5 DEF ServerTalks, OneLine, reader
<1> QED
  BY <1>0, <1>1, <1>2, <1>3, <1>4, <1>5 DEF McpClientNext, HandshakeFails, HandshakeDone, PostAccepted,
     PostFails, ReceiveReply, ReplyTimesOut, ReaderConnects, EndpointEvent, StreamEnds, StreamFails

LEMMA ReplyInvStep == ReplyInv /\ [McpClientNext]_mcpClientVars => ReplyInv'
<1> SUFFICES ASSUME ReplyInv, [McpClientNext]_mcpClientVars PROVE ReplyInv'
  OBVIOUS
<1>1. CASE UNCHANGED mcpClientVars
  BY <1>1 DEF mcpClientVars, ReplyInv, OwnMail, OneLine
<1>2. CASE McpClientNext
  <2>1. via' = via
    BY <1>2 DEF McpClientNext, Connect, CallTool, Request, WriteRequest, ReadResponse, HandshakeFails,
         HandshakeDone, PostAccepted, PostFails, ReceiveReply, ReplyTimesOut, ReaderConnects,
         EndpointEvent, StreamEnds, StreamFails, ServerAnswers, ServerTalks, circumstances
  <2>2. CASE via = "sse"
    <3>1. OwnMail'
      BY <1>2, <2>2, OwnMailStep
    <3> QED
      BY <2>1, <2>2, <3>1 DEF ReplyInv, OneLine
  <2>3. CASE via = "stdio"
    <3>1. OneLine'
      BY <1>2, <2>3, OneLineStep
    <3> QED
      BY <2>1, <2>3, <3>1 DEF ReplyInv, OwnMail
  <2> QED
    BY <2>2, <2>3 DEF ReplyInv
<1> QED
  BY <1>1, <1>2

\* What a step may return.
OwnReply == pc # "idle" /\ pc' = "idle" /\ reply' \notin {Lost, Failed} /\ (via = "sse" \/ server = "echoes")
               => reply' = asked

LEMMA StepsReply ==
  ASSUME ReplyInv, McpClientNext
  PROVE  OwnReply
<1>1. CASE Connect \/ CallTool
  BY <1>1 DEF Connect, CallTool, Request, OwnReply
<1>2. CASE WriteRequest \/ HandshakeFails \/ PostFails \/ ReplyTimesOut
  BY <1>2 DEF WriteRequest, HandshakeFails, PostFails, ReplyTimesOut, Returns, OwnReply
<1>3. CASE ReadResponse
  BY <1>3 DEF ReadResponse, Returns, OwnReply, ReplyInv, OwnMail, OneLine
<1>4. CASE HandshakeDone \/ PostAccepted
  BY <1>4 DEF HandshakeDone, PostAccepted, Returns, OwnReply
<1>5. CASE ReceiveReply
  BY <1>5 DEF ReceiveReply, Returns, OwnReply, ReplyInv, OwnMail, OneLine
<1>6. CASE ReaderConnects \/ EndpointEvent \/ StreamEnds \/ StreamFails \/ ServerAnswers \/ ServerTalks
  BY <1>6 DEF ReaderConnects, EndpointEvent, StreamEnds, StreamFails, ServerAnswers, ServerTalks, OwnReply
<1> QED
  BY <1>1, <1>2, <1>3, <1>4, <1>5, <1>6 DEF McpClientNext

\* A request of the MCP client that returns a response returns its own, whatever answers
\* to earlier requests are late, lost, reordered or dropped with the connection
\* (SseTransport::request, sse_reader_loop, StdioTransport::request).
THEOREM ReplyIsOwn == McpClientSpec => ReplyMatches
<1>1. McpClientInit => ReplyInv
  BY ReplyInvInit
<1>2. ReplyInv /\ [McpClientNext]_mcpClientVars => ReplyInv' /\ [OwnReply]_mcpClientVars
  BY ReplyInvStep, StepsReply
<1>3. [][OwnReply]_mcpClientVars => ReplyMatches
  BY DEF OwnReply, ReplyMatches
<1> QED
  BY <1>1, <1>2, <1>3, PTL DEF McpClientSpec

-----------------------------------------------------------------------------
(* The server's answers.                                                    *)

Requests == [from : Peers, ask : {"initialize", "initialized", "call", "other", "garbage"}, id : Nat]
Responses == [from : Peers, id : Nat, is : {"result", "empty", "error"}]

McpServerTypes ==
    /\ serving \in {"sse", "stdio"} /\ posted \in [Peers -> Nat]
    /\ inbox \in Seq(Requests) /\ {handled, responder} \subseteq Requests \cup {Idle}
    /\ handled.ask # "garbage"
    /\ outcomes \subseteq Responses /\ delivered \in [Peers -> Seq(Responses)]

\* The places of a request's answer: before it is handled, in the loop, with a task, given.
Queued(c, id) == \E i \in DOMAIN inbox : inbox[i].from = c /\ inbox[i].id = id
Current == IF serving = "sse" THEN responder ELSE handled
InLoop(c, id) == Current.from = c /\ Current.id = id
Owed(c, id) == \E o \in outcomes : o.from = c /\ o.id = id
Received(c, id) == \E i \in DOMAIN delivered[c] : delivered[c][i].id = id

\* The loop's one channel is that of the request in the handler; over stdio there is none.
ChannelIsHandled == /\ serving = "sse" /\ handled # Idle => responder = handled
                    /\ serving = "stdio" => outcomes = {}

\* An id that is not there yet was not asked for.
IdsPosted == \A c \in Peers, id \in Nat : id # NoId /\ id > posted[c] =>
                 ~Queued(c, id) /\ ~InLoop(c, id) /\ ~Owed(c, id) /\ ~Received(c, id)

\* An answer is in one place.
OnePlace == \A c \in Peers, id \in Nat : id # NoId =>
    /\ Queued(c, id) => ~InLoop(c, id) /\ ~Owed(c, id) /\ ~Received(c, id)
    /\ InLoop(c, id) => ~Owed(c, id) /\ ~Received(c, id)
    /\ Owed(c, id) => ~Received(c, id)
QueuedOnce == \A i, j \in DOMAIN inbox :
    i # j /\ inbox[i].id # NoId /\ inbox[i].from = inbox[j].from => inbox[i].id # inbox[j].id
OwedOnce == \A o, p \in outcomes : /\ o.id # NoId
                                   /\ o.from = p.from /\ o.id = p.id => o = p

McpServerIInv == /\ McpServerTypes /\ ChannelIsHandled /\ IdsPosted /\ OnePlace /\ QueuedOnce
                 /\ OwedOnce /\ AnsweredOnceToAsker

-----------------------------------------------------------------------------
(* What each step does to the places.                                       *)

LEMMA IdleIsNone == Idle.id = NoId /\ NoId \in Nat /\ Idle \notin Requests
  BY DEF Idle, NoId, Requests

\* A client posts: at most one new request waits, under an id of its own.
LEMMA Posting ==
  ASSUME McpServerTypes, NEW c \in Peers, Post(c)
  PROVE  \E req \in Requests :
            /\ inbox' = Append(inbox, req) /\ req.from = c
            /\ req.id = NoId \/ req.id = posted[c] + 1
            /\ posted' = [posted EXCEPT ![c] = @ + 1]
            /\ UNCHANGED <<serving, handled, responder, outcomes, delivered>>
<1>1. PICK message \in Messages \cup {Garbage} :
         inbox' = Append(inbox, [from |-> c, ask |-> message.ask,
                                 id |-> IF message.id THEN posted[c] + 1 ELSE NoId])
  BY DEF Post
<1> DEFINE req == [from |-> c, ask |-> message.ask, id |-> IF message.id THEN posted[c] + 1 ELSE NoId]
<1>2. posted[c] + 1 \in Nat /\ NoId \in Nat
  BY IdleIsNone DEF McpServerTypes
<1>3. message.ask \in {"initialize", "initialized", "call", "other", "garbage"}
  BY DEF Messages, Garbage
<1>4. req \in Requests
  BY <1>2, <1>3 DEF Requests
<1>5. req.from = c /\ (req.id = NoId \/ req.id = posted[c] + 1)
  OBVIOUS
<1>6. inbox' = Append(inbox, req)
  BY <1>1
<1> HIDE DEF req
<1>7. posted' = [posted EXCEPT ![c] = @ + 1] /\ UNCHANGED <<serving, handled, responder, outcomes, delivered>>
  BY DEF Post, setting
<1> QED
  BY <1>4, <1>5, <1>6, <1>7

\* The loop takes the next line or request.
LEMMA Receiving ==
  ASSUME McpServerTypes, Recv
  PROVE  /\ inbox # <<>> /\ inbox' = Tail(inbox) /\ Head(inbox) \in Requests /\ handled = Idle
         /\ UNCHANGED <<serving, posted, delivered>>
         /\ \/ UNCHANGED <<handled, responder, outcomes>>
            \/ /\ handled' = Head(inbox) /\ Head(inbox).ask # "garbage"
               /\ \/ serving = "stdio" /\ UNCHANGED <<responder, outcomes>>
                  \/ serving = "sse" /\ responder' = Head(inbox) /\ outcomes' = outcomes \cup Dropped(responder)
<1>1. inbox \in Seq(Requests) /\ serving \in {"sse", "stdio"}
  BY DEF McpServerTypes
<1>2. inbox # <<>> /\ inbox' = Tail(inbox) /\ handled = Idle /\ UNCHANGED <<serving, posted, delivered>>
  BY DEF Recv, setting
<1>3. Head(inbox) \in Requests
  BY <1>1, <1>2
<1> QED
  BY <1>1, <1>2, <1>3 DEF Recv

\* The handler's answer is suppressed, given to a client over stdio, or to a task.
LEMMA Handling ==
  ASSUME McpServerTypes, HandleRequest
  PROVE  /\ handled \in Requests /\ handled' = Idle /\ UNCHANGED <<serving, posted, inbox>>
         /\ \/ UNCHANGED <<responder, outcomes, delivered>>
            \/ \E given \in Responses :
                  /\ given.id = handled.id
                  /\ \/ /\ serving = "stdio" /\ UNCHANGED <<responder, outcomes>>
                        /\ given.from = handled.from
                        /\ delivered' = [delivered EXCEPT ![handled.from] = Append(@, given)]
                     \/ /\ serving = "sse" /\ responder' = Idle /\ UNCHANGED delivered
                        /\ outcomes' = outcomes \/ (/\ outcomes' = outcomes \cup {[given EXCEPT !.from = responder.from]}
                                                    /\ responder.id # NoId)
<1>1. handled \in Requests /\ handled' = Idle /\ UNCHANGED <<serving, posted, inbox>> /\ serving \in {"sse", "stdio"}
  BY DEF HandleRequest, McpServerTypes, setting
<1>2. PICK is \in Answers(handled) :
         LET given == [from |-> handled.from, id |-> handled.id, is |-> is]
         IN IF is = "empty" THEN UNCHANGED <<responder, outcomes, delivered>>
            ELSE IF serving = "stdio"
            THEN /\ delivered' = [delivered EXCEPT ![handled.from] = Append(@, given)]
                 /\ UNCHANGED <<responder, outcomes>>
            ELSE /\ outcomes' = IF responder.id = NoId THEN outcomes
                                ELSE outcomes \cup {[given EXCEPT !.from = responder.from]}
                 /\ responder' = Idle
                 /\ UNCHANGED delivered
  BY DEF HandleRequest
<1>3. is \in {"result", "empty", "error"}
  <2>1. handled.ask \in {"initialize", "initialized", "call", "other"}
    BY <1>1 DEF McpServerTypes, Requests
  <2> QED
    BY <2>1 DEF Answers
<1> DEFINE given == [from |-> handled.from, id |-> handled.id, is |-> is]
<1>4. given \in Responses /\ given.id = handled.id /\ given.from = handled.from
  BY <1>1, <1>3 DEF Responses, Requests
<1>5. CASE is = "empty"
  BY <1>1, <1>2, <1>5
<1>6. CASE is # "empty" /\ serving = "stdio"
  <2>1. /\ delivered' = [delivered EXCEPT ![handled.from] = Append(@, given)]
        /\ UNCHANGED <<responder, outcomes>>
    BY <1>2, <1>6
  <2> HIDE DEF given
  <2> QED
    BY <1>1, <1>4, <1>6, <2>1
<1>7. CASE is # "empty" /\ serving = "sse"
  <2>1. /\ outcomes' = IF responder.id = NoId THEN outcomes
                       ELSE outcomes \cup {[given EXCEPT !.from = responder.from]}
        /\ responder' = Idle /\ UNCHANGED delivered
    BY <1>2, <1>7
  <2> HIDE DEF given
  <2> QED
    BY <1>1, <1>4, <1>7, <2>1
<1> QED
  BY <1>1, <1>5, <1>6, <1>7

\* A task hands its answer over, or loses it.
LEMMA Responding ==
  ASSUME RespondOrErrorOnClose
  PROVE  /\ UNCHANGED <<serving, posted, inbox, handled, responder>>
         /\ \E verdict \in outcomes :
               /\ outcomes' = outcomes \ {verdict}
               /\ delivered' \in {delivered, [delivered EXCEPT ![verdict.from] = Append(@, verdict)]}
  BY DEF RespondOrErrorOnClose, setting

\* The other steps are of sessions.
SessionStep == \E c \in Peers : CheckConnections(c) \/ OpenSession(c) \/ ExpireSession(c)
LEMMA SessionSteps ==
  ASSUME SessionStep \/ UNCHANGED mcpServerVars
  PROVE  UNCHANGED <<serving, posted, inbox, handled, responder, outcomes, delivered>>
  BY DEF SessionStep, CheckConnections, OpenSession, ExpireSession, mcpServerVars, setting

LEMMA ServerSteps ==
  ASSUME [McpServerNext]_mcpServerVars
  PROVE  \/ \E c \in Peers : Post(c)
         \/ Recv \/ HandleRequest \/ RespondOrErrorOnClose
         \/ UNCHANGED <<serving, posted, inbox, handled, responder, outcomes, delivered>>
  BY SessionSteps DEF McpServerNext, SessionStep

LEMMA DroppedTypes ==
  ASSUME NEW req \in Requests \cup {Idle}
  PROVE  /\ Dropped(req) \subseteq Responses
         /\ \A o \in Dropped(req) : o.from = req.from /\ o.id = req.id /\ o.id # NoId
         /\ \A o, p \in Dropped(req) : o = p
<1>1. req.id # NoId => req \in Requests
  BY IdleIsNone
<1> QED
  BY <1>1 DEF Dropped, Responses, Requests

LEMMA Renamed ==
  ASSUME NEW given \in Responses, NEW c \in Peers
  PROVE  /\ [given EXCEPT !.from = c] \in Responses
         /\ [given EXCEPT !.from = c].from = c /\ [given EXCEPT !.from = c].id = given.id
  BY DEF Responses

LEMMA ServerTypesStep ==
  ASSUME McpServerTypes, [McpServerNext]_mcpServerVars
  PROVE  McpServerTypes'
<1>0. /\ serving \in {"sse", "stdio"} /\ posted \in [Peers -> Nat] /\ inbox \in Seq(Requests)
      /\ handled \in Requests \cup {Idle} /\ handled.ask # "garbage" /\ responder \in Requests \cup {Idle}
      /\ outcomes \subseteq Responses /\ delivered \in [Peers -> Seq(Responses)]
  BY DEF McpServerTypes
<1>1. ASSUME NEW c \in Peers, Post(c) PROVE McpServerTypes'
  <2>1. PICK req \in Requests :
            /\ inbox' = Append(inbox, req)
            /\ posted' = [posted EXCEPT ![c] = @ + 1]
            /\ UNCHANGED <<serving, handled, responder, outcomes, delivered>>
    BY <1>1, Posting
  <2>2. inbox' \in Seq(Requests) /\ posted' \in [Peers -> Nat]
    BY <1>0, <2>1
  <2> QED
    BY <1>0, <2>1, <2>2 DEF McpServerTypes
<1>2. CASE Recv
  <2>0. inbox # <<>> /\ inbox' = Tail(inbox) /\ Head(inbox) \in Requests
        /\ UNCHANGED <<serving, posted, delivered>>
    BY <1>2, Receiving
  <2>1. inbox' \in Seq(Requests)
    BY <1>0, <2>0
  <2>2. handled' \in Requests \cup {Idle} /\ handled'.ask # "garbage"
    <3>1. handled' = handled \/ (handled' = Head(inbox) /\ Head(inbox).ask # "garbage")
      BY <1>2, Receiving
    <3> QED
      BY <1>0, <2>0, <3>1
  <2>3. responder' \in Requests \cup {Idle} /\ outcomes' \subseteq Responses
    BY <1>0, <1>2, Receiving, DroppedTypes
  <2> QED
    BY <1>0, <2>0, <2>1, <2>2, <2>3 DEF McpServerTypes
<1>3. CASE HandleRequest
  <2>1. handled \in Requests /\ handled' = Idle /\ UNCHANGED <<serving, posted, inbox>>
    BY <1>3, Handling
  <2>2. /\ responder' \in Requests \cup {Idle} /\ outcomes' \subseteq Responses
        /\ delivered' \in [Peers -> Seq(Responses)]
    <3>1. CASE UNCHANGED <<responder, outcomes, delivered>>
      BY <1>0, <3>1
    <3>2. CASE ~UNCHANGED <<responder, outcomes, delivered>>
      <4>1. PICK given \in Responses :
               \/ /\ serving = "stdio" /\ UNCHANGED <<responder, outcomes>>
                  /\ delivered' = [delivered EXCEPT ![handled.from] = Append(@, given)]
               \/ /\ serving = "sse" /\ responder' = Idle /\ UNCHANGED delivered
                  /\ outcomes' = outcomes \/ (/\ outcomes' = outcomes \cup {[given EXCEPT !.from = responder.from]}
                                              /\ responder.id # NoId)
        BY <1>3, <3>2, Handling
      <4>2. CASE serving = "stdio"
        <5>1. handled.from \in Peers
          BY <2>1 DEF Requests
        <5>2. /\ delivered' = [delivered EXCEPT ![handled.from] = Append(@, given)]
              /\ responder' = responder /\ outcomes' = outcomes
          BY <4>1, <4>2
        <5>3. Append(delivered[handled.from], given) \in Seq(Responses)
          BY <1>0, <5>1
        <5> QED
          BY <1>0, <5>1, <5>2, <5>3
      <4>3. CASE serving = "sse"
        <5>1. responder.id # NoId => responder.from \in Peers
          BY <1>0, IdleIsNone DEF Requests
        <5>2. responder.id # NoId => [given EXCEPT !.from = responder.from] \in Responses
          BY <5>1, Renamed
        <5> QED
          BY <1>0, <4>1, <4>3, <5>2
      <4> QED
        BY <1>0, <4>2, <4>3
    <3> QED
      BY <3>1, <3>2
  <2>3. handled'.ask # "garbage"
    BY <2>1 DEF Idle
  <2> QED
    BY <1>0, <2>1, <2>2, <2>3 DEF McpServerTypes
<1>4. CASE RespondOrErrorOnClose
  <2>1. PICK verdict \in outcomes :
           /\ outcomes' = outcomes \ {verdict}
           /\ delivered' \in {delivered, [delivered EXCEPT ![verdict.from] = Append(@, verdict)]}
    BY <1>4, Responding
  <2>2. delivered' \in [Peers -> Seq(Responses)] /\ outcomes' \subseteq Responses
    <3>1. verdict \in Responses /\ verdict.from \in Peers
      BY <1>0 DEF Responses
    <3>2. Append(delivered[verdict.from], verdict) \in Seq(Responses)
      BY <1>0, <3>1
    <3> QED
      BY <1>0, <2>1, <3>2
  <2> QED
    BY <1>0, <1>4, <2>2, Responding DEF McpServerTypes
<1>5. CASE UNCHANGED <<serving, posted, inbox, handled, responder, outcomes, delivered>>
  BY <1>0, <1>5 DEF McpServerTypes
<1> QED
  BY <1>1, <1>2, <1>3, <1>4, <1>5, ServerSteps

\* Where an answer may go in one step.
Moves(c, id) ==
    /\ Queued(c, id)' => Queued(c, id) \/ (id > posted[c] /\ id <= posted'[c])
    /\ InLoop(c, id)' => InLoop(c, id) \/ (Queued(c, id) /\ ~Queued(c, id)')
    /\ Owed(c, id)' => Owed(c, id) \/ (InLoop(c, id) /\ ~InLoop(c, id)')
    /\ Received(c, id)' => \/ Received(c, id)
                           \/ Owed(c, id) /\ ~Owed(c, id)'
                           \/ InLoop(c, id) /\ ~InLoop(c, id)' /\ ~Owed(c, id)'
    /\ posted'[c] >= posted[c]

LEMMA QueueFacts ==
  ASSUME McpServerTypes, inbox # <<>>, inbox' = Tail(inbox)
  PROVE  /\ 1 \in DOMAIN inbox /\ Head(inbox) = inbox[1]
         /\ \A i \in DOMAIN inbox' : i + 1 \in DOMAIN inbox /\ inbox'[i] = inbox[i + 1] /\ i + 1 # 1
         /\ \A i, j \in DOMAIN inbox' : i # j => i + 1 # j + 1
<1>1. inbox \in Seq(Requests) /\ Len(inbox) \in Nat
  BY DEF McpServerTypes
<1>2. DOMAIN inbox = 1..Len(inbox) /\ Len(inbox) > 0 /\ Len(inbox') = Len(inbox) - 1
      /\ DOMAIN inbox' = 1..(Len(inbox) - 1)
  BY <1>1
<1> QED
  BY <1>1, <1>2

LEMMA HeadLeaves ==
  ASSUME McpServerTypes, QueuedOnce, Recv, NEW c \in Peers, NEW id \in Nat, id # NoId
  PROVE  /\ Queued(c, id)' => Queued(c, id)
         /\ Head(inbox).from = c /\ Head(inbox).id = id => Queued(c, id) /\ ~Queued(c, id)'
<1>1. inbox # <<>> /\ inbox' = Tail(inbox)
  BY Receiving
<1>2. /\ 1 \in DOMAIN inbox /\ Head(inbox) = inbox[1]
      /\ \A i \in DOMAIN inbox' : i + 1 \in DOMAIN inbox /\ inbox'[i] = inbox[i + 1] /\ i + 1 # 1
  BY <1>1, QueueFacts
<1>3. Queued(c, id)' => Queued(c, id)
  BY <1>2 DEF Queued
<1>4. ASSUME Head(inbox).from = c, Head(inbox).id = id PROVE Queued(c, id) /\ ~Queued(c, id)'
  <2>1. Queued(c, id)
    BY <1>2, <1>4 DEF Queued
  <2>2. \A i \in DOMAIN inbox' : ~(inbox'[i].from = c /\ inbox'[i].id = id)
    BY <1>2, <1>4 DEF QueuedOnce
  <2> QED
    BY <2>1, <2>2 DEF Queued
<1> QED
  BY <1>3, <1>4

\* A client is given one more response.
LEMMA Delivering ==
  ASSUME delivered \in [Peers -> Seq(Responses)], NEW d \in Peers, NEW given \in Responses,
         delivered' = [delivered EXCEPT ![d] = Append(@, given)], NEW c \in Peers
  PROVE  \A i \in DOMAIN delivered'[c] :
            \/ i \in DOMAIN delivered[c] /\ delivered'[c][i] = delivered[c][i]
            \/ /\ c = d /\ delivered'[c][i] = given /\ i = Len(delivered[c]) + 1
               /\ i \notin DOMAIN delivered[c]
<1>1. CASE c # d
  BY <1>1
<1>2. CASE c = d
  <2>1. PICK s \in Seq(Responses) : s = delivered[c]
    OBVIOUS
  <2>2. delivered'[c] = Append(s, given)
    BY <1>2, <2>1
  <2>3. \A i \in DOMAIN Append(s, given) :
           \/ i \in DOMAIN s /\ Append(s, given)[i] = s[i]
           \/ Append(s, given)[i] = given /\ i = Len(s) + 1 /\ i \notin DOMAIN s
    OBVIOUS
  <2> QED
    BY <1>2, <2>1, <2>2, <2>3
<1> QED
  BY <1>1, <1>2

LEMMA AnswersMove ==
  ASSUME McpServerIInv, [McpServerNext]_mcpServerVars, NEW c \in Peers, NEW id \in Nat, id # NoId
  PROVE  Moves(c, id)
<1>0. /\ serving \in {"sse", "stdio"} /\ posted \in [Peers -> Nat] /\ inbox \in Seq(Requests)
      /\ handled \in Requests \cup {Idle} /\ responder \in Requests \cup {Idle}
      /\ outcomes \subseteq Responses /\ delivered \in [Peers -> Seq(Responses)]
      /\ McpServerTypes /\ QueuedOnce /\ ChannelIsHandled
  BY DEF McpServerIInv, McpServerTypes
<1>1. ASSUME NEW d \in Peers, Post(d) PROVE Moves(c, id)
  <2>1. PICK req \in Requests :
            /\ inbox' = Append(inbox, req) /\ req.from = d
            /\ req.id = NoId \/ req.id = posted[d] + 1
            /\ posted' = [posted EXCEPT ![d] = @ + 1]
            /\ UNCHANGED <<serving, handled, responder, outcomes, delivered>>
    BY <1>0, <1>1, Posting
  <2>2. \A i \in DOMAIN inbox' : inbox'[i] = req \/ (i \in DOMAIN inbox /\ inbox'[i] = inbox[i])
    BY <1>0, <2>1
  <2>3. posted'[c] >= posted[c] /\ (c = d => posted'[c] = posted[c] + 1) /\ posted[c] \in Nat
    BY <1>0, <2>1
  <2>4. Queued(c, id)' => Queued(c, id) \/ (id > posted[c] /\ id <= posted'[c])
    BY <2>1, <2>2, <2>3 DEF Queued
  <2>5. /\ InLoop(c, id)' = InLoop(c, id) /\ Owed(c, id)' = Owed(c, id) /\ Received(c, id)' = Received(c, id)
    BY <2>1 DEF InLoop, Current, Owed, Received
  <2> QED
    BY <2>3, <2>4, <2>5 DEF Moves
<1>2. CASE Recv
  <2>1. /\ Queued(c, id)' => Queued(c, id)
        /\ Head(inbox).from = c /\ Head(inbox).id = id => Queued(c, id) /\ ~Queued(c, id)'
    BY <1>0, <1>2, HeadLeaves
  <2>2. UNCHANGED <<serving, posted, delivered>> /\ handled = Idle
    BY <1>0, <1>2, Receiving
  <2>3. CASE UNCHANGED <<handled, responder, outcomes>>
    BY <1>0, <2>1, <2>2, <2>3 DEF Moves, InLoop, Current, Owed, Received
  <2>4. CASE handled' = Head(inbox) /\ serving = "stdio" /\ UNCHANGED <<responder, outcomes>>
    BY <1>0, <2>1, <2>2, <2>4 DEF Moves, InLoop, Current, Owed, Received
  <2>5. CASE serving = "sse" /\ responder' = Head(inbox) /\ outcomes' = outcomes \cup Dropped(responder)
    <3>1. InLoop(c, id)' <=> Head(inbox).from = c /\ Head(inbox).id = id
      BY <2>2, <2>5 DEF InLoop, Current
    <3>2. Owed(c, id)' => Owed(c, id) \/ InLoop(c, id)
      BY <1>0, <2>5, DroppedTypes DEF Owed, InLoop, Current
    <3>3. Received(c, id)' = Received(c, id)
      BY <2>2 DEF Received
    <3>4. InLoop(c, id) => ~Queued(c, id)
      BY DEF McpServerIInv, OnePlace
    <3> QED
      BY <1>0, <2>1, <2>2, <3>1, <3>2, <3>3, <3>4 DEF Moves
  <2> QED
    BY <1>0, <1>2, <2>3, <2>4, <2>5, Receiving
<1>3. CASE HandleRequest
  <2>1. handled \in Requests /\ handled' = Idle /\ UNCHANGED <<serving, posted, inbox>> /\ handled # Idle
    BY <1>3, <1>0, Handling, IdleIsNone
  <2>2. Queued(c, id)' = Queued(c, id) /\ posted'[c] >= posted[c]
    BY <1>0, <2>1 DEF Queued
  <2>3. CASE UNCHANGED <<responder, outcomes, delivered>>
    BY <1>0, <2>1, <2>2, <2>3, IdleIsNone DEF Moves, InLoop, Current, Owed, Received
  <2>4. CASE ~UNCHANGED <<responder, outcomes, delivered>>
    <3>1. PICK given \in Responses :
             /\ given.id = handled.id
             /\ \/ /\ serving = "stdio" /\ UNCHANGED <<responder, outcomes>>
                   /\ given.from = handled.from
                   /\ delivered' = [delivered EXCEPT ![handled.from] = Append(@, given)]
                \/ /\ serving = "sse" /\ responder' = Idle /\ UNCHANGED delivered
                   /\ outcomes' = outcomes \/ (/\ outcomes' = outcomes \cup {[given EXCEPT !.from = responder.from]}
                                               /\ responder.id # NoId)
      BY <1>0, <1>3, <2>4, Handling
    <3>2. ~InLoop(c, id)'
      BY <2>1, <3>1, IdleIsNone DEF InLoop, Current
    <3>3. CASE serving = "stdio"
      <4>1. Owed(c, id)' = Owed(c, id)
        BY <3>1, <3>3 DEF Owed
      <4>2. handled.from \in Peers
        BY <2>1 DEF Requests
      <4>3. \A i \in DOMAIN delivered'[c] : \/ i \in DOMAIN delivered[c] /\ delivered'[c][i] = delivered[c][i]
                                            \/ c = handled.from /\ delivered'[c][i] = given
        <5>1. delivered' = [delivered EXCEPT ![handled.from] = Append(@, given)]
          BY <3>1, <3>3
        <5> QED
          BY <1>0, <4>2, <5>1, Delivering
      <4>4. Received(c, id)' => Received(c, id) \/ InLoop(c, id)
        BY <3>1, <3>3, <4>3 DEF Received, InLoop, Current
      <4>5. InLoop(c, id) => ~Owed(c, id)
        BY DEF McpServerIInv, OnePlace
      <4> QED
        BY <2>2, <3>2, <4>1, <4>4, <4>5 DEF Moves
    <3>4. CASE serving = "sse"
      <4>1. responder = handled
        BY <1>0, <2>1, <3>4 DEF ChannelIsHandled
      <4>2. handled.from \in Peers
        BY <2>1 DEF Requests
      <4>3. \A o \in outcomes' : o \in outcomes \/ (o.from = handled.from /\ o.id = handled.id)
        <5>1. CASE outcomes' = outcomes
          BY <5>1
        <5>2. CASE outcomes' = outcomes \cup {[given EXCEPT !.from = responder.from]}
          <6>1. responder.from \in Peers /\ responder.from = handled.from
            BY <4>1, <4>2
          <6>2. PICK e : e = [given EXCEPT !.from = responder.from]
            OBVIOUS
          <6>3. e.from = responder.from /\ e.id = given.id
            BY <6>1, <6>2, Renamed
          <6> QED
            BY <3>1, <5>2, <6>1, <6>2, <6>3
        <5> QED
          BY <3>1, <3>4, <5>1, <5>2
      <4>4. Owed(c, id)' => Owed(c, id) \/ InLoop(c, id)
        BY <3>4, <4>1, <4>3 DEF Owed, InLoop, Current
      <4>5. Received(c, id)' = Received(c, id)
        BY <3>1, <3>4 DEF Received
      <4> QED
        BY <2>2, <3>2, <4>4, <4>5 DEF Moves
    <3> QED
      BY <1>0, <3>3, <3>4
  <2> QED
    BY <2>3, <2>4
<1>4. CASE RespondOrErrorOnClose
  <2>1. UNCHANGED <<serving, posted, inbox, handled, responder>>
    BY <1>4, Responding
  <2>2. PICK verdict \in outcomes :
           /\ outcomes' = outcomes \ {verdict}
           /\ delivered' \in {delivered, [delivered EXCEPT ![verdict.from] = Append(@, verdict)]}
    BY <1>4, Responding
  <2>3. verdict.from \in Peers
    BY <1>0 DEF Responses
  <2>4. \A i \in DOMAIN delivered'[c] : \/ i \in DOMAIN delivered[c] /\ delivered'[c][i] = delivered[c][i]
                                        \/ c = verdict.from /\ delivered'[c][i] = verdict
    <3>1. delivered' = delivered \/ delivered' = [delivered EXCEPT ![verdict.from] = Append(@, verdict)]
      BY <2>2
    <3> QED
      <4>1. CASE delivered' = delivered
        BY <4>1
      <4>2. CASE delivered' = [delivered EXCEPT ![verdict.from] = Append(@, verdict)]
        BY <1>0, <2>3, <4>2, Delivering
      <4> QED
        BY <3>1, <4>1, <4>2
  <2>5. verdict.from = c /\ verdict.id = id => Owed(c, id) /\ ~Owed(c, id)'
    BY <2>2 DEF McpServerIInv, OwedOnce, Owed
  <2>6. Owed(c, id)' => Owed(c, id)
    BY <2>2 DEF Owed
  <2>7. Received(c, id)' => Received(c, id) \/ (verdict.from = c /\ verdict.id = id)
    BY <2>4 DEF Received
  <2>8. Queued(c, id)' = Queued(c, id) /\ InLoop(c, id)' = InLoop(c, id) /\ posted'[c] >= posted[c]
    BY <1>0, <2>1 DEF Queued, InLoop, Current
  <2> QED
    BY <2>5, <2>6, <2>7, <2>8 DEF Moves
<1>5. CASE UNCHANGED <<serving, posted, inbox, handled, responder, outcomes, delivered>>
  <2>1. /\ Queued(c, id)' = Queued(c, id) /\ InLoop(c, id)' = InLoop(c, id)
        /\ Owed(c, id)' = Owed(c, id) /\ Received(c, id)' = Received(c, id) /\ posted'[c] >= posted[c]
    BY <1>0, <1>5 DEF Queued, InLoop, Current, Owed, Received
  <2> QED
    BY <2>1 DEF Moves
<1> QED
  BY <1>1, <1>2, <1>3, <1>4, <1>5, ServerSteps

-----------------------------------------------------------------------------
(* The invariant is inductive.                                              *)

LEMMA PlacesStep ==
  ASSUME McpServerIInv, [McpServerNext]_mcpServerVars
  PROVE  OnePlace' /\ IdsPosted'
<1>1. ASSUME NEW c \in Peers, NEW id \in Nat, id # NoId
      PROVE  /\ Queued(c, id)' => ~InLoop(c, id)' /\ ~Owed(c, id)' /\ ~Received(c, id)'
             /\ InLoop(c, id)' => ~Owed(c, id)' /\ ~Received(c, id)'
             /\ Owed(c, id)' => ~Received(c, id)'
             /\ id > posted'[c] => ~Queued(c, id)' /\ ~InLoop(c, id)' /\ ~Owed(c, id)' /\ ~Received(c, id)'
  <2>1. Moves(c, id)
    BY <1>1, AnswersMove
  <2>2. /\ Queued(c, id) => ~InLoop(c, id) /\ ~Owed(c, id) /\ ~Received(c, id)
        /\ InLoop(c, id) => ~Owed(c, id) /\ ~Received(c, id)
        /\ Owed(c, id) => ~Received(c, id)
        /\ id > posted[c] => ~Queued(c, id) /\ ~InLoop(c, id) /\ ~Owed(c, id) /\ ~Received(c, id)
    BY <1>1 DEF McpServerIInv, OnePlace, IdsPosted
  <2>3. posted[c] \in Nat /\ posted'[c] \in Nat
    BY ServerTypesStep DEF McpServerIInv, McpServerTypes
  <2>4. id > posted'[c] => id > posted[c] /\ ~(id <= posted'[c])
    BY <2>1, <2>3 DEF Moves
  <2>5. /\ Queued(c, id)' => Queued(c, id) \/ (id > posted[c] /\ id <= posted'[c])
        /\ InLoop(c, id)' => InLoop(c, id) \/ (Queued(c, id) /\ ~Queued(c, id)')
        /\ Owed(c, id)' => Owed(c, id) \/ (InLoop(c, id) /\ ~InLoop(c, id)')
        /\ Received(c, id)' => \/ Received(c, id)
                               \/ Owed(c, id) /\ ~Owed(c, id)'
                               \/ InLoop(c, id) /\ ~InLoop(c, id)' /\ ~Owed(c, id)'
    BY <2>1, Zenon DEF Moves
  <2> QED
    BY <2>2, <2>4, <2>5, Zenon
<1>2. OnePlace'
  BY <1>1 DEF OnePlace
<1>3. IdsPosted'
  BY <1>1 DEF IdsPosted
<1> QED
  BY <1>2, <1>3

LEMMA ChannelStep ==
  ASSUME McpServerIInv, [McpServerNext]_mcpServerVars
  PROVE  ChannelIsHandled'
<1>0. McpServerTypes /\ ChannelIsHandled /\ serving \in {"sse", "stdio"}
  BY DEF McpServerIInv, McpServerTypes
<1>1. ASSUME NEW d \in Peers, Post(d) PROVE ChannelIsHandled'
  BY <1>0, <1>1, Posting DEF ChannelIsHandled
<1>2. CASE Recv
  BY <1>0, <1>2, Receiving DEF ChannelIsHandled
<1>3. CASE HandleRequest
  <2>1. handled' = Idle /\ serving' = serving
    BY <1>0, <1>3, Handling
  <2>2. serving = "stdio" => outcomes' = outcomes
    BY <1>0, <1>3, Handling
  <2> QED
    BY <1>0, <2>1, <2>2 DEF ChannelIsHandled
<1>4. CASE RespondOrErrorOnClose
  <2>1. UNCHANGED <<serving, handled, responder>> /\ outcomes # {}
    BY <1>4, Responding
  <2> QED
    BY <1>0, <2>1 DEF ChannelIsHandled
<1>5. CASE UNCHANGED <<serving, posted, inbox, handled, responder, outcomes, delivered>>
  BY <1>0, <1>5 DEF ChannelIsHandled
<1> QED
  BY <1>1, <1>2, <1>3, <1>4, <1>5, ServerSteps

LEMMA QueueStep ==
  ASSUME McpServerIInv, [McpServerNext]_mcpServerVars
  PROVE  QueuedOnce'
<1>0. McpServerTypes /\ QueuedOnce /\ inbox \in Seq(Requests) /\ posted \in [Peers -> Nat]
  BY DEF McpServerIInv, McpServerTypes
<1>1. ASSUME NEW d \in Peers, Post(d) PROVE QueuedOnce'
  <2>1. PICK req \in Requests :
            /\ inbox' = Append(inbox, req) /\ req.from = d
            /\ req.id = NoId \/ req.id = posted[d] + 1
    BY <1>0, <1>1, Posting
  <2>2. \A i \in DOMAIN inbox' : \/ i \in DOMAIN inbox /\ inbox'[i] = inbox[i]
                                 \/ i = Len(inbox) + 1 /\ inbox'[i] = req
    BY <1>0, <2>1
  <2>3. \A i \in DOMAIN inbox : inbox[i].from = d /\ inbox[i].id # NoId => inbox[i].id # posted[d] + 1
    <3>1. SUFFICES ASSUME NEW i \in DOMAIN inbox, inbox[i].from = d, inbox[i].id = posted[d] + 1
                   PROVE  FALSE
      OBVIOUS
    <3>2. posted[d] \in Nat /\ posted[d] + 1 \in Nat /\ posted[d] + 1 # NoId /\ posted[d] + 1 > posted[d]
      BY <1>0 DEF NoId
    <3>3. Queued(d, posted[d] + 1)
      BY <3>1 DEF Queued
    <3> QED
      BY <3>2, <3>3 DEF McpServerIInv, IdsPosted
  <2>4. \A i \in DOMAIN inbox : inbox[i].from = d => inbox[i].id = NoId \/ inbox[i].id # req.id
    BY <2>1, <2>3
  <2> SUFFICES ASSUME NEW i \in DOMAIN inbox', NEW j \in DOMAIN inbox', i # j,
                      inbox'[i].id # NoId, inbox'[i].from = inbox'[j].from
               PROVE  inbox'[i].id # inbox'[j].id
    BY DEF QueuedOnce
  <2>5. CASE i \in DOMAIN inbox /\ inbox'[i] = inbox[i] /\ j \in DOMAIN inbox /\ inbox'[j] = inbox[j]
    BY <1>0, <2>5 DEF QueuedOnce
  <2>6. CASE i \in DOMAIN inbox /\ inbox'[i] = inbox[i] /\ inbox'[j] = req
    BY <2>1, <2>4, <2>6
  <2>7. CASE j \in DOMAIN inbox /\ inbox'[j] = inbox[j] /\ inbox'[i] = req
    BY <2>1, <2>4, <2>7
  <2> QED
    BY <2>2, <2>5, <2>6, <2>7
<1>2. CASE Recv
  <2>1. inbox # <<>> /\ inbox' = Tail(inbox)
    BY <1>0, <1>2, Receiving
  <2>2. /\ \A i \in DOMAIN inbox' : i + 1 \in DOMAIN inbox /\ inbox'[i] = inbox[i + 1]
        /\ \A i, j \in DOMAIN inbox' : i # j => i + 1 # j + 1
    BY <1>0, <2>1, QueueFacts
  <2> QED
    BY <1>0, <2>2 DEF QueuedOnce
<1>3. CASE inbox' = inbox
  BY <1>0, <1>3 DEF QueuedOnce
<1>4. CASE HandleRequest \/ RespondOrErrorOnClose
  BY <1>0, <1>3, <1>4, Handling, Responding
<1> QED
  BY <1>1, <1>2, <1>3, <1>4, ServerSteps

LEMMA OwedStep ==
  ASSUME McpServerIInv, [McpServerNext]_mcpServerVars
  PROVE  OwedOnce'
<1>0. /\ McpServerTypes /\ OwedOnce /\ OnePlace /\ ChannelIsHandled /\ serving \in {"sse", "stdio"}
      /\ responder \in Requests \cup {Idle} /\ outcomes \subseteq Responses
  BY DEF McpServerIInv, McpServerTypes
<1>1. CASE outcomes' \subseteq outcomes
  BY <1>0, <1>1 DEF OwedOnce
<1>2. ASSUME serving = "sse", NEW more, outcomes' = outcomes \cup more,
             \A o \in more : o.from = responder.from /\ o.id = responder.id /\ o.id # NoId,
             \A o, p \in more : o = p
      PROVE  OwedOnce'
  <2>1. CASE more = {}
    BY <1>1, <1>2, <2>1
  <2>2. CASE more # {}
    <3>1. responder \in Requests /\ responder.id # NoId
      BY <1>0, <1>2, <2>2, IdleIsNone
    <3>2. responder.from \in Peers /\ responder.id \in Nat
      BY <3>1 DEF Requests
    <3>3. InLoop(responder.from, responder.id)
      BY <1>2 DEF InLoop, Current
    <3>4. ~Owed(responder.from, responder.id)
      BY <1>0, <3>1, <3>2, <3>3 DEF OnePlace
    <3>5. \A o \in outcomes : ~(o.from = responder.from /\ o.id = responder.id)
      BY <3>4 DEF Owed
    <3> QED
      BY <1>0, <1>2, <3>5 DEF OwedOnce
  <2> QED
    BY <2>1, <2>2
<1>3. CASE Recv
  <2>1. outcomes' = outcomes \/ (serving = "sse" /\ outcomes' = outcomes \cup Dropped(responder))
    BY <1>0, <1>3, Receiving
  <2>2. /\ \A o \in Dropped(responder) : o.from = responder.from /\ o.id = responder.id /\ o.id # NoId
        /\ \A o, p \in Dropped(responder) : o = p
    BY <1>0, DroppedTypes
  <2> QED
    BY <1>1, <1>2, <2>1, <2>2
<1>4. CASE HandleRequest
  <2>1. CASE outcomes' = outcomes
    BY <1>1, <2>1
  <2>2. CASE outcomes' # outcomes
    <3>1. PICK given \in Responses :
             /\ given.id = handled.id /\ serving = "sse" /\ responder.id # NoId
             /\ outcomes' = outcomes \cup {[given EXCEPT !.from = responder.from]}
      BY <1>0, <1>4, <2>2, Handling
    <3>2. responder = handled /\ responder \in Requests
      BY <1>0, <1>4, <3>1, Handling, IdleIsNone DEF ChannelIsHandled
    <3>3. PICK e : e = [given EXCEPT !.from = responder.from]
      OBVIOUS
    <3>4. responder.from \in Peers
      BY <3>2 DEF Requests
    <3>5. e.from = responder.from /\ e.id = responder.id /\ e.id # NoId
      BY <3>1, <3>2, <3>3, <3>4, Renamed
    <3> QED
      <4>1. PICK more : more = {e}
        OBVIOUS
      <4>2. outcomes' = outcomes \cup more
        BY <3>1, <3>3, <4>1
      <4>3. /\ \A o \in more : o.from = responder.from /\ o.id = responder.id /\ o.id # NoId
            /\ \A o, p \in more : o = p
        BY <3>5, <4>1
      <4> QED
        BY <1>2, <3>1, <4>2, <4>3
  <2> QED
    BY <2>1, <2>2
<1>5. CASE RespondOrErrorOnClose
  BY <1>1, <1>5, Responding
<1>6. ASSUME NEW d \in Peers, Post(d) PROVE OwedOnce'
  BY <1>0, <1>1, <1>6, Posting
<1> QED
  BY <1>1, <1>3, <1>4, <1>5, <1>6, ServerSteps

\* A client that is given one more answer, its own and new to it, has its own answers once.
LEMMA GivenOneMore ==
  ASSUME McpServerIInv, NEW d \in Peers, NEW given \in Responses,
         delivered' = [delivered EXCEPT ![d] = Append(@, given)], UNCHANGED <<serving, posted>>,
         given.from = d, serving = "sse" => given.id \in 1..posted[d],
         given.id # NoId => ~Received(d, given.id)
  PROVE  AnsweredOnceToAsker'
<1>0. AnsweredOnceToAsker /\ delivered \in [Peers -> Seq(Responses)]
  BY DEF McpServerIInv, McpServerTypes
<1> SUFFICES ASSUME NEW c \in Peers
             PROVE  /\ \A i \in DOMAIN delivered'[c] : delivered'[c][i].from = c
                                                     /\ (serving = "sse" => delivered'[c][i].id \in 1..posted[c])
                    /\ \A i, j \in DOMAIN delivered'[c] : i # j /\ delivered'[c][i].id # NoId
                                                     => delivered'[c][i].id # delivered'[c][j].id
  BY DEF AnsweredOnceToAsker
<1>1. /\ \A i \in DOMAIN delivered[c] : delivered[c][i].from = c
                                      /\ (serving = "sse" => delivered[c][i].id \in 1..posted[c])
      /\ \A i, j \in DOMAIN delivered[c] : i # j /\ delivered[c][i].id # NoId
                                      => delivered[c][i].id # delivered[c][j].id
  BY <1>0 DEF AnsweredOnceToAsker
<1>2. \A i \in DOMAIN delivered'[c] :
         \/ i \in DOMAIN delivered[c] /\ delivered'[c][i] = delivered[c][i]
         \/ c = d /\ delivered'[c][i] = given /\ i = Len(delivered[c]) + 1
  BY <1>0, Delivering
<1>3. c = d /\ given.id # NoId => \A i \in DOMAIN delivered[c] : delivered[c][i].id # given.id
  BY DEF Received
<1>4. \A i \in DOMAIN delivered'[c] : delivered'[c][i].from = c
                                   /\ (serving = "sse" => delivered'[c][i].id \in 1..posted[c])
  BY <1>1, <1>2
<1>5. ASSUME NEW i \in DOMAIN delivered'[c], NEW j \in DOMAIN delivered'[c], i # j, delivered'[c][i].id # NoId
      PROVE  delivered'[c][i].id # delivered'[c][j].id
  <2>1. CASE /\ i \in DOMAIN delivered[c] /\ delivered'[c][i] = delivered[c][i]
             /\ j \in DOMAIN delivered[c] /\ delivered'[c][j] = delivered[c][j]
    BY <1>1, <1>5, <2>1
  <2>2. CASE /\ i \in DOMAIN delivered[c] /\ delivered'[c][i] = delivered[c][i]
             /\ c = d /\ delivered'[c][j] = given
    BY <1>3, <1>5, <2>2
  <2>3. CASE /\ j \in DOMAIN delivered[c] /\ delivered'[c][j] = delivered[c][j]
             /\ c = d /\ delivered'[c][i] = given
    BY <1>3, <1>5, <2>3
  <2> QED
    BY <1>2, <1>5, <2>1, <2>2, <2>3
<1> QED
  BY <1>4, <1>5

LEMMA AnsweredStep ==
  ASSUME McpServerIInv, [McpServerNext]_mcpServerVars
  PROVE  AnsweredOnceToAsker'
<1>0. /\ McpServerTypes /\ AnsweredOnceToAsker /\ OnePlace /\ IdsPosted /\ OwedOnce /\ ChannelIsHandled
      /\ serving \in {"sse", "stdio"} /\ posted \in [Peers -> Nat]
      /\ outcomes \subseteq Responses /\ delivered \in [Peers -> Seq(Responses)]
  BY DEF McpServerIInv, McpServerTypes
<1>1. CASE UNCHANGED <<serving, delivered, posted>>
  BY <1>0, <1>1 DEF AnsweredOnceToAsker
<1>2. ASSUME NEW d \in Peers, Post(d) PROVE AnsweredOnceToAsker'
  <2>1. UNCHANGED <<serving, delivered>> /\ posted' = [posted EXCEPT ![d] = @ + 1]
    BY <1>0, <1>2, Posting
  <2>2. \A c \in Peers : posted[c] \in Nat /\ posted'[c] \in Nat /\ posted'[c] >= posted[c]
    BY <1>0, <2>1
  <2>3. \A c \in Peers : 1..posted[c] \subseteq 1..posted'[c]
    BY <2>2
  <2> QED
    BY <1>0, <2>1, <2>3 DEF AnsweredOnceToAsker
<1>3. CASE Recv
  BY <1>0, <1>1, <1>3, Receiving
<1>4. CASE HandleRequest
  <2>1. handled \in Requests /\ UNCHANGED <<serving, posted>>
    BY <1>0, <1>4, Handling
  <2>2. CASE delivered' = delivered
    BY <1>1, <2>1, <2>2
  <2>3. CASE delivered' # delivered
    <3>1. PICK given \in Responses :
             /\ given.id = handled.id /\ serving = "stdio" /\ given.from = handled.from
             /\ delivered' = [delivered EXCEPT ![handled.from] = Append(@, given)]
      BY <1>0, <1>4, <2>3, Handling
    <3>2. handled.from \in Peers /\ handled.id \in Nat
      BY <2>1 DEF Requests
    <3>3. InLoop(handled.from, handled.id)
      BY <3>1 DEF InLoop, Current
    <3>4. given.id # NoId => ~Received(handled.from, given.id)
      BY <1>0, <3>1, <3>2, <3>3 DEF OnePlace
    <3>5. PICK d \in Peers : d = handled.from
      BY <3>2
    <3>6. delivered' = [delivered EXCEPT ![d] = Append(@, given)]
      BY <3>1, <3>5
    <3> QED
      BY <2>1, <3>1, <3>4, <3>5, <3>6, GivenOneMore
  <2> QED
    BY <2>2, <2>3
<1>5. CASE RespondOrErrorOnClose
  <2>1. UNCHANGED <<serving, posted>>
    BY <1>5, Responding
  <2>2. PICK verdict \in outcomes :
           delivered' \in {delivered, [delivered EXCEPT ![verdict.from] = Append(@, verdict)]}
    BY <1>5, Responding
  <2>3. CASE delivered' = delivered
    BY <1>1, <2>1, <2>3
  <2>4. CASE delivered' # delivered
    <3>1. PICK d : d = verdict.from
      OBVIOUS
    <3>2. d \in Peers /\ verdict \in Responses /\ verdict.id \in Nat /\ verdict.id # NoId
      BY <1>0, <3>1 DEF Responses, OwedOnce
    <3>3. Owed(d, verdict.id)
      BY <3>1 DEF Owed
    <3>4. ~Received(d, verdict.id) /\ ~(verdict.id > posted[d])
      BY <1>0, <3>2, <3>3 DEF OnePlace, IdsPosted
    <3>5. verdict.id \in 1..posted[d]
      BY <1>0, <3>2, <3>4 DEF NoId
    <3>6. delivered' = [delivered EXCEPT ![d] = Append(@, verdict)]
      BY <2>2, <2>4, <3>1
    <3> QED
      BY <2>1, <3>1, <3>2, <3>4, <3>5, <3>6, GivenOneMore
  <2> QED
    BY <2>3, <2>4
<1> QED
  BY <1>1, <1>2, <1>3, <1>4, <1>5, ServerSteps

LEMMA ServerInvInit == McpServerInit => McpServerIInv
<1> SUFFICES ASSUME McpServerInit PROVE McpServerIInv
  OBVIOUS
<1>1. McpServerTypes
  <2>1. handled.ask # "garbage"
    BY DEF McpServerInit, Idle
  <2>2. posted \in [Peers -> Nat] /\ delivered \in [Peers -> Seq(Responses)] /\ inbox \in Seq(Requests)
    BY DEF McpServerInit
  <2> QED
    BY <2>1, <2>2 DEF McpServerInit, McpServerTypes
<1>2. \A c \in Peers, id \in Nat : id # NoId => ~Queued(c, id) /\ ~InLoop(c, id) /\ ~Owed(c, id) /\ ~Received(c, id)
  BY IdleIsNone DEF McpServerInit, Queued, InLoop, Current, Owed, Received
<1>3. ChannelIsHandled /\ QueuedOnce /\ OwedOnce /\ AnsweredOnceToAsker
  BY DEF McpServerInit, ChannelIsHandled, QueuedOnce, OwedOnce, AnsweredOnceToAsker
<1> QED
  BY <1>1, <1>2, <1>3 DEF McpServerIInv, OnePlace, IdsPosted

LEMMA ServerInvStep == McpServerIInv /\ [McpServerNext]_mcpServerVars => McpServerIInv'
<1> SUFFICES ASSUME McpServerIInv, [McpServerNext]_mcpServerVars PROVE McpServerIInv'
  OBVIOUS
<1> QED
  BY ServerTypesStep, PlacesStep, ChannelStep, QueueStep, OwedStep, AnsweredStep DEF McpServerIInv

\* Whatever is posted by whom, suppressed, dropped or handed over late, a client of the MCP
\* server gets answers to its own requests only, and one to each at most (run_loop and its
\* one current_response_tx, respond_or_error_on_close).
THEOREM AnsweredOnce == McpServerSpec => []AnsweredOnceToAsker
<1>1. McpServerIInv => AnsweredOnceToAsker
  BY DEF McpServerIInv
<1> QED
  BY <1>1, ServerInvInit, ServerInvStep, PTL DEF McpServerSpec
-----------------------------------------------------------------------------
(* The requests of one call.                                                *)

\* What nobody may ask again.
RefusedTask(e) == e.class \in {"refused", "invalid"} /\ ~e.says

AccessTypes ==
    /\ retries \in 0..MaxRetries /\ attempt \in 0..MaxRetries
    /\ posts \in Seq(Failures \cup {Accepted})
    /\ caller \in {"calling", "listening", "pausing", "returned"}
    /\ task \in {"none", "posting", "waiting", "reading", "over"}
    /\ outcome # "none" => caller = "returned"

\* The task works while the loop listens; one that is left to itself only reads.
TaskIsHeard ==
    /\ caller \in {"calling", "pausing"} => task \in {"none", "over"}
    /\ caller = "returned" => task \in {"none", "reading", "over"}
    /\ task = "waiting" => attempt < MaxRetries

\* Each of the loop's tries posts at most MaxRetries + 1 times.
TriesBounded ==
    LET before == retries * (MaxRetries + 1) IN
    IF caller \in {"calling", "pausing"} \/ task = "none" THEN Len(posts) <= before
    ELSE Len(posts) <= before + attempt + (IF task = "posting" THEN 0 ELSE 1)

\* A refusal ends the task and the loop's tries.
RefusedIsLast ==
    \A i \in DOMAIN posts : RefusedTask(posts[i]) =>
        i = Len(posts) /\ task = "over" /\ told = posts[i] /\ caller \notin {"calling", "pausing"}

\* What is read was accepted, and an error tells what was not.
ReadIsAccepted ==
    task = "reading" \/ (caller = "listening" /\ task = "over" /\ told = NoError) \/ outcome = "answer"
        => posts # <<>> /\ posts[Len(posts)] = Accepted

AccessIInv == AccessTypes /\ TaskIsHeard /\ TriesBounded /\ RefusedIsLast /\ ReadIsAccepted /\ PayloadOnce

LEMMA ErrorsAre ==
  /\ Accepted \notin Failures /\ NoError \notin Failures /\ ~RefusedTask(Accepted) /\ ~RefusedTask(NoError)
  /\ \A e \in Failures : RefusedTask(e) => ~IsRetryable(e)
<1>1. ASSUME NEW e \in Failures PROVE e.class \notin {"accepted", "none"}
  <2>1. CASE e \in [class : {"refused", "invalid", "provider"}, says : BOOLEAN]
    BY <2>1
  <2>2. CASE e = Outcome("rate limited", TRUE)
    BY <2>2 DEF Outcome
  <2>3. CASE e = Outcome("overloaded", TRUE)
    BY <2>3 DEF Outcome
  <2>4. CASE e = Outcome("timed out", FALSE)
    BY <2>4 DEF Outcome
  <2>5. CASE e = Outcome("network", FALSE)
    BY <2>5 DEF Outcome
  <2> QED
    BY <2>1, <2>2, <2>3, <2>4, <2>5, Zenon DEF Failures
<1>2. Accepted.class = "accepted" /\ NoError.class = "none"
  BY DEF Accepted, NoError, Outcome
<1> QED
  BY <1>1, <1>2 DEF RefusedTask, IsRetryable

LEMMA TriesAdd ==
  ASSUME NEW r \in Nat, NEW m \in Nat
  PROVE  /\ r * (m + 1) \in Nat /\ (r + 1) * (m + 1) = r * (m + 1) + m + 1
         /\ r <= m => r * (m + 1) + m + 1 <= (m + 1) * (m + 1)
<1>1. r * (m + 1) \in Nat /\ (r + 1) * (m + 1) = r * (m + 1) + m + 1
  OBVIOUS
<1>2. ASSUME r <= m PROVE r * (m + 1) <= m * (m + 1)
  BY <1>2
<1>3. (m + 1) * (m + 1) = m * (m + 1) + m + 1 /\ m * (m + 1) \in Nat
  OBVIOUS
<1> QED
  BY <1>1, <1>2, <1>3

LEMMA AccessStarts == AccessInit => AccessIInv
<1> SUFFICES ASSUME AccessInit PROVE AccessIInv
  OBVIOUS
<1>1. AccessTypes
  BY AccessAssumption, EmptySeq DEF AccessInit, AccessTypes
<1>2. posts = <<>> /\ DOMAIN posts = {} /\ Len(posts) = 0 /\ retries = 0 /\ retries * (MaxRetries + 1) = 0
  BY AccessAssumption, EmptySeq, LenProperties DEF AccessInit
<1> QED
  BY <1>1, <1>2 DEF AccessInit, AccessIInv, TaskIsHeard, TriesBounded, RefusedIsLast, ReadIsAccepted, PayloadOnce

\* A post is one more, and what it came to is the newest.
LEMMA Posted ==
  ASSUME AccessTypes, NEW got \in Failures \cup {Accepted}, posts' = Append(posts, got)
  PROVE  /\ posts' \in Seq(Failures \cup {Accepted}) /\ Len(posts) \in Nat /\ Len(posts') = Len(posts) + 1
         /\ posts'[Len(posts')] = got /\ posts' # <<>>
         /\ \A i \in DOMAIN posts' : i \in DOMAIN posts \/ i = Len(posts')
         /\ \A i \in DOMAIN posts : posts'[i] = posts[i]
<1>1. posts \in Seq(Failures \cup {Accepted})
  BY DEF AccessTypes
<1> QED
  BY <1>1, AppendProperties, LenProperties, EmptySeq

LEMMA AccessStep ==
  ASSUME AccessIInv, [AccessNext]_accessVars
  PROVE  AccessIInv'
<1> DEFINE before == retries * (MaxRetries + 1)
<1>0. /\ AccessTypes /\ TaskIsHeard /\ TriesBounded /\ RefusedIsLast /\ ReadIsAccepted /\ PayloadOnce
      /\ MaxRetries \in Nat /\ retries \in Nat /\ attempt \in Nat /\ before \in Nat /\ Len(posts) \in Nat
  BY AccessAssumption, TriesAdd, LenProperties DEF AccessIInv, AccessTypes
<1>1. CASE UNCHANGED accessVars \/ Abort
  BY <1>0, <1>1 DEF accessVars, Abort, AccessIInv, AccessTypes, TaskIsHeard, TriesBounded, RefusedIsLast,
                    ReadIsAccepted, PayloadOnce
<1>2. CASE SeesCancel \/ StopListening \/ Pause
  BY <1>0, <1>2 DEF SeesCancel, StopListening, Pause, ReturnCall, AccessIInv, AccessTypes, TaskIsHeard, TriesBounded,
                    RefusedIsLast, ReadIsAccepted, PayloadOnce
<1>3. CASE StartStream
  BY <1>0, <1>3 DEF StartStream, ReturnCall, AccessIInv, AccessTypes, TaskIsHeard, TriesBounded,
                    RefusedIsLast, ReadIsAccepted, PayloadOnce
<1>4. CASE PostOnce
  <2>1. PICK got \in Failures \cup {Accepted} :
            /\ posts' = Append(posts, got)
            /\ IF got = Accepted THEN task' = "reading" /\ UNCHANGED told
               ELSE IF attempt < MaxRetries /\ IsRetryable(got) THEN task' = "waiting" /\ UNCHANGED told
               ELSE task' = "over" /\ told' = got
    BY <1>4 DEF PostOnce
  <2>2. /\ task = "posting" /\ body' = 1
        /\ UNCHANGED <<accessInputs, caller, retries, attempt, refreshes, outcome, aborted>>
    BY <1>4 DEF PostOnce
  <2>3. AccessTypes'
    BY <1>0, <2>1, <2>2, Posted DEF AccessTypes
  <2>4. TaskIsHeard' /\ caller = "listening"
    BY <1>0, <2>1, <2>2 DEF TaskIsHeard, AccessTypes
  <2>5. TriesBounded'
    BY <1>0, <2>1, <2>2, <2>4, Posted DEF TriesBounded
  <2>6. RefusedIsLast'
    BY <1>0, <2>1, <2>2, <2>4, Posted, ErrorsAre DEF RefusedIsLast
  <2>7. ReadIsAccepted' /\ PayloadOnce'
    BY <1>0, <2>1, <2>2, <2>4, Posted, ErrorsAre DEF ReadIsAccepted, PayloadOnce, AccessTypes
  <2> QED
    BY <2>3, <2>4, <2>5, <2>6, <2>7 DEF AccessIInv
<1>5. CASE Backoff
  BY <1>0, <1>5 DEF Backoff, AccessIInv, AccessTypes, TaskIsHeard, TriesBounded, RefusedIsLast, ReadIsAccepted, PayloadOnce
<1>6. CASE ReadStream
  BY <1>0, <1>6, ErrorsAre DEF ReadStream, AccessIInv, AccessTypes, TaskIsHeard, TriesBounded, RefusedIsLast,
                               ReadIsAccepted, PayloadOnce
<1>7. CASE Answered
  <2>1. CASE told.says /\ retries < MaxRetries
    <3>1. /\ caller = "listening" /\ task = "over" /\ caller' = "pausing" /\ retries' = retries + 1 /\ outcome' = outcome
          /\ UNCHANGED <<accessInputs, task, attempt, body, posts, told, refreshes, aborted>>
      BY <1>7, <2>1 DEF Answered
    <3>2. AccessTypes'
      BY <1>0, <2>1, <3>1 DEF AccessTypes
    <3>3. retries' * (MaxRetries + 1) = before + MaxRetries + 1
      BY <1>0, <3>1, TriesAdd
    <3>4. attempt <= MaxRetries /\ Len(posts) <= before + attempt + 1
      BY <1>0, <3>1 DEF AccessTypes, TriesBounded
    <3>5. TriesBounded'
      BY <1>0, <3>1, <3>3, <3>4 DEF TriesBounded
    <3>6. TaskIsHeard' /\ RefusedIsLast'
      BY <1>0, <2>1, <3>1 DEF TaskIsHeard, RefusedIsLast, RefusedTask
    <3>7. ReadIsAccepted' /\ PayloadOnce'
      BY <1>0, <3>1 DEF ReadIsAccepted, PayloadOnce, AccessTypes
    <3> QED
      BY <3>2, <3>5, <3>6, <3>7 DEF AccessIInv
  <2>2. CASE ~(told.says /\ retries < MaxRetries)
    BY <1>0, <1>7, <2>2 DEF Answered, ReturnCall, AccessIInv, AccessTypes, TaskIsHeard, TriesBounded, RefusedIsLast,
                            ReadIsAccepted, PayloadOnce
  <2> QED
    BY <2>1, <2>2
<1> QED
  BY <1>1, <1>2, <1>3, <1>4, <1>5, <1>6, <1>7 DEF AccessNext

\* However both levels of retries fail, wait and are cancelled, the requests of one call are
\* bounded, none follows a refusal, each carries the hook's change of the payload once, and
\* an answer is one the provider gave (ProviderRequest::send, call_llm_with_retry).
THEOREM AccessIsKept == AccessSpec => []AccessKept
<1>1. ASSUME AccessIInv PROVE AccessKept
  <2>1. RefusalsAreFinal
    BY <1>1 DEF AccessIInv, RefusedIsLast, RefusedTask, RefusalsAreFinal
  <2>2. AttemptsBounded
    <3>1. /\ MaxRetries \in Nat /\ retries \in Nat /\ retries <= MaxRetries /\ attempt \in Nat /\ attempt <= MaxRetries
          /\ Len(posts) \in Nat /\ retries * (MaxRetries + 1) \in Nat
          /\ retries * (MaxRetries + 1) + MaxRetries + 1 <= (MaxRetries + 1) * (MaxRetries + 1)
      BY <1>1, AccessAssumption, TriesAdd, LenProperties DEF AccessIInv, AccessTypes
    <3>2. Len(posts) <= retries * (MaxRetries + 1) + MaxRetries + 1
      BY <1>1, <3>1 DEF AccessIInv, TriesBounded
    <3>3. (MaxRetries + 1) * (MaxRetries + 1) \in Nat
      BY <3>1, TriesAdd
    <3> QED
      BY <3>1, <3>2, <3>3 DEF AttemptsBounded
  <2>3. PayloadOnce /\ AnswersAreAnswers
    BY <1>1 DEF AccessIInv, ReadIsAccepted, AnswersAreAnswers
  <2> QED
    BY <2>1, <2>2, <2>3 DEF AccessKept
<1>2. AccessIInv /\ [AccessNext]_accessVars => AccessIInv'
  BY AccessStep
<1> QED
  BY <1>1, <1>2, AccessStarts, PTL DEF AccessSpec

-----------------------------------------------------------------------------
(* The circuit breaker: its types.                                          *)

\* Arithmetic modulo Word, as far as the counter needs it.
LEMMA WordArithmetic ==
  ASSUME NEW x \in Int
  PROVE  /\ x % Word \in 0..(Word - 1)
         /\ x \in 0..(Word - 1) => x % Word = x
<1>1. Word \in Nat /\ Word > 0
  BY BreakerAssumption, FS_CardinalityType
<1> QED
  BY <1>1

\* What record_success and record_failure do to the types.
LEMMA RecordTypes ==
  ASSUME TypeOK, RecordSuccess \/ RecordFailure
  PROVE  /\ state' \in {"Closed", "Open", "HalfOpen"}
         /\ failures' \in 0..MaxFailures
         /\ halfOpenRequests' \in 0..(Word - 1)
         /\ cooled' \in BOOLEAN
<1>1. (halfOpenRequests - 1) % Word \in 0..(Word - 1)
  BY WordArithmetic DEF TypeOK
<1>2. 0 \in 0..(Word - 1)
  BY BreakerAssumption, FS_CardinalityType
<1>3. MaxFailures \in Nat
  BY BreakerAssumption
<1>4. CASE RecordSuccess
  BY <1>2, <1>3, <1>4 DEF RecordSuccess, TypeOK
<1>5. CASE RecordFailure
  <2>1. failures' \in 0..MaxFailures
    BY <1>3, <1>5 DEF RecordFailure, TypeOK
  <2>2. halfOpenRequests' \in 0..(Word - 1)
    BY <1>1, <1>5 DEF RecordFailure, TypeOK
  <2>3. cooled' \in BOOLEAN
    BY <1>5 DEF RecordFailure
  <2>4. state' \in {"Closed", "Open", "HalfOpen"}
    <3>1. state' \in {"Open", state}
      BY <1>5 DEF RecordFailure
    <3> QED
      BY <3>1 DEF TypeOK
  <2> QED
    BY <2>1, <2>2, <2>3, <2>4
<1> QED
  BY <1>4, <1>5

\* A caller that is about to retry has a retry left: the guard is in
\* AttemptEnds, the increment in RecordsFailure.
RetryLeft == \A c \in Calls : progress[c] = "retrying" => retryCount[c] < RetryLimit

\* TypeOK, with RetryLeft, is inductive.
LEMMA TypeStep == TypeOK /\ RetryLeft /\ [Next]_vars => TypeOK' /\ RetryLeft'
<1> SUFFICES ASSUME TypeOK, RetryLeft, [Next]_vars PROVE TypeOK' /\ RetryLeft'
  OBVIOUS
<1> USE DEF TypeOK, RetryLeft
<1>w. /\ (halfOpenRequests + 1) % Word \in 0..(Word - 1)
      /\ (halfOpenRequests - 1) % Word \in 0..(Word - 1)
  BY WordArithmetic
<1>0. 0 \in 0..(Word - 1) /\ 0 \in 0..RetryLimit
  BY BreakerAssumption, FS_CardinalityType
<1>p. {"idle", "calling", "slow", "opened", "reading", "writing", "unlocked"} \subseteq PC
      /\ Outcomes \subseteq PC
  BY DEF PC, Counting, Waiting, Outcomes
<1>1. ASSUME NEW c \in Calls, CheckFast(c) PROVE TypeOK' /\ RetryLeft'
  BY <1>1, <1>w, <1>0, <1>p DEF CheckFast, Admit, CountSelf, GoTo
<1>2. ASSUME NEW c \in Calls, CheckSlow(c) PROVE TypeOK' /\ RetryLeft'
  BY <1>2, <1>w, <1>0, <1>p DEF CheckSlow, SlowOpen, Admit, CountSelf, GoTo
<1>3. ASSUME NEW c \in Calls, CountUnlocked(c) PROVE TypeOK' /\ RetryLeft'
  BY <1>3, <1>w, <1>p DEF CountUnlocked, CountSelf, GoTo
<1>4. ASSUME NEW c \in Calls, Decide(c) PROVE TypeOK' /\ RetryLeft'
  BY <1>4, <1>w, <1>0, <1>p DEF Decide, Admit, GoTo
<1>5. ASSUME NEW c \in Calls, AttemptEnds(c) PROVE TypeOK' /\ RetryLeft'
  <2>1. PICK e \in Outcomes : GoTo(c, e) /\ (e = "retrying" => retryCount[c] < RetryLimit)
    BY <1>5 DEF AttemptEnds, Outcomes
  <2> QED
    BY <1>5, <2>1, <1>p DEF AttemptEnds, GoTo
<1>6. ASSUME NEW c \in Calls, Leaves(c) PROVE TypeOK' /\ RetryLeft'
  BY <1>6, <1>p DEF Leaves, GoTo
<1>7. ASSUME NEW c \in Calls, RecordsSuccess(c) PROVE TypeOK' /\ RetryLeft'
  <2>1. inARow' \in 0..MaxFailures
    BY <1>7, BreakerAssumption DEF RecordsSuccess
  <2> QED
    BY <1>7, <2>1, <1>p, RecordTypes DEF RecordsSuccess, GoTo
<1>8. ASSUME NEW c \in Calls, RecordsFailure(c) PROVE TypeOK' /\ RetryLeft'
  <2>1. inARow' \in 0..MaxFailures
    BY <1>8, BreakerAssumption DEF RecordsFailure
  <2>2. CASE progress[c] = "retrying"
    BY <1>8, <2>1, <2>2, <1>p, RecordTypes, BreakerAssumption DEF RecordsFailure, GoTo
  <2>3. CASE progress[c] # "retrying"
    BY <1>8, <2>1, <2>3, <1>p, RecordTypes DEF RecordsFailure, GoTo, Outcomes
  <2> QED
    BY <2>2, <2>3
<1>9. CASE CoolDown
  BY <1>9 DEF CoolDown
<1>10. CASE UNCHANGED vars
  BY <1>10 DEF vars
<1> QED
  BY <1>1, <1>2, <1>3, <1>4, <1>5, <1>6, <1>7, <1>8, <1>9, <1>10
     DEF Next, Check, Attempt

\* The breaker's variables keep their types; in particular the retry counter
\* never exceeds max_retries.
THEOREM BreakerTypeCorrect == Spec => []TypeOK
<1>1. Init => TypeOK /\ RetryLeft
  BY BreakerAssumption, FS_CardinalityType DEF Init, TypeOK, PC, RetryLeft
<1> QED
  BY <1>1, TypeStep, PTL DEF Spec

-----------------------------------------------------------------------------
(* The threshold.                                                          *)

\* Only record_success and record_failure touch the failure count, and only
\* they close the breaker.
LEMMA ThresholdStep ==
  TypeOK /\ ClosedBelowThreshold /\ [Next]_vars => ClosedBelowThreshold'
<1> SUFFICES ASSUME TypeOK, ClosedBelowThreshold, [Next]_vars
             PROVE ClosedBelowThreshold'
  OBVIOUS
<1> USE DEF ClosedBelowThreshold
<1>1. ASSUME NEW c \in Calls, CheckFast(c) \/ CountUnlocked(c) \/ Decide(c)
      PROVE ClosedBelowThreshold'
  BY <1>1 DEF CheckFast, CountUnlocked, Decide
<1>2. ASSUME NEW c \in Calls, CheckSlow(c) PROVE ClosedBelowThreshold'
  BY <1>2 DEF CheckSlow, SlowOpen
<1>3. ASSUME NEW c \in Calls, AttemptEnds(c) \/ Leaves(c)
      PROVE ClosedBelowThreshold'
  BY <1>3 DEF AttemptEnds, Leaves
<1>4. ASSUME NEW c \in Calls, RecordsSuccess(c) PROVE ClosedBelowThreshold'
  BY <1>4, BreakerAssumption DEF RecordsSuccess, RecordSuccess
<1>5. ASSUME NEW c \in Calls, RecordsFailure(c) PROVE ClosedBelowThreshold'
  BY <1>5, BreakerAssumption DEF RecordsFailure, RecordFailure, TypeOK
<1>6. CASE CoolDown
  BY <1>6 DEF CoolDown
<1>7. CASE UNCHANGED vars
  BY <1>7 DEF vars
<1> QED
  BY <1>1, <1>2, <1>3, <1>4, <1>5, <1>6, <1>7 DEF Next, Check, Attempt

\* A closed breaker has recorded fewer than failure_threshold failures since the
\* last success (record_failure and the two places that close the breaker).
THEOREM ClosedMeansBelowThreshold == Spec => []ClosedBelowThreshold
<1>1. Init => ClosedBelowThreshold
  BY BreakerAssumption DEF Init, ClosedBelowThreshold
<1> QED
  BY <1>1, ThresholdStep, BreakerTypeCorrect, PTL DEF Spec

\* Where no attempt is recorded as both a failure and a success, the breaker's
\* count is the number of failed attempts in a row.
CountIsRow ==
    /\ inARow = failures
    /\ \A c \in Calls : progress[c] \notin {"refused", "response_failed", "falling_through"}

\* Each step of a check or of an attempt keeps the count equal to the failed
\* attempts in a row.
LEMMA RowStep ==
  TypeOK /\ (Straight => CountIsRow) /\ [Next]_vars => (Straight => CountIsRow)'
<1>0. [Next]_vars => (Straight' <=> Straight)
  <2>1. [Next]_vars => endings' = endings
    BY DEF Next, vars, Check, Attempt, CheckFast, CheckSlow, CountUnlocked, Decide, AttemptEnds,
           Leaves, RecordsSuccess, RecordsFailure, CoolDown
  <2> QED
    BY <2>1 DEF Straight
<1> SUFFICES ASSUME TypeOK, Straight, CountIsRow, [Next]_vars PROVE CountIsRow'
  BY <1>0
<1> USE DEF CountIsRow, TypeOK, GoTo
<1>1. ASSUME NEW c \in Calls, CheckFast(c) PROVE CountIsRow'
  BY <1>1 DEF CheckFast, Admit, CountSelf
<1>2. ASSUME NEW c \in Calls, CheckSlow(c) PROVE CountIsRow'
  BY <1>2 DEF CheckSlow, SlowOpen, Admit, CountSelf
<1>3. ASSUME NEW c \in Calls, CountUnlocked(c) \/ Decide(c) PROVE CountIsRow'
  BY <1>3 DEF CountUnlocked, Decide, Admit, CountSelf
<1>4. ASSUME NEW c \in Calls, AttemptEnds(c) PROVE CountIsRow'
  <2>1. PICK e \in {"succeeded", "failed", "retrying"} : GoTo(c, e)
    BY <1>4 DEF AttemptEnds, Straight
  <2> QED
    BY <1>4, <2>1 DEF AttemptEnds
<1>5. ASSUME NEW c \in Calls, Leaves(c) PROVE CountIsRow'
  BY <1>5 DEF Leaves
<1>6. ASSUME NEW c \in Calls, RecordsSuccess(c) PROVE CountIsRow'
  BY <1>6 DEF RecordsSuccess, RecordSuccess
<1>7. ASSUME NEW c \in Calls, RecordsFailure(c) PROVE CountIsRow'
  <2>1. failures' = inARow'
    BY <1>7 DEF RecordsFailure, RecordFailure
  <2>2. progress' \in {[progress EXCEPT ![c] = "calling"], [progress EXCEPT ![c] = "idle"]}
    BY <1>7 DEF RecordsFailure
  <2> QED
    BY <2>1, <2>2
<1>8. CASE CoolDown
  BY <1>8 DEF CoolDown
<1>9. CASE UNCHANGED vars
  BY <1>9 DEF vars
<1> QED
  BY <1>1, <1>2, <1>3, <1>4, <1>5, <1>6, <1>7, <1>8, <1>9
     DEF Next, Check, Attempt

\* failure_threshold failed attempts in a row open the breaker, as long as every
\* attempt is recorded as what it was; a response that fails after its stream began
\* is not.
THEOREM FailuresInARowTrip == Spec => []ThresholdTrips
<1>1. Init => (Straight => CountIsRow)
  BY DEF Init, CountIsRow
<1>2. /\ Straight => CountIsRow
      /\ TypeOK /\ ClosedBelowThreshold
      => ThresholdTrips
  BY BreakerAssumption DEF CountIsRow, ClosedBelowThreshold, ThresholdTrips, TypeOK
<1> QED
  BY <1>1, <1>2, RowStep, BreakerTypeCorrect, ClosedMeansBelowThreshold, PTL DEF Spec

-----------------------------------------------------------------------------
(* The half-open period.                                                   *)

\* Those about to be let through.
Entering == {c \in Counters : counted[c] < HalfOpenMax}

\* No check() is past its fetch_add, or about to be there, in an Open breaker
\* that has cooled down: so the reset to 0 on the way to HalfOpen forgets nobody.
NobodyCounting == 
    state = "Open" /\ cooled =>
        \A c \in Calls : progress[c] \notin Counting \cup {"opened"}

\* Those admitted and those about to be are at most half_open_max.
RoomToEnter ==
    state = "HalfOpen" => admitted + Cardinality(Entering) <= HalfOpenMax

HalfOpenInv == NobodyCounting /\ CountExact /\ RoomToEnter

\* The set of counting callers is finite, and there is no room for a wrap.
LEMMA CounterBounds ==
  /\ IsFiniteSet(Counters) /\ IsFiniteSet(Entering)
  /\ Cardinality(Counters) \in Nat /\ Cardinality(Entering) \in Nat
  /\ Cardinality(Entering) <= Cardinality(Counters)
  /\ Cardinality(Counters) <= Cardinality(Calls)
  /\ Cardinality(Calls) \in Nat
<1>1. Counters \in SUBSET Calls /\ Entering \in SUBSET Counters
  BY DEF Counters, Entering
<1>2. IsFiniteSet(Counters) /\ Cardinality(Counters) <= Cardinality(Calls)
  BY <1>1, FS_Subset, BreakerAssumption
<1>3. IsFiniteSet(Entering) /\ Cardinality(Entering) <= Cardinality(Counters)
  BY <1>1, <1>2, FS_Subset
<1> QED
  BY <1>2, <1>3, FS_CardinalityType, BreakerAssumption

\* A step that neither touches the counter nor moves anyone in or out of the
\* counting callers keeps the invariant, unless it enters HalfOpen.
LEMMA HalfOpenFrame ==
  ASSUME TypeOK, HalfOpenInv,
         Counters' = Counters, Entering' = Entering,
         state' = "HalfOpen" => /\ state = "HalfOpen"
                                /\ UNCHANGED <<halfOpenRequests, admitted>>,
         NobodyCounting'
  PROVE  HalfOpenInv'
  BY DEF HalfOpenInv, CountExact, RoomToEnter

\* fetch_add in a half-open period: the caller joins the counting ones, and is
\* about to be let through only if there is room.
LEMMA CountSelfStep ==
  ASSUME TypeOK, HalfOpenInv, NEW c \in Calls, progress[c] \notin Counting,
         NEW place \in Counting, CountSelf(c, place),
         UNCHANGED <<state, cooled, admitted>>,
         state = "HalfOpen"
  PROVE  HalfOpenInv'
<1> USE DEF HalfOpenInv
<1>0. HalfOpenMax \in Nat /\ Word \in Nat /\ Word > HalfOpenMax + Cardinality(Calls)
  BY BreakerAssumption
<1>1. /\ c \notin Counters
      /\ Counters' = Counters \cup {c}
  BY DEF Counters, CountSelf, GoTo, TypeOK
<1>2. Cardinality(Counters') = Cardinality(Counters) + 1
  BY <1>1, FS_AddElement, CounterBounds
<1>3. Cardinality(Counters) + 1 <= Cardinality(Calls)
  <2>1. Counters' \in SUBSET Calls
    BY DEF Counters
  <2>2. Cardinality(Counters') <= Cardinality(Calls)
    BY <2>1, FS_Subset, BreakerAssumption
  <2> QED
    BY <1>2, <2>2
<1>4. halfOpenRequests = admitted + Cardinality(Counters) /\ admitted <= HalfOpenMax
  BY <1>0, CounterBounds DEF CountExact, RoomToEnter, TypeOK
<1>5. halfOpenRequests + 1 \in 0..(Word - 1)
  BY <1>0, <1>3, <1>4, CounterBounds DEF TypeOK
<1>6. halfOpenRequests' = halfOpenRequests + 1
  BY <1>5, WordArithmetic DEF CountSelf
<1>7. CountExact'
  BY <1>2, <1>4, <1>6, CounterBounds DEF CountExact, TypeOK
<1>8. RoomToEnter'
  <2>1. counted' = [counted EXCEPT ![c] = halfOpenRequests]
    BY DEF CountSelf
  <2>2. CASE halfOpenRequests < HalfOpenMax
    <3>1. Entering' = Entering \cup {c}
      BY <1>1, <2>1, <2>2 DEF Entering, TypeOK, Counters
    <3>2. c \notin Entering
      BY <1>1 DEF Entering
    <3>3. Cardinality(Entering') = Cardinality(Entering) + 1
      BY <3>1, <3>2, FS_AddElement, CounterBounds
    <3> QED
      BY <1>0, <1>4, <2>2, <3>3, CounterBounds DEF RoomToEnter, TypeOK
  <2>3. CASE ~(halfOpenRequests < HalfOpenMax)
    <3>1. Entering' = Entering
      BY <1>1, <2>1, <2>3 DEF Entering, TypeOK, Counters
    <3> QED
      BY <3>1 DEF RoomToEnter
  <2> QED
    BY <2>2, <2>3
<1> QED
  BY <1>7, <1>8 DEF NobodyCounting

\* The decision: the count is taken back, or becomes an admission.
LEMMA DecideStep ==
  ASSUME TypeOK, HalfOpenInv, NEW c \in Calls, Decide(c)
  PROVE  HalfOpenInv'
<1> USE DEF HalfOpenInv
<1>1. /\ c \in Counters
      /\ Counters' = Counters \ {c}
      /\ UNCHANGED <<state, cooled, counted>>
  BY DEF Decide, Admit, Counters, Counting, GoTo, TypeOK
<1>2. NobodyCounting'
  BY <1>1 DEF Decide, Admit, GoTo, NobodyCounting, Counting, TypeOK
<1>3. SUFFICES ASSUME state = "HalfOpen" PROVE CountExact' /\ RoomToEnter'
  BY <1>1, <1>2 DEF CountExact, RoomToEnter
<1>4. /\ Cardinality(Counters') = Cardinality(Counters) - 1
      /\ Cardinality(Counters) >= 1
  BY <1>1, FS_RemoveElement, FS_EmptySet, CounterBounds
<1>5. halfOpenRequests = admitted + Cardinality(Counters)
  BY <1>3 DEF CountExact
<1>6. CASE counted[c] >= HalfOpenMax
  <2>1. /\ halfOpenRequests' = (halfOpenRequests - 1) % Word
        /\ admitted' = admitted
    BY <1>6, BreakerAssumption DEF Decide, TypeOK
  <2>2. halfOpenRequests - 1 \in 0..(Word - 1)
    BY <1>4, <1>5, CounterBounds, BreakerAssumption DEF TypeOK
  <2>3. Entering' = Entering
    BY <1>1, <1>6, BreakerAssumption DEF Entering, TypeOK
  <2> QED
    BY <1>1, <1>3, <1>4, <1>5, <2>1, <2>2, <2>3, WordArithmetic, CounterBounds
       DEF CountExact, RoomToEnter, TypeOK
<1>7. CASE counted[c] < HalfOpenMax
  <2>1. /\ halfOpenRequests' = halfOpenRequests
        /\ admitted' = admitted + 1
    BY <1>7, BreakerAssumption DEF Decide, TypeOK
  <2>2. c \in Entering /\ Entering' = Entering \ {c}
    BY <1>1, <1>7 DEF Entering
  <2>3. Cardinality(Entering') = Cardinality(Entering) - 1
    BY <2>2, FS_RemoveElement, CounterBounds
  <2> QED
    BY <1>1, <1>3, <1>4, <1>5, <2>1, <2>3, CounterBounds
       DEF CountExact, RoomToEnter, TypeOK
<1> QED
  BY <1>6, <1>7, BreakerAssumption DEF TypeOK

\* A caller that moves between places outside the counting ones leaves the
\* counting callers as they are.
LEMMA OutsideMoves ==
  ASSUME TypeOK, NEW c \in Calls, progress[c] \notin Counting,
         NEW place, place \notin Counting,
         progress' = [progress EXCEPT ![c] = place], counted' = counted
  PROVE  Counters' = Counters /\ Entering' = Entering
<1>1. Counters' = Counters
  BY DEF Counters, TypeOK
<1> QED
  BY <1>1 DEF Entering

\* Entering HalfOpen: nobody is counting, and the counter starts at zero.
LEMMA SlowOpenStep ==
  ASSUME TypeOK, HalfOpenInv, NEW c \in Calls, progress[c] = "slow", state = "Open",
         SlowOpen(c), UNCHANGED <<cooled, counted>>
  PROVE  HalfOpenInv'
<1> USE DEF HalfOpenInv, GoTo
<1>1. CASE ~cooled
  <2>1. Counters' = Counters /\ Entering' = Entering /\ state' = "Open"
    BY <1>1, OutsideMoves DEF SlowOpen, Counting
  <2> QED
    BY <1>1, <2>1, HalfOpenFrame DEF NobodyCounting
<1>2. CASE cooled
  <2>1. /\ state' = "HalfOpen" /\ halfOpenRequests' = 0 /\ admitted' = 0
        /\ progress' = [progress EXCEPT ![c] = "opened"]
    BY <1>2 DEF SlowOpen
  <2>2. Counters' = {} /\ Entering' = {}
    <3>1. Counters = {}
      BY <1>2 DEF NobodyCounting, Counters
    <3>2. Counters' = {}
      BY <2>1, <3>1, OutsideMoves DEF Counting
    <3> QED
      BY <3>2 DEF Entering
  <2>3. Cardinality(Counters') = 0 /\ Cardinality(Entering') = 0
    BY <2>2, FS_EmptySet
  <2> QED
    BY <2>1, <2>3, BreakerAssumption DEF NobodyCounting, CountExact, RoomToEnter
<1> QED
  BY <1>1, <1>2

\* Every step keeps the invariant, if open_duration cannot pass inside a check().
LEMMA HalfOpenStep ==
  ASSUME ~MayStall
  PROVE  TypeOK /\ HalfOpenInv /\ [Next]_vars => HalfOpenInv'
<1> SUFFICES ASSUME TypeOK, HalfOpenInv, [Next]_vars PROVE HalfOpenInv'
  OBVIOUS
<1> USE DEF GoTo
<1>c. {"idle", "calling", "slow", "opened"} \cap Counting = {} /\ Outcomes \cap Counting = {}
  BY DEF Counting, Outcomes
<1>n. NobodyCounting
  BY DEF HalfOpenInv
<1>1. ASSUME NEW c \in Calls, CheckFast(c) PROVE HalfOpenInv'
  <2>1. CASE state = "HalfOpen"
    BY <1>1, <1>c, <2>1, CountSelfStep DEF CheckFast, Counting
  <2>2. CASE state # "HalfOpen"
    <3>1. PICK place \in {"calling", "slow"} : progress' = [progress EXCEPT ![c] = place]
      BY <1>1, <2>2 DEF CheckFast, Admit
    <3>2. UNCHANGED <<state, cooled, counted>>
      BY <1>1, <2>2 DEF CheckFast
    <3>3. Counters' = Counters /\ Entering' = Entering
      BY <1>1, <1>c, <3>1, <3>2, OutsideMoves DEF CheckFast
    <3>4. NobodyCounting'
      BY <1>n, <1>c, <3>1, <3>2 DEF NobodyCounting, TypeOK
    <3> QED
      BY <2>2, <3>2, <3>3, <3>4, HalfOpenFrame
  <2> QED
    BY <2>1, <2>2
<1>2. ASSUME NEW c \in Calls, CheckSlow(c) PROVE HalfOpenInv'
  <2>1. CASE state = "HalfOpen"
    BY <1>2, <1>c, <2>1, CountSelfStep DEF CheckSlow, Counting
  <2>2. CASE state = "Open"
    BY <1>2, <2>2, SlowOpenStep DEF CheckSlow
  <2>3. CASE state = "Closed"
    <3>1. progress' = [progress EXCEPT ![c] = "calling"] /\ UNCHANGED <<state, counted>>
      BY <1>2, <2>3 DEF CheckSlow, Admit
    <3>2. Counters' = Counters /\ Entering' = Entering
      BY <1>2, <1>c, <3>1, OutsideMoves DEF CheckSlow
    <3> QED
      BY <2>3, <3>1, <3>2, HalfOpenFrame DEF NobodyCounting
  <2> QED
    BY <2>1, <2>2, <2>3 DEF TypeOK
<1>3. ASSUME NEW c \in Calls, CountUnlocked(c) PROVE HalfOpenInv'
  <2>1. CASE state = "HalfOpen"
    BY <1>3, <1>c, <2>1, CountSelfStep DEF CountUnlocked, Counting
  <2>2. CASE state # "HalfOpen"
    BY <1>3, <1>n, <2>2 DEF CountUnlocked, HalfOpenInv, NobodyCounting, CountExact, RoomToEnter
  <2> QED
    BY <2>1, <2>2
<1>4. ASSUME NEW c \in Calls, Decide(c) PROVE HalfOpenInv'
  BY <1>4, DecideStep
<1>5. ASSUME NEW c \in Calls, AttemptEnds(c) \/ Leaves(c) PROVE HalfOpenInv'
  <2>1. PICK place \in Outcomes \cup {"idle"} : progress' = [progress EXCEPT ![c] = place]
    BY <1>5 DEF AttemptEnds, Leaves, Outcomes
  <2>2. UNCHANGED <<state, cooled, halfOpenRequests, admitted, counted>> /\ progress[c] = "calling"
    BY <1>5 DEF AttemptEnds, Leaves
  <2>3. Counters' = Counters /\ Entering' = Entering
    BY <1>c, <2>1, <2>2, OutsideMoves
  <2>4. place \notin Counting \cup {"opened"}
    BY <2>1 DEF Outcomes, Counting
  <2>5. NobodyCounting'
    BY <1>n, <2>1, <2>2, <2>4 DEF NobodyCounting, TypeOK
  <2> QED
    BY <2>2, <2>3, <2>5, HalfOpenFrame
<1>6. ASSUME NEW c \in Calls, RecordsSuccess(c) PROVE HalfOpenInv'
  <2>1. progress' = [progress EXCEPT ![c] = "idle"] /\ UNCHANGED <<cooled, counted>>
    BY <1>6 DEF RecordsSuccess, RecordSuccess
  <2>2. progress[c] \in Outcomes
    BY <1>6 DEF RecordsSuccess, Outcomes
  <2>3. state' # "HalfOpen" /\ (state' = "Open" => state = "Open")
    BY <1>6 DEF RecordsSuccess, RecordSuccess
  <2>4. Counters' = Counters /\ Entering' = Entering
    BY <1>c, <2>1, <2>2, OutsideMoves
  <2>5. NobodyCounting'
    BY <1>n, <1>c, <2>1, <2>3 DEF NobodyCounting, TypeOK
  <2> QED
    BY <2>3, <2>4, <2>5, HalfOpenFrame
<1>7. ASSUME NEW c \in Calls, RecordsFailure(c) PROVE HalfOpenInv'
  <2>1. PICK place \in {"idle", "calling", "falling_through"} : progress' = [progress EXCEPT ![c] = place]
    BY <1>7 DEF RecordsFailure
  <2>2. progress[c] \in Outcomes /\ counted' = counted
    BY <1>7 DEF RecordsFailure, Outcomes
  <2>3. state' # "HalfOpen" /\ ~cooled'
    BY <1>7 DEF RecordsFailure, RecordFailure
  <2>4. Counters' = Counters /\ Entering' = Entering
    BY <1>c, <2>1, <2>2, OutsideMoves DEF Counting
  <2> QED
    BY <2>3, <2>4, HalfOpenFrame DEF NobodyCounting
<1>8. CASE CoolDown
  <2>1. NobodyCounting'
    BY <1>8 DEF CoolDown, NobodyCounting
  <2>2. Counters' = Counters /\ Entering' = Entering
    BY <1>8 DEF CoolDown, Counters, Entering
  <2> QED
    BY <1>8, <2>1, <2>2, HalfOpenFrame DEF CoolDown
<1>9. CASE UNCHANGED vars
  BY <1>9 DEF vars, HalfOpenInv, NobodyCounting, CountExact, RoomToEnter, Counters, Entering
<1> QED
  BY <1>1, <1>2, <1>3, <1>4, <1>5, <1>6, <1>7, <1>8, <1>9 DEF Next, Check, Attempt

\* The counter, the probes let through and those about to decide agree in every
\* reachable state of a half-open period.
LEMMA HalfOpenInvariant ==
  ASSUME ~MayStall
  PROVE  Spec => []HalfOpenInv
<1>1. Init => HalfOpenInv
  BY DEF Init, HalfOpenInv, NobodyCounting, CountExact, RoomToEnter
<1>2. TypeOK /\ HalfOpenInv /\ [Next]_vars => HalfOpenInv'
  BY HalfOpenStep
<1> QED
  BY <1>1, <1>2, BreakerTypeCorrect, PTL DEF Spec

\* A half-open period admits at most half_open_max callers (check(), with its
\* fetch_add outside the write lock, against record_success and record_failure).
THEOREM ProbesAreBounded ==
  ASSUME ~MayStall
  PROVE  Spec => []ProbesBounded
<1>1. Spec => []HalfOpenInv
  BY HalfOpenInvariant
<1>2. HalfOpenInv /\ TypeOK => ProbesBounded
  BY CounterBounds, BreakerAssumption DEF HalfOpenInv, RoomToEnter, ProbesBounded, TypeOK
<1> QED
  BY <1>1, <1>2, BreakerTypeCorrect, PTL

\* half_open_requests is the number of admitted and deciding callers: no
\* fetch_sub of a late answer is ever left over in a later half-open period.
THEOREM CounterIsExact ==
  ASSUME ~MayStall
  PROVE  Spec => []CountExact
<1>1. Spec => []HalfOpenInv
  BY HalfOpenInvariant
<1>2. HalfOpenInv => CountExact
  BY DEF HalfOpenInv
<1> QED
  BY <1>1, <1>2, PTL

-----------------------------------------------------------------------------
(* A path of a tool's input: normalised, and where it leads.                *)

\* One part of a path: to a name below, up, or nowhere.
NormalStep(n, part, absolute) ==
  CASE part \in {"", "."} -> n
    [] part = ".." -> IF n.parts = <<>> THEN [n EXCEPT !.out = @ \/ absolute] ELSE [n EXCEPT !.parts = Front(@)]
    [] OTHER -> [n EXCEPT !.parts = Append(@, part)]

\* The walks along a path that NormalizePath is the end of.
NormalWalks(s) ==
  {w \in [0..Len(s.parts) -> [parts : Seq(STRING), out : BOOLEAN]] :
      /\ w[0] = [parts |-> <<>>, out |-> FALSE] /\ w[Len(s.parts)] = NormalizePath(s)
      /\ \A k \in 1..Len(s.parts) : w[k] = NormalStep(w[k - 1], s.parts[k], s.absolute)}

\* normalize_path takes one component after another.
LEMMA NormalizeSteps ==
  ASSUME NEW s, s.parts \in Seq(STRING), s.absolute \in BOOLEAN
  PROVE  NormalWalks(s) # {}
<1> DEFINE len == Len(s.parts)
           X == [parts : Seq(STRING), out : BOOLEAN]
           none == [parts |-> <<>>, out |-> FALSE]
           Walk(n, part) == CASE part \in {"", "."} -> n
                              [] part = ".." -> IF n.parts = <<>> THEN [n EXCEPT !.out = @ \/ s.absolute]
                                                ELSE [n EXCEPT !.parts = Front(@)]
                              [] OTHER -> [n EXCEPT !.parts = Append(@, part)]
           Folded(g) == [T \in SUBSET (1..len) |-> IF T = {} THEN none
                                                   ELSE Walk(g[T \ {Max(T)}], s.parts[Max(T)])]
           step == [p \in (1..len) \X X |-> Walk(p[2], s.parts[p[1]])]
<1>1. len \in Nat /\ DOMAIN s.parts = 1..len /\ \A k \in 1..len : s.parts[k] \in STRING
  BY LenProperties
<1>a. len \in Nat
  BY <1>1
<1>b. \A k \in 1..len : k - 1 \in 0..len
  <2> HIDE DEF len
  <2> QED
    BY <1>a
<1>2. none \in X
  OBVIOUS
<1>3. ASSUME NEW n \in X, NEW part \in STRING PROVE Walk(n, part) \in X
  <2>1. n.parts \in Seq(STRING) /\ n.out \in BOOLEAN /\ n = [parts |-> n.parts, out |-> n.out]
    OBVIOUS
  <2>2. CASE part \in {"", "."}
    BY <2>2
  <2>3. CASE part = ".." /\ n.parts = <<>>
    BY <2>1, <2>3
  <2>4. CASE part = ".." /\ n.parts # <<>>
    <3>1. Front(n.parts) \in Seq(STRING)
      BY <2>1, <2>4, FrontIsSeq
    <3>2. Walk(n, part) = [n EXCEPT !.parts = Front(@)]
      BY <2>4
    <3>3. [n EXCEPT !.parts = Front(@)] = [parts |-> Front(n.parts), out |-> n.out]
      BY <2>1
    <3> QED
      BY <2>1, <3>1, <3>2, <3>3
  <2>5. CASE part \notin {"", ".", ".."}
    <3>1. Append(n.parts, part) \in Seq(STRING)
      BY <2>1, AppendProperties
    <3> QED
      BY <2>1, <2>5, <3>1
  <2> QED
    BY <2>2, <2>3, <2>4, <2>5
<1>4. step \in [(1..len) \X X -> X]
  BY <1>1, <1>3
<1>5. \E g : g = Folded(g)
  <2>1. PICK g \in FoldsOf(X, none, len, step) : TRUE
    <3>1. len \in Nat /\ none \in X
      BY <1>1, <1>2
    <3> HIDE DEF step, X, none, len
    <3> QED
      BY <3>1, <1>4, FoldExists
  <2>2. g \in [SUBSET (1..len) -> X] /\ \A T \in SUBSET (1..len) :
            g[T] = IF T = {} THEN none ELSE step[<<Max(T), g[T \ {Max(T)}]>>]
    <3> HIDE DEF step, X, none, len
    <3> QED
      BY <2>1 DEF FoldsOf
  <2>3. ASSUME NEW T \in SUBSET (1..len)
        PROVE  g[T] = IF T = {} THEN none ELSE Walk(g[T \ {Max(T)}], s.parts[Max(T)])
    <3>1. CASE T = {}
      BY <2>2, <3>1
    <3>2. CASE T # {}
      <4>1. Max(T) \in 1..len /\ T \ {Max(T)} \in SUBSET (1..len)
        BY <3>2, <1>1, MaxOfSome
      <4>2. <<Max(T), g[T \ {Max(T)}]>> \in (1..len) \X X
        BY <4>1, <2>2
      <4>3. step[<<Max(T), g[T \ {Max(T)}]>>] = Walk(g[T \ {Max(T)}], s.parts[Max(T)])
        <5> HIDE DEF Walk, X, none
        <5> QED
          BY <4>2
      <4> HIDE DEF step, Walk, X, none
      <4> QED
        BY <4>3, <3>2, <2>2
    <3> QED
      BY <3>1, <3>2
  <2> HIDE DEF step, Walk, X, none
  <2> QED
    BY <2>2, <2>3
<1> DEFINE h == CHOOSE g : g = Folded(g)
<1>6. h = Folded(h)
  <2> HIDE DEF Folded
  <2> QED
    BY <1>5
<1>7. NormalizePath(s) = h[1..len]
  BY <1>1 DEF NormalizePath, FoldLeft, MapThenFoldSet
<1> HIDE DEF h
<1>8. h[{}] = none
  <2> HIDE DEF Walk, none
  <2> QED
    BY <1>6
<1>9. ASSUME NEW T \in SUBSET (1..len), T # {}, h[T \ {Max(T)}] \in X
      PROVE  h[T] = step[<<Max(T), h[T \ {Max(T)}]>>]
  <2>1. h[T] = Walk(h[T \ {Max(T)}], s.parts[Max(T)])
    <3> HIDE DEF Walk, none
    <3> QED
      BY <1>6, <1>9
  <2>2. <<Max(T), h[T \ {Max(T)}]>> \in (1..len) \X X
    <3> HIDE DEF X
    <3> QED
      BY <1>1, <1>9, MaxOfSome
  <2> HIDE DEF Walk, X
  <2> QED
    BY <2>1, <2>2
<1> HIDE DEF step, X, none, len, Walk, Folded
<1>10. StepsOf(X, none, len, step, h[1..len]) # {}
  <2>1. FoldsTo(X, none, len, step, h)
    BY <1>8, <1>9 DEF FoldsTo
  <2> QED
    BY <1>a, <1>2, <1>4, <2>1, FoldSteps
<1>11. PICK w \in StepsOf(X, none, len, step, h[1..len]) : TRUE
  BY <1>10
<1>12. w \in [0..len -> X] /\ w[0] = none /\ w[len] = h[1..len] /\ \A k \in 1..len : w[k] = step[<<k, w[k - 1]>>]
  BY <1>11 DEF StepsOf
<1>13. ASSUME NEW k \in 1..len PROVE w[k] = Walk(w[k - 1], s.parts[k])
  <2>1. k - 1 \in 0..len
    BY <1>b
  <2>2. <<k, w[k - 1]>> \in (1..len) \X X
    BY <2>1, <1>12
  <2>3. step[<<k, w[k - 1]>>] = Walk(w[k - 1], s.parts[k])
    BY <2>2 DEF step
  <2> QED
    BY <2>3, <1>12
<1>14. w \in [0..len -> X] /\ w[0] = none /\ NormalizePath(s) = w[len] /\ \A k \in 1..len : w[k] = Walk(w[k - 1], s.parts[k])
  BY <1>7, <1>12, <1>13
<1> QED
  BY <1>14 DEF NormalWalks, NormalStep, X, none, len, Walk
\* One part of the way to where an absolute path leads.
TargetStep(p, part) ==
  CASE part \in {"", "."} -> p
    [] part = ".." -> IF p = <<>> THEN p ELSE Front(p)
    [] OTHER -> Append(p, part)

TargetWalks(s) ==
  {w \in [0..Len(s.parts) -> Seq(STRING)] :
      /\ w[0] = <<>> /\ w[Len(s.parts)] = Target(s)
      /\ \A k \in 1..Len(s.parts) : w[k] = TargetStep(w[k - 1], s.parts[k])}

\* So does following the path.
LEMMA TargetSteps ==
  ASSUME NEW s, s.parts \in Seq(STRING), s.absolute \in BOOLEAN
  PROVE  TargetWalks(s) # {}
<1> DEFINE len == Len(s.parts)
           X == Seq(STRING)
           none == <<>>
           Walk(p, part) == CASE part \in {"", "."} -> p
                              [] part = ".." -> IF p = <<>> THEN p ELSE Front(p)
                              [] OTHER -> Append(p, part)
           Folded(g) == [T \in SUBSET (1..len) |-> IF T = {} THEN none
                                                   ELSE Walk(g[T \ {Max(T)}], s.parts[Max(T)])]
           step == [p \in (1..len) \X X |-> Walk(p[2], s.parts[p[1]])]
<1>1. len \in Nat /\ DOMAIN s.parts = 1..len /\ \A k \in 1..len : s.parts[k] \in STRING
  BY LenProperties
<1>a. len \in Nat
  BY <1>1
<1>b. \A k \in 1..len : k - 1 \in 0..len
  <2> HIDE DEF len
  <2> QED
    BY <1>a
<1>2. none \in X
  OBVIOUS
<1>3. ASSUME NEW p \in X, NEW part \in STRING PROVE Walk(p, part) \in X
  BY FrontIsSeq, AppendProperties
<1>4. step \in [(1..len) \X X -> X]
  BY <1>1, <1>3
<1>5. \E g : g = Folded(g)
  <2>1. PICK g \in FoldsOf(X, none, len, step) : TRUE
    <3>1. len \in Nat /\ none \in X
      BY <1>1, <1>2
    <3> HIDE DEF step, X, none, len
    <3> QED
      BY <3>1, <1>4, FoldExists
  <2>2. g \in [SUBSET (1..len) -> X] /\ \A T \in SUBSET (1..len) :
            g[T] = IF T = {} THEN none ELSE step[<<Max(T), g[T \ {Max(T)}]>>]
    <3> HIDE DEF step, X, none, len
    <3> QED
      BY <2>1 DEF FoldsOf
  <2>3. ASSUME NEW T \in SUBSET (1..len)
        PROVE  g[T] = IF T = {} THEN none ELSE Walk(g[T \ {Max(T)}], s.parts[Max(T)])
    <3>1. CASE T = {}
      BY <2>2, <3>1
    <3>2. CASE T # {}
      <4>1. Max(T) \in 1..len /\ T \ {Max(T)} \in SUBSET (1..len)
        BY <3>2, <1>1, MaxOfSome
      <4>2. <<Max(T), g[T \ {Max(T)}]>> \in (1..len) \X X
        BY <4>1, <2>2
      <4>3. step[<<Max(T), g[T \ {Max(T)}]>>] = Walk(g[T \ {Max(T)}], s.parts[Max(T)])
        <5> HIDE DEF Walk, X, none
        <5> QED
          BY <4>2
      <4> HIDE DEF step, Walk, X, none
      <4> QED
        BY <4>3, <3>2, <2>2
    <3> QED
      BY <3>1, <3>2
  <2> HIDE DEF step, Walk, X, none
  <2> QED
    BY <2>2, <2>3
<1> DEFINE h == CHOOSE g : g = Folded(g)
<1>6. h = Folded(h)
  <2> HIDE DEF Folded
  <2> QED
    BY <1>5
<1>7. Target(s) = h[1..len]
  BY <1>1 DEF Target, FoldLeft, MapThenFoldSet
<1> HIDE DEF h
<1>8. h[{}] = none
  <2> HIDE DEF Walk, none
  <2> QED
    BY <1>6
<1>9. ASSUME NEW T \in SUBSET (1..len), T # {}, h[T \ {Max(T)}] \in X
      PROVE  h[T] = step[<<Max(T), h[T \ {Max(T)}]>>]
  <2>1. h[T] = Walk(h[T \ {Max(T)}], s.parts[Max(T)])
    <3> HIDE DEF Walk, none
    <3> QED
      BY <1>6, <1>9
  <2>2. <<Max(T), h[T \ {Max(T)}]>> \in (1..len) \X X
    <3> HIDE DEF X
    <3> QED
      BY <1>1, <1>9, MaxOfSome
  <2> HIDE DEF Walk, X
  <2> QED
    BY <2>1, <2>2
<1> HIDE DEF step, X, none, len, Walk, Folded
<1>10. StepsOf(X, none, len, step, h[1..len]) # {}
  <2>1. FoldsTo(X, none, len, step, h)
    BY <1>8, <1>9 DEF FoldsTo
  <2> QED
    BY <1>a, <1>2, <1>4, <2>1, FoldSteps
<1>11. PICK w \in StepsOf(X, none, len, step, h[1..len]) : TRUE
  BY <1>10
<1>12. w \in [0..len -> X] /\ w[0] = none /\ w[len] = h[1..len] /\ \A k \in 1..len : w[k] = step[<<k, w[k - 1]>>]
  BY <1>11 DEF StepsOf
<1>13. ASSUME NEW k \in 1..len PROVE w[k] = Walk(w[k - 1], s.parts[k])
  <2>1. k - 1 \in 0..len
    BY <1>b
  <2>2. <<k, w[k - 1]>> \in (1..len) \X X
    BY <2>1, <1>12
  <2>3. step[<<k, w[k - 1]>>] = Walk(w[k - 1], s.parts[k])
    BY <2>2 DEF step
  <2> QED
    BY <2>3, <1>12
<1>14. w \in [0..len -> X] /\ w[0] = none /\ Target(s) = w[len] /\ \A k \in 1..len : w[k] = Walk(w[k - 1], s.parts[k])
  BY <1>7, <1>12, <1>13
<1> QED
  BY <1>14 DEF TargetWalks, TargetStep, X, none, len, Walk

\* NormalizePath follows a path to where it leads.
LEMMA NormalizeFollows ==
  ASSUME NEW s, s.parts \in Seq(STRING), s.absolute \in BOOLEAN
  PROVE  Target(s) = NormalizePath(s).parts
<1> DEFINE len == Len(s.parts)
<1>1. PICK n \in NormalWalks(s) : TRUE
  BY NormalizeSteps
<1>2. PICK t \in TargetWalks(s) : TRUE
  BY TargetSteps
<1> DEFINE S == {k \in Nat : k <= len => n[k].parts = t[k]}
<1>3. 0 \in S
  BY <1>1, <1>2 DEF NormalWalks, TargetWalks
<1>4. ASSUME NEW k \in Nat, k \in S PROVE k + 1 \in S
  <2>1. SUFFICES ASSUME k + 1 <= len PROVE n[k + 1].parts = t[k + 1]
    OBVIOUS
  <2> DEFINE part == s.parts[k + 1]
  <2>2. len \in Nat /\ k + 1 \in 1..len /\ k \in 0..len /\ (k + 1) - 1 = k
    BY <2>1, LenProperties
  <2>3. n[k + 1] = NormalStep(n[k], part, s.absolute) /\ n[k] \in [parts : Seq(STRING), out : BOOLEAN]
    BY <1>1, <2>2 DEF NormalWalks
  <2>4. t[k + 1] = TargetStep(t[k], part)
    BY <1>2, <2>2 DEF TargetWalks
  <2>5. n[k].parts = t[k]
    BY <1>4, <2>1, <2>2
  <2> HIDE DEF S, part
  <2>6. NormalStep(n[k], part, s.absolute).parts = TargetStep(n[k].parts, part)
    BY <2>3 DEF NormalStep, TargetStep
  <2> QED
    BY <2>3, <2>4, <2>5, <2>6
<1>5. len \in Nat /\ len \in S
  <2> HIDE DEF S
  <2>1. len \in Nat
    BY LenProperties
  <2> QED
    BY <1>3, <1>4, <2>1, Induct
<1> QED
  BY <1>1, <1>2, <1>5 DEF NormalWalks, TargetWalks

-----------------------------------------------------------------------------
(* The hooks around a tool call.                                            *)

\* A guard that comes first.
GuardFirst == Head(chain) = "guard"

\* A message of the transcript; a request may begin with one more kind.
Entries == [who : {"user", "assistant", "refusal", "result", "edited", "removed"}, turn : Nat]
RequestEntries == [who : {"user", "assistant", "refusal", "result", "edited", "removed", "memory"}, turn : Nat]
LedgerEntries == [of : {"cost", "time"}, turn : Nat]
Fragments == {"base", "skills", "edit"}

HookTypes ==
    /\ chain \in Chains /\ policy \in Policies /\ turn \in Nat /\ (at = "start" <=> turn = 0)
    /\ at \in {"start", "context", "request", "response", "tool", "result", "end", "over"}
    /\ wanted \in ToolCalls \cup {NoneWanted} /\ (at \in {"tool", "result"} => wanted \in ToolCalls)
    /\ messages \in Seq(Entries)
    /\ prompt \in SUBSET Fragments /\ request \in [messages : Seq(RequestEntries), prompt : SUBSET Fragments]
    /\ ran \in SUBSET [turn : Nat, call : ToolCalls]
    /\ ledger \in Seq(LedgerEntries)

\* One call a turn, by its own turn's choice, and none that a first guard refuses.
OneRunATurn ==
    /\ \A r \in ran : r.turn \in 1..turn /\ (r.turn = turn => at \in {"result", "end", "over"})
    /\ \A r \in ran, q \in ran : r.turn = q.turn => r = q
    /\ at = "result" => [turn |-> turn, call |-> wanted] \in ran

RanAllowed == GuardFirst => \A r \in ran : ~Refused(r.call)

\* What a turn leaves in the transcript it leaves when its call ended.
ResultsInTime ==
    \A i \in DOMAIN messages :
        /\ messages[i].turn <= turn
        /\ messages[i].who \in {"result", "edited", "removed"} /\ messages[i].turn = turn => at \in {"end", "over"}

\* The ledger's entries are of turns gone by, or of this one as far as it got; none is there twice.
LedgerInTime ==
    /\ \A i \in DOMAIN ledger, j \in DOMAIN ledger : ledger[i] = ledger[j] => i = j
    /\ \A i \in DOMAIN ledger :
          /\ ledger[i].turn \in 1..turn
          /\ ledger[i].turn = turn => at = "over" \/ (at = "end" /\ ledger[i].of = "cost")

\* A cost is of what ran and was not taken back.
CostsOfKept ==
    \A i \in DOMAIN ledger : ledger[i].of = "cost" =>
        /\ \E r \in ran : r.turn = ledger[i].turn /\ r.call.cost
        /\ \A j \in DOMAIN messages : messages[j].turn = ledger[i].turn => messages[j].who # "removed"

\* A first guard hears of every result and of the end of every turn.
GuardHears == GuardFirst =>
    /\ \A t \in 1..(turn - 1) : \E i \in DOMAIN ledger : ledger[i] = [of |-> "time", turn |-> t]
    /\ \A r \in ran, i \in DOMAIN messages :
          r.call.cost /\ ~Leaks(r.call) /\ messages[i].turn = r.turn /\ messages[i].who \in {"result", "edited"} =>
              \E j \in DOMAIN ledger : ledger[j] = [of |-> "cost", turn |-> r.turn]

\* What is recalled stands first in a request.
RecallFirst == \A i \in DOMAIN request.messages : request.messages[i].who = "memory" => i = 1

HookInv == HookTypes /\ OneRunATurn /\ RanAllowed /\ ResultsInTime /\ LedgerInTime /\ CostsOfKept /\ GuardHears /\ RecallFirst

\* What a step adds is an entry.
LEMMA EntryKinds ==
  /\ \A t \in Nat : \A who \in {"user", "assistant", "refusal", "result", "edited", "removed"} : [who |-> who, turn |-> t] \in Entries /\ <<[who |-> who, turn |-> t]>> \in Seq(Entries)
  /\ \A t \in Nat : <<[who |-> "memory", turn |-> t]>> \in Seq(RequestEntries)
  /\ \A t \in Nat : \A of \in {"cost", "time"} : [of |-> of, turn |-> t] \in LedgerEntries /\ <<[of |-> of, turn |-> t]>> \in Seq(LedgerEntries)
  /\ Seq(Entries) \subseteq Seq(RequestEntries)
<1>1. Entries \subseteq RequestEntries
  BY DEF Entries, RequestEntries
<1>2. Seq(Entries) \subseteq Seq(RequestEntries)
  <2>1. SUFFICES ASSUME NEW q \in Seq(Entries) PROVE q \in Seq(RequestEntries)
    OBVIOUS
  <2>2. Len(q) \in Nat /\ q \in [1..Len(q) -> Entries]
    BY LenProperties
  <2>3. q \in [1..Len(q) -> RequestEntries]
    BY <1>1, <2>2
  <2> QED
    BY <2>2, <2>3
<1>3. \A t \in Nat : [who |-> "memory", turn |-> t] \in RequestEntries
  BY DEF RequestEntries
<1>4. \A t \in Nat : \A who \in {"user", "assistant", "refusal", "result", "edited", "removed"} : [who |-> who, turn |-> t] \in Entries
  BY DEF Entries
<1>5. \A t \in Nat : \A of \in {"cost", "time"} : [of |-> of, turn |-> t] \in LedgerEntries
  BY DEF LedgerEntries
<1> QED
  BY <1>2, <1>3, <1>4, <1>5, SingleSeq

\* It holds at the start.
LEMMA HookInvInit == HookInit => HookInv
<1> SUFFICES ASSUME HookInit PROVE HookInv
  OBVIOUS
<1>1. HookTypes
  <2>1. <<[who |-> "user", turn |-> 0]>> \in Seq(Entries) /\ <<>> \in Seq(RequestEntries) /\ <<>> \in Seq(LedgerEntries)
    <3>1. "user" \in {"user", "assistant", "refusal", "result", "edited", "removed"} /\ 0 \in Nat
      OBVIOUS
    <3> QED
      BY <3>1, EntryKinds, SingleSeq
  <2>2. {"base", "skills"} \in SUBSET Fragments /\ {} \in SUBSET Fragments
    BY DEF Fragments
  <2>3. messages = <<[who |-> "user", turn |-> 0]>> /\ request = [messages |-> <<>>, prompt |-> {}] /\ ledger = <<>>
    BY DEF HookInit, Says
  <2>4. request \in [messages : Seq(RequestEntries), prompt : SUBSET Fragments]
    BY <2>1, <2>2, <2>3
  <2> QED
    BY <2>1, <2>2, <2>3, <2>4 DEF HookInit, HookTypes
<1>2. messages = <<[who |-> "user", turn |-> 0]>> /\ turn = 0 /\ ran = {} /\ ledger = <<>> /\ request.messages = <<>> /\ at = "start"
  BY DEF HookInit, Says
<1>3. 1..(turn - 1) = {} /\ DOMAIN ledger = {} /\ DOMAIN request.messages = {} /\ DOMAIN messages = {1}
  BY <1>2
<1>4. OneRunATurn /\ RanAllowed
  BY <1>2 DEF OneRunATurn, RanAllowed
<1>5. ResultsInTime
  BY <1>2, <1>3 DEF ResultsInTime
<1>6. LedgerInTime /\ CostsOfKept
  BY <1>2, <1>3 DEF LedgerInTime, CostsOfKept
<1>7. GuardHears
  BY <1>2, <1>3 DEF GuardHears
<1>8. RecallFirst
  BY <1>3 DEF RecallFirst
<1> QED
  BY <1>1, <1>4, <1>5, <1>6, <1>7, <1>8 DEF HookInv

\* A step keeps the types,
LEMMA HookTypesStep == HookInv /\ HookNext => HookTypes'
<1> SUFFICES ASSUME HookInv, HookNext PROVE HookTypes'
  OBVIOUS
<1>0. messages \in Seq(RequestEntries) /\ turn \in Nat
  BY EntryKinds DEF HookInv, HookTypes
<1> USE DEF HookInv, HookTypes
<1>1. CASE BeforeAgentStart
  BY <1>1 DEF BeforeAgentStart, AppliedTo, Fragments
<1>2. CASE OnContext
  <2>1. \A stalled, found : Recalled(stalled, found) \in Seq(RequestEntries)
    BY <1>0, EntryKinds, ConcatProperties DEF Recalled
  <2> QED
    <3>1. PICK stalled \in Stalls("on_context"), found \in BOOLEAN : request' = [request EXCEPT !.messages = Recalled(stalled, found)]
      BY <1>2 DEF OnContext
    <3>2. request' \in [messages : Seq(RequestEntries), prompt : SUBSET Fragments]
      BY <2>1, <3>1
    <3> QED
      BY <1>2, <3>2 DEF OnContext
<1>3. CASE BeforeProviderRequest
  BY <1>3 DEF BeforeProviderRequest, AppliedTo, Fragments
<1>4. CASE Response
  <2>1. Append(messages, [who |-> "assistant", turn |-> turn]) \in Seq(Entries)
    BY EntryKinds, AppendProperties
  <2>2. chain' = chain /\ policy' = policy /\ turn' = turn /\ prompt' = prompt /\ request' = request /\ ran' = ran
        /\ ledger' = ledger /\ at = "response" /\ wanted' \in ToolCalls \cup {NoneWanted} /\ at' \in {"end", "tool"}
        /\ (at' = "tool" => wanted' \in ToolCalls) /\ messages' = Append(messages, [who |-> "assistant", turn |-> turn])
    BY <1>4 DEF Response, Says
  <2> QED
    BY <2>1, <2>2
<1>5. CASE RunFails
  BY <1>5 DEF RunFails
<1>6. CASE OnToolCall
  <2>1. Append(messages, [who |-> "refusal", turn |-> turn]) \in Seq(Entries)
    BY EntryKinds, AppendProperties
  <2>2. wanted \in ToolCalls
    BY <1>6 DEF OnToolCall
  <2>3. ran \cup {[turn |-> turn, call |-> wanted]} \in SUBSET [turn : Nat, call : ToolCalls]
    BY <2>2
  <2>4. chain' = chain /\ policy' = policy /\ turn' = turn /\ wanted' = wanted /\ ledger' = ledger /\ prompt' = prompt
        /\ request' = request /\ at = "tool" /\ at' \in {"end", "result"}
        /\ messages' \in {messages, Append(messages, [who |-> "refusal", turn |-> turn])}
        /\ ran' \in {ran, ran \cup {[turn |-> turn, call |-> wanted]}}
    BY <1>6 DEF OnToolCall, Says
  <2> QED
    BY <2>1, <2>2, <2>3, <2>4
<1>7. CASE OnToolResult
  <2>1. \A stalled, edits : Append(messages, Says(ResultOf(stalled, edits))) \in Seq(Entries)
    <3>1. \A stalled, edits : ResultOf(stalled, edits) \in {"result", "edited", "removed"}
      BY DEF ResultOf
    <3>2. \A stalled, edits : Says(ResultOf(stalled, edits)) \in Entries
      BY <3>1, EntryKinds DEF Says
    <3> QED
      BY <3>2, AppendProperties
  <2>2. \A stalled : ledger \o Charged(stalled) \in Seq(LedgerEntries)
    <3>1. <<[of |-> "cost", turn |-> turn]>> \in Seq(LedgerEntries) /\ <<>> \in Seq(LedgerEntries)
      <4>1. "cost" \in {"cost", "time"} /\ turn \in Nat
        OBVIOUS
      <4> QED
        BY <4>1, EntryKinds, SingleSeq
    <3> QED
      BY <3>1, ConcatProperties DEF Charged
  <2> QED
    BY <1>7, <2>1, <2>2 DEF OnToolResult
<1>8. CASE TurnEnd
  <2>1. \A stalled : ledger \o Timed(stalled) \in Seq(LedgerEntries)
    <3>1. <<[of |-> "time", turn |-> turn]>> \in Seq(LedgerEntries) /\ <<>> \in Seq(LedgerEntries)
      <4>1. "time" \in {"cost", "time"} /\ turn \in Nat
        OBVIOUS
      <4> QED
        BY <4>1, EntryKinds, SingleSeq
    <3> QED
      BY <3>1, ConcatProperties DEF Timed
  <2> QED
    BY <1>8, <2>1 DEF TurnEnd
<1> QED
  BY <1>1, <1>2, <1>3, <1>4, <1>5, <1>6, <1>7, <1>8 DEF HookNext

\* A step keeps one run a turn,
LEMMA OneRunATurnStep == HookInv /\ HookNext => OneRunATurn'
<1> SUFFICES ASSUME HookInv, HookNext PROVE OneRunATurn'
  OBVIOUS
<1> USE DEF HookInv, HookTypes, OneRunATurn
<1>1. CASE BeforeAgentStart \/ OnContext \/ BeforeProviderRequest \/ RunFails \/ Response
  <2>1. ran' = ran /\ at \in {"start", "context", "request", "response"} /\ at' # "result"
        /\ (turn' = turn \/ (at = "start" /\ turn' = 1))
    BY <1>1 DEF BeforeAgentStart, OnContext, BeforeProviderRequest, Response, RunFails
  <2>2. \A r \in ran : r.turn \in 1..turn /\ r.turn # turn
    BY <2>1
  <2>3. \A r \in ran : r.turn \in 1..turn' /\ r.turn # turn'
    BY <2>1, <2>2
  <2> QED
    BY <2>1, <2>3
<1>2. CASE OnToolCall
  <2>1. turn' = turn /\ wanted' = wanted /\ at = "tool" /\ at' \in {"end", "result"} /\ turn \in Nat \ {0}
        /\ \/ ran' = ran /\ at' = "end"
           \/ ran' = ran \cup {[turn |-> turn, call |-> wanted]} /\ at' = "result"
    BY <1>2 DEF OnToolCall
  <2>2. \A r \in ran : r.turn \in 1..turn /\ r.turn # turn
    BY <2>1
  <2>3. CASE ran' = ran /\ at' = "end"
    BY <2>1, <2>2, <2>3
  <2>4. CASE ran' = ran \cup {[turn |-> turn, call |-> wanted]} /\ at' = "result"
    BY <2>1, <2>2, <2>4
  <2> QED
    BY <2>1, <2>3, <2>4
<1>3. CASE OnToolResult \/ TurnEnd
  <2>1. ran' = ran /\ turn' \in {turn, turn + 1} /\ at' # "result" /\ (turn' = turn => at' \in {"end", "over"})
    BY <1>3 DEF OnToolResult, TurnEnd
  <2>2. \A r \in ran : r.turn \in 1..turn
    OBVIOUS
  <2> QED
    BY <2>1, <2>2
<1> QED
  BY <1>1, <1>2, <1>3 DEF HookNext

\* The chain and the policy of a run stay, and so does what is refused.
LEMMA RefusedStays ==
  ASSUME HookNext PROVE chain' = chain /\ policy' = policy /\ (GuardFirst' <=> GuardFirst) /\ \A c : Refused(c)' <=> Refused(c)
<1>1. chain' = chain /\ policy' = policy
  BY DEF HookNext, BeforeAgentStart, OnContext, BeforeProviderRequest, Response, RunFails, OnToolCall, OnToolResult, TurnEnd
<1>2. GuardFirst' <=> GuardFirst
  BY <1>1 DEF GuardFirst
<1>3. \A s : PathLike(s)' <=> PathLike(s)
  BY DEF PathLike
<1>4. \A s : NormalizePath(s)' = NormalizePath(s)
  OBVIOUS
<1>5. \A s : IsPathAllowed(s)' <=> IsPathAllowed(s)
  BY <1>1 DEF IsPathAllowed
<1>6. \A c : ExtractPaths(c)' = ExtractPaths(c)
  BY <1>1 DEF ExtractPaths
<1> QED
  BY <1>1, <1>2, <1>5, <1>6 DEF Refused

\* Where the entries of the transcript and the ledger are.
LEMMA HookEntries ==
  ASSUME HookTypes
  PROVE  /\ messages \in Seq(Entries)
         /\ DOMAIN messages = 1..Len(messages) /\ Len(messages) \in Nat
         /\ \A i \in DOMAIN messages : messages[i] \in Entries
         /\ ledger \in Seq(LedgerEntries) /\ DOMAIN ledger = 1..Len(ledger) /\ Len(ledger) \in Nat
         /\ \A i \in DOMAIN ledger : ledger[i] \in LedgerEntries
<1>1. messages \in Seq(Entries) /\ ledger \in Seq(LedgerEntries)
  BY DEF HookTypes
<1> QED
  BY <1>1, LenProperties

\* that what ran was allowed,
LEMMA RanAllowedStep == HookInv /\ HookNext => RanAllowed'
<1> SUFFICES ASSUME HookInv, HookNext, GuardFirst PROVE \A r \in ran' : ~Refused(r.call)
  BY RefusedStays DEF RanAllowed
<1>1. chain \in Seq({"guard", "memory", "extension"}) /\ chain # <<>> /\ chain[1] = "guard" /\ 1 \in DOMAIN chain
  BY HookAssumption DEF HookInv, HookTypes, GuardFirst
<1>2. CASE OnToolCall
  <2>1. PICK stalled \in Stalls("on_tool_call") :
            IF Block(stalled) THEN ran' = ran ELSE ran' = ran \cup {[turn |-> turn, call |-> wanted]}
    BY <1>2 DEF OnToolCall
  <2>2. stalled = Nobody \/ (stalled \in DOMAIN chain /\ stalled # 1)
    BY <1>1 DEF Stalls, MayLag
  <2>3. stalled = Nobody \/ stalled > 1
    BY <1>1, <2>2
  <2>4. ~Block(stalled) => ~Refused(wanted)
    BY <1>1, <2>3 DEF Block, BlockedAt
  <2> QED
    BY <2>1, <2>4 DEF HookInv, RanAllowed
<1>3. CASE ~OnToolCall
  <2>1. ran' = ran
    BY <1>3 DEF HookNext, BeforeAgentStart, OnContext, BeforeProviderRequest, Response, RunFails, OnToolResult, TurnEnd
  <2> QED
    BY <2>1 DEF HookInv, RanAllowed
<1> QED
  BY <1>2, <1>3

\* What becomes of the transcript: it grows by one message of the turn, or stays.
LEMMA MessagesGrow ==
  ASSUME HookInv, HookNext
  PROVE  \/ messages' = messages /\ at # "result"
         \/ /\ at \in {"response", "tool"} /\ turn' = turn
            /\ \E who \in {"assistant", "refusal"} : messages' = Append(messages, [who |-> who, turn |-> turn])
         \/ /\ OnToolResult
            /\ \E who \in {"result", "edited", "removed"} : messages' = Append(messages, [who |-> who, turn |-> turn])
<1>1. CASE OnToolResult
  BY <1>1 DEF OnToolResult, ResultOf, Says
<1>2. CASE Response \/ OnToolCall
  BY <1>2 DEF Response, OnToolCall, Says
<1>3. CASE BeforeAgentStart \/ OnContext \/ BeforeProviderRequest \/ RunFails \/ TurnEnd
  BY <1>3 DEF BeforeAgentStart, OnContext, BeforeProviderRequest, RunFails, TurnEnd
<1> QED
  BY <1>1, <1>2, <1>3 DEF HookNext

\* that results come in their turn,
LEMMA ResultsInTimeStep == HookInv /\ HookNext => ResultsInTime'
<1> SUFFICES ASSUME HookInv, HookNext PROVE ResultsInTime'
  OBVIOUS
<1>1. turn' >= turn /\ turn \in Nat /\ turn' \in Nat /\ (turn' = turn => (at \in {"end", "over"} => at' \in {"end", "over"}))
  BY DEF HookInv, HookTypes, HookNext, BeforeAgentStart, OnContext, BeforeProviderRequest, Response, RunFails, OnToolCall, OnToolResult, TurnEnd
<1>2. \A i \in DOMAIN messages : messages[i] \in Entries
  BY HookEntries DEF HookInv
<1>3. CASE messages' = messages
  BY <1>1, <1>2, <1>3 DEF HookInv, ResultsInTime, Entries
<1>4. ASSUME NEW who, messages' = Append(messages, [who |-> who, turn |-> turn]), turn' = turn, who \in {"result", "edited", "removed"} => at' = "end"
      PROVE  ResultsInTime'
  <2> SUFFICES ASSUME NEW i \in DOMAIN messages'
               PROVE  messages'[i].turn <= turn /\ (messages'[i].who \in {"result", "edited", "removed"} /\ messages'[i].turn = turn => at' \in {"end", "over"})
    BY <1>4 DEF ResultsInTime
  <2>1. messages \in Seq(Entries)
    BY DEF HookInv, HookTypes
  <2>2. (i \in DOMAIN messages /\ messages'[i] = messages[i]) \/ messages'[i] = [who |-> who, turn |-> turn]
    BY <1>4, <2>1, AppendedAt
  <2> QED
    BY <1>1, <1>2, <1>4, <2>2 DEF HookInv, ResultsInTime
<1>5. OnToolResult => turn' = turn /\ at' = "end"
  BY DEF OnToolResult
<1> QED
  BY <1>3, <1>4, <1>5, MessagesGrow

\* The ledger grows by a cost when a call's result is kept, by the time at the end of a turn.
LEMMA LedgerGrows ==
  ASSUME HookInv, HookNext
  PROVE  \/ ledger' = ledger
         \/ /\ at = "result" /\ at' = "end" /\ wanted.cost /\ ~Leaks(wanted) /\ turn' = turn
            /\ ledger' = Append(ledger, [of |-> "cost", turn |-> turn])
            /\ \E who \in {"result", "edited"} : messages' = Append(messages, [who |-> who, turn |-> turn])
         \/ /\ at = "end" /\ messages' = messages
            /\ ledger' = Append(ledger, [of |-> "time", turn |-> turn])
            /\ (at' = "over" /\ turn' = turn) \/ (at' = "context" /\ turn' = turn + 1)
<1>0. /\ ledger \o <<>> = ledger
      /\ \A e \in LedgerEntries : ledger \o <<e>> = Append(ledger, e)
  BY ConcatEmptySeq, AppendIsConcat DEF HookInv, HookTypes
<1>1. CASE OnToolResult
  <2>1. PICK stalled \in Stalls("on_tool_result"), edits \in BOOLEAN :
           messages' = Append(messages, Says(ResultOf(stalled, edits))) /\ ledger' = ledger \o Charged(stalled)
    BY <1>1 DEF OnToolResult
  <2>2. CASE Reached("guard", stalled) /\ ~Leaks(wanted) /\ wanted.cost
    <3>1. Charged(stalled) = <<[of |-> "cost", turn |-> turn]>>
      BY <2>2 DEF Charged
    <3>2. ResultOf(stalled, edits) \in {"result", "edited"}
      <4> DEFINE speakers == {i \in DOMAIN chain : (chain[i] = "guard" /\ Leaks(wanted)) \/ (chain[i] = "extension" /\ edits)}
      <4>1. CASE stalled # Nobody \/ speakers = {}
        BY <4>1 DEF ResultOf
      <4>2. CASE stalled = Nobody /\ speakers # {}
        <5>1. speakers \subseteq 1..Len(chain) /\ Len(chain) \in Nat
          BY HookAssumption, LenProperties DEF HookInv, HookTypes
        <5>2. Max(speakers) \in speakers
          <6> HIDE DEF speakers
          <6> QED
            BY <4>2, <5>1, MaxOfSome
        <5>3. chain[Max(speakers)] = "extension"
          BY <5>2, <2>2
        <5> QED
          BY <5>3 DEF ResultOf
      <4> QED
        BY <4>1, <4>2
    <3>3. [of |-> "cost", turn |-> turn] \in LedgerEntries
      BY EntryKinds DEF HookInv, HookTypes
    <3> QED
      BY <1>0, <1>1, <2>1, <2>2, <3>1, <3>2, <3>3 DEF OnToolResult, Says
  <2>3. CASE ~(Reached("guard", stalled) /\ ~Leaks(wanted) /\ wanted.cost)
    BY <1>0, <2>1, <2>3 DEF Charged
  <2> QED
    BY <2>2, <2>3
<1>2. CASE TurnEnd
  <2>1. PICK stalled \in Stalls("on_turn_end") : ledger' = ledger \o Timed(stalled)
    BY <1>2 DEF TurnEnd
  <2>2. [of |-> "time", turn |-> turn] \in LedgerEntries
    BY EntryKinds DEF HookInv, HookTypes
  <2>3. ledger' = ledger \/ ledger' = Append(ledger, [of |-> "time", turn |-> turn])
    BY <1>0, <2>1, <2>2 DEF Timed
  <2> QED
    BY <1>2, <2>3 DEF TurnEnd
<1>3. CASE BeforeAgentStart \/ OnContext \/ BeforeProviderRequest \/ RunFails \/ Response \/ OnToolCall
  BY <1>3 DEF BeforeAgentStart, OnContext, BeforeProviderRequest, RunFails, Response, OnToolCall
<1> QED
  BY <1>1, <1>2, <1>3 DEF HookNext

\* that entries come in theirs and once,
LEMMA LedgerInTimeStep == HookInv /\ HookNext => LedgerInTime'
<1> SUFFICES ASSUME HookInv, HookNext PROVE LedgerInTime'
  OBVIOUS
<1>1. turn' >= turn /\ turn \in Nat /\ turn' \in Nat /\ (at \in {"end", "result"} => turn >= 1)
      /\ (at = "over" => FALSE) /\ (at = "end" /\ turn' = turn => at' = "over")
  BY DEF HookInv, HookTypes, HookNext, BeforeAgentStart, OnContext, BeforeProviderRequest, Response, RunFails, OnToolCall, OnToolResult, TurnEnd
<1>2. ledger \in Seq(LedgerEntries) /\ \A i \in DOMAIN ledger : ledger[i] \in LedgerEntries
  BY HookEntries DEF HookInv
<1>3. \A i \in DOMAIN ledger : ledger[i].turn \in 1..turn /\ (ledger[i].turn = turn => at = "end" /\ ledger[i].of = "cost")
  BY <1>1 DEF HookInv, LedgerInTime
<1>4. CASE ledger' = ledger
  BY <1>1, <1>2, <1>3, <1>4 DEF HookInv, LedgerInTime
<1>5. ASSUME NEW of, ledger' = Append(ledger, [of |-> of, turn |-> turn]), turn >= 1,
             \A i \in DOMAIN ledger : ledger[i] # [of |-> of, turn |-> turn],
             turn' = turn => at' = "over" \/ (at' = "end" /\ of = "cost")
      PROVE  LedgerInTime'
  <2> DEFINE e == [of |-> of, turn |-> turn]
  <2>1. \A i \in DOMAIN ledger' : (i \in DOMAIN ledger /\ ledger'[i] = ledger[i]) \/ (i = Len(ledger) + 1 /\ ledger'[i] = e)
    BY <1>2, <1>5, AppendedAt
  <2>2. ASSUME NEW i \in DOMAIN ledger', NEW j \in DOMAIN ledger', ledger'[i] = ledger'[j] PROVE i = j
    BY <1>5, <2>1, <2>2 DEF HookInv, LedgerInTime
  <2>3. ASSUME NEW i \in DOMAIN ledger'
        PROVE  ledger'[i].turn \in 1..turn' /\ (ledger'[i].turn = turn' => at' = "over" \/ (at' = "end" /\ ledger'[i].of = "cost"))
    <3>1. e.turn = turn /\ e.of = of
      OBVIOUS
    <3>2. CASE ledger'[i] = e
      BY <1>1, <1>5, <3>1, <3>2
    <3>3. CASE i \in DOMAIN ledger /\ ledger'[i] = ledger[i]
      BY <1>1, <1>3, <3>3
    <3> QED
      BY <2>1, <3>2, <3>3
  <2> QED
    BY <2>2, <2>3 DEF LedgerInTime
<1> QED
  BY <1>1, <1>3, <1>4, <1>5, LedgerGrows

\* that a cost is of a result that was kept,
LEMMA CostsOfKeptStep == HookInv /\ HookNext => CostsOfKept'
<1> SUFFICES ASSUME HookInv, HookNext, NEW i \in DOMAIN ledger', ledger'[i].of = "cost"
             PROVE  /\ \E r \in ran' : r.turn = ledger'[i].turn /\ r.call.cost
                    /\ \A j \in DOMAIN messages' : messages'[j].turn = ledger'[i].turn => messages'[j].who # "removed"
  BY DEF CostsOfKept
<1>1. ran \subseteq ran'
  BY DEF HookNext, BeforeAgentStart, OnContext, BeforeProviderRequest, Response, RunFails, OnToolCall, OnToolResult, TurnEnd
<1>2. HookTypes
  BY DEF HookInv
<1>3. CASE i \in DOMAIN ledger /\ ledger'[i] = ledger[i]
  <2>1. \E r \in ran : r.turn = ledger[i].turn /\ r.call.cost
    BY <1>3 DEF HookInv, CostsOfKept
  <2>2. ASSUME NEW j \in DOMAIN messages', messages'[j].turn = ledger[i].turn PROVE messages'[j].who # "removed"
    <3>1. CASE j \in DOMAIN messages /\ messages'[j] = messages[j]
      BY <1>3, <2>2, <3>1 DEF HookInv, CostsOfKept
    <3>2. CASE j \notin DOMAIN messages \/ messages'[j] # messages[j]
      <4>1. \E who : messages' = Append(messages, [who |-> who, turn |-> turn])
                     /\ (who \in {"assistant", "refusal"} \/ OnToolResult)
        BY <2>2, <3>2, MessagesGrow
      <4>2. PICK who : messages' = Append(messages, [who |-> who, turn |-> turn])
                       /\ (who \in {"assistant", "refusal"} \/ OnToolResult)
        BY <4>1
      <4>3. messages'[j] = [who |-> who, turn |-> turn]
        BY <1>2, <2>2, <3>2, <4>2, HookEntries, AppendedAt
      <4>4. CASE OnToolResult
        <5>1. ledger[i].turn # turn
          BY <1>3, <4>4 DEF HookInv, LedgerInTime, OnToolResult
        <5> QED
          BY <2>2, <4>3, <5>1
      <4> QED
        BY <4>2, <4>3, <4>4
    <3> QED
      BY <3>1, <3>2
  <2> QED
    BY <1>1, <1>3, <2>1, <2>2
<1>4. CASE ~(i \in DOMAIN ledger /\ ledger'[i] = ledger[i])
  <2>1. PICK of : ledger' = Append(ledger, [of |-> of, turn |-> turn])
    BY <1>4, LedgerGrows
  <2>2. ledger'[i] = [of |-> of, turn |-> turn]
    BY <1>2, <1>4, <2>1, HookEntries, AppendedAt
  <2>3. of = "cost"
    BY <2>2
  <2>4. ledger' # ledger /\ ledger' # Append(ledger, [of |-> "time", turn |-> turn])
    <3>1. Len(ledger) + 1 \in DOMAIN ledger' /\ ledger'[Len(ledger) + 1] = [of |-> "cost", turn |-> turn]
      BY <1>2, <2>1, <2>3, HookEntries, AppendedAt
    <3>2. Append(ledger, [of |-> "time", turn |-> turn])[Len(ledger) + 1] = [of |-> "time", turn |-> turn]
      BY <1>2, HookEntries, AppendedAt
    <3>3. [of |-> "time", turn |-> turn] # [of |-> "cost", turn |-> turn] /\ Len(ledger) + 1 \notin DOMAIN ledger
      BY <1>2, HookEntries
    <3> QED
      BY <3>1, <3>2, <3>3
  <2>5. /\ at = "result" /\ wanted.cost
        /\ \E who \in {"result", "edited"} : messages' = Append(messages, [who |-> who, turn |-> turn])
    BY <2>4, LedgerGrows
  <2>6. \E r \in ran' : r.turn = turn /\ r.call.cost
    BY <1>1, <2>5 DEF HookInv, OneRunATurn
  <2>7. PICK who \in {"result", "edited"} : messages' = Append(messages, [who |-> who, turn |-> turn])
    BY <2>5
  <2>8. ASSUME NEW j \in DOMAIN messages', messages'[j].turn = turn PROVE messages'[j].who # "removed"
    <3>1. (j \in DOMAIN messages /\ messages'[j] = messages[j]) \/ messages'[j] = [who |-> who, turn |-> turn]
      BY <1>2, <2>7, <2>8, HookEntries, AppendedAt
    <3> QED
      BY <2>5, <2>8, <3>1 DEF HookInv, ResultsInTime
  <2> QED
    BY <2>2, <2>6, <2>8
<1> QED
  BY <1>3, <1>4

\* that what is recalled comes first,
LEMMA RecallFirstStep == HookInv /\ HookNext => RecallFirst'
<1> SUFFICES ASSUME HookInv, HookNext PROVE RecallFirst'
  OBVIOUS
<1>1. CASE OnContext
  <2>1. PICK stalled \in Stalls("on_context"), found \in BOOLEAN : request'.messages = Recalled(stalled, found)
    BY <1>1 DEF OnContext
  <2>2. HookTypes
    BY DEF HookInv
  <2>3. \A i \in DOMAIN messages : messages[i].who # "memory"
    BY <2>2, HookEntries DEF Entries
  <2>4. CASE request'.messages = messages
    BY <2>3, <2>4 DEF RecallFirst
  <2>5. CASE request'.messages = <<[who |-> "memory", turn |-> turn]>> \o messages
    <3> DEFINE recall == <<[who |-> "memory", turn |-> turn]>>
    <3>1. messages \in Seq(RequestEntries) /\ recall \in Seq(RequestEntries)
      BY <2>2, EntryKinds DEF HookTypes
    <3>2. Len(recall) = 1 /\ Len(messages) \in Nat /\ DOMAIN messages = 1..Len(messages)
      BY <2>2, HookEntries
    <3>4. /\ DOMAIN (recall \o messages) = 1..(1 + Len(messages))
          /\ \A i \in 1..(1 + Len(messages)) : i > 1 => (recall \o messages)[i] = messages[i - 1]
      <4> HIDE DEF recall
      <4>0. \A p \in Seq(RequestEntries), q \in Seq(RequestEntries) : p \o q \in Seq(RequestEntries) /\ Len(p \o q) = Len(p) + Len(q)
                /\ \A i \in 1..(Len(p) + Len(q)) : (p \o q)[i] = IF i <= Len(p) THEN p[i] ELSE q[i - Len(p)]
        BY ConcatProperties
      <4> DEFINE q == recall \o messages
      <4>1. q \in Seq(RequestEntries) /\ Len(q) = Len(recall) + Len(messages)
        BY <3>1, <4>0
      <4>2. \A i \in 1..(Len(recall) + Len(messages)) : q[i] = IF i <= Len(recall) THEN recall[i] ELSE messages[i - Len(recall)]
        BY <3>1, <4>0
      <4> HIDE DEF q
      <4>3. Len(q) = 1 + Len(messages) /\ \A i \in 1..(1 + Len(messages)) : i > 1 => q[i] = messages[i - 1]
        BY <3>2, <4>1, <4>2
      <4>4. DOMAIN q = 1..(1 + Len(messages))
        BY <4>1, <4>3, LenProperties
      <4> QED
        BY <4>3, <4>4 DEF q
    <3>3. ASSUME NEW i \in DOMAIN request'.messages, request'.messages[i].who = "memory", i # 1 PROVE FALSE
      <4>1. i \in 1..(1 + Len(messages)) /\ i > 1 /\ i - 1 \in DOMAIN messages
        BY <2>5, <3>2, <3>4, <3>3
      <4>2. request'.messages[i] = messages[i - 1]
        BY <2>5, <3>4, <4>1
      <4> QED
        BY <2>3, <3>3, <4>1, <4>2
    <3> QED
      BY <3>3 DEF RecallFirst
  <2> QED
    BY <2>1, <2>4, <2>5 DEF Recalled
<1>2. CASE ~OnContext
  <2>1. request'.messages = request.messages
    BY <1>2 DEF HookInv, HookTypes, HookNext, BeforeAgentStart, BeforeProviderRequest, Response, RunFails, OnToolCall, OnToolResult, TurnEnd
  <2> QED
    BY <2>1 DEF HookInv, RecallFirst
<1> QED
  BY <1>1, <1>2

\* A guard that comes first is asked whoever stalls.
LEMMA FirstGuardReached ==
  ASSUME HookInv, GuardFirst, NEW point, NEW stalled \in Stalls(point)
  PROVE  Reached("guard", stalled)
<1>1. chain \in Seq({"guard", "memory", "extension"}) /\ chain # <<>> /\ chain[1] = "guard" /\ 1 \in DOMAIN chain
  BY HookAssumption DEF HookInv, HookTypes, GuardFirst
<1>2. stalled = Nobody \/ (stalled \in DOMAIN chain /\ stalled # 1)
  BY <1>1 DEF Stalls, MayLag
<1>3. stalled = Nobody \/ stalled > 1
  BY <1>1, <1>2, LenProperties
<1> QED
  BY <1>1, <1>3 DEF Reached

\* and that a first guard hears of every result.
LEMMA GuardHearsStep == HookInv /\ HookNext => GuardHears'
<1> SUFFICES ASSUME HookInv, HookNext, GuardFirst PROVE GuardHears'
  BY RefusedStays DEF GuardHears
<1>0. HookTypes /\ GuardHears
  BY DEF HookInv
<1>1. \A e \in LedgerEntries : (\E i \in DOMAIN ledger : ledger[i] = e) => \E i \in DOMAIN ledger' : ledger'[i] = e
  <2>1. CASE ledger' = ledger
    BY <2>1
  <2>2. ASSUME NEW of, ledger' = Append(ledger, [of |-> of, turn |-> turn])
        PROVE  \A i \in DOMAIN ledger : i \in DOMAIN ledger' /\ ledger'[i] = ledger[i]
    BY <1>0, <2>2, HookEntries, AppendedAt
  <2>3. \A i \in DOMAIN ledger : i \in DOMAIN ledger' /\ ledger'[i] = ledger[i]
    BY <2>1, <2>2, LedgerGrows
  <2> QED
    BY <2>3
<1>2. ASSUME NEW t \in 1..(turn' - 1) PROVE \E i \in DOMAIN ledger' : ledger'[i] = [of |-> "time", turn |-> t]
  <2>1. [of |-> "time", turn |-> t] \in LedgerEntries
    <3>1. t \in Nat
      OBVIOUS
    <3> QED
      BY <3>1, EntryKinds
  <2>2. CASE t \in 1..(turn - 1)
    BY <1>0, <1>1, <2>1, <2>2 DEF GuardHears
  <2>3. CASE t \notin 1..(turn - 1)
    <3>1. TurnEnd /\ t = turn
      <4>1. turn \in Nat /\ (turn' = turn \/ (turn = 0 /\ turn' = 1) \/ (TurnEnd /\ turn' = turn + 1))
        BY <1>0 DEF HookTypes, HookNext, BeforeAgentStart, OnContext, BeforeProviderRequest, Response, RunFails, OnToolCall, OnToolResult, TurnEnd
      <4> QED
        BY <2>3, <4>1
    <3>2. PICK stalled \in Stalls("on_turn_end") : ledger' = ledger \o Timed(stalled)
      BY <3>1 DEF TurnEnd
    <3>3. Timed(stalled) = <<[of |-> "time", turn |-> turn]>>
      BY <3>2, FirstGuardReached DEF Timed
    <3>4. ledger' = Append(ledger, [of |-> "time", turn |-> turn])
      BY <1>0, <2>1, <3>1, <3>2, <3>3, AppendIsConcat DEF HookTypes
    <3> QED
      BY <1>0, <3>1, <3>4, HookEntries, AppendedAt
  <2> QED
    BY <2>2, <2>3
<1>3. ASSUME NEW r \in ran', NEW i \in DOMAIN messages', r.call.cost, ~Leaks(r.call),
             messages'[i].turn = r.turn, messages'[i].who \in {"result", "edited"}
      PROVE  \E j \in DOMAIN ledger' : ledger'[j] = [of |-> "cost", turn |-> r.turn]
  <2>1. CASE OnToolResult /\ r.turn = turn
    <3>1. PICK stalled \in Stalls("on_tool_result") : ledger' = ledger \o Charged(stalled)
      BY <2>1 DEF OnToolResult
    <3>2. r = [turn |-> turn, call |-> wanted]
      BY <2>1 DEF OnToolResult, HookInv, OneRunATurn
    <3>3. Charged(stalled) = <<[of |-> "cost", turn |-> turn]>>
      BY <1>3, <3>1, <3>2, FirstGuardReached DEF Charged
    <3>4. [of |-> "cost", turn |-> turn] \in LedgerEntries
      BY <1>0, EntryKinds DEF HookTypes
    <3>5. ledger' = Append(ledger, [of |-> "cost", turn |-> turn])
      BY <1>0, <3>1, <3>3, <3>4, AppendIsConcat DEF HookTypes
    <3>6. Len(ledger) + 1 \in DOMAIN ledger' /\ ledger'[Len(ledger) + 1] = [of |-> "cost", turn |-> turn]
      BY <1>0, <3>5, HookEntries, AppendedAt
    <3> QED
      BY <2>1, <3>6
  <2>2. CASE ~(OnToolResult /\ r.turn = turn)
    <3>1. i \in DOMAIN messages /\ messages'[i] = messages[i]
      <4>1. CASE messages' = messages
        BY <4>1
      <4>2. ASSUME NEW who, messages' = Append(messages, [who |-> who, turn |-> turn]), who \in {"assistant", "refusal"} \/ OnToolResult
            PROVE  i \in DOMAIN messages /\ messages'[i] = messages[i]
        <5>1. (i \in DOMAIN messages /\ messages'[i] = messages[i]) \/ messages'[i] = [who |-> who, turn |-> turn]
          BY <1>0, <4>2, HookEntries, AppendedAt
        <5> QED
          BY <1>3, <2>2, <4>2, <5>1
      <4> QED
        BY <4>1, <4>2, MessagesGrow
    <3>2. r \in ran
      <4>1. messages[i].turn # turn \/ at \in {"end", "over"}
        BY <1>3, <3>1 DEF HookInv, ResultsInTime
      <4> QED
        BY <1>3, <3>1, <4>1 DEF HookNext, BeforeAgentStart, OnContext, BeforeProviderRequest, Response, RunFails, OnToolCall, OnToolResult, TurnEnd
    <3>3. \E j \in DOMAIN ledger : ledger[j] = [of |-> "cost", turn |-> r.turn]
      BY <1>0, <1>3, <3>1, <3>2 DEF GuardHears
    <3>4. [of |-> "cost", turn |-> r.turn] \in LedgerEntries
      BY <1>0, <3>2, EntryKinds DEF HookTypes
    <3> QED
      BY <1>1, <3>3, <3>4
  <2> QED
    BY <2>1, <2>2
<1>4. \A c : Leaks(c)' <=> Leaks(c)
  BY RefusedStays DEF Leaks, PathLike, IsPathAllowed
<1> QED
  BY <1>2, <1>3, <1>4 DEF GuardHears

\* Every step keeps the invariant.
LEMMA HookInvStep == HookInv /\ [HookNext]_hookVars => HookInv'
<1> SUFFICES ASSUME HookInv, [HookNext]_hookVars PROVE HookInv'
  OBVIOUS
<1>1. CASE HookNext
  BY <1>1, HookTypesStep, OneRunATurnStep, RanAllowedStep, ResultsInTimeStep, LedgerInTimeStep, CostsOfKeptStep,
     GuardHearsStep, RecallFirstStep DEF HookInv
<1>2. CASE UNCHANGED hookVars
  <2>1. \A c : (Refused(c)' <=> Refused(c)) /\ (Leaks(c)' <=> Leaks(c))
    <3>1. \A s : NormalizePath(s)' = NormalizePath(s)
      OBVIOUS
    <3> QED
      BY <1>2, <3>1 DEF hookVars, Refused, Leaks, ExtractPaths, IsPathAllowed, PathLike
  <2> QED
    BY <1>2, <2>1 DEF hookVars, HookInv, HookTypes, OneRunATurn, RanAllowed, ResultsInTime, LedgerInTime, CostsOfKept,
                      GuardHears, RecallFirst, GuardFirst
<1> QED
  BY <1>1, <1>2

\* Whatever the hooks answer, and whichever of them stalls (DefaultHookDispatcher and
\* CombinedDispatcher), the invariant of a turn holds.
THEOREM HookInvariant == HookSpec => []HookInv
  BY HookInvInit, HookInvStep, PTL DEF HookSpec

\* A set of numbers below a bound that are all the same has one member at most.
LEMMA OneAtMost ==
  ASSUME NEW n \in Nat, NEW T \in SUBSET (1..n), \A i \in T, j \in T : i = j
  PROVE  Cardinality(T) \in {0, 1} /\ (Cardinality(T) = 1 <=> T # {})
<1>1. CASE T = {}
  BY <1>1, FS_EmptySet
<1>2. CASE T # {}
  <2>1. PICK i \in T : TRUE
    BY <1>2
  <2>2. T = {i}
    BY <2>1
  <2> QED
    BY <2>2, FS_Singleton
<1> QED
  BY <1>1, <1>2

\* A path that is not refused leads inside.
LEMMA InsideWhenNotRefused ==
  ASSUME NEW c \in ToolCalls, ~Refused(c), NEW s \in ExtractPaths(c), s.absolute
  PROVE  IsStrictPrefix(policy.workspace, Target(s))
<1>1. s.absolute \in BOOLEAN /\ s.parts \in Seq(STRING)
  <2>1. \E f \in DOMAIN c.input : s \in c.input[f]
    BY DEF ExtractPaths
  <2> QED
    BY <2>1, HookAssumption
<1>2. IsPathAllowed(s)
  BY DEF Refused
<1>3. Target(s) = NormalizePath(s).parts
  BY <1>1, NormalizeFollows
<1>4. IsStrictPrefix(policy.workspace, NormalizePath(s).parts)
  BY <1>2 DEF IsPathAllowed
<1> QED
  BY <1>3, <1>4

\* The costs told follow from the invariant.
LEMMA CostsFollow == HookInv => CostsAreTold
<1> SUFFICES ASSUME HookInv PROVE CostsAreTold
  OBVIOUS
<1> DEFINE At(of, t) == {i \in DOMAIN ledger : ledger[i] = [of |-> of, turn |-> t]}
           Told(of, t) == Cardinality(At(of, t))
           Kept(r) == \E i \in DOMAIN messages : messages[i].turn = r.turn /\ messages[i].who \in {"result", "edited"}
           Removed(r) == \E i \in DOMAIN messages : messages[i].turn = r.turn /\ messages[i].who = "removed"
<1>0. HookTypes /\ DOMAIN ledger = 1..Len(ledger) /\ Len(ledger) \in Nat
  BY HookEntries DEF HookInv
<1>1. ASSUME NEW of, NEW t PROVE Told(of, t) \in {0, 1} /\ (Told(of, t) = 1 <=> \E i \in DOMAIN ledger : ledger[i] = [of |-> of, turn |-> t])
  <2>1. At(of, t) \in SUBSET (1..Len(ledger)) /\ \A i \in At(of, t), j \in At(of, t) : i = j
    BY <1>0 DEF HookInv, LedgerInTime
  <2>2. At(of, t) # {} <=> \E i \in DOMAIN ledger : ledger[i] = [of |-> of, turn |-> t]
    OBVIOUS
  <2> HIDE DEF At
  <2> QED
    BY <1>0, <2>1, <2>2, OneAtMost
<1> HIDE DEF Told
<1>2. \A t \in 1..turn : Told("cost", t) <= 1 /\ Told("time", t) <= 1
  BY <1>1
<1>3. ASSUME NEW t, Told("cost", t) = 1
      PROVE  (\E r \in ran : r.turn = t /\ r.call.cost) /\ \A j \in DOMAIN messages : messages[j].turn = t => messages[j].who # "removed"
  <2>1. PICK i \in DOMAIN ledger : ledger[i] = [of |-> "cost", turn |-> t]
    BY <1>1, <1>3
  <2>2. ledger[i].of = "cost" /\ ledger[i].turn = t
    BY <2>1
  <2> QED
    BY <2>2 DEF HookInv, CostsOfKept
<1>4. \A r \in ran : Removed(r) => Told("cost", r.turn) = 0
  BY <1>1, <1>3
<1>5. ASSUME Head(chain) = "guard"
      PROVE  /\ \A r \in ran : r.call.cost /\ ~Leaks(r.call) /\ Kept(r) => Told("cost", r.turn) = 1
             /\ \A t \in 1..turn - 1 : Told("time", t) = 1
  BY <1>1, <1>5 DEF HookInv, GuardHears, GuardFirst
<1> QED
  BY <1>2, <1>3, <1>4, <1>5 DEF CostsAreTold, Told

\* The guard's word stands, absolute paths stay inside, costs are told once, recall is passing:
\* whatever the chain, the policy and the calls are and however many turns a run has.
THEOREM HooksAreKept == HookSpec => []HooksKept
<1>1. HookInv => HooksKept
  <2> SUFFICES ASSUME HookInv PROVE HooksKept
    OBVIOUS
  <2>1. BlockStands
    BY DEF HookInv, RanAllowed, GuardFirst, BlockStands
  <2>2. PathsStayInside
    <3>1. \A r \in ran : r.call \in ToolCalls
      BY DEF HookInv, HookTypes
    <3> QED
      BY <2>1, <3>1, InsideWhenNotRefused DEF BlockStands, PathsStayInside
  <2>3. RecallIsPassing
    <3>1. \A i \in DOMAIN messages : messages[i].who # "memory"
      BY HookEntries DEF HookInv, Entries
    <3> DEFINE T == {i \in DOMAIN request.messages : request.messages[i].who = "memory"}
    <3>2. T \subseteq {1}
      BY DEF HookInv, RecallFirst
    <3>3. T \in SUBSET (1..1) /\ \A i \in T, j \in T : i = j
      BY <3>2
    <3> HIDE DEF T
    <3>4. Cardinality(T) <= 1
      BY <3>3, OneAtMost
    <3> QED
      BY <3>1, <3>4 DEF RecallIsPassing, T
  <2> QED
    BY <2>1, <2>2, <2>3, CostsFollow DEF HooksKept
<1> QED
  BY <1>1, HookInvariant, PTL

-----------------------------------------------------------------------------
(* A tool call behind its host.                                             *)

HostTypes ==
    /\ host \in Hosts /\ offer \in Offers /\ script \in Scripts
    /\ waiter \in {"idle", "writing", "waiting", "reading", "answered"} /\ signal \in BOOLEAN
    /\ work \in {"none", "running", "finished", "failed", "killed"} /\ limit \in {"off", "running", "past"}
    /\ stdin \in Nat /\ stdout \in Nat /\ taken \in 0..(MaxStdout + 1) /\ fed \in Nat /\ reported \in 0..script.out
    /\ readers \in BOOLEAN /\ holder \in BOOLEAN
    /\ response \in [status : {"none", "good", "bad"},
                     body : {"none", "result", "json", "text", "huge", "small_image", "large_image", "video", "reference", "too_large"}]

\* Only an endpoint or a provider sends a response, and media is only kept of a good one.
ResponseFits ==
    /\ host \notin {"proxy", "sidecar", "media"} => response = NoResponse
    /\ host = "media" => response.status # "bad"
    /\ host \in {"proxy", "sidecar"} => (work = "finished" <=> response # NoResponse) /\ ~Child
    /\ host \in {"proxy", "sidecar"} /\ waiter = "reading" => response # NoResponse

\* What a process wrote is in the pipe or was read; it ends well when it wrote all; the reader ends
\* at the end of the pipe or with one unit too much.
PipesHold ==
    host = "subprocess" =>
        /\ taken + stdout = reported
        /\ work = "finished" => reported = script.out
        /\ waiter \in {"idle", "writing"} => taken = 0
        /\ waiter \in {"idle", "writing", "answered"} => readers = FALSE
        /\ waiter \in {"waiting", "reading"} /\ readers = FALSE => taken = MaxStdout + 1 \/ (stdout = 0 /\ ~Child)
        /\ waiter = "idle" => work = "none"
        /\ waiter \in {"writing", "waiting", "reading"} => work # "none"
        /\ waiter = "reading" => ~Child
        /\ work = "killed" => limit = "past" /\ waiter \in {"reading", "answered"}

HostInv == HostTypes /\ ResponseFits /\ PipesHold /\ AnswerIsTrue

\* It holds at the start.
LEMMA HostInvInit == HostInit => HostInv
<1> SUFFICES ASSUME HostInit PROVE HostInv
  OBVIOUS
<1>1. MaxStdout \in Nat /\ script.out \in Nat
  BY HostAssumption DEF HostInit
<1>2. 0 \in 0..script.out /\ 0 \in 0..(MaxStdout + 1)
  BY <1>1
<1>3. HostTypes
  BY <1>1, <1>2 DEF HostInit, HostTypes, NoResponse
<1>4. ResponseFits
  BY DEF HostInit, ResponseFits, NoResponse, Child
<1>5. PipesHold /\ AnswerIsTrue
  BY DEF HostInit, PipesHold, AnswerIsTrue
<1> QED
  BY <1>3, <1>4, <1>5 DEF HostInv

\* The steps on a thread or a future.
ToolSteps == StartTool \/ ToolEnds("finished") \/ ToolEnds("failed") \/ AdapterReturns \/ AdapterCancelled \/ BashTimesOut \/ ToolkitReturns
MediaSteps == \/ \E supports \in SUBSET {"candidate", "other"}, status \in {"good", "bad"},
                    content \in {"small_image", "large_image", "video", "reference", "too_large"} : Generate(supports, status, content)
              \/ Inline \/ \E fails \in BOOLEAN : SaveMedia(fails)
HttpSteps == \/ PostRequest \/ Headers \/ Body
             \/ \E status \in {"good", "bad"}, content \in {"result", "json", "text", "huge"} : Respond(status, content)
ChildSteps == Spawn \/ WriteStdin \/ ChildReads \/ ChildWrites \/ ChildExits \/ ReadStdout \/ WaitEnds \/ CollectOutput

\* The steps, by host.
LEMMA HostSteps == HostNext => ToolSteps \/ MediaSteps \/ HttpSteps \/ ChildSteps \/ Cancel \/ LimitPasses
  BY DEF HostNext, ToolSteps, MediaSteps, HttpSteps, ChildSteps

\* The toolkit's steps keep it,
LEMMA ToolStepsKeep == HostInv /\ ToolSteps => HostInv'
<1> SUFFICES ASSUME HostInv, ToolSteps PROVE HostInv'
  OBVIOUS
<1> USE DEF HostInv, HostTypes, ResponseFits, PipesHold, AnswerIsTrue, Child, NoResponse, Answer, Ok, Err, ErrorResult, builtVars, pipeVars
<1>1. CASE StartTool
  BY <1>1 DEF StartTool
<1>2. CASE ToolEnds("finished") \/ ToolEnds("failed")
  BY <1>2 DEF ToolEnds
<1>3. CASE AdapterReturns \/ ToolkitReturns
  BY <1>3 DEF AdapterReturns, ToolkitReturns
<1>4. CASE AdapterCancelled \/ BashTimesOut
  BY <1>4 DEF AdapterCancelled, BashTimesOut
<1> QED
  BY <1>1, <1>2, <1>3, <1>4 DEF ToolSteps

\* the media tool's,
LEMMA MediaStepsKeep == HostInv /\ MediaSteps => HostInv'
<1> SUFFICES ASSUME HostInv, MediaSteps PROVE HostInv'
  OBVIOUS
<1> USE DEF HostInv, HostTypes, ResponseFits, PipesHold, AnswerIsTrue, Child, NoResponse, Answer, Ok, Err, ErrorResult, builtVars, pipeVars
<1>1. ASSUME NEW supports, NEW status \in {"good", "bad"}, NEW content \in {"small_image", "large_image", "video", "reference", "too_large"},
             Generate(supports, status, content)
      PROVE  HostInv'
  BY <1>1 DEF Generate
<1>2. CASE Inline
  BY <1>2 DEF Inline
<1>3. ASSUME NEW fails \in BOOLEAN, SaveMedia(fails) PROVE HostInv'
  BY <1>3 DEF SaveMedia
<1> HIDE DEF HostInv, HostTypes, ResponseFits, PipesHold, AnswerIsTrue, Child, NoResponse, Answer, Ok, Err, ErrorResult, builtVars, pipeVars
<1> QED
  BY <1>1, <1>2, <1>3 DEF MediaSteps

\* those of the proxy and the remote engine,
LEMMA HttpStepsKeep == HostInv /\ HttpSteps => HostInv'
<1> SUFFICES ASSUME HostInv, HttpSteps PROVE HostInv'
  OBVIOUS
<1> USE DEF HostInv, HostTypes, ResponseFits, PipesHold, AnswerIsTrue, Child, NoResponse, Answer, Ok, Err, ErrorResult, builtVars, pipeVars
<1>1. CASE PostRequest
  BY <1>1 DEF PostRequest
<1>2. CASE Headers
  BY <1>2 DEF Headers
<1>3. CASE Body
  BY <1>3 DEF Body, ProxyAnswer, SidecarAnswer
<1>4. ASSUME NEW status \in {"good", "bad"}, NEW content \in {"result", "json", "text", "huge"}, Respond(status, content) PROVE HostInv'
  BY <1>4 DEF Respond
<1> QED
  BY <1>1, <1>2, <1>3, <1>4 DEF HttpSteps

\* and those of the child process.
LEMMA ChildStepsKeep == HostInv /\ ChildSteps => HostInv'
<1> SUFFICES ASSUME HostInv, ChildSteps PROVE HostInv'
  OBVIOUS
<1>0. MaxStdout \in Nat /\ script.out \in Nat /\ script.request \in Nat
  BY HostAssumption DEF HostInv, HostTypes
<1> USE DEF HostInv, HostTypes, ResponseFits, PipesHold, AnswerIsTrue, Child, NoResponse, Answer, Ok, Err, ErrorResult, builtVars, pipeVars
<1>1. CASE Spawn
  BY <1>0, <1>1 DEF Spawn
<1>2. CASE WriteStdin
  <2>1. CASE stdin' = stdin + 1 /\ UNCHANGED <<waiter, answer, readers, limit>>
    BY <1>0, <1>2, <2>1 DEF WriteStdin
  <2>2. CASE ~Child /\ Answer(Err("broken_pipe")) /\ UNCHANGED <<stdin, readers, limit>>
    BY <1>0, <1>2, <2>2 DEF WriteStdin
  <2>3. CASE waiter' = "waiting" /\ readers' = TRUE /\ limit' = "running" /\ UNCHANGED <<stdin, answer>>
    <3>1. UNCHANGED <<host, offer, script, tools, signal, work, stdout, taken, fed, reported, holder, response>> /\ waiter = "writing"
      BY <1>2 DEF WriteStdin
    <3>2. taken = 0 /\ waiter' = "waiting" /\ readers' = TRUE
      BY <1>2, <2>3 DEF WriteStdin
    <3>3. HostTypes'
      BY <2>3, <3>1, <3>2
    <3>4. PipesHold'
      BY <2>3, <3>1, <3>2
    <3> QED
      BY <2>3, <3>1, <3>2, <3>3, <3>4
  <2> QED
    BY <1>2, <2>1, <2>2, <2>3 DEF WriteStdin
<1>3. CASE ChildReads
  BY <1>0, <1>3 DEF ChildReads
<1>4. CASE ChildWrites
  BY <1>0, <1>4 DEF ChildWrites
<1>5. CASE ChildExits
  BY <1>0, <1>5 DEF ChildExits
<1>6. CASE ReadStdout
  <2>0. readers = TRUE /\ waiter \in {"waiting", "reading"}
    BY <1>6 DEF ReadStdout
  <2>1. CASE stdout > 0 /\ taken < MaxStdout + 1 /\ stdout' = stdout - 1 /\ taken' = taken + 1 /\ readers' = (taken' < MaxStdout + 1)
    <3>1. CASE taken' < MaxStdout + 1
      <4>1. readers' = TRUE
        BY <2>1, <3>1
      <4>2. taken' \in 0..(MaxStdout + 1) /\ stdout' \in Nat /\ taken' + stdout' = taken + stdout
        BY <1>0, <2>1
      <4>3. UNCHANGED <<host, offer, script, tools, waiter, signal, work, limit, stdin, fed, reported, holder, response, answer>>
        BY <1>6 DEF ReadStdout
      <4>4. PipesHold'
        BY <4>1, <4>2, <4>3, <1>6 DEF ReadStdout
      <4>5. HostTypes' /\ ResponseFits'
        BY <4>1, <4>2, <4>3
      <4>6. AnswerIsTrue'
        BY <2>0, <4>3
      <4> HIDE DEF HostTypes, ResponseFits, PipesHold, AnswerIsTrue
      <4> QED
        BY <4>4, <4>5, <4>6
    <3>2. CASE ~(taken' < MaxStdout + 1)
      BY <1>0, <1>6, <2>1, <3>2 DEF ReadStdout
    <3> QED
      BY <3>1, <3>2
  <2>2. CASE stdout = 0 /\ ~Child /\ ~holder /\ readers' = FALSE /\ UNCHANGED <<stdout, taken>>
    <3>1. taken' = taken /\ stdout' = 0 /\ stdout = 0 /\ work # "running" /\ readers' = FALSE
      BY <2>2
    <3>2. UNCHANGED <<host, offer, script, tools, waiter, signal, work, limit, stdin, fed, reported, holder, response, answer>>
      BY <1>6 DEF ReadStdout
    <3>3. HostTypes' /\ ResponseFits'
      <4>1. taken' \in 0..(MaxStdout + 1) /\ stdout' \in Nat /\ readers' \in BOOLEAN
        BY <3>1
      <4>2. HostTypes'
        BY <4>1, <3>2
      <4>3. ResponseFits'
        BY <3>2
      <4> QED
        BY <4>2, <4>3
    <3>4. PipesHold'
      BY <2>0, <3>1, <3>2
    <3>5. AnswerIsTrue'
      BY <2>0, <3>2
    <3> QED
      BY <3>3, <3>4, <3>5
  <2> QED
    BY <1>6, <2>1, <2>2 DEF ReadStdout
<1>7. CASE WaitEnds
  <2>1. CASE ~Child /\ limit' = "off" /\ work' = work /\ holder' = holder
    <3>1. UNCHANGED <<host, offer, script, tools, signal, work, stdin, stdout, taken, fed, reported, readers, holder, response, answer>>
      BY <1>7, <2>1 DEF WaitEnds
    <3>2. waiter = "waiting" /\ waiter' = "reading" /\ host = "subprocess"
      BY <1>7 DEF WaitEnds
    <3>3. HostTypes' /\ ResponseFits'
      BY <2>1, <3>1, <3>2
    <3>4. PipesHold'
      BY <2>1, <3>1, <3>2
    <3> QED
      BY <3>1, <3>2, <3>3, <3>4
  <2>2. CASE Child /\ limit = "past" /\ limit' = limit /\ work' = "killed" /\ holder' = (script.does = "forks")
    BY <1>0, <1>7, <2>2 DEF WaitEnds
  <2> QED
    BY <1>7, <2>1, <2>2 DEF WaitEnds
<1>8. CASE CollectOutput
  <2>1. readers = FALSE
    BY <1>8 DEF CollectOutput
  <2>2. CASE limit = "past" \/ taken > MaxStdout
    BY <1>0, <1>8, <2>1, <2>2 DEF CollectOutput
  <2>3. CASE limit # "past" /\ taken <= MaxStdout
    <3>1. stdout = 0 /\ taken = reported
      BY <1>0, <1>8, <2>1, <2>3 DEF CollectOutput
    <3>a. waiter = "reading" /\ host = "subprocess"
      BY <1>8 DEF CollectOutput
    <3>2. work \in {"finished", "failed"} /\ (work = "finished" => taken = script.out)
      BY <2>3, <3>1, <3>a
    <3> QED
      BY <1>0, <1>8, <2>1, <2>3, <3>1, <3>2 DEF CollectOutput
  <2>4. taken \in Nat
    <3>1. taken \in 0..(MaxStdout + 1)
      OBVIOUS
    <3> QED
      BY <1>0, <3>1
  <2> HIDE DEF HostInv
  <2> QED
    BY <1>0, <2>2, <2>3, <2>4
<1> QED
  BY <1>1, <1>2, <1>3, <1>4, <1>5, <1>6, <1>7, <1>8 DEF ChildSteps

\* Every step keeps the invariant.
LEMMA HostInvStep == HostInv /\ [HostNext]_hostVars => HostInv'
<1> SUFFICES ASSUME HostInv, [HostNext]_hostVars PROVE HostInv'
  OBVIOUS
<1> USE DEF HostInv, HostTypes, ResponseFits, PipesHold, AnswerIsTrue, Child
<1>1. CASE Cancel
  BY <1>1 DEF Cancel, builtVars, pipeVars
<1>2. CASE LimitPasses
  BY <1>2 DEF LimitPasses, builtVars, pipeVars
<1>3. CASE UNCHANGED hostVars
  BY <1>3 DEF hostVars
<1> QED
  BY <1>1, <1>2, <1>3, HostSteps, ToolStepsKeep, MediaStepsKeep, HttpStepsKeep, ChildStepsKeep

\* Whatever the host of a tool does, in whatever order (the Toolkit's limit, the proxy's
\* answers, the child's pipes), the invariant of a call holds.
THEOREM HostInvariant == HostSpec => []HostInv
  BY HostInvInit, HostInvStep, PTL DEF HostSpec

-----------------------------------------------------------------------------
(* The tools a session is built with.                                       *)

\* Names of tools: any string, and those the crates bring.
PawbunNames == {"file_read", "file_write", "directory_list", "code_execute"}
ToolNames == STRING \cup {"generate_media"} \cup PawbunNames
Tool == [name : ToolNames, from : {"external", "media", "builtin", "pawbun"}]

\* One more tool offered.
AssembleStep(kept, tool) == IF \E n \in DOMAIN kept : kept[n].name = tool.name THEN kept ELSE Append(kept, tool)
AssembleWalks(all) ==
  {w \in [0..Len(all) -> Seq(Tool)] :
      /\ w[0] = <<>> /\ w[Len(all)] = AssembleTools(all)
      /\ \A k \in 1..Len(all) : w[k] = AssembleStep(w[k - 1], all[k])}

\* assemble_tools looks at one offer after another.
LEMMA AssembleSteps ==
  ASSUME NEW all \in Seq(Tool)
  PROVE  AssembleWalks(all) # {}
<1> DEFINE len == Len(all)
           X == Seq(Tool)
           none == <<>>
           Walk(kept, tool) == IF \E n \in DOMAIN kept : kept[n].name = tool.name THEN kept ELSE Append(kept, tool)
           Folded(g) == [T \in SUBSET (1..len) |-> IF T = {} THEN none
                                                   ELSE Walk(g[T \ {Max(T)}], all[Max(T)])]
           step == [p \in (1..len) \X X |-> Walk(p[2], all[p[1]])]
<1>1. len \in Nat /\ DOMAIN all = 1..len /\ \A k \in 1..len : all[k] \in Tool
  BY LenProperties
<1>a. len \in Nat
  BY <1>1
<1>b. \A k \in 1..len : k - 1 \in 0..len
  <2> HIDE DEF len
  <2> QED
    BY <1>a
<1>2. none \in X
  OBVIOUS
<1>3. ASSUME NEW kept \in X, NEW tool \in Tool PROVE Walk(kept, tool) \in X
  BY AppendProperties
<1>4. step \in [(1..len) \X X -> X]
  BY <1>1, <1>3
<1>5. \E g : g = Folded(g)
  <2>1. PICK g \in FoldsOf(X, none, len, step) : TRUE
    <3>1. len \in Nat /\ none \in X
      BY <1>1, <1>2
    <3> HIDE DEF step, X, none, len
    <3> QED
      BY <3>1, <1>4, FoldExists
  <2>2. g \in [SUBSET (1..len) -> X] /\ \A T \in SUBSET (1..len) :
            g[T] = IF T = {} THEN none ELSE step[<<Max(T), g[T \ {Max(T)}]>>]
    <3> HIDE DEF step, X, none, len
    <3> QED
      BY <2>1 DEF FoldsOf
  <2>3. ASSUME NEW T \in SUBSET (1..len)
        PROVE  g[T] = IF T = {} THEN none ELSE Walk(g[T \ {Max(T)}], all[Max(T)])
    <3>1. CASE T = {}
      BY <2>2, <3>1
    <3>2. CASE T # {}
      <4>1. Max(T) \in 1..len /\ T \ {Max(T)} \in SUBSET (1..len)
        BY <3>2, <1>1, MaxOfSome
      <4>2. <<Max(T), g[T \ {Max(T)}]>> \in (1..len) \X X
        BY <4>1, <2>2
      <4>3. step[<<Max(T), g[T \ {Max(T)}]>>] = Walk(g[T \ {Max(T)}], all[Max(T)])
        <5> HIDE DEF Walk, X, none
        <5> QED
          BY <4>2
      <4> HIDE DEF step, Walk, X, none
      <4> QED
        BY <4>3, <3>2, <2>2
    <3> QED
      BY <3>1, <3>2
  <2> HIDE DEF step, Walk, X, none
  <2> QED
    BY <2>2, <2>3
<1> DEFINE h == CHOOSE g : g = Folded(g)
<1>6. h = Folded(h)
  <2> HIDE DEF Folded
  <2> QED
    BY <1>5
<1>7. AssembleTools(all) = h[1..len]
  BY <1>1 DEF AssembleTools, FoldLeft, MapThenFoldSet
<1> HIDE DEF h
<1>8. h[{}] = none
  <2> HIDE DEF Walk, none
  <2> QED
    BY <1>6
<1>9. ASSUME NEW T \in SUBSET (1..len), T # {}, h[T \ {Max(T)}] \in X
      PROVE  h[T] = step[<<Max(T), h[T \ {Max(T)}]>>]
  <2>1. h[T] = Walk(h[T \ {Max(T)}], all[Max(T)])
    <3> HIDE DEF Walk, none
    <3> QED
      BY <1>6, <1>9
  <2>2. <<Max(T), h[T \ {Max(T)}]>> \in (1..len) \X X
    <3> HIDE DEF X
    <3> QED
      BY <1>1, <1>9, MaxOfSome
  <2> HIDE DEF Walk, X
  <2> QED
    BY <2>1, <2>2
<1> HIDE DEF step, X, none, len, Walk, Folded
<1>10. StepsOf(X, none, len, step, h[1..len]) # {}
  <2>1. FoldsTo(X, none, len, step, h)
    BY <1>8, <1>9 DEF FoldsTo
  <2> QED
    BY <1>a, <1>2, <1>4, <2>1, FoldSteps
<1>11. PICK w \in StepsOf(X, none, len, step, h[1..len]) : TRUE
  BY <1>10
<1>12. w \in [0..len -> X] /\ w[0] = none /\ w[len] = h[1..len] /\ \A k \in 1..len : w[k] = step[<<k, w[k - 1]>>]
  BY <1>11 DEF StepsOf
<1>13. ASSUME NEW k \in 1..len PROVE w[k] = Walk(w[k - 1], all[k])
  <2>1. k - 1 \in 0..len
    BY <1>b
  <2>2. <<k, w[k - 1]>> \in (1..len) \X X
    BY <2>1, <1>12
  <2>3. step[<<k, w[k - 1]>>] = Walk(w[k - 1], all[k])
    BY <2>2 DEF step
  <2> QED
    BY <2>3, <1>12
<1>14. w \in [0..len -> X] /\ w[0] = none /\ AssembleTools(all) = w[len] /\ \A k \in 1..len : w[k] = Walk(w[k - 1], all[k])
  BY <1>7, <1>12, <1>13
<1> QED
  BY <1>14 DEF AssembleWalks, AssembleStep, X, none, len, Walk

\* The tools kept of the first k: each the first of its name, one for each name.
FirstOnly(all, k, kept) ==
  /\ \A n \in DOMAIN kept, m \in DOMAIN kept : kept[n].name = kept[m].name => n = m
  /\ \A n \in DOMAIN kept : \E i \in 1..k : kept[n] = all[i] /\ \A h \in 1..(i - 1) : all[h].name # all[i].name
  /\ \A i \in 1..k : \E n \in DOMAIN kept : kept[n].name = all[i].name

\* One more tool: it is kept when it is the first of its name.
LEMMA FirstOnlyStep ==
  ASSUME NEW all \in Seq(Tool), NEW k \in 0..(Len(all) - 1), NEW kept \in Seq(Tool), FirstOnly(all, k, kept)
  PROVE  FirstOnly(all, k + 1, AssembleStep(kept, all[k + 1]))
<1> DEFINE tool == all[k + 1]
           new == AssembleStep(kept, tool)
<1>1. Len(all) \in Nat /\ k \in Nat /\ 1..(k + 1) = (1..k) \cup {k + 1}
  BY LenProperties
<1>2. CASE \E n \in DOMAIN kept : kept[n].name = tool.name
  <2>1. new = kept
    BY <1>2 DEF AssembleStep
  <2>2. \A i \in 1..(k + 1) : \E n \in DOMAIN kept : kept[n].name = all[i].name
    BY <1>1, <1>2 DEF FirstOnly
  <2>3. \A i \in 1..k : i \in 1..(k + 1)
    BY <1>1
  <2>4. \A n \in DOMAIN kept : \E i \in 1..(k + 1) : kept[n] = all[i] /\ \A h \in 1..(i - 1) : all[h].name # all[i].name
    BY <2>3 DEF FirstOnly
  <2>5. \A n, m \in DOMAIN kept : kept[n].name = kept[m].name => n = m
    BY DEF FirstOnly
  <2>6. FirstOnly(all, k + 1, kept)
    BY ONLY <2>2, <2>4, <2>5 DEF FirstOnly
  <2> QED
    BY ONLY <2>1, <2>6
<1>3. CASE ~\E n \in DOMAIN kept : kept[n].name = tool.name
  <2>1. new = Append(kept, tool)
    BY <1>3 DEF AssembleStep
  <2>2. /\ \A n \in DOMAIN kept : n \in DOMAIN new /\ new[n] = kept[n]
        /\ \A n \in DOMAIN new : (n \in DOMAIN kept /\ new[n] = kept[n]) \/ (n = Len(kept) + 1 /\ new[n] = tool)
        /\ Len(kept) + 1 \in DOMAIN new /\ new[Len(kept) + 1] = tool
    BY <2>1, AppendedAt
  <2>3. \A h \in 1..k : all[h].name # tool.name
    BY <1>3 DEF FirstOnly
  <2>4. (k + 1) - 1 = k /\ k + 1 \in 1..(k + 1)
    BY <1>1
  <2> HIDE DEF new, tool
  <2>5. ASSUME NEW n \in DOMAIN new, NEW m \in DOMAIN new, new[n].name = new[m].name PROVE n = m
    <3>1. CASE n \in DOMAIN kept /\ new[n] = kept[n] /\ m \in DOMAIN kept /\ new[m] = kept[m]
      BY <2>5, <3>1 DEF FirstOnly
    <3>2. \A l \in DOMAIN kept : kept[l].name # tool.name
      BY <1>3
    <3> QED
      BY <2>2, <2>5, <3>1, <3>2
  <2>6. ASSUME NEW n \in DOMAIN new
        PROVE  \E i \in 1..(k + 1) : new[n] = all[i] /\ \A h \in 1..(i - 1) : all[h].name # all[i].name
    <3>1. CASE n \in DOMAIN kept /\ new[n] = kept[n]
      <4>1. PICK i \in 1..k : kept[n] = all[i] /\ \A h \in 1..(i - 1) : all[h].name # all[i].name
        BY <3>1 DEF FirstOnly
      <4>2. i \in 1..(k + 1)
        BY <1>1
      <4> QED
        BY <3>1, <4>1, <4>2
    <3>2. CASE new[n] = tool
      <4>1. new[n] = all[k + 1] /\ \A h \in 1..((k + 1) - 1) : all[h].name # all[k + 1].name
        BY <2>3, <2>4, <3>2 DEF tool
      <4> QED
        BY <2>4, <4>1
    <3> QED
      BY <2>2, <3>1, <3>2
  <2>7. ASSUME NEW i \in 1..(k + 1) PROVE \E n \in DOMAIN new : new[n].name = all[i].name
    <3>1. CASE i \in 1..k
      <4>1. PICK n \in DOMAIN kept : kept[n].name = all[i].name
        BY <3>1 DEF FirstOnly
      <4> QED
        BY <2>2, <4>1
    <3>2. CASE i = k + 1
      BY <2>2, <3>2 DEF tool
    <3> QED
      BY <1>1, <3>1, <3>2
  <2>8. FirstOnly(all, k + 1, new)
    BY ONLY <2>5, <2>6, <2>7 DEF FirstOnly
  <2> QED
    BY ONLY <2>8 DEF new, tool
<1> QED
  BY <1>2, <1>3

\* So the assembled tools are the first of each name, in their order.
LEMMA AssembleKeepsFirst ==
  ASSUME NEW all \in Seq(Tool)
  PROVE  AssembleTools(all) \in Seq(Tool) /\ FirstOnly(all, Len(all), AssembleTools(all))
<1>1. PICK w \in AssembleWalks(all) : TRUE
  BY AssembleSteps
<1>2. Len(all) \in Nat
  BY LenProperties
<1>3. /\ \A k \in 0..Len(all) : w[k] \in Seq(Tool)
      /\ w[0] = <<>> /\ w[Len(all)] = AssembleTools(all)
      /\ \A k \in 1..Len(all) : w[k] = AssembleStep(w[k - 1], all[k])
  BY <1>1 DEF AssembleWalks
<1> DEFINE S == {k \in Nat : k <= Len(all) => FirstOnly(all, k, w[k])}
<1>4. 0 \in S
  <2>1. DOMAIN <<>> = {} /\ 1..0 = {}
    OBVIOUS
  <2>2. FirstOnly(all, 0, <<>>)
    BY <2>1 DEF FirstOnly
  <2> QED
    BY <1>3, <2>2
<1>5. ASSUME NEW k \in Nat, k \in S PROVE k + 1 \in S
  <2>1. SUFFICES ASSUME k + 1 <= Len(all) PROVE FirstOnly(all, k + 1, w[k + 1])
    OBVIOUS
  <2>2. k \in 0..(Len(all) - 1) /\ k \in 0..Len(all) /\ k + 1 \in 1..Len(all) /\ (k + 1) - 1 = k
    BY <1>2, <2>1
  <2>3. w[k] \in Seq(Tool) /\ w[k + 1] = AssembleStep(w[k], all[k + 1])
    BY <1>3, <2>2
  <2>4. FirstOnly(all, k, w[k])
    BY <1>5, <2>2
  <2> HIDE DEF S
  <2> QED
    BY <2>2, <2>3, <2>4, FirstOnlyStep
<1>6. Nat \subseteq S
  <2> HIDE DEF S
  <2> QED
    BY <1>4, <1>5, Induct
<1>7. FirstOnly(all, Len(all), w[Len(all)])
  BY <1>2, <1>6
<1>8. Len(all) \in 0..Len(all)
  BY <1>2
<1> QED
  BY <1>3, <1>7, <1>8

\* The tools of one place.
OfPlace(q, p) ==
  /\ q \in Seq(Tool)
  /\ \A i \in DOMAIN q : q[i].from = ToolPlaces[p] /\ q[i].name \in Offered(ToolPlaces[p])
  /\ \A name \in Offered(ToolPlaces[p]) : \E i \in DOMAIN q : q[i].name = name

\* The tools of the first places, in their order.
Placed(q, top) ==
  /\ q \in Seq(Tool)
  /\ \A i \in DOMAIN q : \E p \in 1..top : q[i].from = ToolPlaces[p] /\ q[i].name \in Offered(ToolPlaces[p])
  /\ \A i \in DOMAIN q, j \in DOMAIN q, p \in 1..4, r \in 1..4 :
        q[i].from = ToolPlaces[p] /\ q[j].from = ToolPlaces[r] /\ p < r => i < j
  /\ \A p \in 1..top : \A name \in Offered(ToolPlaces[p]) :
        \E i \in DOMAIN q : q[i].name = name /\ q[i].from = ToolPlaces[p]

\* The places differ.
LEMMA PlacesDiffer == \A p \in 1..4, r \in 1..4 : ToolPlaces[p] = ToolPlaces[r] => p = r
<1>1. 1..4 = {1, 2, 3, 4}
  OBVIOUS
<1>2. ToolPlaces[1] = "external" /\ ToolPlaces[2] = "media" /\ ToolPlaces[3] = "builtin" /\ ToolPlaces[4] = "pawbun"
  BY DEF ToolPlaces
<1> QED
  BY <1>1, <1>2

\* The tools of the next place follow those of the places before.
LEMMA PlacedNext ==
  ASSUME NEW top \in 0..3, NEW q, Placed(q, top), NEW g, OfPlace(g, top + 1), NEW c, c = q \o g
  PROVE  Placed(c, top + 1)
<1>0. top + 1 \in 1..4 /\ 1..(top + 1) = (1..top) \cup {top + 1}
  OBVIOUS
<1>1. q \in Seq(Tool) /\ g \in Seq(Tool)
  BY DEF Placed, OfPlace
<1>2. /\ c \in Seq(Tool) /\ Len(q) \in Nat /\ Len(g) \in Nat
      /\ DOMAIN q = 1..Len(q) /\ DOMAIN g = 1..Len(g) /\ DOMAIN c = 1..(Len(q) + Len(g))
      /\ \A i \in DOMAIN q : i \in DOMAIN c /\ c[i] = q[i]
      /\ \A i \in DOMAIN g : Len(q) + i \in DOMAIN c /\ c[Len(q) + i] = g[i]
      /\ \A i \in DOMAIN c : (i \in DOMAIN q /\ c[i] = q[i]) \/ (i > Len(q) /\ i - Len(q) \in DOMAIN g /\ c[i] = g[i - Len(q)])
  BY <1>1, ConcatAt
<1>3. ASSUME NEW i \in DOMAIN c
      PROVE  \E p \in 1..(top + 1) : c[i].from = ToolPlaces[p] /\ c[i].name \in Offered(ToolPlaces[p])
  <2>1. CASE i \in DOMAIN q /\ c[i] = q[i]
    <3>1. PICK p \in 1..top : q[i].from = ToolPlaces[p] /\ q[i].name \in Offered(ToolPlaces[p])
      BY <2>1 DEF Placed
    <3> QED
      BY <1>0, <2>1, <3>1
  <2>2. CASE i - Len(q) \in DOMAIN g /\ c[i] = g[i - Len(q)]
    BY <1>0, <2>2 DEF OfPlace
  <2> QED
    BY <1>2, <2>1, <2>2
<1>4. ASSUME NEW i \in DOMAIN c, NEW j \in DOMAIN c, NEW p \in 1..4, NEW r \in 1..4,
             c[i].from = ToolPlaces[p], c[j].from = ToolPlaces[r], p < r
      PROVE  i < j
  <2>1. ASSUME NEW k \in DOMAIN q PROVE \E s \in 1..top : q[k].from = ToolPlaces[s]
    BY DEF Placed
  <2>2. CASE i \in DOMAIN q /\ c[i] = q[i] /\ j \in DOMAIN q /\ c[j] = q[j]
    BY <1>4, <2>2 DEF Placed
  <2>3. CASE i \in DOMAIN q /\ j > Len(q)
    BY <1>2, <2>3
  <2>4. CASE i - Len(q) \in DOMAIN g /\ c[i] = g[i - Len(q)]
    <3>1. p = top + 1
      <4>1. ToolPlaces[top + 1] = ToolPlaces[p]
        BY <1>4, <2>4 DEF OfPlace
      <4> QED
        BY <1>0, <4>1, PlacesDiffer
    <3>2. r <= top + 1
      <4>1. CASE j \in DOMAIN q /\ c[j] = q[j]
        <5>1. PICK s \in 1..top : q[j].from = ToolPlaces[s]
          BY <2>1, <4>1
        <5>2. s \in 1..4
          OBVIOUS
        <5>3. r = s
          BY <1>4, <4>1, <5>1, <5>2, PlacesDiffer
        <5> QED
          BY <5>3
      <4>2. CASE j - Len(q) \in DOMAIN g /\ c[j] = g[j - Len(q)]
        <5>1. ToolPlaces[top + 1] = ToolPlaces[r] /\ r = top + 1
          <6>1. ToolPlaces[top + 1] = ToolPlaces[r]
            BY <1>4, <4>2 DEF OfPlace
          <6> QED
            BY <1>0, <6>1, PlacesDiffer
        <5> QED
          BY <5>1
      <4> QED
        BY <1>2, <4>1, <4>2
    <3> QED
      BY <1>4, <3>1, <3>2
  <2> QED
    BY <1>2, <2>2, <2>3, <2>4
<1>5. ASSUME NEW p \in 1..(top + 1), NEW name \in Offered(ToolPlaces[p])
      PROVE  \E i \in DOMAIN c : c[i].name = name /\ c[i].from = ToolPlaces[p]
  <2>1. CASE p \in 1..top
    <3>1. PICK i \in DOMAIN q : q[i].name = name /\ q[i].from = ToolPlaces[p]
      BY <2>1 DEF Placed
    <3> QED
      BY <1>2, <3>1
  <2>2. CASE p = top + 1
    <3>1. PICK i \in DOMAIN g : g[i].name = name /\ g[i].from = ToolPlaces[p]
      BY <2>2 DEF OfPlace
    <3>2. Len(q) + i \in DOMAIN c /\ c[Len(q) + i] = g[i]
      BY <1>2
    <3> QED
      BY <3>1, <3>2
  <2> QED
    BY <1>0, <2>1, <2>2
<1>6. \A i \in DOMAIN c, j \in DOMAIN c, p \in 1..4, r \in 1..4 :
        c[i].from = ToolPlaces[p] /\ c[j].from = ToolPlaces[r] /\ p < r => i < j
  BY <1>4
<1>7. c \in Seq(Tool)
  BY <1>2
<1> QED
  BY <1>3, <1>5, <1>6, <1>7 DEF Placed

\* The names of the built-in tools are names.
LEMMA NamesAreToolNames ==
  ASSUME NEW names \in Seq(STRING) PROVE names \in Seq(ToolNames)
<1>1. Len(names) \in Nat /\ names \in [1..Len(names) -> STRING]
  BY LenProperties
<1>2. names \in [1..Len(names) -> ToolNames]
  BY <1>1 DEF ToolNames
<1> QED
  BY <1>1, <1>2

\* A group's tools.
LEMMA GroupOf ==
  ASSUME NEW from \in {"external", "media", "builtin", "pawbun"}, NEW names \in Seq(ToolNames)
  PROVE  /\ Group(from, names) \in Seq(Tool) /\ DOMAIN Group(from, names) = DOMAIN names
         /\ \A i \in DOMAIN names : Group(from, names)[i] = [name |-> names[i], from |-> from]
<1>1. Len(names) \in Nat /\ DOMAIN names = 1..Len(names) /\ \A i \in 1..Len(names) : names[i] \in ToolNames
  BY LenProperties
<1>2. \A i \in 1..Len(names) : [name |-> names[i], from |-> from] \in Tool
  BY <1>1 DEF Tool
<1> QED
  BY <1>1, <1>2 DEF Group

\* The tools of a list have its place,
LEMMA ListPlaced ==
  ASSUME NEW p \in 1..4, NEW from \in {"external", "media", "builtin", "pawbun"}, from = ToolPlaces[p],
         NEW names \in Seq(ToolNames), Offered(from) = ToSet(names)
  PROVE  OfPlace(Group(from, names), p)
<1> DEFINE g == Group(from, names)
<1>1. /\ g \in Seq(Tool) /\ DOMAIN g = DOMAIN names
      /\ \A i \in DOMAIN names : g[i] = [name |-> names[i], from |-> from]
  BY GroupOf
<1>2. Offered(from) = {names[i] : i \in DOMAIN names}
  BY DEF ToSet
<1> HIDE DEF g
<1>3. \A i \in DOMAIN g : g[i].from = from /\ g[i].name \in Offered(from)
  BY <1>1, <1>2
<1>4. \A name \in Offered(from) : \E i \in DOMAIN g : g[i].name = name
  BY <1>1, <1>2
<1> QED
  BY <1>1, <1>3, <1>4 DEF OfPlace, g

\* those of the toolkit theirs,
LEMMA PawbunPlaced ==
  ASSUME offer \in Offers
  PROVE  OfPlace(BuildPawbunToolRefs(offer.enabled, offer.disabled), 4)
<1> DEFINE Names == {"file_read", "file_write", "directory_list", "code_execute"}
           Kept(name) == IF offer.enabled /\ name \notin offer.disabled THEN Group("pawbun", <<name>>) ELSE <<>>
<1>1. Offered("pawbun") = {name \in Names : offer.enabled /\ name \notin offer.disabled}
  BY DEF Offered
<1>2. ASSUME NEW name \in Names
      PROVE  /\ Kept(name) \in Seq(Tool)
             /\ \A i \in DOMAIN Kept(name) : Kept(name)[i].from = "pawbun" /\ Kept(name)[i].name \in Offered("pawbun")
             /\ name \in Offered("pawbun") => \E i \in DOMAIN Kept(name) : Kept(name)[i].name = name
  <2>1. CASE offer.enabled /\ name \notin offer.disabled
    <3>1. <<name>> \in Seq(ToolNames) /\ DOMAIN <<name>> = {1} /\ <<name>>[1] = name
      <4>1. name \in ToolNames
        BY <1>2 DEF ToolNames, PawbunNames
      <4> QED
        BY <4>1, SingleSeq
    <3> DEFINE g == Group("pawbun", <<name>>)
    <3>2. g \in Seq(Tool) /\ DOMAIN g = {1} /\ g[1] = [name |-> name, from |-> "pawbun"]
      BY <3>1, GroupOf
    <3>3. name \in Offered("pawbun")
      BY <1>1, <2>1
    <3>4. Kept(name) = g
      BY <2>1
    <3> HIDE DEF g, Kept
    <3> QED
      BY <3>2, <3>3, <3>4
  <2>2. CASE ~(offer.enabled /\ name \notin offer.disabled)
    <3>1. Kept(name) = <<>>
      BY <2>2
    <3>2. name \notin Offered("pawbun")
      BY <1>1, <2>2
    <3>3. <<>> \in Seq(Tool) /\ DOMAIN <<>> = {}
      OBVIOUS
    <3> HIDE DEF Kept
    <3> QED
      BY <3>1, <3>2, <3>3
  <2> QED
    BY <2>1, <2>2
<1> DEFINE k1 == Kept("file_read")
           k2 == Kept("file_write")
           k3 == Kept("directory_list")
           k4 == Kept("code_execute")
           Part(q, names) == /\ q \in Seq(Tool)
                             /\ \A i \in DOMAIN q : q[i].from = "pawbun" /\ q[i].name \in Offered("pawbun")
                             /\ \A name \in Offered("pawbun") \cap names : \E i \in DOMAIN q : q[i].name = name
<1>3. Part(k1, {"file_read"}) /\ Part(k2, {"file_write"}) /\ Part(k3, {"directory_list"}) /\ Part(k4, {"code_execute"})
  <2> HIDE DEF Kept
  <2> QED
    BY <1>2
<1>4. ASSUME NEW q, NEW g, NEW A, NEW B, Part(q, A), Part(g, B) PROVE Part(q \o g, A \cup B)
  <2>1. PICK c : c = q \o g
    OBVIOUS
  <2>2. /\ c \in Seq(Tool)
        /\ \A i \in DOMAIN q : i \in DOMAIN c /\ c[i] = q[i]
        /\ \A i \in DOMAIN g : Len(q) + i \in DOMAIN c /\ c[Len(q) + i] = g[i]
        /\ \A i \in DOMAIN c : (i \in DOMAIN q /\ c[i] = q[i]) \/ (i > Len(q) /\ i - Len(q) \in DOMAIN g /\ c[i] = g[i - Len(q)])
    BY <1>4, <2>1, ConcatAt
  <2>3. ASSUME NEW i \in DOMAIN c PROVE c[i].from = "pawbun" /\ c[i].name \in Offered("pawbun")
    <3>1. CASE i \in DOMAIN q /\ c[i] = q[i]
      BY <1>4, <3>1
    <3>2. CASE i - Len(q) \in DOMAIN g /\ c[i] = g[i - Len(q)]
      BY <1>4, <3>2
    <3> QED
      BY <2>2, <3>1, <3>2
  <2>4. ASSUME NEW name \in Offered("pawbun") \cap (A \cup B) PROVE \E i \in DOMAIN c : c[i].name = name
    <3>1. CASE name \in A
      <4>1. PICK i \in DOMAIN q : q[i].name = name
        BY <1>4, <3>1
      <4> QED
        BY <2>2, <4>1
    <3>2. CASE name \in B
      <4>1. PICK i \in DOMAIN g : g[i].name = name
        BY <1>4, <3>2
      <4>2. Len(q) + i \in DOMAIN c /\ c[Len(q) + i] = g[i]
        BY <2>2
      <4> QED
        BY <4>1, <4>2
    <3> QED
      BY <3>1, <3>2
  <2> QED
    BY <2>1, <2>2, <2>3, <2>4
<1> HIDE DEF Part, Kept, k1, k2, k3, k4
<1>5. Part(k1 \o k2, {"file_read"} \cup {"file_write"})
  BY <1>3, <1>4
<1>6. Part((k1 \o k2) \o k3, ({"file_read"} \cup {"file_write"}) \cup {"directory_list"})
  BY <1>3, <1>4, <1>5
<1>7. Part(((k1 \o k2) \o k3) \o k4, (({"file_read"} \cup {"file_write"}) \cup {"directory_list"}) \cup {"code_execute"})
  BY <1>3, <1>4, <1>6
<1>8. (({"file_read"} \cup {"file_write"}) \cup {"directory_list"}) \cup {"code_execute"} = Names
  OBVIOUS
<1>9. BuildPawbunToolRefs(offer.enabled, offer.disabled) = ((k1 \o k2) \o k3) \o k4
  BY DEF BuildPawbunToolRefs, Kept, k1, k2, k3, k4
<1>10. ToolPlaces[4] = "pawbun" /\ Offered("pawbun") \subseteq Names
  BY <1>1 DEF ToolPlaces
<1> HIDE DEF Names
<1> QED
  BY <1>7, <1>8, <1>9, <1>10 DEF Part, OfPlace

\* and the media tool its own:
LEMMA MediaPlaced ==
  OfPlace(IF offer.media THEN Group("media", <<"generate_media">>) ELSE <<>>, 2)
<1>0. ToolPlaces[2] = "media"
  BY DEF ToolPlaces
<1>1. CASE offer.media
  <2>1. PICK q : q = <<"generate_media">>
    OBVIOUS
  <2>2. q \in Seq(ToolNames) /\ DOMAIN q = {1} /\ q[1] = "generate_media"
    <3>1. "generate_media" \in ToolNames
      BY DEF ToolNames
    <3> QED
      BY <2>1, <3>1, SingleSeq
  <2>3. ToSet(q) = {"generate_media"}
    BY <2>2 DEF ToSet
  <2>4. Offered("media") = ToSet(q)
    BY <1>1, <2>3 DEF Offered
  <2>5. "media" \in {"external", "media", "builtin", "pawbun"} /\ 2 \in 1..4
    OBVIOUS
  <2>6. OfPlace(Group("media", q), 2)
    BY <1>0, <2>2, <2>4, <2>5, ListPlaced
  <2> QED
    BY <1>1, <2>1, <2>6
<1>2. CASE ~offer.media
  <2>1. Offered("media") = {}
    BY <1>2 DEF Offered
  <2>2. <<>> \in Seq(Tool) /\ DOMAIN <<>> = {}
    OBVIOUS
  <2> QED
    BY <1>0, <1>2, <2>1, <2>2 DEF OfPlace
<1> QED
  BY <1>1, <1>2

\* all that is offered stands in order of the places.
LEMMA AllPlaced ==
  ASSUME offer \in Offers
  PROVE  \E all : tools = BuildTools(offer) => tools = AssembleTools(all) /\ Placed(all, 4)
<1> DEFINE g1 == Group("external", offer.external)
           g2 == IF offer.media THEN Group("media", <<"generate_media">>) ELSE <<>>
           g3 == Group("builtin", offer.builtin)
           g4 == BuildPawbunToolRefs(offer.enabled, offer.disabled)
<1>1. ToolPlaces[1] = "external" /\ ToolPlaces[3] = "builtin"
  BY DEF ToolPlaces
<1>2. Offered("external") = ToSet(offer.external) /\ Offered("builtin") = ToSet(offer.builtin)
  BY DEF Offered
<1>3. OfPlace(g1, 1) /\ OfPlace(g3, 3)
  <2>1. offer.external \in Seq(ToolNames) /\ offer.builtin \in Seq(ToolNames)
    BY HostAssumption, NamesAreToolNames
  <2> QED
    BY <1>1, <1>2, <2>1, ListPlaced
<1>4. OfPlace(g2, 2) /\ OfPlace(g4, 4)
  BY MediaPlaced, PawbunPlaced
<1>5. BuildTools(offer) = AssembleTools(((g1 \o g2) \o g3) \o g4)
  BY DEF BuildTools
<1> HIDE DEF g1, g2, g3, g4
<1>6. Placed(g1, 1)
  <2>1. 1..1 = {1}
    OBVIOUS
  <2> QED
    BY <1>3, <2>1, PlacesDiffer DEF OfPlace, Placed
<1>7. Placed(g1 \o g2, 2)
  <2>1. 1 \in 0..3 /\ 1 + 1 = 2
    OBVIOUS
  <2> QED
    BY <1>4, <1>6, <2>1, PlacedNext
<1>8. Placed((g1 \o g2) \o g3, 3)
  <2>1. 2 \in 0..3 /\ 2 + 1 = 3
    OBVIOUS
  <2> QED
    BY <1>3, <1>7, <2>1, PlacedNext
<1>9. Placed(((g1 \o g2) \o g3) \o g4, 4)
  <2>1. 3 \in 0..3 /\ 3 + 1 = 4
    OBVIOUS
  <2> QED
    BY <1>4, <1>8, <2>1, PlacedNext
<1> QED
  BY <1>5, <1>9

\* So a session has the first tool that is offered of each name.
LEMMA FirstIsFound ==
  ASSUME offer \in Offers, tools = BuildTools(offer)
  PROVE  ToolsAreFirst
<1>1. PICK all : tools = AssembleTools(all) /\ Placed(all, 4)
  BY AllPlaced
<1>2. all \in Seq(Tool) /\ Len(all) \in Nat /\ DOMAIN all = 1..Len(all)
  BY <1>1, LenProperties DEF Placed
<1>3. tools \in Seq(Tool) /\ FirstOnly(all, Len(all), tools)
  BY <1>1, <1>2, AssembleKeepsFirst
<1>4. \A n, m \in DOMAIN tools : tools[n].name = tools[m].name => n = m
  BY <1>3 DEF FirstOnly
<1>5. DOMAIN ToolPlaces = 1..4
  BY DEF ToolPlaces
<1>6. ASSUME NEW p \in 1..4, NEW name \in Offered(ToolPlaces[p]), \A q \in 1..(p - 1) : name \notin Offered(ToolPlaces[q])
      PROVE  Lookup(name) = ToolPlaces[p]
  <2>1. PICK i \in DOMAIN all : all[i].name = name /\ all[i].from = ToolPlaces[p]
    BY <1>1 DEF Placed
  <2>2. PICK n \in DOMAIN tools : tools[n].name = all[i].name
    BY <1>2, <1>3 DEF FirstOnly
  <2>3. PICK j \in 1..Len(all) : tools[n] = all[j] /\ \A h \in 1..(j - 1) : all[h].name # all[j].name
    BY <1>3 DEF FirstOnly
  <2>4. PICK r \in 1..4 : all[j].from = ToolPlaces[r] /\ all[j].name \in Offered(ToolPlaces[r])
    BY <1>1, <1>2 DEF Placed
  <2>5. all[j].name = name
    BY <2>1, <2>2, <2>3
  <2>6. ~(r < p)
    <3>1. r < p => r \in 1..(p - 1)
      OBVIOUS
    <3> QED
      BY <1>6, <2>4, <2>5, <3>1
  <2>7. ~(p < r)
    <3>1. SUFFICES ASSUME p < r PROVE FALSE
      OBVIOUS
    <3>2. i < j
      <4>1. \A a \in DOMAIN all, b \in DOMAIN all, u \in 1..4, v \in 1..4 :
              all[a].from = ToolPlaces[u] /\ all[b].from = ToolPlaces[v] /\ u < v => a < b
        BY <1>1 DEF Placed
      <4>2. j \in DOMAIN all
        BY <1>2
      <4> QED
        BY <2>1, <2>4, <3>1, <4>1, <4>2
    <3>3. i \in 1..(j - 1)
      BY <1>2, <3>2
    <3> QED
      BY <2>1, <2>3, <2>5, <3>3
  <2>8. tools[n].from = ToolPlaces[p] /\ tools[n].name = name
    BY <2>3, <2>4, <2>5, <2>6, <2>7
  <2> DEFINE hits == {m \in DOMAIN tools : tools[m].name = name}
  <2>9. hits = {n}
    BY <1>4, <2>8
  <2>10. (CHOOSE l \in hits : \A m \in hits : l <= m) = n
    <3>1. n \in Nat /\ n <= n
      BY <1>3, LenProperties
    <3>2. \E l \in hits : \A m \in hits : l <= m
      BY <2>9, <3>1
    <3> HIDE DEF hits
    <3> QED
      BY <2>9, <3>2
  <2>11. hits # {}
    BY <2>9
  <2> QED
    BY <2>8, <2>10, <2>11 DEF Lookup
<1> QED
  BY <1>4, <1>5, <1>6 DEF ToolsAreFirst

\* A list of tools has the first that is offered of each name, and an answer of a call tells what became
\* of its work: whatever is offered, whatever a process reads and writes.
THEOREM HostIsKept == HostSpec => []HostKept
<1> DEFINE Built == offer \in Offers /\ tools = BuildTools(offer)
<1>1. HostInit => Built
  BY DEF HostInit
<1>2. Built /\ [HostNext]_hostVars => Built'
  <2> SUFFICES ASSUME Built, [HostNext]_hostVars PROVE Built'
    OBVIOUS
  <2>1. offer' = offer /\ tools' = tools
    BY DEF hostVars, HostNext, Cancel, StartTool, ToolEnds, AdapterReturns, AdapterCancelled, BashTimesOut, LimitPasses, ToolkitReturns,
           Spawn, WriteStdin, ChildReads, ChildWrites, ChildExits, ReadStdout, WaitEnds, CollectOutput, PostRequest, Headers, Body,
           Respond, Generate, Inline, SaveMedia, builtVars
  <2>2. \A o : BuildTools(o)' = BuildTools(o)
    OBVIOUS
  <2> QED
    BY <2>1, <2>2
<1>3. HostInv /\ Built => HostKept
  BY FirstIsFound DEF HostInv, HostKept
<1> HIDE DEF Built
<1> QED
  BY <1>1, <1>2, <1>3, HostInvariant, PTL DEF HostSpec
===============================================================================
