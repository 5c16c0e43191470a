------------------------------- MODULE McpServer ------------------------------
(***************************************************************************)
(* pawbun-mcp-server: one loop that receives a request, handles it and     *)
(* sends the response, over stdio or over SSE.  Over SSE, each POST puts   *)
(* its request in the loop's queue with a channel for the answer, and a    *)
(* task carries that answer to the session that the POST names; a session  *)
(* that was idle for its time to live is removed.                          *)
(*                                                                         *)
(* Abstractions: a request is its method and whether it has an id; idle    *)
(* time passes at any moment; each client opens one session.               *)
(***************************************************************************)
EXTENDS Integers, Sequences, FiniteSets
LOCAL INSTANCE FiniteSetsExt

CONSTANTS Peers,           \* the server's clients
          MaxConnections,  \* max_connections
          MaxPosts,        \* bound: requests of all clients together
          Toolkits         \* what builders are given: [user, loader, tool_timeout]

ASSUME McpServerAssumption == MaxConnections \in Nat /\ MaxPosts \in Nat

VARIABLES serving,      \* circumstance: "sse" or "stdio"
          hangs,        \* circumstance: a tool may run for ever
          toolkit,      \* the names of the tools registered
          running,      \* run_loop has not returned
          initialized,  \* of the handler, for all sessions
          visit,        \* per client: "new", "checked", "refused", "listening"
          sessions,     \* the clients with an entry in the map
          posted,       \* per client: how many requests it made
          inbox,        \* request_tx; over stdio, the lines of stdin
          handled,      \* the request in the handler
          responder,    \* current_response_tx: the request it belongs to
          outcomes,     \* what respond_or_error_on_close has to forward
          delivered     \* per client: the responses it got

mcpServerVars == <<serving, hangs, toolkit, running, initialized, visit, sessions, posted, inbox,
                   handled, responder, outcomes, delivered>>
setting == <<serving, hangs, toolkit>>

Idle == [from |-> "", id |-> 0, ask |-> ""]
NoId == 0

\* A tool timeout replaces the toolkit by an empty one, after the loader's tools joined it.
Build(given) ==
    IF given.tool_timeout THEN {}
    ELSE given.user \cup (IF given.loader THEN {"file_read", "file_list"} ELSE {})

McpServerInit ==
    /\ serving \in {"sse", "stdio"} /\ hangs \in BOOLEAN
    /\ \E given \in Toolkits : toolkit = Build(given)
    /\ running = TRUE /\ initialized = FALSE
    /\ visit = [c \in Peers |-> "new"] /\ sessions = {} /\ posted = [c \in Peers |-> 0]
    /\ inbox = <<>> /\ handled = Idle /\ responder = Idle /\ outcomes = {}
    /\ delivered = [c \in Peers |-> <<>>]

-----------------------------------------------------------------------------
(* sse_handler, the session map and its collector.                          *)

\* The limit is read under one lock, the session inserted under another.
CheckConnections(c) ==
    /\ serving = "sse" /\ running /\ visit[c] = "new"
    /\ visit' = [visit EXCEPT ![c] = IF Cardinality(sessions) >= MaxConnections THEN "refused" ELSE "checked"]
    /\ UNCHANGED <<setting, running, initialized, sessions, posted, inbox, handled, responder, outcomes, delivered>>

OpenSession(c) ==
    /\ visit[c] = "checked"
    /\ visit' = [visit EXCEPT ![c] = "listening"]
    /\ sessions' = sessions \cup {c}
    /\ UNCHANGED <<setting, running, initialized, posted, inbox, handled, responder, outcomes, delivered>>

\* Neither a heartbeat nor a POST counts as activity, so a session that waits is idle.
ExpireSession(c) ==
    /\ c \in sessions
    /\ sessions' = sessions \ {c}
    /\ UNCHANGED <<setting, running, initialized, visit, posted, inbox, handled, responder, outcomes, delivered>>

\* What a client sends: the methods, as a request or a notification, and, over stdio, a line
\* that is no request (over SSE it is refused before the queue).
Messages == { [ask |-> "initialize", id |-> TRUE], [ask |-> "initialized", id |-> FALSE],
              [ask |-> "initialized", id |-> TRUE], [ask |-> "call", id |-> TRUE],
              [ask |-> "other", id |-> FALSE] }
Garbage == [ask |-> "garbage", id |-> FALSE]

\* message_handler: nothing asks whether the session still exists.
Post(c) ==
    /\ running /\ MapThenSumSet(LAMBDA d : posted[d], Peers) < MaxPosts
    /\ serving = "sse" => visit[c] = "listening"
    /\ \E message \in IF serving = "sse" THEN Messages ELSE Messages \cup {Garbage} :
          inbox' = Append(inbox, [from |-> c, ask |-> message.ask,
                                  id |-> IF message.id THEN posted[c] + 1 ELSE NoId])
    /\ posted' = [posted EXCEPT ![c] = @ + 1]
    /\ UNCHANGED <<setting, running, initialized, visit, sessions, handled, responder, outcomes, delivered>>

-----------------------------------------------------------------------------
(* run_loop: recv, handle, send.                                            *)

\* A channel that is dropped unused becomes an error response, if its request had an id.
Dropped(request) ==
    IF request.id = NoId THEN {} ELSE {[from |-> request.from, id |-> request.id, is |-> "error"]}

Recv_KeepsPending ==
    /\ running /\ handled = Idle /\ inbox # <<>> /\ Head(inbox).ask # "garbage"
    /\ handled' = Head(inbox) /\ inbox' = Tail(inbox)
    /\ responder' = IF responder = Idle /\ serving = "sse" THEN Head(inbox) ELSE responder
    /\ UNCHANGED <<setting, outcomes, running, initialized, visit, sessions, posted, delivered>>

\* recv overwrites the channel of a request that send gave no answer.  Over stdio, a line
\* that is no request ends the server.
Recv ==
    /\ running /\ handled = Idle /\ inbox # <<>>
    /\ inbox' = Tail(inbox)
    /\ IF Head(inbox).ask = "garbage"
       THEN running' = FALSE /\ UNCHANGED <<handled, responder, outcomes>>
       ELSE /\ handled' = Head(inbox)
            /\ IF serving = "stdio" THEN UNCHANGED <<responder, outcomes>>
               ELSE responder' = Head(inbox) /\ outcomes' = outcomes \cup Dropped(responder)
            /\ UNCHANGED running
    /\ UNCHANGED <<setting, initialized, visit, sessions, posted, delivered>>

\* handle: what the response is, the list of tools apart; "empty" is that to the initialized notification, with an id
\* or without.  A call may fail, or come back after its time limit as an error.
Answers(request) ==
    IF ~initialized /\ request.ask \notin {"initialize", "initialized"} THEN {"error"}
    ELSE CASE request.ask = "initialize"  -> {"result", "error"}
           [] request.ask = "initialized" -> {"empty"}
           [] request.ask = "call"        -> IF toolkit = {} THEN {"error"} ELSE {"result", "error"}
           [] request.ask = "other"       -> {"error"}

\* send: an empty response is suppressed and leaves the channel where it is.
HandleRequest ==
    /\ running /\ handled # Idle
    /\ initialized' = (initialized \/ handled.ask = "initialized")
    /\ \E is \in Answers(handled) :
          LET response == [from |-> handled.from, id |-> handled.id, is |-> is]
          IN IF is = "empty" THEN UNCHANGED <<responder, outcomes, delivered>>
             ELSE IF serving = "stdio"
             THEN /\ delivered' = [delivered EXCEPT ![handled.from] = Append(@, response)]
                  /\ UNCHANGED <<responder, outcomes>>
             ELSE /\ outcomes' = IF responder.id = NoId THEN outcomes
                                 ELSE outcomes \cup {[response EXCEPT !.from = responder.from]}
                  /\ responder' = Idle
                  /\ UNCHANGED delivered
    /\ handled' = Idle
    /\ UNCHANGED <<setting, running, visit, sessions, posted, inbox>>

\* respond_or_error_on_close: a task for each request, in any order; an answer for a session
\* that was removed is lost.
RespondOrErrorOnClose ==
    \E outcome \in outcomes :
       /\ outcomes' = outcomes \ {outcome}
       /\ delivered' = IF outcome.from \in sessions
                       THEN [delivered EXCEPT ![outcome.from] = Append(@, outcome)] ELSE delivered
       /\ UNCHANGED <<setting, running, initialized, visit, sessions, posted, inbox, handled, responder>>

McpServerNext ==
    \/ \E c \in Peers : CheckConnections(c) \/ OpenSession(c) \/ ExpireSession(c) \/ Post(c)
    \/ Recv \/ HandleRequest \/ RespondOrErrorOnClose

\* The loop goes on and its tasks run; the handler ends unless a tool does not.
McpServerFairness ==
    /\ WF_mcpServerVars(Recv) /\ WF_mcpServerVars(RespondOrErrorOnClose)
    /\ WF_mcpServerVars((hangs => handled.ask # "call") /\ HandleRequest)

McpServerSpec == McpServerInit /\ [][McpServerNext]_mcpServerVars /\ McpServerFairness

-----------------------------------------------------------------------------
\* Whatever is posted by whom, a client gets answers to its own requests only, and one to
\* each at most: the one channel of the loop never carries another request's answer.
AnsweredOnceToAsker ==
    \A c \in Peers : LET got == delivered[c] IN
       /\ \A i \in DOMAIN got : got[i].from = c /\ (serving = "sse" => got[i].id \in 1..posted[c])
       /\ \A i, j \in DOMAIN got : i # j /\ got[i].id # NoId => got[i].id # got[j].id

Taken(c) == {delivered[c][i].id : i \in DOMAIN delivered[c]}

\* Every request with an id is answered, unless its session was removed or the server ended:
\* checked for what is handled and not suppressed.
HandledIsAnswered ==
    \A c \in Peers : \A id \in 1..MaxPosts :
       (handled.from = c /\ handled.id = id /\ handled.ask # "initialized" /\ ~hangs)
       ~> (id \in Taken(c) \/ (serving = "sse" /\ c \notin sessions))

\* What a reader may expect and the code does not keep (README).
ConnectionsBounded == Cardinality(sessions) <= MaxConnections
\* The answer of a request that was handled reaches its client.
AnswerReaches == \A c \in Peers : \A id \in 1..MaxPosts :
    (handled.from = c /\ handled.id = id /\ ~hangs) ~> id \in Taken(c)
NotificationUnanswered == \A c \in Peers : \A i \in DOMAIN delivered[c] : delivered[c][i].id # NoId
\* A request that is served is served to somebody who can be told.
ServedIsTold == handled # Idle /\ serving = "sse" => handled.from \in sessions
==============================================================================
