---------------------------- MODULE EventDelivery ----------------------------
(***************************************************************************)
(* The way of a session's events from the agent loop to the clients.       *)
(*                                                                         *)
(* The loop puts them in the hub's queue and never waits; one task takes   *)
(* them out and broadcasts them.  Each subscription has a forwarder, which *)
(* takes from the broadcast into a bounded channel and ends for good when  *)
(* it has fallen too far behind.  An SSE client reads all the time, a      *)
(* WebSocket client not while a prompt of its own runs, and                *)
(* send_message_and_wait subscribes, prompts, and only then reads.         *)
(*                                                                         *)
(* Abstractions: an event is its prompt and its type; a subscription's     *)
(* channel, the forwarder's hand and an SSE response's own channel are one *)
(* buffer; heartbeats and the clients' side of the connection are left out.*)
(***************************************************************************)
EXTENDS Naturals, Sequences, FiniteSets

CONSTANTS Clients,       \* clients of one session
          Kind,          \* per client: "sse", "ws", "wait" (send_message_and_wait)
          HubCap,        \* the hub's queue
          BroadcastCap,  \* how far a forwarder may fall behind
          BufferCap,     \* what a subscription buffers
          MaxEvents,     \* bound: events emitted
          MaxPrompts     \* bound: prompts

ASSUME DeliveryAssumption ==
    /\ Kind \in [Clients -> {"sse", "ws", "wait"}]
    /\ {HubCap, BroadcastCap, BufferCap} \subseteq Nat \ {0}
    /\ MaxEvents \in Nat /\ MaxPrompts \in Nat

VARIABLES hub,       \* SessionEventHub's queue
          emitted,   \* events emitted so far, dropped ones included
          sent,      \* what the processor has broadcast
          prompts,   \* prompts begun
          runner,    \* whose prompt runs
          turnOpen,  \* between TurnStart and TurnEnd
          client,    \* where each client is
          next,      \* the broadcast its forwarder takes next, 0 if it has none
          buffer,    \* the broadcasts in its channel
          read,      \* the broadcast it reads next
          answer     \* what send_message_and_wait returned

deliveryVars == <<hub, emitted, sent, prompts, runner, turnOpen, client, next, buffer, read, answer>>
stream == <<hub, emitted, sent>>
running == <<prompts, runner, turnOpen>>

Nobody == "nobody"
NoAnswer == [type |-> "none", prompt |-> 0]
Timeout == [type |-> "timeout", prompt |-> 0]
Types == {"TurnStart", "Update", "TurnEnd", "Error"}
AgentEvents == [type : Types, prompt : 1..MaxPrompts]

DeliveryInit ==
    /\ hub = <<>> /\ emitted = 0 /\ sent = <<>>
    /\ prompts = 0 /\ runner = Nobody /\ turnOpen = FALSE
    /\ client = [c \in Clients |-> [pc |-> "out", mine |-> 0]]
    /\ next = [c \in Clients |-> 0] /\ read = [c \in Clients |-> 0]
    /\ buffer = [c \in Clients |-> <<>>]
    /\ answer = [c \in Clients |-> NoAnswer]

Goes(c, pc) == client' = [client EXCEPT ![c].pc = pc]

-----------------------------------------------------------------------------
(* Clients begin.                                                           *)

\* subscribe_events: from the next broadcast on.
Subscribe(c) ==
    /\ client[c].pc = "out"
    /\ next' = [next EXCEPT ![c] = Len(sent) + 1]
    /\ read' = [read EXCEPT ![c] = Len(sent) + 1]
    /\ Goes(c, IF Kind[c] = "wait" THEN "queued" ELSE "reading")
    /\ UNCHANGED <<stream, running, buffer, answer>>

\* A send_message frame: the socket's loop awaits the whole prompt.
SocketSends(c) ==
    /\ Kind[c] = "ws" /\ client[c].pc = "reading"
    /\ Goes(c, "queued")
    /\ UNCHANGED <<stream, running, next, buffer, read, answer>>

\* The session's mutex is free.
StartRun(c) ==
    /\ client[c].pc = "queued" /\ runner = Nobody /\ prompts < MaxPrompts
    /\ prompts' = prompts + 1 /\ runner' = c
    /\ client' = [client EXCEPT ![c] = [pc |-> "running", mine |-> prompts + 1]]
    /\ UNCHANGED <<stream, turnOpen, next, buffer, read, answer>>

-----------------------------------------------------------------------------
(* The agent loop.                                                          *)

\* event_sink: try_send, and a full queue drops the event.
Emit(type) ==
    /\ emitted < MaxEvents
    /\ emitted' = emitted + 1
    /\ hub' = IF Len(hub) < HubCap THEN Append(hub, [type |-> type, prompt |-> prompts]) ELSE hub
    /\ UNCHANGED sent

RunEmits ==
    /\ runner # Nobody
    /\ \/ Emit("TurnStart") /\ ~turnOpen /\ turnOpen' = TRUE
       \/ Emit("Update") /\ turnOpen /\ UNCHANGED turnOpen
       \/ Emit("TurnEnd") /\ turnOpen /\ turnOpen' = FALSE
    /\ UNCHANGED <<prompts, runner, client, next, buffer, read, answer>>

\* The prompt returns: a socket reads on, a waiting request begins to read.
RunEnds ==
    /\ runner # Nobody /\ ~turnOpen
    /\ runner' = Nobody
    /\ Goes(runner, "reading")
    /\ UNCHANGED <<stream, prompts, turnOpen, next, buffer, read, answer>>

\* It fails: send_message_and_wait returns the error of send_message, and reads nothing.
RunFails ==
    /\ runner # Nobody
    /\ Emit("Error")
    /\ turnOpen' = FALSE /\ runner' = Nobody
    /\ IF Kind[runner] = "wait"
       THEN /\ Goes(runner, "gone")
            /\ answer' = [answer EXCEPT ![runner] = [type |-> "Error", prompt |-> prompts]]
            /\ next' = [next EXCEPT ![runner] = 0]
       ELSE Goes(runner, "reading") /\ UNCHANGED <<answer, next>>
    /\ UNCHANGED <<prompts, buffer, read>>

-----------------------------------------------------------------------------
(* Hub, bridge, forwarders.                                                 *)

\* The processor task: one event to every listener.
Process ==
    /\ hub # <<>>
    /\ sent' = Append(sent, Head(hub)) /\ hub' = Tail(hub)
    /\ UNCHANGED <<emitted, running, client, next, buffer, read, answer>>

Lags(c) == Len(sent) + 1 - next[c] > BroadcastCap

Forward_SkipsAhead(c) ==
    /\ next[c] \in 1..Len(sent) /\ Len(buffer[c]) < BufferCap
    /\ LET n == IF Lags(c) THEN Len(sent) + 1 - BroadcastCap ELSE next[c]
       IN next' = [next EXCEPT ![c] = n + 1] /\ buffer' = [buffer EXCEPT ![c] = Append(@, n)]
    /\ UNCHANGED <<stream, running, client, read, answer>>

\* The forwarder takes the next broadcast; one that lags ends, and its channel closes.
Forward(c) ==
    /\ next[c] \in 1..Len(sent) /\ Len(buffer[c]) < BufferCap
    /\ IF Lags(c)
       THEN next' = [next EXCEPT ![c] = 0] /\ UNCHANGED buffer
       ELSE /\ buffer' = [buffer EXCEPT ![c] = Append(@, next[c])]
            /\ next' = [next EXCEPT ![c] = @ + 1]
    /\ UNCHANGED <<stream, running, client, read, answer>>

\* What is behind a subscription is let go of.
Unsubscribed(c) == next' = [next EXCEPT ![c] = 0] /\ buffer' = [buffer EXCEPT ![c] = <<>>]

-----------------------------------------------------------------------------
(* Clients read.                                                            *)

Reads(c) == client[c].pc = "reading" /\ buffer[c] # <<>>

Shown(c) ==
    /\ read' = [read EXCEPT ![c] = Head(buffer[c]) + 1]
    /\ buffer' = [buffer EXCEPT ![c] = Tail(@)]
    /\ UNCHANGED <<stream, running, client, next, answer>>

\* The response's task and stream pass on what the subscription receives.
StreamReads(c) == Kind[c] = "sse" /\ Reads(c) /\ Shown(c)

\* The socket's loop, while it is not in a prompt of its own.
SocketReads(c) == Kind[c] = "ws" /\ Reads(c) /\ Shown(c)

\* send_message_and_wait returns at the first TurnEnd or Error it reads.
AwaitEvent(c) ==
    /\ Kind[c] = "wait" /\ Reads(c)
    /\ LET e == sent[Head(buffer[c])]
       IN IF e.type \in {"TurnEnd", "Error"}
          THEN /\ answer' = [answer EXCEPT ![c] = e]
               /\ Goes(c, "gone") /\ Unsubscribed(c)
          ELSE /\ buffer' = [buffer EXCEPT ![c] = Tail(@)]
               /\ UNCHANGED <<answer, client, next>>
    /\ read' = [read EXCEPT ![c] = Head(buffer[c]) + 1]
    /\ UNCHANGED <<stream, running>>

\* The time is up, or the channel is closed, which it reports the same way.
AwaitEnds(c) ==
    /\ Kind[c] = "wait" /\ client[c].pc = "reading"
    /\ answer' = [answer EXCEPT ![c] = Timeout]
    /\ Goes(c, "gone") /\ Unsubscribed(c)
    /\ UNCHANGED <<stream, running, read>>

\* The client goes away, or an SSE response ends with its channel; a socket stays.
Leave(c) ==
    /\ Kind[c] # "wait" /\ client[c].pc = "reading"
    /\ Goes(c, "gone") /\ Unsubscribed(c)
    /\ UNCHANGED <<stream, running, read, answer>>

DeliveryNext ==
    \/ RunEmits \/ RunEnds \/ RunFails \/ Process
    \/ \E c \in Clients :
          \/ Subscribe(c) \/ SocketSends(c) \/ StartRun(c)
          \/ Forward(c) \/ StreamReads(c) \/ SocketReads(c) \/ AwaitEvent(c) \/ AwaitEnds(c) \/ Leave(c)

DeliverySpec == DeliveryInit /\ [][DeliveryNext]_deliveryVars

-----------------------------------------------------------------------------

\* The types of the variables.
DeliveryTypeOK ==
    /\ hub \in Seq(AgentEvents) /\ sent \in Seq(AgentEvents) /\ Len(hub) <= HubCap
    /\ emitted \in 0..MaxEvents /\ prompts \in 0..MaxPrompts
    /\ runner \in Clients \cup {Nobody} /\ turnOpen \in BOOLEAN
    /\ client \in [Clients -> [pc : {"out", "queued", "running", "reading", "gone"}, mine : 0..MaxPrompts]]
    /\ next \in [Clients -> 0..MaxEvents + 1] /\ read \in [Clients -> 0..MaxEvents + 1]
    /\ buffer \in [Clients -> Seq(1..MaxEvents)]
    /\ answer \in [Clients -> AgentEvents \cup {NoAnswer, Timeout}]

\* What a client has still to read continues what it has read, event by event, as long
\* as it is subscribed: a subscription is cut off, never thinned out, whoever reads
\* slowly or stops reading for a prompt of its own.
SubscriberSeesRun ==
    \A c \in Clients : client[c].pc \notin {"out", "gone"} =>
        /\ \A i \in DOMAIN buffer[c] : buffer[c][i] = read[c] + i - 1
        /\ next[c] # 0 => next[c] = read[c] + Len(buffer[c])

\* What the documentation expects and the code does not keep (README).
\* send_message_and_wait answers with a turn of its own prompt.
AnswerIsOwn == \A c \in Clients :
    answer[c] \notin {NoAnswer, Timeout} => answer[c].prompt = client[c].mine
\* It times out only when there is nothing to answer with.
TimeoutMeansNoTurn == [][\A c \in Clients : AwaitEnds(c) =>
    ~\E i \in DOMAIN sent : sent[i] = [type |-> "TurnEnd", prompt |-> client[c].mine]]_deliveryVars
\* A socket that is open is subscribed.
SocketIsServed == \A c \in Clients :
    Kind[c] = "ws" /\ client[c].pc = "reading" => next[c] # 0
==============================================================================
