----------------------------- MODULE Service_proofs -----------------------------
(***************************************************************************)
(* The tenant layer and the gateway around a session, for any number of    *)
(* clients, deliveries and requests and any capacity, limit and bound:     *)
(* subscriptions are never thinned out, a webhook is disabled for a        *)
(* reason, neither the rate nor a quota is overrun by more than the code   *)
(* allows, and what the gateway answers is so.                             *)
(***************************************************************************)
EXTENDS EventDelivery, Webhooks, RateLimiter, Admission, Gateway, FiniteSetTheorems, SequenceTheorems, TLAPS

-----------------------------------------------------------------------------
(* Functions.                                                               *)

\* A function that is changed at one point keeps its type and its other values.
LEMMA ChangedAt ==
  ASSUME NEW S, NEW T, NEW f \in [S -> T], NEW c \in S, NEW e \in T
  PROVE  /\ [f EXCEPT ![c] = e] \in [S -> T]
         /\ \A d \in S : [f EXCEPT ![c] = e][d] = IF d = c THEN e ELSE f[d]
  OBVIOUS

\* The empty sequence has no positions.
LEMMA NothingInEmpty == DOMAIN <<>> = {} /\ Len(<<>>) = 0
<1>1. <<>> \in Seq({}) /\ Len(<<>>) = 0
  BY EmptySeq
<1>2. DOMAIN <<>> = 1..0
  BY <1>1, LenProperties
<1> QED
  BY <1>1, <1>2

-----------------------------------------------------------------------------
(* EventDelivery: types.                                                    *)

\* Nothing is numbered beyond what was broadcast, and nothing is broadcast that was not
\* emitted; an event belongs to a prompt that has begun.
Numbered ==
    /\ Len(sent) + Len(hub) <= emitted
    /\ runner # Nobody => prompts > 0
    /\ \A c \in Clients :
          /\ next[c] <= Len(sent) + 1 /\ read[c] <= Len(sent) + 1
          /\ \A i \in DOMAIN buffer[c] : buffer[c][i] <= Len(sent)

Places == {"out", "queued", "running", "reading", "gone"}

\* A client that goes somewhere keeps its prompt.
LEMMA GoesStep ==
  ASSUME DeliveryTypeOK, NEW c \in Clients, NEW place \in Places, Goes(c, place)
  PROVE  /\ client' \in [Clients -> [pc : Places, mine : 0..MaxPrompts]]
         /\ \A d \in Clients : client'[d].pc = IF d = c THEN place ELSE client[d].pc
<1>1. client \in [Clients -> [pc : Places, mine : 0..MaxPrompts]]
  BY DEF DeliveryTypeOK, Places
<1>2. client' = [client EXCEPT ![c] = [client[c] EXCEPT !.pc = place]]
  BY DEF Goes
<1>3. [client[c] EXCEPT !.pc = place] \in [pc : Places, mine : 0..MaxPrompts]
      /\ [client[c] EXCEPT !.pc = place].pc = place
  BY <1>1
<1> QED
  BY <1>1, <1>2, <1>3, ChangedAt

\* A forwarder, or who reads, moves on to a broadcast there may be.
LEMMA MovesTo ==
  ASSUME DeliveryAssumption, DeliveryTypeOK, Numbered, NEW c \in Clients, NEW n \in 0..Len(sent) + 1
  PROVE  /\ [next EXCEPT ![c] = n] \in [Clients -> 0..MaxEvents + 1]
         /\ [read EXCEPT ![c] = n] \in [Clients -> 0..MaxEvents + 1]
         /\ \A d \in Clients : [next EXCEPT ![c] = n][d] <= Len(sent) + 1
         /\ \A d \in Clients : [read EXCEPT ![c] = n][d] <= Len(sent) + 1
<1>1. n \in 0..MaxEvents + 1 /\ n <= Len(sent) + 1
  <2>1. Len(sent) \in Nat /\ Len(hub) \in Nat /\ Len(sent) + Len(hub) <= emitted /\ emitted \in 0..MaxEvents /\ MaxEvents \in Nat
    BY LenProperties DEF DeliveryTypeOK, Numbered, DeliveryAssumption
  <2> QED
    BY <2>1
<1>2. next \in [Clients -> 0..MaxEvents + 1] /\ read \in [Clients -> 0..MaxEvents + 1]
  BY DEF DeliveryTypeOK
<1>3. \A d \in Clients : next[d] <= Len(sent) + 1 /\ read[d] <= Len(sent) + 1
  BY DEF Numbered
<1> QED
  BY <1>1, <1>2, <1>3, ChangedAt

\* A subscription that is let go of takes its numbers with it.
LEMMA UnsubscribedStep ==
  ASSUME DeliveryAssumption, DeliveryTypeOK, Numbered, NEW c \in Clients, Unsubscribed(c)
  PROVE  /\ next' \in [Clients -> 0..MaxEvents + 1] /\ buffer' \in [Clients -> Seq(1..MaxEvents)]
         /\ \A d \in Clients : /\ next'[d] <= Len(sent) + 1
                               /\ \A i \in DOMAIN buffer'[d] : buffer'[d][i] <= Len(sent)
<1>1. 0 \in 0..Len(sent) + 1
  BY LenProperties DEF DeliveryTypeOK
<1>2. /\ [buffer EXCEPT ![c] = <<>>] \in [Clients -> Seq(1..MaxEvents)]
      /\ \A d \in Clients : \A i \in DOMAIN [buffer EXCEPT ![c] = <<>>][d] : [buffer EXCEPT ![c] = <<>>][d][i] <= Len(sent)
  <2>0. <<>> \in Seq(1..MaxEvents) /\ DOMAIN <<>> = {}
    BY NothingInEmpty, EmptySeq
  <2>1. buffer \in [Clients -> Seq(1..MaxEvents)]
    BY DEF DeliveryTypeOK
  <2>3. \A d \in Clients : \A i \in DOMAIN buffer[d] : buffer[d][i] <= Len(sent)
    BY DEF Numbered
  <2>2. \A d \in Clients : [buffer EXCEPT ![c] = <<>>][d] = IF d = c THEN <<>> ELSE buffer[d]
    BY <2>1
  <2> QED
    BY <2>0, <2>1, <2>2, <2>3
<1> QED
  BY <1>1, <1>2, MovesTo DEF Unsubscribed

\* An event of the run under way is one of the session's events.
LEMMA RunningEvent ==
  ASSUME DeliveryAssumption, DeliveryTypeOK, Numbered, runner # Nobody, NEW type \in Types
  PROVE  [type |-> type, prompt |-> prompts] \in AgentEvents
  BY DEF DeliveryAssumption, DeliveryTypeOK, Numbered, AgentEvents

\* try_send keeps the queue within its capacity, and counts what it drops.
LEMMA EmitStep ==
  ASSUME DeliveryAssumption, DeliveryTypeOK, Numbered, runner # Nobody,
         NEW type \in Types, Emit(type)
  PROVE  /\ hub' \in Seq(AgentEvents) /\ Len(hub') <= HubCap
         /\ sent' = sent /\ emitted' \in 0..MaxEvents
         /\ Len(sent') + Len(hub') <= emitted'
<1>1. [type |-> type, prompt |-> prompts] \in AgentEvents
  BY RunningEvent
<1>2. hub \in Seq(AgentEvents) /\ Len(hub) \in Nat /\ Len(sent) \in Nat /\ emitted \in 0..MaxEvents
  BY LenProperties DEF DeliveryTypeOK
<1>3. CASE Len(hub) < HubCap
  <2>1. hub' = Append(hub, [type |-> type, prompt |-> prompts])
    BY <1>3 DEF Emit
  <2>2. hub' \in Seq(AgentEvents) /\ Len(hub') = Len(hub) + 1
    BY <1>1, <1>2, <2>1, AppendProperties
  <2> QED
    BY <1>2, <1>3, <2>2 DEF Emit, Numbered, DeliveryAssumption
<1>4. CASE ~(Len(hub) < HubCap)
  BY <1>2, <1>4 DEF Emit, Numbered, DeliveryTypeOK, DeliveryAssumption
<1> QED
  BY <1>3, <1>4

\* What Process does to the numbers.
LEMMA ProcessStep ==
  ASSUME DeliveryAssumption, DeliveryTypeOK, Numbered, Process
  PROVE  DeliveryTypeOK' /\ Numbered'
<1>1. hub \in Seq(AgentEvents) /\ sent \in Seq(AgentEvents) /\ hub # <<>> /\ Len(hub) \in Nat /\ Len(sent) \in Nat
  BY LenProperties DEF DeliveryTypeOK, Process
<1>2. /\ Head(hub) \in AgentEvents /\ Tail(hub) \in Seq(AgentEvents) /\ Len(Tail(hub)) = Len(hub) - 1
  BY <1>1, HeadTailProperties
<1>3. /\ Append(sent, Head(hub)) \in Seq(AgentEvents) /\ Len(Append(sent, Head(hub))) = Len(sent) + 1
  BY <1>1, <1>2, AppendProperties
<1>4. /\ sent' = Append(sent, Head(hub)) /\ hub' = Tail(hub)
      /\ UNCHANGED <<emitted, prompts, runner, turnOpen, client, next, buffer, read, answer>>
  BY DEF Process, running
<1>5. DeliveryTypeOK'
  BY SMTT(30), <1>1, <1>2, <1>3, <1>4 DEF DeliveryTypeOK, DeliveryAssumption
<1>6. Len(sent') = Len(sent) + 1 /\ Len(hub') = Len(hub) - 1
  BY <1>2, <1>3, <1>4
<1>7. ASSUME NEW c \in Clients
      PROVE  /\ next'[c] <= Len(sent') + 1 /\ read'[c] <= Len(sent') + 1
             /\ \A i \in DOMAIN buffer'[c] : buffer'[c][i] <= Len(sent')
  <2>1. /\ next[c] \in Nat /\ read[c] \in Nat /\ buffer[c] \in Seq(1..MaxEvents)
        /\ \A i \in DOMAIN buffer[c] : buffer[c][i] \in 1..MaxEvents
    <3>1. next[c] \in Nat /\ read[c] \in Nat /\ buffer[c] \in Seq(1..MaxEvents)
      BY DEF DeliveryTypeOK, DeliveryAssumption
    <3> QED
      BY <3>1, LenProperties, ElementOfSeq
  <2>2. /\ next[c] <= Len(sent) + 1 /\ read[c] <= Len(sent) + 1
        /\ \A i \in DOMAIN buffer[c] : buffer[c][i] <= Len(sent)
    BY DEF Numbered
  <2> QED
    BY SMTT(30), <1>1, <1>4, <1>6, <2>1, <2>2 DEF DeliveryAssumption
<1>8. Numbered'
  BY <1>1, <1>4, <1>6, <1>7 DEF Numbered, DeliveryTypeOK
<1> QED
  BY <1>5, <1>8

\* Each step of the hub, its subscribers and their clients keeps the types.
LEMMA DeliveryTypeStep ==
  ASSUME DeliveryAssumption, DeliveryTypeOK, Numbered, [DeliveryNext]_deliveryVars
  PROVE  DeliveryTypeOK' /\ Numbered'
<1>0. /\ hub \in Seq(AgentEvents) /\ sent \in Seq(AgentEvents) /\ Len(hub) \in Nat /\ Len(sent) \in Nat
      /\ emitted \in 0..MaxEvents /\ Len(sent) <= emitted /\ MaxEvents \in Nat /\ MaxPrompts \in Nat
      /\ Len(sent) + Len(hub) <= emitted
  BY LenProperties DEF DeliveryTypeOK, Numbered, DeliveryAssumption
<1>00. \A c \in Clients : buffer[c] \in Seq(1..MaxEvents) /\ Len(buffer[c]) \in Nat
                          /\ \A i \in DOMAIN buffer[c] : buffer[c][i] \in 1..MaxEvents
  BY LenProperties, ElementOfSeq DEF DeliveryTypeOK
<1>1. ASSUME NEW c \in Clients, Subscribe(c) PROVE DeliveryTypeOK' /\ Numbered'
  <2>1. /\ next' = [next EXCEPT ![c] = Len(sent) + 1] /\ read' = [read EXCEPT ![c] = Len(sent) + 1]
        /\ Goes(c, "queued") \/ Goes(c, "reading")
        /\ UNCHANGED <<hub, emitted, sent, prompts, runner, turnOpen, buffer, answer>>
    BY <1>1 DEF Subscribe, stream, running
  <2>2. client' \in [Clients -> [pc : Places, mine : 0..MaxPrompts]]
    BY <2>1, GoesStep DEF Places
  <2>3. Len(sent) + 1 \in 0..Len(sent) + 1
    BY <1>0
  <2> QED
    BY <2>1, <2>2, <2>3, MovesTo DEF DeliveryTypeOK, Numbered, Places
<1>2. ASSUME NEW c \in Clients, SocketSends(c) PROVE DeliveryTypeOK' /\ Numbered'
  BY <1>0, <1>2 DEF SocketSends, Goes, stream, running, DeliveryTypeOK, Numbered
<1>3. ASSUME NEW c \in Clients, StartRun(c) PROVE DeliveryTypeOK' /\ Numbered'
  <2>1. [pc |-> "running", mine |-> prompts + 1] \in [pc : Places, mine : 0..MaxPrompts]
        /\ prompts + 1 \in 1..MaxPrompts
    BY <1>0, <1>3 DEF StartRun, DeliveryTypeOK, Places
  <2>2. client' \in [Clients -> [pc : Places, mine : 0..MaxPrompts]]
    BY <1>3, <2>1, ChangedAt DEF StartRun, DeliveryTypeOK, Places
  <2>3. prompts' = prompts + 1 /\ runner' = c /\ UNCHANGED <<hub, emitted, sent, turnOpen, next, buffer, read, answer>>
    BY <1>3 DEF StartRun, stream
  <2>4. prompts' \in 0..MaxPrompts /\ prompts' > 0
    BY <1>0, <2>1, <2>3
  <2>5. DeliveryTypeOK'
    BY <2>2, <2>3, <2>4 DEF DeliveryTypeOK, Places
  <2> QED
    BY <2>3, <2>4, <2>5 DEF Numbered
<1>4. CASE RunEmits
  <2>1. PICK type \in Types : Emit(type)
    BY <1>4 DEF RunEmits, Types
  <2>2. /\ hub' \in Seq(AgentEvents) /\ Len(hub') <= HubCap /\ sent' = sent
        /\ emitted' \in 0..MaxEvents /\ Len(sent') + Len(hub') <= emitted'
    BY <1>4, <2>1, EmitStep DEF RunEmits
  <2>3. turnOpen' \in BOOLEAN /\ UNCHANGED <<prompts, runner, client, next, buffer, read, answer>>
    BY <1>4 DEF RunEmits, DeliveryTypeOK
  <2> QED
    BY <2>2, <2>3 DEF DeliveryTypeOK, Numbered
<1>5. CASE RunEnds
  BY <1>0, <1>5 DEF RunEnds, Goes, stream, running, DeliveryTypeOK, Numbered
<1>6. CASE RunFails
  <2>1. Emit("Error") /\ runner # Nobody /\ runner \in Clients
    BY <1>6 DEF RunFails, DeliveryTypeOK
  <2>2. /\ hub' \in Seq(AgentEvents) /\ Len(hub') <= HubCap /\ sent' = sent
        /\ emitted' \in 0..MaxEvents /\ Len(sent') + Len(hub') <= emitted'
    BY <2>1, EmitStep DEF Types
  <2>3. turnOpen' = FALSE /\ runner' = Nobody /\ UNCHANGED <<prompts, buffer, read>>
    BY <1>6 DEF RunFails
  <2>4. [type |-> "Error", prompt |-> prompts] \in AgentEvents
    BY <2>1, RunningEvent DEF Types
  <2>5. /\ next' = next \/ next' = [next EXCEPT ![runner] = 0]
        /\ answer' = answer \/ answer' = [answer EXCEPT ![runner] = [type |-> "Error", prompt |-> prompts]]
        /\ Goes(runner, "gone") \/ Goes(runner, "reading")
    BY <1>6 DEF RunFails
  <2>6. client' \in [Clients -> [pc : Places, mine : 0..MaxPrompts]]
    BY <2>1, <2>5, GoesStep DEF Places
  <2>7. answer' \in [Clients -> AgentEvents \cup {NoAnswer, Timeout}]
    BY <2>1, <2>4, <2>5 DEF DeliveryTypeOK
  <2>8. /\ next' \in [Clients -> 0..MaxEvents + 1]
        /\ \A c \in Clients : next'[c] <= Len(sent) + 1
    <3>1. 0 \in 0..Len(sent) + 1
      BY <1>0
    <3> QED
      <4>1. CASE next' = [next EXCEPT ![runner] = 0]
        BY <2>1, <3>1, <4>1, MovesTo
      <4>2. CASE next' = next
        BY <4>2 DEF DeliveryTypeOK, Numbered
      <4> QED
        BY <2>5, <4>1, <4>2
  <2>9. DeliveryTypeOK'
    BY <2>2, <2>3, <2>6, <2>7, <2>8 DEF DeliveryTypeOK, Places
  <2> QED
    BY <2>2, <2>3, <2>8, <2>9 DEF Numbered
<1>7. ASSUME NEW c \in Clients, Forward(c) PROVE DeliveryTypeOK' /\ Numbered'
  <2>1. next[c] \in 1..Len(sent) /\ next[c] \in 1..MaxEvents
    BY <1>0, <1>7 DEF Forward
  <2>2. /\ Append(buffer[c], next[c]) \in Seq(1..MaxEvents)
        /\ \A i \in DOMAIN Append(buffer[c], next[c]) : Append(buffer[c], next[c])[i] <= Len(sent)
    <3> DEFINE b == buffer[c]
               e == next[c]
    <3>0. b \in Seq(1..MaxEvents) /\ e \in 1..MaxEvents /\ Len(b) \in Nat /\ DOMAIN b = 1..Len(b)
      BY <1>00, <2>1, LenProperties
    <3>1. /\ Append(b, e) \in Seq(1..MaxEvents) /\ Len(Append(b, e)) = Len(b) + 1
          /\ \A i \in 1..Len(b) : Append(b, e)[i] = b[i]
          /\ Append(b, e)[Len(b) + 1] = e
      BY <3>0, AppendProperties
    <3>2. DOMAIN Append(b, e) = 1..Len(b) + 1
      BY <3>1, LenProperties
    <3>3. (\A i \in DOMAIN b : b[i] <= Len(sent)) /\ e <= Len(sent)
      BY <2>1 DEF Numbered
    <3> HIDE DEF b, e
    <3>4. ASSUME NEW i \in DOMAIN Append(b, e) PROVE Append(b, e)[i] <= Len(sent)
      BY <3>0, <3>1, <3>2, <3>3
    <3> QED
      BY <3>1, <3>4 DEF b, e
  <2>3. /\ buffer' \in [Clients -> Seq(1..MaxEvents)]
        /\ \A d \in Clients : \A i \in DOMAIN buffer'[d] : buffer'[d][i] <= Len(sent)
    <3>1. buffer' = buffer \/ buffer' = [buffer EXCEPT ![c] = Append(buffer[c], next[c])]
      BY <1>7 DEF Forward
    <3> QED
      BY <2>2, <3>1 DEF DeliveryTypeOK, Numbered
  <2>4. /\ next' \in [Clients -> 0..MaxEvents + 1]
        /\ \A d \in Clients : next'[d] <= Len(sent) + 1
    <3>1. next' = [next EXCEPT ![c] = 0] \/ next' = [next EXCEPT ![c] = next[c] + 1]
      BY <1>7 DEF Forward
    <3>2. 0 \in 0..Len(sent) + 1 /\ next[c] + 1 \in 0..Len(sent) + 1
      BY SMTT(30), <1>0, <2>1
    <3> QED
      BY SMTT(30), <3>1, <3>2, MovesTo
  <2>5. UNCHANGED <<hub, emitted, sent, prompts, runner, turnOpen, client, read, answer>>
    BY <1>7 DEF Forward, stream, running
  <2> QED
    BY <2>3, <2>4, <2>5 DEF DeliveryTypeOK, Numbered
<1>8. ASSUME NEW c \in Clients, Reads(c)
      PROVE  /\ Head(buffer[c]) \in 1..Len(sent) /\ Tail(buffer[c]) \in Seq(1..MaxEvents)
             /\ \A i \in DOMAIN Tail(buffer[c]) : Tail(buffer[c])[i] <= Len(sent)
             /\ sent[Head(buffer[c])] \in AgentEvents
  <2> DEFINE b == buffer[c]
  <2>1. b \in Seq(1..MaxEvents) /\ b # <<>> /\ Len(b) \in Nat \ {0} /\ DOMAIN b = 1..Len(b)
        /\ \A i \in DOMAIN b : b[i] \in 1..MaxEvents /\ b[i] <= Len(sent)
    BY <1>00, <1>8, EmptySeq, LenProperties DEF Reads, Numbered
  <2>2. Head(b) = b[1]
    BY <2>1
  <2> HIDE DEF b
  <2>3. /\ Tail(b) \in Seq(1..MaxEvents) /\ Len(Tail(b)) = Len(b) - 1
        /\ \A i \in 1..Len(Tail(b)) : Tail(b)[i] = b[i + 1]
    BY <2>1, HeadTailProperties
  <2>4. DOMAIN Tail(b) = 1..Len(b) - 1
    BY <2>3, LenProperties
  <2>5. Head(b) \in 1..Len(sent)
    BY SMTT(30), <1>0, <2>1, <2>2
  <2>6. \A i \in DOMAIN Tail(b) : Tail(b)[i] <= Len(sent)
    BY SMTT(30), <2>1, <2>3, <2>4
  <2>7. sent[Head(b)] \in AgentEvents
    BY <1>0, <2>5, ElementOfSeq
  <2> QED
    BY <2>3, <2>5, <2>6, <2>7 DEF b
<1>9. ASSUME NEW c \in Clients, StreamReads(c) \/ SocketReads(c) PROVE DeliveryTypeOK' /\ Numbered'
  <2>1. Reads(c) /\ Shown(c)
    BY <1>9 DEF StreamReads, SocketReads
  <2>2. /\ read' = [read EXCEPT ![c] = Head(buffer[c]) + 1]
        /\ buffer' = [buffer EXCEPT ![c] = Tail(buffer[c])]
        /\ UNCHANGED <<hub, emitted, sent, prompts, runner, turnOpen, client, next, answer>>
    BY <2>1 DEF Shown, stream, running
  <2> QED
    <3>1. Head(buffer[c]) + 1 \in 0..Len(sent) + 1
      BY SMTT(30), <1>0, <1>8, <2>1
    <3>2. /\ buffer' \in [Clients -> Seq(1..MaxEvents)]
          /\ \A d \in Clients : \A i \in DOMAIN buffer'[d] : buffer'[d][i] <= Len(sent)
      <4>1. buffer \in [Clients -> Seq(1..MaxEvents)]
            /\ \A d \in Clients : \A i \in DOMAIN buffer[d] : buffer[d][i] <= Len(sent)
        BY DEF DeliveryTypeOK, Numbered
      <4> QED
        BY <1>8, <2>1, <2>2, <4>1, ChangedAt
    <3> QED
      BY <2>2, <3>1, <3>2, MovesTo DEF DeliveryTypeOK, Numbered
<1>10. ASSUME NEW c \in Clients, AwaitEvent(c) PROVE DeliveryTypeOK' /\ Numbered'
  <2>1. Reads(c) /\ read' = [read EXCEPT ![c] = Head(buffer[c]) + 1]
        /\ UNCHANGED <<hub, emitted, sent, prompts, runner, turnOpen>>
    BY <1>10 DEF AwaitEvent, stream, running
  <2>2. /\ read' \in [Clients -> 0..MaxEvents + 1] /\ \A d \in Clients : read'[d] <= Len(sent) + 1
    <3>1. Head(buffer[c]) + 1 \in 0..Len(sent) + 1
      BY SMTT(30), <1>0, <1>8, <2>1
    <3> QED
      BY <2>1, <3>1, MovesTo
  <2>3. CASE /\ answer' = [answer EXCEPT ![c] = sent[Head(buffer[c])]]
             /\ Goes(c, "gone") /\ Unsubscribed(c)
    <3>1. client' \in [Clients -> [pc : Places, mine : 0..MaxPrompts]]
      BY <2>3, GoesStep DEF Places
    <3>2. answer' \in [Clients -> AgentEvents \cup {NoAnswer, Timeout}]
      BY <1>8, <2>1, <2>3 DEF DeliveryTypeOK
    <3>3. /\ next' \in [Clients -> 0..MaxEvents + 1] /\ buffer' \in [Clients -> Seq(1..MaxEvents)]
          /\ \A d \in Clients : /\ next'[d] <= Len(sent) + 1
                                /\ \A i \in DOMAIN buffer'[d] : buffer'[d][i] <= Len(sent)
      BY <2>3, UnsubscribedStep
    <3> QED
      BY <2>1, <2>2, <3>1, <3>2, <3>3 DEF DeliveryTypeOK, Numbered, Places
  <2>4. CASE buffer' = [buffer EXCEPT ![c] = Tail(buffer[c])] /\ UNCHANGED <<answer, client, next>>
    BY <1>0, <1>8, <2>1, <2>2, <2>4 DEF DeliveryTypeOK, Numbered
  <2> QED
    BY <1>10, <2>3, <2>4 DEF AwaitEvent
<1>11. ASSUME NEW c \in Clients, AwaitEnds(c) \/ Leave(c) PROVE DeliveryTypeOK' /\ Numbered'
  <2>1. /\ Goes(c, "gone") /\ Unsubscribed(c)
        /\ answer' = answer \/ answer' = [answer EXCEPT ![c] = Timeout]
        /\ UNCHANGED <<hub, emitted, sent, prompts, runner, turnOpen, read>>
    BY <1>11 DEF AwaitEnds, Leave, stream, running
  <2>2. client' \in [Clients -> [pc : Places, mine : 0..MaxPrompts]]
    BY <2>1, GoesStep DEF Places
  <2>3. answer' \in [Clients -> AgentEvents \cup {NoAnswer, Timeout}]
    BY <2>1 DEF DeliveryTypeOK
  <2>4. /\ next' \in [Clients -> 0..MaxEvents + 1] /\ buffer' \in [Clients -> Seq(1..MaxEvents)]
        /\ \A d \in Clients : /\ next'[d] <= Len(sent) + 1
                              /\ \A i \in DOMAIN buffer'[d] : buffer'[d][i] <= Len(sent)
    BY <2>1, UnsubscribedStep
  <2> QED
    BY <2>1, <2>2, <2>3, <2>4 DEF DeliveryTypeOK, Numbered, Places
<1>12. CASE UNCHANGED deliveryVars
  BY <1>12 DEF deliveryVars, DeliveryTypeOK, Numbered
<1> QED
  BY <1>1, <1>2, <1>3, <1>4, <1>5, <1>6, <1>7, <1>9, <1>10, <1>11, <1>12, ProcessStep DEF DeliveryNext

DeliveryIInv == DeliveryTypeOK /\ Numbered

\* The types hold at the start, where there is nothing to type.
LEMMA DeliveryStarts == DeliveryAssumption /\ DeliveryInit => DeliveryIInv
<1> SUFFICES ASSUME DeliveryAssumption, DeliveryInit PROVE DeliveryIInv
  OBVIOUS
<1>1. <<>> \in Seq(AgentEvents) /\ <<>> \in Seq(1..MaxEvents) /\ Len(<<>>) = 0 /\ DOMAIN <<>> = {}
  BY EmptySeq, NothingInEmpty
<1>2. /\ hub = <<>> /\ sent = <<>> /\ emitted = 0 /\ prompts = 0 /\ runner = Nobody /\ turnOpen = FALSE
      /\ client = [c \in Clients |-> [pc |-> "out", mine |-> 0]]
      /\ next = [c \in Clients |-> 0] /\ read = [c \in Clients |-> 0]
      /\ buffer = [c \in Clients |-> <<>>] /\ answer = [c \in Clients |-> NoAnswer]
  BY DEF DeliveryInit
<1>3. {HubCap, BroadcastCap, BufferCap} \subseteq Nat \ {0} /\ MaxEvents \in Nat /\ MaxPrompts \in Nat
  BY DEF DeliveryAssumption
<1>4. /\ client \in [Clients -> [pc : {"out", "queued", "running", "reading", "gone"}, mine : 0..MaxPrompts]]
      /\ next \in [Clients -> 0..MaxEvents + 1] /\ read \in [Clients -> 0..MaxEvents + 1]
  BY <1>2, <1>3
<1>5. /\ buffer \in [Clients -> Seq(1..MaxEvents)]
      /\ answer \in [Clients -> AgentEvents \cup {NoAnswer, Timeout}]
  BY <1>1, <1>2
<1>6. Len(hub) <= HubCap /\ emitted \in 0..MaxEvents /\ prompts \in 0..MaxPrompts
  BY <1>1, <1>2, <1>3
<1>7. DeliveryTypeOK
  BY <1>1, <1>2, <1>4, <1>5, <1>6 DEF DeliveryTypeOK
<1> QED
  BY <1>1, <1>2, <1>7 DEF DeliveryIInv, Numbered

\* The session's events are numbered as they should be in every reachable state.
LEMMA DeliveryInvariant == DeliverySpec => []DeliveryIInv
<1>1. DeliveryIInv /\ [DeliveryNext]_deliveryVars => DeliveryIInv'
  BY DeliveryTypeStep, DeliveryAssumption DEF DeliveryIInv
<1>2. DeliveryInit => DeliveryIInv
  BY DeliveryStarts, DeliveryAssumption
<1> QED
  BY <1>1, <1>2, PTL DEF DeliverySpec

\* Hub, broadcast, forwarders and clients keep their types: in particular the hub's queue
\* never exceeds its capacity, and no client reads what was not broadcast.
THEOREM DeliveryTypeCorrect == DeliverySpec => []DeliveryTypeOK
<1>1. DeliveryIInv => DeliveryTypeOK
  BY DEF DeliveryIInv
<1> QED
  BY <1>1, DeliveryInvariant, PTL

-----------------------------------------------------------------------------
(* EventDelivery: a subscription is never thinned out.                      *)

\* Before it subscribes a client has nothing; from then on SubscriberSeesRun.
Continues(c) ==
    /\ client[c].pc = "out" => next[c] = 0 /\ buffer[c] = <<>>
    /\ client[c].pc \notin {"out", "gone"} =>
          /\ \A i \in DOMAIN buffer[c] : buffer[c][i] = read[c] + i - 1
          /\ next[c] # 0 => next[c] = read[c] + Len(buffer[c])

\* Whose prompt runs waits for it.
RunnerWaits == runner # Nobody => client[runner].pc = "running"

\* A step that leaves a client's buffer and numbers alone, and does not make it new,
\* leaves it what it continues.
LEMMA ContinuesElsewhere ==
  ASSUME NEW c \in Clients, Continues(c),
         UNCHANGED <<next[c], buffer[c], read[c]>>,
         client'[c].pc = "out" => client[c].pc = "out",
         client[c].pc \in {"out", "gone"} => client'[c].pc \in {"out", "gone"}
  PROVE  Continues(c)'
  BY DEF Continues

\* The forwarder puts the next broadcast behind those that wait.
LEMMA ForwardContinues ==
  ASSUME DeliveryAssumption, DeliveryIInv, NEW c \in Clients, Continues(c), Forward(c)
  PROVE  Continues(c)'
<1>0. /\ next[c] \in 1..Len(sent) /\ client' = client /\ read' = read
      /\ next \in [Clients -> 0..MaxEvents + 1] /\ buffer \in [Clients -> Seq(1..MaxEvents)]
      /\ Len(sent) \in Nat /\ client[c].pc # "out" /\ read[c] \in Nat
  BY SMTT(30), LenProperties DEF Forward, running, DeliveryIInv, DeliveryTypeOK, Continues
<1>1. CASE Lags(c)
  BY <1>0, <1>1 DEF Forward, Continues
<1>2. CASE ~Lags(c) /\ client[c].pc # "gone"
  <2> DEFINE b == buffer[c]
             e == next[c]
  <2>1. buffer'[c] = Append(b, e) /\ next'[c] = e + 1 /\ b \in Seq(1..MaxEvents)
    BY <1>0, <1>2 DEF Forward
  <2>2. e = read[c] + Len(b) /\ Len(b) \in Nat /\ DOMAIN b = 1..Len(b)
        /\ \A i \in DOMAIN b : b[i] = read[c] + i - 1
    BY SMTT(30), <1>0, <1>2, <2>1, LenProperties DEF Continues
  <2>3. e \in 1..MaxEvents
    <3>1. Len(hub) \in Nat /\ Len(sent) + Len(hub) <= emitted /\ emitted \in 0..MaxEvents /\ MaxEvents \in Nat
      BY LenProperties DEF DeliveryIInv, DeliveryTypeOK, Numbered, DeliveryAssumption
    <3> QED
      BY <1>0, <3>1
  <2> HIDE DEF b, e
  <2>4. /\ Len(Append(b, e)) = Len(b) + 1 /\ DOMAIN Append(b, e) = 1..Len(b) + 1
        /\ \A i \in 1..Len(b) : Append(b, e)[i] = b[i]
        /\ Append(b, e)[Len(b) + 1] = e
    <3>1. Append(b, e) \in Seq(1..MaxEvents) /\ Len(Append(b, e)) = Len(b) + 1
      BY <2>1, <2>3, AppendProperties
    <3> QED
      BY <2>1, <2>3, <3>1, AppendProperties, LenProperties
  <2>5. ASSUME NEW i \in DOMAIN Append(b, e) PROVE Append(b, e)[i] = read[c] + i - 1
    BY SMTT(30), <1>0, <2>2, <2>4
  <2>6. next'[c] = read'[c] + Len(buffer'[c])
    <3>1. Len(buffer'[c]) = Len(b) + 1 /\ next'[c] = e + 1 /\ read'[c] = read[c]
      BY <1>0, <2>1, <2>4
    <3> QED
      BY SMTT(30), <1>0, <2>2, <3>1
  <2> QED
    BY <1>0, <1>2, <2>1, <2>5, <2>6 DEF Continues
<1>3. CASE client[c].pc = "gone"
  BY <1>0, <1>3 DEF Continues
<1> QED
  BY <1>1, <1>2, <1>3

\* What is read is the oldest that waits, and the others move up.
LEMMA ReadContinues ==
  ASSUME DeliveryAssumption, DeliveryIInv, NEW c \in Clients, Continues(c), Reads(c),
         read' = [read EXCEPT ![c] = Head(buffer[c]) + 1],
         buffer' = [buffer EXCEPT ![c] = Tail(buffer[c])],
         UNCHANGED <<client, next>>
  PROVE  Continues(c)'
<1> DEFINE b == buffer[c]
<1>1. /\ b \in Seq(1..MaxEvents) /\ b # <<>> /\ read[c] \in Nat /\ next[c] \in Nat
      /\ buffer'[c] = Tail(b) /\ read'[c] = Head(b) + 1
  BY DEF Reads, DeliveryIInv, DeliveryTypeOK, DeliveryAssumption
<1>2. /\ \A i \in DOMAIN b : b[i] = read[c] + i - 1
      /\ next[c] # 0 => next[c] = read[c] + Len(b)
  BY DEF Continues, Reads
<1> HIDE DEF b
<1>3. Len(b) \in Nat \ {0} /\ DOMAIN b = 1..Len(b) /\ Head(b) = b[1]
  BY <1>1, EmptySeq, LenProperties
<1>4. /\ Tail(b) \in Seq(1..MaxEvents) /\ Len(Tail(b)) = Len(b) - 1
      /\ \A i \in 1..Len(Tail(b)) : Tail(b)[i] = b[i + 1]
  BY <1>1, HeadTailProperties
<1>5. DOMAIN Tail(b) = 1..Len(b) - 1
  BY <1>4, LenProperties
<1>6. client[c].pc = "reading" /\ client' = client /\ next' = next
  BY DEF Reads
<1>7. Head(b) = read[c]
  <2>1. 1 \in DOMAIN b
    BY <1>3
  <2>2. b[1] = read[c] + 1 - 1
    BY <1>2, <1>6, <2>1
  <2> QED
    BY <1>1, <1>3, <2>2
<1>8. ASSUME NEW i \in DOMAIN Tail(b) PROVE Tail(b)[i] = read'[c] + i - 1
  <2>1. i \in Nat /\ i + 1 \in DOMAIN b
    BY <1>3, <1>5
  <2>2. Tail(b)[i] = b[i + 1] /\ b[i + 1] = read[c] + (i + 1) - 1
    BY <1>2, <1>4, <1>5, <1>6, <2>1
  <2> QED
    BY SMTT(30), <1>1, <1>7, <2>1, <2>2
<1>9. next'[c] # 0 => next'[c] = read'[c] + Len(buffer'[c])
  <2>1. Len(buffer'[c]) = Len(b) - 1 /\ next'[c] = next[c] /\ read'[c] = read[c] + 1
    BY <1>1, <1>4, <1>6, <1>7
  <2>2. next[c] # 0 => next[c] = read[c] + Len(b)
    BY <1>2, <1>6
  <2>3. read[c] \in Nat /\ Len(b) \in Nat
    BY <1>1, <1>3
  <2>4. read[c] + Len(b) = (read[c] + 1) + (Len(b) - 1)
    BY SMTT(30), <2>3
  <2> QED
    BY <2>1, <2>2, <2>4
<1> QED
  BY <1>1, <1>6, <1>8, <1>9 DEF Continues

\* No step of anybody breaks what any client has still to read.
LEMMA ContinuesStep ==
  ASSUME DeliveryAssumption, DeliveryIInv, RunnerWaits, \A c \in Clients : Continues(c), [DeliveryNext]_deliveryVars
  PROVE  \A c \in Clients : Continues(c)'
<1> SUFFICES ASSUME NEW c \in Clients PROVE Continues(c)'
  OBVIOUS
<1>0. /\ client \in [Clients -> [pc : Places, mine : 0..MaxPrompts]] /\ next \in [Clients -> 0..MaxEvents + 1]
      /\ buffer \in [Clients -> Seq(1..MaxEvents)] /\ read \in [Clients -> 0..MaxEvents + 1]
      /\ Continues(c) /\ DeliveryTypeOK
  BY DEF DeliveryIInv, DeliveryTypeOK, Places
<1>1. ASSUME NEW d \in Clients, Subscribe(d) PROVE Continues(c)'
  <2>1. /\ next' = [next EXCEPT ![d] = Len(sent) + 1] /\ read' = [read EXCEPT ![d] = Len(sent) + 1]
        /\ Goes(d, "queued") \/ Goes(d, "reading")
        /\ UNCHANGED buffer /\ client[d].pc = "out"
    BY <1>1 DEF Subscribe
  <2>2. client'[c].pc = client[c].pc \/ (d = c /\ client'[c].pc \in {"queued", "reading"})
    BY <1>0, <2>1, GoesStep DEF Places
  <2>3. CASE d = c
    <3>1. buffer'[c] = <<>> /\ next'[c] = Len(sent) + 1 /\ read'[c] = Len(sent) + 1 /\ Len(sent) \in Nat
      BY <1>0, <2>1, <2>3, LenProperties DEF Continues, DeliveryTypeOK
    <3> QED
      BY <1>0, <2>1, <2>2, <2>3, <3>1, NothingInEmpty, GoesStep DEF Continues, Places
  <2>4. CASE d # c
    BY <1>0, <2>1, <2>2, <2>4, ContinuesElsewhere
  <2> QED
    BY <2>3, <2>4
<1>2. ASSUME NEW d \in Clients, SocketSends(d) PROVE Continues(c)'
  <2>1. UNCHANGED <<next, buffer, read>> /\ Goes(d, "queued") /\ client[d].pc = "reading"
    BY <1>2 DEF SocketSends
  <2> QED
    BY <1>0, <2>1, GoesStep, ContinuesElsewhere DEF Places
<1>3. ASSUME NEW d \in Clients, StartRun(d) PROVE Continues(c)'
  <2>1. /\ UNCHANGED <<next, buffer, read>> /\ client[d].pc = "queued"
        /\ client' = [client EXCEPT ![d] = [pc |-> "running", mine |-> prompts + 1]]
    BY <1>3 DEF StartRun
  <2> QED
    BY <1>0, <2>1, ContinuesElsewhere
<1>4. CASE RunEmits \/ Process
  BY <1>0, <1>4, ContinuesElsewhere DEF RunEmits, Process
<1>5. CASE RunEnds
  <2>1. /\ UNCHANGED <<next, buffer, read>> /\ Goes(runner, "reading")
        /\ runner \in Clients /\ client[runner].pc = "running"
    BY <1>0, <1>5 DEF RunEnds, DeliveryTypeOK, RunnerWaits
  <2>2. client'[c].pc = IF c = runner THEN "reading" ELSE client[c].pc
    BY <1>0, <2>1, GoesStep DEF Places
  <2> QED
    BY <1>0, <2>1, <2>2, ContinuesElsewhere
<1>6. CASE RunFails
  <2>1. /\ UNCHANGED <<buffer, read>> /\ runner \in Clients /\ client[runner].pc = "running"
        /\ \/ Goes(runner, "gone") /\ next' = [next EXCEPT ![runner] = 0]
           \/ Goes(runner, "reading") /\ UNCHANGED next
    BY <1>0, <1>6 DEF RunFails, DeliveryTypeOK, RunnerWaits
  <2>2. CASE c = runner /\ Goes(runner, "gone")
    <3>1. client'[c].pc = "gone"
      BY <1>0, <2>1, <2>2, GoesStep DEF Places
    <3> QED
      BY <3>1 DEF Continues
  <2>3. CASE c = runner /\ Goes(runner, "reading") /\ UNCHANGED next
    <3>1. client'[c].pc = "reading"
      BY <1>0, <2>1, <2>3, GoesStep DEF Places
    <3> QED
      BY <1>0, <2>1, <2>3, <3>1, ContinuesElsewhere
  <2>4. CASE c # runner
    <3>1. client'[c].pc = client[c].pc /\ next'[c] = next[c]
      BY <1>0, <2>1, <2>4, GoesStep DEF Places
    <3> QED
      BY <1>0, <2>1, <3>1, ContinuesElsewhere
  <2> QED
    BY <2>1, <2>2, <2>3, <2>4
<1>7. ASSUME NEW d \in Clients, Forward(d) PROVE Continues(c)'
  <2>1. CASE d = c
    BY <1>0, <1>7, <2>1, ForwardContinues
  <2>2. CASE d # c
    BY <1>0, <1>7, <2>2, ContinuesElsewhere DEF Forward, running
  <2> QED
    BY <2>1, <2>2
<1>8. ASSUME NEW d \in Clients, Reads(d), UNCHANGED <<client, next>>,
             read' = [read EXCEPT ![d] = Head(buffer[d]) + 1],
             buffer' = [buffer EXCEPT ![d] = Tail(buffer[d])]
      PROVE  Continues(c)'
  <2>1. CASE d = c
    BY <1>0, <1>8, <2>1, ReadContinues
  <2>2. CASE d # c
    BY <1>0, <1>8, <2>2, ContinuesElsewhere
  <2> QED
    BY <2>1, <2>2
<1>9. ASSUME NEW d \in Clients, StreamReads(d) \/ SocketReads(d) PROVE Continues(c)'
  BY <1>8, <1>9 DEF StreamReads, SocketReads, Shown, running
<1>10. ASSUME NEW d \in Clients, Goes(d, "gone"), Unsubscribed(d), client[d].pc = "reading",
              \A e \in Clients \ {d} : read'[e] = read[e]
       PROVE  Continues(c)'
  <2>1. CASE d = c
    BY <1>0, <1>10, <2>1, GoesStep DEF Continues, Places
  <2>2. CASE d # c
    <3>1. UNCHANGED <<next[c], buffer[c], read[c]>> /\ client'[c].pc = client[c].pc
      BY <1>0, <1>10, <2>2, GoesStep DEF Unsubscribed, Places
    <3> QED
      BY <1>0, <3>1, ContinuesElsewhere
  <2> QED
    BY <2>1, <2>2
<1>11. ASSUME NEW d \in Clients, AwaitEvent(d) PROVE Continues(c)'
  <2>1. CASE Goes(d, "gone") /\ Unsubscribed(d)
    BY <1>0, <1>10, <1>11, <2>1 DEF AwaitEvent, Reads
  <2>2. CASE buffer' = [buffer EXCEPT ![d] = Tail(buffer[d])] /\ UNCHANGED <<client, next>>
    BY <1>8, <1>11, <2>2 DEF AwaitEvent
  <2> QED
    BY <1>11, <2>1, <2>2 DEF AwaitEvent
<1>12. ASSUME NEW d \in Clients, AwaitEnds(d) \/ Leave(d) PROVE Continues(c)'
  BY <1>10, <1>12 DEF AwaitEnds, Leave
<1>13. CASE UNCHANGED deliveryVars
  BY <1>0, <1>13, ContinuesElsewhere DEF deliveryVars
<1> QED
  BY <1>1, <1>2, <1>3, <1>4, <1>5, <1>6, <1>7, <1>9, <1>11, <1>12, <1>13 DEF DeliveryNext

\* A run's client goes nowhere until the run is over.
LEMMA RunnerStep ==
  ASSUME DeliveryIInv, RunnerWaits, [DeliveryNext]_deliveryVars
  PROVE  RunnerWaits'
<1>0. client \in [Clients -> [pc : Places, mine : 0..MaxPrompts]] /\ DeliveryTypeOK
  BY DEF DeliveryIInv, DeliveryTypeOK, Places
<1>1. ASSUME NEW d \in Clients, NEW place \in Places, Goes(d, place), client[d].pc # "running", UNCHANGED runner
      PROVE  RunnerWaits'
  <2>1. runner # Nobody => runner \in Clients /\ runner # d
    BY <1>0, <1>1 DEF RunnerWaits, DeliveryTypeOK
  <2> QED
    BY <1>0, <1>1, <2>1, GoesStep DEF RunnerWaits
<1>2. ASSUME NEW d \in Clients, StartRun(d) PROVE RunnerWaits'
  BY <1>0, <1>2 DEF StartRun, RunnerWaits
<1>3. ASSUME NEW d \in Clients, Subscribe(d) \/ SocketSends(d) PROVE RunnerWaits'
  BY <1>1, <1>3 DEF Subscribe, SocketSends, running, Places
<1>4. CASE RunEnds \/ RunFails
  BY <1>4 DEF RunEnds, RunFails, RunnerWaits
<1>5. CASE RunEmits \/ Process \/ UNCHANGED deliveryVars
  BY <1>5 DEF RunEmits, Process, deliveryVars, running, RunnerWaits
<1>6. ASSUME NEW d \in Clients, Forward(d) \/ StreamReads(d) \/ SocketReads(d) PROVE RunnerWaits'
  BY <1>6 DEF Forward, StreamReads, SocketReads, Shown, running, RunnerWaits
<1>7. ASSUME NEW d \in Clients, AwaitEvent(d) PROVE RunnerWaits'
  <2>1. client[d].pc = "reading" /\ UNCHANGED runner /\ (Goes(d, "gone") \/ UNCHANGED client)
    BY <1>7 DEF AwaitEvent, Reads, running
  <2> QED
    BY <1>1, <2>1 DEF RunnerWaits, Places
<1>8. ASSUME NEW d \in Clients, AwaitEnds(d) \/ Leave(d) PROVE RunnerWaits'
  BY <1>1, <1>8 DEF AwaitEnds, Leave, running, Places
<1> QED
  BY <1>2, <1>3, <1>4, <1>5, <1>6, <1>7, <1>8 DEF DeliveryNext

\* As long as a client is subscribed, what it has still to read continues what it has
\* read, broadcast by broadcast, whatever the capacities: whoever lags is cut off, never
\* skipped ahead.  An event that the full hub dropped was not broadcast.
THEOREM SubscriptionsAreWhole == DeliverySpec => []SubscriberSeesRun
<1> DEFINE IInv == DeliveryIInv /\ RunnerWaits /\ \A c \in Clients : Continues(c)
<1>1. DeliveryInit => IInv
  BY DeliveryStarts, DeliveryAssumption DEF DeliveryInit, Continues, RunnerWaits
<1>2. IInv /\ [DeliveryNext]_deliveryVars => IInv'
  <2>1. DeliveryIInv /\ [DeliveryNext]_deliveryVars => DeliveryIInv'
    BY DeliveryTypeStep, DeliveryAssumption DEF DeliveryIInv
  <2> QED
    BY <2>1, ContinuesStep, RunnerStep, DeliveryAssumption
<1>3. IInv => SubscriberSeesRun
  BY DEF Continues, SubscriberSeesRun
<1> QED
  BY <1>1, <1>2, <1>3, PTL DEF DeliverySpec

-----------------------------------------------------------------------------
(* Webhooks.                                                                *)

Stages == {"none", "spawned", "posting", "delivered", "failed", "disabling", "done"}

WebhookTypeOK ==
    /\ jobs \in Seq(Jobs) /\ made \in 0..MaxJobs /\ inHand \in 0..MaxJobs
    /\ delivery \in [Jobs -> [pc : Stages, tries : Nat]]
    /\ failures \in Nat /\ disabled \in BOOLEAN /\ outcomes \in Seq({"delivered", "failed"})

\* A job is delivered once: what waits was not spawned yet, in the order of its numbers.
JobsWait ==
    /\ inHand <= made /\ \A i \in DOMAIN jobs : jobs[i] <= made
    /\ \A i, k \in DOMAIN jobs : i < k => jobs[i] < jobs[k]
    /\ inHand # 0 => delivery[inHand].pc = "none" /\ \A i \in DOMAIN jobs : inHand < jobs[i]
    /\ \A i \in DOMAIN jobs : delivery[jobs[i]].pc = "none"
    /\ \A j \in Jobs : j > made => delivery[j].pc = "none"

\* n is the length of the row of failures that o ends in.
EndsInRow(n, o) ==
    /\ n <= Len(o)
    /\ \A i \in Len(o) - n + 1..Len(o) : o[i] = "failed"
    /\ n < Len(o) => o[Len(o) - n] = "delivered"

\* The counter is the length of the row of failures that was recorded last.
CountIsRow == EndsInRow(failures, outcomes)

WebhookIInv == WebhookTypeOK /\ JobsWait /\ CountIsRow /\ DisableJustified

\* A delivery that goes on keeps its type, and the others stay where they are.
LEMMA DeliversStep ==
  ASSUME WebhookTypeOK, NEW j \in Jobs, NEW pc \in Stages, Delivers(j, pc)
  PROVE  /\ delivery' \in [Jobs -> [pc : Stages, tries : Nat]]
         /\ \A i \in Jobs : delivery'[i].pc = IF i = j THEN pc ELSE delivery[i].pc
<1>1. delivery' = [delivery EXCEPT ![j] = [delivery[j] EXCEPT !.pc = pc]]
  BY DEF Delivers
<1>2. delivery \in [Jobs -> [pc : Stages, tries : Nat]]
  BY DEF WebhookTypeOK
<1>3. [delivery[j] EXCEPT !.pc = pc] \in [pc : Stages, tries : Nat] /\ [delivery[j] EXCEPT !.pc = pc].pc = pc
  BY <1>2
<1> QED
  BY <1>1, <1>2, <1>3, ChangedAt

\* The queue at its end: a new job is larger than all that wait.
LEMMA OnEventStep ==
  ASSUME WebhookAssumption, WebhookIInv, OnEvent
  PROVE  WebhookIInv'
<1>0. /\ jobs \in Seq(Jobs) /\ Len(jobs) \in Nat /\ DOMAIN jobs = 1..Len(jobs) /\ made \in 0..MaxJobs /\ made < MaxJobs
      /\ MaxJobs \in Nat /\ made' = made + 1 /\ inHand \in 0..MaxJobs
      /\ UNCHANGED <<inHand, delivery, failures, disabled, outcomes>>
      /\ \A i \in DOMAIN jobs : jobs[i] \in Jobs
  BY LenProperties, ElementOfSeq DEF WebhookIInv, WebhookTypeOK, OnEvent, WebhookAssumption
<1>1. JobsWait
  BY DEF WebhookIInv
<1>2. CountIsRow' /\ DisableJustified'
  BY <1>0 DEF WebhookIInv, CountIsRow, DisableJustified, FailedInARow, Under
<1>3. CASE jobs' = jobs
  <2>1. WebhookTypeOK'
    BY <1>0, <1>3 DEF WebhookIInv, WebhookTypeOK
  <2>2. JobsWait'
    BY <1>0, <1>1, <1>3 DEF JobsWait, Jobs
  <2> QED
    BY <1>2, <2>1, <2>2 DEF WebhookIInv
<1>4. CASE jobs' = Append(jobs, made + 1)
  <2>1. made + 1 \in Jobs
    BY <1>0 DEF Jobs
  <2>2. /\ jobs' \in Seq(Jobs) /\ Len(jobs') = Len(jobs) + 1
        /\ \A i \in 1..Len(jobs) : jobs'[i] = jobs[i]
        /\ jobs'[Len(jobs) + 1] = made + 1
    BY <1>0, <1>4, <2>1, AppendProperties
  <2>3. DOMAIN jobs' = 1..Len(jobs) + 1
    BY <2>2, LenProperties
  <2>4. WebhookTypeOK'
    BY <1>0, <2>2 DEF WebhookIInv, WebhookTypeOK
  <2>5. \A i \in DOMAIN jobs' : jobs'[i] <= made' /\ delivery'[jobs'[i]].pc = "none" /\ (inHand' # 0 => inHand' < jobs'[i])
    <3>1. SUFFICES ASSUME NEW i \in DOMAIN jobs'
                   PROVE  jobs'[i] <= made' /\ delivery'[jobs'[i]].pc = "none" /\ (inHand' # 0 => inHand' < jobs'[i])
      OBVIOUS
    <3>2. CASE i \in DOMAIN jobs
      BY <1>0, <1>1, <2>2, <3>2 DEF JobsWait, Jobs
    <3>3. CASE i = Len(jobs) + 1
      BY <1>0, <1>1, <2>1, <2>2, <3>3 DEF JobsWait, Jobs
    <3> QED
      BY <1>0, <2>3, <3>2, <3>3
  <2>6. \A i, k \in DOMAIN jobs' : i < k => jobs'[i] < jobs'[k]
    <3>1. SUFFICES ASSUME NEW i \in DOMAIN jobs', NEW k \in DOMAIN jobs', i < k PROVE jobs'[i] < jobs'[k]
      OBVIOUS
    <3>2. i \in DOMAIN jobs /\ jobs'[i] = jobs[i]
      <4>0. i \in 1..Len(jobs) + 1 /\ k \in 1..Len(jobs) + 1
        BY <2>3
      <4>1. i \in 1..Len(jobs)
        <5>1. Len(jobs) \in Nat
          BY <1>0
        <5> QED
          BY <3>1, <4>0, <5>1
      <4> QED
        BY <1>0, <2>2, <4>1
    <3>3. CASE k \in DOMAIN jobs
      <4>1. jobs'[k] = jobs[k]
        BY <1>0, <2>2, <3>3
      <4>2. jobs[i] < jobs[k]
        <5>1. \A a, b \in DOMAIN jobs : a < b => jobs[a] < jobs[b]
          BY <1>1 DEF JobsWait
        <5> QED
          BY <3>1, <3>2, <3>3, <5>1
      <4> QED
        BY <3>2, <4>1, <4>2
    <3>4. CASE k = Len(jobs) + 1
      BY <1>0, <1>1, <2>2, <3>2, <3>4 DEF JobsWait, Jobs
    <3> QED
      BY <1>0, <2>3, <3>3, <3>4
  <2>7. JobsWait'
    <3>1. inHand' # 0 => delivery'[inHand'].pc = "none"
      BY <1>0, <1>1 DEF JobsWait
    <3>2. inHand' <= made' /\ \A j \in Jobs : j > made' => delivery'[j].pc = "none"
      BY <1>0, <1>1 DEF JobsWait, Jobs
    <3> QED
      BY <2>5, <2>6, <3>1, <3>2 DEF JobsWait
  <2> QED
    BY <1>2, <2>4, <2>7 DEF WebhookIInv
<1> QED
  BY <1>3, <1>4 DEF OnEvent

\* The worker takes the oldest job.
LEMMA WorkerTakesStep ==
  ASSUME WebhookAssumption, WebhookIInv, WorkerTakes
  PROVE  WebhookIInv'
<1>0. /\ jobs \in Seq(Jobs) /\ Len(jobs) \in Nat \ {0} /\ DOMAIN jobs = 1..Len(jobs) /\ made \in 0..MaxJobs
      /\ MaxJobs \in Nat /\ jobs # <<>> /\ jobs' = Tail(jobs)
      /\ UNCHANGED <<made, delivery, failures, disabled, outcomes>>
      /\ \A i \in DOMAIN jobs : jobs[i] \in Jobs
  BY EmptySeq, LenProperties, ElementOfSeq DEF WebhookIInv, WebhookTypeOK, WorkerTakes, WebhookAssumption
<1>1. JobsWait
  BY DEF WebhookIInv
<1>2. CountIsRow' /\ DisableJustified'
  BY <1>0 DEF WebhookIInv, CountIsRow, DisableJustified, FailedInARow, Under
<1>3. /\ jobs' \in Seq(Jobs) /\ Len(jobs') = Len(jobs) - 1
      /\ \A i \in 1..Len(jobs') : jobs'[i] = jobs[i + 1]
  BY <1>0, HeadTailProperties
<1>4. DOMAIN jobs' = 1..Len(jobs) - 1
  BY <1>3, LenProperties
<1>5. \A i \in DOMAIN jobs' : i + 1 \in DOMAIN jobs /\ jobs'[i] = jobs[i + 1]
  BY <1>0, <1>3, <1>4
<1>6. inHand' = 0 \/ inHand' = jobs[1]
  BY <1>0 DEF WorkerTakes
<1>7. 1 \in DOMAIN jobs /\ jobs[1] \in Jobs
  BY <1>0
<1>8. WebhookTypeOK'
  BY SMTT(30), <1>0, <1>3, <1>6, <1>7 DEF WebhookIInv, WebhookTypeOK, Jobs
<1>9. \A i, k \in DOMAIN jobs' : i < k => jobs'[i] < jobs'[k]
  BY <1>0, <1>1, <1>4, <1>5 DEF JobsWait
<1>10. \A i \in DOMAIN jobs' : jobs'[i] <= made' /\ delivery'[jobs'[i]].pc = "none" /\ (inHand' # 0 => inHand' < jobs'[i])
  BY <1>0, <1>1, <1>4, <1>5, <1>6, <1>7 DEF JobsWait
<1>11. JobsWait'
  BY <1>0, <1>1, <1>6, <1>7, <1>9, <1>10 DEF JobsWait
<1> QED
  BY <1>2, <1>8, <1>11 DEF WebhookIInv

\* A delivery that goes on is no job that waits.
LEMMA WaitsOn ==
  ASSUME WebhookAssumption, WebhookTypeOK, JobsWait, NEW j \in Jobs, NEW pc \in Stages \ {"none"},
         \A i \in Jobs : delivery'[i].pc = IF i = j THEN pc ELSE delivery[i].pc,
         jobs' = jobs, made' = made,
         (inHand' = inHand /\ delivery[j].pc # "none") \/ (inHand = j /\ inHand' = 0)
  PROVE  JobsWait'
<1>1. \A i \in DOMAIN jobs : jobs[i] \in Jobs
  BY LenProperties, ElementOfSeq DEF WebhookTypeOK
<1>2. j \in Nat \ {0} /\ made \in Nat /\ j \in 1..MaxJobs
  BY DEF Jobs, WebhookTypeOK, WebhookAssumption
<1>3. \A i \in DOMAIN jobs : jobs[i] # j
  <2>1. CASE inHand = j
    BY <1>1, <1>2, <2>1 DEF JobsWait, Jobs
  <2>2. CASE delivery[j].pc # "none"
    BY <2>2 DEF JobsWait
  <2> QED
    BY <2>1, <2>2
<1>4. j <= made
  BY <1>2 DEF JobsWait
<1>5. inHand' # 0 => inHand' = inHand /\ inHand # j /\ inHand \in Jobs
  BY <1>2 DEF JobsWait, Jobs, WebhookTypeOK
<1>6. inHand' <= made' /\ (inHand' # 0 => delivery'[inHand'].pc = "none" /\ \A i \in DOMAIN jobs' : inHand' < jobs'[i])
  <2>1. CASE inHand' = 0
    BY <1>2, <2>1
  <2>2. CASE inHand' # 0
    <3>1. inHand' = inHand /\ inHand # 0 /\ delivery'[inHand].pc = delivery[inHand].pc
      BY <1>5, <2>2
    <3>2. inHand <= made /\ delivery[inHand].pc = "none" /\ \A i \in DOMAIN jobs : inHand < jobs[i]
      BY <3>1 DEF JobsWait
    <3> QED
      BY <3>1, <3>2
  <2> QED
    BY <2>1, <2>2
<1>7. \A i \in DOMAIN jobs' : delivery'[jobs'[i]].pc = "none"
  BY <1>1, <1>3 DEF JobsWait
<1>8. \A i \in Jobs : i > made' => delivery'[i].pc = "none"
  BY <1>4, <1>2 DEF JobsWait, Jobs
<1> QED
  BY <1>6, <1>7, <1>8 DEF JobsWait

\* A delivery that goes on and records nothing leaves the rest as it is, unless it sets the flag.
LEMMA GoesOnStep ==
  ASSUME WebhookAssumption, WebhookIInv, NEW j \in Jobs, NEW pc \in Stages \ {"none", "disabling"},
         \A i \in Jobs : delivery'[i].pc = IF i = j THEN pc ELSE delivery[i].pc,
         delivery' \in [Jobs -> [pc : Stages, tries : Nat]],
         UNCHANGED <<jobs, made, failures, outcomes>>,
         \/ /\ inHand' = inHand /\ disabled' = disabled
            /\ delivery[j].pc \notin {"none", "disabling"}
         \/ inHand = j /\ inHand' = 0 /\ disabled' = disabled
         \/ delivery[j].pc = "disabling" /\ disabled' = TRUE /\ inHand' = inHand
  PROVE  WebhookIInv'
<1>0. JobsWait /\ WebhookTypeOK /\ CountIsRow /\ DisableJustified
  BY DEF WebhookIInv
<1>1. inHand' \in 0..MaxJobs /\ disabled' \in BOOLEAN
  <2>1. inHand \in 0..MaxJobs /\ disabled \in BOOLEAN /\ 0 \in 0..MaxJobs
    BY <1>0 DEF WebhookTypeOK, WebhookAssumption
  <2>2. inHand' \in {inHand, 0} /\ disabled' \in {disabled, TRUE}
    OBVIOUS
  <2> QED
    BY <2>1, <2>2
<1>2. WebhookTypeOK' /\ CountIsRow'
  BY <1>0, <1>1 DEF WebhookTypeOK, CountIsRow
<1>3. JobsWait'
  <2>1. pc \in Stages \ {"none"} /\ jobs' = jobs /\ made' = made
    OBVIOUS
  <2>2. (inHand' = inHand /\ delivery[j].pc # "none") \/ (inHand = j /\ inHand' = 0)
    OBVIOUS
  <2> QED
    BY <1>0, <2>1, <2>2, WaitsOn
<1>4. (disabled' \/ Under({"disabling"})' # {}) <=> (disabled \/ Under({"disabling"}) # {})
  <2>1. CASE delivery[j].pc # "disabling" /\ disabled' = disabled
    <3>1. Under({"disabling"})' = Under({"disabling"})
      BY <2>1 DEF Under
    <3> QED
      BY <2>1, <3>1
  <2>2. CASE delivery[j].pc = "disabling" /\ disabled'
    BY <2>2 DEF Under
  <2>3. CASE inHand = j
    <3>1. delivery[j].pc = "none"
      BY <1>0, <2>3 DEF JobsWait, Jobs
    <3> QED
      BY <2>1, <2>2, <3>1
  <2> QED
    BY <2>1, <2>2, <2>3
<1>5. DisableJustified'
  BY <1>0, <1>4 DEF DisableJustified, FailedInARow
<1> QED
  BY <1>2, <1>3, <1>5 DEF WebhookIInv

\* A row of failures somewhere in o.
RowOf(o, n, k) == k >= n /\ \A i \in k - n + 1..k : o[i] = "failed"
SomeRow(o, n) == \E k \in 1..Len(o) : RowOf(o, n, k)

\* One outcome more: the row it ends in, and whether there is one of length L.
LEMMA Recorded ==
  ASSUME NEW o \in Seq({"delivered", "failed"}), NEW n \in Nat, EndsInRow(n, o), NEW L \in Nat \ {0},
         NEW outcome \in {"delivered", "failed"}, NEW m \in Nat, m = (IF outcome = "delivered" THEN 0 ELSE n + 1),
         NEW p, p = Append(o, outcome)
  PROVE  /\ p \in Seq({"delivered", "failed"}) /\ EndsInRow(m, p)
         /\ SomeRow(p, L) <=> SomeRow(o, L) \/ (outcome = "failed" /\ m >= L)
<1> DEFINE last == Len(o)
<1>1. /\ last \in Nat /\ p \in Seq({"delivered", "failed"}) /\ Len(p) = last + 1 /\ p[last + 1] = outcome
      /\ \A i \in 1..last : p[i] = o[i]
  BY LenProperties, AppendProperties
<1>2. /\ n <= last /\ \A i \in last - n + 1..last : o[i] = "failed"
      /\ n < last => o[last - n] = "delivered"
  BY DEF EndsInRow
<1> HIDE DEF last
<1>3. EndsInRow(m, p)
  <2>1. CASE outcome = "delivered"
    <3>1. m = 0 /\ Len(p) - m + 1 = last + 2 /\ Len(p) - m = last + 1
      BY <1>1, <2>1
    <3> QED
      BY <1>1, <2>1, <3>1 DEF EndsInRow
  <2>2. CASE outcome = "failed"
    <3>1. m = n + 1 /\ Len(p) - m + 1 = last - n + 1 /\ Len(p) - m = last - n
      BY <1>1, <2>2
    <3>2. m <= Len(p)
      BY <1>1, <1>2, <3>1
    <3>3. \A i \in last - n + 1..last + 1 : p[i] = "failed"
      <4>1. SUFFICES ASSUME NEW i \in last - n + 1..last + 1 PROVE p[i] = "failed"
        OBVIOUS
      <4>2. CASE i = last + 1
        BY <1>1, <2>2, <4>2
      <4>3. CASE i # last + 1
        <5>1. i \in last - n + 1..last /\ i \in 1..last
          BY <1>1, <1>2, <4>3
        <5> QED
          BY <1>1, <1>2, <5>1
      <4> QED
        BY <4>2, <4>3
    <3>4. m < Len(p) => p[last - n] = "delivered"
      <4>1. SUFFICES ASSUME m < Len(p) PROVE p[last - n] = "delivered"
        OBVIOUS
      <4>2. n < last /\ last - n \in 1..last
        BY <1>1, <3>1, <4>1
      <4> QED
        BY <1>1, <1>2, <4>2
    <3> QED
      BY <1>1, <3>1, <3>2, <3>3, <3>4 DEF EndsInRow
  <2> QED
    BY <2>1, <2>2
<1>4. \A k \in 1..last : RowOf(p, L, k) <=> RowOf(o, L, k)
  <2>1. SUFFICES ASSUME NEW k \in 1..last PROVE RowOf(p, L, k) <=> RowOf(o, L, k)
    OBVIOUS
  <2>2. k >= L => \A i \in k - L + 1..k : i \in 1..last
    BY <1>1
  <2> QED
    BY <1>1, <2>2 DEF RowOf
<1>5. RowOf(p, L, last + 1) <=> outcome = "failed" /\ m >= L
  <2>1. CASE outcome = "delivered"
    <3>1. last + 1 \in (last + 1) - L + 1..last + 1
      BY <1>1
    <3> QED
      BY <1>1, <2>1, <3>1 DEF RowOf
  <2>2. CASE outcome = "failed" /\ m >= L
    <3>1. last + 1 >= L /\ \A i \in (last + 1) - L + 1..last + 1 : i \in Len(p) - m + 1..Len(p)
      BY <1>1, <1>2, <2>2
    <3>2. \A i \in Len(p) - m + 1..Len(p) : p[i] = "failed"
      BY <1>3 DEF EndsInRow
    <3> QED
      BY <2>2, <3>1, <3>2 DEF RowOf
  <2>3. CASE outcome = "failed" /\ ~(m >= L)
    <3>1. SUFFICES ASSUME last + 1 >= L PROVE \E i \in (last + 1) - L + 1..last + 1 : p[i] # "failed"
      BY <2>3 DEF RowOf
    <3>2. n < last /\ last - n \in 1..last /\ last - n \in (last + 1) - L + 1..last + 1
      BY <1>1, <2>3, <3>1
    <3>3. p[last - n] = "delivered"
      BY <1>1, <1>2, <3>2
    <3> QED
      BY <3>2, <3>3
  <2> QED
    BY <2>1, <2>2, <2>3
<1>6. \A k : k \in 1..last + 1 <=> k \in 1..last \/ k = last + 1
  BY <1>1
<1>7. SomeRow(p, L) <=> SomeRow(o, L) \/ RowOf(p, L, last + 1)
  <2>1. SomeRow(o, L) <=> \E k \in 1..last : RowOf(o, L, k)
    BY DEF SomeRow, last
  <2>2. SomeRow(p, L) <=> \E k \in 1..last + 1 : RowOf(p, L, k)
    BY <1>1 DEF SomeRow
  <2> QED
    BY <1>4, <1>6, <2>1, <2>2
<1> QED
  BY <1>1, <1>3, <1>5, <1>7

LEMMA SuccessRecorded ==
  ASSUME NEW o \in Seq({"delivered", "failed"}), NEW n \in Nat, EndsInRow(n, o), NEW L \in Nat \ {0}
  PROVE  /\ Append(o, "delivered") \in Seq({"delivered", "failed"}) /\ EndsInRow(0, Append(o, "delivered"))
         /\ SomeRow(Append(o, "delivered"), L) <=> SomeRow(o, L)
BY Recorded

LEMMA FailureRecorded ==
  ASSUME NEW o \in Seq({"delivered", "failed"}), NEW n \in Nat, EndsInRow(n, o), NEW L \in Nat \ {0}
  PROVE  /\ Append(o, "failed") \in Seq({"delivered", "failed"}) /\ EndsInRow(n + 1, Append(o, "failed"))
         /\ SomeRow(Append(o, "failed"), L) <=> SomeRow(o, L) \/ n + 1 >= L
<1> DEFINE p == Append(o, "failed")
<1>1. n + 1 \in Nat /\ "failed" \in {"delivered", "failed"} /\ n + 1 = (IF "failed" = "delivered" THEN 0 ELSE n + 1)
  OBVIOUS
<1>2. p = Append(o, "failed")
  OBVIOUS
<1> HIDE DEF p
<1>3. /\ p \in Seq({"delivered", "failed"}) /\ EndsInRow(n + 1, p)
      /\ SomeRow(p, L) <=> SomeRow(o, L) \/ ("failed" = "failed" /\ n + 1 >= L)
  BY <1>1, <1>2, Recorded
<1> QED
  BY <1>2, <1>3

\* What is recorded: a success ends every row of failures, a failure makes the last one longer.
LEMMA RecordStep ==
  ASSUME WebhookAssumption, WebhookIInv, NEW j \in Jobs, Record(j)
  PROVE  WebhookIInv'
<1> DEFINE pc == IF delivery[j].pc = "failed" /\ failures' >= FailureLimit THEN "disabling" ELSE "done"
<1>0. JobsWait /\ WebhookTypeOK /\ CountIsRow /\ DisableJustified
  BY DEF WebhookIInv
<1>1. /\ delivery[j].pc \in {"delivered", "failed"} /\ outcomes' = Append(outcomes, delivery[j].pc)
      /\ failures' = IF delivery[j].pc = "delivered" THEN 0 ELSE failures + 1
      /\ jobs' = jobs /\ made' = made /\ inHand' = inHand /\ disabled' = disabled
  BY DEF Record
<1>2. pc \in Stages \ {"none"} /\ Delivers(j, pc)
  BY DEF Record, Stages
<1>3. pc = "disabling" <=> delivery[j].pc = "failed" /\ failures' >= FailureLimit
  OBVIOUS
<1> HIDE DEF pc
<1>4. /\ delivery' \in [Jobs -> [pc : Stages, tries : Nat]]
      /\ \A i \in Jobs : delivery'[i].pc = IF i = j THEN pc ELSE delivery[i].pc
  <2>1. WebhookTypeOK /\ pc \in Stages /\ Delivers(j, pc)
    BY <1>0, <1>2
  <2> QED
    BY <2>1, DeliversStep
<1>5. JobsWait'
  <2>1. delivery[j].pc # "none"
    BY <1>1
  <2> QED
    BY <1>0, <1>1, <1>2, <1>4, <2>1, WaitsOn
<1>6. failures \in Nat /\ failures' \in Nat /\ outcomes \in Seq({"delivered", "failed"}) /\ FailureLimit \in Nat \ {0}
  BY <1>0, <1>1 DEF WebhookTypeOK, WebhookAssumption
<1>7. /\ outcomes' \in Seq({"delivered", "failed"}) /\ CountIsRow'
      /\ SomeRow(outcomes', FailureLimit) <=> SomeRow(outcomes, FailureLimit) \/ pc = "disabling"
  <2>1. EndsInRow(failures, outcomes)
    BY <1>0 DEF CountIsRow
  <2>2. /\ outcomes' \in Seq({"delivered", "failed"}) /\ EndsInRow(failures', outcomes')
        /\ SomeRow(outcomes', FailureLimit) <=> SomeRow(outcomes, FailureLimit) \/ (delivery[j].pc = "failed" /\ failures' >= FailureLimit)
    <3>1. CASE delivery[j].pc = "delivered"
      <4>1. failures' = 0 /\ outcomes' = Append(outcomes, "delivered")
        BY <1>1, <3>1
      <4> QED
        BY <1>6, <2>1, <3>1, <4>1, SuccessRecorded
    <3>2. CASE delivery[j].pc = "failed"
      <4>1. failures' = failures + 1 /\ outcomes' = Append(outcomes, "failed")
        BY <1>1, <3>2
      <4> QED
        BY <1>6, <2>1, <3>2, <4>1, FailureRecorded
    <3> QED
      BY <1>1, <3>1, <3>2
  <2> QED
    BY <1>3, <2>2 DEF CountIsRow
<1>8. WebhookTypeOK'
  BY <1>0, <1>1, <1>4, <1>6, <1>7 DEF WebhookTypeOK
<1>9. Under({"disabling"})' # {} <=> Under({"disabling"}) # {} \/ pc = "disabling"
  <2>1. \A i \in Jobs : i \in Under({"disabling"})' <=> delivery'[i].pc = "disabling"
    BY DEF Under
  <2>2. \A i \in Jobs : i \in Under({"disabling"}) <=> delivery[i].pc = "disabling"
    BY DEF Under
  <2>3. Under({"disabling"}) \subseteq Jobs /\ Under({"disabling"})' \subseteq Jobs
    BY DEF Under, Jobs
  <2>4. delivery[j].pc # "disabling"
    BY <1>1
  <2> QED
    BY <1>4, <2>1, <2>2, <2>3, <2>4
<1>10. DisableJustified'
  <2>1. DisableJustified <=> (disabled \/ Under({"disabling"}) # {} <=> SomeRow(outcomes, FailureLimit))
    BY <1>6, LenProperties DEF DisableJustified, FailedInARow, SomeRow, RowOf
  <2>2. DisableJustified' <=> (disabled' \/ Under({"disabling"})' # {} <=> SomeRow(outcomes', FailureLimit))
    <3>1. DOMAIN outcomes' = 1..Len(outcomes')
      BY <1>7, LenProperties
    <3> QED
      BY <3>1 DEF DisableJustified, FailedInARow, SomeRow, RowOf
  <2> QED
    BY <1>0, <1>1, <1>7, <1>9, <2>1, <2>2
<1> QED
  BY <1>5, <1>7, <1>8, <1>10 DEF WebhookIInv

LEMMA WebhookInvariant == WebhookSpec => []WebhookIInv
<1>1. WebhookInit => WebhookIInv
  <2>1. SUFFICES ASSUME WebhookInit PROVE WebhookIInv
    OBVIOUS
  <2>2. /\ jobs = <<>> /\ made = 0 /\ inHand = 0 /\ failures = 0 /\ disabled = FALSE /\ outcomes = <<>>
        /\ delivery \in [Jobs -> [pc : Stages, tries : Nat]] /\ \A i \in Jobs : delivery[i].pc = "none"
    BY <2>1 DEF WebhookInit, Stages
  <2>3. jobs \in Seq(Jobs) /\ outcomes \in Seq({"delivered", "failed"}) /\ DOMAIN jobs = {} /\ DOMAIN outcomes = {} /\ Len(outcomes) = 0
    BY <2>2, EmptySeq
  <2>4. WebhookTypeOK
    <3>1. 0 \in Nat /\ 0 \in 0..MaxJobs /\ FALSE \in BOOLEAN
      BY WebhookAssumption DEF WebhookAssumption
    <3> QED
      BY <2>2, <2>3, <3>1 DEF WebhookTypeOK
  <2>5. JobsWait
    BY <2>2, <2>3 DEF JobsWait
  <2>6. CountIsRow
    BY <2>2, <2>3 DEF CountIsRow, EndsInRow
  <2>7. DisableJustified
    BY <2>2, <2>3 DEF DisableJustified, Under
  <2> QED
    BY <2>4, <2>5, <2>6, <2>7 DEF WebhookIInv
<1>2. WebhookIInv /\ [WebhookNext]_webhookVars => WebhookIInv'
  <2> SUFFICES ASSUME WebhookIInv, [WebhookNext]_webhookVars PROVE WebhookIInv'
    OBVIOUS
  <2>0. WebhookTypeOK /\ JobsWait
    BY DEF WebhookIInv
  <2>1. CASE OnEvent
    BY <2>1, OnEventStep, WebhookAssumption
  <2>2. CASE WorkerTakes
    BY <2>2, WorkerTakesStep, WebhookAssumption
  <2>3. CASE WorkerSpawns
    <3>1. inHand \in Jobs /\ Delivers(inHand, "spawned") /\ "spawned" \in Stages \ {"none", "disabling"}
      BY <2>0, <2>3, WebhookAssumption DEF WebhookTypeOK, WorkerSpawns, Jobs, Stages, WebhookAssumption
    <3>2. /\ delivery' \in [Jobs -> [pc : Stages, tries : Nat]]
          /\ \A i \in Jobs : delivery'[i].pc = IF i = inHand THEN "spawned" ELSE delivery[i].pc
      BY <2>0, <3>1, DeliversStep
    <3> QED
      BY <2>3, <3>1, <3>2, GoesOnStep, WebhookAssumption DEF WorkerSpawns
  <2>4. ASSUME NEW j \in Jobs, Filter(j) PROVE WebhookIInv'
    <3>1. PICK pc \in {"posting", "done"} : Delivers(j, pc)
      BY <2>4 DEF Filter
    <3>2. pc \in Stages \ {"none", "disabling"}
      BY DEF Stages
    <3>3. /\ delivery' \in [Jobs -> [pc : Stages, tries : Nat]]
          /\ \A i \in Jobs : delivery'[i].pc = IF i = j THEN pc ELSE delivery[i].pc
      BY <2>0, <3>1, <3>2, DeliversStep
    <3> QED
      BY <2>4, <3>2, <3>3, GoesOnStep, WebhookAssumption DEF Filter
  <2>5. ASSUME NEW j \in Jobs, Post(j) PROVE WebhookIInv'
    <3>1. CASE \E pc \in {"delivered", "failed"} : Delivers(j, pc)
      <4>1. PICK pc \in {"delivered", "failed"} : Delivers(j, pc)
        BY <3>1
      <4>2. pc \in Stages \ {"none", "disabling"}
        BY DEF Stages
      <4>3. /\ delivery' \in [Jobs -> [pc : Stages, tries : Nat]]
            /\ \A i \in Jobs : delivery'[i].pc = IF i = j THEN pc ELSE delivery[i].pc
        BY <2>0, <4>1, <4>2, DeliversStep
      <4> QED
        BY <2>5, <4>2, <4>3, GoesOnStep, WebhookAssumption DEF Post
    <3>2. CASE delivery' = [delivery EXCEPT ![j].tries = @ + 1]
      <4>1. delivery' = [delivery EXCEPT ![j] = [delivery[j] EXCEPT !.tries = delivery[j].tries + 1]]
        BY <3>2
      <4>2. delivery \in [Jobs -> [pc : Stages, tries : Nat]] /\ delivery[j].pc = "posting"
        BY <2>0, <2>5 DEF WebhookTypeOK, Post
      <4>3. /\ [delivery[j] EXCEPT !.tries = delivery[j].tries + 1] \in [pc : Stages, tries : Nat]
            /\ [delivery[j] EXCEPT !.tries = delivery[j].tries + 1].pc = "posting"
        BY <4>2
      <4>4. /\ delivery' \in [Jobs -> [pc : Stages, tries : Nat]]
            /\ \A i \in Jobs : delivery'[i].pc = IF i = j THEN "posting" ELSE delivery[i].pc
        BY <4>1, <4>2, <4>3, ChangedAt
      <4>5. "posting" \in Stages \ {"none", "disabling"}
        BY DEF Stages
      <4> QED
        BY <2>5, <4>4, <4>5, GoesOnStep, WebhookAssumption DEF Post
    <3> QED
      BY <2>5, <3>1, <3>2 DEF Post
  <2>6. ASSUME NEW j \in Jobs, Record(j) PROVE WebhookIInv'
    BY <2>6, RecordStep, WebhookAssumption
  <2>7. ASSUME NEW j \in Jobs, Disable(j) PROVE WebhookIInv'
    <3>1. "done" \in Stages \ {"none", "disabling"}
      BY DEF Stages
    <3>2. /\ delivery' \in [Jobs -> [pc : Stages, tries : Nat]]
          /\ \A i \in Jobs : delivery'[i].pc = IF i = j THEN "done" ELSE delivery[i].pc
      BY <2>0, <2>7, <3>1, DeliversStep DEF Disable
    <3> QED
      BY <2>7, <3>1, <3>2, GoesOnStep, WebhookAssumption DEF Disable
  <2>8. CASE UNCHANGED webhookVars
    <3>1. UNCHANGED <<jobs, made, inHand, delivery, failures, disabled, outcomes>>
      BY <2>8 DEF webhookVars
    <3>2. WebhookTypeOK'
      BY <2>0, <3>1 DEF WebhookTypeOK
    <3>3. JobsWait'
      BY <2>0, <3>1 DEF JobsWait
    <3>4. CountIsRow' /\ DisableJustified'
      BY <3>1 DEF WebhookIInv, CountIsRow, DisableJustified, FailedInARow, Under
    <3> QED
      BY <3>2, <3>3, <3>4 DEF WebhookIInv
  <2> QED
    BY <2>1, <2>2, <2>3, <2>4, <2>5, <2>6, <2>7, <2>8 DEF WebhookNext
<1> QED
  BY <1>1, <1>2, PTL DEF WebhookSpec

\* The queue holds jobs, the count of failures counts, and a delivery is at one of its stages.
THEOREM WebhookTypeCorrect == WebhookSpec => []WebhookTypeOK
<1>1. WebhookIInv => WebhookTypeOK
  BY DEF WebhookIInv
<1> QED
  BY <1>1, WebhookInvariant, PTL

\* A webhook is disabled, or on its way to be, just when FailureLimit deliveries in a row
\* were recorded as failed: however many deliveries run at once and whoever records first.
THEOREM DisablingIsJustified == WebhookSpec => []DisableJustified
<1>1. WebhookIInv => DisableJustified
  BY DEF WebhookIInv
<1> QED
  BY <1>1, WebhookInvariant, PTL

-----------------------------------------------------------------------------
(* Rate limiting.                                                           *)

Buckets == [tokens : 0..Burst, idle : 0..MaxAge]

LimiterTypeOK ==
    /\ bucket \in Buckets \/ bucket = NoBucket
    /\ clock \in [Callers -> {-1} \cup 0..Stale] /\ checks \in Nat
    /\ prompt \in BOOLEAN /\ excess \in 0..MaxExcess

\* What a bucket holds once it is refilled.
Filled(b) == Least(b.tokens + b.idle * Rate, Burst)

\* What the callers have had beyond the rate is gone from the bucket; before there is one
\* they have had nothing.
BucketCovers == IF bucket = NoBucket THEN excess = 0 ELSE excess + Filled(bucket) <= Burst

ClocksAreNow == \A c \in Callers : clock[c] \in {-1, 0}

LimiterIInv == LimiterTypeOK /\ (prompt => ClocksAreNow /\ BucketCovers)

LEMMA OneMore ==
  ASSUME NEW a \in Nat, NEW r \in Nat
  PROVE  a * r \in Nat /\ (a + 1) * r = a * r + r
OBVIOUS

LEMMA NotLess ==
  ASSUME NEW a \in Nat, NEW b \in Nat, NEW r \in Nat, a <= b
  PROVE  r * a <= b * r
OBVIOUS

\* Whoever waits for a unit of time gets what the rate allows for it, and no more.
LEMMA FilledByTick ==
  ASSUME LimiterAssumption, NEW b \in Buckets, NEW x \in 0..MaxExcess, x + Filled(b) <= Burst
  PROVE  /\ [b EXCEPT !.idle = Older(b.idle)] \in Buckets
         /\ Most(0, x - Rate) + Filled([b EXCEPT !.idle = Older(b.idle)]) <= Burst
<1> DEFINE t == b.tokens  i == b.idle  later == [b EXCEPT !.idle = Older(b.idle)]
<1>1. t \in 0..Burst /\ i \in 0..MaxAge /\ Rate \in Nat \ {0} /\ Burst \in Nat \ {0} /\ MaxAge \in Nat /\ Stale \in Nat
  BY DEF Buckets, LimiterAssumption
<1>2. later.tokens = t /\ later.idle = Older(i) /\ later \in Buckets
  BY <1>1 DEF Buckets, Older, Least
<1>3. x \in Nat /\ x + Least(t + i * Rate, Burst) <= Burst
  BY DEF Filled, MaxExcess
<1> HIDE DEF t, i, later
<1>4. i * Rate \in Nat /\ (i + 1) * Rate = i * Rate + Rate
  BY <1>1, OneMore
<1>5. CASE i < MaxAge
  <2>1. Older(i) = i + 1
    BY <1>1, <1>5 DEF Older, Least
  <2>2. Most(0, x - Rate) + Least(t + (i * Rate + Rate), Burst) <= Burst
    BY <1>1, <1>3, <1>4 DEF Most, Least
  <2> QED
    BY <1>2, <1>4, <2>1, <2>2 DEF Filled, later
<1>6. CASE i = MaxAge
  <2>1. Older(i) = i
    BY <1>1, <1>6 DEF Older, Least
  <2>2. Most(0, x - Rate) + Least(t + i * Rate, Burst) <= Burst
    BY <1>1, <1>3, <1>4 DEF Most, Least
  <2> QED
    BY <1>2, <2>1, <2>2 DEF Filled, later
<1> QED
  BY <1>1, <1>2, <1>5, <1>6 DEF later

LEMMA TickStep ==
  ASSUME LimiterAssumption, LimiterIInv, Tick
  PROVE  LimiterIInv'
<1>0. LimiterTypeOK /\ Rate \in Nat \ {0} /\ Stale \in Nat /\ Burst \in Nat
  BY DEF LimiterIInv, LimiterAssumption
<1>1. excess' = Most(0, excess - Rate) /\ prompt' = prompt /\ checks' = checks
  BY DEF Tick
<1>2. excess' \in 0..MaxExcess
  <2>1. PICK x \in 0..MaxExcess : x = excess
    BY <1>0 DEF LimiterTypeOK
  <2>2. MaxExcess \in Nat
    BY <1>0 DEF MaxExcess
  <2>3. Most(0, x - Rate) \in 0..MaxExcess
    BY <1>0, <2>2 DEF Most
  <2> QED
    BY <1>1, <2>1, <2>3
<1>3. clock' \in [Callers -> {-1} \cup 0..Stale] /\ (prompt => ClocksAreNow')
  <2>1. clock' = [c \in Callers |-> IF clock[c] = -1 THEN -1 ELSE clock[c] + 1]
    BY DEF Tick
  <2>2. \A c \in Callers : clock[c] \in {-1} \cup 0..Stale /\ clock[c] < Stale
    BY <1>0 DEF LimiterTypeOK, Tick
  <2>3. \A c \in Callers : (IF clock[c] = -1 THEN -1 ELSE clock[c] + 1) \in {-1} \cup 0..Stale
    BY <1>0, <2>2
  <2>4. prompt => \A c \in Callers : clock[c] = -1
    BY DEF Tick
  <2> QED
    BY <2>1, <2>3, <2>4 DEF ClocksAreNow
<1>4. (bucket' \in Buckets \/ bucket' = NoBucket) /\ (prompt => BucketCovers')
  <2>1. CASE bucket = NoBucket
    <3>1. bucket' = NoBucket
      BY <2>1 DEF Tick
    <3>2. prompt => excess' = 0
      <4>1. prompt => excess = 0
        BY <2>1 DEF LimiterIInv, BucketCovers
      <4> QED
        BY <1>0, <1>1, <4>1 DEF Most
    <3> QED
      BY <3>1, <3>2 DEF BucketCovers
  <2>2. CASE bucket # NoBucket
    <3>1. PICK b \in Buckets : b = bucket
      BY <1>0, <2>2 DEF LimiterTypeOK
    <3>2. PICK x \in 0..MaxExcess : x = excess
      BY <1>0 DEF LimiterTypeOK
    <3> DEFINE later == [b EXCEPT !.idle = Older(b.idle)]
    <3>3. bucket' = later
      BY <2>2, <3>1 DEF Tick
    <3>4. later \in Buckets /\ later # NoBucket
      <4>1. b.tokens \in 0..Burst /\ b.idle \in 0..MaxAge /\ MaxAge \in Nat
        BY DEF Buckets, LimiterAssumption
      <4> QED
        BY <4>1 DEF Buckets, NoBucket, Older, Least
    <3>5. prompt => x + Filled(b) <= Burst
      BY <2>2, <3>1, <3>2 DEF LimiterIInv, BucketCovers
    <3>6. prompt => Most(0, x - Rate) + Filled(later) <= Burst
      BY <3>5, FilledByTick
    <3> HIDE DEF later
    <3> QED
      BY <1>1, <3>2, <3>3, <3>4, <3>6 DEF BucketCovers
  <2> QED
    BY <2>1, <2>2
<1>5. LimiterTypeOK'
  BY <1>0, <1>1, <1>2, <1>3, <1>4 DEF LimiterTypeOK
<1> QED
  BY <1>1, <1>3, <1>4, <1>5 DEF LimiterIInv

\* A check refills the bucket, to Burst at most, and forgets it only when it is that full.
LEMMA RefilledIsFilled ==
  ASSUME LimiterAssumption, LimiterTypeOK, NEW c \in Callers, clock[c] >= 0
  PROVE  /\ Refilled(c) \in 0..Burst
         /\ prompt /\ ClocksAreNow /\ BucketCovers => excess + Refilled(c) <= Burst
<1>0. Rate \in Nat \ {0} /\ Stale \in Nat /\ Burst \in Nat \ {0} /\ MaxAge \in Nat /\ Burst <= Rate * Stale
  BY DEF LimiterAssumption
<1>1. PICK x \in Nat : x = excess
  BY <1>0 DEF LimiterTypeOK, MaxExcess
<1>2. CASE bucket = NoBucket
  <2>1. Refilled(c) = Burst
    BY <1>2 DEF Refilled, Cleaned
  <2> QED
    BY <1>0, <1>1, <1>2, <2>1 DEF BucketCovers
<1>3. CASE bucket # NoBucket
  <2>1. PICK b \in Buckets : b = bucket
    BY <1>3 DEF LimiterTypeOK
  <2>2. PICK e \in Int : e = Elapsed(c)
    BY <2>1 DEF LimiterTypeOK, Buckets, Elapsed, Most
  <2>3. e \in Nat /\ (prompt /\ ClocksAreNow => e = b.idle)
    <3>1. PICK k \in 0..Stale : k = clock[c]
      BY DEF LimiterTypeOK
    <3>2. b.idle \in Nat
      BY <1>0, <2>1 DEF Buckets
    <3>3. e = Most(0, b.idle - k)
      BY <2>1, <2>2, <3>1 DEF Elapsed
    <3>4. ClocksAreNow => k = 0
      BY <1>0, <3>1 DEF ClocksAreNow
    <3> QED
      BY <1>0, <3>2, <3>3, <3>4 DEF Most
  <2>4. b.tokens \in 0..Burst /\ e * Rate \in Nat
    BY <1>0, <2>3, OneMore DEF Buckets
  <2>5. prompt /\ ClocksAreNow /\ BucketCovers => x + Least(b.tokens + e * Rate, Burst) <= Burst
    BY <1>1, <1>3, <2>1, <2>3 DEF BucketCovers, Filled
  <2>6. CASE Cleaned(c) = NoBucket
    <3>1. Refilled(c) = Burst
      BY <2>6 DEF Refilled
    <3>2. e >= Stale
      BY <1>3, <2>2, <2>6 DEF Cleaned
    <3>3. Burst <= e * Rate
      <4>1. Rate * Stale <= e * Rate
        BY <1>0, <2>3, <3>2, NotLess
      <4>2. Rate * Stale \in Nat
        BY <1>0
      <4> QED
        BY <1>0, <2>4, <4>1, <4>2
    <3>4. Least(b.tokens + e * Rate, Burst) = Burst
      BY <1>0, <2>4, <3>3 DEF Least
    <3> QED
      BY <1>0, <1>1, <2>5, <3>1, <3>4
  <2>7. CASE Cleaned(c) # NoBucket
    <3>1. Refilled(c) = Least(b.tokens + e * Rate, Burst)
      BY <2>1, <2>2, <2>7 DEF Refilled
    <3>2. Least(b.tokens + e * Rate, Burst) \in 0..Burst
      BY <1>0, <2>4 DEF Least
    <3> QED
      BY <1>1, <2>5, <3>1, <3>2
  <2> QED
    BY <2>6, <2>7
<1> QED
  BY <1>2, <1>3

LEMMA CheckStep ==
  ASSUME LimiterAssumption, LimiterIInv, NEW c \in Callers, Check(c)
  PROVE  LimiterIInv'
<1>0. /\ LimiterTypeOK /\ Rate \in Nat \ {0} /\ Stale \in Nat /\ Burst \in Nat \ {0}
      /\ MaxAge \in Nat /\ Stale < MaxAge /\ CleanEvery \in Nat \ {0}
  BY DEF LimiterIInv, LimiterAssumption
<1>1. PICK r \in 0..Burst : r = Refilled(c)
  BY <1>0, RefilledIsFilled DEF Check
<1>2. PICK x \in 0..MaxExcess : x = excess
  BY <1>0 DEF LimiterTypeOK
<1>3. PICK k \in 0..Stale : k = clock[c]
  BY <1>0 DEF Check, LimiterTypeOK
<1>4. prompt => x + r <= Burst /\ k = 0
  BY <1>0, <1>1, <1>2, <1>3, RefilledIsFilled DEF LimiterIInv, Check, ClocksAreNow
<1>5. PICK t \in 0..Burst : t = IF r >= 1 THEN r - 1 ELSE r
  BY <1>0, <1>1
<1>6. PICK y \in 0..MaxExcess : y = IF r >= 1 THEN Least(x + 1, MaxExcess) ELSE x
  BY <1>0, <1>1, <1>2 DEF Least, MaxExcess
<1>7. /\ bucket' = [tokens |-> t, idle |-> k] /\ excess' = y /\ prompt' = prompt
      /\ checks' = (checks + 1) % CleanEvery /\ clock' = [clock EXCEPT ![c] = -1]
  BY <1>1, <1>2, <1>3, <1>5, <1>6 DEF Check
<1>8. bucket' \in Buckets /\ bucket' # NoBucket
  BY <1>0, <1>3, <1>5, <1>7 DEF Buckets, NoBucket
<1>9. clock' \in [Callers -> {-1} \cup 0..Stale] /\ (ClocksAreNow => ClocksAreNow')
  BY <1>0, <1>7 DEF LimiterTypeOK, ClocksAreNow
<1>10. checks' \in Nat
  BY <1>0, <1>7 DEF LimiterTypeOK
<1>11. prompt => BucketCovers'
  <2>1. prompt => y + t <= Burst /\ k * Rate = 0
    BY <1>0, <1>2, <1>4, <1>5, <1>6 DEF Least, MaxExcess
  <2>2. prompt => y + Least(t + k * Rate, Burst) <= Burst
    <3>1. t + 0 = t /\ Least(t, Burst) = t
      BY <1>0, <1>5 DEF Least
    <3> QED
      BY <2>1, <3>1
  <2>3. bucket'.tokens = t /\ bucket'.idle = k
    BY <1>7
  <2> QED
    BY <1>7, <1>8, <2>2, <2>3 DEF BucketCovers, Filled
<1>12. LimiterTypeOK'
  BY <1>0, <1>6, <1>7, <1>8, <1>9, <1>10 DEF LimiterTypeOK
<1> QED
  BY <1>7, <1>9, <1>11, <1>12 DEF LimiterIInv

LEMMA LimiterInvariant == LimiterSpec => []LimiterIInv
<1>1. LimiterInit => LimiterIInv
  BY LimiterAssumption DEF LimiterInit, LimiterIInv, LimiterTypeOK, LimiterAssumption, ClocksAreNow, BucketCovers, MaxExcess
<1>2. LimiterIInv /\ [LimiterNext]_limiterVars => LimiterIInv'
  <2> SUFFICES ASSUME LimiterIInv, [LimiterNext]_limiterVars PROVE LimiterIInv'
    OBVIOUS
  <2>1. CASE Tick
    BY <2>1, TickStep, LimiterAssumption
  <2>2. ASSUME NEW c \in Callers, ReadClock(c) PROVE LimiterIInv'
    <3>1. clock' \in [Callers -> {-1} \cup 0..Stale] /\ (ClocksAreNow => ClocksAreNow')
      BY <2>2, LimiterAssumption DEF LimiterIInv, LimiterTypeOK, ReadClock, ClocksAreNow, LimiterAssumption
    <3> QED
      BY <2>2, <3>1 DEF LimiterIInv, LimiterTypeOK, ReadClock, BucketCovers, Filled
  <2>3. ASSUME NEW c \in Callers, Check(c) PROVE LimiterIInv'
    BY <2>3, CheckStep, LimiterAssumption
  <2>4. CASE UNCHANGED limiterVars
    BY <2>4 DEF limiterVars, LimiterIInv, LimiterTypeOK, ClocksAreNow, BucketCovers, Filled
  <2> QED
    BY <2>1, <2>2, <2>3, <2>4 DEF LimiterNext
<1> QED
  BY <1>1, <1>2, PTL DEF LimiterSpec

\* The bucket holds between no token and Burst of them, and no clock is read too early to
\* be told apart.
THEOREM LimiterTypeCorrect == LimiterSpec => []LimiterTypeOK
<1>1. LimiterIInv => LimiterTypeOK
  BY DEF LimiterIInv
<1> QED
  BY <1>1, LimiterInvariant, PTL

\* With prompt checks, whatever the rate, the burst and the number of callers, no stretch
\* of time lets through more than Burst requests beyond the rate.
THEOREM RateIsBounded == LimiterSpec => []RateBounded
<1>1. LimiterIInv => RateBounded
  <2>1. SUFFICES ASSUME LimiterIInv, prompt PROVE excess <= Burst
    BY DEF RateBounded
  <2>2. LimiterTypeOK /\ BucketCovers /\ Rate \in Nat /\ Burst \in Nat /\ MaxAge \in Nat
    BY <2>1, LimiterAssumption DEF LimiterIInv, LimiterAssumption
  <2>3. CASE bucket = NoBucket
    BY <2>2, <2>3 DEF BucketCovers
  <2>4. CASE bucket # NoBucket
    <3>1. PICK b \in Buckets : b = bucket
      BY <2>2, <2>4 DEF LimiterTypeOK
    <3>2. PICK x \in Nat : x = excess
      BY <2>2 DEF LimiterTypeOK, MaxExcess
    <3>3. x + Least(b.tokens + b.idle * Rate, Burst) <= Burst
      BY <2>2, <2>4, <3>1, <3>2 DEF BucketCovers, Filled
    <3>4. b.tokens \in Nat /\ b.idle \in Nat
      BY <2>2 DEF Buckets
    <3>5. b.idle * Rate \in Nat
      BY <2>2, <3>4, OneMore
    <3> QED
      BY <2>2, <3>2, <3>3, <3>4, <3>5 DEF Least
  <2> QED
    BY <2>3, <2>4
<1> QED
  BY <1>1, LimiterInvariant, PTL

-----------------------------------------------------------------------------
(* Admission.                                                               *)

AskStages == {"idle", "asking", "answered", "cached", "in", "prompting"}
AskRecords == [pc : AskStages, token : Tokens, tries : Nat, age : 0..Slow]
Times == {-1} \cup 0..Longest

AdmissionTypeOK ==
    /\ revoked \in [Tokens -> Times] /\ cached \in [Tokens -> Times]
    /\ supervisor \in [age : Times, cpu : Nat]
    /\ ask \in [Asks -> AskRecords] /\ used \in Nat

\* An answer is not older than its request makes it, and an entry was such an answer.
AnswersAreFresh == \A a \in Asks : ask[a].pc = "answered" => revoked[ask[a].token] <= ask[a].age
EntriesAreFresh == \A t \in Tokens : cached[t] # None => revoked[t] <= cached[t] + Slow

\* The turns charged to the latest prompts have numbers up to those run.
ChargesNumbered == IsFiniteSet(charged) /\ \A turn \in charged : turn[2] \in 1..used

AdmissionIInv == AdmissionTypeOK /\ AnswersAreFresh /\ EntriesAreFresh /\ ChargesNumbered /\ CpuOverrunBounded

LEMMA AdmissionNumbers ==
  AdmissionAssumption => /\ {CacheTTL, RegistryTTL, Introspects, CpuBudget, Slow, Longest} \subseteq Nat
                         /\ Longest > CacheTTL /\ IsFiniteSet(Asks) /\ Cardinality(Asks) \in Nat
BY FS_CardinalityType DEF AdmissionAssumption, Longest

\* Everybody ages at the same pace.
LEMMA AgesTogether ==
  ASSUME AdmissionAssumption, NEW x \in Times
  PROVE  /\ Ages(x) \in Times /\ Ages(x) <= x + 1 /\ (x = -1 => Ages(x) = -1) /\ (x # -1 => Ages(x) # -1)
         /\ \A y \in Times : y # -1 /\ x <= y + Slow => Ages(x) <= Ages(y) + Slow
<1>1. Longest \in Nat /\ Slow \in Nat
  BY AdmissionNumbers
<1>2. \A y \in Times : Ages(y) = IF y = -1 THEN -1 ELSE IF y < Longest THEN y + 1 ELSE Longest
  BY DEF Ages, None
<1>3. /\ Ages(x) \in Times /\ Ages(x) <= x + 1 /\ (x = -1 => Ages(x) = -1) /\ (x # -1 => Ages(x) # -1)
  BY <1>1, <1>2 DEF Times
<1>4. ASSUME NEW y \in Times, y # -1, x <= y + Slow PROVE Ages(x) <= Ages(y) + Slow
  <2>1. y \in 0..Longest /\ Ages(y) = IF y < Longest THEN y + 1 ELSE Longest
    BY <1>2, <1>4 DEF Times
  <2>2. Ages(x) \in Int /\ Ages(x) <= x + 1 /\ Ages(x) <= Longest /\ x \in Int
    BY <1>1, <1>2 DEF Times
  <2> QED
    BY <1>1, <1>4, <2>1, <2>2
<1> QED
  BY <1>3, <1>4

\* Who moves on keeps its token and its age.
LEMMA MovesStep ==
  ASSUME AdmissionTypeOK, NEW a \in Asks, NEW pc \in AskStages, Moves(a, pc)
  PROVE  /\ ask' \in [Asks -> AskRecords]
         /\ \A b \in Asks : /\ ask'[b].pc = IF b = a THEN pc ELSE ask[b].pc
                            /\ ask'[b].token = ask[b].token /\ ask'[b].age = ask[b].age
<1> DEFINE r == [ask[a] EXCEPT !.pc = pc]
<1>1. ask' = [ask EXCEPT ![a] = r] /\ ask \in [Asks -> AskRecords]
  BY DEF Moves, AdmissionTypeOK
<1>2. r \in AskRecords /\ r.pc = pc /\ r.token = ask[a].token /\ r.age = ask[a].age
  BY <1>1 DEF AskRecords
<1> HIDE DEF r
<1> QED
  BY <1>1, <1>2, ChangedAt

\* A move that is no answer is harmless.
LEMMA MovesKeep ==
  ASSUME AdmissionAssumption, AdmissionIInv, NEW a \in Asks, NEW pc \in AskStages, Moves(a, pc),
         pc = "answered" => revoked[ask[a].token] = -1
  PROVE  /\ ask' \in [Asks -> AskRecords]
         /\ revoked' = revoked => AnswersAreFresh'
<1>0. AdmissionTypeOK /\ AnswersAreFresh
  BY DEF AdmissionIInv
<1>1. /\ ask' \in [Asks -> AskRecords]
      /\ \A b \in Asks : /\ ask'[b].pc = IF b = a THEN pc ELSE ask[b].pc
                         /\ ask'[b].token = ask[b].token /\ ask'[b].age = ask[b].age
  BY <1>0, MovesStep
<1>2. revoked' = revoked => AnswersAreFresh'
  <2>1. SUFFICES ASSUME revoked' = revoked, NEW b \in Asks, ask'[b].pc = "answered" PROVE revoked[ask[b].token] <= ask[b].age
    BY <1>1 DEF AnswersAreFresh
  <2>2. CASE b = a
    <3>1. ask[a].age \in 0..Slow
      BY <1>0 DEF AdmissionTypeOK, AskRecords
    <3>2. -1 <= ask[a].age
      BY <3>1, AdmissionNumbers
    <3> QED
      BY <1>1, <2>1, <2>2, <3>2
  <2>3. CASE b # a
    BY <1>0, <1>1, <2>1, <2>3 DEF AnswersAreFresh
  <2> QED
    BY <2>2, <2>3
<1> QED
  BY <1>1, <1>2

\* A prompt that is let in begins with no turn charged, below the budget.
LEMMA PromptKeepsMeter ==
  ASSUME AdmissionAssumption, AdmissionIInv, NEW a \in Asks, QuotaAllows, UNCHANGED <<supervisor, used>>,
         charged' = {turn \in charged : turn[1] # a}
  PROVE  ChargesNumbered' /\ CpuOverrunBounded'
<1>1. IsFiniteSet(charged') /\ \A turn \in charged' : turn[2] \in 1..used'
  <2>1. IsFiniteSet(charged) /\ charged' \in SUBSET charged
    BY DEF AdmissionIInv, ChargesNumbered
  <2> QED
    BY <2>1, FS_Subset DEF AdmissionIInv, ChargesNumbered
<1>2. Cardinality(charged') \in Nat
  BY <1>1, FS_CardinalityType
<1>3. supervisor'.cpu <= CpuBudget /\ supervisor'.cpu \in Nat /\ CpuBudget \in Nat
  BY AdmissionNumbers DEF QuotaAllows, AdmissionIInv, AdmissionTypeOK
<1> QED
  BY <1>1, <1>2, <1>3 DEF ChargesNumbered, CpuOverrunBounded

\* A turn's end is charged to the meter and to its prompt alike.
LEMMA ChargeKeepsMeter ==
  ASSUME AdmissionAssumption, AdmissionIInv, NEW a \in Asks, TurnEnds(a)
  PROVE  ChargesNumbered' /\ CpuOverrunBounded'
<1> DEFINE i == Unnumbered(a)
<1>0. used \in Nat /\ IsFiniteSet(charged) /\ \A turn \in charged : turn[2] \in 1..used
  BY DEF AdmissionIInv, AdmissionTypeOK, ChargesNumbered
<1>1. i \in 1..used + 1 /\ <<a, i>> \notin charged
  <2>1. <<a, used + 1>> \notin charged
    BY <1>0
  <2>2. used + 1 \in 1..used + 1
    BY <1>0
  <2> QED
    BY <2>1, <2>2 DEF Unnumbered
<1> HIDE DEF i
<1>2. charged' = charged \cup {<<a, i>>} /\ used' = used + 1
  BY DEF TurnEnds, i
<1>3. IsFiniteSet(charged') /\ Cardinality(charged') = Cardinality(charged) + 1 /\ Cardinality(charged) \in Nat
  BY <1>0, <1>1, <1>2, FS_AddElement, FS_CardinalityType
<1>4. ChargesNumbered'
  <2>1. \A k \in 1..used : k \in 1..used + 1
    BY <1>0
  <2> QED
    BY <1>0, <1>1, <1>2, <1>3, <2>1 DEF ChargesNumbered
<1>5. CpuOverrunBounded'
  <2>1. supervisor'.cpu = supervisor.cpu + 1 /\ supervisor.cpu \in Nat /\ CpuBudget \in Nat
    BY AdmissionNumbers DEF TurnEnds, AdmissionIInv, AdmissionTypeOK
  <2> QED
    BY <1>3, <2>1 DEF AdmissionIInv, CpuOverrunBounded
<1> QED
  BY <1>4, <1>5

\* Nobody else touches the meter, but to replace it.
LEMMA MeterElsewhere ==
  ASSUME AdmissionAssumption, AdmissionIInv, UNCHANGED usage, supervisor'.cpu \in {0, supervisor.cpu}
  PROVE  ChargesNumbered' /\ CpuOverrunBounded'
<1>1. ChargesNumbered'
  BY DEF AdmissionIInv, ChargesNumbered, usage
<1>2. Cardinality(charged) \in Nat /\ CpuBudget \in Nat /\ charged' = charged
  BY AdmissionNumbers, FS_CardinalityType DEF AdmissionIInv, ChargesNumbered, usage
<1>3. supervisor.cpu <= CpuBudget + Cardinality(charged)
  BY DEF AdmissionIInv, CpuOverrunBounded
<1>4. supervisor'.cpu <= CpuBudget + Cardinality(charged)
  BY <1>2, <1>3
<1> QED
  BY <1>1, <1>2, <1>4 DEF CpuOverrunBounded

\* Each action of a request.
LEMMA AskStep ==
  ASSUME AdmissionAssumption, AdmissionIInv, NEW a \in Asks,
         \/ Arrive(a) \/ Introspect(a) \/ CacheAnswer(a) \/ ResolveSupervisor(a)
         \/ Prompt(a) \/ TurnEnds(a) \/ PromptEnds(a)
  PROVE  AdmissionIInv'
<1>0. AdmissionTypeOK /\ AnswersAreFresh /\ EntriesAreFresh
  BY DEF AdmissionIInv
<1>1. /\ supervisor \in [age : Times, cpu : Nat] /\ ask \in [Asks -> AskRecords] /\ ask[a] \in AskRecords
      /\ used \in Nat /\ 0 \in Times /\ revoked \in [Tokens -> Times] /\ cached \in [Tokens -> Times]
      /\ ask[a].token \in Tokens
  BY <1>0, AdmissionNumbers DEF AdmissionTypeOK, Times, AskRecords
<1>m. (UNCHANGED <<supervisor, usage>>) => used' \in Nat /\ ChargesNumbered' /\ CpuOverrunBounded'
  BY <1>1, MeterElsewhere DEF usage
<1>2. ASSUME NEW pc \in AskStages \ {"answered"}, Moves(a, pc), UNCHANGED <<revoked, cached, supervisor, usage>>
      PROVE  AdmissionIInv'
  <2>1. ask' \in [Asks -> AskRecords] /\ AnswersAreFresh'
    BY <1>2, MovesKeep
  <2> QED
    BY <1>0, <1>m, <1>2, <2>1 DEF AdmissionIInv, AdmissionTypeOK, EntriesAreFresh
<1>3. CASE Arrive(a)
  <2>1. PICK t \in Tokens : ask' = [ask EXCEPT ![a] = [pc |-> IF Hit(t) THEN "in" ELSE "asking", token |-> t, tries |-> 0, age |-> 0]]
    BY <1>3 DEF Arrive
  <2> DEFINE r == [pc |-> IF Hit(t) THEN "in" ELSE "asking", token |-> t, tries |-> 0, age |-> 0]
  <2>2. r \in AskRecords /\ r.pc \in AskStages /\ r.pc # "answered"
    BY AdmissionNumbers DEF AskRecords, AskStages
  <2>3. ask' = [ask EXCEPT ![a] = r]
    BY <2>1
  <2> HIDE DEF r
  <2>4. ask' \in [Asks -> AskRecords] /\ \A b \in Asks : ask'[b] = IF b = a THEN r ELSE ask[b]
    BY <1>1, <2>2, <2>3, ChangedAt
  <2>5. UNCHANGED <<revoked, cached, supervisor, usage>>
    BY <1>3 DEF Arrive
  <2>6. AnswersAreFresh'
    BY <1>0, <2>2, <2>4, <2>5 DEF AnswersAreFresh
  <2> QED
    BY <1>0, <1>m, <2>4, <2>5, <2>6 DEF AdmissionIInv, AdmissionTypeOK, EntriesAreFresh
<1>4. CASE Introspect(a)
  <2>1. UNCHANGED <<revoked, cached, supervisor, usage>>
    BY <1>4 DEF Introspect
  <2>2. CASE revoked[ask[a].token] = None /\ Moves(a, "answered")
    <3>1. "answered" \in AskStages /\ revoked[ask[a].token] = -1
      BY <2>2 DEF AskStages, None
    <3>2. ask' \in [Asks -> AskRecords] /\ AnswersAreFresh'
      BY <2>1, <2>2, <3>1, MovesKeep
    <3> QED
      BY <1>0, <1>m, <2>1, <3>2 DEF AdmissionIInv, AdmissionTypeOK, EntriesAreFresh
  <2>3. CASE Moves(a, "idle")
    BY <1>2, <2>1, <2>3 DEF AskStages
  <2>4. CASE ask' = [ask EXCEPT ![a].tries = @ + 1]
    <3> DEFINE r == [ask[a] EXCEPT !.tries = @ + 1]
    <3>1. ask' = [ask EXCEPT ![a] = r] /\ r \in AskRecords /\ r.pc = ask[a].pc /\ r.token = ask[a].token /\ r.age = ask[a].age
      BY <1>1, <2>4 DEF AskRecords
    <3> HIDE DEF r
    <3>2. ask' \in [Asks -> AskRecords] /\ \A b \in Asks : ask'[b] = IF b = a THEN r ELSE ask[b]
      BY <1>1, <3>1, ChangedAt
    <3>3. \A b \in Asks : ask'[b].pc = ask[b].pc /\ ask'[b].token = ask[b].token /\ ask'[b].age = ask[b].age
      BY <3>1, <3>2
    <3>4. AnswersAreFresh'
      BY <1>0, <2>1, <3>3 DEF AnswersAreFresh
    <3> QED
      BY <1>0, <1>m, <2>1, <3>2, <3>4 DEF AdmissionIInv, AdmissionTypeOK, EntriesAreFresh
  <2> QED
    BY <1>4, <2>2, <2>3, <2>4 DEF Introspect
<1>5. CASE CacheAnswer(a)
  <2>1. /\ UNCHANGED <<revoked, supervisor, usage>> /\ Moves(a, "cached") /\ cached' = [cached EXCEPT ![ask[a].token] = 0]
        /\ ask[a].pc = "answered"
    BY <1>5 DEF CacheAnswer
  <2>2. "cached" \in AskStages
    BY DEF AskStages
  <2>3. ask' \in [Asks -> AskRecords] /\ AnswersAreFresh'
    BY <2>1, <2>2, MovesKeep
  <2>4. cached' \in [Tokens -> Times] /\ \A t \in Tokens : cached'[t] = IF t = ask[a].token THEN 0 ELSE cached[t]
    BY <1>1, <2>1, ChangedAt
  <2>5. revoked[ask[a].token] <= 0 + Slow
    <3>1. revoked[ask[a].token] <= ask[a].age
      BY <1>0, <2>1 DEF AnswersAreFresh
    <3>2. revoked[ask[a].token] \in Int /\ ask[a].age \in 0..Slow /\ Slow \in Nat
      BY <1>1, AdmissionNumbers DEF AskRecords, Times
    <3> QED
      BY <3>1, <3>2
  <2>6. EntriesAreFresh'
    BY <1>0, <2>1, <2>4, <2>5 DEF EntriesAreFresh
  <2> QED
    BY <1>0, <1>m, <2>1, <2>3, <2>4, <2>6 DEF AdmissionIInv, AdmissionTypeOK
<1>6. CASE ResolveSupervisor(a)
  <2>1. UNCHANGED <<revoked, cached, usage>> /\ Moves(a, "in")
    BY <1>6 DEF ResolveSupervisor
  <2>2. supervisor' \in [age : Times, cpu : Nat] /\ supervisor'.cpu \in {0, supervisor.cpu}
    BY <1>1, <1>6 DEF ResolveSupervisor
  <2>3. ask' \in [Asks -> AskRecords] /\ AnswersAreFresh'
    <3>1. "in" \in AskStages
      BY DEF AskStages
    <3> QED
      BY <2>1, <3>1, MovesKeep
  <2>4. ChargesNumbered' /\ CpuOverrunBounded' /\ used' \in Nat
    BY <1>1, <2>1, <2>2, MeterElsewhere DEF usage
  <2> QED
    BY <1>0, <2>1, <2>2, <2>3, <2>4 DEF AdmissionIInv, AdmissionTypeOK, EntriesAreFresh
<1>7. CASE Prompt(a)
  <2>1. UNCHANGED <<revoked, cached, supervisor, used>>
    BY <1>7 DEF Prompt
  <2>2. CASE QuotaAllows
    <3>1. "prompting" \in AskStages /\ Moves(a, "prompting") /\ charged' = {turn \in charged : turn[1] # a}
      BY <1>7, <2>2 DEF Prompt, AskStages
    <3>2. ask' \in [Asks -> AskRecords] /\ AnswersAreFresh'
      BY <2>1, <3>1, MovesKeep
    <3>3. ChargesNumbered' /\ CpuOverrunBounded'
      BY <2>1, <2>2, <3>1, PromptKeepsMeter
    <3> QED
      BY <1>0, <2>1, <3>2, <3>3 DEF AdmissionIInv, AdmissionTypeOK, EntriesAreFresh
  <2>3. CASE ~QuotaAllows
    <3>1. Moves(a, "idle") /\ UNCHANGED usage
      BY <1>7, <2>1, <2>3 DEF Prompt, usage
    <3> QED
      BY <1>2, <2>1, <3>1 DEF AskStages
  <2> QED
    BY <2>2, <2>3
<1>8. CASE TurnEnds(a)
  <2>1. UNCHANGED <<revoked, cached, ask>> /\ used' = used + 1 /\ supervisor' = [supervisor EXCEPT !.cpu = @ + 1]
    BY <1>8 DEF TurnEnds
  <2>2. supervisor' \in [age : Times, cpu : Nat] /\ used' \in Nat
    BY <1>1, <2>1
  <2>3. ChargesNumbered' /\ CpuOverrunBounded'
    BY <1>8, ChargeKeepsMeter
  <2> QED
    BY <1>0, <2>1, <2>2, <2>3 DEF AdmissionIInv, AdmissionTypeOK, AnswersAreFresh, EntriesAreFresh
<1>9. CASE PromptEnds(a)
  BY <1>2, <1>9 DEF PromptEnds, AskStages
<1> QED
  BY <1>3, <1>4, <1>5, <1>6, <1>7, <1>8, <1>9

\* Time: answers, entries and revocations age together.
LEMMA TimeStep ==
  ASSUME AdmissionAssumption, AdmissionIInv, TimePasses
  PROVE  AdmissionIInv'
<1>0. AdmissionTypeOK /\ AnswersAreFresh /\ EntriesAreFresh /\ Slow \in Nat
  BY AdmissionNumbers DEF AdmissionIInv
<1>1. /\ supervisor \in [age : Times, cpu : Nat] /\ ask \in [Asks -> AskRecords] /\ used \in Nat
      /\ revoked \in [Tokens -> Times] /\ cached \in [Tokens -> Times]
  BY <1>0 DEF AdmissionTypeOK
<1>2. \A x \in Times : /\ Ages(x) \in Times /\ Ages(x) <= x + 1 /\ (x = -1 => Ages(x) = -1) /\ (x # -1 => Ages(x) # -1)
                       /\ \A y \in Times : y # -1 /\ x <= y + Slow => Ages(x) <= Ages(y) + Slow
  BY AgesTogether
<1>3. /\ revoked' \in [Tokens -> Times] /\ cached' \in [Tokens -> Times]
      /\ \A t \in Tokens : revoked'[t] = Ages(revoked[t]) /\ cached'[t] = Ages(cached[t])
  BY <1>1, <1>2 DEF TimePasses
<1>4. supervisor' \in [age : Times, cpu : Nat] /\ supervisor'.cpu = supervisor.cpu
  BY <1>1, <1>2 DEF TimePasses
<1>5. /\ ask' \in [Asks -> AskRecords]
      /\ \A a \in Asks : /\ ask'[a].pc = ask[a].pc /\ ask'[a].token = ask[a].token
                         /\ ask'[a].age = IF ask[a].pc \in Answered THEN ask[a].age + 1 ELSE ask[a].age
  <2> DEFINE r(a) == IF ask[a].pc \in Answered THEN [ask[a] EXCEPT !.age = @ + 1] ELSE ask[a]
  <2>1. ask' = [a \in Asks |-> r(a)]
    BY DEF TimePasses
  <2>2. ASSUME NEW a \in Asks
        PROVE  /\ r(a) \in AskRecords /\ r(a).pc = ask[a].pc /\ r(a).token = ask[a].token
               /\ r(a).age = IF ask[a].pc \in Answered THEN ask[a].age + 1 ELSE ask[a].age
    <3>1. ask[a] \in AskRecords /\ (ask[a].pc \in Answered => ask[a].age < Slow)
      BY <1>1 DEF TimePasses
    <3>2. ask[a].pc \in Answered => ask[a].age + 1 \in 0..Slow
      BY <1>0, <3>1 DEF AskRecords
    <3> QED
      BY <3>1, <3>2 DEF AskRecords
  <2> HIDE DEF r
  <2> QED
    BY <2>1, <2>2
<1>6. AnswersAreFresh'
  <2>1. SUFFICES ASSUME NEW a \in Asks, ask'[a].pc = "answered" PROVE revoked'[ask'[a].token] <= ask'[a].age
    BY DEF AnswersAreFresh
  <2>2. ask[a].pc = "answered" /\ ask'[a].age = ask[a].age + 1 /\ ask'[a].token = ask[a].token
    BY <1>5, <2>1 DEF Answered
  <2>3. PICK t \in Tokens : t = ask[a].token
    BY <1>1 DEF AskRecords
  <2>4. PICK x \in Times : x = revoked[t]
    BY <1>1
  <2>5. PICK age \in Nat : age = ask[a].age
    BY <1>0, <1>1 DEF AskRecords
  <2>6. x <= age
    BY <1>0, <2>2, <2>3, <2>4, <2>5 DEF AnswersAreFresh
  <2>7. Ages(x) <= age + 1
    <3>1. x \in Int /\ Ages(x) \in Int /\ Ages(x) <= x + 1
      BY <1>2, AdmissionNumbers DEF Times
    <3> QED
      BY <2>6, <3>1
  <2> QED
    BY <1>3, <2>2, <2>3, <2>4, <2>5, <2>7
<1>7. EntriesAreFresh'
  <2>1. SUFFICES ASSUME NEW t \in Tokens, cached'[t] # -1 PROVE revoked'[t] <= cached'[t] + Slow
    BY DEF EntriesAreFresh, None
  <2>2. PICK x \in Times, y \in Times : x = revoked[t] /\ y = cached[t]
    BY <1>1
  <2>3. y # -1 /\ x <= y + Slow
    BY <1>0, <1>2, <1>3, <2>1, <2>2 DEF EntriesAreFresh, None
  <2> QED
    BY <1>2, <1>3, <2>2, <2>3
<1>8. UNCHANGED usage
  BY DEF TimePasses
<1>9. ChargesNumbered' /\ CpuOverrunBounded'
  BY <1>4, <1>8, MeterElsewhere
<1>10. used' = used
  BY <1>8 DEF usage
<1> QED
  BY <1>1, <1>3, <1>4, <1>5, <1>6, <1>7, <1>9, <1>10 DEF AdmissionIInv, AdmissionTypeOK

LEMMA AdmissionInvariant == AdmissionSpec => []AdmissionIInv
<1>1. AdmissionInit => AdmissionIInv
  <2>1. SUFFICES ASSUME AdmissionInit PROVE AdmissionIInv
    OBVIOUS
  <2>2. (CHOOSE t \in Tokens : TRUE) \in Tokens
    BY AdmissionAssumption DEF AdmissionAssumption
  <2>3. Idle \in AskRecords /\ Idle.pc = "idle"
    BY <2>2, AdmissionNumbers, AdmissionAssumption DEF Idle, AskRecords, AskStages
  <2>4. ask = [a \in Asks |-> Idle] /\ revoked = [t \in Tokens |-> -1] /\ cached = [t \in Tokens |-> -1]
    BY <2>1 DEF AdmissionInit, None
  <2>5. supervisor = [age |-> -1, cpu |-> 0] /\ used = 0 /\ charged = {}
    BY <2>1 DEF AdmissionInit, None
  <2>6. AdmissionTypeOK
    BY <2>3, <2>4, <2>5 DEF AdmissionTypeOK, Times
  <2>7. AnswersAreFresh /\ EntriesAreFresh
    BY <2>3, <2>4 DEF AnswersAreFresh, EntriesAreFresh, None
  <2>8. ChargesNumbered /\ CpuOverrunBounded
    <3>1. Cardinality({}) = 0 /\ IsFiniteSet({})
      BY FS_EmptySet
    <3>2. CpuBudget \in Nat
      BY AdmissionNumbers, AdmissionAssumption
    <3> QED
      BY <2>5, <3>1, <3>2 DEF ChargesNumbered, CpuOverrunBounded
  <2> QED
    BY <2>6, <2>7, <2>8 DEF AdmissionIInv
<1>2. AdmissionIInv /\ [AdmissionNext]_admissionVars => AdmissionIInv'
  <2> SUFFICES ASSUME AdmissionIInv, [AdmissionNext]_admissionVars PROVE AdmissionIInv'
    OBVIOUS
  <2>1. CASE TimePasses
    BY <2>1, TimeStep, AdmissionAssumption
  <2>2. ASSUME NEW t \in Tokens, Revoke(t) PROVE AdmissionIInv'
    <3>1. revoked \in [Tokens -> Times] /\ 0 \in Times /\ cached \in [Tokens -> Times] /\ ask \in [Asks -> AskRecords] /\ Slow \in Nat
      BY AdmissionNumbers, AdmissionAssumption DEF AdmissionIInv, AdmissionTypeOK, Times
    <3>2. revoked' \in [Tokens -> Times] /\ \A u \in Tokens : revoked'[u] = IF u = t THEN 0 ELSE revoked[u]
      BY <2>2, <3>1, ChangedAt DEF Revoke
    <3>3. \A a \in Asks : ask[a].age >= 0 /\ ask[a].token \in Tokens
      BY <3>1 DEF AskRecords
    <3>4. AnswersAreFresh'
      BY <2>2, <3>2, <3>3 DEF AdmissionIInv, AnswersAreFresh, Revoke
    <3>5. EntriesAreFresh'
      <4>1. \A u \in Tokens : cached[u] # -1 => 0 <= cached[u] + Slow
        BY <3>1 DEF Times
      <4> QED
        BY <2>2, <3>2, <4>1 DEF AdmissionIInv, EntriesAreFresh, Revoke, None
    <3>6. UNCHANGED usage /\ supervisor' = supervisor
      BY <2>2 DEF Revoke
    <3>7. ChargesNumbered' /\ CpuOverrunBounded'
      BY <3>6, MeterElsewhere, AdmissionAssumption
    <3> QED
      BY <2>2, <3>2, <3>4, <3>5, <3>6, <3>7 DEF AdmissionIInv, AdmissionTypeOK, Revoke, usage
  <2>3. ASSUME NEW a \in Asks, \/ Arrive(a) \/ Introspect(a) \/ CacheAnswer(a) \/ ResolveSupervisor(a)
                               \/ Prompt(a) \/ TurnEnds(a) \/ PromptEnds(a)
        PROVE  AdmissionIInv'
    BY <2>3, AskStep, AdmissionAssumption
  <2>4. CASE UNCHANGED admissionVars
    BY <2>4 DEF admissionVars, AdmissionIInv, AdmissionTypeOK, AnswersAreFresh, EntriesAreFresh, ChargesNumbered, CpuOverrunBounded
  <2> QED
    BY <2>1, <2>2, <2>3, <2>4 DEF AdmissionNext
<1> QED
  BY <1>1, <1>2, PTL DEF AdmissionSpec

\* However many requests of a tenant pass the check at once, however many turns their
\* prompts run, and whenever the supervisor is replaced: what its meter has beyond the
\* budget was charged by the latest prompt of each request, let in below the budget.
THEOREM CpuOverrunIsBounded == AdmissionSpec => []CpuOverrunBounded
<1>1. AdmissionIInv => CpuOverrunBounded
  BY DEF AdmissionIInv
<1> QED
  BY <1>1, AdmissionInvariant, PTL

\* Nobody is let in from the cache with a token revoked longer ago than an entry lives and
\* an answer may be on its way.
THEOREM RevokedTokenIsOut == AdmissionSpec => RevokedIsOut
<1>1. AdmissionIInv /\ [AdmissionNext]_admissionVars
      => [\A a \in Asks : Arrive(a) /\ ask'[a].pc = "in" => revoked[ask'[a].token] < CacheTTL + Slow]_admissionVars
  <2>1. SUFFICES ASSUME AdmissionIInv, NEW a \in Asks, Arrive(a), ask'[a].pc = "in"
                 PROVE  revoked[ask'[a].token] < CacheTTL + Slow
    OBVIOUS
  <2>2. /\ ask \in [Asks -> AskRecords] /\ EntriesAreFresh /\ CacheTTL \in Nat /\ Slow \in Nat
        /\ revoked \in [Tokens -> Times] /\ cached \in [Tokens -> Times]
    BY <2>1, AdmissionNumbers, AdmissionAssumption DEF AdmissionIInv, AdmissionTypeOK
  <2>3. PICK t \in Tokens : ask' = [ask EXCEPT ![a] = [pc |-> IF Hit(t) THEN "in" ELSE "asking", token |-> t, tries |-> 0, age |-> 0]]
    BY <2>1 DEF Arrive
  <2>4. ask'[a] = [pc |-> IF Hit(t) THEN "in" ELSE "asking", token |-> t, tries |-> 0, age |-> 0]
    BY <2>2, <2>3
  <2>5. ask'[a].token = t /\ Hit(t)
    BY <2>1, <2>4
  <2>6. PICK x \in Times, y \in Times : x = revoked[t] /\ y = cached[t]
    BY <2>2
  <2>7. y < CacheTTL /\ x <= y + Slow
    BY <2>2, <2>5, <2>6 DEF Hit, EntriesAreFresh
  <2>8. x \in Int /\ y \in Int
    BY AdmissionNumbers, AdmissionAssumption DEF Times
  <2> QED
    BY <2>2, <2>5, <2>6, <2>7, <2>8
<1> QED
  BY <1>1, AdmissionInvariant, PTL DEF AdmissionSpec, RevokedIsOut

-----------------------------------------------------------------------------
(* Gateway: the inductive invariant.                                        *)

CallFields == {"route", "what", "id", "stage", "template", "new", "made", "left", "index"}
SessionFields == {"model", "prompt", "strategy", "tools", "turns", "next", "running"}
Contents == {r.what.part : r \in RouteCalls}
Prompts(c) == calls[c].stage \in {"queued", "running"}

\* A request's stage is one its route has.
CallOK(k) ==
    /\ DOMAIN k = CallFields
    /\ k.stage # "idle" => k.what \in {r.what : r \in RouteCalls}
    /\ k.stage \in {"idle", "begin", "reserve", "build", "undo", "copy", "queued", "running"}
    /\ k.stage \in {"reserve", "build"} => k.route \in {"create", "batch", "clone", "fork"}
    /\ k.stage = "undo" => k.route = "batch"
    /\ k.stage = "copy" => k.route = "fork"
    /\ k.stage \in {"queued", "running"} => k.route = "send"
SessionOK(s) == DOMAIN s = SessionFields /\ s.turns \in Seq(Contents) /\ s.next \in Nat

GatewayTypes ==
    /\ DOMAIN calls = Askers /\ DOMAIN reply = Askers /\ \A c \in Askers : CallOK(calls[c])
    /\ idsMade \in Nat /\ DOMAIN table \subseteq 1..idsMade
    /\ \A s \in DOMAIN table : SessionOK(table[s])
    /\ DOMAIN tally = {"created", "completed", "failed"} /\ tally.created \in Nat /\ tally.failed \in Nat

\* A session that a handler works on stays in the map.
Works(c) == calls[c].route \in {"send", "fork", "clone"} /\ calls[c].stage \notin {"idle", "begin"}
SourcesStay == \A c \in Askers : Works(c) => calls[c].id \in DOMAIN table

\* The prompts of a session have numbers of their own, below the next one.
OwnNumbers ==
    /\ \A c \in Askers : Prompts(c) => calls[c].index \in Nat /\ calls[c].index < table[calls[c].id].next
    /\ \A c, d \in Askers : c # d /\ calls[c].id = calls[d].id /\ Prompts(c) /\ Prompts(d)
           => calls[c].index # calls[d].index

Builders == {c \in Askers : calls[c].stage = "build"}
BooksAre ==
    /\ slots = Cardinality(DOMAIN table) + Cardinality(Builders) /\ slots <= MaxSessions
    /\ tally.created = Cardinality(DOMAIN table) + tally.failed

GatewayIInv == GatewayTypes /\ SourcesStay /\ OwnNumbers /\ BooksAre

-----------------------------------------------------------------------------
(* Gateway: what the steps do.                                              *)

OthersWait(c) == DOMAIN calls' = Askers /\ \A d \in Askers \ {c} : calls'[d] = calls[d]
Ends(c) == OthersWait(c) /\ calls'[c] = NoCall
GoesTo(c, stages) ==
    /\ OthersWait(c) /\ DOMAIN calls'[c] = CallFields /\ calls'[c].stage \in stages
    /\ calls'[c].route = calls[c].route /\ calls'[c].what = calls[c].what /\ calls'[c].id = calls[c].id

\* On the map.
MapStays == table' = table /\ idsMade' = idsMade
SessionGoes(s) ==
    /\ s \in DOMAIN table /\ Free(s) /\ idsMade' = idsMade
    /\ DOMAIN table' = DOMAIN table \ {s} /\ \A t \in DOMAIN table' : table'[t] = table[t]
SessionComes ==
    /\ idsMade' = idsMade + 1
    /\ DOMAIN table' = DOMAIN table \cup {idsMade + 1} /\ \A t \in DOMAIN table : table'[t] = table[t]
    /\ SessionOK(table'[idsMade + 1])
SessionChanges(s) ==
    /\ s \in DOMAIN table /\ idsMade' = idsMade
    /\ DOMAIN table' = DOMAIN table /\ \A t \in DOMAIN table \ {s} : table'[t] = table[t]
    /\ SessionOK(table'[s]) /\ table'[s].next >= table[s].next

\* On the books.
BooksStay == slots' = slots /\ tally'.created = tally.created /\ tally'.failed = tally.failed
OneGone == slots' = slots - 1 /\ tally'.created = tally.created /\ tally'.failed = tally.failed + 1
TallyOK == DOMAIN tally' = {"created", "completed", "failed"}

LEMMA NoCallIs == /\ DOMAIN NoCall = CallFields /\ NoCall.stage = "idle" /\ NoCall.route = "none"
                  /\ CallOK(NoCall)
  BY DEF NoCall, CallFields, CallOK

LEMMA Replies ==
  ASSUME GatewayTypes, NEW c \in Askers, NEW status, NEW index, NEW body, Reply(c, status, index, body)
  PROVE  /\ Ends(c) /\ DOMAIN reply' = Askers
         /\ reply'[c].status = status /\ reply'[c].index = index /\ reply'[c].body = body
  BY DEF Reply, Ends, OthersWait, GatewayTypes

LEMMA StageMoves ==
  ASSUME GatewayTypes, NEW c \in Askers, NEW stage, Stage(c, stage)
  PROVE  GoesTo(c, {stage})
  BY DEF Stage, GoesTo, OthersWait, GatewayTypes, CallOK, CallFields

LEMMA SessionIsRemoved ==
  ASSUME GatewayTypes, NEW s \in DOMAIN table, Free(s), Removed(s), idsMade' = idsMade
  PROVE  SessionGoes(s) /\ OneGone /\ TallyOK
  BY DEF Removed, SessionGoes, OneGone, TallyOK, GatewayTypes

\* A sequence that grows at its end keeps what it was.
LEMMA Extended ==
  ASSUME NEW S, NEW u \in Seq(S), NEW v \in Seq(S)
  PROVE  IsPrefix(u, u \o v) /\ IsPrefix(u, u) /\ u \o v \in Seq(S)
  BY DEF IsPrefix
LEMMA ExtendedByOne ==
  ASSUME NEW S, NEW u \in Seq(S), NEW e \in S
  PROVE  IsPrefix(u, Append(u, e)) /\ Append(u, e) \in Seq(S)
  BY DEF IsPrefix

\* What a step of c owes the invariant, and what it tells c.
SameBuild(c) == calls'[c].stage = "build" <=> calls[c].stage = "build"
Effect(c) ==
    \/ MapStays /\ BooksStay /\ SameBuild(c)
    \/ /\ MapStays /\ calls[c].stage # "build" /\ calls'[c].stage = "build"
       /\ slots < MaxSessions /\ slots' = slots + 1 /\ tally' = tally
    \/ /\ MapStays /\ calls[c].stage = "build" /\ calls'[c].stage # "build"
       /\ slots' = slots - 1 /\ tally' = tally
    \/ /\ SessionComes /\ calls[c].stage = "build" /\ calls'[c].stage # "build"
       /\ slots' = slots /\ tally'.created = tally.created + 1 /\ tally'.failed = tally.failed
    \/ (\E s \in DOMAIN table : SessionChanges(s)) /\ BooksStay /\ SameBuild(c)
    \/ (\E s \in DOMAIN table : SessionGoes(s)) /\ OneGone /\ SameBuild(c)

NumberIsOwn(c) ==
    \/ Prompts(c) /\ calls'[c].id = calls[c].id /\ calls'[c].index = calls[c].index
    \/ LET s == calls[c].id IN
       /\ s \in DOMAIN table /\ calls'[c].id = s /\ calls'[c].index = table[s].next
       /\ table'[s].next = table[s].next + 1

AnswerHolds(c) ==
    LET a == reply'[c] IN
    /\ a.status = 201 /\ calls[c].route # "fork" => a.index \notin DOMAIN table /\ a.index \in DOMAIN table'
    /\ calls[c].route = "batch" /\ a.status = 500 => calls[c].made \cap DOMAIN table' = {}
    /\ calls[c].route = "delete" /\ a.status = 204 => calls[c].id \in DOMAIN table \ DOMAIN table'
    /\ "media" \notin Range(a.body)

TurnsStay(c) ==
    \A s \in DOMAIN table \cap DOMAIN table' :
        \/ IsPrefix(table[s].turns, table'[s].turns)
        \/ GetsAnswer(c) /\ calls[c].route = "reset" /\ calls[c].id = s

Handles(c) ==
    /\ OthersWait(c) /\ CallOK(calls'[c]) /\ DOMAIN reply' = Askers /\ TallyOK /\ Effect(c)
    /\ Works(c)' => calls'[c].id \in DOMAIN table'
    /\ Prompts(c)' => NumberIsOwn(c)
    /\ GetsAnswer(c) => AnswerHolds(c)
    /\ TurnsStay(c)

\* Turns stay where no session changes.
LEMMA TurnsUntouched ==
  ASSUME GatewayTypes, NEW c \in Askers,
         \/ MapStays \/ SessionComes \/ \E s \in DOMAIN table : SessionGoes(s)
  PROVE  TurnsStay(c)
<1>1. \A s \in DOMAIN table \cap DOMAIN table' : table'[s] = table[s] /\ table[s].turns \in Seq(Contents)
  BY DEF MapStays, SessionComes, SessionGoes, GatewayTypes, SessionOK
<1> QED
  BY <1>1, Extended DEF TurnsStay

\* An answer that ends a request leaves nothing to show for it.
LEMMA EndIsOK ==
  ASSUME NEW c \in Askers, Ends(c)
  PROVE  /\ OthersWait(c) /\ CallOK(calls'[c]) /\ calls'[c].stage = "idle"
         /\ ~Works(c)' /\ ~Prompts(c)'
  BY NoCallIs DEF Ends, Works, Prompts

LEMMA StaysOK == GatewayTypes /\ tally' = tally => TallyOK /\ tally'.created = tally.created /\ tally'.failed = tally.failed
  BY DEF GatewayTypes, TallyOK
LEMMA NoMedia == /\ "media" \notin Range(<<>>)
                 /\ \A turns : "media" \notin Range(DowngradeMedia(turns))
  BY DEF Range, DowngradeMedia
LEMMA Numbers == /\ StatusOf("not_found") = 404 /\ StatusOf("bad_request") = 400
                 /\ StatusOf("session_limit") = 429 /\ StatusOf("internal") = 500
  BY DEF StatusOf

\* Where the map and the books stay and the request is over, the answer is all there is to it.
LEMMA OnlyAnswers ==
  ASSUME GatewayTypes, NEW c \in Askers, NEW status, NEW index, NEW body,
         Reply(c, status, index, body), table' = table, idsMade' = idsMade, slots' = slots, TallyOK,
         tally'.created = tally.created, tally'.failed = tally.failed,
         calls[c].stage # "build", status # 201, status # 500,
         calls[c].route = "delete" => status # 204, "media" \notin Range(body)
  PROVE  Handles(c)
<1>1. /\ Ends(c) /\ DOMAIN reply' = Askers
      /\ reply'[c].status = status /\ reply'[c].index = index /\ reply'[c].body = body
  BY Replies
<1>2. Effect(c)
  BY <1>1, EndIsOK DEF Effect, MapStays, BooksStay, SameBuild
<1>3. TurnsStay(c)
  BY TurnsUntouched DEF MapStays
<1> QED
  BY <1>1, <1>2, <1>3, EndIsOK DEF Handles, AnswerHolds

LEMMA AskHandles == ASSUME GatewayTypes, NEW c \in Askers, Ask(c) PROVE Handles(c)
<1>1. PICK r \in RouteCalls, s \in 1..idsMade + 1 :
          calls' = [calls EXCEPT ![c] = [NoCall EXCEPT !.route = r.route, !.what = r.what, !.id = s, !.stage = "begin"]]
  BY DEF Ask
<1>2. /\ OthersWait(c) /\ DOMAIN calls'[c] = CallFields /\ calls'[c].stage = "begin"
      /\ calls'[c].what = r.what /\ calls[c].stage = "idle" /\ DOMAIN reply' = Askers
  BY <1>1 DEF Ask, OthersWait, GatewayTypes, NoCall, CallFields
<1>3. CallOK(calls'[c])
  BY <1>2 DEF CallOK
<1>4. MapStays /\ BooksStay /\ TallyOK /\ Effect(c)
  BY <1>2, StaysOK DEF Ask, MapStays, BooksStay, Effect, SameBuild
<1>5. TurnsStay(c)
  BY <1>4, TurnsUntouched
<1> QED
  BY <1>2, <1>3, <1>4, <1>5 DEF Handles, Works, Prompts, GetsAnswer

LEMMA BeginsHandle ==
  ASSUME GatewayTypes, SourcesStay, NEW c \in Askers, Missing(c) \/ BeginCreate(c) \/ BeginBatch(c) \/ BeginCopy(c)
  PROVE  Handles(c)
<1>0. TallyOK /\ tally'.created = tally.created /\ tally'.failed = tally.failed /\ MapStays /\ BooksStay
  BY StaysOK DEF Missing, BeginCreate, BeginBatch, BeginCopy, MapStays, BooksStay
<1>1. CASE Missing(c)
  BY <1>1, <1>0, OnlyAnswers, NoMedia, Numbers DEF Missing
<1>2. CASE BeginBatch(c) /\ \E error \in {"bad_request", "session_limit"} : Reply(c, StatusOf(error), 0, <<>>)
  BY <1>2, <1>0, OnlyAnswers, NoMedia, Numbers DEF BeginBatch
<1>3. CASE BeginCreate(c) \/ BeginCopy(c) \/ (BeginBatch(c) /\ calls'[c].stage # "idle" /\ reply' = reply)
  <2>1. /\ GoesTo(c, {"reserve"}) /\ calls[c].stage = "begin"
        /\ calls[c].route \in {"create", "batch", "clone", "fork"} /\ reply' = reply
    BY <1>3, NoCallIs DEF BeginCreate, BeginCopy, BeginBatch, GoesTo, OthersWait, GatewayTypes, CallOK, CallFields, Reply
  <2>2. CallOK(calls'[c]) /\ Effect(c) /\ TurnsStay(c)
    BY <2>1, <1>0, TurnsUntouched DEF GoesTo, CallOK, GatewayTypes, Effect, SameBuild
  <2>3. calls[c].route \in {"clone", "fork"} => calls[c].id \in DOMAIN table
    BY <1>3 DEF BeginCreate, BeginCopy, BeginBatch, IsKnown
  <2> QED
    BY <2>1, <2>2, <2>3, <1>0 DEF Handles, GoesTo, MapStays, Works, Prompts, GetsAnswer, GatewayTypes
<1> QED
  <2>1. CASE BeginBatch(c)
    <3>1. \/ \E error \in {"bad_request", "session_limit"} : Reply(c, StatusOf(error), 0, <<>>)
          \/ /\ calls' = [calls EXCEPT ![c].stage = "reserve", ![c].template = Template(calls[c].what), ![c].left = calls[c].what.count]
             /\ reply' = reply
      BY <2>1 DEF BeginBatch
    <3>2. ASSUME calls' = [calls EXCEPT ![c].stage = "reserve", ![c].template = Template(calls[c].what), ![c].left = calls[c].what.count]
          PROVE  calls'[c].stage = "reserve"
      BY <3>2 DEF GatewayTypes, CallOK, CallFields
    <3> QED
      BY <2>1, <3>1, <3>2, <1>2, <1>3
  <2> QED
    BY <2>1, <1>1, <1>3

\* A creation that fails: a batch goes on to take back what it made.
LEMMA CallFailing ==
  ASSUME GatewayTypes, NEW c \in Askers, NEW error \in {"session_limit", "internal"}, CallFails(c, error),
         calls[c].stage \in {"reserve", "build"}
  PROVE  /\ OthersWait(c) /\ CallOK(calls'[c]) /\ DOMAIN reply' = Askers
         /\ calls'[c].stage \in {"idle", "undo"} /\ ~Works(c)' /\ ~Prompts(c)'
         /\ GetsAnswer(c) => AnswerHolds(c)
<1>1. CASE calls[c].route = "batch"
  <2>1. GoesTo(c, {"undo"}) /\ reply' = reply
    BY <1>1, StageMoves DEF CallFails
  <2> QED
    BY <1>1, <2>1 DEF GoesTo, CallOK, GatewayTypes, Works, Prompts, GetsAnswer
<1>2. CASE calls[c].route # "batch"
  <2>1. /\ Ends(c) /\ DOMAIN reply' = Askers
        /\ reply'[c].status \in {429, 500} /\ reply'[c].body = <<>>
    BY <1>2, Replies, Numbers DEF CallFails
  <2>2. calls[c].route # "delete"
    BY DEF GatewayTypes, CallOK
  <2> QED
    BY <1>2, <2>1, <2>2, EndIsOK, NoMedia DEF AnswerHolds
<1> QED
  BY <1>1, <1>2

LEMMA ReservesHandle ==
  ASSUME GatewayTypes, SourcesStay, NEW c \in Askers, Reserve(c) \/ BuildFails(c)
  PROVE  Handles(c)
<1>0. MapStays /\ TallyOK /\ tally' = tally /\ TurnsStay(c)
  BY StaysOK, TurnsUntouched DEF Reserve, BuildFails, MapStays
<1>1. CASE Reserve(c) /\ slots < MaxSessions
  <2>1. GoesTo(c, {"build"}) /\ calls[c].stage = "reserve" /\ reply' = reply /\ slots' = slots + 1
    BY <1>1, StageMoves DEF Reserve
  <2>2. CallOK(calls'[c]) /\ Effect(c)
    BY <1>1, <2>1, <1>0 DEF GoesTo, CallOK, GatewayTypes, Effect
  <2> QED
    BY <2>1, <2>2, <1>0 DEF Handles, GoesTo, MapStays, Works, SourcesStay, Prompts, GetsAnswer, GatewayTypes
<1>2. CASE Reserve(c) /\ ~(slots < MaxSessions)
  <2>1. CallFails(c, "session_limit") /\ calls[c].stage = "reserve" /\ slots' = slots
    BY <1>2 DEF Reserve
  <2>2. Effect(c)
    BY <2>1, <1>0, CallFailing DEF Effect, BooksStay, SameBuild
  <2> QED
    BY <2>1, <2>2, <1>0, CallFailing DEF Handles
<1>3. CASE BuildFails(c)
  <2>1. CallFails(c, "internal") /\ calls[c].stage = "build" /\ slots' = slots - 1
    BY <1>3 DEF BuildFails
  <2>2. Effect(c)
    BY <2>1, <1>0, CallFailing DEF Effect
  <2> QED
    BY <2>1, <2>2, <1>0, CallFailing DEF Handles
<1> QED
  BY <1>1, <1>2, <1>3

\* Entering the map: the id is new, so nobody works on it.
LEMMA EntersHandle ==
  ASSUME GatewayTypes, SourcesStay, NEW c \in Askers, EnterTable(c)
  PROVE  Handles(c)
<1> DEFINE id == idsMade + 1
           more == calls[c].route = "batch" /\ calls[c].left > 1
<1>1. calls[c].stage = "build" /\ slots' = slots /\ id \notin DOMAIN table
  BY DEF EnterTable, GatewayTypes
<1>2. SessionComes
  <2>1. <<>> \in Seq(Contents)
    BY EmptySeq
  <2> QED
    BY <2>1, <1>1 DEF EnterTable, SessionComes, SessionOK, SessionFields
<1>3. TallyOK /\ tally'.created = tally.created + 1 /\ tally'.failed = tally.failed
  BY DEF EnterTable, TallyOK, GatewayTypes
<1>4. TurnsStay(c)
  BY <1>2, TurnsUntouched
<1>5. CASE calls[c].route = "fork" \/ more
  <2>1. GoesTo(c, {"reserve", "copy"}) /\ reply' = reply /\ (calls[c].route # "fork" => calls'[c].stage = "reserve")
        /\ (calls[c].route = "fork" => calls'[c].stage = "copy")
    BY <1>5 DEF EnterTable, GoesTo, OthersWait, GatewayTypes, CallOK, CallFields
  <2>2. CallOK(calls'[c]) /\ Effect(c)
    BY <2>1, <1>1, <1>2, <1>3 DEF GoesTo, CallOK, GatewayTypes, Effect
  <2>3. Works(c)' => calls'[c].id \in DOMAIN table'
    BY <2>1, <1>1, <1>2 DEF GoesTo, Works, SourcesStay, SessionComes
  <2> QED
    BY <2>1, <2>2, <2>3, <1>3, <1>4 DEF Handles, GoesTo, Prompts, GetsAnswer, GatewayTypes
<1>6. CASE ~(calls[c].route = "fork" \/ more)
  <2>1. Reply(c, 201, id, <<>>)
    BY <1>6 DEF EnterTable
  <2>2. /\ Ends(c) /\ DOMAIN reply' = Askers
        /\ reply'[c].status = 201 /\ reply'[c].index = id /\ reply'[c].body = <<>>
    BY <2>1, Replies
  <2>3. AnswerHolds(c)
    BY <2>2, <1>1, <1>2, NoMedia DEF AnswerHolds, SessionComes
  <2>4. Effect(c)
    BY <2>2, <1>1, <1>2, <1>3, EndIsOK DEF Effect
  <2> QED
    BY <2>2, <2>3, <2>4, <1>3, <1>4, EndIsOK DEF Handles
<1> QED
  BY <1>5, <1>6

LEMMA RemovalsHandle ==
  ASSUME GatewayTypes, SourcesStay, NEW c \in Askers, UndoBatch(c) \/ Delete(c)
  PROVE  Handles(c)
<1>1. CASE UndoBatch(c) /\ calls[c].made \cap DOMAIN table = {}
  <2>1. /\ Reply(c, 500, 0, <<>>) /\ calls[c].stage = "undo" /\ MapStays /\ BooksStay /\ TallyOK /\ calls[c].route = "batch"
        /\ DOMAIN table' = DOMAIN table
    BY <1>1, StaysOK, Numbers DEF UndoBatch, MapStays, BooksStay, GatewayTypes, CallOK
  <2>2. /\ Ends(c) /\ DOMAIN reply' = Askers /\ reply'[c].status = 500 /\ reply'[c].body = <<>>
    BY <2>1, Replies
  <2>3. AnswerHolds(c)
    BY <2>1, <2>2, <1>1, NoMedia DEF AnswerHolds
  <2>4. Effect(c) /\ TurnsStay(c)
    BY <2>1, <2>2, EndIsOK, TurnsUntouched DEF Effect, SameBuild
  <2> QED
    BY <2>1, <2>2, <2>3, <2>4, EndIsOK DEF Handles
<1>2. CASE UndoBatch(c) /\ calls[c].made \cap DOMAIN table # {}
  <2>1. PICK s \in DOMAIN table : Free(s) /\ Removed(s) /\ UNCHANGED <<calls, reply, idsMade>>
    BY <1>2 DEF UndoBatch
  <2>2. SessionGoes(s) /\ OneGone /\ TallyOK /\ calls[c].stage = "undo"
    BY <2>1, <1>2, SessionIsRemoved DEF UndoBatch
  <2>3. Effect(c) /\ TurnsStay(c)
    BY <2>1, <2>2, TurnsUntouched DEF Effect, SameBuild
  <2>4. calls[c].route = "batch" /\ OthersWait(c) /\ CallOK(calls'[c])
    BY <2>1, <2>2 DEF GatewayTypes, CallOK, OthersWait
  <2> QED
    BY <2>1, <2>2, <2>3, <2>4 DEF Handles, Works, Prompts, GetsAnswer, GatewayTypes
<1>3. CASE Delete(c)
  <2> DEFINE s == calls[c].id
  <2>1. /\ SessionGoes(s) /\ OneGone /\ TallyOK /\ calls[c].stage = "begin" /\ calls[c].route = "delete"
        /\ Reply(c, 204, s, <<>>) /\ s \in DOMAIN table
    BY <1>3, SessionIsRemoved DEF Delete, IsKnown
  <2>2. /\ Ends(c) /\ DOMAIN reply' = Askers /\ reply'[c].status = 204 /\ reply'[c].body = <<>>
    BY <2>1, Replies
  <2>3. AnswerHolds(c)
    BY <2>1, <2>2, NoMedia DEF AnswerHolds, SessionGoes
  <2>4. Effect(c) /\ TurnsStay(c)
    BY <2>1, <2>2, EndIsOK, TurnsUntouched DEF Effect, SameBuild
  <2> QED
    BY <2>1, <2>2, <2>3, <2>4, EndIsOK DEF Handles
<1> QED
  BY <1>1, <1>2, <1>3

LEMMA Changing ==
  ASSUME GatewayTypes, NEW s \in DOMAIN table, NEW e, table' = [table EXCEPT ![s] = e],
         DOMAIN e = SessionFields, e.turns \in Seq(Contents), e.next \in Nat, e.next >= table[s].next,
         idsMade' = idsMade
  PROVE  SessionChanges(s) /\ table'[s] = e
  BY DEF SessionChanges, SessionOK, GatewayTypes

\* A step that changes one session, whose turns grow or are reset, and nothing on the books.
LEMMA ChangeHandles ==
  ASSUME GatewayTypes, NEW c \in Askers, NEW s \in DOMAIN table, SessionChanges(s), BooksStay,
         TallyOK, SameBuild(c), OthersWait(c), CallOK(calls'[c]), DOMAIN reply' = Askers,
         Works(c)' => calls'[c].id \in DOMAIN table', Prompts(c)' => NumberIsOwn(c),
         GetsAnswer(c) => AnswerHolds(c),
         \/ IsPrefix(table[s].turns, table'[s].turns)
         \/ GetsAnswer(c) /\ calls[c].route = "reset" /\ calls[c].id = s
  PROVE  Handles(c)
<1>1. \A t \in DOMAIN table : IsPrefix(table[t].turns, table[t].turns)
  BY Extended DEF GatewayTypes, SessionOK
<1>2. TurnsStay(c)
  BY <1>1 DEF TurnsStay, SessionChanges
<1> QED
  BY <1>2 DEF Handles, Effect

LEMMA CopyHandles ==
  ASSUME GatewayTypes, SourcesStay, NEW c \in Askers, CopyHistory(c)
  PROVE  Handles(c)
<1> DEFINE new == calls[c].new
           turns == table[calls[c].id].turns
<1>0. /\ calls[c].stage = "copy" /\ calls[c].route = "fork" /\ calls[c].id \in DOMAIN table
      /\ idsMade' = idsMade /\ BooksStay /\ TallyOK /\ slots' = slots
      /\ tally'.created = tally.created /\ tally'.failed = tally.failed
  BY StaysOK DEF CopyHistory, GatewayTypes, CallOK, SourcesStay, Works, BooksStay
<1>1. CASE turns # <<>> /\ new \notin DOMAIN table
  BY <1>1, <1>0, OnlyAnswers, NoMedia, Numbers DEF CopyHistory
<1>2. CASE turns = <<>> \/ new \in DOMAIN table
  <2>1. Reply(c, 201, new, <<>>) /\ table' = IF turns = <<>> THEN table ELSE [table EXCEPT ![new].turns = @ \o turns]
    BY <1>2 DEF CopyHistory
  <2>2. /\ Ends(c) /\ DOMAIN reply' = Askers /\ reply'[c].status = 201 /\ reply'[c].body = <<>>
    BY <2>1, Replies
  <2>3. AnswerHolds(c)
    BY <2>2, <1>0, NoMedia DEF AnswerHolds
  <2>4. SameBuild(c)
    BY <2>2, <1>0, EndIsOK DEF SameBuild
  <2>5. CASE turns = <<>>
    <3>1. MapStays
      BY <2>1, <2>5, <1>0 DEF MapStays
    <3> QED
      BY <3>1, <2>2, <2>3, <2>4, <1>0, EndIsOK, TurnsUntouched DEF Handles, Effect
  <2>6. CASE turns # <<>>
    <3> DEFINE e == [table[new] EXCEPT !.turns = @ \o turns]
    <3>1. new \in DOMAIN table /\ table' = [table EXCEPT ![new] = e]
      BY <2>1, <2>6, <1>2
    <3>2. table[new].turns \in Seq(Contents) /\ turns \in Seq(Contents)
      BY <3>1, <1>0 DEF GatewayTypes, SessionOK
    <3>3. DOMAIN e = SessionFields /\ e.turns = table[new].turns \o turns /\ e.next = table[new].next /\ e.next \in Nat
      BY <3>1 DEF GatewayTypes, SessionOK, SessionFields
    <3> HIDE DEF e, new, turns
    <3>4. IsPrefix(table[new].turns, e.turns) /\ e.turns \in Seq(Contents)
      BY <3>2, <3>3, Extended
    <3>5. e.next >= table[new].next
      BY <3>3
    <3>6. SessionChanges(new) /\ table'[new] = e
      BY <3>1, <3>3, <3>4, <3>5, <1>0, Changing
    <3> QED
      BY <3>1, <3>4, <3>6, <2>2, <2>3, <2>4, <1>0, EndIsOK, ChangeHandles
  <2> QED
    BY <2>5, <2>6
<1> QED
  BY <1>1, <1>2

LEMMA PromptHandles ==
  ASSUME GatewayTypes, SourcesStay, NEW c \in Askers, BeginSend(c) \/ RunTurn(c)
  PROVE  Handles(c)
<1> DEFINE s == calls[c].id
           e == IF calls[c].stage = "begin" THEN [table[s] EXCEPT !.next = @ + 1] ELSE [table[s] EXCEPT !.running = c]
<1>0. /\ s \in DOMAIN table /\ BooksStay /\ TallyOK /\ idsMade' = idsMade /\ reply' = reply
      /\ calls[c].stage \in {"begin", "queued"} /\ calls[c].route = "send"
      /\ table' = [table EXCEPT ![s] = e]
  <2>1. BooksStay /\ TallyOK
    BY StaysOK DEF BeginSend, RunTurn, BooksStay
  <2>2. calls[c].stage = "queued" => calls[c].route = "send" /\ s \in DOMAIN table
    BY DEF GatewayTypes, CallOK, SourcesStay, Works
  <2>3. CASE BeginSend(c)
    BY <2>1, <2>3 DEF BeginSend, IsKnown
  <2>4. CASE RunTurn(c)
    BY <2>1, <2>2, <2>4 DEF RunTurn
  <2> QED
    BY <2>3, <2>4
<1>1. /\ DOMAIN e = SessionFields /\ e.turns = table[s].turns /\ e.turns \in Seq(Contents) /\ e.next \in Nat
      /\ e.next >= table[s].next /\ (calls[c].stage = "begin" => e.next = table[s].next + 1)
  BY <1>0 DEF GatewayTypes, SessionOK, SessionFields
<1> HIDE DEF e
<1>2. SessionChanges(s) /\ table'[s] = e
  BY <1>0, <1>1, Changing
<1>3. /\ GoesTo(c, {"queued", "running"})
      /\ calls[c].stage = "begin" => calls'[c].index = table[s].next
      /\ calls[c].stage = "queued" => calls'[c].index = calls[c].index
  <2>1. CASE BeginSend(c)
    BY <2>1 DEF BeginSend, GoesTo, OthersWait, GatewayTypes, CallOK, CallFields
  <2>2. CASE RunTurn(c)
    BY <2>2 DEF RunTurn, Stage, GoesTo, OthersWait, GatewayTypes, CallOK, CallFields
  <2> QED
    BY <2>1, <2>2
<1>4. CallOK(calls'[c]) /\ SameBuild(c) /\ OthersWait(c) /\ DOMAIN reply' = Askers /\ ~GetsAnswer(c)
  BY <1>0, <1>3 DEF GoesTo, CallOK, GatewayTypes, SameBuild, GetsAnswer
<1>5. calls'[c].id \in DOMAIN table' /\ NumberIsOwn(c)
  BY <1>0, <1>1, <1>2, <1>3 DEF GoesTo, NumberIsOwn, Prompts, SessionChanges
<1>6. IsPrefix(table[s].turns, table'[s].turns)
  BY <1>1, <1>2, Extended
<1> QED
  BY <1>0, <1>2, <1>4, <1>5, <1>6, ChangeHandles

\* A request that changes a session and is over.
LEMMA FinalChange ==
  ASSUME GatewayTypes, NEW c \in Askers, NEW s \in DOMAIN table, SessionChanges(s),
         slots' = slots, tally' = tally, calls[c].stage # "build",
         Ends(c), DOMAIN reply' = Askers, reply'[c].status \in {200, 500}, reply'[c].body = <<>>,
         calls[c].route \notin {"batch", "delete"},
         \/ IsPrefix(table[s].turns, table'[s].turns)
         \/ calls[c].route = "reset" /\ calls[c].id = s /\ calls[c].stage # "idle"
  PROVE  Handles(c)
<1>1. AnswerHolds(c)
  BY NoMedia DEF AnswerHolds
<1>2. SameBuild(c) /\ BooksStay /\ TallyOK
  BY EndIsOK, StaysOK DEF SameBuild, BooksStay
<1>3. IsPrefix(table[s].turns, table'[s].turns) \/ (GetsAnswer(c) /\ calls[c].route = "reset" /\ calls[c].id = s)
  BY EndIsOK DEF GetsAnswer
<1> QED
  BY <1>1, <1>2, <1>3, EndIsOK, ChangeHandles

LEMMA EndTurnHandles ==
  ASSUME GatewayTypes, SourcesStay, NEW c \in Askers, EndTurn(c)
  PROVE  Handles(c)
<1> DEFINE s == calls[c].id
           part == calls[c].what.part
           said == [table[s] EXCEPT !.running = "nobody", !.turns = Append(@, part)]
           failed == [table[s] EXCEPT !.running = "nobody"]
<1>1. /\ s \in DOMAIN table /\ calls[c].stage = "running" /\ calls[c].route = "send"
      /\ idsMade' = idsMade /\ slots' = slots /\ tally' = tally
  BY DEF EndTurn, GatewayTypes, CallOK, SourcesStay, Works
<1>2. part \in Contents /\ table[s].turns \in Seq(Contents) /\ DOMAIN table[s] = SessionFields
  <2>1. PICK r \in RouteCalls : calls[c].what = r.what
    BY <1>1 DEF GatewayTypes, CallOK
  <2> QED
    BY <2>1, <1>1 DEF Contents, GatewayTypes, SessionOK
<1> HIDE DEF s, part
<1>3. /\ DOMAIN said = SessionFields /\ said.turns = Append(table[s].turns, part) /\ said.next = table[s].next
      /\ DOMAIN failed = SessionFields /\ failed.turns = table[s].turns /\ failed.next = table[s].next
  BY <1>2 DEF SessionFields
<1>4. /\ IsPrefix(table[s].turns, said.turns) /\ said.turns \in Seq(Contents)
      /\ IsPrefix(table[s].turns, failed.turns) /\ failed.turns \in Seq(Contents)
  BY <1>2, <1>3, Extended, ExtendedByOne
<1>5. /\ table' \in {[table EXCEPT ![s] = said], [table EXCEPT ![s] = failed]}
      /\ Reply(c, 200, calls[c].index, <<>>) \/ Reply(c, 500, 0, <<>>)
  BY Numbers DEF EndTurn, s, part
<1>6. /\ said.next \in Nat /\ said.next >= table[s].next
      /\ failed.next \in Nat /\ failed.next >= table[s].next
  BY <1>1, <1>3 DEF GatewayTypes, SessionOK
<1> HIDE DEF said, failed
<1>7. SessionChanges(s) /\ table'[s] \in {said, failed}
  <2>1. CASE table' = [table EXCEPT ![s] = said]
    BY <1>1, <1>3, <1>4, <1>6, <2>1, Changing
  <2>2. CASE table' = [table EXCEPT ![s] = failed]
    BY <1>1, <1>3, <1>4, <1>6, <2>2, Changing
  <2> QED
    BY <1>5, <2>1, <2>2
<1>8. Ends(c) /\ DOMAIN reply' = Askers /\ reply'[c].status \in {200, 500} /\ reply'[c].body = <<>>
  BY <1>5, Replies
<1> QED
  BY <1>1, <1>4, <1>7, <1>8, FinalChange

LEMMA EditHandles ==
  ASSUME GatewayTypes, NEW c \in Askers, Update(c) \/ Reset(c)
  PROVE  Handles(c)
<1> DEFINE s == calls[c].id
           e == IF calls[c].route = "update" THEN Updated(table[s], calls[c].what) ELSE [table[s] EXCEPT !.turns = <<>>]
<1>1. /\ s \in DOMAIN table /\ calls[c].stage = "begin" /\ calls[c].route \in {"update", "reset"}
      /\ idsMade' = idsMade /\ slots' = slots /\ tally' = tally
      /\ table' = [table EXCEPT ![s] = e] /\ Reply(c, 200, 0, <<>>)
  BY DEF Update, Reset, IsKnown
<1>2. table[s].turns \in Seq(Contents) /\ DOMAIN table[s] = SessionFields
  BY <1>1 DEF GatewayTypes, SessionOK
<1>3. /\ DOMAIN e = SessionFields /\ e.next = table[s].next
      /\ calls[c].route = "update" => e.turns = table[s].turns
      /\ calls[c].route = "reset" => e.turns = <<>>
  BY <1>1, <1>2 DEF SessionFields, Updated
<1>4. /\ e.turns \in Seq(Contents)
      /\ calls[c].route = "update" => IsPrefix(table[s].turns, e.turns)
  BY <1>1, <1>2, <1>3, Extended, EmptySeq
<1>5. e.next \in Nat /\ e.next >= table[s].next
  BY <1>1, <1>3 DEF GatewayTypes, SessionOK
<1>6. Ends(c) /\ DOMAIN reply' = Askers /\ reply'[c].status = 200 /\ reply'[c].body = <<>>
  BY <1>1, Replies
<1> HIDE DEF e
<1>7. SessionChanges(s) /\ table'[s] = e
  BY <1>1, <1>3, <1>4, <1>5, Changing
<1> QED
  BY <1>1, <1>4, <1>6, <1>7, FinalChange

LEMMA OthersHandle ==
  ASSUME GatewayTypes, NEW c \in Askers, GetMessages(c) \/ Complete(c) \/ Acknowledge(c)
  PROVE  Handles(c)
<1>1. CASE GetMessages(c)
  BY <1>1, OnlyAnswers, StaysOK, NoMedia DEF GetMessages
<1>2. CASE Complete(c)
  <2>1. TallyOK /\ tally'.created = tally.created /\ tally'.failed = tally.failed
    BY <1>2 DEF Complete, TallyOK, GatewayTypes
  <2> QED
    BY <1>2, <2>1, OnlyAnswers, NoMedia DEF Complete
<1>3. CASE Acknowledge(c)
  BY <1>3, OnlyAnswers, StaysOK, NoMedia DEF Acknowledge
<1> QED
  BY <1>1, <1>2, <1>3

LEMMA EveryHandles ==
  ASSUME GatewayTypes, SourcesStay, NEW c \in Askers, Ask(c) \/ Handle(c)
  PROVE  Handles(c)
  BY AskHandles, BeginsHandle, ReservesHandle, EntersHandle, RemovalsHandle, CopyHandles, PromptHandles,
     EndTurnHandles, EditHandles, OthersHandle DEF Handle

-----------------------------------------------------------------------------
(* Gateway: the invariant is kept.                                          *)

\* A step of nobody's: of shutdown, or none.
GoesOnWithout ==
    /\ calls' = calls /\ reply' = reply
    /\ \/ MapStays /\ slots' = slots /\ tally' = tally
       \/ (\E s \in DOMAIN table : SessionGoes(s)) /\ OneGone /\ TallyOK

LEMMA GatewayMoves ==
  ASSUME GatewayTypes, SourcesStay, [GatewayNext]_gatewayVars
  PROVE  GoesOnWithout \/ \E c \in Askers : Handles(c)
<1>1. CASE \E c \in Askers : Ask(c) \/ Handle(c)
  BY <1>1, EveryHandles
<1>2. CASE Terminate \/ StopListening \/ Exit \/ UNCHANGED gatewayVars
  BY <1>2 DEF Terminate, StopListening, Exit, gatewayVars, GoesOnWithout, MapStays
<1>3. CASE DrainOne
  <2>1. PICK s \in drain : IF s \in DOMAIN table THEN Free(s) /\ Removed(s) ELSE UNCHANGED <<table, slots, tally>>
    BY <1>3 DEF DrainOne
  <2>2. UNCHANGED <<idsMade, calls, reply>>
    BY <1>3 DEF DrainOne
  <2>3. CASE s \in DOMAIN table
    BY <2>1, <2>2, <2>3, SessionIsRemoved DEF GoesOnWithout
  <2>4. CASE s \notin DOMAIN table
    BY <2>1, <2>2, <2>4 DEF GoesOnWithout, MapStays
  <2> QED
    BY <2>3, <2>4
<1> QED
  BY <1>1, <1>2, <1>3 DEF GatewayNext

\* Who works on a session keeps it, and its next number never falls.
MapMoves ==
    \/ MapStays \/ SessionComes
    \/ \E s \in DOMAIN table : SessionChanges(s) \/ SessionGoes(s)

LEMMA HandlesMoveMap ==
  ASSUME GoesOnWithout \/ \E c \in Askers : Handles(c)
  PROVE  MapMoves
  BY DEF MapMoves, GoesOnWithout, Handles, Effect

LEMMA WorkedOnStay ==
  ASSUME GatewayTypes, SourcesStay, MapMoves, NEW d \in Askers, Works(d)
  PROVE  /\ calls[d].id \in DOMAIN table /\ calls[d].id \in DOMAIN table'
         /\ table'[calls[d].id].next >= table[calls[d].id].next
<1>1. calls[d].id \in DOMAIN table
  BY DEF SourcesStay
<1>2. table[calls[d].id].next \in Nat
  BY <1>1 DEF GatewayTypes, SessionOK
<1>3. \A s : SessionGoes(s) => s # calls[d].id
  BY DEF SessionGoes, Free, Holds, Works
<1>4. /\ calls[d].id \in DOMAIN table'
      /\ \/ table'[calls[d].id] = table[calls[d].id]
         \/ table'[calls[d].id].next >= table[calls[d].id].next
  <2>1. CASE MapStays \/ SessionComes
    BY <1>1, <2>1 DEF MapStays, SessionComes
  <2>2. ASSUME NEW s \in DOMAIN table, SessionChanges(s) PROVE <1>4!:
    BY <1>1, <2>2 DEF SessionChanges
  <2>3. ASSUME NEW s \in DOMAIN table, SessionGoes(s) PROVE <1>4!:
    BY <1>1, <1>3, <2>3 DEF SessionGoes
  <2> QED
    BY <2>1, <2>2, <2>3 DEF MapMoves
<1> QED
  BY <1>1, <1>2, <1>4

LEMMA GatewayTypesStep ==
  ASSUME GatewayTypes, GoesOnWithout \/ \E c \in Askers : Handles(c)
  PROVE  GatewayTypes'
<1>1. DOMAIN calls' = Askers /\ DOMAIN reply' = Askers /\ \A c \in Askers : CallOK(calls'[c])
  BY DEF GoesOnWithout, Handles, OthersWait, GatewayTypes
<1>2. idsMade' \in Nat /\ DOMAIN table' \subseteq 1..idsMade' /\ \A s \in DOMAIN table' : SessionOK(table'[s])
  <2>1. CASE MapStays
    BY <2>1 DEF MapStays, GatewayTypes
  <2>2. CASE SessionComes
    <3>1. 1..idsMade \subseteq 1..idsMade' /\ idsMade + 1 \in 1..idsMade' /\ idsMade' \in Nat
      BY <2>2 DEF SessionComes, GatewayTypes
    <3> QED
      BY <2>2, <3>1 DEF SessionComes, GatewayTypes
  <2>3. ASSUME NEW s \in DOMAIN table, SessionChanges(s) \/ SessionGoes(s) PROVE <1>2!:
    BY <2>3 DEF SessionChanges, SessionGoes, GatewayTypes
  <2> QED
    BY <2>1, <2>2, <2>3, HandlesMoveMap DEF MapMoves
<1>3. TallyOK /\ tally'.created \in Nat /\ tally'.failed \in Nat
  <2>1. TallyOK
    BY StaysOK DEF GoesOnWithout, Handles
  <2>2. tally'.created \in {tally.created, tally.created + 1} /\ tally'.failed \in {tally.failed, tally.failed + 1}
    BY StaysOK DEF GoesOnWithout, Handles, Effect, BooksStay, OneGone
  <2> QED
    BY <2>1, <2>2 DEF GatewayTypes
<1> QED
  BY <1>1, <1>2, <1>3 DEF GatewayTypes, CallOK, SessionOK, TallyOK, Contents

LEMMA SourcesStep ==
  ASSUME GatewayTypes, SourcesStay, GoesOnWithout \/ \E c \in Askers : Handles(c)
  PROVE  SourcesStay'
<1>1. MapMoves
  BY HandlesMoveMap
<1>2. CASE GoesOnWithout
  BY <1>1, <1>2, WorkedOnStay DEF GoesOnWithout, SourcesStay, Works
<1>3. ASSUME NEW c \in Askers, Handles(c) PROVE SourcesStay'
  <2>1. \A d \in Askers \ {c} : calls'[d] = calls[d]
    BY <1>3 DEF Handles, OthersWait
  <2> QED
    BY <1>1, <1>3, <2>1, WorkedOnStay DEF Handles, SourcesStay, Works
<1> QED
  BY <1>2, <1>3

LEMMA NumbersStep ==
  ASSUME GatewayTypes, SourcesStay, OwnNumbers, GoesOnWithout \/ \E c \in Askers : Handles(c)
  PROVE  OwnNumbers'
<1>1. MapMoves
  BY HandlesMoveMap
<1>2. \A d \in Askers : Prompts(d) => Works(d) /\ calls[d].id \in DOMAIN table /\ table[calls[d].id].next \in Nat
  BY DEF GatewayTypes, CallOK, Prompts, Works, SourcesStay, SessionOK
<1>3. \A s \in DOMAIN table' : table'[s].next \in Nat
  BY GatewayTypesStep DEF GatewayTypes, SessionOK
<1>4. ASSUME NEW d \in Askers, Prompts(d)
      PROVE  /\ calls[d].index \in Nat /\ calls[d].index < table[calls[d].id].next
             /\ calls[d].index < table'[calls[d].id].next
  <2>1. /\ table[calls[d].id].next \in Nat /\ table'[calls[d].id].next \in Nat
        /\ table'[calls[d].id].next >= table[calls[d].id].next
    BY <1>1, <1>2, <1>3, <1>4, WorkedOnStay
  <2> QED
    BY <1>4, <2>1 DEF OwnNumbers
<1>5. CASE GoesOnWithout
  BY <1>4, <1>5 DEF GoesOnWithout, OwnNumbers, Prompts
<1>6. ASSUME NEW c \in Askers, Handles(c) PROVE OwnNumbers'
  <2>1. \A d \in Askers \ {c} : calls'[d] = calls[d]
    BY <1>6 DEF Handles, OthersWait
  <2>2. Prompts(c)' => NumberIsOwn(c)
    BY <1>6 DEF Handles
  <2>3. ASSUME Prompts(c)' PROVE calls'[c].index \in Nat /\ calls'[c].index < table'[calls'[c].id].next
    <3>1. CASE Prompts(c) /\ calls'[c].id = calls[c].id /\ calls'[c].index = calls[c].index
      BY <3>1, <1>4
    <3>2. CASE LET s == calls[c].id IN
               /\ s \in DOMAIN table /\ calls'[c].id = s /\ calls'[c].index = table[s].next
               /\ table'[s].next = table[s].next + 1
      <4>1. table[calls[c].id].next \in Nat
        BY <3>2 DEF GatewayTypes, SessionOK
      <4> QED
        BY <3>2, <4>1
    <3> QED
      BY <2>2, <2>3, <3>1, <3>2 DEF NumberIsOwn
  <2>4. ASSUME NEW d \in Askers, d # c, calls'[c].id = calls'[d].id, Prompts(c)', Prompts(d)'
        PROVE  calls'[c].index # calls'[d].index
    <3>1. calls'[d] = calls[d] /\ Prompts(d)
      BY <2>1, <2>4 DEF Prompts
    <3>2. CASE Prompts(c) /\ calls'[c].id = calls[c].id /\ calls'[c].index = calls[c].index
      BY <2>4, <3>1, <3>2 DEF OwnNumbers
    <3>3. CASE LET s == calls[c].id IN
               /\ s \in DOMAIN table /\ calls'[c].id = s /\ calls'[c].index = table[s].next
               /\ table'[s].next = table[s].next + 1
      <4>1. calls[d].index \in Nat /\ calls[d].index < table[calls[c].id].next /\ table[calls[c].id].next \in Nat
        BY <1>2, <1>4, <2>4, <3>1, <3>3
      <4> QED
        BY <3>1, <3>3, <4>1
    <3> QED
      BY <2>2, <2>4, <3>2, <3>3 DEF NumberIsOwn
  <2>5. \A d \in Askers : Prompts(d)' => calls'[d].index \in Nat /\ calls'[d].index < table'[calls'[d].id].next
    BY <1>4, <2>1, <2>3 DEF Prompts
  <2>6. \A d, e \in Askers : d # e /\ calls'[d].id = calls'[e].id /\ Prompts(d)' /\ Prompts(e)'
            => calls'[d].index # calls'[e].index
    <3> SUFFICES ASSUME NEW d \in Askers, NEW e \in Askers, d # e, calls'[d].id = calls'[e].id, Prompts(d)', Prompts(e)'
                 PROVE  calls'[d].index # calls'[e].index
      OBVIOUS
    <3>1. CASE d = c \/ e = c
      BY <2>4, <3>1
    <3>2. CASE d # c /\ e # c
      BY <2>1, <3>2 DEF OwnNumbers, Prompts
    <3> QED
      BY <3>1, <3>2
  <2> QED
    BY <2>5, <2>6 DEF OwnNumbers
<1> QED
  BY <1>5, <1>6

LEMMA FiniteBooks ==
  ASSUME GatewayTypes
  PROVE  /\ IsFiniteSet(DOMAIN table) /\ Cardinality(DOMAIN table) \in Nat
         /\ IsFiniteSet(Builders) /\ Cardinality(Builders) \in Nat
<1>1. IsFiniteSet(1..idsMade)
  <2>1. 1 \in Int /\ idsMade \in Int
    BY DEF GatewayTypes
  <2> QED
    BY <2>1, FS_Interval
<1>2. DOMAIN table \subseteq 1..idsMade /\ Builders \subseteq Askers /\ IsFiniteSet(Askers)
  BY GatewayAssumption DEF GatewayTypes, Builders
<1> QED
  BY <1>1, <1>2, FS_Subset, FS_CardinalityType

LEMMA OneMoreOrLess ==
  ASSUME NEW S, NEW x, IsFiniteSet(S)
  PROVE  /\ Cardinality(S) \in Nat
         /\ x \notin S => Cardinality(S \cup {x}) = Cardinality(S) + 1
         /\ x \in S => Cardinality(S \ {x}) = Cardinality(S) - 1
  BY FS_AddElement, FS_RemoveElement, FS_CardinalityType

LEMMA BooksStep ==
  ASSUME GatewayTypes, BooksAre, GoesOnWithout \/ \E c \in Askers : Handles(c)
  PROVE  BooksAre'
<1> DEFINE t == Cardinality(DOMAIN table)
           b == Cardinality(Builders)
<1>0. /\ IsFiniteSet(DOMAIN table) /\ t \in Nat /\ IsFiniteSet(Builders) /\ b \in Nat
      /\ slots = t + b /\ t + b <= MaxSessions /\ tally.created = t + tally.failed
      /\ tally.failed \in Nat /\ MaxSessions \in Nat
  BY FiniteBooks, GatewayAssumption DEF BooksAre, GatewayTypes
\* The books, told as numbers.
<1>1. ASSUME NEW s \in DOMAIN table, SessionGoes(s) PROVE Cardinality(DOMAIN table') = t - 1
  BY <1>0, <1>1, OneMoreOrLess DEF SessionGoes
<1>2. ASSUME SessionComes PROVE Cardinality(DOMAIN table') = t + 1
  <2>1. idsMade + 1 \notin DOMAIN table
    BY DEF GatewayTypes
  <2> QED
    BY <1>0, <1>2, <2>1, OneMoreOrLess DEF SessionComes
<1>3. CASE GoesOnWithout
  <2>1. Builders' = Builders
    BY <1>3 DEF GoesOnWithout, Builders
  <2>2. CASE MapStays /\ slots' = slots /\ tally' = tally
    BY <2>1, <2>2, <1>0 DEF BooksAre, MapStays
  <2>3. CASE (\E s \in DOMAIN table : SessionGoes(s)) /\ OneGone
    <3>1. Cardinality(DOMAIN table') = t - 1 /\ slots' = slots - 1 /\ tally'.created = tally.created /\ tally'.failed = tally.failed + 1
      BY <2>3, <1>1 DEF OneGone
    <3> QED
      BY <2>1, <3>1, <1>0 DEF BooksAre
  <2> QED
    BY <1>3, <2>2, <2>3 DEF GoesOnWithout
<1>4. ASSUME NEW c \in Askers, Handles(c) PROVE BooksAre'
  <2>0. Effect(c) /\ \A d \in Askers \ {c} : calls'[d] = calls[d]
    BY <1>4 DEF Handles, OthersWait
  <2>1. SameBuild(c) => Builders' = Builders
    BY <2>0 DEF SameBuild, Builders
  <2>2. calls[c].stage # "build" /\ calls'[c].stage = "build" => Cardinality(Builders') = b + 1
    <3>1. SUFFICES ASSUME calls[c].stage # "build", calls'[c].stage = "build" PROVE Cardinality(Builders') = b + 1
      OBVIOUS
    <3>2. Builders' = Builders \cup {c} /\ c \notin Builders
      BY <2>0, <3>1 DEF Builders
    <3> QED
      BY <3>2, <1>0, OneMoreOrLess
  <2>3. calls[c].stage = "build" /\ calls'[c].stage # "build" => Cardinality(Builders') = b - 1
    <3>1. SUFFICES ASSUME calls[c].stage = "build", calls'[c].stage # "build" PROVE Cardinality(Builders') = b - 1
      OBVIOUS
    <3>2. Builders' = Builders \ {c} /\ c \in Builders
      BY <2>0, <3>1 DEF Builders
    <3> QED
      BY <3>2, <1>0, OneMoreOrLess
  <2>4. CASE (MapStays \/ \E s \in DOMAIN table : SessionChanges(s)) /\ BooksStay /\ SameBuild(c)
    <3>1. DOMAIN table' = DOMAIN table
      BY <2>4 DEF MapStays, SessionChanges
    <3> QED
      BY <2>1, <2>4, <3>1, <1>0 DEF BooksAre, BooksStay
  <2>5. CASE /\ MapStays /\ calls[c].stage # "build" /\ calls'[c].stage = "build"
             /\ slots < MaxSessions /\ slots' = slots + 1 /\ tally' = tally
    BY <2>2, <2>5, <1>0 DEF BooksAre, MapStays
  <2>6. CASE /\ MapStays /\ calls[c].stage = "build" /\ calls'[c].stage # "build"
             /\ slots' = slots - 1 /\ tally' = tally
    BY <2>3, <2>6, <1>0 DEF BooksAre, MapStays
  <2>7. CASE /\ SessionComes /\ calls[c].stage = "build" /\ calls'[c].stage # "build"
             /\ slots' = slots /\ tally'.created = tally.created + 1 /\ tally'.failed = tally.failed
    BY <2>3, <2>7, <1>0, <1>2 DEF BooksAre
  <2>8. CASE (\E s \in DOMAIN table : SessionGoes(s)) /\ OneGone /\ SameBuild(c)
    <3>1. Cardinality(DOMAIN table') = t - 1
      BY <2>8, <1>1
    <3> QED
      BY <2>1, <2>8, <3>1, <1>0 DEF BooksAre, OneGone
  <2> QED
    BY <2>0, <2>4, <2>5, <2>6, <2>7, <2>8 DEF Effect
<1> QED
  BY <1>3, <1>4

LEMMA GatewayStart == GatewayInit => GatewayIInv
<1> SUFFICES ASSUME GatewayInit PROVE GatewayIInv
  OBVIOUS
<1>1. DOMAIN table = {} /\ Builders = {} /\ \A c \in Askers : calls[c] = NoCall
  BY NoCallIs DEF GatewayInit, Builders
<1>2. Cardinality(DOMAIN table) = 0 /\ Cardinality(Builders) = 0
  BY <1>1, FS_EmptySet
<1>3. GatewayTypes
  BY <1>1, NoCallIs DEF GatewayInit, GatewayTypes
<1>4. SourcesStay /\ OwnNumbers
  BY <1>1, NoCallIs DEF SourcesStay, OwnNumbers, Works, Prompts
<1>5. BooksAre
  BY <1>2, GatewayAssumption DEF GatewayInit, BooksAre
<1> QED
  BY <1>3, <1>4, <1>5 DEF GatewayIInv

\* What a step tells its client is so, and the rest of the property is the invariant's.
LEMMA GatewayStep ==
  ASSUME GatewayIInv, [GatewayNext]_gatewayVars
  PROVE  GatewayIInv' /\ AnswerIsSo /\ BooksBalance
<1>0. GoesOnWithout \/ \E c \in Askers : Handles(c)
  BY GatewayMoves DEF GatewayIInv
<1>1. GatewayIInv'
  BY <1>0, GatewayTypesStep, SourcesStep, NumbersStep, BooksStep DEF GatewayIInv
<1>2. BooksBalance
  BY <1>1 DEF GatewayIInv, BooksAre, BooksBalance, Builders
<1>3. \A c \in Askers : GetsAnswer(c) => AnswerHolds(c)
  <2>1. ASSUME NEW c \in Askers, Handles(c), NEW d \in Askers, GetsAnswer(d) PROVE AnswerHolds(d)
    BY <2>1 DEF Handles, OthersWait, GetsAnswer
  <2> QED
    BY <1>0, <2>1 DEF GoesOnWithout, GetsAnswer
<1>4. \A s \in DOMAIN table \cap DOMAIN table' : IsPrefix(table[s].turns, table'[s].turns) \/
          \E c \in Askers : GetsAnswer(c) /\ calls[c].route = "reset" /\ calls[c].id = s
  <2>1. CASE GoesOnWithout
    <3>1. \A s \in DOMAIN table \cap DOMAIN table' : table'[s] = table[s] /\ table[s].turns \in Seq(Contents)
      BY <2>1 DEF GoesOnWithout, MapStays, SessionGoes, GatewayIInv, GatewayTypes, SessionOK
    <3> QED
      BY <3>1, Extended
  <2>2. ASSUME NEW c \in Askers, Handles(c) PROVE <1>4!:
    BY <2>2 DEF Handles, TurnsStay
  <2> QED
    BY <1>0, <2>1, <2>2
<1>5. OwnNumbers'
  BY <1>1 DEF GatewayIInv
<1>6. AnswerIsSo
  BY <1>3, <1>4, <1>5 DEF AnswerIsSo, AnswerHolds, OwnNumbers, Prompts
<1> QED
  BY <1>1, <1>2, <1>6

\* What the gateway answers is so when it is answered, with any number of clients at work on
\* the same sessions and with the server shutting down: 201 for a new session, a failed batch
\* leaves nothing, a session is deleted once, prompts have numbers of their own; and slots,
\* sessions and counters agree (routes/sessions.rs, routes/messages.rs, manager.rs).
THEOREM GatewayIsKept == GatewaySpec => GatewayKept
<1>1. GatewayIInv /\ [GatewayNext]_gatewayVars => GatewayIInv' /\ [AnswerIsSo /\ BooksBalance]_gatewayVars
  BY GatewayStep
<1> QED
  BY <1>1, GatewayStart, PTL DEF GatewaySpec, GatewayKept
=============================================================================
