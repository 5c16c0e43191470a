---------------------------- MODULE Agent_proofs ----------------------------
(***************************************************************************)
(* An agent from the inside.  The loop: what a run returns is what it      *)
(* added, and a cancelled run starts no work, for any number of responses, *)
(* calls, messages and retries.  The session: its state follows its runs,  *)
(* for any tokens and background loops.                                    *)
(***************************************************************************)
EXTENDS AgentLoop, SessionActor, FoldLemmas, FiniteSetTheorems, SequenceTheorems, TLAPS

CallId == Nat \X Nat

-----------------------------------------------------------------------------
(* The messages the loop makes.                                            *)

\* A user message is one.
LEMMA UserMessage ==
  ASSUME NEW n \in Nat
  PROVE  User(n) \in Message
  BY DEF User, Message

\* A response is a message that carries its calls.
LEMMA AssistantMessage ==
  ASSUME NEW n \in Nat, NEW k \in Nat
  PROVE  /\ CallIds(n, k) \in Seq(CallId) /\ Len(CallIds(n, k)) = k
         /\ Assistant(n, CallIds(n, k)) \in Message
         /\ Assistant(n, CallIds(n, k)).calls = CallIds(n, k)
         /\ Assistant(n, <<>>) \in Message
<1>2. CallIds(n, k) \in Seq(CallId) /\ Len(CallIds(n, k)) = k
  BY DEF CallIds, CallId
<1>3. ASSUME NEW c \in Seq(CallId)
      PROVE  Assistant(n, c) \in Message /\ Assistant(n, c).calls = c
  BY DEF Assistant, Message, CallId
<1>4. Assistant(n, <<>>) \in Message
  BY <1>3, EmptySeq
<1>5. Assistant(n, CallIds(n, k)) \in Message
      /\ Assistant(n, CallIds(n, k)).calls = CallIds(n, k)
  BY <1>2, <1>3
<1> QED
  BY <1>2, <1>4, <1>5

\* Extending both sequences keeps their types and what they have in common.
LEMMA ExtendKeeps ==
  ASSUME NEW S, NEW i \in Seq(S), NEW n \in Seq(S), NEW ms \in Seq(S)
  PROVE  /\ (i \o n) \o ms \in Seq(S)
         /\ n \o ms \in Seq(S)
         /\ (i \o n) \o ms = i \o (n \o ms)
  BY ConcatProperties, ConcatAssociative

-----------------------------------------------------------------------------
(* Types, and what execute_tools works on.                                 *)

\* The calls that are executed are those of the newest message.
ToolsAreNewest ==
    pc = "tools" =>
        /\ messages # <<>>
        /\ messages[Len(messages)].calls \in Seq(CallId)
        /\ Len(messages[Len(messages)].calls) = Len(tools)

\* Between runs nothing is left of the last one.
Balanced ==
    /\ messages = initial \o newMessages
    /\ pc = "idle" => newMessages = <<>>

IInv == TypeOK /\ ToolsAreNewest /\ Balanced

\* The first n positions of a sequence are n positions.
LEMMA PositionsFinite ==
  ASSUME NEW n \in Nat
  PROVE  IsFiniteSet(1..n) /\ Cardinality(1..n) = n
  BY FS_Interval

\* There is a result for no more calls than there are.
LEMMA ExecutedBound ==
  ASSUME TypeOK
  PROVE  Executed \in 0..Len(tools)
<1>1. Len(tools) \in Nat /\ DOMAIN tools = 1..Len(tools)
  BY LenProperties DEF TypeOK
<1>2. IsFiniteSet(1..Len(tools)) /\ Cardinality(1..Len(tools)) = Len(tools)
  BY <1>1, PositionsFinite
<1>3. DEFINE done == {i \in DOMAIN tools : tools[i] # "waiting"}
<1>4. done \in SUBSET (1..Len(tools))
  BY <1>1
<1>5. IsFiniteSet(done) /\ Cardinality(done) <= Len(tools)
  BY <1>2, <1>4, FS_Subset
<1> QED
  BY <1>1, <1>5, FS_CardinalityType DEF Executed

\* The results execute_tools returns are messages.
LEMMA ResultMessages ==
  ASSUME TypeOK, NEW calls \in Seq(CallId), Len(calls) = Len(tools)
  PROVE  [k \in 1..Executed |-> Result(calls[k])] \in Seq(Message)
<1>1. Executed \in 0..Len(calls) /\ Len(calls) \in Nat
  BY ExecutedBound, LenProperties
<1>2. \A k \in 1..Executed : calls[k] \in CallId
  BY <1>1, ElementOfSeq
<1>3. \A k \in 1..Executed : Result(calls[k]) \in Message
  BY <1>2 DEF Result, Message, CallId
<1>4. [k \in 1..Executed |-> Result(calls[k])] \in [1..Executed -> Message]
  BY <1>3
<1> QED
  BY <1>1, <1>4, SeqDef

\* Every step keeps the invariant.
LEMMA IInvStep == IInv /\ [Next]_vars => IInv'
<1> SUFFICES ASSUME IInv, [Next]_vars PROVE IInv'
  OBVIOUS
<1> USE DEF IInv
<1>b. {MaxResponses, MaxCalls, MaxUsers, MaxRetries} \subseteq Nat
  BY LoopAssumption
<1>e. ASSUME NEW ms \in Seq(Message), Extend(ms)
      PROVE  /\ initial' \in Seq(Message) /\ messages' \in Seq(Message)
             /\ newMessages' \in Seq(Message)
             /\ messages' = initial' \o newMessages'
  <2>1. initial \in Seq(Message) /\ newMessages \in Seq(Message) /\ messages = initial \o newMessages
    BY DEF TypeOK, Balanced
  <2>2. /\ initial' = initial /\ newMessages' = newMessages \o ms
        /\ messages' = (initial \o newMessages) \o ms
    BY <1>e, <2>1 DEF Extend
  <2>3. /\ (initial \o newMessages) \o ms \in Seq(Message)
        /\ newMessages \o ms \in Seq(Message)
        /\ (initial \o newMessages) \o ms = initial \o (newMessages \o ms)
    BY <1>e, <2>1, ExtendKeeps
  <2> QED
    BY <2>1, <2>2, <2>3
<1>1. CASE Run
  <2>1. User(users') \in Message /\ users' \in 0..MaxUsers
    BY SMTT(30), <1>1, <1>b, UserMessage DEF Run, TypeOK
  <2>2. transcript' \in Seq(Message)
    BY <1>1, <2>1, AppendProperties DEF Run, TypeOK
  <2>3. PICK k \in DOMAIN transcript' : initial' = SubSeq(transcript', k, Len(transcript'))
    BY <1>1 DEF Run
  <2>4. Len(transcript') \in Nat /\ DOMAIN transcript' = 1..Len(transcript')
    BY <2>2, LenProperties
  <2>5. \A i \in k..Len(transcript') : transcript'[i] \in Message
    BY <2>2, <2>3, <2>4, ElementOfSeq
  <2>6. initial' \in Seq(Message)
    BY <2>3, <2>4, <2>5, SubSeqProperties
  <2>7. newMessages' = <<>> /\ messages' = initial'
    BY <1>1 DEF Run, Balanced
  <2>8. messages' = initial' \o newMessages'
    BY <2>6, <2>7, ConcatEmptySeq
  <2>9. TypeOK'
    BY <1>1, <2>1, <2>2, <2>6, <2>7 DEF Run, TypeOK, queues, turn
  <2> QED
    BY <1>1, <2>7, <2>8, <2>9 DEF Run, ToolsAreNewest, Balanced
<1>2. CASE DrainSteer
  <2>1. Extend(steerQueue) /\ steerQueue \in Seq(Message)
    BY <1>2 DEF DrainSteer, TypeOK
  <2>2. /\ initial' \in Seq(Message) /\ messages' \in Seq(Message)
        /\ newMessages' \in Seq(Message) /\ messages' = initial' \o newMessages'
    BY <2>1, <1>e
  <2>3. steerQueue' \in Seq(Message)
    BY <1>2, EmptySeq DEF DrainSteer
  <2> QED
    BY <1>2, <2>2, <2>3
       DEF DrainSteer, Continue, TypeOK, ToolsAreNewest, Balanced, turn, counters
<1>3. CASE BeginTurn
  BY <1>3 DEF BeginTurn, EndWith, Continue, TypeOK, ToolsAreNewest, Balanced, context, queues,
              turn, counters
<1>4. CASE CallProvider
  BY <1>4 DEF CallProvider, EndWith, Continue, TypeOK, ToolsAreNewest, Balanced, context, queues,
              turn, counters
<1>5. CASE AttemptFails
  <2>1. attempt' \in 0..MaxRetries
    BY SMTT(30), <1>5, <1>b DEF AttemptFails, TypeOK
  <2> QED
    BY <1>5, <2>1 DEF AttemptFails, EndWith, Continue, TypeOK, ToolsAreNewest, Balanced, context,
                      queues, counters
<1>6. CASE StreamCancelled
  BY <1>6 DEF StreamCancelled, EndWith, TypeOK, ToolsAreNewest, Balanced, context, queues,
              turn, counters
<1>7. CASE Respond
  <2>1. responses' \in 0..MaxResponses
    <3>1. responses \in 0..MaxResponses /\ responses < MaxResponses /\ responses' = responses + 1 /\ MaxResponses \in Nat
      BY <1>7, <1>b DEF Respond, TypeOK
    <3> QED
      BY ONLY <3>1
  <2>2. CASE Extend(<<Assistant(responses', <<>>)>>) /\ Continue("stopped")
             /\ UNCHANGED <<tools, mode, stop>>
    <3>1. <<Assistant(responses', <<>>)>> \in Seq(Message)
      <4>1. Assistant(responses', <<>>) \in Message
        BY <2>1, AssistantMessage, 0 \in Nat
      <4> QED
        BY <4>1
    <3>2. /\ initial' \in Seq(Message) /\ messages' \in Seq(Message)
          /\ newMessages' \in Seq(Message) /\ messages' = initial' \o newMessages'
      BY <2>2, <3>1, <1>e
    <3>3. attempt' \in 0..MaxRetries
      BY <1>7, <1>b DEF Respond
    <3> QED
      BY <1>7, <2>1, <2>2, <3>2, <3>3
         DEF Respond, Continue, TypeOK, ToolsAreNewest, Balanced, queues
  <2>3. ASSUME NEW k \in 1..MaxCalls,
               Extend(<<Assistant(responses', CallIds(responses', k))>>),
               tools' = [i \in 1..k |-> "waiting"],
               mode' \in {"parallel", "sequential"}, stop' \in {"stop", "tool_use"},
               Continue("tools")
        PROVE  IInv'
    <3>1. DEFINE a == Assistant(responses', CallIds(responses', k))
    <3>2. /\ a \in Message /\ a.calls \in Seq(CallId) /\ Len(a.calls) = k
      <4>1. responses' \in Nat /\ k \in Nat
        BY <2>1, <1>b
      <4>2. /\ CallIds(responses', k) \in Seq(CallId) /\ Len(CallIds(responses', k)) = k
            /\ a \in Message /\ a.calls = CallIds(responses', k)
        BY ONLY <4>1, AssistantMessage
      <4> QED
        BY <4>2
    <3>3. <<a>> \in Seq(Message) /\ Len(<<a>>) = 1 /\ <<a>>[1] = a
      BY <3>2
    <3>4. messages' = messages \o <<a>> /\ messages \in Seq(Message)
      BY <2>3 DEF Extend, TypeOK
    <3>5. messages' # <<>> /\ messages'[Len(messages')] = a
      BY <3>3, <3>4, LenProperties, ConcatProperties
    <3>6. /\ tools' \in [1..k -> {"waiting", "running", "done", "terminates", "cancelled"}]
          /\ tools' \in Seq({"waiting", "running", "done", "terminates", "cancelled"})
          /\ Len(tools') = k
      <4>1. tools' \in [1..k -> {"waiting", "running", "done", "terminates", "cancelled"}]
        BY <2>3
      <4> QED
        BY <4>1, SeqDef, LenProperties
    <3>7. ToolsAreNewest'
      BY <3>2, <3>5, <3>6 DEF ToolsAreNewest
    <3>8. /\ initial' \in Seq(Message) /\ messages' \in Seq(Message)
          /\ newMessages' \in Seq(Message) /\ messages' = initial' \o newMessages'
      BY <2>3, <3>3, <1>e
    <3>9. attempt' \in 0..MaxRetries
      BY <1>7, <1>b DEF Respond
    <3> QED
      BY <1>7, <2>1, <2>3, <3>6, <3>7, <3>8, <3>9
         DEF Respond, Continue, TypeOK, Balanced, queues
  <2> QED
    BY <1>7, <2>2, <2>3 DEF Respond
<1>8. CASE RespondInvalid
  <2>1. responses' \in 0..MaxResponses
    <3>1. responses \in 0..MaxResponses /\ responses < MaxResponses /\ responses' = responses + 1 /\ MaxResponses \in Nat
      BY <1>8, <1>b DEF RespondInvalid, TypeOK
    <3> QED
      BY ONLY <3>1
  <2>2. PICK k \in 0..MaxCalls : Extend(<<Assistant(responses', CallIds(responses', k))>>)
    BY <1>8 DEF RespondInvalid
  <2>3. <<Assistant(responses', CallIds(responses', k))>> \in Seq(Message)
    BY <2>1, AssistantMessage
  <2> QED
    BY <1>8, <2>1, <2>2, <2>3, <1>e
       DEF RespondInvalid, EndWith, TypeOK, ToolsAreNewest, Balanced, queues, turn
<1>9. ASSUME NEW i \in DOMAIN tools, NEW how \in {"running", "done", "terminates", "cancelled"},
             Set(i, how)
      PROVE  IInv'
  <2>1. /\ tools' \in Seq({"waiting", "running", "done", "terminates", "cancelled"})
        /\ Len(tools') = Len(tools)
    BY <1>9, ExceptSeq DEF Set, TypeOK
  <2> QED
    BY <1>9, <2>1 DEF Set, TypeOK, ToolsAreNewest, Balanced, context, queues, counters
<1>10. CASE ToolStep
  BY <1>9, <1>10 DEF ToolStep, StartTool, FinishTool, CancelTool
<1>11. CASE EndTools
  <2>1. DEFINE calls == messages[Len(messages)].calls
               results == [k \in 1..Executed |-> Result(calls[k])]
  <2>2. pc = "tools" /\ Extend(results) /\ ToolsForgotten
    BY <1>11 DEF EndTools
  <2>3. pc' \in {"stopped", "check"} /\ outcome' = outcome
    BY <1>11 DEF EndTools, Continue
  <2>4. results \in Seq(Message)
    BY <2>2, ResultMessages DEF ToolsAreNewest
  <2>5. tools' \in Seq({"waiting", "running", "done", "terminates", "cancelled"})
    BY <2>2 DEF ToolsForgotten
  <2> QED
    BY <1>11, <2>2, <2>3, <2>4, <2>5, <1>e
       DEF EndTools, ToolsForgotten, TypeOK, ToolsAreNewest, Balanced, queues, counters
<1>12. CASE DrainFollowUps
  <2>1. Extend(followUpQueue) /\ followUpQueue \in Seq(Message)
    BY <1>12 DEF DrainFollowUps, TypeOK
  <2>2. /\ initial' \in Seq(Message) /\ messages' \in Seq(Message)
        /\ newMessages' \in Seq(Message) /\ messages' = initial' \o newMessages'
    BY <2>1, <1>e
  <2>3. followUpQueue' \in Seq(Message)
    BY <1>12, EmptySeq DEF DrainFollowUps
  <2> QED
    BY <1>12, <2>2, <2>3
       DEF DrainFollowUps, EndWith, Continue, TypeOK, ToolsAreNewest, Balanced, turn, counters
<1>13. CASE TakeResult
  <2>1. transcript' \in Seq(Message)
    BY <1>13, ConcatProperties DEF TakeResult, TypeOK
  <2>2. <<>> \in Seq(Message) /\ <<>> = <<>> \o <<>>
    BY ConcatEmptySeq
  <2>3. attempt' \in 0..MaxRetries
    BY <1>13, <1>b DEF TakeResult
  <2>4. initial' \in Seq(Message) /\ messages' \in Seq(Message) /\ newMessages' \in Seq(Message)
    BY <1>13, <2>2 DEF TakeResult
  <2> QED
    BY <1>13, <2>1, <2>2, <2>3, <2>4 DEF TakeResult, TypeOK, ToolsAreNewest, Balanced, queues, counters
<1>14. CASE Queue
  <2>1. User(users') \in Message /\ users' \in 0..MaxUsers
    BY SMTT(30), <1>14, <1>b, UserMessage DEF Queue, TypeOK
  <2>2. steerQueue \in Seq(Message) /\ followUpQueue \in Seq(Message)
    BY DEF TypeOK
  <2>3. /\ Append(steerQueue, User(users')) \in Seq(Message)
        /\ Append(followUpQueue, User(users')) \in Seq(Message)
    BY <2>1, <2>2, AppendProperties
  <2>4. steerQueue' \in Seq(Message) /\ followUpQueue' \in Seq(Message)
    BY <1>14, <2>2, <2>3 DEF Queue
  <2> QED
    BY <1>14, <2>1, <2>4 DEF Queue, TypeOK, ToolsAreNewest, Balanced, context, turn
<1>15. CASE Cancel
  BY <1>15 DEF Cancel, TypeOK, ToolsAreNewest, Balanced, context, queues, turn, counters
<1>16. CASE UNCHANGED vars
  BY <1>16 DEF vars, TypeOK, ToolsAreNewest, Balanced, context, queues, turn, counters
<1> QED
  BY <1>1, <1>2, <1>3, <1>4, <1>5, <1>6, <1>7, <1>8, <1>10, <1>11, <1>12, <1>13, <1>14, <1>15,
     <1>16 DEF Next, LoopStep

\* The invariant holds of every behaviour.
LEMMA IInvInvariant == Spec => []IInv
<1>1. Init => IInv
  <2>1. /\ <<>> \in Seq(Message) /\ <<>> = <<>> \o <<>>
        /\ <<>> \in Seq({"waiting", "running", "done", "terminates", "cancelled"})
    BY EmptySeq, ConcatEmptySeq
  <2>2. 0 \in 0..MaxRetries /\ 0 \in 0..MaxResponses /\ 0 \in 0..MaxUsers
    BY LoopAssumption
  <2>3. Init => TypeOK
    BY <2>1, <2>2 DEF Init, TypeOK
  <2>4. Init => ToolsAreNewest /\ Balanced
    BY <2>1 DEF Init, ToolsAreNewest, Balanced
  <2> QED
    BY <2>3, <2>4 DEF IInv
<1> QED
  BY <1>1, IInvStep, PTL DEF Spec

-----------------------------------------------------------------------------
\* Every variable keeps its type: a run starts, fails, retries and executes
\* tools within the bounds run and run_turn set.
THEOREM TypeCorrect == Spec => []TypeOK
<1>1. IInv => TypeOK
  BY DEF IInv
<1> QED
  BY <1>1, IInvInvariant, PTL

\* new_messages, which AgentLoop::run returns, is what run_turn and the queues
\* added to its context, in whatever order they did.
THEOREM RunReturnsWhatItAdded == Spec => []ReturnsWhatItAdded
<1>1. IInv => ReturnsWhatItAdded
  BY DEF IInv, Balanced, ReturnsWhatItAdded
<1> QED
  BY <1>1, IInvInvariant, PTL

\* After the signal is cancelled call_llm_with_retry begins no attempt and the
\* sequential loop of execute_tools begins no call.
THEOREM CancelledStartsNothing == Spec => CancelStopsWork
<1> DEFINE Quiet == cancelled =>
              /\ ~(pc = "calling" /\ pc' = "streaming")
              /\ mode = "sequential" =>
                    \A i \in DOMAIN tools \cap DOMAIN tools' :
                        tools'[i] = "running" => tools[i] = "running"
<1>1. TypeOK /\ [Next]_vars => [Quiet]_vars
  <2> SUFFICES ASSUME TypeOK, Next, cancelled PROVE Quiet
    BY DEF vars
  <2>1. CASE Run
    BY <2>1 DEF Run, turn
  <2>2. CASE DrainSteer \/ BeginTurn
    BY <2>2 DEF DrainSteer, BeginTurn, Continue, EndWith, turn
  <2>3. CASE CallProvider \/ AttemptFails \/ StreamCancelled
    BY <2>3 DEF CallProvider, AttemptFails, StreamCancelled, Continue, EndWith, turn
  <2>4. CASE Respond
    BY <2>4 DEF Respond, Continue
  <2>5. CASE RespondInvalid
    BY <2>5 DEF RespondInvalid, EndWith, turn
  <2>6. CASE ToolStep
    <3>1. PICK i \in DOMAIN tools : StartTool(i) \/ FinishTool(i) \/ CancelTool(i)
      BY <2>6 DEF ToolStep
    <3> QED
      BY <3>1 DEF StartTool, FinishTool, CancelTool, Set, TypeOK
  <2>7. CASE EndTools
    BY <2>7 DEF EndTools, ToolsForgotten
  <2>8. CASE DrainFollowUps
    BY <2>8 DEF DrainFollowUps, Continue, EndWith, turn
  <2>9. CASE TakeResult \/ Queue \/ Cancel
    BY <2>9 DEF TakeResult, Queue, Cancel, turn
  <2> QED
    BY <2>1, <2>2, <2>3, <2>4, <2>5, <2>6, <2>7, <2>8, <2>9 DEF Next, LoopStep
<1> QED
  BY <1>1, TypeCorrect, PTL DEF Spec, CancelStopsWork

-----------------------------------------------------------------------------
(* What a request makes of the calls.                                       *)

\* A message has the parts of its role.
LEMMA MessageParts ==
  ASSUME NEW m \in Message
  PROVE  /\ m.role \in {"user", "assistant", "result"}
         /\ m.role = "assistant" => m.calls \in Seq(CallId) /\ m.id \in Nat
         /\ m.role = "result" => m.call \in CallId /\ m = Result(m.call)
         /\ CallsOf(m) \in Seq(CallId)
<1>1. CASE m \in [role : {"user"}, id : Nat]
  <2>1. m.role = "user"
    BY <1>1
  <2>2. CallsOf(m) = <<>>
    BY <2>1 DEF CallsOf
  <2> QED
    BY <2>1, <2>2
<1>2. CASE m \in [role : {"assistant"}, id : Nat, calls : Seq(Nat \X Nat)]
  <2>1. m.role = "assistant" /\ m.calls \in Seq(CallId) /\ m.id \in Nat
    BY <1>2 DEF CallId
  <2> QED
    BY <2>1 DEF CallsOf
<1>3. CASE m \in [role : {"result"}, call : Nat \X Nat]
  <2>1. m.role = "result" /\ m.call \in CallId /\ m = [role |-> "result", call |-> m.call]
    BY <1>3 DEF CallId
  <2>2. CallsOf(m) = <<>>
    BY <2>1 DEF CallsOf
  <2> QED
    BY <2>1, <2>2 DEF Result
<1> QED
  BY <1>1, <1>2, <1>3 DEF Message

\* A result has the parts of one, and so has the padding.
LEMMA ResultParts ==
  /\ \A c : Result(c).role = "result" /\ Result(c).call = c /\ CallsOf(Result(c)) = <<>> /\ Result(c) # Padding
  /\ \A c \in CallId : Result(c) \in Message
  /\ Padding \in Message /\ Padding.role = "assistant" /\ CallsOf(Padding) = <<>>
<1>1. \A c : Result(c).role = "result" /\ Result(c).call = c
  BY DEF Result
<1>2. \A c : CallsOf(Result(c)) = <<>>
  BY <1>1 DEF CallsOf
<1>3. Padding.role = "assistant" /\ Padding.calls = <<>>
  BY DEF Padding, Assistant
<1>4. CallsOf(Padding) = <<>>
  BY <1>3 DEF CallsOf
<1>5. Padding \in Message
  <2>1. <<>> \in Seq(Nat \X Nat) /\ 0 \in Nat
    OBVIOUS
  <2> QED
    BY <2>1 DEF Padding, Assistant, Message
<1>6. \A c \in CallId : Result(c) \in Message
  BY DEF Result, Message, CallId
<1>7. \A c : Result(c) # Padding
  BY <1>1, <1>3
<1> QED
  BY <1>1, <1>2, <1>3, <1>4, <1>5, <1>6, <1>7

\* No two elements are the same.
Differ(q) == \A i \in DOMAIN q, j \in DOMAIN q : q[i] = q[j] => i = j

\* q is the calls of m without an answer in ms, in some order.
IsOrphans(q, calls, answered, k) ==
  /\ q \in Seq(CallId) /\ Differ(q)
  /\ \A x \in DOMAIN q : q[x] \notin answered /\ \E i \in 1..k : q[x] = calls[i]
  /\ \A i \in 1..k : calls[i] \notin answered => \E x \in DOMAIN q : q[x] = calls[i]

OrphanStep(kept, c, answered) == IF c \in answered THEN kept ELSE <<c>> \o kept

OrphanWalks(ms, m) ==
  {w \in [0..Len(CallsOf(m)) -> Seq(CallId)] :
      /\ w[0] = <<>> /\ w[Len(CallsOf(m))] = Orphans(ms, m)
      /\ \A k \in 1..Len(CallsOf(m)) : w[k] = OrphanStep(w[k - 1], CallsOf(m)[k], Answered(ms))}

\* Where the elements are when one is put in front.
LEMMA Prefixed ==
  ASSUME NEW c \in CallId, NEW q \in Seq(CallId), NEW p, p = <<c>> \o q
  PROVE  /\ p \in Seq(CallId) /\ DOMAIN p = 1..(Len(q) + 1) /\ p[1] = c /\ DOMAIN q = 1..Len(q) /\ Len(q) \in Nat
         /\ \A i \in DOMAIN q : i + 1 \in DOMAIN p /\ p[i + 1] = q[i]
         /\ \A i \in DOMAIN p : i = 1 \/ (i - 1 \in DOMAIN q /\ p[i] = q[i - 1])
<1>1. PICK h : h = <<c>>
  OBVIOUS
<1>2. h \in Seq(CallId) /\ DOMAIN h = {1} /\ h[1] = c /\ Len(h) = 1
  BY <1>1, SingleSeq
<1>3. p = h \o q
  BY <1>1
<1>4. /\ p \in Seq(CallId) /\ Len(h) \in Nat /\ Len(q) \in Nat
      /\ DOMAIN h = 1..Len(h) /\ DOMAIN q = 1..Len(q) /\ DOMAIN p = 1..(Len(h) + Len(q))
      /\ \A i \in DOMAIN h : i \in DOMAIN p /\ p[i] = h[i]
      /\ \A i \in DOMAIN q : Len(h) + i \in DOMAIN p /\ p[Len(h) + i] = q[i]
      /\ \A i \in DOMAIN p : (i \in DOMAIN h /\ p[i] = h[i]) \/ (i > Len(h) /\ i - Len(h) \in DOMAIN q /\ p[i] = q[i - Len(h)])
  BY <1>2, <1>3, ConcatAt
<1>5. \A i \in DOMAIN q : 1 + i = i + 1
  BY <1>4
<1>6. 1 + Len(q) = Len(q) + 1
  BY <1>4
<1>7. DOMAIN p = 1..(Len(q) + 1) /\ p[1] = c
  BY <1>2, <1>4, <1>6
<1>8. \A i \in DOMAIN q : i + 1 \in DOMAIN p /\ p[i + 1] = q[i]
  BY <1>2, <1>4, <1>5
<1>9. \A i \in DOMAIN p : i = 1 \/ (i - 1 \in DOMAIN q /\ p[i] = q[i - 1])
  BY <1>2, <1>4
<1> QED
  BY <1>4, <1>7, <1>8, <1>9

\* The calls without a result are found one call after another.
LEMMA OrphanSteps ==
  ASSUME NEW ms, NEW m, CallsOf(m) \in Seq(CallId)
  PROVE  OrphanWalks(ms, m) # {}
<1> DEFINE calls == CallsOf(m)
           len == Len(calls)
           X == Seq(CallId)
           Keep(kept, c) == IF c \in Answered(ms) THEN kept ELSE <<c>> \o kept
           Folded(g) == [T \in SUBSET (1..len) |-> IF T = {} THEN <<>> ELSE Keep(g[T \ {Max(T)}], calls[Max(T)])]
           step == [p \in (1..len) \X X |-> Keep(p[2], calls[p[1]])]
<1>1. len \in Nat /\ DOMAIN calls = 1..len /\ \A k \in 1..len : calls[k] \in CallId /\ k - 1 \in 0..len
  BY LenProperties
<1>2. <<>> \in X
  OBVIOUS
<1>3. ASSUME NEW q \in X, NEW c \in CallId PROVE Keep(q, c) \in X
  <2>1. <<c>> \o q \in X
    BY Prefixed
  <2> QED
    BY <2>1
<1> HIDE DEF calls, len, X, Keep
<1>4. step \in [(1..len) \X X -> X]
  BY <1>1, <1>3
<1>s. ASSUME NEW k \in 1..len, NEW q \in X PROVE step[<<k, q>>] = Keep(q, calls[k])
  <2>1. <<k, q>> \in (1..len) \X X
    OBVIOUS
  <2> QED
    BY <2>1
<1> HIDE DEF step
<1>5. \E g : g = Folded(g)
  <2>1. PICK g \in FoldsOf(X, <<>>, len, step) : TRUE
    BY <1>1, <1>2, <1>4, FoldExists
  <2>2. g \in [SUBSET (1..len) -> X] /\ \A T \in SUBSET (1..len) :
            g[T] = IF T = {} THEN <<>> ELSE step[<<Max(T), g[T \ {Max(T)}]>>]
    BY <2>1 DEF FoldsOf
  <2>3. ASSUME NEW T \in SUBSET (1..len)
        PROVE  g[T] = IF T = {} THEN <<>> ELSE Keep(g[T \ {Max(T)}], calls[Max(T)])
    <3>1. CASE T = {}
      BY <2>2, <3>1
    <3>2. CASE T # {}
      <4>1. Max(T) \in 1..len /\ T \ {Max(T)} \in SUBSET (1..len)
        BY <3>2, <1>1, MaxOfSome
      <4>2. g[T \ {Max(T)}] \in X
        BY <4>1, <2>2
      <4>3. step[<<Max(T), g[T \ {Max(T)}]>>] = Keep(g[T \ {Max(T)}], calls[Max(T)])
        BY <4>1, <4>2, <1>s
      <4> QED
        BY <4>3, <3>2, <2>2
    <3> QED
      BY <3>1, <3>2
  <2> QED
    BY <2>2, <2>3
<1> DEFINE h == CHOOSE g : g = Folded(g)
<1>6. h = Folded(h)
  <2> HIDE DEF Folded
  <2> QED
    BY <1>5
<1>7. Orphans(ms, m) = h[1..len]
  BY <1>1 DEF Orphans, FoldLeft, MapThenFoldSet, Keep, calls
<1> HIDE DEF h
<1>8. h[{}] = <<>>
  BY <1>6
<1>9. ASSUME NEW T \in SUBSET (1..len), T # {}, h[T \ {Max(T)}] \in X
      PROVE  h[T] = step[<<Max(T), h[T \ {Max(T)}]>>]
  <2>1. h[T] = Keep(h[T \ {Max(T)}], calls[Max(T)])
    BY <1>6, <1>9
  <2>2. Max(T) \in 1..len
    BY <1>1, <1>9, MaxOfSome
  <2> QED
    BY <2>1, <2>2, <1>9, <1>s
<1>10. StepsOf(X, <<>>, len, step, h[1..len]) # {}
  <2>1. FoldsTo(X, <<>>, len, step, h)
    BY <1>8, <1>9 DEF FoldsTo
  <2> QED
    BY <1>1, <1>2, <1>4, <2>1, FoldSteps
<1>11. PICK w \in StepsOf(X, <<>>, len, step, h[1..len]) : TRUE
  BY <1>10
<1>12. w \in [0..len -> X] /\ w[0] = <<>> /\ w[len] = h[1..len] /\ \A k \in 1..len : w[k] = step[<<k, w[k - 1]>>]
  BY <1>11 DEF StepsOf
<1>13. ASSUME NEW k \in 1..len PROVE w[k] = Keep(w[k - 1], calls[k])
  <2>1. w[k - 1] \in X
    BY <1>1, <1>12
  <2> QED
    BY <2>1, <1>12, <1>s
<1> QED
  BY <1>7, <1>12, <1>13 DEF OrphanWalks, OrphanStep, X, len, Keep, calls

\* The orphans of a message whose calls differ are its calls without a result, each once.
LEMMA OrphansAre ==
  ASSUME NEW ms, NEW m, CallsOf(m) \in Seq(CallId), Differ(CallsOf(m))
  PROVE  IsOrphans(Orphans(ms, m), CallsOf(m), Answered(ms), Len(CallsOf(m)))
<1> DEFINE calls == CallsOf(m)
           len == Len(calls)
           answered == Answered(ms)
<1>1. len \in Nat /\ DOMAIN calls = 1..len /\ \A k \in 1..len : calls[k] \in CallId
  BY LenProperties
<1>2. PICK w \in OrphanWalks(ms, m) : TRUE
  BY OrphanSteps
<1>3. /\ w \in [0..len -> Seq(CallId)] /\ w[0] = <<>> /\ w[len] = Orphans(ms, m)
      /\ \A k \in 1..len : w[k] = OrphanStep(w[k - 1], calls[k], answered)
  BY <1>2 DEF OrphanWalks
<1>4. Differ(calls)
  OBVIOUS
<1> HIDE DEF calls, len, answered
<1> DEFINE T == {k \in Nat : k <= len => IsOrphans(w[k], calls, answered, k)}
<1>5. 0 \in T
  <2>1. DOMAIN <<>> = {} /\ 1..0 = {} /\ <<>> \in Seq(CallId)
    OBVIOUS
  <2>2. IsOrphans(<<>>, calls, answered, 0)
    BY <2>1 DEF IsOrphans, Differ
  <2> QED
    BY <1>3, <2>2
<1>6. ASSUME NEW k \in Nat, k \in T PROVE k + 1 \in T
  <2> DEFINE n == k + 1
             c == calls[n]
  <2>1. SUFFICES ASSUME n <= len PROVE IsOrphans(w[n], calls, answered, n)
    OBVIOUS
  <2>2. n \in 1..len /\ n - 1 = k /\ k <= len /\ n \in 1..n /\ \A i \in 1..n : i \in 1..k \/ i = n
    BY <1>1, <2>1
  <2>a. \A i \in 1..k : i \in 1..n /\ i # n /\ i \in 1..len
    BY <1>1, <2>1
  <2>3. IsOrphans(w[k], calls, answered, k)
    BY <1>6, <2>2
  <2> HIDE DEF n, T
  <2> DEFINE q == w[k]
             p == w[n]
  <2>4. q \in Seq(CallId) /\ c \in CallId
    BY <1>1, <2>2, <2>3 DEF IsOrphans
  <2>5. p = OrphanStep(q, c, answered)
    BY <1>3, <2>2
  <2> HIDE DEF q, p, c
  <2>6. IsOrphans(q, calls, answered, k)
    BY <2>3 DEF q
  <2>7. CASE c \in answered
    <3>1. p = q
      BY <2>5, <2>7 DEF OrphanStep
    <3>2. IsOrphans(q, calls, answered, n)
      BY <2>2, <2>a, <2>6, <2>7 DEF IsOrphans, c
    <3> QED
      BY <3>1, <3>2 DEF p
  <2>8. CASE c \notin answered
    <3>1. p = <<c>> \o q
      BY <2>5, <2>8 DEF OrphanStep
    <3>2. /\ p \in Seq(CallId) /\ DOMAIN p = 1..(Len(q) + 1) /\ p[1] = c /\ DOMAIN q = 1..Len(q) /\ Len(q) \in Nat
          /\ \A i \in DOMAIN q : i + 1 \in DOMAIN p /\ p[i + 1] = q[i]
          /\ \A i \in DOMAIN p : i = 1 \/ (i - 1 \in DOMAIN q /\ p[i] = q[i - 1])
      BY <2>4, <3>1, Prefixed
    <3>3. \A x \in DOMAIN q : q[x] # c
      <4>1. SUFFICES ASSUME NEW x \in DOMAIN q, q[x] = c PROVE FALSE
        OBVIOUS
      <4>2. PICK i \in 1..k : q[x] = calls[i]
        BY <2>6 DEF IsOrphans
      <4>3. i \in DOMAIN calls /\ n \in DOMAIN calls /\ calls[i] = calls[n] /\ i # n
        BY <1>1, <2>2, <2>a, <4>1, <4>2 DEF c
      <4> QED
        BY <1>4, <4>3 DEF Differ
    <3>4. Differ(p)
      <4>1. SUFFICES ASSUME NEW i \in DOMAIN p, NEW j \in DOMAIN p, p[i] = p[j] PROVE i = j
        BY DEF Differ
      <4>2. CASE i = 1 /\ j = 1
        BY <4>2
      <4>3. CASE i = 1 /\ j - 1 \in DOMAIN q /\ p[j] = q[j - 1]
        BY <3>2, <3>3, <4>1, <4>3
      <4>4. CASE j = 1 /\ i - 1 \in DOMAIN q /\ p[i] = q[i - 1]
        BY <3>2, <3>3, <4>1, <4>4
      <4>5. CASE i - 1 \in DOMAIN q /\ p[i] = q[i - 1] /\ j - 1 \in DOMAIN q /\ p[j] = q[j - 1]
        <5>1. i - 1 = j - 1
          BY <2>6, <4>1, <4>5 DEF IsOrphans, Differ
        <5> QED
          BY <3>2, <5>1
      <4> QED
        BY <3>2, <4>2, <4>3, <4>4, <4>5
    <3>5. ASSUME NEW x \in DOMAIN p PROVE p[x] \notin answered /\ \E i \in 1..n : p[x] = calls[i]
      <4>1. CASE x = 1
        BY <2>2, <2>8, <3>2, <4>1 DEF c
      <4>2. CASE x - 1 \in DOMAIN q /\ p[x] = q[x - 1]
        BY <2>a, <2>6, <4>2 DEF IsOrphans
      <4> QED
        BY <3>2, <4>1, <4>2
    <3>6. ASSUME NEW i \in 1..n, calls[i] \notin answered PROVE \E x \in DOMAIN p : p[x] = calls[i]
      <4>1. CASE i \in 1..k
        <5>1. PICK x \in DOMAIN q : q[x] = calls[i]
          BY <2>6, <3>6, <4>1 DEF IsOrphans
        <5> QED
          BY <3>2, <5>1
      <4>2. CASE i = n
        <5>1. 1 \in DOMAIN p
          BY <3>2
        <5> QED
          BY <3>2, <4>2, <5>1 DEF c
      <4> QED
        BY <2>2, <4>1, <4>2
    <3>7. IsOrphans(p, calls, answered, n)
      BY <3>2, <3>4, <3>5, <3>6 DEF IsOrphans
    <3> QED
      BY <3>7 DEF p
  <2> QED
    BY <2>7, <2>8
<1>7. len \in T
  <2> HIDE DEF T
  <2> QED
    BY <1>1, <1>5, <1>6, Induct
<1>8. len <= len
  BY <1>1
<1> QED
  BY <1>1, <1>3, <1>7, <1>8 DEF calls, len, answered

-----------------------------------------------------------------------------
(* A conversation in good order, and the request that is made of it.        *)

\* The calls of a response carry its number and theirs.
OwnCalls(ms, top) ==
  \A i \in DOMAIN ms : ms[i].role = "assistant" =>
      /\ ms[i].id \in 1..top
      /\ \A x \in DOMAIN ms[i].calls : ms[i].calls[x] = <<ms[i].id, x>>

OneOfAnId(ms) ==
  \A i, j \in DOMAIN ms : ms[i].role = "assistant" /\ ms[j].role = "assistant" /\ ms[i].id = ms[j].id => i = j

\* The results of a response's calls stand right behind it.
ResultsBehind(ms) ==
  \A i, j \in DOMAIN ms : ms[i].role = "assistant" /\ ms[j].role = "result" /\ ms[j].call \in ToSet(ms[i].calls) =>
      i < j /\ \A k \in (i + 1)..j : ms[k].role = "result"

OneResultEach(ms) ==
  \A i, j \in DOMAIN ms : ms[i].role = "result" /\ ms[j].role = "result" /\ ms[i].call = ms[j].call => i = j

ResultsOfOld(ms, top) == \A j \in DOMAIN ms : ms[j].role = "result" => ms[j].call[1] \in 1..top

WellTold(ms, top) == OwnCalls(ms, top) /\ OneOfAnId(ms) /\ ResultsBehind(ms) /\ OneResultEach(ms) /\ ResultsOfOld(ms, top)

\* Each call of r is answered once, behind its message, with only results in between.
AnswersInPlace(r) ==
  \A p \in DOMAIN r : \A c \in ToSet(CallsOf(r[p])) :
    \E j \in DOMAIN r : /\ p < j /\ r[j] = Result(c)
                        /\ \A k \in (p + 1)..j : r[k].role = "result"
                        /\ \A k \in DOMAIN r : r[k] = Result(c) => k = j

\* What is filled in behind one message.
Filled(ms, m) == <<m>> \o [k \in DOMAIN Orphans(ms, m) |-> Result(Orphans(ms, m)[k])]

\* A message, filled in, is itself and a result for each call without one.
LEMMA FilledIs ==
  ASSUME NEW ms, NEW m \in Message, Differ(CallsOf(m)), NEW o, o = Orphans(ms, m), NEW b, b = Filled(ms, m)
  PROVE  /\ o \in Seq(CallId) /\ Differ(o) /\ Len(o) \in Nat /\ DOMAIN o = 1..Len(o)
         /\ \A x \in 1..Len(o) : o[x] \notin Answered(ms) /\ o[x] \in ToSet(CallsOf(m))
         /\ \A c \in ToSet(CallsOf(m)) : c \notin Answered(ms) => \E x \in 1..Len(o) : o[x] = c
         /\ b \in Seq(Message) /\ Len(b) = Len(o) + 1 /\ b[1] = m /\ \A x \in 1..Len(o) : b[x + 1] = Result(o[x])
<1>1. CallsOf(m) \in Seq(CallId)
  BY MessageParts
<1>2. Len(CallsOf(m)) \in Nat /\ DOMAIN CallsOf(m) = 1..Len(CallsOf(m))
  BY <1>1, LenProperties
<1>3. IsOrphans(o, CallsOf(m), Answered(ms), Len(CallsOf(m)))
  BY <1>1, OrphansAre
<1>4. o \in Seq(CallId) /\ Differ(o) /\ Len(o) \in Nat /\ DOMAIN o = 1..Len(o)
  BY <1>3, LenProperties DEF IsOrphans
<1>5. ToSet(CallsOf(m)) = {CallsOf(m)[i] : i \in 1..Len(CallsOf(m))}
  BY <1>2 DEF ToSet
<1>6. \A x \in 1..Len(o) : o[x] \notin Answered(ms) /\ o[x] \in ToSet(CallsOf(m))
  BY <1>3, <1>4, <1>5 DEF IsOrphans
<1>7. \A c \in ToSet(CallsOf(m)) : c \notin Answered(ms) => \E x \in 1..Len(o) : o[x] = c
  BY <1>3, <1>4, <1>5 DEF IsOrphans
<1> DEFINE g == [k \in DOMAIN o |-> Result(o[k])]
<1>8. g \in Seq(Message) /\ Len(g) = Len(o) /\ \A x \in 1..Len(o) : g[x] = Result(o[x])
  <2>1. \A x \in 1..Len(o) : Result(o[x]) \in Message
    BY <1>4, ElementOfSeq, ResultParts
  <2>2. g = [k \in 1..Len(o) |-> Result(o[k])]
    BY <1>4
  <2>3. g \in [1..Len(o) -> Message]
    BY <2>1, <2>2
  <2> QED
    BY <1>4, <2>2, <2>3, SeqDef, LenProperties
<1>9. PICK h : h = <<m>>
  OBVIOUS
<1>10. h \in Seq(Message) /\ Len(h) = 1 /\ DOMAIN h = {1} /\ h[1] = m
  BY <1>9, SingleSeq
<1>11. b = h \o g
  BY <1>9 DEF Filled
<1> HIDE DEF g
<1>12. b \in Seq(Message) /\ Len(b) = Len(h) + Len(g) /\ DOMAIN g = 1..Len(g)
       /\ (\A i \in DOMAIN h : b[i] = h[i]) /\ \A i \in DOMAIN g : b[Len(h) + i] = g[i]
  <2>a. h \in Seq(Message) /\ g \in Seq(Message) /\ b = h \o g
    BY <1>8, <1>10, <1>11
  <2>1. /\ b \in Seq(Message) /\ Len(h) \in Nat /\ Len(g) \in Nat
        /\ DOMAIN h = 1..Len(h) /\ DOMAIN g = 1..Len(g) /\ DOMAIN b = 1..(Len(h) + Len(g))
        /\ \A i \in DOMAIN h : i \in DOMAIN b /\ b[i] = h[i]
        /\ \A i \in DOMAIN g : Len(h) + i \in DOMAIN b /\ b[Len(h) + i] = g[i]
        /\ \A i \in DOMAIN b : (i \in DOMAIN h /\ b[i] = h[i]) \/ (i > Len(h) /\ i - Len(h) \in DOMAIN g /\ b[i] = g[i - Len(h)])
    BY ONLY <2>a, ConcatAt
  <2>2. Len(b) = Len(h) + Len(g)
    BY ONLY <2>a, ConcatProperties
  <2> QED
    BY <2>1, <2>2
<1>13. Len(b) = Len(o) + 1 /\ b[1] = m
  BY <1>4, <1>8, <1>10, <1>12
<1>14. \A x \in 1..Len(o) : b[x + 1] = Result(o[x])
  <2>1. SUFFICES ASSUME NEW x \in 1..Len(o) PROVE b[x + 1] = Result(o[x])
    OBVIOUS
  <2>2. x \in DOMAIN g /\ Len(h) + x = x + 1
    BY <1>4, <1>8, <1>10, <1>12
  <2> QED
    BY <1>8, <1>12, <2>2
<1> QED
  BY <1>4, <1>6, <1>7, <1>12, <1>13, <1>14

\* A call is of one message.
LEMMA CallsAreOfOne ==
  ASSUME NEW ms \in Seq(Message), NEW top, WellTold(ms, top), NEW i \in DOMAIN ms, NEW h \in DOMAIN ms,
         NEW c \in ToSet(CallsOf(ms[i])), c \in ToSet(CallsOf(ms[h]))
  PROVE  h = i
<1>1. \A k \in DOMAIN ms : c \in ToSet(CallsOf(ms[k])) => ms[k].role = "assistant" /\ \E x : c = <<ms[k].id, x>>
  <2>1. SUFFICES ASSUME NEW k \in DOMAIN ms, c \in ToSet(CallsOf(ms[k]))
                 PROVE  ms[k].role = "assistant" /\ \E x : c = <<ms[k].id, x>>
    OBVIOUS
  <2>2. ms[k].role = "assistant"
    <3>1. SUFFICES ASSUME ms[k].role # "assistant" PROVE FALSE
      OBVIOUS
    <3>2. CallsOf(ms[k]) = <<>> /\ ToSet(<<>>) = {}
      BY <3>1 DEF CallsOf, ToSet
    <3> QED
      BY <2>1, <3>2
  <2>3. c \in ToSet(ms[k].calls)
    BY <2>1, <2>2 DEF CallsOf
  <2>4. PICK x \in DOMAIN ms[k].calls : c = ms[k].calls[x]
    BY <2>3 DEF ToSet
  <2>5. c = <<ms[k].id, x>>
    BY <2>2, <2>4 DEF WellTold, OwnCalls
  <2> QED
    BY <2>2, <2>5
<1>2. PICK x : c = <<ms[i].id, x>>
  BY <1>1
<1>3. PICK y : c = <<ms[h].id, y>>
  BY <1>1
<1>4. ms[i].id = ms[h].id
  BY <1>2, <1>3
<1> QED
  BY <1>1, <1>4 DEF WellTold, OneOfAnId

\* resolve_orphan_tool_calls, of a conversation in good order, answers each call in its place.
LEMMA ResolveAnswers ==
  ASSUME NEW ms \in Seq(Message), NEW top \in Nat, WellTold(ms, top)
  PROVE  ResolveOrphans(ms) \in Seq(Message) /\ AnswersInPlace(ResolveOrphans(ms))
<1> DEFINE n == Len(ms)
           o(i) == Orphans(ms, ms[i])
           b == [i \in DOMAIN ms |-> Filled(ms, ms[i])]
           r == ResolveOrphans(ms)
<1>1. n \in Nat /\ DOMAIN ms = 1..n /\ \A i \in 1..n : ms[i] \in Message
  BY LenProperties
<1>2. ASSUME NEW i \in 1..n PROVE Differ(CallsOf(ms[i]))
  <2>1. CASE ms[i].role = "assistant"
    <3>1. CallsOf(ms[i]) = ms[i].calls
      BY <2>1 DEF CallsOf
    <3>2. \A x \in DOMAIN ms[i].calls : ms[i].calls[x] = <<ms[i].id, x>>
      BY <1>1, <2>1 DEF WellTold, OwnCalls
    <3>3. \A x, y : <<ms[i].id, x>> = <<ms[i].id, y>> => x = y
      OBVIOUS
    <3> QED
      BY <3>1, <3>2, <3>3 DEF Differ
  <2>2. CASE ms[i].role # "assistant"
    <3>1. CallsOf(ms[i]) = <<>> /\ DOMAIN <<>> = {}
      BY <2>2 DEF CallsOf
    <3> QED
      BY <3>1 DEF Differ
  <2> QED
    BY <2>1, <2>2
<1>3. ASSUME NEW i \in 1..n
      PROVE  /\ o(i) \in Seq(CallId) /\ Differ(o(i)) /\ Len(o(i)) \in Nat /\ DOMAIN o(i) = 1..Len(o(i))
             /\ \A x \in 1..Len(o(i)) : o(i)[x] \notin Answered(ms) /\ o(i)[x] \in ToSet(CallsOf(ms[i]))
             /\ \A c \in ToSet(CallsOf(ms[i])) : c \notin Answered(ms) => \E x \in 1..Len(o(i)) : o(i)[x] = c
             /\ b[i] \in Seq(Message) /\ Len(b[i]) = Len(o(i)) + 1 /\ b[i][1] = ms[i]
             /\ \A x \in 1..Len(o(i)) : b[i][x + 1] = Result(o(i)[x])
  <2>1. b[i] = Filled(ms, ms[i])
    BY <1>1
  <2> HIDE DEF b
  <2> QED
    BY <1>1, <1>2, <2>1, FilledIs
<1>4. r = FlattenSeq(b)
  BY DEF ResolveOrphans, Filled
<1>5. b \in Seq(Seq(Message)) /\ Len(b) = n
  <2>1. b \in [1..n -> Seq(Message)]
    BY <1>1, <1>3
  <2> HIDE DEF b
  <2> QED
    BY <1>1, <2>1, SeqDef, LenProperties
<1> HIDE DEF b, r, n, o
<1>6. r \in Seq(Message) /\ Places(b, r) # {}
  BY <1>4, <1>5, FlattenPlaces
<1>7. PICK at \in Places(b, r) : TRUE
  BY <1>6
<1>8. /\ at \in [0..n -> Nat]
      /\ \A i \in 1..n : at[i] = at[i - 1] + Len(b[i]) /\ \A j \in 1..Len(b[i]) : r[at[i - 1] + j] = b[i][j]
  BY <1>5, <1>7 DEF Places
<1>9. /\ \A i \in 0..n, k \in 0..n : i <= k => at[i] <= at[k]
      /\ \A p \in 1..Len(r) : \E i \in 1..n : \E j \in 1..Len(b[i]) : p = at[i - 1] + j
      /\ \A i \in 1..n : \A j \in 1..Len(b[i]) : at[i - 1] + j \in 1..Len(r)
  <2>1. /\ \A i \in 0..Len(b), k \in 0..Len(b) : i <= k => at[i] <= at[k]
        /\ \A p \in 1..Len(r) : \E i \in 1..Len(b) : \E j \in 1..Len(b[i]) : p = at[i - 1] + j
        /\ \A i \in 1..Len(b) : \A j \in 1..Len(b[i]) : at[i - 1] + j \in 1..Len(r)
    BY ONLY <1>5, <1>6, <1>7, PlacesInOrder
  <2> QED
    BY <1>5, <2>1
<1> DEFINE pos == [i \in 1..n |-> at[i - 1] + 1]
<1>10. \A i \in 1..n : i - 1 \in 0..n /\ i \in 0..n
  BY <1>1
<1>11. pos \in [1..n -> Nat] /\ \A i \in 1..n : pos[i] = at[i - 1] + 1
  BY <1>8, <1>10
<1> HIDE DEF pos
<1>12. Len(r) \in Nat /\ DOMAIN r = 1..Len(r)
  BY <1>6, LenProperties
<1>13. ASSUME NEW i \in 1..n PROVE pos[i] \in DOMAIN r /\ r[pos[i]] = ms[i]
  <2>1. 1 \in 1..Len(b[i])
    BY <1>3
  <2> QED
    BY <1>3, <1>8, <1>9, <1>11, <1>12, <2>1
<1>14. ASSUME NEW i \in 1..n, NEW x \in 1..Len(o(i)) PROVE pos[i] + x \in DOMAIN r /\ r[pos[i] + x] = Result(o(i)[x])
  <2>a. \A l \in Nat : \A y \in 1..l : y + 1 \in 1..(l + 1)
    OBVIOUS
  <2>b. \A a \in Nat, l \in Nat : \A y \in 1..l : a + (y + 1) = (a + 1) + y
    OBVIOUS
  <2>0. Len(o(i)) \in Nat /\ Len(b[i]) = Len(o(i)) + 1
    BY <1>3
  <2>1. x + 1 \in 1..Len(b[i]) /\ at[i - 1] \in Nat
    <3>1. at[i - 1] \in Nat
      BY <1>8, <1>10
    <3>2. x + 1 \in 1..(Len(o(i)) + 1)
      BY ONLY <2>0, <2>a, x \in 1..Len(o(i))
    <3> QED
      BY <2>0, <3>1, <3>2
  <2>2. at[i - 1] + (x + 1) = pos[i] + x
    <3>1. at[i - 1] + (x + 1) = (at[i - 1] + 1) + x
      BY ONLY <2>0, <2>1, <2>b, x \in 1..Len(o(i))
    <3> QED
      BY <1>11, <3>1
  <2>3. at[i - 1] + (x + 1) \in 1..Len(r) /\ r[at[i - 1] + (x + 1)] = b[i][x + 1]
    BY <1>8, <1>9, <2>1
  <2> QED
    BY <1>3, <1>12, <2>2, <2>3
<1>15. ASSUME NEW p \in DOMAIN r
       PROVE  \/ \E i \in 1..n : p = pos[i]
              \/ \E i \in 1..n : \E x \in 1..Len(o(i)) : p = pos[i] + x
  <2>1. PICK i \in 1..n : \E j \in 1..Len(b[i]) : p = at[i - 1] + j
    BY <1>9, <1>12
  <2>2. PICK j \in 1..Len(b[i]) : p = at[i - 1] + j
    BY <2>1
  <2>3. Len(b[i]) = Len(o(i)) + 1 /\ Len(o(i)) \in Nat /\ at[i - 1] \in Nat /\ pos[i] = at[i - 1] + 1
    BY <1>3, <1>8, <1>10, <1>11
  <2>4. CASE j = 1
    BY <2>2, <2>3, <2>4
  <2>5. CASE j # 1
    <3>0. \A l, a \in Nat : \A x \in 1..(l + 1) : x # 1 => x - 1 \in 1..l /\ a + x = (a + 1) + (x - 1)
      OBVIOUS
    <3>1. j - 1 \in 1..Len(o(i)) /\ p = pos[i] + (j - 1)
      <4>1. j \in 1..(Len(o(i)) + 1)
        BY <2>2, <2>3
      <4>2. j - 1 \in 1..Len(o(i)) /\ at[i - 1] + j = (at[i - 1] + 1) + (j - 1)
        BY ONLY <2>3, <2>5, <3>0, <4>1
      <4> QED
        BY <2>2, <2>3, <4>2
    <3> QED
      BY <3>1
  <2> QED
    BY <2>4, <2>5
<1>16. ASSUME NEW i \in 1..n, NEW k \in 1..n, i < k PROVE pos[i] + Len(o(i)) < pos[k]
  <2>1. at[i] = at[i - 1] + Len(b[i]) /\ Len(b[i]) = Len(o(i)) + 1 /\ Len(o(i)) \in Nat /\ at[i - 1] \in Nat /\ at[i] \in Nat /\ at[k - 1] \in Nat
    BY <1>3, <1>8, <1>10
  <2>2. at[i] <= at[k - 1]
    <3>1. i <= k - 1
      BY <1>16
    <3> QED
      BY <1>9, <1>10, <3>1
  <2>3. pos[i] = at[i - 1] + 1 /\ pos[k] = at[k - 1] + 1
    BY <1>11
  <2>4. \A l, u, v, w \in Nat : \A y : v = u + y /\ y = l + 1 /\ v <= w => (u + 1) + l < w + 1
    OBVIOUS
  <2> QED
    BY ONLY <2>1, <2>2, <2>3, <2>4
<1>17. ASSUME NEW i \in 1..n, NEW k \in 1..n, pos[i] <= pos[k] PROVE i <= k
  <2>1. SUFFICES ASSUME k < i PROVE FALSE
    BY <1>1
  <2>2. pos[k] + Len(o(k)) < pos[i] /\ Len(o(k)) \in Nat /\ pos[k] \in Nat /\ pos[i] \in Nat
    BY <1>3, <1>11, <1>16, <2>1
  <2> QED
    BY <1>17, <2>2
<1> HIDE DEF o
<1>18. ASSUME NEW p \in DOMAIN r, NEW c \in ToSet(CallsOf(r[p]))
       PROVE  \E j \in DOMAIN r : /\ p < j /\ r[j] = Result(c)
                                  /\ \A k \in (p + 1)..j : r[k].role = "result"
                                  /\ \A k \in DOMAIN r : r[k] = Result(c) => k = j
  <2>1. PICK i \in 1..n : p = pos[i]
    <3>1. ASSUME NEW i \in 1..n, NEW x \in 1..Len(o(i)), p = pos[i] + x PROVE FALSE
      <4>1. CallsOf(r[p]) = <<>>
        BY <1>14, <3>1, ResultParts
      <4>2. ToSet(<<>>) = {}
        BY DEF ToSet
      <4> QED
        BY <4>1, <4>2
    <3> QED
      BY <1>15, <3>1
  <2>2. r[p] = ms[i] /\ c \in ToSet(CallsOf(ms[i])) /\ pos[i] \in Nat
    BY <1>11, <1>13, <2>1
  <2>3. ms[i].role = "assistant" /\ CallsOf(ms[i]) = ms[i].calls
    <3>1. SUFFICES ASSUME ms[i].role # "assistant" PROVE FALSE
      BY DEF CallsOf
    <3>2. CallsOf(ms[i]) = <<>>
      BY <3>1 DEF CallsOf
    <3>3. ToSet(<<>>) = {}
      BY DEF ToSet
    <3> QED
      BY <2>2, <3>2, <3>3
  <2>4. \A h \in 1..n : ms[h] = Result(c) => c \in Answered(ms)
    <3>1. SUFFICES ASSUME NEW h \in 1..n, ms[h] = Result(c) PROVE c \in Answered(ms)
      OBVIOUS
    <3>2. ms[h].role = "result" /\ ms[h].call = c
      BY <3>1, ResultParts
    <3> QED
      BY <1>1, <3>2 DEF Answered
  <2>5. \A d : Result(d) = Result(c) => d = c
    BY ResultParts
  <2>6. CASE c \in Answered(ms)
    <3>1. PICK l \in 1..n : ms[l].role = "result" /\ ms[l].call = c
      BY <1>1, <2>6 DEF Answered
    <3>2. i < l /\ \A k \in (i + 1)..l : ms[k].role = "result"
      BY <1>1, <2>2, <2>3, <3>1 DEF WellTold, ResultsBehind
    <3>3. r[pos[l]] = Result(c) /\ pos[l] \in DOMAIN r /\ pos[l] \in Nat
      BY <1>1, <1>11, <1>13, <3>1, MessageParts
    <3>4. p < pos[l]
      <4>1. pos[i] + Len(o(i)) < pos[l] /\ Len(o(i)) \in Nat
        BY <1>3, <1>16, <3>2
      <4> QED
        BY <2>1, <2>2, <3>3, <4>1
    <3>5. ASSUME NEW k \in (p + 1)..pos[l] PROVE r[k].role = "result"
      <4>1. k \in DOMAIN r /\ k > p /\ k <= pos[l] /\ k \in Nat
        BY <1>12, <2>1, <2>2, <3>3
      <4>2. CASE \E h \in 1..n : k = pos[h]
        <5>1. PICK h \in 1..n : k = pos[h]
          BY <4>2
        <5>2. pos[h] \in Nat /\ pos[i] < pos[h] /\ pos[h] <= pos[l]
          BY <2>1, <4>1, <5>1
        <5>3. h <= l /\ ~(h <= i)
          <6>1. h <= l
            BY <1>17, <5>2
          <6>2. CASE h < i
            <7>1. pos[h] + Len(o(h)) < pos[i] /\ Len(o(h)) \in Nat
              BY <1>3, <1>16, <6>2
            <7> QED
              BY <2>2, <5>2, <7>1
          <6>3. CASE h = i
            BY <2>2, <5>2, <6>3
          <6> QED
            BY <1>1, <6>1, <6>2, <6>3
        <5>4. h \in (i + 1)..l
          BY <1>1, <5>3
        <5> QED
          BY <1>13, <3>2, <5>1, <5>4
      <4>3. CASE \E h \in 1..n : \E x \in 1..Len(o(h)) : k = pos[h] + x
        BY <1>14, <4>3, ResultParts
      <4> QED
        BY <1>15, <4>1, <4>2, <4>3
    <3>6. ASSUME NEW k \in DOMAIN r, r[k] = Result(c) PROVE k = pos[l]
      <4>1. CASE \E h \in 1..n : k = pos[h]
        <5>1. PICK h \in 1..n : k = pos[h]
          BY <4>1
        <5>2. ms[h] = Result(c)
          BY <1>13, <3>6, <5>1
        <5>3. ms[h].role = "result" /\ ms[h].call = c
          BY <5>2, ResultParts
        <5>4. h = l
          BY <1>1, <3>1, <5>3 DEF WellTold, OneResultEach
        <5> QED
          BY <5>1, <5>4
      <4>2. ASSUME NEW h \in 1..n, NEW x \in 1..Len(o(h)), k = pos[h] + x PROVE FALSE
        <5>1. o(h)[x] = c
          BY <1>14, <2>5, <3>6, <4>2
        <5> QED
          BY <1>3, <2>6, <5>1
      <4> QED
        BY <1>15, <4>1, <4>2
    <3> QED
      BY <3>3, <3>4, <3>5, <3>6
  <2>7. CASE c \notin Answered(ms)
    <3>1. PICK x \in 1..Len(o(i)) : o(i)[x] = c
      BY <1>3, <2>2, <2>7
    <3> DEFINE j == pos[i] + x
    <3>2. r[j] = Result(c) /\ j \in DOMAIN r
      BY <1>14, <3>1
    <3>3. p < j /\ x \in Nat /\ x <= Len(o(i)) /\ Len(o(i)) \in Nat
      BY <1>3, <2>1, <2>2
    <3>4. ASSUME NEW k \in (p + 1)..j PROVE r[k].role = "result"
      <4>1. k \in DOMAIN r /\ k > p /\ k <= pos[i] + x /\ k \in Nat
        BY <1>12, <2>1, <2>2, <3>2, <3>3
      <4>2. ASSUME NEW h \in 1..n, k = pos[h] PROVE FALSE
        <5>1. pos[h] \in Nat /\ pos[i] < pos[h] /\ pos[h] <= pos[i] + Len(o(i))
          BY <2>1, <2>2, <3>3, <4>1, <4>2
        <5>2. i < h
          <6>1. i <= h
            BY <1>17, <2>2, <5>1
          <6>2. i # h
            BY <2>2, <5>1
          <6> QED
            BY <1>1, <6>1, <6>2
        <5>3. pos[i] + Len(o(i)) < pos[h]
          BY <1>16, <5>2
        <5> QED
          BY <2>2, <3>3, <5>1, <5>3
      <4>3. CASE \E h \in 1..n : \E y \in 1..Len(o(h)) : k = pos[h] + y
        BY <1>14, <4>3, ResultParts
      <4> QED
        BY <1>15, <4>1, <4>2, <4>3
    <3>5. ASSUME NEW k \in DOMAIN r, r[k] = Result(c) PROVE k = j
      <4>1. ASSUME NEW h \in 1..n, k = pos[h] PROVE FALSE
        <5>1. ms[h] = Result(c)
          BY <1>13, <3>5, <4>1
        <5> QED
          BY <2>4, <2>7, <5>1
      <4>2. ASSUME NEW h \in 1..n, NEW y \in 1..Len(o(h)), k = pos[h] + y PROVE k = j
        <5>1. o(h)[y] = c
          BY <1>14, <2>5, <3>5, <4>2
        <5>2. c \in ToSet(CallsOf(ms[h]))
          BY <1>3, <5>1
        <5>3. h = i
          BY <1>1, <2>2, <5>2, CallsAreOfOne
        <5>4. y = x
          BY <1>3, <3>1, <5>1, <5>3 DEF Differ
        <5> QED
          BY <4>2, <5>3, <5>4
      <4> QED
        BY <1>15, <4>1, <4>2
    <3> HIDE DEF j
    <3> QED
      BY <3>2, <3>3, <3>4, <3>5
  <2> QED
    BY <2>6, <2>7
<1> QED
  BY <1>6, <1>18 DEF AnswersInPlace, r

\* Each call of p is answered once before the conversation goes on.
CallsAnswered(p) ==
  \A i \in DOMAIN p : \A c \in ToSet(CallsOf(p[i])) :
      \E j \in Behind(p, i) : p[j] = Result(c) /\ \A k \in Behind(p, i) \ {j} : p[k] # Result(c)

\* pad_orphan_tool_results keeps each answer in its place.
LEMMA PadKeeps ==
  ASSUME NEW r \in Seq(Message), AnswersInPlace(r)
  PROVE  CallsAnswered(PadResults(r))
<1> DEFINE n == Len(r)
           stray(i) == r[i].role = "result" /\ (i = 1 \/ r[i - 1].role # "assistant")
           b == [i \in DOMAIN r |-> IF stray(i) THEN <<Padding, r[i]>> ELSE <<r[i]>>]
           p == PadResults(r)
<1>1. n \in Nat /\ DOMAIN r = 1..n /\ \A i \in 1..n : r[i] \in Message
  BY LenProperties
<1>2. Padding \in Message /\ CallsOf(Padding) = <<>> /\ Padding.role = "assistant"
  BY AssistantMessage DEF Padding, CallsOf, Assistant
<1>3. ASSUME NEW e \in Message
      PROVE  /\ <<e>> \in Seq(Message) /\ Len(<<e>>) = 1 /\ <<e>>[1] = e
             /\ <<Padding, e>> \in Seq(Message) /\ Len(<<Padding, e>>) = 2 /\ <<Padding, e>>[1] = Padding /\ <<Padding, e>>[2] = e
  BY <1>2
<1>4. ASSUME NEW i \in 1..n
      PROVE  /\ b[i] \in Seq(Message) /\ (Len(b[i]) = 1 \/ Len(b[i]) = 2)
             /\ b[i][Len(b[i])] = r[i] /\ \A j \in 1..Len(b[i]) : j # Len(b[i]) => b[i][j] = Padding
  <2>1. b[i] = IF stray(i) THEN <<Padding, r[i]>> ELSE <<r[i]>>
    BY <1>1
  <2>2. b[i] = <<Padding, r[i]>> \/ b[i] = <<r[i]>>
    BY <2>1
  <2> HIDE DEF b
  <2>3. CASE b[i] = <<r[i]>>
    <3>1. b[i] \in Seq(Message) /\ Len(b[i]) = 1 /\ b[i][1] = r[i]
      BY <1>1, <1>3, <2>3
    <3> QED
      BY <3>1
  <2>4. CASE b[i] = <<Padding, r[i]>>
    <3>1. b[i] \in Seq(Message) /\ Len(b[i]) = 2 /\ b[i][1] = Padding /\ b[i][2] = r[i]
      BY <1>1, <1>3, <2>4
    <3> QED
      BY <3>1
  <2> QED
    BY <2>2, <2>3, <2>4
<1>5. p = FlattenSeq(b)
  BY DEF PadResults
<1>6. b \in Seq(Seq(Message)) /\ Len(b) = n
  <2>1. b \in [1..n -> Seq(Message)]
    <3>1. b = [i \in 1..n |-> b[i]]
      BY <1>1
    <3> HIDE DEF b
    <3> QED
      BY <1>4, <3>1
  <2> HIDE DEF b
  <2> QED
    BY <1>1, <2>1, SeqDef, LenProperties
<1> HIDE DEF b, p, n
<1>7. p \in Seq(Message) /\ Places(b, p) # {}
  BY <1>5, <1>6, FlattenPlaces
<1>8. PICK at \in Places(b, p) : TRUE
  BY <1>7
<1>9. /\ at \in [0..n -> Nat]
      /\ \A i \in 1..n : at[i] = at[i - 1] + Len(b[i]) /\ \A j \in 1..Len(b[i]) : p[at[i - 1] + j] = b[i][j]
  BY <1>6, <1>8 DEF Places
<1>10. /\ \A i \in 0..n, k \in 0..n : i <= k => at[i] <= at[k]
       /\ \A q \in 1..Len(p) : \E i \in 1..n : \E j \in 1..Len(b[i]) : q = at[i - 1] + j
       /\ \A i \in 1..n : \A j \in 1..Len(b[i]) : at[i - 1] + j \in 1..Len(p)
  <2>1. /\ \A i \in 0..Len(b), k \in 0..Len(b) : i <= k => at[i] <= at[k]
        /\ \A q \in 1..Len(p) : \E i \in 1..Len(b) : \E j \in 1..Len(b[i]) : q = at[i - 1] + j
        /\ \A i \in 1..Len(b) : \A j \in 1..Len(b[i]) : at[i - 1] + j \in 1..Len(p)
    BY ONLY <1>6, <1>7, <1>8, PlacesInOrder
  <2> QED
    BY <1>6, <2>1
<1>11. Len(p) \in Nat /\ DOMAIN p = 1..Len(p)
  BY <1>7, LenProperties
<1>12. ASSUME NEW i \in 1..n
       PROVE  /\ at[i] \in Nat /\ at[i - 1] \in Nat /\ at[i] = at[i - 1] + Len(b[i]) /\ (Len(b[i]) = 1 \/ Len(b[i]) = 2)
              /\ at[i] \in 1..Len(p) /\ p[at[i]] = r[i]
  <2>1. i \in 0..n /\ i - 1 \in 0..n
    BY <1>1
  <2>2. Len(b[i]) = 1 \/ Len(b[i]) = 2
    BY <1>4
  <2>3. Len(b[i]) \in 1..Len(b[i])
    <3>1. \A x : x = 1 \/ x = 2 => x \in 1..x
      OBVIOUS
    <3> QED
      BY ONLY <2>2, <3>1
  <2>4. at[i] \in Nat /\ at[i - 1] \in Nat /\ at[i] = at[i - 1] + Len(b[i])
    BY <1>9, <2>1
  <2>5. at[i - 1] + Len(b[i]) \in 1..Len(p)
    BY <1>10, <2>3
  <2>6. p[at[i - 1] + Len(b[i])] = b[i][Len(b[i])]
    BY <1>9, <2>3
  <2> QED
    BY <1>4, <2>2, <2>4, <2>5, <2>6
<1>13. ASSUME NEW q \in 1..Len(p) PROVE p[q] = Padding \/ \E i \in 1..n : q = at[i]
  <2>1. PICK i \in 1..n : \E j \in 1..Len(b[i]) : q = at[i - 1] + j
    BY <1>10
  <2>2. PICK j \in 1..Len(b[i]) : q = at[i - 1] + j
    BY <2>1
  <2>3. CASE j = Len(b[i])
    BY <1>12, <2>2, <2>3
  <2>4. CASE j # Len(b[i])
    <3>1. p[at[i - 1] + j] = b[i][j]
      BY <1>9, <2>2
    <3>2. b[i][j] = Padding
      BY <1>4, <2>2, <2>4
    <3> QED
      BY <2>2, <3>1, <3>2
  <2> QED
    BY <2>3, <2>4
<1>14. ASSUME NEW i \in 1..n, NEW h \in 1..n, i < h PROVE at[i] < at[h]
  <2>1. i \in 0..n /\ h - 1 \in 0..n /\ i <= h - 1
    BY <1>1, <1>14
  <2>2. at[i] <= at[h - 1]
    BY <1>10, <2>1
  <2>3. at[i] \in Nat /\ at[h] \in Nat /\ at[h - 1] \in Nat /\ at[h] = at[h - 1] + Len(b[h]) /\ (Len(b[h]) = 1 \/ Len(b[h]) = 2)
    BY <1>12
  <2>4. \A u, v, w \in Nat : \A l : u <= v /\ w = v + l /\ (l = 1 \/ l = 2) => u < w
    OBVIOUS
  <2> QED
    BY ONLY <2>2, <2>3, <2>4
<1>15. ASSUME NEW i \in 1..n, NEW h \in 1..n, at[i] < at[h] PROVE i < h
  <2>1. i = h \/ h < i \/ i < h
    BY <1>1
  <2>2. at[i] \in Nat /\ at[h] \in Nat
    BY <1>12
  <2>3. CASE h < i
    <3>1. at[h] < at[i]
      BY <1>14, <2>3
    <3> QED
      BY <1>15, <2>2, <3>1
  <2>4. CASE h = i
    BY <1>15, <2>2, <2>4
  <2> QED
    BY <2>1, <2>3, <2>4
<1>16. ASSUME NEW q \in 1..Len(p), NEW c \in ToSet(CallsOf(p[q]))
       PROVE  \E j \in Behind(p, q) : p[j] = Result(c) /\ \A k \in Behind(p, q) \ {j} : p[k] # Result(c)
  <2>1. PICK i \in 1..n : q = at[i]
    <3>1. ASSUME p[q] = Padding PROVE FALSE
      <4>1. ToSet(CallsOf(p[q])) = {}
        <5>1. ToSet(<<>>) = {}
          BY DEF ToSet
        <5> QED
          BY <1>2, <3>1, <5>1
      <4> QED
        BY <4>1
    <3> QED
      BY <1>13, <3>1
  <2>2. p[q] = r[i] /\ i \in DOMAIN r /\ c \in ToSet(CallsOf(r[i]))
    BY <1>1, <1>12, <2>1
  <2>3. PICK j \in DOMAIN r : /\ i < j /\ r[j] = Result(c)
                              /\ \A k \in (i + 1)..j : r[k].role = "result"
                              /\ \A k \in DOMAIN r : r[k] = Result(c) => k = j
    BY <2>2 DEF AnswersInPlace
  <2>4. j \in 1..n /\ at[j] \in 1..Len(p) /\ p[at[j]] = Result(c) /\ q < at[j]
    BY <1>1, <1>12, <1>14, <2>1, <2>3
  <2>5. ASSUME NEW k \in (q + 1)..at[j] PROVE p[k].role = "result" \/ p[k] = Padding
    <3>1. k \in 1..Len(p) /\ q < k /\ k <= at[j]
      BY <1>11, <2>4
    <3>2. ASSUME NEW h \in 1..n, k = at[h] PROVE p[k].role = "result"
      <4>1. i < h
        BY <1>15, <2>1, <3>1, <3>2
      <4>2. ~(j < h)
        <5>1. j < h => at[j] < at[h]
          BY <1>14, <2>4
        <5>2. at[j] \in Nat /\ at[h] \in Nat
          BY <1>12, <2>4
        <5> QED
          BY <3>1, <3>2, <5>1, <5>2
      <4>3. h \in (i + 1)..j
        BY <1>1, <2>4, <4>1, <4>2
      <4> QED
        BY <1>12, <2>3, <3>2, <4>3
    <3> QED
      BY <1>13, <3>1, <3>2
  <2>6. at[j] \in Behind(p, q)
    <3>1. at[j] \in (q + 1)..Len(p)
      BY <1>11, <2>4
    <3> QED
      BY <2>5, <3>1 DEF Behind
  <2>7. ASSUME NEW k \in Behind(p, q), p[k] = Result(c) PROVE k = at[j]
    <3>1. k \in 1..Len(p)
      BY <1>11 DEF Behind
    <3>2. p[k] # Padding
      <4>1. Result(c).role = "result"
        BY ResultParts
      <4> QED
        BY <1>2, <2>7, <4>1
    <3>3. PICK h \in 1..n : k = at[h]
      BY <1>13, <3>1, <3>2
    <3>4. r[h] = Result(c) /\ h \in DOMAIN r
      BY <1>1, <1>12, <2>7, <3>3
    <3> QED
      BY <2>3, <3>3, <3>4
  <2> QED
    BY <2>4, <2>6, <2>7
<1> QED
  BY <1>11, <1>16 DEF CallsAnswered, p

-----------------------------------------------------------------------------
(* The conversation: the caller's transcript and what the run has added.    *)

\* A stretch of a conversation in good order is one.
LEMMA PartIsWellTold ==
  ASSUME NEW ms \in Seq(Message), NEW top, WellTold(ms, top), NEW d \in Seq(Message), NEW s \in Nat,
         \A i \in DOMAIN d : s + i \in DOMAIN ms /\ d[i] = ms[s + i]
  PROVE  WellTold(d, top)
<1>1. Len(d) \in Nat /\ DOMAIN d = 1..Len(d)
  BY LenProperties
<1>2. \A i, j \in Nat : (s + i = s + j => i = j) /\ (s + i < s + j => i < j)
  OBVIOUS
<1>3. OwnCalls(d, top)
  BY DEF WellTold, OwnCalls
<1>4. OneOfAnId(d)
  <2>1. SUFFICES ASSUME NEW i \in DOMAIN d, NEW j \in DOMAIN d, d[i].role = "assistant", d[j].role = "assistant", d[i].id = d[j].id
                 PROVE  i = j
    BY DEF OneOfAnId
  <2>2. s + i = s + j
    BY <2>1 DEF WellTold, OneOfAnId
  <2> QED
    BY <1>1, <1>2, <2>2
<1>5. OneResultEach(d)
  <2>1. SUFFICES ASSUME NEW i \in DOMAIN d, NEW j \in DOMAIN d, d[i].role = "result", d[j].role = "result", d[i].call = d[j].call
                 PROVE  i = j
    BY DEF OneResultEach
  <2>2. s + i = s + j
    BY <2>1 DEF WellTold, OneResultEach
  <2> QED
    BY <1>1, <1>2, <2>2
<1>6. ResultsOfOld(d, top)
  BY DEF WellTold, ResultsOfOld
<1>7. ResultsBehind(d)
  <2>1. SUFFICES ASSUME NEW i \in DOMAIN d, NEW j \in DOMAIN d, d[i].role = "assistant", d[j].role = "result", d[j].call \in ToSet(d[i].calls)
                 PROVE  i < j /\ \A k \in (i + 1)..j : d[k].role = "result"
    BY DEF ResultsBehind
  <2>2. s + i < s + j /\ \A k \in (s + i + 1)..(s + j) : ms[k].role = "result"
    BY <2>1 DEF WellTold, ResultsBehind
  <2>3. i < j
    BY <1>1, <1>2, <2>2
  <2>4. ASSUME NEW k \in (i + 1)..j PROVE d[k].role = "result"
    <3>1. k \in DOMAIN d /\ s + k \in (s + i + 1)..(s + j)
      BY <1>1
    <3> QED
      BY <2>2, <3>1
  <2> QED
    BY <2>3, <2>4
<1> QED
  BY <1>3, <1>4, <1>5, <1>6, <1>7 DEF WellTold

\* Messages that may follow such a conversation: users, a new response, or results
\* of the last one.
Follows(ms, top, g, new) ==
  /\ OwnCalls(g, new) /\ OneOfAnId(g) /\ OneResultEach(g) /\ ResultsOfOld(g, new)
  /\ \A i \in DOMAIN g : g[i].role = "assistant" => g[i].id \notin 1..top
  /\ \A i, j \in DOMAIN g : ~(g[i].role = "assistant" /\ g[j].role = "result")
  /\ \A j \in DOMAIN g : g[j].role = "result" =>
        /\ \A i \in DOMAIN ms : ms[i].role = "result" => ms[i].call # g[j].call
        /\ \A i \in DOMAIN ms : ms[i].role = "assistant" /\ g[j].call \in ToSet(ms[i].calls) => i = Len(ms)
        /\ \A k \in 1..j : g[k].role = "result"

\* A conversation in good order stays so with messages that may follow it.
LEMMA ToldGrows ==
  ASSUME NEW ms \in Seq(Message), NEW top \in Nat, WellTold(ms, top), NEW g \in Seq(Message), NEW new \in Nat,
         top <= new, Follows(ms, top, g, new), NEW c, c = ms \o g
  PROVE  c \in Seq(Message) /\ WellTold(c, new)
<1>1. /\ c \in Seq(Message) /\ Len(ms) \in Nat /\ Len(g) \in Nat
      /\ DOMAIN ms = 1..Len(ms) /\ DOMAIN g = 1..Len(g) /\ DOMAIN c = 1..(Len(ms) + Len(g))
      /\ \A i \in DOMAIN ms : i \in DOMAIN c /\ c[i] = ms[i]
      /\ \A i \in DOMAIN g : Len(ms) + i \in DOMAIN c /\ c[Len(ms) + i] = g[i]
      /\ \A i \in DOMAIN c : (i \in DOMAIN ms /\ c[i] = ms[i]) \/ (i > Len(ms) /\ i - Len(ms) \in DOMAIN g /\ c[i] = g[i - Len(ms)])
  BY ConcatAt
<1> DEFINE n == Len(ms)
           IsOld(i) == i \in DOMAIN ms /\ c[i] = ms[i]
           IsNew(i) == i > n /\ i - n \in DOMAIN g /\ c[i] = g[i - n]
<1>2. n \in Nat /\ DOMAIN ms = 1..n /\ DOMAIN g = 1..Len(g) /\ Len(g) \in Nat /\ DOMAIN c = 1..(n + Len(g))
  BY <1>1
<1>3. \A i \in DOMAIN c : IsOld(i) \/ IsNew(i)
  BY <1>1
<1> HIDE DEF n
<1>4. 1..top \subseteq 1..new
  OBVIOUS
<1>5. OwnCalls(c, new)
  <2>1. SUFFICES ASSUME NEW i \in DOMAIN c, c[i].role = "assistant"
                 PROVE  c[i].id \in 1..new /\ \A x \in DOMAIN c[i].calls : c[i].calls[x] = <<c[i].id, x>>
    BY DEF OwnCalls
  <2>2. CASE IsOld(i)
    BY <1>4, <2>1, <2>2 DEF WellTold, OwnCalls
  <2>3. CASE IsNew(i)
    BY <2>1, <2>3 DEF Follows, OwnCalls
  <2> QED
    BY <1>3, <2>2, <2>3
<1>6. OneOfAnId(c)
  <2>1. SUFFICES ASSUME NEW i \in DOMAIN c, NEW j \in DOMAIN c, c[i].role = "assistant", c[j].role = "assistant", c[i].id = c[j].id
                 PROVE  i = j
    BY DEF OneOfAnId
  <2>2. CASE IsOld(i) /\ IsOld(j)
    BY <2>1, <2>2 DEF WellTold, OneOfAnId
  <2>3. CASE IsOld(i) /\ IsNew(j)
    BY <2>1, <2>3 DEF WellTold, OwnCalls, Follows
  <2>4. CASE IsNew(i) /\ IsOld(j)
    BY <2>1, <2>4 DEF WellTold, OwnCalls, Follows
  <2>5. CASE IsNew(i) /\ IsNew(j)
    <3>1. i - n = j - n
      BY <2>1, <2>5 DEF Follows, OneOfAnId
    <3> QED
      BY <1>2, <3>1
  <2> QED
    BY <1>3, <2>2, <2>3, <2>4, <2>5
<1>7. OneResultEach(c)
  <2>1. SUFFICES ASSUME NEW i \in DOMAIN c, NEW j \in DOMAIN c, c[i].role = "result", c[j].role = "result", c[i].call = c[j].call
                 PROVE  i = j
    BY DEF OneResultEach
  <2>2. CASE IsOld(i) /\ IsOld(j)
    BY <2>1, <2>2 DEF WellTold, OneResultEach
  <2>3. CASE IsOld(i) /\ IsNew(j)
    BY <2>1, <2>3 DEF Follows
  <2>4. CASE IsNew(i) /\ IsOld(j)
    BY <2>1, <2>4 DEF Follows
  <2>5. CASE IsNew(i) /\ IsNew(j)
    <3>1. i - n = j - n
      BY <2>1, <2>5 DEF Follows, OneResultEach
    <3> QED
      BY <1>2, <3>1
  <2> QED
    BY <1>3, <2>2, <2>3, <2>4, <2>5
<1>8. ResultsOfOld(c, new)
  <2>1. SUFFICES ASSUME NEW j \in DOMAIN c, c[j].role = "result" PROVE c[j].call[1] \in 1..new
    BY DEF ResultsOfOld
  <2>2. CASE IsOld(j)
    BY <1>4, <2>1, <2>2 DEF WellTold, ResultsOfOld
  <2>3. CASE IsNew(j)
    BY <2>1, <2>3 DEF Follows, ResultsOfOld
  <2> QED
    BY <1>3, <2>2, <2>3
<1>9. ResultsBehind(c)
  <2> DEFINE InPlace(i, j) == i < j /\ \A k \in (i + 1)..j : c[k].role = "result"
  <2>0. (\A i, j \in DOMAIN c : c[i].role = "assistant" /\ c[j].role = "result" /\ c[j].call \in ToSet(c[i].calls) => InPlace(i, j))
           => ResultsBehind(c)
    BY DEF ResultsBehind
  <2> HIDE DEF InPlace
  <2>1. SUFFICES ASSUME NEW i \in DOMAIN c, NEW j \in DOMAIN c, c[i].role = "assistant", c[j].role = "result", c[j].call \in ToSet(c[i].calls)
                 PROVE  InPlace(i, j)
    BY <2>0
  <2> USE DEF InPlace
  <2>2. CASE IsOld(i) /\ IsOld(j)
    <3>1. i < j /\ \A k \in (i + 1)..j : ms[k].role = "result"
      BY <2>1, <2>2 DEF WellTold, ResultsBehind
    <3>2. \A k \in (i + 1)..j : k \in DOMAIN ms
      BY <1>2, <2>2
    <3> QED
      BY <1>1, <3>1, <3>2
  <2>3. CASE IsOld(i) /\ IsNew(j)
    <3>1. i = n /\ \A k \in 1..(j - n) : g[k].role = "result"
      BY <2>1, <2>3 DEF Follows, n
    <3>2. ASSUME NEW k \in (i + 1)..j PROVE c[k].role = "result"
      <4>1. k \in DOMAIN c /\ ~(k \in DOMAIN ms)
        BY <1>2, <3>1
      <4>2. IsNew(k)
        BY <1>3, <4>1
      <4>3. k - n \in 1..(j - n)
        BY <1>2, <3>1
      <4> QED
        BY <3>1, <4>2, <4>3
    <3> QED
      BY <2>3, <3>1, <3>2
  <2>4. CASE IsNew(i) /\ IsOld(j)
    <3>1. c[i].id \notin 1..top
      BY <2>1, <2>4 DEF Follows
    <3>2. c[j].call[1] \in 1..top
      BY <2>1, <2>4 DEF WellTold, ResultsOfOld
    <3>3. PICK x \in DOMAIN c[i].calls : c[j].call = c[i].calls[x]
      BY <2>1 DEF ToSet
    <3>4. c[j].call = <<c[i].id, x>>
      BY <1>5, <2>1, <3>3 DEF OwnCalls
    <3>5. c[j].call[1] = c[i].id
      BY <3>4
    <3> QED
      BY <3>1, <3>2, <3>5
  <2>5. CASE IsNew(i) /\ IsNew(j)
    BY <2>1, <2>5 DEF Follows
  <2> QED
    BY <1>3, <2>2, <2>3, <2>4, <2>5
<1> QED
  BY <1>1, <1>5, <1>6, <1>7, <1>8, <1>9 DEF WellTold

AreUsers(q) == \A i \in DOMAIN q : q[i].role = "user"

\* Queued messages follow.
LEMMA UsersFollow ==
  ASSUME NEW ms, NEW top, NEW g, AreUsers(g)
  PROVE  Follows(ms, top, g, top)
<1>1. \A i \in DOMAIN g : g[i].role # "assistant" /\ g[i].role # "result"
  BY DEF AreUsers
<1> QED
  BY <1>1 DEF Follows, OwnCalls, OneOfAnId, OneResultEach, ResultsOfOld

\* A response follows that has the next number and calls of that number.
LEMMA ResponseFollows ==
  ASSUME NEW ms, NEW top \in Nat, NEW calls, \A x \in DOMAIN calls : calls[x] = <<top + 1, x>>,
         NEW g, g = <<Assistant(top + 1, calls)>>
  PROVE  Follows(ms, top, g, top + 1)
<1>1. DOMAIN g = {1} /\ g[1] = Assistant(top + 1, calls)
  OBVIOUS
<1>2. g[1].role = "assistant" /\ g[1].id = top + 1 /\ g[1].calls = calls
  BY <1>1 DEF Assistant
<1>3. top + 1 \in 1..(top + 1) /\ top + 1 \notin 1..top
  OBVIOUS
<1>4. OwnCalls(g, top + 1)
  BY <1>1, <1>2, <1>3 DEF OwnCalls
<1>5. OneOfAnId(g)
  BY <1>1 DEF OneOfAnId
<1>6. \A i \in DOMAIN g : g[i].role = "assistant" /\ g[i].id = top + 1
  BY <1>1, <1>2
<1>7. \A i \in DOMAIN g : g[i].role # "result"
  BY <1>6
<1> QED
  BY <1>3, <1>4, <1>5, <1>6, <1>7 DEF Follows, OneResultEach, ResultsOfOld

\* Results follow that are of the first calls of the last message.
LEMMA ResultsFollow ==
  ASSUME NEW ms \in Seq(Message), NEW top \in Nat, WellTold(ms, top), NEW last \in DOMAIN ms, last = Len(ms),
         ms[last].role = "assistant", NEW e \in 0..Len(ms[last].calls),
         NEW g \in Seq(Message), g = [k \in 1..e |-> Result(ms[last].calls[k])]
  PROVE  Follows(ms, top, g, top)
<1> DEFINE calls == ms[last].calls
           id == ms[last].id
<1>1. Len(ms) \in Nat /\ DOMAIN ms = 1..Len(ms) /\ ms[last] \in Message
  BY LenProperties, ElementOfSeq
<1>2. calls \in Seq(CallId)
  BY <1>1, MessageParts
<1>3. Len(calls) \in Nat /\ DOMAIN calls = 1..Len(calls)
  BY <1>2, LenProperties
<1>4. id \in 1..top /\ \A x \in DOMAIN calls : calls[x] = <<id, x>>
  BY DEF WellTold, OwnCalls
<1> HIDE DEF calls, id
<1>5. e \in Nat /\ DOMAIN g = 1..e /\ \A k \in 1..e : k \in DOMAIN calls
  BY <1>3 DEF calls
<1>6. \A k \in DOMAIN g : g[k].role = "result" /\ g[k].call = <<id, k>> /\ k \in DOMAIN calls /\ calls[k] = g[k].call
  <2>1. SUFFICES ASSUME NEW k \in DOMAIN g
                 PROVE  g[k].role = "result" /\ g[k].call = <<id, k>> /\ k \in DOMAIN calls /\ calls[k] = g[k].call
    OBVIOUS
  <2>2. g[k] = Result(calls[k]) /\ k \in DOMAIN calls
    BY <1>5 DEF calls
  <2> QED
    BY <1>4, <2>2, ResultParts
<1>7. OwnCalls(g, top) /\ OneOfAnId(g)
  BY <1>6 DEF OwnCalls, OneOfAnId
<1>8. OneResultEach(g)
  <2>1. \A i, j : <<id, i>> = <<id, j>> => i = j
    OBVIOUS
  <2> QED
    BY <1>6, <2>1 DEF OneResultEach
<1>9. ResultsOfOld(g, top)
  <2>2. ASSUME NEW k \in DOMAIN g PROVE g[k].call[1] = id
    <3>1. g[k].call = <<id, k>>
      BY <1>6
    <3>2. <<id, k>>[1] = id
      OBVIOUS
    <3> QED
      BY ONLY <3>1, <3>2
  <2> QED
    BY <1>4, <2>2 DEF ResultsOfOld
<1>10. ASSUME NEW j \in DOMAIN g, NEW i \in DOMAIN ms, ms[i].role = "result", ms[i].call = g[j].call PROVE FALSE
  <2>1. ms[i].call \in ToSet(calls)
    BY <1>6, <1>10 DEF ToSet
  <2>2. last < i
    BY <1>10, <2>1 DEF WellTold, ResultsBehind, calls
  <2> QED
    BY <1>1, <2>2
<1>11. ASSUME NEW j \in DOMAIN g, NEW i \in DOMAIN ms, ms[i].role = "assistant", g[j].call \in ToSet(ms[i].calls)
       PROVE  i = Len(ms)
  <2>1. PICK x \in DOMAIN ms[i].calls : g[j].call = ms[i].calls[x]
    BY <1>11 DEF ToSet
  <2>2. g[j].call = <<ms[i].id, x>>
    BY <1>11, <2>1 DEF WellTold, OwnCalls
  <2>3. ms[i].id = id
    BY <1>6, <2>2
  <2> QED
    BY <1>11, <2>3 DEF WellTold, OneOfAnId, id
<1>12. \A j \in DOMAIN g : \A k \in 1..j : g[k].role = "result"
  <2>1. SUFFICES ASSUME NEW j \in DOMAIN g, NEW k \in 1..j PROVE g[k].role = "result"
    OBVIOUS
  <2>2. k \in DOMAIN g
    BY <1>5
  <2> QED
    BY <1>6, <2>2
<1>13. \A i \in DOMAIN g : g[i].role # "assistant"
  BY <1>6
<1>14. ASSUME NEW j \in DOMAIN g
       PROVE  /\ \A i \in DOMAIN ms : ms[i].role = "result" => ms[i].call # g[j].call
              /\ \A i \in DOMAIN ms : ms[i].role = "assistant" /\ g[j].call \in ToSet(ms[i].calls) => i = Len(ms)
              /\ \A k \in 1..j : g[k].role = "result"
  BY <1>10, <1>11, <1>12
<1>15. \A i \in DOMAIN g : g[i].role = "assistant" => g[i].id \notin 1..top
  BY <1>13
<1>16. \A i, j \in DOMAIN g : ~(g[i].role = "assistant" /\ g[j].role = "result")
  BY <1>13
<1>17. \A j \in DOMAIN g : g[j].role = "result" =>
          /\ \A i \in DOMAIN ms : ms[i].role = "result" => ms[i].call # g[j].call
          /\ \A i \in DOMAIN ms : ms[i].role = "assistant" /\ g[j].call \in ToSet(ms[i].calls) => i = Len(ms)
          /\ \A k \in 1..j : g[k].role = "result"
  BY <1>14
<1> QED
  BY ONLY <1>7, <1>8, <1>9, <1>15, <1>16, <1>17 DEF Follows

\* d is the end of ms.
EndOf(d, ms) == \E s \in 0..Len(ms) : Len(ms) = s + Len(d) /\ \A i \in DOMAIN d : d[i] = ms[s + i]

\* The end of a conversation in good order is one.
LEMMA EndIsWellTold ==
  ASSUME NEW ms \in Seq(Message), NEW top, WellTold(ms, top), NEW d \in Seq(Message), EndOf(d, ms)
  PROVE  WellTold(d, top)
<1>1. PICK s \in 0..Len(ms) : Len(ms) = s + Len(d) /\ \A i \in DOMAIN d : d[i] = ms[s + i]
  BY DEF EndOf
<1>2. Len(d) \in Nat /\ Len(ms) \in Nat /\ DOMAIN d = 1..Len(d) /\ DOMAIN ms = 1..Len(ms)
  BY LenProperties
<1>3. \A i \in DOMAIN d : s + i \in DOMAIN ms
  BY <1>1, <1>2
<1>4. s \in Nat
  BY <1>2
<1> QED
  BY <1>1, <1>3, <1>4, PartIsWellTold

\* What follows a conversation follows its end.
LEMMA EndGrows ==
  ASSUME NEW ms \in Seq(Message), NEW d \in Seq(Message), EndOf(d, ms), NEW g \in Seq(Message),
         NEW mg, mg = ms \o g, NEW dg, dg = d \o g
  PROVE  EndOf(dg, mg)
<1>1. PICK s \in 0..Len(ms) : Len(ms) = s + Len(d) /\ \A i \in DOMAIN d : d[i] = ms[s + i]
  BY DEF EndOf
<1>2. /\ mg \in Seq(Message) /\ Len(ms) \in Nat /\ Len(g) \in Nat
      /\ DOMAIN ms = 1..Len(ms) /\ DOMAIN g = 1..Len(g) /\ DOMAIN mg = 1..(Len(ms) + Len(g))
      /\ \A i \in DOMAIN ms : i \in DOMAIN mg /\ mg[i] = ms[i]
      /\ \A i \in DOMAIN g : Len(ms) + i \in DOMAIN mg /\ mg[Len(ms) + i] = g[i]
      /\ \A i \in DOMAIN mg : (i \in DOMAIN ms /\ mg[i] = ms[i]) \/ (i > Len(ms) /\ i - Len(ms) \in DOMAIN g /\ mg[i] = g[i - Len(ms)])
  BY ONLY ms \in Seq(Message), g \in Seq(Message), mg = ms \o g, ConcatAt
<1>3. /\ dg \in Seq(Message) /\ Len(d) \in Nat /\ Len(g) \in Nat
      /\ DOMAIN d = 1..Len(d) /\ DOMAIN g = 1..Len(g) /\ DOMAIN dg = 1..(Len(d) + Len(g))
      /\ \A i \in DOMAIN d : i \in DOMAIN dg /\ dg[i] = d[i]
      /\ \A i \in DOMAIN g : Len(d) + i \in DOMAIN dg /\ dg[Len(d) + i] = g[i]
      /\ \A i \in DOMAIN dg : (i \in DOMAIN d /\ dg[i] = d[i]) \/ (i > Len(d) /\ i - Len(d) \in DOMAIN g /\ dg[i] = g[i - Len(d)])
  BY ONLY d \in Seq(Message), g \in Seq(Message), dg = d \o g, ConcatAt
<1>4. Len(mg) = Len(ms) + Len(g) /\ Len(dg) = Len(d) + Len(g)
  BY ConcatProperties
<1>5. s \in Nat
  BY <1>2
<1>6. Len(mg) = s + Len(dg) /\ s \in 0..Len(mg)
  <2>1. \A a, b, c, u \in Nat : a = u + b => a + c = u + (b + c) /\ u \in 0..(a + c)
    OBVIOUS
  <2> QED
    BY <1>1, <1>2, <1>3, <1>4, <1>5, <2>1
<1>7. ASSUME NEW i \in DOMAIN dg PROVE dg[i] = mg[s + i]
  <2>1. CASE i \in DOMAIN d /\ dg[i] = d[i]
    <3>1. s + i \in DOMAIN ms
      BY <1>1, <1>2, <1>3, <1>5, <2>1
    <3> QED
      BY <1>1, <1>2, <2>1, <3>1
  <2>2. CASE i > Len(d) /\ i - Len(d) \in DOMAIN g /\ dg[i] = g[i - Len(d)]
    <3>1. \A a, b, u, x \in Nat : a = u + b /\ x > b => a + (x - b) = u + x
      OBVIOUS
    <3>2. i \in Nat
      BY <1>3
    <3>3. Len(ms) + (i - Len(d)) = s + i
      BY ONLY <1>1, <1>2, <1>3, <1>5, <2>2, <3>1, <3>2
    <3> QED
      BY <1>2, <2>2, <3>3
  <2> QED
    BY <1>3, <2>1, <2>2
<1> QED
  BY <1>6, <1>7 DEF EndOf

-----------------------------------------------------------------------------
(* What has been told, up to the newest message.                            *)

Told == transcript \o newMessages

\* The calls that are executed are of the last message.
NewestLast == pc = "tools" => messages # <<>> /\ messages[Len(messages)].role = "assistant"

ToldInv == WellTold(Told, responses) /\ EndOf(messages, Told) /\ NewestLast /\ AreUsers(steerQueue) /\ AreUsers(followUpQueue)

\* Extending the run's messages extends what has been told.
LEMMA TellMore ==
  ASSUME UniqueIds, TypeOK, ToldInv, NEW new \in Nat, responses <= new, transcript' = transcript,
         NEW g \in Seq(Message), Follows(Told, responses, g, new), Extend(g)
  PROVE  WellTold(Told', new) /\ EndOf(messages', Told')
<1>1. transcript \in Seq(Message) /\ newMessages \in Seq(Message) /\ messages \in Seq(Message) /\ responses \in Nat
  BY LoopAssumption DEF TypeOK
<1>2. Told \in Seq(Message)
  BY <1>1, ConcatProperties DEF Told
<1>3. Told' = Told \o g /\ messages' = messages \o g
  <2>1. Told' = transcript \o (newMessages \o g)
    BY DEF Told, Extend
  <2>2. (transcript \o newMessages) \o g = transcript \o (newMessages \o g)
    <3>1. transcript \in Seq(Message) /\ newMessages \in Seq(Message) /\ g \in Seq(Message)
      BY <1>1
    <3> QED
      BY ONLY <3>1, ConcatAssociative
  <2> QED
    BY <2>1, <2>2 DEF Told, Extend
<1>4. WellTold(Told', new)
  BY <1>1, <1>2, <1>3, ToldGrows DEF ToldInv
<1>5. EndOf(messages', Told')
  BY <1>1, <1>2, <1>3, EndGrows DEF ToldInv
<1> QED
  BY <1>4, <1>5

\* Every step keeps what has been told in good order.
LEMMA ToldStep == UniqueIds /\ IInv /\ IInv' /\ ToldInv /\ [Next]_vars => ToldInv'
<1> SUFFICES ASSUME UniqueIds, IInv, IInv', ToldInv, [Next]_vars PROVE ToldInv'
  OBVIOUS
<1>a. TypeOK /\ TypeOK' /\ ToolsAreNewest /\ Balanced /\ Balanced'
  BY DEF IInv
<1>b. /\ transcript \in Seq(Message) /\ newMessages \in Seq(Message) /\ messages \in Seq(Message) /\ responses \in Nat
      /\ transcript' \in Seq(Message) /\ newMessages' \in Seq(Message) /\ messages' \in Seq(Message) /\ responses' \in Nat
      /\ steerQueue \in Seq(Message) /\ followUpQueue \in Seq(Message)
  BY <1>a, LoopAssumption DEF TypeOK
<1>c. Told \in Seq(Message) /\ Told' \in Seq(Message)
  BY <1>b, ConcatProperties DEF Told
<1>d. /\ WellTold(Told, responses) /\ EndOf(messages, Told) /\ NewestLast
      /\ AreUsers(steerQueue) /\ AreUsers(followUpQueue)
  BY DEF ToldInv
<1>e. AreUsers(<<>>)
  BY DEF AreUsers
\* Steps that leave the messages alone.
<1>f. ASSUME UNCHANGED <<transcript, context, responses>>
      PROVE  WellTold(Told', responses') /\ EndOf(messages', Told')
  <2>1. Told' = Told /\ messages' = messages
    BY <1>f DEF Told, context
  <2> QED
    BY <1>d, <1>f, <2>1
\* Steps that add queued messages.
<1>g. ASSUME NEW q \in Seq(Message), AreUsers(q), Extend(q), UNCHANGED <<transcript, responses>>
      PROVE  WellTold(Told', responses') /\ EndOf(messages', Told')
  <2>1. Follows(Told, responses, q, responses)
    BY <1>g, UsersFollow
  <2>2. responses <= responses
    BY <1>b
  <2> QED
    BY <1>a, <1>b, <1>g, <2>1, <2>2, TellMore
\* Steps that add a response.
<1>h. ASSUME NEW calls \in Seq(CallId), \A x \in DOMAIN calls : calls[x] = <<responses + 1, x>>,
             Extend(<<Assistant(responses + 1, calls)>>), UNCHANGED transcript, responses' = responses + 1
      PROVE  WellTold(Told', responses') /\ EndOf(messages', Told')
  <2> DEFINE g == <<Assistant(responses + 1, calls)>>
  <2>1. g \in Seq(Message)
    <3>1. Assistant(responses + 1, calls) \in Message
      BY <1>b DEF Assistant, Message, CallId
    <3> QED
      BY <3>1
  <2>2. Follows(Told, responses, g, responses + 1)
    BY <1>b, <1>h, ResponseFollows
  <2>3. responses + 1 \in Nat /\ responses <= responses + 1
    BY <1>b
  <2> HIDE DEF g
  <2>4. Extend(g)
    BY <1>h DEF g
  <2> QED
    BY <1>a, <1>h, <2>1, <2>2, <2>3, <2>4, TellMore
<1>i. ASSUME NEW k \in Nat
      PROVE  CallIds(responses + 1, k) \in Seq(CallId) /\ \A x \in DOMAIN CallIds(responses + 1, k) : CallIds(responses + 1, k)[x] = <<responses + 1, x>>
  <2>1. CallIds(responses + 1, k) = [x \in 1..k |-> <<responses + 1, x>>]
    BY DEF CallIds
  <2>2. responses + 1 \in Nat
    BY <1>b
  <2>3. CallIds(responses + 1, k) \in Seq(CallId)
    BY <2>2, AssistantMessage
  <2> QED
    BY <2>1, <2>3
<1>1. CASE Run
  <2>1. newMessages = <<>> /\ newMessages' = <<>>
    BY <1>1, <1>a DEF Run, Balanced
  <2>2. Told = transcript /\ Told' = transcript'
    BY <1>b, <2>1, ConcatEmptySeq DEF Told
  <2>3. PICK g : g = <<User(users')>>
    OBVIOUS
  <2>4. users' \in Nat /\ User(users') \in Message /\ User(users').role = "user"
    BY <1>a, LoopAssumption, UserMessage DEF TypeOK, User
  <2>5. g \in Seq(Message) /\ AreUsers(g)
    BY <2>3, <2>4, SingleSeq DEF AreUsers
  <2>6. transcript' = transcript \o g
    BY <1>1, <1>b, <2>3, <2>4, AppendIsConcat DEF Run
  <2>7. Follows(Told, responses, g, responses)
    BY <2>5, UsersFollow
  <2>8. WellTold(Told', responses')
    <3>1. responses <= responses /\ responses' = responses
      BY <1>1, <1>b DEF Run
    <3> QED
      BY <1>b, <1>c, <1>d, <2>2, <2>5, <2>6, <2>7, <3>1, ToldGrows
  <2>9. PICK k \in DOMAIN transcript' : messages' = SubSeq(transcript', k, Len(transcript'))
    BY <1>1 DEF Run
  <2>10. EndOf(messages', Told')
    <3> DEFINE n == Len(transcript')
    <3>1. n \in Nat /\ DOMAIN transcript' = 1..n
      BY <1>b, LenProperties
    <3>2. k \in Int /\ n \in Int /\ k \in 1..n /\ \A i \in k..n : transcript'[i] \in Message
      BY <1>b, <3>1, ElementOfSeq
    <3>3. Len(messages') = n - k + 1 /\ \A i \in 1..(n - k + 1) : messages'[i] = transcript'[k + i - 1]
      BY <2>9, <3>2, SubSeqProperties
    <3>4. DOMAIN messages' = 1..Len(messages')
      BY <1>b, LenProperties
    <3>5. k - 1 \in 0..n /\ n = (k - 1) + (n - k + 1) /\ \A i \in 1..(n - k + 1) : k + i - 1 = (k - 1) + i
      <4>1. \A u \in Nat : \A v \in 1..u :
                v - 1 \in 0..u /\ u = (v - 1) + (u - v + 1) /\ \A i \in 1..(u - v + 1) : v + i - 1 = (v - 1) + i
        OBVIOUS
      <4> HIDE DEF n
      <4> QED
        BY ONLY <3>1, <3>2, <4>1
    <3>6. Len(transcript') = (k - 1) + Len(messages') /\ k - 1 \in 0..Len(transcript') /\ \A i \in DOMAIN messages' : messages'[i] = transcript'[(k - 1) + i]
      BY <3>3, <3>4, <3>5
    <3> QED
      BY <2>2, <3>6 DEF EndOf
  <2> QED
    BY <1>1, <1>d, <2>8, <2>10 DEF Run, ToldInv, NewestLast, queues
<1>2. CASE DrainSteer
  <2>1. Extend(steerQueue) /\ UNCHANGED <<transcript, responses>>
    BY <1>2 DEF DrainSteer, counters
  <2>2. WellTold(Told', responses') /\ EndOf(messages', Told')
    BY <1>b, <1>d, <1>g, <2>1
  <2> QED
    BY <1>2, <1>d, <1>e, <2>2 DEF DrainSteer, Continue, ToldInv, NewestLast
<1>3. CASE BeginTurn
  BY <1>3, <1>d, <1>f DEF BeginTurn, EndWith, Continue, ToldInv, NewestLast, queues, counters
<1>4. CASE CallProvider
  BY <1>4, <1>d, <1>f DEF CallProvider, EndWith, Continue, ToldInv, NewestLast, queues, counters
<1>5. CASE AttemptFails
  BY <1>5, <1>d, <1>f DEF AttemptFails, EndWith, Continue, ToldInv, NewestLast, queues, counters
<1>6. CASE StreamCancelled
  BY <1>6, <1>d, <1>f DEF StreamCancelled, EndWith, ToldInv, NewestLast, queues, counters
<1>7. CASE Respond
  <2>1. UNCHANGED <<transcript, queues>> /\ responses' = responses + 1
    BY <1>7 DEF Respond
  <2>2. CASE Extend(<<Assistant(responses', <<>>)>>) /\ Continue("stopped")
    <3>1. <<>> \in Seq(CallId) /\ \A x \in DOMAIN <<>> : <<>>[x] = <<responses + 1, x>>
      OBVIOUS
    <3>2. WellTold(Told', responses') /\ EndOf(messages', Told')
      BY <1>h, <2>1, <2>2, <3>1
    <3> QED
      BY <1>d, <2>1, <2>2, <3>2 DEF Continue, ToldInv, NewestLast, queues
  <2>3. ASSUME NEW k \in 1..MaxCalls, Extend(<<Assistant(responses', CallIds(responses', k))>>) PROVE ToldInv'
    <3>1. k \in Nat
      BY LoopAssumption
    <3>2. WellTold(Told', responses') /\ EndOf(messages', Told')
      BY <1>h, <1>i, <2>1, <2>3, <3>1
    <3>3. PICK g : g = <<Assistant(responses', CallIds(responses', k))>>
      OBVIOUS
    <3>4. Assistant(responses', CallIds(responses', k)) \in Message /\ Assistant(responses', CallIds(responses', k)).role = "assistant"
      <4>1. Assistant(responses', CallIds(responses', k)) \in Message
        BY <1>b, <3>1, AssistantMessage
      <4> QED
        BY <4>1 DEF Assistant
    <3>5. g \in Seq(Message) /\ Len(g) = 1 /\ g[1].role = "assistant"
      BY <3>3, <3>4, SingleSeq
    <3>6. messages' = messages \o g
      BY <2>3, <3>3 DEF Extend
    <3>7. messages' # <<>> /\ messages'[Len(messages')].role = "assistant"
      <4>a. messages \in Seq(Message) /\ g \in Seq(Message) /\ messages' = messages \o g
        BY <1>b, <3>5, <3>6
      <4>1. /\ messages' \in Seq(Message) /\ Len(messages) \in Nat /\ Len(g) \in Nat
            /\ DOMAIN messages = 1..Len(messages) /\ DOMAIN g = 1..Len(g) /\ DOMAIN messages' = 1..(Len(messages) + Len(g))
            /\ \A i \in DOMAIN messages : i \in DOMAIN messages' /\ messages'[i] = messages[i]
            /\ \A i \in DOMAIN g : Len(messages) + i \in DOMAIN messages' /\ messages'[Len(messages) + i] = g[i]
            /\ \A i \in DOMAIN messages' : (i \in DOMAIN messages /\ messages'[i] = messages[i])
                  \/ (i > Len(messages) /\ i - Len(messages) \in DOMAIN g /\ messages'[i] = g[i - Len(messages)])
        BY ONLY <4>a, ConcatAt
      <4>2. Len(messages') = Len(messages) + 1
        <5>1. Len(messages \o g) = Len(messages) + Len(g)
          BY ONLY <4>a, ConcatProperties
        <5> QED
          BY <3>5, <4>a, <5>1
      <4>3. Len(messages) + 1 \in DOMAIN messages' /\ messages'[Len(messages) + 1] = g[1]
        BY <3>5, <4>1
      <4> QED
        BY <3>5, <4>2, <4>3
    <3> QED
      BY <1>d, <2>1, <3>2, <3>7 DEF ToldInv, NewestLast, queues
  <2> QED
    BY <1>7, <2>2, <2>3 DEF Respond
<1>8. CASE RespondInvalid
  <2>1. PICK k \in 0..MaxCalls : Extend(<<Assistant(responses', CallIds(responses', k))>>)
    BY <1>8 DEF RespondInvalid
  <2>2. k \in Nat /\ UNCHANGED transcript /\ responses' = responses + 1
    BY <1>8, LoopAssumption DEF RespondInvalid
  <2>3. WellTold(Told', responses') /\ EndOf(messages', Told')
    BY <1>h, <1>i, <2>1, <2>2
  <2> QED
    BY <1>8, <1>d, <2>3 DEF RespondInvalid, EndWith, ToldInv, NewestLast, queues
<1>9. CASE ToolStep
  <2>1. PICK i \in DOMAIN tools, how \in {"running", "done", "terminates", "cancelled"} : Set(i, how)
    BY <1>9 DEF ToolStep, StartTool, FinishTool, CancelTool
  <2> QED
    BY <1>d, <1>f, <2>1 DEF Set, ToldInv, NewestLast, context, queues, counters
<1>10. CASE EndTools
  <2> DEFINE last == messages[Len(messages)]
             g == [k \in 1..Executed |-> Result(last.calls[k])]
  <2>1. pc = "tools" /\ Extend(g) /\ UNCHANGED <<transcript, queues, responses>> /\ pc' # "tools"
    BY <1>10 DEF EndTools, Continue, counters
  <2>2. messages # <<>> /\ last.role = "assistant" /\ last.calls \in Seq(CallId) /\ Len(last.calls) = Len(tools)
    BY <1>a, <1>d, <2>1 DEF NewestLast, ToolsAreNewest
  <2>3. g \in Seq(Message) /\ Executed \in 0..Len(last.calls)
    BY <1>a, <2>2, ExecutedBound, ResultMessages
  <2>4. Len(Told) \in DOMAIN Told /\ Told[Len(Told)] = last
    <3>1. PICK s \in 0..Len(Told) : Len(Told) = s + Len(messages) /\ \A i \in DOMAIN messages : messages[i] = Told[s + i]
      BY <1>d DEF EndOf
    <3>2. Len(Told) \in Nat /\ Len(messages) \in Nat /\ DOMAIN messages = 1..Len(messages) /\ DOMAIN Told = 1..Len(Told) /\ Len(messages) # 0
      BY <1>b, <1>c, <2>2, LenProperties, EmptySeq
    <3>3. Len(messages) \in DOMAIN messages /\ Len(Told) \in DOMAIN Told
      BY <3>1, <3>2
    <3> QED
      BY <3>1, <3>3
  <2>5. Follows(Told, responses, g, responses)
    BY <1>b, <1>c, <1>d, <2>2, <2>3, <2>4, ResultsFollow
  <2>6. WellTold(Told', responses') /\ EndOf(messages', Told')
    <3>1. responses <= responses /\ responses' = responses
      BY <1>b, <2>1
    <3> HIDE DEF g
    <3> QED
      BY <1>a, <1>b, <2>1, <2>3, <2>5, <3>1, TellMore
  <2> QED
    BY <1>d, <2>1, <2>6 DEF ToldInv, NewestLast, queues
<1>11. CASE DrainFollowUps
  <2>1. Extend(followUpQueue) /\ UNCHANGED <<transcript, responses>>
    BY <1>11 DEF DrainFollowUps, counters
  <2>2. WellTold(Told', responses') /\ EndOf(messages', Told')
    BY <1>b, <1>d, <1>g, <2>1
  <2> QED
    BY <1>11, <1>d, <1>e, <2>2 DEF DrainFollowUps, EndWith, Continue, ToldInv, NewestLast
<1>12. CASE TakeResult
  <2>1. newMessages' = <<>> /\ messages' = <<>> /\ UNCHANGED <<queues, responses>> /\ pc' = "idle"
    BY <1>12 DEF TakeResult, counters
  <2>2. Told' = transcript'
    BY <1>b, <2>1, ConcatEmptySeq DEF Told
  <2>3. WellTold(Told', responses')
    <3>1. CASE transcript' = transcript \o newMessages
      BY <1>d, <2>1, <2>2, <3>1 DEF Told
    <3>2. CASE transcript' = transcript
      <4>1. \A i \in DOMAIN transcript : 0 + i \in DOMAIN Told /\ transcript[i] = Told[0 + i]
        <5>1. \A i \in DOMAIN transcript : i \in DOMAIN Told /\ Told[i] = transcript[i]
          BY <1>b, ConcatAt DEF Told
        <5>2. \A i \in DOMAIN transcript : 0 + i = i
          BY <1>b, LenProperties
        <5> QED
          BY <5>1, <5>2
      <4>2. WellTold(transcript, responses)
        BY <1>b, <1>c, <1>d, <4>1, PartIsWellTold
      <4> QED
        BY <2>1, <2>2, <3>2, <4>2
    <3> QED
      BY <1>12, <3>1, <3>2 DEF TakeResult
  <2>4. EndOf(messages', Told')
    <3>1. Len(messages') = 0 /\ DOMAIN messages' = {}
      BY <2>1
    <3>2. Len(Told') \in Nat
      BY <1>c, LenProperties
    <3>3. Len(Told') \in 0..Len(Told') /\ Len(Told') = Len(Told') + 0
      BY <3>2
    <3> QED
      BY <3>1, <3>3 DEF EndOf
  <2> QED
    BY <1>d, <2>1, <2>3, <2>4 DEF ToldInv, NewestLast, queues
<1>13. CASE Queue
  <2>1. UNCHANGED <<transcript, context, responses, pc>>
    BY <1>13 DEF Queue
  <2>2. WellTold(Told', responses') /\ EndOf(messages', Told')
    BY <1>f, <2>1
  <2>3. User(users').role = "user"
    BY DEF User
  <2>4. ASSUME NEW q \in Seq(Message), AreUsers(q) PROVE AreUsers(Append(q, User(users')))
    BY <2>3, <2>4, AppendedAt DEF AreUsers
  <2>5. AreUsers(steerQueue') /\ AreUsers(followUpQueue')
    BY <1>13, <1>b, <1>d, <2>4 DEF Queue
  <2> QED
    BY <1>d, <2>1, <2>2, <2>5 DEF ToldInv, NewestLast, context
<1>14. CASE Cancel
  BY <1>14, <1>d, <1>f DEF Cancel, ToldInv, NewestLast, context, queues, counters
<1>15. CASE UNCHANGED vars
  BY <1>15, <1>d, <1>f DEF vars, ToldInv, NewestLast, context, queues, counters
<1> QED
  BY <1>1, <1>2, <1>3, <1>4, <1>5, <1>6, <1>7, <1>8, <1>9, <1>10, <1>11, <1>12, <1>13, <1>14, <1>15 DEF Next, LoopStep

\* In each request of each call the provider gets, each tool call of the conversation is
\* answered once, behind its message and before the conversation goes on, whatever was
\* cancelled, refused or cut off (resolve_orphan_tool_calls, pad_orphan_tool_results).
THEOREM RequestsAnswerCalls ==
  ASSUME UniqueIds
  PROVE  Spec => []RequestAnswersCalls
<1>1. Init => ToldInv
  <2>1. <<>> \o <<>> = <<>> /\ Len(<<>>) = 0 /\ DOMAIN <<>> = {}
    BY ConcatEmptySeq, EmptySeq
  <2>2. WellTold(<<>>, 0)
    BY <2>1 DEF WellTold, OwnCalls, OneOfAnId, ResultsBehind, OneResultEach, ResultsOfOld
  <2>3. EndOf(<<>>, <<>>)
    <3>1. 0 \in 0..Len(<<>>) /\ Len(<<>>) = 0 + Len(<<>>)
      BY <2>1
    <3> QED
      BY <2>1, <3>1 DEF EndOf
  <2> QED
    BY <2>1, <2>2, <2>3 DEF Init, ToldInv, Told, NewestLast, AreUsers
<1>2. IInv /\ ToldInv => RequestAnswersCalls
  <2>1. SUFFICES ASSUME IInv, ToldInv PROVE CallsAnswered(Request)
    BY DEF RequestAnswersCalls, CallsAnswered
  <2>2. transcript \in Seq(Message) /\ newMessages \in Seq(Message) /\ messages \in Seq(Message) /\ responses \in Nat
    BY <2>1, LoopAssumption DEF IInv, TypeOK
  <2>3. Told \in Seq(Message)
    BY <2>2, ConcatProperties DEF Told
  <2>4. WellTold(messages, responses)
    BY <2>1, <2>2, <2>3, EndIsWellTold DEF ToldInv
  <2>5. ResolveOrphans(messages) \in Seq(Message) /\ AnswersInPlace(ResolveOrphans(messages))
    BY <2>2, <2>4, ResolveAnswers
  <2> QED
    BY <2>5, PadKeeps DEF Request
<1> QED
  BY <1>1, <1>2, ToldStep, IInvInvariant, PTL DEF Spec

-----------------------------------------------------------------------------
(* The session.                                                            *)

\* Whoever holds the mutex found the session not in Error, and leaves it when it
\* is.
HolderSound == stage # "free" => state # "Error"

ActorIInv == ActorTypeOK /\ HolderSound

\* Every step keeps the invariant.
LEMMA ActorIInvStep == ActorIInv /\ [ActorNext]_actorVars => ActorIInv'
<1> SUFFICES ASSUME ActorIInv, [ActorNext]_actorVars PROVE ActorIInv'
  OBVIOUS
<1> USE DEF ActorIInv
<1> USE DEF circumstances
<1>e. ASSUME NEW place \in {"running", "streaming"}, EnterRunning(place) PROVE ActorIInv'
  BY <1>e DEF EnterRunning, ActorTypeOK, HolderSound
<1>i. ASSUME StartIteration PROVE ActorIInv'
  BY <1>i, <1>e DEF StartIteration
<1>r. ASSUME NEW s \in {"Idle", "Running", "Error"}, Return(s) PROVE ActorIInv'
  BY <1>r DEF Return, ActorTypeOK, HolderSound, tokens
<1>1. CASE StartPrompt
  BY <1>1 DEF StartPrompt, ActorTypeOK, HolderSound, tokens
<1>2. CASE Prepare
  BY <1>2, <1>i, <1>r DEF Prepare, ActorTypeOK
<1>3. CASE RunOk
  BY <1>3 DEF RunOk, GoTo, ActorTypeOK, HolderSound, tokens
<1>4. CASE RunFails
  <2>1. PICK s \in {"Error", "Idle"} : Return(s)
    BY <1>4 DEF RunFails
  <2> QED
    BY <2>1, <1>r
<1>5. CASE RunOverflows
  BY <1>5, <1>r DEF RunOverflows, GoTo, ActorTypeOK, HolderSound, tokens
<1>6. CASE Recover
  BY <1>6, <1>i, <1>r DEF Recover, ActorTypeOK
<1>7. CASE CompactMidLoop
  BY <1>7, <1>r DEF CompactMidLoop, GoTo, ActorTypeOK, HolderSound, tokens
<1>8. CASE Finish
  BY <1>8 DEF Finish, ActorTypeOK, HolderSound, tokens
<1>9. CASE Disconnect
  BY <1>9, <1>r DEF Disconnect, ActorTypeOK
<1>10. CASE Interrupt \/ Reset \/ Delete
  BY <1>10 DEF Interrupt, Reset, Delete, ActorTypeOK, HolderSound
<1>11. ASSUME NEW t \in Token, BackgroundStep(t) PROVE ActorIInv'
  BY <1>11 DEF BackgroundStep, LoopWakes, LoopIterates, LoopStops, ActorTypeOK, HolderSound, tokens
<1>12. CASE CompleteWithDeltas
  BY <1>12, <1>e DEF CompleteWithDeltas
<1>13. CASE StreamedRunEnds
  BY <1>13, <1>r DEF StreamedRunEnds
<1>14. CASE UNCHANGED actorVars
  BY <1>14 DEF actorVars, ActorTypeOK, HolderSound
<1> QED
  BY <1>1, <1>2, <1>3, <1>4, <1>5, <1>6, <1>7, <1>8, <1>9, <1>10, <1>11, <1>12, <1>13, <1>14
     DEF ActorNext, ActorStep

\* The invariant holds of every behaviour.
LEMMA ActorInvariant == ActorSpec => []ActorIInv
<1>1. ActorInit => ActorIInv
  BY DEF ActorInit, ActorIInv, ActorTypeOK, HolderSound
<1> QED
  BY <1>1, ActorIInvStep, PTL DEF ActorSpec

\* Every variable keeps its type: the tokens held by the actor, the table and
\* the loops are tokens that exist.
THEOREM ActorTypeCorrect == ActorSpec => []ActorTypeOK
<1>1. ActorIInv => ActorTypeOK
  BY DEF ActorIInv
<1> QED
  BY <1>1, ActorInvariant, PTL

\* While no client goes away, SessionState is Running exactly during
\* AgentLoop::run: every early return of run_with_messages and complete_with_deltas sets it.
THEOREM StateFollowsRuns == ActorSpec => []StateTellsRun
<1>1. ActorInit => StateTellsRun
  BY DEF ActorInit, StateTellsRun
<1>2. StateTellsRun /\ [ActorNext]_actorVars => StateTellsRun'
  <2> SUFFICES ASSUME StateTellsRun, [ActorNext]_actorVars PROVE StateTellsRun'
    OBVIOUS
  <2> USE DEF StateTellsRun, circumstances
  <2>1. CASE StartPrompt
    BY <2>1 DEF StartPrompt
  <2>2. CASE Prepare \/ Recover
    BY <2>2 DEF Prepare, Recover, StartIteration, EnterRunning, Return
  <2>3. CASE RunOk
    BY <2>3 DEF RunOk, GoTo
  <2>4. CASE RunFails
    BY <2>4 DEF RunFails, Return
  <2>5. CASE RunOverflows
    BY <2>5 DEF RunOverflows, GoTo, Return
  <2>6. CASE CompactMidLoop
    BY <2>6 DEF CompactMidLoop, GoTo, Return
  <2>7. CASE Finish
    BY <2>7 DEF Finish
  <2>8. CASE Disconnect
    BY <2>8 DEF Disconnect, Return
  <2>9. CASE Interrupt \/ Reset \/ Delete
    BY <2>9 DEF Interrupt, Reset, Delete
  <2>10. CASE \E t \in Token : BackgroundStep(t)
    BY <2>10 DEF BackgroundStep, LoopWakes, LoopIterates, LoopStops
  <2>11. CASE CompleteWithDeltas
    BY <2>11 DEF CompleteWithDeltas, EnterRunning
  <2>12. CASE StreamedRunEnds
    BY <2>12 DEF StreamedRunEnds, Return
  <2>13. CASE UNCHANGED actorVars
    BY <2>13 DEF actorVars
  <2> QED
    BY <2>1, <2>2, <2>3, <2>4, <2>5, <2>6, <2>7, <2>8, <2>9, <2>10, <2>11, <2>12, <2>13 DEF ActorNext, ActorStep
<1> QED
  BY <1>1, <1>2, PTL DEF ActorSpec

\* A session in Error stays in it until SessionActor::reset or a streamed completion, the
\* one call that does not look for Error: no prompt that is already under way, and no
\* disconnect or interrupt, clears it.
THEOREM ErrorIsKept == ActorSpec => ErrorStands
<1> DEFINE A == state = "Error" /\ state' # "Error" => Reset \/ CompleteWithDeltas
<1>1. ActorIInv /\ [ActorNext]_actorVars => [A]_actorVars
  <2> SUFFICES ASSUME ActorIInv, ActorNext, state = "Error", state' # "Error" PROVE Reset \/ CompleteWithDeltas
    BY DEF actorVars
  <2>1. stage = "free"
    BY DEF ActorIInv, HolderSound
  <2>2. ~StartPrompt /\ ~ActorStep /\ ~Disconnect
    BY <2>1 DEF StartPrompt, ActorStep, Prepare, RunOk, RunFails, RunOverflows, Recover,
                CompactMidLoop, Finish, StreamedRunEnds, Disconnect
  <2>3. ~Interrupt /\ ~Delete
    BY DEF Interrupt, Delete
  <2>4. ~\E t \in Token : BackgroundStep(t)
    BY DEF BackgroundStep, LoopWakes, LoopIterates, LoopStops
  <2> QED
    BY <2>2, <2>3, <2>4 DEF ActorNext
<1> QED
  BY <1>1, ActorInvariant, PTL DEF ActorSpec, ErrorStands

\* reset_abort_token gives each iteration of run_with_messages, and each streamed
\* completion, a token nobody has cancelled: interrupts and resets of the past do not
\* reach it.
THEOREM RunsStartUncancelled == ActorSpec => StartsUncancelled
<1> DEFINE Runs == {"running", "streaming"}
           A == stage \notin Runs /\ stage' \in Runs => token' \notin cancelledTokens'
<1>1. [ActorNext]_actorVars => [A]_actorVars
  <2> SUFFICES ASSUME ActorNext, stage \notin Runs, stage' \in Runs PROVE token' \notin cancelledTokens'
    BY DEF actorVars
  <2>1. StartIteration \/ CompleteWithDeltas
    <3>1. Prepare \/ Recover \/ CompleteWithDeltas
      BY DEF ActorNext, ActorStep, StartPrompt, RunOk, RunFails, RunOverflows, CompactMidLoop, Finish,
             StreamedRunEnds, Disconnect, Interrupt, Reset, Delete, BackgroundStep, LoopWakes, LoopIterates,
             LoopStops, GoTo, Return
    <3> QED
      BY <3>1 DEF Prepare, Recover, Return
  <2> QED
    BY <2>1 DEF StartIteration, CompleteWithDeltas, EnterRunning
<1> QED
  BY <1>1, PTL DEF ActorSpec, StartsUncancelled
=============================================================================
