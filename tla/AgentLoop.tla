------------------------------ MODULE AgentLoop ------------------------------
(***************************************************************************)
(* One agent loop: AgentLoop::run and run_turn (agent-core/src/harness/    *)
(* agent_loop.rs), the request each turn sends (resolve_orphan_tool_calls  *)
(* and ai-provider's transform_messages), the tool calls it executes, the  *)
(* two input queues and the cancellation signal.                           *)
(*                                                                         *)
(* Between two of its awaits the loop is one step.  Its environment is the *)
(* provider, which answers as it likes, the tools, whoever queues messages *)
(* and whoever holds the signal.  Hooks that change nothing are left out.  *)
(* The caller keeps a transcript and starts each run with the end of it,   *)
(* all of it or what ContextStrategy::Compact keeps.                       *)
(***************************************************************************)
EXTENDS Integers, Sequences, FiniteSets, SequencesExt

CONSTANTS
    MaxResponses,   \* bound: responses the provider ever gives
    MaxCalls,       \* bound: tool calls in one response
    MaxUsers,       \* bound: user messages, prompts and queued ones
    MaxRetries,     \* StreamOptions::max_retries
    UniqueIds,      \* FALSE: GoogleProvider, whose ids repeat (call_<n>) and whose
                    \* responses with calls say Stop
    QueuesWhileRunning  \* whether messages are queued during a run, too

ASSUME LoopAssumption ==
    /\ {MaxResponses, MaxCalls, MaxUsers, MaxRetries} \subseteq Nat
    /\ {UniqueIds, QueuesWhileRunning} \subseteq BOOLEAN

VARIABLES
    pc,             \* where the loop is
    outcome,        \* what the last run returned
    transcript,     \* the caller's messages
    initial,        \* the context this run was started with
    messages,       \* run's messages
    newMessages,    \* run's new_messages
    steerQueue, followUpQueue,
    cancelled,      \* the signal of this run
    attempt,        \* retry_count
    tools,          \* the calls of the newest response: how each stands
    mode,           \* "parallel", or "sequential" when one of the tools asks for it
    stop,           \* stop_reason of the newest response
    responses,      \* responses so far
    users           \* user messages so far

context == <<initial, messages, newMessages>>
queues == <<steerQueue, followUpQueue>>
counters == <<responses, users>>
turn == <<attempt, tools, mode, stop>>
vars == <<pc, outcome, transcript, context, queues, cancelled, turn, counters>>

\* Messages.  A user message is a number.
User(n) == [role |-> "user", id |-> n]
Assistant(n, calls) == [role |-> "assistant", id |-> n, calls |-> calls]
Result(c) == [role |-> "result", call |-> c]

\* The synthetic message of pad_orphan_tool_results.
Padding == Assistant(0, <<>>)

\* The ids of the calls in a response.
CallIds(n, k) == [i \in 1..k |-> IF UniqueIds THEN <<n, i>> ELSE <<0, i>>]

CallsOf(m) == IF m.role = "assistant" THEN m.calls ELSE <<>>

-----------------------------------------------------------------------------
(* What is sent to the provider.                                           *)

Answered(ms) == {ms[i].call : i \in {j \in DOMAIN ms : ms[j].role = "result"}}

\* Faulty: only the first call of a message is looked at.
ResolveOrphans_FirstCall(ms) ==
    LET first(m) == SelectSeq(CallsOf(m), LAMBDA c : c = CallsOf(m)[1])
        orphans(m) == SelectSeq(first(m), LAMBDA c : c \notin Answered(ms))
        filled(m) == <<m>> \o [k \in DOMAIN orphans(m) |-> Result(orphans(m)[k])]
    IN  FlattenSeq([i \in DOMAIN ms |-> filled(ms[i])])

\* The calls of a message that have no result, anywhere, the last one first.
Orphans(ms, m) ==
    LET Keep(kept, c) == IF c \in Answered(ms) THEN kept ELSE <<c>> \o kept
    IN  FoldLeft(Keep, <<>>, CallsOf(m))

\* resolve_orphan_tool_calls: each of them gets an error result right behind its
\* message.
ResolveOrphans(ms) ==
    LET filled(m) == <<m>> \o [k \in DOMAIN Orphans(ms, m) |-> Result(Orphans(ms, m)[k])]
    IN  FlattenSeq([i \in DOMAIN ms |-> filled(ms[i])])

\* pad_orphan_tool_results: a result that does not come right behind an
\* assistant message gets an empty one in front.
PadResults(ms) ==
    LET stray(i) == ms[i].role = "result" /\ (i = 1 \/ ms[i - 1].role # "assistant")
    IN  FlattenSeq([i \in DOMAIN ms |-> IF stray(i) THEN <<Padding, ms[i]>> ELSE <<ms[i]>>])

\* What a provider call sends.
Request == PadResults(ResolveOrphans(messages))

-----------------------------------------------------------------------------
Init ==
    /\ pc = "idle" /\ outcome = "none"
    /\ transcript = <<>>
    /\ initial = <<>> /\ messages = <<>> /\ newMessages = <<>>
    /\ steerQueue = <<>> /\ followUpQueue = <<>>
    /\ cancelled = FALSE /\ attempt = 0
    /\ tools = <<>> /\ mode = "parallel" /\ stop = "stop"
    /\ responses = 0 /\ users = 0

\* The caller appends a prompt and starts a run with the end of its transcript.
Run ==
    /\ pc = "idle"
    /\ users < MaxUsers
    /\ users' = users + 1
    /\ transcript' = Append(transcript, User(users'))
    /\ \E k \in DOMAIN transcript' : initial' = SubSeq(transcript', k, Len(transcript'))
    /\ messages' = initial'
    /\ pc' = "outer"
    /\ UNCHANGED <<outcome, newMessages, queues, cancelled, turn, responses>>

EndWith(o) == pc' = "ended" /\ outcome' = o

Continue(place) == pc' = place /\ UNCHANGED outcome

Extend(ms) ==
    /\ messages' = messages \o ms
    /\ newMessages' = newMessages \o ms
    /\ UNCHANGED initial

\* The outer loop: drain the steer queue.
DrainSteer ==
    /\ pc = "outer"
    /\ Extend(steerQueue)
    /\ steerQueue' = <<>>
    /\ Continue("check")
    /\ UNCHANGED <<transcript, followUpQueue, cancelled, turn, counters>>

\* The inner loop: return Cancelled, or begin a turn.
BeginTurn ==
    /\ pc = "check"
    /\ IF cancelled THEN EndWith("cancelled") ELSE Continue("calling")
    /\ UNCHANGED <<transcript, context, queues, cancelled, turn, counters>>

-----------------------------------------------------------------------------
(* call_llm_with_retry.                                                    *)

\* Faulty: an attempt does not look at the signal.
CallProvider_Blind ==
    /\ pc = "calling"
    /\ Continue("streaming")
    /\ UNCHANGED <<transcript, context, queues, cancelled, turn, counters>>

\* An attempt, the first one or after a back-off.
CallProvider ==
    /\ pc = "calling"
    /\ IF cancelled THEN EndWith("cancelled") ELSE Continue("streaming")
    /\ UNCHANGED <<transcript, context, queues, cancelled, turn, counters>>

\* A retryable failure, of stream() or of the stream, is tried again.
AttemptFails ==
    /\ pc = "streaming"
    /\ \/ /\ attempt < MaxRetries
          /\ attempt' = attempt + 1
          /\ Continue("calling")
       \/ /\ EndWith("failed")
          /\ UNCHANGED attempt
    /\ UNCHANGED <<transcript, context, queues, cancelled, tools, mode, stop, counters>>

\* The signal is seen when the next event of the stream arrives.
StreamCancelled ==
    /\ pc = "streaming" /\ cancelled
    /\ EndWith("cancelled")
    /\ UNCHANGED <<transcript, context, queues, cancelled, turn, counters>>

\* A response's message is pushed; there is no call, or the calls are executed.
Respond ==
    /\ pc = "streaming"
    /\ responses < MaxResponses
    /\ responses' = responses + 1
    /\ attempt' = 0
    /\ \/ /\ Extend(<<Assistant(responses', <<>>)>>)
          /\ Continue("stopped")
          /\ UNCHANGED <<tools, mode, stop>>
       \/ \E k \in 1..MaxCalls :
          /\ Extend(<<Assistant(responses', CallIds(responses', k))>>)
          /\ tools' = [i \in 1..k |-> "waiting"]
          /\ mode' \in {"parallel", "sequential"}
          /\ stop' \in (IF UniqueIds THEN {"stop", "tool_use"} ELSE {"stop"})
          /\ Continue("tools")
    /\ UNCHANGED <<transcript, queues, cancelled, users>>

\* A response that ends in Error (an overflow, or anything else), Aborted or
\* Length ends the run; its tool calls are not executed.
RespondInvalid ==
    /\ pc = "streaming"
    /\ responses < MaxResponses
    /\ responses' = responses + 1
    /\ \E k \in 0..MaxCalls : Extend(<<Assistant(responses', CallIds(responses', k))>>)
    /\ \E o \in {"overflow", "failed"} : EndWith(o)
    /\ UNCHANGED <<transcript, queues, cancelled, turn, users>>

-----------------------------------------------------------------------------
(* execute_tools.                                                          *)

Set(i, how) ==
    /\ pc = "tools"
    /\ tools' = [tools EXCEPT ![i] = how]
    /\ UNCHANGED <<pc, outcome, transcript, context, queues, cancelled, attempt, mode, stop, counters>>

\* In turn, or all at once; only the sequential loop looks at the signal first.
StartTool(i) ==
    /\ tools[i] = "waiting"
    /\ mode = "sequential" =>
          ~cancelled /\ \A j \in 1..i - 1 : tools[j] \notin {"waiting", "running"}
    /\ Set(i, "running")

\* execute_single_tool always comes to a result: the tool's, with or without
\* the terminate flag, or an error.
FinishTool(i) ==
    /\ tools[i] = "running"
    /\ \E how \in {"done", "terminates"} : Set(i, how)

\* A parallel call races the signal.
CancelTool(i) ==
    /\ mode = "parallel" /\ cancelled
    /\ tools[i] \in {"waiting", "running"}
    /\ Set(i, "cancelled")

ToolStep == \E i \in DOMAIN tools : StartTool(i) \/ FinishTool(i) \/ CancelTool(i)

\* How many calls, the first ones, execute_tools has results for: the sequential
\* loop breaks off when cancelled.
Executed == Cardinality({i \in DOMAIN tools : tools[i] # "waiting"})

\* Faulty: a cancelled sequence waits for the calls it will not start.
ToolsOver_AllOfThem == \A i \in DOMAIN tools : tools[i] \notin {"waiting", "running"}

ToolsOver ==
    /\ \A i \in DOMAIN tools : tools[i] # "running"
    /\ \/ \A i \in DOMAIN tools : tools[i] # "waiting"
       \/ mode = "sequential" /\ cancelled

\* What was local to the turn is gone.
ToolsForgotten == tools' = <<>> /\ mode' = "parallel" /\ stop' = "stop"

\* Faulty: the results reach the context of this run only.
EndTools_NotNew ==
    LET assistant == messages[Len(messages)]
        results == [k \in 1..Executed |-> Result(assistant.calls[k])]
        allTerminate == Executed > 0 /\ \A k \in 1..Executed : tools[k] = "terminates"
    IN  /\ pc = "tools"
        /\ ToolsOver
        /\ messages' = messages \o results
        /\ Continue(IF allTerminate \/ stop # "tool_use" THEN "stopped" ELSE "check")
        /\ ToolsForgotten
        /\ UNCHANGED <<transcript, initial, newMessages, queues, cancelled, attempt, counters>>

\* run_turn's end: the results are pushed, in the order of the calls; the turn
\* goes on unless all of them terminate or the response did not ask for tools.
EndTools ==
    LET assistant == messages[Len(messages)]
        results == [k \in 1..Executed |-> Result(assistant.calls[k])]
        allTerminate == Executed > 0 /\ \A k \in 1..Executed : tools[k] = "terminates"
    IN  /\ pc = "tools"
        /\ ToolsOver
        /\ Extend(results)
        /\ Continue(IF allTerminate \/ stop # "tool_use" THEN "stopped" ELSE "check")
        /\ ToolsForgotten
        /\ UNCHANGED <<transcript, queues, cancelled, attempt, counters>>

-----------------------------------------------------------------------------
\* The inner loop has stopped: go on with the follow-ups, or return Ok.
DrainFollowUps ==
    /\ pc = "stopped"
    /\ Extend(followUpQueue)
    /\ followUpQueue' = <<>>
    /\ IF followUpQueue = <<>> THEN EndWith("ok") ELSE Continue("outer")
    /\ UNCHANGED <<transcript, steerQueue, cancelled, turn, counters>>

\* The caller takes the result: with Ok it keeps the new messages.
TakeResult ==
    /\ pc = "ended"
    /\ transcript' = IF outcome = "ok" THEN transcript \o newMessages ELSE transcript
    /\ pc' = "idle" /\ outcome' = "none"
    /\ initial' = <<>> /\ messages' = <<>> /\ newMessages' = <<>>
    /\ cancelled' = FALSE /\ attempt' = 0
    /\ UNCHANGED <<queues, tools, mode, stop, counters>>

Queue ==
    /\ users < MaxUsers
    /\ pc \in {"idle", "ended"} \/ QueuesWhileRunning
    /\ users' = users + 1
    /\ \/ steerQueue' = Append(steerQueue, User(users')) /\ UNCHANGED followUpQueue
       \/ followUpQueue' = Append(followUpQueue, User(users')) /\ UNCHANGED steerQueue
    /\ UNCHANGED <<pc, outcome, transcript, context, cancelled, turn, responses>>

Cancel ==
    /\ pc \notin {"idle", "ended"}
    /\ ~cancelled
    /\ cancelled' = TRUE
    /\ UNCHANGED <<pc, outcome, transcript, context, queues, turn, counters>>

LoopStep ==
    \/ DrainSteer \/ BeginTurn
    \/ CallProvider \/ AttemptFails \/ StreamCancelled \/ Respond \/ RespondInvalid
    \/ ToolStep \/ EndTools
    \/ DrainFollowUps

Next == Run \/ LoopStep \/ TakeResult \/ Queue \/ Cancel

Spec == Init /\ [][Next]_vars

\* The runtime polls the loop, an attempt comes to some end, and so does a tool.
LiveSpec == Spec /\ WF_vars(LoopStep)

-----------------------------------------------------------------------------
(* Properties.                                                             *)

Message == [role : {"user"}, id : Nat]
    \cup [role : {"assistant"}, id : Nat, calls : Seq(Nat \X Nat)]
    \cup [role : {"result"}, call : Nat \X Nat]

TypeOK ==
    /\ pc \in {"idle", "outer", "check", "calling", "streaming", "tools", "stopped", "ended"}
    /\ outcome \in {"none", "ok", "cancelled", "overflow", "failed"}
    /\ transcript \in Seq(Message)
    /\ initial \in Seq(Message) /\ messages \in Seq(Message) /\ newMessages \in Seq(Message)
    /\ steerQueue \in Seq(Message) /\ followUpQueue \in Seq(Message)
    /\ cancelled \in BOOLEAN
    /\ attempt \in 0..MaxRetries
    /\ tools \in Seq({"waiting", "running", "done", "terminates", "cancelled"})
    /\ mode \in {"parallel", "sequential"}
    /\ stop \in {"stop", "tool_use"}
    /\ responses \in 0..MaxResponses
    /\ users \in 0..MaxUsers

\* What a run returns is what it added to its context, no more and no less:
\* the caller's transcript is the conversation the provider saw.
ReturnsWhatItAdded == pc # "idle" => messages = initial \o newMessages

\* The results right behind position i, up to the next message that is neither
\* a result nor padding.
Behind(ms, i) ==
    {j \in i + 1..Len(ms) :
        \A k \in i + 1..j : ms[k].role = "result" \/ ms[k] = Padding}

\* In each request each tool call is answered exactly once, behind its message
\* and before the conversation goes on, also when calls were cancelled or left
\* out, or when the transcript was cut off.
RequestAnswersCalls ==
    pc = "streaming" =>
        \A i \in DOMAIN Request : \A c \in ToSet(CallsOf(Request[i])) :
            \E j \in Behind(Request, i) :
                /\ Request[j] = Result(c)
                /\ \A k \in Behind(Request, i) \ {j} : Request[k] # Result(c)

\* A cancelled run calls the provider no more, whether it is backing off,
\* executing tools or draining queues; nor does a sequence of tools go on.
CancelStopsWork ==
    [][cancelled =>
          /\ ~(pc = "calling" /\ pc' = "streaming")
          /\ mode = "sequential" =>
                \A i \in DOMAIN tools \cap DOMAIN tools' :
                    tools'[i] = "running" => tools[i] = "running"]_vars

\* A cancelled run comes to an end.
CancelEnds == cancelled ~> pc \in {"idle", "ended"}

\* "Queue a steering message (injected before next LLM call in current run)":
\* none is waiting when the provider is called.
SteerReachesNextCall == [][pc = "calling" /\ pc' = "streaming" => steerQueue = <<>>]_vars

\* Padding stands only in front of a result whose call is not in the request
\* ("...ToolResultMessage with no corresponding AssistantMessage before it").
PaddingOnlyForStrays ==
    pc = "streaming" =>
        \A i \in DOMAIN Request : Request[i] = Padding =>
            \A j \in 1..i : Request[i + 1].call \notin ToSet(CallsOf(Request[j]))
=============================================================================
