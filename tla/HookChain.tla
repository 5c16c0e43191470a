------------------------------- MODULE HookChain ------------------------------
(***************************************************************************)
(* A run of the agent loop as its hooks see it: CombinedDispatcher, the    *)
(* timeout around every call, the default dispatcher (tool guard, path     *)
(* guard, counts and costs), the memory, the prompt's fragments, and what  *)
(* the loop and the tool executor do with what comes back.                 *)
(*                                                                         *)
(* Abstractions: a message is who says it, in which turn; a prompt is the  *)
(* set of its fragments; a string is the parts its slashes make; a call    *)
(* that does not come back in time and one that panics are the same to the *)
(* caller, so one choice stands for both.                                  *)
(***************************************************************************)
EXTENDS Integers, Sequences, FiniteSets, SequencesExt, FiniteSetsExt

CONSTANTS Chains,        \* sequences of "guard", "memory", "extension"
          Policies,      \* of the guard: [denied, allowed, fields, scan, workspace]
          ToolCalls,     \* what the model may call: [tool, input, details, cost]
          MaxHookTurns   \* bound: turns of the run

\* A loop always has a dispatcher; a path is a string cut at its slashes.
ASSUME HookAssumption ==
    /\ Chains \subseteq Seq({"guard", "memory", "extension"}) \ {<<>>}
    /\ \A c \in ToolCalls : \A f \in DOMAIN c.input : \A s \in c.input[f] :
          s.absolute \in BOOLEAN /\ s.parts \in Seq(STRING)

VARIABLES chain,
          policy,        \* HookConfig
          at,            \* the loop: "start", "context", "request", "response", "tool", "result", "end", "over"
          turn,
          messages,      \* the transcript: [who, turn]
          prompt,        \* prompt_builder's fragments
          request,       \* the last request: [messages, prompt]
          wanted,        \* the call of this turn
          input,         \* "none", "own", "changed": what the running tool was given
          ran,           \* calls that ran: [turn, call]
          ledger,        \* what the callbacks of cost and of time are told: [of, turn]
          consulted      \* turns in which the extension answered on_tool_call or a prompt hook in time

hookVars == <<chain, policy, at, turn, messages, prompt, request, wanted, input, ran, ledger, consulted>>

Says(who) == [who |-> who, turn |-> turn]
Nobody == 0
NoneWanted == [tool |-> "none"]

HookInit ==
    /\ chain \in Chains /\ policy \in Policies
    /\ at = "start" /\ turn = 0
    /\ messages = <<Says("user")>> /\ prompt = {"base", "skills"} /\ request = [messages |-> <<>>, prompt |-> {}]
    /\ wanted = NoneWanted /\ input = "none" /\ ran = {} /\ ledger = <<>> /\ consulted = {}

-----------------------------------------------------------------------------
(* DefaultHookDispatcher: which tools may run, on which paths.  A string is *)
(* [absolute, parts].                                                       *)

\* collect_string_paths, through arrays and objects: what begins with a slash or a dot, or has a slash.
PathLike(s) == s.absolute \/ Len(s.parts) > 1 \/ (s.parts # <<>> /\ Head(s.parts) \in {".", ".."})

\* Faulty: a way up is passed over.
NormalizePath_StaysDown(s) == [parts |-> SelectSeq(s.parts, LAMBDA p : p \notin {"", ".", ".."}), out |-> FALSE]

\* out: the way up leads above the root.
NormalizePath(s) ==
    LET Walk(n, part) ==
            CASE part \in {"", "."} -> n
              [] part = ".." -> IF n.parts = <<>> THEN [n EXCEPT !.out = @ \/ s.absolute] ELSE [n EXCEPT !.parts = Front(@)]
              [] OTHER -> [n EXCEPT !.parts = Append(@, part)]
    IN FoldLeft(Walk, [parts |-> <<>>, out |-> FALSE], s.parts)

\* A path of its own is not held against the workspace, an absolute one lies below it.
IsPathAllowed(s) ==
    ~NormalizePath(s).out /\ (s.absolute => IsStrictPrefix(policy.workspace, NormalizePath(s).parts))

\* The fields that are named for the tool, or all where nothing is and strange tools are searched.
ExtractPaths(c) ==
    LET fields == IF c.tool \in DOMAIN policy.fields THEN policy.fields[c.tool] \cap DOMAIN c.input
                  ELSE IF policy.scan THEN DOMAIN c.input ELSE {}
    IN {s \in UNION {c.input[f] : f \in fields} : PathLike(s)}

Refused(c) ==
    \/ c.tool \in policy.denied
    \/ policy.allowed # {} /\ c.tool \notin policy.allowed
    \/ \E s \in ExtractPaths(c) : ~IsPathAllowed(s)

\* Details that name a path outside make the content of a result an error.
Leaks(c) == \E s \in c.details : PathLike(s) /\ ~IsPathAllowed(s)

-----------------------------------------------------------------------------
(* CombinedDispatcher and with_timeout: the chain is asked in order within  *)
(* one limit for all of it; if a hook does not answer, what the earlier     *)
(* ones said is lost with it and the default is used.                       *)

\* The guard waits for nothing, the memory for its recall alone.
MayLag(point) == {i \in DOMAIN chain : chain[i] = "extension" \/ (chain[i] = "memory" /\ point = "on_context")}

\* Who of the chain stalls in a call, if anybody does.
Stalls(point) == MayLag(point) \cup {Nobody}
Has(kind) == \E i \in DOMAIN chain : chain[i] = kind

\* A prompt hook's answer: an extension changes the prompt through prompt_mutation.
\* A chain always answers with the builder it was given as well (combined.rs:144, 187).
AppliedTo(p, stalled) ==
    LET answers == stalled = Nobody /\ Has("extension")
        mutated == IF answers THEN p \cup {"edit"} ELSE p
        replaced == stalled = Nobody /\ Len(chain) > 1
    IN IF replaced THEN p \cup {"skills"} ELSE mutated

\* The guard blocks the call; nobody behind it is asked then.
BlockedAt == {i \in DOMAIN chain : chain[i] = "guard" /\ Refused(wanted)}
Block_AfterAll(stalled) == BlockedAt # {} /\ stalled = Nobody

Block(stalled) == \E i \in BlockedAt : stalled = Nobody \/ stalled > i

\* An alone extension's input is used; in a chain an input that comes with Continue is dropped.
InputOf(stalled) == IF stalled = Nobody /\ chain = <<"extension">> THEN "changed" ELSE "own"

\* Whether a hook of this kind is asked before one that does not answer.
Reached(kind, stalled) == \E i \in DOMAIN chain : chain[i] = kind /\ (stalled = Nobody \/ stalled > i)

\* on_tool_result: the last of the chain to give a content gives it.
ResultOf(stalled, edits) ==
    LET Spoke(i) == (chain[i] = "guard" /\ Leaks(wanted)) \/ (chain[i] = "extension" /\ edits)
        speakers == {i \in DOMAIN chain : Spoke(i)}
    IN IF stalled # Nobody \/ speakers = {} THEN "result"
       ELSE IF chain[Max(speakers)] = "guard" THEN "removed" ELSE "edited"

\* Faulty: a result that is taken back is charged.
Charged_Leaks(stalled) == IF Reached("guard", stalled) /\ wanted.cost THEN <<[of |-> "cost", turn |-> turn]>> ELSE <<>>

\* The callbacks: what the result says it cost, once it may be seen; the time of the turn.
Charged(stalled) ==
    IF Reached("guard", stalled) /\ ~Leaks(wanted) /\ wanted.cost THEN <<[of |-> "cost", turn |-> turn]>> ELSE <<>>

Timed(stalled) == IF Reached("guard", stalled) THEN <<[of |-> "time", turn |-> turn]>> ELSE <<>>

-----------------------------------------------------------------------------
(* The memory.                                                              *)

\* build_query_string: the user's words among the last three messages.
LastThree(s) == SubSeq(s, Len(s) - 2, Len(s))
QueryOf(s) == {m \in Range(IF Len(s) < 3 THEN s ELSE LastThree(s)) : m.who = "user"}

\* on_context: what is recalled stands first, in the request only.
Recalled(stalled, found) ==
    IF Has("memory") /\ stalled = Nobody /\ found /\ QueryOf(messages) # {}
    THEN <<[who |-> "memory", turn |-> turn]>> \o messages ELSE messages

-----------------------------------------------------------------------------
(* AgentLoop::run and run_turn.                                             *)

BeforeAgentStart ==
    /\ at = "start"
    /\ \E stalled \in Stalls("on_before_agent_start") :
          /\ prompt' = AppliedTo(prompt, stalled)
          /\ consulted' = IF stalled = Nobody THEN consulted \cup {0} ELSE consulted
    /\ at' = "context" /\ turn' = 1
    /\ UNCHANGED <<chain, policy, messages, request, wanted, input, ran, ledger>>

OnContext ==
    /\ at = "context"
    /\ \E stalled \in Stalls("on_context"), found \in BOOLEAN : request' = [request EXCEPT !.messages = Recalled(stalled, found)]
    /\ at' = "request"
    /\ UNCHANGED <<chain, policy, turn, messages, prompt, wanted, input, ran, ledger, consulted>>

BeforeProviderRequest ==
    /\ at = "request"
    /\ \E stalled \in Stalls("on_before_provider_request") :
          /\ prompt' = AppliedTo(prompt, stalled)
          /\ consulted' = IF stalled = Nobody THEN consulted \cup {turn} ELSE consulted
    /\ request' = [request EXCEPT !.prompt = prompt']
    /\ at' = "response"
    /\ UNCHANGED <<chain, policy, turn, messages, wanted, input, ran, ledger>>

\* The provider answers, with a call of the tool or without; on_after_provider_response
\* may change the answer, which leaves it an answer.
Response ==
    /\ at = "response"
    /\ messages' = Append(messages, Says("assistant"))
    /\ wanted' \in {NoneWanted} \cup IF turn < MaxHookTurns THEN ToolCalls ELSE {}
    /\ at' = IF wanted' = NoneWanted THEN "end" ELSE "tool"
    /\ UNCHANGED <<chain, policy, turn, prompt, request, input, ran, ledger, consulted>>

\* The loop gives up on an error of the provider or a cancellation; on_agent_end is told.
RunFails ==
    /\ at \in {"context", "response"}
    /\ at' = "over"
    /\ UNCHANGED <<chain, policy, turn, messages, prompt, request, wanted, input, ran, ledger, consulted>>

-----------------------------------------------------------------------------
(* ToolExecutor::execute_tool_call.                                         *)

OnToolCall ==
    /\ at = "tool"
    /\ \E stalled \in Stalls("on_tool_call") :
          IF Block(stalled)
          THEN /\ at' = "end" /\ messages' = Append(messages, Says("refusal"))
               /\ UNCHANGED <<input, ran>>
          ELSE /\ at' = "result" /\ input' = InputOf(stalled) /\ ran' = ran \cup {[turn |-> turn, call |-> wanted]}
               /\ UNCHANGED messages
    /\ UNCHANGED <<chain, policy, turn, prompt, request, wanted, ledger, consulted>>

\* The tool returns or panics, and on_tool_result may change what is kept of it.
OnToolResult ==
    /\ at = "result"
    /\ \E stalled \in Stalls("on_tool_result"), edits \in BOOLEAN :
          /\ messages' = Append(messages, Says(ResultOf(stalled, edits)))
          /\ ledger' = ledger \o Charged(stalled)
    /\ at' = "end" /\ input' = "none"
    /\ UNCHANGED <<chain, policy, turn, prompt, request, wanted, ran, consulted>>

TurnEnd ==
    /\ at = "end"
    /\ \E stalled \in Stalls("on_turn_end") : ledger' = ledger \o Timed(stalled)
    /\ IF Last(messages).who = "assistant" THEN at' = "over" /\ UNCHANGED turn
       ELSE at' = "context" /\ turn' = turn + 1
    /\ wanted' = NoneWanted
    /\ UNCHANGED <<chain, policy, messages, prompt, request, input, ran, consulted>>

HookNext == BeforeAgentStart \/ OnContext \/ BeforeProviderRequest \/ Response \/ RunFails
            \/ OnToolCall \/ OnToolResult \/ TurnEnd

HookSpec == HookInit /\ [][HookNext]_hookVars

-----------------------------------------------------------------------------
(* Properties.                                                              *)

\* What the guard refuses is not run, whatever the hooks behind it do: a hook that hangs
\* or panics turns the answer of the whole chain into Continue, so the guard's must not
\* wait for it (on_tool_call returns at the first Block).
BlockStands == Head(chain) = "guard" => \A r \in ran : ~Refused(r.call)

\* Where an absolute path leads: at the root the way up ends.
Target(s) == LET Go(at_, part) == CASE part \in {"", "."} -> at_
                                    [] part = ".." -> IF at_ = <<>> THEN at_ ELSE Front(at_)
                                    [] OTHER -> Append(at_, part)
             IN FoldLeft(Go, <<>>, s.parts)

\* The absolute paths in the fields that are named for a tool lead into the workspace when it
\* runs behind the guard, however they wind.
PathsStayInside ==
    Head(chain) = "guard" =>
        \A r \in ran : \A s \in ExtractPaths(r.call) : s.absolute => IsStrictPrefix(policy.workspace, Target(s))

\* What a run cost is told once and for what ran and is kept; and where the guard comes first no
\* hook behind it can keep a cost or the time of a turn from being told.
CostsAreTold ==
    LET Told(of, t) == Cardinality({i \in DOMAIN ledger : ledger[i] = [of |-> of, turn |-> t]})
        Kept(r) == \E i \in DOMAIN messages : messages[i].turn = r.turn /\ messages[i].who \in {"result", "edited"}
        Removed(r) == \E i \in DOMAIN messages : messages[i].turn = r.turn /\ messages[i].who = "removed"
    IN /\ \A t \in 1..turn : Told("cost", t) <= 1 /\ Told("time", t) <= 1
       /\ \A t \in 1..turn : Told("cost", t) = 1 => \E r \in ran : r.turn = t /\ r.call.cost
       /\ \A r \in ran : Removed(r) => Told("cost", r.turn) = 0
       /\ Head(chain) = "guard" =>
             /\ \A r \in ran : r.call.cost /\ ~Leaks(r.call) /\ Kept(r) => Told("cost", r.turn) = 1
             /\ \A t \in 1..turn - 1 : Told("time", t) = 1

\* What memory recalls is part of requests, once in each, and never of the transcript,
\* which is stored, compacted and remembered again.
RecallIsPassing ==
    /\ \A i \in DOMAIN messages : messages[i].who # "memory"
    /\ Cardinality({i \in DOMAIN request.messages : request.messages[i].who = "memory"}) <= 1

HooksKept == BlockStands /\ PathsStayInside /\ CostsAreTold /\ RecallIsPassing

(* What documents promise and the code does not keep.                       *)

\* config.rs:11: when a hook exceeds its bound "the dispatcher chain continues": the hooks behind it
\* are not asked.
ChainContinues == Has("guard") => \A t \in 1..turn - 1 : [of |-> "time", turn |-> t] \in Range(ledger)

\* mutations.rs:53: "Surgical prompt mutation applied to the current builder."  In a
\* chain the builder handed down, which no mutation was applied to, replaces it.
MutationApplied ==
    at = "response" /\ turn \in consulted /\ Has("extension") => "edit" \in request.prompt

\* extractor.rs:7: "from the most recent 1-3 user messages": the last three messages of a
\* turn behind a tool's result need not hold one.
PromptIsQueried == Has("memory") /\ at = "context" => QueryOf(messages) # {}
==============================================================================
