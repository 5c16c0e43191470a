------------------------------ MODULE Compaction ------------------------------
(***************************************************************************)
(* What becomes of a conversation that grows too long: Compactor::prepare  *)
(* and compact (agent-core/src/harness/compaction/mod.rs), the entries     *)
(* they leave in SessionHistory, the context that SessionContextBuilder    *)
(* (persistence/entry.rs) makes of these for the next run, and the context *)
(* strategies of session/mod.rs.                                           *)
(*                                                                         *)
(* A message is its role and a number, given out in order.  A summary is   *)
(* the set of messages it was made from, those of the summary it updates   *)
(* included.  How long the messages are is left open: the cut may fall on  *)
(* any valid cut point.  The store is SessionHistory's subject.            *)
(***************************************************************************)
EXTENDS Integers, Sequences, FiniteSetsExt

CONSTANTS
    MaxMessages,    \* bound: messages of the conversation
    Strategies,     \* the values of SessionStrategy.context in this instance
    KeepLastN       \* ContextStrategy::Compact's keep_last_n

ASSUME CompactionAssumption ==
    /\ {MaxMessages, KeepLastN} \subseteq Nat
    /\ Strategies \subseteq {"accumulate", "compact", "clear"}

VARIABLES
    strategy,       \* the session's SessionStrategy.context; fixed once the session is built
    entries,        \* SessionHistory.entries
    fragment,       \* what the prompt's "strategy-compaction" fragment was made from
    pc,             \* where the actor is in a call; "error": between calls, SessionState::Error
    attempted,      \* RecoveryStateMachine::overflow_attempted
    lastId,         \* messages so far
    cleared         \* those dropped on purpose

vars == <<strategy, entries, fragment, pc, attempted, lastId, cleared>>

Message(role, n) == [role |-> role, id |-> n]
Summary(firstKept, covers) == [role |-> "summary", firstKept |-> firstKept, covers |-> covers]

IsMessage(e) == e.role # "summary"

\* The messages in es[a..b].
Messages(es, a, b) == {es[i].id : i \in {j \in a..b : IsMessage(es[j])}}

-----------------------------------------------------------------------------
(* prepare                                                                 *)

\* The position of the newest compaction entry, or 0.
Newest(es) ==
    LET summaries == {i \in DOMAIN es : ~IsMessage(es[i])}
    IN  IF summaries = {} THEN 0 ELSE Max(summaries)

\* What the newest summary was made from.
Covered(es) == IF Newest(es) = 0 THEN {} ELSE es[Newest(es)].covers

\* Faulty: what the last compaction kept is not looked at again.
BoundaryStart_Behind(es) == Newest(es) + 1

\* Where the messages that no summary covers begin: at the first one that the
\* last compaction kept, or behind its entry when that one is gone.
BoundaryStart(es) ==
    LET c == Newest(es)
        kept == {i \in DOMAIN es : IsMessage(es[i]) /\ es[i].id = es[c].firstKept}
    IN  IF c = 0 \/ kept = {} THEN c + 1 ELSE Min(kept)

\* Faulty: a cut in front of a tool result.
CutPoints_AnyMessage(es) ==
    LET start == BoundaryStart(es)
        points == {i \in start..Len(es) : IsMessage(es[i])}
    IN  IF points = {} THEN {start} ELSE points

\* find_cut_point: the kept part begins with a user or an assistant message.
CutPoints(es) ==
    LET start == BoundaryStart(es)
        points == {i \in start..Len(es) : es[i].role \in {"user", "assistant"}}
    IN  IF points = {} THEN {start} ELSE points

\* Nothing to compact: an empty history or one that ends in a compaction.
Refused(es) == es = <<>> \/ ~IsMessage(es[Len(es)])

\* Faulty: the first kept message is summarised, too.
Summarised_OneMore(es, cut) == Covered(es) \cup Messages(es, BoundaryStart(es), cut)

\* What the new summary is made from: the previous summary, the messages to
\* summarize and the prefix of a split turn.
Summarised(es, cut) == Covered(es) \cup Messages(es, BoundaryStart(es), cut - 1)

\* The compaction entry goes to the end and what is before the cut is dropped.
Compacted(es, cut) ==
    SubSeq(Append(es, Summary(es[cut].id, Summarised(es, cut))), cut, Len(es) + 1)

-----------------------------------------------------------------------------
Init ==
    /\ strategy \in Strategies
    /\ entries = <<>> /\ fragment = {}
    /\ pc = "idle" /\ attempted = FALSE
    /\ lastId = 0 /\ cleared = {}

Push(roles) ==
    /\ lastId + Len(roles) <= MaxMessages
    /\ entries' = entries \o [i \in DOMAIN roles |-> Message(roles[i], lastId + i)]
    /\ lastId' = lastId + Len(roles)

\* prompt_with_content or continue_: the user's message, where there is one, and the
\* run begins with the context made of the entries.
Prompt ==
    /\ pc = "idle"
    /\ \E roles \in {<<>>, <<"user">>} : Push(roles)
    /\ pc' = "running"
    /\ UNCHANGED <<strategy, fragment, attempted, cleared>>

\* What a run may add: an answer, tool calls with their results, in one turn or
\* several, a steering message.
Runs == {<<"assistant">>, <<"assistant", "result", "result">>,
         <<"assistant", "result", "assistant">>, <<"user", "assistant">>}

RunOk ==
    /\ pc = "running"
    /\ \E roles \in Runs : Push(roles)
    /\ pc' = "finishing"
    /\ UNCHANGED <<strategy, fragment, attempted, cleared>>

\* The run is cancelled or fails; what it would have added is dropped.
RunFails ==
    /\ pc = "running"
    /\ pc' \in {"idle", "error"}
    /\ UNCHANGED <<strategy, entries, fragment, attempted, lastId, cleared>>

\* The context is too long for the provider: compact and run again, once.
RunOverflows ==
    /\ pc = "running"
    /\ pc' = IF attempted THEN "error" ELSE "recovering"
    /\ attempted' = TRUE
    /\ UNCHANGED <<strategy, entries, fragment, lastId, cleared>>

\* run_auto_compaction, or compact: the new entries.
CompactEntries ==
    /\ ~Refused(entries)
    /\ \E cut \in CutPoints(entries) : entries' = Compacted(entries, cut)

\* Recovery: compacted or blocked by the hook, and the run begins again with a
\* new context; or refused or failed, and the prompt with it.
Recover ==
    /\ pc = "recovering"
    /\ \/ pc' = "running" /\ (CompactEntries \/ UNCHANGED entries)
       \/ pc' = "idle" /\ UNCHANGED entries
    /\ UNCHANGED <<strategy, fragment, attempted, lastId, cleared>>

\* The threshold, in the run or behind it; a second time it is refused.
CompactInRun ==
    /\ pc = "finishing"
    /\ CompactEntries
    /\ UNCHANGED <<strategy, fragment, pc, attempted, lastId, cleared>>

Finish ==
    /\ pc = "finishing"
    /\ pc' = "idle"
    /\ UNCHANGED <<strategy, entries, fragment, attempted, lastId, cleared>>

\* compact_session
CompactSession ==
    /\ pc \in {"idle", "error"}
    /\ CompactEntries
    /\ UNCHANGED <<strategy, fragment, pc, attempted, lastId, cleared>>

Reset ==
    /\ pc \in {"idle", "error"}
    /\ entries' = <<>> /\ cleared' = 1..lastId
    /\ attempted' = FALSE
    /\ pc' = "idle"
    /\ UNCHANGED <<strategy, fragment, lastId>>

Newer(es, n) == SubSeq(es, Len(es) - n + 1, Len(es))

\* ContextStrategy::Compact before an attempt: the newest KeepLastN entries stay, and a
\* summary of all goes into the prompt, in place of the one before; it may fail.
KeepLast ==
    /\ strategy = "compact"
    /\ pc \in {"idle", "error"}
    /\ Len(entries) > KeepLastN
    /\ entries' = Newer(entries, KeepLastN)
    /\ \/ ~Refused(entries)
          /\ \E cut \in CutPoints(entries) : fragment' = Summarised(entries, cut)
       \/ fragment' = {}
    /\ UNCHANGED <<strategy, pc, attempted, lastId, cleared>>

\* ContextStrategy::Clear
Clear ==
    /\ strategy = "clear"
    /\ pc \in {"idle", "error"}
    /\ entries' = <<>> /\ fragment' = {}
    /\ cleared' = 1..lastId
    /\ UNCHANGED <<strategy, pc, attempted, lastId>>

Next ==
    \/ Prompt \/ RunOk \/ RunFails \/ RunOverflows \/ Recover \/ CompactInRun \/ Finish
    \/ CompactSession \/ Reset \/ KeepLast \/ Clear

Spec == Init /\ [][Next]_vars

-----------------------------------------------------------------------------
(* Properties.                                                             *)

Entry == [role : {"user", "assistant", "result"}, id : Nat \ {0}]
    \cup [role : {"summary"}, firstKept : Nat \ {0}, covers : SUBSET (Nat \ {0})]

TypeOK ==
    /\ strategy \in Strategies
    /\ entries \in Seq(Entry)
    /\ fragment \in SUBSET (Nat \ {0})
    /\ pc \in {"idle", "error", "running", "recovering", "finishing"}
    /\ attempted \in BOOLEAN
    /\ lastId \in 0..MaxMessages
    /\ cleared \in SUBSET (1..lastId)

\* What the session should still know.
Said == 1..lastId \ cleared

\* However often the history is compacted, by the threshold, by an overflow or by
\* hand, a message is in the entries or in the newest summary.  It is otherwise with
\* ContextStrategy::Compact, which drops entries that no summary covers.
NothingForgotten ==
    strategy # "compact" => Said \subseteq Messages(entries, 1, Len(entries)) \cup Covered(entries) \cup fragment

\* What a summary covers is not summarised again: the next one is made from it and
\* from the messages it does not cover.
SummarisedOnce ==
    Covered(entries) \cap Messages(entries, BoundaryStart(entries), Len(entries)) = {}

\* A cut never parts a tool result from its call: in front of a result there is
\* an assistant message or another result of the same one.  KeepLastN alone counts
\* entries, whatever they are.
ResultsFollowCalls ==
    strategy # "compact" =>
    \A i \in DOMAIN entries : entries[i].role = "result" =>
        i > 1 /\ entries[i - 1].role \in {"assistant", "result"}

\* The entries keep the order of the conversation and hold no message twice,
\* whatever the history is compacted to.
EntriesOrdered ==
    \A i, j \in DOMAIN entries :
        i < j /\ IsMessage(entries[i]) /\ IsMessage(entries[j]) => entries[i].id < entries[j].id

\* What build_context sends: the newest summary and what comes behind it.
Sent == Covered(entries) \cup Messages(entries, Newest(entries) + 1, Len(entries)) \cup fragment

\* "Compaction keeps the most recent N messages as raw context, only old ones are
\* replaced by the summary": a run knows each message, or a summary of it.
KeptOrSummarised == pc = "running" => Said \subseteq Sent

\* "Reset a session (clear history, keep config)": nothing said before is sent.
ResetForgets == [][Reset => Sent' = {}]_vars
=============================================================================
