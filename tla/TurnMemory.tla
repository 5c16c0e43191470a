------------------------------ MODULE TurnMemory ------------------------------
(***************************************************************************)
(* What a turn leaves in the memory: its transcript and summaries, the     *)
(* tasks that store them, recall and the deletion of a session, with       *)
(* either store.                                                           *)
(*                                                                         *)
(* Abstractions: an id is the sequence of its characters; a text is its    *)
(* length and what a query would find in it; Emerald answers a search with *)
(* whatever of the entity it likes.                                        *)
(***************************************************************************)
EXTENDS Naturals, Sequences, SequencesExt, FiniteSets

CONSTANTS Stores,      \* "local", "emerald"
          Tenants, SessionIds,
          Turns,       \* messages: <<[role |-> "assistant", calls], [role |-> "result", tool, size], ..>>
          TopK,        \* five memories at most
          MaxTurnsKept, MaxRecalls

\* TurnMessages are what a turn consists of; a result comes after its call.
TurnMessages == [role : {"assistant"}, calls : Seq(STRING)] \cup [role : {"result"}, tool : STRING, size : STRING]
CallsOf(turn) == FlattenSeq([n \in DOMAIN turn |-> IF turn[n].role = "assistant" THEN turn[n].calls ELSE <<>>])
ResultsOf(turn) == FlattenSeq([n \in DOMAIN turn |-> IF turn[n].role = "result" THEN <<turn[n].tool>> ELSE <<>>])

ASSUME MemoryAssumption ==
    /\ Tenants \subseteq STRING /\ SessionIds \subseteq Seq(STRING)
    /\ \A turn \in Turns : turn \in Seq(TurnMessages) /\ \A n \in DOMAIN turn :
          Len(ResultsOf(SubSeq(turn, 1, n))) <= Len(CallsOf(SubSeq(turn, 1, n)))

VARIABLES store,
          alive,       \* the sessions there are, [tenant, id]
          jobs,        \* the spawned tasks that call remember
          held,        \* what the store holds, in order
          recalled,    \* the last answer: [to, from]
          ended, asked

memoryVars == <<store, alive, jobs, held, recalled, ended, asked>>

Owners == [tenant : Tenants, id : SessionIds]

\* format_turn_content cuts a result's text at its 500th byte, which panics within a character.
Panics(turn) == \E n \in DOMAIN turn : turn[n].role = "result" /\ turn[n].size = "cut in a character"

\* Faulty: the name stays in the queue.
ExtractToolSummaries_Stays(turn) ==
    LET Add(r, m) == IF m.role = "assistant" THEN [r EXCEPT !.names = @ \o m.calls]
                     ELSE [names |-> r.names, out |-> Append(r.out, IF r.names = <<>> THEN m.tool ELSE Head(r.names))]
    IN FoldLeft(Add, [names |-> <<>>, out |-> <<>>], turn).out

\* Results take the names of the calls one after the other.
ExtractToolSummaries(turn) ==
    LET Add(r, m) == IF m.role = "assistant" THEN [r EXCEPT !.names = @ \o m.calls]
                     ELSE IF r.names = <<>> THEN [r EXCEPT !.out = Append(@, m.tool)]
                     ELSE [names |-> Tail(r.names), out |-> Append(r.out, Head(r.names))]
    IN FoldLeft(Add, [names |-> <<>>, out |-> <<>>], turn).out

\* build_turn_metadata
TurnMetadata(s, turn, index) == [of |-> s, turn |-> turn, index |-> index, tools |-> ExtractToolSummaries(turn)]

\* on_turn_end: the content and its metadata, in a task of their own.
TurnOver(s, turn) ==
    /\ s \in alive /\ ended < MaxTurnsKept /\ ended' = ended + 1
    /\ jobs' = IF Panics(turn) THEN jobs
               ELSE jobs \cup {TurnMetadata(s, turn, ended')}
    /\ UNCHANGED <<store, alive, held, recalled, asked>>

\* on_compact_end: the summary, as if it were a turn without results.
CompactOver(s) ==
    /\ s \in alive /\ ended < MaxTurnsKept /\ ended' = ended + 1
    /\ jobs' = jobs \cup {TurnMetadata(s, <<>>, ended')}
    /\ UNCHANGED <<store, alive, held, recalled, asked>>

\* The map of the local store always takes it.  Emerald may fail, or take it and be late.
JobEnds(j) ==
    /\ j \in jobs /\ jobs' = jobs \ {j}
    /\ held' = Append(held, j) \/ (store = "emerald" /\ held' = held)
    /\ UNCHANGED <<store, alive, recalled, ended, asked>>

StoreKey(s) == <<s.tenant, ":">> \o s.id
Has(j, query) == \E n \in DOMAIN j.turn : j.turn[n].role = "result" /\ j.turn[n].tool = query

\* The local store: up to five of all that is under a key that begins like the session's.
\* The map of keys is in no order.
RecallLocal(s, query) ==
    LET hits == {n \in DOMAIN held : IsPrefix(StoreKey(s), StoreKey(held[n].of)) /\ Has(held[n], query)}
    IN {set \in SUBSET hits : Cardinality(set) = IF Cardinality(hits) < TopK THEN Cardinality(hits) ELSE TopK}

\* Emerald: the entity is the tenant; a blank query is not asked; a failure is no memory.
RecallEmerald(s, query) ==
    IF query = "" THEN {{}}
    ELSE {set \in SUBSET {n \in DOMAIN held : held[n].of.tenant = s.tenant} : Cardinality(set) <= TopK}

RecallFor(s, query) ==
    /\ s \in alive /\ asked < MaxRecalls /\ asked' = asked + 1
    /\ \E set \in (IF store = "local" THEN RecallLocal(s, query) ELSE RecallEmerald(s, query)) :
          recalled' = [to |-> s, from |-> {held[n] : n \in set}]
    /\ UNCHANGED <<store, alive, jobs, held, ended>>

\* Faulty: what begins with the same characters goes, too.
ForgetSession_ByPrefix(s) ==
    FlattenSeq([n \in DOMAIN held |->
        IF store = "emerald" \/ ~IsPrefix(StoreKey(s), StoreKey(held[n].of)) THEN <<held[n]>> ELSE <<>>])

\* Emerald has no such call.
ForgetSession(s) ==
    FlattenSeq([n \in DOMAIN held |-> IF store = "emerald" \/ held[n].of # s THEN <<held[n]>> ELSE <<>>])

\* delete_session, when the session is shut down.
DeleteMemory(s) ==
    /\ s \in alive /\ alive' = alive \ {s} /\ held' = ForgetSession(s)
    /\ UNCHANGED <<store, jobs, recalled, ended, asked>>

MemoryInit ==
    /\ store \in Stores /\ alive = Owners
    /\ jobs = {} /\ held = <<>> /\ recalled = [to |-> "nobody", from |-> {}] /\ ended = 0 /\ asked = 0

MemoryNext ==
    \/ \E s \in alive : DeleteMemory(s) \/ CompactOver(s)
    \/ \E s \in alive, turn \in Turns : TurnOver(s, turn)
    \/ \E s \in alive, query \in {"", "search", "calc"} : RecallFor(s, query)
    \/ \E j \in jobs : JobEnds(j)

MemorySpec == MemoryInit /\ [][MemoryNext]_memoryVars

-----------------------------------------------------------------------------
(* Properties.                                                               *)

\* When the results of a turn come in the order of its calls, each summary has its tool's name.
InOrder(turn) == Len(ResultsOf(turn)) <= Len(CallsOf(turn))
                 /\ \A n \in DOMAIN ResultsOf(turn) : ResultsOf(turn)[n] = CallsOf(turn)[n]
SummariesNameTools ==
    \A n \in DOMAIN held : InOrder(held[n].turn) => held[n].tools = ResultsOf(held[n].turn)

\* What is recalled is of the tenant that asks, however tasks and deletions overtake each other.
RecallIsOfTenant == \A j \in recalled.from : j.of.tenant = recalled.to.tenant

\* The deletion of a session takes nothing that another one still has.
HeldOf(s, list) == FlattenSeq([n \in DOMAIN list |-> IF list[n].of = s THEN <<list[n]>> ELSE <<>>])
OthersStay == \A s \in Owners : s \in alive' => HeldOf(s, held) = HeldOf(s, held')

MemoryKept == [][SummariesNameTools' /\ RecallIsOfTenant' /\ (alive' # alive => OthersStay)]_memoryVars

-----------------------------------------------------------------------------
(* What the code says of itself and does not do; no run checks these.        *)

\* memory/store.rs:35: the memories of a session are deleted with it; a task may still store one.
ForgottenIsGone == store = "local" => \A n \in DOMAIN held : held[n].of \in alive

\* memory/in_memory.rs: a session recalls what is its own.
RecallIsOwn == store = "local" => \A j \in recalled.from : j.of = recalled.to

\* docs/specs/2026-05-27-pandaria-emerald-memorystore.md:347: only a store that fails loses a turn; a
\* cut within a character panics instead, in the hook the loop waits for.
EveryTurnIsTold == store = "local" /\ jobs = {} /\ alive = Owners => Len(held) = ended
================================================================================
