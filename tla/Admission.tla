------------------------------ MODULE Admission ------------------------------
(***************************************************************************)
(* What a tenant's request passes before its prompt runs, and what is      *)
(* charged for it: authentication by Aspectus, through a cache; the        *)
(* supervisor that carries the tenant's quotas, replaced when it is stale; *)
(* the quota checks of send_message, and the meters.                       *)
(*                                                                         *)
(* Abstractions: one tenant; what a token's owner may do is not modelled;  *)
(* usage is measured in turns, of which a prompt runs any number, or none  *)
(* that is charged; a day does not pass.                                   *)
(***************************************************************************)
EXTENDS Integers, FiniteSets

CONSTANTS Asks,         \* requests of the tenant, one after the other each
          Tokens,       \* its bearer tokens
          CacheTTL,     \* of the gateway's cache
          RegistryTTL,  \* of a supervisor
          Introspects,  \* attempts to ask Aspectus
          TokenBudget, CpuBudget,
          Slow,         \* bound: time a request spends between Aspectus' answer and being let in
          MaxUse        \* bound: turns run

ASSUME AdmissionAssumption ==
    /\ {CacheTTL, RegistryTTL, Introspects, TokenBudget, CpuBudget, Slow, MaxUse} \subseteq Nat
    /\ IsFiniteSet(Asks) /\ Tokens # {}

VARIABLES revoked,     \* per token, for how long it has been revoked, -1 if it is not
          cached,      \* tenant_cache: per token the entry's age, -1 if there is none
          supervisor,  \* the registry's: its age and its CPU meter
          ask,         \* per request: where it is, its token, attempts, the age of its answer
          used,        \* history: turns run
          charged      \* history: the turns each request's latest prompt was charged for

admissionVars == <<revoked, cached, supervisor, ask, used, charged>>
usage == <<used, charged>>

None == -1
Longest == CacheTTL + RegistryTTL + Slow + 1
Idle == [pc |-> "idle", token |-> CHOOSE t \in Tokens : TRUE, tries |-> 0, age |-> 0]

AdmissionInit ==
    /\ revoked = [t \in Tokens |-> None] /\ cached = [t \in Tokens |-> None]
    /\ supervisor = [age |-> None, cpu |-> 0]
    /\ ask = [a \in Asks |-> Idle]
    /\ used = 0 /\ charged = {}

Moves(a, pc) == ask' = [ask EXCEPT ![a].pc = pc]

Hit(t) == cached[t] # None /\ cached[t] < CacheTTL

\* auth_middleware: from the cache, or by asking.
Arrive(a) ==
    /\ ask[a].pc = "idle"
    /\ \E t \in Tokens : ask' = [ask EXCEPT ![a] = [pc |-> IF Hit(t) THEN "in" ELSE "asking", token |-> t, tries |-> 0, age |-> 0]]
    /\ UNCHANGED <<revoked, cached, supervisor, usage>>

\* introspect_with_retry: an answer, or a failure, and then another attempt or 503.
Introspect(a) ==
    /\ ask[a].pc = "asking"
    /\ \/ Moves(a, IF revoked[ask[a].token] = None THEN "answered" ELSE "idle")
       \/ IF ask[a].tries + 1 < Introspects
          THEN ask' = [ask EXCEPT ![a].tries = @ + 1]
          ELSE Moves(a, "idle")
    /\ UNCHANGED <<revoked, cached, supervisor, usage>>

\* The answer is cached first,
CacheAnswer(a) ==
    /\ ask[a].pc = "answered"
    /\ cached' = [cached EXCEPT ![ask[a].token] = 0]
    /\ Moves(a, "cached")
    /\ UNCHANGED <<revoked, supervisor, usage>>

\* then resolve_or_insert: a supervisor that is missing or stale is replaced, meters and all.
ResolveSupervisor(a) ==
    /\ ask[a].pc = "cached"
    /\ supervisor' = IF supervisor.age = None \/ supervisor.age > RegistryTTL
                     THEN [age |-> 0, cpu |-> 0] ELSE supervisor
    /\ Moves(a, "in")
    /\ UNCHANGED <<revoked, cached, usage>>

QuotaAllows_NoCpu == supervisor.age # None

\* check_quota, as send_message uses it: nothing is ever recorded on the token meter.
QuotaAllows == supervisor.age # None /\ supervisor.cpu <= CpuBudget

\* send_message, of the tenant the token was cached for: one check for the whole prompt.
Prompt(a) ==
    /\ ask[a].pc = "in"
    /\ IF QuotaAllows
       THEN Moves(a, "prompting") /\ charged' = {turn \in charged : turn[1] # a}
       ELSE Moves(a, "idle") /\ UNCHANGED charged
    /\ UNCHANGED <<revoked, cached, supervisor, used>>

\* A number none of the turns that a's prompt was charged for has.
Unnumbered(a) == CHOOSE i \in 1..used + 1 : <<a, i>> \notin charged

\* on_turn_end: cpu_time_callback charges the supervisor there is by then, and the prompt
\* goes on, for as many turns as the model asks for.
TurnEnds(a) ==
    /\ ask[a].pc = "prompting" /\ used < MaxUse
    /\ used' = used + 1
    /\ supervisor' = [supervisor EXCEPT !.cpu = @ + 1]
    /\ charged' = charged \cup {<<a, Unnumbered(a)>>}
    /\ UNCHANGED <<revoked, cached, ask>>

\* The prompt is over, or is given up in a turn, which nobody charges.
PromptEnds(a) ==
    /\ ask[a].pc = "prompting"
    /\ Moves(a, "idle")
    /\ UNCHANGED <<revoked, cached, supervisor, usage>>

Revoke(t) ==
    /\ revoked[t] = None
    /\ revoked' = [revoked EXCEPT ![t] = 0]
    /\ UNCHANGED <<cached, supervisor, ask, usage>>

Ages(age) == IF age = None THEN None ELSE IF age < Longest THEN age + 1 ELSE Longest
Answered == {"answered", "cached", "in"}

TimePasses ==
    /\ \A a \in Asks : ask[a].pc \in Answered => ask[a].age < Slow
    /\ revoked' = [t \in Tokens |-> Ages(revoked[t])]
    /\ cached' = [t \in Tokens |-> Ages(cached[t])]
    /\ supervisor' = [supervisor EXCEPT !.age = Ages(@)]
    /\ ask' = [a \in Asks |-> IF ask[a].pc \in Answered THEN [ask[a] EXCEPT !.age = @ + 1] ELSE ask[a]]
    /\ UNCHANGED usage

AdmissionNext ==
    \/ TimePasses
    \/ \E t \in Tokens : Revoke(t)
    \/ \E a \in Asks :
          \/ Arrive(a) \/ Introspect(a) \/ CacheAnswer(a) \/ ResolveSupervisor(a)
          \/ Prompt(a) \/ TurnEnds(a) \/ PromptEnds(a)

AdmissionSpec == AdmissionInit /\ [][AdmissionNext]_admissionVars

-----------------------------------------------------------------------------
\* A revoked token is of no use once the cache has had the time to forget it and the
\* requests that were being answered when it was revoked have been let in.
RevokedIsOut == [][\A a \in Asks : Arrive(a) /\ ask'[a].pc = "in" =>
    revoked[ask'[a].token] < CacheTTL + Slow]_admissionVars

\* The CPU budget is checked once before a prompt and charged after each of its turns, so
\* concurrent prompts may all pass and run on.  But none begins above the budget: what the
\* meter has beyond it was charged by the latest prompt of each request, all of them let in
\* below it, whenever the supervisor was replaced in between.
CpuOverrunBounded == supervisor.cpu <= CpuBudget + Cardinality(charged)

\* What a reader may expect of the check and the code does not keep (README): an overrun of
\* one turn for each request.
OneTurnOver == supervisor.cpu <= CpuBudget + Cardinality(Asks)

\* What the documentation promises and the code does not keep: a budget of tokens.
TokenBudgetKept == used <= TokenBudget + Cardinality(charged)

\* What a tenant may get beyond its budget by waiting (README): a stale supervisor is
\* replaced by one with empty meters.
CpuBudgetOfDay == used <= CpuBudget + Cardinality(charged)
==============================================================================
