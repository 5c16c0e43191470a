# TLA+ models of pandaria

Pandaria is a multi-tenant server for LLM agents: an API gateway puts requests to
a tenant manager, the manager keeps sessions, a session runs agent loops against a
provider and tools, and its history goes to a store. This directory holds
specifications of its core, the TLC configurations that check them, and TLAPS
proofs about them. All paths are under `src/crates/` unless they begin with `src/`.

- [Inventory](#1-inventory)
- [The modules](#2-the-modules), one section each: state, actions, what is checked
- [The runs](#3-the-runs), their bounds and what they show
- [Fairness](#4-fairness)
- [The proofs](#5-the-proofs)
- [Where code and documentation disagree](#6-where-code-and-documentation-disagree)
- [What is not modelled](#7-what-is-not-modelled)
- [Plan](#8-plan)

## 1. Inventory

| part | state | operations | who calls it, what it shares | what makes it hard | correct when |
|---|---|---|---|---|---|
| **Session history** `agent-core/src/harness/session/history.rs` | entries, needs_restore, last_saved_entry_count, the handle of the append under way; the stored row | push, restore, persist, flush, truncate, clear | called by the session actor under its mutex; spawns appends that outlive the call | appends overlap, fail, time out; restarts; an index into a vector that shrinks | the store is the saved prefix of the conversation, in order, each entry once |
| **Compaction** `harness/compaction/mod.rs`, `persistence/entry.rs`, `harness/strategy.rs` | none of its own; rewrites the entries; a prompt fragment | prepare, compact, build_context, the context strategies | the actor, at the threshold, on overflow, by hand, before a goal's attempt | compacting what was compacted; cuts inside turns | what was said is kept or summarised, once, in order |
| **Session actor** `harness/session/mod.rs`, `state.rs`, `harness/error_recovery.rs` | SessionState, abort token, overflow_attempted, background loops | prompt, continue, reset, interrupt, delete, steer, compact | the manager, behind a mutex; the manager also keeps a clone of the token | tokens replaced while clones are out; requests dropped at any await; many early returns | the state tells what happens, a run can be stopped, a recovery ends |
| **Agent loop** `harness/agent_loop.rs`, `ai-provider/src/transform.rs` | messages, new_messages, retry count, the calls under way, two queues | run, turn, retry, execute tools, drain | the actor; a provider and tools; queues shared with whoever steers | cancellation at every await, calls in parallel | each request answers its calls, the result is what was added, a cancelled run stops |
| **Circuit breaker** `agent-core/src/circuit_breaker.rs` | state, two counters, time of the last failure | check, record_success, record_failure | every call to a provider, concurrently | atomics next to a lock; late answers | opens at the threshold, few probes, gets out of half-open |
| **Session slots** `tenant/src/supervisor.rs`, `registry.rs`, `manager.rs` | a counter per supervisor, the supervisor in force, the sessions | create, batch, delete, shutdown | HTTP requests, concurrently, dropped at any await | fetch_add before the check, roll-back, supervisors that expire | the counter is exact and the quota is kept |
| **Usage meters and quotas** `tenant/src/meter.rs`, `tenant.rs` | sliding windows of tokens, calls, CPU | record, check | manager, around a prompt | checked once before a prompt, charged after each of its turns; meters die with a supervisor | nobody begins a prompt beyond the budget |
| **Tenant locks** `tenant/src/manager.rs`, `session_entry.rs` | the sessions map's shards, the actors' mutexes | every request | all requests | guards held across awaits, a second access under a guard | nobody waits for itself |
| **Events** `harness/session/event_hub.rs`, `tenant/src/events.rs` | bounded queue, broadcast, webhook failure count | emit, subscribe, deliver, send_message_and_wait | loop -> hub -> bridge -> SSE, WebSocket, webhook | queues that drop, subscribers that lag, retries | a subscription is cut off, never thinned out; a webhook is disabled for a reason |
| **Workflows** `tavern-comp/src/instance.rs`, `event.rs`, `store.rs`, `replay.rs` | event log, status column, the instance folded from the log | append, apply, list, replay, compare | interpreter, API | any order of events, a second statement behind each append | replay of any part gives the live state |
| **Squad engine** `tavern-comp/src/team/engine.rs`, `scheduler.rs`, `squad.rs` | mission states, attempts, context, paused, permits | deploy, run, run_stream, resume, signal, cancel | spawned missions report back | missions outlive the run, branches are merged | dependencies first, complete means complete, an end |
| **Session cache** `tavern-comp/src/team/session_cache.rs`, `pandaria_executor.rs` | LRU of role sessions, permits | get, create, evict, clean, flush | missions, concurrently | eviction of what is used, double creation | each call ends, each permit comes back |
| **API gateway** `api-gateway/src/` | token buckets, tenant cache, the server's state, counts of sessions | routes, rate limit, auth, graceful shutdown | manager | requests that meet a shutdown or each other, dropped requests | limits are kept, an answer is so when it is given, the books balance |
| **Providers** `ai-provider/src/` | the router's cache, keys, tokens, a stream's buffers | resolve, build a request, post, retry, decode, assemble | agent loop | broken streams, two levels of retries, a transcript made for another model | what is said arrives, whole and once; nothing goes to the wrong place |
| **MCP client and server** `pawbun-toolkit/src/mcp/`, `pawbun-mcp-server/` | pending requests, SSE sessions | request, route, reconnect, close | tools | a reader that stops while requests are pending, late answers, a POST without a limit | an answer goes to its request, a request whose POST is answered returns |
| **Hooks** `agent-core/src/hook/` | budgets, costs, the order of dispatchers | tool call, tool result, context, turn end | agent loop | one time limit around a whole chain | what a guard refuses does not run |
| **Memory** `agent-core/src/memory/` | what is stored per session | remember, recall, forget | a hook, tasks of their own | tasks that outlive a session | a tenant recalls its own, and a name tells its tool |
| **Prompts, skills** `agent-core/src/prompt/`, `skills/` | fragments, the skills that were found | scan, build, mutate | session builder, runs, hooks | files that change, ids that collide | one fragment of an id, in order; a run's mutation is the run's |
| **Tools** `harness/builder.rs`, `tools/`, `pawbun-toolkit/src/toolkit.rs`, `api-gateway/src/tavern_tools/` | a call's process, pipes, limit, signal | assemble, start, limit, cancel, collect | agent loop | pipes that fill, children that hang, blocking threads | an answer tells what became of the work |
| **Definitions** `tavern-comp/src/hero/`, `team/definition.rs`, `workflow.rs` | registries behind locks | load, register, unregister, reload, validate | API | a directory that changes, concurrent reloads | what a call was told Ok for is there |
| **Files** `pawbun-files/src/` | a handle, what was read, what is told of it | resolve, read, detect, check, shrink, format | whoever gives a file to a model | names that lie, files that change | a block calls its bytes what they are |
| **Terminal client** `tui/src/` | tabs, a queue, one event stream, tasks; overlays, bindings; the editor | keys, events, results of tasks | the gateway | streams that are given up, results that come late | no input lost or sent twice; no text mixed or lost |
| SSRF guard, macros, observability | none or counters | - | - | - | - |

The parts hang together like this: the gateway turns an HTTP request into a call of
`TenantManagerImpl`; the manager reserves a slot at the tenant's supervisor
(*SessionSlots*), keeps the session in a concurrent map and calls its
`SessionActor` under a mutex (*SessionActor*); a prompt restores the history
(*SessionHistory*), makes a context of it (*Compaction*), runs the agent loop
(*AgentLoop*), whose provider calls go through the circuit breaker
(*CircuitBreaker*), pushes what the loop returned, and hands it to an append that
nobody waits for (*SessionHistory* again). A request's future is dropped when its
client goes away; the code behind the await it stood at never runs.

`PROJECT.json` lists every part, the hazards by line, and for each definition the
lines it stands for.

## 2. The modules

| module | models | proofs |
|---|---|---|
| `SessionHistory` (`MCSessionHistory`) | a session's entries and their way to the store | `SessionHistory_proofs` |
| `CircuitBreaker` | the breaker and the calls through it | `Edges_proofs` |
| `SlotPool` | what a supervisor promises: a counting semaphore | |
| `SessionSlots` | supervisors, guards, and the manager's operations on them | `SessionSlots_proofs` |
| `AgentLoop` (`MCAgent`) | one agent loop: turns, retries, tools, queues, the signal | `Agent_proofs` |
| `SessionActor` (`MCAgent`) | a session's state, tokens, recovery and background loops | `Agent_proofs` |
| `Compaction` | what compactions and context strategies leave of a conversation | `Compaction_proofs` |
| `EventDelivery`, `Webhooks`, `RateLimiter`, `Admission`, `Gateway` (`MCService`) | the tenant layer and the gateway: events, limits, usage, routes and shutdown | `Service_proofs` |
| `TenantLocks` (`MCService`) | its locks | |
| `SquadEngine`, `WorkflowLog` (`MCTavern`) | squads: runs, missions, pauses, retries; workflow instances and their log | `Tavern_proofs` |
| `RoleSessions` (`MCTavern`) | the role executor's sessions | |
| `McpClient`, `McpServer` (`MCEdges`) | both ends of MCP | `Edges_proofs` |
| `ProviderAccess` (`MCEdges`) | one call of a model: keys, retries | `Edges_proofs` |
| `HookChain`, `ToolHost` (`MCEdges`) | the chain of hooks around a call; a tool's host | `Edges_proofs` |
| `MessageTransform`, `ModelRequest`, `SseFraming`, `StreamAssembly` (`MCEdges`) | the edges of an agent: models | |
| `FileInput`, `TurnMemory` (`MCHosts`) | files on their way to a model; memories of turns | `Compaction_proofs` |
| `Definitions` (`MCHosts`) | heroes, teams and flows: loading, registering, validating | `Tavern_proofs` |
| `TuiApp`, `TuiKeys`, `TuiEditor`, `PromptSetup` (`MCHosts`) | the terminal client, prompts | |
| - | folds, and sequences put one behind the other | `FoldLemmas` |

An `MC` module with several parts has a variable `part`, chosen at the start: a
behaviour is one of the part alone, and the others rest. Parts that do interact
are in one module (the hub, its subscribers and their clients; the manager's table
and its shutdown; the editor, its pastes and its history); parts that do not, share
a run and not a state.

Two conventions. A definition named `Action_Fault` stands before the action it
breaks: it is what a slip in that code would look like, and the property it
violates is named in `PROJECT.json`. And where a property holds in some
circumstances only, the circumstances are a variable chosen at the start that no
step changes (`features`, `endings`, `disconnects`, `strategy`), and the property
names the ones it needs. One run then covers them all, and a theorem needs no
assumption about an instance.

### SessionHistory

| variable | in the code |
|---|---|
| `entries`, `needsRestore`, `lastSaved`, `lastSave` | the fields of `SessionHistory`; `lastSave` names the append its `JoinHandle` stands for |
| `tasks` | the spawned appends that still run |
| `store` | the stored row |
| `phase` | where the actor is: between calls (in `Idle` or in `Error`), in a run, or behind it with `persist_incremental` to come |
| `compactions` | which entries are `SessionEntry::Compaction` |

An entry is a number given in order, so the order of the conversation is the order
of numbers. `Prompt` is `prompt_with_content` with its restore; `RunOk` and
`RunFails` are the ways out of `run_with_messages`; `Compact`, `Reset`,
`ApplyContextStrategy` and `Flush` are the calls that shrink the entries or
overwrite the row; `PersistIncremental` takes the slice that is new and spawns its
append. An append is one SQL statement (`AppendInOne`, PgSessionStore) or the
trait's load, extend, save (`LoadForAppend`, `SaveMerged`); it may fail, which is
only logged; and it may be so late that the next does not wait for it (`SaveAwaited`:
the wait is bounded by 5 s). `CrashRestart` loses memory and appends.

Abstractions: the restore's await and the push behind it are one step; a status row
is not modelled; what an entry says is left out.

Checked: `EntriesKept` (`SentOnce`, `StoreOrdered` and `NothingLost`), `StorePrefix`,
`RunsReachStore`; proved besides: `StoreExtends`; refuted: `SliceInRange`.

### CircuitBreaker

`state`, `failures` and `halfOpenRequests` are the breaker's; `cooled` says that
`open_duration` has passed since the newest failure; `progress` says where each caller is.
`check` is five steps: the fast path under the read lock (`CheckFast`), the slow
path under the write lock (`CheckSlow`), the `fetch_add` with no lock after
`Open -> HalfOpen` (`CountUnlocked`), and the decision on what `fetch_add` returned
(`Decide`). The counter is taken modulo `Word`, so an underflow is seen. The calls
are `call_llm_with_retry`: they check once and record each attempt; a response that
fails for good after its stream began is recorded as a failure and, by the code that
follows, as a success (`falling_through`).

`admitted` and `inARow` are history variables. `MayStall = FALSE` says that
`open_duration` (30 s) does not pass between two instructions of one `check`.
A session's runs pass no breaker today (`session/mod.rs:613` sets
`circuit_breaker: None`); the module is about every caller that does.

### SessionSlots and SlotPool

A request creates one session or a batch, deletes some, or shuts all down, in steps of one atomic
operation, one call of the concurrent map, or the code between two awaits. `active`
is each supervisor's counter; `current`, `stale`, `made` say which supervisor the
registry gives out; `sessions` maps each session to the supervisor its guard counts
at. `Abandon` drops a request at an await: while it builds (which drops the guard)
and while an actor shuts down (which leaves the rest of its roll-back undone).
`SlotsArePool` says that `Held(s)`, the sessions and requests that hold a slot of
`s`, behaves as `taken[s]` of the semaphore `SlotPool`.

### AgentLoop

`messages`, `newMessages`, `steerQueue`, `followUpQueue`, `cancelled`, `attempt` are
`AgentLoop::run`'s; `tools`, `mode`, `stop` are local to a turn; `transcript` is the
caller's history, from which it starts the next run (all of it, or an end of it,
which is what `ContextStrategy::Compact` leaves). Between two awaits the loop is one
step, and the provider, the tools, whoever queues messages and whoever cancels may
step in between. `Request` is what a call sends: `resolve_orphan_tool_calls`, then
the provider's `pad_orphan_tool_results`. `UniqueIds = FALSE` is `GoogleProvider`.

### SessionActor

`stage` says at which await the holder of the actor's mutex stands; `token` is the
actor's abort token, `entryToken` the clone in the manager's table, `cancelledTokens` the
cancelled ones, `loop` the background loop that listens to each. A token nobody
holds any more is used again. Each way out of `run_with_messages` is an action or a
disjunct: ok, with or without a compaction at the threshold; cancelled; an error; an
overflow, once with a recovery. `Disconnect` drops a prompt's request. Overflow
recovery happens once until the session is reset; the code means it so. The branch
that evaluates an overflow after an Ok is dead and left out. `CompleteWithDeltas` is
`complete_with_deltas`, which tavern's executor calls on its cached sessions: it runs from
any state, `Error` included, and is Idle after any result.

The manager prompts through `prompt_with_content`, which neither applies strategies
nor leaves loops behind (`api-gateway/README.md:90`); `Looping` and
`Compaction`'s strategies are about sessions prompted through `prompt`.

### Compaction

`entries` are messages (a role and a number) and summaries (what they were made
from, and the first message they kept). Lengths are left open: a cut falls on any
valid cut point, so every token budget is covered. A summary is the set of
messages it was made from: wording is left out, coverage is not. `Compacted` appends
the summary and drops what is before the cut; `Sent` is what `build_context` makes
of the result.

### Events: EventDelivery and Webhooks

`EventDelivery` has the hub's bounded queue (`hub`, which drops when it is full),
what its processor has broadcast (`sent`), and per client its forwarder (`next`),
its channel (`buffer`) and where it reads (`read`). `Emit`, the processor and each
forwarder are steps of their own; a subscription that falls behind the broadcast's
capacity ends for good. An SSE client reads all the time, a WebSocket not while a
prompt of its own runs, and `send_message_and_wait` subscribes, prompts, and reads
afterwards. `Webhooks` is the delivery queue, the worker with its permits, and each
spawned delivery with its retries; outcomes are recorded in any order, by
`fetch_add`, a comparison and a store.

### Tenant: TenantLocks, Admission, RateLimiter, Gateway

`TenantLocks` gives each request as the program of its handler: the steps it takes
on shard guards and actor mutexes, in the handler's order, with `io` where it awaits
anything else. A worker that waits for a shard blocks, one that awaits does not.
`Admission` follows a request through the tenant cache, the registry and the one quota
check of its prompt to the charge behind each of the prompt's turns. `RateLimiter` reads the clock and takes the
bucket in two steps. `Gateway` has the routes as the steps of their handlers
(create, batch with its roll-back, clone, fork, send, update, reset, messages,
complete, delete) beside a graceful shutdown, with what each client is told.

### Tavern: SquadEngine, WorkflowLog, RoleSessions

`SquadEngine` has one action per step of `run_dag`, `run_hierarchical` and
`execute_mission`: choosing a batch, waiting for a permit, spawning, executing on a
clone of the squad, sending the result, merging, pausing, failing, and the gateway's
stream with its registry. `WorkflowLog` appends any event the interpreter may emit
(`May`, the only part that is external), folds the log as `InstanceState::apply`
does, writes the status column by a second statement that may fail or be cut off,
and reads the log as the replayer does: with each level of detail, windows,
durations, and the difference of a replay to the one before it. `RoleSessions` is
the executor's cache with its permits, its cleaner and its flush.

### Edges of an agent: MCP

`McpClient` is a session of one request at a time, over stdio or over SSE with a
reader that reconnects, a table of routes, and a server that answers late, in any
order, not at all, or not even to the POST. `McpServer` is the loop with its one pending channel, two clients,
sessions that expire, and lines over stdio.

### Edges of an agent: hooks and tools

`HookChain` follows a run from hook to hook: `CombinedDispatcher`'s order, the time
limit around all of it (a hang and a panic are one choice), the default dispatcher's
path guard, lists and costs, the memory's recall, an extension that changes what it
may. `ToolHost` is the assembly of a session's tools and one call of one of them in
each kind of host: a thread, a future, bash, a toolkit with its limit, a subprocess
with its pipes, an HTTP endpoint, a sidecar, generated media; `WriteStdin`,
`ReadStdout`, `WaitEnds`, `CollectOutput` are `SubprocessTool::call`, and the child
is the environment: it reads first, writes first, hangs, forks or is missing.

### Edges of an agent: models

`MessageTransform` makes a request's messages of a transcript for each family of
providers and each set of media a model takes. `ModelRequest` resolves a name,
caches a provider, and computes the body, the headers and the budgets, for two
askers while `OLLAMA_HOST` changes. `ProviderAccess` has keys, OAuth tokens,
`ProviderRequest`'s retries and those of the loop above. `SseFraming` decodes bytes
cut anywhere; its reference is `Standard`, the events of the whole text.
`StreamAssembly` has the three families of stream parsers, the bounded channel and
the loop that assembles the message.

### Terminal client: TuiApp, TuiKeys, TuiEditor

`TuiApp` is the client's one loop over keys, server events and results, a task for
each request, and the server with one run per session. `TuiKeys` says where a key
goes (settings, overlay, binding, text), with the bindings a user configures, the
palette, lists, completions and the commands behind them. `TuiEditor` is the input
line: edits, word motions, kills and yanks, undo and redo, markers that stand for
large pastes, and the history. `habits` and `keyboard` are circumstances: what a
user does in a behaviour.

### FileInput, Definitions, PromptSetup, TurnMemory

`FileInput` takes a handle through path checks, reading, detection, limits and
shrinking to a provider's block, and lets the file change in between. `Definitions`
has concurrent loads and reloads of heroes over a directory, and what the validators
of teams and workflows accept. `PromptSetup` scans skill directories while others
write to them, and keeps a session's fragments through runs, updates, strategies and
mutations. `TurnMemory` has the tasks that store a turn, recall with either store,
and the deletion of a session's memories.

## 3. The runs

Nine runs must pass; in each, all properties listed are checked. A property over
several parts is the conjunction of theirs, which the module that defines it names.

| run | instance | states |
|---|---|---|
| `history_all` | 5 entries, up to 2 per run, five sets of circumstances | 303,680 |
| `circuit_safe` | 3 callers, threshold 2, 1 probe, 1 retry, counters modulo 16 | 1.6 million |
| `slots_all` | 3 requests, quota 2, 2 supervisors, 2 sessions, batches of 2 | 168,814 |
| `agent_all` | loop: 3 responses with up to 2 calls, 2 user messages, 1 retry; session: 4 tokens, 2 background loops, with dropped requests and streamed completions or without | 306,296 |
| `compaction_all` | 6 messages, all three strategies, keep_last_n 2 | 540,272 |
| `tavern_all` | 3 missions, 5 teams, 2 runs; 7 events; 3 calls of 2 callers on 2 keys | 172,832 |
| `service_all` | 3 clients, 3 events; 4 jobs; 3 requests; bursts of 2; 3 turns of 2 askers' prompts; 2 gateway clients, 3 requests | 1.69 million |
| `edges_all` | nine parts, below | 595,665 |
| `hosts_all` | nine parts, below | 1.23 million |

- `history_all`. `EntriesKept`: in every circumstance an entry is handed to an append
  at most once (`SentOnce`, except that `flush` stores entries it does not count); the
  row keeps the order of the conversation unless an append is overtaken
  (`StoreOrdered`); however slow the appends are, nothing handed over is lost
  (`NothingLost`). In plain circumstances, crashes included, row and append under way
  are exactly the first `lastSaved` entries (`StorePrefix`). Each finished run's
  entries arrive unless the process crashes (`RunsReachStore`). Five entries are
  enough for a restored prefix, two batches under way at a time and one more to be
  sent again; the circumstances are the largest sets in which each property holds.
- `circuit_safe`. The three callers are one that opens a half-open period, one that
  competes for its probe and one that answers late from before; they are
  interchangeable and checked up to symmetry. `ProbesBounded`, `CountExact`: the
  counter and the bound survive every interleaving of `fetch_add`, `fetch_sub`, the
  unlocked count and late answers. `ThresholdTrips`: failures in a row open it.
- `slots_all`. `CountExact` is the one to look at: the counter equals the sessions,
  the requests that build or release one, and those just being refused, at every
  step. `SlotsArePool` follows for the slots in use, and `RollbackComplete` for
  batches. Two supervisors and three requests let a supervisor be replaced while
  another request holds the old one.
- `agent_all`. `RequestAnswersCalls`: in each request each call is answered once,
  behind its message and before the conversation goes on, whether calls were
  cancelled, skipped by a sequence that broke off, or left by a cut. Three responses
  make two turns with calls, of which the first may be orphaned, and one more
  request. Ids are unique here; with `UniqueIds = FALSE` (Google) it fails (section
  6). `ReturnsWhatItAdded`, `CancelStopsWork`, `CancelEnds` as named. For the session:
  `StateTellsRun` where requests are not dropped, `PromptEnds`, and `LoopsStop`: a delete
  ends the loop on the actor's token of now and the one on the table's, while prompts
  replace the actor's token and another loop goes on. With two loops a prompt begins
  while an earlier one's loop lives; older loops than those survive (`AllLoopsStop`,
  section 6). Four tokens are the actor's, the table's, one of a loop and a free one.
- `compaction_all`. `NothingForgotten`: however often, wherever and for whatever
  reason a history is compacted, every message is in the entries or in the newest
  summary (except under `ContextStrategy::Compact`); `SummarisedOnce`;
  `ResultsFollowCalls`: a cut never parts a call from its result. Six messages allow a
  second compaction to start from what the first kept and a third after an overflow.
- `tavern_all`. `MissionsAreSound`: a mission works on a context that holds the outputs
  of what it depends on, however branches were merged and runs paused, and a squad
  that says it is completed has every completion in its log and every output in its
  context. The teams are a join with a signal and a retry, an or-join with inputs
  and a breakpoint, a cycle, a planned team with one permit and a manager; two runs
  let a second one meet what the first left running. `ReplayAgrees`: a
  replay of the whole log, with medium or high detail, ends in the state of the fold.
  `TimelineAgrees`: what a timeline says of differences and durations is what happened
  between its entries; seven events reach a wait, a signal, a retry and an end. `WorkEnds`: a run returns,
  though missions outnumber permits and the channel has room for a batch only; each
  call on the role sessions comes to its end.
- `service_all`. `SubscriberSeesRun`: what a client has still to read continues what
  it has read: a subscription ends, it is never thinned out (capacities of one make each queue
  overflow). `DisableJustified`: a webhook is disabled if and only if its limit of
  failures in a row was reached, with two deliveries at a time. `RateBounded`: no
  stretch of time lets more than a burst beyond the rate through, where no time
  passes within a check. `CpuOverrunBounded`: what the meter
  has beyond the budget was charged by the latest prompt of each request, all let in
  below it. A prompt is checked once and charged at each of its turns, so there is no
  bound by the number of requests (`OneTurnOver`, section 6). `GatewayKept`: what a client is told is so when it is told (201 for a
  session of its own, a failed batch for nothing left, 204 once), indices are used
  once, a history shrinks by reset only, slots and counts equal the sessions.
  `RequestsEnd`: with a worker for each request and no session made in another's
  shard, every request is answered.
- `edges_all`. `AnsweredOnceToAsker` (two clients, three posts each), `ReplyMatches` (two
  calls, three connections, two retries of the reader) for MCP.
  `HooksKept`: what a
  guard in front refuses does not run, whatever hooks behind it do in whatever time;
  absolute paths lead into the workspace however they wind; costs are told once, for
  what ran and was kept; recall stays out of the transcript. `ProviderKept`: calls and
  results match in each dialect and after a change of models; keys, retries and
  endpoints are those of the call; budgets fit their model and grow with the level;
  each call's arguments are whole and none comes twice, wherever a stream is cut,
  broken or cancelled, and an answer that came to its end is in the transcript (up to
  three blocks of all kinds, three families); the events decoded are those of the text,
  for every text of up to five tokens in every way to cut it.
  `HostKept`: the first tool of a name wins; a success is that of work that ended
  well, whole and in time, and a process that was given up is dead.
  `CallsReturn`: a request of the MCP client returns from a server that answers its POST,
  and whatever the server does once the POST is answered (`RequestReturns`); a child
  that reads before it writes is answered, one that hangs is killed
  (`SubprocessReturns`).
- `hosts_all`. `AppKept`: each input is in one place at all times (queue, on its
  way, posted, back in the editor); while the user stays in one session, a message's text
  is of one turn of one run, without gaps; where no stream is lost, the end of a turn finds
  its call settled. `TypingAndPromptKept`: no key loses
  text for good: undo gives back what an edit changed, a yank what a kill removed, a
  message has its pastes in place of their markers (`EditorKept`; five keys, six habits);
  a user's bindings act, Enter always has something to pick, and the
  client's models are the server's when all is answered (`KeysKept`); a scan finds each
  name once and the user's first, a prompt has one fragment of an id, in order, and a run's
  mutations stay with the run (`PromptKept`).
  `FilesKept`: a block calls its bytes what they are and is within the
  limits, though the file was called something else or changed.
  `DefinitionsKept`: what a call was told Ok for is registered, and only a
  reload replaces it; a team's dependencies are missions of its own, and a flow that was
  told valid has steps and keys that can be told apart. `MemoryKept`: a tenant recalls
  its own, a summary names its tool, a deletion leaves other sessions alone.

Three runs must find a violation; each is a finding of section 6: `history_slice`,
`circuit_stuck`, `compaction_sent`.

The bounds are named in each module's CONSTANTS and given in the `.cfg`. They are
the smallest with which every action fires, each property can fail (`PROJECT.json`
names for each a slip in the code that breaks it), and the case it is about occurs.

Deadlock is checked where the system may not stop (`circuit_safe`, `circuit_stuck`,
`compaction_*`: there is always a next call). In the others a behaviour ends when
its bound is reached, its work is done or its session deleted.

## 4. Fairness

Safety needs none. The liveness properties use:

- `SessionHistory`: weak fairness of `PersistIncremental` and of each append. Tokio
  polls the task that runs the actor and each spawned append, and a store call
  returns (it fails or succeeds; failures are another circumstance).
- `CircuitBreaker`: strong fairness of each caller's steps, weak of `CoolDown`.
  tokio's `RwLock` is fair, so a caller that waits for it gets it; requests keep
  coming; time passes.
- `AgentLoop`: weak fairness of the loop: it is polled, an attempt ends, a tool
  returns. The last is an assumption about tools: one that is executed in
  sequence has no timeout in `execute_single_tool`.
- `SessionActor`: weak fairness of the holder of the mutex and of each background
  loop, for the same reasons.

- `SquadEngine`: weak fairness of the run under way and of each spawned mission: both
  are polled, and a model's answer comes or fails.
- `RoleSessions`: strong fairness of each call and weak fairness of each flush: the
  semaphore and tokio's mutexes are fair, a completion ends.
- `TenantLocks`: weak fairness of each request's polls, of what it awaits and of what
  it goes on to. Nothing fair is assumed of a shard that is held: the property names
  the circumstances (`Ample`) in which nobody needs that.
- `McpClient`: weak fairness of what has a time limit or ends by itself: a write, a
  handshake, the limit of a request; not of the server over SSE. A POST has no limit
  (the HTTP client has a `connect_timeout` only, and `send().await` lies outside the 60
  seconds, `transport.rs:174-182`, `:237`, `:265`): it is fair unless the server is
  `"mute"`, which may leave it unanswered.
- `McpServer`: weak fairness of the loop and its tasks; of the handler unless a tool hangs.
- `ToolHost`: weak fairness of the host's steps, of its timers and of a child that does
  not hang; none of a tool or an endpoint that does not answer, nor of a cancellation.

The other modules have no liveness property. In a composed module the fairness of a
part that rests is empty: it has no enabled step.

## 5. The proofs

`tlapm` checks each of these for every value of the constants that satisfies the
module's named assumption (`HistoryAssumption` and so on, which TLC evaluates on
every run).

| theorem | module | rests on |
|---|---|---|
| `TypeCorrect`, `ActorTypeCorrect`, `DeliveryTypeCorrect`, `WebhookTypeCorrect`, `LimiterTypeCorrect`, `SquadTypeCorrect`, `BreakerTypeCorrect` | each but `FoldLemmas` | the type invariant, with what it needs to be inductive |
| `StoreIsPrefix`, `StoreOnlyExtends` | `SessionHistory_proofs` | `TypeOK /\ (Plain => PrefixInv)` |
| `EntriesAreKept` | `SessionHistory_proofs` | `KeptInv` (`SentInv`, `OrderInv`, `StoredInv`) |
| `ClosedMeansBelowThreshold`, `FailuresInARowTrip` | `Edges_proofs` | `CountIsRow` |
| `ProbesAreBounded`, `CounterIsExact` (assuming `~MayStall`) | `Edges_proofs` | `HalfOpenInv` |
| `SlotCountExact`, `LimitIsKept`, `ImplementsPool` | `SessionSlots_proofs` | `SlotsInv` |
| `RollbackIsComplete` | `SessionSlots_proofs` | `RollInv` |
| `RunReturnsWhatItAdded`, `CancelledStartsNothing` | `Agent_proofs` | `TypeOK /\ ToolsAreNewest /\ Balanced` |
| `RequestsAnswerCalls` (assuming `UniqueIds`) | `Agent_proofs` | `ToldInv` |
| `StateFollowsRuns`, `ErrorIsKept`, `RunsStartUncancelled` | `Agent_proofs` | `TypeOK /\ HolderSound` |
| `NothingIsForgotten`, `NothingIsSummarisedTwice`, `OrderIsKept`, `ResultsStayWithCalls` | `Compaction_proofs` | `Good`, `Keeps` |
| `FilesAreKept` | `Compaction_proofs` | `FileInv` |
| `MemoryIsKept` | `Compaction_proofs` | `MemoryInv` |
| `ClientIsKept` | `Compaction_proofs` | `InputsInv`, `FlowInv`, `CallsInv` |
| `SubscriptionsAreWhole` | `Service_proofs` | `DeliveryIInv`, `Continues`, `RunnerWaits` |
| `DisablingIsJustified` | `Service_proofs` | `WebhookIInv` |
| `RateIsBounded` | `Service_proofs` | `LimiterIInv` |
| `CpuOverrunIsBounded`, `RevokedTokenIsOut` | `Service_proofs` | `AdmissionIInv` |
| `GatewayIsKept` | `Service_proofs` | `GatewayIInv` |
| `MissionsSound` | `Tavern_proofs` | `SquadIInv` |
| `ReplaysAgree` | `Tavern_proofs` | `LogInv`, `Same` |
| `TimelinesAgree` | `Tavern_proofs` | `LogInv`, `StartInv` |
| `DefinitionsAreKept` | `Tavern_proofs` | `DefInv` |
| `ReplyIsOwn` | `Edges_proofs` | `ReplyInv` |
| `AnsweredOnce` | `Edges_proofs` | `McpServerIInv` |
| `AccessIsKept` (of `ProviderKept`, the part `AccessKept`) | `Edges_proofs` | `AccessIInv` |
| `HooksAreKept` | `Edges_proofs` | `HookInv` |
| `NormalizeFollows` | `Edges_proofs` | the fold of a path, step by step |
| `HostIsKept` | `Edges_proofs` | `HostInv` |

The assumptions say what the constants are (numbers, finite bounds, distinct model
values). Four are of a kind the code gives without saying so: `Admission` and `Gateway`
have finitely many askers, since a process has finitely many requests under way, and
some token to ask with; no batch asked for is empty, since an empty one does nothing;
`SquadEngine` has finitely many missions, since a plan is a list; `TurnMemory`'s turns are
turns a run writes, in which a result comes after the call it answers.

Why the strengthenings are needed:

- **PrefixInv.** `StorePrefix` speaks of restored sessions only. Before the restore
  the invariant says that nothing is under way and nothing is counted; after it,
  that the append under way (if any) is the one `lastSave` stands for, and has read
  the row as it is. That there is only one is what the wait for the previous append gives.
- **KeptInv.** Each of the three claims holds in its own circumstances and needs its own
  part. *SentInv* (nobody flushes): what an append carries is in no other append, not
  in the row, in nothing another append has read, and not behind the saved boundary,
  so neither a second append nor the next `persist_incremental` can send it again.
  *OrderInv* (each append waits for the previous one): one is under way at most, it
  has read the row as it is, and row, batch and unsent entries follow one another.
  *StoredInv* (appends may be late, none fails): what was handed over is in the row or
  under way, and the saved boundary lies inside the entries.
- **RetryLeft, CountIsRow** (the breaker's). That a retrying call has a retry left is
  decided one step before the count is raised. That the failures recorded are those in
  a row is what makes the threshold trip.
- **HalfOpenInv.** Exactness of the counter is not inductive: it needs that nobody is
  between `fetch_add` and decision while the breaker is not half-open
  (`NobodyCounting`; this is where `~MayStall` and the locks come in), and that those
  about to enter still have room (`RoomToEnter`).
- **SlotsInv.** `CountExact` and `LimitHolds` with the types and the fact that a
  request that holds a slot knows its supervisor. The step lemma shows more: each
  step changes no `Held(s)`, or takes one free slot of one supervisor, or gives one
  back. That is the refinement of `SlotPool` step by step, and `ImplementsPool` is
  its temporal form.
- **RollInv.** `RollbackComplete` speaks of the step that ends a batch. Before it, each
  session of the batch that is still in the map is still to be deleted; and the map
  gets new sessions only, so that no other request puts back what was deleted.
- **ToolsAreNewest.** While tools run, the newest message is the response that asked
  for them; without it `EndTools` could push results of nothing.
- **Good, Keeps.** The newest summary marks a frontier, the first message it kept: what
  it covers is older, what comes behind it is newer, even where an entry count has cut
  the kept messages away. That gives order and `SummarisedOnce` for every
  strategy. Without `ContextStrategy::Compact` the frontier is the first entry
  (`FirstKept`), so the next compaction begins at the first entry and no message
  falls between two summaries.
- **HolderSound.** Whoever holds the mutex entered when the state was not `Error`, or is
  a streamed completion, which takes it out of `Error` as it enters, and only returning
  sets it: that is why nothing but that and `reset` leads out of it.
- **DeliveryIInv, Continues, RunnerWaits.** What a client has read and what waits in its
  buffer are consecutive broadcasts, and the next that will be put there follows them;
  a client that has not subscribed has none of it. No number is beyond what was
  broadcast (`Numbered`). Whose prompt runs is still waiting for it, so a client that
  leaves cannot be the one a run is for.
- **WebhookIInv.** Deliveries record in any order, so the counter is compared with the
  outcomes *as recorded*: it is the length of the row of failures they end in
  (`CountIsRow`), and no job is delivered twice (`JobsWait`). That the webhook is
  disabled exactly after `FailureLimit` of them follows, with the delivery that is
  between the count and the switch.
- **LimiterIInv.** The bound is on what a stretch of time lets through; `excess` is what
  exceeded the rate in the worst stretch that ends now. What the bucket would hold if it
  were refilled now, and that excess, are never more than `Burst` together
  (`BucketCovers`). It needs prompt checks (`ClocksAreNow`): with a clock read early the
  refill is counted twice, and section 6 tells what happens then. That a forgotten
  bucket covers too is where the assumption `Burst <= Rate * Stale` is used.
- **AdmissionIInv.** Each charge adds one to the meter and one to the charges of prompts
  under way; a prompt that is let in forgets the charges of the same request's last one,
  when the meter is within the budget. The proof counts the charges, which have numbers
  of their own (`ChargesNumbered`). For revocation: an answer under way is not
  older than `Slow`, and what is cached was true when it was asked (`AnswersAreFresh`,
  `EntriesAreFresh`).
- **GatewayIInv.** `GatewayKept` is said of steps, and each answer rests on what happened
  since the request began: that the session a handler works on is still in the map,
  because it holds the entry (`SourcesStay`); that each stage is one its route has, so
  that a 201 is that of a creation or a fork; that the number a waiting prompt took is
  below the next one (`OwnNumbers`). The books (`BooksAre`) count the requests between
  the reservation and the map with the sessions.
- **SquadIInv.** An output travels from a task's own copy of the context, into the result
  it sends, into the context of the run that collects it: each station holds the output
  of its mission (`TasksProduce`, `ResultsProduce`, `DoneProduced`), whichever run
  started it. A mission waits for a permit only once its dependencies are done
  (`RunShape`), and merging a copy takes nothing out of a context. Without inputs what
  stands under a mission's key is its output (`OnlyOutputs`); with them a late branch
  may put the input back, so the theorem, like the property, leaves them out.
- **ReplyInv.** Over SSE the channel of the request under way holds its own answer, the
  word that the stream ended, or nothing (`OwnMail`), whatever the pending map still
  has from earlier ones. Over stdio no id is compared; what helps is that a server that
  answers each line once and says nothing else has one line on its way while a request
  reads, and none otherwise (`OneLine`).
- **McpServerIInv.** "At most one answer" is about four places: the queue, the loop, the
  tasks that owe an answer, what was delivered. An id that was not posted is in none of
  them, one that was is in one of them and there once. That the answer goes to whoever
  asked rests on the loop's one channel being that of the request in the handler
  (`ChannelIsHandled`).
- **AccessIInv.** The bound is a product, so the invariant counts: a try of the loop
  begins with at most as many posts as the earlier tries may have made, and has made at
  most one for each attempt since (`TriesBounded`). A refusal is the newest post, ends
  the task, and is what the task tells, so that neither level asks again
  (`RefusedIsLast`); what is read was accepted (`ReadIsAccepted`).

- **ToldInv.** A request is the newest messages of what has been told (the transcript, then
  the run's own), padded. Told is ordered well (`WellTold`): calls are of their own
  response and have ids of it alone, results stand right behind the response that asked,
  at most one for each call. `messages` is an end of told (`EndOf`), since a transcript
  is cut in front only. From that each call of a request is answered exactly once: by a
  result that follows, or by the padding, which `Orphans` puts there only for want of
  one. It takes `UniqueIds`; section 6 says what happens otherwise.
- **HookInv.** A refusal, a cost or a result is said of one turn, and turns follow one
  another, so each ledger and list is known to be of turns up to this one
  (`OneRunATurn`, `ResultsInTime`, `LedgerInTime`): nothing that is told now can be
  there already. What ran was allowed by a guard in front (`RanAllowed`), who has heard
  of what was kept (`GuardHears`). That a path which the guard lets pass is inside the
  workspace is `NormalizeFollows`: the loop's stack of parts is the place the path
  leads to, after each part of it.
- **HostInv.** What was answered is answered by what became of the work (`AnswerIsTrue`),
  once the response has the form of its host (`ResponseFits`); for a child, what is in
  its pipes, what was read and what it wrote add up, and one that was waited for has
  ended (`PipesHold`).
- **FileInv.** The file may be another at each step, so nothing is said of it, only of what
  was read: it came from inside, its type is what the bytes tell and the handle does not
  contradict (`ContentIsRead`), at the stages the loader can be in (`StagesHold`); and
  what was decided, a verdict or a block, was decided about the content there is
  (`DecidedOnContent`), because shrinking takes the verdict back and comes before the block.
- **LogInv.** An instance is created once, and first. That is what lets a replay, which
  applies the creation before all else, begin as the instance did. Then the fold of what
  is selected goes along with the fold of the log, event by event: what medium and high
  detail leave out changes at most what is scheduled (`LeftOutSame`), and an event does
  the same to two states that are otherwise the same (`ApplySame`).
- **StartInv.** A timeline is compared with the log through one step's result: until a
  signal rejects, only the step's own events change it (`ResultStays`), every detail shows
  those, so between two that are shown it rests (`ResultBetween`). Both timelines list the
  same places of the log in order, and there is one such listing (`ListingUnique`). That
  a completed step was started before, so that there is an attempt to have taken so long,
  is the invariant.

- **DefInv.** Nothing is said of the registry but that each agent is under its own id and
  valid, so what a reader of the files holds are agents, and nothing is left unread
  unless it reads. That all who were told Ok are registered comes of registering being a
  walk of registries (`RegisteredAllIsWalk`): what is in one of them stays in those behind
  it, so every prefix that was registered is in the whole.
- **MemoryInv.** What is stored or on its way is a memory of some turn of its owner, and a
  memory's summaries are made of its turn by a walk (`SummariesAreWalk`): the names that
  wait and the summaries that were given, put together, are the calls so far
  (`SummariesInOrder`). A deletion drops what begins like the session's key, and keys that
  begin alike are of one tenant (`KeysTellTenants`).
- **InputsInv, FlowInv, CallsInv.** An input is counted in each of its five places
  (`Held`), over lists of any length: what a step takes out of one it puts into another,
  and an input that was not entered is nowhere. That gives that an input is never on its
  way when it was posted (`NotOnWay`). *InFlow* is about one stream at a time: the buffer,
  the events on their way and the run are one row, in which each piece is the next of the
  one before, up to where the run is (`LastOf`), and a broken stream ends in what closes
  the turn, so what comes when it opens again is not put behind it. *CallsSettle* follows a call from the run through
  the events to the message: told before an event, it is settled before the end of its
  turn, or the run is still to say so; and it is of an input that was posted, so a new
  run cannot have it again.

`FoldLemmas` is what the proofs about data of any length rest on. The library's
induction theorems take an operator as a parameter, which the provers cannot
instantiate; induction for a *set* of numbers (`Induct`) can be proved from the
well-foundedness of the order, and is enough. From it: a fold over a sequence is the last
of a row of states, each a step from the one before (`FoldSteps`); a flattened sequence
has each of its parts in its place (`FlattenPlaces`, `PlacesInOrder`); what is made of a
sequence element by element, and flattened, goes along with concatenation and with
flattening (`FlatMapConcat`, `FlatMapFlatten`), by induction over the sequence
(`SeqInduct`); what is picked from a sequence is the sequence along the one listing of
the places picked (`PickedIs`, `ListingUnique`); how often something is in a sequence
changes by one with each element that comes or goes (`CountedAppend`, `CountedTail`). Each operator that is folded still needs a lemma of its own that takes it
there (`OrphanSteps`, `FoldIsWalk`, `RegisteredAllIsWalk`, `SummariesAreWalk`).

Only model-checked, and why:

- Everything under fairness (`RunsReachStore`, `CancelEnds`, `PromptEnds`, `LoopsStop`,
  `WorkEnds`, `RequestsEnd`, `CallsReturn`): beyond the prover's temporal backends.
- `TypingAndPromptKept` (the editor's texts, the keys, the prompt), and of `ProviderKept` the parts `ChunksDoNotMatter` (the decoder),
  `AssemblyFaithful` (the assembly of blocks), `TransformKept` and `RequestKept`: about
  sequences and nested folds, or conjunctions over several components, for which no
  proof was written (section 8). What `RequestKept` says of particular providers and
  models is about the table of figures, an instance rather than every value.

## 6. Where code and documentation disagree

Three are runs of their own. `PROJECT.json` quotes the lines.

| run | what happens |
|---|---|
| `history_slice` | `reset` empties the entries and leaves `last_saved_entry_count`; the next run's `persist_incremental` slices past the end and panics, after the run, before its entries are saved |
| `circuit_stuck` | a probe that is cancelled, or refused with an error that is not retryable, records nothing; the breaker stays half-open and refuses everybody from then on |
| `compaction_sent` | the summary is appended behind the messages it kept, and the context starts at the summary: what was kept is not sent |

The following come of the same models and are not among the runs. Each names a
definition of the module: put it in a `.cfg` as an INVARIANT or PROPERTY to see it
violated, or do what the entry says.

**SessionHistory.** *The saved boundary skips entries* (`history.rs:57`): after a
compaction it points behind entries never handed over; ask, with the feature
`"compact"`, that `lastSaved` entries be stored or under way. *flush stores and does
not count* (`history.rs:188`): drop the condition of `SentOnce`. *A slow append is
overtaken* (`history.rs:138`): drop that of `StoreOrdered`.

**CircuitBreaker.** *Failures in a row* (`agent_loop.rs:825`): a response that fails
for good after its stream began is recorded as a failure and then as a success; drop
`Straight` from `ThresholdTrips`. *Open lets somebody through*
(`circuit_breaker.rs:102`): the caller that moved the breaker to half-open counts
itself with no lock held: `OpenAdmitsNobody`.

**SessionSlots.** `TenantLimit` (`registry.rs:52`): a supervisor replaced after its
TTL, or by a second request that found none, counts from zero. `RejectsOnlyAtCapacity`
(`supervisor.rs:91`): a request about to take its increment back makes another fail.
`BatchCheckedAsAWhole` (`manager.rs:814`): the check reserves nothing.

**AgentLoop.** `PaddingOnlyForStrays`: the second of two results of one response is
taken for an orphan and gets an empty assistant message in front.
`SteerReachesNextCall` (`agent_loop.rs:275`): the steer queue is drained before the
inner loop only. `RequestAnswersCalls` with `UniqueIds = FALSE` (`google.rs:210`): an
older result hides that a later call is unanswered.

**SessionActor.** `InterruptReachesRun` (`session/mod.rs:587`): a run listens to a
token made when it started, `interrupt` cancels the clone taken when the session was
created or reset. `FailedRecoveryIsError` (`session/mod.rs:677`). *A dropped prompt
leaves Running*: drop the condition of `StateTellsRun`. `AllLoopsStop` (`strategy.rs:139`:
a loop is unlimited "until termination condition triggers or session aborts"): a loop
keeps the token it cloned (`session/mod.rs:1106`), each prompt replaces the actor's
(`session/mod.rs:587`), and a delete cancels the newest only. `OnlyResetLeavesError`:
`docs/specs/2026-05-20-runtime-openness.md:163` lists `SessionActor::reset()` for the
way from Error to Idle, and `:185` says that Error must be cleared by it;
`complete_with_deltas` (`session/mod.rs:381`) runs from Error and leaves it for Idle.

**Compaction.** `ResetForgets` (`session/mod.rs:520`): the strategy's summary survives
a reset in the prompt. *ContextStrategy::Compact loses messages*
(`session/mod.rs:1269`): drop the condition of `NothingForgotten`.

**Tavern.** `SquadEngine`: `MessageOnce`, `OneExecution` (a resumed run starts again
what the paused one left running), `PausedIsResumable` (the gateway forgets a squad
whose stream is over), `RetriesBounded` (each run counts from one), `FailureIsSeen`.
With inputs under the missions' own keys a branch that ends late puts the input back.
`WorkflowLog`: `StartedAtIsStart`, `DurationIsTold` (total_duration_ms is always 0),
`WaitingIsListed`, `DiffIsState` (`replay.rs:440`: transitions are told "from actual
state"; a rejection fails the instance and is shown as one that goes on).
`RoleSessions`: `SessionsBounded`, `OneSessionPerKey`, `BusyIsKept`, `NothingDropped`
(an idle entry that cannot be locked at once is dropped without its flush).

**Tenant and gateway.** `EventDelivery`: `AnswerIsOwn`, `TimeoutMeansNoTurn`,
`SocketIsServed`. `Webhooks`: `QuietOnceDisabled`, `DeliveredInOrder`. `TenantLocks`:
`EveryRequestEnds` (clone and fork insert under a guard of the same map),
`InterruptEnds` (`manager.rs:594`). `RateLimiter`: `RateBoundedAlways` (a check that
read the clock early turns `last_refill` back). `Admission`: `TokenBudgetKept`
(`tenant.rs:6`: nothing charges the token meter), `CpuBudgetOfDay`, `OneTurnOver` (one
check, at `manager.rs:568-572`, for any number of turns, each charged at
`default_dispatcher.rs:378`; `max_turns_per_session` only warns, `:348-365`; set
`MaxUse = 4`). `Gateway`:
`AllSessionsShut` (`manager.rs:197`: those made while it drains stay), `EndedOnce`
(a completed session that is deleted counts as failed, too), `ForkIsCopy` (messages
that a store holds and the actor has not loaded are not copied), `CloneKeepsModel`.
The tavern routes for signals, cancellation, approval and flows answer without an
effect; `complete` of an unknown session answers 204; a client that disconnects
aborts the task that would remove its squad.

**MCP.** `McpClient`: `RequestReturnsAlways` (`transport.rs:265`: a POST has no limit),
`ConnectReturns` (`adapter.rs:96`: over stdio it waits for an
answer to a notification), `ReplyMatchesAlways` (over stdio no id is compared),
`NoRouteLeft`. `McpServer`: `ConnectionsBounded`, `AnswerReaches`,
`NotificationUnanswered`, `ServedIsTold`. A malformed line ends the stdio server,
`tool_timeout` with the loader leaves the toolkit empty, and `initialized` is one flag
for all sessions.

**Hooks and tools.** `HookChain`: `ChainContinues` (`config.rs:11`), `MutationApplied`
(`mutations.rs:53`), `PromptIsQueried`; the builder ignores `hook_timeout_ms`.
`ToolHost`: `NoPipeDeadlock` (`subprocess.rs:101`), `LimitEndsCall`, `ToolkitLimit`
(`toolkit.rs:69`), `AnswerMeansEnd`, `CancelledIsTold`.

**Models.** `MessageTransform`: `MediaIsHeard` (`google.rs:33-40` against
`models_data.rs:615-620`). `ProviderAccess`: `EndpointIsDocumented`
(`resolver.rs:237`), `AttemptsWithinMax` (`request.rs:70`), `AbortStopsRetries`,
`RefreshOnce`, `ClassesAgree`. `ModelRequest`: `CompatIsDetected`
(`src/docs/specs/2026-05-02-llm-client.md:1634`), `XhighIsSent`, `BudgetFitsAlways`
(a u32 sum), `HostForms` (`resolver.rs:353`: "h/v1/" doubles its v1),
`MetadataIsThere` (`router.rs:97`), `MetadataIsOfCall`. `StreamAssembly`: `TextKept`
(`agent_loop.rs:757` against the comment above it), `EmptyCallKept`, `CutIsError`.
`SseFraming`: `CharactersSurvive` (a character cut in two), `MixedEndsKept`.

**Terminal client.** `TuiApp`: `FollowUpIsTaken` (`tui/README.md:45`: a TurnEnd is not
the end of the run, so what is sent then is refused), `AnswersOwnInput`,
`EventsStayInSession`, `AbortedStays`, `SessionToDraw`, `BusyHasReason`. `TuiKeys`:
`EnterSwitches`, `PaletteOpens`, `EveryBindingActs` (Ctrl+U is bound twice),
`KeyContinues`, `NoPanic` (cycling an empty list of models takes a remainder by 0),
`TokenIsMine` (the palette's "/auth <token>" is applied literally). `TuiEditor`:
`CursorInText`, `RedoFollowsUndo`, `RecallIsExact`, `DraftKept`, `PasteUnchanged`.

**Files, definitions, prompts, memory.** `FileInput`: `HintedBytesLoad`,
`DowngradeKeepsType`, `ReferenceIsImage`, `SizeIsTold`, `WhitelistKept`,
`InlineIsSmall`, `ConstraintsApply`. `Definitions`: `TemperatureInRange` (NaN passes),
`LoadKeepsEarlier`, `TeamsAreAcyclic`, `FlowsAreAcyclic` (`workflow.rs:188`; nothing
calls validate_static). `PromptSetup`: `LatestPromptIsSent`, `LoopHasPrompt`.
`TurnMemory`: `ForgottenIsGone`, `RecallIsOwn` (session 1 recalls what is session
10's), `EveryTurnIsTold` (a text cut within a character panics).

## 7. What is not modelled

Per part, with the reason, in `PROJECT.json`. In short:

- *Data*: the wording of prompts, summaries, messages and logs; JSON fields; token
  estimates (any valid cut stands for them); the figures of the models table; the
  scaling of images; globs of ignore files.
- *Pure I/O or generated*: what the file, search and code tools do within a call, the
  media providers, Bedrock's signing, the macros, rendering and themes, metrics nobody
  reads back, the classification of addresses by the SSRF guard.
- *Unused by the program*: `ai-provider/src/validation.rs`, `repair.rs` and `retry.rs`,
  the event store's snapshots, `resolve_markers` of the editor, pruning of meters
  beyond 10,000 entries.
- *Left out of modelled parts*: the status rows of sessions (each write is a task of its
  own, so `active` may overwrite `completed`); a prompt that is dropped while
  `auto_restore` loads; goal termination, which prompts again; expiry of Redis keys;
  missions that panic; webhooks of squads; `LocalHeroExecutor`; OAuth flows with a
  browser.

The workflow interpreter, Emerald, MCP servers, child processes, model providers and
users are the environment: modelled by what the code in `src/` may be given.

## 8. Plan

Every part of the inventory that keeps state has its module. What is left is to prove
more about them, in this order:

1. `RoleSessions`: a permit is with one session or with the semaphore, in
   `Tavern_proofs`.
2. `EventDelivery` as a refinement: per subscription a prefix of what was broadcast.
3. `StreamAssembly` (calls are whole) and `MessageTransform` (ids stay paired), with
   `FoldLemmas`.

The theorems are in eight modules, one for each group of components that a run
composes, and `FoldLemmas`; files, memory and the terminal client have theirs beside the
conversation's, in `Compaction_proofs`, and definitions beside the squads', in `Tavern_proofs`. A new one
goes to the module of its run.
