---------------------------- MODULE SessionActor ----------------------------
(***************************************************************************)
(* A session's lifecycle: SessionActor::run_with_messages and its callers  *)
(* (agent-core/src/harness/session/mod.rs), the state, the cancellation    *)
(* token and the overflow recovery it keeps (session/state.rs,             *)
(* error_recovery.rs), the background loops it spawns, and the requests    *)
(* the tenant manager makes of it: prompt, interrupt, reset, delete.       *)
(*                                                                         *)
(* The actor's mutex is held from the start of a prompt to its end; stage  *)
(* says where the holder stands, at one of its awaits.  interrupt takes no *)
(* mutex.  A prompt runs inside the request that asked for it: when the    *)
(* client goes away, the request's future is dropped at an await.          *)
(* The manager prompts through prompt_with_content, which leaves no loops  *)
(* behind; a session with rhythm Loop is prompted through prompt.          *)
(***************************************************************************)
EXTENDS Integers, FiniteSets

CONSTANTS
    Token,          \* names of cancellation tokens; one nobody holds is used again
    MaxLoops,       \* bound: no prompt begins while so many background loops go on
    Looping         \* whether the session's rhythm is RhythmStrategy::Loop

ASSUME ActorAssumption ==
    /\ MaxLoops \in Nat /\ Token # {}
    /\ Looping \in BOOLEAN

VARIABLES
    disconnects,    \* whether this session's clients go away during prompts; it never changes
    streams,        \* whether its owner asks for complete_with_deltas, too; it never changes
    stage,          \* "free", or where the holder of the mutex stands
    present,        \* whether the session is in the manager's table
    state,          \* SessionState
    attempted,      \* RecoveryStateMachine::overflow_attempted
    token,          \* the actor's abort_token
    entryToken,     \* the clone in the manager's table, which interrupt cancels
    cancelledTokens, \* the cancelled tokens
    loop            \* for each token, the background loop that listens to it

actorVars == <<disconnects, streams, stage, present, state, attempted, token, entryToken, cancelledTokens, loop>>
circumstances == <<disconnects, streams>>
tokens == <<token, entryToken, cancelledTokens>>

Live == {t \in Token : loop[t] # "none"}
InUse == {token, entryToken} \cup Live

ActorInit ==
    /\ disconnects \in BOOLEAN /\ streams \in BOOLEAN
    /\ stage = "free" /\ present = TRUE
    /\ state = "Idle" /\ attempted = FALSE
    /\ token \in Token /\ entryToken = token
    /\ cancelledTokens = {}
    /\ loop = [t \in Token |-> "none"]

-----------------------------------------------------------------------------
(* A prompt.                                                               *)

\* prompt_with_content takes the mutex; in Error it gives up at once.
StartPrompt ==
    /\ stage = "free" /\ present
    /\ Cardinality(Live) < MaxLoops
    /\ state # "Error"
    /\ stage' = "preparing"
    /\ UNCHANGED <<circumstances, present, state, attempted, tokens, loop>>

\* The call is over, with a result or an error, and the mutex is released.
Return(s) ==
    /\ stage' = "free" /\ state' = s
    /\ UNCHANGED <<circumstances, present, attempted, tokens, loop>>

GoTo(place, s) ==
    /\ stage' = place /\ state' = s
    /\ UNCHANGED <<circumstances, present, tokens, loop>>

\* enter_running, reset_abort_token: the token of before stays with whoever holds it.
EnterRunning(place) ==
    /\ stage' = place /\ state' = "Running"
    /\ \E t \in Token \ InUse :
          /\ token' = t
          /\ cancelledTokens' = cancelledTokens \ {t}
    /\ UNCHANGED <<circumstances, present, attempted, entryToken, loop>>

\* An iteration of run_with_messages begins.
StartIteration == EnterRunning("running")

\* The history is restored, a skill is loaded; that one may fail.
Prepare ==
    /\ stage = "preparing"
    /\ StartIteration \/ Return(state)

\* AgentLoop::run returned Ok: the state is Idle, and the threshold may ask for
\* a compaction.
RunOk ==
    /\ stage = "running"
    /\ \E place \in {"compacting", "finishing"} : GoTo(place, "Idle")
    /\ UNCHANGED attempted

\* Faulty: a cancelled run leaves the state as it is.
RunFails_StaysRunning ==
    /\ stage = "running"
    /\ Return("Running")

\* It returned an error other than ContextOverflow; Cancelled is none for the
\* session.
RunFails ==
    /\ stage = "running"
    /\ \E s \in {"Error"} \cup (IF token \in cancelledTokens THEN {"Idle"} ELSE {}) : Return(s)

\* Faulty: the attempt is not remembered.
RunOverflows_Forgets ==
    /\ stage = "running"
    /\ GoTo("recovering", "Idle")
    /\ UNCHANGED attempted

\* It returned ContextOverflow: one compaction and another iteration, once
\* until the session is reset.
RunOverflows ==
    /\ stage = "running"
    /\ IF attempted
       THEN Return("Error")
       ELSE GoTo("recovering", "Idle") /\ attempted' = TRUE

\* run_auto_compaction before the next iteration: done or blocked, or the
\* error is returned.
Recover ==
    /\ stage = "recovering"
    /\ StartIteration \/ Return(state)

\* run_auto_compaction because of the threshold; as above.
CompactMidLoop ==
    /\ stage = "compacting"
    /\ \/ GoTo("finishing", state) /\ UNCHANGED attempted
       \/ Return(state)

\* clear_error, check_compaction and persist_incremental; a session with rhythm
\* Loop leaves a background loop behind that listens to the token of now.
Finish ==
    /\ stage = "finishing"
    /\ stage' = "free" /\ state' = "Idle"
    /\ loop' = IF Looping THEN [loop EXCEPT ![token] = "sleeping"] ELSE loop
    /\ UNCHANGED <<circumstances, present, attempted, tokens>>

\* complete_with_deltas takes the mutex and runs at once, whatever the state is,
CompleteWithDeltas ==
    /\ streams /\ stage = "free" /\ present
    /\ EnterRunning("streaming")

\* and is Idle after any result: no recovery, no compaction, no loop, no Error.
StreamedRunEnds ==
    /\ stage = "streaming"
    /\ Return("Idle")

ActorStep ==
    \/ Prepare \/ RunOk \/ RunFails \/ RunOverflows \/ Recover \/ CompactMidLoop \/ Finish
    \/ StreamedRunEnds

\* The request is dropped: the mutex is released, nothing else happens.
Disconnect ==
    /\ disconnects
    /\ stage # "free"
    /\ Return(state)

-----------------------------------------------------------------------------
(* The other requests.                                                     *)

Interrupt ==
    /\ present
    /\ cancelledTokens' = cancelledTokens \cup {entryToken}
    /\ UNCHANGED <<circumstances, stage, present, state, attempted, token, entryToken, loop>>

\* SessionActor::reset; the manager keeps the token it returns.
Reset ==
    /\ stage = "free" /\ present
    /\ state' = "Idle" /\ attempted' = FALSE
    /\ cancelledTokens' = cancelledTokens \cup {token}
    /\ entryToken' = token
    /\ UNCHANGED <<circumstances, stage, present, token, loop>>

\* Faulty: only the token of the table is cancelled.
Delete_EntryTokenOnly ==
    /\ stage = "free" /\ present
    /\ present' = FALSE
    /\ cancelledTokens' = cancelledTokens \cup {entryToken}
    /\ UNCHANGED <<circumstances, stage, state, attempted, token, entryToken, loop>>

\* delete_session: the table's shard is locked while a prompt runs.  The actor is
\* shut down, then the token of the table is cancelled, then the actor dropped.
Delete ==
    /\ stage = "free" /\ present
    /\ present' = FALSE
    /\ cancelledTokens' = cancelledTokens \cup {token, entryToken}
    /\ UNCHANGED <<circumstances, stage, state, attempted, token, entryToken, loop>>

-----------------------------------------------------------------------------
(* The background loop that listens to t.                                  *)

\* The delay has passed.
LoopWakes(t) ==
    /\ loop[t] = "sleeping" /\ t \notin cancelledTokens
    /\ loop' = [loop EXCEPT ![t] = "iterating"]
    /\ UNCHANGED <<circumstances, stage, present, state, attempted, tokens>>

\* An iteration is over, well or not; the loop goes on.
LoopIterates(t) ==
    /\ loop[t] = "iterating"
    /\ loop' = [loop EXCEPT ![t] = "sleeping"]
    /\ UNCHANGED <<circumstances, stage, present, state, attempted, tokens>>

LoopStops(t) ==
    /\ loop[t] = "sleeping" /\ t \in cancelledTokens
    /\ loop' = [loop EXCEPT ![t] = "none"]
    /\ UNCHANGED <<circumstances, stage, present, state, attempted, tokens>>

BackgroundStep(t) == LoopWakes(t) \/ LoopIterates(t) \/ LoopStops(t)

ActorNext ==
    \/ StartPrompt \/ CompleteWithDeltas \/ ActorStep \/ Disconnect
    \/ Interrupt \/ Reset \/ Delete
    \/ \E t \in Token : BackgroundStep(t)

ActorSpec == ActorInit /\ [][ActorNext]_actorVars

\* The runtime polls every task, and a run, a compaction, a save and an
\* iteration come to some end.
ActorLiveSpec == ActorSpec /\ WF_actorVars(ActorStep) /\ \A t \in Token : WF_actorVars(BackgroundStep(t))

-----------------------------------------------------------------------------
(* Properties.                                                             *)

ActorTypeOK ==
    /\ stage \in {"free", "preparing", "running", "recovering", "compacting", "finishing", "streaming"}
    /\ state \in {"Idle", "Running", "Error"}
    /\ {disconnects, streams, present, attempted} \subseteq BOOLEAN
    /\ token \in Token /\ entryToken \in Token
    /\ cancelledTokens \subseteq Token
    /\ loop \in [Token -> {"none", "sleeping", "iterating"}]

\* The state says Running exactly while AgentLoop::run runs, on whichever of the
\* many ways run_with_messages and complete_with_deltas return.  It is otherwise
\* where a request may be dropped: nobody sets the state then.
StateTellsRun == ~disconnects => (state = "Running" <=> stage \in {"running", "streaming"})

\* Two calls lead out of Error: reset, and complete_with_deltas, which does not look at
\* the state it finds.  No prompt, none under way, no disconnect and no interrupt does.
ErrorStands == [][state = "Error" /\ state' # "Error" => Reset \/ CompleteWithDeltas]_actorVars

\* An earlier interrupt or reset never cancels a later run ("avoids that the old
\* cancelled state affects a new turn").
StartsUncancelled ==
    [][stage \notin {"running", "streaming"} /\ stage' \in {"running", "streaming"} => token' \notin cancelledTokens']_actorVars

\* Every prompt comes to an end: recovery does not go round in circles.
PromptEnds == stage # "free" ~> stage = "free"

\* Deleting a session stops the background loop that listens to the actor's token of now
\* and the one that listens to the token of the table, with prompts and other loops in
\* between.  A loop whose token a later prompt replaced is not among them.
LoopsStop == \A t \in Token : ~present /\ t \in {token, entryToken} ~> loop[t] = "none"

\* What the documentation promises and the code does not keep (README).
\* "unlimited (until termination condition triggers or session aborts)"
AllLoopsStop == ~present ~> Live = {}

\* Error -> Idle: "SessionActor::reset() is called"
OnlyResetLeavesError == [][state = "Error" /\ state' # "Error" => Reset]_actorVars

\* "this allows abort to reach the in-flight LLM stream even while prompt() is
\* running"
InterruptReachesRun == [][Interrupt /\ stage = "running" => token \in cancelledTokens']_actorVars

\* "Running -> Error: ... or the recovery of run_with_messages fails"
FailedRecoveryIsError == [][stage = "recovering" /\ stage' = "free" => state' = "Error"]_actorVars
=============================================================================
