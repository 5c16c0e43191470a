----------------------------- MODULE SquadEngine -----------------------------
(***************************************************************************)
(* One squad: a team's missions run by tavern_comp::SquadEngine.           *)
(*                                                                         *)
(* A run is one call of run() or run_stream().  In a sequential team it    *)
(* spawns every mission that is ready, waits for all of them, merges what  *)
(* they return and looks again (run_dag); in a hierarchical team a manager *)
(* names one mission after the other (run_hierarchical).  A mission works  *)
(* on a clone of the squad.  A run that pauses or fails returns at once    *)
(* and leaves what it spawned running.                                     *)
(*                                                                         *)
(* Abstractions: an output is the number of the run that produced it, the  *)
(* thread its length; the log keeps the events that end something; errors  *)
(* that emit nothing (role, template, handoff, store) are one outcome.     *)
(***************************************************************************)
EXTENDS Naturals, Sequences, FiniteSets

CONSTANTS Missions,        \* mission ids
          Teams,           \* the teams that may be deployed
          Plans,           \* what the planner may answer, per mission {} or dependencies
          MaxRuns,         \* bound: calls of run() / run_stream()
          MaxManagerLoops  \* SquadEngine::MAX_MANAGER_LOOPS

ASSUME SquadAssumption ==
    /\ MaxRuns \in Nat /\ MaxManagerLoops \in Nat /\ IsFiniteSet(Missions)
    /\ \A t \in Teams : /\ t.api \in {"run", "run_stream", "gateway"} /\ t.inputs \in BOOLEAN
                        /\ t.permits \in Nat \ {0}
                        /\ t.process \in {"sequential", "hierarchical"}
                        /\ t.needs \in [Missions -> SUBSET Missions]
                        /\ t.needsOne \in [Missions -> SUBSET Missions]
                        /\ {t.waits, t.breaks, t.retried} \subseteq SUBSET Missions
                        /\ t.planned \in BOOLEAN
    /\ Plans \subseteq [Missions -> SUBSET Missions]

VARIABLES team,        \* the Team, whether it has inputs, the API that runs it and
                       \* the engine's max_concurrency
          status,      \* Squad::status
          finished,    \* Squad::completed_missions
          signalled,   \* Squad::received_signals is not empty (one signal name)
          shared,      \* Squad::context.shared: the value under each mission's output key
          thread,      \* Squad::context.thread: how many messages
          run,         \* runs so far; the newest is the one under way
          runPc,       \* where it is
          done,        \* its local `completed`
          needs,       \* depends_on, as the planner left it
          toSpawn,     \* missions of the batch that wait for a permit
          results,     \* the batch's channel
          batch,       \* the channel's capacity
          loops,       \* manager_loops
          missionTasks,\* the spawned missions, per run
          squadLog,    \* the event store's stream
          registered   \* the gateway's registry still knows the squad

squadVars == <<team, status, finished, signalled, shared, thread, run, runPc, done, needs,
               toSpawn, results, batch, loops, missionTasks, squadLog, registered>>
chosen == <<team>>
squadState == <<status, finished, signalled, shared, thread>>
runState == <<run, runPc, done, needs, toSpawn, results, batch, loops>>

Runs == 1..MaxRuns
Paused == {"WaitingForSignal", "Sleeping", "Breakpoint"}
\* What is under an output key: the run that wrote it, nothing, or an input.
Absent == 0
Input == MaxRuns + 1
Values == 0..MaxRuns + 1
Outcomes == {"ok", "waiting", "sleeping", "breakpoint", "error"}
Results == [mission : Missions, outcome : Outcomes, shared : [Missions -> Values],
            thread : Nat]
NoTask == [at |-> "none"]

\* The events the log is read for.
Events == [type : {"MissionCompleted", "MissionFailed", "MissionRetryScheduled"},
           mission : Missions, run : Runs]
          \cup [type : {"SquadCompleted", "SquadFailed"}, run : Runs]

Emitted(type, m, r) == [type |-> type, mission |-> m, run |-> r]
SquadEmitted(type) == [type |-> type, run |-> run]

-----------------------------------------------------------------------------
(* Deployment and the start of a run.                                      *)

\* deploy(): the squad is pending, its context the inputs.
SquadInit ==
    /\ team \in Teams
    /\ status = "Pending" /\ finished = {} /\ signalled = FALSE
    /\ shared = [m \in Missions |-> IF team.inputs THEN Input ELSE Absent]
    /\ thread = 0
    /\ run = 0 /\ runPc = "idle" /\ done = {} /\ needs = team.needs
    /\ toSpawn = {} /\ results = <<>> /\ batch = 0 /\ loops = 0
    /\ missionTasks = [t \in Runs \X Missions |-> NoTask]
    /\ squadLog = {} /\ registered = TRUE

\* run_stream refuses a squad that runs or is closed; run() takes any.
MayStart == team.api # "run" => status \in {"Pending"} \cup Paused

StartRun ==
    /\ runPc = "idle" /\ run < MaxRuns /\ MayStart /\ registered
    /\ run' = run + 1
    /\ status' = "Running"
    /\ done' = finished
    /\ needs' = team.needs
    /\ loops' = 0
    /\ runPc' = IF team.planned THEN "plan" ELSE "loop"
    /\ UNCHANGED <<chosen, finished, signalled, shared, thread, toSpawn, results, batch,
                   missionTasks, squadLog, registered>>

\* run_planning_phase: in a sequential team the plan replaces dependencies.
Plan ==
    /\ runPc = "plan"
    /\ \E plan \in Plans :
          needs' = [m \in Missions |->
                      IF team.process = "sequential" /\ plan[m] # {} THEN plan[m] ELSE needs[m]]
    /\ runPc' = "loop"
    /\ UNCHANGED <<chosen, squadState, run, done, toSpawn, results, batch, loops,
                   missionTasks, squadLog, registered>>

\* The planner fails or answers nonsense: the status stays Running, only run_stream emits.
PlanFails ==
    /\ runPc = "plan"
    /\ runPc' = "idle"
    /\ squadLog' = IF team.api = "run" THEN squadLog ELSE squadLog \cup {SquadEmitted("SquadFailed")}
    /\ UNCHANGED <<chosen, squadState, run, done, needs, toSpawn, results, batch, loops,
                   missionTasks, registered>>

-----------------------------------------------------------------------------
(* run_dag and run_hierarchical, between two awaits.                        *)

Task(r, m) == missionTasks[<<r, m>>]
Alive(t) == missionTasks[t].at \in {"spawned", "executing", "sending"}
AliveIn(r) == {m \in Missions : Alive(<<r, m>>)}
\* running: what was spawned and whose result has not been taken
Running == {m \in Missions : Task(run, m) # NoTask /\ Task(run, m).at # "taken"}

Ready_AnyDependency ==
    {m \in Missions \ done : \/ needs[m] = {} /\ team.needsOne[m] = {}
                             \/ (needs[m] \cup team.needsOne[m]) \cap done # {}}

\* MissionScheduler::ready
Ready == {m \in Missions \ done : /\ needs[m] \subseteq done
                                  /\ \/ team.needsOne[m] = {}
                                     \/ team.needsOne[m] \cap done # {}}

AllDone == Missions \subseteq done

Finish ==
    /\ finished' = done
    /\ status' = "Completed"
    /\ squadLog' = squadLog \cup {SquadEmitted("SquadCompleted")}
    /\ runPc' = "idle"

RunCompletes ==
    /\ runPc = "loop" /\ AllDone
    /\ Finish
    /\ UNCHANGED <<chosen, signalled, shared, thread, run, done, needs, toSpawn, results, batch,
                   loops, missionTasks, registered>>

\* Nothing is ready and nothing runs: CyclicDependency.  Status and completed_missions stay.
RunStuck ==
    /\ runPc = "loop" /\ team.process = "sequential"
    /\ ~AllDone /\ Ready \ Running = {} /\ Running = {}
    /\ runPc' = "idle"
    /\ UNCHANGED <<chosen, squadState, run, done, needs, toSpawn, results, batch, loops,
                   missionTasks, squadLog, registered>>

OpenBatch_CapacityOne ==
    /\ runPc = "loop" /\ team.process = "sequential" /\ ~AllDone
    /\ Ready \ Running # {}
    /\ toSpawn' = Ready \ Running
    /\ batch' = 1
    /\ results' = <<>>
    /\ runPc' = "spawn"
    /\ UNCHANGED <<chosen, squadState, run, done, needs, loops, missionTasks, squadLog, registered>>

OpenBatch ==
    /\ runPc = "loop" /\ team.process = "sequential" /\ ~AllDone
    /\ Ready \ Running # {}
    /\ toSpawn' = Ready \ Running
    /\ batch' = Cardinality(Ready \ Running)
    /\ results' = <<>>
    /\ runPc' = "spawn"
    /\ UNCHANGED <<chosen, squadState, run, done, needs, loops, missionTasks, squadLog, registered>>

\* The clone of the squad a mission works on.
Clone == [at |-> "spawned", outcome |-> "ok", shared |-> shared, thread |-> thread,
          signalled |-> signalled]

\* One more of the batch gets a permit and is spawned; missions come in no order.
Spawn(m) ==
    /\ runPc = "spawn" /\ m \in toSpawn
    /\ Cardinality(AliveIn(run)) < team.permits
    /\ missionTasks' = [missionTasks EXCEPT ![<<run, m>>] = Clone]
    /\ toSpawn' = toSpawn \ {m}
    /\ runPc' = IF toSpawn = {m} THEN "collect" ELSE "spawn"
    /\ UNCHANGED <<chosen, squadState, run, done, needs, results, batch, loops, squadLog, registered>>

\* The manager delegates one mission; dependencies are not looked at.
Delegate ==
    /\ runPc = "loop" /\ team.process = "hierarchical" /\ ~AllDone
    /\ loops < MaxManagerLoops
    /\ loops' = loops + 1
    /\ batch' = 1 /\ results' = <<>>
    /\ \E m \in Missions \ done : missionTasks' = [missionTasks EXCEPT ![<<run, m>>] = Clone]
    /\ runPc' = "collect"
    /\ UNCHANGED <<chosen, squadState, run, done, needs, toSpawn, squadLog, registered>>

\* The manager terminates the squad, whatever is left.
ManagerTerminates ==
    /\ runPc = "loop" /\ team.process = "hierarchical" /\ ~AllDone
    /\ loops < MaxManagerLoops
    /\ loops' = loops + 1
    /\ Finish
    /\ UNCHANGED <<chosen, signalled, shared, thread, run, done, needs, toSpawn, results, batch,
                   missionTasks, registered>>

\* Its call fails, or its answer names nothing that is pending: ManagerError, and nothing else.
ManagerFails ==
    /\ runPc = "loop" /\ team.process = "hierarchical" /\ ~AllDone
    /\ loops < MaxManagerLoops
    /\ loops' = loops + 1
    /\ runPc' = "idle"
    /\ UNCHANGED <<chosen, squadState, run, done, needs, toSpawn, results, batch,
                   missionTasks, squadLog, registered>>

ManagerLoopExceeded ==
    /\ runPc = "loop" /\ team.process = "hierarchical" /\ ~AllDone
    /\ loops >= MaxManagerLoops
    /\ status' = "Failed"
    /\ squadLog' = squadLog \cup {SquadEmitted("SquadFailed")}
    /\ runPc' = "idle"
    /\ UNCHANGED <<chosen, finished, signalled, shared, thread, run, done, needs, toSpawn, results,
                   batch, loops, missionTasks, registered>>

-----------------------------------------------------------------------------
(* A mission: execute_mission on its clone, then its result to the channel. *)

Sending(t, outcome) ==
    missionTasks' = [missionTasks EXCEPT ![t].at = "sending", ![t].outcome = outcome]

\* The signal has not come: the clone pauses.
WaitForSignal(r, m) ==
    /\ Task(r, m).at = "spawned"
    /\ m \in team.waits /\ ~Task(r, m).signalled
    /\ Sending(<<r, m>>, "waiting")
    /\ UNCHANGED <<chosen, squadState, runState, squadLog, registered>>

StartMission(r, m) ==
    /\ Task(r, m).at = "spawned"
    /\ m \in team.waits => Task(r, m).signalled
    /\ missionTasks' = [missionTasks EXCEPT ![<<r, m>>].at = "executing"]
    /\ UNCHANGED <<chosen, squadState, runState, squadLog, registered>>

\* The output goes under the mission's key of the clone, the message to its thread.
CompleteMission(r, m) ==
    /\ Task(r, m).at = "executing"
    /\ squadLog' = squadLog \cup {Emitted("MissionCompleted", m, r)}
    /\ missionTasks' = [missionTasks EXCEPT ![<<r, m>>] =
          [at |-> "sending", outcome |-> IF m \in team.breaks THEN "breakpoint" ELSE "ok",
           shared |-> [@.shared EXCEPT ![m] = r], thread |-> @.thread + 1,
           signalled |-> @.signalled]]
    /\ UNCHANGED <<chosen, squadState, runState, registered>>

\* The executor fails: another attempt is due later, if the mission has retries at all.
FailMission(r, m) ==
    /\ Task(r, m).at = "executing"
    /\ LET again == m \in team.retried
       IN /\ squadLog' = squadLog \cup
                {Emitted(IF again THEN "MissionRetryScheduled" ELSE "MissionFailed", m, r)}
          /\ Sending(<<r, m>>, IF again THEN "sleeping" ELSE "error")
    /\ UNCHANGED <<chosen, squadState, runState, registered>>

\* An error that has no event: no such role, a template, a handoff, the event store.
MissionErrs(r, m) ==
    /\ Task(r, m).at \in {"spawned", "executing"}
    /\ Sending(<<r, m>>, "error")
    /\ UNCHANGED <<chosen, squadState, runState, squadLog, registered>>

\* The run still receives.
Receiving(r) == r = run /\ runPc \in {"spawn", "collect"}

\* The result goes to the channel, or nowhere; the permit is given back behind it.
SendResult(r, m) ==
    /\ Task(r, m).at = "sending"
    /\ IF Receiving(r)
       THEN /\ Len(results) < batch
            /\ results' = Append(results, [mission |-> m, outcome |-> Task(r, m).outcome,
                                           shared |-> Task(r, m).shared, thread |-> Task(r, m).thread])
       ELSE UNCHANGED results
    /\ missionTasks' = [missionTasks EXCEPT ![<<r, m>>] = [at |-> "sent"]]
    /\ UNCHANGED <<chosen, squadState, run, runPc, done, needs, toSpawn, batch, loops, squadLog, registered>>

-----------------------------------------------------------------------------
(* The run takes the results.                                               *)

\* merge_context: every key of the branch overwrites, its whole thread is appended.
Merged(result) ==
    /\ shared' = [k \in Missions |-> IF result.shared[k] = Absent THEN shared[k] ELSE result.shared[k]]
    /\ thread' = thread + result.thread

Take(m) == /\ results' = Tail(results)
           /\ missionTasks' = [missionTasks EXCEPT ![<<run, m>>] = [at |-> "taken"]]

CollectDone ==
    /\ runPc = "collect" /\ results # <<>> /\ Head(results).outcome = "ok"
    /\ Merged(Head(results)) /\ Take(Head(results).mission)
    /\ done' = done \cup {Head(results).mission}
    /\ UNCHANGED <<chosen, status, finished, signalled, run, runPc, needs, toSpawn, batch, loops,
                   squadLog, registered>>

CollectPause_CountsAsDone ==
    /\ runPc = "collect" /\ results # <<>> /\ Head(results).outcome \in {"waiting", "sleeping"}
    /\ Merged(Head(results)) /\ Take(Head(results).mission)
    /\ done' = done \cup {Head(results).mission}
    /\ finished' = done \cup {Head(results).mission}
    /\ status' = IF Head(results).outcome = "waiting" THEN "WaitingForSignal" ELSE "Sleeping"
    /\ runPc' = "idle"
    /\ UNCHANGED <<chosen, signalled, run, needs, toSpawn, batch, loops, squadLog, registered>>

\* A mission waits or sleeps: the run returns, with what it had completed.
CollectPause ==
    /\ runPc = "collect" /\ results # <<>> /\ Head(results).outcome \in {"waiting", "sleeping"}
    /\ Merged(Head(results)) /\ Take(Head(results).mission)
    /\ finished' = done
    /\ status' = IF Head(results).outcome = "waiting" THEN "WaitingForSignal" ELSE "Sleeping"
    /\ runPc' = "idle"
    /\ UNCHANGED <<chosen, signalled, run, done, needs, toSpawn, batch, loops, squadLog, registered>>

\* A breakpoint: the mission counts as completed, then the run returns.
CollectBreakpoint ==
    /\ runPc = "collect" /\ results # <<>> /\ Head(results).outcome = "breakpoint"
    /\ Merged(Head(results)) /\ Take(Head(results).mission)
    /\ done' = done \cup {Head(results).mission}
    /\ finished' = done \cup {Head(results).mission}
    /\ status' = "Breakpoint"
    /\ runPc' = "idle"
    /\ UNCHANGED <<chosen, signalled, run, needs, toSpawn, batch, loops, squadLog, registered>>

\* An error ends the squad; completed_missions is not brought up to date.
CollectError ==
    /\ runPc = "collect" /\ results # <<>> /\ Head(results).outcome = "error"
    /\ Take(Head(results).mission)
    /\ status' = "Failed"
    /\ squadLog' = squadLog \cup {SquadEmitted("SquadFailed")}
    /\ runPc' = "idle"
    /\ UNCHANGED <<chosen, finished, signalled, shared, thread, run, done, needs, toSpawn, batch,
                   loops, registered>>

\* Every sender is gone: the loop looks for what is ready now.
BatchEnds ==
    /\ runPc = "collect" /\ results = <<>> /\ AliveIn(run) = {}
    /\ runPc' = "loop"
    /\ UNCHANGED <<chosen, squadState, run, done, needs, toSpawn, results, batch, loops,
                   missionTasks, squadLog, registered>>

-----------------------------------------------------------------------------
(* Around the run.                                                          *)

\* send_signal needs the squad, which the run holds.
SendSignal ==
    /\ runPc = "idle" /\ ~signalled /\ team.waits # {} /\ status \notin {"Completed", "Failed"}
    /\ signalled' = TRUE
    /\ UNCHANGED <<chosen, status, finished, shared, thread, runState, missionTasks, squadLog, registered>>

\* squad_events_stream: every sender of events is gone, the squad leaves the registry.
StreamEnds ==
    /\ team.api = "gateway" /\ runPc = "idle" /\ run > 0 /\ AliveIn(run) = {} /\ registered
    /\ registered' = FALSE
    /\ UNCHANGED <<chosen, squadState, runState, missionTasks, squadLog>>

MissionStep(r, m) ==
    \/ WaitForSignal(r, m) \/ StartMission(r, m) \/ CompleteMission(r, m)
    \/ FailMission(r, m) \/ MissionErrs(r, m) \/ SendResult(r, m)

RunStep ==
    \/ Plan \/ PlanFails \/ RunCompletes \/ RunStuck \/ OpenBatch
    \/ \E m \in Missions : Spawn(m)
    \/ Delegate \/ ManagerTerminates \/ ManagerFails \/ ManagerLoopExceeded
    \/ CollectDone \/ CollectPause \/ CollectBreakpoint \/ CollectError \/ BatchEnds

SquadNext ==
    \/ StartRun \/ RunStep \/ SendSignal \/ StreamEnds
    \/ \E r \in Runs, m \in Missions : MissionStep(r, m)

\* Tokio polls the run and each mission; a mission's executor returns.
SquadFairness == /\ WF_squadVars(RunStep)
                 /\ \A r \in Runs, m \in Missions : WF_squadVars(MissionStep(r, m))

SquadSpec == SquadInit /\ [][SquadNext]_squadVars /\ SquadFairness

-----------------------------------------------------------------------------

TaskType == {NoTask, [at |-> "sent"], [at |-> "taken"]} \cup
            [at : {"spawned", "executing", "sending"}, outcome : Outcomes,
             shared : [Missions -> Values], thread : Nat, signalled : BOOLEAN]

\* The types of the variables.
SquadTypeOK ==
    /\ team \in Teams
    /\ status \in {"Pending", "Running", "Completed", "Failed"} \cup Paused
    /\ finished \subseteq Missions /\ done \subseteq Missions /\ toSpawn \subseteq Missions
    /\ signalled \in BOOLEAN /\ registered \in BOOLEAN
    /\ shared \in [Missions -> Values] /\ thread \in Nat
    /\ run \in 0..MaxRuns /\ loops \in 0..MaxManagerLoops /\ batch \in Nat
    /\ runPc \in {"idle", "plan", "loop", "spawn", "collect"}
    /\ needs \in [Missions -> SUBSET Missions]
    /\ results \in Seq(Results)
    /\ missionTasks \in [Runs \X Missions -> TaskType]
    /\ squadLog \subseteq Events

\* A mission of a sequential team works on a context that holds the outputs of
\* everything it depends on, however its batch and the ones before were merged, and
\* across pauses.  (With inputs under the missions' own keys a branch that finishes
\* late puts the input back: see README.)
SeesDependencies ==
    run > 0 /\ team.process = "sequential" /\ ~team.inputs =>
        \A m \in AliveIn(run) : \A d \in needs[m] : Task(run, m).shared[d] \in Runs

\* A squad that says it is completed has every mission's completion in its log and
\* every output in its context, unless a manager ended it.
CompletedIsComplete ==
    status = "Completed" /\ team.process = "sequential" =>
        \A m \in Missions : /\ \E r \in Runs : Emitted("MissionCompleted", m, r) \in squadLog
                            /\ shared[m] # Absent

MissionsAreSound == SeesDependencies /\ CompletedIsComplete

\* A run returns: missions in excess of the permits get theirs, nobody waits for a full
\* channel, a manager comes to an end.
RunReturns == (runPc # "idle") ~> (runPc = "idle")

\* What the documentation expects and the code does not keep (README).
\* A message is in the thread once.
MessageOnce == thread <= Cardinality({e \in squadLog : e.type = "MissionCompleted"})
\* A mission is executed by one task at a time.
OneExecution == \A m \in Missions : Cardinality({r \in Runs : Task(r, m).at = "executing"}) <= 1
\* A paused squad can be resumed.
PausedIsResumable == status \in Paused => registered
\* Retries are bounded: a mission with one retry is scheduled twice at most.
RetriesBounded == \A m \in Missions :
    Cardinality({r \in Runs : Emitted("MissionRetryScheduled", m, r) \in squadLog}) <= 1
\* A log that says the squad failed is the log of a failed squad.
FailureIsSeen == SquadEmitted("SquadFailed") \in squadLog => status = "Failed"
==============================================================================
