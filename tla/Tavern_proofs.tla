---------------------------- MODULE Tavern_proofs ----------------------------
(***************************************************************************)
(* A squad's missions, for any missions, teams and plans and any number of *)
(* runs: what a mission is given, and what a completed squad has; its      *)
(* workflow's log, of any steps and any length: what replays and timelines *)
(* tell; the agents, teams and flows it is defined by, for any files and   *)
(* callers.                                                                *)
(***************************************************************************)
EXTENDS SquadEngine, WorkflowLog, Definitions, FoldLemmas, FiniteSetTheorems, TLAPS

Working == [at : {"spawned", "executing", "sending"}, outcome : Outcomes,
            shared : [Missions -> Values], thread : Nat, signalled : BOOLEAN]

-----------------------------------------------------------------------------
(* Types.                                                                   *)

\* What is known of the team, and of the names used.
LEMMA TeamTypes ==
  ASSUME team \in Teams
  PROVE  /\ team.inputs \in BOOLEAN /\ team.permits \in Nat \ {0}
         /\ team.needs \in [Missions -> SUBSET Missions] /\ team.needsOne \in [Missions -> SUBSET Missions]
         /\ team.waits \subseteq Missions /\ team.breaks \subseteq Missions /\ team.retried \subseteq Missions
         /\ team.planned \in BOOLEAN
  BY SquadAssumption DEF SquadAssumption

LEMMA ValueTypes ==
  /\ MaxRuns \in Nat /\ MaxManagerLoops \in Nat /\ IsFiniteSet(Missions)
  /\ Absent \in Values /\ Input \in Values /\ Runs \subseteq Values
  /\ \A v \in Values : v # Absent /\ v # Input => v \in Runs
  /\ \A r \in Runs : r # Absent /\ r # Input
  BY SquadAssumption DEF SquadAssumption, Absent, Input, Runs, Values

\* One task changes; where it works it has a record.
LEMMA TaskAt ==
  ASSUME SquadTypeOK, NEW r \in Runs, NEW m \in Missions, Task(r, m).at \in {"spawned", "executing", "sending"}
  PROVE  Task(r, m) \in Working
<1>1. Task(r, m) \in TaskType
  BY DEF SquadTypeOK, Task
<1> QED
  BY <1>1 DEF TaskType, Working, NoTask

LEMMA TaskTypesStep ==
  ASSUME SquadTypeOK, NEW t \in Runs \X Missions, NEW v \in TaskType,
         missionTasks' = [missionTasks EXCEPT ![t] = v]
  PROVE  /\ missionTasks' \in [Runs \X Missions -> TaskType]
         /\ missionTasks'[t] = v
         /\ \A u \in Runs \X Missions : u # t => missionTasks'[u] = missionTasks[u]
  BY DEF SquadTypeOK

\* What a step of a mission writes into its task.
LEMMA SendingTask ==
  ASSUME SquadTypeOK, NEW r \in Runs, NEW m \in Missions, Task(r, m) \in Working, NEW o \in Outcomes,
         Sending(<<r, m>>, o)
  PROVE  \E v \in Working : /\ missionTasks' = [missionTasks EXCEPT ![<<r, m>>] = v]
                            /\ v.at = "sending" /\ v.outcome = o /\ v.shared = Task(r, m).shared
<1> DEFINE v == [Task(r, m) EXCEPT !.at = "sending", !.outcome = o]
<1>1. missionTasks' = [missionTasks EXCEPT ![<<r, m>>] = v]
  BY DEF Sending, Task, SquadTypeOK
<1>2. v \in Working /\ v.at = "sending" /\ v.outcome = o /\ v.shared = Task(r, m).shared
  BY DEF Working
<1> HIDE DEF v
<1> QED
  BY <1>1, <1>2

LEMMA StartingTask ==
  ASSUME SquadTypeOK, NEW r \in Runs, NEW m \in Missions, StartMission(r, m)
  PROVE  \E v \in Working : /\ missionTasks' = [missionTasks EXCEPT ![<<r, m>>] = v]
                            /\ v.at = "executing" /\ v.shared = Task(r, m).shared
<1> DEFINE v == [Task(r, m) EXCEPT !.at = "executing"]
<1>0. Task(r, m) \in Working
  BY TaskAt DEF StartMission
<1>1. missionTasks' = [missionTasks EXCEPT ![<<r, m>>] = v]
  BY DEF StartMission, Task, SquadTypeOK
<1>2. v \in Working /\ v.at = "executing" /\ v.shared = Task(r, m).shared
  BY <1>0 DEF Working
<1> HIDE DEF v
<1> QED
  BY <1>1, <1>2

LEMMA CompletingTask ==
  ASSUME SquadTypeOK, NEW r \in Runs, NEW m \in Missions, CompleteMission(r, m)
  PROVE  \E v \in Working : /\ missionTasks' = [missionTasks EXCEPT ![<<r, m>>] = v]
                            /\ v.at = "sending" /\ v.shared = [Task(r, m).shared EXCEPT ![m] = r]
<1> DEFINE s == Task(r, m)
           v == [at |-> "sending", outcome |-> IF m \in team.breaks THEN "breakpoint" ELSE "ok",
                 shared |-> [s.shared EXCEPT ![m] = r],
                 thread |-> s.thread + 1, signalled |-> s.signalled]
<1>0. s \in Working
  BY TaskAt DEF CompleteMission
<1>1. v \in Working
  BY <1>0, ValueTypes DEF Working, Outcomes
<1>2. missionTasks' = [missionTasks EXCEPT ![<<r, m>>] = v]
  BY DEF CompleteMission, Task, SquadTypeOK
<1>3. v.at = "sending" /\ v.shared = [Task(r, m).shared EXCEPT ![m] = r]
  OBVIOUS
<1> HIDE DEF v
<1> QED
  BY <1>1, <1>2, <1>3

-----------------------------------------------------------------------------
(* The inductive invariant.                                                 *)

Logged(m) == \E r \in Runs : Emitted("MissionCompleted", m, r) \in squadLog
Succeeded == {"ok", "breakpoint"}
AtWork(t) == t.at \in {"spawned", "executing", "sending"}

\* The run under way has tasks once it has planned, none is of a run to come, and the
\* missions that wait for a permit need what is done.
RunShape ==
    /\ runPc # "idle" => run > 0
    /\ \A r \in Runs, m \in Missions : r > run \/ (r = run /\ runPc = "plan") => Task(r, m) = NoTask
    /\ toSpawn # {} => runPc = "spawn"
    /\ \A m \in toSpawn : needs[m] \subseteq done

\* A task that succeeded, and a result that says so, hold the mission's output.
TasksProduce == \A r \in Runs, m \in Missions :
    Task(r, m).at = "sending" /\ Task(r, m).outcome \in Succeeded
        => Task(r, m).shared[m] # Absent /\ Logged(m)
Produces(e) == e.outcome \in Succeeded => e.shared[e.mission] # Absent /\ Logged(e.mission)
ResultsProduce == \A i \in 1..Len(results) : Produces(results[i])

\* A mission that counts as done left its output, and its completion in the log.
DoneProduced == \A m \in done \cup finished : shared[m] # Absent /\ Logged(m)
CompletedFinished == status = "Completed" /\ team.process = "sequential" => Missions \subseteq finished

\* Without inputs a context holds outputs only.
NoInput(sh) == \A k \in Missions : sh[k] # Input
OnlyOutputs == ~team.inputs =>
    /\ NoInput(shared)
    /\ \A r \in Runs, m \in Missions : AtWork(Task(r, m)) => NoInput(Task(r, m).shared)
    /\ \A i \in 1..Len(results) : NoInput(results[i].shared)

SquadIInv == /\ SquadTypeOK /\ RunShape /\ TasksProduce /\ ResultsProduce /\ DoneProduced
             /\ CompletedFinished /\ OnlyOutputs /\ SeesDependencies

-----------------------------------------------------------------------------
(* Type correctness.                                                        *)

Statuses == {"Pending", "Running", "Completed", "Failed"} \cup Paused

\* The events a step writes.
LEMMA EventTypes ==
  ASSUME SquadTypeOK
  PROVE  /\ \A m \in Missions, r \in Runs : /\ Emitted("MissionCompleted", m, r) \in Events
                                            /\ Emitted("MissionFailed", m, r) \in Events
                                            /\ Emitted("MissionRetryScheduled", m, r) \in Events
         /\ run > 0 => /\ SquadEmitted("SquadCompleted") \in Events
                       /\ SquadEmitted("SquadFailed") \in Events
         /\ run > 0 => run \in Runs
<1>1. run \in 0..MaxRuns /\ MaxRuns \in Nat
  BY ValueTypes DEF SquadTypeOK
<1>2. run > 0 => run \in Runs
  BY <1>1 DEF Runs
<1> QED
  BY <1>2 DEF Events, Emitted, SquadEmitted

LEMMA ClonesAreWorking ==
  ASSUME SquadTypeOK
  PROVE  Clone \in Working /\ Clone \in TaskType
  BY DEF SquadTypeOK, Clone, Working, TaskType, Outcomes

LEMMA WorkingIsTask == Working \subseteq TaskType
  BY DEF Working, TaskType

LEMMA SquadInitTypes == SquadInit => SquadTypeOK
<1> SUFFICES ASSUME SquadInit PROVE SquadTypeOK
  OBVIOUS
<1>1. shared \in [Missions -> Values]
  BY ValueTypes DEF SquadInit
<1>2. missionTasks \in [Runs \X Missions -> TaskType]
  BY DEF SquadInit, TaskType
<1>3. needs \in [Missions -> SUBSET Missions]
  BY TeamTypes DEF SquadInit
<1>4. run \in 0..MaxRuns /\ loops \in 0..MaxManagerLoops /\ batch \in Nat /\ thread \in Nat
  BY ValueTypes DEF SquadInit
<1>5. results \in Seq(Results) /\ squadLog \subseteq Events
  BY DEF SquadInit
<1>6. /\ finished \subseteq Missions /\ done \subseteq Missions /\ toSpawn \subseteq Missions
      /\ signalled \in BOOLEAN /\ registered \in BOOLEAN
      /\ status \in Statuses /\ runPc \in {"idle", "plan", "loop", "spawn", "collect"}
  BY DEF SquadInit, Statuses
<1> QED
  BY <1>1, <1>2, <1>3, <1>4, <1>5, <1>6 DEF SquadInit, SquadTypeOK, Statuses

\* A step of a mission writes one task, and perhaps an event or a result.
LEMMA MissionTypes ==
  ASSUME SquadTypeOK, NEW r \in Runs, NEW m \in Missions, MissionStep(r, m)
  PROVE  /\ missionTasks' \in [Runs \X Missions -> TaskType]
         /\ squadLog' \subseteq Events /\ results' \in Seq(Results)
         /\ UNCHANGED <<chosen, squadState, run, runPc, done, needs, toSpawn, batch, loops, registered>>
<1> SUFFICES ASSUME TRUE
             PROVE  /\ missionTasks' \in [Runs \X Missions -> TaskType]
                    /\ squadLog' \subseteq Events /\ results' \in Seq(Results)
  BY DEF MissionStep, WaitForSignal, StartMission, CompleteMission, FailMission, MissionErrs,
         SendResult, runState
<1>1. CASE WaitForSignal(r, m)
  <2>1. PICK v \in Working : missionTasks' = [missionTasks EXCEPT ![<<r, m>>] = v]
    BY <1>1, TaskAt, SendingTask DEF WaitForSignal, Outcomes
  <2> QED
    BY <1>1, <2>1, TaskTypesStep, WorkingIsTask DEF WaitForSignal, SquadTypeOK, runState
<1>2. CASE StartMission(r, m)
  <2>1. PICK v \in Working : missionTasks' = [missionTasks EXCEPT ![<<r, m>>] = v]
    BY <1>2, StartingTask
  <2> QED
    BY <1>2, <2>1, TaskTypesStep, WorkingIsTask DEF StartMission, SquadTypeOK, runState
<1>3. CASE CompleteMission(r, m)
  <2>1. PICK v \in Working : missionTasks' = [missionTasks EXCEPT ![<<r, m>>] = v]
    <3>1. \E v \in Working : /\ missionTasks' = [missionTasks EXCEPT ![<<r, m>>] = v]
                             /\ v.at = "sending" /\ v.shared = [Task(r, m).shared EXCEPT ![m] = r]
      BY <1>3, CompletingTask, Zenon
    <3> QED
      BY <3>1, Zenon
  <2> QED
    BY <1>3, <2>1, TaskTypesStep, WorkingIsTask, EventTypes DEF CompleteMission, SquadTypeOK, runState
<1>4. CASE FailMission(r, m)
  <2>1. PICK v \in Working : missionTasks' = [missionTasks EXCEPT ![<<r, m>>] = v]
    BY <1>4, TaskAt, SendingTask DEF FailMission, Outcomes
  <2>2. squadLog' \subseteq Events
    BY <1>4, EventTypes DEF FailMission, SquadTypeOK
  <2> QED
    BY <1>4, <2>1, <2>2, TaskTypesStep, WorkingIsTask DEF FailMission, SquadTypeOK, runState
<1>5. CASE MissionErrs(r, m)
  <2>1. PICK v \in Working : missionTasks' = [missionTasks EXCEPT ![<<r, m>>] = v]
    BY <1>5, TaskAt, SendingTask DEF MissionErrs, Outcomes
  <2> QED
    BY <1>5, <2>1, TaskTypesStep, WorkingIsTask DEF MissionErrs, SquadTypeOK, runState
<1>6. CASE SendResult(r, m)
  <2>1. missionTasks' \in [Runs \X Missions -> TaskType]
    BY <1>6 DEF SendResult, SquadTypeOK, TaskType
  <2>2. Task(r, m) \in Working
    BY <1>6, TaskAt DEF SendResult
  <2>3. [mission |-> m, outcome |-> Task(r, m).outcome, shared |-> Task(r, m).shared,
         thread |-> Task(r, m).thread] \in Results
    BY <2>2 DEF Working, Results
  <2>4. results' \in Seq(Results)
    <3>1. results \in Seq(Results)
      BY DEF SquadTypeOK
    <3>2. CASE Receiving(r)
      BY <1>6, <2>3, <3>1, <3>2 DEF SendResult
    <3>3. CASE ~Receiving(r)
      BY <1>6, <3>1, <3>3 DEF SendResult
    <3> QED
      BY <3>2, <3>3
  <2> QED
    BY <1>6, <2>1, <2>4 DEF SendResult, SquadTypeOK
<1> QED
  BY <1>1, <1>2, <1>3, <1>4, <1>5, <1>6 DEF MissionStep

\* The run's channel: its head, and what taking it leaves.
LEMMA HeadTypes ==
  ASSUME SquadTypeOK, results # <<>>
  PROVE  /\ Head(results) \in Results /\ Tail(results) \in Seq(Results)
         /\ Head(results) = results[1] /\ 1 \in 1..Len(results)
         /\ \A i \in 1..Len(Tail(results)) : i + 1 \in 1..Len(results) /\ Tail(results)[i] = results[i + 1]
<1>1. results \in Seq(Results)
  BY DEF SquadTypeOK
<1>2. Len(results) \in Nat /\ Len(results) > 0
  BY <1>1
<1> QED
  BY <1>1, <1>2

LEMMA TakenTypes ==
  ASSUME SquadTypeOK, run > 0, results # <<>>, Take(Head(results).mission)
  PROVE  /\ missionTasks' \in [Runs \X Missions -> TaskType] /\ results' \in Seq(Results)
         /\ Head(results).mission \in Missions
<1>1. Head(results) \in Results /\ Tail(results) \in Seq(Results)
  BY HeadTypes
<1>2. Head(results).mission \in Missions
  BY <1>1 DEF Results
<1>3. [at |-> "taken"] \in TaskType
  BY DEF TaskType
<1> QED
  BY <1>1, <1>2, <1>3 DEF Take, SquadTypeOK

LEMMA MergedTypes ==
  ASSUME SquadTypeOK, NEW e \in Results, Merged(e)
  PROVE  shared' \in [Missions -> Values] /\ thread' \in Nat
<1>1. e.shared \in [Missions -> Values] /\ e.thread \in Nat
  BY DEF Results
<1>2. shared \in [Missions -> Values] /\ thread \in Nat
  BY DEF SquadTypeOK
<1>3. thread' \in Nat
  BY <1>1, <1>2 DEF Merged
<1> QED
  BY <1>1, <1>2, <1>3 DEF Merged

\* The steps of a run, one by one.
LEMMA CollectTypes ==
  ASSUME SquadTypeOK, run > 0, CollectDone \/ CollectPause \/ CollectBreakpoint \/ CollectError
  PROVE  SquadTypeOK'
<1>0. results # <<>> /\ Take(Head(results).mission)
  BY DEF CollectDone, CollectPause, CollectBreakpoint, CollectError
<1>1. /\ missionTasks' \in [Runs \X Missions -> TaskType] /\ results' \in Seq(Results)
      /\ Head(results).mission \in Missions /\ Head(results) \in Results
  BY <1>0, TakenTypes, HeadTypes
<1>2. shared' \in [Missions -> Values] /\ thread' \in Nat
  <2>1. CASE Merged(Head(results))
    BY <1>1, <2>1, MergedTypes
  <2>2. CASE CollectError
    BY <2>2 DEF CollectError, SquadTypeOK
  <2> QED
    BY <2>1, <2>2 DEF CollectDone, CollectPause, CollectBreakpoint
<1>3. /\ finished' \subseteq Missions /\ done' \subseteq Missions /\ status' \in Statuses
      /\ runPc' \in {"idle", "plan", "loop", "spawn", "collect"}
  <2>1. finished \subseteq Missions /\ done \subseteq Missions /\ status \in Statuses
    BY DEF SquadTypeOK, Statuses
  <2>2. CASE CollectDone
    BY <1>1, <2>1, <2>2 DEF CollectDone
  <2>3. CASE CollectPause
    BY <1>1, <2>1, <2>3 DEF CollectPause, Statuses, Paused
  <2>4. CASE CollectBreakpoint
    BY <1>1, <2>1, <2>4 DEF CollectBreakpoint, Statuses, Paused
  <2>5. CASE CollectError
    BY <1>1, <2>1, <2>5 DEF CollectError, Statuses
  <2> QED
    BY <2>2, <2>3, <2>4, <2>5
<1>4. squadLog' \subseteq Events
  BY EventTypes DEF CollectDone, CollectPause, CollectBreakpoint, CollectError, SquadTypeOK
<1>5. UNCHANGED <<team, signalled, run, needs, toSpawn, batch, loops, registered>>
  BY DEF CollectDone, CollectPause, CollectBreakpoint, CollectError, chosen
<1> QED
  BY <1>1, <1>2, <1>3, <1>4, <1>5 DEF SquadTypeOK, Statuses

LEMMA SpawnTypes ==
  ASSUME SquadTypeOK, run > 0, Delegate \/ \E m \in Missions : Spawn(m)
  PROVE  SquadTypeOK'
<1>0. run \in Runs /\ Clone \in TaskType
  BY EventTypes, ClonesAreWorking
<1>1. CASE Delegate
  <2>1. missionTasks' \in [Runs \X Missions -> TaskType]
    BY <1>0, <1>1 DEF Delegate, SquadTypeOK
  <2>2. loops' \in 0..MaxManagerLoops
    BY <1>1, ValueTypes DEF Delegate, SquadTypeOK
  <2>3. results' \in Seq(Results)
    BY <1>1 DEF Delegate
  <2>4. batch' \in Nat /\ runPc' = "collect"
    BY <1>1 DEF Delegate
  <2> QED
    BY <1>1, <2>1, <2>2, <2>3, <2>4 DEF Delegate, SquadTypeOK, chosen, squadState
<1>2. ASSUME NEW m \in Missions, Spawn(m) PROVE SquadTypeOK'
  <2>1. missionTasks' \in [Runs \X Missions -> TaskType]
    BY <1>0, <1>2 DEF Spawn, SquadTypeOK
  <2>2. runPc' \in {"spawn", "collect"} /\ toSpawn' \subseteq Missions
    BY <1>2 DEF Spawn, SquadTypeOK
  <2> QED
    BY <1>2, <2>1, <2>2 DEF Spawn, SquadTypeOK, chosen, squadState
<1> QED
  BY <1>1, <1>2

\* A run's other steps leave tasks, context and thread alone.
ControlStep == \/ Plan \/ PlanFails \/ RunCompletes \/ RunStuck \/ OpenBatch
               \/ ManagerTerminates \/ ManagerFails \/ ManagerLoopExceeded \/ BatchEnds

LEMMA ControlTypes ==
  ASSUME SquadTypeOK, run > 0, ControlStep
  PROVE  /\ SquadTypeOK'
         /\ UNCHANGED <<team, shared, thread, signalled, registered, run, done, missionTasks>>
<1>1. UNCHANGED <<team, shared, thread, signalled, registered, run, done, missionTasks>>
  BY DEF ControlStep, Plan, PlanFails, RunCompletes, RunStuck, OpenBatch, ManagerTerminates,
         ManagerFails, ManagerLoopExceeded, BatchEnds, chosen, squadState, Finish
<1>2. squadLog' \subseteq Events
  BY EventTypes DEF ControlStep, Plan, PlanFails, RunCompletes, RunStuck, OpenBatch, ManagerTerminates,
         ManagerFails, ManagerLoopExceeded, BatchEnds, Finish, SquadTypeOK
<1>3. /\ status' \in Statuses /\ finished' \subseteq Missions
      /\ runPc' \in {"idle", "plan", "loop", "spawn", "collect"}
  BY DEF ControlStep, Plan, PlanFails, RunCompletes, RunStuck, OpenBatch, ManagerTerminates,
         ManagerFails, ManagerLoopExceeded, BatchEnds, Finish, SquadTypeOK, squadState, Statuses
<1>4. needs' \in [Missions -> SUBSET Missions]
  <2>1. CASE Plan
    BY <2>1, SquadAssumption DEF SquadAssumption, Plan, SquadTypeOK
  <2>2. CASE ~Plan
    BY <2>2 DEF ControlStep, PlanFails, RunCompletes, RunStuck, OpenBatch, ManagerTerminates,
         ManagerFails, ManagerLoopExceeded, BatchEnds, SquadTypeOK
  <2> QED
    BY <2>1, <2>2
<1>5. toSpawn' \subseteq Missions /\ batch' \in Nat /\ results' \in Seq(Results)
  <2>1. CASE OpenBatch
    <3>1. Ready \ Running \subseteq Missions
      BY DEF Ready
    <3>2. Cardinality(Ready \ Running) \in Nat
      BY <3>1, ValueTypes, FS_Subset, FS_CardinalityType
    <3> QED
      BY <2>1, <3>1, <3>2 DEF OpenBatch
  <2>2. CASE ~OpenBatch
    BY <2>2 DEF ControlStep, Plan, PlanFails, RunCompletes, RunStuck, ManagerTerminates,
         ManagerFails, ManagerLoopExceeded, BatchEnds, SquadTypeOK
  <2> QED
    BY <2>1, <2>2
<1>6. loops' \in 0..MaxManagerLoops
  BY ValueTypes DEF ControlStep, Plan, PlanFails, RunCompletes, RunStuck, OpenBatch, ManagerTerminates,
         ManagerFails, ManagerLoopExceeded, BatchEnds, SquadTypeOK
<1> QED
  BY <1>1, <1>2, <1>3, <1>4, <1>5, <1>6 DEF SquadTypeOK, Statuses

LEMMA AroundTypes ==
  ASSUME SquadTypeOK, StartRun \/ SendSignal \/ StreamEnds
  PROVE  SquadTypeOK'
<1>1. CASE StartRun
  <2>1. run' \in 0..MaxRuns /\ loops' \in 0..MaxManagerLoops
    BY <1>1, ValueTypes DEF StartRun, SquadTypeOK
  <2>2. needs' \in [Missions -> SUBSET Missions]
    BY <1>1, TeamTypes DEF StartRun, SquadTypeOK
  <2>3. runPc' \in {"plan", "loop"} /\ status' = "Running"
    BY <1>1 DEF StartRun
  <2> QED
    BY <1>1, <2>1, <2>2, <2>3 DEF StartRun, SquadTypeOK, chosen
<1>2. CASE SendSignal
  BY <1>2 DEF SendSignal, SquadTypeOK, chosen, runState
<1>3. CASE StreamEnds
  BY <1>3 DEF StreamEnds, SquadTypeOK, chosen, squadState, runState
<1> QED
  BY <1>1, <1>2, <1>3

\* Every step of a run but its collecting and spawning is a control step.
LEMMA RunSteps ==
  RunStep => \/ ControlStep \/ Delegate \/ \E m \in Missions : Spawn(m)
             \/ CollectDone \/ CollectPause \/ CollectBreakpoint \/ CollectError
  BY DEF RunStep, ControlStep

LEMMA RunIsUnderWay ==
  ASSUME RunShape, RunStep
  PROVE  run > 0
  BY DEF RunShape, RunStep, Plan, PlanFails, RunCompletes, RunStuck, OpenBatch, ManagerTerminates,
         ManagerFails, ManagerLoopExceeded, BatchEnds, Delegate, Spawn,
         CollectDone, CollectPause, CollectBreakpoint, CollectError

LEMMA SquadTypesStep ==
  ASSUME SquadTypeOK, RunShape, [SquadNext]_squadVars
  PROVE  SquadTypeOK'
<1>1. CASE StartRun \/ SendSignal \/ StreamEnds
  BY <1>1, AroundTypes
<1>2. CASE RunStep
  <2>1. run > 0
    BY <1>2, RunIsUnderWay
  <2> QED
    BY <1>2, <2>1, RunSteps, ControlTypes, SpawnTypes, CollectTypes
<1>3. ASSUME NEW r \in Runs, NEW m \in Missions, MissionStep(r, m) PROVE SquadTypeOK'
  <2>1. /\ missionTasks' \in [Runs \X Missions -> TaskType]
        /\ squadLog' \subseteq Events /\ results' \in Seq(Results)
        /\ UNCHANGED <<chosen, squadState, run, runPc, done, needs, toSpawn, batch, loops, registered>>
    BY <1>3, MissionTypes
  <2> QED
    BY <2>1 DEF SquadTypeOK, chosen, squadState
<1>4. CASE UNCHANGED squadVars
  BY <1>4 DEF squadVars, SquadTypeOK
<1> QED
  BY <1>1, <1>2, <1>3, <1>4 DEF SquadNext

-----------------------------------------------------------------------------
(* What the steps do to tasks, log and context.                             *)

LEMMA TasksStay ==
  ASSUME missionTasks' = missionTasks
  PROVE  \A q \in Runs, n \in Missions : Task(q, n)' = Task(q, n)
  BY DEF Task

\* The log only grows.
LEMMA LogGrows ==
  ASSUME [SquadNext]_squadVars
  PROVE  squadLog \subseteq squadLog' /\ \A m \in Missions : Logged(m) => Logged(m)'
<1>1. squadLog \subseteq squadLog'
  <2>1. CASE RunStep
    BY <2>1 DEF RunStep, Plan, PlanFails, RunCompletes, RunStuck, OpenBatch, ManagerTerminates,
         ManagerFails, ManagerLoopExceeded, BatchEnds, Delegate, Spawn, Finish,
         CollectDone, CollectPause, CollectBreakpoint, CollectError
  <2>2. ASSUME NEW r \in Runs, NEW m \in Missions, MissionStep(r, m) PROVE squadLog \subseteq squadLog'
    BY <2>2 DEF MissionStep, WaitForSignal, StartMission, CompleteMission, FailMission, MissionErrs,
         SendResult
  <2>3. CASE StartRun \/ SendSignal \/ StreamEnds \/ UNCHANGED squadVars
    BY <2>3 DEF StartRun, SendSignal, StreamEnds, squadVars
  <2> QED
    BY <2>1, <2>2, <2>3 DEF SquadNext
<1> QED
  BY <1>1 DEF Logged, Emitted

\* A mission at work reaches its next state: it ends well with its output and its event,
\* and writes nothing but its output.
Advances(r, m, v) ==
    /\ missionTasks' = [missionTasks EXCEPT ![<<r, m>>] = v] /\ results' = results
    /\ v.at = "sending" /\ v.outcome \in Succeeded => v.shared[m] # Absent /\ Logged(m)'
    /\ \A k \in Missions : v.shared[k] = Task(r, m).shared[k] \/ v.shared[k] \in Runs

LEMMA MissionAdvances ==
  ASSUME SquadTypeOK, NEW r \in Runs, NEW m \in Missions, MissionStep(r, m), ~SendResult(r, m)
  PROVE  Task(r, m) \in Working /\ \E v \in Working : Advances(r, m, v)
<1>1. Task(r, m) \in Working
  BY TaskAt DEF MissionStep, WaitForSignal, StartMission, CompleteMission, FailMission, MissionErrs
<1>2. ASSUME \E o \in Outcomes \ Succeeded : Sending(<<r, m>>, o), results' = results
      PROVE  \E v \in Working : Advances(r, m, v)
  <2>0. PICK o \in Outcomes : o \notin Succeeded /\ Sending(<<r, m>>, o)
    BY <1>2
  <2>1. PICK v \in Working : /\ missionTasks' = [missionTasks EXCEPT ![<<r, m>>] = v]
                             /\ v.at = "sending" /\ v.outcome = o /\ v.shared = Task(r, m).shared
    BY <1>1, <2>0, SendingTask
  <2>2. Advances(r, m, v)
    BY <1>2, <2>0, <2>1 DEF Advances
  <2> QED
    BY <2>2, Zenon
<1>3. CASE WaitForSignal(r, m)
  <2>1. \E o \in Outcomes \ Succeeded : Sending(<<r, m>>, o)
    BY <1>3 DEF WaitForSignal, Outcomes, Succeeded
  <2> QED
    <3>1. results' = results
      BY <1>3 DEF WaitForSignal, runState
    <3> QED
      BY <1>1, <1>2, <2>1, <3>1, Zenon
<1>4. CASE MissionErrs(r, m)
  <2>1. \E o \in Outcomes \ Succeeded : Sending(<<r, m>>, o)
    BY <1>4 DEF MissionErrs, Outcomes, Succeeded
  <2> QED
    <3>1. results' = results
      BY <1>4 DEF MissionErrs, runState
    <3> QED
      BY <1>1, <1>2, <2>1, <3>1, Zenon
<1>5. CASE FailMission(r, m)
  <2>1. \E o \in Outcomes \ Succeeded : Sending(<<r, m>>, o)
    BY <1>5 DEF FailMission, Outcomes, Succeeded
  <2> QED
    <3>1. results' = results
      BY <1>5 DEF FailMission, runState
    <3> QED
      BY <1>1, <1>2, <2>1, <3>1, Zenon
<1>6. CASE StartMission(r, m)
  <2>1. PICK v \in Working : /\ missionTasks' = [missionTasks EXCEPT ![<<r, m>>] = v]
                             /\ v.at = "executing" /\ v.shared = Task(r, m).shared
    BY <1>6, StartingTask
  <2>2. results' = results
    BY <1>6 DEF StartMission, runState
  <2>3. Advances(r, m, v)
    BY <2>1, <2>2 DEF Advances
  <2> QED
    BY <1>1, <2>3, Zenon
<1>7. CASE CompleteMission(r, m)
  <2>1. \E v \in Working : /\ missionTasks' = [missionTasks EXCEPT ![<<r, m>>] = v]
                           /\ v.at = "sending" /\ v.shared = [Task(r, m).shared EXCEPT ![m] = r]
    BY <1>7, CompletingTask, Zenon
  <2>2. PICK v \in Working : /\ missionTasks' = [missionTasks EXCEPT ![<<r, m>>] = v]
                             /\ v.at = "sending" /\ v.shared = [Task(r, m).shared EXCEPT ![m] = r]
    BY <2>1, Zenon
  <2>3. results' = results
    BY <1>7 DEF CompleteMission, runState
  <2>4. Logged(m)'
    BY <1>7 DEF CompleteMission, Logged
  <2>5. Task(r, m).shared \in [Missions -> Values]
    BY <1>1 DEF Working
  <2>6. v.shared[m] = r /\ \A k \in Missions : v.shared[k] = Task(r, m).shared[k] \/ v.shared[k] \in Runs
    BY <2>2, <2>5
  <2>7. v.shared[m] # Absent
    BY <2>6, ValueTypes
  <2>8. Advances(r, m, v)
    BY <2>2, <2>3, <2>4, <2>6, <2>7 DEF Advances
  <2> QED
    BY <1>1, <2>8, Zenon
<1> QED
  BY <1>1, <1>3, <1>4, <1>5, <1>6, <1>7 DEF MissionStep

\* A result that is sent says what its task did.
LEMMA ResultIsSent ==
  ASSUME SquadTypeOK, NEW r \in Runs, NEW m \in Missions, SendResult(r, m)
  PROVE  /\ Task(r, m) \in Working /\ Task(r, m).at = "sending"
         /\ missionTasks' = [missionTasks EXCEPT ![<<r, m>>] = [at |-> "sent"]]
         /\ \/ results' = results
            \/ \E e \in Results :
                  /\ results' = Append(results, e) /\ e.mission = m
                  /\ e.outcome = Task(r, m).outcome /\ e.shared = Task(r, m).shared
<1>1. Task(r, m) \in Working
  BY TaskAt DEF SendResult
<1>2. [mission |-> m, outcome |-> Task(r, m).outcome, shared |-> Task(r, m).shared,
       thread |-> Task(r, m).thread] \in Results
  BY <1>1 DEF Working, Results
<1> QED
  BY <1>1, <1>2 DEF SendResult

\* What merging a result does to the context.
LEMMA MergeKeeps ==
  ASSUME SquadTypeOK, NEW e \in Results, Merged(e)
  PROVE  \A k \in Missions :
            /\ shared[k] # Absent \/ e.shared[k] # Absent => shared'[k] # Absent
            /\ shared[k] # Input /\ e.shared[k] # Input => shared'[k] # Input
  BY DEF Merged, SquadTypeOK

\* Steps that touch nothing the invariant speaks of.
Rests == UNCHANGED <<team, status, finished, shared, run, runPc, done, needs, toSpawn, results,
                     missionTasks, squadLog>>
Collects == CollectDone \/ CollectPause \/ CollectBreakpoint \/ CollectError

LEMMA StepKinds ==
  ASSUME [SquadNext]_squadVars
  PROVE  \/ StartRun \/ Rests \/ ControlStep \/ Delegate \/ (\E m \in Missions : Spawn(m)) \/ Collects
         \/ \E r \in Runs, m \in Missions : MissionStep(r, m)
<1>1. SendSignal \/ StreamEnds \/ UNCHANGED squadVars => Rests
  BY DEF SendSignal, StreamEnds, squadVars, Rests, chosen, squadState, runState
<1> QED
  BY <1>1, RunSteps DEF SquadNext, Collects

\* The run takes a result: its task is marked, its outcome decides what counts as done.
LEMMA Collecting ==
  ASSUME SquadTypeOK, run > 0, Collects
  PROVE  /\ run \in Runs /\ runPc = "collect" /\ runPc' \in {"collect", "idle"}
         /\ results # <<>> /\ results' = Tail(results)
         /\ Head(results) \in Results /\ Head(results).mission \in Missions
         /\ missionTasks' = [missionTasks EXCEPT ![<<run, Head(results).mission>>] = [at |-> "taken"]]
         /\ UNCHANGED <<team, run, needs, toSpawn>>
         /\ Merged(Head(results)) \/ shared' = shared
         /\ \A m \in done' \cup finished' :
               m \in done \cup finished \/ (/\ m = Head(results).mission /\ Merged(Head(results))
                                            /\ Head(results).outcome \in Succeeded)
         /\ status' # "Completed" \/ UNCHANGED <<status, finished>>
<1>1. results # <<>> /\ Take(Head(results).mission) /\ runPc = "collect"
  BY DEF Collects, CollectDone, CollectPause, CollectBreakpoint, CollectError
<1>2. run \in Runs /\ Head(results) \in Results /\ Head(results).mission \in Missions
  BY <1>1, TakenTypes, HeadTypes, EventTypes
<1>3. /\ runPc' \in {"collect", "idle"} /\ UNCHANGED <<team, run, needs, toSpawn>>
      /\ Merged(Head(results)) \/ shared' = shared
  BY <1>1 DEF Collects, CollectDone, CollectPause, CollectBreakpoint, CollectError, chosen
<1>4. /\ results' = Tail(results)
      /\ missionTasks' = [missionTasks EXCEPT ![<<run, Head(results).mission>>] = [at |-> "taken"]]
  BY <1>1 DEF Take
<1>5. \A m \in done' \cup finished' :
        m \in done \cup finished \/ (/\ m = Head(results).mission /\ Merged(Head(results))
                                     /\ Head(results).outcome \in Succeeded)
  BY DEF Collects, CollectDone, CollectPause, CollectBreakpoint, CollectError, Succeeded
<1>6. status' # "Completed" \/ UNCHANGED <<status, finished>>
  BY DEF Collects, CollectDone, CollectPause, CollectBreakpoint, CollectError
<1> QED
  BY <1>1, <1>2, <1>3, <1>4, <1>5, <1>6

\* What a control step and a delegation may do.
LEMMA Controlling ==
  ASSUME ControlStep
  PROVE  /\ runPc # "spawn" /\ runPc' # "plan" /\ runPc # "idle"
         /\ UNCHANGED <<team, shared, run, done, missionTasks>>
         /\ Plan \/ needs' = needs
         /\ results' \in {results, <<>>}
         /\ toSpawn' = toSpawn \/ (runPc' = "spawn" /\ toSpawn' \subseteq Ready /\ needs' = needs)
         /\ finished' = finished \/ finished' = done
         /\ \/ UNCHANGED <<status, finished>>
            \/ status' = "Failed" /\ finished' = finished
            \/ team.process = "hierarchical" \/ Missions \subseteq finished'
  BY DEF ControlStep, Plan, PlanFails, RunCompletes, RunStuck, OpenBatch, ManagerTerminates,
         ManagerFails, ManagerLoopExceeded, BatchEnds, chosen, squadState, Finish, AllDone

LEMMA ShapeStep ==
  ASSUME SquadTypeOK, RunShape, [SquadNext]_squadVars
  PROVE  RunShape'
<1>1. CASE StartRun
  <2>1. /\ runPc = "idle" /\ run' = run + 1 /\ UNCHANGED <<missionTasks, toSpawn>>
    BY <1>1 DEF StartRun
  <2>2. run \in Nat /\ run' > 0
    BY <2>1, ValueTypes DEF SquadTypeOK
  <2>3. toSpawn' = {}
    BY <2>1 DEF RunShape
  <2>4. \A r \in Runs, m \in Missions : r > run' \/ (r = run' /\ runPc' = "plan") => Task(r, m)' = NoTask
    BY <2>1, <2>2, TasksStay, ValueTypes DEF RunShape, Runs
  <2> QED
    BY <2>2, <2>3, <2>4 DEF RunShape
<1>2. CASE Rests
  BY <1>2 DEF Rests, RunShape, Task
<1>3. CASE ControlStep
  <2>1. run > 0
    BY <1>3, Controlling DEF RunShape
  <2>2. \A r \in Runs, m \in Missions : r > run' \/ (r = run' /\ runPc' = "plan") => Task(r, m)' = NoTask
    BY <1>3, Controlling, TasksStay DEF RunShape
  <2>3. toSpawn = {}
    BY <1>3, Controlling DEF RunShape
  <2>4. (toSpawn' # {} => runPc' = "spawn") /\ \A m \in toSpawn' : needs'[m] \subseteq done'
    BY <1>3, <2>3, Controlling DEF Ready
  <2> QED
    BY <1>3, <2>1, <2>2, <2>4, Controlling DEF RunShape
<1>4. CASE Delegate
  <2>0. /\ run > 0 /\ run' = run /\ runPc = "loop" /\ runPc' = "collect" /\ UNCHANGED <<toSpawn, needs, done>>
    BY <1>4 DEF Delegate, RunShape
  <2>1. PICK m \in Missions : missionTasks' = [missionTasks EXCEPT ![<<run, m>>] = Clone]
    BY <1>4 DEF Delegate
  <2>2. \A r \in Runs, n \in Missions : r > run => Task(r, n)' = NoTask
    <3>1. run \in Runs /\ run > 0
      BY <2>0, <2>1, EventTypes
    <3>2. \A q \in Runs, k \in Missions : Task(q, k)' = IF q = run /\ k = m THEN Clone ELSE Task(q, k)
      BY <2>0, <2>1, <3>1 DEF SquadTypeOK, Task
    <3>3. \A q \in Runs, k \in Missions : q > run => Task(q, k) = NoTask
      BY DEF RunShape
    <3>4. \A q \in Runs : q > run => q # run
      BY <3>1, ValueTypes DEF Runs
    <3> QED
      BY <3>2, <3>3, <3>4
  <2> QED
    BY <2>0, <2>2 DEF RunShape
<1>5. ASSUME NEW m \in Missions, Spawn(m) PROVE RunShape'
  <2>0. /\ run > 0 /\ run' = run /\ runPc = "spawn" /\ UNCHANGED <<needs, done>>
        /\ runPc' = (IF toSpawn = {m} THEN "collect" ELSE "spawn") /\ toSpawn' = toSpawn \ {m}
        /\ missionTasks' = [missionTasks EXCEPT ![<<run, m>>] = Clone]
    BY <1>5 DEF Spawn, RunShape
  <2>2. \A r \in Runs, n \in Missions : r > run => Task(r, n)' = NoTask
    <3>1. run \in Runs /\ run > 0
      BY <2>0, EventTypes
    <3>2. \A q \in Runs, k \in Missions : Task(q, k)' = IF q = run /\ k = m THEN Clone ELSE Task(q, k)
      BY <2>0, <3>1 DEF SquadTypeOK, Task
    <3>3. \A q \in Runs, k \in Missions : q > run => Task(q, k) = NoTask
      BY DEF RunShape
    <3>4. \A q \in Runs : q > run => q # run
      BY <3>1, ValueTypes DEF Runs
    <3> QED
      BY <3>2, <3>3, <3>4
  <2>3. (toSpawn' # {} => runPc' = "spawn") /\ \A n \in toSpawn' : needs'[n] \subseteq done'
    BY <2>0 DEF RunShape
  <2> QED
    BY <2>0, <2>2, <2>3 DEF RunShape
<1>6. CASE Collects
  <2>0. run > 0
    BY <1>6 DEF RunShape, Collects, CollectDone, CollectPause, CollectBreakpoint, CollectError
  <2>1. /\ run \in Runs /\ runPc = "collect" /\ runPc' \in {"collect", "idle"} /\ Head(results).mission \in Missions
        /\ missionTasks' = [missionTasks EXCEPT ![<<run, Head(results).mission>>] = [at |-> "taken"]]
        /\ UNCHANGED <<run, needs, toSpawn>>
    BY <1>6, <2>0, Collecting
  <2>2. \A r \in Runs, n \in Missions : r > run => Task(r, n)' = NoTask
    <3>1. run \in Runs /\ run > 0
      BY <2>0, <2>1, EventTypes
    <3>2. \A q \in Runs, k \in Missions : Task(q, k)' = IF q = run /\ k = Head(results).mission THEN [at |-> "taken"] ELSE Task(q, k)
      BY <2>0, <2>1, <3>1 DEF SquadTypeOK, Task
    <3>3. \A q \in Runs, k \in Missions : q > run => Task(q, k) = NoTask
      BY DEF RunShape
    <3>4. \A q \in Runs : q > run => q # run
      BY <3>1, ValueTypes DEF Runs
    <3> QED
      BY <3>2, <3>3, <3>4
  <2>3. toSpawn' = {}
    BY <2>1 DEF RunShape
  <2> QED
    BY <2>0, <2>1, <2>2, <2>3 DEF RunShape
<1>7. ASSUME NEW r \in Runs, NEW m \in Missions, MissionStep(r, m) PROVE RunShape'
  <2>0. UNCHANGED <<run, runPc, done, needs, toSpawn>>
    BY <1>7, MissionTypes
  <2>1. Task(r, m) \in Working
    BY <1>7, MissionAdvances, ResultIsSent
  <2>2. Task(r, m) # NoTask
    BY <2>1 DEF Working, NoTask
  <2>3. \E v : missionTasks' = [missionTasks EXCEPT ![<<r, m>>] = v]
    BY <1>7, MissionAdvances, ResultIsSent DEF Advances
  <2>4. \A q \in Runs, n \in Missions : q > run \/ (q = run /\ runPc = "plan") => Task(q, n)' = NoTask
    <3>1. PICK v : missionTasks' = [missionTasks EXCEPT ![<<r, m>>] = v]
      BY <2>3
    <3>2. \A q \in Runs, k \in Missions : Task(q, k)' = IF q = r /\ k = m THEN v ELSE Task(q, k)
      BY <3>1 DEF SquadTypeOK, Task
    <3>3. \A q \in Runs, k \in Missions : q > run \/ (q = run /\ runPc = "plan") => Task(q, k) = NoTask
      BY DEF RunShape
    <3> QED
      BY <2>2, <3>2, <3>3
  <2> QED
    BY <2>0, <2>4 DEF RunShape
<1> QED
  BY <1>1, <1>2, <1>3, <1>4, <1>5, <1>6, <1>7, StepKinds

-----------------------------------------------------------------------------
(* Where a task and a result come from.                                     *)

\* A task stays, is over, is a new clone of the squad, or has advanced.
TaskHistory(q, k) ==
    \/ Task(q, k)' = Task(q, k)
    \/ ~AtWork(Task(q, k)')
    \/ Task(q, k)' = Clone /\ q = run /\ (team.process = "sequential" => k \in toSpawn)
    \/ /\ AtWork(Task(q, k))
       /\ Task(q, k)'.at = "sending" /\ Task(q, k)'.outcome \in Succeeded
             => Task(q, k)'.shared[k] # Absent /\ Logged(k)'
       /\ \A n \in Missions : Task(q, k)'.shared[n] = Task(q, k).shared[n] \/ Task(q, k)'.shared[n] \in Runs

LEMMA TasksHaveHistory ==
  ASSUME SquadTypeOK, RunShape, [SquadNext]_squadVars
  PROVE  \A q \in Runs, k \in Missions : TaskHistory(q, k)
<1>0. ~AtWork([at |-> "taken"]) /\ ~AtWork([at |-> "sent"])
  BY DEF AtWork
<1>1. CASE StartRun \/ Rests \/ ControlStep
  <2>1. missionTasks' = missionTasks
    BY <1>1, Controlling DEF StartRun, Rests
  <2> QED
    BY <2>1, TasksStay DEF TaskHistory
<1>2. CASE Delegate
  <2>1. team.process = "hierarchical"
    BY <1>2 DEF Delegate
  <2>2. PICK m \in Missions : missionTasks' = [missionTasks EXCEPT ![<<run, m>>] = Clone]
    BY <1>2 DEF Delegate
  <2>3. \A q \in Runs, k \in Missions : Task(q, k)' = IF q = run /\ k = m THEN Clone ELSE Task(q, k)
    BY <2>2 DEF SquadTypeOK, Task
  <2> QED
    BY <2>1, <2>3 DEF TaskHistory
<1>3. ASSUME NEW m \in Missions, Spawn(m) PROVE \A q \in Runs, k \in Missions : TaskHistory(q, k)
  <2>1. m \in toSpawn /\ missionTasks' = [missionTasks EXCEPT ![<<run, m>>] = Clone]
    BY <1>3 DEF Spawn
  <2>2. \A q \in Runs, k \in Missions : Task(q, k)' = IF q = run /\ k = m THEN Clone ELSE Task(q, k)
    BY <2>1 DEF SquadTypeOK, Task
  <2> QED
    BY <2>1, <2>2 DEF TaskHistory
<1>4. CASE Collects
  <2>1. run > 0
    BY <1>4 DEF RunShape, Collects, CollectDone, CollectPause, CollectBreakpoint, CollectError
  <2>2. PICK m \in Missions : missionTasks' = [missionTasks EXCEPT ![<<run, m>>] = [at |-> "taken"]]
    BY <1>4, <2>1, Collecting
  <2>3. \A q \in Runs, k \in Missions :
           Task(q, k)' = IF q = run /\ k = m THEN [at |-> "taken"] ELSE Task(q, k)
    BY <2>2 DEF SquadTypeOK, Task
  <2> QED
    BY <1>0, <2>3 DEF TaskHistory
<1>5. ASSUME NEW r \in Runs, NEW m \in Missions, MissionStep(r, m)
      PROVE  \A q \in Runs, k \in Missions : TaskHistory(q, k)
  <2>1. CASE SendResult(r, m)
    <3>1. missionTasks' = [missionTasks EXCEPT ![<<r, m>>] = [at |-> "sent"]]
      BY <2>1 DEF SendResult
    <3>2. \A q \in Runs, k \in Missions :
             Task(q, k)' = IF q = r /\ k = m THEN [at |-> "sent"] ELSE Task(q, k)
      BY <3>1 DEF SquadTypeOK, Task
    <3> QED
      BY <1>0, <3>2 DEF TaskHistory
  <2>2. CASE ~SendResult(r, m)
    <3>1. PICK v \in Working : Advances(r, m, v)
      BY <1>5, <2>2, MissionAdvances
    <3>2. \A q \in Runs, k \in Missions : Task(q, k)' = IF q = r /\ k = m THEN v ELSE Task(q, k)
      BY <3>1 DEF Advances, SquadTypeOK, Task
    <3>3. AtWork(Task(r, m))
      BY <1>5, <2>2, MissionAdvances DEF Working, AtWork
    <3>4. TaskHistory(r, m)
      BY <3>1, <3>2, <3>3 DEF TaskHistory, Advances
    <3>5. \A q \in Runs, k \in Missions : ~(q = r /\ k = m) => TaskHistory(q, k)
      BY <3>2 DEF TaskHistory
    <3> QED
      BY <3>4, <3>5
  <2> QED
    BY <2>1, <2>2
<1> QED
  BY <1>1, <1>2, <1>3, <1>4, <1>5, StepKinds

\* A result was there, or is what a task sends.
ResultHistory(e) ==
    \/ \E j \in 1..Len(results) : e = results[j]
    \/ \E r \in Runs, m \in Missions :
          /\ Task(r, m).at = "sending" /\ e.mission = m
          /\ e.outcome = Task(r, m).outcome /\ e.shared = Task(r, m).shared

LEMMA ResultsHaveHistory ==
  ASSUME SquadTypeOK, RunShape, [SquadNext]_squadVars
  PROVE  \A i \in 1..Len(results') : ResultHistory(results'[i])
<1>0. results \in Seq(Results)
  BY DEF SquadTypeOK
<1>1. CASE results' = results
  BY <1>1 DEF ResultHistory
<1>2. CASE results' = <<>>
  BY <1>2
<1>3. CASE StartRun \/ Rests \/ ControlStep \/ Delegate \/ \E m \in Missions : Spawn(m)
  <2>1. results' = results \/ results' = <<>>
    BY <1>3, Controlling DEF StartRun, Rests, Delegate, Spawn
  <2> QED
    BY <1>1, <1>2, <2>1
<1>4. CASE Collects
  <2>1. results # <<>> /\ results' = Tail(results)
    BY <1>4 DEF Collects, CollectDone, CollectPause, CollectBreakpoint, CollectError, Take
  <2>2. \A i \in 1..Len(results') : i + 1 \in 1..Len(results) /\ results'[i] = results[i + 1]
    BY <2>1, HeadTypes
  <2> QED
    BY <2>2 DEF ResultHistory
<1>5. ASSUME NEW r \in Runs, NEW m \in Missions, MissionStep(r, m)
      PROVE  \A i \in 1..Len(results') : ResultHistory(results'[i])
  <2>1. CASE ~SendResult(r, m)
    BY <1>1, <1>5, <2>1, MissionAdvances DEF Advances
  <2>2. CASE SendResult(r, m)
    <3>1. CASE results' = results
      BY <1>1, <3>1
    <3>2. CASE results' # results
      <4>1. PICK e \in Results : /\ results' = Append(results, e) /\ e.mission = m
                                 /\ e.outcome = Task(r, m).outcome /\ e.shared = Task(r, m).shared
        BY <2>2, <3>2, ResultIsSent
      <4>2. ResultHistory(e)
        BY <2>2, <4>1, ResultIsSent DEF ResultHistory
      <4>3. \A i \in 1..Len(results') : results'[i] = e \/ (i \in 1..Len(results) /\ results'[i] = results[i])
        BY <1>0, <4>1
      <4> QED
        BY <4>2, <4>3 DEF ResultHistory
    <3> QED
      BY <3>1, <3>2
  <2> QED
    BY <2>1, <2>2
<1> QED
  BY <1>3, <1>4, <1>5, StepKinds

-----------------------------------------------------------------------------
(* Each part is preserved.                                                  *)

LEMMA ProducedStep ==
  ASSUME SquadIInv, [SquadNext]_squadVars
  PROVE  TasksProduce' /\ ResultsProduce'
<1>0. /\ \A m \in Missions : Logged(m) => Logged(m)'
      /\ \A q \in Runs, k \in Missions : TaskHistory(q, k)
      /\ \A i \in 1..Len(results') : ResultHistory(results'[i])
  BY LogGrows, TasksHaveHistory, ResultsHaveHistory DEF SquadIInv
<1>1. TasksProduce'
  <2> SUFFICES ASSUME NEW r \in Runs, NEW m \in Missions,
                      Task(r, m)'.at = "sending", Task(r, m)'.outcome \in Succeeded
               PROVE  Task(r, m)'.shared[m] # Absent /\ Logged(m)'
    BY DEF TasksProduce
  <2>1. TaskHistory(r, m)
    BY <1>0
  <2>2. CASE Task(r, m)' = Task(r, m)
    BY <1>0, <2>2 DEF SquadIInv, TasksProduce
  <2>3. Task(r, m)' # Clone
    BY DEF Clone
  <2>4. AtWork(Task(r, m)')
    BY DEF AtWork
  <2> QED
    BY <2>1, <2>2, <2>3, <2>4 DEF TaskHistory
<1>2. ASSUME NEW e, NEW n \in Missions, e.mission = n, ResultHistory(e), e.outcome \in Succeeded
      PROVE  e.shared[n] # Absent /\ Logged(n)'
  <2>1. ASSUME NEW j \in 1..Len(results), e = results[j]
        PROVE  e.shared[n] # Absent /\ Logged(n)'
    <3>1. Produces(e)
      BY <2>1 DEF SquadIInv, ResultsProduce
    <3> QED
      BY <1>0, <1>2, <3>1 DEF Produces
  <2>2. ASSUME NEW r \in Runs, NEW m \in Missions,
               Task(r, m).at = "sending", e.mission = m,
               e.outcome = Task(r, m).outcome, e.shared = Task(r, m).shared
        PROVE  e.shared[n] # Absent /\ Logged(n)'
    <3>1. TasksProduce
      BY DEF SquadIInv
    <3>2. Task(r, m).shared[m] # Absent /\ Logged(m)
      BY <1>2, <2>2, <3>1 DEF TasksProduce
    <3> QED
      BY <1>0, <1>2, <2>2, <3>2
  <2> QED
    BY <1>2, <2>1, <2>2 DEF ResultHistory
<1>3. ResultsProduce'
  <2> SUFFICES ASSUME NEW i \in 1..Len(results')
               PROVE  Produces(results[i])'
    BY DEF ResultsProduce
  <2>1. PICK e, n : e = results'[i] /\ n = e.mission
    OBVIOUS
  <2>2. results' \in Seq(Results)
    BY SquadTypesStep DEF SquadIInv, SquadTypeOK
  <2>3. e \in Results /\ n \in Missions
    <3>1. e \in Results
      BY <2>1, <2>2
    <3> QED
      BY <2>1, <3>1 DEF Results
  <2>4. e.outcome \in Succeeded => e.shared[n] # Absent /\ Logged(n)'
    BY <1>0, <1>2, <2>1, <2>3
  <2> QED
    BY <2>1, <2>4 DEF Produces
<1> QED
  BY <1>1, <1>3

\* The head of the channel keeps what every result keeps.
LEMMA HeadProduces ==
  ASSUME SquadIInv, results # <<>>
  PROVE  Produces(Head(results)) /\ (~team.inputs => NoInput(Head(results).shared))
  BY HeadTypes DEF SquadIInv, ResultsProduce, OnlyOutputs

LEMMA DoneStep ==
  ASSUME SquadIInv, [SquadNext]_squadVars
  PROVE  DoneProduced'
<1> SUFFICES ASSUME NEW m \in done' \cup finished'
             PROVE  shared'[m] # Absent /\ Logged(m)'
  BY DEF DoneProduced
<1>0. SquadTypeOK /\ RunShape /\ DoneProduced
  BY DEF SquadIInv
<1>1. \A n \in Missions : Logged(n) => Logged(n)'
  BY LogGrows
<1>2. CASE m \in done \cup finished /\ shared' = shared
  BY <1>0, <1>1, <1>2 DEF DoneProduced, SquadTypeOK
<1>3. CASE Collects
  <2>1. run > 0
    BY <1>0, <1>3 DEF RunShape, Collects, CollectDone, CollectPause, CollectBreakpoint, CollectError
  <2>2. /\ Merged(Head(results)) \/ shared' = shared
        /\ results # <<>> /\ Head(results) \in Results /\ Head(results).mission \in Missions
        /\ m \in done \cup finished \/ (/\ m = Head(results).mission /\ Merged(Head(results))
                                        /\ Head(results).outcome \in Succeeded)
    BY <1>0, <1>3, <2>1, Collecting
  <2>3. CASE m \in done \cup finished
    <3>1. m \in Missions /\ shared[m] # Absent /\ Logged(m)
      BY <1>0, <2>3 DEF DoneProduced, SquadTypeOK
    <3> QED
      BY <1>0, <1>1, <2>2, <3>1, MergeKeeps
  <2>4. CASE m = Head(results).mission /\ Merged(Head(results)) /\ Head(results).outcome \in Succeeded
    <3>1. Head(results).shared[m] # Absent /\ Logged(m)
      BY <2>2, <2>4, HeadProduces DEF Produces
    <3> QED
      BY <1>0, <1>1, <2>2, <2>4, <3>1, MergeKeeps
  <2> QED
    BY <2>2, <2>3, <2>4
<1>4. CASE StartRun \/ Rests \/ ControlStep \/ Delegate \/ \E n \in Missions : Spawn(n)
  <2>1. m \in done \cup finished /\ shared' = shared
    BY <1>4, Controlling DEF StartRun, Rests, Delegate, Spawn, squadState
  <2> QED
    BY <1>2, <2>1
<1>5. ASSUME NEW r \in Runs, NEW n \in Missions, MissionStep(r, n)
      PROVE  shared'[m] # Absent /\ Logged(m)'
  <2>1. m \in done \cup finished /\ shared' = shared
    BY <1>0, <1>5, MissionTypes DEF squadState
  <2> QED
    BY <1>2, <2>1
<1> QED
  BY <1>3, <1>4, <1>5, StepKinds

LEMMA CompletedStep ==
  ASSUME SquadIInv, [SquadNext]_squadVars
  PROVE  CompletedFinished'
<1>0. SquadTypeOK /\ RunShape /\ CompletedFinished
  BY DEF SquadIInv
<1>1. team' = team
  <2>1. ASSUME NEW r \in Runs, NEW n \in Missions, MissionStep(r, n) PROVE team' = team
    BY <1>0, <2>1, MissionTypes DEF chosen
  <2>2. CASE Collects
    BY <2>2 DEF Collects, CollectDone, CollectPause, CollectBreakpoint, CollectError, chosen
  <2> QED
    BY <2>1, <2>2, StepKinds, Controlling DEF StartRun, Rests, Delegate, Spawn, chosen
<1>2. CASE UNCHANGED <<status, finished>>
  BY <1>0, <1>1, <1>2 DEF CompletedFinished
<1>3. CASE StartRun
  BY <1>3 DEF StartRun, CompletedFinished
<1>4. CASE Collects
  <2>1. status' # "Completed" \/ UNCHANGED <<status, finished>>
    BY <1>4 DEF Collects, CollectDone, CollectPause, CollectBreakpoint, CollectError
  <2> QED
    BY <1>2, <2>1 DEF CompletedFinished
<1>5. CASE ControlStep
  BY <1>1, <1>2, <1>5, Controlling DEF CompletedFinished
<1>6. CASE Rests \/ Delegate \/ \E n \in Missions : Spawn(n)
  BY <1>2, <1>6 DEF Rests, Delegate, Spawn, squadState
<1>7. ASSUME NEW r \in Runs, NEW n \in Missions, MissionStep(r, n) PROVE CompletedFinished'
  BY <1>0, <1>2, <1>7, MissionTypes DEF squadState
<1> QED
  BY <1>3, <1>4, <1>5, <1>6, <1>7, StepKinds

LEMMA TeamStays ==
  ASSUME SquadTypeOK, RunShape, [SquadNext]_squadVars
  PROVE  team' = team
<1>1. ASSUME NEW r \in Runs, NEW n \in Missions, MissionStep(r, n) PROVE team' = team
  BY <1>1, MissionTypes DEF chosen
<1>2. CASE Collects
  BY <1>2 DEF Collects, CollectDone, CollectPause, CollectBreakpoint, CollectError, chosen
<1> QED
  BY <1>1, <1>2, StepKinds, Controlling DEF StartRun, Rests, Delegate, Spawn, chosen

LEMMA OutputsStep ==
  ASSUME SquadIInv, [SquadNext]_squadVars
  PROVE  OnlyOutputs'
<1>0. SquadTypeOK /\ RunShape /\ OnlyOutputs /\ team' = team
  BY TeamStays DEF SquadIInv
<1> SUFFICES ASSUME ~team.inputs
             PROVE  /\ NoInput(shared')
                    /\ \A r \in Runs, m \in Missions : AtWork(Task(r, m)') => NoInput(Task(r, m)'.shared)
                    /\ \A i \in 1..Len(results') : NoInput(results'[i].shared)
  BY <1>0 DEF OnlyOutputs, NoInput, AtWork
<1>1. /\ NoInput(shared)
      /\ \A r \in Runs, m \in Missions : AtWork(Task(r, m)) => NoInput(Task(r, m).shared)
      /\ \A i \in 1..Len(results) : NoInput(results[i].shared)
  BY <1>0 DEF OnlyOutputs
<1>2. NoInput(shared')
  <2>1. CASE shared' = shared
    BY <1>1, <2>1
  <2>2. CASE Collects
    <3>1. run > 0
      BY <1>0, <2>2 DEF RunShape, Collects, CollectDone, CollectPause, CollectBreakpoint, CollectError
    <3>2. results # <<>> /\ Head(results) \in Results /\ (Merged(Head(results)) \/ shared' = shared)
      BY <1>0, <2>2, <3>1, Collecting
    <3>3. NoInput(Head(results).shared)
      BY <3>2, HeadProduces
    <3> QED
      BY <1>0, <1>1, <2>1, <3>2, <3>3, MergeKeeps DEF NoInput
  <2>3. ASSUME NEW r \in Runs, NEW n \in Missions, MissionStep(r, n) PROVE shared' = shared
    BY <1>0, <2>3, MissionTypes DEF squadState
  <2> QED
    BY <2>1, <2>2, <2>3, StepKinds, Controlling DEF StartRun, Rests, Delegate, Spawn, squadState
<1>3. ASSUME NEW r \in Runs, NEW m \in Missions, AtWork(Task(r, m)') PROVE NoInput(Task(r, m)'.shared)
  <2>1. TaskHistory(r, m)
    BY <1>0, TasksHaveHistory
  <2>2. CASE Task(r, m)' = Clone
    BY <1>1, <2>2 DEF Clone
  <2>3. CASE Task(r, m)' = Task(r, m)
    BY <1>1, <1>3, <2>3
  <2>4. CASE /\ AtWork(Task(r, m))
             /\ \A n \in Missions : Task(r, m)'.shared[n] = Task(r, m).shared[n] \/ Task(r, m)'.shared[n] \in Runs
    BY <1>1, <2>4, ValueTypes DEF NoInput
  <2> QED
    BY <1>3, <2>1, <2>2, <2>3, <2>4 DEF TaskHistory
<1>4. ASSUME NEW i \in 1..Len(results') PROVE NoInput(results'[i].shared)
  <2>1. ResultHistory(results'[i])
    BY <1>0, ResultsHaveHistory
  <2>2. \A r \in Runs, m \in Missions : Task(r, m).at = "sending" => AtWork(Task(r, m))
    BY DEF AtWork
  <2> QED
    BY <1>1, <2>1, <2>2 DEF ResultHistory
<1> QED
  BY <1>2, <1>3, <1>4

\* The outputs a mission at work depends on, without the set of those at work.
Sees == \A r \in Runs : r = run /\ team.process = "sequential" /\ ~team.inputs =>
    \A m \in Missions : AtWork(Task(r, m)) => \A d \in needs[m] : Task(r, m).shared[d] \in Runs

LEMMA SeesIsSees ==
  ASSUME SquadTypeOK
  PROVE  SeesDependencies <=> Sees
<1>1. run > 0 <=> run \in Runs
  BY EventTypes, ValueTypes DEF Runs
<1> QED
  BY <1>1 DEF SeesDependencies, Sees, AliveIn, Alive, AtWork, Task

LEMMA SeesStep ==
  ASSUME SquadIInv, [SquadNext]_squadVars
  PROVE  Sees'
<1>0. SquadTypeOK /\ RunShape /\ OnlyOutputs /\ DoneProduced /\ Sees /\ team' = team
  BY TeamStays, SeesIsSees DEF SquadIInv
<1>1. ~AtWork(NoTask)
  BY DEF AtWork, NoTask
<1>2. SUFFICES ASSUME NEW r \in Runs, r = run', team.process = "sequential", ~team.inputs,
                      NEW m \in Missions, AtWork(Task(r, m)'), NEW d \in needs'[m]
               PROVE  Task(r, m)'.shared[d] \in Runs
  BY <1>0 DEF Sees, AtWork
<1>3. d \in Missions
  BY <1>0, <1>2, SquadTypesStep DEF SquadTypeOK
<1>4. CASE StartRun \/ Plan
  <2>1. missionTasks' = missionTasks /\ (r > run \/ (r = run /\ runPc = "plan"))
    BY <1>0, <1>2, <1>4, ValueTypes DEF StartRun, Plan, SquadTypeOK
  <2>2. Task(r, m) = NoTask
    BY <1>0, <2>1 DEF RunShape
  <2> QED
    BY <1>1, <1>2, <2>1, <2>2, TasksStay
<1>5. CASE run' = run /\ needs' = needs
  <2>1. TaskHistory(r, m) /\ d \in needs[m] /\ r = run
    BY <1>0, <1>2, <1>5, TasksHaveHistory
  <2>2. CASE Task(r, m)' = Clone /\ m \in toSpawn
    <3>1. d \in done
      BY <1>0, <2>1, <2>2 DEF RunShape
    <3>2. shared[d] # Absent /\ shared[d] # Input /\ shared[d] \in Values
      BY <1>0, <1>2, <1>3, <3>1 DEF DoneProduced, OnlyOutputs, NoInput, SquadTypeOK
    <3>3. shared[d] \in Runs
      BY <3>2, ValueTypes
    <3> QED
      BY <2>2, <3>3 DEF Clone
  <2>3. AtWork(Task(r, m)) => Task(r, m).shared[d] \in Runs
    BY <1>0, <1>2, <2>1 DEF Sees
  <2>4. CASE Task(r, m)' = Task(r, m)
    BY <1>2, <2>3, <2>4
  <2>5. CASE /\ AtWork(Task(r, m))
             /\ \A n \in Missions : Task(r, m)'.shared[n] = Task(r, m).shared[n] \/ Task(r, m)'.shared[n] \in Runs
    BY <1>3, <2>3, <2>5
  <2> QED
    BY <1>2, <2>1, <2>2, <2>4, <2>5 DEF TaskHistory
<1>6. CASE Rests \/ Delegate \/ \E n \in Missions : Spawn(n)
  BY <1>5, <1>6 DEF Rests, Delegate, Spawn
<1>7. CASE ControlStep
  <2>1. run' = run
    BY <1>7 DEF ControlStep, Plan, PlanFails, RunCompletes, RunStuck, OpenBatch, ManagerTerminates,
         ManagerFails, ManagerLoopExceeded, BatchEnds
  <2> QED
    BY <1>4, <1>5, <1>7, <2>1, Controlling
<1>8. CASE Collects
  BY <1>5, <1>8 DEF Collects, CollectDone, CollectPause, CollectBreakpoint, CollectError
<1>9. ASSUME NEW q \in Runs, NEW n \in Missions, MissionStep(q, n)
      PROVE  Task(r, m)'.shared[d] \in Runs
  BY <1>0, <1>5, <1>9, MissionTypes
<1> QED
  BY <1>4, <1>6, <1>7, <1>8, <1>9, StepKinds

-----------------------------------------------------------------------------

LEMMA SquadInvInit == SquadInit => SquadIInv
<1> SUFFICES ASSUME SquadInit PROVE SquadIInv
  OBVIOUS
<1>1. SquadTypeOK
  BY SquadInitTypes
<1>2. \A r \in Runs, m \in Missions : Task(r, m) = NoTask /\ ~AtWork(Task(r, m))
  BY DEF SquadInit, Task, NoTask, AtWork
<1>3. RunShape
  BY <1>2 DEF SquadInit, RunShape
<1>4. TasksProduce /\ ResultsProduce
  BY <1>2 DEF SquadInit, TasksProduce, ResultsProduce, AtWork
<1>5. DoneProduced /\ CompletedFinished
  BY DEF SquadInit, DoneProduced, CompletedFinished
<1>6. OnlyOutputs
  BY <1>2, ValueTypes DEF SquadInit, OnlyOutputs, NoInput, Absent, Input
<1>7. SeesDependencies
  BY DEF SquadInit, SeesDependencies
<1> QED
  BY <1>1, <1>3, <1>4, <1>5, <1>6, <1>7 DEF SquadIInv

LEMMA SquadInvStep == SquadIInv /\ [SquadNext]_squadVars => SquadIInv'
<1> SUFFICES ASSUME SquadIInv, [SquadNext]_squadVars PROVE SquadIInv'
  OBVIOUS
<1>1. SquadTypeOK' /\ RunShape'
  BY SquadTypesStep, ShapeStep DEF SquadIInv
<1>2. TasksProduce' /\ ResultsProduce' /\ DoneProduced' /\ CompletedFinished' /\ OnlyOutputs' /\ Sees'
  BY ProducedStep, DoneStep, CompletedStep, OutputsStep, SeesStep
<1>3. SeesDependencies'
  BY <1>1, <1>2, SeesIsSees, PTL
<1> QED
  BY <1>1, <1>2, <1>3 DEF SquadIInv

LEMMA SquadInvariant == SquadSpec => []SquadIInv
  BY SquadInvInit, SquadInvStep, PTL DEF SquadSpec

LEMMA InvariantIsEnough == SquadIInv => MissionsAreSound
<1> SUFFICES ASSUME SquadIInv PROVE CompletedIsComplete
  BY DEF SquadIInv, MissionsAreSound
<1>1. DoneProduced /\ CompletedFinished
  BY DEF SquadIInv
<1> QED
  BY <1>1 DEF DoneProduced, CompletedFinished, CompletedIsComplete, Logged

\* The variables of the squad keep their types (engine.rs, SquadEngine and the Squad it runs).
THEOREM SquadTypeCorrect == SquadSpec => []SquadTypeOK
<1>1. SquadIInv => SquadTypeOK
  BY DEF SquadIInv
<1> QED
  BY <1>1, SquadInvariant, PTL

\* In a sequential team without inputs a mission works on the outputs of everything it
\* depends on, and a squad that says it is completed has the output and the logged
\* completion of each of its missions: whatever pauses, fails, is retried or runs on behind
\* a run that has returned (run_dag, merge_context, execute_mission).
THEOREM MissionsSound == SquadSpec => []MissionsAreSound
  BY SquadInvariant, InvariantIsEnough, PTL

-----------------------------------------------------------------------------
(* Replays of a workflow's log, of any steps and any length: what medium    *)
(* and high detail leave out changes nothing but what is scheduled, so the  *)
(* fold of a selection goes along with the fold of the whole log.           *)

\* The states of an instance.
InstanceStatuses == {"pending", "running", "waiting_for_signal", "completed", "failed"}
StepResults == {"none", "Running", "Completed", "Failed"}
InstanceStates ==
    [status : InstanceStatuses, signal : Steps \cup {NoStep}, scheduled : SUBSET Steps, running : SUBSET Steps,
     completed : SUBSET Steps, blocked : SUBSET Steps, results : [Steps -> StepResults]]

\* All but what is scheduled.
Same(a, b) ==
    /\ a.status = b.status /\ a.signal = b.signal /\ a.running = b.running /\ a.completed = b.completed
    /\ a.blocked = b.blocked /\ a.results = b.results

\* An instance is created once, and first.
LogInv ==
    /\ events \in Seq(WorkflowEvents) /\ Len(events) <= MaxEvents
    /\ \A at \in DOMAIN events : events[at].type = "InstanceCreated" => at = 1

\* An event is the whole instance's or of one step.
LEMMA EventShape ==
  ASSUME NEW e \in WorkflowEvents
  PROVE  /\ e.flag \in BOOLEAN
         /\ \/ e.type \in {"InstanceCreated", "InstanceStarted", "WorkflowCompleted", "WorkflowFailed", "CancelRequested",
                           "External"}
            \/ /\ e.step \in Steps
               /\ e.type \in {"StepScheduled", "StepStarted", "StepCompleted", "StepFailed", "StepRetryScheduled",
                              "SignalWaitStarted", "LLMCallStarted", "BreakpointHit", "SignalReceived", "TimerFired"}
<1>1. CASE \E t \in StepEvents \cup {"BreakpointHit", "SignalReceived", "TimerFired"}, s \in Steps : e = Event(t, s)
  BY <1>1 DEF Event, StepEvents
<1>2. CASE \E s \in Steps : e = Flagged("StepFailed", s) \/ e = Flagged("SignalReceived", s)
  <2>1. PICK s \in Steps : e = Flagged("StepFailed", s) \/ e = Flagged("SignalReceived", s)
    BY <1>2
  <2>2. e.flag = TRUE /\ e.step = s /\ e.type \in {"StepFailed", "SignalReceived"}
    BY <2>1 DEF Flagged
  <2> QED
    BY <2>2
<1>3. CASE \E t \in Lifecycle \cup {"CancelRequested", "External"} : e = Event(t, NoStep)
  BY <1>3 DEF Event, Lifecycle
<1> QED
  BY <1>1, <1>2, <1>3 DEF WorkflowEvents

\* What is made is a state.
LEMMA DefaultState == InstanceDefault \in InstanceStates
  BY DEF InstanceDefault, InstanceStates, InstanceStatuses, StepResults

\* Applying an event gives a state.
LEMMA ApplyTyped ==
  ASSUME NEW st \in InstanceStates, NEW e \in WorkflowEvents
  PROVE  ApplyEvent(st, e) \in InstanceStates
<1> USE DEF InstanceStates, InstanceStatuses, StepResults
<1>1. CASE e.type \in {"InstanceCreated", "InstanceStarted", "WorkflowCompleted", "WorkflowFailed", "CancelRequested", "External"}
  BY <1>1 DEF ApplyEvent, ApplyStep
<1>2. CASE e.type \in {"StepScheduled", "StepRetryScheduled", "LLMCallStarted", "TimerFired"} /\ e.step \in Steps
  BY <1>2 DEF ApplyEvent, ApplyStep
<1>3. CASE e.type = "StepStarted" /\ e.step \in Steps
  BY <1>3 DEF ApplyEvent, ApplyStep
<1>4. CASE e.type = "StepCompleted" /\ e.step \in Steps
  BY <1>4 DEF ApplyEvent, ApplyStep
<1>5. CASE e.type = "StepFailed" /\ e.step \in Steps
  BY <1>5 DEF ApplyEvent, ApplyStep
<1>6. CASE e.type \in {"SignalWaitStarted", "BreakpointHit"} /\ e.step \in Steps
  BY <1>6 DEF ApplyEvent, ApplyStep
<1>7. CASE e.type = "SignalReceived" /\ e.step \in Steps
  <2>1. ApplyEvent(st, e) = ApplySignal(st, e)
    BY <1>7 DEF ApplyEvent
  <2>2. CASE e.flag
    <3> DEFINE given == [s \in Steps |-> IF s \in st.blocked /\ st.results[s] # "none" THEN "Failed" ELSE st.results[s]]
    <3>1. given \in [Steps -> StepResults]
      OBVIOUS
    <3>2. ApplySignal(st, e) = [st EXCEPT !.blocked = {}, !.status = "failed", !.results = given]
      BY <2>2 DEF ApplySignal
    <3>3. [st EXCEPT !.blocked = {}, !.status = "failed", !.results = given] \in InstanceStates
      <4> HIDE DEF given
      <4> QED
        BY <3>1
    <3> QED
      BY <2>1, <3>2, <3>3
  <2>3. CASE ~e.flag
    BY <2>1, <2>3, <1>7 DEF ApplySignal
  <2> QED
    BY <2>2, <2>3
<1> QED
  BY <1>1, <1>2, <1>3, <1>4, <1>5, <1>6, <1>7, EventShape

\* What is scheduled tells nothing else.
LEMMA ApplySame ==
  ASSUME NEW a \in InstanceStates, NEW b \in InstanceStates, Same(a, b), NEW e \in WorkflowEvents
  PROVE  Same(ApplyEvent(a, e), ApplyEvent(b, e))
<1> USE DEF InstanceStates, InstanceStatuses, StepResults, Same
<1>1. CASE e.type \in {"InstanceCreated", "InstanceStarted", "WorkflowCompleted", "WorkflowFailed", "CancelRequested", "External"}
  BY <1>1 DEF ApplyEvent, ApplyStep
<1>2. CASE e.type \in {"StepScheduled", "StepRetryScheduled", "LLMCallStarted", "TimerFired"} /\ e.step \in Steps
  BY <1>2 DEF ApplyEvent, ApplyStep
<1>3. CASE e.type = "StepStarted" /\ e.step \in Steps
  BY <1>3 DEF ApplyEvent, ApplyStep
<1>4. CASE e.type = "StepCompleted" /\ e.step \in Steps
  BY <1>4 DEF ApplyEvent, ApplyStep
<1>5. CASE e.type = "StepFailed" /\ e.step \in Steps
  BY <1>5 DEF ApplyEvent, ApplyStep
<1>6. CASE e.type \in {"SignalWaitStarted", "BreakpointHit"} /\ e.step \in Steps
  BY <1>6 DEF ApplyEvent, ApplyStep
<1>7. CASE e.type = "SignalReceived" /\ e.step \in Steps
  <2>1. ApplyEvent(a, e) = ApplySignal(a, e) /\ ApplyEvent(b, e) = ApplySignal(b, e)
    BY <1>7 DEF ApplyEvent
  <2> QED
    BY <2>1, <1>7 DEF ApplySignal
<1> QED
  BY <1>1, <1>2, <1>3, <1>4, <1>5, <1>6, <1>7, EventShape

\* What a medium replay leaves out changes nothing but what is scheduled, once the creation is first.
LEMMA LeftOutSame ==
  ASSUME NEW a \in InstanceStates, NEW e \in WorkflowEvents, NEW detail \in {"medium", "high"},
         ~Includes(detail, e), e.type = "InstanceCreated" => a.status = "pending"
  PROVE  Same(ApplyEvent(a, e), a)
<1>1. e.type \notin Medium
  BY DEF Includes
<1>2. e.type \in {"InstanceCreated", "TimerFired", "LLMCallStarted", "External"}
  BY <1>1, EventShape DEF Medium, Low
<1> QED
  BY <1>2 DEF ApplyEvent, ApplyStep, Same, InstanceStates

\* The states of a fold, one after another.
FoldWalks(st, es) ==
    {w \in [0..Len(es) -> InstanceStates] :
        w[0] = st /\ w[Len(es)] = Fold(st, es) /\ \A k \in 1..Len(es) : w[k] = ApplyEvent(w[k - 1], es[k])}

\* A fold over events is such a walk.
LEMMA FoldIsWalk ==
  ASSUME NEW st \in InstanceStates, NEW es \in Seq(WorkflowEvents)
  PROVE  FoldWalks(st, es) # {}
<1> DEFINE len == Len(es)
           X == InstanceStates
           step == [p \in (1..len) \X X |-> ApplyEvent(p[2], es[p[1]])]
           Folded(f) == [T \in SUBSET (1..len) |-> IF T = {} THEN st ELSE ApplyEvent(f[T \ {Max(T)}], es[Max(T)])]
<1>1. len \in Nat /\ DOMAIN es = 1..len /\ \A k \in 1..len : es[k] \in WorkflowEvents
  BY LenProperties
<1>2. st \in X
  OBVIOUS
<1>3. \A k \in 1..len, q \in X : ApplyEvent(q, es[k]) \in X
  BY <1>1, ApplyTyped
<1> HIDE DEF len, X
<1>4. step \in [(1..len) \X X -> X]
  BY <1>1, <1>3
<1>s. ASSUME NEW k \in 1..len, NEW q \in X PROVE step[<<k, q>>] = ApplyEvent(q, es[k])
  <2>1. <<k, q>> \in (1..len) \X X
    OBVIOUS
  <2> QED
    BY <2>1
<1> HIDE DEF step
<1>5. \E g : g = Folded(g)
  <2>1. PICK g \in FoldsOf(X, st, len, step) : TRUE
    BY <1>1, <1>2, <1>4, FoldExists
  <2>2. g \in [SUBSET (1..len) -> X] /\ \A T \in SUBSET (1..len) :
            g[T] = IF T = {} THEN st ELSE step[<<Max(T), g[T \ {Max(T)}]>>]
    BY <2>1 DEF FoldsOf
  <2>3. ASSUME NEW T \in SUBSET (1..len)
        PROVE  g[T] = IF T = {} THEN st ELSE ApplyEvent(g[T \ {Max(T)}], es[Max(T)])
    <3>1. CASE T = {}
      BY <2>2, <3>1
    <3>2. CASE T # {}
      <4>1. Max(T) \in 1..len /\ T \ {Max(T)} \in SUBSET (1..len)
        BY <3>2, <1>1, MaxOfSome
      <4>2. g[T \ {Max(T)}] \in X
        BY <4>1, <2>2
      <4>3. step[<<Max(T), g[T \ {Max(T)}]>>] = ApplyEvent(g[T \ {Max(T)}], es[Max(T)])
        BY <4>1, <4>2, <1>s
      <4> QED
        BY <4>3, <3>2, <2>2
    <3> QED
      BY <3>1, <3>2
  <2> QED
    BY <2>2, <2>3
<1> DEFINE h == CHOOSE g : g = Folded(g)
<1>6. h = Folded(h)
  <2> HIDE DEF Folded
  <2> QED
    BY <1>5
<1>7. Fold(st, es) = h[1..len]
  BY <1>1 DEF Fold, FoldLeft, MapThenFoldSet
<1> HIDE DEF h
<1>8. h[{}] = st
  BY <1>6
<1>9. ASSUME NEW T \in SUBSET (1..len), T # {}, h[T \ {Max(T)}] \in X
      PROVE  h[T] = step[<<Max(T), h[T \ {Max(T)}]>>]
  <2>1. h[T] = ApplyEvent(h[T \ {Max(T)}], es[Max(T)])
    BY <1>6, <1>9
  <2>2. Max(T) \in 1..len
    BY <1>1, <1>9, MaxOfSome
  <2> QED
    BY <2>1, <2>2, <1>9, <1>s
<1>10. StepsOf(X, st, len, step, h[1..len]) # {}
  <2>1. FoldsTo(X, st, len, step, h)
    BY <1>8, <1>9 DEF FoldsTo
  <2> QED
    BY <1>1, <1>2, <1>4, <2>1, FoldSteps
<1>11. PICK w \in StepsOf(X, st, len, step, h[1..len]) : TRUE
  BY <1>10
<1>12. w \in [0..len -> X] /\ w[0] = st /\ w[len] = h[1..len] /\ \A k \in 1..len : w[k] = step[<<k, w[k - 1]>>]
  BY <1>11 DEF StepsOf
<1>13. ASSUME NEW k \in 1..len PROVE w[k] = ApplyEvent(w[k - 1], es[k])
  <2>1. w[k - 1] \in X
    BY <1>1, <1>12
  <2> QED
    BY <2>1, <1>12, <1>s
<1> QED
  BY <1>7, <1>12, <1>13 DEF FoldWalks, X, len

\* An empty log.
LEMMA LogInvInit == WorkflowInit => LogInv
<1>1. <<>> \in Seq(WorkflowEvents) /\ DOMAIN <<>> = {} /\ Len(<<>>) = 0 /\ 0 <= MaxEvents
  BY WorkflowAssumption
<1> QED
  BY <1>1 DEF WorkflowInit, LogInv

\* Appending keeps the creation first: an instance with events is not created again.
LEMMA LogInvStep == LogInv /\ [WorkflowNext]_workflowVars => LogInv'
<1> SUFFICES ASSUME LogInv, [WorkflowNext]_workflowVars PROVE LogInv'
  OBVIOUS
<1>1. CASE UNCHANGED events
  BY <1>1 DEF LogInv
<1>2. ASSUME NEW e \in WorkflowEvents, AppendEvent(e) PROVE LogInv'
  <2>1. /\ events' = Append(events, e) /\ Len(events) < MaxEvents /\ Len(events) \in Nat
        /\ events \in Seq(WorkflowEvents) /\ May(Instance, e)
    BY <1>2, LenProperties DEF AppendEvent, LogInv
  <2>2. e.type = "InstanceCreated" => events = <<>>
    BY <2>1 DEF May
  <2>3. /\ DOMAIN events' = 1..(Len(events) + 1) /\ DOMAIN events = 1..Len(events)
        /\ \A i \in DOMAIN events' : (i \in DOMAIN events /\ events'[i] = events[i]) \/ (i = Len(events) + 1 /\ events'[i] = e)
    BY <2>1, AppendedAt
  <2>4. events' \in Seq(WorkflowEvents) /\ Len(events') = Len(events) + 1
    BY <2>1, AppendProperties
  <2>5. Len(events') <= MaxEvents
    BY <2>1, <2>4, WorkflowAssumption
  <2>6. ASSUME NEW at \in DOMAIN events', events'[at].type = "InstanceCreated" PROVE at = 1
    <3>1. CASE at \in DOMAIN events /\ events'[at] = events[at]
      BY <2>6, <3>1 DEF LogInv
    <3>2. CASE at = Len(events) + 1 /\ events'[at] = e
      BY <2>2, <2>6, <3>2
    <3> QED
      BY <2>3, <3>1, <3>2
  <2> QED
    BY <2>4, <2>5, <2>6 DEF LogInv
<1>3. UpsertMeta \/ UpsertLost \/ UNCHANGED workflowVars => UNCHANGED events
  BY DEF UpsertMeta, UpsertLost, workflowVars
<1> QED
  BY <1>1, <1>2, <1>3 DEF WorkflowNext

\* The creation, which a replay applies before all others, leaves the instance as it is made.
Begun ==
    LET created == {at \in DOMAIN events : events[at].type = "InstanceCreated"}
    IN IF created = {} THEN InstanceDefault ELSE ApplyEvent(InstanceDefault, events[Min(created)])

\* It does.
LEMMA BegunIsDefault == ASSUME LogInv PROVE Begun = InstanceDefault
<1> DEFINE created == {at \in DOMAIN events : events[at].type = "InstanceCreated"}
<1>1. CASE created = {}
  BY <1>1 DEF Begun
<1>2. CASE created # {}
  <2>1. created = {1} /\ events[1].type = "InstanceCreated"
    BY <1>2 DEF LogInv
  <2>2. Min({1}) = 1
    BY DEF Min
  <2>3. Begun = ApplyEvent(InstanceDefault, events[1])
    BY <1>2, <2>1, <2>2 DEF Begun
  <2>4. ApplyEvent(InstanceDefault, events[1]) = [InstanceDefault EXCEPT !.status = "pending"]
    BY <2>1 DEF ApplyEvent
  <2>5. [InstanceDefault EXCEPT !.status = "pending"] = InstanceDefault
    BY DEF InstanceDefault
  <2> QED
    BY <2>3, <2>4, <2>5
<1> QED
  BY <1>1, <1>2

\* What is selected of the log, event by event.
Blocks(detail) == [at \in 1..Len(events) |-> IF Includes(detail, events[at]) THEN <<at>> ELSE <<>>]

\* The whole time range selects by detail alone.
LEMMA EverythingIsSelected ==
  ASSUME LogInv, NEW detail
  PROVE  /\ Selected(detail, Everything.from, Everything.to) = FlattenSeq(Blocks(detail))
         /\ Blocks(detail) \in Seq(Seq(1..Len(events))) /\ Len(Blocks(detail)) = Len(events) /\ Len(events) \in Nat
<1>1. Len(events) \in Nat /\ DOMAIN events = 1..Len(events) /\ Len(events) <= MaxEvents /\ MaxEvents \in Nat
  BY LenProperties, WorkflowAssumption DEF LogInv
<1>2. \A at \in 1..Len(events) : Timestamp(at) \in Everything.from..Everything.to
  BY <1>1 DEF Timestamp, Everything
<1>3. Selected(detail, Everything.from, Everything.to) = FlattenSeq(Blocks(detail))
  <2>1. [at \in 1..Len(events) |-> IF Includes(detail, events[at]) /\ Timestamp(at) \in Everything.from..Everything.to
                                     THEN <<at>> ELSE <<>>] = Blocks(detail)
    BY <1>2 DEF Blocks
  <2> QED
    BY <2>1 DEF Selected
<1>4. \A at \in 1..Len(events) : Blocks(detail)[at] \in Seq(1..Len(events))
  <2>1. \A at \in 1..Len(events) : <<at>> \in Seq(1..Len(events)) /\ <<>> \in Seq(1..Len(events))
    BY SingleSeq
  <2> QED
    BY <2>1 DEF Blocks
<1>5. Blocks(detail) \in Seq(Seq(1..Len(events))) /\ Len(Blocks(detail)) = Len(events)
  <2>1. Blocks(detail) \in [1..Len(events) -> Seq(1..Len(events))]
    BY <1>4 DEF Blocks
  <2> QED
    BY <1>1, <2>1
<1> QED
  BY <1>1, <1>3, <1>5

\* The fold of what is selected goes along with the fold of all of it.
LEMMA ReplaySame ==
  ASSUME LogInv, NEW detail \in {"medium", "high"},
         NEW picked, picked = Selected(detail, Everything.from, Everything.to)
  PROVE  Same(ReplayState(picked, Len(picked)), Instance)
<1> DEFINE n == Len(events)
           blocks == Blocks(detail)
           m == Len(picked)
           shown == [k \in 1..m |-> events[picked[k]]]
<1>1. /\ picked = FlattenSeq(blocks) /\ blocks \in Seq(Seq(1..n)) /\ Len(blocks) = n /\ n \in Nat
      /\ \A k \in 1..n : events[k] \in WorkflowEvents
  BY EverythingIsSelected, LenProperties DEF LogInv
<1>2. picked \in Seq(1..n) /\ Places(blocks, picked) # {}
  BY <1>1, FlattenPlaces
<1>3. PICK at \in Places(blocks, picked) : TRUE
  BY <1>2
<1>4. m \in Nat /\ \A k \in 1..m : picked[k] \in 1..n
  BY <1>2, LenProperties
<1>5. shown \in Seq(WorkflowEvents) /\ Len(shown) = m
  <2>1. shown \in [1..m -> WorkflowEvents]
    BY <1>1, <1>4
  <2> QED
    BY <1>4, <2>1
<1>6. ReplayState(picked, m) = Fold(InstanceDefault, shown)
  BY BegunIsDefault DEF ReplayState, Begun
<1>7. PICK u \in FoldWalks(InstanceDefault, events) : TRUE
  BY FoldIsWalk, DefaultState DEF LogInv
<1>8. PICK v \in FoldWalks(InstanceDefault, shown) : TRUE
  BY <1>5, FoldIsWalk, DefaultState
<1>9. /\ u \in [0..n -> InstanceStates] /\ u[0] = InstanceDefault /\ u[n] = Instance
      /\ \A k \in 1..n : u[k] = ApplyEvent(u[k - 1], events[k])
  BY <1>7 DEF FoldWalks, Instance
<1>10. /\ v \in [0..m -> InstanceStates] /\ v[0] = InstanceDefault /\ v[m] = Fold(InstanceDefault, shown)
       /\ \A k \in 1..m : v[k] = ApplyEvent(v[k - 1], shown[k])
  BY <1>5, <1>8 DEF FoldWalks
<1>11. \A k \in 1..m : shown[k] = events[picked[k]]
  OBVIOUS
<1>12. /\ at \in [0..n -> Nat] /\ at[0] = 0 /\ at[n] = m
       /\ \A i \in 1..n : /\ at[i] = at[i - 1] + Len(blocks[i])
                          /\ \A j \in 1..Len(blocks[i]) : picked[at[i - 1] + j] = blocks[i][j]
  BY <1>1, <1>3 DEF Places
<1>13. \A i \in 1..n : \A j \in 1..Len(blocks[i]) : at[i - 1] + j \in 1..m
  BY <1>1, <1>2, <1>3, PlacesInOrder
<1>14. \A i \in 0..n : at[i] \in 0..m
  <2>1. \A i \in 0..n, k \in 0..n : i <= k => at[i] <= at[k]
    BY <1>1, <1>2, <1>3, PlacesInOrder
  <2>a. \A y \in Nat : \A x \in 0..y : x <= y /\ y \in 0..y
    OBVIOUS
  <2>b. \A i \in 0..n : i <= n /\ n \in 0..n
    BY ONLY <2>a, <1>1
  <2>c. \A i \in 0..n : at[i] \in Nat
    BY ONLY <1>12
  <2>2. \A i \in 0..n : i <= n /\ n \in 0..n /\ at[i] \in Nat
    BY ONLY <2>b, <2>c
  <2>3. \A x, y \in Nat : x <= y => x \in 0..y
    OBVIOUS
  <2>4. \A i \in 0..n : at[i] <= m
    BY <2>1, <2>2, <1>12
  <2> QED
    BY <2>2, <2>3, <2>4, <1>4
<1>15. \A i \in 1..n : blocks[i] = IF Includes(detail, events[i]) THEN <<i>> ELSE <<>>
  BY DEF Blocks
<1>16. \A i \in 1..n : events[i].type = "InstanceCreated" => i = 1
  BY <1>1, LenProperties DEF LogInv
<1> HIDE DEF n, m, blocks, shown
<1> DEFINE S == {k \in Nat : k <= n => Same(v[at[k]], u[k])}
<1>17. 0 \in S
  BY <1>9, <1>10, <1>12 DEF Same
<1>18. ASSUME NEW k \in Nat, k \in S PROVE k + 1 \in S
  <2>1. SUFFICES ASSUME k + 1 <= n PROVE Same(v[at[k + 1]], u[k + 1])
    OBVIOUS
  <2>2. k + 1 \in 1..n /\ (k + 1) - 1 = k /\ k \in 0..n /\ Same(v[at[k]], u[k])
    BY <1>1, <1>18, <2>1
  <2> DEFINE i == k + 1
             e == events[i]
  <2>3. i \in 1..n /\ i - 1 = k
    BY <2>2
  <2> HIDE DEF i
  <2>4. /\ u[i] = ApplyEvent(u[k], e) /\ u[k] \in InstanceStates /\ v[at[k]] \in InstanceStates /\ e \in WorkflowEvents
        /\ at[k] \in 0..m /\ at[k] \in Nat
    BY <1>1, <1>9, <1>10, <1>12, <1>14, <2>2, <2>3
  <2>5. CASE Includes(detail, e)
    <3>1. blocks[i] = <<i>> /\ Len(<<i>>) = 1 /\ <<i>>[1] = i
      BY <1>15, <2>3, <2>5
    <3>2. at[i] = at[k] + 1 /\ picked[at[k] + 1] = i /\ at[k] + 1 \in 1..m
      <4>1. 1 \in 1..Len(blocks[i]) /\ Len(blocks[i]) = 1
        BY <3>1
      <4> QED
        BY <1>12, <1>13, <2>3, <3>1, <4>1
    <3>3. v[at[k] + 1] = ApplyEvent(v[at[k]], e)
      <4>1. (at[k] + 1) - 1 = at[k]
        BY <2>4
      <4> QED
        BY <1>10, <1>11, <3>2, <4>1
    <3> QED
      BY <2>2, <2>4, <3>2, <3>3, ApplySame DEF i
  <2>6. CASE ~Includes(detail, e)
    <3>1. at[i] = at[k]
      <4>1. blocks[i] = <<>> /\ Len(<<>>) = 0
        BY <1>15, <2>3, <2>6
      <4> QED
        BY <1>12, <2>3, <2>4, <4>1
    <3>2. e.type = "InstanceCreated" => u[k].status = "pending"
      <4>1. e.type = "InstanceCreated" => k = 0
        BY <1>16, <2>2, <2>3
      <4> QED
        BY <4>1, <1>9 DEF InstanceDefault
    <3>3. Same(u[i], u[k])
      BY <2>4, <2>6, <3>2, LeftOutSame
    <3> QED
      BY <2>2, <3>1, <3>3 DEF Same, i
  <2> QED
    BY <2>5, <2>6
<1>19. Same(v[at[n]], u[n])
  <2> HIDE DEF S
  <2>1. n \in S
    BY <1>1, <1>17, <1>18, Induct
  <2> QED
    BY <2>1, <1>1 DEF S
<1> QED
  BY <1>6, <1>9, <1>10, <1>12, <1>19 DEF m

\* Whatever the workflow did, a replay of all of its log at medium or high detail ends with the
\* instance's own status, results and completed, running and blocked steps.
THEOREM ReplaysAgree == WorkflowSpec => []ReplayAgrees
<1>1. LogInv => ReplayAgrees
  <2> SUFFICES ASSUME LogInv, NEW detail \in {"medium", "high"}
               PROVE  LET replayed == Replay(detail, Everything.from, Everything.to).state
                      IN /\ replayed.status = Instance.status
                         /\ replayed.completed = Instance.completed /\ replayed.results = Instance.results
                         /\ replayed.running = Instance.running /\ replayed.blocked = Instance.blocked
    BY DEF ReplayAgrees
  <2> DEFINE picked == Selected(detail, Everything.from, Everything.to)
  <2>1. Replay(detail, Everything.from, Everything.to).state = ReplayState(picked, Len(picked))
    BY DEF Replay, ReplayOf
  <2>2. Same(ReplayState(picked, Len(picked)), Instance)
    BY ReplaySame
  <2> QED
    BY <2>1, <2>2 DEF Same
<1>2. WorkflowInit => LogInv
  BY LogInvInit
<1>3. LogInv /\ [WorkflowNext]_workflowVars => LogInv'
  BY LogInvStep
<1> QED
  BY <1>1, <1>2, <1>3, PTL DEF WorkflowSpec

-----------------------------------------------------------------------------
(* Timelines: until somebody rejects, the result of a step changes with its  *)
(* own events alone, which every detail shows, so what a timeline tells of a *)
(* step is what the log tells of it.                                         *)

\* The events that change a step's result.
IsOf(e, s) == e.type \in {"StepStarted", "StepCompleted", "StepFailed"} /\ e.step = s

\* Nobody has rejected.
NoRejection == \A at \in DOMAIN events : ~(events[at].type = "SignalReceived" /\ events[at].flag)

\* Another's event leaves a step's result.
LEMMA ResultStays ==
  ASSUME NEW a \in InstanceStates, NEW e \in WorkflowEvents, NEW s \in Steps, ~IsOf(e, s),
         ~(e.type = "SignalReceived" /\ e.flag)
  PROVE  ApplyEvent(a, e).results[s] = a.results[s]
<1> USE DEF InstanceStates, InstanceStatuses, StepResults
<1>1. CASE e.type \in {"InstanceCreated", "InstanceStarted", "WorkflowCompleted", "WorkflowFailed", "CancelRequested", "External"}
  BY <1>1 DEF ApplyEvent, ApplyStep
<1>2. CASE e.type \in {"StepScheduled", "StepRetryScheduled", "LLMCallStarted", "TimerFired"} /\ e.step \in Steps
  BY <1>2 DEF ApplyEvent, ApplyStep
<1>3. CASE e.type = "StepStarted" /\ e.step \in Steps
  BY <1>3 DEF ApplyEvent, ApplyStep, IsOf
<1>4. CASE e.type = "StepCompleted" /\ e.step \in Steps
  BY <1>4 DEF ApplyEvent, ApplyStep, IsOf
<1>5. CASE e.type = "StepFailed" /\ e.step \in Steps
  BY <1>5 DEF ApplyEvent, ApplyStep, IsOf
<1>6. CASE e.type \in {"SignalWaitStarted", "BreakpointHit"} /\ e.step \in Steps
  BY <1>6 DEF ApplyEvent, ApplyStep
<1>7. CASE e.type = "SignalReceived" /\ e.step \in Steps
  BY <1>7 DEF ApplyEvent, ApplySignal
<1> QED
  BY <1>1, <1>2, <1>3, <1>4, <1>5, <1>6, <1>7, EventShape

\* Its own makes of a result what it makes of it, whatever the rest of the instance is.
LEMMA ResultGoes ==
  ASSUME NEW a \in InstanceStates, NEW b \in InstanceStates, NEW e \in WorkflowEvents, NEW s \in Steps,
         ~(e.type = "SignalReceived" /\ e.flag), a.results[s] = b.results[s]
  PROVE  ApplyEvent(a, e).results[s] = ApplyEvent(b, e).results[s]
<1>1. CASE ~IsOf(e, s)
  <2>1. ApplyEvent(a, e).results[s] = a.results[s] /\ ApplyEvent(b, e).results[s] = b.results[s]
    BY <1>1, ResultStays
  <2> QED
    BY <2>1
<1>2. CASE IsOf(e, s)
  <2> USE DEF InstanceStates, StepResults
  <2>1. CASE e.type = "StepStarted"
    BY <1>2, <2>1 DEF ApplyEvent, ApplyStep, IsOf
  <2>2. CASE e.type = "StepCompleted"
    BY <1>2, <2>2 DEF ApplyEvent, ApplyStep, IsOf
  <2>3. CASE e.type = "StepFailed"
    BY <1>2, <2>3 DEF ApplyEvent, ApplyStep, IsOf
  <2> QED
    BY <1>2, <2>1, <2>2, <2>3 DEF IsOf
<1> QED
  BY <1>1, <1>2

\* The log's states, one after another.
LEMMA LogWalk ==
  ASSUME LogInv, NEW u \in FoldWalks(InstanceDefault, events)
  PROVE  /\ Len(events) \in Nat /\ DOMAIN events = 1..Len(events)
         /\ u[0] = InstanceDefault /\ u[Len(events)] = Instance /\ \A k \in 0..Len(events) : u[k] \in InstanceStates
         /\ \A k \in 1..Len(events) : /\ u[k] = ApplyEvent(u[k - 1], events[k]) /\ events[k] \in WorkflowEvents
                                      /\ k - 1 \in 0..Len(events) /\ k \in 0..Len(events)
<1>1. events \in Seq(WorkflowEvents)
  BY DEF LogInv
<1>2. /\ Len(events) \in Nat /\ DOMAIN events = 1..Len(events) /\ \A k \in 1..Len(events) : events[k] \in WorkflowEvents
  BY <1>1, LenProperties
<1>3. /\ u \in [0..Len(events) -> InstanceStates] /\ u[0] = InstanceDefault /\ u[Len(events)] = Fold(InstanceDefault, events)
      /\ \A k \in 1..Len(events) : u[k] = ApplyEvent(u[k - 1], events[k])
  BY DEF FoldWalks
<1> QED
  BY <1>2, <1>3 DEF Instance

\* Between its events a step's result stays.
LEMMA ResultRests ==
  ASSUME LogInv, NoRejection, NEW s \in Steps, NEW u \in FoldWalks(InstanceDefault, events),
         NEW a \in 0..Len(events), NEW b \in 0..Len(events), a <= b,
         \A k \in 1..Len(events) : a < k /\ k <= b => ~IsOf(events[k], s)
  PROVE  u[a].results[s] = u[b].results[s]
<1>1. /\ Len(events) \in Nat /\ DOMAIN events = 1..Len(events) /\ \A k \in 0..Len(events) : u[k] \in InstanceStates
      /\ \A k \in 1..Len(events) : u[k] = ApplyEvent(u[k - 1], events[k]) /\ events[k] \in WorkflowEvents
  BY LogWalk
<1> DEFINE T == {d \in Nat : a + d <= b => u[a + d].results[s] = u[a].results[s]}
<1>2. 0 \in T
  BY <1>1
<1>3. ASSUME NEW d \in Nat, d \in T PROVE d + 1 \in T
  <2>1. SUFFICES ASSUME a + (d + 1) <= b PROVE u[a + (d + 1)].results[s] = u[a].results[s]
    OBVIOUS
  <2> DEFINE k == a + (d + 1)
  <2>2. k \in 1..Len(events) /\ k - 1 = a + d /\ a < k /\ k <= b /\ a + d \in 0..Len(events) /\ a + d <= b
    BY <1>1, <2>1
  <2>3. u[a + d].results[s] = u[a].results[s]
    BY <1>3, <2>2
  <2>4. ~IsOf(events[k], s) /\ ~(events[k].type = "SignalReceived" /\ events[k].flag)
    BY <1>1, <2>2 DEF NoRejection
  <2>5. u[k] = ApplyEvent(u[a + d], events[k]) /\ u[a + d] \in InstanceStates /\ events[k] \in WorkflowEvents
    BY <1>1, <2>2
  <2> HIDE DEF k
  <2>6. u[k].results[s] = u[a + d].results[s]
    BY <2>4, <2>5, ResultStays
  <2> QED
    BY <2>3, <2>6 DEF k
<1>4. b - a \in T
  <2>1. b - a \in Nat
    BY <1>1
  <2> HIDE DEF T
  <2> QED
    BY <1>2, <1>3, <2>1, Induct
<1>5. a + (b - a) = b /\ b <= b
  BY <1>1
<1> QED
  BY <1>4, <1>5

\* What is shown has all the events of a step.
ShowsAll(K, s) == \A at \in DOMAIN events : IsOf(events[at], s) => at \in K

\* From what is shown to the next that is shown it stays.
LEMMA ResultBetween ==
  ASSUME LogInv, NoRejection, NEW s \in Steps, NEW u \in FoldWalks(InstanceDefault, events),
         NEW K \in SUBSET (1..Len(events)), ShowsAll(K, s), NEW q \in Listings(Len(events), K), NEW i \in 0..Len(q),
         NEW b \in 0..Len(events), PlaceBefore(q, i) <= b, i < Len(q) => b < q[i + 1]
  PROVE  u[PlaceBefore(q, i)].results[s] = u[b].results[s]
<1> DEFINE n == Len(events)
           a == PlaceBefore(q, i)
<1>1. n \in Nat /\ DOMAIN events = 1..n /\ K \in SUBSET (1..n) /\ q \in Listings(n, K)
  BY LogWalk
<1>2. Len(q) \in Nat /\ \A k \in 1..Len(q) : q[k] \in 1..n
  BY LenProperties DEF Listings
<1>3. a \in 0..n
  <2>1. CASE i = 0
    BY <1>1, <2>1 DEF PlaceBefore
  <2>2. CASE i # 0
    <3>1. i \in 1..Len(q) /\ a = q[i]
      BY <1>2, <2>2 DEF PlaceBefore
    <3>2. q[i] \in 1..n
      BY <1>2, <3>1
    <3> QED
      BY <1>1, <3>1, <3>2
  <2> QED
    BY <2>1, <2>2
<1>4. ASSUME NEW z \in 1..n, a < z, z <= b, IsOf(events[z], s) PROVE FALSE
  <2>1. z \in K
    <3>1. z \in DOMAIN events
      BY <1>1
    <3> QED
      BY <1>4, <3>1 DEF ShowsAll
  <2>2. i < Len(q) => z < q[i + 1]
    <3>1. ASSUME i < Len(q) PROVE z < q[i + 1]
      <4>1. i + 1 \in 1..Len(q) /\ b < q[i + 1]
        BY <1>2, <3>1
      <4>2. q[i + 1] \in 1..n
        BY <1>2, <4>1
      <4> QED
        BY <1>1, <1>4, <4>1, <4>2
    <3> QED
      BY <3>1
  <2> HIDE DEF n
  <2> QED
    BY <1>1, <1>4, <2>1, <2>2, NothingBetween
<1>5. \A z \in 1..n : a < z /\ z <= b => ~IsOf(events[z], s)
  BY <1>4
<1> HIDE DEF a
<1> QED
  BY <1>3, <1>5, ResultRests DEF a

\* A replay of what is shown is, as to the step, where the log is.
LEMMA ReplayResult ==
  ASSUME LogInv, NoRejection, NEW s \in Steps, NEW u \in FoldWalks(InstanceDefault, events),
         NEW K \in SUBSET (1..Len(events)), ShowsAll(K, s), NEW picked \in Listings(Len(events), K), NEW i \in 0..Len(picked)
  PROVE  ReplayState(picked, i).results[s] = u[PlaceBefore(picked, i)].results[s]
<1> DEFINE n == Len(events)
           es == [k \in 1..i |-> events[picked[k]]]
<1>1. /\ n \in Nat /\ DOMAIN events = 1..n /\ \A k \in 0..n : u[k] \in InstanceStates
      /\ u[0] = InstanceDefault
      /\ \A k \in 1..n : u[k] = ApplyEvent(u[k - 1], events[k]) /\ events[k] \in WorkflowEvents /\ k - 1 \in 0..n
  BY LogWalk
<1>2. /\ Len(picked) \in Nat /\ \A k \in 1..Len(picked) : picked[k] \in 1..n
      /\ \A j, k \in 1..Len(picked) : j < k => picked[j] < picked[k]
  BY LenProperties DEF Listings
<1>3. es \in Seq(WorkflowEvents) /\ Len(es) = i /\ i \in Nat
  <2>1. i \in Nat /\ \A k \in 1..i : k \in 1..Len(picked)
    BY <1>2
  <2>2. es \in [1..i -> WorkflowEvents]
    BY <1>1, <1>2, <2>1
  <2> QED
    BY <2>1, <2>2
<1>4. ReplayState(picked, i) = Fold(InstanceDefault, es)
  BY BegunIsDefault DEF ReplayState, Begun
<1>5. \A k \in 1..i : es[k] = events[picked[k]]
  OBVIOUS
<1> HIDE DEF n, es
<1>6. PICK v \in FoldWalks(InstanceDefault, es) : TRUE
  BY <1>3, FoldIsWalk, DefaultState
<1>7. /\ v \in [0..i -> InstanceStates] /\ v[0] = InstanceDefault /\ v[i] = Fold(InstanceDefault, es)
      /\ \A k \in 1..i : v[k] = ApplyEvent(v[k - 1], es[k])
  BY <1>3, <1>6 DEF FoldWalks
<1> DEFINE T == {k \in Nat : k <= i => v[k].results[s] = u[PlaceBefore(picked, k)].results[s]}
<1>8. 0 \in T
  BY <1>1, <1>7 DEF PlaceBefore
<1>9. ASSUME NEW k \in Nat, k \in T PROVE k + 1 \in T
  <2>1. SUFFICES ASSUME k + 1 <= i PROVE v[k + 1].results[s] = u[PlaceBefore(picked, k + 1)].results[s]
    OBVIOUS
  <2> DEFINE x == PlaceBefore(picked, k)
             y == picked[k + 1]
  <2>2. k + 1 \in 1..i /\ k + 1 \in 1..Len(picked) /\ k \in 0..Len(picked) /\ k < Len(picked) /\ (k + 1) - 1 = k
        /\ k \in 0..i /\ v[k].results[s] = u[x].results[s]
    BY <1>2, <1>9, <2>1
  <2>3. y \in 1..n /\ PlaceBefore(picked, k + 1) = y
    BY <1>2, <2>2 DEF PlaceBefore
  <2>4. x \in 0..n /\ x <= y - 1 /\ y - 1 \in 0..n
    <3>1. CASE k = 0
      BY <1>1, <2>3, <3>1 DEF PlaceBefore
    <3>2. CASE k # 0
      <4>1. k \in 1..Len(picked) /\ x = picked[k] /\ k < k + 1
        BY <2>2, <3>2 DEF PlaceBefore
      <4>2. picked[k] \in 1..n /\ picked[k] < y
        BY <1>2, <2>2, <4>1
      <4>3. n \in Nat /\ x \in 1..n /\ x < y /\ y \in 1..n
        BY <1>1, <2>3, <4>1, <4>2
      <4> HIDE DEF x, y
      <4> QED
        BY <4>3
    <3> QED
      BY <3>1, <3>2
  <2>6. u[x].results[s] = u[y - 1].results[s]
    <3>1. k < Len(picked) => y - 1 < picked[k + 1]
      BY <1>1, <2>3
    <3> QED
      BY <2>2, <2>4, <3>1, ResultBetween DEF n
  <2>7. /\ v[k + 1] = ApplyEvent(v[k], events[y]) /\ u[y] = ApplyEvent(u[y - 1], events[y])
        /\ v[k] \in InstanceStates /\ u[y - 1] \in InstanceStates /\ events[y] \in WorkflowEvents
    BY <1>1, <1>5, <1>7, <2>2, <2>3, <2>4
  <2>8. ~(events[y].type = "SignalReceived" /\ events[y].flag)
    BY <1>1, <2>3 DEF NoRejection
  <2> HIDE DEF x, y
  <2>9. v[k].results[s] = u[y - 1].results[s]
    BY <2>2, <2>6
  <2> QED
    BY <2>3, <2>7, <2>8, <2>9, ResultGoes
<1>10. i \in T
  <2> HIDE DEF T
  <2> QED
    BY <1>3, <1>8, <1>9, Induct
<1> QED
  BY <1>3, <1>4, <1>7, <1>10

\* A step's starts before an event, the last of them, and how long the event says it took.
StartsBefore(s, x) == {a \in 1..x - 1 : events[a].type = "StepStarted" /\ events[a].step = s}
LatestStart(s, x) == CHOOSE a \in StartsBefore(s, x) : \A b \in StartsBefore(s, x) : b <= a
Took(s, x) ==
    IF events[x].type = "StepStarted" \/ StartsBefore(s, x) = {} THEN {}
    ELSE {(IF events[x].type = "StepFailed" THEN Len(events) + 1 ELSE x) - LatestStart(s, x)}

\* There is a last one.
LEMMA LatestIs ==
  ASSUME NEW x \in Nat, NEW s \in Steps, StartsBefore(s, x) # {}
  PROVE  LatestStart(s, x) \in StartsBefore(s, x) /\ \A b \in StartsBefore(s, x) : b <= LatestStart(s, x)
<1>1. x - 1 \in Nat \/ x = 0
  OBVIOUS
<1>2. x # 0
  <2>1. x = 0 => 1..x - 1 = {}
    OBVIOUS
  <2> QED
    BY <2>1 DEF StartsBefore
<1> DEFINE U == StartsBefore(s, x)
<1>3. U \in SUBSET (1..(x - 1)) /\ U # {} /\ x - 1 \in Nat
  BY <1>1, <1>2 DEF StartsBefore
<1>4. Max(U) \in U /\ \A b \in U : b <= Max(U)
  <2> HIDE DEF U
  <2> QED
    BY <1>3, MaxOfSome
<1>5. \E a \in U : \A b \in U : b <= a
  BY <1>4
<1> QED
  BY <1>5 DEF LatestStart

\* The duration in a timeline that shows all events of the step.
LEMMA DurationIs ==
  ASSUME LogInv, NEW s \in Steps, NEW K \in SUBSET (1..Len(events)), ShowsAll(K, s),
         NEW picked \in Listings(Len(events), K), NEW i \in 1..Len(picked), IsOf(events[picked[i]], s)
  PROVE  Duration(picked, i) = Took(s, picked[i])
<1> DEFINE n == Len(events)
           x == picked[i]
           begins == {k \in 1..i - 1 : events[picked[k]].type = "StepStarted" /\ events[picked[k]].step = events[x].step}
           first == CHOOSE k \in begins : \A l \in begins : l <= k
           until == IF events[x].type = "StepFailed" THEN n + 1 ELSE x
<1>1. n \in Nat /\ DOMAIN events = 1..n
  BY LenProperties DEF LogInv
<1>2. /\ Len(picked) \in Nat /\ \A k \in 1..Len(picked) : picked[k] \in 1..n
      /\ \A j, k \in 1..Len(picked) : j < k => picked[j] < picked[k]
      /\ \A z \in K : \E k \in 1..Len(picked) : picked[k] = z
  BY LenProperties DEF Listings
<1>3. Duration(picked, i) = IF events[x].type \notin {"StepCompleted", "StepFailed"} \/ begins = {} THEN {}
                            ELSE {until - picked[first]}
  BY DEF Duration
<1>4. x \in 1..n /\ events[x].step = s /\ events[x].type \in {"StepStarted", "StepCompleted", "StepFailed"} /\ i \in Nat
  BY <1>2 DEF IsOf
<1>5. ASSUME NEW k \in begins PROVE picked[k] \in StartsBefore(s, x) /\ k \in 1..Len(picked)
  <2>1. k \in 1..Len(picked) /\ k < i
    BY <1>2, <1>4
  <2>2. picked[k] < x /\ picked[k] \in 1..n
    BY <1>2, <2>1
  <2>3. picked[k] \in 1..x - 1
    <3> HIDE DEF x
    <3> QED
      BY <1>1, <1>4, <2>2
  <2> QED
    BY <1>4, <2>1, <2>3 DEF StartsBefore
<1>6. ASSUME NEW a \in StartsBefore(s, x) PROVE \E k \in begins : picked[k] = a
  <2>1. a \in 1..n /\ a < x /\ IsOf(events[a], s) /\ events[a].type = "StepStarted"
    <3> HIDE DEF x
    <3> QED
      BY <1>1, <1>4 DEF StartsBefore, IsOf
  <2>2. a \in K
    <3>1. a \in DOMAIN events
      BY <1>1, <2>1
    <3> QED
      BY <2>1, <3>1 DEF ShowsAll
  <2>3. PICK k \in 1..Len(picked) : picked[k] = a
    BY <1>2, <2>2
  <2>4. k < i
    <3>1. k = i \/ i < k \/ k < i
      BY <1>2
    <3>2. i < k => x < picked[k]
      BY <1>2
    <3>3. ~(x < picked[k]) /\ picked[k] # x
      <4> HIDE DEF x
      <4> QED
        BY <1>1, <1>4, <2>1, <2>3
    <3> QED
      BY <3>1, <3>2, <3>3
  <2>5. k \in 1..i - 1
    BY <1>2, <1>4, <2>4
  <2> QED
    BY <1>4, <2>1, <2>3, <2>5 DEF IsOf
<1>7. begins = {} <=> StartsBefore(s, x) = {}
  BY <1>5, <1>6
<1>8. ASSUME begins # {} PROVE picked[first] = LatestStart(s, x)
  <2>1. begins \in SUBSET (1..(i - 1)) /\ i - 1 \in Nat
    <3>1. i - 1 \in Nat
      BY <1>2
    <3> QED
      BY <3>1
  <2>2. first \in begins /\ \A l \in begins : l <= first
    <3> HIDE DEF begins
    <3>1. Max(begins) \in begins /\ \A l \in begins : l <= Max(begins)
      BY <1>8, <2>1, MaxOfSome
    <3> QED
      BY <3>1
  <2>3. /\ LatestStart(s, x) \in StartsBefore(s, x) /\ \A b \in StartsBefore(s, x) : b <= LatestStart(s, x)
    <3> HIDE DEF x, begins
    <3> QED
      BY <1>1, <1>4, <1>7, <1>8, LatestIs
  <2> HIDE DEF begins, first
  <2>4. picked[first] \in StartsBefore(s, x) /\ first \in 1..Len(picked)
    BY <1>5, <2>2
  <2>5. PICK k \in begins : picked[k] = LatestStart(s, x)
    BY <1>6, <2>3
  <2>6. k \in 1..Len(picked) /\ (k = first \/ k < first)
    <3>1. k <= first /\ k \in 1..Len(picked)
      BY <1>5, <2>2
    <3> QED
      BY <1>2, <2>4, <3>1
  <2>7. picked[k] <= picked[first] /\ picked[first] <= LatestStart(s, x)
    <3>1. picked[k] \in 1..n /\ picked[first] \in 1..n
      BY <1>2, <2>4, <2>6
    <3>2. picked[k] = picked[first] \/ picked[k] < picked[first]
      BY <1>2, <2>4, <2>6
    <3> QED
      BY <1>1, <2>3, <2>4, <3>1, <3>2
  <2>8. picked[k] \in 1..n /\ picked[first] \in 1..n
    BY <1>2, <2>4, <2>6
  <2> QED
    BY <1>1, <2>5, <2>7, <2>8
<1> HIDE DEF begins, first
<1> QED
  BY <1>3, <1>4, <1>7, <1>8 DEF Took

\* What a timeline tells of an event of the step, and that it tells no other with a change.
Tells(entry, s, u, x) ==
    entry.event = events[x] /\ entry.diff = {<<u[x - 1].results[s], u[x].results[s]>>} /\ entry.duration = Took(s, x)

\* One entry.
LEMMA EntryIs ==
  ASSUME LogInv, NoRejection, NEW s \in Steps, NEW u \in FoldWalks(InstanceDefault, events),
         NEW K \in SUBSET (1..Len(events)), ShowsAll(K, s), NEW picked \in Listings(Len(events), K), NEW i \in 1..Len(picked)
  PROVE  /\ (TimelineEntry(picked, i).step = s /\ TimelineEntry(picked, i).diff # {}) <=> IsOf(events[picked[i]], s)
         /\ IsOf(events[picked[i]], s) => Tells(TimelineEntry(picked, i), s, u, picked[i])
<1> DEFINE n == Len(events)
           x == picked[i]
           e == events[x]
           before == ReplayState(picked, i - 1)
           after == ReplayState(picked, i)
<1>1. /\ n \in Nat /\ DOMAIN events = 1..n /\ \A k \in 1..n : events[k] \in WorkflowEvents
  BY LogWalk
<1>2. /\ Len(picked) \in Nat /\ \A k \in 1..Len(picked) : picked[k] \in 1..n
      /\ \A j, k \in 1..Len(picked) : j < k => picked[j] < picked[k]
  BY LenProperties DEF Listings
<1>3. /\ x \in 1..n /\ e \in WorkflowEvents /\ i - 1 \in 0..Len(picked) /\ i \in 0..Len(picked) /\ i - 1 < Len(picked)
      /\ (i - 1) + 1 = i
  BY <1>1, <1>2
<1>4. TimelineEntry(picked, i) = [sequence |-> i, event |-> e, step |-> StepId(e), duration |-> Duration(picked, i),
                                  diff |-> Diff(before, after, e)]
  BY DEF TimelineEntry
<1>5. (StepId(e) = s /\ Diff(before, after, e) # {}) <=> IsOf(e, s)
  <2>1. e.type \in StepEvents => StepId(e) = e.step
    BY DEF StepId
  <2>2. e.type \notin StepEvents => StepId(e) # s
    BY WorkflowAssumption DEF StepId
  <2>3. e.type \in StepEvents => (Diff(before, after, e) # {} <=> e.type \in {"StepStarted", "StepCompleted", "StepFailed"})
    BY DEF Diff, StepEvents
  <2>4. {"StepStarted", "StepCompleted", "StepFailed"} \subseteq StepEvents
    BY DEF StepEvents
  <2> HIDE DEF e, before, after
  <2> QED
    BY <2>1, <2>2, <2>3, <2>4 DEF IsOf
<1>6. ASSUME IsOf(e, s) PROVE Tells(TimelineEntry(picked, i), s, u, x)
  <2>1. Diff(before, after, e) = {<<before.results[s], after.results[s]>>}
    BY <1>6 DEF Diff, IsOf
  <2>2. before.results[s] = u[PlaceBefore(picked, i - 1)].results[s] /\ after.results[s] = u[x].results[s]
    <3>1. PlaceBefore(picked, i) = x
      BY <1>2 DEF PlaceBefore
    <3> QED
      BY <1>3, <3>1, ReplayResult
  <2>3. u[PlaceBefore(picked, i - 1)].results[s] = u[x - 1].results[s]
    <3> DEFINE y == PlaceBefore(picked, i - 1)
    <3>1. y \in 0..n /\ y <= x - 1 /\ x - 1 \in 0..n
      <4>1. CASE i = 1
        <5>1. y = 0
          BY <4>1 DEF PlaceBefore
        <5> HIDE DEF x, y
        <5> QED
          BY <1>1, <1>3, <5>1
      <4>2. CASE i # 1
        <5>1. i - 1 \in 1..Len(picked) /\ i - 1 < i /\ y = picked[i - 1]
          BY <1>2, <1>3, <4>2 DEF PlaceBefore
        <5>2. y < x /\ y \in 1..n
          BY <1>2, <5>1
        <5> HIDE DEF x, y
        <5> QED
          BY <1>1, <1>3, <5>2
      <4> QED
        BY <4>1, <4>2
    <3>2. i - 1 < Len(picked) => x - 1 < picked[(i - 1) + 1]
      <4>1. picked[(i - 1) + 1] = x
        BY <1>3
      <4> HIDE DEF x
      <4> QED
        BY <1>1, <1>3, <4>1
    <3> QED
      BY <1>3, <3>1, <3>2, ResultBetween
  <2>4. Duration(picked, i) = Took(s, x)
    BY <1>6, DurationIs
  <2> HIDE DEF x, before, after
  <2> QED
    BY <1>4, <2>1, <2>2, <2>3, <2>4 DEF Tells
<1> QED
  BY <1>4, <1>5, <1>6

\* The entries of a timeline that show a change of the step.
ShownOf(timeline, s) ==
    FlattenSeq([i \in DOMAIN timeline |-> IF timeline[i].step = s /\ timeline[i].diff # {} THEN <<timeline[i]>> ELSE <<>>])

\* The places of a step's own events.
PlacesOf(s) == {x \in 1..Len(events) : IsOf(events[x], s)}

\* They tell of the step's events, one by one.
LEMMA ShownIs ==
  ASSUME LogInv, NoRejection, NEW s \in Steps, NEW u \in FoldWalks(InstanceDefault, events),
         NEW K \in SUBSET (1..Len(events)), ShowsAll(K, s), NEW picked \in Listings(Len(events), K),
         NEW timeline, timeline = [i \in DOMAIN picked |-> TimelineEntry(picked, i)]
  PROVE  \E q \in Listings(Len(events), PlacesOf(s)) :
            /\ DOMAIN ShownOf(timeline, s) = 1..Len(q) /\ Len(ShownOf(timeline, s)) = Len(q)
            /\ \A i \in 1..Len(q) : Tells(ShownOf(timeline, s)[i], s, u, q[i])
<1> DEFINE n == Len(events)
           m == Len(picked)
           J == {i \in 1..m : IsOf(events[picked[i]], s)}
           X == {TimelineEntry(picked, i) : i \in 1..m}
           shown == ShownOf(timeline, s)
<1>1. n \in Nat /\ DOMAIN events = 1..n
  BY LogWalk
<1>2. /\ m \in Nat /\ DOMAIN picked = 1..m /\ \A k \in 1..m : picked[k] \in 1..n /\ picked[k] \in K
      /\ \A z \in K : \E k \in 1..m : picked[k] = z
  BY LenProperties DEF Listings
<1>3. DOMAIN timeline = 1..m /\ \A i \in 1..m : timeline[i] = TimelineEntry(picked, i)
  BY <1>2
<1>4. \A i \in 1..m : (timeline[i].step = s /\ timeline[i].diff # {}) <=> i \in J
  BY <1>3, EntryIs
<1>5. shown = Picked(m, timeline, J)
  <2>1. [i \in DOMAIN timeline |-> IF timeline[i].step = s /\ timeline[i].diff # {} THEN <<timeline[i]>> ELSE <<>>]
          = [i \in 1..m |-> IF i \in J THEN <<timeline[i]>> ELSE <<>>]
    <3> HIDE DEF J
    <3> QED
      BY <1>3, <1>4
  <2> QED
    BY <2>1 DEF ShownOf, Picked
<1>6. J \in SUBSET (1..m) /\ timeline \in [1..m -> X]
  BY <1>2
<1>7. Picked(m, timeline, J) \in Seq(X) /\ Along(m, timeline, J, Picked(m, timeline, J)) # {}
  <2> HIDE DEF J, X, m
  <2> QED
    BY <1>2, <1>6, PickedIs
<1>8. PICK r \in Listings(m, J) : /\ Len(r) = Len(Picked(m, timeline, J))
                                  /\ \A i \in 1..Len(r) : Picked(m, timeline, J)[i] = timeline[r[i]]
  BY <1>7 DEF Along
<1> DEFINE q == [k \in 1..Len(r) |-> picked[r[k]]]
<1>9. q \in Listings(n, {picked[j] : j \in J}) /\ Len(q) = Len(r)
  <2>1. /\ n \in Nat /\ K \in SUBSET (1..n) /\ picked \in Listings(n, K) /\ J \in SUBSET (1..Len(picked))
        /\ r \in Listings(Len(picked), J)
    BY <1>1, <1>6, <1>8
  <2> HIDE DEF J, n
  <2> QED
    BY ONLY <2>1, ListingThrough
<1>10. {picked[j] : j \in J} = PlacesOf(s)
  <2>1. {picked[j] : j \in J} \subseteq PlacesOf(s)
    BY <1>2 DEF PlacesOf
  <2>2. ASSUME NEW x \in PlacesOf(s) PROVE \E j \in J : picked[j] = x
    <3>1. x \in K
      BY <1>1 DEF PlacesOf, ShowsAll
    <3> QED
      BY <1>2, <3>1 DEF PlacesOf
  <2> HIDE DEF J
  <2> QED
    BY <2>1, <2>2
<1>11. DOMAIN shown = 1..Len(q) /\ Len(shown) = Len(q) /\ Len(r) \in Nat
  <2>1. Len(shown) = Len(r) /\ shown \in Seq(X)
    BY <1>5, <1>7, <1>8
  <2>2. DOMAIN shown = 1..Len(shown)
    <3> HIDE DEF shown, X
    <3> QED
      BY <2>1
  <2>3. Len(shown) \in Nat
    <3> HIDE DEF shown, X
    <3> QED
      BY <2>1, LenProperties
  <2> QED
    BY <1>9, <2>1, <2>2, <2>3
<1>12. ASSUME NEW i \in 1..Len(q) PROVE Tells(shown[i], s, u, q[i])
  <2>1. i \in 1..Len(r) /\ q[i] = picked[r[i]] /\ shown[i] = timeline[r[i]]
    BY <1>5, <1>8, <1>9
  <2>2. r[i] \in J
    BY <1>8, <2>1 DEF Listings
  <2>3. r[i] \in 1..m /\ IsOf(events[picked[r[i]]], s)
    BY <2>2
  <2>4. Tells(TimelineEntry(picked, r[i]), s, u, picked[r[i]])
    BY <2>3, EntryIs
  <2> QED
    BY <1>3, <2>1, <2>3, <2>4
<1> HIDE DEF q, shown
<1> QED
  BY <1>9, <1>10, <1>11, <1>12 DEF shown

\* What of a selection is the step's.
OwnOf(picked, s) == FlattenSeq([k \in DOMAIN picked |-> IF StepId(events[picked[k]]) = s THEN <<picked[k]>> ELSE <<>>])

\* What is selected of the log, and what of that is the step's, show all events of the step.
LEMMA SelectionsShow ==
  ASSUME LogInv, NEW detail \in {"low", "medium", "high"}, NEW s \in Steps,
         NEW picked, picked = Selected(detail, Everything.from, Everything.to),
         NEW own, own = OwnOf(picked, s)
  PROVE  /\ \E K \in SUBSET (1..Len(events)) : ShowsAll(K, s) /\ picked \in Listings(Len(events), K)
         /\ \E K \in SUBSET (1..Len(events)) : ShowsAll(K, s) /\ own \in Listings(Len(events), K)
<1> DEFINE n == Len(events)
           K == {at \in 1..n : Includes(detail, events[at])}
<1>1. n \in Nat /\ DOMAIN events = 1..n /\ picked = FlattenSeq(Blocks(detail))
  BY EverythingIsSelected, LenProperties DEF LogInv
<1>2. Blocks(detail) = [at \in 1..n |-> IF at \in K THEN <<at>> ELSE <<>>]
  BY DEF Blocks
<1>3. K \in SUBSET (1..n)
  OBVIOUS
<1>5. picked \in Listings(n, K)
  BY <1>1, <1>2, <1>3, ListedIs
<1>6. \A e : e.type \in {"StepStarted", "StepCompleted", "StepFailed"} => Includes(detail, e) /\ StepId(e) = e.step
  BY DEF Includes, Medium, Low, StepId, StepEvents
<1>7. ShowsAll(K, s)
  BY <1>1, <1>6 DEF ShowsAll, IsOf
<1> HIDE DEF K
<1> DEFINE m == Len(picked)
           J == {k \in 1..m : StepId(events[picked[k]]) = s}
           L == {picked[j] : j \in J}
<1>8. m \in Nat /\ DOMAIN picked = 1..m /\ (\A k \in 1..m : picked[k] \in 1..n) /\ \A z \in K : \E k \in 1..m : picked[k] = z
  <2>1. picked \in Seq(1..n) /\ \A x \in K : \E i \in 1..m : picked[i] = x
    BY <1>5 DEF Listings
  <2>2. m \in Nat /\ DOMAIN picked = 1..m /\ \A k \in 1..m : picked[k] \in 1..n
    BY <2>1, LenProperties
  <2> QED
    BY <2>1, <2>2
<1>9. own = Picked(m, picked, J)
  <2>1. [k \in DOMAIN picked |-> IF StepId(events[picked[k]]) = s THEN <<picked[k]>> ELSE <<>>]
          = [k \in 1..m |-> IF k \in J THEN <<picked[k]>> ELSE <<>>]
    BY <1>8
  <2> QED
    BY <2>1 DEF Picked, OwnOf
<1>10. J \in SUBSET (1..m)
  OBVIOUS
<1>11. own \in Seq(1..n) /\ Along(m, picked, J, own) # {}
  <2> DEFINE R == 1..n
  <2>1. m \in Nat /\ picked \in [1..m -> R] /\ J \in SUBSET (1..m)
    <3>1. picked \in Seq(1..n)
      BY <1>5 DEF Listings
    <3> QED
      BY <1>8, <1>10, <3>1
  <2> HIDE DEF J, m, R
  <2>2. Picked(m, picked, J) \in Seq(R) /\ Along(m, picked, J, Picked(m, picked, J)) # {}
    BY <2>1, PickedIs
  <2> QED
    BY <1>9, <2>2 DEF R
<1>12. PICK r \in Listings(m, J) : Len(r) = Len(own) /\ \A i \in 1..Len(r) : own[i] = picked[r[i]]
  BY <1>11 DEF Along
<1>13. [k \in 1..Len(r) |-> picked[r[k]]] \in Listings(n, L) /\ L \in SUBSET (1..n)
       /\ Len([k \in 1..Len(r) |-> picked[r[k]]]) = Len(r)
  <2>1. /\ n \in Nat /\ K \in SUBSET (1..n) /\ picked \in Listings(n, K) /\ J \in SUBSET (1..Len(picked))
        /\ r \in Listings(Len(picked), J)
    BY <1>1, <1>3, <1>5, <1>10, <1>12
  <2> HIDE DEF J, n
  <2> QED
    BY ONLY <2>1, ListingThrough
<1>14. own \in Listings(n, L)
  <2> DEFINE q == [k \in 1..Len(r) |-> picked[r[k]]]
  <2>1. q \in Seq(1..n) /\ Len(q) = Len(own)
    BY <1>12, <1>13 DEF Listings
  <2>2. \A i \in 1..Len(own) : own[i] = q[i]
    BY <1>12
  <2> HIDE DEF q
  <2>3. own = q
    BY <1>11, <2>1, <2>2, SeqEqual
  <2> QED
    BY <1>13, <2>3 DEF q
<1>15. ShowsAll(L, s)
  <2> SUFFICES ASSUME NEW at \in DOMAIN events, IsOf(events[at], s) PROVE at \in L
    BY DEF ShowsAll
  <2>1. at \in K
    BY <1>7 DEF ShowsAll
  <2>2. PICK k \in 1..m : picked[k] = at
    BY <1>8, <2>1
  <2>3. StepId(events[at]) = s
    BY <1>6 DEF IsOf
  <2> QED
    BY <2>2, <2>3
<1> HIDE DEF L
<1> QED
  BY <1>3, <1>5, <1>7, <1>13, <1>14, <1>15 DEF K

\* A completed step was started before.
StartInv ==
    \A at \in DOMAIN events : events[at].type = "StepCompleted" => StartsBefore(events[at].step, at) # {}

\* Only starting a step makes it run.
LEMMA ApplyRunning ==
  ASSUME NEW a \in InstanceStates, NEW e \in WorkflowEvents, NEW s \in ApplyEvent(a, e).running
  PROVE  s \in a.running \/ (e.type = "StepStarted" /\ e.step = s)
<1> USE DEF InstanceStates, InstanceStatuses, StepResults
<1>1. CASE e.type \in {"InstanceCreated", "InstanceStarted", "WorkflowCompleted", "WorkflowFailed", "CancelRequested", "External"}
  BY <1>1 DEF ApplyEvent, ApplyStep
<1>2. CASE e.type \in {"StepScheduled", "StepRetryScheduled", "LLMCallStarted", "TimerFired"} /\ e.step \in Steps
  BY <1>2 DEF ApplyEvent, ApplyStep
<1>3. CASE e.type = "StepStarted" /\ e.step \in Steps
  BY <1>3 DEF ApplyEvent, ApplyStep
<1>4. CASE e.type \in {"StepCompleted", "StepFailed"} /\ e.step \in Steps
  BY <1>4 DEF ApplyEvent, ApplyStep
<1>5. CASE e.type \in {"SignalWaitStarted", "BreakpointHit"} /\ e.step \in Steps
  BY <1>5 DEF ApplyEvent, ApplyStep
<1>6. CASE e.type = "SignalReceived" /\ e.step \in Steps
  BY <1>6 DEF ApplyEvent, ApplySignal
<1> QED
  BY <1>1, <1>2, <1>3, <1>4, <1>5, <1>6, EventShape

\* So what runs was started.
LEMMA RunningWasStarted ==
  ASSUME LogInv, NEW s \in Instance.running
  PROVE  \E b \in 1..Len(events) : events[b].type = "StepStarted" /\ events[b].step = s
<1>1. PICK u \in FoldWalks(InstanceDefault, events) : TRUE
  BY FoldIsWalk, DefaultState DEF LogInv
<1>2. /\ Len(events) \in Nat /\ u[0] = InstanceDefault /\ u[Len(events)] = Instance
      /\ \A k \in 0..Len(events) : u[k] \in InstanceStates
      /\ \A k \in 1..Len(events) : u[k] = ApplyEvent(u[k - 1], events[k]) /\ events[k] \in WorkflowEvents
  BY <1>1, LogWalk
<1> DEFINE Was(k) == \E b \in 1..k : events[b].type = "StepStarted" /\ events[b].step = s
           T == {k \in Nat : k <= Len(events) => (s \in u[k].running => Was(k))}
<1>3. 0 \in T
  BY <1>2 DEF InstanceDefault
<1>4. ASSUME NEW k \in Nat, k \in T PROVE k + 1 \in T
  <2>1. SUFFICES ASSUME k + 1 <= Len(events), s \in u[k + 1].running PROVE Was(k + 1)
    OBVIOUS
  <2>2. /\ u[k + 1] = ApplyEvent(u[k], events[k + 1]) /\ u[k] \in InstanceStates /\ events[k + 1] \in WorkflowEvents
        /\ k <= Len(events)
    <3>1. k + 1 \in 1..Len(events) /\ k \in 0..Len(events) /\ (k + 1) - 1 = k
      BY <1>2, <2>1
    <3> QED
      BY <1>2, <3>1
  <2>3. s \in u[k].running \/ (events[k + 1].type = "StepStarted" /\ events[k + 1].step = s)
    BY <2>1, <2>2, ApplyRunning
  <2>4. s \in u[k].running => Was(k)
    BY <1>4, <2>2
  <2>5. Was(k) => Was(k + 1)
    <3>1. \A b \in 1..k : b \in 1..(k + 1)
      OBVIOUS
    <3> QED
      BY <3>1
  <2>6. k + 1 \in 1..(k + 1)
    OBVIOUS
  <2> QED
    BY <2>3, <2>4, <2>5, <2>6
<1>5. Len(events) \in T
  <2> HIDE DEF T
  <2> QED
    BY <1>2, <1>3, <1>4, Induct
<1> QED
  BY <1>2, <1>5

\* A step is completed only while it runs.
LEMMA StartInvStep == LogInv /\ StartInv /\ [WorkflowNext]_workflowVars => StartInv'
<1> SUFFICES ASSUME LogInv, StartInv, [WorkflowNext]_workflowVars PROVE StartInv'
  OBVIOUS
<1>1. CASE UNCHANGED events
  BY <1>1 DEF StartInv, StartsBefore
<1>2. ASSUME NEW e \in WorkflowEvents, AppendEvent(e) PROVE StartInv'
  <2>1. /\ events' = Append(events, e) /\ Len(events) \in Nat /\ events \in Seq(WorkflowEvents) /\ May(Instance, e)
    BY <1>2, LenProperties DEF AppendEvent, LogInv
  <2>2. /\ DOMAIN events' = 1..(Len(events) + 1) /\ DOMAIN events = 1..Len(events)
        /\ \A i \in DOMAIN events' : (i \in DOMAIN events /\ events'[i] = events[i]) \/ (i = Len(events) + 1 /\ events'[i] = e)
    BY <2>1, AppendedAt
  <2>3. \A i \in 1..Len(events) : events'[i] = events[i]
    BY <2>1, <2>2
  <2>4. SUFFICES ASSUME NEW at \in DOMAIN events', events'[at].type = "StepCompleted"
                 PROVE  \E b \in 1..at - 1 : events'[b].type = "StepStarted" /\ events'[b].step = events'[at].step
    BY DEF StartInv, StartsBefore
  <2>5. CASE at \in DOMAIN events /\ events'[at] = events[at]
    <3>1. PICK b \in 1..at - 1 : events[b].type = "StepStarted" /\ events[b].step = events[at].step
      BY <2>4, <2>5 DEF StartInv, StartsBefore
    <3>2. b \in 1..Len(events)
      BY <2>1, <2>2, <2>5
    <3> QED
      BY <2>3, <2>5, <3>1, <3>2
  <2>6. CASE at = Len(events) + 1 /\ events'[at] = e
    <3>1. e.type = "StepCompleted"
      BY <2>4, <2>6
    <3>2. e.step \in Instance.running
      BY <2>1, <3>1 DEF May
    <3>3. PICK b \in 1..Len(events) : events[b].type = "StepStarted" /\ events[b].step = e.step
      BY <3>2, RunningWasStarted
    <3>4. b \in 1..at - 1
      BY <2>1, <2>6
    <3> QED
      BY <2>3, <2>6, <3>3, <3>4
  <2> QED
    BY <2>2, <2>5, <2>6
<1>3. UpsertMeta \/ UpsertLost \/ UNCHANGED workflowVars => UNCHANGED events
  BY DEF UpsertMeta, UpsertLost, workflowVars
<1> QED
  BY <1>1, <1>2, <1>3 DEF WorkflowNext

\* What is claimed of what a timeline shows of a step, and of what the step's own timeline shows.
TellsTrue(whole, alone, s) ==
    LET Transition(n) == CHOOSE d \in n.diff : TRUE
        Began(n) == IF n = 1 THEN "none" ELSE Transition(whole[n - 1])[2]
    IN /\ \A n \in DOMAIN whole : Transition(whole[n])[1] = Began(n)
       /\ Began(Len(whole) + 1) = Instance.results[s]
       /\ [n \in DOMAIN whole |-> <<whole[n].event, whole[n].diff, whole[n].duration>>]
              = [n \in DOMAIN alone |-> <<alone[n].event, alone[n].diff, alone[n].duration>>]
       /\ \A n \in DOMAIN whole : whole[n].event.type = "StepCompleted" =>
              \E at \in DOMAIN events, d \in whole[n].duration :
                  /\ events[at] = Event("StepStarted", s) /\ events[at + d] = whole[n].event
                  /\ \A a \in at + 1..at + d : events[a] # Event("StepStarted", s)

\* A start of a step is that and no more.
LEMMA StartIs ==
  ASSUME NEW e \in WorkflowEvents, e.type = "StepStarted"
  PROVE  e = Event("StepStarted", e.step)
<1>1. CASE \E t \in StepEvents \cup {"BreakpointHit", "SignalReceived", "TimerFired"}, s \in Steps : e = Event(t, s)
  <2>1. PICK t \in StepEvents \cup {"BreakpointHit", "SignalReceived", "TimerFired"}, s \in Steps : e = Event(t, s)
    BY <1>1
  <2>2. e.type = t /\ e.step = s
    BY <2>1 DEF Event
  <2> QED
    BY <2>1, <2>2
<1>2. CASE \E s \in Steps : e = Flagged("StepFailed", s) \/ e = Flagged("SignalReceived", s)
  <2>1. e.type \in {"StepFailed", "SignalReceived"}
    BY <1>2 DEF Flagged
  <2> QED
    BY <2>1
<1>3. CASE \E t \in Lifecycle \cup {"CancelRequested", "External"} : e = Event(t, NoStep)
  <2>1. e.type \in Lifecycle \cup {"CancelRequested", "External"}
    BY <1>3 DEF Event
  <2> QED
    BY <2>1 DEF Lifecycle
<1> QED
  BY <1>1, <1>2, <1>3 DEF WorkflowEvents

\* What tells of the step's events one by one tells what is true.
LEMMA TellingIsTrue ==
  ASSUME LogInv, StartInv, NoRejection, NEW s \in Steps, NEW u \in FoldWalks(InstanceDefault, events),
         NEW whole, NEW q \in Listings(Len(events), PlacesOf(s)),
         DOMAIN whole = 1..Len(q), Len(whole) = Len(q), \A i \in 1..Len(q) : Tells(whole[i], s, u, q[i]),
         NEW alone, NEW r \in Listings(Len(events), PlacesOf(s)),
         DOMAIN alone = 1..Len(r), \A i \in 1..Len(r) : Tells(alone[i], s, u, r[i])
  PROVE  TellsTrue(whole, alone, s)
<1> DEFINE n == Len(events)
           R(k) == u[k].results[s]
           Change(entry) == CHOOSE d \in entry.diff : TRUE
           Began(i) == IF i = 1 THEN "none" ELSE Change(whole[i - 1])[2]
<1>1. /\ n \in Nat /\ DOMAIN events = 1..n /\ u[0] = InstanceDefault /\ u[n] = Instance
      /\ \A k \in 1..n : events[k] \in WorkflowEvents
  BY LogWalk
<1>2. PlacesOf(s) \in SUBSET (1..n) /\ ShowsAll(PlacesOf(s), s)
  BY <1>1 DEF PlacesOf, ShowsAll
<1>3. Len(q) \in Nat /\ \A i \in 1..Len(q) : q[i] \in 1..n /\ IsOf(events[q[i]], s)
  BY LenProperties DEF Listings, PlacesOf
<1>4. \A i, k \in 1..Len(q) : i < k => q[i] < q[k]
  BY DEF Listings
<1>5. ASSUME NEW i \in 1..Len(q)
      PROVE  whole[i].event = events[q[i]] /\ Change(whole[i]) = <<R(q[i] - 1), R(q[i])>> /\ whole[i].duration = Took(s, q[i])
  BY DEF Tells
<1>6. R(0) = "none"
  BY <1>1 DEF InstanceDefault
<1>7. ASSUME NEW i \in 0..Len(q) PROVE Began(i + 1) = R(PlaceBefore(q, i))
  <2>1. CASE i = 0
    BY <1>6, <2>1 DEF PlaceBefore
  <2>2. CASE i # 0
    <3>1. i \in 1..Len(q) /\ i + 1 # 1 /\ (i + 1) - 1 = i /\ PlaceBefore(q, i) = q[i]
      BY <1>3, <2>2 DEF PlaceBefore
    <3>2. Began(i + 1) = Change(whole[i])[2]
      BY <3>1
    <3> HIDE DEF Began, Change, R
    <3> QED
      BY <1>5, <3>1, <3>2
  <2> QED
    BY <2>1, <2>2
<1>8. ASSUME NEW i \in 0..Len(q), NEW b \in 0..n, PlaceBefore(q, i) <= b, i < Len(q) => b < q[i + 1]
      PROVE  R(PlaceBefore(q, i)) = R(b)
  BY <1>2, <1>8, ResultBetween
<1>9. ASSUME NEW i \in 1..Len(q) PROVE Change(whole[i])[1] = Began(i)
  <2>1. i - 1 \in 0..Len(q) /\ (i - 1) + 1 = i /\ q[i] \in 1..n /\ q[i] - 1 \in 0..n
    <3>1. \A x \in 1..n : x - 1 \in 0..n
      BY <1>1
    <3> QED
      BY <1>3, <3>1
  <2>2. PlaceBefore(q, i - 1) <= q[i] - 1
    <3>1. CASE i = 1
      BY <2>1, <3>1 DEF PlaceBefore
    <3>2. CASE i # 1
      <4>1. i - 1 \in 1..Len(q) /\ i - 1 < i /\ PlaceBefore(q, i - 1) = q[i - 1]
        BY <1>3, <3>2 DEF PlaceBefore
      <4>2. q[i - 1] < q[i] /\ q[i - 1] \in 1..n
        BY <1>3, <1>4, <4>1
      <4> QED
        BY <2>1, <4>1, <4>2
    <3> QED
      BY <3>1, <3>2
  <2>3. q[i] - 1 < q[i]
    BY <2>1
  <2>4. i - 1 < Len(q) => q[i] - 1 < q[(i - 1) + 1]
    BY <2>1, <2>3
  <2> HIDE DEF R, Began, Change
  <2>5. R(PlaceBefore(q, i - 1)) = R(q[i] - 1)
    BY <1>8, <2>1, <2>2, <2>4
  <2>6. Began(i) = R(PlaceBefore(q, i - 1))
    BY <1>7, <2>1
  <2>7. Change(whole[i])[1] = R(q[i] - 1)
    BY <1>5
  <2> QED
    BY <2>5, <2>6, <2>7
<1>10. Began(Len(whole) + 1) = Instance.results[s]
  <2>1. Len(q) \in 0..Len(q) /\ n \in 0..n /\ PlaceBefore(q, Len(q)) <= n
    <3>1. CASE Len(q) = 0
      BY <1>1, <3>1 DEF PlaceBefore
    <3>2. CASE Len(q) # 0
      <4>1. Len(q) \in 1..Len(q) /\ PlaceBefore(q, Len(q)) = q[Len(q)]
        BY <1>3, <3>2 DEF PlaceBefore
      <4>2. q[Len(q)] \in 1..n
        BY <1>3, <4>1
      <4> QED
        BY <1>1, <1>3, <4>1, <4>2
    <3> QED
      BY <3>1, <3>2
  <2>2. ~(Len(q) < Len(q))
    BY <1>3
  <2>3. R(n) = Instance.results[s]
    BY <1>1
  <2> HIDE DEF R, Began, n
  <2>4. R(PlaceBefore(q, Len(q))) = R(n)
    BY <1>8, <2>1, <2>2
  <2>5. Began(Len(q) + 1) = R(PlaceBefore(q, Len(q)))
    BY <1>7, <2>1
  <2> QED
    BY <2>3, <2>4, <2>5
<1>11. [i \in DOMAIN whole |-> <<whole[i].event, whole[i].diff, whole[i].duration>>]
         = [i \in DOMAIN alone |-> <<alone[i].event, alone[i].diff, alone[i].duration>>]
  <2>1. Len(q) = Len(r) /\ \A i \in 1..Len(q) : q[i] = r[i]
    <3>1. n \in Nat /\ PlacesOf(s) \in SUBSET (1..n) /\ q \in Listings(n, PlacesOf(s)) /\ r \in Listings(n, PlacesOf(s))
      BY <1>1, <1>2
    <3> HIDE DEF n
    <3> QED
      BY ONLY <3>1, ListingUnique
  <2>2. ASSUME NEW i \in 1..Len(q)
        PROVE  whole[i].event = alone[i].event /\ whole[i].diff = alone[i].diff /\ whole[i].duration = alone[i].duration
    <3>1. Tells(whole[i], s, u, q[i]) /\ Tells(alone[i], s, u, q[i])
      BY <2>1
    <3> QED
      BY <3>1 DEF Tells
  <2>3. DOMAIN whole = DOMAIN alone
    BY <2>1
  <2>4. \A i \in DOMAIN whole : /\ whole[i].event = alone[i].event /\ whole[i].diff = alone[i].diff
                                /\ whole[i].duration = alone[i].duration
    BY <2>2
  <2> QED
    BY ONLY <2>3, <2>4
<1>12. ASSUME NEW i \in 1..Len(q), whole[i].event.type = "StepCompleted"
       PROVE  \E at \in DOMAIN events, d \in whole[i].duration :
                  /\ events[at] = Event("StepStarted", s) /\ events[at + d] = whole[i].event
                  /\ \A a \in at + 1..at + d : events[a] # Event("StepStarted", s)
  <2> DEFINE x == q[i]
             at == LatestStart(s, x)
             d == x - at
  <2>1. x \in 1..n /\ events[x].type = "StepCompleted" /\ events[x].step = s /\ whole[i].event = events[x]
        /\ whole[i].duration = Took(s, x)
    BY <1>3, <1>5, <1>12 DEF IsOf
  <2> HIDE DEF x
  <2>2. StartsBefore(s, x) # {} /\ x \in Nat
    BY <1>1, <2>1 DEF StartInv
  <2>3. at \in StartsBefore(s, x) /\ \A b \in StartsBefore(s, x) : b <= at
    BY <2>2, LatestIs
  <2>4. at \in 1..x - 1 /\ events[at].type = "StepStarted" /\ events[at].step = s
    BY <2>3 DEF StartsBefore
  <2>5. d \in whole[i].duration
    BY <2>1, <2>2 DEF Took
  <2> HIDE DEF at
  <2>6. at \in DOMAIN events /\ at + d = x /\ at \in Nat
    BY <1>1, <2>1, <2>4
  <2>7. events[at] = Event("StepStarted", s)
    BY <1>1, <2>4, <2>6, StartIs
  <2>8. ASSUME NEW a \in at + 1..x, events[a] = Event("StepStarted", s) PROVE FALSE
    <3>1. events[a].type = "StepStarted" /\ events[a].step = s
      BY <2>8 DEF Event
    <3>2. a # x
      BY <2>1, <3>1
    <3>3. a \in 1..x - 1 /\ a > at
      BY <1>1, <2>1, <2>6, <3>2
    <3>4. a \in StartsBefore(s, x)
      BY <3>1, <3>3 DEF StartsBefore
    <3> QED
      BY <2>3, <2>6, <3>3, <3>4
  <2>9. \A a \in at + 1..at + d : events[a] # Event("StepStarted", s)
    BY <2>6, <2>8
  <2> HIDE DEF d
  <2>10. events[at + d] = whole[i].event
    BY <2>1, <2>6
  <2> QED
    BY <2>5, <2>6, <2>7, <2>9, <2>10
<1> HIDE DEF n, R
<1> QED
  BY <1>9, <1>10, <1>11, <1>12 DEF TellsTrue

\* Whatever the workflow did, until a signal rejects, the timeline of a replay (every detail, of any log)
\* tells of a step transitions that hang together and end where the step is, the same as the timeline
\* of that step alone; and what completed took as long as its last attempt.
THEOREM TimelinesAgree == WorkflowSpec => []TimelineAgrees
<1>1. LogInv /\ StartInv => TimelineAgrees
  <2> SUFFICES ASSUME LogInv, StartInv, NoRejection, NEW detail \in {"low", "medium", "high"}, NEW s \in Steps
               PROVE  TellsTrue(ShownOf(Replay(detail, Everything.from, Everything.to).timeline, s),
                                ShownOf(ReplayStep(detail, s).timeline, s), s)
    BY Zenon DEF TimelineAgrees, TellsTrue, ShownOf, NoRejection
  <2> DEFINE picked == Selected(detail, Everything.from, Everything.to)
             own == OwnOf(picked, s)
             whole == Replay(detail, Everything.from, Everything.to).timeline
             alone == ReplayStep(detail, s).timeline
  <2>1. /\ \E K \in SUBSET (1..Len(events)) : ShowsAll(K, s) /\ picked \in Listings(Len(events), K)
        /\ \E K \in SUBSET (1..Len(events)) : ShowsAll(K, s) /\ own \in Listings(Len(events), K)
    BY SelectionsShow
  <2>2. whole = [i \in DOMAIN picked |-> TimelineEntry(picked, i)]
    BY DEF Replay, ReplayOf
  <2>3. Everything.from = 0 /\ Everything.to = MaxEvents + 1
    BY DEF Everything
  <2>4. alone = [i \in DOMAIN own |-> TimelineEntry(own, i)]
    BY <2>3 DEF ReplayStep, ReplayOf, OwnOf
  <2>5. PICK u \in FoldWalks(InstanceDefault, events) : TRUE
    BY FoldIsWalk, DefaultState DEF LogInv
  <2> HIDE DEF picked, own, whole, alone
  <2>6. PICK q \in Listings(Len(events), PlacesOf(s)) :
            /\ DOMAIN ShownOf(whole, s) = 1..Len(q) /\ Len(ShownOf(whole, s)) = Len(q)
            /\ \A i \in 1..Len(q) : Tells(ShownOf(whole, s)[i], s, u, q[i])
    BY <2>1, <2>2, <2>5, ShownIs
  <2>7. PICK r \in Listings(Len(events), PlacesOf(s)) :
            /\ DOMAIN ShownOf(alone, s) = 1..Len(r) /\ Len(ShownOf(alone, s)) = Len(r)
            /\ \A i \in 1..Len(r) : Tells(ShownOf(alone, s)[i], s, u, r[i])
    BY <2>1, <2>4, <2>5, ShownIs
  <2>8. TellsTrue(ShownOf(whole, s), ShownOf(alone, s), s)
    BY <2>5, <2>6, <2>7, TellingIsTrue
  <2> QED
    BY <2>8 DEF whole, alone
<1>2. WorkflowInit => LogInv /\ StartInv
  <2>1. WorkflowInit => DOMAIN events = {}
    <3>1. DOMAIN <<>> = {}
      OBVIOUS
    <3> QED
      BY <3>1 DEF WorkflowInit
  <2> QED
    BY <2>1, LogInvInit DEF StartInv
<1>3. LogInv /\ StartInv /\ [WorkflowNext]_workflowVars => (LogInv /\ StartInv)'
  BY LogInvStep, StartInvStep
<1> QED
  BY <1>1, <1>2, <1>3, PTL DEF WorkflowSpec

-----------------------------------------------------------------------------
(* Agents that are registered one after the other.                           *)

\* What a registry of agents may be.
Registries == UNION {[D -> Agents] : D \in SUBSET ValidIds}

\* The empty one.
LEMMA NoneRegistered == <<>> \in Registries /\ DOMAIN <<>> = {}
<1>1. <<>> = [i \in {} |-> {}] /\ DOMAIN <<>> = {}
  OBVIOUS
<1> QED
  BY <1>1 DEF Registries

\* Registering takes in what is accepted, and changes nothing that is there.
LEMMA RegisteredIs ==
  \A reg \in Registries, a \in Agents :
     /\ Registered(reg, a) \in Registries
     /\ \A id \in DOMAIN reg : id \in DOMAIN Registered(reg, a) /\ Registered(reg, a)[id] = reg[id]
     /\ Accepted(reg, a) => /\ DOMAIN Registered(reg, a) = DOMAIN reg \cup {a.id}
                            /\ a.id \notin DOMAIN reg /\ Registered(reg, a)[a.id] = a
     /\ ~Accepted(reg, a) => Registered(reg, a) = reg
<1> TAKE reg \in Registries, a \in Agents
<1>1. CASE ~Accepted(reg, a)
  BY <1>1 DEF Registered
<1>2. CASE Accepted(reg, a)
  <2>1. a.id \in ValidIds /\ a.id \notin DOMAIN reg
    BY <1>2 DEF Accepted, ValidateAgentConfig
  <2>2. Registered(reg, a) = [i \in DOMAIN reg \cup {a.id} |-> IF i = a.id THEN a ELSE reg[i]]
    BY <1>2 DEF Registered, Inserted
  <2>3. DOMAIN reg \subseteq ValidIds /\ \A i \in DOMAIN reg : reg[i] \in Agents
    BY DEF Registries
  <2>4. Registered(reg, a) \in [DOMAIN reg \cup {a.id} -> Agents]
    BY <2>2, <2>3
  <2>5. Registered(reg, a) \in Registries
    BY <2>1, <2>3, <2>4 DEF Registries
  <2> QED
    BY <1>2, <2>1, <2>2, <2>5
<1> QED
  BY <1>1, <1>2

\* What is there stays.
LEMMA RegisteredKeeps ==
  \A reg \in Registries, a \in Agents : \A id \in DOMAIN reg :
     id \in DOMAIN Registered(reg, a) /\ Registered(reg, a)[id] = reg[id]
  BY RegisteredIs

\* What is accepted is there.
LEMMA RegisteredTakes ==
  \A reg \in Registries, a \in Agents :
     /\ Accepted(reg, a) => DOMAIN Registered(reg, a) = DOMAIN reg \cup {a.id} /\ Registered(reg, a)[a.id] = a
     /\ ~Accepted(reg, a) => Registered(reg, a) = reg
  BY RegisteredIs

\* The registries that a list goes through, one agent after the other.
RegistryWalks(reg, list) ==
  {w \in [0..Len(list) -> Registries] : w[0] = reg /\ \A k \in 1..Len(list) : w[k] = Registered(w[k - 1], list[k])}

\* RegisteredAll as such a walk.
LEMMA RegisteredAllIsWalk ==
  ASSUME NEW reg \in Registries, NEW list \in Seq(Agents)
  PROVE  \E w \in RegistryWalks(reg, list) : w[Len(list)] = RegisteredAll(reg, list)
<1> DEFINE len == Len(list)
           X == Registries
           Folded(g) == [T \in SUBSET (1..len) |-> IF T = {} THEN reg ELSE Registered(g[T \ {Max(T)}], list[Max(T)])]
<1>1. len \in Nat /\ DOMAIN list = 1..len /\ \A k \in 1..len : list[k] \in Agents
  BY LenProperties
<1>2. PICK step \in [(1..len) \X X -> X] : \A k \in 1..len, s \in X : step[<<k, s>>] = Registered(s, list[k])
  <2> DEFINE Step == [p \in (1..len) \X X |-> Registered(p[2], list[p[1]])]
  <2>1. \A p \in (1..len) \X X : Registered(p[2], list[p[1]]) \in X
    BY <1>1, RegisteredIs
  <2>2. Step \in [(1..len) \X X -> X]
    BY <2>1
  <2> QED
    BY <2>2
<1> HIDE DEF len
<1>5. \E g : g = Folded(g)
  <2>1. PICK g \in FoldsOf(X, reg, len, step) : TRUE
    BY <1>1, <1>2, FoldExists
  <2>2. g \in [SUBSET (1..len) -> X] /\ \A T \in SUBSET (1..len) :
            g[T] = IF T = {} THEN reg ELSE step[<<Max(T), g[T \ {Max(T)}]>>]
    BY <2>1 DEF FoldsOf
  <2>3. ASSUME NEW T \in SUBSET (1..len)
        PROVE  g[T] = IF T = {} THEN reg ELSE Registered(g[T \ {Max(T)}], list[Max(T)])
    <3>1. CASE T = {}
      BY <2>2, <3>1
    <3>2. CASE T # {}
      <4>1. Max(T) \in 1..len /\ T \ {Max(T)} \in SUBSET (1..len)
        BY <3>2, <1>1, MaxOfSome
      <4>2. g[T \ {Max(T)}] \in X
        BY <4>1, <2>2
      <4>3. step[<<Max(T), g[T \ {Max(T)}]>>] = Registered(g[T \ {Max(T)}], list[Max(T)])
        BY <4>1, <4>2, <1>2
      <4> QED
        BY <4>3, <3>2, <2>2
    <3> QED
      BY <3>1, <3>2
  <2> QED
    BY <2>2, <2>3
<1> DEFINE h == CHOOSE g : g = Folded(g)
<1>6. h = Folded(h)
  <2> HIDE DEF Folded
  <2> QED
    BY <1>5
<1>7. RegisteredAll(reg, list) = h[1..len]
  BY <1>1 DEF RegisteredAll, FoldLeft, MapThenFoldSet
<1> HIDE DEF h
<1>8. h[{}] = reg
  BY <1>6
<1>9. ASSUME NEW T \in SUBSET (1..len), T # {}, h[T \ {Max(T)}] \in X
      PROVE  h[T] = step[<<Max(T), h[T \ {Max(T)}]>>]
  <2>1. h[T] = Registered(h[T \ {Max(T)}], list[Max(T)])
    BY <1>6, <1>9
  <2>2. Max(T) \in 1..len
    BY <1>1, <1>9, MaxOfSome
  <2> QED
    BY <2>1, <2>2, <1>9, <1>2
<1>10. StepsOf(X, reg, len, step, h[1..len]) # {}
  <2>1. FoldsTo(X, reg, len, step, h)
    BY <1>8, <1>9 DEF FoldsTo
  <2> QED
    BY <1>1, <1>2, <2>1, FoldSteps
<1>11. PICK w \in StepsOf(X, reg, len, step, h[1..len]) : TRUE
  BY <1>10
<1>12. w \in [0..len -> X] /\ w[0] = reg /\ w[len] = h[1..len] /\ \A k \in 1..len : w[k] = step[<<k, w[k - 1]>>]
  BY <1>11 DEF StepsOf
<1>13. ASSUME NEW k \in 1..len PROVE w[k] = Registered(w[k - 1], list[k])
  <2>1. w[k - 1] \in X
    BY <1>1, <1>12
  <2> QED
    BY <2>1, <1>12, <1>2
<1>14. w \in RegistryWalks(reg, list)
  BY <1>12, <1>13 DEF RegistryWalks, len
<1> QED
  BY <1>7, <1>12, <1>14 DEF len

\* A walk passes what each beginning of its list comes to.
LEMMA WalkPasses ==
  ASSUME NEW reg \in Registries, NEW list \in Seq(Agents), NEW w \in RegistryWalks(reg, list), NEW k \in 0..Len(list)
  PROVE  RegisteredAll(reg, SubSeq(list, 1, k)) = w[k]
<1> DEFINE q == SubSeq(list, 1, k)
<1>1. Len(list) \in Nat /\ k \in Nat
  BY LenProperties
<1>2. q \in Seq(Agents) /\ Len(q) = k /\ \A i \in 1..k : q[i] = list[i]
  <2>1. /\ q \in Seq(Agents) /\ Len(q) = (IF 1 <= k THEN k - 1 + 1 ELSE 0)
        /\ \A i \in 1..(k - 1 + 1) : q[i] = list[1 + i - 1]
    BY <1>1, SubSeqProperties
  <2> QED
    BY <2>1, <1>1
<1> HIDE DEF q
<1>3. PICK v \in RegistryWalks(reg, q) : v[Len(q)] = RegisteredAll(reg, q)
  BY <1>2, RegisteredAllIsWalk
<1>4. /\ v[0] = reg /\ \A i \in 1..k : v[i] = Registered(v[i - 1], list[i])
      /\ w[0] = reg /\ \A i \in 1..k : w[i] = Registered(w[i - 1], list[i])
  BY <1>1, <1>2, <1>3 DEF RegistryWalks
<1> DEFINE S == {i \in Nat : i <= k => v[i] = w[i]}
<1>5. 0 \in S
  BY <1>4
<1>6. ASSUME NEW i \in Nat, i \in S PROVE i + 1 \in S
  <2>1. SUFFICES ASSUME i + 1 <= k PROVE v[i + 1] = w[i + 1]
    OBVIOUS
  <2>2. i + 1 \in 1..k /\ i <= k /\ (i + 1) - 1 = i
    BY <1>1, <2>1
  <2>3. v[i] = w[i]
    BY <1>6, <2>2
  <2>4. v[i + 1] = Registered(v[i], list[i + 1]) /\ w[i + 1] = Registered(w[i], list[i + 1])
    BY <1>4, <2>2
  <2> QED
    BY <2>3, <2>4
<1>7. k \in S
  <2> HIDE DEF S
  <2> QED
    BY <1>1, <1>5, <1>6, Induct
<1> QED
  BY <1>1, <1>2, <1>3, <1>7 DEF q

\* What is registered stays.
LEMMA WalkGrows ==
  ASSUME NEW reg \in Registries, NEW list \in Seq(Agents), NEW w \in RegistryWalks(reg, list),
         NEW j \in 0..Len(list), NEW k \in 0..Len(list), j <= k
  PROVE  w[k] \in Registries /\ \A id \in DOMAIN w[j] : id \in DOMAIN w[k] /\ w[k][id] = w[j][id]
<1>1. Len(list) \in Nat /\ j \in Nat /\ k \in Nat /\ \A i \in 1..Len(list) : list[i] \in Agents
  BY LenProperties
<1>2. w \in [0..Len(list) -> Registries] /\ \A i \in 1..Len(list) : w[i] = Registered(w[i - 1], list[i])
  BY DEF RegistryWalks
<1> DEFINE S == {i \in Nat : j + i <= Len(list) => \A id \in DOMAIN w[j] : id \in DOMAIN w[j + i] /\ w[j + i][id] = w[j][id]}
<1>3. 0 \in S
  BY <1>1
<1>4. ASSUME NEW i \in Nat, i \in S PROVE i + 1 \in S
  <2>1. SUFFICES ASSUME j + (i + 1) <= Len(list), NEW id \in DOMAIN w[j]
                 PROVE  id \in DOMAIN w[j + (i + 1)] /\ w[j + (i + 1)][id] = w[j][id]
    OBVIOUS
  <2>2. j + (i + 1) \in 1..Len(list) /\ j + i \in 0..Len(list) /\ (j + (i + 1)) - 1 = j + i /\ j + i <= Len(list)
    BY <1>1, <2>1
  <2>3. id \in DOMAIN w[j + i] /\ w[j + i][id] = w[j][id]
    BY <1>4, <2>2
  <2>4. w[j + i] \in Registries /\ list[j + (i + 1)] \in Agents /\ w[j + (i + 1)] = Registered(w[j + i], list[j + (i + 1)])
    BY <1>1, <1>2, <2>2
  <2>5. id \in DOMAIN w[j + (i + 1)] /\ w[j + (i + 1)][id] = w[j + i][id]
    <3>1. \A x \in DOMAIN w[j + i] : x \in DOMAIN w[j + (i + 1)] /\ w[j + (i + 1)][x] = w[j + i][x]
      BY <2>4, RegisteredKeeps
    <3> QED
      BY <2>3, <3>1
  <2> QED
    BY <2>3, <2>5
<1>5. k - j \in Nat /\ j + (k - j) = k /\ k <= Len(list)
  BY <1>1
<1>6. k - j \in S
  <2> HIDE DEF S
  <2> QED
    BY <1>3, <1>4, <1>5, Induct
<1>7. w[k] \in Registries
  BY <1>2
<1> QED
  BY <1>5, <1>6, <1>7

\* The least of some numbers.
LEMMA LeastOf ==
  ASSUME NEW T \in SUBSET Nat, T # {}
  PROVE  \E i \in T : \A j \in T : i <= j
<1>1. IsWellFoundedOn(OpToRel(<, Nat), Nat)
  BY NatLessThanWellFounded
<1>2. PICK i \in T : \A j \in T : <<j, i>> \notin OpToRel(<, Nat)
  BY <1>1, WFMin
<1>3. \A j \in T : ~(j < i)
  BY <1>2 DEF OpToRel
<1> QED
  BY <1>3

\* What comes before the first refusal is taken in; without one, everything is.
LEMMA FirstRefusedIs ==
  ASSUME NEW reg \in Registries, NEW list \in Seq(Agents)
  PROVE  /\ FirstRefused(reg, list) \in 1..(Len(list) + 1)
         /\ RegisteredAll(reg, SubSeq(list, 1, FirstRefused(reg, list) - 1)) \in Registries
         /\ FirstRefused(reg, list) > Len(list) =>
              \A i \in 1..Len(list) : Accepted(RegisteredAll(reg, SubSeq(list, 1, i - 1)), list[i])
<1> DEFINE refused == {i \in DOMAIN list : ~Accepted(RegisteredAll(reg, SubSeq(list, 1, i - 1)), list[i])}
           end == FirstRefused(reg, list)
<1>1. Len(list) \in Nat /\ DOMAIN list = 1..Len(list)
  BY LenProperties
<1>2. end = IF refused = {} THEN Len(list) + 1 ELSE CHOOSE i \in refused : \A j \in refused : i <= j
  BY DEF FirstRefused
<1>3. refused # {} => end \in refused
  <2>1. refused \in SUBSET Nat
    BY <1>1
  <2>2. refused # {} => \E i \in refused : \A j \in refused : i <= j
    <3> HIDE DEF refused
    <3> QED
      BY <2>1, LeastOf
  <2> HIDE DEF refused, end
  <2> QED
    BY <1>2, <2>2
<1>4. end \in 1..(Len(list) + 1)
  <2>1. refused \subseteq 1..Len(list)
    BY <1>1
  <2>2. end \in 1..Len(list) \/ end = Len(list) + 1
    <3> HIDE DEF refused, end
    <3> QED
      BY <1>2, <1>3, <2>1
  <2> HIDE DEF end
  <2> QED
    BY <1>1, <2>2
<1>5. end > Len(list) => refused = {}
  <2>1. refused \subseteq 1..Len(list)
    BY <1>1
  <2>2. refused # {} => end \in 1..Len(list)
    <3> HIDE DEF refused, end
    <3> QED
      BY <1>3, <2>1
  <2> HIDE DEF end, refused
  <2> QED
    BY <1>1, <2>2
<1>6. PICK w \in RegistryWalks(reg, list) : TRUE
  BY RegisteredAllIsWalk
<1>7. RegisteredAll(reg, SubSeq(list, 1, end - 1)) \in Registries
  <2> HIDE DEF end
  <2>1. end - 1 \in 0..Len(list)
    BY <1>1, <1>4
  <2>2. w[end - 1] \in Registries
    BY <2>1 DEF RegistryWalks
  <2> QED
    BY <2>1, <2>2, WalkPasses
<1>8. end > Len(list) => \A i \in 1..Len(list) : Accepted(RegisteredAll(reg, SubSeq(list, 1, i - 1)), list[i])
  BY <1>1, <1>5
<1> QED
  BY <1>4, <1>7, <1>8

\* When each is accepted in its turn, each is new and is what was registered.
LEMMA AllAccepted ==
  ASSUME NEW reg \in Registries, NEW list \in Seq(Agents), FirstRefused(reg, list) > Len(list), NEW i \in 1..Len(list),
         NEW new, new = RegisteredAll(reg, SubSeq(list, 1, FirstRefused(reg, list) - 1))
  PROVE  list[i].id \notin DOMAIN reg /\ new[list[i].id] = list[i]
<1>1. Len(list) \in Nat /\ FirstRefused(reg, list) - 1 = Len(list) /\ list[i] \in Agents
      /\ Accepted(RegisteredAll(reg, SubSeq(list, 1, i - 1)), list[i])
  <2>1. Len(list) \in Nat /\ list[i] \in Agents
    BY LenProperties
  <2> QED
    BY <2>1, FirstRefusedIs
<1>2. PICK w \in RegistryWalks(reg, list) : TRUE
  BY RegisteredAllIsWalk
<1>3. 0 \in 0..Len(list) /\ i - 1 \in 0..Len(list) /\ i \in 0..Len(list) /\ Len(list) \in 0..Len(list)
      /\ 0 <= i - 1 /\ i <= Len(list)
  BY <1>1
<1>4. new = w[Len(list)]
  BY <1>1, <1>3, WalkPasses
<1>5. Accepted(w[i - 1], list[i])
  BY <1>1, <1>3, WalkPasses
<1>6. w[0] = reg /\ w[i] = Registered(w[i - 1], list[i]) /\ w[i - 1] \in Registries
  BY <1>3 DEF RegistryWalks
<1>7. list[i].id \notin DOMAIN w[i - 1] /\ DOMAIN w[i] = DOMAIN w[i - 1] \cup {list[i].id} /\ w[i][list[i].id] = list[i]
  <2> DEFINE old == w[i - 1]
             a == list[i]
  <2>1. old \in Registries /\ a \in Agents /\ Accepted(old, a) /\ w[i] = Registered(old, a)
    BY <1>1, <1>5, <1>6
  <2> HIDE DEF old, a
  <2>2. a.id \notin DOMAIN old /\ DOMAIN w[i] = DOMAIN old \cup {a.id} /\ w[i][a.id] = a
    BY <2>1, RegisteredTakes DEF Accepted
  <2> QED
    BY <2>2 DEF old, a
<1>8. \A id \in DOMAIN w[0] : id \in DOMAIN w[i - 1]
  BY <1>3, WalkGrows
<1>9. \A id \in DOMAIN w[i] : w[Len(list)][id] = w[i][id]
  BY <1>3, WalkGrows
<1> QED
  BY <1>4, <1>6, <1>7, <1>8, <1>9

\* A list registered from nothing: the ids of its valid agents, each with the first that has it.
LEMMA FromNothing ==
  ASSUME NEW list \in Seq(Agents)
  PROVE  LET new == RegisteredAll(<<>>, list)
             valid == {i \in DOMAIN list : ValidateAgentConfig(list[i])}
         IN /\ new \in Registries
            /\ DOMAIN new = {list[i].id : i \in valid}
            /\ \A i \in valid : (\A j \in valid : list[j].id = list[i].id => i <= j) => new[list[i].id] = list[i]
<1> DEFINE new == RegisteredAll(<<>>, list)
           valid == {i \in DOMAIN list : ValidateAgentConfig(list[i])}
           Ids(k) == {list[i].id : i \in {j \in 1..k : ValidateAgentConfig(list[j])}}
<1>1. Len(list) \in Nat /\ DOMAIN list = 1..Len(list) /\ \A i \in 1..Len(list) : list[i] \in Agents
  BY LenProperties
<1>2. PICK w \in RegistryWalks(<<>>, list) : w[Len(list)] = new
  BY NoneRegistered, RegisteredAllIsWalk
<1>3. w \in [0..Len(list) -> Registries] /\ w[0] = <<>> /\ \A k \in 1..Len(list) : w[k] = Registered(w[k - 1], list[k])
  BY <1>2 DEF RegistryWalks
<1>4. ASSUME NEW k \in 1..Len(list), NEW D, D = DOMAIN w[k - 1]
      PROVE  /\ DOMAIN w[k] = IF ValidateAgentConfig(list[k]) THEN D \cup {list[k].id} ELSE D
             /\ ValidateAgentConfig(list[k]) /\ list[k].id \notin D => w[k][list[k].id] = list[k]
  <2>1. k - 1 \in 0..Len(list) /\ list[k] \in Agents
    BY <1>1
  <2>2. w[k - 1] \in Registries /\ w[k] = Registered(w[k - 1], list[k])
    BY <1>3, <2>1
  <2>3. Accepted(w[k - 1], list[k]) <=> ValidateAgentConfig(list[k]) /\ list[k].id \notin D
    BY <1>4 DEF Accepted
  <2>4. /\ Accepted(w[k - 1], list[k]) => DOMAIN w[k] = D \cup {list[k].id} /\ w[k][list[k].id] = list[k]
        /\ ~Accepted(w[k - 1], list[k]) => w[k] = w[k - 1]
    <3> DEFINE old == w[k - 1]
               a == list[k]
    <3>1. old \in Registries /\ a \in Agents /\ w[k] = Registered(old, a) /\ D = DOMAIN old
      BY <1>4, <2>1, <2>2
    <3> HIDE DEF old, a
    <3>2. /\ Accepted(old, a) => DOMAIN w[k] = D \cup {a.id} /\ w[k][a.id] = a
          /\ ~Accepted(old, a) => w[k] = old
      BY <3>1, RegisteredTakes
    <3> QED
      BY <3>2 DEF old, a
  <2>5. list[k].id \in D => D \cup {list[k].id} = D
    OBVIOUS
  <2> QED
    BY <1>4, <2>3, <2>4, <2>5
<1> DEFINE S == {k \in Nat : k <= Len(list) => DOMAIN w[k] = Ids(k)}
<1>5. 0 \in S
  BY <1>1, <1>3, NoneRegistered
<1>6. ASSUME NEW k \in Nat, k \in S PROVE k + 1 \in S
  <2>1. SUFFICES ASSUME k + 1 <= Len(list) PROVE DOMAIN w[k + 1] = Ids(k + 1)
    OBVIOUS
  <2>2. k + 1 \in 1..Len(list) /\ (k + 1) - 1 = k /\ k <= Len(list)
    BY <1>1, <2>1
  <2>3. DOMAIN w[k] = Ids(k)
    BY <1>6, <2>2
  <2>4. DOMAIN w[k + 1] = IF ValidateAgentConfig(list[k + 1]) THEN DOMAIN w[k] \cup {list[k + 1].id} ELSE DOMAIN w[k]
    BY <1>4, <2>2
  <2>5. 1..(k + 1) = 1..k \cup {k + 1}
    OBVIOUS
  <2>6. Ids(k + 1) = IF ValidateAgentConfig(list[k + 1]) THEN Ids(k) \cup {list[k + 1].id} ELSE Ids(k)
    BY <2>5
  <2> QED
    BY <2>3, <2>4, <2>6
<1>7. \A k \in 0..Len(list) : DOMAIN w[k] = Ids(k)
  <2>1. Nat \subseteq S
    <3> HIDE DEF S
    <3> QED
      BY <1>5, <1>6, Induct
  <2> QED
    BY <1>1, <2>1
<1>8. DOMAIN new = {list[i].id : i \in valid}
  <2>1. Len(list) \in 0..Len(list)
    BY <1>1
  <2>2. valid = {j \in 1..Len(list) : ValidateAgentConfig(list[j])}
    BY <1>1
  <2> QED
    BY <1>2, <1>7, <2>1, <2>2
<1>9. ASSUME NEW i \in valid, \A j \in valid : list[j].id = list[i].id => i <= j
      PROVE  new[list[i].id] = list[i]
  <2>1. i \in 1..Len(list) /\ i - 1 \in 0..Len(list) /\ i \in 0..Len(list) /\ Len(list) \in 0..Len(list) /\ i <= Len(list)
        /\ ValidateAgentConfig(list[i])
    BY <1>1
  <2>2. list[i].id \notin Ids(i - 1)
    <3>1. SUFFICES ASSUME NEW j \in 1..(i - 1), ValidateAgentConfig(list[j]), list[j].id = list[i].id PROVE FALSE
      OBVIOUS
    <3>2. j \in valid /\ j < i
      BY <1>1, <2>1, <3>1
    <3> QED
      BY <1>9, <2>1, <3>1, <3>2
  <2>3. DOMAIN w[i - 1] = Ids(i - 1)
    BY <1>7, <2>1
  <2> HIDE DEF Ids
  <2>4. list[i].id \in DOMAIN w[i] /\ w[i][list[i].id] = list[i]
    BY <1>4, <2>1, <2>2, <2>3
  <2>5. \A id \in DOMAIN w[i] : w[Len(list)][id] = w[i][id]
    BY <1>2, <2>1, NoneRegistered, WalkGrows
  <2> QED
    BY <1>2, <2>4, <2>5
<1>10. new \in Registries
  BY <1>1, <1>2, <1>3
<1> QED
  BY <1>8, <1>9, <1>10

-----------------------------------------------------------------------------
(* The registry while it is read into; teams and flows.                      *)

OpTypes == [op : {"none", "load", "reload", "one", "register", "unregister"}, left : SUBSET Files, read : Seq(Agents),
            stage : {"idle", "reading", "loaded", "failed"}]

TeamIsSound(t) == \A i \in DOMAIN t.missions : \A d \in t.missions[i].deps : \E j \in DOMAIN t.missions : t.missions[j].id = d

FlowIsSound(f) ==
  /\ f.verdict \in {"valid", "refused"} => ParseProcess(SerializeProcess(f.parsed)) = f.parsed
  /\ f.verdict = "valid" => LET s == f.yaml.steps IN
       /\ \A i, j \in DOMAIN s : i # j => s[i].id # s[j].id /\ (s[i].key = s[j].key => s[i].key = "none")
       /\ f.parsed.is = "hierarchical" => \A i \in DOMAIN s : \A d \in s[i].deps : \E j \in DOMAIN s : s[j].id = d

\* What a caller has read are agents; what it has not read is left only while it reads.
DefInv ==
  /\ configFiles \in [Files -> Agents \cup {NoFile, Broken}]
  /\ agents \in Registries
  /\ ops \in [Callers -> OpTypes]
  /\ \A c \in Callers : ops[c].stage # "reading" => ops[c].left = {}
  /\ \A id \in DOMAIN teams : teams[id].id = id /\ TeamIsSound(teams[id])
  /\ FlowIsSound(flow)

\* No agents, teams or flows.
LEMMA DefInvInit == DefInit => DefInv
<1> SUFFICES ASSUME DefInit PROVE DefInv
  OBVIOUS
<1>1. <<>> \in Seq(Agents)
  OBVIOUS
<1>2. Idle \in OpTypes /\ Idle.left = {}
  BY <1>1 DEF Idle, OpTypes
<1>3. teams = <<>> /\ agents = <<>> /\ flow.verdict = "none"
  BY DEF DefInit
<1>4. DOMAIN teams = {} /\ agents \in Registries
  BY <1>3, NoneRegistered
<1> QED
  BY <1>2, <1>3, <1>4 DEF DefInit, DefInv, FlowIsSound

\* One caller's operation becomes another.
LEMMA OpsStep ==
  ASSUME DefInv, NEW c \in Callers, NEW op \in OpTypes, ops' = [ops EXCEPT ![c] = op], op.stage # "reading" => op.left = {}
  PROVE  /\ ops' \in [Callers -> OpTypes] /\ ops'[c] = op
         /\ \A d \in Callers : ops'[d].stage # "reading" => ops'[d].left = {}
         /\ \A d \in Callers : d # c => ops'[d] = ops[d]
  BY DEF DefInv

\* A call that ends at this step is this caller's.
LEMMA EndedIs ==
  ASSUME DefInv, NEW c \in Callers, \A d \in Callers : d # c => ops'[d] = ops[d], NEW d \in Callers, Ended(d)
  PROVE  d = c
  BY DEF Ended

\* What a step of the agents does, given what it does to the one caller.
LEMMA AgentStepOf ==
  ASSUME DefInv, NEW c \in Callers, \A d \in Callers : d # c => ops'[d] = ops[d],
         \A id \in DOMAIN agents \cap DOMAIN agents' : agents'[id] # agents[id] => Ended(c) /\ ops'[c].op = "reload",
         Ended(c) =>
           /\ ops[c].left # {} => agents' = agents
           /\ ops'[c].stage = "loaded" /\ ops'[c].op \in {"load", "one", "register"}
                => \A i \in DOMAIN ops'[c].read :
                     ops'[c].read[i].id \notin DOMAIN agents /\ agents'[ops'[c].read[i].id] = ops'[c].read[i]
           /\ ops'[c].op = "reload" /\ ops'[c].stage = "loaded" => agents' = RegisteredAll(<<>>, ops'[c].read),
         ops'[c].read \in Seq(Agents)
  PROVE  AgentStep
<1>1. ASSUME NEW d \in Callers, Ended(d) PROVE d = c
  BY <1>1, EndedIs
<1>2. Ended(c) /\ ops'[c].op = "reload" /\ ops'[c].stage = "loaded" =>
        LET read == ops'[c].read
            valid == {i \in DOMAIN read : ValidateAgentConfig(read[i])}
        IN /\ DOMAIN agents' = {read[i].id : i \in valid}
           /\ \A i \in valid : (\A j \in valid : read[j].id = read[i].id => i <= j) => agents'[read[i].id] = read[i]
  <2> DEFINE read == ops'[c].read
  <2>1. read \in Seq(Agents)
    OBVIOUS
  <2> HIDE DEF read
  <2>2. LET new == RegisteredAll(<<>>, read)
            valid == {i \in DOMAIN read : ValidateAgentConfig(read[i])}
        IN /\ DOMAIN new = {read[i].id : i \in valid}
           /\ \A i \in valid : (\A j \in valid : read[j].id = read[i].id => i <= j) => new[read[i].id] = read[i]
    BY <2>1, FromNothing
  <2> QED
    BY <2>2 DEF read
<1>3. \A id \in DOMAIN agents \cap DOMAIN agents' :
        agents'[id] # agents[id] => \E d \in Callers : Ended(d) /\ ops'[d].op = "reload"
  OBVIOUS
<1>4. ASSUME NEW d \in Callers, Ended(d)
      PROVE  /\ ops[d].left # {} => agents' = agents
             /\ ops'[d].stage = "loaded" /\ ops'[d].op \in {"load", "one", "register"}
                  => \A i \in DOMAIN ops'[d].read : LET a == ops'[d].read[i] IN a.id \notin DOMAIN agents /\ agents'[a.id] = a
             /\ ops'[d].op = "reload" /\ ops'[d].stage = "loaded" =>
                  LET read == ops'[d].read
                      valid == {i \in DOMAIN read : ValidateAgentConfig(read[i])}
                  IN /\ DOMAIN agents' = {read[i].id : i \in valid}
                     /\ \A i \in valid : (\A j \in valid : read[j].id = read[i].id => i <= j) => agents'[read[i].id] = read[i]
  <2>1. d = c
    BY <1>1, <1>4
  <2> QED
    BY <1>2, <1>4, <2>1
<1> QED
  BY <1>3, <1>4 DEF AgentStep

\* Each step of the agents.
LEMMA AgentSteps ==
  ASSUME DefInv, AgentNext
  PROVE  DefInv' /\ AgentStep
<1>s. UNCHANGED <<teams, flow>>
  BY DEF AgentNext, StartReading, ReadFile, LoadAll, ReloadAll, RegisterAgent, UnregisterAgent, EditFile
<1>t. (\A id \in DOMAIN teams : teams[id].id = id /\ TeamIsSound(teams[id]))' /\ FlowIsSound(flow)'
  BY <1>s DEF DefInv
<1>i. DefInv => /\ configFiles \in [Files -> Agents \cup {NoFile, Broken}] /\ agents \in Registries
                /\ ops \in [Callers -> OpTypes] /\ \A c \in Callers : ops[c].stage # "reading" => ops[c].left = {}
  BY DEF DefInv
<1>0. <<>> \in Seq(Agents)
  OBVIOUS
<1>1. ASSUME NEW c \in Callers, StartReading(c) PROVE DefInv' /\ AgentStep
  <2>1. PICK op \in {"load", "reload", "one"}, left \in SUBSET Files :
          ops' = [ops EXCEPT ![c] = [op |-> op, left |-> left, read |-> <<>>, stage |-> "reading"]]
    BY <1>1 DEF StartReading
  <2>2. [op |-> op, left |-> left, read |-> <<>>, stage |-> "reading"] \in OpTypes
    BY <1>0, <2>1 DEF OpTypes
  <2>3. UNCHANGED <<configFiles, agents>>
    BY <1>1 DEF StartReading
  <2>4. /\ ops' \in [Callers -> OpTypes] /\ ops'[c].stage = "reading" /\ ops'[c].read = <<>>
        /\ \A d \in Callers : ops'[d].stage # "reading" => ops'[d].left = {}
        /\ \A d \in Callers : d # c => ops'[d] = ops[d]
    BY <2>1, <2>2, OpsStep
  <2>5. AgentStep
    BY <1>0, <2>3, <2>4, AgentStepOf DEF Ended
  <2> QED
    BY <1>t, <1>i, <2>3, <2>4, <2>5 DEF DefInv
<1>2. ASSUME NEW c \in Callers, ReadFile(c) PROVE DefInv' /\ AgentStep
  <2>1. PICK f \in ops[c].left :
          ops' = [ops EXCEPT ![c] =
            IF configFiles[f] \in {NoFile, Broken} THEN [ops[c] EXCEPT !.left = {}, !.stage = "failed"]
            ELSE [ops[c] EXCEPT !.left = @ \ {f}, !.read = Append(@, configFiles[f])]]
    BY <1>2 DEF ReadFile
  <2>2. ops[c] \in OpTypes /\ ops[c].stage = "reading" /\ f \in Files /\ ops[c].read \in Seq(Agents)
    BY <1>2, <2>1, <1>i DEF ReadFile, OpTypes
  <2>3. UNCHANGED <<configFiles, agents>>
    BY <1>2 DEF ReadFile
  <2> DEFINE op == IF configFiles[f] \in {NoFile, Broken} THEN [ops[c] EXCEPT !.left = {}, !.stage = "failed"]
                   ELSE [ops[c] EXCEPT !.left = @ \ {f}, !.read = Append(@, configFiles[f])]
  <2>4. op \in OpTypes /\ (op.stage # "reading" => op.left = {}) /\ op.stage # "loaded" /\ op.read \in Seq(Agents)
    <3>1. CASE configFiles[f] \in {NoFile, Broken}
      <4>1. op = [ops[c] EXCEPT !.left = {}, !.stage = "failed"]
        BY <3>1
      <4> HIDE DEF op
      <4> QED
        BY <4>1, <2>2 DEF OpTypes
    <3>2. CASE configFiles[f] \notin {NoFile, Broken}
      <4>1. configFiles[f] \in Agents
        BY <1>i, <2>2, <3>2
      <4>2. Append(ops[c].read, configFiles[f]) \in Seq(Agents)
        BY <2>2, <4>1
      <4>3. op = [ops[c] EXCEPT !.left = @ \ {f}, !.read = Append(@, configFiles[f])]
        BY <3>2
      <4> HIDE DEF op
      <4> QED
        BY <4>2, <4>3, <2>2 DEF OpTypes
    <3> QED
      BY <3>1, <3>2
  <2>5. ops' = [ops EXCEPT ![c] = op]
    <3>1. CASE configFiles[f] \in {NoFile, Broken}
      BY <2>1, <3>1
    <3>2. CASE configFiles[f] \notin {NoFile, Broken}
      BY <2>1, <3>2
    <3> QED
      BY <3>1, <3>2
  <2> HIDE DEF op
  <2>6. /\ ops' \in [Callers -> OpTypes] /\ ops'[c] = op
        /\ \A d \in Callers : ops'[d].stage # "reading" => ops'[d].left = {}
        /\ \A d \in Callers : d # c => ops'[d] = ops[d]
    BY <2>4, <2>5, OpsStep
  <2>7. AgentStep
    BY <2>3, <2>4, <2>6, AgentStepOf
  <2> QED
    BY <1>t, <1>i, <2>3, <2>6, <2>7 DEF DefInv
<1>3. ASSUME NEW c \in Callers, LoadAll(c) PROVE DefInv' /\ AgentStep
  <2> DEFINE read == ops[c].read
             end == FirstRefused(agents, read)
             op == [ops[c] EXCEPT !.stage = IF end > Len(read) THEN "loaded" ELSE "failed"]
  <2>1. /\ ops[c] \in OpTypes /\ read \in Seq(Agents) /\ ops[c].left = {} /\ ops[c].stage = "reading"
        /\ ops[c].op \in {"load", "one"} /\ Len(read) \in Nat /\ DOMAIN read = 1..Len(read)
    BY <1>3, <1>i, LenProperties DEF LoadAll, OpTypes
  <2>2. agents' = RegisteredAll(agents, SubSeq(read, 1, end - 1)) /\ ops' = [ops EXCEPT ![c] = op] /\ UNCHANGED configFiles
    BY <1>3 DEF LoadAll
  <2>3. /\ op \in OpTypes /\ op.left = {} /\ op.read = read /\ op.op \in {"load", "one"}
        /\ (op.stage = "loaded" => end > Len(read)) /\ op.stage \in {"loaded", "failed"}
    <3> HIDE DEF end
    <3> QED
      BY <2>1 DEF OpTypes
  <2>4. agents \in Registries /\ end \in 1..(Len(read) + 1) /\ agents' \in Registries
    <3> HIDE DEF read
    <3> QED
      BY <2>1, <2>2, <1>i, FirstRefusedIs
  <2>5. \A id \in DOMAIN agents : id \in DOMAIN agents' /\ agents'[id] = agents[id]
    <3> HIDE DEF read, end
    <3>1. PICK w \in RegistryWalks(agents, read) : TRUE
      BY <2>1, <2>4, RegisteredAllIsWalk
    <3>2. 0 \in 0..Len(read) /\ end - 1 \in 0..Len(read) /\ 0 <= end - 1
      BY <2>1, <2>4
    <3>3. agents' = w[end - 1] /\ w[0] = agents
      BY <2>1, <2>2, <2>4, <3>2, WalkPasses DEF RegistryWalks
    <3>4. \A id \in DOMAIN w[0] : id \in DOMAIN w[end - 1] /\ w[end - 1][id] = w[0][id]
      BY <2>1, <2>4, <3>2, WalkGrows
    <3> QED
      BY <3>3, <3>4
  <2>6. end > Len(read) => \A i \in DOMAIN read : read[i].id \notin DOMAIN agents /\ agents'[read[i].id] = read[i]
    <3> HIDE DEF read
    <3> QED
      BY <2>1, <2>2, <2>4, AllAccepted
  <2> HIDE DEF op, end, read
  <2>7. /\ ops' \in [Callers -> OpTypes] /\ ops'[c] = op
        /\ \A d \in Callers : ops'[d].stage # "reading" => ops'[d].left = {}
        /\ \A d \in Callers : d # c => ops'[d] = ops[d]
    BY <2>2, <2>3, OpsStep
  <2>8. AgentStep
    <3>1. /\ op.read \in Seq(Agents) /\ op.op # "reload"
          /\ op.stage = "loaded" => \A i \in DOMAIN op.read : op.read[i].id \notin DOMAIN agents /\ agents'[op.read[i].id] = op.read[i]
      BY <2>1, <2>3, <2>6
    <3>2. ops[c].left = {}
      BY <2>1
    <3> QED
      BY <2>5, <2>7, <3>1, <3>2, AgentStepOf
  <2> QED
    BY <1>t, <1>i, <2>2, <2>4, <2>7, <2>8 DEF DefInv
<1>4. ASSUME NEW c \in Callers, ReloadAll(c) PROVE DefInv' /\ AgentStep
  <2> DEFINE read == ops[c].read
             op == [ops[c] EXCEPT !.stage = "loaded"]
  <2>1. /\ ops[c] \in OpTypes /\ read \in Seq(Agents) /\ ops[c].left = {} /\ ops[c].stage = "reading" /\ ops[c].op = "reload"
    BY <1>4, <1>i DEF ReloadAll, OpTypes
  <2>2. agents' = RegisteredAll(<<>>, read) /\ ops' = [ops EXCEPT ![c] = op] /\ UNCHANGED configFiles
    BY <1>4 DEF ReloadAll
  <2>3. op \in OpTypes /\ op.left = {} /\ op.read = read /\ op.op = "reload" /\ op.stage = "loaded"
    BY <2>1 DEF OpTypes
  <2>4. agents' \in Registries
    BY <2>1, <2>2, FromNothing
  <2>5. op # ops[c]
    BY <2>1, <2>3
  <2> HIDE DEF op, read
  <2>6. /\ ops' \in [Callers -> OpTypes] /\ ops'[c] = op
        /\ \A d \in Callers : ops'[d].stage # "reading" => ops'[d].left = {}
        /\ \A d \in Callers : d # c => ops'[d] = ops[d]
    BY <2>2, <2>3, OpsStep
  <2>7. Ended(c)
    BY <2>3, <2>5, <2>6 DEF Ended
  <2>8. AgentStep
    BY <2>1, <2>2, <2>3, <2>6, <2>7, AgentStepOf
  <2> QED
    BY <1>t, <1>i, <2>2, <2>4, <2>6, <2>8 DEF DefInv
<1>5. ASSUME NEW c \in Callers, RegisterAgent(c) PROVE DefInv' /\ AgentStep
  <2>1. PICK a \in Agents :
          /\ agents' = Registered(agents, a)
          /\ ops' = [ops EXCEPT ![c] = [op |-> "register", left |-> {}, read |-> <<a>>,
                                          stage |-> IF Accepted(agents, a) THEN "loaded" ELSE "failed"]]
    BY <1>5 DEF RegisterAgent
  <2> DEFINE op == [op |-> "register", left |-> {}, read |-> <<a>>, stage |-> IF Accepted(agents, a) THEN "loaded" ELSE "failed"]
  <2>2. <<a>> \in Seq(Agents) /\ DOMAIN <<a>> = {1} /\ <<a>>[1] = a
    BY SingleSeq
  <2>3. op \in OpTypes /\ op.left = {} /\ op.read = <<a>> /\ op.op = "register" /\ (op.stage = "loaded" => Accepted(agents, a))
    BY <2>2 DEF OpTypes
  <2>4. agents \in Registries /\ agents' \in Registries /\ UNCHANGED configFiles
    BY <1>5, <1>i, <2>1, RegisteredIs DEF RegisterAgent
  <2>5. \A id \in DOMAIN agents : id \in DOMAIN agents' /\ agents'[id] = agents[id]
    BY <2>1, <2>4, RegisteredKeeps
  <2>6. Accepted(agents, a) => a.id \notin DOMAIN agents /\ agents'[a.id] = a
    BY <2>1, <2>4, RegisteredTakes DEF Accepted
  <2>7. ops' = [ops EXCEPT ![c] = op]
    BY <2>1
  <2>8. ops[c].left = {}
    BY <1>5, <1>i DEF RegisterAgent
  <2> HIDE DEF op
  <2>9. /\ ops' \in [Callers -> OpTypes] /\ ops'[c] = op
        /\ \A d \in Callers : ops'[d].stage # "reading" => ops'[d].left = {}
        /\ \A d \in Callers : d # c => ops'[d] = ops[d]
    BY <2>3, <2>7, OpsStep
  <2>10. AgentStep
    <3>1. op.read \in Seq(Agents) /\ (op.stage = "loaded" =>
             \A i \in DOMAIN op.read : op.read[i].id \notin DOMAIN agents /\ agents'[op.read[i].id] = op.read[i])
      BY <2>2, <2>3, <2>6
    <3> QED
      BY <2>3, <2>5, <2>8, <2>9, <3>1, AgentStepOf
  <2> QED
    BY <1>t, <1>i, <2>4, <2>9, <2>10 DEF DefInv
<1>6. ASSUME NEW c \in Callers, UnregisterAgent(c) PROVE DefInv' /\ AgentStep
  <2>1. PICK id \in ValidIds :
          /\ agents' = [i \in DOMAIN agents \ {id} |-> agents[i]]
          /\ ops' = [ops EXCEPT ![c] = [op |-> "unregister", left |-> {}, read |-> <<>>,
                                          stage |-> IF id \in DOMAIN agents THEN "loaded" ELSE "failed"]]
    BY <1>6 DEF UnregisterAgent
  <2> DEFINE op == [op |-> "unregister", left |-> {}, read |-> <<>>, stage |-> IF id \in DOMAIN agents THEN "loaded" ELSE "failed"]
  <2>2. op \in OpTypes /\ op.left = {} /\ op.read \in Seq(Agents) /\ op.op = "unregister"
    BY <1>0 DEF OpTypes
  <2>3. agents \in Registries /\ UNCHANGED configFiles
    BY <1>6, <1>i DEF UnregisterAgent
  <2>4. agents' \in Registries
    <3>1. DOMAIN agents \in SUBSET ValidIds /\ \A i \in DOMAIN agents : agents[i] \in Agents
      BY <2>3 DEF Registries
    <3>2. agents' \in [DOMAIN agents \ {id} -> Agents]
      BY <2>1, <3>1
    <3> QED
      BY <3>1, <3>2 DEF Registries
  <2>5. \A x \in DOMAIN agents' : x \in DOMAIN agents /\ agents'[x] = agents[x]
    BY <2>1
  <2>6. ops[c].left = {}
    BY <1>6, <1>i DEF UnregisterAgent
  <2>7. ops' = [ops EXCEPT ![c] = op]
    BY <2>1
  <2> HIDE DEF op
  <2>8. /\ ops' \in [Callers -> OpTypes] /\ ops'[c] = op
        /\ \A d \in Callers : ops'[d].stage # "reading" => ops'[d].left = {}
        /\ \A d \in Callers : d # c => ops'[d] = ops[d]
    BY <2>2, <2>7, OpsStep
  <2>9. AgentStep
    BY <2>2, <2>5, <2>6, <2>8, AgentStepOf
  <2> QED
    BY <1>t, <1>i, <2>3, <2>4, <2>8, <2>9 DEF DefInv
<1>7. ASSUME EditFile PROVE DefInv' /\ AgentStep
  <2>1. configFiles' \in [Files -> Agents \cup {NoFile, Broken}] /\ UNCHANGED <<agents, ops>>
    BY <1>7, <1>i DEF EditFile
  <2>2. AgentStep
    BY <2>1 DEF AgentStep, Ended
  <2> QED
    BY <1>t, <1>i, <2>1, <2>2 DEF DefInv
<1> QED
  BY <1>1, <1>2, <1>3, <1>4, <1>5, <1>6, <1>7 DEF AgentNext

\* A team keeps its id for good; what is registered and what is told valid is sound.
LEMMA TeamSteps ==
  ASSUME DefInv, AddTeam \/ LoadFlow
  PROVE  DefInv' /\ (\A id \in DOMAIN teams : id \in DOMAIN teams' /\ teams'[id] = teams[id]) /\ UNCHANGED <<agents, ops>>
<1>1. UNCHANGED <<configFiles, agents, ops>>
  BY DEF AddTeam, RegisterTeam, LoadFlow
<1>2. CASE AddTeam
  <2>1. PICK t \in TeamChoices : ValidateTeam(t) /\ t.id \notin DOMAIN teams /\ teams' = Inserted(teams, t) /\ UNCHANGED flow
    BY <1>2 DEF AddTeam, RegisterTeam
  <2>2. TeamIsSound(t)
    <3>1. \A i \in DOMAIN t.missions : t.missions[i].deps \subseteq Range(Field(t.missions, LAMBDA m : m.id))
      BY <2>1 DEF ValidateTeam
    <3>2. Range(Field(t.missions, LAMBDA m : m.id)) = {t.missions[j].id : j \in DOMAIN t.missions}
      BY DEF Range, Field
    <3> QED
      BY <3>1, <3>2 DEF TeamIsSound
  <2>3. DOMAIN teams' = DOMAIN teams \cup {t.id} /\ \A id \in DOMAIN teams' : teams'[id] = IF id = t.id THEN t ELSE teams[id]
    BY <2>1 DEF Inserted
  <2>4. \A id \in DOMAIN teams' : teams'[id].id = id /\ TeamIsSound(teams'[id])
    BY <2>2, <2>3 DEF DefInv
  <2>5. \A id \in DOMAIN teams : id \in DOMAIN teams' /\ teams'[id] = teams[id]
    BY <2>1, <2>3
  <2> QED
    BY <1>1, <2>1, <2>4, <2>5 DEF DefInv
<1>3. CASE LoadFlow
  <2>1. PICK y \in FlowChoices : flow' =
          [yaml |-> y, parsed |-> ParseProcess(y),
           verdict |-> IF ParseProcess(y).is = "error" THEN "unread"
                       ELSE IF ValidateStatic(y, ParseProcess(y)) THEN "valid" ELSE "refused"]
    BY <1>3 DEF LoadFlow
  <2> DEFINE p == ParseProcess(y)
             s == y.steps
  <2>2. p.is # "error" => ParseProcess(SerializeProcess(p)) = p
    BY DEF ParseProcess, SerializeProcess
  <2>3. ASSUME ValidateStatic(y, p)
        PROVE  /\ \A i, j \in DOMAIN s : i # j => s[i].id # s[j].id /\ (s[i].key = s[j].key => s[i].key = "none")
               /\ p.is = "hierarchical" => \A i \in DOMAIN s : \A d \in s[i].deps : \E j \in DOMAIN s : s[j].id = d
    <3> DEFINE Ids == Field(s, LAMBDA x : x.id)
    <3>1. /\ Distinct(Ids) /\ (p.is = "hierarchical" => \A i \in DOMAIN s : s[i].deps \subseteq Range(Ids))
          /\ \A i, j \in DOMAIN s : i # j /\ s[i].key = s[j].key => s[i].key = "none"
      <4> HIDE DEF p
      <4> QED
        BY <2>3 DEF ValidateStatic
    <3>2. DOMAIN Ids = DOMAIN s /\ Range(Ids) = {s[j].id : j \in DOMAIN s} /\ \A i \in DOMAIN s : Ids[i] = s[i].id
      BY DEF Range, Field
    <3>3. \A i, j \in DOMAIN s : i # j => s[i].id # s[j].id
      <4> HIDE DEF Ids
      <4> QED
        BY <3>1, <3>2 DEF Distinct
    <3> HIDE DEF p, Ids
    <3> QED
      BY <3>1, <3>2, <3>3
  <2>4. flow'.yaml = y /\ flow'.parsed = p
        /\ flow'.verdict = IF p.is = "error" THEN "unread" ELSE IF ValidateStatic(y, p) THEN "valid" ELSE "refused"
    <3> HIDE DEF p
    <3> QED
      BY <2>1 DEF p
  <2> HIDE DEF p
  <2>5. FlowIsSound(flow')
    BY <2>2, <2>3, <2>4 DEF FlowIsSound
  <2>6. UNCHANGED teams
    BY <1>3 DEF LoadFlow
  <2> QED
    BY <1>1, <2>5, <2>6 DEF DefInv
<1> QED
  BY <1>2, <1>3

\* The claims of definitions and registries are kept at every step.
LEMMA DefInvStep == DefInv /\ [DefNext]_defVars => DefInv' /\ [AgentStep /\ TeamStep]_defVars
<1> SUFFICES ASSUME DefInv, [DefNext]_defVars PROVE DefInv' /\ [AgentStep /\ TeamStep]_defVars
  OBVIOUS
<1>1. CASE UNCHANGED defVars
  BY <1>1 DEF defVars, DefInv
<1>2. ASSUME DefInv', \A id \in DOMAIN teams : id \in DOMAIN teams' /\ teams'[id] = teams[id] PROVE TeamStep
  BY <1>2 DEF DefInv, TeamStep, TeamIsSound, FlowIsSound
<1>3. CASE AgentNext
  <2>1. UNCHANGED teams
    BY <1>3 DEF AgentNext, StartReading, ReadFile, LoadAll, ReloadAll, RegisterAgent, UnregisterAgent, EditFile
  <2>2. DefInv' /\ AgentStep
    BY <1>3, AgentSteps
  <2>3. TeamStep
    BY <1>2, <2>1, <2>2
  <2> QED
    BY <2>2, <2>3
<1>4. CASE AddTeam \/ LoadFlow
  <2>1. /\ DefInv' /\ UNCHANGED <<agents, ops>>
        /\ \A id \in DOMAIN teams : id \in DOMAIN teams' /\ teams'[id] = teams[id]
    BY <1>4, TeamSteps
  <2>2. TeamStep
    BY <1>2, <2>1
  <2>3. AgentStep
    BY <2>1 DEF AgentStep, Ended
  <2> QED
    BY <2>1, <2>2, <2>3
<1> QED
  BY <1>1, <1>3, <1>4 DEF DefNext

\* Registries, teams and flows, for any files, agents, teams and callers: an agent once
\* registered stays until it is unregistered or a reload replaces all; what a call was told Ok
\* for is in the registry; a reload leaves the first valid agent of each id it read and nothing
\* before it; teams keep their ids; a valid flow's steps can be told apart.
THEOREM DefinitionsAreKept == DefSpec => DefinitionsKept
<1>1. DefInit => DefInv
  BY DefInvInit
<1>2. DefInv /\ [DefNext]_defVars => DefInv' /\ [AgentStep /\ TeamStep]_defVars
  BY DefInvStep
<1> QED
  BY <1>1, <1>2, PTL DEF DefSpec, DefinitionsKept
=============================================================================
