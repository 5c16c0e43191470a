------------------------------- MODULE MCTavern -------------------------------
(***************************************************************************)
(* tavern-comp: a squad, a workflow's log and the executor's sessions,     *)
(* each on its own: a behaviour is one of the part chosen at the start.    *)
(***************************************************************************)
EXTENDS SquadEngine, WorkflowLog, RoleSessions

VARIABLE part

all == <<part, squadVars, workflowVars, roleVars>>

T(api, inputs, process, deps, orDeps, waits, breaks, retried, planned, permits_) ==
    [api |-> api, inputs |-> inputs, process |-> process, needs |-> deps, needsOne |-> orDeps,
     waits |-> waits, breaks |-> breaks, retried |-> retried, planned |-> planned, permits |-> permits_]
MCMissions == {"a", "b", "c"}
Join == [m \in MCMissions |-> IF m = "c" THEN {"a", "b"} ELSE {}]
Free == [m \in MCMissions |-> {}]
Cycle == [m \in MCMissions |-> CASE m = "b" -> {"c"} [] m = "c" -> {"b"} [] OTHER -> {}]
\* A join with a signal and a retry; an or-join with inputs and a breakpoint; a cycle; a
\* planned team with one permit; a manager.
MCTeams == { T("run", FALSE, "sequential", Join, Free, {"b"}, {}, {"a"}, FALSE, 2),
             T("run_stream", TRUE, "sequential", Free, Join, {}, {"a"}, {}, FALSE, 2),
             T("run", FALSE, "sequential", Cycle, Free, {}, {}, {}, FALSE, 2),
             T("gateway", FALSE, "sequential", Free, Free, {}, {}, {"c"}, TRUE, 1),
             T("gateway", FALSE, "hierarchical", Join, Free, {"a"}, {"b"}, {}, FALSE, 2) }
MCPlans == {Free, Join, Cycle}

\* A part that is not chosen rests in one of its initial states.
SquadRests == SquadInit /\ team = CHOOSE t \in Teams : TRUE
WorkflowRests == WorkflowInit /\ sql = FALSE

TavernInit ==
    \/ part = "squad" /\ SquadInit /\ WorkflowRests /\ RoleInit
    \/ part = "log" /\ SquadRests /\ WorkflowInit /\ RoleInit
    \/ part = "sessions" /\ SquadRests /\ WorkflowRests /\ RoleInit

TavernNext ==
    \/ part = "squad" /\ SquadNext /\ UNCHANGED <<part, workflowVars, roleVars>>
    \/ part = "log" /\ WorkflowNext /\ UNCHANGED <<part, squadVars, roleVars>>
    \/ part = "sessions" /\ RoleNext /\ UNCHANGED <<part, squadVars, workflowVars>>

\* A part that rests has no fair step enabled.
TavernSpec == TavernInit /\ [][TavernNext]_all /\ SquadFairness /\ RoleFairness

\* What is begun comes to an end: the runs of a squad, and the calls on the executor's sessions.
WorkEnds == RunReturns /\ CallsEnd
==============================================================================
