------------------------------ MODULE Definitions ------------------------------
(***************************************************************************)
(* What the tavern is configured with: agents (hero/: YAML files read from *)
(* a directory into a registry behind a lock, while the directory and the  *)
(* registry change), teams (Team::validate, TeamRegistry) and workflows    *)
(* (their two YAML keys of the process, validate_static).                  *)
(***************************************************************************)
EXTENDS Integers, Sequences, SequencesExt, FiniteSets

CONSTANTS Callers, Files,
          Agents,       \* [id, blank, temperature in tenths (-1: NaN), turns (-1: none)]
          TeamChoices,  \* [id, roles, missions, process, manager]
          FlowChoices,  \* a workflow's YAML: [id, steps, inputs, outputs, process, manager]
          ValidIds, MaxAgentTurns, MaxSteps, MaxTasks, MaxFields, MaxEdits, MaxCalls

VARIABLES configFiles, \* the directory
          agents,      \* AgentRegistry
          ops,         \* each caller's [op, left, read, stage]
          teams,       \* TeamRegistry
          flow,        \* the workflow last loaded: [yaml, parsed, verdict]
          edits, made \* how many edits of the directory, and calls

defVars == <<configFiles, agents, ops, teams, flow, edits, made>>

\* A file that is not there, or does not parse.
NoFile == [id |-> "absent", blank |-> {}, temperature |-> 0, turns |-> 0]
Broken == [id |-> "broken", blank |-> {}, temperature |-> 0, turns |-> 0]
Idle == [op |-> "none", left |-> {}, read |-> <<>>, stage |-> "idle"]
Distinct(s) == \A i, j \in DOMAIN s : i # j => s[i] # s[j]
Field(s, f(_)) == [i \in DOMAIN s |-> f(s[i])]
Inserted(reg, x) == [i \in DOMAIN reg \cup {x.id} |-> IF i = x.id THEN x ELSE reg[i]]

-----------------------------------------------------------------------------
(* Agents.                                                                   *)

\* NaN is neither below 0.0 nor above 2.0.
ValidateAgentConfig(a) ==
    /\ a.id \in ValidIds
    /\ a.blank = {}   \* of name, model.provider, model.name, instructions
    /\ a.temperature = -1 \/ a.temperature \in 0..20
    /\ a.turns = -1 \/ a.turns \in 1..MaxAgentTurns

Accepted(reg, a) == ValidateAgentConfig(a) /\ a.id \notin DOMAIN reg
Registered(reg, a) == IF Accepted(reg, a) THEN Inserted(reg, a) ELSE reg
RegisteredAll(reg, list) == FoldLeft(Registered, reg, list)

\* The first of the list that register refuses, or one past its end.
FirstRefused(reg, list) ==
    LET refused == {i \in DOMAIN list : ~Accepted(RegisteredAll(reg, SubSeq(list, 1, i - 1)), list[i])}
    IN IF refused = {} THEN Len(list) + 1 ELSE CHOOSE i \in refused : \A j \in refused : i <= j

\* load_from_dir and reload_from_dir list the directory; load_agent has one path.
StartReading(c) ==
    /\ ops[c].stage # "reading" /\ made < MaxCalls /\ made' = made + 1
    /\ \/ \E op \in {"load", "reload"} : ops' = [ops EXCEPT ![c] =
              [op |-> op, left |-> {f \in Files : configFiles[f] # NoFile}, read |-> <<>>, stage |-> "reading"]]
       \/ \E f \in Files : ops' = [ops EXCEPT ![c] = [op |-> "one", left |-> {f}, read |-> <<>>, stage |-> "reading"]]
    /\ UNCHANGED <<configFiles, agents, teams, flow, edits>>

\* A file that does not parse, or is gone, ends the call before the registry is locked.
ReadFile(c) ==
    /\ ops[c].stage = "reading"
    /\ \E f \in ops[c].left :
        ops' = [ops EXCEPT ![c] =
            IF configFiles[f] \in {NoFile, Broken} THEN [ops[c] EXCEPT !.left = {}, !.stage = "failed"]
            ELSE [ops[c] EXCEPT !.left = @ \ {f}, !.read = Append(@, configFiles[f])]]
    /\ UNCHANGED <<configFiles, agents, teams, flow, edits, made>>

\* Under the write lock: a load stops at the first refusal and keeps what it registered.
LoadAll(c) ==
    /\ ops[c].stage = "reading" /\ ops[c].left = {} /\ ops[c].op \in {"load", "one"}
    /\ LET read == ops[c].read
           end == FirstRefused(agents, read)
       IN /\ agents' = RegisteredAll(agents, SubSeq(read, 1, end - 1))
          /\ ops' = [ops EXCEPT ![c].stage = IF end > Len(read) THEN "loaded" ELSE "failed"]
    /\ UNCHANGED <<configFiles, teams, flow, edits, made>>

ReloadAll_KeepsOld(c) ==
    /\ ops[c].stage = "reading" /\ ops[c].left = {} /\ ops[c].op = "reload"
    /\ agents' = RegisteredAll(agents, ops[c].read)
    /\ ops' = [ops EXCEPT ![c].stage = "loaded"]
    /\ UNCHANGED <<configFiles, teams, flow, edits, made>>

\* A reload clears first, and skips what is refused with a warning.
ReloadAll(c) ==
    /\ ops[c].stage = "reading" /\ ops[c].left = {} /\ ops[c].op = "reload"
    /\ agents' = RegisteredAll(<<>>, ops[c].read)
    /\ ops' = [ops EXCEPT ![c].stage = "loaded"]
    /\ UNCHANGED <<configFiles, teams, flow, edits, made>>

RegisterAgent(c) ==
    /\ ops[c].stage # "reading" /\ made < MaxCalls /\ made' = made + 1
    /\ \E a \in Agents :
        /\ agents' = Registered(agents, a)
        /\ ops' = [ops EXCEPT ![c] = [op |-> "register", left |-> {}, read |-> <<a>>,
                                          stage |-> IF Accepted(agents, a) THEN "loaded" ELSE "failed"]]
    /\ UNCHANGED <<configFiles, teams, flow, edits>>

UnregisterAgent(c) ==
    /\ ops[c].stage # "reading" /\ made < MaxCalls /\ made' = made + 1
    /\ \E id \in ValidIds :
        /\ agents' = [i \in DOMAIN agents \ {id} |-> agents[i]]
        /\ ops' = [ops EXCEPT ![c] = [op |-> "unregister", left |-> {}, read |-> <<>>,
                                          stage |-> IF id \in DOMAIN agents THEN "loaded" ELSE "failed"]]
    /\ UNCHANGED <<configFiles, teams, flow, edits>>

\* The operator writes, breaks or deletes a file.
EditFile ==
    /\ edits < MaxEdits
    /\ \E f \in Files, a \in Agents \cup {NoFile, Broken} : configFiles' = [configFiles EXCEPT ![f] = a]
    /\ edits' = edits + 1
    /\ UNCHANGED <<agents, ops, teams, flow, made>>

-----------------------------------------------------------------------------
(* Teams.                                                                    *)

\* A mission's role, its or_depends_on and cycles are not looked at.
ValidateTeam(t) ==
    LET RoleIds == Field(t.roles, LAMBDA r : r.id)
        MissionIds == Field(t.missions, LAMBDA m : m.id)
    IN /\ t.id \in ValidIds
       /\ t.roles # <<>> /\ Distinct(RoleIds) /\ \A i \in DOMAIN t.roles : t.roles[i].agent # "blank"
       /\ Distinct(MissionIds)
       /\ \A i \in DOMAIN t.missions : t.missions[i].deps \subseteq Range(MissionIds)
       /\ t.process = "hierarchical" => t.manager \in Range(RoleIds)

RegisterTeam(t) == ValidateTeam(t) /\ t.id \notin DOMAIN teams /\ teams' = Inserted(teams, t)

AddTeam == \E t \in TeamChoices : RegisterTeam(t) /\ UNCHANGED <<configFiles, agents, ops, flow, edits, made>>

-----------------------------------------------------------------------------
(* Workflows: two YAML keys, one Process.                                    *)

ParseProcess(y) ==
    CASE y.process \in {"none", "sequential"} -> [is |-> "sequential", manager |-> "none"]
      [] y.process = "hierarchical" /\ y.manager # "none" -> [is |-> "hierarchical", manager |-> y.manager]
      [] OTHER -> [is |-> "error", manager |-> "none"]

SerializeProcess(p) == [process |-> p.is, manager |-> p.manager]

\* Dependencies are looked at in the hierarchical process only.
ValidateStatic(y, p) ==
    LET Ids == Field(y.steps, LAMBDA s : s.id)
    IN /\ y.id \in ValidIds
       /\ y.steps # <<>> /\ Len(y.steps) <= (IF p.is = "sequential" THEN MaxSteps ELSE MaxTasks)
       /\ \A s \in {y.inputs, y.outputs} : Len(s) <= MaxFields /\ "" \notin Range(s)
       /\ \A i \in DOMAIN y.steps : ~y.steps[i].long   \* an id, agent_id or task over its length
       /\ Distinct(Ids)
       /\ p.is = "hierarchical" =>
            p.manager \in ValidIds /\ \A i \in DOMAIN y.steps : y.steps[i].deps \subseteq Range(Ids)
       /\ \A i, j \in DOMAIN y.steps : i # j /\ y.steps[i].key = y.steps[j].key => y.steps[i].key = "none"
       /\ \A i \in DOMAIN y.steps : y.steps[i].key # ""

LoadFlow ==
    /\ \E y \in FlowChoices :
        LET p == ParseProcess(y) IN
        flow' = [yaml |-> y, parsed |-> p,
                 verdict |-> IF p.is = "error" THEN "unread" ELSE IF ValidateStatic(y, p) THEN "valid" ELSE "refused"]
    /\ UNCHANGED <<configFiles, agents, ops, teams, edits, made>>

-----------------------------------------------------------------------------

DefInit ==
    /\ configFiles \in [Files -> Agents \cup {NoFile}]
    /\ agents = <<>> /\ ops = [c \in Callers |-> Idle]
    /\ teams = <<>> /\ flow = [verdict |-> "none"] /\ edits = 0 /\ made = 0

AgentNext ==
    \/ \E c \in Callers : StartReading(c) \/ ReadFile(c) \/ LoadAll(c) \/ ReloadAll(c) \/ RegisterAgent(c) \/ UnregisterAgent(c)
    \/ EditFile

DefNext == AgentNext \/ AddTeam \/ LoadFlow

DefSpec == DefInit /\ [][DefNext]_defVars

-----------------------------------------------------------------------------

Ended(c) == ops'[c].stage \in {"loaded", "failed"} /\ ops[c] # ops'[c]

(* An agent once registered is that agent until it is unregistered or a reload replaces  *)
(* all: two callers that register one id cannot both be told Ok. What a call was told Ok *)
(* for is in the registry, a call that could not read a file leaves it alone, and a      *)
(* reload leaves the first valid agent of each id among what it read: nothing before it. *)
AgentStep ==
    /\ \A id \in DOMAIN agents \cap DOMAIN agents' :
        agents'[id] # agents[id] => \E c \in Callers : Ended(c) /\ ops'[c].op = "reload"
    /\ \A c \in Callers : Ended(c) =>
        /\ ops[c].left # {} => agents' = agents
        /\ ops'[c].stage = "loaded" /\ ops'[c].op \in {"load", "one", "register"}
             => \A i \in DOMAIN ops'[c].read : LET a == ops'[c].read[i] IN a.id \notin DOMAIN agents /\ agents'[a.id] = a
        /\ ops'[c].op = "reload" /\ ops'[c].stage = "loaded" =>
             LET read == ops'[c].read
                 valid == {i \in DOMAIN read : ValidateAgentConfig(read[i])}
             IN /\ DOMAIN agents' = {read[i].id : i \in valid}
                /\ \A i \in valid : (\A j \in valid : read[j].id = read[i].id => i <= j) => agents'[read[i].id] = read[i]

(* A team keeps its id for good, and its dependencies and manager exist. A workflow that *)
(* is told valid has steps, keys and hierarchical dependencies that can be told apart,   *)
(* and the process it was read with is the one its own YAML is read with again.          *)
TeamStep ==
    /\ \A id \in DOMAIN teams : id \in DOMAIN teams' /\ teams'[id] = teams[id]
    /\ \A id \in DOMAIN teams' : LET t == teams'[id] IN
        /\ t.id = id
        /\ \A i \in DOMAIN t.missions : \A d \in t.missions[i].deps : \E j \in DOMAIN t.missions : t.missions[j].id = d
    /\ flow'.verdict \in {"valid", "refused"} => ParseProcess(SerializeProcess(flow'.parsed)) = flow'.parsed
    /\ flow'.verdict = "valid" => LET s == flow'.yaml.steps IN
        /\ \A i, j \in DOMAIN s : i # j => s[i].id # s[j].id /\ (s[i].key = s[j].key => s[i].key = "none")
        /\ flow'.parsed.is = "hierarchical" => \A i \in DOMAIN s : \A d \in s[i].deps : \E j \in DOMAIN s : s[j].id = d

DefinitionsKept == [][AgentStep /\ TeamStep]_defVars

-----------------------------------------------------------------------------
(* What the code says of itself and does not do; no run checks these.        *)

(* validator.rs:27: the temperature is in [0.0, 2.0]. *)
TemperatureInRange == \A id \in DOMAIN agents : agents[id].temperature \in 0..20

(* loader.rs:18-19: what a load read before its first error is kept. *)
LoadKeepsEarlier == \A c \in Callers : ops[c].stage = "failed" /\ ops[c].op = "load" =>
    \A i \in DOMAIN ops[c].read : ValidateAgentConfig(ops[c].read[i]) => ops[c].read[i].id \in DOMAIN agents

Runnable(items) ==
    LET Done[n \in 0..Len(items)] ==
            IF n = 0 THEN {} ELSE {i \in DOMAIN items : \A d \in items[i].deps : \E j \in Done[n - 1] : items[j].id = d}
    IN Done[Len(items)] = DOMAIN items

(* definition.rs:68: a sequential team's missions are acyclic once it is deployed, which *)
(* calls validate only; workflow.rs:188: a valid workflow's dependencies exist, acyclic. *)
TeamsAreAcyclic == \A id \in DOMAIN teams : teams[id].process = "sequential" => Runnable(teams[id].missions)
FlowsAreAcyclic == flow.verdict = "valid" /\ flow.parsed.is = "sequential" => Runnable(flow.yaml.steps)
===============================================================================
