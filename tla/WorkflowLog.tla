----------------------------- MODULE WorkflowLog -----------------------------
(***************************************************************************)
(* The event log of one workflow instance: WorkflowEvents appended to an   *)
(* EventStore, folded by InstanceState::apply, read again by the replayer, *)
(* and in the SQL stores mirrored in a status column that is written by a  *)
(* second statement behind the event.                                      *)
(*                                                                         *)
(* The workflow interpreter that emits the events is not in the source: it *)
(* is modelled from what apply expects (external).  Abstractions: times    *)
(* are positions in the log; contexts, outputs and errors are left out;    *)
(* the audit events (LLM, tool, squad, external) are two; the snapshots,    *)
(* which nothing calls for, are left out.                                  *)
(***************************************************************************)
EXTENDS Naturals, Sequences, FiniteSets, SequencesExt

CONSTANTS Steps,       \* step ids
          MaxEvents,   \* bound: events of the instance
          MaxFaults    \* bound: statements that fail, and crashes between two statements

VARIABLES sql,        \* the store is SqliteEventStore or PostgreSQLEventStore
          events,     \* workflow_events of the instance
          column,     \* workflow_instances.status; "" while there is no row
          pending,    \* the status the second statement of an append is about to write
          faults

workflowVars == <<sql, events, column, pending, faults>>

NoStep == "-"

ASSUME WorkflowAssumption == MaxEvents \in Nat /\ MaxFaults \in Nat /\ NoStep \notin Steps

Event(type, step) == [type |-> type, step |-> step, flag |-> FALSE]
Flagged(type, step) == [type |-> type, step |-> step, flag |-> TRUE]

StepEvents == {"StepScheduled", "StepStarted", "StepCompleted", "StepFailed", "StepRetryScheduled",
               "SignalWaitStarted", "LLMCallStarted"}
Lifecycle == {"InstanceCreated", "InstanceStarted", "WorkflowCompleted", "WorkflowFailed"}

\* flag: StepFailed's will_retry, SignalReceived's action Reject.  A signal and a retry
\* timer are named after their step.
WorkflowEvents ==
    {Event(t, s) : t \in StepEvents \cup {"BreakpointHit", "SignalReceived", "TimerFired"}, s \in Steps}
    \cup {Flagged("StepFailed", s) : s \in Steps} \cup {Flagged("SignalReceived", s) : s \in Steps}
    \cup {Event(t, NoStep) : t \in Lifecycle \cup {"CancelRequested", "External"}}

-----------------------------------------------------------------------------
(* InstanceState::apply.                                                    *)

InstanceDefault ==
    [status |-> "pending", signal |-> NoStep, scheduled |-> {}, running |-> {}, completed |-> {},
     blocked |-> {}, results |-> [s \in Steps |-> "none"]]

ApplyStep(st, e) ==
    CASE e.type = "StepScheduled" -> [st EXCEPT !.scheduled = @ \cup {e.step}]
      [] e.type = "StepRetryScheduled" -> [st EXCEPT !.scheduled = @ \cup {e.step}]
      [] e.type = "StepStarted" ->
            [st EXCEPT !.scheduled = @ \ {e.step}, !.running = @ \cup {e.step},
                       !.results[e.step] = IF @ = "none" THEN "Running" ELSE @]
      [] e.type = "StepCompleted" ->
            [st EXCEPT !.running = @ \ {e.step}, !.completed = @ \cup {e.step},
                       !.results[e.step] = "Completed"]
      [] e.type = "StepFailed" ->
            [st EXCEPT !.running = @ \ {e.step}, !.results[e.step] = "Failed",
                       !.status = IF e.flag THEN @ ELSE "failed"]
      [] e.type = "SignalWaitStarted" ->
            [st EXCEPT !.blocked = @ \cup {e.step}, !.status = "waiting_for_signal", !.signal = e.step]
      [] OTHER -> st

\* A signal: a rejection fails what is blocked, any other wakes the instance that waits for it.
ApplySignal(st, e) ==
    IF e.flag
    THEN [st EXCEPT !.blocked = {}, !.status = "failed",
                    !.results = [s \in Steps |-> IF s \in st.blocked /\ @[s] # "none"
                                                 THEN "Failed" ELSE @[s]]]
    ELSE IF st.status = "waiting_for_signal" /\ st.signal = e.step
         THEN [st EXCEPT !.blocked = {}, !.status = "running"]
         ELSE st

ApplyEvent(st, e) ==
    CASE e.type = "InstanceCreated" -> [st EXCEPT !.status = "pending"]
      [] e.type = "InstanceStarted" -> [st EXCEPT !.status = "running"]
      [] e.type = "BreakpointHit" ->
            [st EXCEPT !.scheduled = @ \ {e.step}, !.blocked = @ \cup {e.step},
                       !.status = "waiting_for_signal", !.signal = e.step]
      [] e.type = "SignalReceived" -> ApplySignal(st, e)
      [] e.type = "TimerFired" -> [st EXCEPT !.scheduled = @ \ {e.step}]
      [] e.type = "CancelRequested" -> [st EXCEPT !.status = "failed"]
      [] e.type = "WorkflowCompleted" -> [st EXCEPT !.status = "completed"]
      [] e.type = "WorkflowFailed" -> [st EXCEPT !.status = "failed"]
      [] OTHER -> ApplyStep(st, e)

Fold(st, es) == FoldLeft(ApplyEvent, st, es)
Instance == Fold(InstanceDefault, events)

-----------------------------------------------------------------------------
(* ExecutionReplayer.                                                       *)

Low == {"InstanceStarted", "StepStarted", "StepCompleted", "StepFailed", "WorkflowCompleted",
        "WorkflowFailed"}
Medium == Low \cup {"StepScheduled", "SignalReceived", "SignalWaitStarted", "BreakpointHit",
                    "CancelRequested", "StepRetryScheduled"}

Includes_NoCancel(detail, e) ==
    \/ detail = "high"
    \/ detail = "medium" /\ e.type \in Medium \ {"CancelRequested"}
    \/ detail = "low" /\ e.type \in Low

\* DetailLevel::includes
Includes(detail, e) ==
    \/ detail = "high"
    \/ detail = "medium" /\ e.type \in Medium
    \/ detail = "low" /\ e.type \in Low

\* event_timestamp: the events without a time of their own happen now, when they are read.
Timestamp(at) ==
    IF events[at].type \in {"InstanceCreated", "InstanceStarted", "StepScheduled", "StepFailed",
                            "SignalWaitStarted", "TimerFired", "External"}
    THEN Len(events) + 1 ELSE at

Selected(detail, from, to) ==
    FlattenSeq([at \in 1..Len(events) |->
                   IF Includes(detail, events[at]) /\ Timestamp(at) \in from..to THEN <<at>> ELSE <<>>])

\* event_step_id
StepId(e) == IF e.type \in StepEvents THEN e.step ELSE NoStep

\* Faulty: both are read after the event.
Diff_AfterBoth(before, after, e) ==
    CASE e.type = "InstanceStarted" -> {<<"Pending", "Running">>}
      [] e.type \in {"StepStarted", "StepCompleted", "StepFailed"} -> {<<after.results[e.step], after.results[e.step]>>}
      [] e.type = "SignalReceived" -> {<<"WaitingForSignal", "Running">>}
      [] OTHER -> {}

\* compute_state_diff: a step's status before and after; for some events there is none.
Diff(before, after, e) ==
    CASE e.type = "InstanceStarted" -> {<<"Pending", "Running">>}
      [] e.type \in {"StepStarted", "StepCompleted", "StepFailed"} -> {<<before.results[e.step], after.results[e.step]>>}
      [] e.type = "SignalReceived" -> {<<"WaitingForSignal", "Running">>}
      [] OTHER -> {}

\* The time since the step was last started, if that is in the timeline; not below zero.
Duration(picked, i) ==
    LET e == events[picked[i]]
        begins == {k \in 1..i - 1 : events[picked[k]].type = "StepStarted" /\ events[picked[k]].step = e.step}
        until == IF e.type = "StepFailed" THEN Len(events) + 1 ELSE picked[i]
    IN IF e.type \notin {"StepCompleted", "StepFailed"} \/ begins = {} THEN {}
       ELSE {until - picked[CHOOSE k \in begins : \A l \in begins : l <= k]}

\* The creation first, then the first i of the events that are selected, and no other.
ReplayState(picked, i) ==
    LET created == {at \in DOMAIN events : events[at].type = "InstanceCreated"}
        begun == IF created = {} THEN InstanceDefault ELSE ApplyEvent(InstanceDefault, events[Min(created)])
    IN Fold(begun, [k \in 1..i |-> events[picked[k]]])

TimelineEntry(picked, i) ==
    LET e == events[picked[i]]
    IN [ sequence |-> i, event |-> e, step |-> StepId(e), duration |-> Duration(picked, i),
         diff |-> Diff(ReplayState(picked, i - 1), ReplayState(picked, i), e) ]

\* replay, of the events that are selected.
ReplayOf(picked) ==
    LET starts == {at \in Range(picked) : events[at].type = "InstanceStarted"}
        ends == {at \in Range(picked) : events[at].type \in {"WorkflowCompleted", "WorkflowFailed"}}
        start == IF starts = {} THEN Len(events) + 1 ELSE Timestamp(CHOOSE at \in starts : TRUE)
        end == CHOOSE at \in ends : \A a \in ends : a <= at
        Count(type) == Len(SelectSeq(picked, LAMBDA at : events[at].type = type /\ ~events[at].flag))
    IN [ state     |-> ReplayState(picked, Len(picked)),
         timeline  |-> [i \in DOMAIN picked |-> TimelineEntry(picked, i)],
         startedAt |-> start,
         lasted    |-> IF starts = {} \/ ends = {} \/ end < start THEN 0 ELSE end - start,
         steps     |-> Cardinality({events[at].step : at \in {a \in Range(picked) :
                                                              events[a].type = "StepStarted"}}),
         completed |-> Count("StepCompleted"),
         failed    |-> Count("StepFailed"),
         retries   |-> Count("StepRetryScheduled") ]

Replay(detail, from, to) == ReplayOf(Selected(detail, from, to))

\* The same for one step alone.
ReplayStep(detail, step) ==
    LET selected == Selected(detail, 0, MaxEvents + 1)
    IN ReplayOf(FlattenSeq([k \in DOMAIN selected |->
                               IF StepId(events[selected[k]]) = step THEN <<selected[k]>> ELSE <<>>]))

\* What is asked for is checked first, then whether there is anything.
Replayable(detail, from, to) == detail \in {"low", "medium", "high"} /\ from <= to /\ events # <<>>

Everything == [from |-> 0, to |-> MaxEvents + 1]

-----------------------------------------------------------------------------
(* The interpreter: which event may come next.                              *)

Terminal == {"completed", "failed"}
Waiting(st) == st.status = "waiting_for_signal"
CanSchedule(st) == st.status = "running" /\ st.blocked = {}

May(st, e) ==
    CASE e.type = "InstanceCreated" -> events = <<>>
      [] events = <<>> -> FALSE
      [] e.type = "InstanceStarted" -> st.status = "pending"
      [] e.type = "StepScheduled" -> CanSchedule(st) /\ e.step \notin st.scheduled \cup st.running
                                     /\ st.results[e.step] = "none"
      [] e.type = "StepStarted" -> e.step \in st.scheduled /\ e.step \notin st.running
      [] e.type \in {"StepCompleted", "LLMCallStarted"} -> e.step \in st.running
      [] e.type = "StepFailed" -> e.step \in st.running
      [] e.type = "StepRetryScheduled" ->
            st.status = "running" /\ st.results[e.step] = "Failed" /\ e.step \notin st.scheduled
      [] e.type = "SignalWaitStarted" -> st.status = "running" /\ e.step \in st.completed
      [] e.type = "BreakpointHit" -> st.status = "running" /\ e.step \in st.scheduled
      [] e.type = "TimerFired" -> e.step \in st.scheduled /\ st.results[e.step] = "Failed"
      [] e.type \in {"SignalReceived", "CancelRequested", "External"} -> st.status # "pending"
      [] e.type = "WorkflowCompleted" -> st.status = "running" /\ st.running = {}
      [] e.type = "WorkflowFailed" -> st.status \in {"running", "failed"}

\* The status an event is listed under; "" for the events that change no row.
Listed(e) ==
    CASE e.type = "InstanceCreated" -> "pending"
      [] e.type = "InstanceStarted" -> "running"
      [] e.type = "WorkflowCompleted" -> "completed"
      [] e.type = "WorkflowFailed" -> "failed"
      [] OTHER -> ""

WorkflowInit ==
    /\ sql \in BOOLEAN
    /\ events = <<>> /\ column = "" /\ pending = "" /\ faults = 0

\* append: the event is written; in a SQL store the column follows.
AppendEvent(e) ==
    /\ pending = "" /\ Len(events) < MaxEvents
    /\ May(Instance, e)
    /\ events' = Append(events, e)
    /\ pending' = IF sql THEN Listed(e) ELSE ""
    /\ UNCHANGED <<sql, column, faults>>

\* upsert_instance_meta
UpsertMeta ==
    /\ pending # ""
    /\ column' = pending
    /\ pending' = ""
    /\ UNCHANGED <<sql, events, faults>>

\* The second statement fails, or the process dies before it: the event stays.
UpsertLost ==
    /\ pending # "" /\ faults < MaxFaults
    /\ pending' = "" /\ faults' = faults + 1
    /\ UNCHANGED <<sql, events, column>>

WorkflowNext ==
    \/ \E e \in WorkflowEvents : AppendEvent(e)
    \/ UpsertMeta \/ UpsertLost

WorkflowSpec == WorkflowInit /\ [][WorkflowNext]_workflowVars

\* list_by_status: the memory store folds the log, the SQL stores read the column.
ListedUnder(status) == IF sql THEN column = status ELSE events # <<>> /\ Instance.status = status

-----------------------------------------------------------------------------

\* A replay of medium detail, although it leaves events out, ends in the state of the
\* whole log, and so does one of high detail, which applies the creation twice; what
\* apply makes of the events that are left out must not matter to status and results.
ReplayAgrees ==
    \A detail \in {"medium", "high"} : Replayable(detail, Everything.from, Everything.to) =>
        LET replayed == Replay(detail, Everything.from, Everything.to).state
        IN /\ replayed.status = Instance.status
           /\ replayed.completed = Instance.completed /\ replayed.results = Instance.results
           /\ replayed.running = Instance.running /\ replayed.blocked = Instance.blocked

\* Until somebody rejects, what a timeline shows of a step hangs together: each transition begins
\* where the one before it ended and the last one ends where the step is; what the timeline of that
\* step alone shows is the same; and a step that was tried again took as long as its last attempt.
TimelineAgrees ==
    (\A at \in DOMAIN events : ~(events[at].type = "SignalReceived" /\ events[at].flag)) =>
        \A detail \in {"low", "medium", "high"}, s \in Steps :
            LET Shown(replay) == FlattenSeq([i \in DOMAIN replay.timeline |->
                    IF replay.timeline[i].step = s /\ replay.timeline[i].diff # {} THEN <<replay.timeline[i]>> ELSE <<>>])
                Transition(n) == CHOOSE d \in n.diff : TRUE
                whole == Shown(Replay(detail, Everything.from, Everything.to))
                alone == Shown(ReplayStep(detail, s))
                Began(n) == IF n = 1 THEN "none" ELSE Transition(whole[n - 1])[2]
            IN /\ \A n \in DOMAIN whole : Transition(whole[n])[1] = Began(n)
               /\ Began(Len(whole) + 1) = Instance.results[s]
               /\ [n \in DOMAIN whole |-> <<whole[n].event, whole[n].diff, whole[n].duration>>]
                      = [n \in DOMAIN alone |-> <<alone[n].event, alone[n].diff, alone[n].duration>>]
               /\ \A n \in DOMAIN whole : whole[n].event.type = "StepCompleted" =>
                      \E at \in DOMAIN events, d \in whole[n].duration :
                          /\ events[at] = Event("StepStarted", s) /\ events[at + d] = whole[n].event
                          /\ \A a \in at + 1..at + d : events[a] # Event("StepStarted", s)

\* What the documentation expects and the code does not keep (README).
\* replay.rs:440: transitions are derived "from actual state": a rejection fails the instance and is shown
\* as one that goes on.
DiffIsState ==
    LET replay == Replay("high", Everything.from, Everything.to)
    IN \A n \in DOMAIN replay.timeline :
        replay.timeline[n].event.type = "SignalReceived" /\ n = Len(replay.timeline) => replay.state.status = "running"
\* A run that is over took some time: its start is the time of reading.
DurationIsTold ==
    Instance.status = "completed" => Replay("high", Everything.from, Everything.to).lasted > 0
\* A replay starts at the time of InstanceStarted.
StartedAtIsStart ==
    \A at \in DOMAIN events : events[at].type = "InstanceStarted" =>
        Replay("high", Everything.from, Everything.to).startedAt = at
\* An approval that is awaited is listed.
WaitingIsListed == Waiting(Instance) /\ pending = "" => ListedUnder("waiting_for_signal")
==============================================================================
