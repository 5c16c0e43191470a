--------------------------------- MODULE TuiApp --------------------------------
(***************************************************************************)
(* The terminal client: one loop that takes keys, server events and the    *)
(* results of its tasks, one event stream, and a task for each request.    *)
(* The server runs one input per session at a time, turn by turn, and      *)
(* refuses another meanwhile.                                              *)
(*                                                                         *)
(* Abstractions: inputs are numbered as they are entered, and what is sent *)
(* is its input; a turn has one tool call, except the last of its run;     *)
(* text comes in pieces; models, tokens, thinking and layout are left out. *)
(***************************************************************************)
EXTENDS Integers, Sequences, FiniteSets, SequencesExt

CONSTANTS AllHabits,   \* what users do: sets of "steer", "bash", "interrupt", "retry", "restore", "note", "switch"
          Tabs,        \* the sessions there may be; the client starts with "s1"
          MaxHistory,  \* ui.max_history
          MaxTurns,    \* bound: turns of a run
          Pieces,      \* bound: pieces of a turn's text
          MaxInputs,   \* bound: inputs entered and turns retried
          MaxCommands, \* bound: commands about sessions and messages
          MaxEvents,   \* bound: events on their way (32 here, more before)
          MaxMishaps   \* bound: streams that break or close

ASSUME TuiAssumption == MaxHistory \in Nat \ {0} /\ Pieces \in Nat /\ "s1" \in Tabs

VARIABLES habits,      \* circumstance: one of AllHabits
          busy,        \* state: Busy, else Connected
          active,      \* active_session
          sessions,    \* per session the client has: [messages, streaming]
          queue,       \* input_queue: [input, bash]
          entered,     \* inputs given their number
          restored,    \* inputs taken back into the editor
          sse,         \* sse_task: [of, at], at "none", "connecting", "open", "broken", "over"
          events,      \* server_rx, and what is on its way to it
          errands,     \* tasks that are spawned: [op, of, input]
          actions,     \* task_rx
          exists,      \* at the server: the sessions
          running,     \* at the server, per session: the run
          posted,      \* inputs the server has taken or refused: [input, of, taken]
          commands, mishaps

tuiVars == <<habits, busy, active, sessions, queue, entered, restored, sse, events, errands, actions,
             exists, running, posted, commands, mishaps>>
atServer == <<exists, running, posted>>
counts == <<commands, mishaps>>
typing == <<habits, queue, entered, restored>>

NoRun == [input |-> 0, turn |-> 0, piece |-> 0, call |-> "none"]
None == <<<<0, 0, 0>>>>  \* no streaming buffer
Fresh == [messages |-> <<>>, streaming |-> None]
\* of: the input a message is, or is to answer.
RenderedMessage(role, status, of) == [role |-> role, status |-> status, of |-> of, text |-> <<>>, pending |-> {}, settled |-> {}]

TuiInit ==
    /\ habits \in AllHabits
    /\ busy = FALSE /\ active = "s1" /\ sessions = [s \in {"s1"} |-> Fresh]
    /\ queue = <<>> /\ entered = 0 /\ restored = {}
    /\ sse = [of |-> "s1", at |-> "none"] /\ events = <<>> /\ errands = {} /\ actions = <<>>
    /\ exists = {"s1"} /\ running = [s \in Tabs |-> NoRun] /\ posted = <<>> /\ commands = 0 /\ mishaps = 0

-----------------------------------------------------------------------------
(* What the handlers are made of.                                           *)

Errand(op, of, input) == [op |-> op, of |-> of, input |-> input]
Drawn == active \in DOMAIN sessions  \* else active_session() panics
Here == sessions[active]

Last1(messages, Change(_)) == IF messages = <<>> THEN messages ELSE [messages EXCEPT ![Len(messages)] = Change(@)]
Trim(messages) == SubSeq(messages, IF Len(messages) > MaxHistory THEN Len(messages) - MaxHistory + 1 ELSE 1, Len(messages))

\* start_streaming_turn, after the user's message is in: the old stream is given up, the new
\* one and the request are tasks, in either order.
StartTurn(messages, input, others) ==
    /\ sse' = [of |-> active, at |-> "connecting"] /\ events' = <<>>
    /\ errands' = errands \cup others \cup {Errand("send", active, input)}
    /\ sessions' = [sessions EXCEPT ![active] = [messages |-> Append(messages, RenderedMessage("assistant", "streaming", input)),
                                                 streaming |-> <<>>]]
    /\ busy' = TRUE

\* send_user_message and finalize_bash_message.
SendUser(messages, input, others) ==
    StartTurn(Trim(Append(messages, RenderedMessage("user", "complete", input))), input, others)

-----------------------------------------------------------------------------
(* Keys and commands.                                                       *)

Typed(bash) == bash => "bash" \in habits

\* submit_input; spawn_bash_task reports to the session that is active when it ends.
Submit(bash) ==
    /\ Drawn /\ ~busy /\ entered < MaxInputs /\ Typed(bash)
    /\ entered' = entered + 1
    /\ IF bash THEN /\ errands' = errands \cup {Errand("bash", "", entered')}
                    /\ UNCHANGED <<busy, sessions, sse, events>>
       ELSE SendUser(Here.messages, entered', {})
    /\ UNCHANGED <<habits, active, queue, restored, actions, atServer, counts>>

Enqueue(bash) ==
    /\ Drawn /\ busy /\ entered < MaxInputs /\ Typed(bash)
    /\ entered' = entered + 1
    /\ queue' = Append(queue, [input |-> entered', bash |-> bash])
    /\ UNCHANGED <<habits, busy, active, sessions, restored, sse, events, errands, actions, atServer, counts>>

\* perform_steer: the interrupt is a task of its own.  A command leaves events in the channel
\* of the stream that is given up.
Steer(bash) ==
    /\ Drawn /\ busy /\ entered < MaxInputs /\ Typed(bash) /\ "steer" \in habits
    /\ entered' = entered + 1
    /\ LET aborts(m) == IF m.role = "assistant" /\ m.status = "streaming" THEN [m EXCEPT !.status = "aborted"] ELSE m
           kept == Last1(Here.messages, aborts)
           interrupt == Errand("interrupt", active, 0)
       IN IF bash
          THEN /\ errands' = errands \cup {interrupt, Errand("bash", "", entered')}
               /\ sessions' = [sessions EXCEPT ![active] = [messages |-> kept, streaming |-> None]]
               /\ busy' = FALSE /\ sse' = [sse EXCEPT !.at = "none"] /\ UNCHANGED events
          ELSE SendUser(kept, entered', {interrupt})
    /\ UNCHANGED <<habits, active, queue, restored, actions, atServer, counts>>

\* AppInterrupt: the stream and its buffer stay.
Interrupt ==
    /\ Drawn /\ busy /\ "interrupt" \in habits
    /\ errands' = errands \cup {Errand("interrupt", active, 0)}
    /\ sessions' = [sessions EXCEPT ![active].messages = Last1(@, LAMBDA m : [m EXCEPT !.status = "aborted"])]
    /\ busy' = FALSE
    /\ UNCHANGED <<typing, active, sse, events, actions, atServer, counts>>

\* AppRestoreQueue, which needs a key of its own: its default is taken by another binding.
RestoreQueue ==
    /\ "restore" \in habits /\ queue # <<>>
    /\ restored' = restored \cup {Last(queue).input} /\ queue' = Front(queue)
    /\ UNCHANGED <<habits, busy, active, sessions, entered, sse, events, errands, actions, atServer, counts>>

\* Command::Retry, in any state, with no message for the user.
Retry ==
    LET said == SelectSeq(Here.messages, LAMBDA m : m.role = "user")
    IN /\ Drawn /\ "retry" \in habits /\ entered < MaxInputs /\ said # <<>>
       /\ entered' = entered + 1
       /\ StartTurn(Here.messages, entered', {})
       /\ UNCHANGED <<habits, active, queue, restored, actions, atServer, counts>>

\* Command::Tokens, Tree and Import add a message, Clear takes all away.
Note ==
    /\ commands < MaxCommands /\ commands' = commands + 1
    /\ Drawn /\ "note" \in habits /\ Len(Here.messages) < MaxHistory
    /\ \E messages \in {<<>>, Append(Here.messages, RenderedMessage("assistant", "complete", 0))} :
          sessions' = [sessions EXCEPT ![active].messages = messages]
    /\ UNCHANGED <<typing, busy, active, sse, events, errands, actions, atServer, mishaps>>

\* SwitchSession; NewSession and Fork; DeleteSession.  None of them touches the stream.
Switch ==
    /\ commands < MaxCommands /\ commands' = commands + 1
    /\ Drawn /\ "switch" \in habits
    /\ \E s \in DOMAIN sessions : active' = s /\ errands' = errands \cup {Errand("history", s, 0)}
    /\ UNCHANGED <<typing, busy, sessions, sse, events, actions, atServer, mishaps>>

AskServer ==
    /\ commands < MaxCommands /\ commands' = commands + 1
    /\ Drawn /\ "switch" \in habits
    /\ \E op \in {"create", "delete"} : errands' = errands \cup {Errand(op, active, 0)}
    /\ UNCHANGED <<typing, busy, active, sessions, sse, events, actions, atServer, mishaps>>

-----------------------------------------------------------------------------
(* handle_server_event.                                                     *)

Take == Drawn /\ events # <<>> /\ events' = Tail(events)
Got == Head(events)

TextDelta ==
    /\ Take /\ Got.is = "text" /\ Here.streaming # None
    /\ LET shown == Append(Here.streaming, Got.at)
       IN sessions' = [sessions EXCEPT ![active] =
              [messages |-> Last1(Here.messages, LAMBDA m : [m EXCEPT !.text = shown]), streaming |-> shown]]
    /\ UNCHANGED <<typing, busy, active, sse, errands, actions, atServer, counts>>

\* The text of a turn that nobody waits for is not shown.
IdleDelta ==
    /\ Take /\ Got.is = "text" /\ Here.streaming = None
    /\ UNCHANGED <<typing, busy, active, sessions, sse, errands, actions, atServer, counts>>

ToolCall ==
    /\ Take /\ Got.is \in {"tool", "tool done"}
    /\ LET call == <<Got.at[1], Got.at[2]>>
           marks(m) == IF Got.is = "tool" THEN [m EXCEPT !.pending = @ \cup {call}]
                       ELSE IF call \in m.pending THEN [m EXCEPT !.pending = @ \ {call}, !.settled = @ \cup {call}]
                       ELSE m
       IN sessions' = [sessions EXCEPT ![active].messages = Last1(@, marks)]
    /\ UNCHANGED <<typing, busy, active, sse, errands, actions, atServer, counts>>

Completed == Trim(Last1(Here.messages, LAMBDA m : [m EXCEPT !.status = "complete"]))

TurnEnd_KeepsBuffer ==
    /\ Take /\ Got.is = "turn end" /\ queue = <<>>
    /\ sessions' = [sessions EXCEPT ![active].messages = Completed]
    /\ busy' = FALSE
    /\ UNCHANGED <<typing, active, sse, errands, actions, atServer, counts>>

\* The end of a turn, which need not be that of its run.
TurnEnd ==
    /\ Take /\ Got.is = "turn end" /\ queue = <<>>
    /\ sessions' = [sessions EXCEPT ![active] = [messages |-> Completed, streaming |-> None]]
    /\ busy' = FALSE
    /\ UNCHANGED <<typing, active, sse, errands, actions, atServer, counts>>

\* The same with an input that waits: sending it gives up what is left of the stream.
TurnEndDequeues ==
    /\ Drawn /\ events # <<>> /\ Got.is = "turn end" /\ queue # <<>>
    /\ queue' = Tail(queue)
    /\ IF Head(queue).bash
       THEN /\ errands' = errands \cup {Errand("bash", "", Head(queue).input)}
            /\ sessions' = [sessions EXCEPT ![active] = [messages |-> Completed, streaming |-> None]]
            /\ busy' = FALSE /\ events' = Tail(events) /\ UNCHANGED sse
       ELSE SendUser(Completed, Head(queue).input, {})
    /\ UNCHANGED <<habits, active, entered, restored, actions, atServer, counts>>

\* An error of the run or of the stream itself: nothing is taken from the queue.
ServerError ==
    /\ Take /\ Got.is = "error"
    /\ sessions' = [sessions EXCEPT ![active] =
           [messages |-> Last1(Here.messages, LAMBDA m : [m EXCEPT !.status = "error"]), streaming |-> None]]
    /\ busy' = FALSE
    /\ UNCHANGED <<typing, active, sse, errands, actions, atServer, counts>>

-----------------------------------------------------------------------------
(* The stream's task.                                                       *)

ConnectStream ==
    /\ sse.at \in {"connecting", "broken"} /\ sse.of \in exists
    /\ sse' = [sse EXCEPT !.at = "open"]
    /\ UNCHANGED <<typing, busy, active, sessions, events, errands, actions, atServer, counts>>

\* Broken, it tries again and says so; closed, it is over and says nothing.
LoseStream ==
    /\ sse.at \in {"connecting", "open"} /\ mishaps < MaxMishaps
    /\ mishaps' = mishaps + 1
    /\ \/ sse' = [sse EXCEPT !.at = "broken"] /\ events' = Append(events, [is |-> "error", at |-> <<>>])
       \/ sse.at = "open" /\ sse' = [sse EXCEPT !.at = "over"] /\ UNCHANGED events
    /\ UNCHANGED <<typing, busy, active, sessions, errands, actions, atServer, commands>>

-----------------------------------------------------------------------------
(* The server, and the tasks that talk to it.                               *)

Reaches(s, event) == events' = IF sse.at = "open" /\ sse.of = s THEN Append(events, event) ELSE events
Emit(s, is, run, next) ==
    /\ sse.at = "open" /\ sse.of = s => Len(events) < MaxEvents
    /\ Reaches(s, [is |-> is, at |-> <<run.input, run.turn, run.piece>>])
    /\ running' = [running EXCEPT ![s] = next]
    /\ UNCHANGED <<typing, busy, active, sessions, sse, errands, actions, exists, posted, counts>>

\* A run: text, a call and its result, the end of the turn; or an error, also when it is
\* interrupted.
RunSpeaks(s) ==
    LET run == running[s]
        after(piece, call) == [run EXCEPT !.piece = piece, !.call = call]
    IN /\ run # NoRun
       /\ \/ run.piece < Pieces /\ run.call = "none" /\ Emit(s, "text", after(run.piece + 1, "none"), after(run.piece + 1, "none"))
          \/ run.piece = Pieces /\ run.call = "none" /\ run.turn < MaxTurns /\ Emit(s, "tool", run, after(Pieces, "called"))
          \/ run.call = "called" /\ Emit(s, "tool done", run, after(Pieces, "done"))
          \/ run.call = "done" /\ Emit(s, "turn end", run, [run EXCEPT !.turn = @ + 1, !.piece = 0, !.call = "none"])
          \/ run.piece = Pieces /\ run.call = "none" /\ Emit(s, "turn end", run, NoRun)

RunErrs(s) == running[s] # NoRun /\ Emit(s, "error", running[s], NoRun)

\* rest.send_message: a session that is running refuses, and the client logs it.
PostInput(e) ==
    /\ e.op = "send"
    /\ LET taken == e.of \in exists /\ running[e.of] = NoRun
       IN /\ posted' = Append(posted, [input |-> e.input, of |-> e.of, taken |-> taken])
          /\ running' = IF taken THEN [running EXCEPT ![e.of] = [NoRun EXCEPT !.input = e.input, !.turn = 1]] ELSE running
    /\ UNCHANGED <<events, actions, exists>>

\* rest.interrupt: it may come to nothing.
PostInterrupt(e) ==
    /\ e.op = "interrupt"
    /\ \/ running[e.of] # NoRun /\ running' = [running EXCEPT ![e.of] = NoRun] /\ Reaches(e.of, [is |-> "error", at |-> <<>>])
       \/ UNCHANGED <<running, events>>
    /\ UNCHANGED <<actions, exists, posted>>

\* A history is what the server has of the conversation, each turn whole, its calls unsettled.
History(s) ==
    LET taken == SelectSeq(posted, LAMBDA p : p.taken /\ p.of = s)
        done(p) == [RenderedMessage("assistant", "complete", p.input) EXCEPT
                       !.text = [n \in 1..Pieces |-> <<p.input, 1, n>>],
                       !.pending = IF MaxTurns > 1 THEN {<<p.input, 1>>} ELSE {}]
    IN FlattenSeq([i \in DOMAIN taken |-> <<RenderedMessage("user", "complete", taken[i].input), done(taken[i])>>])

Report(is, of, input) == actions' = Append(actions, [is |-> is, of |-> of, input |-> input])
AskedOf(e) ==
    \/ /\ e.op = "bash" /\ Report("bash", "", e.input) /\ UNCHANGED exists
    \/ /\ e.op = "history" /\ Report("history", e.of, 0) /\ UNCHANGED exists
    \/ /\ e.op = "create" /\ \E s \in Tabs \ exists : exists' = exists \cup {s} /\ Report("created", s, 0)
    \/ /\ e.op = "delete" /\ e.of \in exists /\ running[e.of] = NoRun
       /\ exists' = exists \ {e.of} /\ Report("deleted", e.of, 0)

\* A task ends; one that fails is only logged.
RunErrand ==
    \E e \in errands :
       /\ errands' = errands \ {e}
       /\ \/ PostInput(e) \/ PostInterrupt(e)
          \/ AskedOf(e) /\ UNCHANGED <<running, posted, events>>
          \/ e.op \in {"history", "create", "delete"} /\ UNCHANGED <<actions, atServer, events>>
       /\ UNCHANGED <<typing, busy, active, sessions, sse, counts>>

-----------------------------------------------------------------------------
(* handle_task_action.                                                      *)

TakeAction(is) == Drawn /\ actions # <<>> /\ Head(actions).is = is /\ actions' = Tail(actions)

BashCompleted ==
    /\ TakeAction("bash")
    /\ SendUser(Here.messages, Head(actions).input, {})
    /\ UNCHANGED <<typing, active, atServer, counts>>

Without(s) == [t \in DOMAIN sessions \ {s} |-> sessions[t]]

SessionsChange ==
    /\ \/ /\ TakeAction("created")
          /\ active' = Head(actions).of
          /\ sessions' = [t \in DOMAIN sessions \cup {active'} |-> IF t = active' THEN Fresh ELSE sessions[t]]
       \/ /\ TakeAction("deleted")
          /\ sessions' = Without(Head(actions).of)
          /\ active' \in IF active # Head(actions).of THEN {active}
                         ELSE IF DOMAIN sessions' = {} THEN {""} ELSE DOMAIN sessions'
       \/ /\ TakeAction("history")
          /\ sessions' = IF Head(actions).of \in DOMAIN sessions
                         THEN [sessions EXCEPT ![Head(actions).of].messages = History(Head(actions).of)] ELSE sessions
          /\ UNCHANGED active
    /\ UNCHANGED <<typing, busy, sse, events, errands, atServer, counts>>

TuiNext ==
    \/ \E bash \in BOOLEAN : Submit(bash) \/ Enqueue(bash) \/ Steer(bash)
    \/ Interrupt \/ RestoreQueue \/ Retry \/ Note \/ Switch \/ AskServer
    \/ TextDelta \/ IdleDelta \/ ToolCall \/ TurnEnd \/ TurnEndDequeues \/ ServerError
    \/ ConnectStream \/ LoseStream
    \/ \E s \in Tabs : RunSpeaks(s) \/ RunErrs(s)
    \/ RunErrand \/ BashCompleted \/ SessionsChange

TuiSpec == TuiInit /\ [][TuiNext]_tuiVars

-----------------------------------------------------------------------------
(* Properties.                                                              *)

Times(n, list, Is(_)) == Cardinality({i \in DOMAIN list : Is(list[i]) /\ list[i].input = n})
\* Whatever is interrupted, steered, retried, taken back or refused, each input is in one
\* place: it waits, is on its way, was posted once, or is back in the editor.
InputsKept ==
    \A n \in 1..entered :
       1 = Times(n, queue, LAMBDA q : TRUE) + Cardinality({e \in errands : e.op \in {"send", "bash"} /\ e.input = n})
           + Times(n, actions, LAMBDA a : a.is = "bash") + Times(n, posted, LAMBDA p : TRUE)
           + (IF n \in restored THEN 1 ELSE 0)

Rendered == UNION {Range(sessions[s].messages) : s \in DOMAIN sessions}
\* In one session a message's text is of one turn of one run and without a gap, though
\* streams break, are given up for others and open in the middle of a turn.
OneTurnPerText ==
    "switch" \notin habits =>
        \A m \in Rendered : \A k \in 2..Len(m.text) : m.text[k] = [m.text[k - 1] EXCEPT ![3] = @ + 1]

\* Where nothing else writes messages and no stream is lost, the end of a turn finds that
\* turn's call settled in the message that is shown to be complete then.
CallsSettleFirst ==
    habits \cap {"switch", "note"} = {} /\ mishaps = 0 /\ Drawn /\ events # <<>> /\ Here.messages # <<>> /\ Got.is = "turn end"
    => <<Got.at[1], Got.at[2]>> \notin Last(Here.messages).pending

AppKept == InputsKept /\ OneTurnPerText /\ CallsSettleFirst

(* What documents say, or a reader may expect, and the code does not keep.  *)

\* tui/README.md:45: what is queued follows when the agent is done: it is not refused.
FollowUpIsTaken == habits = {} /\ mishaps = 0 => \A i \in DOMAIN posted : posted[i].taken
\* An answer is shown under the input it answers.
AnswersOwnInput == habits = {} => \A m \in Rendered : m.text # <<>> => m.of = m.text[1][1]
\* The events of a session stay in it.
EventsStayInSession == \A s \in DOMAIN sessions : \A i \in DOMAIN sessions[s].messages :
    LET m == sessions[s].messages[i]
    IN m.text # <<>> => \E j \in DOMAIN posted : posted[j].input = m.text[1][1] /\ posted[j].of = s
\* What was aborted stays aborted.
AbortedStays == [][\A s \in DOMAIN sessions \cap DOMAIN sessions' : \A i \in DOMAIN sessions[s].messages \cap DOMAIN sessions'[s].messages :
    sessions[s].messages[i].status = "aborted" /\ sessions'[s].messages[i].of = sessions[s].messages[i].of
    => sessions'[s].messages[i].status = "aborted"]_tuiVars
\* There is a session to draw.
SessionToDraw == Drawn
\* While nothing runs at the server and no event is on its way, the client does not wait for one.
BusyHasReason == busy => events # <<>> \/ errands # {} \/ running[sse.of] # NoRun
==============================================================================
