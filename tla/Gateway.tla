-------------------------------- MODULE Gateway --------------------------------
(***************************************************************************)
(* The HTTP surface: what a request to the gateway's routes does, from the *)
(* handler through TenantManagerImpl to the status it answers, with others *)
(* at work on the same sessions and with the server shutting down.         *)
(*                                                                         *)
(* Abstractions: one tenant, authenticated; no two sessions share a shard  *)
(* of the sessions map (TenantLocks has the shards); a turn is one entry   *)
(* of a history, and carries media or not.                                 *)
(***************************************************************************)
EXTENDS Naturals, Sequences, SequencesExt, FiniteSets

CONSTANTS Askers, RouteCalls,  \* the requests the clients make: [route, what]
          MaxSessions, MaxBatch, MaxRequests, MaxFailures

\* As many requests as are open at a time; an empty batch does nothing.
ASSUME GatewayAssumption ==
    /\ MaxSessions \in Nat /\ IsFiniteSet(Askers)
    /\ \A r \in RouteCalls : r.route = "batch" => r.what.count \in Nat \ {0}

VARIABLES server,    \* "serving", "draining", "closing", "down"
          drain,     \* the sessions that shutdown has yet to delete
          table,     \* [model, prompt, strategy, tools, turns, next, running]
          idsMade,   \* how many session ids were made
          slots,     \* the supervisor's count
          calls,     \* each client's request: [route, what, id, stage, template, new, made, left, index]
          reply,     \* and what it was last told: [status, index, body]
          tally,    \* pandaria_sessions_total
          requests, buildFailures

gatewayVars == <<server, drain, table, idsMade, slots, calls, reply, tally, requests, buildFailures>>

MadeIds == 1..idsMade
Unanswered == [status |-> 0, index |-> 0, body |-> <<>>]
NoTemplate == [prompt |-> "none", strategy |-> "none", tools |-> "none"]
NoCall == [route |-> "none", what |-> "none", id |-> 0, stage |-> "idle", template |-> NoTemplate, new |-> 0, made |-> {}, left |-> 0, index |-> 0]

\* A handler that works on a session holds its entry: whoever would write waits.
Holds(c, s) == calls[c].id = s /\ calls[c].route \in {"send", "fork", "clone"} /\ calls[c].stage \notin {"idle", "begin"}
Free(s) == \A c \in Askers : ~Holds(c, s)
AtRest(s) == table[s].running = "nobody"

Stage(c, stage) == calls' = [calls EXCEPT ![c].stage = stage]
Reply(c, status, index, body) ==
    /\ calls' = [calls EXCEPT ![c] = NoCall]
    /\ reply' = [reply EXCEPT ![c] = [status |-> status, index |-> index, body |-> body]]

\* GatewayError's status for what the manager refuses.
StatusOf(error) ==
    CASE error = "not_found" -> 404 [] error = "bad_request" -> 400
      [] error = "session_limit" -> 429 [] error = "internal" -> 500

-----------------------------------------------------------------------------
(* From a request: serde's defaults, From for SessionStrategy.      *)

\* [termination, rhythm, context] with "absent" parts; a loop's interval in milliseconds.
Strategy(req) ==
    [termination |-> IF req.termination = "absent" THEN "once" ELSE req.termination,
     rhythm      |-> IF req.rhythm = "absent" THEN "once" ELSE req.rhythm,
     context     |-> IF req.context = "absent" THEN "accumulate" ELSE req.context]

Template(w) == [prompt |-> IF w.prompt = "absent" THEN "default" ELSE w.prompt,
                strategy |-> Strategy(w.strategy),
                tools |-> IF w.builtin = "absent" THEN "enabled" ELSE w.builtin]

\* update takes the fields it is given; the others stay.
Updated(s, w) == [s EXCEPT !.model = IF w.model = "absent" THEN @ ELSE w.model,
                           !.prompt = IF w.prompt = "absent" THEN @ ELSE w.prompt]

\* downgrade_media_in_message, on the way out.
DowngradeMedia(turns) == [n \in DOMAIN turns |-> IF turns[n] = "media" THEN "placeholder" ELSE turns[n]]

-----------------------------------------------------------------------------

Ask(c) ==
    /\ server \in {"serving", "draining"} /\ calls[c].stage = "idle" /\ requests < MaxRequests
    /\ requests' = requests + 1
    /\ \E r \in RouteCalls, s \in 1..idsMade + 1 :
        /\ r.route \in {"create", "batch", "tavern"} => s = 1
        /\ calls' = [calls EXCEPT ![c] = [NoCall EXCEPT !.route = r.route, !.what = r.what, !.id = s, !.stage = "begin"]]
    /\ reply' = [reply EXCEPT ![c] = Unanswered]
    /\ UNCHANGED <<server, drain, table, idsMade, slots, tally, buildFailures>>

IsKnown(c) == calls[c].id \in DOMAIN table

\* Every route of a session that is not there.
Missing(c) ==
    /\ calls[c].stage = "begin" /\ calls[c].route \notin {"create", "batch", "complete", "tavern"} /\ ~IsKnown(c)
    /\ Reply(c, StatusOf("not_found"), 0, <<>>)
    /\ UNCHANGED <<server, drain, table, idsMade, slots, tally, requests, buildFailures>>

BeginCreate(c) ==
    /\ calls[c].stage = "begin" /\ calls[c].route = "create"
    /\ calls' = [calls EXCEPT ![c].stage = "reserve", ![c].template = Template(calls[c].what)]
    /\ UNCHANGED <<server, drain, table, idsMade, slots, reply, tally, requests, buildFailures>>

BeginBatch(c) ==
    /\ calls[c].stage = "begin" /\ calls[c].route = "batch"
    /\ LET n == calls[c].what.count IN
       IF n > MaxBatch THEN Reply(c, StatusOf("bad_request"), 0, <<>>)
       ELSE IF slots + n > MaxSessions THEN Reply(c, StatusOf("session_limit"), 0, <<>>)
       ELSE /\ calls' = [calls EXCEPT ![c].stage = "reserve", ![c].template = Template(calls[c].what), ![c].left = n]
            /\ UNCHANGED reply
    /\ UNCHANGED <<server, drain, table, idsMade, slots, tally, requests, buildFailures>>

\* clone and fork take the source's prompt, tools and strategy: not its model.
BeginCopy(c) ==
    /\ calls[c].stage = "begin" /\ calls[c].route \in {"clone", "fork"} /\ IsKnown(c) /\ AtRest(calls[c].id)
    /\ LET s == table[calls[c].id] IN
       calls' = [calls EXCEPT ![c].stage = "reserve", ![c].template = [prompt |-> s.prompt, strategy |-> s.strategy, tools |-> s.tools]]
    /\ UNCHANGED <<server, drain, table, idsMade, slots, reply, tally, requests, buildFailures>>

\* What a failed create_session answers: a batch takes back what it made, as a 500.
CallFails(c, error) ==
    IF calls[c].route = "batch" THEN Stage(c, "undo") /\ UNCHANGED reply ELSE Reply(c, StatusOf(error), 0, <<>>)

Reserve(c) ==
    /\ calls[c].stage = "reserve"
    /\ IF slots < MaxSessions THEN slots' = slots + 1 /\ Stage(c, "build") /\ UNCHANGED reply
       ELSE CallFails(c, "session_limit") /\ UNCHANGED slots
    /\ UNCHANGED <<server, drain, table, idsMade, tally, requests, buildFailures>>

BuildFails(c) ==
    /\ calls[c].stage = "build" /\ buildFailures < MaxFailures
    /\ buildFailures' = buildFailures + 1 /\ slots' = slots - 1 /\ CallFails(c, "internal")
    /\ UNCHANGED <<server, drain, table, idsMade, tally, requests>>

EnterTable(c) ==
    /\ calls[c].stage = "build"
    /\ LET id == idsMade + 1
           t == calls[c].template
           more == calls[c].route = "batch" /\ calls[c].left > 1
           Fresh == [model |-> "default", prompt |-> t.prompt, strategy |-> t.strategy, tools |-> t.tools,
                     turns |-> <<>>, next |-> 0, running |-> "nobody"]
       IN /\ table' = [s \in DOMAIN table \cup {id} |-> IF s = id THEN Fresh ELSE table[s]]
          /\ idsMade' = id
          /\ tally' = [tally EXCEPT !.created = @ + 1]
          /\ IF calls[c].route = "fork" \/ more
             THEN /\ calls' = [calls EXCEPT ![c].stage = IF more THEN "reserve" ELSE "copy", ![c].new = id,
                                            ![c].made = @ \cup {id}, ![c].left = IF more THEN @ - 1 ELSE @]
                  /\ UNCHANGED reply
             ELSE Reply(c, 201, id, <<>>)
    /\ UNCHANGED <<server, drain, slots, requests, buildFailures>>

Removed(s) ==
    /\ table' = [t \in DOMAIN table \ {s} |-> table[t]]
    /\ slots' = slots - 1 /\ tally' = [tally EXCEPT !.failed = @ + 1]

UndoBatch_Leaves(c) ==
    /\ calls[c].stage = "undo" /\ Reply(c, StatusOf("internal"), 0, <<>>)
    /\ UNCHANGED <<server, drain, table, slots, tally, idsMade, requests, buildFailures>>

\* One after the other; what another client has deleted is not there any more.
UndoBatch(c) ==
    /\ calls[c].stage = "undo"
    /\ LET there == calls[c].made \cap DOMAIN table IN
       IF there = {} THEN Reply(c, StatusOf("internal"), 0, <<>>) /\ UNCHANGED <<table, slots, tally>>
       ELSE \E s \in there : Free(s) /\ Removed(s) /\ UNCHANGED <<calls, reply>>
    /\ UNCHANGED <<server, drain, idsMade, requests, buildFailures>>

\* The new session is in the map already: it may have turns of its own, or be gone.
CopyHistory(c) ==
    /\ calls[c].stage = "copy" /\ AtRest(calls[c].id)
    /\ LET new == calls[c].new
           turns == table[calls[c].id].turns
       IN IF turns # <<>> /\ new \notin DOMAIN table THEN Reply(c, StatusOf("not_found"), 0, <<>>) /\ UNCHANGED table
          ELSE /\ turns # <<>> => AtRest(new)
               /\ table' = IF turns = <<>> THEN table ELSE [table EXCEPT ![new].turns = @ \o turns]
               /\ Reply(c, 201, new, <<>>)
    /\ UNCHANGED <<server, drain, idsMade, slots, tally, requests, buildFailures>>

-----------------------------------------------------------------------------

Delete(c) ==
    /\ calls[c].stage = "begin" /\ calls[c].route = "delete" /\ IsKnown(c) /\ Free(calls[c].id)
    /\ Removed(calls[c].id) /\ Reply(c, 204, calls[c].id, <<>>)
    /\ UNCHANGED <<server, drain, idsMade, requests, buildFailures>>

\* The counter moves before the prompt waits for the actor.
BeginSend(c) ==
    /\ calls[c].stage = "begin" /\ calls[c].route = "send" /\ IsKnown(c)
    /\ LET s == calls[c].id IN
        /\ table' = [table EXCEPT ![s].next = @ + 1]
        /\ calls' = [calls EXCEPT ![c].stage = "queued", ![c].index = table[s].next]
    /\ UNCHANGED <<server, drain, idsMade, slots, reply, tally, requests, buildFailures>>

RunTurn(c) ==
    /\ calls[c].stage = "queued" /\ AtRest(calls[c].id)
    /\ table' = [table EXCEPT ![calls[c].id].running = c] /\ Stage(c, "running")
    /\ UNCHANGED <<server, drain, idsMade, slots, reply, tally, requests, buildFailures>>

EndTurn(c) ==
    /\ calls[c].stage = "running"
    /\ \/ /\ table' = [table EXCEPT ![calls[c].id].running = "nobody",
                                          ![calls[c].id].turns = Append(@, calls[c].what.part)]
          /\ Reply(c, 200, calls[c].index, <<>>) /\ UNCHANGED buildFailures
       \/ /\ buildFailures < MaxFailures /\ buildFailures' = buildFailures + 1
          /\ table' = [table EXCEPT ![calls[c].id].running = "nobody"]
          /\ Reply(c, StatusOf("internal"), 0, <<>>)
    /\ UNCHANGED <<server, drain, idsMade, slots, tally, requests>>

Update(c) ==
    /\ calls[c].stage = "begin" /\ calls[c].route = "update" /\ IsKnown(c) /\ Free(calls[c].id) /\ AtRest(calls[c].id)
    /\ table' = [table EXCEPT ![calls[c].id] = Updated(@, calls[c].what)] /\ Reply(c, 200, 0, <<>>)
    /\ UNCHANGED <<server, drain, idsMade, slots, tally, requests, buildFailures>>

Reset(c) ==
    /\ calls[c].stage = "begin" /\ calls[c].route = "reset" /\ IsKnown(c) /\ AtRest(calls[c].id)
    /\ table' = [table EXCEPT ![calls[c].id].turns = <<>>] /\ Reply(c, 200, 0, <<>>)
    /\ UNCHANGED <<server, drain, idsMade, slots, tally, requests, buildFailures>>

GetMessages(c) ==
    /\ calls[c].stage = "begin" /\ calls[c].route = "messages" /\ IsKnown(c) /\ AtRest(calls[c].id)
    /\ Reply(c, 200, 0, DowngradeMedia(table[calls[c].id].turns))
    /\ UNCHANGED <<server, drain, table, idsMade, slots, tally, requests, buildFailures>>

\* Only the counter, whether the session is there or not.
Complete(c) ==
    /\ calls[c].stage = "begin" /\ calls[c].route = "complete"
    /\ tally' = [tally EXCEPT !.completed = @ + 1] /\ Reply(c, 204, 0, <<>>)
    /\ UNCHANGED <<server, drain, table, idsMade, slots, requests, buildFailures>>

\* Tavern's signal, cancel, approve, reject, flow start and flow cancel.
Acknowledge(c) ==
    /\ calls[c].stage = "begin" /\ calls[c].route = "tavern" /\ Reply(c, 200, 0, <<>>)
    /\ UNCHANGED <<server, drain, table, idsMade, slots, tally, requests, buildFailures>>

-----------------------------------------------------------------------------
(* serve: on a signal the sessions are deleted, and only then the listener   *)
(* stops; the requests that are open by then are answered.                   *)

Terminate ==
    /\ server = "serving" /\ server' = "draining" /\ drain' = DOMAIN table
    /\ UNCHANGED <<table, idsMade, slots, calls, reply, tally, requests, buildFailures>>

DrainOne ==
    /\ server = "draining"
    /\ \E s \in drain :
        /\ drain' = drain \ {s}
        /\ IF s \in DOMAIN table THEN Free(s) /\ Removed(s) ELSE UNCHANGED <<table, slots, tally>>
    /\ UNCHANGED <<server, idsMade, calls, reply, requests, buildFailures>>

StopListening ==
    /\ server = "draining" /\ drain = {} /\ server' = "closing"
    /\ UNCHANGED <<drain, table, idsMade, slots, calls, reply, tally, requests, buildFailures>>

Exit ==
    /\ server = "closing" /\ \A c \in Askers : calls[c].stage = "idle"
    /\ server' = "down"
    /\ UNCHANGED <<drain, table, idsMade, slots, calls, reply, tally, requests, buildFailures>>

-----------------------------------------------------------------------------

GatewayInit ==
    /\ server = "serving" /\ drain = {} /\ table = <<>> /\ idsMade = 0 /\ slots = 0
    /\ calls = [c \in Askers |-> NoCall] /\ reply = [c \in Askers |-> Unanswered]
    /\ tally = [created |-> 0, completed |-> 0, failed |-> 0]
    /\ requests = 0 /\ buildFailures = 0

Handle(c) ==
    \/ Missing(c) \/ BeginCreate(c) \/ BeginBatch(c) \/ BeginCopy(c) \/ Reserve(c) \/ BuildFails(c) \/ EnterTable(c)
    \/ UndoBatch(c) \/ CopyHistory(c) \/ Delete(c) \/ BeginSend(c) \/ RunTurn(c) \/ EndTurn(c)
    \/ Update(c) \/ Reset(c) \/ GetMessages(c) \/ Complete(c) \/ Acknowledge(c)

GatewayNext == (\E c \in Askers : Ask(c) \/ Handle(c)) \/ Terminate \/ DrainOne \/ StopListening \/ Exit

GatewaySpec == GatewayInit /\ [][GatewayNext]_gatewayVars

-----------------------------------------------------------------------------

GetsAnswer(c) == calls[c].stage # "idle" /\ calls'[c].stage = "idle"

(* What a client is told is so when it is told: 201 for a session that was made for it   *)
(* alone, a failed batch for nothing left, 204 once per session, one index per prompt;    *)
(* a reader gets no media and takes none away; a history loses nothing but by reset.      *)
AnswerIsSo ==
    /\ \A c \in Askers : GetsAnswer(c) =>
        LET a == reply'[c] IN
        /\ a.status = 201 /\ calls[c].route # "fork" => a.index \notin DOMAIN table /\ a.index \in DOMAIN table'
        /\ calls[c].route = "batch" /\ a.status = 500 => calls[c].made \cap DOMAIN table' = {}
        /\ calls[c].route = "delete" /\ a.status = 204 => calls[c].id \in DOMAIN table \ DOMAIN table'
        /\ "media" \notin Range(a.body)
    /\ \A s \in DOMAIN table \cap DOMAIN table' : IsPrefix(table[s].turns, table'[s].turns) \/
        \E c \in Askers : GetsAnswer(c) /\ calls[c].route = "reset" /\ calls[c].id = s
    /\ \A c, d \in Askers : c # d /\ calls'[c].id = calls'[d].id /\ {calls'[c].stage, calls'[d].stage} \subseteq {"queued", "running"}
        => calls'[c].index # calls'[d].index

(* A slot for each session and each one being built, a count for each that came or went. *)
BooksBalance ==
    /\ slots' = Cardinality(DOMAIN table') + Cardinality({c \in Askers : calls'[c].stage = "build"})
    /\ slots' <= MaxSessions
    /\ tally'.created = Cardinality(DOMAIN table') + tally'.failed

GatewayKept == [][AnswerIsSo /\ BooksBalance]_gatewayVars

-----------------------------------------------------------------------------
(* What the code says of itself and does not do; no run checks these.        *)

(* manager.rs:197: shutdown shuts down all sessions. *)
AllSessionsShut == server = "down" => table = <<>>

(* docs/plans/2026-06-28-observability-m1.md:1161: completed or failed, not both. *)
EndedOnce == tally.completed + tally.failed <= tally.created

(* manager.rs:172: a fork has the messages of its source. *)
ForkIsCopy == [][\A c \in Askers : GetsAnswer(c) /\ calls[c].stage = "copy" /\ reply'[c].status = 201
    => reply'[c].index \in DOMAIN table' /\ table'[reply'[c].index].turns = table[calls[c].id].turns]_gatewayVars
CloneKeepsModel == [][\A c \in Askers : GetsAnswer(c) /\ calls[c].route = "clone" /\ reply'[c].status = 201
    => table'[reply'[c].index].model = table[calls[c].id].model]_gatewayVars
===============================================================================
