------------------------------ MODULE TenantLocks ------------------------------
(***************************************************************************)
(* TenantManagerImpl's locks: the shards of the sessions map, which block  *)
(* the thread that waits for one, and the actors' mutexes, which are       *)
(* awaited.  Requests run on the runtime's workers; one that awaits gives  *)
(* its worker up, one that waits for a shard does not.                     *)
(*                                                                         *)
(* A request is a program: the steps its handler takes on locks, in the    *)
(* handler's order, and "io" where it awaits anything else.                *)
(*                                                                         *)
(* Abstractions: slots and quotas are SessionSlots' and Admission's; an    *)
(* error between two steps lets go of the same locks as going on; a        *)
(* session that is forked has messages.                                    *)
(***************************************************************************)
EXTENDS Naturals, Sequences, FiniteSets

CONSTANTS Requests,
          Sessions,  \* the sessions at the start
          Traffic    \* what may be asked, as records [ask, home, workers]:
                     \* per request an operation and a session, the shard of every
                     \* session, the number of the runtime's workers

\* The session a request makes, if it makes one.
Made(r) == <<r, "made">>
Known == Sessions \cup {Made(r) : r \in Requests}
Operations == {"prompt", "compact", "reset", "query", "get", "interrupt", "subscribe",
               "update", "delete", "create", "clone", "fork"}

ASSUME LocksAssumption == \A t \in Traffic :
    /\ t.ask \in [Requests -> [op : Operations, on : Sessions]]
    /\ DOMAIN t.home = Known /\ t.workers \in Nat \ {0}

VARIABLES traffic,  \* the circumstances, chosen at the start
          live,     \* the sessions in the map
          guards,   \* the map guards held: request, shard, mode
          actor,    \* per session: who holds its mutex, then who waits for it
          request   \* per request: the step it is at, and how it is being run

locksVars == <<traffic, live, guards, actor, request>>

Op(r) == traffic.ask[r].op
On(r) == traffic.ask[r].on
Shard(s) == traffic.home[s]

-----------------------------------------------------------------------------
(* The handlers.                                                            *)

Step(do, s) == <<do, s>>
\* send_message, compact_session, reset_session: the entry's guard is held until the end.
SendMessage(s) ==
    <<Step("read", s), Step("lock", s), Step("io", s), Step("unlock", s), Step("drop", s)>>

\* get_session_messages, get_session_state.
Query(s) == <<Step("read", s), Step("lock", s), Step("unlock", s), Step("drop", s)>>

\* get_session, interrupt, subscribe_events.
Peek(s) == <<Step("read", s), Step("drop", s)>>

UpdateSession_KeepsActor(s) ==
    <<Step("write", s), Step("lock", s), Step("lock", s), Step("unlock", s), Step("drop", s)>>

\* A model and a system prompt: the mutex is taken for each.
UpdateSession(s) ==
    <<Step("write", s), Step("lock", s), Step("unlock", s), Step("lock", s), Step("unlock", s), Step("drop", s)>>

\* Removes the entry first, then shuts the actor down.
DeleteSession(s) ==
    <<Step("remove", s), Step("lock", s), Step("io", s), Step("unlock", s), Step("io", s)>>

CreateSession(n) == <<Step("io", n), Step("insert", n)>>

\* The source's entry is held while the copy is created.
CloneSession(s, n) ==
    <<Step("read", s), Step("lock", s), Step("unlock", s)>> \o CreateSession(n) \o <<Step("drop", s)>>

\* Then the messages are read, and pushed into the copy.
ForkSession(s, n) ==
    <<Step("read", s), Step("lock", s), Step("unlock", s)>> \o CreateSession(n)
      \o <<Step("lock", s), Step("unlock", s)>> \o Query(n) \o <<Step("drop", s)>>

Program(r) ==
    CASE Op(r) \in {"prompt", "compact", "reset"} -> SendMessage(On(r))
      [] Op(r) = "query" -> Query(On(r))
      [] Op(r) \in {"get", "interrupt", "subscribe"} -> Peek(On(r))
      [] Op(r) = "update" -> UpdateSession(On(r))
      [] Op(r) = "delete" -> DeleteSession(On(r))
      [] Op(r) = "create" -> CreateSession(Made(r))
      [] Op(r) = "clone" -> CloneSession(On(r), Made(r))
      [] Op(r) = "fork" -> ForkSession(On(r), Made(r))

-----------------------------------------------------------------------------
(* Workers.                                                                 *)

LocksInit ==
    /\ traffic \in Traffic
    /\ live = Sessions /\ guards = {}
    /\ actor = [s \in Known |-> <<>>]
    /\ request = [r \in Requests |-> [at |-> 1, is |-> "ready"]]

OnWorker == {r \in Requests : request[r].is = "running"}

\* A worker polls a request that is ready.
Poll(r) ==
    /\ request[r].is = "ready" /\ Cardinality(OnWorker) < traffic.workers
    /\ request' = [request EXCEPT ![r].is = "running"]
    /\ UNCHANGED <<traffic, live, guards, actor>>

IoEnds(r) ==
    /\ request[r].is = "io"
    /\ request' = [request EXCEPT ![r].is = "ready"]
    /\ UNCHANGED <<traffic, live, guards, actor>>

Does(r, what) == request[r].is = "running" /\ request[r].at <= Len(Program(r))
                 /\ Program(r)[request[r].at][1] = what
Target(r) == Program(r)[request[r].at][2]
Onward(r) == request' = [request EXCEPT ![r].at = @ + 1]
Fails(r) == request' = [request EXCEPT ![r].is = "done"]

Held(s, modes) == \E g \in guards : g.shard = Shard(s) /\ g.mode \in modes
Guard(r, mode) == [by |-> r, shard |-> Shard(Target(r)), mode |-> mode, session |-> Target(r)]

\* get and get_mut: a shard is waited for on the worker; an unknown session is an error.
Enter(r, what, against) ==
    /\ Does(r, what) /\ ~Held(Target(r), against)
    /\ IF Target(r) \in live
       THEN guards' = guards \cup {Guard(r, what)} /\ Onward(r)
       ELSE Fails(r) /\ UNCHANGED guards
    /\ UNCHANGED <<traffic, live, actor>>
ReadEntry(r) == Enter(r, "read", {"write"})
WriteEntry(r) == Enter(r, "write", {"read", "write"})

DropEntry(r) ==
    /\ Does(r, "drop")
    /\ guards' = {g \in guards : g.by # r \/ g.session # Target(r)}
    /\ Onward(r)
    /\ UNCHANGED <<traffic, live, actor>>

RemoveEntry(r) ==
    /\ Does(r, "remove") /\ ~Held(Target(r), {"read", "write"})
    /\ IF Target(r) \in live THEN live' = live \ {Target(r)} /\ Onward(r)
                             ELSE Fails(r) /\ UNCHANGED live
    /\ UNCHANGED <<traffic, guards, actor>>

InsertEntry(r) ==
    /\ Does(r, "insert") /\ ~Held(Target(r), {"read", "write"})
    /\ live' = live \cup {Target(r)}
    /\ Onward(r)
    /\ UNCHANGED <<traffic, guards, actor>>

\* The mutex is fair: whoever does not get it at once queues, and gives its worker up.
LockActor(r) ==
    /\ Does(r, "lock")
    /\ actor' = [actor EXCEPT ![Target(r)] = Append(@, r)]
    /\ request' = [request EXCEPT ![r] = [at |-> @.at + 1, is |-> IF actor[Target(r)] = <<>> THEN "running" ELSE "queued"]]
    /\ UNCHANGED <<traffic, live, guards>>

UnlockActor(r) ==
    /\ Does(r, "unlock")
    /\ LET left == Tail(actor[Target(r)])
       IN /\ actor' = [actor EXCEPT ![Target(r)] = left]
          /\ request' = [q \in Requests |->
                IF q = r THEN [request[r] EXCEPT !.at = @ + 1]
                ELSE IF left # <<>> /\ q = Head(left) THEN [request[q] EXCEPT !.is = "ready"]
                ELSE request[q]]
    /\ UNCHANGED <<traffic, live, guards>>

AwaitIo(r) ==
    /\ Does(r, "io")
    /\ request' = [request EXCEPT ![r] = [at |-> @.at + 1, is |-> "io"]]
    /\ UNCHANGED <<traffic, live, guards, actor>>

Respond(r) ==
    /\ request[r].is = "running" /\ request[r].at > Len(Program(r))
    /\ Fails(r)
    /\ UNCHANGED <<traffic, live, guards, actor>>

Proceed(r) ==
    \/ ReadEntry(r) \/ WriteEntry(r) \/ DropEntry(r) \/ RemoveEntry(r) \/ InsertEntry(r)
    \/ LockActor(r) \/ UnlockActor(r) \/ AwaitIo(r) \/ Respond(r)

LocksNext == \E r \in Requests : Poll(r) \/ IoEnds(r) \/ Proceed(r)

\* Workers poll what is ready and run what they poll; what is awaited ends.
LocksFairness == \A r \in Requests :
    WF_locksVars(Poll(r)) /\ WF_locksVars(IoEnds(r)) /\ WF_locksVars(Proceed(r))

LocksSpec == LocksInit /\ [][LocksNext]_locksVars /\ LocksFairness

-----------------------------------------------------------------------------
\* Whoever works on a session's actor, other than to shut it down, works on a session that
\* is in the map: delete_session takes a session away only from between the requests.
WorksOnLive ==
    \A s \in Known : actor[s] # <<>> /\ Op(Head(actor[s])) # "delete" => s \in live

\* A worker for each request, and no session made in the shard of another.
Ample == /\ traffic.workers >= Cardinality(Requests)
         /\ \A r \in Requests : \A s \in Known \ {Made(r)} : Shard(s) # Shard(Made(r))

\* Then every request is answered, whatever holds which lock when.
RequestsEnd == Ample => <>(\A r \in Requests : request[r].is = "done")

\* What a comment says of interrupt: it reaches a prompt that is running.  It does not when
\* the workers wait for the shard the prompt's own guard holds.
InterruptEnds == \A r \in Requests : Op(r) = "interrupt" ~> request[r].is = "done"

\* What holds only with shards of their own: without Ample a clone waits for itself.
EveryRequestEnds == <>(\A r \in Requests : request[r].is = "done")
==============================================================================
