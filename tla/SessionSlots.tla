---------------------------- MODULE SessionSlots ----------------------------
(***************************************************************************)
(* The session slots of one tenant: tenant/src/supervisor.rs (the atomic   *)
(* counter and its RAII guard), registry.rs (which supervisor counts) and  *)
(* the operations of manager.rs that take and give back slots: create,     *)
(* batch create, delete, shutdown.  Requests run concurrently; a step is   *)
(* one atomic operation, one DashMap call, or the code between two awaits. *)
(*                                                                         *)
(* A guard is held by the request that reserved it until it is part of an  *)
(* ActiveSession, and again by the request that removed the session.       *)
(***************************************************************************)
EXTENDS Integers, FiniteSets, Functions, TLC

CONSTANTS
    Requests,           \* concurrent requests, each doing one thing after another
    MaxSessions,        \* quota.max_concurrent_sessions
    MaxSupervisors,     \* bound: supervisors ever made for the tenant
    MaxIds,             \* bound: sessions ever created
    MaxBatch            \* bound: sessions one batch asks for

ASSUME SlotsAssumption ==
    /\ IsFiniteSet(Requests)
    /\ {MaxSessions, MaxSupervisors, MaxIds, MaxBatch} \subseteq Nat

Supervisors == 1..MaxSupervisors
Nobody == 0

\* Requests are interchangeable.
RequestSymmetry == Permutations(Requests)

VARIABLES
    current,    \* TenantRegistry.tenants: the tenant's supervisor, or Nobody
    stale,      \* cache_ttl has passed since it was created
    made,       \* supervisors made so far
    active,     \* TenantSupervisor.active_sessions of each
    sessions,   \* TenantManagerImpl.sessions: session |-> supervisor of its guard
    lastId,     \* the newest session
    pc,         \* where each request is
    sup,        \* the supervisor it holds an Arc, or a guard, of
    left,       \* sessions it still has to create
    mine,       \* the sessions its batch has created
    todo        \* the sessions it still has to delete

registry == <<current, stale, made>>
locals == <<sup, left, mine, todo>>
vars == <<registry, active, sessions, lastId, pc, locals>>

PC == {"idle", "inserting", "resolved", "checking", "reserving", "over",
       "building", "removing", "releasing", "shutting"}

GoTo(r, place) == pc' = [pc EXCEPT ![r] = place]

Init ==
    /\ current = Nobody /\ stale = FALSE /\ made = 0
    /\ active = [s \in Supervisors |-> 0]
    /\ sessions = <<>> /\ lastId = 0
    /\ pc = [r \in Requests |-> "idle"]
    /\ sup = [r \in Requests |-> Nobody]
    /\ left = [r \in Requests |-> 0]
    /\ mine = [r \in Requests |-> {}]
    /\ todo = [r \in Requests |-> {}]

-----------------------------------------------------------------------------
(* The registry.                                                           *)

\* POST /sessions: resolve_or_insert finds a supervisor that is not stale, or
\* goes on to make one.  Two requests may both find none.
Resolve(r) ==
    /\ pc[r] = "idle"
    /\ GoTo(r, IF current # Nobody /\ ~stale THEN "resolved" ELSE "inserting")
    /\ left' = [left EXCEPT ![r] = 1]
    /\ UNCHANGED <<registry, active, sessions, lastId, sup, mine, todo>>

\* A new supervisor starts counting at zero; it replaces whatever is there.
InsertSupervisor(r) ==
    /\ pc[r] = "inserting"
    /\ made < MaxSupervisors
    /\ made' = made + 1
    /\ current' = made + 1
    /\ stale' = FALSE
    /\ GoTo(r, "resolved")
    /\ UNCHANGED <<active, sessions, lastId, locals>>

\* cache_ttl passes; nothing renews created_at.
GoesStale ==
    /\ current # Nobody /\ ~stale
    /\ stale' = TRUE
    /\ UNCHANGED <<current, made, active, sessions, lastId, pc, locals>>

\* registry.get(tenant_id)
LookUp(r) ==
    /\ pc[r] = "resolved"
    /\ sup' = [sup EXCEPT ![r] = current]
    /\ GoTo(r, "reserving")
    /\ UNCHANGED <<registry, active, sessions, lastId, left, mine, todo>>

-----------------------------------------------------------------------------
(* The counter.                                                            *)

Add(s) == active' = [active EXCEPT ![s] = @ + 1]

\* reserve_session takes its own fetch_add back without protection.
TakeBack(s) == active' = [active EXCEPT ![s] = @ - 1]

\* Faulty: a guard that was released explicitly is released again by its drop.
DropGuard_Twice(s) == active' = [active EXCEPT ![s] = IF @ < 2 THEN 0 ELSE @ - 2]

\* SessionGuard::drop, release_session: fetch_sub, and 0 again on an underflow.
\* (CountExact shows that the count is positive here, so that the fetch_sub and
\* the store, which would be two steps, are one.)
DropGuard(s) == active' = [active EXCEPT ![s] = IF @ = 0 THEN 0 ELSE @ - 1]

\* reserve_session: fetch_add and the comparison of what it returned; a caller
\* over the limit takes its count back in a second step.
ReserveAdd(r) ==
    /\ pc[r] = "reserving"
    /\ Add(sup[r])
    /\ GoTo(r, IF active[sup[r]] + 1 > MaxSessions THEN "over" ELSE "building")
    /\ UNCHANGED <<registry, sessions, lastId, locals>>

-----------------------------------------------------------------------------
(* Creating.                                                               *)

\* Faulty: the newest session of a failed batch is not rolled back.
CreateFails_KeepsNewest(r) ==
    /\ GoTo(r, IF mine[r] = {} THEN "idle" ELSE "removing")
    /\ todo' = [todo EXCEPT ![r] = {s \in mine[r] : s # lastId}]
    /\ left' = [left EXCEPT ![r] = 0]
    /\ sup' = [sup EXCEPT ![r] = Nobody]
    /\ UNCHANGED <<registry, sessions, lastId, mine>>

\* create_session returns an error: a batch deletes what it has created.
CreateFails(r) ==
    /\ GoTo(r, IF mine[r] = {} THEN "idle" ELSE "removing")
    /\ todo' = [todo EXCEPT ![r] = mine[r]]
    /\ left' = [left EXCEPT ![r] = 0]
    /\ sup' = [sup EXCEPT ![r] = Nobody]
    /\ UNCHANGED <<registry, sessions, lastId, mine>>

\* SessionLimitExceeded.
ReserveBack(r) ==
    /\ pc[r] = "over"
    /\ TakeBack(sup[r])
    /\ CreateFails(r)

\* Faulty: an early return with the guard forgotten.
BuildFails_KeepsSlot(r) ==
    /\ pc[r] = "building"
    /\ CreateFails(r)
    /\ UNCHANGED active

\* A bad tool endpoint, a failed build or a bad webhook: the guard is dropped.
BuildFails(r) ==
    /\ pc[r] = "building"
    /\ DropGuard(sup[r])
    /\ CreateFails(r)

\* insert_active_session; a batch goes on with its next session.
InsertSession(r) ==
    /\ pc[r] = "building"
    /\ lastId < MaxIds
    /\ lastId' = lastId + 1
    /\ sessions' = [i \in DOMAIN sessions \cup {lastId + 1} |->
                        IF i = lastId + 1 THEN sup[r] ELSE sessions[i]]
    /\ left' = [left EXCEPT ![r] = @ - 1]
    /\ \/ /\ left[r] = 1
          /\ GoTo(r, "idle")
          /\ mine' = [mine EXCEPT ![r] = {}]
       \/ /\ left[r] > 1
          /\ GoTo(r, "resolved")
          /\ mine' = [mine EXCEPT ![r] = @ \cup {lastId + 1}]
    /\ sup' = [sup EXCEPT ![r] = Nobody]
    /\ UNCHANGED <<registry, active, todo>>

\* batch_create_sessions gets the supervisor ...
BeginBatch(r) ==
    /\ pc[r] = "idle"
    /\ current # Nobody
    /\ sup' = [sup EXCEPT ![r] = current]
    /\ \E n \in 2..MaxBatch : left' = [left EXCEPT ![r] = n]
    /\ GoTo(r, "checking")
    /\ UNCHANGED <<registry, active, sessions, lastId, mine, todo>>

\* ... and compares its count, without reserving anything.
CheckBatch(r) ==
    /\ pc[r] = "checking"
    /\ \/ /\ active[sup[r]] + left[r] > MaxSessions
          /\ GoTo(r, "idle")
          /\ left' = [left EXCEPT ![r] = 0]
       \/ /\ active[sup[r]] + left[r] <= MaxSessions
          /\ GoTo(r, "resolved")
          /\ UNCHANGED left
    /\ sup' = [sup EXCEPT ![r] = Nobody]
    /\ UNCHANGED <<registry, active, sessions, lastId, mine, todo>>

-----------------------------------------------------------------------------
(* Deleting.                                                               *)

\* delete_session of one session, or shutdown, which deletes every key that its
\* iteration over the map came across.
BeginDelete(r) ==
    /\ pc[r] = "idle"
    /\ \E keys \in SUBSET DOMAIN sessions : todo' = [todo EXCEPT ![r] = keys]
    /\ todo'[r] # {}
    /\ GoTo(r, "removing")
    /\ UNCHANGED <<registry, active, sessions, lastId, sup, left, mine>>

\* sessions.remove(key): the guard moves out of the map, or somebody else was
\* faster.
Remove(r) ==
    /\ pc[r] = "removing"
    /\ \E i \in todo[r] :
          /\ todo' = [todo EXCEPT ![r] = @ \ {i}]
          /\ \/ /\ i \in DOMAIN sessions
                /\ sup' = [sup EXCEPT ![r] = sessions[i]]
                /\ sessions' = Restrict(sessions, DOMAIN sessions \ {i})
                /\ GoTo(r, "releasing")
             \/ /\ i \notin DOMAIN sessions
                /\ UNCHANGED <<sup, sessions, pc>>
    /\ UNCHANGED <<registry, active, lastId, left, mine>>

\* drop(_guard), before the actor is waited for.
ReleaseSlot(r) ==
    /\ pc[r] = "releasing"
    /\ DropGuard(sup[r])
    /\ sup' = [sup EXCEPT ![r] = Nobody]
    /\ GoTo(r, "shutting")
    /\ UNCHANGED <<registry, sessions, lastId, left, mine, todo>>

\* The actor has shut down.
ActorShut(r) ==
    /\ pc[r] = "shutting"
    /\ GoTo(r, "removing")
    /\ UNCHANGED <<registry, active, sessions, lastId, locals>>

\* Nothing left to delete.
DeleteDone(r) ==
    /\ pc[r] = "removing"
    /\ todo[r] = {}
    /\ GoTo(r, "idle")
    /\ mine' = [mine EXCEPT ![r] = {}]
    /\ UNCHANGED <<registry, active, sessions, lastId, sup, left, todo>>

\* The client disconnects and its request is dropped where it awaits: while a
\* session is built, which drops the guard, or while an actor shuts down.
Abandon(r) ==
    /\ \/ pc[r] = "building" /\ DropGuard(sup[r])
       \/ pc[r] = "shutting" /\ UNCHANGED active
    /\ GoTo(r, "idle")
    /\ left' = [left EXCEPT ![r] = 0]
    /\ mine' = [mine EXCEPT ![r] = {}]
    /\ todo' = [todo EXCEPT ![r] = {}]
    /\ sup' = [sup EXCEPT ![r] = Nobody]
    /\ UNCHANGED <<registry, sessions, lastId>>

Request(r) ==
    \/ Resolve(r) \/ InsertSupervisor(r) \/ LookUp(r)
    \/ ReserveAdd(r) \/ ReserveBack(r) \/ BuildFails(r) \/ InsertSession(r)
    \/ BeginBatch(r) \/ CheckBatch(r)
    \/ BeginDelete(r) \/ Remove(r) \/ ReleaseSlot(r) \/ ActorShut(r) \/ DeleteDone(r)
    \/ Abandon(r)

Next == GoesStale \/ \E r \in Requests : Request(r)

Spec == Init /\ [][Next]_vars

-----------------------------------------------------------------------------
(* Properties.                                                             *)

TypeOK ==
    /\ made \in 0..MaxSupervisors /\ current \in 0..made
    /\ stale \in BOOLEAN
    /\ active \in [Supervisors -> Nat]
    /\ lastId \in 0..MaxIds
    /\ DOMAIN sessions \subseteq 1..lastId
    /\ \A i \in DOMAIN sessions : sessions[i] \in 1..made
    /\ pc \in [Requests -> PC]
    /\ sup \in [Requests -> 0..made]
    /\ left \in [Requests -> Nat]
    /\ mine \in [Requests -> SUBSET (1..lastId)]
    /\ todo \in [Requests -> SUBSET (1..lastId)]

\* Who holds a slot of supervisor s: sessions in the map, and requests.
SessionsOf(s) == {i \in DOMAIN sessions : sessions[i] = s}
HoldersOf(s) == {r \in Requests : sup[r] = s /\ pc[r] \in {"building", "releasing"}}
OverOf(s) == {r \in Requests : sup[r] = s /\ pc[r] = "over"}

Held(s) == Cardinality(SessionsOf(s)) + Cardinality(HoldersOf(s))

\* active_sessions is exact at every moment: each slot counted belongs to a
\* session, to a request that is creating or deleting one, or to one that is
\* just being rejected; nothing is released twice and nothing leaks, whether a
\* creation fails, a batch is rolled back or a client disconnects.
CountExact ==
    \A s \in Supervisors : active[s] = Held(s) + Cardinality(OverOf(s))

\* However reservations interleave, a supervisor gives out at most
\* max_concurrent_sessions slots.
LimitHolds == \A s \in Supervisors : Held(s) <= MaxSessions

\* Every supervisor is a counting semaphore.
Pool == INSTANCE SlotPool
    WITH Pools <- Supervisors, Slots <- MaxSessions, taken <- [s \in Supervisors |-> Held(s)]

SlotsArePool == Pool!Spec

\* A batch that fails and comes to its end leaves none of its sessions behind.
RollbackComplete ==
    [][\A r \in Requests :
          DeleteDone(r) => mine[r] \cap DOMAIN sessions = {}]_vars

\* The tenant as a whole: "每个租户的并发 session 数不超过配额" (the number of
\* concurrent sessions of a tenant does not exceed its quota).
TenantLimit == Cardinality(DOMAIN sessions) <= MaxSessions

\* reserve_session "fails if at capacity": and only then.
RejectsOnlyAtCapacity ==
    \A r \in Requests : pc[r] = "over" => Held(sup[r]) >= MaxSessions

\* A batch is checked as a whole ("整体原子检查"): having passed, none of its
\* reservations is refused.
BatchCheckedAsAWhole ==
    \A r \in Requests : left[r] + Cardinality(mine[r]) > 1 => pc[r] # "over"
=============================================================================
