----------------------------- MODULE RoleSessions -----------------------------
(***************************************************************************)
(* PandariaAgentExecutor and its SessionCache: missions that name the same *)
(* role and model share one cached session actor, which each call locks    *)
(* for its whole completion.                                               *)
(*                                                                         *)
(* A call looks its key up, waits for a permit, looks again, builds an     *)
(* actor and puts it in the cache; the permit ends there.  A cleaner takes *)
(* idle entries out, an insert the least recently used one; both flush     *)
(* only an actor they can lock at once.                                    *)
(*                                                                         *)
(* Abstractions: time is one bit per entry, idle for longer than           *)
(* idle_timeout; a conversation is one bit per actor, unflushed work; the  *)
(* prompt and the answer are left out.                                     *)
(***************************************************************************)
EXTENDS Naturals, Sequences, FiniteSets, SequencesExt

CONSTANTS Callers,     \* concurrent calls of execute / execute_stream
          Keys,        \* role_id:model
          MaxCalls,    \* bound: calls made
          MaxCached,   \* SessionCache::max_cached
          MaxSessions  \* session_semaphore

ASSUME RoleAssumption == /\ MaxCalls \in Nat
                         /\ MaxCached \in Nat \ {0} /\ MaxSessions \in Nat \ {0}

VARIABLES cache,      \* the LruCache, least recently used first: key, actor, idle
          built,      \* actors built so far, 1..built
          lock,       \* who holds an actor's mutex
          dirty,      \* actors with work that is not flushed
          permits,    \* free permits of session_semaphore
          call,       \* per caller: where it is, its key, its actor, the entry it evicted
          calls,      \* calls made
          cleaner,    \* the entries of the scan under way
          flushing    \* the actors flush() has still to lock

roleVars == <<cache, built, lock, dirty, permits, call, calls, cleaner, flushing>>

\* A call builds one actor at most.
Actors == 1..MaxCalls
NoActor == 0
Unlocked == "unlocked"
CleanerName == "cleaner"
FlusherName == "flusher"
Entry == [key : Keys, actor : Actors, idle : BOOLEAN]

Cached(k) == {i \in DOMAIN cache : cache[i].key = k}
Without(k) == SelectSeq(cache, LAMBDA e : e.key # k)
\* A lookup that hits puts the entry to the end, used just now.
Refreshed(e) == Append(Without(e.key), [e EXCEPT !.idle = FALSE])

NoCall == [pc |-> "idle", key |-> CHOOSE k \in Keys : TRUE, actor |-> NoActor, evicted |-> NoActor]
Ends(c) == call' = [call EXCEPT ![c] = NoCall]
Goes(c, pc) == call' = [call EXCEPT ![c].pc = pc]
With(c, pc, a) == call' = [call EXCEPT ![c].pc = pc, ![c].actor = a]

RoleInit ==
    /\ cache = <<>> /\ built = 0
    /\ lock = [a \in Actors |-> Unlocked] /\ dirty = {}
    /\ permits = MaxSessions
    /\ call = [c \in Callers |-> NoCall]
    /\ calls = 0 /\ cleaner = {} /\ flushing = {}

-----------------------------------------------------------------------------
(* execute: acquire_session, lock, complete.                                *)

Execute(c, k) ==
    /\ call[c].pc = "idle" /\ calls < MaxCalls
    /\ calls' = calls + 1
    /\ call' = [call EXCEPT ![c] = [NoCall EXCEPT !.pc = "lookup", !.key = k]]
    /\ UNCHANGED <<cache, built, lock, dirty, permits, cleaner, flushing>>

\* SessionCache::get: a hit is refreshed; an entry idle for too long is dropped, unflushed.
Get(c, hit, miss) ==
    LET found == {i \in Cached(call[c].key) : ~cache[i].idle}
    IN IF found # {}
       THEN LET e == cache[CHOOSE i \in found : TRUE]
            IN cache' = Refreshed(e) /\ With(c, hit, e.actor)
       ELSE cache' = Without(call[c].key) /\ Goes(c, miss)

FastPath(c) ==
    /\ call[c].pc = "lookup"
    /\ Get(c, "lock", "wait")
    /\ UNCHANGED <<built, lock, dirty, permits, calls, cleaner, flushing>>

\* A permit, then the second look; a hit gives the permit back at once.
SlowPath(c) ==
    /\ call[c].pc = "wait" /\ permits > 0
    /\ Get(c, "lock", "build")
    /\ permits' = IF call'[c].pc = "build" THEN permits - 1 ELSE permits
    /\ UNCHANGED <<built, lock, dirty, calls, cleaner, flushing>>

\* SessionBuilder::build, awaited, and the insert: the old entry of the key is dropped, or,
\* when the cache is full, the least recently used one evicted.
Build(c) ==
    /\ call[c].pc = "build" /\ built < MaxCalls
    /\ built' = built + 1
    /\ LET k == call[c].key
           mine == [key |-> k, actor |-> built + 1, idle |-> FALSE]
           full == Len(cache) >= MaxCached /\ Cached(k) = {}
       IN /\ cache' = Append(IF full THEN Tail(cache) ELSE Without(k), mine)
          /\ IF full /\ lock[Head(cache).actor] = Unlocked
             THEN /\ lock' = [lock EXCEPT ![Head(cache).actor] = c]
                  /\ call' = [call EXCEPT ![c].pc = "flush evicted", ![c].actor = built + 1,
                                          ![c].evicted = Head(cache).actor]
                  /\ UNCHANGED permits
             ELSE /\ permits' = permits + 1
                  /\ With(c, "lock", built + 1)
                  /\ UNCHANGED lock
    /\ UNCHANGED <<dirty, calls, cleaner, flushing>>

BuildFails_KeepsPermit(c) ==
    /\ call[c].pc = "build"
    /\ Ends(c)
    /\ UNCHANGED <<cache, built, lock, dirty, permits, calls, cleaner, flushing>>

BuildFails(c) ==
    /\ call[c].pc = "build"
    /\ permits' = permits + 1
    /\ Ends(c)
    /\ UNCHANGED <<cache, built, lock, dirty, calls, cleaner, flushing>>

\* The evicted actor is flushed; its mutex and the permit are given back.
FlushEvicted(c) ==
    /\ call[c].pc = "flush evicted"
    /\ dirty' = dirty \ {call[c].evicted}
    /\ lock' = [lock EXCEPT ![call[c].evicted] = Unlocked]
    /\ permits' = permits + 1
    /\ call' = [call EXCEPT ![c].pc = "lock", ![c].evicted = NoActor]
    /\ UNCHANGED <<cache, built, calls, cleaner, flushing>>

Lock(c) ==
    /\ call[c].pc = "lock" /\ lock[call[c].actor] = Unlocked
    /\ lock' = [lock EXCEPT ![call[c].actor] = c]
    /\ Goes(c, "complete")
    /\ UNCHANGED <<cache, built, dirty, permits, calls, cleaner, flushing>>

\* complete returns, with an answer or an error.
Complete(c) ==
    /\ call[c].pc = "complete"
    /\ dirty' = dirty \cup {call[c].actor}
    /\ lock' = [lock EXCEPT ![call[c].actor] = Unlocked]
    /\ Ends(c)
    /\ UNCHANGED <<cache, built, permits, calls, cleaner, flushing>>

-----------------------------------------------------------------------------
(* Time, the cleaner, flush().                                              *)

\* An entry has not been looked up for idle_timeout, in use or not.
Idles(i) ==
    /\ i \in DOMAIN cache /\ ~cache[i].idle
    /\ cache' = [cache EXCEPT ![i].idle = TRUE]
    /\ UNCHANGED <<built, lock, dirty, permits, call, calls, cleaner, flushing>>

\* evict_idle: every idle entry leaves the cache.
CleanerScan ==
    /\ cleaner = {} /\ \A a \in Actors : lock[a] # CleanerName
    /\ \E i \in DOMAIN cache : cache[i].idle
    /\ cleaner' = {cache[i].actor : i \in {j \in DOMAIN cache : cache[j].idle}}
    /\ cache' = SelectSeq(cache, LAMBDA e : ~e.idle)
    /\ UNCHANGED <<built, lock, dirty, permits, call, calls, flushing>>

\* try_lock: an actor in use is let go of as it is.
CleanerTry(a) ==
    /\ a \in cleaner /\ \A b \in Actors : lock[b] # CleanerName
    /\ cleaner' = cleaner \ {a}
    /\ lock' = IF lock[a] = Unlocked THEN [lock EXCEPT ![a] = CleanerName] ELSE lock
    /\ UNCHANGED <<cache, built, dirty, permits, call, calls, flushing>>

\* flush(): every actor the cache holds now, one after the other.
FlushStarts ==
    /\ flushing = {} /\ \A a \in Actors : lock[a] # FlusherName
    /\ cache # <<>>
    /\ flushing' = {cache[i].actor : i \in DOMAIN cache}
    /\ UNCHANGED <<cache, built, lock, dirty, permits, call, calls, cleaner>>

FlushLock(a) ==
    /\ a \in flushing /\ \A b \in Actors : lock[b] # FlusherName
    /\ lock[a] = Unlocked
    /\ lock' = [lock EXCEPT ![a] = FlusherName]
    /\ flushing' = flushing \ {a}
    /\ UNCHANGED <<cache, built, dirty, permits, call, calls, cleaner>>

\* SessionActor::flush returns; when it fails, flush() gives up the rest.
Flushed(a) ==
    /\ lock[a] \in {CleanerName, FlusherName}
    /\ lock' = [lock EXCEPT ![a] = Unlocked]
    /\ \/ dirty' = dirty \ {a} /\ UNCHANGED flushing
       \/ UNCHANGED dirty /\ flushing' = IF lock[a] = FlusherName THEN {} ELSE flushing
    /\ UNCHANGED <<cache, built, permits, call, calls, cleaner>>

CallStep(c) ==
    \/ FastPath(c) \/ SlowPath(c) \/ Build(c) \/ BuildFails(c) \/ FlushEvicted(c)
    \/ Lock(c) \/ Complete(c)

RoleNext ==
    \/ \E c \in Callers : (\E k \in Keys : Execute(c, k)) \/ CallStep(c)
    \/ \E i \in 1..MaxCached : Idles(i)
    \/ CleanerScan \/ FlushStarts
    \/ \E a \in Actors : CleanerTry(a) \/ FlushLock(a) \/ Flushed(a)

\* Tokio's mutexes and semaphores are fair queues; a completion and a flush return.
RoleFairness == /\ \A c \in Callers : SF_roleVars(CallStep(c))
                /\ \A a \in Actors : WF_roleVars(Flushed(a))

RoleSpec == RoleInit /\ [][RoleNext]_roleVars /\ RoleFairness

-----------------------------------------------------------------------------

\* Every call comes to an end: a permit is given back on each way out, whatever is
\* evicted, cleaned, flushed, replaced or fails meanwhile.
CallsEnd == \A c \in Callers : (call[c].pc # "idle") ~> (call[c].pc = "idle")

\* What the documentation expects and the code does not keep (README).
InUse(a) == \E c \in Callers : call[c].actor = a /\ call[c].pc \in {"lock", "complete"}
\* The semaphore bounds the number of sessions.
SessionsBounded == Cardinality({a \in Actors : InUse(a)}) <= MaxSessions
\* A key has one session.
OneSessionPerKey == [][\A c \in Callers : call[c].pc = "build" /\ built' > built /\ call'[c] # call[c] =>
                          Cached(call[c].key) = {}]_roleVars
\* The cleaner keeps an entry whose actor is in use for its next cycle.
BusyIsKept == [][\A a \in Actors : a \in cleaner /\ a \notin cleaner' /\ lock[a] # Unlocked =>
                    \E i \in DOMAIN cache' : cache'[i].actor = a]_roleVars
\* What a session has not stored is still reachable.
NothingDropped == \A a \in dirty : \/ \E i \in DOMAIN cache : cache[i].actor = a
                                   \/ InUse(a) \/ a \in cleaner \cup flushing \/ lock[a] # Unlocked
==============================================================================
