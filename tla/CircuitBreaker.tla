--------------------------- MODULE CircuitBreaker ---------------------------
(***************************************************************************)
(* The breaker around LLM calls (agent-core/src/circuit_breaker.rs) and    *)
(* the calls that go through it (AgentLoop::call_llm_with_retry).          *)
(*                                                                         *)
(* check() is modelled at the grain of its atomics: its fast path works    *)
(* under the read lock, its slow path under the write lock, and after      *)
(* Open -> HalfOpen it counts itself with no lock at all.  Each record_*   *)
(* holds the write lock from start to end and is one step.  A call checks  *)
(* once, before its first attempt, and records every attempt.              *)
(***************************************************************************)
EXTENDS Integers, FiniteSets, TLC

CONSTANTS
    Calls,              \* callers, each making one call after another
    FailureThreshold,   \* failure_threshold
    HalfOpenMax,        \* half_open_max
    RetryLimit,         \* StreamOptions::max_retries
    Word,               \* the counters are taken modulo Word (2^32 in the code)
    MaxFailures,        \* bound: the failure count saturates here
    EndingSets,         \* the ways calls may end, for each behaviour looked at
    MayStall            \* whether open_duration can pass inside one check()

AllEndings == {"succeeded", "failed", "response_failed", "refused", "leaves"}

ASSUME BreakerAssumption ==
    /\ IsFiniteSet(Calls)
    /\ FailureThreshold \in Nat \ {0}
    /\ HalfOpenMax \in Nat \ {0}
    /\ RetryLimit \in Nat
    /\ Word \in Nat /\ Word > HalfOpenMax + Cardinality(Calls)
    /\ MaxFailures \in Nat /\ MaxFailures >= FailureThreshold
    /\ EndingSets \subseteq SUBSET AllEndings
    /\ MayStall \in BOOLEAN

VARIABLES
    endings,            \* the ways calls may end; it never changes
    state,              \* CircuitBreaker.state
    failures,           \* CircuitBreaker.consecutive_failures
    halfOpenRequests,   \* CircuitBreaker.half_open_requests
    cooled,             \* open_duration has passed since last_failure_time
    progress,           \* where each call is
    counted,            \* what fetch_add returned to a caller inside check()
    retryCount,         \* retry_count of each call
    admitted,           \* history: how many were let through since HalfOpen began
    inARow              \* history: failed attempts since the last good response

vars == <<endings, state, failures, halfOpenRequests, cooled, progress, counted, retryCount, admitted,
          inARow>>

\* A caller between its fetch_add and the decision holds the read lock
\* ("reading"), the write lock ("writing") or no lock ("unlocked"); "opened"
\* is before that fetch_add, with the write lock just dropped.
Counting == {"reading", "writing", "unlocked"}

\* What an attempt has come to, waiting for the write lock to record it.
Outcomes == {"succeeded", "refused", "retrying", "failed", "response_failed", "falling_through"}

Waiting == {"slow"} \cup Outcomes
PC == {"idle", "opened", "calling"} \cup Counting \cup Waiting

\* tokio's RwLock is fair: a waiting writer keeps new readers out.
ReadLockFree == \A c \in Calls : progress[c] \notin {"writing"} \cup Waiting
WriteLockFree == \A c \in Calls : progress[c] \notin {"reading", "writing"}

GoTo(c, place) == progress' = [progress EXCEPT ![c] = place]

\* Callers are interchangeable: no definition tells one from another, so safety is checked
\* up to their permutations; the run about liveness does without.
CallSymmetry == Permutations(Calls)

Init ==
    /\ endings \in EndingSets
    /\ state = "Closed" /\ failures = 0 /\ halfOpenRequests = 0
    /\ cooled = TRUE
    /\ progress = [c \in Calls |-> "idle"]
    /\ counted = [c \in Calls |-> 0]
    /\ retryCount = [c \in Calls |-> 0]
    /\ admitted = 0 /\ inARow = 0

-----------------------------------------------------------------------------
(* check                                                                   *)

Admit(c) ==
    /\ GoTo(c, "calling")
    /\ retryCount' = [retryCount EXCEPT ![c] = 0]

\* half_open_requests.fetch_add(1)
CountSelf(c, place) ==
    /\ counted' = [counted EXCEPT ![c] = halfOpenRequests]
    /\ halfOpenRequests' = (halfOpenRequests + 1) % Word
    /\ GoTo(c, place)

\* The fast path, under the read lock.
CheckFast(c) ==
    /\ progress[c] = "idle"
    /\ ReadLockFree
    /\ \/ /\ state = "Closed"
          /\ Admit(c)
          /\ UNCHANGED <<halfOpenRequests, counted>>
       \/ /\ state = "HalfOpen"
          /\ CountSelf(c, "reading")
          /\ UNCHANGED retryCount
       \/ /\ state = "Open"
          /\ GoTo(c, "slow")
          /\ UNCHANGED <<halfOpenRequests, counted, retryCount>>
    /\ UNCHANGED <<endings, state, failures, cooled, admitted, inARow>>

\* The slow path in state Open: reject, or enter HalfOpen and drop the lock.
SlowOpen(c) ==
    \/ /\ cooled
       /\ state' = "HalfOpen"
       /\ halfOpenRequests' = 0
       /\ admitted' = 0
       /\ GoTo(c, "opened")
    \/ /\ ~cooled
       /\ GoTo(c, "idle")
       /\ UNCHANGED <<state, halfOpenRequests, admitted>>

\* The slow path, under the write lock: the state may have changed meanwhile.
CheckSlow(c) ==
    /\ progress[c] = "slow"
    /\ WriteLockFree
    /\ \/ /\ state = "Open"
          /\ SlowOpen(c)
          /\ UNCHANGED <<counted, retryCount>>
       \/ /\ state = "Closed"
          /\ Admit(c)
          /\ UNCHANGED <<state, halfOpenRequests, counted, admitted>>
       \/ /\ state = "HalfOpen"
          /\ CountSelf(c, "writing")
          /\ UNCHANGED <<state, retryCount, admitted>>
    /\ UNCHANGED <<endings, failures, cooled, inARow>>

\* After drop(state): no lock is held from here to the decision.
CountUnlocked(c) ==
    /\ progress[c] = "opened"
    /\ CountSelf(c, "unlocked")
    /\ UNCHANGED <<endings, state, failures, cooled, retryCount, admitted, inARow>>

\* Faulty: one probe too many.
Decide_OffByOne(c) ==
    /\ progress[c] \in Counting
    /\ \/ /\ counted[c] > HalfOpenMax
          /\ halfOpenRequests' = (halfOpenRequests - 1) % Word
          /\ GoTo(c, "idle")
          /\ UNCHANGED <<retryCount, admitted>>
       \/ /\ counted[c] <= HalfOpenMax
          /\ Admit(c)
          /\ admitted' = admitted + 1
          /\ UNCHANGED halfOpenRequests
    /\ UNCHANGED <<endings, state, failures, cooled, counted, inARow>>

\* Faulty: a rejected caller leaves its count behind.
Decide_KeepsCount(c) ==
    /\ progress[c] \in Counting
    /\ \/ /\ counted[c] >= HalfOpenMax
          /\ GoTo(c, "idle")
          /\ UNCHANGED <<retryCount, admitted>>
       \/ /\ counted[c] < HalfOpenMax
          /\ Admit(c)
          /\ admitted' = admitted + 1
    /\ UNCHANGED <<endings, state, failures, halfOpenRequests, cooled, counted, inARow>>

\* current >= half_open_max: take the count back and reject; else let through.
Decide(c) ==
    /\ progress[c] \in Counting
    /\ \/ /\ counted[c] >= HalfOpenMax
          /\ halfOpenRequests' = (halfOpenRequests - 1) % Word
          /\ GoTo(c, "idle")
          /\ UNCHANGED <<retryCount, admitted>>
       \/ /\ counted[c] < HalfOpenMax
          /\ Admit(c)
          /\ admitted' = admitted + 1
          /\ UNCHANGED halfOpenRequests
    /\ UNCHANGED <<endings, state, failures, cooled, counted, inARow>>

-----------------------------------------------------------------------------
(* record_success and record_failure                                       *)

RecordSuccess ==
    /\ WriteLockFree
    /\ failures' = 0
    /\ IF state = "HalfOpen"
       THEN state' = "Closed" /\ halfOpenRequests' = 0
       ELSE UNCHANGED <<state, halfOpenRequests>>
    /\ UNCHANGED cooled

\* Faulty: the breaker opens one failure late.
RecordFailure_OpensLate ==
    LET n == IF failures < MaxFailures THEN failures + 1 ELSE failures
    IN  /\ WriteLockFree
        /\ failures' = n
        /\ cooled' = FALSE
        /\ \/ /\ state = "HalfOpen"
              /\ state' = "Open"
              /\ halfOpenRequests' = (halfOpenRequests - 1) % Word
           \/ /\ state # "HalfOpen"
              /\ state' = IF state = "Closed" /\ n > FailureThreshold THEN "Open" ELSE state
              /\ UNCHANGED halfOpenRequests

RecordFailure ==
    LET n == IF failures < MaxFailures THEN failures + 1 ELSE failures
    IN  /\ WriteLockFree
        /\ failures' = n
        /\ cooled' = FALSE
        /\ \/ /\ state = "HalfOpen"
              /\ state' = "Open"
              /\ halfOpenRequests' = (halfOpenRequests - 1) % Word
           \/ /\ state # "HalfOpen"
              /\ state' = IF state = "Closed" /\ n >= FailureThreshold THEN "Open" ELSE state
              /\ UNCHANGED halfOpenRequests

-----------------------------------------------------------------------------
(* call_llm_with_retry between check() and its return                      *)

\* An attempt ends: the provider answered ("succeeded"), the stream ended in an
\* Error that is not retryable ("refused"), a retryable failure with retries
\* left ("retrying") or, with none left, from stream() ("failed") or from the
\* stream itself ("response_failed").
AttemptEnds(c) ==
    /\ progress[c] = "calling"
    /\ \E e \in endings \cap {"succeeded", "refused", "failed", "response_failed"} :
          GoTo(c, IF e \in {"failed", "response_failed"} /\ retryCount[c] < RetryLimit
                  THEN "retrying" ELSE e)
    /\ UNCHANGED <<endings, state, failures, halfOpenRequests, cooled, counted, retryCount,
                   admitted, inARow>>

\* Cancelled, or stream() failed with an error that is not retryable: nothing
\* is recorded.
Leaves(c) ==
    /\ progress[c] = "calling" /\ "leaves" \in endings
    /\ GoTo(c, "idle")
    /\ UNCHANGED <<endings, state, failures, halfOpenRequests, cooled, counted, retryCount,
                   admitted, inARow>>

\* A refused attempt, and a response that failed for good, are recorded as
\* successes too.
RecordsSuccess(c) ==
    /\ progress[c] \in {"succeeded", "refused", "falling_through"}
    /\ RecordSuccess
    /\ inARow' = IF progress[c] = "succeeded" THEN 0 ELSE inARow
    /\ GoTo(c, "idle")
    /\ UNCHANGED <<endings, counted, retryCount, admitted>>

\* A retry makes no new check(); a failed response runs on into record_success.
RecordsFailure(c) ==
    /\ RecordFailure
    /\ inARow' = IF inARow < MaxFailures THEN inARow + 1 ELSE inARow
    /\ \/ /\ progress[c] = "retrying"
          /\ retryCount' = [retryCount EXCEPT ![c] = @ + 1]
          /\ GoTo(c, "calling")
       \/ /\ progress[c] = "failed"
          /\ GoTo(c, "idle")
          /\ UNCHANGED retryCount
       \/ /\ progress[c] = "response_failed"
          /\ GoTo(c, "falling_through")
          /\ UNCHANGED retryCount
    /\ UNCHANGED <<endings, counted, admitted>>

\* open_duration passes.  It is seconds and a check() is instructions, so it
\* passes inside a check() only where the instance says so.
CoolDown ==
    /\ ~cooled
    /\ MayStall \/ \A c \in Calls : progress[c] \notin Counting \cup {"opened"}
    /\ cooled' = TRUE
    /\ UNCHANGED <<endings, state, failures, halfOpenRequests, progress, counted, retryCount, admitted, inARow>>

Check(c) == CheckFast(c) \/ CheckSlow(c) \/ CountUnlocked(c) \/ Decide(c)

Attempt(c) == AttemptEnds(c) \/ Leaves(c) \/ RecordsSuccess(c) \/ RecordsFailure(c)

Next == CoolDown \/ \E c \in Calls : Check(c) \/ Attempt(c)

Spec == Init /\ [][Next]_vars

\* Requests keep coming, tokio runs each caller, each attempt ends and time
\* passes.  The locks are tokio's: they are fair, nobody waits for one forever.
Fairness ==
    /\ WF_vars(CoolDown)
    /\ \A c \in Calls : SF_vars(Check(c)) /\ SF_vars(Attempt(c))

LiveSpec == Spec /\ Fairness

-----------------------------------------------------------------------------
(* Properties.                                                             *)

TypeOK ==
    /\ endings \in EndingSets
    /\ state \in {"Closed", "Open", "HalfOpen"}
    /\ failures \in 0..MaxFailures
    /\ halfOpenRequests \in 0..(Word - 1)
    /\ cooled \in BOOLEAN
    /\ progress \in [Calls -> PC]
    /\ counted \in [Calls -> 0..(Word - 1)]
    /\ retryCount \in [Calls -> 0..RetryLimit]
    /\ admitted \in Nat
    /\ inARow \in 0..MaxFailures

\* While the breaker is closed, fewer than failure_threshold failures have been
\* recorded since the last success, whichever calls they come from.
ClosedBelowThreshold == state = "Closed" => failures < FailureThreshold

\* Each attempt is recorded as what it was, or not at all.
Straight == endings \subseteq {"succeeded", "failed", "leaves"}

\* "failure threshold: 5 errors in a row": with that many failed attempts in a
\* row, the breaker is not closed.  It is otherwise where a response may fail after its
\* stream began: that is recorded as a failure and then as a success.
ThresholdTrips == Straight /\ inARow >= FailureThreshold => state # "Closed"

\* One half-open period lets at most half_open_max callers through, however
\* the checks, and the late answers of older calls, interleave.
ProbesBounded == state = "HalfOpen" => admitted <= HalfOpenMax

\* Those between fetch_add and the decision.
Counters == {c \in Calls : progress[c] \in Counting}

\* In a half-open period the counter is exact, whatever late answers of older
\* calls did to it before: those let through and those about to decide.
CountExact ==
    state = "HalfOpen" => halfOpenRequests = admitted + Cardinality(Counters)

\* The circuit leaves Open only when open_duration has passed since the newest
\* failure, also for a caller that saw Open under the read lock and had to wait
\* for the write lock while others went through HalfOpen and back.
HalfOpenAfterCooldown ==
    [][state = "Open" /\ state' # "Open" => state' = "HalfOpen" /\ cooled]_vars

\* "Returns Err ... if the circuit is Open": nobody is let through while it is.
OpenAdmitsNobody ==
    [][\A c \in Calls : state = "Open" /\ progress[c] # "calling" => progress'[c] # "calling"]_vars

\* A half-open period ends: its admitted decide it one way or the other.
HalfOpenResolves == state = "HalfOpen" ~> state # "HalfOpen"
=============================================================================
