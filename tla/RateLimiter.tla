------------------------------ MODULE RateLimiter ------------------------------
(***************************************************************************)
(* The gateway's rate limiter: a token bucket for the requests of a        *)
(* tenant, refilled when it is looked at, removed when nobody has looked   *)
(* at it for long.  Each request reads the clock first and changes the     *)
(* bucket, under its entry's lock, afterwards.                             *)
(*                                                                         *)
(* Abstractions: instants are kept as ages; time passes in units that      *)
(* refill a whole number of tokens.                                        *)
(***************************************************************************)
EXTENDS Integers, FiniteSets

CONSTANTS Callers,     \* requests of one tenant at a time
          Rate, Burst, \* requests_per_second, burst_size
          Stale,       \* STALE_THRESHOLD_SECS
          CleanEvery,  \* a cleanup every so many checks
          MaxAge       \* bound: ages are not told apart beyond it

ASSUME LimiterAssumption ==
    /\ {Rate, Burst, Stale, CleanEvery} \subseteq Nat \ {0} /\ MaxAge \in Nat
    \* What makes it safe to forget a bucket: it would be full.
    /\ Burst <= Rate * Stale /\ Stale < MaxAge

VARIABLES bucket,  \* tokens, and how long ago last_refill was; or NoBucket
          clock,   \* per request, how long ago it read the clock, -1 if it has not
          checks,  \* check_count
          prompt,  \* circumstance: no time passes between a check's two steps
          excess   \* history: the most requests, beyond the rate, of any time up to now

limiterVars == <<bucket, clock, checks, prompt, excess>>

NoBucket == [tokens |-> -1, idle |-> 0]
Least(a, b) == IF a < b THEN a ELSE b
Most(a, b) == IF a > b THEN a ELSE b

\* Bound: an excess is not counted further than it takes to see it.
MaxExcess == Burst + 1

LimiterInit ==
    /\ bucket = NoBucket /\ clock = [c \in Callers |-> -1] /\ checks = 0
    /\ prompt \in BOOLEAN /\ excess = 0

\* check begins: Instant::now().
ReadClock(c) ==
    /\ clock[c] = -1
    /\ clock' = [clock EXCEPT ![c] = 0]
    /\ UNCHANGED <<bucket, checks, prompt, excess>>

\* How long it is, by the caller's clock, since the bucket was last refilled.
Elapsed(c) == Most(0, bucket.idle - clock[c])

Cleaned(c) == IF checks = 0 /\ Elapsed(c) >= Stale THEN NoBucket ELSE bucket

Refilled_Uncapped(c) ==
    IF Cleaned(c) = NoBucket THEN Burst ELSE Least(bucket.tokens + Elapsed(c) * Rate, Burst + Rate)

Refilled(c) ==
    IF Cleaned(c) = NoBucket THEN Burst ELSE Least(bucket.tokens + Elapsed(c) * Rate, Burst)

\* Under the entry's lock: refill, to the caller's clock, and take a token if there is one.
Check(c) ==
    /\ clock[c] >= 0
    /\ LET admitted == Refilled(c) >= 1
       IN /\ bucket' = [tokens |-> IF admitted THEN Refilled(c) - 1 ELSE Refilled(c), idle |-> clock[c]]
          /\ excess' = IF admitted THEN Least(excess + 1, MaxExcess) ELSE excess
    /\ checks' = (checks + 1) % CleanEvery
    /\ clock' = [clock EXCEPT ![c] = -1]
    /\ UNCHANGED prompt

Older(age) == Least(age + 1, MaxAge)

Tick ==
    /\ prompt => \A c \in Callers : clock[c] = -1
    /\ \A c \in Callers : clock[c] < Stale
    /\ bucket' = IF bucket = NoBucket THEN bucket ELSE [bucket EXCEPT !.idle = Older(@)]
    /\ clock' = [c \in Callers |-> IF clock[c] = -1 THEN -1 ELSE clock[c] + 1]
    /\ excess' = Most(0, excess - Rate)
    /\ UNCHANGED <<checks, prompt>>

LimiterNext == Tick \/ \E c \in Callers : ReadClock(c) \/ Check(c)

LimiterSpec == LimiterInit /\ [][LimiterNext]_limiterVars

\* In any stretch of time at most Burst requests are let through beyond what the rate
\* allows, whatever is cleaned up meanwhile, as long as no time passes within a check.
RateBounded == prompt => excess <= Burst

\* What it was meant to keep with slow checks too: a check that read the clock early turns
\* last_refill back, and the same time is refilled twice (README).
RateBoundedAlways == excess <= Burst
==============================================================================
