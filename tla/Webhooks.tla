------------------------------- MODULE Webhooks -------------------------------
(***************************************************************************)
(* WebhookEventListener: a session's events posted to a URL.               *)
(*                                                                         *)
(* The listener queues jobs without waiting; a worker takes them one by    *)
(* one, waits for a permit and spawns a delivery; a delivery posts, with   *)
(* retries, and records its outcome.  Enough failed deliveries in a row    *)
(* disable the webhook.                                                    *)
(*                                                                         *)
(* Abstractions: an event is whether its type passes the filter and has a  *)
(* payload; an answer is whether it was a success; back-off has no length. *)
(***************************************************************************)
EXTENDS Naturals, Sequences, FiniteSets

CONSTANTS QueueCap,      \* 256 in the code
          Permits,       \* 5
          Retries,       \* 3
          FailureLimit,  \* 10
          MaxJobs        \* bound: events seen

ASSUME WebhookAssumption ==
    /\ {QueueCap, Permits, FailureLimit} \subseteq Nat \ {0}
    /\ Retries \in Nat /\ MaxJobs \in Nat

VARIABLES jobs,      \* the delivery queue
          made,      \* events seen
          inHand,    \* the job the worker waits for a permit with, 0 if none
          delivery,  \* what each spawned delivery is doing
          failures,  \* consecutive_failures
          disabled,
          outcomes   \* history: the outcomes in the order they were recorded

webhookVars == <<jobs, made, inHand, delivery, failures, disabled, outcomes>>

Jobs == 1..MaxJobs
Under(s) == {j \in Jobs : delivery[j].pc \in s}
HoldsPermit == Under({"spawned", "posting", "delivered", "failed", "disabling"})

WebhookInit ==
    /\ jobs = <<>> /\ made = 0 /\ inHand = 0
    /\ delivery = [j \in Jobs |-> [pc |-> "none", tries |-> 0]]
    /\ failures = 0 /\ disabled = FALSE /\ outcomes = <<>>

Delivers(j, pc) == delivery' = [delivery EXCEPT ![j].pc = pc]

\* on_event: try_send. (The flag it looks at first is one of its own, which nothing sets.)
OnEvent ==
    /\ made < MaxJobs
    /\ made' = made + 1
    /\ jobs' = IF Len(jobs) < QueueCap THEN Append(jobs, made + 1) ELSE jobs
    /\ UNCHANGED <<inHand, delivery, failures, disabled, outcomes>>

\* The worker skips what it takes when the webhook is disabled.
WorkerTakes ==
    /\ inHand = 0 /\ jobs # <<>>
    /\ jobs' = Tail(jobs)
    /\ inHand' = IF disabled THEN 0 ELSE Head(jobs)
    /\ UNCHANGED <<made, delivery, failures, disabled, outcomes>>

WorkerSpawns ==
    /\ inHand # 0 /\ Cardinality(HoldsPermit) < Permits
    /\ Delivers(inHand, "spawned")
    /\ inHand' = 0
    /\ UNCHANGED <<jobs, made, failures, disabled, outcomes>>

\* The events wanted, and those a payload is built for; every other delivery just ends.
Filter(j) ==
    /\ delivery[j].pc = "spawned"
    /\ \E wanted \in BOOLEAN : Delivers(j, IF wanted THEN "posting" ELSE "done")
    /\ UNCHANGED <<jobs, made, inHand, failures, disabled, outcomes>>

\* One request, and its answer; the last retry that fails fails the delivery.
Post(j) ==
    /\ delivery[j].pc = "posting"
    /\ \/ Delivers(j, "delivered")
       \/ IF delivery[j].tries = Retries
          THEN Delivers(j, "failed")
          ELSE delivery' = [delivery EXCEPT ![j].tries = @ + 1]
    /\ UNCHANGED <<jobs, made, inHand, failures, disabled, outcomes>>

Record_KeepsCount(j) ==
    /\ delivery[j].pc \in {"delivered", "failed"}
    /\ outcomes' = Append(outcomes, delivery[j].pc)
    /\ failures' = IF delivery[j].pc = "delivered" THEN failures ELSE failures + 1
    /\ Delivers(j, IF delivery[j].pc = "failed" /\ failures' >= FailureLimit THEN "disabling" ELSE "done")
    /\ UNCHANGED <<jobs, made, inHand, disabled>>

\* Under the mutex: a success resets the count, a failure adds to it.
Record(j) ==
    /\ delivery[j].pc \in {"delivered", "failed"}
    /\ outcomes' = Append(outcomes, delivery[j].pc)
    /\ failures' = IF delivery[j].pc = "delivered" THEN 0 ELSE failures + 1
    /\ Delivers(j, IF delivery[j].pc = "failed" /\ failures' >= FailureLimit THEN "disabling" ELSE "done")
    /\ UNCHANGED <<jobs, made, inHand, disabled>>

\* The mutex is given back before the flag is set.
Disable(j) ==
    /\ delivery[j].pc = "disabling"
    /\ disabled' = TRUE
    /\ Delivers(j, "done")
    /\ UNCHANGED <<jobs, made, inHand, failures, outcomes>>

WebhookNext ==
    \/ OnEvent \/ WorkerTakes \/ WorkerSpawns
    \/ \E j \in Jobs : Filter(j) \/ Post(j) \/ Record(j) \/ Disable(j)

WebhookSpec == WebhookInit /\ [][WebhookNext]_webhookVars

-----------------------------------------------------------------------------
\* Whether the last n of the first k outcomes are failures.
FailedInARow(n, k) == k >= n /\ \A i \in k - n + 1..k : outcomes[i] = "failed"

\* A webhook is disabled only after FailureLimit deliveries failed one after the other,
\* with no delivery that succeeded recorded between them, whatever ran concurrently; and
\* whoever recorded the last of such a row disables it.
DisableJustified ==
    LET limitReached == \E k \in DOMAIN outcomes : FailedInARow(FailureLimit, k)
    IN disabled \/ Under({"disabling"}) # {} <=> limitReached

\* What a reader of the code may expect and it does not keep (README).
\* Nothing is posted once the webhook is disabled.
QuietOnceDisabled == [][\A j \in Jobs : Post(j) => ~disabled]_webhookVars
\* Deliveries are posted in the order of their events.
DeliveredInOrder == \A i, j \in Jobs : i < j /\ delivery[i].pc = "spawned" => delivery[j].pc # "delivered"
==============================================================================
