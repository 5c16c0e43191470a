------------------------------- MODULE MCService ------------------------------
(***************************************************************************)
(* The tenant layer and the gateway around a session: delivery of events,  *)
(* webhooks, locks, rate limiter, admission and routes, each on its own: a  *)
(* behaviour is one of the part chosen at the start.                       *)
(***************************************************************************)
EXTENDS EventDelivery, Webhooks, TenantLocks, RateLimiter, Admission, Gateway

CONSTANTS s1, s2,  \* two sessions of a tenant
          Parts    \* the parts a run looks at

VARIABLE part

all == <<part, deliveryVars, webhookVars, locksVars, limiterVars, admissionVars, gatewayVars>>

MCKind == [c \in Clients |-> CASE c = "s" -> "sse" [] c = "w" -> "ws" [] c = "v" -> "wait"]

Three == {"p", "q", "r"}
Four == Three \cup {"i"}
MCSessions == {s1, s2}
Asked(op, s) == [op |-> op, on |-> s]
AskThree(x, y, z) == [p |-> x, q |-> y, r |-> z]
\* Every session in a shard of its own; the sessions in one, the new ones in another.
Apart == [s \in Known |-> s]
Shared == [s \in Known |-> IF s \in MCSessions THEN "old" ELSE "new"]

\* Prompts against updates and deletes, readers against both, copies of a session being
\* deleted, two deletes of one session, copies of each other's shards.
MCTraffic ==
    [ask : { AskThree(Asked("prompt", s1), Asked("update", s1), Asked("delete", s1)),
             AskThree(Asked("compact", s1), Asked("fork", s1), Asked("delete", s1)),
             AskThree(Asked("update", s1), Asked("query", s1), Asked("clone", s1)),
             AskThree(Asked("delete", s1), Asked("delete", s1), Asked("create", s1)),
             AskThree(Asked("fork", s1), Asked("reset", s2), Asked("update", s2)),
             AskThree(Asked("prompt", s1), Asked("interrupt", s1), Asked("delete", s2)) },
     home : {Apart, Shared}, workers : {2, 3}]

\* Two workers, and two deletes while a prompt runs.
MCBusy ==
    [ask : {[r \in Four |-> IF r = "i" THEN Asked("interrupt", s1)
                            ELSE IF r = "p" THEN Asked("prompt", s1) ELSE Asked("delete", s1)]},
     home : {Apart}, workers : {2}]

-----------------------------------------------------------------------------
(* The gateway.                                                            *)

Strategies(t, r, x) == [termination |-> t, rhythm |-> r, context |-> x]
Unsaid == Strategies("absent", "absent", "absent")
Body_(p, s, b, n) == [prompt |-> p, strategy |-> s, builtin |-> b, count |-> n, part |-> "none", model |-> "absent"]
Plain == Body_("absent", Unsaid, "absent", 0)
Calling(r, w) == [route |-> r, what |-> w]
MCRouteCalls ==
    {Calling("create", Body_("absent", Strategies("goal", "loop", "absent"), "absent", 1)),
     Calling("batch", Body_("mine", Strategies("absent", "absent", "compact"), "disabled", 2)),
     Calling("batch", Body_("mine", Unsaid, "disabled", 3)),
     Calling("send", [Plain EXCEPT !.part = "media"]),
     Calling("update", [Plain EXCEPT !.model = "other"])}
    \cup {Calling(r, Plain) : r \in {"clone", "fork", "delete", "messages", "reset", "complete", "tavern"}}

-----------------------------------------------------------------------------
\* A part that is not chosen rests in an initial state, or, where something must happen,
\* in one where it has happened.
LocksRest ==
    /\ traffic = CHOOSE t \in Traffic : TRUE
    /\ live = Sessions /\ guards = {} /\ actor = [s \in Known |-> <<>>]
    /\ request = [r \in Requests |-> [at |-> 1, is |-> "done"]]
LimiterRests == LimiterInit /\ prompt = TRUE

ServiceInit ==
    /\ part \in Parts
    /\ DeliveryInit /\ WebhookInit /\ AdmissionInit /\ GatewayInit
    /\ IF part = "locks" THEN LocksInit ELSE LocksRest
    /\ IF part = "limiter" THEN LimiterInit ELSE LimiterRests

ServiceNext ==
    \/ part = "delivery" /\ DeliveryNext /\ UNCHANGED <<part, webhookVars, locksVars, limiterVars, admissionVars, gatewayVars>>
    \/ part = "webhooks" /\ WebhookNext /\ UNCHANGED <<part, deliveryVars, locksVars, limiterVars, admissionVars, gatewayVars>>
    \/ part = "locks" /\ LocksNext /\ UNCHANGED <<part, deliveryVars, webhookVars, limiterVars, admissionVars, gatewayVars>>
    \/ part = "limiter" /\ LimiterNext /\ UNCHANGED <<part, deliveryVars, webhookVars, locksVars, admissionVars, gatewayVars>>
    \/ part = "admission" /\ AdmissionNext /\ UNCHANGED <<part, deliveryVars, webhookVars, locksVars, limiterVars, gatewayVars>>
    \/ part = "gateway" /\ GatewayNext /\ UNCHANGED <<part, deliveryVars, webhookVars, locksVars, limiterVars, admissionVars>>

\* A part that rests has no fair step enabled.
ServiceSpec == ServiceInit /\ [][ServiceNext]_all /\ LocksFairness
==============================================================================
