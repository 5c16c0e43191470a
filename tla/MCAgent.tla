------------------------------- MODULE MCAgent -------------------------------
(***************************************************************************)
(* An agent from the inside, in two parts, each on its own: the loop of a  *)
(* run over the transcript, and the session that starts, interrupts,       *)
(* resets and deletes runs.                                                *)
(***************************************************************************)
EXTENDS AgentLoop, SessionActor

VARIABLE part

all == <<part, vars, actorVars>>

AgentInit == part \in {"loop", "actor"} /\ Init /\ ActorInit /\ (part = "loop" => disconnects /\ streams)

AgentNext ==
    \/ part = "loop" /\ Next /\ UNCHANGED <<part, actorVars>>
    \/ part = "actor" /\ ActorNext /\ UNCHANGED <<part, vars>>

\* Neither has a fair step to take in its initial states.
AgentSpec ==
    /\ AgentInit /\ [][AgentNext]_all
    /\ WF_vars(LoopStep)
    /\ WF_actorVars(ActorStep) /\ \A t \in Token : WF_actorVars(BackgroundStep(t))
==============================================================================
