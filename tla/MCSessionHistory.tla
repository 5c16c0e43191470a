-------------------------- MODULE MCSessionHistory --------------------------
(***************************************************************************)
(* Instances of SessionHistory.  The more may happen, the less holds: each *)
(* property says which circumstances it needs, and these are the largest   *)
(* ones in which each of them is checked.                                  *)
(***************************************************************************)
EXTENDS SessionHistory

Overtaking == {"cancel", "compact", "reset", "append_fails", "load_fails", "slow_save", "crash"}
Merging == AllFeatures \ {"flush", "slow_save"}
PlainFeatures == {"cancel", "error", "bare_run", "crash"}
PatientFeatures == PlainFeatures \cup {"slow_save", "flush"}

OnlyReset == {{"reset"}}

AllCircumstances ==
    {Overtaking, Merging, PlainFeatures, PlainFeatures \cup {"merging_store"}, PatientFeatures}
=============================================================================
