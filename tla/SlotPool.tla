------------------------------ MODULE SlotPool ------------------------------
(***************************************************************************)
(* What a tenant supervisor promises about session slots: each supervisor  *)
(* is a counting semaphore.  A slot is taken only while one is free, and   *)
(* only a taken slot is given back.                                        *)
(***************************************************************************)
EXTENDS Naturals

CONSTANTS Pools, Slots

VARIABLE taken      \* how many slots of each pool are taken

Init == taken = [p \in Pools |-> 0]

Take(p) == taken[p] < Slots /\ taken' = [taken EXCEPT ![p] = @ + 1]

Give(p) == taken[p] > 0 /\ taken' = [taken EXCEPT ![p] = @ - 1]

Next == \E p \in Pools : Take(p) \/ Give(p)

Spec == Init /\ [][Next]_taken
=============================================================================
