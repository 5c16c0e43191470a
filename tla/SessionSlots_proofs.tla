------------------------- MODULE SessionSlots_proofs -------------------------
(***************************************************************************)
(* The accounting of session slots, for any number of requests, any quota  *)
(* and any number of supervisors: the counter is exact, no supervisor      *)
(* gives out more than max_concurrent_sessions slots, and each supervisor  *)
(* is a counting semaphore.                                                *)
(***************************************************************************)
EXTENDS SessionSlots, FiniteSetTheorems, TLAPS

Holding == {"building", "releasing"}

\* The types, except that an active count may be any integer: that it is a
\* natural number follows from CountExact.
Types ==
    /\ made \in 0..MaxSupervisors /\ current \in 0..made
    /\ stale \in BOOLEAN
    /\ active \in [Supervisors -> Int]
    /\ lastId \in 0..MaxIds
    /\ DOMAIN sessions \subseteq 1..lastId
    /\ \A i \in DOMAIN sessions : sessions[i] \in 1..made
    /\ pc \in [Requests -> PC]
    /\ sup \in [Requests -> 0..made]
    /\ left \in [Requests -> Nat]
    /\ mine \in [Requests -> SUBSET (1..lastId)]
    /\ todo \in [Requests -> SUBSET (1..lastId)]

\* A request that works with a supervisor has one.
HasSupervisor ==
    /\ made > 0 => current # Nobody
    /\ \A r \in Requests : pc[r] = "resolved" => current # Nobody
    /\ \A r \in Requests :
          pc[r] \in {"checking", "reserving", "over"} \cup Holding => sup[r] # Nobody

-----------------------------------------------------------------------------
(* Types.                                                                  *)

\* Every step keeps the types, and only a request that has a supervisor goes on
\* to reserve.
LEMMA TypesStep == Types /\ HasSupervisor /\ [Next]_vars => Types' /\ HasSupervisor'
<1> SUFFICES ASSUME Types, HasSupervisor, [Next]_vars PROVE Types' /\ HasSupervisor'
  OBVIOUS
<1> USE DEF Types, HasSupervisor, GoTo, registry, locals, Holding, Nobody
<1>p. PC = {"idle", "inserting", "resolved", "checking", "reserving", "over",
            "building", "removing", "releasing", "shutting"}
  BY DEF PC
<1>a. MaxSupervisors \in Nat /\ MaxIds \in Nat /\ MaxBatch \in Nat
  BY SlotsAssumption
<1>s. \A r \in Requests : sup[r] # Nobody => sup[r] \in Supervisors /\ current # Nobody
  BY <1>a DEF Supervisors
<1>c. ASSUME NEW s \in Supervisors, TakeBack(s) \/ DropGuard(s) \/ Add(s)
      PROVE active' \in [Supervisors -> Int]
  <2>1. active[s] \in Int
    OBVIOUS
  <2> QED
    BY <1>c, <2>1 DEF TakeBack, DropGuard, Add
<1>1. ASSUME NEW r \in Requests, Resolve(r) PROVE Types' /\ HasSupervisor'
  BY <1>1, <1>p DEF Resolve
<1>2. ASSUME NEW r \in Requests, InsertSupervisor(r) PROVE Types' /\ HasSupervisor'
  <2>1. made' \in 0..MaxSupervisors /\ current' \in 0..made' /\ current' # Nobody
    BY <1>2, <1>a DEF InsertSupervisor
  <2>2. sup' = sup /\ sup \in [Requests -> 0..made'] /\ sessions' = sessions
    BY <1>2 DEF InsertSupervisor
  <2>s. \A i \in DOMAIN sessions' : sessions'[i] \in 1..made'
    BY <1>2, <2>2 DEF InsertSupervisor
  <2>l. UNCHANGED <<active, lastId, left, mine, todo>> /\ stale' = FALSE
    BY <1>2 DEF InsertSupervisor
  <2>g. pc' \in [Requests -> PC]
    BY <1>2, <1>p DEF InsertSupervisor
  <2>3. Types'
    BY <2>1, <2>2, <2>s, <2>l, <2>g
  <2>4. HasSupervisor'
    BY <1>2, <2>1, <2>2 DEF InsertSupervisor
  <2> QED
    BY <2>3, <2>4
<1>3. ASSUME NEW r \in Requests, LookUp(r) PROVE Types' /\ HasSupervisor'
  BY <1>3, <1>p, <1>a DEF LookUp
<1>4. ASSUME NEW r \in Requests, ReserveAdd(r) PROVE Types' /\ HasSupervisor'
  <2>1. active' \in [Supervisors -> Int]
    BY <1>4, <1>s, <1>c DEF ReserveAdd
  <2> QED
    BY <1>4, <2>1, <1>p DEF ReserveAdd
<1>5. ASSUME NEW r \in Requests, CreateFails(r), active' \in [Supervisors -> Int]
      PROVE Types' /\ HasSupervisor'
  BY <1>5, <1>p, <1>a DEF CreateFails
<1>6. ASSUME NEW r \in Requests, ReserveBack(r) PROVE Types' /\ HasSupervisor'
  BY <1>5, <1>6, <1>s, <1>c DEF ReserveBack
<1>7. ASSUME NEW r \in Requests, BuildFails(r) PROVE Types' /\ HasSupervisor'
  BY <1>5, <1>7, <1>s, <1>c DEF BuildFails
<1>8. ASSUME NEW r \in Requests, InsertSession(r) PROVE Types' /\ HasSupervisor'
  <2>1. /\ lastId' = lastId + 1 /\ lastId' \in 0..MaxIds
        /\ sup[r] \in 1..made
        /\ UNCHANGED <<registry, active, todo>>
    BY <1>8, <1>a DEF InsertSession
  <2>2. /\ DOMAIN sessions' \subseteq 1..lastId'
        /\ \A i \in DOMAIN sessions' : sessions'[i] \in 1..made'
    BY <1>8, <2>1 DEF InsertSession
  <2>3. left' \in [Requests -> Nat] /\ sup' \in [Requests -> 0..made']
    BY <1>8, <2>1 DEF InsertSession
  <2>4. mine' \in [Requests -> SUBSET (1..lastId')] /\ todo' \in [Requests -> SUBSET (1..lastId')]
    BY <1>8, <2>1, <1>a DEF InsertSession
  <2>5. pc' \in {[pc EXCEPT ![r] = "idle"], [pc EXCEPT ![r] = "resolved"]}
        /\ sup' = [sup EXCEPT ![r] = Nobody]
    BY <1>8 DEF InsertSession
  <2>6. HasSupervisor'
    BY <2>1, <2>5, <1>s
  <2> QED
    BY <2>1, <2>2, <2>3, <2>4, <2>5, <2>6, <1>p
<1>9. ASSUME NEW r \in Requests, BeginBatch(r) PROVE Types' /\ HasSupervisor'
  <2>1. PICK n \in 2..MaxBatch : left' = [left EXCEPT ![r] = n]
    BY <1>9 DEF BeginBatch
  <2> QED
    BY <1>9, <2>1, <1>p, <1>a DEF BeginBatch
<1>10. ASSUME NEW r \in Requests, CheckBatch(r) PROVE Types' /\ HasSupervisor'
  <2>1. current # Nobody
    BY <1>10, <1>s DEF CheckBatch
  <2> QED
    BY <1>10, <2>1, <1>p, <1>a DEF CheckBatch
<1>11. ASSUME NEW r \in Requests, BeginDelete(r) PROVE Types' /\ HasSupervisor'
  <2>1. PICK keys \in SUBSET DOMAIN sessions : todo' = [todo EXCEPT ![r] = keys]
    BY <1>11 DEF BeginDelete
  <2> QED
    BY <1>11, <2>1, <1>p DEF BeginDelete
<1>12. ASSUME NEW r \in Requests, Remove(r) PROVE Types' /\ HasSupervisor'
  <2>1. PICK i \in todo[r] :
          /\ todo' = [todo EXCEPT ![r] = @ \ {i}]
          /\ \/ /\ i \in DOMAIN sessions
                /\ sup' = [sup EXCEPT ![r] = sessions[i]]
                /\ sessions' = Restrict(sessions, DOMAIN sessions \ {i})
                /\ GoTo(r, "releasing")
             \/ /\ i \notin DOMAIN sessions
                /\ UNCHANGED <<sup, sessions, pc>>
    BY <1>12 DEF Remove
  <2> QED
    BY <1>12, <2>1, <1>p, <1>a DEF Remove, Restrict
<1>13. ASSUME NEW r \in Requests, ReleaseSlot(r) PROVE Types' /\ HasSupervisor'
  <2>1. active' \in [Supervisors -> Int]
    BY <1>13, <1>s, <1>c DEF ReleaseSlot
  <2> QED
    BY <1>13, <2>1, <1>p DEF ReleaseSlot
<1>14. ASSUME NEW r \in Requests, ActorShut(r) \/ DeleteDone(r)
       PROVE Types' /\ HasSupervisor'
  BY <1>14, <1>p DEF ActorShut, DeleteDone
<1>15. ASSUME NEW r \in Requests, Abandon(r) PROVE Types' /\ HasSupervisor'
  <2>1. active' \in [Supervisors -> Int]
    BY <1>15, <1>s, <1>c DEF Abandon
  <2> QED
    BY <1>15, <2>1, <1>p DEF Abandon
<1>16. CASE GoesStale
  BY <1>16 DEF GoesStale
<1>17. CASE UNCHANGED vars
  BY <1>17 DEF vars
<1> QED
  BY <1>1, <1>2, <1>3, <1>4, <1>6, <1>7, <1>8, <1>9, <1>10, <1>11, <1>12, <1>13,
     <1>14, <1>15, <1>16, <1>17 DEF Next, Request

-----------------------------------------------------------------------------
(* Counting.                                                               *)

Ind(b) == IF b THEN 1 ELSE 0

SlotsInv == Types /\ HasSupervisor /\ CountExact /\ LimitHolds

\* What is counted is finite: the sessions in the map and the requests.
LEMMA FiniteHolders ==
  ASSUME Types, NEW s
  PROVE  /\ IsFiniteSet(SessionsOf(s)) /\ IsFiniteSet(HoldersOf(s)) /\ IsFiniteSet(OverOf(s))
         /\ Cardinality(SessionsOf(s)) \in Nat
         /\ Cardinality(HoldersOf(s)) \in Nat
         /\ Cardinality(OverOf(s)) \in Nat
<1>1. SessionsOf(s) \in SUBSET (1..lastId) /\ IsFiniteSet(1..lastId)
  BY FS_Interval, SlotsAssumption DEF SessionsOf, Types
<1>2. HoldersOf(s) \in SUBSET Requests /\ OverOf(s) \in SUBSET Requests
  BY DEF HoldersOf, OverOf
<1>3. IsFiniteSet(SessionsOf(s)) /\ IsFiniteSet(HoldersOf(s)) /\ IsFiniteSet(OverOf(s))
  BY <1>1, <1>2, FS_Subset, SlotsAssumption
<1> QED
  BY <1>3, FS_CardinalityType

\* Two sets that differ in at most one element.
LEMMA OneElement ==
  ASSUME NEW S, NEW T, NEW x, IsFiniteSet(S), IsFiniteSet(T), S \ {x} = T \ {x}
  PROVE  Cardinality(T) = Cardinality(S) - Ind(x \in S) + Ind(x \in T)
<1>1. Cardinality(S \ {x}) = Cardinality(S) - Ind(x \in S)
  BY FS_RemoveElement, FS_CardinalityType DEF Ind
<1>2. Cardinality(T \ {x}) = Cardinality(T) - Ind(x \in T)
  BY FS_RemoveElement, FS_CardinalityType DEF Ind
<1>3. Cardinality(S) \in Nat /\ Cardinality(T) \in Nat
  BY FS_CardinalityType
<1>4. Ind(x \in S) \in Int /\ Ind(x \in T) \in Int
  BY DEF Ind
<1>5. Cardinality(S) - Ind(x \in S) = Cardinality(T) - Ind(x \in T)
  BY <1>1, <1>2
<1> QED
  BY <1>3, <1>4, <1>5

\* Nobody but r moves.
OnlyMoves(r) == \A q \in Requests : q # r => pc'[q] = pc[q] /\ sup'[q] = sup[q]

\* What a move of r alone does to the holders of a supervisor.
LEMMA HoldersMove ==
  ASSUME Types, Types', NEW r \in Requests, OnlyMoves(r), NEW s
  PROVE  /\ Cardinality(HoldersOf(s)') = Cardinality(HoldersOf(s))
               - Ind(sup[r] = s /\ pc[r] \in Holding) + Ind(sup'[r] = s /\ pc'[r] \in Holding)
         /\ Cardinality(OverOf(s)') = Cardinality(OverOf(s))
               - Ind(sup[r] = s /\ pc[r] = "over") + Ind(sup'[r] = s /\ pc'[r] = "over")
<1>1. HoldersOf(s) \ {r} = HoldersOf(s)' \ {r} /\ OverOf(s) \ {r} = OverOf(s)' \ {r}
  BY DEF HoldersOf, OverOf, OnlyMoves
<1>2. /\ r \in HoldersOf(s) <=> sup[r] = s /\ pc[r] \in Holding
      /\ r \in HoldersOf(s)' <=> sup'[r] = s /\ pc'[r] \in Holding
      /\ r \in OverOf(s) <=> sup[r] = s /\ pc[r] = "over"
      /\ r \in OverOf(s)' <=> sup'[r] = s /\ pc'[r] = "over"
  BY DEF HoldersOf, OverOf, Holding
<1>3. /\ IsFiniteSet(HoldersOf(s)) /\ IsFiniteSet(HoldersOf(s)')
      /\ IsFiniteSet(OverOf(s)) /\ IsFiniteSet(OverOf(s)')
  <2>1. HoldersOf(s) \in SUBSET Requests /\ HoldersOf(s)' \in SUBSET Requests
        /\ OverOf(s) \in SUBSET Requests /\ OverOf(s)' \in SUBSET Requests
    BY DEF HoldersOf, OverOf
  <2> QED
    BY <2>1, FS_Subset, SlotsAssumption
<1>4. Cardinality(HoldersOf(s)') = Cardinality(HoldersOf(s))
               - Ind(r \in HoldersOf(s)) + Ind(r \in HoldersOf(s)')
  BY <1>1, <1>3, OneElement
<1>5. Cardinality(OverOf(s)') = Cardinality(OverOf(s))
               - Ind(r \in OverOf(s)) + Ind(r \in OverOf(s)')
  BY <1>1, <1>3, OneElement
<1> QED
  BY <1>2, <1>4, <1>5 DEF Ind

\* The sessions of a supervisor when one session enters or leaves the map.
LEMMA SessionsMove ==
  ASSUME Types, Types', NEW i,
         DOMAIN sessions \ {i} = DOMAIN sessions' \ {i},
         \A j \in DOMAIN sessions \ {i} : sessions'[j] = sessions[j],
         NEW s
  PROVE  Cardinality(SessionsOf(s)') = Cardinality(SessionsOf(s))
               - Ind(i \in DOMAIN sessions /\ sessions[i] = s)
               + Ind(i \in DOMAIN sessions' /\ sessions'[i] = s)
<1>1. SessionsOf(s) \ {i} = SessionsOf(s)' \ {i}
  BY DEF SessionsOf
<1>2. /\ i \in SessionsOf(s) <=> i \in DOMAIN sessions /\ sessions[i] = s
      /\ i \in SessionsOf(s)' <=> i \in DOMAIN sessions' /\ sessions'[i] = s
  BY DEF SessionsOf
<1>3. IsFiniteSet(SessionsOf(s)) /\ IsFiniteSet(SessionsOf(s)')
  <2>1. SessionsOf(s) \in SUBSET (1..lastId) /\ SessionsOf(s)' \in SUBSET (1..lastId')
    BY DEF SessionsOf, Types
  <2>2. lastId \in Int /\ lastId' \in Int
    BY SlotsAssumption DEF Types
  <2>3. IsFiniteSet(1..lastId) /\ IsFiniteSet(1..lastId')
    BY <2>2, FS_Interval
  <2> QED
    BY <2>1, <2>3, FS_Subset
<1>4. Cardinality(SessionsOf(s)') = Cardinality(SessionsOf(s))
               - Ind(i \in SessionsOf(s)) + Ind(i \in SessionsOf(s)')
  BY <1>1, <1>3, OneElement
<1> QED
  BY <1>2, <1>4 DEF Ind

\* What one step may do to the slots held.
SameSlots == \A s \in Supervisors : Held(s)' = Held(s)
TakesOne(t) ==
    /\ Held(t) < MaxSessions /\ Held(t)' = Held(t) + 1
    /\ \A s \in Supervisors \ {t} : Held(s)' = Held(s)
GivesOne(t) ==
    /\ Held(t) > 0 /\ Held(t)' = Held(t) - 1
    /\ \A s \in Supervisors \ {t} : Held(s)' = Held(s)

\* The number of slots held is a natural number.
LEMMA HeldType ==
  ASSUME Types, NEW s
  PROVE  Held(s) \in Nat
  BY FiniteHolders DEF Held

\* A request that moves between places where it holds nothing.
LEMMA QuietMove ==
  ASSUME Types, Types', CountExact, NEW r \in Requests, OnlyMoves(r),
         pc[r] \notin Holding \cup {"over"}, pc'[r] \notin Holding \cup {"over"},
         sessions' = sessions, active' = active
  PROVE  CountExact' /\ SameSlots
<1>1. ASSUME NEW s \in Supervisors
      PROVE Held(s)' = Held(s) /\ Cardinality(OverOf(s)') = Cardinality(OverOf(s))
  <2>1. /\ Cardinality(HoldersOf(s)') = Cardinality(HoldersOf(s)) - 0 + 0
        /\ Cardinality(OverOf(s)') = Cardinality(OverOf(s)) - 0 + 0
    BY HoldersMove DEF Ind
  <2>2. SessionsOf(s)' = SessionsOf(s)
    BY DEF SessionsOf
  <2> QED
    BY <2>1, <2>2, FiniteHolders DEF Held
<1> QED
  BY <1>1 DEF CountExact, SameSlots

\* A request that drops its guard.
LEMMA DropMove ==
  ASSUME SlotsInv, Types', NEW r \in Requests, OnlyMoves(r),
         pc[r] \in Holding, pc'[r] \notin Holding \cup {"over"},
         sessions' = sessions, DropGuard(sup[r]),
         NEW t \in Supervisors, t = sup[r]
  PROVE  CountExact' /\ GivesOne(t)
<1>0. Types /\ HasSupervisor /\ CountExact /\ LimitHolds
  BY DEF SlotsInv
<1>2. ASSUME NEW s \in Supervisors
      PROVE /\ Held(s)' = Held(s) - Ind(s = t)
            /\ Cardinality(OverOf(s)') = Cardinality(OverOf(s))
  <2>1. /\ Cardinality(HoldersOf(s)') = Cardinality(HoldersOf(s)) - Ind(s = t) + 0
        /\ Cardinality(OverOf(s)') = Cardinality(OverOf(s)) - 0 + 0
    BY <1>0, HoldersMove DEF Ind, Holding
  <2>2. SessionsOf(s)' = SessionsOf(s)
    BY DEF SessionsOf
  <2>3. Ind(s = t) \in Int
    BY DEF Ind
  <2> QED
    BY <1>0, <2>1, <2>2, <2>3, FiniteHolders DEF Held
<1>3. Held(t) > 0
  <2>1. r \in HoldersOf(t)
    BY DEF HoldersOf, Holding
  <2>2. Cardinality(HoldersOf(t)) # 0
    BY <1>0, <2>1, FiniteHolders, FS_EmptySet
  <2> QED
    BY <1>0, <2>2, FiniteHolders DEF Held
<1>4. active' = [active EXCEPT ![t] = @ - 1]
  <2>1. active[t] = Held(t) + Cardinality(OverOf(t))
    BY <1>0 DEF CountExact
  <2>2. active[t] # 0
    BY <1>0, <1>3, <2>1, HeldType, FiniteHolders
  <2> QED
    BY <2>2 DEF DropGuard
<1>5. ASSUME NEW s \in Supervisors PROVE active'[s] = active[s] - Ind(s = t)
  BY <1>0, <1>4 DEF Types, Ind
<1>6. CountExact'
  <2>1. ASSUME NEW s \in Supervisors
        PROVE active'[s] = Held(s)' + Cardinality(OverOf(s)')
    <3>1. active[s] = Held(s) + Cardinality(OverOf(s))
      BY <1>0 DEF CountExact
    <3>2. Ind(s = t) \in Int /\ Held(s) \in Int /\ Cardinality(OverOf(s)) \in Int
      BY <1>0, HeldType, FiniteHolders DEF Ind
    <3> QED
      BY <1>2, <1>5, <3>1, <3>2
  <2> QED
    BY <2>1 DEF CountExact
<1>7. GivesOne(t)
  <2>1. Held(t)' = Held(t) - 1
    BY <1>2 DEF Ind
  <2>2. ASSUME NEW s \in Supervisors \ {t} PROVE Held(s)' = Held(s)
    BY <1>0, <1>2, HeldType DEF Ind
  <2> QED
    BY <1>3, <2>1, <2>2 DEF GivesOne
<1> QED
  BY <1>6, <1>7

\* A caller over the limit is counted, or taken back, without holding a slot.
LEMMA OverMove ==
  ASSUME Types, Types', CountExact, NEW r \in Requests, OnlyMoves(r),
         NEW t \in Supervisors, t = sup[r], sessions' = sessions,
         pc[r] \notin Holding, pc'[r] \notin Holding,
         \/ Add(t) /\ pc[r] # "over" /\ pc'[r] = "over" /\ sup'[r] = t
         \/ TakeBack(t) /\ pc[r] = "over" /\ pc'[r] # "over"
  PROVE  CountExact' /\ SameSlots
<1>1. ASSUME NEW s \in Supervisors
      PROVE /\ Held(s)' = Held(s)
            /\ active'[s] = Held(s)' + Cardinality(OverOf(s)')
  <2>1. /\ Cardinality(HoldersOf(s)') = Cardinality(HoldersOf(s)) - 0 + 0
        /\ Cardinality(OverOf(s)') = Cardinality(OverOf(s))
               - Ind(sup[r] = s /\ pc[r] = "over") + Ind(sup'[r] = s /\ pc'[r] = "over")
    BY HoldersMove DEF Ind
  <2>2. SessionsOf(s)' = SessionsOf(s)
    BY DEF SessionsOf
  <2>3. Held(s)' = Held(s)
    BY <2>1, <2>2, FiniteHolders DEF Held
  <2>4. active[s] = Held(s) + Cardinality(OverOf(s)) /\ active[s] \in Int
    BY DEF CountExact, Types
  <2>5. active'[s] - active[s] = Cardinality(OverOf(s)') - Cardinality(OverOf(s))
    <3>1. CASE Add(t) /\ pc[r] # "over" /\ pc'[r] = "over" /\ sup'[r] = t
      <4>1. active'[s] = active[s] + Ind(s = t)
        BY <2>4, <3>1 DEF Add, Ind, Types
      <4>2. Cardinality(OverOf(s)') = Cardinality(OverOf(s)) - 0 + Ind(s = t)
        BY <2>1, <3>1 DEF Ind
      <4> QED
        BY <2>4, <4>1, <4>2, FiniteHolders DEF Ind
    <3>2. CASE TakeBack(t) /\ pc[r] = "over" /\ pc'[r] # "over"
      <4>1. active'[s] = active[s] - Ind(s = t)
        BY <2>4, <3>2 DEF TakeBack, Ind, Types
      <4>2. Cardinality(OverOf(s)') = Cardinality(OverOf(s)) - Ind(s = t) + 0
        BY <2>1, <3>2 DEF Ind
      <4> QED
        BY <2>4, <4>1, <4>2, FiniteHolders DEF Ind
    <3> QED
      BY <3>1, <3>2
  <2>6. active'[s] \in Int
    BY DEF Types
  <2>7. Held(s) \in Nat /\ Cardinality(OverOf(s)) \in Nat /\ Cardinality(OverOf(s)') \in Nat
    <3>1. OverOf(s)' \in SUBSET Requests
      BY DEF OverOf
    <3>2. IsFiniteSet(OverOf(s)')
      BY <3>1, FS_Subset, SlotsAssumption
    <3> QED
      BY <3>2, HeldType, FiniteHolders, FS_CardinalityType
  <2> QED
    BY <2>3, <2>4, <2>5, <2>6, <2>7
<1> QED
  BY <1>1 DEF CountExact, SameSlots

\* A caller that finds the count below the limit has its slot.
LEMMA TakeMove ==
  ASSUME Types, Types', CountExact, NEW r \in Requests, OnlyMoves(r),
         NEW t \in Supervisors, t = sup[r], t = sup'[r], sessions' = sessions,
         pc[r] = "reserving", pc'[r] = "building",
         Add(t), active[t] + 1 <= MaxSessions
  PROVE  CountExact' /\ TakesOne(t)
<1>1. ASSUME NEW s \in Supervisors
      PROVE /\ Held(s)' = Held(s) + Ind(s = t)
            /\ Cardinality(OverOf(s)') = Cardinality(OverOf(s))
            /\ active'[s] = active[s] + Ind(s = t)
            /\ active[s] = Held(s) + Cardinality(OverOf(s))
            /\ Held(s) \in Nat /\ Cardinality(OverOf(s)) \in Nat /\ Ind(s = t) \in Nat
  <2>1. /\ Cardinality(HoldersOf(s)') = Cardinality(HoldersOf(s)) - 0 + Ind(s = t)
        /\ Cardinality(OverOf(s)') = Cardinality(OverOf(s)) - 0 + 0
    BY HoldersMove DEF Ind, Holding
  <2>2. SessionsOf(s)' = SessionsOf(s)
    BY DEF SessionsOf
  <2>3. Ind(s = t) \in Nat
    BY DEF Ind
  <2>4. active'[s] = active[s] + Ind(s = t)
    BY DEF Add, Ind, Types
  <2> QED
    BY <2>1, <2>2, <2>3, <2>4, FiniteHolders DEF Held, CountExact
<1>2. CountExact'
  <2>1. ASSUME NEW s \in Supervisors
        PROVE active'[s] = Held(s)' + Cardinality(OverOf(s)')
    BY <1>1
  <2> QED
    BY <2>1 DEF CountExact
<1>3. Held(t) < MaxSessions
  BY <1>1, SlotsAssumption
<1>4. Held(t)' = Held(t) + 1
  BY <1>1 DEF Ind
<1>5. ASSUME NEW s \in Supervisors \ {t} PROVE Held(s)' = Held(s)
  BY <1>1 DEF Ind
<1> QED
  BY <1>2, <1>3, <1>4, <1>5 DEF TakesOne

\* A guard moves between a request and the map.
LEMMA MapMove ==
  ASSUME Types, Types', CountExact, NEW r \in Requests, OnlyMoves(r),
         NEW i,
         DOMAIN sessions \ {i} = DOMAIN sessions' \ {i},
         \A j \in DOMAIN sessions \ {i} : sessions'[j] = sessions[j],
         active' = active, pc[r] # "over", pc'[r] # "over",
         \A s \in Supervisors :
              Ind(sup[r] = s /\ pc[r] \in Holding)
                 + Ind(i \in DOMAIN sessions /\ sessions[i] = s)
            = Ind(sup'[r] = s /\ pc'[r] \in Holding)
                 + Ind(i \in DOMAIN sessions' /\ sessions'[i] = s)
  PROVE  CountExact' /\ SameSlots
<1>1. ASSUME NEW s \in Supervisors
      PROVE Held(s)' = Held(s) /\ Cardinality(OverOf(s)') = Cardinality(OverOf(s))
  <2> DEFINE a == Ind(sup[r] = s /\ pc[r] \in Holding)
             b == Ind(i \in DOMAIN sessions /\ sessions[i] = s)
             c == Ind(sup'[r] = s /\ pc'[r] \in Holding)
             d == Ind(i \in DOMAIN sessions' /\ sessions'[i] = s)
  <2>1. /\ Cardinality(HoldersOf(s)') = Cardinality(HoldersOf(s)) - a + c
        /\ Cardinality(OverOf(s)') = Cardinality(OverOf(s))
               - Ind(sup[r] = s /\ pc[r] = "over") + Ind(sup'[r] = s /\ pc'[r] = "over")
    BY HoldersMove
  <2>2. Cardinality(SessionsOf(s)') = Cardinality(SessionsOf(s)) - b + d
    BY SessionsMove
  <2>3. a + b = c + d
    OBVIOUS
  <2>4. a \in Int /\ b \in Int /\ c \in Int /\ d \in Int
    BY DEF Ind
  <2>5. Cardinality(OverOf(s)') = Cardinality(OverOf(s)) - 0 + 0
    BY <2>1 DEF Ind
  <2> HIDE DEF a, b, c, d
  <2> QED
    BY <2>1, <2>2, <2>3, <2>4, <2>5, FiniteHolders DEF Held
<1> QED
  BY <1>1 DEF CountExact, SameSlots

\* Every step takes one slot, gives one back or leaves the slots held alone, and
\* the counter follows.
OneSlot == SameSlots \/ \E t \in Supervisors : TakesOne(t) \/ GivesOne(t)

\* The counter stays exact in each step of a request, and a step takes or gives
\* back at most one slot.
LEMMA SlotsStep == SlotsInv /\ Types' /\ [Next]_vars => CountExact' /\ OneSlot
<1> SUFFICES ASSUME SlotsInv, Types', [Next]_vars PROVE CountExact' /\ OneSlot
  OBVIOUS
<1>0. Types /\ HasSupervisor /\ CountExact /\ LimitHolds
  BY DEF SlotsInv
<1> USE <1>0
<1>t. ASSUME NEW r \in Requests, sup[r] # Nobody PROVE sup[r] \in Supervisors
  BY <1>t, SlotsAssumption DEF Types, Nobody, Supervisors
<1>p. ASSUME NEW r \in Requests, NEW place \in PC, GoTo(r, place)
      PROVE /\ pc'[r] = place
            /\ \A q \in Requests : q # r => pc'[q] = pc[q]
  BY <1>p DEF GoTo, Types
<1>u. ASSUME NEW r \in Requests, NEW x, sup' = [sup EXCEPT ![r] = x]
      PROVE sup'[r] = x /\ \A q \in Requests : q # r => sup'[q] = sup[q]
  BY <1>u DEF Types
<1>w. {"idle", "inserting", "resolved", "checking", "reserving", "over",
       "building", "removing", "releasing", "shutting"} = PC
  BY DEF PC
<1>q. ASSUME NEW r \in Requests,
             \/ Resolve(r) \/ InsertSupervisor(r) \/ LookUp(r) \/ BeginBatch(r)
             \/ CheckBatch(r) \/ BeginDelete(r) \/ ActorShut(r) \/ DeleteDone(r)
      PROVE CountExact' /\ OneSlot
  <2>1. /\ pc[r] \notin Holding \cup {"over"}
        /\ \E place \in PC \ (Holding \cup {"over"}) : GoTo(r, place)
        /\ \E x : sup' = [sup EXCEPT ![r] = x]
        /\ sessions' = sessions /\ active' = active
    <3>1. sup = [sup EXCEPT ![r] = sup[r]]
      BY DEF Types
    <3>2. CASE Resolve(r) \/ InsertSupervisor(r) \/ LookUp(r) \/ BeginBatch(r)
      BY <3>1, <3>2, <1>w DEF Resolve, InsertSupervisor, LookUp, BeginBatch, Holding, locals
    <3>3. CASE CheckBatch(r) \/ BeginDelete(r) \/ ActorShut(r) \/ DeleteDone(r)
      BY <3>1, <3>3, <1>w DEF CheckBatch, BeginDelete, ActorShut, DeleteDone, Holding, locals
    <3> QED
      BY <3>2, <3>3, <1>q
  <2>2. OnlyMoves(r) /\ pc'[r] \notin Holding \cup {"over"}
    BY <2>1, <1>p, <1>u DEF OnlyMoves
  <2> QED
    BY <2>1, <2>2, QuietMove DEF OneSlot
<1>1. ASSUME NEW r \in Requests, ReserveAdd(r) PROVE CountExact' /\ OneSlot
  <2>1. PICK t \in Supervisors : t = sup[r]
    BY <1>1, <1>t DEF ReserveAdd, HasSupervisor, Holding
  <2>2. pc[r] = "reserving" /\ Add(t) /\ sessions' = sessions /\ sup' = sup
    BY <1>1, <2>1 DEF ReserveAdd, locals
  <2>3. CASE active[t] + 1 > MaxSessions
    <3>1. GoTo(r, "over")
      BY <1>1, <2>1, <2>3 DEF ReserveAdd
    <3>2. pc'[r] = "over" /\ OnlyMoves(r) /\ sup'[r] = t
      BY <3>1, <2>1, <2>2, <1>p, <1>w DEF OnlyMoves
    <3> QED
      BY <2>1, <2>2, <3>2, OverMove DEF OneSlot, Holding
  <2>4. CASE ~(active[t] + 1 > MaxSessions)
    <3>1. GoTo(r, "building")
      BY <1>1, <2>1, <2>4 DEF ReserveAdd
    <3>2. pc'[r] = "building" /\ OnlyMoves(r) /\ sup'[r] = t
      BY <3>1, <2>1, <2>2, <1>p, <1>w DEF OnlyMoves
    <3>3. active[t] + 1 <= MaxSessions
      BY <2>4, SlotsAssumption DEF Types
    <3> QED
      BY <2>1, <2>2, <3>2, <3>3, TakeMove DEF OneSlot
  <2> QED
    BY <2>3, <2>4
<1>2. ASSUME NEW r \in Requests, CreateFails(r)
      PROVE /\ sessions' = sessions /\ OnlyMoves(r)
            /\ pc'[r] \notin Holding \cup {"over"}
  BY <1>2, <1>p, <1>u, <1>w DEF CreateFails, OnlyMoves, Holding
<1>3. ASSUME NEW r \in Requests, ReserveBack(r) PROVE CountExact' /\ OneSlot
  <2>1. PICK t \in Supervisors : t = sup[r]
    BY <1>3, <1>t DEF ReserveBack, HasSupervisor, Holding
  <2>2. pc[r] = "over" /\ TakeBack(t) /\ CreateFails(r)
    BY <1>3, <2>1 DEF ReserveBack
  <2> QED
    BY <2>1, <2>2, <1>2, OverMove DEF OneSlot, Holding
<1>4. ASSUME NEW r \in Requests, BuildFails(r) PROVE CountExact' /\ OneSlot
  <2>1. PICK t \in Supervisors : t = sup[r]
    BY <1>4, <1>t DEF BuildFails, HasSupervisor, Holding
  <2> QED
    BY <1>4, <2>1, <1>2, DropMove DEF BuildFails, OneSlot, Holding
<1>5. ASSUME NEW r \in Requests, InsertSession(r) PROVE CountExact' /\ OneSlot
  <2>1. /\ pc[r] = "building" /\ active' = active
        /\ sup' = [sup EXCEPT ![r] = Nobody]
        /\ GoTo(r, "idle") \/ GoTo(r, "resolved")
        /\ sessions' = [i \in DOMAIN sessions \cup {lastId + 1} |->
                          IF i = lastId + 1 THEN sup[r] ELSE sessions[i]]
    BY <1>5 DEF InsertSession
  <2>2. OnlyMoves(r) /\ pc'[r] \in {"idle", "resolved"}
    BY <2>1, <1>p, <1>u, <1>w DEF OnlyMoves
  <2>3. lastId + 1 \notin DOMAIN sessions
    BY SlotsAssumption DEF Types
  <2>4. ASSUME NEW s \in Supervisors
        PROVE Ind(sup[r] = s /\ pc[r] \in Holding)
                 + Ind(lastId + 1 \in DOMAIN sessions /\ sessions[lastId + 1] = s)
            = Ind(sup'[r] = s /\ pc'[r] \in Holding)
                 + Ind(lastId + 1 \in DOMAIN sessions' /\ sessions'[lastId + 1] = s)
    <3>1. lastId + 1 \in DOMAIN sessions' /\ sessions'[lastId + 1] = sup[r]
      BY <2>1
    <3> QED
      BY <2>1, <2>2, <2>3, <3>1 DEF Ind, Holding
  <2>5. PICK i : i = lastId + 1
    OBVIOUS
  <2>6. /\ DOMAIN sessions \ {i} = DOMAIN sessions' \ {i}
        /\ \A j \in DOMAIN sessions \ {i} : sessions'[j] = sessions[j]
    BY <2>1, <2>5
  <2> QED
    BY <2>1, <2>2, <2>4, <2>5, <2>6, MapMove DEF OneSlot
<1>6. ASSUME NEW r \in Requests, Remove(r) PROVE CountExact' /\ OneSlot
  <2>1. PICK i \in todo[r] :
          \/ /\ i \in DOMAIN sessions
             /\ sup' = [sup EXCEPT ![r] = sessions[i]]
             /\ sessions' = Restrict(sessions, DOMAIN sessions \ {i})
             /\ GoTo(r, "releasing")
          \/ /\ i \notin DOMAIN sessions
             /\ UNCHANGED <<sup, sessions, pc>>
    BY <1>6 DEF Remove
  <2>2. pc[r] = "removing" /\ active' = active
    BY <1>6 DEF Remove
  <2>3. CASE i \notin DOMAIN sessions /\ UNCHANGED <<sup, sessions, pc>>
    BY <2>2, <2>3, QuietMove DEF OneSlot, OnlyMoves, Holding
  <2>4. CASE /\ i \in DOMAIN sessions
             /\ sup' = [sup EXCEPT ![r] = sessions[i]]
             /\ sessions' = Restrict(sessions, DOMAIN sessions \ {i})
             /\ GoTo(r, "releasing")
    <3>1. OnlyMoves(r) /\ pc'[r] = "releasing" /\ sup'[r] = sessions[i]
      BY ZenonT(30), <2>4, <1>p, <1>u, <1>w DEF OnlyMoves
    <3>2. /\ DOMAIN sessions' = DOMAIN sessions \ {i}
          /\ \A j \in DOMAIN sessions \ {i} : sessions'[j] = sessions[j]
      BY <2>4 DEF Restrict
    <3>3. ASSUME NEW s \in Supervisors
          PROVE Ind(sup[r] = s /\ pc[r] \in Holding)
                   + Ind(i \in DOMAIN sessions /\ sessions[i] = s)
              = Ind(sup'[r] = s /\ pc'[r] \in Holding)
                   + Ind(i \in DOMAIN sessions' /\ sessions'[i] = s)
      BY <2>2, <2>4, <3>1, <3>2 DEF Ind, Holding
    <3> QED
      BY <2>2, <3>1, <3>2, <3>3, MapMove DEF OneSlot
  <2> QED
    BY <2>1, <2>3, <2>4
<1>7. ASSUME NEW r \in Requests, ReleaseSlot(r) PROVE CountExact' /\ OneSlot
  <2>1. PICK t \in Supervisors : t = sup[r]
    BY <1>7, <1>t DEF ReleaseSlot, HasSupervisor, Holding
  <2>2. OnlyMoves(r) /\ pc'[r] = "shutting"
    BY <1>7, <1>p, <1>u, <1>w DEF ReleaseSlot, OnlyMoves
  <2> QED
    BY <1>7, <2>1, <2>2, DropMove DEF ReleaseSlot, OneSlot, Holding
<1>8. ASSUME NEW r \in Requests, Abandon(r) PROVE CountExact' /\ OneSlot
  <2>1. OnlyMoves(r) /\ pc'[r] = "idle" /\ sessions' = sessions
    BY <1>8, <1>p, <1>u, <1>w DEF Abandon, OnlyMoves
  <2>2. CASE pc[r] = "building" /\ DropGuard(sup[r])
    <3>1. PICK t \in Supervisors : t = sup[r]
      BY <2>2, <1>t DEF HasSupervisor, Holding
    <3> QED
      BY <2>1, <2>2, <3>1, DropMove DEF OneSlot, Holding
  <2>3. CASE pc[r] = "shutting" /\ UNCHANGED active
    BY <2>1, <2>3, QuietMove DEF OneSlot, Holding
  <2> QED
    BY <1>8, <2>2, <2>3 DEF Abandon
<1>9. CASE GoesStale \/ UNCHANGED vars
  <2>1. UNCHANGED <<active, sessions, pc, sup>>
    BY <1>9 DEF GoesStale, vars, locals
  <2>2. \A s : Held(s)' = Held(s) /\ OverOf(s)' = OverOf(s)
    BY <2>1 DEF Held, SessionsOf, HoldersOf, OverOf
  <2> QED
    BY <2>1, <2>2 DEF OneSlot, SameSlots, CountExact
<1> QED
  BY <1>q, <1>1, <1>3, <1>4, <1>5, <1>6, <1>7, <1>8, <1>9 DEF Next, Request

-----------------------------------------------------------------------------
(* The theorems.                                                           *)

\* The limit is kept by whatever a semaphore step does.
LEMMA LimitStep == SlotsInv /\ Types' /\ OneSlot => LimitHolds'
<1> SUFFICES ASSUME SlotsInv, Types', OneSlot, NEW s \in Supervisors
             PROVE Held(s)' <= MaxSessions
  BY DEF LimitHolds
<1>1. Held(s) <= MaxSessions /\ Held(s) \in Nat /\ MaxSessions \in Nat
  BY HeldType, SlotsAssumption DEF SlotsInv, LimitHolds
<1>2. CASE SameSlots
  BY <1>1, <1>2 DEF SameSlots
<1>3. ASSUME NEW t \in Supervisors, TakesOne(t) PROVE Held(s)' <= MaxSessions
  <2>1. Held(t) \in Nat
    BY HeldType DEF SlotsInv
  <2> QED
    BY <1>1, <1>3, <2>1 DEF TakesOne
<1>4. ASSUME NEW t \in Supervisors, GivesOne(t) PROVE Held(s)' <= MaxSessions
  BY <1>1, <1>4 DEF GivesOne
<1> QED
  BY <1>2, <1>3, <1>4 DEF OneSlot

\* Before the first request nobody holds anything.
LEMMA SlotsStart == Init => SlotsInv /\ \A s \in Supervisors : Held(s) = 0
<1> SUFFICES ASSUME Init PROVE SlotsInv /\ \A s \in Supervisors : Held(s) = 0
  OBVIOUS
<1>1. Types
  <2>1. sessions = <<>> /\ DOMAIN sessions = {}
    BY DEF Init
  <2>2. 0 \in 0..MaxSupervisors /\ 0 \in 0..MaxIds /\ 0 \in 0..0
    BY SlotsAssumption
  <2>3. "idle" \in PC
    BY DEF PC
  <2>4. /\ mine \in [Requests -> SUBSET (1..lastId)]
        /\ todo \in [Requests -> SUBSET (1..lastId)]
    BY DEF Init
  <2>5. /\ made \in 0..MaxSupervisors /\ current \in 0..made
        /\ stale \in BOOLEAN /\ lastId \in 0..MaxIds
        /\ sup \in [Requests -> 0..made]
    BY <2>2 DEF Init, Nobody
  <2>6. pc \in [Requests -> PC] /\ left \in [Requests -> Nat]
        /\ active \in [Supervisors -> Int]
    BY <2>3 DEF Init
  <2> QED
    BY <2>1, <2>4, <2>5, <2>6 DEF Types
<1>2. HasSupervisor
  BY DEF Init, HasSupervisor, Holding
<1>3. ASSUME NEW s \in Supervisors
      PROVE Held(s) = 0 /\ Cardinality(OverOf(s)) = 0 /\ active[s] = 0
  <2>1. SessionsOf(s) = {} /\ HoldersOf(s) = {} /\ OverOf(s) = {} /\ active[s] = 0
    BY DEF Init, SessionsOf, HoldersOf, OverOf
  <2> QED
    BY <2>1, FS_EmptySet DEF Held
<1>4. CountExact /\ LimitHolds
  BY <1>3, SlotsAssumption DEF CountExact, LimitHolds
<1> QED
  BY <1>1, <1>2, <1>3, <1>4 DEF SlotsInv

\* The inductive invariant.
LEMMA SlotsInvariant == Spec => []SlotsInv
<1>1. Init => SlotsInv
  BY SlotsStart
<1>2. SlotsInv /\ [Next]_vars => SlotsInv'
  BY TypesStep, SlotsStep, LimitStep DEF SlotsInv
<1> QED
  BY <1>1, <1>2, PTL DEF Spec

\* The variables keep their types; in particular no counter goes below zero, so
\* that the 32-bit fetch_sub of SessionGuard::drop never wraps.
THEOREM TypeCorrect == Spec => []TypeOK
<1>1. SlotsInv => TypeOK
  <2> SUFFICES ASSUME SlotsInv PROVE TypeOK
    OBVIOUS
  <2>1. ASSUME NEW s \in Supervisors PROVE active[s] \in Nat
    BY FiniteHolders, HeldType DEF SlotsInv, CountExact
  <2>2. active \in [Supervisors -> Nat]
    BY <2>1 DEF SlotsInv, Types
  <2> QED
    BY <2>2 DEF SlotsInv, Types, TypeOK
<1> QED
  BY <1>1, SlotsInvariant, PTL

\* active_sessions is exact: reserve_session, the guard's drop, failed and
\* abandoned creations and deletions never lose or return a slot twice.
THEOREM SlotCountExact == Spec => []CountExact
<1>1. SlotsInv => CountExact
  BY DEF SlotsInv
<1> QED
  BY <1>1, SlotsInvariant, PTL

\* No interleaving of fetch_add and its roll-back lets a supervisor give out
\* more than max_concurrent_sessions slots.
THEOREM LimitIsKept == Spec => []LimitHolds
<1>1. SlotsInv => LimitHolds
  BY DEF SlotsInv
<1> QED
  BY <1>1, SlotsInvariant, PTL

\* Supervisors, with fetch_add, its roll-back, guards and the map of sessions,
\* implement counting semaphores: each step takes one free slot, gives one
\* back or leaves them all alone.
THEOREM ImplementsPool == Spec => SlotsArePool
<1> DEFINE slots == [s \in Supervisors |-> Held(s)]
<1>1. Init => Pool!Init
  BY SlotsStart DEF Pool!Init
<1>2. SlotsInv /\ SlotsInv' /\ [Next]_vars => [Pool!Next]_slots
  <2> SUFFICES ASSUME SlotsInv, SlotsInv', [Next]_vars PROVE [Pool!Next]_slots
    OBVIOUS
  <2>1. OneSlot
    BY SlotsStep DEF SlotsInv
  <2>2. CASE SameSlots
    BY <2>2 DEF SameSlots
  <2>3. ASSUME NEW t \in Supervisors, TakesOne(t) PROVE Pool!Next
    <3>1. slots' = [slots EXCEPT ![t] = @ + 1] /\ slots[t] < MaxSessions
      BY <2>3 DEF TakesOne
    <3> QED
      BY <3>1 DEF Pool!Next, Pool!Take
  <2>4. ASSUME NEW t \in Supervisors, GivesOne(t) PROVE Pool!Next
    <3>1. slots' = [slots EXCEPT ![t] = @ - 1] /\ slots[t] > 0
      BY <2>4 DEF GivesOne
    <3> QED
      BY <3>1 DEF Pool!Next, Pool!Give
  <2> QED
    BY <2>1, <2>2, <2>3, <2>4 DEF OneSlot
<1> QED
  BY <1>1, <1>2, SlotsInvariant, PTL DEF Spec, SlotsArePool, Pool!Spec

-----------------------------------------------------------------------------
(* Rolling back.                                                           *)

Deleting == {"removing", "releasing", "shutting"}

\* A request between two calls has no batch, and one that deletes has still to come to
\* every session of its batch that is in the map.
RollInv ==
    \A r \in Requests :
        /\ pc[r] \in {"idle", "inserting", "checking"} => mine[r] = {}
        /\ pc[r] \in Deleting => mine[r] \cap DOMAIN sessions \subseteq todo[r]

\* What a step of r does to its own part of the invariant, and leaves to the others'.
RollsFor(q) ==
    /\ pc[q] \in {"idle", "inserting", "checking"} => mine[q] = {}
    /\ pc[q] \in Deleting => mine[q] \cap DOMAIN sessions \subseteq todo[q]

\* The map gets no session but a new one.
NoOldSession == DOMAIN sessions' \subseteq DOMAIN sessions \cup {lastId + 1}

LEMMA OthersRoll ==
  ASSUME Types, RollInv, NoOldSession, NEW q \in Requests,
         pc'[q] = pc[q], mine'[q] = mine[q], todo'[q] = todo[q]
  PROVE  RollsFor(q)'
<1>1. lastId + 1 \notin mine[q]
  BY SlotsAssumption DEF Types
<1> QED
  BY <1>1 DEF RollInv, RollsFor, NoOldSession

\* A step of r alone changes where r is and what it has to do.
LEMMA RollMove ==
  ASSUME Types, RollInv, NoOldSession, NEW r \in Requests, NEW place \in PC, GoTo(r, place),
         NEW m, NEW d, mine' = [mine EXCEPT ![r] = m], todo' = [todo EXCEPT ![r] = d],
         place \in {"idle", "inserting", "checking"} => m = {},
         place \in Deleting => m \cap DOMAIN sessions' \subseteq d
  PROVE  RollInv'
<1>1. SUFFICES ASSUME NEW q \in Requests PROVE RollsFor(q)'
  BY DEF RollInv, RollsFor
<1>2. pc'[r] = place /\ mine'[r] = m /\ todo'[r] = d
  BY DEF Types, GoTo
<1>3. CASE q = r
  BY <1>2, <1>3 DEF RollsFor
<1>4. CASE q # r
  <2>1. pc'[q] = pc[q] /\ mine'[q] = mine[q] /\ todo'[q] = todo[q]
    BY <1>4 DEF Types, GoTo
  <2> QED
    BY <2>1, OthersRoll
<1> QED
  BY <1>3, <1>4

LEMMA RollStep == Types /\ RollInv /\ [Next]_vars => RollInv'
<1> SUFFICES ASSUME Types, RollInv, [Next]_vars PROVE RollInv'
  OBVIOUS
<1> USE DEF Deleting
<1>p. {"idle", "inserting", "resolved", "checking", "reserving", "over",
       "building", "removing", "releasing", "shutting"} = PC
  BY DEF PC
<1>s. ASSUME NEW r \in Requests
      PROVE mine = [mine EXCEPT ![r] = mine[r]] /\ todo = [todo EXCEPT ![r] = todo[r]]
  BY DEF Types
<1>r. ASSUME NEW r \in Requests PROVE RollsFor(r)
  BY DEF RollInv, RollsFor
<1>1. ASSUME NEW r \in Requests, Resolve(r) \/ InsertSupervisor(r) \/ LookUp(r) \/ ReserveAdd(r)
                                   \/ BeginBatch(r) \/ CheckBatch(r)
      PROVE RollInv'
  <2>1. /\ UNCHANGED <<sessions, mine, todo>>
        /\ \/ pc[r] \in {"idle", "inserting", "checking"}
           \/ pc[r] \in {"resolved", "reserving"}
    BY <1>1 DEF Resolve, InsertSupervisor, LookUp, ReserveAdd, BeginBatch, CheckBatch, locals
  <2>2. PICK place \in {"inserting", "resolved", "checking", "reserving", "over", "building", "idle"} :
           GoTo(r, place) /\ (place \in {"idle", "inserting", "checking"} => pc[r] \in {"idle", "checking"})
    <3>1. CASE Resolve(r) \/ InsertSupervisor(r) \/ LookUp(r)
      BY <3>1 DEF Resolve, InsertSupervisor, LookUp
    <3>2. CASE ReserveAdd(r) \/ BeginBatch(r) \/ CheckBatch(r)
      BY <3>2 DEF ReserveAdd, BeginBatch, CheckBatch
    <3> QED
      BY <1>1, <3>1, <3>2
  <2>3. mine[r] = {} \/ place \notin {"idle", "inserting", "checking"}
    BY <2>2, <1>r DEF RollsFor
  <2>4. NoOldSession /\ place \in PC
    BY <2>1, <1>p DEF NoOldSession
  <2>5. mine' = [mine EXCEPT ![r] = mine[r]] /\ todo' = [todo EXCEPT ![r] = todo[r]]
    BY <2>1, <1>s
  <2> QED
    BY <2>2, <2>3, <2>4, <2>5, RollMove
<1>2. ASSUME NEW r \in Requests, CreateFails(r) PROVE RollInv'
  <2>1. /\ NoOldSession /\ mine' = [mine EXCEPT ![r] = mine[r]] /\ todo' = [todo EXCEPT ![r] = mine[r]]
    BY <1>2, <1>s DEF CreateFails, NoOldSession
  <2>2. CASE mine[r] = {} /\ GoTo(r, "idle")
    BY <2>1, <2>2, <1>p, RollMove
  <2>3. CASE GoTo(r, "removing")
    BY <2>1, <2>3, <1>p, RollMove
  <2> QED
    BY <1>2, <2>2, <2>3 DEF CreateFails
<1>3. ASSUME NEW r \in Requests, InsertSession(r) PROVE RollInv'
  <2>1. NoOldSession /\ todo' = [todo EXCEPT ![r] = todo[r]]
    BY <1>3, <1>s DEF InsertSession, NoOldSession
  <2>2. CASE GoTo(r, "idle") /\ mine' = [mine EXCEPT ![r] = {}]
    BY <2>1, <2>2, <1>p, RollMove
  <2>3. CASE GoTo(r, "resolved") /\ mine' = [mine EXCEPT ![r] = @ \cup {lastId + 1}]
    BY <2>1, <2>3, <1>p, RollMove
  <2> QED
    BY <1>3, <2>2, <2>3 DEF InsertSession
<1>4. ASSUME NEW r \in Requests, BeginDelete(r) PROVE RollInv'
  <2>1. PICK keys \in SUBSET DOMAIN sessions : todo' = [todo EXCEPT ![r] = keys]
    BY <1>4 DEF BeginDelete
  <2>2. NoOldSession /\ mine' = [mine EXCEPT ![r] = mine[r]] /\ mine[r] = {} /\ GoTo(r, "removing")
    BY <1>4, <1>s, <1>r DEF BeginDelete, NoOldSession, RollsFor
  <2> QED
    BY <2>1, <2>2, <1>p, RollMove
<1>5. ASSUME NEW r \in Requests, Remove(r) PROVE RollInv'
  <2>1. PICK i \in todo[r] :
          /\ todo' = [todo EXCEPT ![r] = @ \ {i}]
          /\ \/ /\ i \in DOMAIN sessions
                /\ sup' = [sup EXCEPT ![r] = sessions[i]]
                /\ sessions' = Restrict(sessions, DOMAIN sessions \ {i})
                /\ GoTo(r, "releasing")
             \/ /\ i \notin DOMAIN sessions
                /\ UNCHANGED <<sup, sessions, pc>>
    BY <1>5 DEF Remove
  <2>2. /\ todo' = [todo EXCEPT ![r] = todo[r] \ {i}]
        /\ DOMAIN sessions' = DOMAIN sessions \ {i}
    BY <2>1 DEF Restrict
  <2>3. pc[r] = "removing" /\ mine' = mine
    BY <1>5 DEF Remove
  <2>4. mine[r] \cap DOMAIN sessions' \subseteq todo[r] \ {i}
    BY <2>2, <2>3, <1>r DEF RollsFor
  <2>5. \E place \in {"removing", "releasing"} : GoTo(r, place)
    <3>1. pc = [pc EXCEPT ![r] = pc[r]]
      BY DEF Types
    <3> QED
      BY <2>1, <2>3, <3>1 DEF GoTo
  <2>6. NoOldSession /\ mine' = [mine EXCEPT ![r] = mine[r]]
    BY <2>2, <2>3, <1>s DEF NoOldSession
  <2> QED
    BY <2>2, <2>4, <2>5, <2>6, <1>p, RollMove
<1>6. ASSUME NEW r \in Requests, ReleaseSlot(r) \/ ActorShut(r) PROVE RollInv'
  <2>1. UNCHANGED <<sessions, mine, todo>> /\ pc[r] \in Deleting
    BY <1>6 DEF ReleaseSlot, ActorShut, locals
  <2>2. PICK place \in {"shutting", "removing"} : GoTo(r, place)
    BY <1>6 DEF ReleaseSlot, ActorShut
  <2>3. NoOldSession /\ mine[r] \cap DOMAIN sessions' \subseteq todo[r]
    BY <2>1, <1>r DEF NoOldSession, RollsFor
  <2>4. mine' = [mine EXCEPT ![r] = mine[r]] /\ todo' = [todo EXCEPT ![r] = todo[r]]
    BY <2>1, <1>s
  <2> QED
    BY <2>2, <2>3, <2>4, <1>p, RollMove
<1>7. ASSUME NEW r \in Requests, DeleteDone(r) \/ Abandon(r) PROVE RollInv'
  <2>1. NoOldSession /\ GoTo(r, "idle") /\ mine' = [mine EXCEPT ![r] = {}]
    BY <1>7 DEF DeleteDone, Abandon, NoOldSession
  <2>2. \E d : todo' = [todo EXCEPT ![r] = d]
    BY <1>7, <1>s DEF DeleteDone, Abandon
  <2> QED
    BY <2>1, <2>2, <1>p, RollMove
<1>8. CASE GoesStale \/ UNCHANGED vars
  BY <1>8 DEF GoesStale, vars, locals, RollInv
<1> QED
  BY <1>1, <1>2, <1>3, <1>4, <1>5, <1>6, <1>7, <1>8 DEF Next, Request, ReserveBack, BuildFails

\* A batch that fails and comes to its end has deleted whatever it had created, however
\* its deletions interleave with those of delete_session and shutdown.
THEOREM RollbackIsComplete == Spec => RollbackComplete
<1>1. Init => RollInv
  BY DEF Init, RollInv, Deleting
<1>2. Spec => []RollInv
  BY <1>1, RollStep, SlotsInvariant, PTL DEF Spec, SlotsInv
<1>3. RollInv => \A r \in Requests : DeleteDone(r) => mine[r] \cap DOMAIN sessions = {}
  BY DEF RollInv, Deleting, DeleteDone
<1>4. RollInv /\ [Next]_vars => [\A r \in Requests : DeleteDone(r) => mine[r] \cap DOMAIN sessions = {}]_vars
  BY <1>3
<1> QED
  BY <1>2, <1>4, PTL DEF Spec, RollbackComplete
==============================================================================
