------------------------ MODULE SessionHistory_proofs ------------------------
(***************************************************************************)
(* The store and the memory of a session agree, for any number of entries  *)
(* and any length of a run: every append that is spawned extends the       *)
(* stored prefix of the conversation by the next slice.                    *)
(***************************************************************************)
EXTENDS SessionHistory, SequenceTheorems, TLAPS

Entry == Nat \ {0}

-----------------------------------------------------------------------------
(* Sequences.                                                              *)

\* New entries are a sequence of entries.
LEMMA FreshSeq ==
  ASSUME lastId \in Nat, NEW k \in Nat
  PROVE  Fresh(k) \in Seq(Entry)
  BY DEF Fresh, Entry

\* Pushing behind a prefix leaves it alone.
LEMMA PrefixOfPushed ==
  ASSUME NEW S, NEW s \in Seq(S), NEW u \in Seq(S), NEW n \in 0..Len(s)
  PROVE  /\ s \o u \in Seq(S)
         /\ n <= Len(s \o u)
         /\ SubSeq(s \o u, 1, n) = SubSeq(s, 1, n)
<1>1. s \o u \in Seq(S) /\ Len(s \o u) = Len(s) + Len(u) /\ Len(s) \in Nat /\ Len(u) \in Nat
  BY ConcatProperties, LenProperties
<1>2. CASE n = 0
  BY <1>1, <1>2, SubSeqEmpty
<1>3. CASE n > 0
  <2>1. 1 \in 1..Len(s) /\ n \in 1..Len(s)
    BY <1>3, <1>1
  <2> QED
    BY <2>1, <1>1, SubSeqOfConcat1
<1> QED
  BY <1>1, <1>2, <1>3

\* A slice of a sequence is a sequence.
LEMMA SliceSeq ==
  ASSUME NEW S, NEW s \in Seq(S), NEW k \in Nat \ {0}
  PROVE  /\ SubSeq(s, k, Len(s)) \in Seq(S)
         /\ k <= Len(s) => SubSeq(s, k, Len(s))[1] \in S
<1>1. \A i \in k..Len(s) : s[i] \in S
  BY LenProperties, ElementOfSeq
<1>2. Len(s) \in Nat
  BY LenProperties
<1>3. SubSeq(s, k, Len(s)) \in Seq(S)
  BY <1>1, <1>2, SubSeqProperties
<1>4. ASSUME k <= Len(s) PROVE SubSeq(s, k, Len(s))[1] \in S
  <2>1. Len(SubSeq(s, k, Len(s))) = Len(s) - k + 1
    BY <1>1, <1>2, <1>4, SubSeqProperties
  <2> QED
    BY <1>2, <1>3, <1>4, <2>1, ElementOfSeq
<1> QED
  BY <1>3, <1>4

-----------------------------------------------------------------------------
(* Types.                                                                  *)

\* auto_restore yields entries and a save boundary.
LEMMA RestoreTypes ==
  ASSUME TypeOK, NEW r \in RestoreOutcomes
  PROVE  r.es \in Seq(Entry) /\ r.saved \in Nat
<1>1. /\ r.es \in {entries, store}
      /\ r.saved \in {lastSaved, Len(store)}
  BY DEF RestoreOutcomes
<1> QED
  BY <1>1, LenProperties DEF TypeOK, Entry

\* Pushing onto entries yields entries.
LEMMA PushTypes ==
  ASSUME TypeOK, NEW es \in Seq(Entry), NEW k \in Nat, PushOnto(es, k)
  PROVE  entries' \in Seq(Nat \ {0}) /\ lastId' \in Nat
<1>1. Fresh(k) \in Seq(Entry)
  BY FreshSeq DEF TypeOK
<1> QED
  BY <1>1, ConcatProperties DEF PushOnto, TypeOK, Entry

\* A step of a spawned append keeps the types of what it touches.
LEMMA TaskTypes ==
  ASSUME TypeOK, NEW t \in tasks, TaskStep(t) \/ AppendFails(t)
  PROVE  tasks' \subseteq Task /\ store' \in Seq(Nat \ {0})
<1>1. t \in Task /\ t.batch \in Seq(Nat \ {0}) /\ t.loaded \in Seq(Nat \ {0})
  BY DEF TypeOK, Task
<1>2. CASE AppendInOne(t) \/ SaveMerged(t) \/ AppendFails(t)
  <2>1. tasks' = tasks \ {t}
    BY <1>2 DEF AppendInOne, SaveMerged, AppendFails, Finish
  <2>2. store' \in {store \o t.batch, t.loaded \o t.batch, store}
    BY <1>2 DEF AppendInOne, SaveMerged, AppendFails
  <2>3. store \in Seq(Nat \ {0}) /\ tasks \subseteq Task
    BY DEF TypeOK
  <2>4. store' \in Seq(Nat \ {0})
    BY ZenonT(30), <1>1, <2>2, <2>3, ConcatProperties
  <2> QED
    BY <2>1, <2>3, <2>4
<1>3. CASE LoadForAppend(t)
  <2>1. [t EXCEPT !.step = "loaded", !.loaded = store] \in Task
    BY <1>1 DEF TypeOK, Task
  <2> QED
    BY <1>3, <2>1 DEF LoadForAppend, TypeOK
<1> QED
  BY <1>2, <1>3 DEF TaskStep

\* Each action of the actor, of an append and of the process keeps the types.
LEMMA TypeStep == TypeOK /\ [Next]_vars => TypeOK'
<1> SUFFICES ASSUME TypeOK, [Next]_vars PROVE TypeOK'
  OBVIOUS
<1> USE DEF TypeOK, history
<1>1. CASE Prompt
  <2>1. PICK r \in RestoreOutcomes, k \in 0..1 : PushOnto(r.es, k) /\ lastSaved' = r.saved
    BY <1>1 DEF Prompt
  <2>2. r.es \in Seq(Entry) /\ r.saved \in Nat
    BY RestoreTypes
  <2>3. entries' \in Seq(Nat \ {0}) /\ lastId' \in Nat
    BY <2>1, <2>2, PushTypes
  <2> QED
    BY <1>1, <2>1, <2>2, <2>3 DEF Prompt
<1>2. CASE Continue
  BY <1>2 DEF Continue
<1>3. CASE CompleteWithDeltas
  <2>1. PICK k \in 0..MaxTurn : PushOnto(entries, 1 + k)
    BY <1>3 DEF CompleteWithDeltas
  <2>2. entries' \in Seq(Nat \ {0}) /\ lastId' \in Nat
    BY <2>1, PushTypes, HistoryAssumption DEF Entry
  <2> QED
    BY <1>3, <2>2 DEF CompleteWithDeltas
<1>4. CASE RunOk
  <2>1. PICK k \in 1..MaxTurn : PushOnto(entries, k)
    BY <1>4 DEF RunOk
  <2>2. entries' \in Seq(Nat \ {0}) /\ lastId' \in Nat
    BY <2>1, PushTypes, HistoryAssumption DEF Entry
  <2> QED
    BY <1>4, <2>2 DEF RunOk
<1>5. CASE RunFails
  BY <1>5 DEF RunFails
<1>6. CASE Compact
  <2> DEFINE all == Append(entries, lastId + 1)
  <2>1. PICK k \in 1..Len(entries) : entries' = TruncateBefore(all, k)
    BY <1>6 DEF Compact
  <2>2. all \in Seq(Nat \ {0}) /\ k \in Nat \ {0}
    BY <2>1, LenProperties
  <2>3. entries' \in Seq(Nat \ {0})
    <3> HIDE DEF all
    <3> QED
      BY <2>1, <2>2, SliceSeq DEF TruncateBefore
  <2>4. lastId' \in Nat /\ compactions' \in SUBSET (Nat \ {0})
    BY <1>6 DEF Compact
  <2> QED
    BY <1>6, <2>3, <2>4 DEF Compact
<1>7. CASE PersistIncremental
  <2>0. PersistSlice(lastSaved + 1, Len(entries)) /\ Len(entries) \in Nat
    BY <1>7, LenProperties DEF PersistIncremental
  <2>1. CASE lastSaved + 1 > Len(entries)
    BY <2>0, <2>1 DEF PersistSlice, NoTask
  <2>2. CASE lastSaved + 1 <= Len(entries)
    <3> DEFINE batch == SubSeq(entries, lastSaved + 1, Len(entries))
    <3>1. batch \in Seq(Nat \ {0}) /\ batch[1] \in Nat \ {0}
      BY <2>2, SliceSeq
    <3>2. [id |-> batch[1], batch |-> batch, step |-> "start", loaded |-> <<>>] \in Task
      BY <3>1, EmptySeq DEF Task
    <3>3. /\ tasks' = tasks \cup {[id |-> batch[1], batch |-> batch,
                                   step |-> "start", loaded |-> <<>>]}
          /\ lastSave' = batch[1] /\ lastSaved' = Len(entries)
      BY <2>0, <2>2 DEF PersistSlice
    <3> HIDE DEF batch
    <3> QED
      BY <2>0, <3>1, <3>2, <3>3 DEF PersistSlice
  <2> QED
    BY <2>0, <2>1, <2>2
<1>8. CASE Reset
  BY <1>8 DEF Reset
<1>9. CASE ApplyContextStrategy
  <2>1. PICK k \in 2..Len(entries) + 1 : entries' = TruncateBefore(entries, k)
    BY <1>9 DEF ApplyContextStrategy
  <2>2. entries' \in Seq(Nat \ {0})
    BY <2>1, SliceSeq, LenProperties DEF TruncateBefore
  <2> QED
    BY <1>9, <2>2 DEF ApplyContextStrategy
<1>10. CASE Flush
  BY <1>10 DEF Flush, NoTask
<1>11. CASE RunTask
  <2>1. PICK t \in tasks : TaskStep(t) \/ AppendFails(t)
    BY <1>11 DEF RunTask
  <2>2. tasks' \subseteq Task /\ store' \in Seq(Nat \ {0})
    BY <2>1, TaskTypes
  <2> QED
    BY <1>11, <2>2 DEF RunTask
<1>12. CASE CrashRestart
  BY <1>12 DEF CrashRestart, NoTask
<1>13. CASE UNCHANGED vars
  BY <1>13 DEF vars
<1> QED
  BY <1>1, <1>2, <1>3, <1>4, <1>5, <1>6, <1>7, <1>8, <1>9, <1>10, <1>11,
     <1>12, <1>13 DEF Next

\* The actor and its appends keep their types, whatever the environment does;
\* in particular the save boundary is never negative.
THEOREM TypeCorrect == Spec => []TypeOK
<1>1. Init => TypeOK
  BY DEF Init, TypeOK, NoTask
<1> QED
  BY <1>1, TypeStep, PTL DEF Spec

-----------------------------------------------------------------------------
(* The stored prefix.                                                      *)

\* At most one append is under way; it is the one in last_save, which the next
\* persist waits for, and what it has read is still what is stored.
Between ==
    \/ tasks = {} /\ store = SubSeq(entries, 1, lastSaved)
    \/ \E t \in tasks :
          /\ tasks = {t}
          /\ t.id = lastSave
          /\ store \o t.batch = SubSeq(entries, 1, lastSaved)
          /\ t.step = "loaded" => t.loaded = store

\* Before its first prompt a session has saved nothing; only a restored session
\* gets as far as a run.
PrefixInv ==
    /\ needsRestore => lastSaved = 0 /\ tasks = {} /\ phase \in {"idle", "error"}
    /\ ~needsRestore => lastSaved <= Len(entries) /\ Between

\* Entries pushed at the end, with nothing else of the history touched.
LEMMA PushStep ==
  ASSUME TypeOK, PrefixInv, ~needsRestore, ~needsRestore',
         NEW k \in Nat, PushOnto(entries, k),
         UNCHANGED <<lastSaved, lastSave, tasks, store>>
  PROVE  PrefixInv'
<1>1. entries \in Seq(Entry) /\ Fresh(k) \in Seq(Entry) /\ lastSaved \in 0..Len(entries)
  BY FreshSeq, LenProperties DEF TypeOK, PrefixInv, Entry
<1>2. /\ lastSaved <= Len(entries')
      /\ SubSeq(entries', 1, lastSaved) = SubSeq(entries, 1, lastSaved)
  BY <1>1, PrefixOfPushed DEF PushOnto
<1> QED
  BY <1>2 DEF PrefixInv, Between

\* A restored session starts from exactly what is stored.
LEMMA PromptStep ==
  ASSUME Plain, TypeOK, PrefixInv, Prompt
  PROVE  PrefixInv'
<1>1. PICK r \in RestoreOutcomes, k \in 0..1 : PushOnto(r.es, k) /\ lastSaved' = r.saved
  BY DEF Prompt
<1>2. ~needsRestore' /\ UNCHANGED <<lastSave, tasks, store>>
  BY DEF Prompt
<1>3. CASE ~needsRestore
  <2>1. r.es = entries /\ r.saved = lastSaved
    BY <1>3 DEF RestoreOutcomes
  <2>2. PushOnto(entries, k) /\ lastSaved' = lastSaved /\ k \in Nat
    BY <1>1, <2>1
  <2> QED
    BY <1>2, <1>3, <2>2, PushStep
<1>4. CASE needsRestore
  <2>1. lastSaved = 0 /\ tasks = {}
    BY <1>4 DEF PrefixInv
  <2>2. r.saved = Len(store) /\ (store = <<>> \/ r.es = store)
    BY <1>4, <2>1, EmptySeq DEF RestoreOutcomes, Plain
  <2>3. /\ store \in Seq(Entry) /\ entries \in Seq(Entry) /\ r.es \in Seq(Entry)
        /\ Fresh(k) \in Seq(Entry)
    BY SMTT(30), RestoreTypes, FreshSeq DEF TypeOK, Entry
  <2>4. Len(store) \in 0..Len(r.es) /\ SubSeq(r.es, 1, Len(store)) = store
    <3>1. CASE store = <<>>
      BY <3>1, <2>3, EmptySeq, SubSeqEmpty, LenProperties
    <3>2. CASE r.es = store
      BY <3>2, <2>3, SubSeqFull, LenProperties
    <3> QED
      BY <2>2, <3>1, <3>2
  <2>5. /\ Len(store) <= Len(entries')
        /\ SubSeq(entries', 1, Len(store)) = store
    BY <1>1, <2>3, <2>4, PrefixOfPushed DEF PushOnto
  <2> QED
    BY <1>1, <1>2, <2>1, <2>2, <2>5 DEF PrefixInv, Between
<1> QED
  BY <1>3, <1>4

\* The wait for the previous append is over only when nothing is under way.
LEMMA PersistStep ==
  ASSUME Plain, TypeOK, PrefixInv, PersistIncremental
  PROVE  PrefixInv'
<1>1. /\ PersistSlice(lastSaved + 1, Len(entries))
      /\ UNCHANGED <<entries, needsRestore, store>>
  BY DEF PersistIncremental, PersistSlice
<1>2. ~needsRestore /\ lastSaved <= Len(entries) /\ Between
  BY <1>1 DEF PersistSlice, PrefixInv
<1>3. ~TaskRuns(lastSave)
  BY <1>1 DEF PersistSlice, SaveAwaited, Plain
<1>4. tasks = {} /\ store = SubSeq(entries, 1, lastSaved)
  BY <1>2, <1>3 DEF Between, TaskRuns
<1>5. entries \in Seq(Entry) /\ lastSaved \in Nat /\ Len(entries) \in Nat
  BY LenProperties DEF TypeOK, Entry
<1>6. CASE lastSaved + 1 > Len(entries)
  <2>1. UNCHANGED <<lastSaved, tasks>>
    BY <1>1, <1>5, <1>6 DEF PersistSlice
  <2>2. Between'
    BY <1>1, <1>4, <2>1 DEF Between
  <2> QED
    BY <1>1, <1>2, <2>1, <2>2 DEF PrefixInv
<1>7. CASE lastSaved + 1 <= Len(entries)
  <2> DEFINE batch == SubSeq(entries, lastSaved + 1, Len(entries))
             t == [id |-> batch[1], batch |-> batch, step |-> "start", loaded |-> <<>>]
  <2>1. tasks' = tasks \cup {t} /\ lastSave' = batch[1] /\ lastSaved' = Len(entries)
    BY <1>1, <1>5, <1>7 DEF PersistSlice
  <2>2. store \o batch = SubSeq(entries, 1, Len(entries))
    BY <1>4, <1>5, <1>7, ConcatAdjacentSubSeq
  <2>3. t.id = batch[1] /\ t.batch = batch /\ t.step = "start"
    OBVIOUS
  <2> HIDE DEF batch, t
  <2>4. Between'
    BY <1>1, <1>4, <2>1, <2>2, <2>3 DEF Between
  <2> QED
    BY <1>1, <1>2, <1>5, <2>1, <2>4 DEF PrefixInv
<1> QED
  BY <1>1, <1>5, <1>6, <1>7

\* The one append under way reads what is stored and writes it back extended.
LEMMA TaskPrefixStep ==
  ASSUME Plain, TypeOK, PrefixInv, RunTask
  PROVE  PrefixInv'
<1>1. PICK t \in tasks : TaskStep(t)
  BY DEF RunTask, AppendFails, Plain
<1>2. UNCHANGED <<entries, needsRestore, lastSaved, lastSave>>
  BY DEF RunTask, history
<1>3. /\ ~needsRestore /\ lastSaved <= Len(entries)
      /\ tasks = {t} /\ t.id = lastSave
      /\ store \o t.batch = SubSeq(entries, 1, lastSaved)
      /\ t.step = "loaded" => t.loaded = store
  BY <1>1 DEF PrefixInv, Between
<1>4. CASE AppendInOne(t) \/ SaveMerged(t)
  <2>1. tasks' = {} /\ store' = store \o t.batch
    BY <1>3, <1>4 DEF AppendInOne, SaveMerged, Finish
  <2> QED
    BY <1>2, <1>3, <2>1 DEF PrefixInv, Between
<1>5. CASE LoadForAppend(t)
  <2> DEFINE u == [t EXCEPT !.step = "loaded", !.loaded = store]
  <2>1. tasks' = {u} /\ store' = store
    BY <1>3, <1>5 DEF LoadForAppend
  <2>2. u.id = t.id /\ u.batch = t.batch /\ u.loaded = store
    BY DEF TypeOK, Task
  <2> HIDE DEF u
  <2> QED
    BY <1>2, <1>3, <2>1, <2>2 DEF PrefixInv, Between
<1> QED
  BY <1>1, <1>4, <1>5 DEF TaskStep

\* What may happen to a session does not change.
LEMMA PlainStays == [Next]_vars => (Plain' <=> Plain)
<1>1. [Next]_vars => features' = features
  BY DEF Next, vars, Prompt, Continue, CompleteWithDeltas, RunOk, RunFails, Compact,
         PersistIncremental, PersistSlice, Reset, ApplyContextStrategy, Flush, RunTask,
         CrashRestart
<1> QED
  BY <1>1 DEF Plain

\* Each action of a plain session keeps the inductive invariant.
LEMMA PrefixStep == TypeOK /\ (Plain => PrefixInv) /\ [Next]_vars => (Plain => PrefixInv)'
<1> SUFFICES ASSUME Plain, TypeOK, PrefixInv, [Next]_vars PROVE PrefixInv'
  BY PlainStays
<1>1. CASE CompleteWithDeltas
  <2>1. PICK k \in 0..MaxTurn : PushOnto(entries, 1 + k)
    BY <1>1 DEF CompleteWithDeltas
  <2>2. /\ UNCHANGED <<needsRestore, lastSaved, lastSave, tasks, store>>
        /\ phase' = "idle" /\ 1 + k \in Nat
    BY <1>1, HistoryAssumption DEF CompleteWithDeltas
  <2> QED
    BY <2>1, <2>2, PushStep DEF PrefixInv
<1>2. CASE RunOk
  <2>1. PICK k \in 1..MaxTurn : PushOnto(entries, k)
    BY <1>2 DEF RunOk
  <2>2. UNCHANGED <<needsRestore, lastSaved, lastSave, tasks, store>> /\ k \in Nat
    BY <1>2, HistoryAssumption DEF RunOk
  <2>3. ~needsRestore
    BY <1>2 DEF RunOk, PrefixInv
  <2> QED
    BY <2>1, <2>2, <2>3, PushStep
<1>3. CASE RunFails
  <2>1. UNCHANGED <<history, tasks, store>> /\ phase' \in {"idle", "error"}
    BY <1>3 DEF RunFails
  <2> QED
    BY <2>1 DEF history, PrefixInv, Between
<1>4. CASE CrashRestart
  BY <1>4 DEF CrashRestart, PrefixInv
<1>5. CASE UNCHANGED vars
  BY <1>5 DEF vars, history, PrefixInv, Between
<1>6. ~Continue /\ ~Compact /\ ~Reset /\ ~ApplyContextStrategy /\ ~Flush
  BY DEF Plain, Continue, Compact, Reset, ApplyContextStrategy, Flush
<1> QED
  BY <1>1, <1>2, <1>3, <1>4, <1>5, <1>6, PromptStep, PersistStep, TaskPrefixStep
     DEF Next

\* The inductive invariant holds in every reachable state of a plain session.
LEMMA PrefixInvariant == Spec => [](Plain => PrefixInv)
<1>1. Init => (Plain => PrefixInv)
  BY DEF Init, PrefixInv
<1> QED
  BY <1>1, PrefixStep, TypeCorrect, PTL DEF Spec

\* What persist_incremental's wait and auto_restore's boundary are for: with no
\* append lost, what is stored and what is being appended are the first
\* last_saved_entry_count entries of the conversation, across crashes, failed and
\* cancelled runs, for both kinds of store.
THEOREM StoreIsPrefix == Spec => []StorePrefix
<1>1. (Plain => PrefixInv) => StorePrefix
  BY DEF PrefixInv, Between, StorePrefix
<1> QED
  BY <1>1, PrefixInvariant, PTL

\* A written row is only ever extended: an append never replaces or truncates what
\* an earlier one wrote, also where append_entries is a load and a save.
THEOREM StoreOnlyExtends == Spec => StoreExtends
<1> DEFINE Ext == Len(store') >= Len(store) /\ SubSeq(store', 1, Len(store)) = store
<1>1. ASSUME TypeOK, Plain, PrefixInv, [Next]_vars PROVE Ext
  <2>1. store \in Seq(Entry)
    BY <1>1 DEF TypeOK, Entry
  <2>2. ASSUME store' = store PROVE Ext
    BY <2>1, <2>2, SubSeqFull, LenProperties
  <2>3. CASE RunTask
    <3>1. PICK t \in tasks : TaskStep(t)
      BY <1>1, <2>3 DEF RunTask, AppendFails, Plain
    <3>2. t.batch \in Seq(Entry)
      BY <1>1 DEF TypeOK, Task, Entry
    <3>3. t.step = "loaded" => t.loaded = store
      BY <1>1, <3>1 DEF PrefixInv, Between
    <3>4. store' = store \/ store' = store \o t.batch
      BY <3>1, <3>3 DEF TaskStep, AppendInOne, LoadForAppend, SaveMerged
    <3>5. ASSUME store' = store \o t.batch PROVE Ext
      <4>1. Len(store) \in 0..Len(store) /\ Len(store) <= Len(store')
        BY <2>1, <3>2, <3>5, LenProperties, ConcatProperties
      <4>2. SubSeq(store', 1, Len(store)) = SubSeq(store, 1, Len(store))
        BY <2>1, <3>2, <3>5, <4>1, PrefixOfPushed
      <4> QED
        BY <2>1, <4>1, <4>2, SubSeqFull
    <3> QED
      BY <2>2, <3>4, <3>5
  <2>4. CASE ~RunTask
    <3>1. ~Flush
      BY <1>1 DEF Plain, Flush
    <3>2. store' = store
      BY <1>1, <2>4, <3>1 DEF Next, vars, Prompt, Continue, CompleteWithDeltas, RunOk,
           RunFails, Compact, PersistIncremental, PersistSlice, Reset,
           ApplyContextStrategy, CrashRestart
    <3> QED
      BY <2>2, <3>2
  <2> QED
    BY <2>3, <2>4
<1>2. TypeOK /\ (Plain => PrefixInv) /\ [Next]_vars => [Plain => Ext]_vars
  BY <1>1
<1> QED
  BY <1>2, PrefixInvariant, TypeCorrect, PTL DEF Spec, StoreExtends

-----------------------------------------------------------------------------
(* What is sent once, kept in order and never lost, in all circumstances.   *)

Distinct(s) == \A i, j \in DOMAIN s : s[i] = s[j] => i = j
Increasing(s) == \A i, j \in DOMAIN s : i < j => s[i] < s[j]

\* The entries behind the boundary n, which persist_incremental has still to send.
Unsent(es, n) == {es[i] : i \in n + 1..Len(es)}

New(n) == lastId + 1..lastId + n

\* The elements of a concatenation, and when it has no element twice and is in order.
LEMMA Concatenated ==
  ASSUME NEW s \in Seq(Entry), NEW u \in Seq(Entry)
  PROVE  /\ s \o u \in Seq(Entry) /\ Elems(s \o u) = Elems(s) \cup Elems(u)
         /\ Distinct(s) /\ Distinct(u) /\ Elems(s) \cap Elems(u) = {} => Distinct(s \o u)
         /\ Increasing(s) /\ Increasing(u) /\ (\A m \in Elems(s), n \in Elems(u) : m < n) => Increasing(s \o u)
<1> DEFINE a == Len(s)  b == Len(u)
<1>1. /\ s \o u \in Seq(Entry) /\ a \in Nat /\ b \in Nat /\ DOMAIN s = 1..a /\ DOMAIN u = 1..b
      /\ DOMAIN (s \o u) = 1..a + b
      /\ \A i \in 1..a + b : (s \o u)[i] = IF i <= a THEN s[i] ELSE u[i - a]
  BY ConcatProperties, LenProperties
<1> HIDE DEF a, b
<1>2. ASSUME NEW i \in 1..a + b
      PROVE  \/ i \in 1..a /\ (s \o u)[i] = s[i] /\ s[i] \in Elems(s)
             \/ i - a \in 1..b /\ (s \o u)[i] = u[i - a] /\ u[i - a] \in Elems(u) /\ ~(i <= a)
  <2>1. i <= a => i \in 1..a
    BY <1>1
  <2>2. ~(i <= a) => i - a \in 1..b
    BY <1>1
  <2> QED
    BY <1>1, <2>1, <2>2 DEF Elems
<1>3. \A i \in 1..a : i \in 1..a + b /\ (s \o u)[i] = s[i]
  BY <1>1
<1>4. \A i \in 1..b : i + a \in 1..a + b /\ (s \o u)[i + a] = u[i]
  BY <1>1
<1>5. Elems(s \o u) = Elems(s) \cup Elems(u)
  <2>1. Elems(s \o u) \subseteq Elems(s) \cup Elems(u)
    BY <1>1, <1>2 DEF Elems
  <2>2. Elems(s) \subseteq Elems(s \o u)
    BY <1>1, <1>3 DEF Elems
  <2>3. Elems(u) \subseteq Elems(s \o u)
    BY ZenonT(30), <1>1, <1>4 DEF Elems
  <2> QED
    BY <2>1, <2>2, <2>3
<1>6. ASSUME Distinct(s), Distinct(u), Elems(s) \cap Elems(u) = {} PROVE Distinct(s \o u)
  <2>1. SUFFICES ASSUME NEW i \in 1..a + b, NEW j \in 1..a + b, (s \o u)[i] = (s \o u)[j] PROVE i = j
    BY <1>1 DEF Distinct
  <2>2. i - a = j - a => i = j
    BY <1>1
  <2> QED
    BY <1>1, <1>2, <1>6, <2>1, <2>2 DEF Distinct
<1>7. ASSUME Increasing(s), Increasing(u), \A m \in Elems(s), n \in Elems(u) : m < n PROVE Increasing(s \o u)
  <2>1. SUFFICES ASSUME NEW i \in 1..a + b, NEW j \in 1..a + b, i < j PROVE (s \o u)[i] < (s \o u)[j]
    BY <1>1 DEF Increasing
  <2>2. CASE i <= a /\ j <= a
    BY SMTT(30), <1>1, <1>7, <2>1, <2>2 DEF Increasing
  <2>3. CASE i <= a /\ ~(j <= a)
    <3>1. (s \o u)[i] = s[i] /\ s[i] \in Elems(s)
      BY <1>2, <2>3
    <3>2. (s \o u)[j] = u[j - a] /\ u[j - a] \in Elems(u)
      BY SMTT(30), <1>1, <1>2, <2>3
    <3> QED
      BY <1>7, <3>1, <3>2
  <2>4. CASE ~(i <= a) /\ ~(j <= a)
    <3>1. i - a \in DOMAIN u /\ j - a \in DOMAIN u /\ i - a < j - a
      BY <1>1, <2>1, <2>4
    <3> QED
      BY <1>1, <1>7, <2>4, <3>1 DEF Increasing
  <2>5. ~(i <= a) => ~(j <= a)
    BY <1>1, <2>1
  <2> QED
    BY <2>2, <2>3, <2>4, <2>5
<1> QED
  BY <1>1, <1>5, <1>6, <1>7

\* What is left of a sequence from its position k on.
LEMMA Sliced ==
  ASSUME NEW s \in Seq(Entry), NEW k \in Nat \ {0}
  PROVE  LET q == SubSeq(s, k, Len(s))
         IN  /\ q \in Seq(Entry) /\ Elems(q) = Unsent(s, k - 1) /\ Elems(q) \subseteq Elems(s)
             /\ \A n \in Nat : Unsent(q, n) \subseteq Unsent(s, n)
             /\ Distinct(s) => Distinct(q)
             /\ Increasing(s) => Increasing(q)
<1> DEFINE n == Len(s)  q == SubSeq(s, k, n)
<1>1. n \in Nat /\ DOMAIN s = 1..n /\ q \in Seq(Entry)
  BY LenProperties, SliceSeq
<1>2. /\ Len(q) \in Nat /\ DOMAIN q = 1..Len(q) /\ (k <= n => Len(q) = n - k + 1) /\ (~(k <= n) => Len(q) = 0)
      /\ \A i \in 1..Len(q) : q[i] = s[i + k - 1]
  <2>1. \A i \in k..n : s[i] \in Entry
    BY <1>1, ElementOfSeq
  <2>2. /\ Len(q) = IF k <= n THEN n - k + 1 ELSE 0
        /\ \A i \in 1..n - k + 1 : q[i] = s[k + i - 1]
    BY SMTT(30), <1>1, <2>1, SubSeqProperties
  <2>3. \A i \in Nat : k + i - 1 = i + k - 1
    OBVIOUS
  <2> QED
    BY <1>1, <2>2, <2>3, LenProperties
<1> HIDE DEF n, q
<1>3. \A i \in 1..Len(q) : i + k - 1 \in 1..n /\ i + k - 1 \in k..n
  BY <1>1, <1>2
<1>4. \A i \in k..n : i - k + 1 \in 1..Len(q) /\ q[i - k + 1] = s[i]
  <2>1. SUFFICES ASSUME NEW i \in k..n PROVE i - k + 1 \in 1..Len(q) /\ q[i - k + 1] = s[i]
    OBVIOUS
  <2>2. k <= n /\ i - k + 1 \in 1..Len(q) /\ (i - k + 1) + k - 1 = i
    BY <1>1, <1>2
  <2> QED
    BY <1>2, <2>2
<1>5. Elems(q) = Unsent(s, k - 1)
  <2>1. k - 1 + 1 = k
    OBVIOUS
  <2>2. Unsent(s, k - 1) = {s[i] : i \in k..n} /\ Elems(q) = {q[i] : i \in 1..Len(q)}
    BY <1>2, <2>1 DEF Elems, Unsent, n
  <2>3. Elems(q) \subseteq Unsent(s, k - 1)
    BY <1>2, <1>3, <2>2
  <2>4. Unsent(s, k - 1) \subseteq Elems(q)
    BY <1>4, <2>2
  <2> QED
    BY <2>3, <2>4
<1>6. Elems(q) \subseteq Elems(s)
  BY <1>1, <1>2, <1>3 DEF Elems
<1>7. ASSUME NEW m \in Nat PROVE Unsent(q, m) \subseteq Unsent(s, m)
  <2>1. \A i \in m + 1..Len(q) : i \in 1..Len(q) /\ i + k - 1 \in m + 1..n
    BY <1>1, <1>2
  <2> QED
    BY <1>2, <2>1 DEF Unsent, n
<1>8. ASSUME Distinct(s) PROVE Distinct(q)
  <2> SUFFICES ASSUME NEW i \in 1..Len(q), NEW j \in 1..Len(q), q[i] = q[j] PROVE i = j
    BY <1>2 DEF Distinct
  <2>1. s[i + k - 1] = s[j + k - 1]
    BY <1>2
  <2>2. i + k - 1 \in DOMAIN s /\ j + k - 1 \in DOMAIN s
    BY <1>1, <1>3
  <2>3. i + k - 1 = j + k - 1
    BY <1>8, <2>1, <2>2 DEF Distinct
  <2> QED
    BY <1>2, <2>3
<1>9. ASSUME Increasing(s) PROVE Increasing(q)
  <2> SUFFICES ASSUME NEW i \in 1..Len(q), NEW j \in 1..Len(q), i < j PROVE q[i] < q[j]
    BY <1>2 DEF Increasing
  <2>1. q[i] = s[i + k - 1] /\ q[j] = s[j + k - 1]
    BY <1>2
  <2>2. i + k - 1 \in DOMAIN s /\ j + k - 1 \in DOMAIN s /\ i + k - 1 < j + k - 1
    BY <1>1, <1>2, <1>3
  <2> QED
    BY <1>9, <2>1, <2>2 DEF Increasing
<1> QED
  BY <1>1, <1>5, <1>6, <1>7, <1>8, <1>9 DEF q, n

\* New entries are newer than all there are.
LEMMA NewEntries ==
  ASSUME lastId \in Nat, NEW n \in Nat
  PROVE  Fresh(n) \in Seq(Entry) /\ Len(Fresh(n)) = n /\ Elems(Fresh(n)) = New(n) /\ Distinct(Fresh(n)) /\ Increasing(Fresh(n))
<1>1. Fresh(n) \in Seq(Entry) /\ Len(Fresh(n)) = n /\ DOMAIN Fresh(n) = 1..n /\ \A i \in 1..n : Fresh(n)[i] = lastId + i
  BY FreshSeq DEF Fresh
<1>2. \A i \in New(n) : i - lastId \in 1..n /\ i = lastId + (i - lastId)
  BY DEF New
<1>3. \A i \in 1..n : lastId + i \in New(n)
  BY DEF New
<1>4. Elems(Fresh(n)) = New(n)
  <2>1. Elems(Fresh(n)) = {Fresh(n)[i] : i \in 1..n}
    BY <1>1 DEF Elems
  <2>2. Elems(Fresh(n)) \subseteq New(n)
    BY <1>1, <1>3, <2>1
  <2>3. New(n) \subseteq Elems(Fresh(n))
    BY <1>1, <1>2, <2>1
  <2> QED
    BY <2>2, <2>3
<1>5. Distinct(Fresh(n)) /\ Increasing(Fresh(n))
  BY <1>1 DEF Distinct, Increasing
<1> QED
  BY <1>1, <1>4, <1>5

\* Whatever the actor does to the entries: some are pushed behind what there is, or was
\* restored, and then everything before the k-th is dropped.
Edited(es, saved, n, k) ==
    /\ entries' = SubSeq(es \o Fresh(n), k, Len(es \o Fresh(n)))
    /\ lastId' = lastId + n /\ lastSaved' = saved

LEMMA EditedEntries ==
  ASSUME TypeOK, NEW es \in Seq(Entry), NEW saved \in Nat, NEW n \in Nat, NEW k \in Nat \ {0},
         \A m \in Elems(es) : m <= lastId, Edited(es, saved, n, k)
  PROVE  /\ Elems(entries') \subseteq Elems(es) \cup New(n)
         /\ Unsent(entries', saved) \subseteq Unsent(es, saved) \cup New(n)
         /\ Distinct(es) => Distinct(entries')
         /\ Increasing(es) => Increasing(entries')
<1> DEFINE p == es \o Fresh(n)
<1>0. lastId \in Nat
  BY DEF TypeOK
<1>1. Fresh(n) \in Seq(Entry) /\ Len(Fresh(n)) = n /\ Elems(Fresh(n)) = New(n) /\ Distinct(Fresh(n)) /\ Increasing(Fresh(n))
  BY <1>0, NewEntries
<1>2. \A m \in Elems(es), i \in New(n) : m < i
  <2>1. Elems(es) \subseteq Nat
    BY ElementOfSeq, LenProperties DEF Elems, Entry
  <2> QED
    BY <1>0, <2>1 DEF New
<1>3. Elems(es) \cap New(n) = {}
  <2>1. Elems(es) \subseteq Nat
    BY ElementOfSeq, LenProperties DEF Elems, Entry
  <2> QED
    BY <1>2, <2>1
<1>4. /\ p \in Seq(Entry) /\ Elems(p) = Elems(es) \cup New(n)
      /\ Distinct(es) => Distinct(p)
      /\ Increasing(es) => Increasing(p)
  BY <1>1, <1>2, <1>3, Concatenated
<1>5. Unsent(p, saved) \subseteq Unsent(es, saved) \cup New(n)
  <2>1. /\ Len(p) = Len(es) + n /\ Len(es) \in Nat
        /\ \A i \in 1..Len(p) : p[i] = IF i <= Len(es) THEN es[i] ELSE Fresh(n)[i - Len(es)]
    BY <1>1, ConcatProperties, LenProperties
  <2>2. SUFFICES ASSUME NEW i \in saved + 1..Len(p) PROVE p[i] \in Unsent(es, saved) \cup New(n)
    BY DEF Unsent
  <2>3. CASE i <= Len(es)
    <3>1. i \in 1..Len(p) /\ i \in saved + 1..Len(es)
      BY <2>1, <2>3
    <3> QED
      BY <2>1, <2>3, <3>1 DEF Unsent
  <2>4. CASE ~(i <= Len(es))
    <3>1. i \in 1..Len(p) /\ i - Len(es) \in 1..n
      BY <2>1, <2>4
    <3>2. Fresh(n)[i - Len(es)] \in Elems(Fresh(n))
      BY <1>1, <3>1, LenProperties DEF Elems
    <3> QED
      BY <1>1, <2>1, <2>4, <3>1, <3>2
  <2> QED
    BY <2>3, <2>4
<1>6. entries' = SubSeq(p, k, Len(p))
  BY DEF Edited
<1> HIDE DEF p
<1>7. /\ Elems(entries') \subseteq Elems(p)
      /\ Unsent(entries', saved) \subseteq Unsent(p, saved)
      /\ Distinct(p) => Distinct(entries')
      /\ Increasing(p) => Increasing(entries')
  BY <1>4, <1>6, Sliced
<1> QED
  BY <1>4, <1>5, <1>7

\* The actor's actions are such edits; only those of three features drop anything, and a
\* session that restores what is stored takes all of it for saved.
Source(es, saved) == (es = entries /\ saved = lastSaved) \/ (es = store /\ saved = Len(store))

LEMMA ActorEdits ==
  ASSUME TypeOK, Prompt \/ CompleteWithDeltas \/ RunOk \/ Compact \/ Reset \/ ApplyContextStrategy
  PROVE  /\ \E es \in Seq(Entry), saved \in Nat, n \in Nat, k \in Nat \ {0} :
               /\ Source(es, saved) /\ Edited(es, saved, n, k)
               /\ k = 1 \/ features \cap {"compact", "reset", "strategy"} # {}
         /\ UNCHANGED <<features, lastSave, tasks, store>>
<1>0. /\ entries \in Seq(Entry) /\ store \in Seq(Entry) /\ lastSaved \in Nat /\ lastId \in Nat
      /\ Len(entries) \in Nat /\ Len(store) \in Nat /\ MaxTurn \in Nat
  BY LenProperties, HistoryAssumption DEF TypeOK, Entry, HistoryAssumption
<1>1. ASSUME NEW es \in Seq(Entry), NEW saved \in Nat, Source(es, saved), NEW n \in Nat, PushOnto(es, n), lastSaved' = saved
      PROVE  Edited(es, saved, n, 1)
  <2>1. es \o Fresh(n) \in Seq(Entry)
    BY <1>0, NewEntries, Concatenated
  <2>2. SubSeq(es \o Fresh(n), 1, Len(es \o Fresh(n))) = es \o Fresh(n)
    BY <2>1, SubSeqFull
  <2> QED
    BY <1>1, <2>2 DEF PushOnto, Edited
<1>2. ASSUME NEW k \in Nat \ {0}, entries' = TruncateBefore(entries, k), lastId' = lastId, lastSaved' = lastSaved
      PROVE  Edited(entries, lastSaved, 0, k)
  <2>1. entries \o Fresh(0) = entries
    <3>1. Fresh(0) \in Seq(Entry) /\ Len(Fresh(0)) = 0
      BY <1>0, NewEntries
    <3>2. Fresh(0) = <<>>
      BY <3>1, EmptySeq
    <3> QED
      BY <1>0, <3>2, ConcatEmptySeq
  <2> QED
    BY <1>0, <1>2, <2>1 DEF TruncateBefore, Edited
<1>3. CASE Prompt
  <2>1. PICK r \in RestoreOutcomes, n \in 0..1 : PushOnto(r.es, n) /\ lastSaved' = r.saved
    BY <1>3 DEF Prompt
  <2>2. r.es \in Seq(Entry) /\ r.saved \in Nat /\ Source(r.es, r.saved) /\ n \in Nat
    BY <2>1, RestoreTypes DEF RestoreOutcomes, Source
  <2> QED
    BY <1>1, <1>3, <2>1, <2>2 DEF Prompt
<1>4. CASE CompleteWithDeltas
  <2>1. PICK n \in 0..MaxTurn : PushOnto(entries, 1 + n)
    BY <1>4 DEF CompleteWithDeltas
  <2>2. 1 + n \in Nat /\ Source(entries, lastSaved) /\ lastSaved' = lastSaved
    BY <1>0, <1>4 DEF CompleteWithDeltas, Source
  <2> QED
    BY <1>0, <1>1, <1>4, <2>1, <2>2 DEF CompleteWithDeltas
<1>5. CASE RunOk
  <2>1. PICK n \in 1..MaxTurn : PushOnto(entries, n)
    BY <1>5 DEF RunOk
  <2>2. n \in Nat /\ Source(entries, lastSaved) /\ lastSaved' = lastSaved
    BY <1>0, <1>5 DEF RunOk, Source
  <2> QED
    BY <1>0, <1>1, <1>5, <2>1, <2>2 DEF RunOk
<1>6. CASE Compact
  <2>1. PICK k \in 1..Len(entries) : entries' = TruncateBefore(Append(entries, lastId + 1), k)
    BY <1>6 DEF Compact
  <2>2. entries \o Fresh(1) = Append(entries, lastId + 1)
    <3>1. Fresh(1) = <<lastId + 1>>
      BY <1>0 DEF Fresh
    <3>2. lastId + 1 \in Entry
      BY <1>0 DEF Entry
    <3> QED
      BY <1>0, <3>1, <3>2, AppendIsConcat
  <2>3. Edited(entries, lastSaved, 1, k)
    BY <1>6, <2>1, <2>2 DEF Compact, TruncateBefore, Edited
  <2>4. k \in Nat \ {0} /\ 1 \in Nat /\ Source(entries, lastSaved) /\ "compact" \in features
    BY <1>0, <1>6 DEF Source, Compact
  <2> QED
    BY <1>0, <1>6, <2>3, <2>4 DEF Compact
<1>7. CASE Reset
  <2>1. entries' = TruncateBefore(entries, Len(entries) + 1)
    BY <1>0, <1>7, SubSeqEmpty DEF Reset, TruncateBefore
  <2>2. Edited(entries, lastSaved, 0, Len(entries) + 1)
    BY <1>0, <1>2, <1>7, <2>1 DEF Reset
  <2>3. Len(entries) + 1 \in Nat \ {0} /\ 0 \in Nat /\ Source(entries, lastSaved) /\ "reset" \in features
    BY <1>0, <1>7 DEF Source, Reset
  <2> QED
    BY <1>0, <1>7, <2>2, <2>3 DEF Reset
<1>8. CASE ApplyContextStrategy
  <2>1. PICK k \in 2..Len(entries) + 1 : entries' = TruncateBefore(entries, k)
    BY <1>8 DEF ApplyContextStrategy
  <2>2. k \in Nat \ {0} /\ 0 \in Nat /\ Source(entries, lastSaved) /\ "strategy" \in features
    BY <1>0, <1>8 DEF Source, ApplyContextStrategy
  <2>3. Edited(entries, lastSaved, 0, k)
    BY <1>0, <1>2, <1>8, <2>1, <2>2 DEF ApplyContextStrategy
  <2> QED
    BY <1>0, <1>8, <2>2, <2>3 DEF ApplyContextStrategy
<1> QED
  BY <1>3, <1>4, <1>5, <1>6, <1>7, <1>8

\* Without flush: nothing that is stored, read by an append or carried by one is carried
\* by another or has still to be sent.
Aged ==
    /\ \A n \in Elems(entries) \cup Elems(store) : n <= lastId
    /\ \A t \in tasks : \A n \in Elems(t.batch) \cup Elems(t.loaded) : n <= lastId

OnceEach ==
    /\ Distinct(entries) /\ Distinct(store)
    /\ \A t \in tasks : Distinct(t.batch) /\ Distinct(t.loaded)

Apart ==
    /\ \A t \in tasks : Elems(t.batch) \cap Elems(store) = {}
    /\ \A t, u \in tasks : Elems(t.batch) \cap Elems(u.loaded) = {}
    /\ \A t, u \in tasks : t # u => Elems(t.batch) \cap Elems(u.batch) = {}
    /\ \A n \in Unsent(entries, lastSaved) :
          n \notin Elems(store) /\ \A t \in tasks : n \notin Elems(t.batch) \cup Elems(t.loaded)

SentInv == Aged /\ OnceEach /\ Apart

\* What may be edited is not newer than lastId and, restored, is saved.
LEMMA SourceEntries ==
  ASSUME TypeOK, Aged, NEW es, NEW saved, Source(es, saved)
  PROVE  /\ \A m \in Elems(es) : m <= lastId
         /\ Unsent(es, saved) \subseteq Unsent(entries, lastSaved)
<1>1. Unsent(store, Len(store)) = {}
  <2>1. Len(store) \in Nat
    BY LenProperties DEF TypeOK
  <2>2. \A i : i \notin Len(store) + 1..Len(store)
    BY <2>1
  <2> QED
    BY <2>2 DEF Unsent
<1> QED
  BY <1>1 DEF Source, Aged

LEMMA SentEdit ==
  ASSUME TypeOK, SentInv, NEW es \in Seq(Entry), NEW saved \in Nat, NEW n \in Nat, NEW k \in Nat \ {0},
         Source(es, saved), Edited(es, saved, n, k), tasks' = tasks, store' = store
  PROVE  SentInv'
<1>0. lastId \in Nat /\ lastId' = lastId + n /\ lastSaved' = saved
  BY DEF TypeOK, Edited
<1>1. /\ \A m \in Elems(es) : m <= lastId
      /\ Unsent(es, saved) \subseteq Unsent(entries, lastSaved)
  BY SourceEntries DEF SentInv
<1>2. /\ Elems(entries') \subseteq Elems(es) \cup New(n)
      /\ Unsent(entries', saved) \subseteq Unsent(entries, lastSaved) \cup New(n)
      /\ Distinct(es) => Distinct(entries')
  BY <1>1, EditedEntries
<1>3. \A m \in New(n) : m \in Nat /\ lastId < m /\ m <= lastId'
  BY <1>0 DEF New
<1>4. /\ Elems(es) \subseteq Nat /\ Elems(store) \subseteq Nat
      /\ \A t \in tasks : Elems(t.batch) \subseteq Nat /\ Elems(t.loaded) \subseteq Nat
  BY ElementOfSeq, LenProperties DEF Elems, Entry, TypeOK, Task
<1>5. \A m \in Nat : m <= lastId => m <= lastId' /\ m \notin New(n)
  BY <1>0 DEF New
<1>6. Aged'
  <2>1. \A m \in Elems(entries') : m <= lastId'
    BY <1>1, <1>2, <1>3, <1>4, <1>5
  <2>2. \A m \in Elems(store') : m <= lastId'
    BY <1>4, <1>5 DEF SentInv, Aged
  <2>3. \A t \in tasks' : \A m \in Elems(t.batch) \cup Elems(t.loaded) : m <= lastId'
    BY <1>4, <1>5 DEF SentInv, Aged
  <2> QED
    BY <2>1, <2>2, <2>3 DEF Aged
<1>7. OnceEach'
  BY <1>2 DEF SentInv, OnceEach, Source
<1>8. \A m \in New(n) : m \notin Elems(store) /\ \A t \in tasks : m \notin Elems(t.batch) \cup Elems(t.loaded)
  BY <1>4, <1>5 DEF SentInv, Aged
<1>9. Apart'
  BY <1>0, <1>2, <1>8 DEF SentInv, Apart
<1> QED
  BY <1>6, <1>7, <1>9 DEF SentInv

\* A slice that is handed over becomes a new append.
HandedOver(t) ==
    /\ tasks' = tasks \cup {t} /\ t.id = t.batch[1]
    /\ t.batch = SubSeq(entries, lastSaved + 1, Len(entries)) /\ t.loaded = <<>> /\ t.step = "start"
    /\ lastSave' = t.id /\ lastSaved' = Len(entries)

LEMMA PersistHands ==
  ASSUME TypeOK, PersistIncremental
  PROVE  /\ entries' = entries /\ store' = store /\ lastId' = lastId /\ features' = features
         /\ \/ tasks' = tasks /\ lastSaved' = lastSaved /\ lastSave' = NoTask
            \/ lastSaved < Len(entries) /\ \E t \in Task : HandedOver(t)
<1>0. entries \in Seq(Entry) /\ lastSaved \in Nat /\ Len(entries) \in Nat
  BY LenProperties DEF TypeOK, Entry
<1>1. PersistSlice(lastSaved + 1, Len(entries))
  BY DEF PersistIncremental
<1>2. entries' = entries /\ store' = store /\ lastId' = lastId /\ features' = features
  BY <1>1 DEF PersistSlice
<1>3. CASE lastSaved + 1 > Len(entries)
  BY <1>0, <1>1, <1>2, <1>3 DEF PersistSlice
<1>4. CASE lastSaved + 1 <= Len(entries)
  <2> DEFINE batch == SubSeq(entries, lastSaved + 1, Len(entries))
             t == [id |-> batch[1], batch |-> batch, step |-> "start", loaded |-> <<>>]
  <2>1. tasks' = tasks \cup {t} /\ lastSave' = batch[1] /\ lastSaved' = Len(entries)
    BY <1>0, <1>1, <1>4 DEF PersistSlice
  <2>2. batch \in Seq(Entry) /\ batch[1] \in Entry /\ <<>> \in Seq(Entry)
    BY <1>0, <1>4, SliceSeq, EmptySeq
  <2>3. t \in Task /\ HandedOver(t)
    BY <2>1, <2>2 DEF Task, HandedOver, Entry
  <2>4. lastSaved < Len(entries)
    BY <1>0, <1>4
  <2> HIDE DEF t
  <2> QED
    BY <1>2, <2>3, <2>4
<1> QED
  BY <1>0, <1>3, <1>4

\* What is handed over is what had not been sent; after it nothing has to be.
LEMMA BatchIsUnsent ==
  ASSUME TypeOK, NEW t \in Task, HandedOver(t), entries' = entries
  PROVE  /\ Elems(t.batch) = Unsent(entries, lastSaved) /\ Elems(t.batch) \subseteq Elems(entries)
         /\ Elems(t.loaded) = {} /\ Distinct(t.loaded)
         /\ Unsent(entries', lastSaved') = {}
         /\ Distinct(entries) => Distinct(t.batch)
         /\ Increasing(entries) => Increasing(t.batch)
<1>0. entries \in Seq(Entry) /\ lastSaved \in Nat /\ Len(entries) \in Nat
  BY LenProperties DEF TypeOK, Entry
<1>1. lastSaved + 1 \in Nat \ {0} /\ lastSaved + 1 - 1 = lastSaved
  BY <1>0
<1>2. /\ Elems(t.batch) = Unsent(entries, lastSaved + 1 - 1) /\ Elems(t.batch) \subseteq Elems(entries)
      /\ Distinct(entries) => Distinct(t.batch)
      /\ Increasing(entries) => Increasing(t.batch)
  BY <1>0, <1>1, Sliced DEF HandedOver
<1>3. t.loaded = <<>> /\ DOMAIN <<>> = {}
  BY EmptySeq, LenProperties DEF HandedOver
<1>4. Elems(t.loaded) = {} /\ Distinct(t.loaded)
  BY <1>3 DEF Elems, Distinct
<1>5. Unsent(entries', lastSaved') = {}
  <2>1. \A i : i \notin Len(entries) + 1..Len(entries)
    BY <1>0
  <2> QED
    BY <2>1 DEF Unsent, HandedOver
<1> QED
  BY <1>1, <1>2, <1>4, <1>5

LEMMA SentPersist ==
  ASSUME TypeOK, SentInv, PersistIncremental
  PROVE  SentInv'
<1>1. /\ entries' = entries /\ store' = store /\ lastId' = lastId
      /\ \/ tasks' = tasks /\ lastSaved' = lastSaved
         \/ \E t \in Task : HandedOver(t)
  BY PersistHands
<1>2. CASE tasks' = tasks /\ lastSaved' = lastSaved
  BY <1>1, <1>2 DEF SentInv, Aged, OnceEach, Apart
<1>3. ASSUME NEW t \in Task, HandedOver(t) PROVE SentInv'
  <2>1. /\ Elems(t.batch) = Unsent(entries, lastSaved) /\ Elems(t.batch) \subseteq Elems(entries)
        /\ Elems(t.loaded) = {} /\ Distinct(t.loaded) /\ Unsent(entries', lastSaved') = {}
        /\ Distinct(entries) => Distinct(t.batch)
    BY <1>1, <1>3, BatchIsUnsent
  <2>2. tasks' = tasks \cup {t}
    BY <1>3 DEF HandedOver
  <2>3. Aged' /\ OnceEach'
    BY <1>1, <2>1, <2>2 DEF SentInv, Aged, OnceEach
  <2>4. \A u \in tasks : Elems(t.batch) \cap (Elems(u.batch) \cup Elems(u.loaded)) = {} /\ Elems(t.batch) \cap Elems(store) = {}
    BY <2>1 DEF SentInv, Apart
  <2>5. Elems(t.batch) \cap Elems(store) = {}
    BY <2>1 DEF SentInv, Apart
  <2>6. Apart'
    <3>1. \A u \in tasks' : Elems(u.batch) \cap Elems(store') = {}
      BY <1>1, <2>2, <2>5 DEF SentInv, Apart
    <3>2. \A u, v \in tasks' : Elems(u.batch) \cap Elems(v.loaded) = {}
      BY <2>1, <2>2, <2>4 DEF SentInv, Apart
    <3>3. \A u, v \in tasks' : u # v => Elems(u.batch) \cap Elems(v.batch) = {}
      BY <2>2, <2>4 DEF SentInv, Apart
    <3> QED
      BY <2>1, <3>1, <3>2, <3>3 DEF Apart
  <2> QED
    BY <2>3, <2>6 DEF SentInv
<1> QED
  BY <1>1, <1>2, <1>3

\* An append that is over has stored its batch behind what it read, or nothing.
LEMMA SentTask ==
  ASSUME TypeOK, SentInv, RunTask
  PROVE  SentInv'
<1>1. PICK t \in tasks : TaskStep(t) \/ AppendFails(t)
  BY DEF RunTask
<1>2. entries' = entries /\ lastSaved' = lastSaved /\ lastId' = lastId
  BY DEF RunTask, history
<1>3. /\ store \in Seq(Entry) /\ t.batch \in Seq(Entry) /\ t.loaded \in Seq(Entry) /\ t \in Task
  BY DEF TypeOK, Task, Entry
<1>4. ASSUME NEW s \in Seq(Entry), s = store \/ s = t.loaded, store' = s \o t.batch, tasks' = tasks \ {t}
      PROVE  SentInv'
  <2>1. /\ Elems(store') = Elems(s) \cup Elems(t.batch)
        /\ Distinct(s) /\ Distinct(t.batch) /\ Elems(s) \cap Elems(t.batch) = {} => Distinct(store')
    BY <1>3, <1>4, Concatenated
  <2>2. Aged'
    BY <1>2, <1>4, <2>1 DEF SentInv, Aged
  <2>3. OnceEach'
    <3>1. Distinct(s) /\ Distinct(t.batch) /\ Elems(s) \cap Elems(t.batch) = {}
      BY <1>4 DEF SentInv, OnceEach, Apart
    <3> QED
      BY <1>2, <1>4, <2>1, <3>1 DEF SentInv, OnceEach
  <2>4. Apart'
    <3>1. \A u \in tasks' : u \in tasks /\ u # t
      BY <1>4
    <3>2. \A u \in tasks' : Elems(u.batch) \cap Elems(store') = {}
      BY <1>4, <2>1, <3>1 DEF SentInv, Apart
    <3>3. \A n \in Unsent(entries', lastSaved') : n \notin Elems(store')
      BY <1>2, <1>4, <2>1 DEF SentInv, Apart
    <3> QED
      BY <1>2, <3>1, <3>2, <3>3 DEF SentInv, Apart
  <2> QED
    BY <2>2, <2>3, <2>4 DEF SentInv
<1>5. CASE AppendInOne(t) \/ SaveMerged(t)
  BY <1>3, <1>4, <1>5 DEF AppendInOne, SaveMerged, Finish
<1>6. CASE AppendFails(t)
  <2>1. tasks' \subseteq tasks /\ store' = store
    BY <1>6 DEF AppendFails, Finish
  <2> QED
    BY <1>2, <2>1 DEF SentInv, Aged, OnceEach, Apart
<1>7. CASE LoadForAppend(t)
  <2> DEFINE v == [t EXCEPT !.step = "loaded", !.loaded = store]
  <2>1. tasks' = (tasks \ {t}) \cup {v} /\ store' = store
    BY <1>7 DEF LoadForAppend
  <2>2. v.batch = t.batch /\ v.loaded = store
    BY <1>3 DEF Task
  <2> HIDE DEF v
  <2>3. Aged' /\ OnceEach'
    BY <1>2, <2>1, <2>2 DEF SentInv, Aged, OnceEach
  <2>4. \A u \in tasks' : \E w \in tasks : u.batch = w.batch /\ (u.loaded = w.loaded \/ u.loaded = store) /\ (u = w \/ (u = v /\ w = t))
    BY <2>1, <2>2
  <2>5. Apart'
    <3>1. \A u \in tasks' : Elems(u.batch) \cap Elems(store') = {}
      BY <2>1, <2>4 DEF SentInv, Apart
    <3>2. \A u, w \in tasks' : Elems(u.batch) \cap Elems(w.loaded) = {}
      BY <2>4 DEF SentInv, Apart
    <3>3. \A u, w \in tasks' : u # w => Elems(u.batch) \cap Elems(w.batch) = {}
      BY <2>1, <2>2 DEF SentInv, Apart
    <3>4. \A n \in Unsent(entries', lastSaved') : n \notin Elems(store') /\ \A u \in tasks' : n \notin Elems(u.batch) \cup Elems(u.loaded)
      BY <1>2, <2>1, <2>4 DEF SentInv, Apart
    <3> QED
      BY <3>1, <3>2, <3>3, <3>4 DEF Apart
  <2> QED
    BY <2>3, <2>5 DEF SentInv
<1> QED
  BY <1>1, <1>5, <1>6, <1>7 DEF TaskStep

-----------------------------------------------------------------------------
(* Order: at most one append is under way, and what is stored, what it      *)
(* carries and what has still to be sent follow one another.                *)

InOrder(t) == Increasing(t.batch) /\ (t.step = "loaded" => t.loaded = store)

OrderInv ==
    /\ tasks = {} \/ \E t \in tasks : tasks = {t} /\ t.id = lastSave
    /\ Increasing(entries) /\ Increasing(store)
    /\ \A t \in tasks : InOrder(t)
    /\ \A t \in tasks : \A m \in Elems(store), n \in Elems(t.batch) : m < n
    /\ \A n \in Unsent(entries, lastSaved) :
          \A m \in Elems(store) \cup InFlight : m < n

LEMMA OrderEdit ==
  ASSUME TypeOK, Aged, OrderInv, NEW es \in Seq(Entry), NEW saved \in Nat, NEW n \in Nat, NEW k \in Nat \ {0},
         Source(es, saved), Edited(es, saved, n, k), tasks' = tasks, store' = store, lastSave' = lastSave
  PROVE  OrderInv'
<1>0. lastId \in Nat /\ lastSaved' = saved
  BY DEF TypeOK, Edited
<1>1. /\ \A m \in Elems(es) : m <= lastId
      /\ Unsent(es, saved) \subseteq Unsent(entries, lastSaved)
  BY SourceEntries
<1>2. /\ Unsent(entries', saved) \subseteq Unsent(entries, lastSaved) \cup New(n)
      /\ Increasing(es) => Increasing(entries')
  BY <1>1, EditedEntries
<1>3. Increasing(entries')
  BY <1>2 DEF Source, OrderInv
<1>4. InFlight' = InFlight
  BY DEF InFlight
<1>5. ASSUME NEW m \in Elems(store) \cup InFlight, NEW i \in New(n) PROVE m < i
  <2>1. m <= lastId
    BY DEF Aged, InFlight
  <2>2. m \in Nat
    BY ElementOfSeq, LenProperties DEF InFlight, Elems, TypeOK, Task
  <2> QED
    BY <1>0, <2>1, <2>2 DEF New
<1>6. \A i \in Unsent(entries', lastSaved') : \A m \in Elems(store') \cup InFlight' : m < i
  BY <1>0, <1>2, <1>4, <1>5 DEF OrderInv
<1> QED
  BY <1>3, <1>6 DEF OrderInv, InOrder

\* The wait for the previous append is what keeps two from being under way.
LEMMA OrderPersist ==
  ASSUME TypeOK, OrderInv, PersistIncremental, "slow_save" \notin features
  PROVE  OrderInv'
<1>1. /\ entries' = entries /\ store' = store
      /\ \/ tasks' = tasks /\ lastSaved' = lastSaved /\ lastSave' = NoTask
         \/ \E t \in Task : HandedOver(t)
  BY PersistHands
<1>2. tasks = {}
  BY DEF PersistIncremental, PersistSlice, SaveAwaited, TaskRuns, OrderInv
<1>3. CASE tasks' = tasks /\ lastSaved' = lastSaved /\ lastSave' = NoTask
  BY <1>1, <1>2, <1>3 DEF OrderInv, InFlight
<1>4. ASSUME NEW t \in Task, HandedOver(t) PROVE OrderInv'
  <2>1. /\ Elems(t.batch) = Unsent(entries, lastSaved) /\ Unsent(entries', lastSaved') = {}
        /\ Increasing(entries) => Increasing(t.batch)
    BY <1>1, <1>4, BatchIsUnsent
  <2>2. tasks' = {t} /\ t.step = "start" /\ t.id = lastSave'
    BY <1>2, <1>4 DEF HandedOver
  <2>3. Increasing(t.batch) /\ \A m \in Elems(store), n \in Elems(t.batch) : m < n
    BY <2>1 DEF OrderInv
  <2>4. Increasing(entries') /\ Increasing(store')
    BY <1>1 DEF OrderInv
  <2>5. \A u \in tasks' : InOrder(u)'
    BY <2>2, <2>3 DEF InOrder
  <2>6. \A u \in tasks' : \A m \in Elems(store'), n \in Elems(u.batch) : m < n
    BY <1>1, <2>2, <2>3
  <2>7. tasks' = {} \/ \E u \in tasks' : tasks' = {u} /\ u.id = lastSave'
    BY <2>2
  <2> QED
    BY <2>1, <2>4, <2>5, <2>6, <2>7 DEF OrderInv
<1> QED
  BY <1>1, <1>3, <1>4

LEMMA OrderTask ==
  ASSUME TypeOK, OrderInv, RunTask
  PROVE  OrderInv'
<1>1. PICK t \in tasks : TaskStep(t) \/ AppendFails(t)
  BY DEF RunTask
<1>2. entries' = entries /\ lastSaved' = lastSaved /\ lastSave' = lastSave
  BY DEF RunTask, history
<1>3. store \in Seq(Entry) /\ t.batch \in Seq(Entry) /\ t \in Task
  BY DEF TypeOK, Task, Entry
<1>4. tasks = {t} /\ t.id = lastSave /\ InOrder(t) /\ InFlight = Elems(t.batch)
  <2>1. tasks = {t} /\ t.id = lastSave
    BY DEF OrderInv
  <2> QED
    BY <2>1 DEF OrderInv, InFlight
<1>5. ASSUME store' = store \o t.batch, tasks' = tasks \ {t} PROVE OrderInv'
  <2>1. tasks' = {} /\ InFlight' = {}
    BY <1>4, <1>5 DEF InFlight
  <2>2. Elems(store') = Elems(store) \cup Elems(t.batch) /\ Increasing(store')
    BY <1>3, <1>4, <1>5, Concatenated DEF OrderInv, InOrder
  <2>3. \A n \in Unsent(entries', lastSaved') : \A m \in Elems(store') \cup InFlight' : m < n
    BY <1>2, <1>4, <2>1, <2>2 DEF OrderInv
  <2> QED
    BY <1>2, <2>1, <2>2, <2>3 DEF OrderInv
<1>6. CASE AppendInOne(t) \/ SaveMerged(t)
  BY <1>4, <1>5, <1>6 DEF AppendInOne, SaveMerged, Finish, InOrder
<1>7. CASE AppendFails(t)
  <2>1. tasks' = {} /\ store' = store /\ InFlight' = {}
    BY <1>4, <1>7 DEF AppendFails, Finish, InFlight
  <2> QED
    BY <1>2, <2>1 DEF OrderInv
<1>8. CASE LoadForAppend(t)
  <2> DEFINE v == [t EXCEPT !.step = "loaded", !.loaded = store]
  <2>1. tasks' = {v} /\ store' = store
    BY <1>4, <1>8 DEF LoadForAppend
  <2>2. v.batch = t.batch /\ v.loaded = store /\ v.id = t.id
    BY <1>3 DEF Task
  <2> HIDE DEF v
  <2>3. InFlight' = InFlight
    BY <1>4, <2>1, <2>2 DEF InFlight
  <2>4. \A u \in tasks' : InOrder(u)'
    BY <1>4, <2>1, <2>2 DEF InOrder
  <2>5. \A u \in tasks' : \A m \in Elems(store'), n \in Elems(u.batch) : m < n
    BY <2>1, <2>2 DEF OrderInv
  <2>6. tasks' = {} \/ \E u \in tasks' : tasks' = {u} /\ u.id = lastSave'
    BY <1>2, <1>4, <2>1, <2>2
  <2> QED
    BY <1>2, <2>1, <2>3, <2>4, <2>5, <2>6 DEF OrderInv
<1> QED
  BY <1>1, <1>6, <1>7, <1>8 DEF TaskStep

-----------------------------------------------------------------------------
(* Loss: with appends that are late but do not fail, what has been handed   *)
(* over is stored or under way, and the boundary is inside the entries.     *)

StoredInv == lastSaved <= Len(entries) /\ Handed \subseteq Elems(store) \cup InFlight

LEMMA StoredEdit ==
  ASSUME TypeOK, StoredInv, NEW es \in Seq(Entry), NEW saved \in Nat, NEW n \in Nat,
         Source(es, saved), Edited(es, saved, n, 1), tasks' = tasks, store' = store
  PROVE  StoredInv'
<1>0. lastId \in Nat /\ lastSaved' = saved /\ lastSaved \in Nat
  BY DEF TypeOK, Edited
<1>1. Fresh(n) \in Seq(Entry) /\ Len(Fresh(n)) = n
  BY <1>0, NewEntries
<1>2. entries' = es \o Fresh(n)
  BY <1>1, ConcatProperties, SubSeqFull DEF Edited
<1>3. /\ Len(entries') = Len(es) + n /\ Len(es) \in Nat
      /\ \A i \in 1..Len(es) : entries'[i] = es[i]
  <2>1. /\ Len(es \o Fresh(n)) = Len(es) + n /\ Len(es) \in Nat
        /\ \A i \in 1..Len(es) + n : (es \o Fresh(n))[i] = IF i <= Len(es) THEN es[i] ELSE Fresh(n)[i - Len(es)]
    BY <1>1, ConcatProperties, LenProperties
  <2>2. \A i \in 1..Len(es) : i \in 1..Len(es) + n /\ i <= Len(es)
    BY <2>1
  <2> QED
    BY <1>2, <2>1, <2>2
<1>4. Len(store) \in Nat /\ DOMAIN store = 1..Len(store)
  BY LenProperties DEF TypeOK
<1>5. saved <= Len(es) /\ {es[i] : i \in 1..saved} \subseteq Elems(store) \cup InFlight
  <2>1. CASE es = entries /\ saved = lastSaved
    BY <2>1 DEF StoredInv, Handed
  <2>2. CASE es = store /\ saved = Len(store)
    BY <1>4, <2>2 DEF Elems
  <2> QED
    BY <2>1, <2>2 DEF Source
<1>6. lastSaved' <= Len(entries')
  BY <1>0, <1>3, <1>5
<1>7. Handed' \subseteq {es[i] : i \in 1..saved}
  <2>1. \A i \in 1..saved : i \in 1..Len(es)
    BY <1>3, <1>5
  <2> QED
    BY <1>0, <1>3, <2>1 DEF Handed
<1>8. InFlight' = InFlight
  BY DEF InFlight
<1> QED
  BY <1>5, <1>6, <1>7, <1>8 DEF StoredInv

LEMMA StoredPersist ==
  ASSUME TypeOK, StoredInv, PersistIncremental
  PROVE  StoredInv'
<1>0. lastSaved \in Nat /\ Len(entries) \in Nat
  BY LenProperties DEF TypeOK
<1>1. /\ entries' = entries /\ store' = store
      /\ \/ tasks' = tasks /\ lastSaved' = lastSaved
         \/ \E t \in Task : HandedOver(t)
  BY PersistHands
<1>2. CASE tasks' = tasks /\ lastSaved' = lastSaved
  BY <1>1, <1>2 DEF StoredInv, Handed, InFlight
<1>3. ASSUME NEW t \in Task, HandedOver(t) PROVE StoredInv'
  <2>1. Elems(t.batch) = Unsent(entries, lastSaved)
    BY <1>1, <1>3, BatchIsUnsent
  <2>2. InFlight' = InFlight \cup Unsent(entries, lastSaved)
    BY <1>3, <2>1 DEF InFlight, HandedOver
  <2>3. lastSaved' = Len(entries) /\ lastSaved' <= Len(entries')
    BY <1>0, <1>1, <1>3 DEF HandedOver
  <2>4. Handed' = {entries[i] : i \in 1..Len(entries)}
    BY <1>1, <2>3 DEF Handed
  <2>5. \A i \in 1..Len(entries) : i \in 1..lastSaved \/ i \in lastSaved + 1..Len(entries)
    BY <1>0
  <2>6. \A i \in 1..Len(entries) : entries[i] \in Handed \/ entries[i] \in Unsent(entries, lastSaved)
    BY <2>5 DEF Handed, Unsent
  <2> QED
    BY <1>1, <2>2, <2>3, <2>4, <2>6 DEF StoredInv
<1> QED
  BY <1>1, <1>2, <1>3

LEMMA StoredTask ==
  ASSUME TypeOK, StoredInv, RunTask, Patient
  PROVE  StoredInv'
<1>1. PICK t \in tasks : AppendInOne(t)
  BY DEF RunTask, Patient, AppendFails, TaskStep, LoadForAppend, SaveMerged, AtomicAppend
<1>2. entries' = entries /\ lastSaved' = lastSaved
  BY DEF RunTask, history
<1>3. store \in Seq(Entry) /\ t.batch \in Seq(Entry)
  BY DEF TypeOK, Task, Entry
<1>4. Elems(store') = Elems(store) \cup Elems(t.batch)
  BY <1>1, <1>3, Concatenated DEF AppendInOne
<1>5. InFlight \subseteq InFlight' \cup Elems(t.batch)
  BY <1>1 DEF InFlight, AppendInOne, Finish
<1> QED
  BY <1>2, <1>4, <1>5 DEF StoredInv, Handed

\* flush stores all entries, and with them those that were handed over.
LEMMA StoredFlush ==
  ASSUME TypeOK, StoredInv, Flush, Patient
  PROVE  StoredInv'
<1>1. entries' = entries /\ lastSaved' = lastSaved /\ tasks' = tasks /\ store' = entries
  BY DEF Flush, Patient
<1>2. Handed \subseteq Elems(entries)
  <2>1. DOMAIN entries = 1..Len(entries) /\ \A i \in 1..lastSaved : i \in 1..Len(entries)
    BY LenProperties DEF TypeOK, StoredInv
  <2> QED
    BY <2>1 DEF Handed, Elems
<1> QED
  BY <1>1, <1>2 DEF StoredInv, Handed, InFlight

-----------------------------------------------------------------------------
(* Together.                                                               *)

KeptInv ==
    /\ "flush" \notin features => SentInv
    /\ features \cap {"slow_save", "flush"} = {} => OrderInv
    /\ Patient => StoredInv

\* A step that leaves the entries, the appends and the store alone.
LEMMA KeptUnchanged ==
  ASSUME KeptInv, UNCHANGED <<features, history, tasks, store, lastId>>
  PROVE  KeptInv'
<1>1. UNCHANGED <<features, entries, lastSaved, lastSave, tasks, store, lastId>>
  BY DEF history
<1>2. InFlight' = InFlight /\ Handed' = Handed
  BY <1>1 DEF InFlight, Handed
<1>3. SentInv => SentInv'
  BY <1>1 DEF SentInv, Aged, OnceEach, Apart
<1>4. OrderInv => OrderInv'
  BY <1>1, <1>2 DEF OrderInv, InOrder
<1>5. StoredInv => StoredInv'
  BY <1>1, <1>2 DEF StoredInv
<1> QED
  BY <1>1, <1>3, <1>4, <1>5 DEF KeptInv, Patient

\* A session without entries and appends has kept whatever is stored.
LEMMA KeptFresh ==
  ASSUME entries' = <<>>, lastSaved' = 0, tasks' = {}, store' = store, features' = features, lastId' = lastId, KeptInv
  PROVE  KeptInv'
<1>1. /\ Elems(entries') = {} /\ Distinct(entries') /\ Increasing(entries') /\ Len(entries') = 0
      /\ Unsent(entries', lastSaved') = {} /\ Handed' = {} /\ InFlight' = {}
  <2>1. DOMAIN <<>> = {} /\ Len(<<>>) = 0 /\ 1..0 = {} /\ 0 + 1 = 1
    BY EmptySeq, LenProperties
  <2> QED
    BY <2>1 DEF Elems, Distinct, Increasing, Unsent, Handed, InFlight
<1>2. SentInv => SentInv'
  BY <1>1 DEF SentInv, Aged, OnceEach, Apart
<1>3. OrderInv => OrderInv'
  BY <1>1 DEF OrderInv
<1>4. StoredInv'
  BY <1>1 DEF StoredInv
<1> QED
  BY <1>2, <1>3, <1>4 DEF KeptInv, Patient

LEMMA KeptStep == TypeOK /\ KeptInv /\ [Next]_vars => KeptInv'
<1> SUFFICES ASSUME TypeOK, KeptInv, [Next]_vars PROVE KeptInv'
  OBVIOUS
<1>1. CASE Prompt \/ CompleteWithDeltas \/ RunOk \/ Compact \/ Reset \/ ApplyContextStrategy
  <2>1. /\ \E es \in Seq(Entry), saved \in Nat, n \in Nat, k \in Nat \ {0} :
              /\ Source(es, saved) /\ Edited(es, saved, n, k)
              /\ k = 1 \/ features \cap {"compact", "reset", "strategy"} # {}
        /\ UNCHANGED <<features, lastSave, tasks, store>>
    BY <1>1, ActorEdits
  <2>2. PICK es \in Seq(Entry), saved \in Nat, n \in Nat, k \in Nat \ {0} :
           /\ Source(es, saved) /\ Edited(es, saved, n, k)
           /\ k = 1 \/ features \cap {"compact", "reset", "strategy"} # {}
    BY <2>1
  <2>3. SentInv => SentInv'
    BY <2>1, <2>2, SentEdit
  <2>4. SentInv /\ OrderInv => OrderInv'
    BY <2>1, <2>2, OrderEdit DEF SentInv
  <2>5. Patient /\ StoredInv => StoredInv'
    <3>1. Patient => k = 1
      BY <2>2 DEF Patient
    <3> QED
      BY <2>1, <2>2, <3>1, StoredEdit
  <2> QED
    BY <2>1, <2>3, <2>4, <2>5 DEF KeptInv, Patient
<1>2. CASE PersistIncremental
  <2>1. features' = features
    BY <1>2, PersistHands
  <2>2. SentInv => SentInv'
    BY <1>2, SentPersist
  <2>3. "slow_save" \notin features /\ OrderInv => OrderInv'
    BY <1>2, OrderPersist
  <2>4. StoredInv => StoredInv'
    BY <1>2, StoredPersist
  <2> QED
    BY <2>1, <2>2, <2>3, <2>4 DEF KeptInv, Patient
<1>3. CASE RunTask
  <2>1. features' = features
    BY <1>3 DEF RunTask
  <2>2. SentInv => SentInv'
    BY <1>3, SentTask
  <2>3. OrderInv => OrderInv'
    BY <1>3, OrderTask
  <2>4. Patient /\ StoredInv => StoredInv'
    BY <1>3, StoredTask
  <2> QED
    BY <2>1, <2>2, <2>3, <2>4 DEF KeptInv, Patient
<1>4. CASE Flush
  <2>1. features' = features /\ "flush" \in features
    BY <1>4 DEF Flush
  <2>2. Patient /\ StoredInv => StoredInv'
    BY <1>4, StoredFlush
  <2> QED
    BY <2>1, <2>2 DEF KeptInv, Patient
<1>5. CASE CrashRestart
  BY <1>5, KeptFresh DEF CrashRestart
<1>6. CASE Continue \/ RunFails \/ UNCHANGED vars
  <2>1. UNCHANGED <<features, history, tasks, store, lastId>>
    BY <1>6 DEF Continue, RunFails, vars
  <2> QED
    BY <2>1, KeptUnchanged
<1> QED
  BY <1>1, <1>2, <1>3, <1>4, <1>5, <1>6 DEF Next

LEMMA KeptInit == Init => KeptInv
<1> SUFFICES ASSUME Init PROVE KeptInv
  OBVIOUS
<1>1. /\ Elems(entries) = {} /\ Distinct(entries) /\ Increasing(entries) /\ Len(entries) = 0
      /\ Unsent(entries, lastSaved) = {} /\ Handed = {} /\ InFlight = {}
  <2>1. DOMAIN <<>> = {} /\ Len(<<>>) = 0 /\ 1..0 = {} /\ 0 + 1 = 1
    BY EmptySeq, LenProperties
  <2> QED
    BY <2>1 DEF Init, Elems, Distinct, Increasing, Unsent, Handed, InFlight
<1>2. entries = <<>> /\ store = <<>> /\ tasks = {} /\ lastSaved = 0
  BY DEF Init
<1>3. SentInv
  BY <1>1, <1>2 DEF SentInv, Aged, OnceEach, Apart
<1>4. OrderInv
  BY <1>1, <1>2 DEF OrderInv
<1>5. StoredInv
  BY <1>1, <1>2 DEF StoredInv
<1> QED
  BY <1>3, <1>4, <1>5 DEF KeptInv

\* persist_incremental hands an entry over once, in the order of the conversation, and
\* loses none: its boundary, the wait for the previous append and the boundary that
\* auto_restore sets hold together, also where appends fail or come late, where
\* compaction, reset and a context strategy drop entries the boundary has counted, and
\* across crashes - each claim in the circumstances in which the code can keep it.
THEOREM EntriesAreKept == Spec => []EntriesKept
<1>1. TypeOK /\ KeptInv => EntriesKept
  <2> SUFFICES ASSUME TypeOK, KeptInv PROVE EntriesKept
    OBVIOUS
  <2>1. SentOnce
    BY DEF KeptInv, SentInv, OnceEach, Apart, Distinct, SentOnce
  <2>2. StoreOrdered
    BY DEF KeptInv, OrderInv, Increasing, StoreOrdered
  <2>3. NothingLost
    BY DEF KeptInv, StoredInv, NothingLost
  <2> QED
    BY <2>1, <2>2, <2>3 DEF EntriesKept
<1> QED
  BY <1>1, KeptInit, KeptStep, TypeCorrect, PTL DEF Spec
==============================================================================
