--------------------------- MODULE SessionHistory ---------------------------
(***************************************************************************)
(* The transcript of one session and its way to the store:                 *)
(* agent-core/src/harness/session/history.rs, driven in the order in which *)
(* SessionActor (session/mod.rs) calls it, against a store that is either  *)
(* PgSessionStore (append is one SQL statement) or any store that takes    *)
(* the default append of the SessionStore trait (load, extend, save).      *)
(*                                                                         *)
(* An entry is a number, given out in the order in which entries are       *)
(* created, so "older" is "smaller".  The actor sits behind a mutex: its   *)
(* calls do not overlap.  The appends it spawns do overlap with it, and,   *)
(* once a wait has timed out, with one another.                            *)
(***************************************************************************)
EXTENDS Integers, Sequences, FiniteSets

CONSTANTS
    MaxEntries,     \* bound: entries ever created
    MaxTurn,        \* bound: entries one run adds
    Circumstances   \* the sets of features in which this instance looks at a session

AllFeatures == {"cancel", "error", "bare_run", "continue", "compact", "reset",
                "strategy", "flush", "append_fails", "load_fails",
                "slow_save", "crash", "merging_store"}

ASSUME HistoryAssumption ==
    /\ MaxEntries \in Nat /\ MaxTurn \in Nat \ {0}
    /\ Circumstances \subseteq SUBSET AllFeatures

VARIABLES
    features,       \* what may happen to this session; it never changes
    entries,        \* SessionHistory.entries
    needsRestore,   \* SessionHistory.needs_restore
    lastSaved,      \* SessionHistory.last_saved_entry_count
    lastSave,       \* SessionHistory.last_save: the append it waits for, or NoTask
    tasks,          \* the spawned appends still running
    store,          \* the entries of the stored row; <<>> when there is no row
    phase,          \* where the actor is in a call
    lastId,         \* the newest entry
    compactions     \* the entries that are SessionEntry::Compaction

history == <<entries, needsRestore, lastSaved, lastSave>>
vars == <<features, history, tasks, store, phase, lastId, compactions>>

NoTask == 0

\* PgSessionStore appends in one statement; the default of the trait merges.
AtomicAppend == "merging_store" \notin features

\* A task is named by the first entry it appends: no two batches share one.
Task == [id : Nat \ {0}, batch : Seq(Nat \ {0}),
         step : {"start", "loaded"}, loaded : Seq(Nat \ {0})]

Elems(s) == {s[i] : i \in DOMAIN s}

\* The ids of k entries created now.
Fresh(k) == [i \in 1..k |-> lastId + i]

TaskRuns(id) == \E t \in tasks : t.id = id

\* Faulty: nobody waits for the previous append.
SaveAwaited_Never(mayTimeOut) == TRUE

\* last_save.take() followed by an await of the handle, which is over when the
\* task is or, where the wait is bounded (5 s), when it has timed out.
SaveAwaited(mayTimeOut) ==
    \/ ~TaskRuns(lastSave)
    \/ mayTimeOut /\ "slow_save" \in features

Init ==
    /\ features \in Circumstances
    /\ entries = <<>> /\ needsRestore = TRUE
    /\ lastSaved = 0 /\ lastSave = NoTask
    /\ tasks = {} /\ store = <<>>
    /\ phase = "idle" /\ lastId = 0 /\ compactions = {}

-----------------------------------------------------------------------------
(* SessionHistory's operations, as updates of (entries, needs_restore,     *)
(* last_saved_entry_count, last_save).                                     *)

\* push / append_compaction_entry of k new entries after the entries `es`.
PushOnto(es, k) ==
    /\ lastId + k <= MaxEntries
    /\ entries' = es \o Fresh(k)
    /\ lastId' = lastId + k

\* Faulty: the count of saved entries is not moved to the end of what was loaded.
RestoreOutcomes_CountKept ==
    {[es |-> IF needsRestore /\ store # <<>> THEN store ELSE entries,
      saved |-> lastSaved]}

\* auto_restore: its first call loads the store; a non-empty result replaces
\* the entries in memory, an empty or failed load leaves them alone.
RestoreOutcomes ==
    LET kept == [es |-> entries, saved |-> lastSaved]
        loaded == [es |-> store, saved |-> Len(store)]
    IN  IF ~needsRestore \/ store = <<>> THEN {kept}
        ELSE {loaded} \cup (IF "load_fails" \in features THEN {kept} ELSE {})

\* truncate_before: keep the entries from index k on.
TruncateBefore(es, k) == SubSeq(es, k, Len(es))

-----------------------------------------------------------------------------
(* The actor.                                                              *)

\* prompt_with_content up to the run; a /skill prompt pushes no user message.
\* Restoring and pushing are one step: the load is the only await, and what
\* it read is not looked at again.
Prompt ==
    /\ phase = "idle"
    /\ \E r \in RestoreOutcomes, k \in 0..1 :
          /\ PushOnto(r.es, k)
          /\ lastSaved' = r.saved
    /\ needsRestore' = FALSE
    /\ phase' = "running"
    /\ UNCHANGED <<features, lastSave, tasks, store, compactions>>

\* continue_: a run without restore and without a message.
Continue ==
    /\ "continue" \in features
    /\ phase = "idle"
    /\ phase' = "running"
    /\ UNCHANGED <<features, history, tasks, store, lastId, compactions>>

\* complete_with_deltas: no restore, no Error check, and no persist at the end.
\* A failed run leaves the user message behind.
CompleteWithDeltas ==
    /\ "bare_run" \in features
    /\ phase \in {"idle", "error"}
    /\ \E k \in 0..MaxTurn : PushOnto(entries, 1 + k)
    /\ phase' = "idle"
    /\ UNCHANGED <<features, needsRestore, lastSaved, lastSave, tasks, store, compactions>>

\* run_with_messages: AgentLoop::run returned Ok and its messages are pushed.
RunOk ==
    /\ phase = "running"
    /\ \E k \in 1..MaxTurn : PushOnto(entries, k)
    /\ phase' = "finishing"
    /\ UNCHANGED <<features, needsRestore, lastSaved, lastSave, tasks, store, compactions>>

\* run_with_messages returns early: cancelled (Idle), any other error (Error),
\* or a compaction that failed after the messages had been pushed (Idle).
RunFails ==
    \/ /\ "cancel" \in features
       /\ phase = "running"
       /\ phase' = "idle"
       /\ UNCHANGED <<features, history, tasks, store, lastId, compactions>>
    \/ /\ "error" \in features
       /\ phase = "running"
       /\ phase' = "error"
       /\ UNCHANGED <<features, history, tasks, store, lastId, compactions>>
    \/ /\ {"error", "compact"} \subseteq features
       /\ phase \in {"running", "finishing"}
       /\ phase' = "idle"
       /\ UNCHANGED <<features, history, tasks, store, lastId, compactions>>

\* run_auto_compaction (in a run: overflow or threshold) and compact (between
\* calls): the compaction entry goes to the end, then everything before the
\* first kept message is dropped.  Compactor::prepare refuses an empty history
\* and one that ends in a compaction.
Compact ==
    /\ "compact" \in features
    /\ entries # <<>>
    /\ entries[Len(entries)] \notin compactions
    /\ lastId < MaxEntries
    /\ \E k \in {j \in 1..Len(entries) : entries[j] \notin compactions} :
          entries' = TruncateBefore(Append(entries, lastId + 1), k)
    /\ lastId' = lastId + 1
    /\ compactions' = compactions \cup {lastId + 1}
    /\ UNCHANGED <<features, needsRestore, lastSaved, lastSave, tasks, store, phase>>

\* The slice of the entries from `from` on is handed to a spawned append, and
\* `count` entries are taken for saved; no slice, no append.
PersistSlice(from, count) ==
    /\ phase = "finishing"
    /\ SaveAwaited(TRUE)
    /\ phase' = "idle"
    /\ \/ /\ from > Len(entries)
          /\ lastSave' = NoTask
          /\ UNCHANGED <<lastSaved, tasks>>
       \/ /\ from <= Len(entries)
          /\ LET batch == SubSeq(entries, from, Len(entries))
             IN  /\ tasks' = tasks \cup {[id |-> batch[1], batch |-> batch,
                                          step |-> "start", loaded |-> <<>>]}
                 /\ lastSave' = batch[1]
          /\ lastSaved' = count
    /\ UNCHANGED <<features, entries, needsRestore, store, lastId, compactions>>

\* Faulty: the boundary stays where it was; the slice begins one entry too late.
PersistIncremental_CountNotMoved == PersistSlice(lastSaved + 1, lastSaved)
PersistIncremental_SkipsOne == PersistSlice(lastSaved + 2, Len(entries))

\* persist_incremental: wait for the previous append (at most 5 s), take the
\* entries not yet handed over and spawn their append.  A boundary past the end
\* panics instead: the call is over and last_save is gone.
PersistIncremental == PersistSlice(lastSaved + 1, Len(entries))

\* reset: clear_entries and back to Idle.
Reset ==
    /\ "reset" \in features
    /\ phase \in {"idle", "error"}
    /\ entries' = <<>>
    /\ phase' = "idle"
    /\ UNCHANGED <<features, needsRestore, lastSaved, lastSave, tasks, store, lastId, compactions>>

\* apply_context_strategy_before_run, before each attempt of a goal:
\* Clear drops everything, Compact{keep_last_n} all but the newest n.
ApplyContextStrategy ==
    /\ "strategy" \in features
    /\ phase \in {"idle", "error"}
    /\ entries # <<>>
    /\ \E k \in 2..Len(entries) + 1 : entries' = TruncateBefore(entries, k)
    /\ UNCHANGED <<features, needsRestore, lastSaved, lastSave, tasks, store, phase, lastId,
                   compactions>>

\* flush: wait (without bound) for the append in last_save, then overwrite the
\* row with all entries.  The save may fail.
Flush ==
    /\ "flush" \in features
    /\ phase \in {"idle", "error"}
    /\ SaveAwaited(FALSE)
    /\ lastSave' = NoTask
    /\ \/ store' = entries
       \/ "append_fails" \in features /\ UNCHANGED store
    /\ UNCHANGED <<features, entries, needsRestore, lastSaved, tasks, phase, lastId, compactions>>

-----------------------------------------------------------------------------
(* The spawned appends, and the process.                                   *)

Finish(t) == tasks' = tasks \ {t}

\* Faulty: the stored array is replaced instead of extended.
AppendInOne_Replaces(t) ==
    /\ AtomicAppend
    /\ store' = t.batch
    /\ Finish(t)

\* PgSessionStore::append_entries: one statement.
AppendInOne(t) ==
    /\ AtomicAppend
    /\ store' = store \o t.batch
    /\ Finish(t)

\* SessionStore::append_entries, the default: load, ...
LoadForAppend(t) ==
    /\ ~AtomicAppend
    /\ t.step = "start"
    /\ tasks' = (tasks \ {t}) \cup {[t EXCEPT !.step = "loaded", !.loaded = store]}
    /\ UNCHANGED store

\* ... extend and save.
SaveMerged(t) ==
    /\ ~AtomicAppend
    /\ t.step = "loaded"
    /\ store' = t.loaded \o t.batch
    /\ Finish(t)

\* The error is logged; nobody sends the batch again.
AppendFails(t) ==
    /\ "append_fails" \in features
    /\ Finish(t)
    /\ UNCHANGED store

TaskStep(t) == AppendInOne(t) \/ LoadForAppend(t) \/ SaveMerged(t)

AppendProceeds(n) ==
    /\ \E t \in tasks : t.id = n /\ TaskStep(t)
    /\ UNCHANGED <<features, history, phase, lastId, compactions>>

RunTask ==
    /\ \E t \in tasks : TaskStep(t) \/ AppendFails(t)
    /\ UNCHANGED <<features, history, phase, lastId, compactions>>

\* The process stops and a new one builds the session again (SessionActor::new).
CrashRestart ==
    /\ "crash" \in features
    /\ entries' = <<>> /\ needsRestore' = TRUE
    /\ lastSaved' = 0 /\ lastSave' = NoTask
    /\ tasks' = {} /\ phase' = "idle"
    /\ UNCHANGED <<features, store, lastId, compactions>>

Next ==
    \/ Prompt \/ Continue \/ CompleteWithDeltas \/ RunOk \/ RunFails
    \/ Compact \/ PersistIncremental \/ Reset \/ ApplyContextStrategy \/ Flush
    \/ RunTask \/ CrashRestart

Spec == Init /\ [][Next]_vars

\* Tokio polls the task that runs the actor and the spawned appends, and a store
\* call returns: a finishing run gets to persist, and an append gets to its end.
Fairness ==
    /\ WF_vars(PersistIncremental)
    /\ \A n \in 1..MaxEntries : WF_vars(AppendProceeds(n))

LiveSpec == Spec /\ Fairness

-----------------------------------------------------------------------------
(* Properties.                                                             *)

TypeOK ==
    /\ features \in Circumstances
    /\ entries \in Seq(Nat \ {0})
    /\ needsRestore \in BOOLEAN
    /\ lastSaved \in Nat
    /\ lastSave \in Nat
    /\ tasks \in SUBSET Task
    /\ store \in Seq(Nat \ {0})
    /\ phase \in {"idle", "error", "running", "finishing"}
    /\ lastId \in Nat
    /\ compactions \in SUBSET (Nat \ {0})

\* The entries handed over to an append so far, as the memory sees them.
Handed == {entries[i] : i \in 1..lastSaved}

InFlight == UNION {Elems(t.batch) : t \in tasks}

\* Nothing fails, is late or shrinks the entries; the process may crash.
Plain == features \subseteq {"cancel", "error", "bare_run", "crash", "merging_store"}

\* The same with appends that may be late, and with flush.
Patient == features \subseteq {"cancel", "error", "bare_run", "crash", "slow_save", "flush"}

\* persist_incremental sends an entry once: neither the store nor an append under
\* way holds an entry twice, nor does an append carry what is already stored.
\* flush does not move the boundary, and what it stores is sent again.
SentOnce ==
    "flush" \notin features =>
        /\ \A i, j \in DOMAIN store : store[i] = store[j] => i = j
        /\ \A t \in tasks : Elems(t.batch) \cap Elems(store) = {}
        /\ \A t, u \in tasks : t # u => Elems(t.batch) \cap Elems(u.batch) = {}

\* The store keeps the order of the conversation (persist_incremental waits for
\* the previous append "to preserve ordering"), also where appends are lost or
\* merged by the store; not where one is so late that the next overtakes it.
StoreOrdered ==
    features \cap {"slow_save", "flush"} = {} =>
        \A i, j \in DOMAIN store : i < j => store[i] < store[j]

\* Once a plain session is restored, the store and the append under way are
\* together exactly the first last_saved_entry_count entries, for both kinds of
\* store and across crashes.
StorePrefix ==
    Plain /\ ~needsRestore =>
        \/ tasks = {} /\ store = SubSeq(entries, 1, lastSaved)
        \/ \E t \in tasks : /\ tasks = {t}
                            /\ store \o t.batch = SubSeq(entries, 1, lastSaved)

\* The row of a plain session is only ever extended: no append replaces or
\* truncates what an earlier one wrote.
StoreExtends ==
    [][Plain => Len(store') >= Len(store) /\ SubSeq(store', 1, Len(store)) = store]_vars

\* However slow the appends are, an entry handed over is stored or under way.
NothingLost == Patient => Handed \subseteq Elems(store) \cup InFlight

\* What the history owes a run's entries: sent once, in order, none lost.
EntriesKept == SentOnce /\ StoreOrdered /\ NothingLost

\* A run that comes to its end has its entries in the store some day, unless the
\* process crashes before.
RunsReachStore ==
    \A n \in 1..MaxEntries :
        (Patient /\ phase = "finishing" /\ n \in Elems(entries))
            ~> (n \in Elems(store) \/ needsRestore)

\* persist_incremental slices entries[last_saved_entry_count..]: the count never
\* exceeds the length.
SliceInRange == phase = "finishing" => lastSaved <= Len(entries)
=============================================================================
