------------------------- MODULE Compaction_proofs -------------------------
(***************************************************************************)
(* What compaction keeps, for conversations of any length, any keep_last_n *)
(* and any set of context strategies.                                      *)
(*                                                                         *)
(* The newest summary marks a frontier: the first message it kept.  What   *)
(* it covers is older, what was said since is newer, wherever the summary  *)
(* itself stands and whatever was cut off in front.                        *)
(*                                                                         *)
(* The next parts are about what else a model is shown: files, whatever    *)
(* they hold, whatever they are called and whenever they are rewritten;    *)
(* and memories, of any turns of any tenants.  The last ones are about     *)
(* what the user is shown: the terminal client's inputs, texts and calls.  *)
(***************************************************************************)
EXTENDS TuiApp, FileInput, TurnMemory, Compaction, FoldLemmas, TLAPS

-----------------------------------------------------------------------------
(* The shape of the entries.                                               *)

\* c is the place of the newest summary.
IsNewest(es, c) ==
    /\ c \in DOMAIN es /\ ~IsMessage(es[c])
    /\ \A j \in c + 1..Len(es) : IsMessage(es[j])

\* What the summary at c covers is older than its frontier; what comes behind it
\* is newer.
Frontier(es, n, c) ==
    /\ es[c].firstKept \in 1..n
    /\ es[c].covers \subseteq 1..es[c].firstKept - 1
    /\ \A j \in c + 1..Len(es) : es[j].id > es[c].firstKept

AllMessages(es) == \A i \in DOMAIN es : IsMessage(es[i])

Shape(es, n) == AllMessages(es) \/ \E c \in DOMAIN es : IsNewest(es, c) /\ Frontier(es, n, c)

Ordered(es) ==
    \A i, j \in DOMAIN es :
        i < j /\ IsMessage(es[i]) /\ IsMessage(es[j]) => es[i].id < es[j].id

\* Entries of a conversation of n messages.
Good(es, n) ==
    /\ es \in Seq(Entry) /\ n \in Nat
    /\ \A i \in DOMAIN es : IsMessage(es[i]) => es[i].id \in 1..n
    /\ Ordered(es)
    /\ Shape(es, n)

-----------------------------------------------------------------------------
(* Where a compaction begins.                                              *)

\* The last compaction entry is found.
LEMMA NewestFound ==
  ASSUME NEW es \in Seq(Entry), NEW c \in DOMAIN es, IsNewest(es, c)
  PROVE  Newest(es) = c
<1> DEFINE summaries == {i \in DOMAIN es : ~IsMessage(es[i])}
<1>1. DOMAIN es = 1..Len(es) /\ Len(es) \in Nat
  BY LenProperties
<1>2. c \in summaries /\ \A y \in summaries : c >= y
  BY <1>1 DEF IsNewest
<1>3. \A x \in summaries : (\A y \in summaries : x >= y) => x = c
  BY <1>1, <1>2
<1>4. Max(summaries) = c
  <2> HIDE DEF summaries
  <2> QED
    BY <1>2, <1>3 DEF Max
<1>5. summaries # {}
  BY <1>2
<1> QED
  BY <1>4, <1>5 DEF Newest

\* Without a compaction entry everything is still to be summarised.
LEMMA NoSummary ==
  ASSUME NEW es, AllMessages(es)
  PROVE  Newest(es) = 0 /\ Covered(es) = {} /\ BoundaryStart(es) = 1
<1>1. Newest(es) = 0
  BY DEF Newest, AllMessages
<1> QED
  BY <1>1 DEF Covered, BoundaryStart

\* The boundary is at the first message that was kept, where that is left.
LEMMA KeptBoundary ==
  ASSUME NEW es \in Seq(Entry), Ordered(es),
         NEW c \in DOMAIN es, IsNewest(es, c),
         NEW k \in DOMAIN es, IsMessage(es[k]), es[k].id = es[c].firstKept
  PROVE  BoundaryStart(es) = k
<1> DEFINE kept == {i \in DOMAIN es : IsMessage(es[i]) /\ es[i].id = es[c].firstKept}
<1>1. DOMAIN es = 1..Len(es) /\ Len(es) \in Nat
  BY LenProperties
<1>2. \A i \in DOMAIN es : IsMessage(es[i]) => es[i].id \in Nat
  <2> SUFFICES ASSUME NEW i \in DOMAIN es, IsMessage(es[i]) PROVE es[i].id \in Nat
    OBVIOUS
  <2>1. es[i] \in Entry
    BY <1>1, ElementOfSeq
  <2> QED
    BY <2>1 DEF Entry, IsMessage
<1>3. \A i \in kept : i = k
  BY <1>1, <1>2 DEF Ordered
<1>4. kept = {k}
  BY <1>3
<1>5. Min(kept) = k
  <2>1. k \in kept /\ \A y \in kept : k =< y
    BY <1>1, <1>4
  <2>2. \A x \in kept : x = k
    BY <1>4
  <2> HIDE DEF kept
  <2> QED
    BY <2>1, <2>2 DEF Min
<1>6. Newest(es) = c /\ c # 0
  BY <1>1, NewestFound
<1> QED
  BY <1>4, <1>5, <1>6 DEF BoundaryStart

\* Where it is not, the boundary is behind the newest summary.
LEMMA GoneBoundary ==
  ASSUME NEW es \in Seq(Entry), NEW c \in DOMAIN es, IsNewest(es, c),
         \A k \in DOMAIN es : IsMessage(es[k]) => es[k].id # es[c].firstKept
  PROVE  BoundaryStart(es) = c + 1
<1>1. Newest(es) = c
  BY NewestFound
<1>2. {i \in DOMAIN es : IsMessage(es[i]) /\ es[i].id = es[c].firstKept} = {}
  OBVIOUS
<1> QED
  BY <1>1, <1>2 DEF BoundaryStart

\* What the newest summary covers is older than all messages from the boundary on.
LEMMA Boundary ==
  ASSUME NEW es, NEW n, Good(es, n)
  PROVE  /\ BoundaryStart(es) \in 1..Len(es) + 1
         /\ Covered(es) \subseteq 1..n
         /\ \A x \in Covered(es) : \A i \in BoundaryStart(es)..Len(es) :
                IsMessage(es[i]) => x < es[i].id
         /\ ~Refused(es) => /\ BoundaryStart(es) \in 1..Len(es)
                            /\ IsMessage(es[BoundaryStart(es)])
<1>1. /\ es \in Seq(Entry) /\ n \in Nat
      /\ DOMAIN es = 1..Len(es) /\ Len(es) \in Nat
      /\ \A i \in DOMAIN es : IsMessage(es[i]) => es[i].id \in 1..n
      /\ Ordered(es)
  BY LenProperties DEF Good
<1>2. ~Refused(es) => Len(es) >= 1 /\ IsMessage(es[Len(es)])
  BY <1>1, EmptySeq DEF Refused
<1>3. CASE AllMessages(es)
  <2>1. Covered(es) = {} /\ BoundaryStart(es) = 1
    BY <1>3, NoSummary
  <2> QED
    BY <2>1, <1>1, <1>2, <1>3 DEF AllMessages
<1>4. ASSUME NEW c \in DOMAIN es, IsNewest(es, c), Frontier(es, n, c)
      PROVE  /\ BoundaryStart(es) \in 1..Len(es) + 1
             /\ Covered(es) \subseteq 1..n
             /\ \A x \in Covered(es) : \A i \in BoundaryStart(es)..Len(es) :
                    IsMessage(es[i]) => x < es[i].id
             /\ ~Refused(es) => /\ BoundaryStart(es) \in 1..Len(es)
                                /\ IsMessage(es[BoundaryStart(es)])
  <2>1. Covered(es) = es[c].covers
    BY <1>1, <1>4, NewestFound DEF Covered
  <2>2. es[c].firstKept \in 1..n /\ Covered(es) \subseteq 1..es[c].firstKept - 1
    BY <1>4, <2>1 DEF Frontier
  <2>3. Covered(es) \subseteq 1..n
    BY <1>1, <2>2
  <2>4. CASE \E k \in DOMAIN es : IsMessage(es[k]) /\ es[k].id = es[c].firstKept
    <3>1. PICK k \in DOMAIN es : IsMessage(es[k]) /\ es[k].id = es[c].firstKept
      BY <2>4
    <3>2. BoundaryStart(es) = k
      BY <1>1, <1>4, <3>1, KeptBoundary
    <3>3. \A i \in k..Len(es) : IsMessage(es[i]) => es[i].id >= es[c].firstKept
      BY <1>1, <2>2, <3>1 DEF Ordered
    <3> QED
      BY SMTT(30), <1>1, <2>2, <2>3, <3>1, <3>2, <3>3
  <2>5. CASE \A k \in DOMAIN es : IsMessage(es[k]) => es[k].id # es[c].firstKept
    <3>1. BoundaryStart(es) = c + 1
      BY <1>1, <1>4, <2>5, GoneBoundary
    <3>2. \A i \in c + 1..Len(es) : IsMessage(es[i]) /\ es[i].id > es[c].firstKept
      BY <1>4 DEF IsNewest, Frontier
    <3>3. ~Refused(es) => c # Len(es)
      BY <1>2, <1>4 DEF IsNewest
    <3> QED
      BY SMTT(30), <1>1, <2>2, <2>3, <3>1, <3>2, <3>3
  <2> QED
    BY <2>4, <2>5
<1> QED
  BY <1>3, <1>4 DEF Good, Shape

\* A cut falls on a message behind the boundary.
LEMMA CutIsMessage ==
  ASSUME NEW es, NEW n, Good(es, n), ~Refused(es), NEW cut \in CutPoints(es)
  PROVE  /\ cut \in BoundaryStart(es)..Len(es)
         /\ cut \in DOMAIN es /\ IsMessage(es[cut])
         /\ es[cut].role \in {"user", "assistant"} \/ cut = BoundaryStart(es)
<1>1. es \in Seq(Entry) /\ DOMAIN es = 1..Len(es) /\ Len(es) \in Nat
  BY LenProperties DEF Good
<1>2. BoundaryStart(es) \in 1..Len(es) /\ IsMessage(es[BoundaryStart(es)])
  BY Boundary
<1> DEFINE points == {i \in BoundaryStart(es)..Len(es) : es[i].role \in {"user", "assistant"}}
<1>3. cut \in points \/ cut = BoundaryStart(es)
  BY DEF CutPoints
<1> QED
  BY <1>1, <1>2, <1>3 DEF IsMessage

-----------------------------------------------------------------------------
(* What the operations do to the entries.                                  *)

\* Compacting keeps the part from the cut on and puts the summary behind it.
LEMMA CompactedIs ==
  ASSUME NEW es, NEW n, Good(es, n), ~Refused(es), NEW cut \in CutPoints(es)
  PROVE  LET new == Compacted(es, cut)
             s == Summary(es[cut].id, Summarised(es, cut))
         IN  /\ s \in Entry
             /\ new \in Seq(Entry) /\ Len(new) = Len(es) - cut + 2
             /\ DOMAIN new = 1..Len(new)
             /\ \A i \in 1..Len(es) - cut + 1 : new[i] = es[cut + i - 1]
             /\ new[Len(new)] = s
<1> DEFINE s == Summary(es[cut].id, Summarised(es, cut))
           all == Append(es, s)
           new == SubSeq(all, cut, Len(es) + 1)
<1>1. /\ es \in Seq(Entry) /\ n \in Nat
      /\ DOMAIN es = 1..Len(es) /\ Len(es) \in Nat
      /\ \A i \in DOMAIN es : IsMessage(es[i]) => es[i].id \in 1..n
  BY LenProperties DEF Good
<1>2. BoundaryStart(es) \in 1..Len(es) /\ Covered(es) \subseteq 1..n
  BY Boundary
<1>3. cut \in 1..Len(es) /\ IsMessage(es[cut])
  BY <1>1, <1>2, CutIsMessage
<1>4. Summarised(es, cut) \subseteq 1..n
  BY <1>1, <1>2, <1>3 DEF Summarised, Messages
<1>5. s \in Entry
  BY <1>1, <1>3, <1>4 DEF Summary, Entry
<1>6. /\ all \in Seq(Entry) /\ Len(all) = Len(es) + 1
      /\ \A i \in 1..Len(es) : all[i] = es[i]
      /\ all[Len(es) + 1] = s
  <2> HIDE DEF s
  <2> QED
    BY <1>1, <1>5, AppendProperties
<1>7. \A i \in cut..Len(es) + 1 : all[i] \in Entry
  <2> HIDE DEF all
  <2> QED
    BY <1>1, <1>3, <1>6, ElementOfSeq
<1>8. /\ new \in Seq(Entry)
      /\ Len(new) = Len(es) - cut + 2
      /\ \A i \in 1..Len(es) - cut + 2 : new[i] = all[cut + i - 1]
  <2> HIDE DEF all
  <2>1. /\ new \in Seq(Entry)
        /\ Len(new) = IF cut <= Len(es) + 1 THEN Len(es) + 1 - cut + 1 ELSE 0
        /\ \A i \in 1..Len(es) + 1 - cut + 1 : new[i] = all[cut + i - 1]
    BY <1>1, <1>3, <1>7, SubSeqProperties
  <2> QED
    BY <2>1, <1>1, <1>3
<1>9. new[Len(es) - cut + 2] = s /\ \A i \in 1..Len(es) - cut + 1 : new[i] = es[cut + i - 1]
  <2> HIDE DEF all, new, s
  <2>1. Len(es) - cut + 2 \in 1..Len(es) - cut + 2 /\ cut + (Len(es) - cut + 2) - 1 = Len(es) + 1
    BY <1>1, <1>3
  <2>2. new[Len(es) - cut + 2] = s
    BY <2>1, <1>6, <1>8
  <2>3. ASSUME NEW i \in 1..Len(es) - cut + 1 PROVE new[i] = es[cut + i - 1]
    <3>1. i \in 1..Len(es) - cut + 2 /\ cut + i - 1 \in 1..Len(es)
      BY <1>1, <1>3
    <3> QED
      BY <3>1, <1>6, <1>8
  <2> QED
    BY <2>2, <2>3
<1>10. DOMAIN new = 1..Len(new)
  <2> HIDE DEF new
  <2> QED
    BY <1>8, LenProperties
<1>11. Compacted(es, cut) = new
  BY DEF Compacted
<1> HIDE DEF new, s
<1> QED
  BY <1>5, <1>8, <1>9, <1>10, <1>11 DEF s

\* The new summary covers what is older than the cut.
LEMMA SummaryBelowCut ==
  ASSUME NEW es, NEW n, Good(es, n), ~Refused(es), NEW cut \in CutPoints(es)
  PROVE  Summarised(es, cut) \subseteq 1..es[cut].id - 1
<1>1. /\ DOMAIN es = 1..Len(es) /\ Len(es) \in Nat /\ n \in Nat
      /\ \A i \in DOMAIN es : IsMessage(es[i]) => es[i].id \in 1..n
      /\ Ordered(es)
  BY LenProperties DEF Good
<1>2. cut \in BoundaryStart(es)..Len(es) /\ IsMessage(es[cut]) /\ BoundaryStart(es) \in 1..Len(es)
  BY CutIsMessage, Boundary
<1>3. \A x \in Covered(es) : x \in 1..n /\ x < es[cut].id
  BY <1>2, Boundary
<1>4. \A x \in Messages(es, BoundaryStart(es), cut - 1) : x \in 1..n /\ x < es[cut].id
  BY <1>1, <1>2 DEF Messages, Ordered
<1> QED
  BY <1>1, <1>2, <1>3, <1>4 DEF Summarised

\* It is the newest summary then.
LEMMA CompactedNewest ==
  ASSUME NEW es, NEW n, Good(es, n), ~Refused(es), NEW cut \in CutPoints(es)
  PROVE  LET new == Compacted(es, cut)
         IN  IsNewest(new, Len(new)) /\ Newest(new) = Len(new)
<1> DEFINE new == Compacted(es, cut)
<1>1. /\ new \in Seq(Entry) /\ Len(new) = Len(es) - cut + 2 /\ DOMAIN new = 1..Len(new)
      /\ new[Len(new)] = Summary(es[cut].id, Summarised(es, cut))
  BY CompactedIs
<1>s. ~IsMessage(Summary(es[cut].id, Summarised(es, cut)))
  BY DEF Summary, IsMessage
<1>2. Len(es) \in Nat /\ cut \in 1..Len(es)
  BY CutIsMessage, Boundary, LenProperties DEF Good
<1> HIDE DEF new
<1>3. Len(new) \in DOMAIN new /\ Len(new) + 1..Len(new) = {}
  BY <1>1, <1>2
<1>4. IsNewest(new, Len(new))
  BY <1>1, <1>3, <1>s DEF IsNewest
<1>5. Newest(new) = Len(new)
  BY <1>1, <1>3, <1>4, NewestFound
<1> QED
  BY <1>4, <1>5 DEF new

\* A compaction leaves well-formed entries.
LEMMA CompactKeepsGood ==
  ASSUME NEW es, NEW n, Good(es, n), ~Refused(es), NEW cut \in CutPoints(es)
  PROVE  Good(Compacted(es, cut), n)
<1> DEFINE new == Compacted(es, cut)
           s == Summary(es[cut].id, Summarised(es, cut))
           last == Len(es) - cut + 2
<1>1. /\ DOMAIN es = 1..Len(es) /\ Len(es) \in Nat /\ n \in Nat
      /\ \A i \in DOMAIN es : IsMessage(es[i]) => es[i].id \in 1..n
      /\ Ordered(es)
  BY LenProperties DEF Good
<1>2. cut \in 1..Len(es) /\ IsMessage(es[cut])
  BY <1>1, CutIsMessage
<1>3. /\ new \in Seq(Entry) /\ Len(new) = last /\ DOMAIN new = 1..last
      /\ \A i \in 1..last - 1 : new[i] = es[cut + i - 1]
      /\ new[last] = s
  BY <1>1, <1>2, CompactedIs
<1>4. ~IsMessage(s) /\ s.firstKept = es[cut].id /\ s.covers = Summarised(es, cut)
  BY DEF Summary, IsMessage
<1>5. last \in Nat
  BY <1>1, <1>2
<1>s. Summarised(es, cut) \subseteq 1..es[cut].id - 1
  BY SummaryBelowCut
<1> HIDE DEF new, s
<1>6. ASSUME NEW i \in DOMAIN new, IsMessage(new[i])
      PROVE  i < last /\ new[i] = es[cut + i - 1] /\ cut + i - 1 \in DOMAIN es
  <2>1. i # last /\ i \in 1..last
    BY <1>3, <1>4, <1>6
  <2>2. i \in 1..last - 1
    BY <2>1, <1>5
  <2>3. i < last /\ cut + i - 1 \in 1..Len(es)
    BY <2>2, <1>1, <1>2, <1>5
  <2>4. new[i] = es[cut + i - 1]
    BY <2>2, <1>3
  <2> QED
    BY <2>3, <2>4, <1>1
<1>7. \A i \in DOMAIN new : IsMessage(new[i]) => new[i].id \in 1..n
  BY <1>1, <1>6
<1>8. Ordered(new)
  <2> SUFFICES ASSUME NEW i \in DOMAIN new, NEW j \in DOMAIN new, i < j,
                      IsMessage(new[i]), IsMessage(new[j])
               PROVE  new[i].id < new[j].id
    BY DEF Ordered
  <2>1. /\ new[i] = es[cut + i - 1] /\ cut + i - 1 \in DOMAIN es
        /\ new[j] = es[cut + j - 1] /\ cut + j - 1 \in DOMAIN es
    BY <1>6
  <2>2. i \in Int /\ j \in Int /\ cut \in Int
    BY <1>2, <1>3, <1>5
  <2>3. cut + i - 1 < cut + j - 1
    BY <2>2
  <2> QED
    BY <2>1, <2>3, <1>1 DEF Ordered
<1>9. IsNewest(new, last)
  BY <1>3, CompactedNewest DEF new
<1>10. Frontier(new, n, last)
  BY <1>1, <1>2, <1>3, <1>4, <1>5, <1>s DEF Frontier
<1>11. Shape(new, n)
  <2>1. last \in DOMAIN new
    BY <1>9 DEF IsNewest
  <2> QED
    BY <2>1, <1>9, <1>10 DEF Shape
<1>12. Good(new, n)
  BY <1>1, <1>3, <1>7, <1>8, <1>11 DEF Good
<1> QED
  BY <1>12 DEF new

\* Roles of messages.
Role == {"user", "assistant", "result"}

\* What Push appends.
Pushed(es, n, roles) == es \o [i \in DOMAIN roles |-> Message(roles[i], n + i)]

\* The entries that result.
LEMMA PushedIs ==
  ASSUME NEW es \in Seq(Entry), NEW n \in Nat, NEW roles \in Seq(Role)
  PROVE  LET new == Pushed(es, n, roles)
         IN  /\ new \in Seq(Entry) /\ Len(new) = Len(es) + Len(roles)
             /\ DOMAIN new = 1..Len(new)
             /\ \A i \in 1..Len(es) : new[i] = es[i]
             /\ \A i \in 1..Len(roles) : new[Len(es) + i] = Message(roles[i], n + i)
<1> DEFINE ms == [i \in DOMAIN roles |-> Message(roles[i], n + i)]
<1>1. /\ Len(es) \in Nat /\ Len(roles) \in Nat /\ DOMAIN roles = 1..Len(roles)
      /\ \A i \in 1..Len(roles) : roles[i] \in Role
  BY LenProperties, ElementOfSeq
<1>2. \A i \in 1..Len(roles) : ms[i] = Message(roles[i], n + i) /\ Message(roles[i], n + i) \in Entry
  BY <1>1 DEF Message, Entry, Role
<1>3. ms \in Seq(Entry) /\ Len(ms) = Len(roles)
  <2>1. ms \in [1..Len(roles) -> Entry]
    BY <1>1, <1>2
  <2> HIDE DEF ms
  <2> QED
    BY <2>1, <1>1, SeqDef
<1>4. /\ es \o ms \in Seq(Entry) /\ Len(es \o ms) = Len(es) + Len(ms)
      /\ \A i \in 1..Len(es) + Len(ms) :
             (es \o ms)[i] = IF i <= Len(es) THEN es[i] ELSE ms[i - Len(es)]
  <2> HIDE DEF ms
  <2> QED
    BY <1>3, ConcatProperties
<1>5. DOMAIN (es \o ms) = 1..Len(es \o ms)
  <2> HIDE DEF ms
  <2> QED
    BY <1>4, LenProperties
<1>6. Pushed(es, n, roles) = es \o ms
  BY DEF Pushed
<1> HIDE DEF ms
<1> QED
  BY <1>1, <1>2, <1>3, <1>4, <1>5, <1>6

\* Pushing new messages leaves well-formed entries.
LEMMA PushKeepsGood ==
  ASSUME NEW es, NEW n, Good(es, n), NEW roles \in Seq(Role)
  PROVE  Good(Pushed(es, n, roles), n + Len(roles))
<1> DEFINE new == Pushed(es, n, roles)
           m == n + Len(roles)
<1>1. /\ es \in Seq(Entry) /\ DOMAIN es = 1..Len(es) /\ Len(es) \in Nat /\ n \in Nat
      /\ \A i \in DOMAIN es : IsMessage(es[i]) => es[i].id \in 1..n
      /\ Ordered(es) /\ Shape(es, n)
  BY LenProperties DEF Good
<1>2. /\ Len(roles) \in Nat /\ \A i \in 1..Len(roles) : roles[i] \in Role
  BY LenProperties, ElementOfSeq
<1>3. /\ new \in Seq(Entry) /\ Len(new) = Len(es) + Len(roles)
      /\ DOMAIN new = 1..Len(new)
      /\ \A i \in 1..Len(es) : new[i] = es[i]
      /\ \A i \in 1..Len(roles) : new[Len(es) + i] = Message(roles[i], n + i)
  BY <1>1, PushedIs
<1> HIDE DEF new
<1>4. \A i \in Len(es) + 1..Len(new) :
          IsMessage(new[i]) /\ new[i].id = n + (i - Len(es))
  <2> SUFFICES ASSUME NEW i \in Len(es) + 1..Len(new)
               PROVE  IsMessage(new[i]) /\ new[i].id = n + (i - Len(es))
    OBVIOUS
  <2>1. i - Len(es) \in 1..Len(roles) /\ i = Len(es) + (i - Len(es))
    BY <1>1, <1>2, <1>3
  <2>2. new[i] = Message(roles[i - Len(es)], n + (i - Len(es))) /\ roles[i - Len(es)] \in Role
    BY <2>1, <1>2, <1>3
  <2> QED
    BY <2>2 DEF Message, IsMessage, Role
<1>5. ASSUME NEW i \in DOMAIN new, IsMessage(new[i]) PROVE new[i].id \in 1..m
  <2>1. CASE i <= Len(es)
    <3>1. new[i] = es[i] /\ i \in DOMAIN es
      BY <2>1, <1>1, <1>3
    <3>2. new[i].id \in 1..n
      BY <3>1, <1>1, <1>5
    <3> QED
      BY <3>2, <1>1, <1>2
  <2>2. CASE i > Len(es)
    <3>1. i \in Len(es) + 1..Len(new)
      BY <2>2, <1>1, <1>3
    <3>2. new[i].id = n + (i - Len(es))
      BY <3>1, <1>4
    <3> QED
      BY <3>1, <3>2, <1>1, <1>2, <1>3
  <2> QED
    BY <2>1, <2>2, <1>1, <1>3
<1>6. Ordered(new)
  <2> SUFFICES ASSUME NEW i \in DOMAIN new, NEW j \in DOMAIN new, i < j,
                      IsMessage(new[i]), IsMessage(new[j])
               PROVE  new[i].id < new[j].id
    BY DEF Ordered
  <2>1. CASE j <= Len(es)
    BY <2>1, <1>1, <1>3 DEF Ordered
  <2>2. CASE i <= Len(es) /\ j > Len(es)
    BY SMTT(30), <2>2, <1>1, <1>3, <1>4
  <2>3. CASE i > Len(es)
    BY SMTT(30), <2>3, <1>1, <1>3, <1>4
  <2> QED
    BY <2>1, <2>2, <2>3, <1>1, <1>3
<1>7. Shape(new, m)
  <2>1. CASE AllMessages(es)
    BY SMTT(30), <2>1, <1>1, <1>3, <1>4 DEF Shape, AllMessages
  <2>2. ASSUME NEW c \in DOMAIN es, IsNewest(es, c), Frontier(es, n, c)
        PROVE  Shape(new, m)
    <3>1. new[c] = es[c] /\ c \in DOMAIN new /\ es[c].firstKept \in 1..n
      BY <1>1, <1>2, <1>3, <2>2 DEF Frontier
    <3>2. IsNewest(new, c)
      <4>1. ~IsMessage(new[c])
        BY <2>2, <3>1 DEF IsNewest
      <4>2. ASSUME NEW j \in c + 1..Len(new) PROVE IsMessage(new[j])
        <5>1. CASE j <= Len(es)
          <6>1. j \in c + 1..Len(es) /\ new[j] = es[j]
            BY <5>1, <1>1, <1>3
          <6> QED
            BY <6>1, <2>2 DEF IsNewest
        <5>2. CASE j > Len(es)
          BY <5>2, <1>1, <1>3, <1>4
        <5> QED
          BY <5>1, <5>2, <1>1, <1>3
      <4> QED
        BY <3>1, <4>1, <4>2 DEF IsNewest
    <3>3. \A j \in c + 1..Len(new) : new[j].id > new[c].firstKept
      <4> SUFFICES ASSUME NEW j \in c + 1..Len(new) PROVE new[j].id > new[c].firstKept
        OBVIOUS
      <4>1. CASE j <= Len(es)
        BY <4>1, <1>1, <1>3, <2>2, <3>1 DEF Frontier
      <4>2. CASE j > Len(es)
        BY SMTT(30), <4>2, <1>1, <1>3, <1>4, <3>1
      <4> QED
        BY <4>1, <4>2, <1>1, <1>3
    <3>4. Frontier(new, m, c)
      BY <1>1, <1>2, <2>2, <3>1, <3>3 DEF Frontier
    <3> QED
      BY <3>1, <3>2, <3>4 DEF Shape
  <2> QED
    BY <1>1, <2>1, <2>2 DEF Shape
<1>8. Good(new, m)
  BY <1>1, <1>2, <1>3, <1>5, <1>6, <1>7 DEF Good
<1> QED
  BY <1>8 DEF new

\* What is left when the entries before k are dropped.
LEMMA SuffixKeepsGood ==
  ASSUME NEW es, NEW n, Good(es, n), NEW k \in 1..Len(es) + 1
  PROVE  Good(SubSeq(es, k, Len(es)), n)
<1> DEFINE new == SubSeq(es, k, Len(es))
           len == Len(es) - k + 1
<1>1. /\ es \in Seq(Entry) /\ DOMAIN es = 1..Len(es) /\ Len(es) \in Nat /\ n \in Nat
      /\ \A i \in DOMAIN es : IsMessage(es[i]) => es[i].id \in 1..n
      /\ Ordered(es) /\ Shape(es, n)
  BY LenProperties DEF Good
<1>2. \A i \in k..Len(es) : es[i] \in Entry
  BY <1>1, ElementOfSeq
<1>3. /\ new \in Seq(Entry) /\ Len(new) = IF k <= Len(es) THEN len ELSE 0
      /\ \A i \in 1..len : new[i] = es[k + i - 1]
  BY <1>1, <1>2, SubSeqProperties
<1>4. len \in Nat /\ Len(new) = len
  BY <1>1, <1>3
<1> HIDE DEF new
<1>5. DOMAIN new = 1..len
  BY <1>3, <1>4, LenProperties
<1>6. \A i \in DOMAIN new : new[i] = es[k + i - 1] /\ k + i - 1 \in DOMAIN es
  BY <1>1, <1>3, <1>4, <1>5
<1>7. Ordered(new)
  <2> SUFFICES ASSUME NEW i \in DOMAIN new, NEW j \in DOMAIN new, i < j,
                      IsMessage(new[i]), IsMessage(new[j])
               PROVE  new[i].id < new[j].id
    BY DEF Ordered
  <2>1. /\ new[i] = es[k + i - 1] /\ k + i - 1 \in DOMAIN es
        /\ new[j] = es[k + j - 1] /\ k + j - 1 \in DOMAIN es
    BY <1>6
  <2>2. i \in Int /\ j \in Int /\ k \in Int
    BY <1>1, <1>4, <1>5
  <2>3. k + i - 1 < k + j - 1
    BY <2>2
  <2> QED
    BY <2>1, <2>3, <1>1 DEF Ordered
<1>8. Shape(new, n)
  <2>1. CASE AllMessages(es)
    BY <2>1, <1>6 DEF Shape, AllMessages
  <2>2. ASSUME NEW c \in DOMAIN es, IsNewest(es, c), Frontier(es, n, c)
        PROVE  Shape(new, n)
    <3>1. CASE c < k
      <4>1. AllMessages(new)
        <5> SUFFICES ASSUME NEW i \in DOMAIN new PROVE IsMessage(new[i])
          BY DEF AllMessages
        <5>1. k + i - 1 \in c + 1..Len(es) /\ new[i] = es[k + i - 1]
          BY <1>1, <1>4, <1>5, <1>6, <3>1
        <5> QED
          BY <5>1, <2>2 DEF IsNewest
      <4> QED
        BY <4>1 DEF Shape
    <3>2. CASE c >= k
      <4> DEFINE d == c - k + 1
      <4>1. d \in DOMAIN new /\ new[d] = es[c]
        BY <1>1, <1>4, <1>5, <1>6, <3>2
      <4>2. ASSUME NEW j \in d + 1..Len(new)
            PROVE  k + j - 1 \in c + 1..Len(es) /\ new[j] = es[k + j - 1]
        <5>1. c \in Nat /\ k \in Nat /\ d \in Nat /\ Len(es) \in Nat /\ Len(new) = Len(es) - k + 1
          BY <1>1, <1>4, <3>2
        <5>2. j \in Nat /\ d + 1 <= j /\ j <= Len(es) - k + 1
          BY <5>1
        <5>3. k + j - 1 \in c + 1..Len(es)
          BY <5>1, <5>2
        <5>4. j \in DOMAIN new
          BY <1>4, <1>5, <5>1, <5>2
        <5> QED
          BY <1>6, <5>3, <5>4
      <4>3. IsNewest(new, d)
        BY <2>2, <4>1, <4>2 DEF IsNewest
      <4>4. Frontier(new, n, d)
        BY <2>2, <4>1, <4>2 DEF Frontier
      <4> QED
        BY <4>1, <4>3, <4>4 DEF Shape
    <3> QED
      BY <1>1, <3>1, <3>2
  <2> QED
    BY <1>1, <2>1, <2>2 DEF Shape
<1>9. \A i \in DOMAIN new : IsMessage(new[i]) => new[i].id \in 1..n
  BY <1>1, <1>6
<1>10. Good(new, n)
  BY <1>1, <1>3, <1>7, <1>8, <1>9 DEF Good
<1> QED
  BY <1>10 DEF new

\* An empty history is well formed.
LEMMA NothingIsGood ==
  ASSUME NEW n \in Nat
  PROVE  Good(<<>>, n)
  BY EmptySeq DEF Good, Ordered, Shape, AllMessages

-----------------------------------------------------------------------------
(* What is kept, without ContextStrategy::Compact.                         *)

\* The newest summary's frontier is the first entry.
FirstKept(es) ==
    \A c \in DOMAIN es : IsNewest(es, c) =>
        c > 1 /\ IsMessage(es[1]) /\ es[1].id = es[c].firstKept

\* A result comes behind its call or another result: in entries, and in what is pushed.
Joined(es) ==
    \A i \in DOMAIN es : es[i].role = "result" =>
        i > 1 /\ es[i - 1].role \in {"assistant", "result"}

Complete(roles) ==
    \A i \in DOMAIN roles : roles[i] = "result" =>
        i > 1 /\ roles[i - 1] \in {"assistant", "result"}

\* Of n messages those not cleared are entries or in the newest summary.
Whole(es, n, gone) == 1..n \ gone \subseteq Messages(es, 1, Len(es)) \cup Covered(es)

Keeps(es, n, gone) == FirstKept(es) /\ Joined(es) /\ Whole(es, n, gone)

\* So a compaction begins at the first entry.
LEMMA StartsAtFirst ==
  ASSUME NEW es, NEW n, Good(es, n), FirstKept(es)
  PROVE  BoundaryStart(es) = 1
<1>1. es \in Seq(Entry) /\ DOMAIN es = 1..Len(es) /\ Len(es) \in Nat /\ Ordered(es)
  BY LenProperties DEF Good
<1>2. CASE AllMessages(es)
  BY <1>2, NoSummary
<1>3. ASSUME NEW c \in DOMAIN es, IsNewest(es, c)
      PROVE  BoundaryStart(es) = 1
  <2>1. IsMessage(es[1]) /\ es[1].id = es[c].firstKept /\ 1 \in DOMAIN es
    BY <1>1, <1>3 DEF FirstKept
  <2> QED
    BY <1>1, <1>3, <2>1, KeptBoundary
<1> QED
  BY <1>2, <1>3 DEF Good, Shape

\* Messages of an interval, one by one.
LEMMA InMessages ==
  ASSUME NEW es, NEW a \in Int, NEW b \in Int, NEW i \in a..b, IsMessage(es[i])
  PROVE  es[i].id \in Messages(es, a, b)
  BY DEF Messages

\* A compaction forgets nothing and parts no result from its call.
LEMMA CompactKeeps ==
  ASSUME NEW es, NEW n, Good(es, n), ~Refused(es), NEW cut \in CutPoints(es),
         NEW gone, Keeps(es, n, gone)
  PROVE  Keeps(Compacted(es, cut), n, gone)
<1> DEFINE new == Compacted(es, cut)
           s == Summary(es[cut].id, Summarised(es, cut))
           last == Len(es) - cut + 2
<1>1. es \in Seq(Entry) /\ DOMAIN es = 1..Len(es) /\ Len(es) \in Nat
  BY LenProperties DEF Good
<1>2. BoundaryStart(es) = 1
  BY StartsAtFirst DEF Keeps
<1>3. cut \in 1..Len(es) /\ IsMessage(es[cut]) /\ (es[cut].role \in {"user", "assistant"} \/ cut = 1)
  BY <1>1, <1>2, CutIsMessage
<1>4. /\ Len(new) = last /\ DOMAIN new = 1..last
      /\ \A i \in 1..last - 1 : new[i] = es[cut + i - 1]
      /\ new[last] = s
  BY <1>1, <1>3, CompactedIs
<1>5. s.role = "summary" /\ s.firstKept = es[cut].id /\ s.covers = Summarised(es, cut)
  BY DEF Summary
<1>6. last \in Nat /\ last >= 2
  BY <1>1, <1>3
<1>7. IsNewest(new, last) /\ Newest(new) = last
  BY <1>4, CompactedNewest
<1> HIDE DEF new, s
<1>8. new[1] = es[cut]
  BY <1>3, <1>4, <1>6
<1>9. FirstKept(new)
  <2> SUFFICES ASSUME NEW c \in DOMAIN new, IsNewest(new, c)
               PROVE  c > 1 /\ IsMessage(new[1]) /\ new[1].id = new[c].firstKept
    BY DEF FirstKept
  <2>1. c = last
    <3>1. last \in c + 1..Len(new) => IsMessage(new[last])
      BY DEF IsNewest
    <3> QED
      BY <3>1, <1>4, <1>5, <1>6 DEF IsMessage
  <2> QED
    BY <2>1, <1>3, <1>4, <1>5, <1>6, <1>8
<1>10. Joined(new)
  <2> SUFFICES ASSUME NEW i \in DOMAIN new, new[i].role = "result"
               PROVE  i > 1 /\ new[i - 1].role \in {"assistant", "result"}
    BY DEF Joined
  <2>1. i \in 1..last - 1
    BY <1>4, <1>5, <1>6
  <2>2. PICK j \in DOMAIN es : j = cut + i - 1
    BY <2>1, <1>1, <1>3, <1>6
  <2>3. new[i] = es[j]
    BY <2>1, <2>2, <1>4
  <2>4. j > 1 /\ es[j - 1].role \in {"assistant", "result"}
    BY <2>3 DEF Keeps, Joined
  <2>5. i # 1
    BY <2>2, <2>3, <2>4, <1>3
  <2>6. i - 1 \in 1..last - 1 /\ cut + (i - 1) - 1 = j - 1 /\ i > 1
    BY SMTT(30), <2>1, <2>2, <2>5, <1>3, <1>6
  <2>7. new[i - 1] = es[j - 1]
    BY <2>6, <1>4
  <2> QED
    BY <2>4, <2>6, <2>7
<1>11. Whole(new, n, gone)
  <2>1. Covered(new) = Covered(es) \cup Messages(es, 1, cut - 1)
    <3>1. Covered(new) = s.covers
      BY <1>4, <1>6, <1>7 DEF Covered
    <3> QED
      BY <3>1, <1>2, <1>5 DEF Summarised
  <2>2. ASSUME NEW x \in Messages(es, 1, Len(es))
        PROVE  x \in Messages(new, 1, Len(new)) \cup Covered(new)
    <3>1. PICK i \in 1..Len(es) : IsMessage(es[i]) /\ x = es[i].id
      BY DEF Messages
    <3>2. CASE i < cut
      <4>1. i \in 1..cut - 1
        BY <3>2, <1>1, <1>3
      <4> QED
        BY <4>1, <3>1, <2>1 DEF Messages
    <3>3. CASE i >= cut
      <4> DEFINE j == i - cut + 1
      <4>1. j \in 1..last - 1 /\ cut + j - 1 = i /\ j \in 1..Len(new)
        BY <3>3, <1>1, <1>3, <1>4
      <4>2. new[j] = es[i]
        BY <4>1, <1>4
      <4> QED
        BY <4>1, <4>2, <3>1 DEF Messages
    <3> QED
      BY <3>2, <3>3, <1>1, <1>3
  <2> QED
    BY <2>1, <2>2 DEF Whole, Keeps
<1>12. Keeps(new, n, gone)
  BY <1>9, <1>10, <1>11 DEF Keeps
<1> QED
  BY <1>12 DEF new

\* Nor do new messages change what is kept.
LEMMA PushKeeps ==
  ASSUME NEW es, NEW n, Good(es, n), NEW roles \in Seq(Role), Complete(roles),
         NEW gone, Keeps(es, n, gone)
  PROVE  Keeps(Pushed(es, n, roles), n + Len(roles), gone)
<1> DEFINE new == Pushed(es, n, roles)
           m == n + Len(roles)
<1>1. es \in Seq(Entry) /\ DOMAIN es = 1..Len(es) /\ Len(es) \in Nat /\ n \in Nat
  BY LenProperties DEF Good
<1>2. /\ Len(roles) \in Nat /\ DOMAIN roles = 1..Len(roles)
      /\ \A i \in 1..Len(roles) : roles[i] \in Role
  BY LenProperties, ElementOfSeq
<1>3. /\ new \in Seq(Entry) /\ Len(new) = Len(es) + Len(roles)
      /\ DOMAIN new = 1..Len(new)
      /\ \A i \in 1..Len(es) : new[i] = es[i]
      /\ \A i \in 1..Len(roles) : new[Len(es) + i] = Message(roles[i], n + i)
  BY <1>1, PushedIs
<1> HIDE DEF new
<1>4. ASSUME NEW i \in 1..Len(roles)
      PROVE  /\ IsMessage(new[Len(es) + i]) /\ new[Len(es) + i].id = n + i
             /\ new[Len(es) + i].role = roles[i]
  <2>1. new[Len(es) + i] = Message(roles[i], n + i) /\ roles[i] \in Role
    BY <1>2, <1>3
  <2> QED
    BY <2>1 DEF Message, IsMessage, Role
<1>5. \A i \in DOMAIN new : i > Len(es) => i - Len(es) \in 1..Len(roles) /\ i = Len(es) + (i - Len(es))
  BY <1>1, <1>2, <1>3
<1>6. \A i \in DOMAIN new : i > Len(es) => IsMessage(new[i])
  BY <1>4, <1>5
<1>7. \A i \in DOMAIN new : i <= Len(es) => i \in DOMAIN es /\ new[i] = es[i]
  BY <1>1, <1>3
<1>8. ASSUME NEW c \in DOMAIN new, IsNewest(new, c)
      PROVE  c \in DOMAIN es /\ new[c] = es[c] /\ IsNewest(es, c)
  <2>1. c <= Len(es)
    BY <1>1, <1>3, <1>6, <1>8 DEF IsNewest
  <2>2. c \in DOMAIN es /\ new[c] = es[c]
    BY <2>1, <1>7
  <2>3. \A j \in c + 1..Len(es) : IsMessage(es[j])
    <3> SUFFICES ASSUME NEW j \in c + 1..Len(es) PROVE IsMessage(es[j])
      OBVIOUS
    <3>1. j \in c + 1..Len(new) /\ j \in 1..Len(es)
      BY <2>2, <1>1, <1>2, <1>3
    <3> QED
      BY <3>1, <1>3, <1>8 DEF IsNewest
  <2> QED
    BY <2>2, <2>3, <1>8 DEF IsNewest
<1>9. ASSUME NEW c \in DOMAIN es, IsNewest(es, c) PROVE IsNewest(new, c) /\ c \in DOMAIN new
  <2>1. c \in DOMAIN new /\ ~IsMessage(new[c])
    BY <1>1, <1>2, <1>3, <1>9 DEF IsNewest
  <2>2. ASSUME NEW j \in c + 1..Len(new) PROVE IsMessage(new[j])
    <3>1. j \in DOMAIN new
      BY <1>1, <1>3, <1>9
    <3>2. CASE j > Len(es)
      BY <3>1, <3>2, <1>6
    <3>3. CASE j <= Len(es)
      <4>1. j \in c + 1..Len(es) /\ new[j] = es[j]
        BY <3>1, <3>3, <1>1, <1>7
      <4> QED
        BY <4>1, <1>9 DEF IsNewest
    <3> QED
      BY <3>2, <3>3, <1>1, <1>3
  <2> QED
    BY <2>1, <2>2 DEF IsNewest
<1>10. FirstKept(new)
  <2> SUFFICES ASSUME NEW c \in DOMAIN new, IsNewest(new, c)
               PROVE  c > 1 /\ IsMessage(new[1]) /\ new[1].id = new[c].firstKept
    BY DEF FirstKept
  <2>1. c \in DOMAIN es /\ new[c] = es[c] /\ IsNewest(es, c)
    BY <1>8
  <2>2. c > 1 /\ IsMessage(es[1]) /\ es[1].id = es[c].firstKept
    BY <2>1 DEF Keeps, FirstKept
  <2>3. new[1] = es[1]
    BY <2>1, <2>2, <1>1, <1>3
  <2> QED
    BY <2>1, <2>2, <2>3
<1>11. Joined(new)
  <2> SUFFICES ASSUME NEW i \in DOMAIN new, new[i].role = "result"
               PROVE  i > 1 /\ new[i - 1].role \in {"assistant", "result"}
    BY DEF Joined
  <2>1. CASE i <= Len(es)
    <3>1. i \in DOMAIN es /\ new[i] = es[i]
      BY <2>1, <1>7
    <3>2. i > 1 /\ es[i - 1].role \in {"assistant", "result"}
      BY <3>1 DEF Keeps, Joined
    <3>3. new[i - 1] = es[i - 1]
      BY <3>1, <3>2, <1>1, <1>3
    <3> QED
      BY <3>2, <3>3
  <2>2. CASE i > Len(es)
    <3>1. PICK k \in 1..Len(roles) : i = Len(es) + k
      BY <2>2, <1>5
    <3>2. roles[k] = "result"
      BY <3>1, <1>4
    <3>3. k > 1 /\ roles[k - 1] \in {"assistant", "result"}
      BY <3>2, <1>2 DEF Complete
    <3>4. k - 1 \in 1..Len(roles) /\ i - 1 = Len(es) + (k - 1) /\ i > 1
      <4>1. \A l, e, x \in Nat : x \in 1..l /\ x > 1 => x - 1 \in 1..l /\ (e + x) - 1 = e + (x - 1) /\ e + x > 1
        OBVIOUS
      <4>2. Len(roles) \in Nat /\ Len(es) \in Nat /\ k \in Nat
        BY <1>1, <1>2
      <4> QED
        BY ONLY <4>1, <4>2, <3>1, <3>3
    <3>5. new[i - 1].role = roles[k - 1]
      BY <3>4, <1>4
    <3> QED
      BY <3>3, <3>4, <3>5
  <2> QED
    BY <2>1, <2>2, <1>1, <1>3
<1>12. Covered(new) = Covered(es)
  <2>1. CASE AllMessages(es)
    <3>1. AllMessages(new)
      <4> SUFFICES ASSUME NEW i \in DOMAIN new PROVE IsMessage(new[i])
        BY DEF AllMessages
      <4>1. CASE i > Len(es)
        BY <4>1, <1>6
      <4>2. CASE i <= Len(es)
        BY <4>2, <2>1, <1>7 DEF AllMessages
      <4> QED
        BY <4>1, <4>2, <1>1, <1>3
    <3> QED
      BY <2>1, <3>1, NoSummary
  <2>2. ASSUME NEW c \in DOMAIN es, IsNewest(es, c)
        PROVE  Covered(new) = Covered(es)
    <3>1. IsNewest(new, c) /\ c \in DOMAIN new /\ c # 0
      BY <2>2, <1>1, <1>9
    <3>2. Newest(new) = c /\ Newest(es) = c
      BY <2>2, <3>1, <1>1, <1>3, NewestFound
    <3>3. new[c] = es[c]
      BY <1>1, <1>3
    <3> QED
      BY <3>1, <3>2, <3>3 DEF Covered
  <2> QED
    BY <2>1, <2>2 DEF Good, Shape
<1>13. Whole(new, m, gone)
  <2>1. ASSUME NEW x \in Messages(es, 1, Len(es)) PROVE x \in Messages(new, 1, Len(new))
    <3>1. PICK i \in 1..Len(es) : IsMessage(es[i]) /\ x = es[i].id
      BY DEF Messages
    <3>2. i \in 1..Len(new) /\ new[i] = es[i]
      BY <3>1, <1>1, <1>2, <1>3
    <3> QED
      BY <3>1, <3>2 DEF Messages
  <2>2. ASSUME NEW x \in 1..m, x \notin 1..n PROVE x \in Messages(new, 1, Len(new))
    <3>1. PICK i \in 1..Len(roles) : x = n + i
      <4>1. x - n \in 1..Len(roles) /\ x = n + (x - n)
        BY <2>2, <1>1, <1>2
      <4> QED
        BY <4>1
    <3>2. Len(es) + i \in 1..Len(new)
      BY <1>1, <1>2, <1>3
    <3> QED
      BY <3>1, <3>2, <1>4 DEF Messages
  <2> QED
    BY <2>1, <2>2, <1>12 DEF Keeps, Whole
<1>14. Keeps(new, m, gone)
  BY <1>10, <1>11, <1>13 DEF Keeps
<1> QED
  BY <1>14 DEF new

\* An empty history, when all was dropped on purpose.
LEMMA NothingKeeps ==
  ASSUME NEW n \in Nat
  PROVE  Keeps(<<>>, n, 1..n)
  BY EmptySeq DEF Keeps, FirstKept, Joined, Whole

-----------------------------------------------------------------------------
(* The specification.                                                      *)

IInv ==
    /\ TypeOK
    /\ Good(entries, lastId)
    /\ strategy # "compact" => fragment = {} /\ Keeps(entries, lastId, cleared)

\* What prompts and runs push is made of messages, with each result behind its call.
LEMMA PushedRoles ==
  ASSUME NEW roles \in Runs \cup {<<>>, <<"user">>}
  PROVE  roles \in Seq(Role) /\ Complete(roles)
<1>1. CASE roles = <<>>
  BY <1>1 DEF Complete
<1>2. CASE roles = <<"user">>
  BY <1>2 DEF Role, Complete
<1>3. CASE roles = <<"assistant">>
  BY <1>3 DEF Role, Complete
<1>4. CASE roles = <<"assistant", "result", "result">>
  BY <1>4 DEF Role, Complete
<1>5. CASE roles = <<"assistant", "result", "assistant">>
  BY <1>5 DEF Role, Complete
<1>6. CASE roles = <<"user", "assistant">>
  BY <1>6 DEF Role, Complete
<1> QED
  BY <1>1, <1>2, <1>3, <1>4, <1>5, <1>6 DEF Runs

\* A step that pushes.
LEMMA PushStep ==
  ASSUME IInv, NEW roles \in Runs \cup {<<>>, <<"user">>}, Push(roles),
         UNCHANGED <<strategy, fragment, cleared>>
  PROVE  /\ entries' \in Seq(Entry) /\ lastId' \in 0..MaxMessages /\ lastId <= lastId'
         /\ Good(entries', lastId')
         /\ strategy' # "compact" => fragment' = {} /\ Keeps(entries', lastId', cleared')
<1>1. roles \in Seq(Role) /\ Complete(roles)
  BY PushedRoles
<1>2. entries' = Pushed(entries, lastId, roles) /\ lastId' = lastId + Len(roles)
  BY DEF Push, Pushed
<1>3. Len(roles) \in Nat /\ MaxMessages \in Nat /\ lastId \in 0..MaxMessages
      /\ lastId + Len(roles) <= MaxMessages
  BY <1>1, LenProperties, CompactionAssumption DEF IInv, TypeOK, Push
<1>4. Good(entries', lastId')
  BY <1>1, <1>2, PushKeepsGood DEF IInv
<1>5. strategy # "compact" => Keeps(entries', lastId', cleared)
  BY <1>1, <1>2, PushKeeps DEF IInv
<1> QED
  BY <1>2, <1>3, <1>4, <1>5 DEF IInv, Good

\* A step that compacts.
LEMMA CompactStep ==
  ASSUME IInv, CompactEntries, UNCHANGED <<strategy, fragment, lastId, cleared>>
  PROVE  /\ entries' \in Seq(Entry)
         /\ Good(entries', lastId')
         /\ strategy' # "compact" => fragment' = {} /\ Keeps(entries', lastId', cleared')
<1>1. PICK cut \in CutPoints(entries) : ~Refused(entries) /\ entries' = Compacted(entries, cut)
  BY DEF CompactEntries
<1>2. Good(entries', lastId)
  BY <1>1, CompactKeepsGood DEF IInv
<1>3. strategy # "compact" => Keeps(entries', lastId, cleared)
  BY <1>1, CompactKeeps DEF IInv
<1> QED
  BY <1>2, <1>3 DEF IInv, Good

\* The invariant is inductive.
LEMMA IInvStep == IInv /\ [Next]_vars => IInv'
<1> SUFFICES ASSUME IInv, [Next]_vars PROVE IInv'
  OBVIOUS
<1>0. TypeOK /\ Good(entries, lastId) /\ lastId \in Nat /\ MaxMessages \in Nat
  BY CompactionAssumption DEF IInv, TypeOK
<1>1. CASE Prompt
  <2>1. \E roles \in {<<>>, <<"user">>} : Push(roles)
    BY <1>1 DEF Prompt
  <2>2. PICK roles \in Runs \cup {<<>>, <<"user">>} : Push(roles)
    BY <2>1
  <2>3. UNCHANGED <<strategy, fragment, attempted, cleared>> /\ pc' = "running"
    BY <1>1 DEF Prompt
  <2> QED
    BY <1>0, <2>2, <2>3, PushStep DEF IInv, TypeOK
<1>2. CASE RunOk
  <2>1. \E roles \in Runs : Push(roles)
    BY <1>2 DEF RunOk
  <2>2. PICK roles \in Runs \cup {<<>>, <<"user">>} : Push(roles)
    BY <2>1
  <2>3. UNCHANGED <<strategy, fragment, attempted, cleared>> /\ pc' = "finishing"
    BY <1>2 DEF RunOk
  <2> QED
    BY <1>0, <2>2, <2>3, PushStep DEF IInv, TypeOK
<1>3. CASE RunFails
  BY <1>3 DEF RunFails, IInv, TypeOK
<1>4. CASE RunOverflows
  BY <1>4 DEF RunOverflows, IInv, TypeOK
<1>5. CASE Recover
  <2>1. UNCHANGED <<strategy, fragment, attempted, lastId, cleared>> /\ pc' \in {"running", "idle"}
    BY <1>5 DEF Recover
  <2>2. CASE CompactEntries
    BY <1>0, <2>1, <2>2, CompactStep DEF IInv, TypeOK
  <2>3. CASE UNCHANGED entries
    BY <2>1, <2>3 DEF IInv, TypeOK
  <2> QED
    BY <1>5, <2>2, <2>3 DEF Recover
<1>6. CASE CompactInRun
  <2>1. UNCHANGED <<strategy, fragment, pc, attempted, lastId, cleared>> /\ CompactEntries
    BY <1>6 DEF CompactInRun
  <2> QED
    BY <1>0, <2>1, CompactStep DEF IInv, TypeOK
<1>7. CASE Finish
  BY <1>7 DEF Finish, IInv, TypeOK
<1>8. CASE CompactSession
  <2>1. UNCHANGED <<strategy, fragment, pc, attempted, lastId, cleared>> /\ CompactEntries
    BY <1>8 DEF CompactSession
  <2> QED
    BY <1>0, <2>1, CompactStep DEF IInv, TypeOK
<1>9. CASE Reset
  <2>1. /\ entries' = <<>> /\ cleared' = 1..lastId /\ attempted' = FALSE /\ pc' = "idle"
        /\ UNCHANGED <<strategy, fragment, lastId>>
    BY <1>9 DEF Reset
  <2>2. Good(entries', lastId') /\ Keeps(entries', lastId', cleared') /\ entries' \in Seq(Entry)
    BY <1>0, <2>1, NothingIsGood, NothingKeeps DEF Good
  <2> QED
    BY <1>0, <2>1, <2>2 DEF IInv, TypeOK
<1>10. CASE KeepLast
  <2>1. /\ strategy = "compact" /\ Len(entries) > KeepLastN
        /\ entries' = Newer(entries, KeepLastN)
        /\ UNCHANGED <<strategy, pc, attempted, lastId, cleared>>
    BY <1>10 DEF KeepLast
  <2>2. Good(entries', lastId')
    <3>1. Len(entries) \in Nat /\ KeepLastN \in Nat
      BY <1>0, LenProperties, CompactionAssumption DEF Good
    <3>2. Len(entries) - KeepLastN + 1 \in 1..Len(entries) + 1
      BY <2>1, <3>1
    <3> QED
      BY <1>0, <2>1, <3>2, SuffixKeepsGood DEF Newer
  <2>3. fragment' \in SUBSET (Nat \ {0})
    <3>1. CASE fragment' = {}
      BY <3>1
    <3>2. ASSUME NEW cut \in CutPoints(entries), ~Refused(entries),
                 fragment' = Summarised(entries, cut)
          PROVE  fragment' \in SUBSET (Nat \ {0})
      <4>1. Summarised(entries, cut) \subseteq 1..entries[cut].id - 1
        BY <1>0, <3>2, SummaryBelowCut
      <4>2. entries[cut].id \in Nat
        BY <1>0, <3>2, CutIsMessage DEF Good
      <4> QED
        BY <3>2, <4>1, <4>2
    <3> QED
      BY <1>10, <3>1, <3>2 DEF KeepLast
  <2>4. entries' \in Seq(Entry)
    BY <2>2 DEF Good
  <2> QED
    BY <1>0, <2>1, <2>2, <2>3, <2>4 DEF IInv, TypeOK
<1>11. CASE Clear
  <2>1. /\ entries' = <<>> /\ cleared' = 1..lastId /\ fragment' = {}
        /\ UNCHANGED <<strategy, pc, attempted, lastId>>
    BY <1>11 DEF Clear
  <2>2. Good(entries', lastId') /\ Keeps(entries', lastId', cleared') /\ entries' \in Seq(Entry)
    BY <1>0, <2>1, NothingIsGood, NothingKeeps DEF Good
  <2> QED
    BY <1>0, <2>1, <2>2 DEF IInv, TypeOK
<1>12. CASE UNCHANGED vars
  BY <1>12 DEF vars, IInv, TypeOK
<1> QED
  BY <1>1, <1>2, <1>3, <1>4, <1>5, <1>6, <1>7, <1>8, <1>9, <1>10, <1>11, <1>12 DEF Next

\* It holds at the start, and so always.
LEMMA IInvInvariant == Spec => []IInv
<1>1. Init => IInv
  <2> SUFFICES ASSUME Init PROVE IInv
    OBVIOUS
  <2>1. entries = <<>> /\ lastId = 0 /\ cleared = {} /\ MaxMessages \in Nat
    BY CompactionAssumption DEF Init
  <2>2. Good(entries, lastId) /\ entries \in Seq(Entry)
    BY <2>1, NothingIsGood DEF Good
  <2>3. Keeps(<<>>, 0, 1..0)
    BY NothingKeeps
  <2>4. 1..0 = {}
    OBVIOUS
  <2>5. TypeOK
    <3>1. lastId \in 0..MaxMessages /\ cleared \subseteq 1..lastId /\ fragment = {}
      BY <2>1 DEF Init
    <3>2. strategy \in Strategies /\ attempted \in BOOLEAN /\ pc = "idle"
      BY DEF Init
    <3> QED
      BY <2>2, <3>1, <3>2 DEF TypeOK
  <2>6. fragment = {} /\ Keeps(entries, lastId, cleared)
    BY <2>1, <2>3, <2>4 DEF Init
  <2> QED
    BY <2>2, <2>5, <2>6 DEF IInv
<1> QED
  BY <1>1, IInvStep, PTL DEF Spec

\* The entries, what summaries cover and what the actor keeps beside them are of the
\* right kind, for every bound and every set of strategies.
THEOREM TypeCorrect == Spec => []TypeOK
<1>1. IInv => TypeOK
  BY DEF IInv
<1> QED
  BY <1>1, IInvInvariant, PTL

\* Without ContextStrategy::Compact, however often run_auto_compaction and compact cut
\* the history, each message is in the entries or in the newest summary.
THEOREM NothingIsForgotten == Spec => []NothingForgotten
<1>1. IInv => NothingForgotten
  BY DEF IInv, Keeps, Whole, NothingForgotten, Said
<1> QED
  BY <1>1, IInvInvariant, PTL

\* Compactor::prepare never hands messages to a summary that it already covers,
\* also where apply_context_strategy_before_run has cut the entries by count.
THEOREM NothingIsSummarisedTwice == Spec => []SummarisedOnce
<1>1. IInv => SummarisedOnce
  <2> SUFFICES ASSUME IInv PROVE SummarisedOnce
    OBVIOUS
  <2>1. Good(entries, lastId)
    BY DEF IInv
  <2>2. /\ Len(entries) \in Nat /\ DOMAIN entries = 1..Len(entries)
        /\ \A i \in DOMAIN entries : IsMessage(entries[i]) => entries[i].id \in 1..lastId
        /\ lastId \in Nat
    BY <2>1, LenProperties DEF Good
  <2>3. BoundaryStart(entries) \in 1..Len(entries) + 1
    BY <2>1, Boundary
  <2>4. ASSUME NEW x \in Covered(entries),
               NEW i \in BoundaryStart(entries)..Len(entries), IsMessage(entries[i])
        PROVE  x # entries[i].id
    <3>1. x \in 1..lastId /\ x < entries[i].id
      BY <2>1, <2>4, Boundary
    <3>2. i \in DOMAIN entries
      BY <2>2, <2>3
    <3> QED
      BY <3>1, <3>2, <2>2, <2>4
  <2> QED
    BY <2>4 DEF SummarisedOnce, Messages
<1> QED
  BY <1>1, IInvInvariant, PTL

\* The entries stay in the order of the conversation, whatever they are cut to.
THEOREM OrderIsKept == Spec => []EntriesOrdered
<1>1. IInv => EntriesOrdered
  BY DEF IInv, Good, Ordered, EntriesOrdered
<1> QED
  BY <1>1, IInvInvariant, PTL

\* find_cut_point never parts a tool result from its call.
THEOREM ResultsStayWithCalls == Spec => []ResultsFollowCalls
<1>1. IInv => ResultsFollowCalls
  BY DEF IInv, Keeps, Joined, ResultsFollowCalls
<1> QED
  BY <1>1, IInvInvariant, PTL

-----------------------------------------------------------------------------
(* Files: what a loaded file's block carries, whatever happens to the file. *)

\* Whatever the file is or becomes: what was read came from inside, and its type is that which the
\* bytes tell first and the handle does not contradict; an image written anew has a format and a
\* width of its own.
ContentIsRead ==
    content # NoContent =>
        /\ stage \in {"resolved", "loaded"} /\ source.leads = "inside"
        /\ read \in Holdings /\ content.type = DetectMediaType(read) /\ ~Mismatch(read)
        /\ ~smaller => content = ParseContent(read)
        /\ smaller => /\ content.type \in Image /\ content.width = TargetWidth
                      /\ content.bytes.magic = IF content.type \in {"jpeg", "webp"} THEN content.type ELSE "png"

\* A handle that leads outside never gets behind its path check.
StagesHold ==
    /\ stage \in {"new", "resolved", "loaded", "refused"}
    /\ stage \in {"new", "refused"} => /\ content = NoContent /\ ~smaller
                                       /\ block = NoBlock \/ (source.is = "url" /\ block.form = "reference")
    /\ stage = "resolved" => source.leads = "inside" /\ block = NoBlock /\ ~smaller
    /\ stage = "loaded" => content # NoContent
    /\ source.is # "local" => source.leads = "inside"

\* What was decided about the content is decided about the content there is.
DecidedOnContent ==
    /\ verdict = "ok" => stage = "loaded" /\ (Violations = {} \/ limits.mode = "warn")
    /\ block.form = "inline" => stage = "loaded" /\ \E provider \in Providers : block = FormatContent(provider)

\* The file's holdings, the limits and the content have the shape of what they are taken from.
FileShapes ==
    /\ disk \in Holdings /\ limits \in Limits /\ (source.is = "bytes" => source.data \in Holdings)
    /\ content = [type |-> content.type, bytes |-> content.bytes, width |-> content.width]
    /\ content.bytes \in Bytes /\ content.width \in Nat

\* The inductive invariant of loading a file.
FileInv == FileShapes /\ StagesHold /\ ContentIsRead /\ DecidedOnContent

\* The bytes tell a type first; some type is always found.
LEMMA DetectedType ==
  ASSUME NEW bytes \in Bytes
  PROVE  /\ DetectMediaType(bytes) # Unset
         /\ bytes.magic # "none" => DetectMediaType(bytes) = bytes.magic
  BY DEF Bytes, DetectMediaType, Unset

\* Parsing names the detected type and keeps the bytes but for text made valid UTF-8.
LEMMA ParsedShape ==
  ASSUME NEW bytes \in Bytes, NEW c, c = ParseContent(bytes)
  PROVE  /\ c = [type |-> c.type, bytes |-> c.bytes, width |-> c.width] /\ c # NoContent
         /\ c.type = DetectMediaType(bytes) /\ c.bytes \in Bytes /\ c.width \in Nat
         /\ c.bytes \in {bytes, [bytes EXCEPT !.utf8 = TRUE]} /\ c.bytes.magic = bytes.magic
         /\ c.type \notin Image => c.width = 0
<1>1. DetectMediaType(bytes) # Unset
  BY DetectedType
<1>2. /\ c.type = DetectMediaType(bytes)
      /\ c.bytes = IF DetectMediaType(bytes) = "text" THEN [bytes EXCEPT !.utf8 = TRUE] ELSE bytes
      /\ c.width = IF {DetectMediaType(bytes), bytes.magic} \subseteq Image /\ "image-meta" \in features THEN bytes.width ELSE 0
      /\ c = [type |-> c.type, bytes |-> c.bytes, width |-> c.width]
  BY DEF ParseContent
<1>3. bytes.width \in Nat /\ [bytes EXCEPT !.utf8 = TRUE] \in Bytes /\ [bytes EXCEPT !.utf8 = TRUE].magic = bytes.magic
  BY DEF Bytes
<1>4. c # NoContent
  BY <1>1, <1>2 DEF NoContent
<1> QED
  BY <1>2, <1>3, <1>4

\* A loader that did nothing yet has decided nothing.
LEMMA FileInvInit == FileInit => FileInv
<1> SUFFICES ASSUME FileInit PROVE FileInv
  OBVIOUS
<1>1. NoBytes \in Bytes /\ NoContent = [type |-> NoContent.type, bytes |-> NoContent.bytes, width |-> NoContent.width]
      /\ NoContent.bytes = NoBytes /\ NoContent.width = 0 /\ NoBlock.form = "none"
  BY DEF NoBytes, Bytes, NoContent, NoBlock
<1>2. (source.is = "bytes" => source.data = disk) /\ (source.is # "local" => source.leads = "inside")
  BY DEF FileInit, Source
<1>3. /\ disk \in Holdings /\ limits \in Limits /\ stage = "new" /\ content = NoContent /\ verdict = "none"
      /\ smaller = FALSE /\ block = NoBlock
  BY DEF FileInit
<1>4. FileShapes
  <2>1. /\ content = [type |-> content.type, bytes |-> content.bytes, width |-> content.width]
        /\ content.bytes \in Bytes /\ content.width = 0
    BY <1>1, <1>3
  <2> QED
    BY <1>2, <1>3, <2>1 DEF FileShapes
<1>5. StagesHold
  BY <1>2, <1>3 DEF StagesHold
<1> QED
  BY <1>1, <1>3, <1>4, <1>5 DEF FileInv, ContentIsRead, DecidedOnContent

\* Loading bytes that fit the handle.
LEMMA LoadedIsRead ==
  ASSUME FileInv, NEW bytes \in Holdings, ~Mismatch(bytes), Parsed(bytes), source.leads = "inside",
         stage' \in {"resolved", "loaded"}, content = NoContent, stage \in {"new", "resolved"},
         UNCHANGED <<features, disk, source, media_type, limits, verdict, smaller, block>>, ~smaller,
         stage' = "resolved" => block = NoBlock
  PROVE  FileInv'
<1>1. bytes \in Bytes
  BY FileAssumption
<1>2. content' = ParseContent(bytes) /\ read' = bytes
  BY DEF Parsed
<1>3. /\ content' = [type |-> content'.type, bytes |-> content'.bytes, width |-> content'.width] /\ content' # NoContent
      /\ content'.type = DetectMediaType(bytes) /\ content'.bytes \in Bytes /\ content'.width \in Nat
  BY <1>1, <1>2, ParsedShape
<1>4. ParseContent(bytes)' = ParseContent(bytes) /\ DetectMediaType(bytes)' = DetectMediaType(bytes)
      /\ ~Mismatch(bytes)'
  BY DEF ParseContent, DetectMediaType, Hint, Mismatch
<1>5. ParseContent(read)' = ParseContent(bytes) /\ DetectMediaType(read)' = DetectMediaType(bytes) /\ ~Mismatch(read)'
  BY <1>2 DEF ParseContent, DetectMediaType, Hint, Mismatch
<1>6. verdict # "ok" /\ block.form # "inline"
  BY DEF FileInv, DecidedOnContent
<1>7. FileShapes'
  BY <1>3 DEF FileInv, FileShapes
<1>8. StagesHold'
  BY <1>3, <1>6 DEF FileInv, StagesHold
<1>9. ContentIsRead'
  BY <1>2, <1>3, <1>5 DEF ContentIsRead
<1>10. DecidedOnContent'
  BY <1>6 DEF DecidedOnContent
<1> QED
  BY <1>7, <1>8, <1>9, <1>10 DEF FileInv

\* A refusal leaves no content to decide about.
LEMMA RefusedKeeps == ASSUME FileInv, Refuse, content = NoContent, stage \in {"new", "resolved"} PROVE FileInv'
<1>1. /\ FileShapes' /\ StagesHold'
  BY DEF Refuse, FileInv, FileShapes, StagesHold, NoBlock
<1>2. ContentIsRead'
  BY DEF Refuse, ContentIsRead, NoContent
<1>3. verdict # "ok" /\ block.form # "inline"
  BY DEF FileInv, DecidedOnContent
<1>4. DecidedOnContent'
  BY <1>3 DEF Refuse, DecidedOnContent
<1> QED
  BY <1>1, <1>2, <1>4 DEF FileInv

\* Every step of loading keeps the invariant.
LEMMA FileInvStep == FileInv /\ [FileNext]_fileVars => FileInv'
<1> SUFFICES ASSUME FileInv, [FileNext]_fileVars PROVE FileInv'
  OBVIOUS
<1> USE DEF FileInv
<1>1. CASE \E type \in {"png", "text", "binary"} : WithMediaType(type)
  <2>1. stage = "new" /\ UNCHANGED <<features, disk, source, limits, stage, read, size_told, content, verdict, smaller, block>>
    BY <1>1 DEF WithMediaType
  <2>2. content = NoContent /\ verdict # "ok" /\ block.form # "inline"
    BY <2>1 DEF StagesHold, DecidedOnContent
  <2>3. FileShapes' /\ StagesHold'
    BY <2>1 DEF FileShapes, StagesHold
  <2>4. ContentIsRead'
    BY <2>1, <2>2 DEF ContentIsRead, NoContent
  <2> QED
    BY <2>1, <2>2, <2>3, <2>4 DEF DecidedOnContent
<1>2. CASE Rewritten \/ UNCHANGED fileVars
  <2>1. /\ disk' \in Holdings
        /\ UNCHANGED <<features, source, media_type, limits, stage, read, size_told, content, verdict, smaller, block>>
    BY <1>2 DEF Rewritten, fileVars, FileShapes
  <2>2. FileShapes' /\ StagesHold'
    BY <2>1 DEF FileShapes, StagesHold
  <2>3. ContentIsRead'
    BY <2>1 DEF ContentIsRead, DetectMediaType, Hint, Mismatch, ParseContent, NoContent
  <2>4. DecidedOnContent'
    BY <2>1 DEF DecidedOnContent, Violations, FormatContent
  <2> QED
    BY <2>2, <2>3, <2>4
<1>3. CASE Resolve
  <2>1. stage = "new" /\ content = NoContent /\ ~smaller /\ source.is = "local"
    BY <1>3 DEF Resolve, StagesHold
  <2>2. CASE source.leads # "inside"
    BY <1>3, <2>1, <2>2, RefusedKeeps DEF Resolve
  <2>3. CASE source.leads = "inside"
    <3>1. /\ stage' = "resolved"
          /\ UNCHANGED <<features, disk, source, media_type, limits, read, size_told, content, verdict, smaller, block>>
      BY <1>3, <2>3 DEF Resolve
    <3>2. block = NoBlock /\ verdict # "ok" /\ block.form # "inline"
      BY <2>1 DEF StagesHold, DecidedOnContent
    <3>3. FileShapes' /\ StagesHold'
      BY <2>1, <2>3, <3>1, <3>2 DEF FileShapes, StagesHold
    <3>4. ContentIsRead' /\ DecidedOnContent'
      BY <2>1, <3>1, <3>2 DEF ContentIsRead, NoContent, DecidedOnContent
    <3> QED
      BY <3>3, <3>4
  <2> QED
    BY <2>2, <2>3
<1>4. CASE ReadLocal
  <2>1. /\ stage = "resolved" /\ content = NoContent /\ source.leads = "inside" /\ block = NoBlock /\ ~smaller
        /\ disk \in Holdings
    BY <1>4 DEF ReadLocal, StagesHold, FileShapes
  <2>2. CASE Mismatch(disk)
    BY <1>4, <2>1, <2>2, RefusedKeeps DEF ReadLocal
  <2>3. CASE ~Mismatch(disk)
    <3>1. /\ Parsed(disk)
          /\ UNCHANGED <<features, disk, source, media_type, limits, stage, size_told, verdict, smaller, block>>
      BY <1>4, <2>3 DEF ReadLocal
    <3> QED
      BY <2>1, <2>3, <3>1, LoadedIsRead
  <2> QED
    BY <2>2, <2>3
<1>5. CASE StatLocal
  <2>1. /\ stage = "resolved" /\ content # NoContent /\ stage' = "loaded" /\ ~smaller
        /\ UNCHANGED <<features, disk, source, media_type, limits, read, content, verdict, smaller, block>>
    BY <1>5 DEF StatLocal, StagesHold
  <2>2. FileShapes' /\ StagesHold'
    BY <2>1 DEF FileShapes, StagesHold
  <2>3. ContentIsRead'
    BY <2>1 DEF ContentIsRead, DetectMediaType, Hint, Mismatch, ParseContent, NoContent
  <2>4. DecidedOnContent'
    BY <2>1 DEF DecidedOnContent
  <2> QED
    BY <2>2, <2>3, <2>4
<1>6. CASE LoadBytes
  <2>1. /\ stage = "new" /\ content = NoContent /\ source.leads = "inside" /\ ~smaller /\ source.data \in Holdings
    BY <1>6 DEF LoadBytes, StagesHold, FileShapes
  <2>2. CASE Mismatch(source.data)
    BY <1>6, <2>1, <2>2, RefusedKeeps DEF LoadBytes
  <2>3. CASE ~Mismatch(source.data)
    <3>1. /\ Parsed(source.data) /\ stage' = "loaded"
          /\ UNCHANGED <<features, disk, source, media_type, limits, verdict, smaller, block>>
      BY <1>6, <2>3 DEF LoadBytes
    <3> QED
      BY <2>1, <2>3, <3>1, LoadedIsRead
  <2> QED
    BY <2>2, <2>3
<1>7. CASE LoadUrl
  <2>1. /\ stage = "new" /\ content = NoContent /\ source.leads = "inside" /\ ~smaller /\ disk \in Holdings
    BY <1>7 DEF LoadUrl, StagesHold, FileShapes
  <2>2. CASE Refuse
    BY <2>1, <2>2, RefusedKeeps
  <2>3. CASE ~Refuse
    <3>1. /\ Parsed(disk) /\ stage' = "loaded" /\ ~Mismatch(disk)
          /\ UNCHANGED <<features, disk, source, media_type, limits, verdict, smaller, block>>
      BY <1>7, <2>3 DEF LoadUrl
    <3> QED
      BY <2>1, <3>1, LoadedIsRead
  <2> QED
    BY <2>2, <2>3
<1>8. CASE Check
  <2>1. /\ stage = "loaded" /\ block = NoBlock /\ verdict' = IF Violations = {} \/ limits.mode = "warn" THEN "ok" ELSE "violated"
        /\ UNCHANGED <<features, disk, source, media_type, limits, stage, read, size_told, content, smaller, block>>
    BY <1>8 DEF Check
  <2>2. FileShapes' /\ StagesHold'
    BY <2>1 DEF FileShapes, StagesHold
  <2>3. ContentIsRead'
    BY <2>1 DEF ContentIsRead, DetectMediaType, Hint, Mismatch, ParseContent, NoContent
  <2>4. Violations' = Violations
    BY <2>1 DEF Violations
  <2>5. DecidedOnContent'
    BY <2>1, <2>4 DEF DecidedOnContent, NoBlock
  <2> QED
    BY <2>2, <2>3, <2>5
<1>9. CASE Downgrade
  <2> DEFINE written == IF content.type \in {"jpeg", "webp"} THEN content.type ELSE "png"
  <2>1. /\ stage = "loaded" /\ content.type \in Image /\ block = NoBlock
        /\ content' = [content EXCEPT !.bytes = [magic |-> written, utf8 |-> FALSE, mib |-> 1, width |-> TargetWidth],
                                      !.width = TargetWidth]
        /\ smaller' = TRUE /\ verdict' = "none"
        /\ UNCHANGED <<features, disk, source, media_type, limits, stage, read, size_told, block>>
    BY <1>9 DEF Downgrade
  <2>2. TargetWidth \in Nat
    BY FileAssumption
  <2>3. /\ content' = [type |-> content.type, bytes |-> content'.bytes, width |-> content'.width]
        /\ content'.type = content.type /\ content'.width = TargetWidth /\ content'.bytes.magic = written
        /\ content'.bytes = [magic |-> written, utf8 |-> FALSE, mib |-> 1, width |-> TargetWidth]
    BY <2>1 DEF FileShapes
  <2>4. content'.bytes \in Bytes
    BY <2>2, <2>3 DEF Bytes
  <2>5. content.type # Unset
    BY <2>1 DEF Image, Unset
  <2>6. content' # NoContent
    BY <2>3, <2>5 DEF NoContent
  <2>7. FileShapes'
    BY <2>1, <2>2, <2>3, <2>4 DEF FileShapes
  <2>8. StagesHold'
    BY <2>1, <2>6 DEF StagesHold
  <2>9. ContentIsRead'
    BY <2>1, <2>3, <2>6 DEF ContentIsRead, StagesHold, DetectMediaType, Hint, Mismatch, NoContent
  <2>10. DecidedOnContent'
    BY <2>1 DEF DecidedOnContent, NoBlock
  <2> QED
    BY <2>7, <2>8, <2>9, <2>10
<1>10. ASSUME NEW provider \in Providers, FormatLoaded(provider) \/ FormatReference(provider) PROVE FileInv'
  <2>1. UNCHANGED <<features, disk, source, media_type, limits, stage, read, size_told, content, verdict, smaller>>
    BY <1>10 DEF FormatLoaded, FormatReference
  <2>2. \/ stage = "loaded" /\ block' = FormatContent(provider)
        \/ /\ stage = "new" /\ source.is = "url" /\ block'.form = "reference"
    BY <1>10 DEF FormatLoaded, FormatReference
  <2>3. FileShapes' /\ StagesHold'
    BY <2>1, <2>2 DEF FileShapes, StagesHold
  <2>4. ContentIsRead'
    BY <2>1 DEF ContentIsRead, DetectMediaType, Hint, Mismatch, ParseContent, NoContent
  <2>5. Violations' = Violations /\ FormatContent(provider)' = FormatContent(provider)
    BY <2>1 DEF Violations, FormatContent
  <2>6. DecidedOnContent'
    BY <2>1, <2>2, <2>5 DEF DecidedOnContent
  <2> QED
    BY <2>3, <2>4, <2>6
<1> QED
  BY <1>1, <1>2, <1>3, <1>4, <1>5, <1>6, <1>7, <1>8, <1>9, <1>10 DEF FileNext

\* Azure calls any other audio wav; what else is labelled has the type's own name.
LEMMA LabelIsType ==
  ASSUME NEW provider, NEW type
  PROVE  Label(provider, type) = "wav" \/ (type = "binary" /\ Label(provider, type) = "none") \/ Label(provider, type) = type
  BY DEF Label, MimeType

\* An inline block tells what was read: its type, its bytes, from inside.
LEMMA BlocksAreTrue == FileInv => BlockIsTrue
<1> SUFFICES ASSUME FileInv, block.form = "inline"
             PROVE  /\ block.carries.magic # "none" /\ ~Relabelled => block.mime = block.carries.magic
                    /\ smaller \/ block.carries \in {read, [read EXCEPT !.utf8 = TRUE]}
                    /\ source.leads = "inside" /\ media_type \in {Unset, content.type}
  BY DEF BlockIsTrue
<1>1. PICK provider \in Providers : block = FormatContent(provider)
  BY DEF FileInv, DecidedOnContent
<1>2. stage = "loaded" /\ content # NoContent
  BY DEF FileInv, DecidedOnContent, StagesHold
<1>3. /\ source.leads = "inside" /\ read \in Holdings /\ content.type = DetectMediaType(read) /\ ~Mismatch(read)
      /\ ~smaller => content = ParseContent(read)
      /\ smaller => content.type \in Image /\ content.bytes.magic = IF content.type \in {"jpeg", "webp"} THEN content.type ELSE "png"
  BY <1>2 DEF FileInv, ContentIsRead
<1>4. read \in Bytes
  BY <1>3, FileAssumption
<1>5. media_type \in {Unset, content.type}
  BY <1>3 DEF Mismatch
<1>6. block.mime = Label(provider, content.type) /\ block.carries = content.bytes
  BY <1>1 DEF FormatContent
<1>7. ~smaller => content.bytes \in {read, [read EXCEPT !.utf8 = TRUE]} /\ content.bytes.magic = read.magic
  BY <1>3, <1>4, ParsedShape
<1>8. ASSUME ~Relabelled, content.bytes.magic # "none" PROVE content.type = content.bytes.magic /\ content.type # "binary"
  <2>1. CASE smaller
    BY <1>3, <1>8, <2>1 DEF Relabelled
  <2>2. CASE ~smaller
    <3>1. content.type = read.magic
      BY <1>3, <1>4, <1>7, <1>8, <2>2, DetectedType
    <3> QED
      BY <1>4, <1>7, <2>2, <3>1 DEF Bytes
  <2> QED
    BY <2>1, <2>2
<1>9. ~Relabelled => Label(provider, content.type) # "wav"
  BY <1>6 DEF Relabelled
<1> QED
  BY <1>3, <1>5, <1>6, <1>7, <1>8, <1>9, LabelIsType

\* Content that passed the check holds the limits it was checked against.
LEMMA LimitsAreHeld == FileInv => LimitsHold
<1> SUFFICES ASSUME FileInv PROVE LimitsHold
  OBVIOUS
<1>1. {limits.mib, limits.width, content.bytes.mib, content.width, TargetWidth} \subseteq Nat
  BY FileAssumption DEF FileInv, FileShapes, Bytes
<1>2. smaller => content.width <= TargetWidth
  <2>1. smaller => stage = "loaded" /\ content # NoContent
    BY DEF FileInv, StagesHold
  <2> QED
    BY <1>1, <2>1 DEF FileInv, ContentIsRead
<1>3. ASSUME verdict = "ok", limits.mode # "warn"
      PROVE  /\ limits.mib = 0 \/ content.bytes.mib <= limits.mib
             /\ limits.types = {} \/ content.type \in limits.types
             /\ limits.width = 0 \/ content.width <= limits.width
  <2>1. stage = "loaded" /\ content # NoContent /\ Violations = {}
    BY <1>3 DEF FileInv, DecidedOnContent, StagesHold
  <2>2. /\ ~(limits.mib # 0 /\ content.bytes.mib > limits.mib)
        /\ ~(limits.types # {} /\ content.type \notin limits.types)
        /\ ~(limits.width # 0 /\ content.type \in Image /\ content.width > limits.width)
    <3>1. /\ "size" \notin Violations /\ "type" \notin Violations /\ "width" \notin Violations
      BY <2>1
    <3> QED
      BY <3>1 DEF Violations
  <2>3. content.type \notin Image => content.width = 0
    <3>1. /\ read \in Holdings
          /\ ~smaller => content = ParseContent(read)
          /\ smaller => content.type \in Image
      BY <2>1 DEF FileInv, ContentIsRead
    <3>2. read \in Bytes
      BY <3>1, FileAssumption
    <3> QED
      BY <3>1, <3>2, ParsedShape
  <2> QED
    BY <1>1, <2>2, <2>3
<1> QED
  BY <1>2, <1>3 DEF LimitsHold

\* Whatever a file holds and whenever it is rewritten, a block that carries it inline is labelled
\* with what its bytes are, comes from inside the allowed directory and does not contradict the
\* handle, and what the validator passed is within the limits.
THEOREM FilesAreKept == FileSpec => []FilesKept
<1>1. FileInit => FileInv
  BY FileInvInit
<1>2. FileInv /\ [FileNext]_fileVars => FileInv'
  BY FileInvStep
<1>3. FileInv => FilesKept
  BY BlocksAreTrue, LimitsAreHeld DEF FilesKept
<1> QED
  BY <1>1, <1>2, <1>3, PTL DEF FileSpec

-----------------------------------------------------------------------------
(* The memory of turns.                                                      *)

\* The names that summaries are given, and the calls they are of, message by message.
SummaryState == [names : Seq(STRING), out : Seq(STRING)]
AddMessage(r, m) ==
  IF m.role = "assistant" THEN [r EXCEPT !.names = @ \o m.calls]
  ELSE IF r.names = <<>> THEN [r EXCEPT !.out = Append(@, m.tool)]
  ELSE [names |-> Tail(r.names), out |-> Append(r.out, Head(r.names))]

\* It stays such a state.
LEMMA AddMessageType ==
  \A r \in SummaryState, m \in TurnMessages : AddMessage(r, m) \in SummaryState
<1> SUFFICES ASSUME NEW r \in SummaryState, NEW m \in TurnMessages PROVE AddMessage(r, m) \in SummaryState
  OBVIOUS
<1>1. r.names \in Seq(STRING) /\ r.out \in Seq(STRING) /\ r = [names |-> r.names, out |-> r.out]
  BY DEF SummaryState
<1>2. CASE m.role = "assistant"
  <2>1. m.calls \in Seq(STRING)
    BY <1>2 DEF TurnMessages
  <2>2. r.names \o m.calls \in Seq(STRING)
    BY <1>1, <2>1, ConcatProperties
  <2> QED
    BY <1>1, <1>2, <2>2 DEF AddMessage, SummaryState
<1>3. CASE m.role # "assistant" /\ r.names = <<>>
  <2>1. m.tool \in STRING
    BY <1>3 DEF TurnMessages
  <2>2. Append(r.out, m.tool) \in Seq(STRING)
    BY <1>1, <2>1, AppendProperties
  <2> QED
    BY <1>1, <1>3, <2>2 DEF AddMessage, SummaryState
<1>4. CASE m.role # "assistant" /\ r.names # <<>>
  <2>1. Head(r.names) \in STRING /\ Tail(r.names) \in Seq(STRING)
    BY <1>1, <1>4, HeadTailProperties
  <2>2. Append(r.out, Head(r.names)) \in Seq(STRING)
    BY <1>1, <2>1, AppendProperties
  <2> QED
    BY <1>1, <1>4, <2>1, <2>2 DEF AddMessage, SummaryState
<1> QED
  BY <1>2, <1>3, <1>4

NoSummaries == [names |-> <<>>, out |-> <<>>]

SummaryWalks(turn) ==
  {w \in [0..Len(turn) -> SummaryState] :
      w[0] = NoSummaries /\ \A k \in 1..Len(turn) : w[k] = AddMessage(w[k - 1], turn[k])}

\* extract_tool_summaries as a walk over the messages.
LEMMA SummariesAreWalk ==
  ASSUME NEW turn \in Seq(TurnMessages)
  PROVE  \E w \in SummaryWalks(turn) : ExtractToolSummaries(turn) = w[Len(turn)].out
<1> DEFINE len == Len(turn)
           X == SummaryState
           Folded(g) == [T \in SUBSET (1..len) |-> IF T = {} THEN NoSummaries ELSE AddMessage(g[T \ {Max(T)}], turn[Max(T)])]
<1>1. len \in Nat /\ DOMAIN turn = 1..len /\ \A k \in 1..len : turn[k] \in TurnMessages
  BY LenProperties
<1>0. NoSummaries \in X
  BY EmptySeq DEF NoSummaries, SummaryState
<1>2. PICK step \in [(1..len) \X X -> X] : \A k \in 1..len, s \in X : step[<<k, s>>] = AddMessage(s, turn[k])
  <2> DEFINE Step == [p \in (1..len) \X X |-> AddMessage(p[2], turn[p[1]])]
  <2>1. \A p \in (1..len) \X X : AddMessage(p[2], turn[p[1]]) \in X
    <3> HIDE DEF len
    <3> QED
      BY <1>1, AddMessageType
  <2>2. Step \in [(1..len) \X X -> X]
    BY <2>1
  <2> QED
    BY <2>2
<1> HIDE DEF len, X
<1>5. \E g : g = Folded(g)
  <2>1. PICK g \in FoldsOf(X, NoSummaries, len, step) : TRUE
    BY <1>0, <1>1, <1>2, FoldExists
  <2>2. g \in [SUBSET (1..len) -> X] /\ \A T \in SUBSET (1..len) :
            g[T] = IF T = {} THEN NoSummaries ELSE step[<<Max(T), g[T \ {Max(T)}]>>]
    BY <2>1 DEF FoldsOf
  <2>3. ASSUME NEW T \in SUBSET (1..len)
        PROVE  g[T] = IF T = {} THEN NoSummaries ELSE AddMessage(g[T \ {Max(T)}], turn[Max(T)])
    <3>1. CASE T = {}
      BY <2>2, <3>1
    <3>2. CASE T # {}
      <4>1. Max(T) \in 1..len /\ T \ {Max(T)} \in SUBSET (1..len)
        BY <3>2, <1>1, MaxOfSome
      <4>2. g[T \ {Max(T)}] \in X
        BY <4>1, <2>2
      <4>3. step[<<Max(T), g[T \ {Max(T)}]>>] = AddMessage(g[T \ {Max(T)}], turn[Max(T)])
        BY <4>1, <4>2, <1>2
      <4> QED
        BY <4>3, <3>2, <2>2
    <3> QED
      BY <3>1, <3>2
  <2> QED
    BY <2>2, <2>3
<1> DEFINE h == CHOOSE g : g = Folded(g)
<1>6. h = Folded(h)
  <2> HIDE DEF Folded
  <2> QED
    BY <1>5
<1>7. ExtractToolSummaries(turn) = h[1..len].out
  BY <1>1 DEF ExtractToolSummaries, FoldLeft, MapThenFoldSet, AddMessage, NoSummaries
<1> HIDE DEF h
<1>8. h[{}] = NoSummaries
  BY <1>6
<1>9. ASSUME NEW T \in SUBSET (1..len), T # {}, h[T \ {Max(T)}] \in X
      PROVE  h[T] = step[<<Max(T), h[T \ {Max(T)}]>>]
  <2>1. h[T] = AddMessage(h[T \ {Max(T)}], turn[Max(T)])
    BY <1>6, <1>9
  <2>2. Max(T) \in 1..len
    BY <1>1, <1>9, MaxOfSome
  <2> QED
    BY <2>1, <2>2, <1>9, <1>2
<1>10. StepsOf(X, NoSummaries, len, step, h[1..len]) # {}
  <2>1. FoldsTo(X, NoSummaries, len, step, h)
    BY <1>8, <1>9 DEF FoldsTo
  <2> QED
    BY <1>0, <1>1, <1>2, <2>1, FoldSteps
<1>11. PICK w \in StepsOf(X, NoSummaries, len, step, h[1..len]) : TRUE
  BY <1>10
<1>12. /\ w \in [0..len -> X] /\ w[0] = NoSummaries /\ w[len] = h[1..len]
       /\ \A k \in 1..len : w[k] = step[<<k, w[k - 1]>>]
  BY <1>11 DEF StepsOf
<1>13. ASSUME NEW k \in 1..len PROVE w[k] = AddMessage(w[k - 1], turn[k])
  <2>1. w[k - 1] \in X
    BY <1>1, <1>12
  <2> QED
    BY <2>1, <1>12, <1>2
<1>14. w \in SummaryWalks(turn)
  BY <1>12, <1>13 DEF SummaryWalks, len, X
<1> QED
  BY <1>7, <1>12, <1>14 DEF len

\* What a message adds to the calls and to the results.
CallsIn == [m \in TurnMessages |-> IF m.role = "assistant" THEN m.calls ELSE <<>>]
ResultsIn == [m \in TurnMessages |-> IF m.role = "result" THEN <<m.tool>> ELSE <<>>]

\* Calls and results are made message by message.
LEMMA CallsAndResults ==
  ASSUME NEW turn \in Seq(TurnMessages)
  PROVE  /\ CallsIn \in Makes(TurnMessages, STRING) /\ ResultsIn \in Makes(TurnMessages, STRING)
         /\ CallsOf(turn) = FlatMap(CallsIn, turn) /\ ResultsOf(turn) = FlatMap(ResultsIn, turn)
<1>1. <<>> \in Seq(STRING)
  BY EmptySeq
<1>2. \A m \in TurnMessages : (m.role = "assistant" /\ m.calls \in Seq(STRING)) \/ (m.role = "result" /\ m.tool \in STRING)
  BY DEF TurnMessages
<1>3. \A x \in STRING : <<x>> \in Seq(STRING)
  BY SingleSeq
<1>4. CallsIn \in Makes(TurnMessages, STRING) /\ ResultsIn \in Makes(TurnMessages, STRING)
  BY <1>1, <1>2, <1>3 DEF Makes, CallsIn, ResultsIn
<1>5. \A n \in DOMAIN turn : turn[n] \in TurnMessages
  BY LenProperties
<1>6. [n \in DOMAIN turn |-> CallsIn[turn[n]]] = [n \in DOMAIN turn |-> IF turn[n].role = "assistant" THEN turn[n].calls ELSE <<>>]
  BY <1>5 DEF CallsIn
<1>7. [n \in DOMAIN turn |-> ResultsIn[turn[n]]] = [n \in DOMAIN turn |-> IF turn[n].role = "result" THEN <<turn[n].tool>> ELSE <<>>]
  BY <1>5 DEF ResultsIn
<1> QED
  BY <1>4, <1>6, <1>7 DEF FlatMap, CallsOf, ResultsOf

\* A turn's results in the order of its calls: each summary has its tool's name.
LEMMA SummariesInOrder ==
  ASSUME NEW turn \in Turns, InOrder(turn)
  PROVE  ExtractToolSummaries(turn) = ResultsOf(turn)
<1> DEFINE Calls(k) == CallsOf(SubSeq(turn, 1, k))
           Results(k) == ResultsOf(SubSeq(turn, 1, k))
<1>1. /\ turn \in Seq(TurnMessages) /\ Len(turn) \in Nat /\ DOMAIN turn = 1..Len(turn)
      /\ \A k \in 1..Len(turn) : turn[k] \in TurnMessages
      /\ \A k \in 1..Len(turn) : Len(Results(k)) <= Len(Calls(k))
  BY MemoryAssumption, LenProperties
<1>2. PICK w \in SummaryWalks(turn) : ExtractToolSummaries(turn) = w[Len(turn)].out
  BY <1>1, SummariesAreWalk
<1>3. /\ w \in [0..Len(turn) -> SummaryState] /\ w[0] = NoSummaries
      /\ \A k \in 1..Len(turn) : w[k] = AddMessage(w[k - 1], turn[k])
  BY <1>2 DEF SummaryWalks
<1>4. ASSUME NEW k \in 0..Len(turn)
      PROVE  SubSeq(turn, 1, k) \in Seq(TurnMessages) /\ Calls(k) \in Seq(STRING) /\ Results(k) \in Seq(STRING)
  <2>1. SubSeq(turn, 1, k) \in Seq(TurnMessages)
    <3>1. \A i \in 1..k : turn[i] \in TurnMessages
      BY <1>1
    <3> QED
      BY <1>1, <3>1, SubSeqProperties
  <2> DEFINE p == SubSeq(turn, 1, k)
  <2> HIDE DEF p
  <2>2. p \in Seq(TurnMessages)
    BY <2>1 DEF p
  <2>3. /\ CallsIn \in Makes(TurnMessages, STRING) /\ ResultsIn \in Makes(TurnMessages, STRING)
        /\ CallsOf(p) = FlatMap(CallsIn, p) /\ ResultsOf(p) = FlatMap(ResultsIn, p)
    BY <2>2, CallsAndResults
  <2>4. FlatMap(CallsIn, p) \in Seq(STRING) /\ FlatMap(ResultsIn, p) \in Seq(STRING)
    BY <2>2, <2>3, FlatMapIs
  <2> QED
    BY <2>2, <2>3, <2>4 DEF p
<1>5. ASSUME NEW k \in 1..Len(turn)
      PROVE  /\ Calls(k) = Calls(k - 1) \o CallsIn[turn[k]]
             /\ Results(k) = Results(k - 1) \o ResultsIn[turn[k]]
  <2> DEFINE p == SubSeq(turn, 1, k - 1)
             q == SubSeq(turn, 1, k)
  <2>1. k - 1 \in 0..Len(turn) /\ k \in 0..Len(turn) /\ turn[k] \in TurnMessages
    BY <1>1
  <2>2. p \in Seq(TurnMessages) /\ q \in Seq(TurnMessages)
    BY <1>4, <2>1
  <2>3. q = Append(p, turn[k])
    <3>1. 1 \in 1..Len(turn) /\ k \in 1..Len(turn)
      BY <1>1
    <3>2. q = p \o <<turn[k]>>
      BY <1>1, <3>1, SubSeqRecursiveSecond
    <3>3. Append(p, turn[k]) = p \o <<turn[k]>>
      <4> HIDE DEF p
      <4> QED
        BY <2>1, <2>2, AppendIsConcat
    <3> QED
      BY <3>2, <3>3
  <2> HIDE DEF p, q
  <2>4. CallsIn \in Makes(TurnMessages, STRING) /\ ResultsIn \in Makes(TurnMessages, STRING)
    BY <2>2, CallsAndResults
  <2>5. FlatMap(CallsIn, q) = FlatMap(CallsIn, p) \o CallsIn[turn[k]]
    BY <2>1, <2>2, <2>3, <2>4, FlatMapAppend
  <2>6. FlatMap(ResultsIn, q) = FlatMap(ResultsIn, p) \o ResultsIn[turn[k]]
    BY <2>1, <2>2, <2>3, <2>4, FlatMapAppend
  <2>7. /\ CallsOf(p) = FlatMap(CallsIn, p) /\ ResultsOf(p) = FlatMap(ResultsIn, p)
        /\ CallsOf(q) = FlatMap(CallsIn, q) /\ ResultsOf(q) = FlatMap(ResultsIn, q)
    BY <2>2, CallsAndResults
  <2> QED
    BY <2>5, <2>6, <2>7 DEF p, q
<1> DEFINE Matches(k) == Calls(k) = w[k].out \o w[k].names /\ Len(w[k].out) = Len(Results(k))
           N == {k \in Nat : k <= Len(turn) => Matches(k)}
<1>6. 0 \in N
  <2>1. SubSeq(turn, 1, 0) = <<>>
    BY SubSeqEmpty
  <2>2. <<>> \in Seq(TurnMessages) /\ <<>> \in Seq(STRING)
    BY EmptySeq
  <2>3. CallsOf(<<>>) = <<>> /\ ResultsOf(<<>>) = <<>>
    BY <2>2, CallsAndResults, FlatMapIs
  <2>4. w[0].out = <<>> /\ w[0].names = <<>>
    BY <1>3 DEF NoSummaries
  <2>5. <<>> \o <<>> = <<>>
    BY <2>2, ConcatEmptySeq
  <2> QED
    BY <2>1, <2>3, <2>4, <2>5
<1>7. ASSUME NEW k \in Nat, k \in N PROVE k + 1 \in N
  <2>1. SUFFICES ASSUME k + 1 <= Len(turn)
                 PROVE  Matches(k + 1)
    <3> HIDE DEF Matches
    <3> QED
      OBVIOUS
  <2> DEFINE r == w[k]
             s == w[k + 1]
             m == turn[k + 1]
             C == Calls(k)
             D == Calls(k + 1)
             R == Results(k)
             Q == Results(k + 1)
  <2>2. k + 1 \in 1..Len(turn) /\ (k + 1) - 1 = k /\ k \in 0..Len(turn) /\ k <= Len(turn) /\ k + 1 \in 0..Len(turn)
    BY <1>1, <2>1
  <2>3. /\ C = r.out \o r.names /\ Len(r.out) = Len(R)
        /\ D = C \o CallsIn[m] /\ Q = R \o ResultsIn[m]
        /\ Len(Q) <= Len(D) /\ s = AddMessage(r, m) /\ m \in TurnMessages
        /\ r \in SummaryState /\ C \in Seq(STRING) /\ R \in Seq(STRING)
    <3>1. C = r.out \o r.names /\ Len(r.out) = Len(R)
      <4>1. Matches(k)
        <5> HIDE DEF Matches
        <5> QED
          BY <1>7, <2>2
      <4> HIDE DEF Calls, Results
      <4> QED
        BY <4>1
    <3>2. D = C \o CallsIn[m] /\ Q = R \o ResultsIn[m]
      <4> HIDE DEF Calls, Results
      <4> QED
        BY <1>5, <2>2
    <3>3. Len(Q) <= Len(D) /\ m \in TurnMessages
      <4> HIDE DEF Calls, Results
      <4> QED
        BY <1>1, <2>2
    <3>4. s = AddMessage(r, m) /\ r \in SummaryState
      BY <1>3, <2>2
    <3>5. C \in Seq(STRING) /\ R \in Seq(STRING)
      BY <1>4, <2>2
    <3> HIDE DEF C, D, R, Q, r, s, m
    <3> QED
      BY <3>1, <3>2, <3>3, <3>4, <3>5
  <2> HIDE DEF C, D, R, Q, r, s, m
  <2>4. r.out \in Seq(STRING) /\ r.names \in Seq(STRING) /\ r = [names |-> r.names, out |-> r.out]
    BY <2>3 DEF SummaryState
  <2>5. CASE m.role = "assistant"
    <3>1. m.calls \in Seq(STRING) /\ CallsIn[m] = m.calls /\ ResultsIn[m] = <<>>
      BY <2>3, <2>5 DEF TurnMessages, CallsIn, ResultsIn
    <3>2. s.names = r.names \o m.calls /\ s.out = r.out
      BY <2>3, <2>4, <2>5 DEF AddMessage
    <3>3. (r.out \o r.names) \o m.calls = r.out \o (r.names \o m.calls)
      <4> DEFINE a == r.out
                 b == r.names
                 c == m.calls
      <4>1. a \in Seq(STRING) /\ b \in Seq(STRING) /\ c \in Seq(STRING)
        BY <2>4, <3>1
      <4> HIDE DEF a, b, c
      <4>2. (a \o b) \o c = a \o (b \o c)
        BY <4>1, ConcatAssociative
      <4> QED
        BY <4>2 DEF a, b, c
    <3>4. R \o <<>> = R
      BY <2>3, ConcatEmptySeq
    <3>5. D = s.out \o s.names /\ Len(s.out) = Len(Q)
      BY <2>3, <3>1, <3>2, <3>3, <3>4
    <3> QED
      BY <3>5 DEF C, D, R, Q, r, s, m
  <2>6. CASE m.role # "assistant"
    <3>1. m.tool \in STRING /\ CallsIn[m] = <<>> /\ ResultsIn[m] = <<m.tool>>
      BY <2>3, <2>6 DEF TurnMessages, CallsIn, ResultsIn
    <3>2. D = C /\ Len(Q) = Len(R) + 1 /\ Len(R) \in Nat
      <4>1. C \o <<>> = C /\ Len(R) \in Nat
        BY <2>3, ConcatEmptySeq, LenProperties
      <4>2. <<m.tool>> \in Seq(STRING) /\ Len(<<m.tool>>) = 1
        BY <3>1, SingleSeq
      <4>3. Len(R \o <<m.tool>>) = Len(R) + Len(<<m.tool>>)
        BY <2>3, <4>2, ConcatProperties
      <4> QED
        BY <2>3, <3>1, <4>1, <4>2, <4>3
    <3>3. r.names # <<>>
      <4>1. Len(C) = Len(r.out) + Len(r.names)
        <5> DEFINE a == r.out
                   b == r.names
        <5>1. a \in Seq(STRING) /\ b \in Seq(STRING) /\ C = a \o b
          BY <2>3, <2>4
        <5> HIDE DEF a, b
        <5>2. Len(a \o b) = Len(a) + Len(b)
          BY <5>1, ConcatProperties
        <5> QED
          BY <5>1, <5>2 DEF a, b
      <4>2. Len(<<>>) = 0
        BY EmptySeq
      <4> QED
        BY <2>3, <3>2, <4>1, <4>2
    <3>4. s.names = Tail(r.names) /\ s.out = Append(r.out, Head(r.names))
      BY <2>3, <2>6, <3>3 DEF AddMessage
    <3> DEFINE e == Head(r.names)
               t == Tail(r.names)
    <3>5. e \in STRING /\ t \in Seq(STRING)
      BY <2>4, <3>3, HeadTailProperties
    <3>6. r.names = <<e>> \o t
      BY <2>4, <3>3
    <3> HIDE DEF e, t
    <3>7. <<e>> \in Seq(STRING)
      BY <3>5, SingleSeq
    <3>8. Append(r.out, e) = r.out \o <<e>> /\ Len(Append(r.out, e)) = Len(r.out) + 1
      BY <2>4, <3>5, AppendIsConcat, AppendProperties
    <3>9. r.out \o (<<e>> \o t) = (r.out \o <<e>>) \o t
      <4> DEFINE a == r.out
                 h == <<e>>
      <4>1. a \in Seq(STRING) /\ h \in Seq(STRING)
        BY <2>4, <3>7
      <4> HIDE DEF a, h
      <4>2. a \o (h \o t) = (a \o h) \o t
        BY <3>5, <4>1, ConcatAssociative
      <4> QED
        BY <4>2 DEF a, h
    <3>10. D = s.out \o s.names /\ Len(s.out) = Len(Q)
      BY <2>3, <3>2, <3>4, <3>6, <3>8, <3>9 DEF e, t
    <3> QED
      BY <3>10 DEF C, D, R, Q, r, s, m
  <2> QED
    BY <2>5, <2>6
<1>8. Calls(Len(turn)) = w[Len(turn)].out \o w[Len(turn)].names /\ Len(w[Len(turn)].out) = Len(Results(Len(turn)))
  <2>1. Nat \subseteq N
    <3> HIDE DEF N
    <3> QED
      BY <1>6, <1>7, Induct
  <2>2. Matches(Len(turn))
    <3> HIDE DEF Matches
    <3> QED
      BY <1>1, <2>1
  <2> HIDE DEF Calls, Results
  <2> QED
    BY <2>2
<1>9. SubSeq(turn, 1, Len(turn)) = turn
  BY <1>1, SubSeqFull
<1> DEFINE out == w[Len(turn)].out
           names == w[Len(turn)].names
<1>10. out \in Seq(STRING) /\ names \in Seq(STRING)
  <2>1. w[Len(turn)] \in SummaryState
    BY <1>1, <1>3
  <2> QED
    BY <2>1 DEF SummaryState
<1>11. CallsOf(turn) = out \o names /\ Len(out) = Len(ResultsOf(turn))
  BY <1>8, <1>9
<1> HIDE DEF out, names
<1>12. ResultsOf(turn) \in Seq(STRING)
  BY <1>1, CallsAndResults, FlatMapIs
<1>13. ASSUME NEW i \in 1..Len(out) PROVE out[i] = ResultsOf(turn)[i]
  <2>1. Len(out) \in Nat /\ Len(names) \in Nat /\ DOMAIN ResultsOf(turn) = 1..Len(ResultsOf(turn))
    BY <1>10, <1>12, LenProperties
  <2>2. ResultsOf(turn)[i] = CallsOf(turn)[i]
    BY <1>11, <2>1 DEF InOrder
  <2>3. i \in 1..(Len(out) + Len(names)) /\ i <= Len(out)
    BY <2>1
  <2>4. (out \o names)[i] = out[i]
    BY <1>10, <2>3, ConcatProperties
  <2> QED
    BY <1>11, <2>2, <2>4
<1>14. out = ResultsOf(turn)
  BY <1>10, <1>11, <1>12, <1>13, SeqEqual
<1> QED
  BY <1>2, <1>14 DEF out

\* What a turn leaves in the memory.
Memories == {TurnMetadata(s, turn, index) : s \in Owners, turn \in Turns \cup {<<>>}, index \in Nat}

MemoryInv ==
  /\ alive \subseteq Owners /\ ended \in Nat
  /\ jobs \subseteq Memories /\ held \in Seq(Memories)
  /\ RecallIsOfTenant

\* A memory is of an owner, and its summaries name the tools of its turn.
LEMMA MemoriesAre ==
  ASSUME NEW j \in Memories
  PROVE  j.of \in Owners /\ (InOrder(j.turn) => j.tools = ResultsOf(j.turn))
<1>1. PICK s \in Owners, turn \in Turns \cup {<<>>}, index \in Nat : j = TurnMetadata(s, turn, index)
  BY DEF Memories
<1>2. j.of = s /\ j.turn = turn /\ j.tools = ExtractToolSummaries(turn)
  BY <1>1 DEF TurnMetadata
<1>3. CASE turn \in Turns
  BY <1>1, <1>2, <1>3, SummariesInOrder
<1>4. CASE turn = <<>>
  <2>1. <<>> \in Seq(TurnMessages) /\ Len(<<>>) = 0
    BY EmptySeq
  <2>2. PICK w \in SummaryWalks(<<>>) : ExtractToolSummaries(<<>>) = w[Len(<<>>)].out
    BY <2>1, SummariesAreWalk
  <2>3. ExtractToolSummaries(<<>>) = <<>>
    BY <2>1, <2>2 DEF SummaryWalks, NoSummaries
  <2>4. ResultsOf(<<>>) = <<>>
    BY <2>1, CallsAndResults, FlatMapIs
  <2> QED
    BY <1>1, <1>2, <1>4, <2>3, <2>4
<1> QED
  BY <1>1, <1>3, <1>4

\* A key that begins like a session's is of the same tenant.
LEMMA KeysTellTenants ==
  ASSUME NEW s \in Owners, NEW o \in Owners, IsPrefix(StoreKey(s), StoreKey(o))
  PROVE  o.tenant = s.tenant
<1> DEFINE S == STRING \cup {":"}
<1>1. /\ s.tenant \in S /\ s.id \in Seq(S) /\ o.tenant \in S /\ o.id \in Seq(S)
  <2>1. \A q \in Seq(STRING) : q \in Seq(S)
    BY SeqMonotonic
  <2> QED
    BY <2>1, MemoryAssumption DEF Owners
<1>2. ASSUME NEW t \in S, NEW id \in Seq(S)
      PROVE  /\ <<t, ":">> \o id \in Seq(S) /\ (<<t, ":">> \o id)[1] = t /\ Len(<<t, ":">> \o id) \in Nat
             /\ 1 <= Len(<<t, ":">> \o id)
  <2> DEFINE h == <<t, ":">>
  <2>1. h \in Seq(S) /\ Len(h) = 2 /\ h[1] = t
    <3>1. ":" \in S
      OBVIOUS
    <3>2. \A X : \A x, y \in X : <<x, y>> \in Seq(X) /\ Len(<<x, y>>) = 2 /\ <<x, y>>[1] = x
      OBVIOUS
    <3> QED
      BY <3>1, <3>2
  <2> HIDE DEF h
  <2>2. Len(id) \in Nat
    BY LenProperties
  <2>3. 1 \in 1..(Len(h) + Len(id)) /\ 1 <= Len(h)
    BY <2>1, <2>2
  <2>4. h \o id \in Seq(S) /\ Len(h \o id) = Len(h) + Len(id) /\ (h \o id)[1] = h[1]
    <3> HIDE DEF S
    <3>1. /\ h \o id \in Seq(S) /\ Len(h \o id) = Len(h) + Len(id)
          /\ \A i \in 1..Len(h) + Len(id) : (h \o id)[i] = IF i <= Len(h) THEN h[i] ELSE id[i - Len(h)]
      BY <2>1, ConcatProperties
    <3> QED
      BY <2>3, <3>1
  <2> QED
    BY <2>1, <2>2, <2>4 DEF h
<1> DEFINE a == StoreKey(s)
           b == StoreKey(o)
<1>3. a \in Seq(S) /\ b \in Seq(S) /\ a[1] = s.tenant /\ b[1] = o.tenant /\ Len(a) \in Nat /\ Len(b) \in Nat /\ 1 <= Len(a)
  BY <1>1, <1>2 DEF StoreKey
<1>4. Len(a) <= Len(b) /\ SubSeq(a, 1, Len(a)) = SubSeq(b, 1, Len(a))
  BY DEF IsPrefix
<1> HIDE DEF a, b
<1>5. SubSeq(a, 1, Len(a)) = a
  BY <1>3, SubSeqFull
<1>6. SubSeq(b, 1, Len(a))[1] = b[1]
  <2>1. \A i \in 1..Len(a) : b[i] \in S
    <3>1. \A i \in 1..Len(b) : b[i] \in S
      BY <1>3, LenProperties
    <3> QED
      BY <1>3, <1>4, <3>1
  <2> DEFINE n == Len(a)
  <2>2. n \in Nat /\ 1 <= n
    BY <1>3
  <2> HIDE DEF n
  <2>3. \A i \in 1..(n - 1 + 1) : SubSeq(b, 1, n)[i] = b[1 + i - 1]
    BY <2>1, <2>2, SubSeqProperties DEF n
  <2>4. 1 \in 1..(n - 1 + 1)
    BY <2>2
  <2> QED
    BY <2>3, <2>4 DEF n
<1> QED
  BY <1>3, <1>4, <1>5, <1>6

\* Recall finds memories of the tenant that asks, with either store.
LEMMA RecallOfTenant ==
  ASSUME MemoryInv, NEW s \in alive, NEW query \in {"", "search", "calc"}, RecallFor(s, query)
  PROVE  RecallIsOfTenant'
<1>1. PICK set \in (IF store = "local" THEN RecallLocal(s, query) ELSE RecallEmerald(s, query)) :
         recalled' = [to |-> s, from |-> {held[n] : n \in set}]
  BY DEF RecallFor
<1>2. s \in Owners /\ \A n \in DOMAIN held : held[n].of \in Owners
  <2>1. \A n \in DOMAIN held : held[n] \in Memories
    BY LenProperties DEF MemoryInv
  <2> QED
    BY <2>1, MemoriesAre DEF MemoryInv
<1>3. \A n \in set : n \in DOMAIN held /\ held[n].of.tenant = s.tenant
  <2>1. CASE store = "local"
    <3>1. \A n \in set : n \in DOMAIN held /\ IsPrefix(StoreKey(s), StoreKey(held[n].of))
      BY <1>1, <2>1 DEF RecallLocal
    <3> QED
      BY <1>2, <3>1, KeysTellTenants
  <2>2. CASE store # "local"
    BY <1>1, <2>2 DEF RecallEmerald
  <2> QED
    BY <2>1, <2>2
<1> QED
  BY <1>1, <1>3 DEF RecallIsOfTenant

\* Forgetting a session leaves the others' memories as they are.
LEMMA ForgetLeaves ==
  ASSUME NEW s, held \in Seq(Memories)
  PROVE  /\ ForgetSession(s) \in Seq(Memories)
         /\ \A t : t # s => HeldOf(t, ForgetSession(s)) = HeldOf(t, held)
<1> DEFINE S == Memories
           f == [j \in S |-> IF store = "emerald" \/ j.of # s THEN <<j>> ELSE <<>>]
           b == [n \in DOMAIN held |-> f[held[n]]]
           Of(t) == [j \in S |-> IF j.of = t THEN <<j>> ELSE <<>>]
<1>1. /\ <<>> \in Seq(S) /\ \A j \in S : <<j>> \in Seq(S)
  BY EmptySeq, SingleSeq
<1>2. f \in Makes(S, S) /\ \A t : Of(t) \in Makes(S, S)
  BY <1>1 DEF Makes
<1>3. \A n \in DOMAIN held : held[n] \in S
  BY LenProperties
<1>4. ForgetSession(s) = FlattenSeq(b) /\ ForgetSession(s) = FlatMap(f, held)
  <2>1. b = [n \in DOMAIN held |-> IF store = "emerald" \/ held[n].of # s THEN <<held[n]>> ELSE <<>>]
    BY <1>3
  <2> HIDE DEF b
  <2> QED
    BY <2>1 DEF ForgetSession, FlatMap, b
<1>5. b \in Seq(Seq(S)) /\ FlatMap(f, held) \in Seq(S)
  <2> HIDE DEF S, f
  <2> QED
    BY <1>2, FlatMapParts, FlatMapIs DEF S
<1>6. ASSUME NEW t, NEW q \in Seq(S) PROVE HeldOf(t, q) = FlatMap(Of(t), q)
  <2>1. \A n \in DOMAIN q : q[n] \in S
    BY LenProperties
  <2>2. [n \in DOMAIN q |-> Of(t)[q[n]]] = [n \in DOMAIN q |-> IF q[n].of = t THEN <<q[n]>> ELSE <<>>]
    BY <2>1
  <2> QED
    BY <2>2 DEF HeldOf, FlatMap
<1>7. ASSUME NEW t, t # s PROVE HeldOf(t, ForgetSession(s)) = HeldOf(t, held)
  <2> DEFINE g == Of(t)
  <2>1. g \in Makes(S, S)
    BY <1>2
  <2>2. HeldOf(t, ForgetSession(s)) = FlatMap(g, FlattenSeq(b)) /\ HeldOf(t, held) = FlatMap(g, held)
    <3>1. ForgetSession(s) \in Seq(S)
      BY <1>4, <1>5
    <3>2. HeldOf(t, ForgetSession(s)) = FlatMap(g, ForgetSession(s)) /\ HeldOf(t, held) = FlatMap(g, held)
      BY <1>6, <3>1
    <3> QED
      BY <1>4, <3>2
  <2>3. \A j \in S : FlatMap(g, f[j]) = g[j]
    <3>1. SUFFICES ASSUME NEW j \in S PROVE FlatMap(g, f[j]) = g[j]
      OBVIOUS
    <3>2. CASE store = "emerald" \/ j.of # s
      <4> DEFINE none == <<>>
      <4>1. f[j] = <<j>> /\ <<j>> = Append(<<>>, j)
        BY <3>2
      <4>2. none \in Seq(S) /\ FlatMap(g, none) = <<>> /\ g[j] \in Seq(S)
        <5> HIDE DEF g, S
        <5>1. none \in Seq(S)
          BY EmptySeq
        <5>2. FlatMap(g, <<>>) = <<>>
          BY <2>1, <5>1, FlatMapIs
        <5> QED
          BY <2>1, <5>1, <5>2 DEF Makes
      <4> HIDE DEF none, g, f, S
      <4>3. FlatMap(g, Append(none, j)) = FlatMap(g, none) \o g[j]
        BY <2>1, <4>2, FlatMapAppend DEF S
      <4>4. <<>> \o g[j] = g[j]
        BY <4>2, ConcatEmptySeq
      <4> QED
        BY <4>1, <4>2, <4>3, <4>4 DEF none
    <3>3. CASE store # "emerald" /\ j.of = s
      <4>1. f[j] = <<>> /\ g[j] = <<>>
        BY <1>7, <3>3
      <4> HIDE DEF g, f, S
      <4>2. <<>> \in Seq(S)
        BY EmptySeq
      <4>3. FlatMap(g, <<>>) = <<>>
        BY <2>1, <4>2, FlatMapIs
      <4> QED
        BY <4>1, <4>3
    <3> QED
      BY <3>2, <3>3
  <2>4. FlatMap(g, FlattenSeq(b)) = FlatMap([p \in Seq(S) |-> FlatMap(g, p)], b)
    <3> HIDE DEF g, b, S
    <3> QED
      BY <1>5, <2>1, FlatMapFlatten
  <2>5. FlatMap([p \in Seq(S) |-> FlatMap(g, p)], b) = FlatMap(g, held)
    <3> DEFINE h == [p \in Seq(S) |-> FlatMap(g, p)]
    <3>1. DOMAIN b = DOMAIN held /\ \A n \in DOMAIN held : b[n] = f[held[n]] /\ b[n] \in Seq(S) /\ held[n] \in S
      BY <1>1, <1>3
    <3>2. \A n \in DOMAIN held : h[b[n]] = g[held[n]]
      <4> HIDE DEF g, f, b, S
      <4> QED
        BY <2>3, <3>1
    <3> HIDE DEF g, f, b, S, h
    <3>3. [n \in DOMAIN b |-> h[b[n]]] = [n \in DOMAIN held |-> g[held[n]]]
      BY <3>1, <3>2
    <3>4. FlatMap(h, b) = FlatMap(g, held)
      BY <3>3 DEF FlatMap
    <3> QED
      BY <3>4 DEF h
  <2> QED
    BY <2>2, <2>4, <2>5
<1> QED
  BY <1>4, <1>5, <1>7

\* An empty memory.
LEMMA MemoryInvInit == MemoryInit => MemoryInv
<1>1. <<>> \in Seq(Memories)
  BY EmptySeq
<1> QED
  BY <1>1 DEF MemoryInit, MemoryInv, RecallIsOfTenant

\* Each step of the memory, and what the deletion of a session leaves.
LEMMA MemoryInvStep == MemoryInv /\ [MemoryNext]_memoryVars => MemoryInv' /\ (alive' # alive => OthersStay)
<1> SUFFICES ASSUME MemoryInv, [MemoryNext]_memoryVars PROVE MemoryInv' /\ (alive' # alive => OthersStay)
  OBVIOUS
<1>0. alive \subseteq Owners /\ ended \in Nat /\ jobs \subseteq Memories /\ held \in Seq(Memories) /\ RecallIsOfTenant
  BY DEF MemoryInv
<1>1. CASE UNCHANGED memoryVars
  BY <1>1 DEF memoryVars, MemoryInv, RecallIsOfTenant
<1>2. ASSUME NEW s \in alive, DeleteMemory(s) PROVE MemoryInv' /\ (alive' # alive => OthersStay)
  <2>1. alive' = alive \ {s} /\ held' = ForgetSession(s) /\ UNCHANGED <<jobs, recalled, ended>>
    BY <1>2 DEF DeleteMemory
  <2>2. held' \in Seq(Memories) /\ \A t : t # s => HeldOf(t, held') = HeldOf(t, held)
    BY <1>0, <2>1, ForgetLeaves
  <2> QED
    BY <1>0, <2>1, <2>2 DEF MemoryInv, RecallIsOfTenant, OthersStay
<1>3. ASSUME NEW s \in alive, NEW turn \in Turns \cup {<<>>}, ended' = ended + 1,
             jobs' = jobs \/ jobs' = jobs \cup {TurnMetadata(s, turn, ended')},
             UNCHANGED <<alive, held, recalled>>
      PROVE  MemoryInv' /\ (alive' # alive => OthersStay)
  <2>1. ended' \in Nat
    BY <1>0, <1>3
  <2>2. TurnMetadata(s, turn, ended') \in Memories
    BY <1>0, <1>3, <2>1 DEF Memories
  <2> QED
    BY <1>0, <1>3, <2>1, <2>2 DEF MemoryInv, RecallIsOfTenant
<1>4. ASSUME NEW s \in alive, CompactOver(s) PROVE MemoryInv' /\ (alive' # alive => OthersStay)
  BY <1>3, <1>4 DEF CompactOver
<1>5. ASSUME NEW s \in alive, NEW turn \in Turns, TurnOver(s, turn) PROVE MemoryInv' /\ (alive' # alive => OthersStay)
  BY <1>3, <1>5 DEF TurnOver
<1>6. ASSUME NEW s \in alive, NEW query \in {"", "search", "calc"}, RecallFor(s, query)
      PROVE  MemoryInv' /\ (alive' # alive => OthersStay)
  <2>1. UNCHANGED <<alive, jobs, held, ended>>
    BY <1>6 DEF RecallFor
  <2>2. RecallIsOfTenant'
    BY <1>6, RecallOfTenant
  <2> QED
    BY <1>0, <2>1, <2>2 DEF MemoryInv
<1>7. ASSUME NEW j \in jobs, JobEnds(j) PROVE MemoryInv' /\ (alive' # alive => OthersStay)
  <2>1. /\ jobs' \subseteq jobs /\ UNCHANGED <<alive, recalled, ended>>
        /\ held' = Append(held, j) \/ held' = held
    BY <1>7 DEF JobEnds
  <2>2. Append(held, j) \in Seq(Memories)
    BY <1>0, <1>7, AppendProperties
  <2> QED
    BY <1>0, <2>1, <2>2 DEF MemoryInv, RecallIsOfTenant
<1> QED
  BY <1>1, <1>2, <1>4, <1>5, <1>6, <1>7 DEF MemoryNext

\* The memory, for any turns, tenants and sessions, either store and tasks and deletions in any
\* order: the summaries of a turn whose results come in the order of its calls have their tools'
\* names, what is recalled is of the tenant that asks, and the deletion of a session takes
\* nothing that another one still has.
THEOREM MemoryIsKept == MemorySpec => MemoryKept
<1>1. MemoryInit => MemoryInv
  BY MemoryInvInit
<1>2. MemoryInv /\ [MemoryNext]_memoryVars => MemoryInv' /\ (alive' # alive => OthersStay)
  BY MemoryInvStep
<1>3. MemoryInv => SummariesNameTools /\ RecallIsOfTenant
  <2>1. MemoryInv => \A n \in DOMAIN held : held[n] \in Memories
    BY LenProperties DEF MemoryInv
  <2> QED
    BY <2>1, MemoriesAre DEF MemoryInv, SummariesNameTools
<1> QED
  BY <1>1, <1>2, <1>3, PTL DEF MemorySpec, MemoryKept

-----------------------------------------------------------------------------
(* The terminal client: where an input is.                                 *)

Waiting == [input : Nat, bash : BOOLEAN]
Reported == [is : {"bash", "history", "created", "deleted"}, of : Tabs \cup {""}, input : Nat]
Given == [input : Nat, of : Tabs \cup {""}, taken : BOOLEAN]
Tasks == [op : {"send", "bash", "interrupt", "history", "create", "delete"}, of : Tabs \cup {""}, input : Nat]

InputTypes ==
    /\ entered \in Nat /\ queue \in Seq(Waiting) /\ actions \in Seq(Reported) /\ posted \in Seq(Given)
    /\ IsFiniteSet(errands) /\ errands \subseteq Tasks
    /\ DOMAIN sessions \subseteq Tabs \cup {""}

\* How often an input is in each of its places.
InQueue(n) == Counted(queue, {w \in Waiting : w.input = n})
InActions(n) == Counted(actions, {a \in Reported : a.is = "bash" /\ a.input = n})
InPosted(n) == Counted(posted, {p \in Given : p.input = n})
OnWay(tasks, n) == Cardinality({e \in tasks : e.op \in {"send", "bash"} /\ e.input = n})
Carries(task, n) == task.op \in {"send", "bash"} /\ task.input = n
\* One input more is on its way.
Gains(before, after, m) == \A n \in Nat : OnWay(after, n) = OnWay(before, n) + (IF n = m THEN 1 ELSE 0)
InEditor(n) == IF n \in restored THEN 1 ELSE 0

Held(n) == InQueue(n) + OnWay(errands, n) + InActions(n) + InPosted(n) + InEditor(n)
InputsInv == InputTypes /\ \A n \in Nat : Held(n) = IF n \in 1..entered THEN 1 ELSE 0

\* The counts are numbers.
LEMMA HeldAreNats ==
  ASSUME InputTypes, NEW n \in Nat
  PROVE  InQueue(n) \in Nat /\ OnWay(errands, n) \in Nat /\ InActions(n) \in Nat /\ InPosted(n) \in Nat /\ InEditor(n) \in Nat
<1>1. InQueue(n) \in Nat
  BY CountedIsNat DEF InputTypes, InQueue
<1>2. InActions(n) \in Nat
  BY CountedIsNat DEF InputTypes, InActions
<1>3. InPosted(n) \in Nat
  BY CountedIsNat DEF InputTypes, InPosted
<1>4. OnWay(errands, n) \in Nat
  BY FS_Subset, FS_CardinalityType DEF InputTypes, OnWay
<1> QED
  BY <1>1, <1>2, <1>3, <1>4 DEF InEditor

\* The invariant is what is promised.
LEMMA HeldIsKept ==
  ASSUME InputsInv
  PROVE  InputsKept
<1>1. SUFFICES ASSUME NEW n \in 1..entered
               PROVE  1 = Times(n, queue, LAMBDA q : TRUE) + Cardinality({e \in errands : e.op \in {"send", "bash"} /\ e.input = n})
                            + Times(n, actions, LAMBDA a : a.is = "bash") + Times(n, posted, LAMBDA p : TRUE)
                            + (IF n \in restored THEN 1 ELSE 0)
  BY DEF InputsKept
<1>2. InputTypes /\ n \in Nat /\ Held(n) = 1
  <2>1. InputTypes
    BY DEF InputsInv
  <2>2. n \in Nat
    <3>1. entered \in Nat
      BY <2>1 DEF InputTypes
    <3> QED
      BY <1>1, <3>1
  <2>3. Held(n) = IF n \in 1..entered THEN 1 ELSE 0
    BY <2>2 DEF InputsInv
  <2> QED
    BY <1>1, <2>1, <2>2, <2>3
<1>3. /\ \A i \in DOMAIN queue : queue[i] \in Waiting
      /\ \A i \in DOMAIN actions : actions[i] \in Reported
      /\ \A i \in DOMAIN posted : posted[i] \in Given
  BY <1>2, LenProperties DEF InputTypes
<1>4. Times(n, queue, LAMBDA q : TRUE) = InQueue(n)
  <2>1. {i \in DOMAIN queue : TRUE /\ queue[i].input = n} = {i \in DOMAIN queue : queue[i] \in {w \in Waiting : w.input = n}}
    BY <1>3
  <2> QED
    BY <2>1 DEF Times, InQueue, Counted
<1>5. Times(n, actions, LAMBDA a : a.is = "bash") = InActions(n)
  <2>1. {i \in DOMAIN actions : actions[i].is = "bash" /\ actions[i].input = n}
        = {i \in DOMAIN actions : actions[i] \in {a \in Reported : a.is = "bash" /\ a.input = n}}
    BY <1>3
  <2> QED
    BY <2>1 DEF Times, InActions, Counted
<1>6. Times(n, posted, LAMBDA p : TRUE) = InPosted(n)
  <2>1. {i \in DOMAIN posted : TRUE /\ posted[i].input = n} = {i \in DOMAIN posted : posted[i] \in {p \in Given : p.input = n}}
    BY <1>3
  <2> QED
    BY <2>1 DEF Times, InPosted, Counted
<1>7. Cardinality({e \in errands : e.op \in {"send", "bash"} /\ e.input = n}) = OnWay(errands, n)
  BY DEF OnWay
<1> QED
  BY <1>2, <1>4, <1>5, <1>6, <1>7 DEF Held, InEditor

-----------------------------------------------------------------------------
(* Tasks that start and end.                                               *)

\* A task that carries no input.
LEMMA OtherTask ==
  ASSUME NEW es, IsFiniteSet(es), NEW x, x.op \notin {"send", "bash"}
  PROVE  IsFiniteSet(es \cup {x}) /\ \A n \in Nat : OnWay(es \cup {x}, n) = OnWay(es, n)
<1>1. IsFiniteSet(es \cup {x})
  BY FS_AddElement
<1>2. \A n \in Nat : {e \in es \cup {x} : e.op \in {"send", "bash"} /\ e.input = n} = {e \in es : e.op \in {"send", "bash"} /\ e.input = n}
  OBVIOUS
<1> QED
  BY <1>1, <1>2 DEF OnWay

\* A task with an input that none carries yet.
LEMMA NewTask ==
  ASSUME NEW es, IsFiniteSet(es), NEW m \in Nat, OnWay(es, m) = 0, NEW x, Carries(x, m)
  PROVE  /\ IsFiniteSet(es \cup {x})
         /\ Gains(es, es \cup {x}, m)
<1> DEFINE on(s, n) == {e \in s : e.op \in {"send", "bash"} /\ e.input = n}
<1>1. IsFiniteSet(es \cup {x})
  BY FS_AddElement
<1>2. \A n \in Nat : IsFiniteSet(on(es, n)) /\ Cardinality(on(es, n)) \in Nat
  BY FS_Subset, FS_CardinalityType
<1>0. x.op \in {"send", "bash"} /\ x.input = m
  BY DEF Carries
<1>3. on(es, m) = {}
  <2>1. Cardinality(on(es, m)) = 0
    BY DEF OnWay
  <2> QED
    BY <1>2, <2>1, FS_EmptySet
<1>4. ASSUME NEW n \in Nat PROVE OnWay(es \cup {x}, n) = OnWay(es, n) + (IF n = m THEN 1 ELSE 0)
  <2>1. CASE n = m
    <3>1. on(es \cup {x}, n) = {x}
      BY <1>0, <1>3, <2>1
    <3>2. Cardinality(on(es \cup {x}, n)) = 1 /\ Cardinality(on(es, n)) = 0
      BY <1>3, <2>1, <3>1, FS_Singleton, FS_EmptySet
    <3> QED
      BY <2>1, <3>2 DEF OnWay
  <2>2. CASE n # m
    <3>1. on(es \cup {x}, n) = on(es, n)
      BY <1>0, <2>2
    <3>2. OnWay(es \cup {x}, n) = OnWay(es, n) /\ OnWay(es, n) \in Nat
      BY <1>2, <3>1 DEF OnWay
    <3> QED
      BY <2>2, <3>2
  <2> QED
    BY <2>1, <2>2
<1> QED
  BY <1>1, <1>4 DEF Gains

\* A task that ends.
LEMMA TaskEnds ==
  ASSUME NEW es, IsFiniteSet(es), NEW x \in es
  PROVE  /\ IsFiniteSet(es \ {x})
         /\ \A n \in Nat : /\ OnWay(es \ {x}, n) \in Nat
                           /\ OnWay(es, n) = OnWay(es \ {x}, n) + (IF x.op \in {"send", "bash"} /\ x.input = n THEN 1 ELSE 0)
<1> DEFINE on(s, n) == {e \in s : e.op \in {"send", "bash"} /\ e.input = n}
           rest == es \ {x}
<1>1. IsFiniteSet(rest)
  BY FS_RemoveElement
<1>2. \A n \in Nat : IsFiniteSet(on(rest, n)) /\ Cardinality(on(rest, n)) \in Nat
  <2> HIDE DEF rest
  <2> QED
    BY <1>1, FS_Subset, FS_CardinalityType
<1>3. ASSUME NEW n \in Nat, Carries(x, n) PROVE OnWay(es, n) = OnWay(rest, n) + 1
  <2>1. on(es, n) = on(rest, n) \cup {x} /\ x \notin on(rest, n)
    BY <1>3 DEF Carries
  <2> DEFINE before == on(es, n)
             after == on(rest, n)
  <2>2. IsFiniteSet(after) /\ before = after \cup {x} /\ x \notin after
    BY <1>2, <2>1
  <2> HIDE DEF before, after, rest
  <2>3. Cardinality(before) = Cardinality(after) + 1
    BY <2>2, FS_AddElement
  <2>4. OnWay(es, n) = Cardinality(before) /\ OnWay(rest, n) = Cardinality(after)
    BY DEF OnWay, before, after
  <2> QED
    BY <2>3, <2>4
<1>4. ASSUME NEW n \in Nat, ~Carries(x, n) PROVE OnWay(es, n) = OnWay(rest, n)
  <2>1. on(es, n) = on(rest, n)
    BY <1>4 DEF Carries
  <2> QED
    BY <2>1 DEF OnWay
<1>5. ASSUME NEW n \in Nat PROVE OnWay(rest, n) \in Nat
  BY <1>2 DEF OnWay
<1> HIDE DEF rest
<1>6. ASSUME NEW n \in Nat
      PROVE  OnWay(es, n) = OnWay(rest, n) + (IF x.op \in {"send", "bash"} /\ x.input = n THEN 1 ELSE 0)
  <2>1. OnWay(rest, n) \in Nat
    BY <1>5
  <2>2. CASE Carries(x, n)
    <3>1. x.op \in {"send", "bash"} /\ x.input = n
      BY <2>2 DEF Carries
    <3> QED
      BY <1>3, <2>2, <3>1
  <2>3. CASE ~Carries(x, n)
    <3>1. ~(x.op \in {"send", "bash"} /\ x.input = n)
      BY <2>3 DEF Carries
    <3> QED
      BY <1>4, <2>1, <2>3, <3>1
  <2> QED
    BY <2>2, <2>3
<1> QED
  BY <1>1, <1>5, <1>6 DEF rest

\* What InputsInv says of one input.
LEMMA HeldOnce ==
  ASSUME InputsInv, NEW n \in Nat
  PROVE  /\ InputTypes /\ entered \in Nat
         /\ n \in 1..entered => Held(n) = 1
         /\ n \notin 1..entered => Held(n) = 0
         /\ InQueue(n) \in Nat /\ OnWay(errands, n) \in Nat /\ InActions(n) \in Nat /\ InPosted(n) \in Nat /\ InEditor(n) \in Nat
<1>1. InputTypes
  BY DEF InputsInv
<1>2. entered \in Nat
  BY <1>1 DEF InputTypes
<1>3. Held(n) = IF n \in 1..entered THEN 1 ELSE 0
  BY DEF InputsInv
<1> QED
  BY <1>1, <1>2, <1>3, HeldAreNats

\* An input that was not entered is nowhere; one that is elsewhere is not on its way.
LEMMA NotOnWay ==
  ASSUME InputsInv, NEW n \in Nat, n \notin 1..entered \/ InQueue(n) # 0 \/ InActions(n) # 0 \/ InPosted(n) # 0
  PROVE  OnWay(errands, n) = 0
<1>1. InQueue(n) + OnWay(errands, n) + InActions(n) + InPosted(n) + InEditor(n) \in {0, 1}
  BY HeldOnce DEF Held
<1>2. n \notin 1..entered => InQueue(n) + OnWay(errands, n) + InActions(n) + InPosted(n) + InEditor(n) = 0
  BY HeldOnce DEF Held
<1>3. InQueue(n) \in Nat /\ OnWay(errands, n) \in Nat /\ InActions(n) \in Nat /\ InPosted(n) \in Nat /\ InEditor(n) \in Nat
  BY HeldOnce
<1> QED
  BY <1>1, <1>2, <1>3

\* Inputs move, and each stays in one place.
LEMMA InputsMove ==
  ASSUME InputsInv, InputTypes', entered' = entered, \A n \in Nat : Held(n)' = Held(n)
  PROVE  InputsInv'
BY DEF InputsInv

\* A new input is in one place.
LEMMA InputEnters ==
  ASSUME InputsInv, InputTypes', entered' = entered + 1,
         \A n \in Nat : Held(n)' = Held(n) + (IF n = entered + 1 THEN 1 ELSE 0)
  PROVE  InputsInv'
<1>1. ASSUME NEW n \in Nat PROVE Held(n)' = IF n \in 1..entered' THEN 1 ELSE 0
  <2>1. entered \in Nat /\ (n \in 1..entered => Held(n) = 1) /\ (n \notin 1..entered => Held(n) = 0)
    BY HeldOnce
  <2>2. Held(n)' = Held(n) + (IF n = entered + 1 THEN 1 ELSE 0)
    OBVIOUS
  <2>3. n \in 1..entered' <=> n \in 1..entered \/ n = entered + 1
    BY <2>1
  <2>4. n = entered + 1 => n \notin 1..entered
    BY <2>1
  <2>5. CASE n = entered + 1
    BY <2>1, <2>2, <2>3, <2>4, <2>5
  <2>6. CASE n # entered + 1
    BY <2>1, <2>2, <2>3, <2>6
  <2> QED
    BY <2>5, <2>6
<1> QED
  BY <1>1 DEF InputsInv

\* The lists keep their types.
LEMMA ListTypes ==
  ASSUME InputTypes
  PROVE  /\ entered \in Nat /\ queue \in Seq(Waiting) /\ actions \in Seq(Reported) /\ posted \in Seq(Given)
         /\ IsFiniteSet(errands) /\ errands \subseteq Tasks
BY DEF InputTypes

\* A task starts with an input, maybe with an interrupt.
LEMMA TaskStarts ==
  ASSUME InputTypes, NEW m \in Nat, OnWay(errands, m) = 0, NEW x \in Tasks, Carries(x, m),
         NEW others, others = {} \/ (active \in Tabs \cup {""} /\ others = {Errand("interrupt", active, 0)})
  PROVE  /\ IsFiniteSet(errands \cup others \cup {x}) /\ errands \cup others \cup {x} \subseteq Tasks
         /\ Gains(errands, errands \cup others \cup {x}, m)
<1> DEFINE y == Errand("interrupt", active, 0)
           one == errands \cup {x}
<1>1. IsFiniteSet(errands) /\ errands \subseteq Tasks
  BY ListTypes
<1>2. IsFiniteSet(one) /\ Gains(errands, one, m)
  BY <1>1, NewTask
<1>3. y.op \notin {"send", "bash"} /\ (active \in Tabs \cup {""} => y \in Tasks)
  BY DEF Errand, Tasks
<1> HIDE DEF one, y
<1>4. IsFiniteSet(one \cup {y}) /\ \A n \in Nat : OnWay(one \cup {y}, n) = OnWay(one, n)
  BY <1>2, <1>3, OtherTask
<1>5. errands \cup others \cup {x} = one \/ (active \in Tabs \cup {""} /\ errands \cup others \cup {x} = one \cup {y})
  BY DEF y, one
<1>6. one \subseteq Tasks
  BY <1>1 DEF one
<1>7. Gains(errands, one \cup {y}, m)
  <2> DEFINE two == one \cup {y}
  <2> HIDE DEF two
  <2> QED
    BY <1>2, <1>4 DEF Gains, two
<1> QED
  BY <1>2, <1>3, <1>4, <1>5, <1>6, <1>7

\* A turn starts: its request is a task more.
LEMMA TurnStarts ==
  ASSUME InputTypes, Drawn, NEW messages, NEW input \in Nat, NEW others, OnWay(errands, input) = 0,
         others = {} \/ others = {Errand("interrupt", active, 0)}, StartTurn(messages, input, others)
  PROVE  /\ IsFiniteSet(errands') /\ errands' \subseteq Tasks /\ DOMAIN sessions' = DOMAIN sessions
         /\ Gains(errands, errands', input)
<1> DEFINE x == Errand("send", active, input)
<1>1. active \in Tabs \cup {""}
  BY DEF InputTypes, Drawn
<1>2. x \in Tasks /\ Carries(x, input)
  BY <1>1 DEF Errand, Tasks, Carries
<1>3. errands' = errands \cup others \cup {x} /\ DOMAIN sessions' = DOMAIN sessions
  BY DEF StartTurn
<1> HIDE DEF x
<1> QED
  BY <1>1, <1>2, <1>3, TaskStarts

\* A bash command is a task, which reports to whatever is active when it ends.
LEMMA BashStarts ==
  ASSUME InputTypes, NEW input \in Nat, NEW others, OnWay(errands, input) = 0,
         others = {} \/ (active \in Tabs \cup {""} /\ others = {Errand("interrupt", active, 0)}),
         errands' = errands \cup others \cup {Errand("bash", "", input)}
  PROVE  /\ IsFiniteSet(errands') /\ errands' \subseteq Tasks
         /\ Gains(errands, errands', input)
<1> DEFINE x == Errand("bash", "", input)
<1>1. x \in Tasks /\ Carries(x, input)
  BY DEF Errand, Tasks, Carries
<1>2. errands' = errands \cup others \cup {x}
  OBVIOUS
<1> HIDE DEF x
<1> QED
  BY <1>1, <1>2, TaskStarts

-----------------------------------------------------------------------------
(* Each step of the client leaves each input in one place.                 *)

\* What is entered goes on its way.
LEMMA EntersOnWay ==
  ASSUME InputsInv, entered' = entered + 1, UNCHANGED <<queue, restored, actions, posted>>,
         IsFiniteSet(errands'), errands' \subseteq Tasks, DOMAIN sessions' = DOMAIN sessions,
         Gains(errands, errands', entered + 1)
  PROVE  InputsInv'
<1>1. InputTypes'
  <2>1. InputTypes
    BY DEF InputsInv
  <2>2. DOMAIN sessions \subseteq Tabs \cup {""}
    BY <2>1 DEF InputTypes
  <2>3. entered + 1 \in Nat /\ queue \in Seq(Waiting) /\ actions \in Seq(Reported) /\ posted \in Seq(Given)
    BY <2>1, ListTypes
  <2> QED
    BY <2>2, <2>3 DEF InputTypes
<1>2. ASSUME NEW n \in Nat PROVE Held(n)' = Held(n) + (IF n = entered + 1 THEN 1 ELSE 0)
  <2>1. InQueue(n)' = InQueue(n) /\ InActions(n)' = InActions(n) /\ InPosted(n)' = InPosted(n) /\ InEditor(n)' = InEditor(n)
    BY DEF InQueue, InActions, InPosted, InEditor
  <2>2. OnWay(errands', n) = OnWay(errands, n) + (IF n = entered + 1 THEN 1 ELSE 0)
    BY DEF Gains
  <2>3. InQueue(n) \in Nat /\ OnWay(errands, n) \in Nat /\ InActions(n) \in Nat /\ InPosted(n) \in Nat /\ InEditor(n) \in Nat
    BY HeldOnce
  <2>4. Held(n)' = InQueue(n) + OnWay(errands', n) + InActions(n) + InPosted(n) + InEditor(n)
    BY <2>1 DEF Held
  <2>5. CASE n = entered + 1
    BY <2>2, <2>3, <2>4, <2>5 DEF Held
  <2>6. CASE n # entered + 1
    BY <2>2, <2>3, <2>4, <2>6 DEF Held
  <2> QED
    BY <2>5, <2>6
<1> QED
  BY <1>1, <1>2, InputEnters

\* Nothing happens to inputs.
LEMMA InputsRest ==
  ASSUME InputsInv, UNCHANGED <<entered, queue, restored, actions, posted>>,
         IsFiniteSet(errands'), errands' \subseteq Tasks, DOMAIN sessions' = DOMAIN sessions,
         \A n \in Nat : OnWay(errands', n) = OnWay(errands, n)
  PROVE  InputsInv'
<1>1. InputTypes'
  <2>1. InputTypes
    BY DEF InputsInv
  <2>2. DOMAIN sessions \subseteq Tabs \cup {""}
    BY <2>1 DEF InputTypes
  <2>3. entered \in Nat /\ queue \in Seq(Waiting) /\ actions \in Seq(Reported) /\ posted \in Seq(Given)
    BY <2>1, ListTypes
  <2> QED
    BY <2>2, <2>3 DEF InputTypes
<1>2. ASSUME NEW n \in Nat PROVE Held(n)' = Held(n)
  <2>1. InQueue(n)' = InQueue(n) /\ InActions(n)' = InActions(n) /\ InPosted(n)' = InPosted(n) /\ InEditor(n)' = InEditor(n)
    BY DEF InQueue, InActions, InPosted, InEditor
  <2>2. OnWay(errands', n) = OnWay(errands, n)
    OBVIOUS
  <2> QED
    BY <2>1, <2>2 DEF Held
<1> QED
  BY <1>1, <1>2, InputsMove

\* A task without an input starts.
LEMMA InputsRestBeside ==
  ASSUME InputsInv, UNCHANGED <<entered, queue, restored, actions, posted>>, DOMAIN sessions' = DOMAIN sessions,
         NEW x \in Tasks, x.op \notin {"send", "bash"}, errands' = errands \cup {x}
  PROVE  InputsInv'
<1>1. IsFiniteSet(errands) /\ errands \subseteq Tasks
  BY ListTypes DEF InputsInv
<1>2. IsFiniteSet(errands \cup {x}) /\ \A n \in Nat : OnWay(errands \cup {x}, n) = OnWay(errands, n)
  BY <1>1, OtherTask
<1> QED
  BY <1>1, <1>2, InputsRest

\* What is submitted is sent, or is a command that runs.
LEMMA SubmitKeeps ==
  ASSUME InputsInv, NEW bash \in BOOLEAN, Submit(bash)
  PROVE  InputsInv'
<1> DEFINE m == entered + 1
<1>1. InputTypes /\ m \in Nat /\ m \notin 1..entered
  BY ListTypes DEF InputsInv
<1>2. OnWay(errands, m) = 0
  BY <1>1, NotOnWay
<1>3. Drawn /\ entered' = m /\ UNCHANGED <<queue, restored, actions, posted>>
  BY DEF Submit, atServer
<1>4. CASE bash
  <2>1. errands' = errands \cup {} \cup {Errand("bash", "", m)} /\ DOMAIN sessions' = DOMAIN sessions
    BY <1>4 DEF Submit
  <2>2. IsFiniteSet(errands') /\ errands' \subseteq Tasks /\ Gains(errands, errands', m)
    <3> HIDE DEF m
    <3> QED
      BY <1>1, <1>2, <2>1, BashStarts
  <2> QED
    BY <1>3, <2>1, <2>2, EntersOnWay
<1>5. CASE ~bash
  <2>1. PICK messages : StartTurn(messages, m, {})
    BY <1>5 DEF Submit, SendUser
  <2>2. IsFiniteSet(errands') /\ errands' \subseteq Tasks /\ Gains(errands, errands', m) /\ DOMAIN sessions' = DOMAIN sessions
    <3> HIDE DEF m
    <3> QED
      BY <1>1, <1>2, <1>3, <2>1, TurnStarts
  <2> QED
    BY <1>3, <2>2, EntersOnWay
<1> QED
  BY <1>4, <1>5

\* What steers is sent, or runs, and the rest is left alone.
LEMMA SteerKeeps ==
  ASSUME InputsInv, NEW bash \in BOOLEAN, Steer(bash)
  PROVE  InputsInv'
<1> DEFINE m == entered + 1
           interrupt == Errand("interrupt", active, 0)
<1>1. InputTypes /\ m \in Nat /\ m \notin 1..entered
  BY ListTypes DEF InputsInv
<1>2. OnWay(errands, m) = 0
  BY <1>1, NotOnWay
<1>3. Drawn /\ entered' = m /\ UNCHANGED <<queue, restored, actions, posted>>
  BY DEF Steer, atServer
<1>4. active \in Tabs \cup {""}
  BY <1>1, <1>3 DEF InputTypes, Drawn
<1>5. CASE bash
  <2>1. errands' = errands \cup {interrupt} \cup {Errand("bash", "", m)} /\ DOMAIN sessions' = DOMAIN sessions
    BY <1>5 DEF Steer
  <2>2. IsFiniteSet(errands') /\ errands' \subseteq Tasks /\ Gains(errands, errands', m)
    <3> HIDE DEF m
    <3> QED
      BY <1>1, <1>2, <1>4, <2>1, BashStarts
  <2> QED
    BY <1>3, <2>1, <2>2, EntersOnWay
<1>6. CASE ~bash
  <2>1. PICK messages : StartTurn(messages, m, {interrupt})
    BY <1>6 DEF Steer, SendUser
  <2>2. IsFiniteSet(errands') /\ errands' \subseteq Tasks /\ Gains(errands, errands', m) /\ DOMAIN sessions' = DOMAIN sessions
    <3> HIDE DEF m
    <3> QED
      BY <1>1, <1>2, <1>3, <2>1, TurnStarts
  <2> QED
    BY <1>3, <2>2, EntersOnWay
<1> QED
  BY <1>5, <1>6

\* A retry is an input more.
LEMMA RetryKeeps ==
  ASSUME InputsInv, Retry
  PROVE  InputsInv'
<1> DEFINE m == entered + 1
<1>1. InputTypes /\ m \in Nat /\ m \notin 1..entered
  BY ListTypes DEF InputsInv
<1>2. OnWay(errands, m) = 0
  BY <1>1, NotOnWay
<1>3. Drawn /\ entered' = m /\ UNCHANGED <<queue, restored, actions, posted>>
  BY DEF Retry, atServer
<1>4. PICK messages : StartTurn(messages, m, {})
  BY DEF Retry
<1>5. IsFiniteSet(errands') /\ errands' \subseteq Tasks /\ Gains(errands, errands', m) /\ DOMAIN sessions' = DOMAIN sessions
  <2> HIDE DEF m
  <2> QED
    BY <1>1, <1>2, <1>3, <1>4, TurnStarts
<1> QED
  BY <1>3, <1>5, EntersOnWay

\* What is entered meanwhile waits.
LEMMA EnqueueKeeps ==
  ASSUME InputsInv, NEW bash \in BOOLEAN, Enqueue(bash)
  PROVE  InputsInv'
<1> DEFINE m == entered + 1
           w == [input |-> m, bash |-> bash]
<1>1. InputTypes /\ m \in Nat /\ w \in Waiting /\ w.input = m
  BY ListTypes DEF InputsInv, Waiting
<1>2. entered' = m /\ queue' = Append(queue, w) /\ UNCHANGED <<restored, actions, posted, errands, sessions>>
  BY DEF Enqueue, atServer
<1>3. InputTypes'
  <2>1. queue \in Seq(Waiting) /\ actions \in Seq(Reported) /\ posted \in Seq(Given)
    BY <1>1, ListTypes
  <2>2. queue' \in Seq(Waiting)
    <3> HIDE DEF w
    <3> QED
      BY <1>1, <1>2, <2>1, AppendProperties
  <2> HIDE DEF m, w
  <2> QED
    BY <1>1, <1>2, <2>1, <2>2 DEF InputTypes
<1>4. ASSUME NEW n \in Nat PROVE Held(n)' = Held(n) + (IF n = m THEN 1 ELSE 0)
  <2> DEFINE S == {v \in Waiting : v.input = n}
  <2>1. InActions(n)' = InActions(n) /\ InPosted(n)' = InPosted(n) /\ InEditor(n)' = InEditor(n) /\ OnWay(errands, n)' = OnWay(errands, n)
    BY <1>2 DEF OnWay, InActions, InPosted, InEditor
  <2>2. Counted(Append(queue, w), S) = Counted(queue, S) + (IF w \in S THEN 1 ELSE 0)
    <3> HIDE DEF S, w
    <3> QED
      BY <1>1, ListTypes, CountedAppend
  <2>3. w \in S <=> n = m
    BY <1>1
  <2>4. InQueue(n)' = Counted(Append(queue, w), S) /\ InQueue(n) = Counted(queue, S)
    BY <1>2 DEF InQueue
  <2>5. InQueue(n) \in Nat /\ OnWay(errands, n) \in Nat /\ InActions(n) \in Nat /\ InPosted(n) \in Nat /\ InEditor(n) \in Nat
    BY HeldOnce
  <2> HIDE DEF m, w, S
  <2>6. Held(n)' = InQueue(n)' + OnWay(errands, n) + InActions(n) + InPosted(n) + InEditor(n)
    BY <2>1 DEF Held
  <2>7. CASE n = m
    BY <2>2, <2>3, <2>4, <2>5, <2>6, <2>7 DEF Held
  <2>8. CASE n # m
    BY <2>2, <2>3, <2>4, <2>5, <2>6, <2>8 DEF Held
  <2> QED
    BY <2>7, <2>8
<1> QED
  BY <1>2, <1>3, <1>4, InputEnters

\* The newest that waits goes back to the editor.
LEMMA RestoreKeeps ==
  ASSUME InputsInv, RestoreQueue
  PROVE  InputsInv'
<1> DEFINE m == Last(queue).input
<1>1. InputTypes /\ queue \in Seq(Waiting) /\ queue # <<>>
  BY ListTypes DEF InputsInv, RestoreQueue
<1>2. /\ restored' = restored \cup {m} /\ queue' = Front(queue)
      /\ UNCHANGED <<entered, actions, posted, errands, sessions>>
  BY DEF RestoreQueue, atServer
<1>3. Front(queue) \in Seq(Waiting) /\ Last(queue) \in Waiting
  BY <1>1, CountedFront
<1>4. InputTypes'
  BY <1>1, <1>2, <1>3 DEF InputTypes
<1>5. ASSUME NEW n \in Nat PROVE Held(n)' = Held(n)
  <2> DEFINE S == {v \in Waiting : v.input = n}
  <2>1. InActions(n)' = InActions(n) /\ InPosted(n)' = InPosted(n) /\ OnWay(errands, n)' = OnWay(errands, n)
    BY <1>2 DEF OnWay, InActions, InPosted
  <2>2. Counted(queue, S) = Counted(Front(queue), S) + (IF Last(queue) \in S THEN 1 ELSE 0)
    <3> HIDE DEF S
    <3> QED
      BY <1>1, CountedFront
  <2>3. Last(queue) \in S <=> n = m
    BY <1>3
  <2>4. InQueue(n)' = Counted(Front(queue), S) /\ InQueue(n) = Counted(queue, S)
    BY <1>2 DEF InQueue
  <2>5. /\ InQueue(n) \in Nat /\ OnWay(errands, n) \in Nat /\ InActions(n) \in Nat /\ InPosted(n) \in Nat /\ InEditor(n) \in Nat
        /\ InQueue(n) + OnWay(errands, n) + InActions(n) + InPosted(n) + InEditor(n) \in {0, 1}
    BY HeldOnce DEF Held
  <2>6. Counted(Front(queue), S) \in Nat
    BY <1>3, CountedIsNat
  <2> HIDE DEF m, S
  <2>7. Held(n)' = InQueue(n)' + OnWay(errands, n) + InActions(n) + InPosted(n) + InEditor(n)'
    BY <2>1 DEF Held
  <2>8. CASE n = m
    <3>1. InEditor(n)' = 1
      BY <1>2, <2>8 DEF InEditor
    <3>2. InQueue(n)' + 1 = InQueue(n)
      BY <2>2, <2>3, <2>4, <2>8
    <3>3. InEditor(n) = 0
      BY <2>4, <2>5, <2>6, <3>2
    <3> QED
      BY <2>4, <2>5, <2>6, <2>7, <3>1, <3>2, <3>3 DEF Held
  <2>9. CASE n # m
    <3>1. InEditor(n)' = InEditor(n)
      BY <1>2, <2>9 DEF InEditor
    <3>2. InQueue(n)' = InQueue(n)
      BY <2>2, <2>3, <2>4, <2>6, <2>9
    <3> QED
      BY <2>7, <3>1, <3>2 DEF Held
  <2> QED
    BY <2>8, <2>9
<1> QED
  BY <1>2, <1>4, <1>5, InputsMove

\* Interrupts and questions to the server carry no input.
LEMMA AskKeeps ==
  ASSUME InputsInv, Interrupt \/ Switch \/ AskServer
  PROVE  InputsInv'
<1>1. DOMAIN sessions \subseteq Tabs \cup {""}
  BY DEF InputsInv, InputTypes
<1>2. CASE Interrupt
  <2> DEFINE x == Errand("interrupt", active, 0)
  <2>1. x \in Tasks /\ x.op \notin {"send", "bash"}
    BY <1>1, <1>2 DEF Interrupt, Drawn, Errand, Tasks
  <2>2. UNCHANGED <<entered, queue, restored, actions, posted>> /\ DOMAIN sessions' = DOMAIN sessions /\ errands' = errands \cup {x}
    BY <1>2 DEF Interrupt, typing, atServer
  <2> HIDE DEF x
  <2> QED
    BY <2>1, <2>2, InputsRestBeside
<1>3. CASE Switch
  <2>1. PICK s \in DOMAIN sessions : errands' = errands \cup {Errand("history", s, 0)}
    BY <1>3 DEF Switch
  <2> DEFINE x == Errand("history", s, 0)
  <2>2. x \in Tasks /\ x.op \notin {"send", "bash"}
    BY <1>1, <2>1 DEF Errand, Tasks
  <2>3. UNCHANGED <<entered, queue, restored, actions, posted>> /\ DOMAIN sessions' = DOMAIN sessions /\ errands' = errands \cup {x}
    BY <1>3, <2>1 DEF Switch, typing, atServer
  <2> HIDE DEF x
  <2> QED
    BY <2>2, <2>3, InputsRestBeside
<1>4. CASE AskServer
  <2>1. PICK op \in {"create", "delete"} : errands' = errands \cup {Errand(op, active, 0)}
    BY <1>4 DEF AskServer
  <2> DEFINE x == Errand(op, active, 0)
  <2>2. x \in Tasks /\ x.op \notin {"send", "bash"}
    BY <1>1, <1>4, <2>1 DEF AskServer, Drawn, Errand, Tasks
  <2>3. UNCHANGED <<entered, queue, restored, actions, posted>> /\ DOMAIN sessions' = DOMAIN sessions /\ errands' = errands \cup {x}
    BY <1>4, <2>1 DEF AskServer, typing, atServer
  <2> HIDE DEF x
  <2> QED
    BY <2>2, <2>3, InputsRestBeside
<1> QED
  BY <1>2, <1>3, <1>4

\* What touches no input.
LEMMA OthersKeep ==
  ASSUME InputsInv, NEW s \in Tabs,
         \/ Note \/ TextDelta \/ IdleDelta \/ ToolCall \/ TurnEnd \/ ServerError \/ ConnectStream \/ LoseStream
         \/ RunSpeaks(s) \/ RunErrs(s) \/ UNCHANGED tuiVars
  PROVE  InputsInv'
<1>1. UNCHANGED <<entered, queue, restored, actions, posted, errands>>
  <2>1. CASE RunSpeaks(s)
    BY <2>1 DEF RunSpeaks, Emit, typing
  <2>2. CASE RunErrs(s)
    BY <2>2 DEF RunErrs, Emit, typing
  <2> QED
    BY <2>1, <2>2 DEF Note, TextDelta, IdleDelta, ToolCall, TurnEnd, ServerError, ConnectStream, LoseStream, typing, atServer, tuiVars
<1>2. DOMAIN sessions' = DOMAIN sessions
  <2>1. CASE RunSpeaks(s)
    BY <2>1 DEF RunSpeaks, Emit
  <2>2. CASE RunErrs(s)
    BY <2>2 DEF RunErrs, Emit
  <2> QED
    BY <2>1, <2>2 DEF Note, TextDelta, IdleDelta, ToolCall, TurnEnd, ServerError, ConnectStream, LoseStream, tuiVars
<1>3. IsFiniteSet(errands) /\ errands \subseteq Tasks
  BY ListTypes DEF InputsInv
<1> QED
  BY <1>1, <1>2, <1>3, InputsRest

\* An input leaves a list and goes on its way.
LEMMA FromQueue ==
  ASSUME InputsInv, queue # <<>>, queue' = Tail(queue), UNCHANGED <<entered, restored, actions, posted>>,
         IsFiniteSet(errands'), errands' \subseteq Tasks, DOMAIN sessions' = DOMAIN sessions,
         Gains(errands, errands', Head(queue).input)
  PROVE  InputsInv'
<1> DEFINE m == Head(queue).input
<1>1. InputTypes /\ queue \in Seq(Waiting)
  BY ListTypes DEF InputsInv
<1>2. Tail(queue) \in Seq(Waiting) /\ Head(queue) \in Waiting
  BY <1>1, HeadTailProperties
<1>3. InputTypes'
  <2>1. DOMAIN sessions \subseteq Tabs \cup {""}
    BY <1>1 DEF InputTypes
  <2>2. entered \in Nat /\ actions \in Seq(Reported) /\ posted \in Seq(Given)
    BY <1>1, ListTypes
  <2> QED
    BY <1>2, <2>1, <2>2 DEF InputTypes
<1>4. ASSUME NEW n \in Nat PROVE Held(n)' = Held(n)
  <2> DEFINE S == {v \in Waiting : v.input = n}
  <2>1. InActions(n)' = InActions(n) /\ InPosted(n)' = InPosted(n) /\ InEditor(n)' = InEditor(n)
    BY DEF InActions, InPosted, InEditor
  <2>2. Counted(queue, S) = Counted(Tail(queue), S) + (IF Head(queue) \in S THEN 1 ELSE 0)
    <3> HIDE DEF S
    <3> QED
      BY <1>1, CountedTail
  <2>3. Head(queue) \in S <=> n = m
    BY <1>2
  <2>4. InQueue(n)' = Counted(Tail(queue), S) /\ InQueue(n) = Counted(queue, S)
    BY DEF InQueue
  <2>5. InQueue(n) \in Nat /\ OnWay(errands, n) \in Nat /\ InActions(n) \in Nat /\ InPosted(n) \in Nat /\ InEditor(n) \in Nat
    BY HeldOnce
  <2>6. Counted(Tail(queue), S) \in Nat
    BY <1>2, CountedIsNat
  <2>7. OnWay(errands', n) = OnWay(errands, n) + (IF n = m THEN 1 ELSE 0)
    BY DEF Gains
  <2> HIDE DEF m, S
  <2>8. Held(n)' = InQueue(n)' + OnWay(errands', n) + InActions(n) + InPosted(n) + InEditor(n)
    BY <2>1 DEF Held
  <2>9. CASE n = m
    BY <2>2, <2>3, <2>4, <2>5, <2>6, <2>7, <2>8, <2>9 DEF Held
  <2>10. CASE n # m
    BY <2>2, <2>3, <2>4, <2>5, <2>6, <2>7, <2>8, <2>10 DEF Held
  <2> QED
    BY <2>9, <2>10
<1> QED
  BY <1>3, <1>4, InputsMove

\* The oldest that waits is sent, or runs, when a turn ends.
LEMMA DequeueKeeps ==
  ASSUME InputsInv, TurnEndDequeues
  PROVE  InputsInv'
<1> DEFINE m == Head(queue).input
<1>1. InputTypes /\ queue \in Seq(Waiting) /\ queue # <<>> /\ Drawn
  BY ListTypes DEF InputsInv, TurnEndDequeues
<1>2. Head(queue) \in Waiting /\ m \in Nat
  <2>1. Head(queue) \in Waiting
    BY <1>1, HeadTailProperties
  <2> QED
    BY <2>1 DEF Waiting
<1>3. OnWay(errands, m) = 0
  <2>1. 1 \in DOMAIN queue /\ queue[1] = Head(queue)
    <3>1. Len(queue) \in Nat /\ DOMAIN queue = 1..Len(queue) /\ Len(queue) # 0
      BY <1>1, LenProperties, EmptySeq
    <3> QED
      BY <1>1, <3>1
  <2>2. InQueue(m) # 0
    <3> DEFINE S == {v \in Waiting : v.input = m}
    <3>1. Head(queue) \in S
      BY <1>2
    <3>2. Counted(queue, S) # 0
      <4> HIDE DEF S
      <4> QED
        BY <1>1, <2>1, <3>1, CountedIsNat
    <3> QED
      BY <3>2 DEF InQueue
  <2> HIDE DEF m
  <2> QED
    BY <1>2, <2>2, NotOnWay
<1>4. queue' = Tail(queue) /\ UNCHANGED <<entered, restored, actions, posted>>
  BY DEF TurnEndDequeues, atServer
<1>5. CASE Head(queue).bash
  <2>1. errands' = errands \cup {} \cup {Errand("bash", "", m)} /\ DOMAIN sessions' = DOMAIN sessions
    BY <1>5 DEF TurnEndDequeues
  <2>2. IsFiniteSet(errands') /\ errands' \subseteq Tasks /\ Gains(errands, errands', m)
    <3> HIDE DEF m
    <3> QED
      BY <1>1, <1>2, <1>3, <2>1, BashStarts
  <2> QED
    BY <1>1, <1>4, <2>1, <2>2, FromQueue
<1>6. CASE ~Head(queue).bash
  <2>1. PICK messages : StartTurn(messages, m, {})
    BY <1>6 DEF TurnEndDequeues, SendUser
  <2>2. IsFiniteSet(errands') /\ errands' \subseteq Tasks /\ Gains(errands, errands', m) /\ DOMAIN sessions' = DOMAIN sessions
    <3> HIDE DEF m
    <3> QED
      BY <1>1, <1>2, <1>3, <2>1, TurnStarts
  <2> QED
    BY <1>1, <1>4, <2>2, FromQueue
<1> QED
  BY <1>5, <1>6

\* What a command printed is sent.
LEMMA BashCompletedKeeps ==
  ASSUME InputsInv, BashCompleted
  PROVE  InputsInv'
<1> DEFINE m == Head(actions).input
<1>1. InputTypes /\ actions \in Seq(Reported) /\ actions # <<>> /\ Drawn /\ Head(actions).is = "bash"
  BY ListTypes DEF InputsInv, BashCompleted, TakeAction
<1>2. Head(actions) \in Reported /\ m \in Nat /\ Tail(actions) \in Seq(Reported)
  <2>1. Head(actions) \in Reported /\ Tail(actions) \in Seq(Reported)
    BY <1>1, HeadTailProperties
  <2> QED
    BY <2>1 DEF Reported
<1>3. OnWay(errands, m) = 0
  <2>1. 1 \in DOMAIN actions /\ actions[1] = Head(actions)
    <3>1. Len(actions) \in Nat /\ DOMAIN actions = 1..Len(actions) /\ Len(actions) # 0
      BY <1>1, LenProperties, EmptySeq
    <3> QED
      BY <1>1, <3>1
  <2>2. InActions(m) # 0
    <3> DEFINE S == {a \in Reported : a.is = "bash" /\ a.input = m}
    <3>1. Head(actions) \in S
      BY <1>1, <1>2
    <3>2. Counted(actions, S) # 0
      <4> HIDE DEF S
      <4> QED
        BY <1>1, <2>1, <3>1, CountedIsNat
    <3> QED
      BY <3>2 DEF InActions
  <2> HIDE DEF m
  <2> QED
    BY <1>2, <2>2, NotOnWay
<1>4. actions' = Tail(actions) /\ UNCHANGED <<entered, queue, restored, posted>>
  BY DEF BashCompleted, TakeAction, typing, atServer
<1>5. PICK messages : StartTurn(messages, m, {})
  BY DEF BashCompleted, SendUser
<1>6. IsFiniteSet(errands') /\ errands' \subseteq Tasks /\ Gains(errands, errands', m) /\ DOMAIN sessions' = DOMAIN sessions
  <2> HIDE DEF m
  <2> QED
    BY <1>1, <1>2, <1>3, <1>5, TurnStarts
<1>7. InputTypes'
  <2>1. DOMAIN sessions \subseteq Tabs \cup {""}
    BY <1>1 DEF InputTypes
  <2>2. entered \in Nat /\ queue \in Seq(Waiting) /\ posted \in Seq(Given)
    BY <1>1, ListTypes
  <2> QED
    BY <1>2, <1>4, <1>6, <2>1, <2>2 DEF InputTypes
<1>8. ASSUME NEW n \in Nat PROVE Held(n)' = Held(n)
  <2> DEFINE S == {a \in Reported : a.is = "bash" /\ a.input = n}
  <2>1. InQueue(n)' = InQueue(n) /\ InPosted(n)' = InPosted(n) /\ InEditor(n)' = InEditor(n)
    BY <1>4 DEF InQueue, InPosted, InEditor
  <2>2. Counted(actions, S) = Counted(Tail(actions), S) + (IF Head(actions) \in S THEN 1 ELSE 0)
    <3> HIDE DEF S
    <3> QED
      BY <1>1, CountedTail
  <2>3. Head(actions) \in S <=> n = m
    BY <1>1, <1>2
  <2>4. InActions(n)' = Counted(Tail(actions), S) /\ InActions(n) = Counted(actions, S)
    BY <1>4 DEF InActions
  <2>5. InQueue(n) \in Nat /\ OnWay(errands, n) \in Nat /\ InActions(n) \in Nat /\ InPosted(n) \in Nat /\ InEditor(n) \in Nat
    BY HeldOnce
  <2>6. Counted(Tail(actions), S) \in Nat
    BY <1>2, CountedIsNat
  <2>7. OnWay(errands', n) = OnWay(errands, n) + (IF n = m THEN 1 ELSE 0)
    BY <1>6 DEF Gains
  <2> HIDE DEF m, S
  <2>8. Held(n)' = InQueue(n) + OnWay(errands', n) + InActions(n)' + InPosted(n) + InEditor(n)
    BY <2>1 DEF Held
  <2>9. CASE n = m
    BY <2>2, <2>3, <2>4, <2>5, <2>6, <2>7, <2>8, <2>9 DEF Held
  <2>10. CASE n # m
    BY <2>2, <2>3, <2>4, <2>5, <2>6, <2>7, <2>8, <2>10 DEF Held
  <2> QED
    BY <2>9, <2>10
<1> QED
  BY <1>4, <1>7, <1>8, InputsMove

\* Sessions that come and go take no input along.
LEMMA SessionsChangeKeeps ==
  ASSUME InputsInv, SessionsChange
  PROVE  InputsInv'
<1>1. InputTypes /\ actions \in Seq(Reported) /\ actions # <<>> /\ actions' = Tail(actions)
      /\ Head(actions).is # "bash" /\ UNCHANGED <<entered, queue, restored, posted, errands>>
  BY ListTypes DEF InputsInv, SessionsChange, TakeAction, typing, atServer
<1>2. Head(actions) \in Reported /\ Tail(actions) \in Seq(Reported)
  BY <1>1, HeadTailProperties
<1>3. DOMAIN sessions' \subseteq Tabs \cup {""}
  <2>1. DOMAIN sessions \subseteq Tabs \cup {""} /\ Head(actions).of \in Tabs \cup {""}
    BY <1>1, <1>2 DEF InputTypes, Reported
  <2>2. CASE /\ active' = Head(actions).of
             /\ sessions' = [t \in DOMAIN sessions \cup {active'} |-> IF t = active' THEN Fresh ELSE sessions[t]]
    BY <2>1, <2>2
  <2>3. CASE sessions' = Without(Head(actions).of)
    BY <2>1, <2>3 DEF Without
  <2>4. CASE sessions' = [sessions EXCEPT ![Head(actions).of].messages = History(Head(actions).of)] \/ sessions' = sessions
    BY <2>1, <2>4
  <2> QED
    BY <2>2, <2>3, <2>4 DEF SessionsChange
<1>4. InputTypes'
  <2>1. entered \in Nat /\ queue \in Seq(Waiting) /\ posted \in Seq(Given) /\ IsFiniteSet(errands) /\ errands \subseteq Tasks
    BY <1>1, ListTypes
  <2> QED
    BY <1>1, <1>2, <1>3, <2>1 DEF InputTypes
<1>5. ASSUME NEW n \in Nat PROVE Held(n)' = Held(n)
  <2> DEFINE S == {a \in Reported : a.is = "bash" /\ a.input = n}
  <2>1. InQueue(n)' = InQueue(n) /\ InPosted(n)' = InPosted(n) /\ InEditor(n)' = InEditor(n) /\ OnWay(errands, n)' = OnWay(errands, n)
    BY <1>1 DEF InQueue, InPosted, InEditor, OnWay
  <2>2. Counted(actions, S) = Counted(Tail(actions), S) + (IF Head(actions) \in S THEN 1 ELSE 0)
    <3> HIDE DEF S
    <3> QED
      BY <1>1, CountedTail
  <2>3. Head(actions) \notin S
    BY <1>1
  <2>4. InActions(n)' = Counted(Tail(actions), S) /\ InActions(n) = Counted(actions, S)
    BY <1>1 DEF InActions
  <2>5. Counted(Tail(actions), S) \in Nat
    BY <1>2, CountedIsNat
  <2>6. InActions(n)' = InActions(n)
    <3> HIDE DEF S
    <3> QED
      BY <2>2, <2>3, <2>4, <2>5
  <2> QED
    BY <2>1, <2>6 DEF Held
<1> QED
  BY <1>1, <1>4, <1>5, InputsMove

\* A task reports what is not about an input.
LEMMA ReportsOther ==
  ASSUME InputsInv, InputTypes', UNCHANGED <<entered, queue, restored, posted>>, NEW a \in Reported, a.is # "bash",
         actions' = Append(actions, a), \A n \in Nat : OnWay(errands', n) = OnWay(errands, n)
  PROVE  InputsInv'
<1>1. ASSUME NEW n \in Nat PROVE Held(n)' = Held(n)
  <2> DEFINE S == {b \in Reported : b.is = "bash" /\ b.input = n}
  <2>1. InQueue(n)' = InQueue(n) /\ InPosted(n)' = InPosted(n) /\ InEditor(n)' = InEditor(n)
    BY DEF InQueue, InPosted, InEditor
  <2>2. Counted(Append(actions, a), S) = Counted(actions, S) + (IF a \in S THEN 1 ELSE 0)
    <3> HIDE DEF S
    <3> QED
      BY ListTypes, CountedAppend DEF InputsInv
  <2>3. a \notin S
    OBVIOUS
  <2>4. InActions(n)' = Counted(Append(actions, a), S) /\ InActions(n) = Counted(actions, S)
    BY DEF InActions
  <2>5. InActions(n) \in Nat
    BY HeldOnce
  <2> HIDE DEF S
  <2>6. InActions(n)' = InActions(n)
    BY <2>2, <2>3, <2>4, <2>5
  <2>7. OnWay(errands', n) = OnWay(errands, n)
    OBVIOUS
  <2>8. Held(n)' = InQueue(n)' + OnWay(errands', n) + InActions(n)' + InPosted(n)' + InEditor(n)'
    BY DEF Held
  <2> QED
    BY <2>1, <2>6, <2>7, <2>8 DEF Held
<1> QED
  BY <1>1, InputsMove

\* A task ends: its input is posted, or handed back, or it had none.
LEMMA ErrandKeeps ==
  ASSUME InputsInv, RunErrand
  PROVE  InputsInv'
<1>1. PICK e \in errands :
         /\ errands' = errands \ {e}
         /\ \/ PostInput(e) \/ PostInterrupt(e)
            \/ AskedOf(e) /\ UNCHANGED <<running, posted, events>>
            \/ e.op \in {"history", "create", "delete"} /\ UNCHANGED <<actions, atServer, events>>
         /\ UNCHANGED <<typing, busy, active, sessions, sse, counts>>
  BY DEF RunErrand
<1>2. InputTypes /\ IsFiniteSet(errands) /\ errands \subseteq Tasks /\ posted \in Seq(Given) /\ actions \in Seq(Reported)
  BY ListTypes DEF InputsInv
<1>3. e \in Tasks /\ e.input \in Nat /\ e.of \in Tabs \cup {""}
  <2>1. e \in Tasks
    BY <1>2
  <2> QED
    BY <2>1 DEF Tasks
<1>4. UNCHANGED <<entered, queue, restored, sessions>>
  BY <1>1 DEF typing
<1>5. IsFiniteSet(errands') /\ errands' \subseteq Tasks
  BY <1>1, <1>2, TaskEnds
<1>6. \A n \in Nat : /\ OnWay(errands', n) \in Nat
                     /\ OnWay(errands, n) = OnWay(errands', n) + (IF e.op \in {"send", "bash"} /\ e.input = n THEN 1 ELSE 0)
  BY <1>1, <1>2, TaskEnds
<1>7. ASSUME posted' \in Seq(Given), actions' \in Seq(Reported) PROVE InputTypes'
  <2>1. DOMAIN sessions \subseteq Tabs \cup {""}
    BY <1>2 DEF InputTypes
  <2>2. entered \in Nat /\ queue \in Seq(Waiting)
    BY <1>2, ListTypes
  <2> QED
    BY <1>4, <1>5, <1>7, <2>1, <2>2 DEF InputTypes
<1>8. CASE e.op = "send" /\ PostInput(e)
  <2>1. PICK taken \in BOOLEAN : posted' = Append(posted, [input |-> e.input, of |-> e.of, taken |-> taken])
    BY <1>8 DEF PostInput
  <2> DEFINE p == [input |-> e.input, of |-> e.of, taken |-> taken]
  <2>2. p \in Given /\ p.input = e.input
    BY <1>3, <2>1 DEF Given
  <2>3. posted' = Append(posted, p) /\ actions' = actions
    BY <1>8, <2>1 DEF PostInput
  <2> HIDE DEF p
  <2>4. InputTypes'
    BY <1>2, <1>7, <2>2, <2>3, AppendProperties
  <2>5. ASSUME NEW n \in Nat PROVE Held(n)' = Held(n)
    <3> DEFINE S == {q \in Given : q.input = n}
    <3>1. InQueue(n)' = InQueue(n) /\ InActions(n)' = InActions(n) /\ InEditor(n)' = InEditor(n)
      BY <1>4, <2>3 DEF InQueue, InActions, InEditor
    <3>2. Counted(Append(posted, p), S) = Counted(posted, S) + (IF p \in S THEN 1 ELSE 0)
      <4> HIDE DEF S
      <4> QED
        BY <1>2, <2>2, CountedAppend
    <3>3. p \in S <=> n = e.input
      BY <2>2
    <3>4. InPosted(n)' = Counted(Append(posted, p), S) /\ InPosted(n) = Counted(posted, S)
      BY <2>3 DEF InPosted
    <3>5. InQueue(n) \in Nat /\ OnWay(errands, n) \in Nat /\ InActions(n) \in Nat /\ InPosted(n) \in Nat /\ InEditor(n) \in Nat
      BY HeldOnce
    <3>6. Held(n)' = InQueue(n) + OnWay(errands', n) + InActions(n) + InPosted(n)' + InEditor(n)
      BY <3>1 DEF Held
    <3> HIDE DEF S
    <3>7. CASE n = e.input
      <4>1. InPosted(n)' = InPosted(n) + 1
        BY <3>2, <3>3, <3>4, <3>7
      <4>2. OnWay(errands, n) = OnWay(errands', n) + 1 /\ OnWay(errands', n) \in Nat
        BY <1>6, <1>8, <3>7
      <4> QED
        BY <3>5, <3>6, <4>1, <4>2 DEF Held
    <3>8. CASE n # e.input
      <4>1. InPosted(n)' = InPosted(n)
        BY <3>2, <3>3, <3>4, <3>5, <3>8
      <4>2. OnWay(errands, n) = OnWay(errands', n)
        BY <1>6, <3>8
      <4> QED
        BY <3>6, <4>1, <4>2 DEF Held
    <3> QED
      BY <3>7, <3>8
  <2> QED
    BY <1>4, <2>4, <2>5, InputsMove
<1>9. CASE e.op = "bash" /\ AskedOf(e) /\ posted' = posted
  <2> DEFINE a == [is |-> "bash", of |-> "", input |-> e.input]
  <2>1. a \in Reported /\ a.input = e.input /\ a.is = "bash"
    BY <1>3 DEF Reported
  <2>2. actions' = Append(actions, a)
    BY <1>9 DEF AskedOf, Report
  <2> HIDE DEF a
  <2>3. InputTypes'
    BY <1>2, <1>7, <1>9, <2>1, <2>2, AppendProperties
  <2>4. ASSUME NEW n \in Nat PROVE Held(n)' = Held(n)
    <3> DEFINE S == {b \in Reported : b.is = "bash" /\ b.input = n}
    <3>1. InQueue(n)' = InQueue(n) /\ InPosted(n)' = InPosted(n) /\ InEditor(n)' = InEditor(n)
      BY <1>4, <1>9 DEF InQueue, InPosted, InEditor
    <3>2. Counted(Append(actions, a), S) = Counted(actions, S) + (IF a \in S THEN 1 ELSE 0)
      <4> HIDE DEF S
      <4> QED
        BY <1>2, <2>1, CountedAppend
    <3>3. a \in S <=> n = e.input
      BY <2>1
    <3>4. InActions(n)' = Counted(Append(actions, a), S) /\ InActions(n) = Counted(actions, S)
      BY <2>2 DEF InActions
    <3>5. InQueue(n) \in Nat /\ OnWay(errands, n) \in Nat /\ InActions(n) \in Nat /\ InPosted(n) \in Nat /\ InEditor(n) \in Nat
      BY HeldOnce
    <3>6. Held(n)' = InQueue(n) + OnWay(errands', n) + InActions(n)' + InPosted(n) + InEditor(n)
      BY <3>1 DEF Held
    <3> HIDE DEF S
    <3>7. CASE n = e.input
      <4>1. InActions(n)' = InActions(n) + 1
        BY <3>2, <3>3, <3>4, <3>7
      <4>2. OnWay(errands, n) = OnWay(errands', n) + 1 /\ OnWay(errands', n) \in Nat
        BY <1>6, <1>9, <3>7
      <4> QED
        BY <3>5, <3>6, <4>1, <4>2 DEF Held
    <3>8. CASE n # e.input
      <4>1. InActions(n)' = InActions(n)
        BY <3>2, <3>3, <3>4, <3>5, <3>8
      <4>2. OnWay(errands, n) = OnWay(errands', n)
        BY <1>6, <3>8
      <4> QED
        BY <3>6, <4>1, <4>2 DEF Held
    <3> QED
      BY <3>7, <3>8
  <2> QED
    BY <1>4, <2>3, <2>4, InputsMove
<1>10. CASE e.op \notin {"send", "bash"} /\ AskedOf(e) /\ posted' = posted
  <2>1. \A n \in Nat : OnWay(errands', n) = OnWay(errands, n)
    BY <1>6, <1>10
  <2>2. \E a \in Reported : a.is # "bash" /\ actions' = Append(actions, a)
    <3>1. PICK kind \in {"history", "created", "deleted"}, tab \in Tabs \cup {""} :
             actions' = Append(actions, [is |-> kind, of |-> tab, input |-> 0])
      BY <1>3, <1>10 DEF AskedOf, Report
    <3> DEFINE a == [is |-> kind, of |-> tab, input |-> 0]
    <3>2. a \in Reported /\ a.is # "bash" /\ actions' = Append(actions, a)
      BY <3>1 DEF Reported
    <3> QED
      BY <3>2
  <2>3. PICK a \in Reported : a.is # "bash" /\ actions' = Append(actions, a)
    BY <2>2
  <2>4. InputTypes'
    BY <1>2, <1>7, <1>10, <2>3, AppendProperties
  <2> QED
    BY <1>4, <1>10, <2>1, <2>3, <2>4, ReportsOther
<1>11. CASE e.op \notin {"send", "bash"} /\ UNCHANGED <<posted, actions>>
  <2>1. \A n \in Nat : OnWay(errands', n) = OnWay(errands, n)
    BY <1>6, <1>11
  <2>2. DOMAIN sessions' = DOMAIN sessions
    BY <1>4
  <2> QED
    BY <1>4, <1>5, <1>11, <2>1, <2>2, InputsRest
<1> QED
  BY <1>1, <1>8, <1>9, <1>10, <1>11 DEF PostInput, PostInterrupt, AskedOf, atServer

\* Each input is in one place.
LEMMA InputsInvIs ==
  TuiSpec => []InputsInv
<1>1. TuiInit => InputsInv
  <2>1. SUFFICES ASSUME TuiInit PROVE InputsInv
    OBVIOUS
  <2>2. entered = 0 /\ queue = <<>> /\ actions = <<>> /\ posted = <<>> /\ errands = {} /\ restored = {} /\ DOMAIN sessions = {"s1"}
    BY <2>1 DEF TuiInit
  <2>3. InputTypes
    BY <2>2, TuiAssumption, FS_EmptySet DEF InputTypes, TuiAssumption
  <2>4. ASSUME NEW n \in Nat PROVE Held(n) = 0
    <3>1. InQueue(n) = 0 /\ InActions(n) = 0 /\ InPosted(n) = 0
      BY <2>2, CountedNone DEF InQueue, InActions, InPosted
    <3>2. OnWay(errands, n) = 0
      <4>1. {e \in errands : e.op \in {"send", "bash"} /\ e.input = n} = {}
        BY <2>2
      <4> QED
        BY <4>1, FS_EmptySet DEF OnWay
    <3>3. InEditor(n) = 0
      BY <2>2 DEF InEditor
    <3> QED
      BY <3>1, <3>2, <3>3 DEF Held
  <2>5. 1..entered = {}
    BY <2>2
  <2> QED
    BY <2>3, <2>4, <2>5 DEF InputsInv
<1>2. InputsInv /\ [TuiNext]_tuiVars => InputsInv'
  <2>1. SUFFICES ASSUME InputsInv, [TuiNext]_tuiVars PROVE InputsInv'
    OBVIOUS
  <2>2. CASE \E bash \in BOOLEAN : Submit(bash) \/ Enqueue(bash) \/ Steer(bash)
    BY <2>1, <2>2, SubmitKeeps, EnqueueKeeps, SteerKeeps
  <2>3. CASE Interrupt \/ Switch \/ AskServer
    BY <2>1, <2>3, AskKeeps
  <2>4. CASE RestoreQueue \/ Retry \/ TurnEndDequeues
    BY <2>1, <2>4, RestoreKeeps, RetryKeeps, DequeueKeeps
  <2>5. CASE RunErrand \/ BashCompleted \/ SessionsChange
    BY <2>1, <2>5, ErrandKeeps, BashCompletedKeeps, SessionsChangeKeeps
  <2>6. CASE \E s \in Tabs : RunSpeaks(s) \/ RunErrs(s)
    BY <2>1, <2>6, OthersKeep
  <2>7. CASE \/ Note \/ TextDelta \/ IdleDelta \/ ToolCall \/ TurnEnd \/ ServerError \/ ConnectStream \/ LoseStream
             \/ UNCHANGED tuiVars
    BY <2>1, <2>7, OthersKeep, TuiAssumption DEF TuiAssumption
  <2> QED
    BY <2>1, <2>2, <2>3, <2>4, <2>5, <2>6, <2>7 DEF TuiNext
<1> QED
  BY <1>1, <1>2, PTL DEF TuiSpec

-----------------------------------------------------------------------------
(* The terminal client: text and calls, while it stays in one session.     *)

Triple == Nat \X Nat \X Nat
Succ(at) == [at EXCEPT ![3] = @ + 1]
Gapless(text) == \A k \in 2..Len(text) : text[k] = Succ(text[k - 1])

RenderedType == [role : {"user", "assistant"}, status : {"complete", "streaming", "aborted", "error"}, of : Nat,
                 text : Seq(Triple), pending : SUBSET (Nat \X Nat), settled : SUBSET (Nat \X Nat)]
Unbroken == {m \in RenderedType : Gapless(m.text)}
ServerEvent == [is : {"text", "tool", "tool done", "turn end"}, at : Triple] \cup [is : {"error"}, at : Triple \cup {<<>>}]
RunType == [input : Nat, turn : Nat, piece : Nat, call : {"none", "called", "done"}]
TasksHere == [op : {"send", "interrupt"}, of : {"s1"}, input : Nat] \cup [op : {"bash"}, of : {""}, input : Nat]

\* The client that was never told to switch has its first session.
OneSession ==
    /\ active = "s1" /\ sessions \in [{"s1"} -> [messages : Seq(Unbroken), streaming : Seq(Triple)]]
    /\ sse \in [of : {"s1"}, at : {"none", "connecting", "open", "broken", "over"}]
    /\ events \in Seq(ServerEvent) /\ running \in [Tabs -> RunType]
    /\ errands \subseteq TasksHere /\ \A i \in DOMAIN actions : actions[i].is = "bash"

Buffer == sessions["s1"].streaming
Run == running["s1"]
OfTurn == {"text", "tool", "tool done"}
TextEvent(at) == [is |-> "text", at |-> at]
\* What one event tells of the next, and the last of the run.
Precedes(e, f) ==
    /\ e.is = "text" /\ f.is = "text" => f.at = Succ(e.at)
    /\ e.is \in {"tool", "tool done"} => f.is # "text"
LastOf(e, run) ==
    e.is \in OfTurn => run.call # "none" \/ (e.is = "text" /\ run # NoRun /\ e.at = <<run.input, run.turn, run.piece>>)

\* What is shown and what is on its way is of one turn up to its end, and goes on where the run is.
InFlow ==
    /\ Buffer # None => Gapless(Buffer)
    /\ \A k \in 2..Len(events) : Precedes(events[k - 1], events[k])
    /\ Buffer # None /\ Buffer # <<>> /\ events # <<>> => Precedes(TextEvent(Buffer[Len(Buffer)]), events[1])
    /\ sse.at = "open" /\ events # <<>> => LastOf(events[Len(events)], Run)
    /\ sse.at = "open" /\ events = <<>> /\ Buffer # None /\ Buffer # <<>> => LastOf(TextEvent(Buffer[Len(Buffer)]), Run)
    /\ sse.at = "connecting" => events = <<>> /\ Buffer = <<>>
    /\ sse.at = "broken" => IF events = <<>> THEN Buffer = None ELSE events[Len(events)].is \notin OfTurn

FlowInv == "switch" \notin habits => OneSession /\ InFlow

\* The call of an event, of a run.
CallOf(e) == <<e.at[1], e.at[2]>>
CallIn(run) == <<run.input, run.turn>>
LastPending(messages) == IF messages = <<>> THEN {} ELSE messages[Len(messages)].pending
Unsettled == LastPending(sessions["s1"].messages)
WasPosted(n) == \E i \in DOMAIN posted : posted[i].input = n
\* A call that was told before the k-th event is settled before its turn ends.
IsDone(e, c) == e.is = "tool done" /\ CallOf(e) = c
IsEnd(e, c) == e.is = "turn end" /\ CallOf(e) = c
SettledBetween(es, c, k, j) == \E i \in DOMAIN es : k < i /\ i < j /\ IsDone(es[i], c)
Settles(es, open, run, c, k) ==
    /\ \A j \in DOMAIN es : k < j /\ IsEnd(es[j], c) => SettledBetween(es, c, k, j)
    /\ open /\ run # NoRun /\ CallIn(run) = c =>
          run.call = "called" \/ (run.call = "done" /\ SettledBetween(es, c, k, Len(es) + 1))
    /\ run # NoRun /\ run.input = c[1] => c[2] <= run.turn
CallsSettle ==
    /\ sse.at \in {"none", "connecting", "open"}
    /\ sse.at = "connecting" => Unsettled = {}
    /\ \A c \in Unsettled : WasPosted(c[1]) /\ Settles(events, sse.at = "open", Run, c, 0)
    /\ \A k \in DOMAIN events : events[k].is = "tool" =>
          WasPosted(events[k].at[1]) /\ Settles(events, sse.at = "open", Run, CallOf(events[k]), k)
    /\ Run # NoRun => WasPosted(Run.input)
CallsInv ==
    /\ mishaps \in Nat
    /\ habits \cap {"switch", "note"} = {} /\ mishaps = 0 => CallsSettle

-----------------------------------------------------------------------------
(* Messages and lists as they change.                                      *)

\* Trim keeps the last message.
LEMMA TrimKeepsLast ==
  ASSUME NEW X, NEW ms \in Seq(X)
  PROVE  Trim(ms) \in Seq(X) /\ LastPending(Trim(ms)) = LastPending(ms)
<1> DEFINE first == IF Len(ms) > MaxHistory THEN Len(ms) - MaxHistory + 1 ELSE 1
           kept == SubSeq(ms, first, Len(ms))
<1>1. Len(ms) \in Nat /\ MaxHistory \in Nat /\ MaxHistory # 0 /\ \A i \in 1..Len(ms) : ms[i] \in X
  BY LenProperties, TuiAssumption DEF TuiAssumption
<1>2. first \in 1..(Len(ms) + 1) /\ (Len(ms) # 0 => first <= Len(ms)) /\ first \in Int /\ Len(ms) \in Int
  BY <1>1
<1>3. Trim(ms) = kept
  BY DEF Trim
<1> HIDE DEF first
<1>4. \A i \in first..Len(ms) : ms[i] \in X
  BY <1>1, <1>2
<1>5. /\ kept \in Seq(X) /\ Len(kept) = (IF first <= Len(ms) THEN Len(ms) - first + 1 ELSE 0)
      /\ \A i \in 1..(Len(ms) - first + 1) : kept[i] = ms[first + i - 1]
  BY <1>2, <1>4, SubSeqProperties
<1> HIDE DEF kept
<1>6. CASE ms = <<>>
  <2>1. Len(ms) = 0
    BY <1>6
  <2>2. Len(kept) = 0
    BY <1>2, <1>5, <2>1
  <2>3. kept = <<>>
    BY <1>5, <2>2, EmptySeq
  <2> QED
    BY <1>3, <1>5, <1>6, <2>3
<1>7. CASE ms # <<>>
  <2>1. Len(ms) # 0
    BY <1>7, EmptySeq
  <2>2. Len(kept) = Len(ms) - first + 1 /\ Len(kept) \in 1..(Len(ms) - first + 1) /\ first + Len(kept) - 1 = Len(ms)
    BY <1>1, <1>2, <1>5, <2>1
  <2>3. kept[Len(kept)] = ms[Len(ms)]
    BY <1>5, <2>2
  <2>4. kept # <<>>
    BY <2>2
  <2> QED
    BY <1>3, <1>5, <1>7, <2>3, <2>4 DEF LastPending
<1> QED
  BY <1>6, <1>7

\* Another last message.
LEMMA LastReplaced ==
  ASSUME NEW ms \in Seq(Unbroken), ms # <<>>, NEW r, r \in [DOMAIN ms -> Unbroken]
  PROVE  r \in Seq(Unbroken) /\ LastPending(r) = r[Len(ms)].pending
<1>1. Len(ms) \in Nat /\ Len(ms) # 0 /\ DOMAIN ms = 1..Len(ms)
  BY LenProperties, EmptySeq
<1>2. r \in Seq(Unbroken) /\ Len(r) = Len(ms)
  BY <1>1, SeqDef, LenProperties
<1>3. r # <<>>
  BY <1>1, <1>2
<1> QED
  BY <1>2, <1>3 DEF LastPending

\* A message more.
LEMMA PendingAppended ==
  ASSUME NEW X, NEW ms \in Seq(X), NEW m \in X
  PROVE  Append(ms, m) \in Seq(X) /\ LastPending(Append(ms, m)) = m.pending
<1>1. Append(ms, m) \in Seq(X) /\ Len(Append(ms, m)) = Len(ms) + 1 /\ Append(ms, m)[Len(ms) + 1] = m /\ Len(ms) \in Nat
  BY AppendProperties, LenProperties
<1>2. Append(ms, m) # <<>>
  BY <1>1
<1> QED
  BY <1>1, <1>2 DEF LastPending

\* Where the elements of a list without its head were.
LEMMA TailPlaces ==
  ASSUME NEW X, NEW q \in Seq(X), q # <<>>
  PROVE  /\ Tail(q) \in Seq(X) /\ Head(q) = q[1] /\ Head(q) \in X
         /\ Len(q) \in Nat /\ Len(q) >= 1 /\ Len(Tail(q)) = Len(q) - 1
         /\ DOMAIN q = 1..Len(q) /\ DOMAIN Tail(q) = 1..(Len(q) - 1)
         /\ \A i \in 1..(Len(q) - 1) : Tail(q)[i] = q[i + 1]
         /\ Tail(q) = <<>> <=> Len(q) = 1
<1>1. Tail(q) \in Seq(X) /\ Head(q) = q[1] /\ Head(q) \in X /\ Len(Tail(q)) = Len(q) - 1 /\ \A i \in 1..Len(Tail(q)) : Tail(q)[i] = q[i + 1]
  BY HeadTailProperties
<1>2. Len(q) \in Nat /\ Len(q) # 0 /\ DOMAIN q = 1..Len(q)
  BY LenProperties, EmptySeq
<1>3. DOMAIN Tail(q) = 1..Len(Tail(q)) /\ (Tail(q) = <<>> <=> Len(Tail(q)) = 0)
  BY <1>1, LenProperties, EmptySeq
<1> QED
  BY <1>1, <1>2, <1>3

\* Messages as the client makes and changes them.
LEMMA MessageMade ==
  ASSUME NEW role \in {"user", "assistant"}, NEW status \in {"complete", "streaming"}, NEW of \in Nat
  PROVE  RenderedMessage(role, status, of) \in Unbroken /\ RenderedMessage(role, status, of).pending = {}
<1> DEFINE m == RenderedMessage(role, status, of)
<1>1. m \in RenderedType /\ m.text = <<>> /\ m.pending = {}
  BY DEF RenderedMessage, RenderedType
<1>2. Gapless(<<>>)
  BY DEF Gapless
<1> HIDE DEF m
<1>3. Gapless(m.text)
  BY <1>1, <1>2
<1> QED
  BY <1>1, <1>3 DEF Unbroken, m

\* Another status.
LEMMA StatusChanged ==
  ASSUME NEW m \in Unbroken, NEW status \in {"complete", "streaming", "aborted", "error"}
  PROVE  [m EXCEPT !.status = status] \in Unbroken /\ [m EXCEPT !.status = status].pending = m.pending
<1> DEFINE r == [m EXCEPT !.status = status]
<1>1. m \in RenderedType /\ Gapless(m.text)
  BY DEF Unbroken
<1>2. r \in RenderedType /\ r.text = m.text /\ r.pending = m.pending
  BY <1>1 DEF RenderedType
<1> HIDE DEF r
<1>3. Gapless(r.text)
  BY <1>1, <1>2
<1> QED
  BY <1>2, <1>3 DEF Unbroken, r

\* Another text.
LEMMA TextChanged ==
  ASSUME NEW m \in Unbroken, NEW text \in Seq(Triple), Gapless(text)
  PROVE  [m EXCEPT !.text = text] \in Unbroken /\ [m EXCEPT !.text = text].pending = m.pending
<1> DEFINE r == [m EXCEPT !.text = text]
<1>1. m \in RenderedType
  BY DEF Unbroken
<1>2. r \in RenderedType /\ r.text = text /\ r.pending = m.pending
  BY <1>1 DEF RenderedType
<1> HIDE DEF r
<1>3. Gapless(r.text)
  BY <1>2
<1> QED
  BY <1>2, <1>3 DEF Unbroken, r

\* A call that is told of, or done.
LEMMA CallMarked ==
  ASSUME NEW m \in Unbroken, NEW c \in Nat \X Nat
  PROVE  /\ [m EXCEPT !.pending = @ \cup {c}] \in Unbroken
         /\ [m EXCEPT !.pending = @ \cup {c}].pending = m.pending \cup {c}
         /\ [m EXCEPT !.pending = @ \ {c}, !.settled = @ \cup {c}] \in Unbroken
         /\ [m EXCEPT !.pending = @ \ {c}, !.settled = @ \cup {c}].pending = m.pending \ {c}
<1> DEFINE r == [m EXCEPT !.pending = @ \cup {c}]
           t == [m EXCEPT !.pending = @ \ {c}, !.settled = @ \cup {c}]
<1>1. m \in RenderedType /\ Gapless(m.text)
  BY DEF Unbroken
<1>2. m.pending \subseteq Nat \X Nat /\ m.settled \subseteq Nat \X Nat
  BY <1>1 DEF RenderedType
<1>3. /\ r \in RenderedType /\ r.text = m.text /\ r.pending = m.pending \cup {c}
      /\ t \in RenderedType /\ t.text = m.text /\ t.pending = m.pending \ {c}
  BY <1>1, <1>2 DEF RenderedType
<1> HIDE DEF r, t
<1>4. Gapless(r.text) /\ Gapless(t.text)
  BY <1>1, <1>3
<1> QED
  BY <1>3, <1>4 DEF Unbroken, r, t

\* The status of the last message, if there is one.
LEMMA LastStatus ==
  ASSUME NEW ms \in Seq(Unbroken), NEW status \in {"complete", "streaming", "aborted", "error"}, NEW r,
         r = IF ms = <<>> THEN ms ELSE [ms EXCEPT ![Len(ms)] = [ms[Len(ms)] EXCEPT !.status = status]]
  PROVE  r \in Seq(Unbroken) /\ LastPending(r) = LastPending(ms)
<1>1. CASE ms = <<>>
  BY <1>1
<1>2. CASE ms # <<>>
  <2> DEFINE m == ms[Len(ms)]
             v == [m EXCEPT !.status = status]
  <2>1. m \in Unbroken
    BY <1>2, LenProperties, EmptySeq
  <2>2. v \in Unbroken /\ v.pending = m.pending
    BY <2>1, StatusChanged
  <2>3. r \in [DOMAIN ms -> Unbroken] /\ r[Len(ms)] = v
    <3>1. r = [ms EXCEPT ![Len(ms)] = v]
      BY <1>2
    <3>2. ms \in [DOMAIN ms -> Unbroken] /\ Len(ms) \in DOMAIN ms
      BY <1>2, LenProperties, EmptySeq
    <3> HIDE DEF v
    <3> QED
      BY <2>2, <3>1, <3>2
  <2>4. LastPending(ms) = m.pending
    BY <1>2 DEF LastPending
  <2> HIDE DEF v, m
  <2>5. r \in Seq(Unbroken) /\ LastPending(r) = r[Len(ms)].pending
    BY <1>2, <2>3, LastReplaced
  <2> QED
    BY <2>2, <2>3, <2>4, <2>5
<1> QED
  BY <1>1, <1>2

\* The messages that an interrupt, a steering message and the end of a turn leave.
LEMMA SteerKeepsLast ==
  ASSUME NEW ms \in Seq(Unbroken), NEW r,
         r = Last1(ms, LAMBDA m : IF m.role = "assistant" /\ m.status = "streaming" THEN [m EXCEPT !.status = "aborted"] ELSE m)
  PROVE  r \in Seq(Unbroken) /\ LastPending(r) = LastPending(ms)
<1>1. r = IF ms = <<>> THEN ms ELSE [ms EXCEPT ![Len(ms)] =
             IF ms[Len(ms)].role = "assistant" /\ ms[Len(ms)].status = "streaming"
             THEN [ms[Len(ms)] EXCEPT !.status = "aborted"] ELSE ms[Len(ms)]]
  BY DEF Last1
<1>2. CASE ms = <<>> \/ (ms[Len(ms)].role = "assistant" /\ ms[Len(ms)].status = "streaming")
  <2>1. r = IF ms = <<>> THEN ms ELSE [ms EXCEPT ![Len(ms)] = [ms[Len(ms)] EXCEPT !.status = "aborted"]]
    BY <1>1, <1>2
  <2> QED
    BY <2>1, LastStatus
<1>3. CASE ms # <<>> /\ ~(ms[Len(ms)].role = "assistant" /\ ms[Len(ms)].status = "streaming")
  <2>1. r = ms
    <3>1. DOMAIN ms = 1..Len(ms) /\ ms \in [1..Len(ms) -> Unbroken]
      BY LenProperties
    <3>2. r = [ms EXCEPT ![Len(ms)] = ms[Len(ms)]]
      BY <1>1, <1>3
    <3> QED
      BY <3>1, <3>2
  <2> QED
    BY <2>1
<1> QED
  BY <1>2, <1>3

\* The end of a turn marks the last message.
LEMMA CompletedIs ==
  ASSUME OneSession
  PROVE  Completed \in Seq(Unbroken) /\ LastPending(Completed) = Unsettled
<1> DEFINE ms == sessions["s1"].messages
           r == IF ms = <<>> THEN ms ELSE [ms EXCEPT ![Len(ms)] = [ms[Len(ms)] EXCEPT !.status = "complete"]]
<1>1. ms \in Seq(Unbroken) /\ Here.messages = ms /\ LastPending(ms) = Unsettled
  BY DEF OneSession, Here, Unsettled
<1>2. Completed = Trim(r)
  BY <1>1 DEF Completed, Last1
<1>3. r \in Seq(Unbroken) /\ LastPending(r) = LastPending(ms)
  <2> HIDE DEF ms
  <2> QED
    BY <1>1, LastStatus
<1> HIDE DEF r, ms
<1> QED
  BY <1>1, <1>2, <1>3, TrimKeepsLast

-----------------------------------------------------------------------------
(* The session as it changes.                                              *)

\* The session that is shown.
LEMMA HereIs ==
  ASSUME OneSession
  PROVE  /\ active = "s1" /\ Drawn /\ Here = sessions["s1"] /\ Here.streaming = Buffer
         /\ Here.messages \in Seq(Unbroken) /\ Buffer \in Seq(Triple) /\ LastPending(Here.messages) = Unsettled
BY DEF OneSession, Drawn, Here, Buffer, Unsettled

\* Another list of messages, and another buffer.
LEMMA SessionSet ==
  ASSUME OneSession, NEW ms \in Seq(Unbroken), NEW shown \in Seq(Triple),
         \/ sessions' = [sessions EXCEPT ![active] = [messages |-> ms, streaming |-> shown]]
         \/ sessions' = [sessions EXCEPT ![active].messages = ms] /\ shown = Buffer
  PROVE  /\ sessions' \in [{"s1"} -> [messages : Seq(Unbroken), streaming : Seq(Triple)]]
         /\ Buffer' = shown /\ Unsettled' = LastPending(ms)
<1>1. active = "s1" /\ sessions \in [{"s1"} -> [messages : Seq(Unbroken), streaming : Seq(Triple)]]
  BY DEF OneSession
<1>2. sessions["s1"] \in [messages : Seq(Unbroken), streaming : Seq(Triple)]
  BY <1>1
<1>3. /\ sessions' \in [{"s1"} -> [messages : Seq(Unbroken), streaming : Seq(Triple)]]
      /\ sessions'["s1"].streaming = shown /\ sessions'["s1"].messages = ms
  BY <1>1, <1>2 DEF Buffer
<1> QED
  BY <1>3 DEF Buffer, Unsettled

\* A turn begins with nothing shown, and nothing on its way from the new stream.
TurnBegins ==
    /\ events' = <<>> /\ Buffer' = <<>> /\ Unsettled' = {}
    /\ sse' = [of |-> "s1", at |-> "connecting"]

\* start_streaming_turn.
LEMMA TurnIsBegun ==
  ASSUME OneSession, NEW messages \in Seq(Unbroken), NEW input \in Nat, NEW others,
         others = {} \/ others = {Errand("interrupt", active, 0)}, StartTurn(messages, input, others)
  PROVE  /\ TurnBegins /\ errands' \subseteq TasksHere
         /\ sessions' \in [{"s1"} -> [messages : Seq(Unbroken), streaming : Seq(Triple)]]
<1> DEFINE m == RenderedMessage("assistant", "streaming", input)
           ms == Append(messages, m)
<1>1. m \in Unbroken /\ m.pending = {}
  BY MessageMade
<1>2. active = "s1" /\ errands \subseteq TasksHere
  BY DEF OneSession
<1>3. /\ sessions' = [sessions EXCEPT ![active] = [messages |-> ms, streaming |-> <<>>]]
      /\ events' = <<>> /\ sse' = [of |-> "s1", at |-> "connecting"]
      /\ errands' = errands \cup others \cup {Errand("send", active, input)}
  BY <1>2 DEF StartTurn
<1>4. errands' \subseteq TasksHere
  <2>1. Errand("interrupt", "s1", 0) \in TasksHere /\ Errand("send", "s1", input) \in TasksHere
    BY DEF Errand, TasksHere
  <2> QED
    BY <1>2, <1>3, <2>1
<1> HIDE DEF m
<1>5. ms \in Seq(Unbroken) /\ LastPending(ms) = {}
  BY <1>1, PendingAppended
<1> HIDE DEF ms
<1>6. <<>> \in Seq(Triple)
  BY EmptySeq
<1>7. /\ sessions' \in [{"s1"} -> [messages : Seq(Unbroken), streaming : Seq(Triple)]]
      /\ Buffer' = <<>> /\ Unsettled' = {}
  BY <1>3, <1>5, <1>6, SessionSet
<1> QED
  BY <1>3, <1>4, <1>7 DEF TurnBegins

\* A message of the user begins a turn.
LEMMA UserIsSent ==
  ASSUME OneSession, NEW messages \in Seq(Unbroken), NEW input \in Nat, NEW others,
         others = {} \/ others = {Errand("interrupt", active, 0)}, SendUser(messages, input, others)
  PROVE  /\ TurnBegins /\ errands' \subseteq TasksHere
         /\ sessions' \in [{"s1"} -> [messages : Seq(Unbroken), streaming : Seq(Triple)]]
<1> DEFINE m == RenderedMessage("user", "complete", input)
           ms == Append(messages, m)
<1>1. m \in Unbroken
  BY MessageMade
<1>2. StartTurn(Trim(ms), input, others)
  BY DEF SendUser
<1> HIDE DEF m
<1>3. ms \in Seq(Unbroken)
  BY <1>1, PendingAppended
<1> HIDE DEF ms
<1>4. Trim(ms) \in Seq(Unbroken)
  BY <1>3, TrimKeepsLast
<1> QED
  BY <1>2, <1>4, TurnIsBegun

\* What is still told about bash commands.
LEMMA ActionsStay ==
  ASSUME InputTypes, OneSession, actions' = actions \/ (actions # <<>> /\ actions' = Tail(actions))
  PROVE  \A i \in DOMAIN actions' : actions'[i].is = "bash"
<1>1. actions \in Seq(Reported) /\ \A i \in DOMAIN actions : actions[i].is = "bash"
  BY ListTypes DEF OneSession
<1>2. CASE actions' = actions
  BY <1>1, <1>2
<1>3. CASE actions # <<>> /\ actions' = Tail(actions)
  <2>1. /\ DOMAIN actions = 1..Len(actions) /\ DOMAIN Tail(actions) = 1..(Len(actions) - 1) /\ Len(actions) \in Nat
        /\ \A i \in 1..(Len(actions) - 1) : Tail(actions)[i] = actions[i + 1]
    BY <1>1, <1>3, TailPlaces
  <2>2. ASSUME NEW i \in 1..(Len(actions) - 1) PROVE Tail(actions)[i].is = "bash"
    <3>1. i + 1 \in DOMAIN actions /\ Tail(actions)[i] = actions[i + 1]
      BY <2>1
    <3> QED
      BY <1>1, <3>1
  <2> QED
    BY <1>3, <2>1, <2>2
<1> QED
  BY <1>2, <1>3

\* A new turn.
LEMMA BegunFlows ==
  ASSUME OneSession, TurnBegins, UNCHANGED <<active, running>>, errands' \subseteq TasksHere,
         sessions' \in [{"s1"} -> [messages : Seq(Unbroken), streaming : Seq(Triple)]],
         \A i \in DOMAIN actions' : actions'[i].is = "bash"
  PROVE  OneSession' /\ InFlow'
<1>1. sse' \in [of : {"s1"}, at : {"none", "connecting", "open", "broken", "over"}] /\ sse'.at = "connecting"
  BY DEF TurnBegins
<1>2. <<>> \in Seq(ServerEvent) /\ Len(<<>>) = 0
  BY EmptySeq
<1>3. OneSession'
  BY <1>1, <1>2 DEF OneSession, TurnBegins
<1>4. InFlow'
  <2>1. events' = <<>> /\ Buffer' = <<>> /\ 2..0 = {}
    BY DEF TurnBegins
  <2> QED
    BY <1>1, <1>2, <2>1 DEF InFlow, Gapless
<1> QED
  BY <1>3, <1>4

\* Every step that begins a turn.
LEMMA TurnsFlow ==
  ASSUME InputTypes, OneSession, Submit(FALSE) \/ Steer(FALSE) \/ Retry \/ BashCompleted \/ (TurnEndDequeues /\ ~Head(queue).bash)
  PROVE  TurnBegins /\ OneSession' /\ InFlow' /\ UNCHANGED <<running, habits, mishaps, posted>>
<1>1. entered + 1 \in Nat /\ active = "s1" /\ Here.messages \in Seq(Unbroken)
  BY ListTypes, HereIs
<1>2. UNCHANGED <<active, running, habits, mishaps, posted>>
  BY DEF Submit, Steer, Retry, BashCompleted, TurnEndDequeues, typing, atServer, counts
<1>3. actions' = actions \/ (actions # <<>> /\ actions' = Tail(actions))
  BY DEF Submit, Steer, Retry, BashCompleted, TurnEndDequeues, TakeAction
<1>4. \E ms \in Seq(Unbroken), input \in Nat, others \in {{}, {Errand("interrupt", active, 0)}} :
         SendUser(ms, input, others) \/ StartTurn(ms, input, others)
  <2>1. CASE Submit(FALSE)
    BY <1>1, <2>1 DEF Submit
  <2>2. CASE Steer(FALSE)
    <3> DEFINE kept == Last1(Here.messages, LAMBDA m : IF m.role = "assistant" /\ m.status = "streaming" THEN [m EXCEPT !.status = "aborted"] ELSE m)
    <3>1. SendUser(kept, entered', {Errand("interrupt", active, 0)}) /\ entered' = entered + 1
      BY <2>2 DEF Steer
    <3>2. kept \in Seq(Unbroken)
      BY <1>1, SteerKeepsLast
    <3> HIDE DEF kept
    <3> QED
      BY <1>1, <3>1, <3>2
  <2>3. CASE Retry
    BY <1>1, <2>3 DEF Retry
  <2>4. CASE BashCompleted
    <3>1. Head(actions) \in Reported
      BY <2>4, ListTypes, HeadTailProperties DEF BashCompleted, TakeAction
    <3>2. Head(actions).input \in Nat
      BY <3>1 DEF Reported
    <3> QED
      BY <1>1, <2>4, <3>2 DEF BashCompleted
  <2>5. CASE TurnEndDequeues /\ ~Head(queue).bash
    <3>1. Head(queue) \in Waiting
      BY <2>5, ListTypes, HeadTailProperties DEF TurnEndDequeues
    <3>2. Head(queue).input \in Nat
      BY <3>1 DEF Waiting
    <3>3. Completed \in Seq(Unbroken)
      BY CompletedIs
    <3> QED
      BY <2>5, <3>2, <3>3 DEF TurnEndDequeues
  <2> QED
    BY <2>1, <2>2, <2>3, <2>4, <2>5
<1>5. PICK ms \in Seq(Unbroken), input \in Nat, others \in {{}, {Errand("interrupt", active, 0)}} :
         SendUser(ms, input, others) \/ StartTurn(ms, input, others)
  BY <1>4
<1>6. TurnBegins /\ errands' \subseteq TasksHere /\ sessions' \in [{"s1"} -> [messages : Seq(Unbroken), streaming : Seq(Triple)]]
  BY <1>5, UserIsSent, TurnIsBegun
<1>7. \A i \in DOMAIN actions' : actions'[i].is = "bash"
  BY <1>3, ActionsStay
<1> QED
  BY <1>2, <1>6, <1>7, BegunFlows

-----------------------------------------------------------------------------
(* What the other steps do to the one session.                             *)

\* Nothing that the stream or the run is about.
Rests ==
    /\ Run' = Run /\ UNCHANGED <<events, sse, posted, mishaps, habits>>
    /\ Buffer' = Buffer /\ ("note" \notin habits => Unsettled' = Unsettled)

\* A bash command that steers: the stream is given up with its events in the channel.
GivesUp ==
    /\ UNCHANGED <<events, running, posted, mishaps, habits>>
    /\ sse' = [sse EXCEPT !.at = "none"] /\ Buffer' = None /\ Unsettled' = Unsettled

\* An event is handled.
Handles ==
    /\ UNCHANGED <<sse, running, posted, mishaps, habits>>
    /\ events # <<>> /\ events' = Tail(events)
    /\ \/ Got.is = "text" /\ Buffer # None /\ Buffer' = Append(Buffer, Got.at) /\ Unsettled' = Unsettled
       \/ Got.is \notin {"tool", "tool done"} /\ Buffer' = None /\ Unsettled' = Unsettled
       \/ Got.is = "tool" /\ Buffer' = Buffer /\ Unsettled' \subseteq Unsettled \cup {CallOf(Got)}
       \/ Got.is = "tool done" /\ Buffer' = Buffer /\ Unsettled' \subseteq Unsettled \ {CallOf(Got)}

\* The one session stays, whatever is taken from a list.
LEMMA SessionStays ==
  ASSUME InputTypes, OneSession, active' = active, running' \in [Tabs -> RunType], errands' \subseteq TasksHere,
         sessions' \in [{"s1"} -> [messages : Seq(Unbroken), streaming : Seq(Triple)]],
         sse' \in [of : {"s1"}, at : {"none", "connecting", "open", "broken", "over"}],
         events' = events \/ (events # <<>> /\ events' = Tail(events)),
         actions' = actions \/ (actions # <<>> /\ actions' = Tail(actions))
  PROVE  OneSession'
<1>1. \A i \in DOMAIN actions' : actions'[i].is = "bash"
  BY ActionsStay
<1>2. events' \in Seq(ServerEvent)
  <2>1. events \in Seq(ServerEvent)
    BY DEF OneSession
  <2>2. events # <<>> => Tail(events) \in Seq(ServerEvent)
    BY <2>1, TailPlaces
  <2> HIDE DEF ServerEvent
  <2> QED
    BY <2>1, <2>2
<1>3. active' = "s1"
  BY DEF OneSession
<1> QED
  BY <1>1, <1>2, <1>3 DEF OneSession

\* The parts of OneSession.
LEMMA SessionParts ==
  ASSUME OneSession
  PROVE  /\ active = "s1" /\ running \in [Tabs -> RunType] /\ errands \subseteq TasksHere /\ events \in Seq(ServerEvent)
         /\ sessions \in [{"s1"} -> [messages : Seq(Unbroken), streaming : Seq(Triple)]]
         /\ sse \in [of : {"s1"}, at : {"none", "connecting", "open", "broken", "over"}]
         /\ "s1" \in Tabs /\ Run \in RunType
<1>1. running \in [Tabs -> RunType] /\ "s1" \in Tabs
  BY TuiAssumption DEF OneSession, TuiAssumption
<1>2. Run \in RunType
  BY <1>1 DEF Run
<1> QED
  BY <1>1, <1>2 DEF OneSession

\* Tasks that start.
LEMMA TasksStay ==
  ASSUME OneSession
  PROVE  \A n \in Nat : Errand("interrupt", active, 0) \in TasksHere /\ Errand("bash", "", n) \in TasksHere
<1>1. active = "s1"
  BY DEF OneSession
<1> QED
  BY <1>1 DEF Errand, TasksHere

\* What is asked for but touches no message.
LEMMA AskRests ==
  ASSUME InputTypes, OneSession, Submit(TRUE) \/ (\E bash \in BOOLEAN : Enqueue(bash)) \/ RestoreQueue
  PROVE  OneSession' /\ Rests
<1>1. UNCHANGED <<active, sessions, sse, events, running, posted, mishaps, actions, habits>>
  BY DEF Submit, Enqueue, RestoreQueue, typing, atServer, counts
<1>2. errands' \subseteq TasksHere
  <2>1. entered + 1 \in Nat
    BY ListTypes
  <2>2. errands' = errands \/ errands' = errands \cup {Errand("bash", "", entered + 1)}
    BY DEF Submit, Enqueue, RestoreQueue
  <2>3. Errand("bash", "", entered + 1) \in TasksHere /\ errands \subseteq TasksHere
    BY <2>1, SessionParts, TasksStay
  <2> HIDE DEF TasksHere
  <2> QED
    BY <2>2, <2>3
<1>3. Buffer' = Buffer /\ Unsettled' = Unsettled
  BY <1>1 DEF Buffer, Unsettled
<1>4. OneSession'
  BY <1>1, <1>2, SessionParts, SessionStays
<1> QED
  BY <1>1, <1>3, <1>4 DEF Rests, Run

\* An interrupt marks the last message.
LEMMA InterruptRests ==
  ASSUME InputTypes, OneSession, Interrupt
  PROVE  OneSession' /\ Rests
<1> DEFINE ms == Here.messages
           r == IF ms = <<>> THEN ms ELSE [ms EXCEPT ![Len(ms)] = [ms[Len(ms)] EXCEPT !.status = "aborted"]]
<1>1. UNCHANGED <<active, sse, events, running, posted, mishaps, actions, habits>>
  BY DEF Interrupt, typing, atServer, counts
<1>2. errands' \subseteq TasksHere
  <2>1. errands' = errands \cup {Errand("interrupt", active, 0)}
    BY DEF Interrupt
  <2> QED
    BY <2>1, SessionParts, TasksStay
<1>3. ms \in Seq(Unbroken) /\ LastPending(ms) = Unsettled /\ Buffer \in Seq(Triple)
  BY HereIs
<1>4. sessions' = [sessions EXCEPT ![active].messages = r]
  BY HereIs, SessionParts DEF Interrupt, Last1
<1>5. r \in Seq(Unbroken) /\ LastPending(r) = LastPending(ms)
  <2> HIDE DEF ms
  <2> QED
    BY <1>3, LastStatus
<1> HIDE DEF r, ms
<1>6. sessions' \in [{"s1"} -> [messages : Seq(Unbroken), streaming : Seq(Triple)]] /\ Buffer' = Buffer /\ Unsettled' = LastPending(r)
  BY <1>3, <1>4, <1>5, SessionSet
<1>7. OneSession'
  BY <1>1, <1>2, <1>6, SessionParts, SessionStays
<1> QED
  BY <1>1, <1>3, <1>5, <1>6, <1>7 DEF Rests, Run

\* A command about messages.
LEMMA NoteRests ==
  ASSUME InputTypes, OneSession, Note
  PROVE  OneSession' /\ Rests
<1> DEFINE m == RenderedMessage("assistant", "complete", 0)
<1>1. UNCHANGED <<active, sse, events, running, posted, mishaps, actions, habits, errands>> /\ "note" \in habits
  BY DEF Note, typing, atServer
<1>2. PICK messages \in {<<>>, Append(Here.messages, m)} : sessions' = [sessions EXCEPT ![active].messages = messages]
  BY DEF Note
<1>3. m \in Unbroken
  BY MessageMade
<1>4. messages \in Seq(Unbroken) /\ Buffer \in Seq(Triple)
  <2> HIDE DEF m
  <2>1. Here.messages \in Seq(Unbroken) /\ Buffer \in Seq(Triple)
    BY HereIs
  <2>2. <<>> \in Seq(Unbroken)
    BY EmptySeq
  <2> QED
    <3>1. Append(Here.messages, m) \in Seq(Unbroken)
      BY <1>3, <2>1, AppendProperties
    <3> QED
      BY <1>2, <2>1, <2>2, <3>1
<1>5. sessions' \in [{"s1"} -> [messages : Seq(Unbroken), streaming : Seq(Triple)]] /\ Buffer' = Buffer
  BY <1>2, <1>4, SessionSet
<1>6. OneSession'
  BY <1>1, <1>5, SessionParts, SessionStays
<1> QED
  BY <1>1, <1>5, <1>6 DEF Rests, Run

\* No buffer.
LEMMA NoneIsBuffer == None \in Seq(Triple) /\ None # <<>>
<1>1. <<0, 0, 0>> \in Triple
  BY DEF Triple
<1>2. None = Append(<<>>, <<0, 0, 0>>)
  BY DEF None
<1> QED
  BY <1>1, <1>2, EmptySeq, AppendProperties DEF None

\* The stream and its buffer are given up.
LEMMA SteerGivesUp ==
  ASSUME InputTypes, OneSession, Steer(TRUE)
  PROVE  OneSession' /\ GivesUp
<1> DEFINE kept == Last1(Here.messages, LAMBDA m : IF m.role = "assistant" /\ m.status = "streaming" THEN [m EXCEPT !.status = "aborted"] ELSE m)
<1>1. UNCHANGED <<active, events, running, posted, mishaps, actions, habits>> /\ sse' = [sse EXCEPT !.at = "none"]
  BY DEF Steer, atServer, counts
<1>2. errands' \subseteq TasksHere
  <2>1. entered + 1 \in Nat
    BY ListTypes
  <2>2. errands' = errands \cup {Errand("interrupt", active, 0), Errand("bash", "", entered + 1)}
    BY DEF Steer
  <2> QED
    BY <2>1, <2>2, SessionParts, TasksStay
<1>3. sessions' = [sessions EXCEPT ![active] = [messages |-> kept, streaming |-> None]]
  BY DEF Steer
<1>4. kept \in Seq(Unbroken) /\ LastPending(kept) = Unsettled
  BY HereIs, SteerKeepsLast
<1> HIDE DEF kept
<1>5. sessions' \in [{"s1"} -> [messages : Seq(Unbroken), streaming : Seq(Triple)]] /\ Buffer' = None /\ Unsettled' = LastPending(kept)
  BY <1>3, <1>4, NoneIsBuffer, SessionSet
<1>6. sse' \in [of : {"s1"}, at : {"none", "connecting", "open", "broken", "over"}]
  BY <1>1, SessionParts
<1>7. OneSession'
  BY <1>1, <1>2, <1>5, <1>6, SessionParts, SessionStays
<1> QED
  BY <1>1, <1>4, <1>5, <1>7 DEF GivesUp

\* What the events of a turn leave.
LEMMA HandleStays ==
  ASSUME InputTypes, OneSession, events # <<>>, events' = Tail(events), UNCHANGED <<active, sse, running>>,
         errands' \subseteq TasksHere, actions' = actions, NEW ms \in Seq(Unbroken), NEW shown \in Seq(Triple),
         \/ sessions' = [sessions EXCEPT ![active] = [messages |-> ms, streaming |-> shown]]
         \/ sessions' = [sessions EXCEPT ![active].messages = ms] /\ shown = Buffer
  PROVE  OneSession' /\ Buffer' = shown /\ Unsettled' = LastPending(ms)
<1>1. sessions' \in [{"s1"} -> [messages : Seq(Unbroken), streaming : Seq(Triple)]] /\ Buffer' = shown /\ Unsettled' = LastPending(ms)
  BY SessionSet
<1>2. OneSession'
  BY <1>1, SessionParts, SessionStays
<1> QED
  BY <1>1, <1>2

\* What an event is.
LEMMA GotIs ==
  ASSUME OneSession, events # <<>>
  PROVE  /\ Got = events[1] /\ Got \in ServerEvent
         /\ Got.is # "error" => Got.at \in Triple /\ CallOf(Got) \in Nat \X Nat
<1>1. events \in Seq(ServerEvent)
  BY SessionParts
<1>2. Got = events[1] /\ Got \in ServerEvent
  BY <1>1, TailPlaces DEF Got
<1>3. Got.is # "error" => Got.at \in Triple
  BY <1>2 DEF ServerEvent
<1>4. Got.at \in Triple => CallOf(Got) \in Nat \X Nat
  BY DEF Triple, CallOf
<1> QED
  BY <1>2, <1>3, <1>4

\* Text that nobody waits for.
LEMMA IdleHandles ==
  ASSUME InputTypes, OneSession, IdleDelta
  PROVE  OneSession' /\ Handles
<1>1. events # <<>> /\ events' = Tail(events) /\ UNCHANGED <<active, sessions, sse, running, posted, mishaps, actions, habits, errands>>
      /\ Got.is = "text" /\ Here.streaming = None
  BY DEF IdleDelta, Take, typing, atServer, counts
<1>2. Buffer = None /\ Buffer' = None /\ Unsettled' = Unsettled
  <2>1. Buffer' = Buffer /\ Unsettled' = Unsettled
    BY <1>1 DEF Buffer, Unsettled
  <2> QED
    BY <1>1, <2>1, HereIs
<1>3. OneSession'
  BY <1>1, SessionParts, SessionStays
<1> QED
  BY <1>1, <1>2, <1>3 DEF Handles

\* An error, and the end of a turn, close the turn that is shown.
LEMMA ErrorHandles ==
  ASSUME InputTypes, OneSession, ServerError
  PROVE  OneSession' /\ Handles
<1> DEFINE ms == Here.messages
           r == IF ms = <<>> THEN ms ELSE [ms EXCEPT ![Len(ms)] = [ms[Len(ms)] EXCEPT !.status = "error"]]
<1>1. events # <<>> /\ events' = Tail(events) /\ UNCHANGED <<active, sse, running, posted, mishaps, actions, habits, errands>>
      /\ Got.is = "error"
  BY DEF ServerError, Take, typing, atServer, counts
<1>2. sessions' = [sessions EXCEPT ![active] = [messages |-> r, streaming |-> None]]
  BY DEF ServerError, Last1
<1>3. ms \in Seq(Unbroken) /\ LastPending(ms) = Unsettled
  BY HereIs
<1>4. r \in Seq(Unbroken) /\ LastPending(r) = LastPending(ms)
  <2> HIDE DEF ms
  <2> QED
    BY <1>3, LastStatus
<1>5. errands' \subseteq TasksHere
  BY <1>1, SessionParts
<1> HIDE DEF r, ms
<1>6. OneSession' /\ Buffer' = None /\ Unsettled' = LastPending(r)
  BY <1>1, <1>2, <1>4, <1>5, NoneIsBuffer, HandleStays
<1> QED
  BY <1>1, <1>3, <1>4, <1>6 DEF Handles

\* The end of a turn.
LEMMA EndHandles ==
  ASSUME InputTypes, OneSession, TurnEnd \/ (TurnEndDequeues /\ Head(queue).bash)
  PROVE  OneSession' /\ Handles
<1>1. events # <<>> /\ events' = Tail(events) /\ UNCHANGED <<active, sse, running, posted, mishaps, actions, habits>>
      /\ Got.is = "turn end"
  BY DEF TurnEnd, TurnEndDequeues, Take, typing, atServer, counts
<1>2. sessions' = [sessions EXCEPT ![active] = [messages |-> Completed, streaming |-> None]]
  BY DEF TurnEnd, TurnEndDequeues
<1>3. Completed \in Seq(Unbroken) /\ LastPending(Completed) = Unsettled
  BY CompletedIs
<1>4. errands' \subseteq TasksHere
  <2>1. CASE TurnEnd
    BY <2>1, SessionParts DEF TurnEnd
  <2>2. CASE TurnEndDequeues /\ Head(queue).bash
    <3> DEFINE n == Head(queue).input
    <3>1. errands' = errands \cup {Errand("bash", "", n)}
      BY <2>2 DEF TurnEndDequeues
    <3>2. n \in Nat
      <4>1. Head(queue) \in Waiting
        BY <2>2, ListTypes, HeadTailProperties DEF TurnEndDequeues
      <4> QED
        BY <4>1 DEF Waiting
    <3> HIDE DEF n
    <3>3. Errand("bash", "", n) \in TasksHere /\ errands \subseteq TasksHere
      BY <3>2, TasksStay, SessionParts
    <3> HIDE DEF TasksHere
    <3> QED
      BY <3>1, <3>3
  <2> QED
    BY <2>1, <2>2
<1>5. OneSession' /\ Buffer' = None /\ Unsettled' = LastPending(Completed)
  BY <1>1, <1>2, <1>3, <1>4, NoneIsBuffer, HandleStays
<1> QED
  BY <1>1, <1>3, <1>5 DEF Handles

\* A call is told of, and is done.
LEMMA CallHandles ==
  ASSUME InputTypes, OneSession, ToolCall
  PROVE  OneSession' /\ Handles
<1> DEFINE ms == Here.messages
           call == <<Got.at[1], Got.at[2]>>
           told(m) == [m EXCEPT !.pending = @ \cup {call}]
           done(m) == [m EXCEPT !.pending = @ \ {call}, !.settled = @ \cup {call}]
           marks(m) == IF Got.is = "tool" THEN told(m) ELSE IF call \in m.pending THEN done(m) ELSE m
           r == Last1(ms, marks)
<1>1. events # <<>> /\ events' = Tail(events) /\ UNCHANGED <<active, sse, running, posted, mishaps, actions, habits, errands>>
      /\ Got.is \in {"tool", "tool done"}
  BY DEF ToolCall, Take, typing, atServer, counts
<1>2. sessions' = [sessions EXCEPT ![active].messages = r]
  BY HereIs, SessionParts DEF ToolCall
<1>3. ms \in Seq(Unbroken) /\ LastPending(ms) = Unsettled /\ Buffer \in Seq(Triple)
  BY HereIs
<1>4. call \in Nat \X Nat /\ call = CallOf(Got)
  <2>1. call = CallOf(Got)
    BY DEF CallOf
  <2>2. CallOf(Got) \in Nat \X Nat
    BY <1>1, GotIs
  <2> QED
    BY <2>1, <2>2
<1>5. r \in Seq(Unbroken) /\ LastPending(r) \subseteq IF Got.is = "tool" THEN LastPending(ms) \cup {call} ELSE LastPending(ms) \ {call}
  <2>1. CASE ms = <<>>
    BY <1>3, <2>1 DEF Last1, LastPending
  <2>2. CASE ms # <<>>
    <3> DEFINE m == ms[Len(ms)]
               v == marks(m)
    <3>1. m \in Unbroken
      BY <1>3, <2>2, LenProperties, EmptySeq
    <3>2. told(m) \in Unbroken /\ told(m).pending = m.pending \cup {call} /\ done(m) \in Unbroken /\ done(m).pending = m.pending \ {call}
      <4> HIDE DEF m, call
      <4> QED
        BY <1>4, <3>1, CallMarked
    <3>3. v \in Unbroken /\ v.pending \subseteq IF Got.is = "tool" THEN m.pending \cup {call} ELSE m.pending \ {call}
      <4> HIDE DEF told, done, call, m
      <4> QED
        BY <3>1, <3>2
    <3>4. LastPending(ms) = m.pending
      BY <2>2 DEF LastPending
    <3>5. r = [ms EXCEPT ![Len(ms)] = v]
      BY <2>2 DEF Last1
    <3> HIDE DEF v, m
    <3>6. r \in [DOMAIN ms -> Unbroken] /\ r[Len(ms)] = v
      <4>1. ms \in [DOMAIN ms -> Unbroken] /\ Len(ms) \in DOMAIN ms
        BY <1>3, <2>2, LenProperties, EmptySeq
      <4> HIDE DEF r, ms
      <4> QED
        BY <3>3, <3>5, <4>1
    <3> HIDE DEF r, ms
    <3>7. r \in Seq(Unbroken) /\ LastPending(r) = r[Len(ms)].pending
      BY <1>3, <2>2, <3>6, LastReplaced
    <3> QED
      BY <3>3, <3>4, <3>6, <3>7
  <2> QED
    BY <2>1, <2>2
<1>6. errands' \subseteq TasksHere
  BY <1>1, SessionParts
<1> HIDE DEF r, ms
<1>7. OneSession' /\ Buffer' = Buffer /\ Unsettled' = LastPending(r)
  BY <1>1, <1>2, <1>3, <1>5, <1>6, HandleStays
<1> HIDE DEF call
<1>8. Unsettled' \subseteq IF Got.is = "tool" THEN Unsettled \cup {CallOf(Got)} ELSE Unsettled \ {CallOf(Got)}
  BY <1>3, <1>4, <1>5, <1>7
<1> QED
  BY <1>1, <1>7, <1>8 DEF Handles

\* A text goes on with the next piece.
LEMMA TextGoesOn ==
  ASSUME NEW text \in Seq(Triple), NEW at \in Triple, Gapless(text), text # <<>> => at = Succ(text[Len(text)])
  PROVE  /\ Append(text, at) \in Seq(Triple) /\ Gapless(Append(text, at))
         /\ Append(text, at)[Len(Append(text, at))] = at
<1> DEFINE n == Len(text)
           r == Append(text, at)
<1>1. n \in Nat /\ r \in Seq(Triple) /\ Len(r) = n + 1 /\ r[n + 1] = at /\ \A k \in 1..n : r[k] = text[k]
  BY AppendProperties, LenProperties
<1> HIDE DEF r
<1>2. ASSUME NEW k \in 2..(n + 1) PROVE r[k] = Succ(r[k - 1])
  <2>1. CASE k # n + 1
    <3>1. k \in 2..n /\ k \in 1..n /\ k - 1 \in 1..n
      BY <1>1, <2>1
    <3>2. text[k] = Succ(text[k - 1])
      BY <3>1 DEF Gapless
    <3> QED
      BY <1>1, <3>1, <3>2
  <2>2. CASE k = n + 1
    <3>1. n \in 1..n /\ k - 1 = n /\ n # 0
      BY <1>1, <1>2, <2>2
    <3>2. text # <<>>
      BY <3>1
    <3> QED
      BY <1>1, <2>2, <3>1, <3>2
  <2> QED
    BY <2>1, <2>2
<1>3. Gapless(r)
  BY <1>1, <1>2 DEF Gapless
<1> QED
  BY <1>1, <1>3 DEF r

\* The piece that is next.
LEMMA NextPiece ==
  ASSUME OneSession, InFlow, events # <<>>, Got.is = "text", Buffer # None
  PROVE  /\ Append(Buffer, Got.at) \in Seq(Triple) /\ Gapless(Append(Buffer, Got.at))
         /\ Append(Buffer, Got.at)[Len(Append(Buffer, Got.at))] = Got.at
<1>1. Got = events[1] /\ Got.at \in Triple /\ Buffer \in Seq(Triple)
  BY GotIs, HereIs
<1>2. Gapless(Buffer)
  BY DEF InFlow
<1>3. Buffer # <<>> => Got.at = Succ(Buffer[Len(Buffer)])
  <2>1. SUFFICES ASSUME Buffer # <<>> PROVE Got.at = Succ(Buffer[Len(Buffer)])
    OBVIOUS
  <2>2. Precedes(TextEvent(Buffer[Len(Buffer)]), events[1])
    BY <2>1 DEF InFlow
  <2> QED
    BY <1>1, <2>2 DEF Precedes, TextEvent
<1> QED
  BY <1>1, <1>2, <1>3, TextGoesOn

\* A piece of text continues what is shown.
LEMMA TextHandles ==
  ASSUME InputTypes, OneSession, InFlow, TextDelta
  PROVE  OneSession' /\ Handles
<1> DEFINE ms == Here.messages
           shown == Append(Buffer, Got.at)
           r == IF ms = <<>> THEN ms ELSE [ms EXCEPT ![Len(ms)] = [ms[Len(ms)] EXCEPT !.text = shown]]
<1>1. events # <<>> /\ events' = Tail(events) /\ UNCHANGED <<active, sse, running, posted, mishaps, actions, habits, errands>>
      /\ Got.is = "text" /\ Buffer # None
  BY HereIs DEF TextDelta, Take, typing, atServer, counts
<1>2. sessions' = [sessions EXCEPT ![active] = [messages |-> r, streaming |-> shown]]
  BY HereIs DEF TextDelta, Last1
<1>3. ms \in Seq(Unbroken) /\ LastPending(ms) = Unsettled /\ Buffer \in Seq(Triple)
  BY HereIs
<1>4. shown \in Seq(Triple) /\ Gapless(shown)
  BY <1>1, NextPiece
<1> HIDE DEF shown
<1>5. r \in Seq(Unbroken) /\ LastPending(r) = LastPending(ms)
  <2>1. CASE ms = <<>>
    BY <1>3, <2>1
  <2>2. CASE ms # <<>>
    <3> DEFINE m == ms[Len(ms)]
               v == [m EXCEPT !.text = shown]
    <3>1. m \in Unbroken
      BY <1>3, <2>2, LenProperties, EmptySeq
    <3>2. v \in Unbroken /\ v.pending = m.pending
      <4> HIDE DEF m
      <4> QED
        BY <1>4, <3>1, TextChanged
    <3>3. LastPending(ms) = m.pending
      BY <2>2 DEF LastPending
    <3>4. r = [ms EXCEPT ![Len(ms)] = v]
      BY <2>2
    <3> HIDE DEF v, m
    <3>5. r \in [DOMAIN ms -> Unbroken] /\ r[Len(ms)] = v
      <4>1. ms \in [DOMAIN ms -> Unbroken] /\ Len(ms) \in DOMAIN ms
        BY <1>3, <2>2, LenProperties, EmptySeq
      <4> HIDE DEF r, ms
      <4> QED
        BY <3>2, <3>4, <4>1
    <3> HIDE DEF r, ms
    <3>6. r \in Seq(Unbroken) /\ LastPending(r) = r[Len(ms)].pending
      BY <1>3, <2>2, <3>5, LastReplaced
    <3> QED
      BY <3>2, <3>3, <3>5, <3>6
  <2> QED
    BY <2>1, <2>2
<1>6. errands' \subseteq TasksHere
  BY <1>1, SessionParts
<1> HIDE DEF r, ms
<1>7. OneSession' /\ Buffer' = shown /\ Unsettled' = LastPending(r)
  BY <1>1, <1>2, <1>4, <1>5, <1>6, HandleStays
<1> QED
  BY <1>1, <1>3, <1>5, <1>7 DEF Handles, shown

-----------------------------------------------------------------------------
(* What is on its way goes on where the message that is shown stops.       *)

\* Nothing of it changes.
LEMMA RestsFlow ==
  ASSUME InFlow, Rests
  PROVE  InFlow'
<1>1. Buffer' = Buffer /\ events' = events /\ sse' = sse /\ Run' = Run
  BY DEF Rests
<1> QED
  BY <1>1 DEF InFlow

\* Without a buffer, nothing is shown to go on.
LEMMA GivingUpFlows ==
  ASSUME OneSession, InFlow, GivesUp
  PROVE  InFlow'
<1>1. Buffer' = None /\ events' = events /\ sse'.at = "none"
  BY SessionParts DEF GivesUp
<1> QED
  BY <1>1 DEF InFlow

\* The first event, and the events after it.
LEMMA EventsGoOn ==
  ASSUME OneSession, InFlow, events # <<>>
  PROVE  /\ Len(events) \in Nat /\ Len(events) >= 1 /\ Len(Tail(events)) = Len(events) - 1
         /\ \A k \in 2..Len(Tail(events)) : Precedes(Tail(events)[k - 1], Tail(events)[k])
         /\ Tail(events) = <<>> <=> Len(events) = 1
         /\ Tail(events) # <<>> => /\ Tail(events)[1] = events[2] /\ Precedes(events[1], events[2])
                                   /\ Tail(events)[Len(Tail(events))] = events[Len(events)]
         /\ events[1] = Got /\ events[Len(events)] \in ServerEvent
<1>1. events \in Seq(ServerEvent)
  BY SessionParts
<1> DEFINE n == Len(events)
<1>2. /\ n \in Nat /\ n >= 1 /\ Len(Tail(events)) = n - 1 /\ (Tail(events) = <<>> <=> n = 1)
      /\ Head(events) = events[1] /\ \A i \in 1..(n - 1) : Tail(events)[i] = events[i + 1]
  BY <1>1, TailPlaces
<1>3. \A k \in 2..n : Precedes(events[k - 1], events[k])
  BY DEF InFlow
<1>4. ASSUME NEW k \in 2..(n - 1) PROVE Precedes(Tail(events)[k - 1], Tail(events)[k])
  <2>1. k + 1 \in 2..n /\ k \in 1..(n - 1) /\ k - 1 \in 1..(n - 1) /\ (k - 1) + 1 = k /\ (k + 1) - 1 = k
    BY <1>2
  <2>2. Tail(events)[k] = events[k + 1] /\ Tail(events)[k - 1] = events[(k - 1) + 1]
    BY <1>2, <2>1
  <2>3. Precedes(events[(k + 1) - 1], events[k + 1])
    BY <1>3, <2>1
  <2> QED
    BY <2>1, <2>2, <2>3
<1>5. n # 1 => Tail(events)[1] = events[2] /\ Precedes(events[1], events[2]) /\ Tail(events)[n - 1] = events[n]
  <2>1. SUFFICES ASSUME n # 1 PROVE Tail(events)[1] = events[2] /\ Precedes(events[1], events[2]) /\ Tail(events)[n - 1] = events[n]
    OBVIOUS
  <2>2. 2 \in 2..n /\ 1 \in 1..(n - 1) /\ n - 1 \in 1..(n - 1) /\ (n - 1) + 1 = n /\ 2 - 1 = 1 /\ 1 + 1 = 2
    BY <1>2, <2>1
  <2>3. Tail(events)[1] = events[1 + 1] /\ Tail(events)[n - 1] = events[(n - 1) + 1]
    BY <1>2, <2>2
  <2>4. Precedes(events[2 - 1], events[2])
    BY <1>3, <2>2
  <2> QED
    BY <2>2, <2>3, <2>4
<1>6. events[n] \in ServerEvent
  <2>1. n \in 1..n
    BY <1>2
  <2> QED
    BY <1>1, <2>1, LenProperties
<1>7. Got = events[1]
  BY <1>1, TailPlaces DEF Got
<1> HIDE DEF n
<1> QED
  BY <1>2, <1>4, <1>5, <1>6, <1>7 DEF n

\* An event that is handled.
LEMMA HandlingFlows ==
  ASSUME OneSession, InFlow, Handles
  PROVE  InFlow'
<1> DEFINE n == Len(events)
           rest == Tail(events)
           b == Buffer'
<1>1. events # <<>> /\ events' = rest /\ sse' = sse /\ Run' = Run
  BY DEF Handles, Run
<1>2. /\ n \in Nat /\ n >= 1 /\ Len(rest) = n - 1 /\ (rest = <<>> <=> n = 1)
      /\ \A k \in 2..Len(rest) : Precedes(rest[k - 1], rest[k])
      /\ rest # <<>> => rest[1] = events[2] /\ Precedes(events[1], events[2]) /\ rest[Len(rest)] = events[n]
      /\ events[1] = Got
  BY <1>1, EventsGoOn
<1>3. sse.at # "connecting" /\ (sse.at = "broken" => events[n].is \notin OfTurn) /\ (sse.at = "open" => LastOf(events[n], Run))
  BY <1>1 DEF InFlow
<1>4. b = None \/ (/\ b # None => Gapless(b)
                   /\ b # None /\ b # <<>> /\ rest # <<>> => Precedes(TextEvent(b[Len(b)]), events[2])
                   /\ sse.at = "open" /\ rest = <<>> /\ b # None /\ b # <<>> => LastOf(TextEvent(b[Len(b)]), Run)
                   /\ Got.is \in OfTurn)
  <2>1. CASE Got.is = "text" /\ Buffer # None /\ b = Append(Buffer, Got.at)
    <3>1. Gapless(b) /\ b[Len(b)] = Got.at
      BY <1>1, <2>1, NextPiece
    <3>2. rest # <<>> => Precedes(TextEvent(Got.at), events[2])
      BY <1>2, <2>1 DEF Precedes, TextEvent
    <3>3. sse.at = "open" /\ rest = <<>> => LastOf(TextEvent(Got.at), Run)
      BY <1>2, <1>3, <2>1 DEF LastOf, TextEvent, OfTurn
    <3> HIDE DEF b
    <3> QED
      BY <2>1, <3>1, <3>2, <3>3 DEF OfTurn
  <2>2. CASE b = None
    BY <2>2
  <2>3. CASE Got.is \in {"tool", "tool done"} /\ b = Buffer
    <3>1. b # None => Gapless(b)
      BY <2>3 DEF InFlow
    <3>2. rest # <<>> => events[2].is # "text"
      BY <1>2, <2>3 DEF Precedes
    <3>3. rest # <<>> => Precedes(TextEvent(b[Len(b)]), events[2])
      BY <3>2 DEF Precedes, TextEvent
    <3>4. sse.at = "open" /\ rest = <<>> => Run.call # "none"
      BY <1>2, <1>3, <2>3 DEF LastOf, OfTurn
    <3>5. sse.at = "open" /\ rest = <<>> => LastOf(TextEvent(b[Len(b)]), Run)
      BY <3>4 DEF LastOf
    <3> HIDE DEF b
    <3> QED
      BY <2>3, <3>1, <3>3, <3>5 DEF OfTurn
  <2> QED
    BY <2>1, <2>2, <2>3 DEF Handles
<1>5. sse.at = "broken" => IF rest = <<>> THEN b = None ELSE rest[Len(rest)].is \notin OfTurn
  <2>1. rest = <<>> => events[n] = Got
    BY <1>2
  <2> HIDE DEF b, rest, n
  <2> QED
    BY <1>2, <1>3, <1>4, <2>1
<1>6. sse.at = "open" /\ rest # <<>> => LastOf(rest[Len(rest)], Run)
  BY <1>2, <1>3
<1> HIDE DEF n, rest
<1>7. \A k \in 2..Len(events') : Precedes(events'[k - 1], events'[k])
  BY <1>1, <1>2
<1> QED
  BY <1>1, <1>2, <1>3, <1>4, <1>5, <1>6, <1>7 DEF InFlow

-----------------------------------------------------------------------------
(* What the run says, and what is posted.                                  *)

\* What a run says next, and the run then.
Says(run, event, next) ==
    /\ event \in ServerEvent /\ next \in RunType
    /\ event.is # "error" => CallOf(event) = CallIn(run)
    /\ \/ event.is = "text" /\ run.call = "none" /\ event.at = <<next.input, next.turn, next.piece>> /\ next.piece = run.piece + 1
          /\ next.input = run.input /\ next.turn = run.turn /\ next.call = "none"
       \/ event.is = "tool" /\ run.call = "none" /\ next.input = run.input /\ next.turn = run.turn /\ next.call = "called"
       \/ event.is = "tool done" /\ run.call = "called" /\ next.input = run.input /\ next.turn = run.turn /\ next.call = "done"
       \/ event.is = "turn end" /\ run.call = "done" /\ next.input = run.input /\ next.turn = run.turn + 1
       \/ event.is = "turn end" /\ run.call = "none" /\ next = NoRun
       \/ event.is = "error" /\ next = NoRun

Speaks ==
    /\ Run # NoRun /\ UNCHANGED <<sse, posted, mishaps, habits>> /\ Buffer' = Buffer /\ Unsettled' = Unsettled
    /\ \E event \in ServerEvent : /\ Says(Run, event, Run')
                                  /\ events' = IF sse.at = "open" THEN Append(events, event) ELSE events

\* An input is posted, and begins the run if there is none.
BegunRun(n) == [input |-> n, turn |-> 1, piece |-> 0, call |-> "none"]
Posts ==
    /\ UNCHANGED <<events, sse, mishaps, habits>> /\ Buffer' = Buffer /\ Unsettled' = Unsettled
    /\ \E p \in Given : /\ InPosted(p.input) = 0 /\ posted' = Append(posted, p)
                        /\ Run' = Run \/ (Run = NoRun /\ Run' = BegunRun(p.input))

\* An event more.
LEMMA EventFollows ==
  ASSUME OneSession, InFlow, NEW event \in ServerEvent, events' = Append(events, event), Buffer' = Buffer,
         events # <<>> => Precedes(events[Len(events)], event),
         events = <<>> /\ Buffer # None /\ Buffer # <<>> => Precedes(TextEvent(Buffer[Len(Buffer)]), event)
  PROVE  /\ events' # <<>> /\ events'[Len(events')] = event
         /\ \A k \in 2..Len(events') : Precedes(events'[k - 1], events'[k])
         /\ Buffer # None /\ Buffer # <<>> => Precedes(TextEvent(Buffer[Len(Buffer)]), events'[1])
<1> DEFINE n == Len(events)
<1>1. events \in Seq(ServerEvent)
  BY SessionParts
<1>2. n \in Nat /\ Len(events') = n + 1 /\ events'[n + 1] = event /\ \A k \in 1..n : events'[k] = events[k]
  BY <1>1, AppendProperties, LenProperties
<1>3. ASSUME NEW k \in 2..(n + 1) PROVE Precedes(events'[k - 1], events'[k])
  <2>1. CASE k # n + 1
    <3>1. k \in 2..n /\ k \in 1..n /\ k - 1 \in 1..n
      BY <1>2, <1>3, <2>1
    <3>2. Precedes(events[k - 1], events[k])
      BY <3>1 DEF InFlow
    <3> QED
      BY <1>2, <3>1, <3>2
  <2>2. CASE k = n + 1
    <3>1. n \in 1..n /\ k - 1 = n /\ n # 0
      BY <1>2, <1>3, <2>2
    <3>2. events # <<>>
      BY <3>1
    <3>3. events'[k - 1] = events[n] /\ events'[k] = event
      BY <1>2, <2>2, <3>1
    <3> QED
      BY <3>2, <3>3
  <2> QED
    BY <2>1, <2>2
<1>4. Buffer # None /\ Buffer # <<>> => Precedes(TextEvent(Buffer[Len(Buffer)]), events'[1])
  <2>1. SUFFICES ASSUME Buffer # None, Buffer # <<>> PROVE Precedes(TextEvent(Buffer[Len(Buffer)]), events'[1])
    OBVIOUS
  <2>2. CASE events # <<>>
    <3>1. n # 0
      BY <1>1, <2>2, EmptySeq
    <3>2. events'[1] = events[1]
      BY <1>2, <3>1
    <3> QED
      BY <2>1, <2>2, <3>2 DEF InFlow
  <2>3. CASE events = <<>>
    <3>1. events'[1] = event
      BY <1>2, <2>3
    <3> QED
      BY <2>1, <2>3, <3>1
  <2> QED
    BY <2>2, <2>3
<1> HIDE DEF n
<1> QED
  BY <1>2, <1>3, <1>4

\* The run goes on where the last event is.
LEMMA SpeakingFlows ==
  ASSUME OneSession, InFlow, Speaks
  PROVE  InFlow'
<1>1. PICK event \in ServerEvent : Says(Run, event, Run') /\ events' = IF sse.at = "open" THEN Append(events, event) ELSE events
  BY DEF Speaks
<1>2. sse' = sse /\ Buffer' = Buffer /\ Run # NoRun
  BY DEF Speaks
<1>3. CASE sse.at # "open"
  BY <1>1, <1>2, <1>3 DEF InFlow
<1>4. CASE sse.at = "open"
  <2>1. events \in Seq(ServerEvent) /\ Run \in RunType /\ events' = Append(events, event)
    BY <1>1, <1>4, SessionParts
  <2>2. LastOf(event, Run')
    <3>1. CASE event.is = "text"
      <4>1. Run'.piece = Run.piece + 1 /\ Run.piece \in Nat /\ event.at = <<Run'.input, Run'.turn, Run'.piece>>
        BY <1>1, <2>1, <3>1 DEF Says, RunType
      <4>2. Run' # NoRun
        BY <4>1 DEF NoRun
      <4> QED
        BY <3>1, <4>1, <4>2 DEF LastOf
    <3>2. CASE event.is # "text"
      BY <1>1, <3>2 DEF Says, LastOf, OfTurn
    <3> QED
      BY <3>1, <3>2
  <2>3. ASSUME NEW e \in ServerEvent, LastOf(e, Run) PROVE Precedes(e, event)
    <3>1. CASE event.is = "text"
      <4>1. Run.call = "none" /\ event.at = <<Run.input, Run.turn, Run.piece + 1>>
        BY <1>1, <3>1 DEF Says
      <4>2. e.is \notin {"tool", "tool done"}
        BY <2>3, <4>1 DEF LastOf, OfTurn
      <4>3. e.is = "text" => e.at = <<Run.input, Run.turn, Run.piece>>
        BY <2>3, <4>1 DEF LastOf, OfTurn
      <4>4. Run.input \in Nat /\ Run.turn \in Nat /\ Run.piece \in Nat
        BY <2>1 DEF RunType
      <4>5. Succ(<<Run.input, Run.turn, Run.piece>>) = <<Run.input, Run.turn, Run.piece + 1>>
        BY <4>4 DEF Succ
      <4> QED
        BY <4>1, <4>2, <4>3, <4>5 DEF Precedes
    <3>2. CASE event.is # "text"
      BY <3>2 DEF Precedes
    <3> QED
      BY <3>1, <3>2
  <2>4. events # <<>> => Precedes(events[Len(events)], event)
    <3>1. events # <<>> => events[Len(events)] \in ServerEvent
      BY <2>1, LenProperties, EmptySeq
    <3>2. events # <<>> => LastOf(events[Len(events)], Run)
      BY <1>4 DEF InFlow
    <3> QED
      BY <2>3, <3>1, <3>2
  <2>5. events = <<>> /\ Buffer # None /\ Buffer # <<>> => Precedes(TextEvent(Buffer[Len(Buffer)]), event)
    <3>1. SUFFICES ASSUME events = <<>>, Buffer # None, Buffer # <<>> PROVE Precedes(TextEvent(Buffer[Len(Buffer)]), event)
      OBVIOUS
    <3>2. LastOf(TextEvent(Buffer[Len(Buffer)]), Run)
      BY <1>4, <3>1 DEF InFlow
    <3>3. Buffer[Len(Buffer)] \in Triple
      BY <3>1, HereIs, LenProperties, EmptySeq
    <3>4. TextEvent(Buffer[Len(Buffer)]) \in ServerEvent
      BY <3>3 DEF TextEvent, ServerEvent
    <3> QED
      BY <2>3, <3>2, <3>4
  <2>6. /\ events' # <<>> /\ events'[Len(events')] = event
        /\ \A k \in 2..Len(events') : Precedes(events'[k - 1], events'[k])
        /\ Buffer # None /\ Buffer # <<>> => Precedes(TextEvent(Buffer[Len(Buffer)]), events'[1])
    BY <1>2, <2>1, <2>4, <2>5, EventFollows
  <2> QED
    BY <1>2, <1>4, <2>2, <2>6 DEF InFlow
<1> QED
  BY <1>3, <1>4

\* A new run has nothing on its way.
LEMMA PostingFlows ==
  ASSUME OneSession, InFlow, Posts
  PROVE  InFlow'
<1>1. Buffer' = Buffer /\ events' = events /\ sse' = sse
  BY DEF Posts
<1>2. CASE Run' = Run
  BY <1>1, <1>2 DEF InFlow
<1>3. CASE Run = NoRun
  <2>1. \A e : LastOf(e, Run) => LastOf(e, Run')
    BY <1>3 DEF LastOf, NoRun
  <2> QED
    BY <1>1, <2>1 DEF InFlow
<1> QED
  BY <1>2, <1>3 DEF Posts

\* The stream opens, and is lost.
LEMMA ConnectingFlows ==
  ASSUME InputTypes, OneSession, InFlow, ConnectStream
  PROVE  OneSession' /\ InFlow'
<1>1. sse.at \in {"connecting", "broken"} /\ sse' = [sse EXCEPT !.at = "open"]
      /\ UNCHANGED <<active, sessions, events, errands, actions, running>>
  BY DEF ConnectStream, atServer
<1>2. sse' \in [of : {"s1"}, at : {"none", "connecting", "open", "broken", "over"}] /\ sse'.at = "open"
  BY <1>1, SessionParts
<1>3. OneSession'
  BY <1>1, <1>2, SessionParts, SessionStays
<1>4. Buffer' = Buffer /\ Run' = Run
  BY <1>1 DEF Buffer, Run
<1>5. events # <<>> => LastOf(events[Len(events)], Run)
  BY <1>1 DEF InFlow, LastOf
<1>6. events = <<>> /\ Buffer # None => Buffer = <<>>
  BY <1>1 DEF InFlow
<1> QED
  BY <1>1, <1>2, <1>3, <1>4, <1>5, <1>6 DEF InFlow

\* The stream is lost: what comes is an error, or nothing.
LEMMA LosingFlows ==
  ASSUME InputTypes, OneSession, InFlow, LoseStream
  PROVE  OneSession' /\ InFlow'
<1>1. UNCHANGED <<active, sessions, errands, actions, running>>
  BY DEF LoseStream, atServer
<1>2. Buffer' = Buffer /\ Run' = Run
  BY <1>1 DEF Buffer, Run
<1>3. CASE sse.at = "open" /\ sse' = [sse EXCEPT !.at = "over"] /\ UNCHANGED events
  <2>1. sse' \in [of : {"s1"}, at : {"none", "connecting", "open", "broken", "over"}] /\ sse'.at = "over"
    BY <1>3, SessionParts
  <2>2. OneSession'
    BY <1>1, <1>3, <2>1, SessionParts, SessionStays
  <2> QED
    BY <1>2, <1>3, <2>1, <2>2 DEF InFlow
<1>4. CASE sse' = [sse EXCEPT !.at = "broken"] /\ events' = Append(events, [is |-> "error", at |-> <<>>])
  <2> DEFINE lost == [is |-> "error", at |-> <<>>]
  <2>1. sse' \in [of : {"s1"}, at : {"none", "connecting", "open", "broken", "over"}] /\ sse'.at = "broken"
    BY <1>4, SessionParts
  <2>2. lost \in ServerEvent /\ lost.is = "error" /\ \A e : Precedes(e, lost)
    BY DEF ServerEvent, Precedes
  <2>3. events \in Seq(ServerEvent) /\ events' = Append(events, lost)
    BY <1>4, SessionParts
  <2> HIDE DEF lost
  <2>4. OneSession'
    <3>1. events' \in Seq(ServerEvent)
      BY <2>2, <2>3, AppendProperties
    <3> QED
      BY <1>1, <2>1, <3>1 DEF OneSession
  <2>5. /\ events' # <<>> /\ events'[Len(events')] = lost
        /\ \A k \in 2..Len(events') : Precedes(events'[k - 1], events'[k])
        /\ Buffer # None /\ Buffer # <<>> => Precedes(TextEvent(Buffer[Len(Buffer)]), events'[1])
    BY <1>2, <2>2, <2>3, EventFollows
  <2> QED
    BY <1>2, <2>1, <2>2, <2>4, <2>5 DEF InFlow, OfTurn
<1> QED
  BY <1>3, <1>4 DEF LoseStream

-----------------------------------------------------------------------------
(* What the server does.                                                   *)

\* A session's run says something: it is heard if it is the client's.
LEMMA EmitIs ==
  ASSUME OneSession, NEW s \in Tabs, NEW is \in {"text", "tool", "tool done", "turn end", "error"}, NEW run \in RunType, NEW next \in RunType,
         Emit(s, is, run, next), running[s] # NoRun,
         s = "s1" => Says(Run, [is |-> is, at |-> <<run.input, run.turn, run.piece>>], next)
  PROVE  OneSession' /\ (Rests \/ Speaks)
<1> DEFINE event == [is |-> is, at |-> <<run.input, run.turn, run.piece>>]
<1>1. UNCHANGED <<active, sessions, sse, errands, actions, posted, mishaps, habits>> /\ running' = [running EXCEPT ![s] = next]
      /\ events' = IF sse.at = "open" /\ sse.of = s THEN Append(events, event) ELSE events
  BY DEF Emit, Reaches, typing, counts
<1>2. Buffer' = Buffer /\ Unsettled' = Unsettled /\ running' \in [Tabs -> RunType] /\ sse.of = "s1"
  BY <1>1, SessionParts DEF Buffer, Unsettled
<1>3. event \in ServerEvent
  <2>1. <<run.input, run.turn, run.piece>> \in Triple
    BY DEF RunType, Triple
  <2> QED
    BY <2>1 DEF ServerEvent
<1> HIDE DEF event
<1>4. OneSession'
  <2>1. events \in Seq(ServerEvent)
    BY SessionParts
  <2>2. Append(events, event) \in Seq(ServerEvent)
    BY <1>3, <2>1, AppendProperties
  <2>3. events' \in Seq(ServerEvent)
    BY <1>1, <2>1, <2>2
  <2> QED
    BY <1>1, <1>2, <2>3 DEF OneSession
<1>5. CASE s = "s1"
  <2>1. Run' = next /\ Run # NoRun /\ Says(Run, event, next)
    BY <1>1, <1>5, SessionParts DEF Run, event
  <2>2. events' = IF sse.at = "open" THEN Append(events, event) ELSE events
    BY <1>1, <1>2, <1>5
  <2>3. Speaks
    BY <1>1, <1>2, <1>3, <2>1, <2>2 DEF Speaks
  <2> QED
    BY <1>4, <2>3
<1>6. CASE s # "s1"
  <2>1. Run' = Run
    BY <1>1, <1>6, SessionParts DEF Run
  <2>2. events' = events
    BY <1>1, <1>2, <1>6
  <2> QED
    BY <1>1, <1>2, <1>4, <2>1, <2>2 DEF Rests
<1> QED
  BY <1>5, <1>6

\* Runs as they change.
LEMMA NoRunIs == NoRun \in RunType /\ NoRun.input = 0 /\ NoRun.call = "none"
BY DEF NoRun, RunType

\* A piece, or a turn, further.
LEMMA PieceChanged ==
  ASSUME NEW run \in RunType, NEW piece \in Nat
  PROVE  LET next == [run EXCEPT !.piece = piece, !.call = "none"]
         IN next \in RunType /\ next.input = run.input /\ next.turn = run.turn /\ next.piece = piece /\ next.call = "none"
BY DEF RunType

\* The next turn.
LEMMA TurnChanged ==
  ASSUME NEW run \in RunType, NEW turn \in Nat
  PROVE  LET next == [run EXCEPT !.turn = turn, !.piece = 0, !.call = "none"]
         IN next \in RunType /\ next.input = run.input /\ next.turn = turn
BY DEF RunType

\* A run that begins.
LEMMA BegunIs ==
  ASSUME NEW n \in Nat
  PROVE  [NoRun EXCEPT !.input = n, !.turn = 1] = BegunRun(n) /\ BegunRun(n) \in RunType
<1> DEFINE run == [NoRun EXCEPT !.input = n, !.turn = 1]
<1>1. NoRun \in RunType /\ NoRun.piece = 0 /\ NoRun.call = "none"
  BY DEF NoRun, RunType
<1>2. run \in RunType /\ run.input = n /\ run.turn = 1 /\ run.piece = NoRun.piece /\ run.call = NoRun.call
  BY <1>1 DEF RunType
<1>3. BegunRun(n) \in RunType /\ BegunRun(n).input = n /\ BegunRun(n).turn = 1 /\ BegunRun(n).piece = 0 /\ BegunRun(n).call = "none"
  BY DEF BegunRun, RunType
<1> HIDE DEF run
<1>4. run = BegunRun(n)
  BY <1>1, <1>2, <1>3 DEF RunType
<1> QED
  BY <1>3, <1>4 DEF run

\* What a run says.
LEMMA RunSpeaksIs ==
  ASSUME OneSession, NEW s \in Tabs, RunSpeaks(s)
  PROVE  OneSession' /\ (Rests \/ Speaks)
<1> DEFINE run == running[s]
           after(piece, call) == [run EXCEPT !.piece = piece, !.call = call]
           at(r) == <<r.input, r.turn, r.piece>>
<1>1. run \in RunType /\ Pieces \in Nat /\ run # NoRun
  BY SessionParts, TuiAssumption DEF TuiAssumption, RunSpeaks
<1>2. s = "s1" => Run = run
  BY DEF Run
<1> DEFINE told(is, r, next) == r \in RunType /\ next \in RunType /\ Says(run, [is |-> is, at |-> at(r)], next)
<1>3. ASSUME NEW is \in {"text", "tool", "tool done", "turn end", "error"}, NEW r, NEW next, told(is, r, next), Emit(s, is, r, next)
      PROVE  OneSession' /\ (Rests \/ Speaks)
  <2> HIDE DEF run
  <2>1. r \in RunType /\ next \in RunType /\ Says(run, [is |-> is, at |-> <<r.input, r.turn, r.piece>>], next)
    BY <1>3
  <2>2. running[s] # NoRun /\ (s = "s1" => Says(Run, [is |-> is, at |-> <<r.input, r.turn, r.piece>>], next))
    BY <1>1, <1>2, <2>1 DEF run
  <2> QED
    BY <1>3, <2>1, <2>2, EmitIs
<1> DEFINE text == after(run.piece + 1, "none")
           called == after(Pieces, "called")
           done == after(Pieces, "done")
           turn == [run EXCEPT !.turn = @ + 1, !.piece = 0, !.call = "none"]
<1>4. CASE run.piece < Pieces /\ run.call = "none" /\ Emit(s, "text", text, text)
  <2>1. text \in RunType /\ text.input = run.input /\ text.turn = run.turn /\ text.piece = run.piece + 1 /\ text.call = "none"
    <3> DEFINE piece == run.piece + 1
    <3>1. piece \in Nat
      BY <1>1 DEF RunType
    <3>2. text = after(piece, "none")
      OBVIOUS
    <3> HIDE DEF piece, text, run
    <3>3. /\ after(piece, "none") \in RunType /\ after(piece, "none").input = run.input /\ after(piece, "none").turn = run.turn
          /\ after(piece, "none").piece = piece /\ after(piece, "none").call = "none"
      BY <1>1, <3>1, PieceChanged
    <3> HIDE DEF after
    <3> QED
      BY <3>2, <3>3 DEF piece
  <2> HIDE DEF text
  <2>2. at(text) \in Triple /\ run.piece \in Nat
    BY <1>1, <2>1 DEF RunType, Triple
  <2>3. told("text", text, text)
    BY <1>4, <2>1, <2>2 DEF Says, ServerEvent, CallOf, CallIn
  <2> HIDE DEF told
  <2> QED
    BY <1>3, <1>4, <2>3
<1>5. CASE run.piece = Pieces /\ run.call = "none" /\ run.turn < MaxTurns /\ Emit(s, "tool", run, called)
  <2>1. called \in RunType /\ called.input = run.input /\ called.turn = run.turn /\ called.call = "called"
    BY <1>1 DEF RunType
  <2>2. at(run) \in Triple
    BY <1>1 DEF RunType, Triple
  <2> HIDE DEF called, run
  <2>3. told("tool", run, called)
    BY <1>1, <1>5, <2>1, <2>2 DEF Says, ServerEvent, CallOf, CallIn
  <2> HIDE DEF told
  <2> QED
    BY <1>3, <1>5, <2>3
<1>6. CASE run.call = "called" /\ Emit(s, "tool done", run, done)
  <2>1. done \in RunType /\ done.input = run.input /\ done.turn = run.turn /\ done.call = "done"
    BY <1>1 DEF RunType
  <2>2. at(run) \in Triple
    BY <1>1 DEF RunType, Triple
  <2> HIDE DEF done, run
  <2>3. told("tool done", run, done)
    BY <1>1, <1>6, <2>1, <2>2 DEF Says, ServerEvent, CallOf, CallIn
  <2> HIDE DEF told
  <2> QED
    BY <1>3, <1>6, <2>3
<1>7. CASE run.call = "done" /\ Emit(s, "turn end", run, turn)
  <2>1. turn \in RunType /\ turn.input = run.input /\ turn.turn = run.turn + 1
    <3> DEFINE next == run.turn + 1
    <3>1. next \in Nat /\ 0 \in Nat
      BY <1>1 DEF RunType
    <3>2. turn = [run EXCEPT !.turn = next, !.piece = 0, !.call = "none"]
      OBVIOUS
    <3> HIDE DEF next, run, turn
    <3>3. turn \in RunType /\ turn.input = run.input /\ turn.turn = next
      BY <1>1, <3>1, <3>2, TurnChanged
    <3> QED
      BY <3>3 DEF next
  <2>2. at(run) \in Triple
    BY <1>1 DEF RunType, Triple
  <2> HIDE DEF turn, run
  <2>3. told("turn end", run, turn)
    BY <1>1, <1>7, <2>1, <2>2 DEF Says, ServerEvent, CallOf, CallIn
  <2> HIDE DEF told
  <2> QED
    BY <1>3, <1>7, <2>3
<1>8. CASE run.piece = Pieces /\ run.call = "none" /\ Emit(s, "turn end", run, NoRun)
  <2>1. at(run) \in Triple
    BY <1>1 DEF RunType, Triple
  <2> HIDE DEF run
  <2>2. told("turn end", run, NoRun)
    BY <1>1, <1>8, <2>1, NoRunIs DEF Says, ServerEvent, CallOf, CallIn
  <2> HIDE DEF told
  <2> QED
    BY <1>3, <1>8, <2>2
<1> QED
  BY <1>4, <1>5, <1>6, <1>7, <1>8 DEF RunSpeaks

\* A run that fails.
LEMMA RunErrsIs ==
  ASSUME OneSession, NEW s \in Tabs, RunErrs(s)
  PROVE  OneSession' /\ (Rests \/ Speaks)
<1> DEFINE run == running[s]
<1>1. run \in RunType /\ run # NoRun /\ Emit(s, "error", run, NoRun)
  BY SessionParts DEF RunErrs
<1>2. [is |-> "error", at |-> <<run.input, run.turn, run.piece>>] \in ServerEvent
  BY <1>1 DEF RunType, ServerEvent, Triple
<1> HIDE DEF run
<1>3. Says(run, [is |-> "error", at |-> <<run.input, run.turn, run.piece>>], NoRun)
  BY <1>2, NoRunIs DEF Says
<1>4. s = "s1" => Run = run
  BY DEF Run, run
<1> QED
  BY <1>1, <1>3, <1>4, NoRunIs, EmitIs DEF run

-----------------------------------------------------------------------------
(* The tasks of the one session.                                           *)

\* An input is posted, a run is interrupted, a command reports.
LEMMA ErrandIs ==
  ASSUME InputsInv, OneSession, RunErrand
  PROVE  OneSession' /\ (Rests \/ Speaks \/ Posts)
<1>1. PICK e \in errands :
         /\ errands' = errands \ {e}
         /\ \/ PostInput(e) \/ PostInterrupt(e)
            \/ AskedOf(e) /\ UNCHANGED <<running, posted, events>>
            \/ e.op \in {"history", "create", "delete"} /\ UNCHANGED <<actions, atServer, events>>
         /\ UNCHANGED <<typing, busy, active, sessions, sse, counts>>
  BY DEF RunErrand
<1>2. e \in TasksHere /\ errands' \subseteq TasksHere
  BY <1>1, SessionParts
<1>3. /\ e.op \in {"send", "interrupt", "bash"} /\ e.input \in Nat
      /\ e.op # "bash" => e.of = "s1"
  BY <1>2 DEF TasksHere
<1>4. UNCHANGED <<active, sessions, sse, mishaps, habits>> /\ Buffer' = Buffer /\ Unsettled' = Unsettled
  BY <1>1 DEF typing, counts, Buffer, Unsettled
<1>5. ASSUME running' \in [Tabs -> RunType], events' \in Seq(ServerEvent), \A i \in DOMAIN actions' : actions'[i].is = "bash"
      PROVE  OneSession'
  BY <1>2, <1>4, <1>5 DEF OneSession
<1>6. /\ running \in [Tabs -> RunType] /\ events \in Seq(ServerEvent) /\ "s1" \in Tabs
      /\ \A i \in DOMAIN actions : actions[i].is = "bash"
  BY SessionParts DEF OneSession
<1>7. CASE PostInput(e)
  <2> DEFINE taken == e.of \in exists /\ running[e.of] = NoRun
             p == [input |-> e.input, of |-> e.of, taken |-> taken]
             begun == [NoRun EXCEPT !.input = e.input, !.turn = 1]
  <2>1. e.op = "send" /\ e.of = "s1" /\ UNCHANGED <<events, actions>> /\ posted' = Append(posted, p)
        /\ running' = IF taken THEN [running EXCEPT !["s1"] = begun] ELSE running
    BY <1>3, <1>7 DEF PostInput
  <2>2. begun = BegunRun(e.input) /\ begun \in RunType
    BY <1>3, BegunIs
  <2>3. Run' = Run \/ (Run = NoRun /\ Run' = BegunRun(e.input))
    BY <1>6, <2>1, <2>2 DEF Run
  <2>4. p \in Given /\ p.input = e.input
    <3>1. taken \in BOOLEAN
      OBVIOUS
    <3> QED
      BY <1>3, <1>6, <2>1, <3>1 DEF Given
  <2>5. InPosted(e.input) = 0
    <3>1. InputTypes /\ IsFiniteSet(errands)
      BY ListTypes DEF InputsInv
    <3>2. OnWay(errands, e.input) = OnWay(errands \ {e}, e.input) + 1 /\ OnWay(errands \ {e}, e.input) \in Nat
      BY <1>1, <1>3, <2>1, <3>1, TaskEnds
    <3>3. OnWay(errands, e.input) # 0
      BY <3>2
    <3> QED
      BY <1>3, <3>3, NotOnWay
  <2>6. running' \in [Tabs -> RunType]
    BY <1>6, <2>1, <2>2
  <2>7. OneSession'
    BY <1>5, <1>6, <2>1, <2>6
  <2> HIDE DEF p, taken, begun
  <2>8. Posts
    BY <1>4, <2>1, <2>3, <2>4, <2>5 DEF Posts
  <2> QED
    BY <2>7, <2>8
<1>8. CASE PostInterrupt(e)
  <2> DEFINE lost == [is |-> "error", at |-> <<>>]
  <2>1. e.of = "s1" /\ UNCHANGED <<actions, posted>>
    BY <1>3, <1>8 DEF PostInterrupt
  <2>2. CASE UNCHANGED <<running, events>>
    <3>1. OneSession'
      BY <1>5, <1>6, <2>1, <2>2
    <3>2. Rests
      BY <1>4, <2>1, <2>2 DEF Rests, Run
    <3> QED
      BY <3>1, <3>2
  <2>3. CASE Run # NoRun /\ running' = [running EXCEPT !["s1"] = NoRun] /\ Reaches("s1", lost)
    <3>1. lost \in ServerEvent /\ lost.is = "error"
      BY DEF ServerEvent
    <3>2. Says(Run, lost, NoRun)
      BY <3>1, NoRunIs DEF Says
    <3>3. Run' = NoRun /\ running' \in [Tabs -> RunType]
      BY <1>6, <2>3, NoRunIs DEF Run
    <3>4. events' = IF sse.at = "open" THEN Append(events, lost) ELSE events
      BY <2>3, SessionParts DEF Reaches
    <3> HIDE DEF lost
    <3>5. Append(events, lost) \in Seq(ServerEvent)
      BY <1>6, <3>1, AppendProperties
    <3>6. OneSession'
      BY <1>5, <1>6, <2>1, <3>3, <3>4, <3>5
    <3>7. Speaks
      BY <1>4, <2>1, <2>3, <3>1, <3>2, <3>3, <3>4 DEF Speaks
    <3> QED
      BY <3>6, <3>7
  <2> QED
    BY <1>8, <2>1, <2>2, <2>3 DEF PostInterrupt, Run
<1>9. CASE AskedOf(e) /\ UNCHANGED <<running, posted, events>>
  <2> DEFINE a == [is |-> "bash", of |-> "", input |-> e.input]
  <2>1. actions' = Append(actions, a)
    BY <1>3, <1>9 DEF AskedOf, Report
  <2>2. \A i \in DOMAIN actions' : actions'[i].is = "bash"
    <3>1. actions \in Seq(Reported) /\ a \in Reported
      BY <1>3, ListTypes DEF InputsInv, Reported
    <3>2. a.is = "bash"
      OBVIOUS
    <3> HIDE DEF a
    <3>3. /\ Append(actions, a) \in Seq(Reported) /\ Len(Append(actions, a)) = Len(actions) + 1 /\ Len(actions) \in Nat
          /\ Append(actions, a)[Len(actions) + 1] = a /\ \A i \in 1..Len(actions) : Append(actions, a)[i] = actions[i]
      BY <3>1, AppendProperties, LenProperties
    <3>4. DOMAIN Append(actions, a) = 1..(Len(actions) + 1) /\ DOMAIN actions = 1..Len(actions)
      BY <3>1, <3>3, LenProperties
    <3> QED
      BY <1>6, <2>1, <3>2, <3>3, <3>4
  <2>3. OneSession'
    BY <1>5, <1>6, <1>9, <2>2
  <2>4. Rests
    BY <1>4, <1>9 DEF Rests, Run
  <2> QED
    BY <2>3, <2>4
<1> QED
  BY <1>1, <1>3, <1>7, <1>8, <1>9

-----------------------------------------------------------------------------
(* Every step of the one session is one of these.                          *)

Begins == TurnBegins /\ UNCHANGED <<running, habits, mishaps, posted>>
StepsHere == Begins \/ Rests \/ GivesUp \/ Handles \/ ConnectStream \/ LoseStream \/ Speaks \/ Posts

\* What the user does and does not do is given.
LEMMA HabitsStay ==
  ASSUME [TuiNext]_tuiVars
  PROVE  habits' = habits
<1>1. CASE TuiNext
  BY <1>1 DEF TuiNext, Submit, Enqueue, Steer, Interrupt, RestoreQueue, Retry, Note, Switch, AskServer, TextDelta, IdleDelta, ToolCall,
              TurnEnd, TurnEndDequeues, ServerError, ConnectStream, LoseStream, RunSpeaks, RunErrs, Emit, RunErrand, BashCompleted,
              SessionsChange, typing
<1>2. CASE UNCHANGED tuiVars
  BY <1>2 DEF tuiVars
<1> QED
  BY <1>1, <1>2

\* The one session stays, and what is on its way goes on.
LEMMA StepIsHere ==
  ASSUME InputsInv, OneSession, InFlow, "switch" \notin habits, [TuiNext]_tuiVars
  PROVE  OneSession' /\ InFlow' /\ StepsHere
<1>0. InputTypes
  BY DEF InputsInv
<1>1. CASE Submit(FALSE) \/ Steer(FALSE) \/ Retry \/ BashCompleted \/ (TurnEndDequeues /\ ~Head(queue).bash)
  BY <1>0, <1>1, TurnsFlow DEF StepsHere, Begins
<1>2. CASE Submit(TRUE) \/ (\E bash \in BOOLEAN : Enqueue(bash)) \/ RestoreQueue \/ Interrupt \/ Note
  <2>1. OneSession' /\ Rests
    BY <1>0, <1>2, AskRests, InterruptRests, NoteRests
  <2> QED
    BY <2>1, RestsFlow DEF StepsHere
<1>3. CASE Steer(TRUE)
  <2>1. OneSession' /\ GivesUp
    BY <1>0, <1>3, SteerGivesUp
  <2> QED
    BY <2>1, GivingUpFlows DEF StepsHere
<1>4. CASE TextDelta \/ IdleDelta \/ ToolCall \/ TurnEnd \/ (TurnEndDequeues /\ Head(queue).bash) \/ ServerError
  <2>1. OneSession' /\ Handles
    BY <1>0, <1>4, TextHandles, IdleHandles, CallHandles, EndHandles, ErrorHandles
  <2> QED
    BY <2>1, HandlingFlows DEF StepsHere
<1>5. CASE ConnectStream \/ LoseStream
  BY <1>0, <1>5, ConnectingFlows, LosingFlows DEF StepsHere
<1>6. CASE (\E s \in Tabs : RunSpeaks(s) \/ RunErrs(s)) \/ RunErrand
  <2>1. OneSession' /\ (Rests \/ Speaks \/ Posts)
    BY <1>6, RunSpeaksIs, RunErrsIs, ErrandIs
  <2> QED
    BY <2>1, RestsFlow, SpeakingFlows, PostingFlows DEF StepsHere
<1>7. CASE UNCHANGED tuiVars
  <2>1. UNCHANGED <<active, sessions, running, events, sse, errands, actions, posted, mishaps, habits>>
    BY <1>7 DEF tuiVars
  <2>2. Rests
    BY <2>1 DEF Rests, Run, Buffer, Unsettled
  <2>3. OneSession'
    BY <1>0, <2>1, SessionParts, SessionStays
  <2> QED
    BY <2>2, <2>3, RestsFlow DEF StepsHere
<1>8. ~Switch /\ ~AskServer
  BY DEF Switch, AskServer
<1>9. ~SessionsChange
  <2>1. SUFFICES ASSUME SessionsChange PROVE FALSE
    OBVIOUS
  <2>2. actions # <<>> /\ Head(actions).is # "bash"
    BY <2>1 DEF SessionsChange, TakeAction
  <2>3. actions \in Seq(Reported)
    BY <1>0, ListTypes
  <2>4. Head(actions) = actions[1] /\ 1 \in DOMAIN actions
    BY <2>2, <2>3, TailPlaces
  <2> QED
    BY <2>2, <2>4 DEF OneSession
<1>10. ASSUME NEW bash \in BOOLEAN, Submit(bash) \/ Enqueue(bash) \/ Steer(bash) PROVE OneSession' /\ InFlow' /\ StepsHere
  <2>1. CASE bash = TRUE
    BY <1>2, <1>3, <1>10, <2>1
  <2>2. CASE bash = FALSE
    BY <1>1, <1>2, <1>10, <2>2
  <2> QED
    BY <2>1, <2>2
<1>11. CASE TurnEndDequeues
  BY <1>1, <1>4, <1>11
<1> HIDE DEF StepsHere
<1> QED
  BY <1>1, <1>2, <1>4, <1>5, <1>6, <1>7, <1>8, <1>9, <1>10, <1>11 DEF TuiNext

\* The flow of a turn is kept.
LEMMA FlowInvIs ==
  TuiSpec => []FlowInv
<1>1. TuiInit => FlowInv
  <2>1. SUFFICES ASSUME TuiInit PROVE OneSession /\ InFlow
    BY DEF FlowInv
  <2>2. /\ active = "s1" /\ sessions = [s \in {"s1"} |-> Fresh] /\ sse = [of |-> "s1", at |-> "none"] /\ events = <<>>
        /\ errands = {} /\ actions = <<>> /\ running = [s \in Tabs |-> NoRun]
    BY <2>1 DEF TuiInit
  <2>3. sessions \in [{"s1"} -> [messages : Seq(Unbroken), streaming : Seq(Triple)]] /\ Buffer = None
    <3>1. None \in Seq(Triple) /\ <<>> \in Seq(Unbroken)
      BY NoneIsBuffer, EmptySeq
    <3>2. Fresh \in [messages : Seq(Unbroken), streaming : Seq(Triple)] /\ Fresh.streaming = None
      BY <3>1 DEF Fresh
    <3> QED
      BY <2>2, <3>2 DEF Buffer
  <2>4. running \in [Tabs -> RunType]
    BY <2>2, NoRunIs
  <2>5. OneSession
    BY <2>2, <2>3, <2>4, EmptySeq DEF OneSession
  <2>6. InFlow
    <3>1. Len(events) = 0 /\ 2..0 = {}
      BY <2>2
    <3> QED
      BY <2>2, <2>3, <3>1 DEF InFlow
  <2> QED
    BY <2>5, <2>6
<1>2. InputsInv /\ FlowInv /\ [TuiNext]_tuiVars => FlowInv'
  BY StepIsHere, HabitsStay DEF FlowInv
<1> QED
  BY <1>1, <1>2, InputsInvIs, PTL DEF TuiSpec

\* Messages without a gap.
LEMMA FlowIsOfTurns ==
  ASSUME FlowInv
  PROVE  OneTurnPerText
<1>1. SUFFICES ASSUME "switch" \notin habits, NEW m \in Rendered, NEW k \in 2..Len(m.text)
               PROVE  m.text[k] = [m.text[k - 1] EXCEPT ![3] = @ + 1]
  BY DEF OneTurnPerText
<1>2. sessions \in [{"s1"} -> [messages : Seq(Unbroken), streaming : Seq(Triple)]]
  BY <1>1 DEF FlowInv, OneSession
<1>3. Rendered = Range(sessions["s1"].messages)
  BY <1>2 DEF Rendered
<1>4. m \in Unbroken
  <2>1. sessions["s1"].messages \in Seq(Unbroken)
    BY <1>2
  <2> QED
    BY <1>3, <2>1, LenProperties DEF Range
<1> QED
  BY <1>4 DEF Unbroken, Gapless, Succ

-----------------------------------------------------------------------------
(* Calls are settled before their turn ends.                               *)

\* The first event is handled.
LEMMA SettlesAfterFirst ==
  ASSUME NEW es \in Seq(ServerEvent), es # <<>>, NEW open \in BOOLEAN, NEW run, NEW c, NEW k \in Nat, NEW l \in Nat, Settles(es, open, run, c, k),
         k = l + 1 \/ (k = 0 /\ l = 0 /\ ~IsDone(es[1], c))
  PROVE  Settles(Tail(es), open, run, c, l)
<1> DEFINE n == Len(es)
           rest == Tail(es)
<1>1. /\ n \in Nat /\ n >= 1 /\ DOMAIN es = 1..n /\ DOMAIN rest = 1..(n - 1) /\ Len(rest) = n - 1
      /\ \A i \in 1..(n - 1) : rest[i] = es[i + 1]
  BY TailPlaces
<1> HIDE DEF n, rest
<1>2. ASSUME NEW j \in 1..n, l < j, SettledBetween(es, c, k, j + 1) PROVE SettledBetween(rest, c, l, j)
  <2>1. PICK i \in 1..n : k < i /\ i < j + 1 /\ IsDone(es[i], c)
    BY <1>1, <1>2 DEF SettledBetween
  <2>2. i # 1 \/ k # 0
    BY <2>1
  <2>3. i - 1 \in 1..(n - 1) /\ l < i - 1 /\ i - 1 < j /\ (i - 1) + 1 = i
    <3>1. CASE k = l + 1
      BY <1>1, <2>1, <3>1
    <3>2. CASE k = 0 /\ l = 0 /\ ~IsDone(es[1], c)
      <4>1. i # 1
        BY <2>1, <3>2
      <4> QED
        BY <1>1, <2>1, <3>2, <4>1
    <3> QED
      BY <3>1, <3>2
  <2>4. rest[i - 1] = es[(i - 1) + 1]
    BY <1>1, <2>3
  <2>5. i - 1 \in DOMAIN rest /\ IsDone(rest[i - 1], c)
    BY <1>1, <2>1, <2>3, <2>4
  <2> QED
    BY <2>3, <2>5 DEF SettledBetween
<1>3. ASSUME NEW j \in 1..(n - 1), l < j, IsEnd(rest[j], c) PROVE SettledBetween(rest, c, l, j)
  <2>1. j + 1 \in DOMAIN es /\ k < j + 1 /\ j \in 1..n
    <3>1. j + 1 \in 1..n /\ j \in 1..n
      BY <1>1
    <3>2. k <= l + 1 /\ l < j
      BY <1>3
    <3> QED
      BY <1>1, <3>1, <3>2
  <2>2. IsEnd(es[j + 1], c)
    BY <1>1, <1>3
  <2>3. SettledBetween(es, c, k, j + 1)
    BY <2>1, <2>2 DEF Settles
  <2> QED
    BY <1>2, <1>3, <2>1, <2>3
<1>4. SettledBetween(es, c, k, n + 1) => SettledBetween(rest, c, l, n)
  <2>1. CASE l < n
    BY <1>1, <1>2, <2>1
  <2>2. CASE ~(l < n)
    <3>1. ASSUME NEW i \in 1..n, k < i PROVE FALSE
      BY <1>1, <2>2, <3>1
    <3> QED
      BY <1>1, <3>1 DEF SettledBetween
  <2> QED
    BY <2>1, <2>2
<1>5. Len(rest) + 1 = n
  BY <1>1
<1>6. /\ open /\ run # NoRun /\ CallIn(run) = c => run.call = "called" \/ (run.call = "done" /\ SettledBetween(rest, c, l, Len(rest) + 1))
      /\ run # NoRun /\ run.input = c[1] => c[2] <= run.turn
  BY <1>4, <1>5 DEF Settles, n
<1> QED
  BY <1>1, <1>3, <1>6 DEF Settles, rest

\* The run says something more.
LEMMA SettlesWhileSaid ==
  ASSUME NEW es \in Seq(ServerEvent), NEW open \in BOOLEAN, NEW run \in RunType, run # NoRun, NEW event \in ServerEvent, NEW next \in RunType,
         Says(run, event, next), NEW later, later = IF open THEN Append(es, event) ELSE es,
         NEW c \in Nat \X Nat, NEW k \in 0..Len(es), Settles(es, open, run, c, k)
  PROVE  Settles(later, open, next, c, k)
<1> DEFINE n == Len(es)
<1>1. next = NoRun \/ (next.input = run.input /\ next.turn >= run.turn)
  <2>1. next = NoRun \/ (next.input = run.input /\ (next.turn = run.turn \/ next.turn = run.turn + 1))
    BY DEF Says
  <2>2. run.turn \in Nat
    BY DEF RunType
  <2> QED
    BY <2>1, <2>2
<1>2. next # NoRun /\ next.input = c[1] => c[2] <= next.turn
  <2>1. SUFFICES ASSUME next # NoRun, next.input = c[1] PROVE c[2] <= next.turn
    OBVIOUS
  <2>2. c[2] <= run.turn
    BY <1>1, <2>1 DEF Settles
  <2>3. c[2] \in Nat /\ run.turn \in Nat /\ next.turn \in Nat
    BY DEF RunType
  <2> QED
    BY <1>1, <2>1, <2>2, <2>3
<1>3. CASE ~open
  BY <1>2, <1>3 DEF Settles
<1>4. CASE open
  <2>1. /\ n \in Nat /\ later \in Seq(ServerEvent) /\ DOMAIN es = 1..n /\ DOMAIN later = 1..(n + 1) /\ Len(later) = n + 1
        /\ later[n + 1] = event /\ \A i \in 1..n : later[i] = es[i]
    <3>1. /\ n \in Nat /\ later \in Seq(ServerEvent) /\ DOMAIN es = 1..n /\ Len(later) = n + 1
          /\ later[n + 1] = event /\ \A i \in 1..n : later[i] = es[i]
      BY <1>4, AppendProperties, LenProperties
    <3> QED
      BY <3>1, LenProperties
  <2>2. ASSUME NEW j \in 1..(n + 1), SettledBetween(es, c, k, j) PROVE SettledBetween(later, c, k, j)
    <3>1. PICK i \in 1..n : k < i /\ i < j /\ IsDone(es[i], c)
      BY <2>1, <2>2 DEF SettledBetween
    <3> QED
      BY <2>1, <3>1 DEF SettledBetween
  <2>3. CallIn(run) = c => run.call = "called" \/ (run.call = "done" /\ SettledBetween(es, c, k, n + 1))
    BY <1>4 DEF Settles
  <2>4. ASSUME NEW j \in 1..(n + 1), k < j, IsEnd(later[j], c) PROVE SettledBetween(later, c, k, j)
    <3>1. CASE j # n + 1
      <4>1. j \in 1..n /\ later[j] = es[j]
        BY <2>1, <3>1
      <4>2. SettledBetween(es, c, k, j)
        BY <2>1, <2>4, <4>1 DEF Settles
      <4> QED
        BY <2>2, <4>2
    <3>2. CASE j = n + 1
      <4>1. event.is = "turn end" /\ CallIn(run) = c
        BY <2>1, <2>4, <3>2 DEF Says, IsEnd
      <4>2. run.call # "called"
        BY <4>1 DEF Says
      <4>3. SettledBetween(es, c, k, n + 1)
        BY <2>3, <4>1, <4>2
      <4> QED
        BY <2>2, <3>2, <4>3
    <3> QED
      BY <3>1, <3>2
  <2>5. ASSUME next # NoRun, CallIn(next) = c
        PROVE  next.call = "called" \/ (next.call = "done" /\ SettledBetween(later, c, k, Len(later) + 1))
    <3>1. c = <<next.input, next.turn>> /\ c[1] = next.input /\ c[2] = next.turn
      BY <2>5 DEF CallIn
    <3>2. next.turn = run.turn /\ CallIn(run) = c
      <4>1. c[2] <= run.turn
        BY <1>1, <2>5, <3>1 DEF Settles
      <4>2. next.turn <= run.turn /\ next.turn >= run.turn /\ next.input = run.input /\ next.turn \in Nat /\ run.turn \in Nat
        BY <1>1, <2>5, <3>1, <4>1 DEF RunType
      <4>3. next.turn = run.turn
        BY <4>2
      <4> QED
        BY <3>1, <4>2, <4>3 DEF CallIn
    <3>3. run.call \in {"called", "done"}
      BY <2>3, <3>2
    <3>4. event.is = "tool done" \/ event.is = "turn end"
      BY <2>5, <3>3 DEF Says
    <3>5. CASE event.is = "tool done"
      <4>1. next.call = "done" /\ CallOf(event) = c
        BY <3>2, <3>5 DEF Says
      <4>2. k < n + 1 /\ n + 1 < Len(later) + 1 /\ n + 1 \in DOMAIN later
        BY <2>1
      <4>3. SettledBetween(later, c, k, Len(later) + 1)
        BY <2>1, <3>5, <4>1, <4>2 DEF SettledBetween, IsDone
      <4> QED
        BY <4>1, <4>3
    <3>6. CASE event.is = "turn end"
      <4>1. next.turn = run.turn + 1
        BY <2>5, <3>3, <3>6 DEF Says
      <4>2. run.turn \in Nat
        BY DEF RunType
      <4> QED
        BY <3>2, <4>1, <4>2
    <3> QED
      BY <3>4, <3>5, <3>6
  <2> QED
    BY <1>2, <1>4, <2>1, <2>4, <2>5 DEF Settles
<1> QED
  BY <1>3, <1>4

\* A call that is told of just now is to be settled.
LEMMA NewCallSettles ==
  ASSUME NEW es \in Seq(ServerEvent), NEW run \in RunType, NEW event \in ServerEvent, event.is = "tool", NEW next \in RunType, Says(run, event, next)
  PROVE  Settles(Append(es, event), TRUE, next, CallOf(event), Len(es) + 1)
<1> DEFINE n == Len(es)
           c == CallOf(event)
           later == Append(es, event)
<1>1. n \in Nat /\ DOMAIN later = 1..(n + 1) /\ later \in Seq(ServerEvent)
  <2>1. n \in Nat /\ later \in Seq(ServerEvent) /\ Len(later) = n + 1
    BY AppendProperties, LenProperties
  <2> QED
    BY <2>1, LenProperties
<1>2. next.call = "called" /\ next.turn = run.turn /\ c = CallIn(run) /\ run.turn \in Nat
  BY DEF Says, RunType
<1>3. c[2] <= next.turn
  BY <1>2 DEF CallIn
<1>4. ~\E j \in DOMAIN later : n + 1 < j
  BY <1>1
<1> HIDE DEF n, c, later
<1> QED
  BY <1>2, <1>3, <1>4 DEF Settles, n, c, later

\* A new run has no calls yet.
LEMMA SettlesWhenPosted ==
  ASSUME NEW es, NEW open \in BOOLEAN, NEW run, NEW c, NEW k, Settles(es, open, run, c, k), NEW n, n # c[1]
  PROVE  Settles(es, open, BegunRun(n), c, k)
<1>1. BegunRun(n).input = n /\ CallIn(BegunRun(n))[1] = n
  BY DEF BegunRun, CallIn
<1>2. CallIn(BegunRun(n)) # c
  BY <1>1
<1> QED
  BY <1>1, <1>2 DEF Settles

\* The calls of messages and of events are pairs.
LEMMA CallsAreTyped ==
  ASSUME OneSession
  PROVE  /\ Unsettled \subseteq Nat \X Nat
         /\ \A k \in DOMAIN events : events[k].is = "tool" => CallOf(events[k]) \in Nat \X Nat /\ CallOf(events[k])[1] = events[k].at[1]
<1>1. Unsettled \subseteq Nat \X Nat
  <2>1. Here.messages \in Seq(Unbroken) /\ LastPending(Here.messages) = Unsettled
    BY HereIs
  <2>2. CASE Here.messages = <<>>
    BY <2>1, <2>2 DEF LastPending
  <2>3. CASE Here.messages # <<>>
    <3> DEFINE m == Here.messages[Len(Here.messages)]
    <3>1. m \in Unbroken
      BY <2>1, <2>3, LenProperties, EmptySeq
    <3>2. m.pending \subseteq Nat \X Nat
      BY <3>1 DEF Unbroken, RenderedType
    <3>3. Unsettled = m.pending
      BY <2>1, <2>3 DEF LastPending
    <3> QED
      BY <3>2, <3>3
  <2> QED
    BY <2>2, <2>3
<1>2. ASSUME NEW k \in DOMAIN events, events[k].is = "tool" PROVE CallOf(events[k]) \in Nat \X Nat /\ CallOf(events[k])[1] = events[k].at[1]
  <2>1. events[k] \in ServerEvent
    BY SessionParts, LenProperties
  <2>2. events[k].at \in Triple
    BY <1>2, <2>1 DEF ServerEvent
  <2> QED
    BY <2>2 DEF CallOf, Triple
<1> QED
  BY <1>1, <1>2

\* What CallsSettle says of the calls.
Calm == sse.at \in {"none", "connecting", "open"} /\ (sse.at = "connecting" => Unsettled = {})
Open == sse.at = "open"
Shown == \A c \in Unsettled : WasPosted(c[1]) /\ Settles(events, Open, Run, c, 0)
Coming == \A k \in DOMAIN events : events[k].is = "tool" =>
             WasPosted(events[k].at[1]) /\ Settles(events, Open, Run, CallOf(events[k]), k)

\* The parts of CallsSettle.
LEMMA CallsSettleIs == CallsSettle <=> Calm /\ Shown /\ Coming /\ (Run # NoRun => WasPosted(Run.input))
BY DEF CallsSettle, Calm, Open, Shown, Coming

\* Nothing of it changes.
LEMMA CallsRest ==
  ASSUME CallsSettle, UNCHANGED <<events, posted>>, Run' = Run, Unsettled' = Unsettled, sse' = sse
  PROVE  CallsSettle'
BY DEF CallsSettle, WasPosted

\* A turn begins without calls.
LEMMA CallsBegin ==
  ASSUME CallsSettle, Begins
  PROVE  CallsSettle'
<1>1. sse'.at = "connecting" /\ Unsettled' = {} /\ events' = <<>> /\ Run' = Run /\ posted' = posted
  BY DEF Begins, TurnBegins, Run
<1> QED
  BY <1>1 DEF CallsSettle, WasPosted

\* A stream that is given up settles no calls, and has none to settle.
LEMMA CallsGivenUp ==
  ASSUME OneSession, CallsSettle, GivesUp
  PROVE  CallsSettle'
<1>1. sse'.at = "none" /\ Unsettled' = Unsettled /\ events' = events /\ Run' = Run /\ posted' = posted
  BY SessionParts DEF GivesUp, Run
<1>2. \A c, k : Settles(events, sse.at = "open", Run, c, k) => Settles(events, FALSE, Run, c, k)
  BY DEF Settles
<1> QED
  BY <1>1, <1>2 DEF CallsSettle, WasPosted

\* A stream that opens has carried nothing yet.
LEMMA CallsConnect ==
  ASSUME OneSession, InFlow, CallsSettle, ConnectStream
  PROVE  CallsSettle'
<1>1. sse.at = "connecting" /\ sse'.at = "open" /\ UNCHANGED <<sessions, events, running, posted>>
  BY SessionParts DEF ConnectStream, CallsSettle, atServer
<1>2. Unsettled' = {} /\ events' = <<>> /\ Run' = Run
  BY <1>1 DEF CallsSettle, InFlow, Unsettled, Run
<1> QED
  BY <1>1, <1>2 DEF CallsSettle, WasPosted

\* An event is handled.
LEMMA CallsHandled ==
  ASSUME OneSession, InFlow, CallsSettle, Handles
  PROVE  CallsSettle'
<1> DEFINE rest == Tail(events)
<1>1. events # <<>> /\ events' = rest /\ sse' = sse /\ Run' = Run /\ posted' = posted
  BY DEF Handles, Run
<1>2. events \in Seq(ServerEvent)
  BY SessionParts
<1>3. /\ Len(events) \in Nat /\ Len(events) >= 1 /\ DOMAIN events = 1..Len(events) /\ DOMAIN rest = 1..(Len(events) - 1)
      /\ \A i \in 1..(Len(events) - 1) : rest[i] = events[i + 1]
  BY <1>1, <1>2, TailPlaces
<1>4. Calm /\ Shown /\ Coming /\ (Run # NoRun => WasPosted(Run.input)) /\ Got = events[1]
  BY <1>1, CallsSettleIs, GotIs
<1>5. WasPosted(Run.input)' = WasPosted(Run.input) /\ Open' = Open /\ \A n : WasPosted(n)' <=> WasPosted(n)
  BY <1>1 DEF WasPosted, Open
<1>6. sse.at # "connecting"
  BY <1>1 DEF InFlow
<1>7. Coming'
  <2>1. SUFFICES ASSUME NEW k \in 1..(Len(events) - 1), rest[k].is = "tool"
                 PROVE  WasPosted(rest[k].at[1]) /\ Settles(rest, Open, Run, CallOf(rest[k]), k)
    BY <1>1, <1>3, <1>5 DEF Coming
  <2>2. rest[k] = events[k + 1] /\ k + 1 \in DOMAIN events /\ k \in Nat /\ k + 1 \in Nat
    BY <1>3
  <2>3. WasPosted(rest[k].at[1]) /\ Settles(events, Open, Run, CallOf(rest[k]), k + 1)
    BY <1>4, <2>1, <2>2 DEF Coming
  <2>4. Open \in BOOLEAN
    BY DEF Open
  <2> DEFINE c == CallOf(rest[k])
  <2>5. Settles(events, Open, Run, c, k + 1)
    BY <2>3
  <2> HIDE DEF c
  <2>6. Settles(rest, Open, Run, c, k)
    BY <1>1, <1>2, <2>2, <2>4, <2>5, SettlesAfterFirst
  <2> QED
    BY <2>3, <2>6 DEF c
<1>8. ASSUME NEW c, c \in Unsettled => ~IsDone(events[1], c), c \in Unsettled \/ (Got.is = "tool" /\ c = CallOf(Got))
      PROVE  WasPosted(c[1]) /\ Settles(rest, Open, Run, c, 0)
  <2>1. Open \in BOOLEAN
    BY DEF Open
  <2>2. CASE c \in Unsettled
    <3>1. WasPosted(c[1]) /\ Settles(events, Open, Run, c, 0) /\ ~IsDone(events[1], c)
      BY <1>4, <1>8, <2>2 DEF Shown
    <3> QED
      BY <1>1, <1>2, <2>1, <3>1, SettlesAfterFirst
  <2>3. CASE Got.is = "tool" /\ c = CallOf(Got)
    <3>1. 1 \in DOMAIN events /\ events[1].is = "tool" /\ c = CallOf(events[1])
      BY <1>3, <1>4, <2>3
    <3>2. WasPosted(events[1].at[1]) /\ Settles(events, Open, Run, c, 1) /\ c[1] = events[1].at[1]
      BY <1>4, <3>1, CallsAreTyped DEF Coming
    <3>3. Settles(rest, Open, Run, c, 0)
      BY <1>1, <1>2, <2>1, <3>2, SettlesAfterFirst
    <3> QED
      BY <3>2, <3>3
  <2> QED
    BY <1>8, <2>2, <2>3
<1>9. Shown'
  <2>1. \A c \in Unsettled' : (c \in Unsettled => ~IsDone(events[1], c)) /\ (c \in Unsettled \/ (Got.is = "tool" /\ c = CallOf(Got)))
    BY <1>4 DEF Handles, IsDone
  <2>2. ASSUME NEW c \in Unsettled' PROVE WasPosted(c[1]) /\ Settles(rest, Open, Run, c, 0)
    BY <1>8, <2>1
  <2> QED
    BY <1>1, <1>5, <2>2 DEF Shown
<1>10. Calm'
  BY <1>1, <1>4, <1>6 DEF Calm
<1>11. (Run # NoRun => WasPosted(Run.input))'
  BY <1>1, <1>4, <1>5
<1> QED
  BY <1>7, <1>9, <1>10, <1>11, CallsSettleIs DEF CallsSettle, Calm, Shown, Coming, Open

\* The run says something more.
LEMMA CallsSaid ==
  ASSUME OneSession, CallsSettle, Speaks
  PROVE  CallsSettle'
<1>1. PICK event \in ServerEvent : Says(Run, event, Run') /\ events' = IF sse.at = "open" THEN Append(events, event) ELSE events
  BY DEF Speaks
<1>2. sse' = sse /\ Unsettled' = Unsettled /\ Run # NoRun /\ posted' = posted
  BY DEF Speaks
<1>3. events \in Seq(ServerEvent) /\ Run \in RunType /\ Run' \in RunType /\ Len(events) \in Nat /\ DOMAIN events = 1..Len(events)
  BY <1>1, SessionParts, LenProperties DEF Says
<1>4. Calm /\ Shown /\ Coming /\ WasPosted(Run.input)
  BY <1>2, CallsSettleIs
<1>5. Open' = Open /\ Open \in BOOLEAN /\ events' = (IF Open THEN Append(events, event) ELSE events) /\ \A n : WasPosted(n)' <=> WasPosted(n)
  BY <1>1, <1>2 DEF WasPosted, Open
<1>6. ASSUME NEW c \in Nat \X Nat, NEW k \in 0..Len(events), Settles(events, Open, Run, c, k)
      PROVE  Settles(events', Open, Run', c, k)
  BY <1>1, <1>2, <1>3, <1>5, <1>6, SettlesWhileSaid
<1>7. Shown'
  <2>1. ASSUME NEW c \in Unsettled PROVE WasPosted(c[1]) /\ Settles(events', Open, Run', c, 0)
    <3>1. WasPosted(c[1]) /\ Settles(events, Open, Run, c, 0) /\ c \in Nat \X Nat /\ 0 \in 0..Len(events)
      BY <1>3, <1>4, CallsAreTyped DEF Shown
    <3> QED
      BY <1>6, <3>1
  <2> QED
    BY <1>2, <1>5, <2>1 DEF Shown
<1>8. ASSUME NEW k \in DOMAIN events, events[k].is = "tool"
      PROVE  WasPosted(events[k].at[1]) /\ Settles(events', Open, Run', CallOf(events[k]), k)
  <2>1. WasPosted(events[k].at[1]) /\ Settles(events, Open, Run, CallOf(events[k]), k)
    BY <1>4, <1>8 DEF Coming
  <2>2. CallOf(events[k]) \in Nat \X Nat /\ k \in 0..Len(events)
    BY <1>3, <1>8, CallsAreTyped
  <2> QED
    BY <1>6, <2>1, <2>2
<1>9. Coming'
  <2>1. CASE ~Open
    BY <1>5, <1>8, <2>1 DEF Coming
  <2>2. CASE Open
    <3> DEFINE n == Len(events)
    <3>1. events' = Append(events, event) /\ DOMAIN events' = 1..(n + 1) /\ events'[n + 1] = event /\ \A k \in 1..n : events'[k] = events[k]
      <4>1. /\ Append(events, event) \in Seq(ServerEvent) /\ Len(Append(events, event)) = n + 1
            /\ Append(events, event)[n + 1] = event /\ \A k \in 1..n : Append(events, event)[k] = events[k]
        BY <1>3, AppendProperties
      <4> QED
        BY <1>5, <2>2, <4>1, LenProperties
    <3>2. ASSUME NEW k \in 1..(n + 1), events'[k].is = "tool"
          PROVE  WasPosted(events'[k].at[1]) /\ Settles(events', Open, Run', CallOf(events'[k]), k)
      <4>1. CASE k # n + 1
        <5>1. k \in DOMAIN events /\ events'[k] = events[k]
          BY <1>3, <3>1, <4>1
        <5> QED
          BY <1>8, <3>2, <5>1
      <4>2. CASE k = n + 1
        <5>1. event.is = "tool" /\ events'[k] = event
          BY <3>1, <3>2, <4>2
        <5>2. Settles(Append(events, event), TRUE, Run', CallOf(event), n + 1)
          BY <1>1, <1>3, <5>1, NewCallSettles
        <5>3. event.at[1] = Run.input
          BY <1>1, <5>1 DEF Says, CallOf, CallIn
        <5> QED
          BY <1>4, <2>2, <3>1, <4>2, <5>1, <5>2, <5>3
      <4> QED
        BY <4>1, <4>2
    <3> HIDE DEF n
    <3> QED
      BY <1>5, <3>1, <3>2 DEF Coming
  <2> QED
    BY <2>1, <2>2
<1>10. (Run # NoRun => WasPosted(Run.input))'
  <2>1. Run' = NoRun \/ Run'.input = Run.input
    BY <1>1 DEF Says
  <2>2. WasPosted(Run.input) => \E i \in DOMAIN posted' : posted'[i].input = Run.input
    BY <1>2 DEF WasPosted
  <2> QED
    BY <1>4, <2>1, <2>2 DEF WasPosted
<1>11. Calm'
  BY <1>2, <1>4 DEF Calm
<1> QED
  BY <1>7, <1>9, <1>10, <1>11 DEF CallsSettle, Calm, Shown, Coming, Open

\* A new run has no call yet.
LEMMA CallsPosted ==
  ASSUME InputTypes, OneSession, CallsSettle, Posts
  PROVE  CallsSettle'
<1>1. PICK p \in Given : InPosted(p.input) = 0 /\ posted' = Append(posted, p) /\ (Run' = Run \/ (Run = NoRun /\ Run' = BegunRun(p.input)))
  BY DEF Posts
<1>2. events' = events /\ sse' = sse /\ Unsettled' = Unsettled
  BY DEF Posts
<1>3. posted \in Seq(Given) /\ p.input \in Nat
  BY ListTypes DEF Given
<1>4. ~WasPosted(p.input)
  <2> DEFINE S == {q \in Given : q.input = p.input}
  <2>1. SUFFICES ASSUME NEW i \in DOMAIN posted, posted[i].input = p.input PROVE FALSE
    BY DEF WasPosted
  <2>2. posted[i] \in S
    BY <1>3, <2>1, LenProperties
  <2>3. Counted(posted, S) = 0
    BY <1>1 DEF InPosted
  <2> HIDE DEF S
  <2> QED
    BY <1>3, <2>2, <2>3, CountedIsNat
<1>5. (\A n : WasPosted(n) => WasPosted(n)') /\ WasPosted(p.input)'
  <2> DEFINE later == Append(posted, p)
             m == Len(posted)
  <2>1. m \in Nat /\ Len(later) = m + 1 /\ later \in Seq(Given) /\ DOMAIN posted = 1..m /\ later[m + 1] = p /\ \A i \in 1..m : later[i] = posted[i]
    BY <1>3, AppendProperties, LenProperties
  <2>2. DOMAIN later = 1..(m + 1)
    BY <2>1, LenProperties
  <2> HIDE DEF later, m
  <2>3. posted' = later
    BY <1>1 DEF later
  <2>4. m + 1 \in DOMAIN later /\ later[m + 1].input = p.input
    BY <2>1, <2>2
  <2>5. ASSUME NEW n, NEW i \in DOMAIN posted, posted[i].input = n PROVE \E j \in DOMAIN later : later[j].input = n
    <3>1. i \in DOMAIN later /\ later[i] = posted[i]
      BY <2>1, <2>2
    <3> QED
      BY <2>5, <3>1
  <2> QED
    BY <2>3, <2>4, <2>5 DEF WasPosted
<1>6. ASSUME NEW c, NEW k, WasPosted(c[1]), Settles(events, Open, Run, c, k) PROVE Settles(events, Open, Run', c, k)
  <2>1. c[1] # p.input
    BY <1>4, <1>6
  <2>2. Open \in BOOLEAN
    BY DEF Open
  <2> QED
    BY <1>1, <1>6, <2>1, <2>2, SettlesWhenPosted
<1>7. Calm /\ Shown /\ Coming /\ (Run # NoRun => WasPosted(Run.input)) /\ Open' = Open
  BY <1>2, CallsSettleIs DEF Open
<1>8. Shown'
  BY <1>2, <1>5, <1>6, <1>7 DEF Shown
<1>9. Coming'
  <2>1. ASSUME NEW k \in DOMAIN events, events[k].is = "tool"
        PROVE  (\E j \in DOMAIN posted' : posted'[j].input = events[k].at[1]) /\ Settles(events, Open, Run', CallOf(events[k]), k)
    <3>1. WasPosted(events[k].at[1]) /\ Settles(events, Open, Run, CallOf(events[k]), k) /\ CallOf(events[k])[1] = events[k].at[1]
      BY <1>7, <2>1, CallsAreTyped DEF Coming
    <3> DEFINE c == CallOf(events[k])
    <3>2. WasPosted(c[1]) /\ Settles(events, Open, Run, c, k)
      BY <3>1
    <3> HIDE DEF c
    <3>3. Settles(events, Open, Run', c, k)
      BY <1>6, <3>2
    <3>4. \E j \in DOMAIN posted' : posted'[j].input = c[1]
      BY <1>5, <3>2 DEF WasPosted
    <3> QED
      BY <3>1, <3>3, <3>4 DEF c
  <2> QED
    BY <1>2, <1>7, <2>1 DEF Coming, WasPosted
<1>10. (Run # NoRun => WasPosted(Run.input))'
  <2>1. BegunRun(p.input).input = p.input
    BY DEF BegunRun
  <2> QED
    BY <1>1, <1>5, <1>7, <2>1 DEF WasPosted
<1>11. Calm'
  BY <1>2, <1>7 DEF Calm
<1> QED
  BY <1>8, <1>9, <1>10, <1>11 DEF CallsSettle, Calm, Shown, Coming, Open

\* The calls are kept.
LEMMA CallsInvIs ==
  TuiSpec => []CallsInv
<1>1. TuiInit => CallsInv
  <2>1. SUFFICES ASSUME TuiInit PROVE CallsInv
    OBVIOUS
  <2>2. mishaps = 0 /\ sse.at = "none" /\ events = <<>> /\ Unsettled = {} /\ Run = NoRun
    BY <2>1, TuiAssumption DEF TuiInit, TuiAssumption, Unsettled, LastPending, Fresh, Run
  <2>3. CallsSettle
    BY <2>2 DEF CallsSettle
  <2> QED
    BY <2>2, <2>3 DEF CallsInv
<1>2. InputsInv /\ FlowInv /\ CallsInv /\ [TuiNext]_tuiVars => CallsInv'
  <2>1. SUFFICES ASSUME InputsInv, FlowInv, CallsInv, [TuiNext]_tuiVars PROVE CallsInv'
    OBVIOUS
  <2>2. mishaps \in Nat /\ habits' = habits
    BY <2>1, HabitsStay DEF CallsInv
  <2>3. mishaps' = mishaps \/ mishaps' = mishaps + 1
    <3>1. CASE TuiNext
      BY <3>1 DEF TuiNext, Submit, Enqueue, Steer, Interrupt, RestoreQueue, Retry, Note, Switch, AskServer, TextDelta, IdleDelta, ToolCall,
                  TurnEnd, TurnEndDequeues, ServerError, ConnectStream, LoseStream, RunSpeaks, RunErrs, Emit, RunErrand, BashCompleted,
                  SessionsChange, counts
    <3>2. CASE UNCHANGED tuiVars
      BY <3>2 DEF tuiVars
    <3> QED
      BY <2>1, <3>1, <3>2
  <2>4. mishaps' \in Nat
    BY <2>2, <2>3
  <2>5. SUFFICES ASSUME habits \cap {"switch", "note"} = {}, mishaps' = 0 PROVE CallsSettle'
    BY <2>2, <2>4 DEF CallsInv
  <2>6. mishaps = 0 /\ "switch" \notin habits /\ "note" \notin habits
    BY <2>2, <2>3, <2>5
  <2>7. CallsSettle /\ OneSession /\ InFlow /\ InputTypes
    BY <2>1, <2>5, <2>6 DEF CallsInv, FlowInv, InputsInv
  <2>8. StepsHere
    BY <2>1, <2>6, <2>7, StepIsHere
  <2>9. CASE Rests
    BY <2>6, <2>7, <2>9, CallsRest DEF Rests
  <2>10. ~LoseStream
    BY <2>2, <2>5, <2>6 DEF LoseStream
  <2> QED
    BY <2>7, <2>8, <2>9, <2>10, CallsBegin, CallsGivenUp, CallsConnect, CallsHandled, CallsSaid, CallsPosted DEF StepsHere
<1> QED
  BY <1>1, <1>2, InputsInvIs, FlowInvIs, PTL DEF TuiSpec

\* The end of a turn finds its call settled.
LEMMA CallsAreSettled ==
  ASSUME FlowInv, CallsInv
  PROVE  CallsSettleFirst
<1>1. SUFFICES ASSUME habits \cap {"switch", "note"} = {}, mishaps = 0, events # <<>>, Here.messages # <<>>, Got.is = "turn end",
                      <<Got.at[1], Got.at[2]>> \in Last(Here.messages).pending
               PROVE  FALSE
  BY DEF CallsSettleFirst
<1>2. OneSession /\ CallsSettle
  BY <1>1 DEF FlowInv, CallsInv
<1> DEFINE c == CallOf(Got)
<1>3. c \in Unsettled
  <2>1. Last(Here.messages).pending = Unsettled
    BY <1>1, <1>2, HereIs DEF LastPending, Last
  <2> QED
    BY <1>1, <2>1 DEF CallOf
<1>4. Got = events[1] /\ 1 \in DOMAIN events
  <2>1. events \in Seq(ServerEvent)
    BY <1>2, SessionParts
  <2>2. Len(events) >= 1 /\ DOMAIN events = 1..Len(events) /\ Len(events) \in Nat
    BY <1>1, <2>1, TailPlaces
  <2>3. Got = events[1]
    BY <1>1, <1>2, GotIs
  <2>4. 1 \in 1..Len(events)
    BY <2>2
  <2> QED
    BY <2>2, <2>3, <2>4
<1>5. IsEnd(events[1], c)
  BY <1>1, <1>4 DEF IsEnd
<1>6. Settles(events, sse.at = "open", Run, c, 0)
  BY <1>2, <1>3 DEF CallsSettle
<1>7. SettledBetween(events, c, 0, 1)
  <2> HIDE DEF c
  <2> QED
    BY <1>4, <1>5, <1>6 DEF Settles
<1>8. PICK i \in DOMAIN events : 0 < i /\ i < 1
  BY <1>7 DEF SettledBetween
<1>9. i \in Int
  BY <1>2, <1>8, SessionParts, LenProperties
<1> QED
  BY <1>8, <1>9

\* The client, for any histories, turns, pieces and inputs and any habits of the user: each input
\* is in one place; while the user stays in one session, a message's text is of one turn and
\* without a gap, whatever is interrupted, steered, retried or lost; and where nothing is lost
\* or noted, the end of a turn finds its call settled.
THEOREM ClientIsKept == TuiSpec => []AppKept
<1>1. InputsInv /\ FlowInv /\ CallsInv => AppKept
  BY HeldIsKept, FlowIsOfTurns, CallsAreSettled DEF AppKept
<1> QED
  BY <1>1, InputsInvIs, FlowInvIs, CallsInvIs, PTL
=============================================================================
