------------------------------ MODULE FoldLemmas ------------------------------
(***************************************************************************)
(* What a fold and a flattened sequence come to, for proofs about models   *)
(* that are built with them: a fold over a sequence is the last of a row   *)
(* of steps, a flattened sequence has each part in its place, and what is  *)
(* made of a sequence element by element is made of its parts.  And what   *)
(* is counted in a sequence, as elements come and go.                      *)
(***************************************************************************)
EXTENDS Integers, Sequences, SequencesExt, FiniteSetsExt, SequenceTheorems,
        WellFoundedInduction, FiniteSetTheorems, FunctionTheorems, TLAPS

-----------------------------------------------------------------------------
(* Induction over numbers, for a set of them; a fold as a sequence of steps. *)

\* A set that holds 0, and with each number the next one, holds them all.
LEMMA Induct ==
  ASSUME NEW S, 0 \in S, \A n \in Nat : n \in S => n + 1 \in S
  PROVE  Nat \subseteq S
<1> DEFINE below == OpToRel(<, Nat)
           rest == Nat \ S
<1>1. SUFFICES ASSUME rest # {} PROVE FALSE
  OBVIOUS
<1>2. \E n \in rest : \A m \in rest : <<m, n>> \notin below
  <2>1. IsWellFoundedOn(below, Nat) /\ rest \subseteq Nat
    BY NatLessThanWellFounded
  <2> HIDE DEF below, rest
  <2> QED
    BY <2>1, <1>1, WFMin
<1>3. PICK n \in rest : \A m \in rest : <<m, n>> \notin below
  BY <1>2
<1>4. n # 0 /\ n \in Nat
  OBVIOUS
<1>5. n - 1 \in Nat /\ n - 1 < n /\ n = (n - 1) + 1
  BY <1>4
<1>6. <<n - 1, n>> \in below
  BY <1>4, <1>5 DEF OpToRel
<1>7. n - 1 \in S
  BY <1>3, <1>5, <1>6
<1>8. n \in S
  BY <1>5, <1>7
<1> QED
  BY <1>8

\* The greatest of some of the first n numbers.
LEMMA MaxOfSome ==
  ASSUME NEW n \in Nat, NEW T \in SUBSET (1..n), T # {}
  PROVE  Max(T) \in T /\ \A m \in T : m <= Max(T)
<1> DEFINE S == {k \in Nat : \A U \in SUBSET (1..k) : U # {} => \E x \in U : \A y \in U : x >= y}
<1>1. 0 \in S
  <2>1. 1..0 = {}
    OBVIOUS
  <2> QED
    BY <2>1
<1>2. ASSUME NEW k \in Nat, k \in S PROVE k + 1 \in S
  <2>1. SUFFICES ASSUME NEW U \in SUBSET (1..(k + 1)), U # {}
                 PROVE  \E x \in U : \A y \in U : x >= y
    OBVIOUS
  <2>2. CASE k + 1 \in U
    BY <2>2
  <2>3. CASE k + 1 \notin U
    <3>1. U \in SUBSET (1..k)
      BY <2>3
    <3> QED
      BY <3>1, <2>1, <1>2
  <2> QED
    BY <2>2, <2>3
<1>3. n \in S
  <2> HIDE DEF S
  <2> QED
    BY <1>1, <1>2, Induct
<1>4. \E x \in T : \A y \in T : x >= y
  BY <1>3
<1> QED
  BY <1>4 DEF Max

\* What a fold over the first n indices comes to, for each set of them.
FoldsOf(X, base, n, step) ==
  {g \in [SUBSET (1..n) -> X] : \A T \in SUBSET (1..n) :
      g[T] = IF T = {} THEN base ELSE step[<<Max(T), g[T \ {Max(T)}]>>]}

\* A fold over the first n numbers comes to something, whatever is left out.
LEMMA FoldExists ==
  ASSUME NEW X, NEW base \in X, NEW n \in Nat, NEW step \in [(1..n) \X X -> X]
  PROVE  FoldsOf(X, base, n, step) # {}
<1> DEFINE Folds(k) == {g \in [SUBSET (1..k) -> X] : \A T \in SUBSET (1..k) :
                           g[T] = IF T = {} THEN base ELSE step[<<Max(T), g[T \ {Max(T)}]>>]}
           S == {k \in Nat : k <= n => Folds(k) # {}}
<1>1. 0 \in S
  <2>1. SUBSET (1..0) = {{}}
    OBVIOUS
  <2>2. [T \in SUBSET (1..0) |-> base] \in Folds(0)
    BY <2>1
  <2> QED
    BY <2>2
<1>2. ASSUME NEW k \in Nat, k \in S PROVE k + 1 \in S
  <2>1. SUFFICES ASSUME k + 1 <= n PROVE Folds(k + 1) # {}
    <3> HIDE DEF Folds
    <3> QED
      OBVIOUS
  <2>2. PICK g : g \in Folds(k)
    <3>1. k <= n
      BY <2>1
    <3> HIDE DEF Folds
    <3> QED
      BY <3>1, <1>2
  <2> DEFINE h == [T \in SUBSET (1..(k + 1)) |-> IF k + 1 \in T THEN step[<<k + 1, g[T \ {k + 1}]>>] ELSE g[T]]
  <2>3. ASSUME NEW T \in SUBSET (1..(k + 1))
        PROVE  h[T] \in X /\ h[T] = IF T = {} THEN base ELSE step[<<Max(T), h[T \ {Max(T)}]>>]
    <3>1. CASE k + 1 \in T
      <4>1. Max(T) = k + 1
        <5>1. Max(T) \in T /\ \A m \in T : m <= Max(T)
          <6>1. k + 1 \in Nat /\ T # {}
            BY <3>1
          <6> HIDE DEF h, Folds, S
          <6> QED
            BY <6>1, MaxOfSome
        <5>2. Max(T) \in 1..(k + 1) /\ k + 1 <= Max(T)
          BY <3>1, <5>1
        <5> QED
          BY <5>2
      <4>2. T \ {k + 1} \in SUBSET (1..k) /\ T \ {k + 1} \in SUBSET (1..(k + 1))
        OBVIOUS
      <4>3. h[T \ {k + 1}] = g[T \ {k + 1}] /\ g[T \ {k + 1}] \in X
        BY <4>2, <2>2
      <4>4. h[T] = step[<<k + 1, g[T \ {k + 1}]>>]
        BY <3>1
      <4>5. k + 1 \in 1..n
        BY <2>1
      <4> HIDE DEF h, Folds
      <4> QED
        BY <3>1, <4>1, <4>3, <4>4, <4>5
    <3>2. CASE k + 1 \notin T
      <4>1. T \in SUBSET (1..k) /\ h[T] = g[T]
        BY <3>2
      <4>2. h[T \ {Max(T)}] = g[T \ {Max(T)}]
        <5>1. T \ {Max(T)} \in SUBSET (1..(k + 1)) /\ k + 1 \notin T \ {Max(T)}
          BY <3>2
        <5> HIDE DEF Folds, S
        <5> QED
          BY <5>1
      <4> QED
        BY <4>1, <4>2, <2>2
    <3> QED
      BY <3>1, <3>2
  <2>4. h \in Folds(k + 1)
    <3>1. h \in [SUBSET (1..(k + 1)) -> X]
      BY <2>3
    <3> HIDE DEF h
    <3> QED
      BY <2>3, <3>1
  <2> QED
    BY <2>4
<1>3. n \in S
  <2> HIDE DEF S
  <2> QED
    BY <1>1, <1>2, Induct
<1>4. Folds(n) # {}
  <2> HIDE DEF Folds
  <2> QED
    BY <1>3
<1> QED
  BY <1>4 DEF FoldsOf

\* The first k of them, in order.
LEMMA FirstOnes ==
  ASSUME NEW n \in Nat, NEW k \in 1..n
  PROVE  1..k \in SUBSET (1..n) /\ 1..k # {} /\ Max(1..k) = k /\ (1..k) \ {k} = 1..(k - 1)
<1>1. 1..k \in SUBSET (1..n) /\ 1..k # {} /\ k \in 1..k
  OBVIOUS
<1>2. Max(1..k) \in 1..k /\ k <= Max(1..k)
  BY <1>1, MaxOfSome
<1> QED
  BY <1>1, <1>2

\* h is what the fold comes to as long as it stays within X.
FoldsTo(X, base, n, step, h) ==
  /\ h[{}] = base
  /\ \A T \in SUBSET (1..n) : T # {} /\ h[T \ {Max(T)}] \in X => h[T] = step[<<Max(T), h[T \ {Max(T)}]>>]

\* What it comes to step by step.
StepsOf(X, base, n, step, last) ==
  {w \in [0..n -> X] : w[0] = base /\ w[n] = last /\ \A k \in 1..n : w[k] = step[<<k, w[k - 1]>>]}

\* A fold as its steps: what it comes to for the first k indices.
LEMMA FoldSteps ==
  ASSUME NEW X, NEW base \in X, NEW n \in Nat, NEW step \in [(1..n) \X X -> X],
         NEW h, FoldsTo(X, base, n, step, h)
  PROVE  StepsOf(X, base, n, step, h[1..n]) # {}
<1> DEFINE S == {k \in Nat : k <= n => h[1..k] \in X}
<1>1. h[1..0] = base
  <2>1. 1..0 = {}
    OBVIOUS
  <2> QED
    BY <2>1 DEF FoldsTo
<1>2. ASSUME NEW k \in 1..n, h[1..(k - 1)] \in X
      PROVE  h[1..k] = step[<<k, h[1..(k - 1)]>>] /\ h[1..k] \in X
  <2>1. 1..k \in SUBSET (1..n) /\ 1..k # {} /\ Max(1..k) = k /\ (1..k) \ {k} = 1..(k - 1)
    BY FirstOnes
  <2>2. h[1..k] = step[<<k, h[1..(k - 1)]>>]
    BY <2>1, <1>2 DEF FoldsTo
  <2>3. <<k, h[1..(k - 1)]>> \in (1..n) \X X
    BY <1>2
  <2> QED
    BY <2>2, <2>3
<1>3. Nat \subseteq S
  <2>1. 0 \in S
    BY <1>1
  <2>2. ASSUME NEW k \in Nat, k \in S PROVE k + 1 \in S
    <3>1. ASSUME k + 1 <= n PROVE h[1..(k + 1)] \in X
      <4>1. k + 1 \in 1..n /\ (k + 1) - 1 = k /\ h[1..k] \in X
        BY <2>2, <3>1
      <4> QED
        BY <4>1, <1>2
    <3> QED
      BY <3>1
  <2> HIDE DEF S
  <2> QED
    BY <2>1, <2>2, Induct
<1> DEFINE w == [k \in 0..n |-> h[1..k]]
<1>4. \A k \in 0..n : h[1..k] \in X
  BY <1>3
<1>5. w \in [0..n -> X] /\ w[0] = base /\ w[n] = h[1..n]
  BY <1>1, <1>4
<1>6. ASSUME NEW k \in 1..n PROVE w[k] = step[<<k, w[k - 1]>>]
  <2>1. k \in 0..n /\ k - 1 \in 0..n
    OBVIOUS
  <2>2. w[k] = h[1..k] /\ w[k - 1] = h[1..(k - 1)]
    BY <2>1
  <2> HIDE DEF w
  <2> QED
    BY <2>1, <2>2, <1>2, <1>4
<1> HIDE DEF w
<1> QED
  BY <1>5, <1>6 DEF StepsOf

\* One element is a sequence.
LEMMA SingleSeq ==
  ASSUME NEW X, NEW e \in X
  PROVE  <<e>> \in Seq(X) /\ <<>> \in Seq(X) /\ DOMAIN <<e>> = {1} /\ <<e>>[1] = e /\ Len(<<e>>) = 1
  OBVIOUS

\* Where the elements of an extended sequence are.
LEMMA AppendedAt ==
  ASSUME NEW S, NEW q \in Seq(S), NEW e
  PROVE  /\ DOMAIN Append(q, e) = 1..(Len(q) + 1) /\ DOMAIN q = 1..Len(q) /\ Len(q) \in Nat
         /\ \A i \in DOMAIN q : i \in DOMAIN Append(q, e) /\ Append(q, e)[i] = q[i]
         /\ \A i \in DOMAIN Append(q, e) : (i \in DOMAIN q /\ Append(q, e)[i] = q[i]) \/ (i = Len(q) + 1 /\ Append(q, e)[i] = e)
         /\ Len(q) + 1 \in DOMAIN Append(q, e) /\ Append(q, e)[Len(q) + 1] = e
<1> DEFINE U == S \cup {e}
<1>1. q \in Seq(U) /\ e \in U
  OBVIOUS
<1> HIDE DEF U
<1> QED
  BY <1>1, AppendProperties, LenProperties

\* Where the elements of two joined sequences are.
LEMMA ConcatAt ==
  ASSUME NEW S, NEW q \in Seq(S), NEW g \in Seq(S), NEW c, c = q \o g
  PROVE  /\ c \in Seq(S) /\ Len(q) \in Nat /\ Len(g) \in Nat
         /\ DOMAIN q = 1..Len(q) /\ DOMAIN g = 1..Len(g) /\ DOMAIN c = 1..(Len(q) + Len(g))
         /\ \A i \in DOMAIN q : i \in DOMAIN c /\ c[i] = q[i]
         /\ \A i \in DOMAIN g : Len(q) + i \in DOMAIN c /\ c[Len(q) + i] = g[i]
         /\ \A i \in DOMAIN c : (i \in DOMAIN q /\ c[i] = q[i]) \/ (i > Len(q) /\ i - Len(q) \in DOMAIN g /\ c[i] = g[i - Len(q)])
<1>1. c \in Seq(S) /\ Len(c) = Len(q) + Len(g) /\ \A i \in 1..(Len(q) + Len(g)) : c[i] = IF i <= Len(q) THEN q[i] ELSE g[i - Len(q)]
  BY ConcatProperties
<1>2. Len(q) \in Nat /\ Len(g) \in Nat /\ DOMAIN q = 1..Len(q) /\ DOMAIN g = 1..Len(g)
  BY LenProperties
<1>3. DOMAIN c = 1..(Len(q) + Len(g))
  BY <1>1, LenProperties
<1>4. \A i \in DOMAIN q : i \in DOMAIN c /\ c[i] = q[i]
  BY <1>1, <1>2, <1>3
<1>5. \A i \in DOMAIN g : Len(q) + i \in DOMAIN c /\ c[Len(q) + i] = g[i]
  <2>1. SUFFICES ASSUME NEW i \in 1..Len(g) PROVE Len(q) + i \in DOMAIN c /\ c[Len(q) + i] = g[i]
    BY <1>2
  <2>2. Len(q) + i \in 1..(Len(q) + Len(g)) /\ ~(Len(q) + i <= Len(q)) /\ (Len(q) + i) - Len(q) = i
    BY <1>2
  <2> QED
    BY <1>1, <1>3, <2>2
<1>6. \A i \in DOMAIN c : (i \in DOMAIN q /\ c[i] = q[i]) \/ (i > Len(q) /\ i - Len(q) \in DOMAIN g /\ c[i] = g[i - Len(q)])
  BY <1>1, <1>2, <1>3
<1> QED
  BY <1>1, <1>2, <1>3, <1>4, <1>5, <1>6

\* All but the last element.
LEMMA FrontIsSeq ==
  ASSUME NEW S, NEW q \in Seq(S), q # <<>>
  PROVE  Front(q) \in Seq(S) /\ Len(Front(q)) = Len(q) - 1 /\ \A i \in 1..(Len(q) - 1) : Front(q)[i] = q[i]
<1>1. Len(q) \in Nat /\ Len(q) # 0 /\ \A i \in 1..Len(q) : q[i] \in S
  BY EmptySeq, LenProperties
<1>2. Front(q) = SubSeq(q, 1, Len(q) - 1)
  BY DEF Front
<1> DEFINE m == Len(q) - 1
<1>3. m \in Int /\ 1 \in Int /\ \A i \in 1..m : q[i] \in S
  BY <1>1
<1>4. SubSeq(q, 1, m) \in Seq(S) /\ Len(SubSeq(q, 1, m)) = (IF 1 <= m THEN m - 1 + 1 ELSE 0)
      /\ \A i \in 1..(m - 1 + 1) : SubSeq(q, 1, m)[i] = q[1 + i - 1]
  <2> HIDE DEF m
  <2> QED
    BY <1>3, SubSeqProperties
<1>5. m - 1 + 1 = m /\ \A i \in 1..m : q[1 + i - 1] = q[i]
  BY <1>1
<1>6. (IF 1 <= m THEN m - 1 + 1 ELSE 0) = m
  <2>1. \A k \in Nat : (IF 1 <= k THEN k - 1 + 1 ELSE 0) = k
    OBVIOUS
  <2>2. m \in Nat
    BY <1>1
  <2> HIDE DEF m
  <2> QED
    BY <2>1, <2>2
<1> HIDE DEF m
<1>7. Front(q) = SubSeq(q, 1, m)
  BY <1>2 DEF m
<1> QED
  BY <1>4, <1>5, <1>6, <1>7 DEF m
-----------------------------------------------------------------------------
(* Sequences one behind the other.                                          *)

\* There are steps to fold with.
SomeSteps(X, base, n, step) ==
  {w \in [0..n -> X] : w[0] = base /\ \A k \in 1..n : w[k] = step[<<k, w[k - 1]>>]}

\* Steps can be taken one after another.
LEMMA StepsExist ==
  ASSUME NEW X, NEW base \in X, NEW n \in Nat, NEW step \in [(1..n) \X X -> X]
  PROVE  SomeSteps(X, base, n, step) # {}
<1>1. PICK h \in FoldsOf(X, base, n, step) : TRUE
  BY FoldExists
<1>2. FoldsTo(X, base, n, step, h)
  <2>1. /\ h \in [SUBSET (1..n) -> X]
        /\ \A T \in SUBSET (1..n) : h[T] = IF T = {} THEN base ELSE step[<<Max(T), h[T \ {Max(T)}]>>]
    BY <1>1 DEF FoldsOf
  <2> QED
    BY <2>1 DEF FoldsTo
<1>3. StepsOf(X, base, n, step, h[1..n]) # {}
  BY <1>2, FoldSteps
<1>4. StepsOf(X, base, n, step, h[1..n]) \subseteq SomeSteps(X, base, n, step)
  BY DEF StepsOf, SomeSteps
<1> QED
  BY <1>3, <1>4

\* Where the parts of flat begin, or rather what lies before them.
Places(b, flat) ==
  {at \in [0..Len(b) -> Nat] :
      /\ at[0] = 0 /\ at[Len(b)] = Len(flat)
      /\ \A i \in 1..Len(b) : /\ at[i] = at[i - 1] + Len(b[i])
                              /\ \A j \in 1..Len(b[i]) : flat[at[i - 1] + j] = b[i][j]}

\* The sequences that FlattenSeq comes to for the first few parts.
FlatSteps(S, b) ==
  {w \in [0..Len(b) -> Seq(S)] :
      w[0] = <<>> /\ w[Len(b)] = FlattenSeq(b) /\ \A k \in 1..Len(b) : w[k] = w[k - 1] \o b[k]}

\* Flattening joins one part after another.
LEMMA FlattenSteps ==
  ASSUME NEW S, NEW b \in Seq(Seq(S))
  PROVE  FlatSteps(S, b) # {}
<1> DEFINE n == Len(b)
           X == Seq(S)
           step == [p \in (1..n) \X X |-> p[2] \o b[p[1]]]
           Flat(f) == [i \in 1..n |-> IF i = 1 THEN b[i] ELSE f[i - 1] \o b[i]]
<1>1. n \in Nat /\ <<>> \in X /\ \A k \in 1..n : b[k] \in X
  BY LenProperties, EmptySeq
<1>2. \A q \in X : \A g \in X : q \o g \in X /\ <<>> \o g = g
  BY ConcatProperties, ConcatEmptySeq
<1>3. step \in [(1..n) \X X -> X]
  <2>1. ASSUME NEW k \in 1..n, NEW q \in X PROVE q \o b[k] \in X
    <3> HIDE DEF X
    <3> QED
      BY <1>1, <1>2
  <2> HIDE DEF X
  <2> QED
    BY <2>1
<1> HIDE DEF n, X
<1>4. ASSUME NEW k \in 1..n, NEW q \in X PROVE step[<<k, q>>] = q \o b[k]
  <2>1. <<k, q>> \in (1..n) \X X
    OBVIOUS
  <2> QED
    BY <2>1
<1>5. PICK u : u \in [0..n -> X] /\ u[0] = <<>> /\ \A k \in 1..n : u[k] = step[<<k, u[k - 1]>>]
  <2> HIDE DEF step
  <2>1. PICK u \in SomeSteps(X, <<>>, n, step) : TRUE
    BY <1>1, <1>3, StepsExist
  <2> QED
    BY <2>1 DEF SomeSteps
<1> HIDE DEF step
<1>a. \A k \in 1..n : k \in 0..n /\ k - 1 \in 0..n
  BY <1>1
<1>6. \A k \in 1..n : u[k] = u[k - 1] \o b[k]
  BY <1>4, <1>5, <1>a
<1>7. CASE n = 0
  <2>1. FlattenSeq(b) = b /\ b = <<>>
    BY <1>7, EmptySeq DEF FlattenSeq, n
  <2>2. u \in FlatSteps(S, b)
    BY <1>5, <1>6, <1>7, <2>1 DEF FlatSteps, n, X
  <2> QED
    BY <2>2
<1>8. CASE n # 0
  <2>1. \E f : f = Flat(f)
    <3> DEFINE v == [i \in 1..n |-> u[i]]
    <3>1. ASSUME NEW i \in 1..n PROVE v[i] = IF i = 1 THEN b[i] ELSE v[i - 1] \o b[i]
      <4>1. CASE i = 1
        <5>1. u[i] = <<>> \o b[i] /\ b[i] \in X
          <6>1. i - 1 = 0
            BY <4>1
          <6> QED
            BY <1>1, <1>5, <1>6, <6>1
        <5> QED
          BY <1>2, <4>1, <5>1
      <4>2. CASE i # 1
        <5>1. i - 1 \in 1..n
          BY <1>1, <4>2
        <5> QED
          BY <1>6, <4>2, <5>1
      <4> QED
        BY <4>1, <4>2
    <3>2. v = Flat(v)
      <4>1. v = [i \in 1..n |-> v[i]]
        OBVIOUS
      <4>2. [i \in 1..n |-> v[i]] = Flat(v)
        <5> HIDE DEF v
        <5> QED
          BY <3>1
      <4> HIDE DEF v, Flat
      <4> QED
        BY <4>1, <4>2
    <3> HIDE DEF v, Flat
    <3> QED
      BY <3>2
  <2> DEFINE f == CHOOSE f : f = Flat(f)
  <2>2. f = Flat(f)
    <3> HIDE DEF Flat
    <3> QED
      BY <2>1
  <2>3. FlattenSeq(b) = f[n]
    BY <1>8 DEF FlattenSeq, n
  <2> HIDE DEF f
  <2>4. \A i \in 1..n : f[i] = IF i = 1 THEN b[i] ELSE f[i - 1] \o b[i]
    BY <2>2
  <2> DEFINE T == {k \in Nat : k + 1 <= n => f[k + 1] = u[k + 1]}
  <2>5. 0 \in T
    <3>1. 0 + 1 <= n => 1 \in 1..n /\ 1 - 1 = 0
      BY <1>1
    <3>2. 1 \in 1..n => u[1] = <<>> \o b[1] /\ b[1] \in X /\ f[1] = b[1]
      <4>1. SUFFICES ASSUME 1 \in 1..n PROVE u[1] = <<>> \o b[1] /\ b[1] \in X /\ f[1] = b[1]
        OBVIOUS
      <4>2. PICK i : i = 1
        OBVIOUS
      <4>3. i \in 1..n /\ i - 1 = 0
        BY <4>1, <4>2
      <4>4. u[i] = u[i - 1] \o b[i]
        BY <1>6, <4>3
      <4>5. u[1] = u[0] \o b[1]
        BY ONLY <4>2, <4>3, <4>4
      <4> QED
        BY <1>1, <1>5, <2>4, <4>1, <4>5
    <3>3. 1 \in 1..n => f[1] = u[1]
      BY <1>2, <3>2
    <3> QED
      BY <3>1, <3>3
  <2>6. ASSUME NEW k \in Nat, k \in T PROVE k + 1 \in T
    <3>1. SUFFICES ASSUME (k + 1) + 1 <= n PROVE f[(k + 1) + 1] = u[(k + 1) + 1]
      OBVIOUS
    <3>2. k + 1 <= n /\ (k + 1) + 1 \in 1..n /\ ((k + 1) + 1) - 1 = k + 1 /\ (k + 1) + 1 # 1
      BY <1>1, <3>1
    <3>3. f[k + 1] = u[k + 1]
      BY <2>6, <3>2
    <3> DEFINE m == (k + 1) + 1
    <3>4. m \in 1..n /\ m - 1 = k + 1 /\ m # 1
      BY <3>2
    <3> HIDE DEF m
    <3>5. f[m] = f[m - 1] \o b[m] /\ u[m] = u[m - 1] \o b[m]
      BY <1>6, <2>4, <3>4
    <3>6. f[m - 1] = u[m - 1]
      BY <3>3, <3>4
    <3>7. f[m] = u[m]
      BY <3>5, <3>6
    <3> QED
      BY <3>7 DEF m
  <2>7. f[n] = u[n]
    <3>1. Nat \subseteq T
      <4> HIDE DEF T
      <4> QED
        BY <2>5, <2>6, Induct
    <3>2. n - 1 \in Nat /\ (n - 1) + 1 = n /\ n <= n
      BY <1>1, <1>8
    <3>3. n - 1 \in T
      BY <3>1, <3>2
    <3> QED
      BY <3>2, <3>3
  <2>8. u \in FlatSteps(S, b)
    BY <1>5, <1>6, <2>3, <2>7 DEF FlatSteps, n, X
  <2> QED
    BY <2>8
<1> QED
  BY <1>7, <1>8
\* What FlattenSeq comes to has every part at its place, in order and nothing else.
LEMMA FlattenPlaces ==
  ASSUME NEW S, NEW b \in Seq(Seq(S))
  PROVE  FlattenSeq(b) \in Seq(S) /\ Places(b, FlattenSeq(b)) # {}
<1> DEFINE n == Len(b)
           flat == FlattenSeq(b)
<1>1. n \in Nat /\ n \in 0..n /\ \A k \in 1..n : b[k] \in Seq(S) /\ k \in 0..n /\ k - 1 \in 0..n
  BY LenProperties
<1>2. PICK w \in FlatSteps(S, b) : TRUE
  BY FlattenSteps
<1>3. w \in [0..n -> Seq(S)] /\ w[0] = <<>> /\ w[n] = flat /\ \A k \in 1..n : w[k] = w[k - 1] \o b[k]
  BY <1>2 DEF FlatSteps
<1> HIDE DEF n, flat
<1>4. ASSUME NEW k \in 1..n
      PROVE  /\ w[k - 1] \in Seq(S) /\ w[k] \in Seq(S) /\ b[k] \in Seq(S) /\ Len(w[k]) = Len(w[k - 1]) + Len(b[k])
             /\ \A i \in DOMAIN w[k - 1] : w[k][i] = w[k - 1][i]
             /\ \A i \in DOMAIN b[k] : w[k][Len(w[k - 1]) + i] = b[k][i]
             /\ DOMAIN w[k - 1] = 1..Len(w[k - 1]) /\ DOMAIN b[k] = 1..Len(b[k]) /\ Len(w[k - 1]) \in Nat /\ Len(b[k]) \in Nat
  <2>1. w[k - 1] \in Seq(S) /\ w[k] \in Seq(S) /\ b[k] \in Seq(S) /\ w[k] = w[k - 1] \o b[k]
    BY <1>1, <1>3
  <2>2. PICK q : q = w[k - 1]
    OBVIOUS
  <2>3. PICK g : g = b[k]
    OBVIOUS
  <2>4. PICK c : c = w[k]
    OBVIOUS
  <2>5. q \in Seq(S) /\ g \in Seq(S) /\ c = q \o g
    BY <2>1, <2>2, <2>3, <2>4
  <2>6. /\ DOMAIN q = 1..Len(q) /\ DOMAIN g = 1..Len(g) /\ DOMAIN c = 1..(Len(q) + Len(g)) /\ c \in Seq(S)
        /\ Len(q) \in Nat /\ Len(g) \in Nat
        /\ \A i \in DOMAIN q : c[i] = q[i]
        /\ \A i \in DOMAIN g : c[Len(q) + i] = g[i]
    BY ONLY <2>5, ConcatAt
  <2>7. Len(c) = Len(q) + Len(g)
    BY ONLY <2>5, ConcatProperties
  <2> QED
    BY ONLY <2>1, <2>2, <2>3, <2>4, <2>6, <2>7
<1> DEFINE at == [k \in 0..n |-> Len(w[k])]
<1>5. at \in [0..n -> Nat] /\ at[0] = 0 /\ at[n] = Len(flat) /\ \A k \in 0..n : at[k] = Len(w[k])
  <2>1. \A k \in 0..n : Len(w[k]) \in Nat
    BY <1>3, LenProperties
  <2>2. Len(<<>>) = 0
    OBVIOUS
  <2> QED
    BY <1>1, <1>3, <2>1, <2>2
<1> HIDE DEF at
<1>6. \A i \in 1..n : at[i] = at[i - 1] + Len(b[i])
  BY <1>1, <1>4, <1>5
<1> DEFINE Kept(k) == \A i \in 1..n : i <= k => \A j \in 1..Len(b[i]) : at[i - 1] + j \in DOMAIN w[k] /\ w[k][at[i - 1] + j] = b[i][j]
           T == {k \in Nat : k <= n => Kept(k)}
<1>7. 0 \in T
  BY <1>1
<1>8. ASSUME NEW k \in Nat, k \in T PROVE k + 1 \in T
  <2>1. SUFFICES ASSUME k + 1 <= n PROVE Kept(k + 1)
    OBVIOUS
  <2> DEFINE m == k + 1
  <2>2. m \in 1..n /\ m - 1 = k /\ k <= n /\ \A i \in 1..n : i <= m => i <= k \/ i = m
    BY <1>1, <2>1
  <2>3. Kept(k)
    BY <1>8, <2>2
  <2> HIDE DEF m, T
  <2>4. /\ DOMAIN w[k] = 1..Len(w[k]) /\ Len(w[k]) \in Nat /\ Len(b[m]) \in Nat /\ DOMAIN b[m] = 1..Len(b[m])
        /\ \A i \in DOMAIN w[k] : w[m][i] = w[k][i]
        /\ \A i \in DOMAIN b[m] : w[m][Len(w[k]) + i] = b[m][i]
        /\ Len(w[m]) = Len(w[k]) + Len(b[m]) /\ w[m] \in Seq(S)
    BY <1>4, <2>2
  <2>5. DOMAIN w[m] = 1..(Len(w[k]) + Len(b[m])) /\ at[m - 1] = Len(w[k])
    BY <1>1, <1>5, <2>2, <2>4, LenProperties
  <2>6. ASSUME NEW i \in 1..n, i <= m, NEW j \in 1..Len(b[i])
        PROVE  at[i - 1] + j \in DOMAIN w[m] /\ w[m][at[i - 1] + j] = b[i][j]
    <3>1. CASE i <= k
      <4>1. at[i - 1] + j \in DOMAIN w[k] /\ w[k][at[i - 1] + j] = b[i][j]
        BY <2>3, <3>1
      <4>2. DOMAIN w[k] \subseteq DOMAIN w[m]
        <5>1. \A x, y \in Nat : 1..x \subseteq 1..(x + y)
          OBVIOUS
        <5>2. 1..Len(w[k]) \subseteq 1..(Len(w[k]) + Len(b[m]))
          BY <2>4, <5>1
        <5> QED
          BY <2>4, <2>5, <5>2
      <4> QED
        BY <2>4, <4>1, <4>2
    <3>2. CASE i = m
      <4>1. j \in 1..Len(b[m]) /\ Len(w[k]) + j \in 1..(Len(w[k]) + Len(b[m]))
        <5>1. \A x, y \in Nat : \A z \in 1..y : x + z \in 1..(x + y)
          OBVIOUS
        <5>2. j \in 1..Len(b[m])
          BY <2>6, <3>2
        <5> QED
          BY <2>4, <5>1, <5>2
      <4> QED
        BY <2>4, <2>5, <3>2, <4>1
    <3> QED
      BY <2>2, <2>6, <3>1, <3>2
  <2>7. Kept(m)
    BY <2>6
  <2> QED
    BY <2>7 DEF m
<1>9. Kept(n)
  <2>1. Nat \subseteq T
    <3> HIDE DEF T
    <3> QED
      BY <1>7, <1>8, Induct
  <2>2. n <= n
    BY <1>1
  <2> HIDE DEF Kept
  <2> QED
    BY <1>1, <2>1, <2>2
<1>10. \A i \in 1..n : \A j \in 1..Len(b[i]) : flat[at[i - 1] + j] = b[i][j]
  <2>1. \A i \in 1..n : i <= n
    BY <1>1
  <2> QED
    BY <1>3, <1>9, <2>1
<1>11. at \in Places(b, flat)
  BY <1>5, <1>6, <1>10 DEF Places, n
<1>12. flat \in Seq(S)
  BY <1>1, <1>3
<1> QED
  BY <1>11, <1>12 DEF flat

\* The parts are in order, and a place in the whole is in one of them.
LEMMA PlacesInOrder ==
  ASSUME NEW S, NEW b \in Seq(Seq(S)), NEW flat \in Seq(S), NEW at \in Places(b, flat)
  PROVE  /\ \A i \in 0..Len(b), k \in 0..Len(b) : i <= k => at[i] <= at[k]
         /\ \A p \in 1..Len(flat) : \E i \in 1..Len(b) : \E j \in 1..Len(b[i]) : p = at[i - 1] + j
         /\ \A i \in 1..Len(b) : \A j \in 1..Len(b[i]) : at[i - 1] + j \in 1..Len(flat)
<1> DEFINE n == Len(b)
<1>1. n \in Nat /\ \A i \in 1..n : b[i] \in Seq(S) /\ Len(b[i]) \in Nat /\ i - 1 \in 0..n /\ i \in 0..n
  BY LenProperties
<1>2. /\ at \in [0..n -> Nat] /\ at[0] = 0 /\ at[n] = Len(flat)
      /\ \A i \in 1..n : at[i] = at[i - 1] + Len(b[i])
  BY DEF Places
<1> HIDE DEF n
<1> DEFINE T == {k \in Nat : k <= n => /\ \A i \in 0..n : i <= k => at[i] <= at[k]
                                    /\ \A p \in 1..at[k] : \E i \in 1..n : \E j \in 1..Len(b[i]) : p = at[i - 1] + j}
<1>3. 0 \in T
  <2>1. 0 <= n /\ \A i \in 0..n : i <= 0 => i = 0
    BY <1>1
  <2>2. 1..at[0] = {} /\ at[0] <= at[0]
    BY <1>2
  <2> QED
    BY <2>1, <2>2
<1>4. ASSUME NEW k \in Nat, k \in T PROVE k + 1 \in T
  <2> DEFINE m == k + 1
  <2>1. SUFFICES ASSUME m <= n
                 PROVE  /\ \A i \in 0..n : i <= m => at[i] <= at[m]
                        /\ \A p \in 1..at[m] : \E i \in 1..n : \E j \in 1..Len(b[i]) : p = at[i - 1] + j
    OBVIOUS
  <2>2. m \in 1..n /\ m - 1 = k /\ k <= n /\ k \in 0..n /\ m \in 0..n /\ \A i \in 0..n : i <= m => i <= k \/ i = m
    BY <1>1, <2>1
  <2>3. /\ \A i \in 0..n : i <= k => at[i] <= at[k]
        /\ \A p \in 1..at[k] : \E i \in 1..n : \E j \in 1..Len(b[i]) : p = at[i - 1] + j
    BY <1>4, <2>2
  <2> HIDE DEF m, T
  <2>4. at[m] = at[k] + Len(b[m]) /\ at[k] \in Nat /\ at[m] \in Nat /\ Len(b[m]) \in Nat
    BY <1>1, <1>2, <2>2
  <2>5. ASSUME NEW i \in 0..n, i <= m PROVE at[i] <= at[m]
    <3>1. at[i] \in Nat
      BY <1>2
    <3>2. CASE i <= k
      <4>1. at[i] <= at[k]
        BY <2>3, <3>2
      <4>2. \A x, y, z \in Nat : x <= y => x <= y + z
        OBVIOUS
      <4>3. at[i] <= at[k] + Len(b[m])
        BY <2>4, <3>1, <4>1, <4>2
      <4> QED
        BY <2>4, <4>3
    <3>3. CASE i = m
      BY <2>4, <3>3
    <3> QED
      BY <2>2, <2>5, <3>2, <3>3
  <2>6. ASSUME NEW p \in 1..at[m] PROVE \E i \in 1..n : \E j \in 1..Len(b[i]) : p = at[i - 1] + j
    <3>1. CASE p <= at[k]
      <4>1. p \in 1..at[k]
        BY <2>4, <3>1
      <4> QED
        BY <2>3, <4>1
    <3>2. CASE p > at[k]
      <4>1. p - at[k] \in 1..Len(b[m]) /\ p = at[k] + (p - at[k])
        <5>1. \A x, y \in Nat : \A z \in 1..(x + y) : z > x => z - x \in 1..y /\ z = x + (z - x)
          OBVIOUS
        <5>2. p \in 1..(at[k] + Len(b[m]))
          BY <2>4
        <5> QED
          BY <2>4, <3>2, <5>1, <5>2
      <4>2. at[m - 1] = at[k]
        BY <2>2
      <4> QED
        BY <2>2, <4>1, <4>2
    <3>3. p <= at[k] \/ p > at[k]
      BY <2>4
    <3> QED
      BY <3>1, <3>2, <3>3
  <2> QED
    BY <2>5, <2>6
<1>5. Nat \subseteq T
  <2> HIDE DEF T
  <2> QED
    BY <1>3, <1>4, Induct
<1>6. \A i \in 0..n, k \in 0..n : i <= k => at[i] <= at[k]
  <2>1. \A k \in 0..n : k \in Nat /\ k <= n
    BY <1>1
  <2> QED
    BY <1>5, <2>1
<1>7. \A p \in 1..Len(flat) : \E i \in 1..n : \E j \in 1..Len(b[i]) : p = at[i - 1] + j
  <2>1. n <= n
    BY <1>1
  <2> QED
    BY <1>1, <1>2, <1>5, <2>1
<1>8. ASSUME NEW i \in 1..n, NEW j \in 1..Len(b[i]) PROVE at[i - 1] + j \in 1..Len(flat)
  <2>1. i \in 0..n /\ n \in 0..n /\ i <= n /\ at[i - 1] \in Nat /\ at[i] \in Nat /\ at[n] \in Nat /\ Len(b[i]) \in Nat
    BY <1>1, <1>2
  <2>2. at[i] <= at[n] /\ at[i] = at[i - 1] + Len(b[i])
    <3>1. at[i] <= at[n]
      BY <1>6, <2>1
    <3> QED
      BY <1>2, <3>1
  <2>3. \A x, y, z \in Nat : x + y <= z => \A l \in 1..y : x + l \in 1..z
    OBVIOUS
  <2>4. at[i - 1] + Len(b[i]) <= at[n]
    BY <2>2
  <2> QED
    BY <1>2, <2>1, <2>3, <2>4
<1> QED
  BY <1>6, <1>7, <1>8 DEF n

-----------------------------------------------------------------------------
(* What is made of a sequence, element by element.                           *)

\* A set that holds the empty sequence, and with each sequence the longer ones, holds them all.
LEMMA SeqInduct ==
  ASSUME NEW S, NEW T, <<>> \in T, \A q \in Seq(S), e \in S : q \in T => Append(q, e) \in T
  PROVE  Seq(S) \subseteq T
<1> DEFINE N == {n \in Nat : \A q \in Seq(S) : Len(q) = n => q \in T}
<1>1. 0 \in N
  <2>1. \A q \in Seq(S) : Len(q) = 0 => q = <<>>
    BY EmptySeq
  <2> QED
    BY <2>1
<1>2. ASSUME NEW n \in Nat, n \in N PROVE n + 1 \in N
  <2>1. SUFFICES ASSUME NEW q \in Seq(S), Len(q) = n + 1 PROVE q \in T
    OBVIOUS
  <2>2. q # <<>>
    BY <2>1, EmptySeq
  <2>3. PICK p \in Seq(S), e \in S : q = Append(p, e)
    BY <2>2, SequenceEmptyOrAppend
  <2>4. Len(q) = Len(p) + 1 /\ Len(p) \in Nat
    BY <2>3, AppendProperties, LenProperties
  <2>5. p \in T
    BY <1>2, <2>1, <2>4
  <2> QED
    BY <2>3, <2>5
<1>3. Nat \subseteq N
  <2> HIDE DEF N
  <2> QED
    BY <1>1, <1>2, Induct
<1>4. \A q \in Seq(S) : Len(q) \in Nat
  BY LenProperties
<1> QED
  BY <1>3, <1>4

\* One part more, at the end.
LEMMA FlattenAppend ==
  ASSUME NEW S, NEW b \in Seq(Seq(S)), NEW e \in Seq(S)
  PROVE  FlattenSeq(b) \in Seq(S) /\ FlattenSeq(Append(b, e)) = FlattenSeq(b) \o e /\ FlattenSeq(<<>>) = <<>>
<1> DEFINE c == Append(b, e)
           n == Len(b)
<1>1. c \in Seq(Seq(S)) /\ n \in Nat /\ Len(c) = n + 1 /\ (\A i \in 1..n : c[i] = b[i]) /\ c[n + 1] = e
  <2>1. \A X : \A q \in Seq(X), x \in X : /\ Append(q, x) \in Seq(X) /\ Len(q) \in Nat /\ Len(Append(q, x)) = Len(q) + 1
                                         /\ (\A i \in 1..Len(q) : Append(q, x)[i] = q[i]) /\ Append(q, x)[Len(q) + 1] = x
    BY AppendProperties, LenProperties
  <2> QED
    BY <2>1
<1> HIDE DEF c
<1>2. PICK u \in FlatSteps(S, b) : TRUE
  BY FlattenSteps
<1>3. PICK w \in FlatSteps(S, c) : TRUE
  BY <1>1, FlattenSteps
<1>4. u \in [0..n -> Seq(S)] /\ u[0] = <<>> /\ u[n] = FlattenSeq(b) /\ \A k \in 1..n : u[k] = u[k - 1] \o b[k]
  BY <1>2 DEF FlatSteps
<1>5. w[0] = <<>> /\ w[n + 1] = FlattenSeq(c) /\ \A k \in 1..(n + 1) : w[k] = w[k - 1] \o c[k]
  BY <1>1, <1>3 DEF FlatSteps
<1> DEFINE N == {k \in Nat : k <= n => u[k] = w[k]}
<1>6. 0 \in N
  BY <1>4, <1>5
<1>7. ASSUME NEW k \in Nat, k \in N PROVE k + 1 \in N
  <2>1. SUFFICES ASSUME k + 1 <= n PROVE u[k + 1] = w[k + 1]
    OBVIOUS
  <2>2. k + 1 \in 1..n /\ k + 1 \in 1..(n + 1) /\ (k + 1) - 1 = k /\ k <= n
    BY <1>1, <2>1
  <2>3. u[k + 1] = u[k] \o b[k + 1] /\ w[k + 1] = w[k] \o c[k + 1]
    BY <1>4, <1>5, <2>2
  <2>4. u[k] = w[k] /\ c[k + 1] = b[k + 1]
    BY <1>1, <1>7, <2>2
  <2> QED
    BY <2>3, <2>4
<1>8. n \in N
  <2> HIDE DEF N
  <2> QED
    BY <1>1, <1>6, <1>7, Induct
<1>9. FlattenSeq(c) = FlattenSeq(b) \o e
  <2>1. n + 1 \in 1..(n + 1) /\ (n + 1) - 1 = n
    BY <1>1
  <2>2. w[n + 1] = w[n] \o c[n + 1]
    BY <1>5, <2>1
  <2>3. u[n] = w[n]
    BY <1>1, <1>8
  <2> QED
    BY <1>1, <1>4, <1>5, <2>2, <2>3
<1>10. FlattenSeq(b) \in Seq(S)
  BY <1>1, <1>4
<1>11. FlattenSeq(<<>>) = <<>>
  BY EmptySeq DEF FlattenSeq
<1> QED
  BY <1>9, <1>10, <1>11 DEF c

\* What makes a sequence over X of each element of S.
Makes(S, X) == [S -> Seq(X)]

\* What f makes of each element, joined.
FlatMap(f, q) == FlattenSeq([i \in DOMAIN q |-> f[q[i]]])

\* Its parts, and what they come to.
LEMMA FlatMapParts ==
  ASSUME NEW S, NEW X, NEW f \in Makes(S, X), NEW r \in Seq(S)
  PROVE  [i \in DOMAIN r |-> f[r[i]]] \in Seq(Seq(X))
<1>f. f \in [S -> Seq(X)]
  BY DEF Makes
<1>2. DOMAIN r = 1..Len(r) /\ Len(r) \in Nat /\ \A i \in 1..Len(r) : r[i] \in S
  BY LenProperties
<1>3. \A i \in 1..Len(r) : f[r[i]] \in Seq(X)
  BY <1>f, <1>2
<1> DEFINE Y == Seq(X)
<1> HIDE DEF Y
<1>4. \A i \in 1..Len(r) : f[r[i]] \in Y
  BY <1>3 DEF Y
<1>5. [i \in 1..Len(r) |-> f[r[i]]] \in Seq(Y)
  BY <1>2, <1>4, IsASeq
<1> QED
  BY <1>2, <1>5 DEF Y

\* It is a sequence, of nothing nothing.
LEMMA FlatMapIs ==
  ASSUME NEW S, NEW X, NEW f \in Makes(S, X), NEW q \in Seq(S)
  PROVE  FlatMap(f, q) \in Seq(X) /\ FlatMap(f, <<>>) = <<>>
<1> DEFINE b == [i \in DOMAIN q |-> f[q[i]]]
<1>1. b \in Seq(Seq(X))
  BY FlatMapParts
<1>2. <<>> \in Seq(X) /\ FlattenSeq(b) \in Seq(X) /\ FlattenSeq(<<>>) = <<>>
  <2>1. <<>> \in Seq(X)
    BY EmptySeq
  <2> HIDE DEF b
  <2> QED
    BY <1>1, <2>1, FlattenAppend
<1>3. FlatMap(f, <<>>) = <<>>
  <2>1. [i \in DOMAIN <<>> |-> f[<<>>[i]]] = <<>>
    OBVIOUS
  <2> QED
    BY <1>2, <2>1 DEF FlatMap
<1>5. FlatMap(f, q) \in Seq(X)
  BY <1>2 DEF FlatMap
<1> QED
  BY <1>3, <1>5

\* One element more.
LEMMA FlatMapAppend ==
  ASSUME NEW S, NEW X, NEW f \in Makes(S, X), NEW q \in Seq(S), NEW e \in S
  PROVE  FlatMap(f, Append(q, e)) = FlatMap(f, q) \o f[e]
<1>f. f \in [S -> Seq(X)]
  BY DEF Makes
<1> DEFINE b == [i \in DOMAIN q |-> f[q[i]]]
<1>1. b \in Seq(Seq(X))
  BY FlatMapParts
<1>4. QED
  <2> DEFINE c == [i \in DOMAIN Append(q, e) |-> f[Append(q, e)[i]]]
  <2>1. /\ DOMAIN Append(q, e) = 1..(Len(q) + 1) /\ DOMAIN q = 1..Len(q) /\ Len(q) \in Nat
        /\ \A i \in 1..Len(q) : Append(q, e)[i] = q[i]
        /\ Append(q, e)[Len(q) + 1] = e
    BY AppendedAt
  <2>2. f[e] \in Seq(X)
    BY <1>f
  <2>3. Append(q, e) \in Seq(S)
    BY AppendProperties
  <2>4. c \in Seq(Seq(X))
    BY <2>3, FlatMapParts
  <2>5. Len(b) = Len(q) /\ DOMAIN b = 1..Len(q) /\ Len(c) = Len(q) + 1
    <3>1. DOMAIN b = 1..Len(q) /\ DOMAIN c = 1..(Len(q) + 1)
      BY <2>1
    <3> HIDE DEF b, c
    <3>2. Len(b) \in Nat /\ DOMAIN b = 1..Len(b) /\ Len(c) \in Nat /\ DOMAIN c = 1..Len(c)
      BY <1>1, <2>4, LenProperties
    <3>3. \A m, n \in Nat : 1..m = 1..n => m = n
      <4>1. SUFFICES ASSUME NEW m \in Nat, NEW n \in Nat, 1..m = 1..n, m < n PROVE FALSE
        OBVIOUS
      <4>2. n \in 1..n /\ n \notin 1..m
        BY <4>1
      <4> QED
        BY <4>1, <4>2
    <3> QED
      BY <2>1, <3>1, <3>2, <3>3
  <2>6. \A i \in 1..(Len(q) + 1) : c[i] = IF i = Len(q) + 1 THEN f[e] ELSE b[i]
    BY <2>1
  <2> HIDE DEF b, c
  <2> DEFINE Y == Seq(X)
             d == Append(b, f[e])
  <2>7. d \in Seq(Seq(X)) /\ Len(d) = Len(q) + 1 /\ \A i \in 1..(Len(q) + 1) : d[i] = IF i = Len(q) + 1 THEN f[e] ELSE b[i]
    <3>1. b \in Seq(Y) /\ f[e] \in Y
      BY <1>1, <2>2
    <3> HIDE DEF Y
    <3>2. /\ Append(b, f[e]) \in Seq(Y) /\ Len(Append(b, f[e])) = Len(b) + 1
          /\ \A i \in 1..Len(b) : Append(b, f[e])[i] = b[i]
          /\ Append(b, f[e])[Len(b) + 1] = f[e]
      BY <3>1, AppendProperties
    <3> QED
      BY <2>1, <2>5, <3>2 DEF Y
  <2>8. c = d
    <3> HIDE DEF d
    <3> QED
      BY <2>4, <2>5, <2>6, <2>7, SeqEqual
  <2>9. FlattenSeq(d) = FlattenSeq(b) \o f[e]
    BY <1>1, <2>2, FlattenAppend
  <2> QED
    BY <2>8, <2>9 DEF FlatMap, b, c

\* Of two sequences one behind the other.
LEMMA FlatMapConcat ==
  ASSUME NEW S, NEW X, NEW f \in Makes(S, X), NEW q \in Seq(S), NEW r \in Seq(S)
  PROVE  FlatMap(f, q \o r) = FlatMap(f, q) \o FlatMap(f, r)
<1> DEFINE T == {p \in Seq(S) : FlatMap(f, q \o p) = FlatMap(f, q) \o FlatMap(f, p)}
<1>1. <<>> \in T
  <2>1. <<>> \in Seq(S) /\ q \o <<>> = q
    BY EmptySeq, ConcatEmptySeq
  <2>2. FlatMap(f, <<>>) = <<>> /\ FlatMap(f, q) \in Seq(X)
    BY FlatMapIs
  <2>3. FlatMap(f, q) \o <<>> = FlatMap(f, q)
    BY <2>2, ConcatEmptySeq
  <2> QED
    BY <2>1, <2>2, <2>3
<1>2. ASSUME NEW p \in Seq(S), NEW e \in S, p \in T PROVE Append(p, e) \in T
  <2>1. Append(p, e) \in Seq(S) /\ q \o p \in Seq(S)
    BY AppendProperties, ConcatProperties
  <2>2. q \o Append(p, e) = Append(q \o p, e)
    <3>1. Append(p, e) = p \o <<e>> /\ Append(q \o p, e) = (q \o p) \o <<e>>
      BY <2>1, AppendIsConcat
    <3>2. <<e>> \in Seq(S)
      BY SingleSeq
    <3> QED
      BY <3>1, <3>2, ConcatAssociative
  <2>3. FlatMap(f, Append(q \o p, e)) = FlatMap(f, q \o p) \o f[e]
    BY <2>1, FlatMapAppend
  <2>4. FlatMap(f, Append(p, e)) = FlatMap(f, p) \o f[e]
    BY FlatMapAppend
  <2>5. FlatMap(f, q) \in Seq(X) /\ FlatMap(f, p) \in Seq(X) /\ f[e] \in Seq(X)
    BY FlatMapIs DEF Makes
  <2>6. (FlatMap(f, q) \o FlatMap(f, p)) \o f[e] = FlatMap(f, q) \o (FlatMap(f, p) \o f[e])
    <3> DEFINE a == FlatMap(f, q)
               b == FlatMap(f, p)
               c == f[e]
    <3>1. a \in Seq(X) /\ b \in Seq(X) /\ c \in Seq(X)
      BY <2>5
    <3> HIDE DEF a, b, c
    <3>2. (a \o b) \o c = a \o (b \o c)
      BY <3>1, ConcatAssociative
    <3> QED
      BY <3>2 DEF a, b, c
  <2> QED
    BY <1>2, <2>1, <2>2, <2>3, <2>4, <2>6
<1>3. Seq(S) \subseteq T
  <2> HIDE DEF T
  <2> QED
    BY <1>1, <1>2, SeqInduct
<1> QED
  BY <1>3

\* The first element's part is first.
LEMMA FlatMapHead ==
  ASSUME NEW S, NEW X, NEW f \in Makes(S, X), NEW q \in Seq(S), q # <<>>
  PROVE  /\ Head(q) \in S /\ Tail(q) \in Seq(S) /\ FlatMap(f, Tail(q)) \in Seq(X)
         /\ FlatMap(f, q) = f[Head(q)] \o FlatMap(f, Tail(q))
<1>1. Head(q) \in S /\ Tail(q) \in Seq(S)
  BY HeadTailProperties
<1>2. <<Head(q)>> \in Seq(S)
  BY <1>1, SingleSeq
<1>3. q = <<Head(q)>> \o Tail(q)
  OBVIOUS
<1>4. FlatMap(f, <<Head(q)>>) = f[Head(q)]
  <2> DEFINE e == Head(q)
  <2> HIDE DEF e
  <2>1. e \in S /\ <<>> \in Seq(S) /\ <<e>> = Append(<<>>, e)
    BY <1>1, EmptySeq DEF e
  <2> DEFINE none == <<>>
  <2> HIDE DEF none
  <2>2. FlatMap(f, Append(none, e)) = FlatMap(f, none) \o f[e] /\ FlatMap(f, none) = <<>>
    <3>1. none \in Seq(S)
      BY <2>1 DEF none
    <3>2. FlatMap(f, Append(none, e)) = FlatMap(f, none) \o f[e]
      BY <2>1, <3>1, FlatMapAppend
    <3>3. FlatMap(f, <<>>) = <<>>
      BY <3>1, FlatMapIs
    <3> QED
      BY <3>2, <3>3 DEF none
  <2>3. <<>> \o f[e] = f[e]
    BY <2>1, ConcatEmptySeq DEF Makes
  <2> QED
    BY <2>1, <2>2, <2>3 DEF e, none
<1>5. FlatMap(f, Tail(q)) \in Seq(X)
  BY <1>1, FlatMapIs
<1>6. FlatMap(f, <<Head(q)>> \o Tail(q)) = FlatMap(f, <<Head(q)>>) \o FlatMap(f, Tail(q))
  <2> DEFINE h == <<Head(q)>>
             t == Tail(q)
  <2>1. h \in Seq(S) /\ t \in Seq(S)
    BY <1>1, <1>2
  <2> HIDE DEF h, t
  <2>2. FlatMap(f, h \o t) = FlatMap(f, h) \o FlatMap(f, t)
    BY <2>1, FlatMapConcat
  <2> QED
    BY <2>2 DEF h, t
<1> QED
  BY <1>1, <1>3, <1>4, <1>5, <1>6

\* Of a flattened sequence: part by part.
LEMMA FlatMapFlatten ==
  ASSUME NEW S, NEW X, NEW f \in Makes(S, X), NEW b \in Seq(Seq(S))
  PROVE  /\ FlattenSeq(b) \in Seq(S)
         /\ FlatMap(f, FlattenSeq(b)) = FlatMap([p \in Seq(S) |-> FlatMap(f, p)], b)
<1> DEFINE g == [p \in Seq(S) |-> FlatMap(f, p)]
           T == {c \in Seq(Seq(S)) : FlattenSeq(c) \in Seq(S) /\ FlatMap(f, FlattenSeq(c)) = FlatMap(g, c)}
<1>1. g \in Makes(Seq(S), X)
  BY FlatMapIs DEF Makes
<1> DEFINE Y == Seq(S)
<1> HIDE DEF g
<1>2. <<>> \in Seq(Y) /\ <<>> \in Seq(S) /\ FlatMap(g, <<>>) = <<>> /\ FlatMap(f, <<>>) = <<>> /\ FlattenSeq(<<>>) = <<>>
  <2>1. \A Z : <<>> \in Seq(Z)
    BY EmptySeq
  <2>2. <<>> \in Seq(Seq(S)) /\ <<>> \in Seq(S)
    BY <2>1
  <2> QED
    BY <1>1, <2>1, <2>2, FlatMapIs, FlattenAppend
<1>3. <<>> \in T
  BY <1>2
<1>4. ASSUME NEW c \in Seq(Y), NEW e \in Y, c \in T PROVE Append(c, e) \in T
  <2>1. Append(c, e) \in Seq(Y)
    <3> HIDE DEF Y
    <3> QED
      BY AppendProperties
  <2>2. FlattenSeq(c) \in Seq(S) /\ FlattenSeq(Append(c, e)) = FlattenSeq(c) \o e
    BY FlattenAppend
  <2>3. FlattenSeq(c) \o e \in Seq(S)
    BY <2>2, ConcatProperties
  <2>4. FlatMap(f, FlattenSeq(c) \o e) = FlatMap(f, FlattenSeq(c)) \o FlatMap(f, e)
    BY <2>2, FlatMapConcat
  <2>5. FlatMap(g, Append(c, e)) = FlatMap(g, c) \o g[e]
    <3> HIDE DEF Y
    <3>1. g \in Makes(Y, X)
      BY <1>1 DEF Y
    <3> QED
      BY <3>1, FlatMapAppend
  <2>6. g[e] = FlatMap(f, e)
    BY DEF g
  <2> QED
    BY <1>4, <2>1, <2>2, <2>3, <2>4, <2>5, <2>6
<1>5. Seq(Y) \subseteq T
  <2> HIDE DEF T, Y
  <2> QED
    BY <1>3, <1>4, SeqInduct
<1> QED
  BY <1>5 DEF g

\* Of a sequence of elements that are made nothing of.
LEMMA FlatMapNone ==
  ASSUME NEW S, NEW X, NEW f \in Makes(S, X), NEW q \in Seq(S), \A i \in DOMAIN q : f[q[i]] = <<>>
  PROVE  FlatMap(f, q) = <<>>
<1> DEFINE T == {p \in Seq(S) : (\A i \in DOMAIN p : f[p[i]] = <<>>) => FlatMap(f, p) = <<>>}
<1>1. <<>> \in T
  BY EmptySeq, FlatMapIs
<1>2. ASSUME NEW p \in Seq(S), NEW e \in S, p \in T PROVE Append(p, e) \in T
  <2>1. Append(p, e) \in Seq(S)
    BY AppendProperties
  <2>2. SUFFICES ASSUME \A i \in DOMAIN Append(p, e) : f[Append(p, e)[i]] = <<>>
                 PROVE  FlatMap(f, Append(p, e)) = <<>>
    BY <2>1
  <2>3. \A i \in DOMAIN p : i \in DOMAIN Append(p, e) /\ Append(p, e)[i] = p[i]
    BY AppendedAt
  <2>4. Len(p) + 1 \in DOMAIN Append(p, e) /\ Append(p, e)[Len(p) + 1] = e
    BY AppendedAt
  <2>5. FlatMap(f, p) = <<>>
    BY <1>2, <2>2, <2>3
  <2>6. f[e] = <<>>
    BY <2>2, <2>4
  <2>7. FlatMap(f, Append(p, e)) = FlatMap(f, p) \o f[e]
    BY FlatMapAppend
  <2>8. <<>> \o <<>> = <<>>
    BY EmptySeq, ConcatEmptySeq
  <2> QED
    BY <2>5, <2>6, <2>7, <2>8
<1>3. Seq(S) \subseteq T
  <2> HIDE DEF T
  <2> QED
    BY <1>1, <1>2, SeqInduct
<1> QED
  BY <1>3
-----------------------------------------------------------------------------
(* What is picked from a sequence, in its order.                             *)

\* The places of K, one behind the other, among the first n.
Listings(n, K) ==
  {q \in Seq(1..n) : /\ \A i, k \in 1..Len(q) : i < k => q[i] < q[k]
                     /\ \A i \in 1..Len(q) : q[i] \in K
                     /\ \A x \in K : \E i \in 1..Len(q) : q[i] = x}

\* Places are listed in one way: as far as one listing goes, the other is the same.
LEMMA ListingBegins ==
  ASSUME NEW n \in Nat, NEW K \in SUBSET (1..n), NEW q \in Listings(n, K), NEW r \in Listings(n, K)
  PROVE  Len(q) \in Nat /\ Len(q) <= Len(r) /\ \A i \in 1..Len(q) : q[i] = r[i]
<1>1. /\ Len(q) \in Nat /\ Len(r) \in Nat
      /\ \A i \in 1..Len(q) : q[i] \in 1..n /\ q[i] \in K
      /\ \A i \in 1..Len(r) : r[i] \in 1..n /\ r[i] \in K
      /\ \A i, k \in 1..Len(q) : i < k => q[i] < q[k]
      /\ \A i, k \in 1..Len(r) : i < k => r[i] < r[k]
      /\ \A x \in K : \E i \in 1..Len(q) : q[i] = x
      /\ \A x \in K : \E i \in 1..Len(r) : r[i] = x
  BY LenProperties DEF Listings
<1> DEFINE C == {k \in Nat : k <= Len(q) => k <= Len(r) /\ \A i \in 1..k : q[i] = r[i]}
<1>2. 0 \in C
  BY <1>1
<1>3. ASSUME NEW k \in Nat, k \in C PROVE k + 1 \in C
  <2>1. SUFFICES ASSUME k + 1 <= Len(q) PROVE k + 1 <= Len(r) /\ \A i \in 1..(k + 1) : q[i] = r[i]
    OBVIOUS
  <2>2. k <= Len(r) /\ (\A i \in 1..k : q[i] = r[i]) /\ k + 1 \in 1..Len(q)
    BY <1>1, <1>3, <2>1
  <2>3. PICK j \in 1..Len(r) : r[j] = q[k + 1]
    BY <1>1, <2>2
  <2>4. j > k
    <3>1. SUFFICES ASSUME j <= k PROVE FALSE
      OBVIOUS
    <3>2. j \in 1..k /\ j \in 1..Len(q) /\ j < k + 1
      BY <1>1, <2>1, <3>1
    <3>3. q[j] = q[k + 1] /\ q[j] < q[k + 1] /\ q[k + 1] \in 1..n
      BY <1>1, <2>2, <2>3, <3>2
    <3> QED
      BY <3>3
  <2>5. k + 1 <= Len(r) /\ k + 1 \in 1..Len(r) /\ r[k + 1] <= r[j]
    <3>1. k + 1 \in 1..Len(r) /\ k + 1 <= j
      BY <1>1, <2>4
    <3>2. k + 1 = j \/ k + 1 < j
      BY <3>1
    <3>3. r[k + 1] \in 1..n /\ r[j] \in 1..n
      BY <1>1, <3>1
    <3> QED
      BY <1>1, <3>1, <3>2, <3>3
  <2>6. PICK i \in 1..Len(q) : q[i] = r[k + 1]
    BY <1>1, <2>5
  <2>7. i > k
    <3>1. SUFFICES ASSUME i <= k PROVE FALSE
      OBVIOUS
    <3>2. i \in 1..k /\ i \in 1..Len(r) /\ i < k + 1
      BY <2>2, <2>5, <3>1
    <3>3. r[i] = r[k + 1] /\ r[i] < r[k + 1] /\ r[k + 1] \in 1..n
      BY <1>1, <2>2, <2>5, <2>6, <3>2
    <3> QED
      BY <3>3
  <2>8. q[k + 1] <= q[i]
    <3>1. k + 1 = i \/ k + 1 < i
      BY <2>7
    <3>2. q[k + 1] \in 1..n /\ q[i] \in 1..n
      BY <1>1, <2>2
    <3> QED
      BY <1>1, <2>2, <3>1, <3>2
  <2>9. q[k + 1] = r[k + 1]
    <3>1. q[k + 1] \in 1..n /\ r[k + 1] \in 1..n
      BY <1>1, <2>2, <2>5
    <3> QED
      BY <2>3, <2>5, <2>6, <2>8, <3>1
  <2>10. \A a \in 1..(k + 1) : a \in 1..k \/ a = k + 1
    OBVIOUS
  <2> QED
    BY <2>2, <2>5, <2>9, <2>10
<1>4. Len(q) \in C
  <2> HIDE DEF C
  <2> QED
    BY <1>1, <1>2, <1>3, Induct
<1> QED
  BY <1>1, <1>4

\* Two listings of the same places are the same.
LEMMA ListingUnique ==
  ASSUME NEW n \in Nat, NEW K \in SUBSET (1..n), NEW q \in Listings(n, K), NEW r \in Listings(n, K)
  PROVE  Len(q) = Len(r) /\ \A i \in 1..Len(q) : q[i] = r[i]
<1>1. Len(q) \in Nat /\ Len(q) <= Len(r) /\ \A i \in 1..Len(q) : q[i] = r[i]
  BY ListingBegins
<1>2. Len(r) \in Nat /\ Len(r) <= Len(q)
  BY ListingBegins
<1> QED
  BY <1>1, <1>2

\* What v gives at the places of K, in order.
Picked(n, v, K) == FlattenSeq([i \in 1..n |-> IF i \in K THEN <<v[i]>> ELSE <<>>])

\* The listings along which v gives that.
Along(n, v, K, picked) == {q \in Listings(n, K) : Len(q) = Len(picked) /\ \A i \in 1..Len(q) : picked[i] = v[q[i]]}

\* It is v along a listing of those places.
LEMMA PickedIs ==
  ASSUME NEW n \in Nat, NEW X, NEW v \in [1..n -> X], NEW K \in SUBSET (1..n)
  PROVE  Picked(n, v, K) \in Seq(X) /\ Along(n, v, K, Picked(n, v, K)) # {}
<1> DEFINE b == [i \in 1..n |-> IF i \in K THEN <<v[i]>> ELSE <<>>]
           flat == Picked(n, v, K)
<1>1. b \in Seq(Seq(X)) /\ Len(b) = n /\ flat = FlattenSeq(b)
  <2>1. \A i \in 1..n : <<v[i]>> \in Seq(X) /\ <<>> \in Seq(X)
    BY SingleSeq
  <2>2. b \in [1..n -> Seq(X)]
    BY <2>1
  <2>3. b \in Seq(Seq(X)) /\ Len(b) = n
    BY <2>2
  <2> QED
    BY <2>3 DEF Picked
<1>2. \A i \in 1..n : b[i] = IF i \in K THEN <<v[i]>> ELSE <<>>
  OBVIOUS
<1> HIDE DEF b, flat
<1>3. flat \in Seq(X) /\ Places(b, flat) # {}
  BY <1>1, FlattenPlaces
<1>4. PICK at \in Places(b, flat) : TRUE
  BY <1>3
<1>5. /\ \A i \in 0..n, k \in 0..n : i <= k => at[i] <= at[k]
      /\ \A p \in 1..Len(flat) : \E i \in 1..n : \E j \in 1..Len(b[i]) : p = at[i - 1] + j
      /\ \A i \in 1..n : \A j \in 1..Len(b[i]) : at[i - 1] + j \in 1..Len(flat)
  <2>1. b \in Seq(Seq(X)) /\ flat \in Seq(X) /\ at \in Places(b, flat)
    BY <1>1, <1>3, <1>4
  <2>2. /\ \A i \in 0..Len(b), k \in 0..Len(b) : i <= k => at[i] <= at[k]
        /\ \A p \in 1..Len(flat) : \E i \in 1..Len(b) : \E j \in 1..Len(b[i]) : p = at[i - 1] + j
        /\ \A i \in 1..Len(b) : \A j \in 1..Len(b[i]) : at[i - 1] + j \in 1..Len(flat)
    BY ONLY <2>1, PlacesInOrder
  <2> QED
    BY <1>1, <2>2
<1>6. /\ at \in [0..n -> Nat] /\ at[0] = 0 /\ at[n] = Len(flat)
      /\ \A i \in 1..n : /\ at[i] = at[i - 1] + Len(b[i])
                         /\ \A j \in 1..Len(b[i]) : flat[at[i - 1] + j] = b[i][j]
  BY <1>1 DEF Places
<1>7. \A i \in 1..n : i - 1 \in 0..n /\ i \in 0..n /\ at[i - 1] \in Nat /\ at[i] \in Nat
  BY <1>6
<1>8. ASSUME NEW i \in K
      PROVE  i \in 1..n /\ at[i] = at[i - 1] + 1 /\ at[i] \in 1..Len(flat) /\ flat[at[i]] = v[i]
  <2>1. i \in 1..n /\ b[i] = <<v[i]>>
    BY <1>2
  <2>2. Len(b[i]) = 1 /\ 1 \in 1..Len(b[i]) /\ b[i][1] = v[i]
    BY <2>1
  <2> QED
    BY <1>5, <1>6, <1>7, <2>1, <2>2
<1>9. ASSUME NEW i \in 1..n, i \notin K PROVE Len(b[i]) = 0
  <2>1. b[i] = <<>> /\ Len(<<>>) = 0
    BY <1>2, <1>9
  <2> QED
    BY <2>1
<1>10. \A p \in 1..Len(flat) : \E i \in K : at[i] = p
  <2> SUFFICES ASSUME NEW p \in 1..Len(flat) PROVE \E i \in K : at[i] = p
    OBVIOUS
  <2>1. PICK i \in 1..n : \E j \in 1..Len(b[i]) : p = at[i - 1] + j
    BY <1>5
  <2>2. PICK j \in 1..Len(b[i]) : p = at[i - 1] + j
    BY <2>1
  <2>3. i \in K
    BY <1>9
  <2>4. Len(b[i]) = 1
    <3>1. b[i] = <<v[i]>> /\ Len(<<v[i]>>) = 1
      BY <1>2, <2>3
    <3> QED
      BY <3>1
  <2>5. j = 1
    BY <2>4
  <2> QED
    BY <1>8, <2>2, <2>3, <2>5
<1> DEFINE q == [p \in 1..Len(flat) |-> CHOOSE i \in K : at[i] = p]
<1>11. ASSUME NEW p \in 1..Len(flat) PROVE q[p] \in K /\ at[q[p]] = p /\ q[p] \in 1..n
  BY <1>10
<1>12. Len(flat) \in Nat
  BY <1>3, LenProperties
<1>13. q \in Seq(1..n) /\ Len(q) = Len(flat)
  <2>1. q \in [1..Len(flat) -> 1..n]
    BY <1>11
  <2> HIDE DEF q
  <2> QED
    BY <1>12, <2>1
<1> HIDE DEF q
\* A listed place is before another if its part is.
<1>14. ASSUME NEW i \in 1..n, NEW k \in K, i < k PROVE at[i] < at[k]
  <2>1. k \in 1..n /\ i \in 0..n /\ k - 1 \in 0..n /\ i <= k - 1
    BY <1>8, <1>14
  <2>2. at[i] <= at[k - 1] /\ at[k] = at[k - 1] + 1
    BY <1>5, <1>8, <2>1
  <2>3. at[i] \in Nat /\ at[k - 1] \in Nat
    BY <1>7, <2>1
  <2> QED
    BY <2>2, <2>3
<1>15. ASSUME NEW i \in 1..Len(q), NEW k \in 1..Len(q), i < k PROVE q[i] < q[k]
  <2>1. i \in 1..Len(flat) /\ k \in 1..Len(flat)
    BY <1>13
  <2>2. q[i] \in K /\ q[k] \in K /\ at[q[i]] = i /\ at[q[k]] = k /\ q[i] \in 1..n /\ q[k] \in 1..n
    BY <1>11, <2>1
  <2>3. ~(q[k] < q[i])
    <3>1. q[k] < q[i] => k < i
      BY <1>14, <2>2
    <3> QED
      BY <1>15, <2>1, <3>1
  <2>4. q[i] # q[k]
    BY <1>15, <2>1, <2>2
  <2> QED
    BY <2>2, <2>3, <2>4
<1>16. ASSUME NEW x \in K PROVE \E i \in 1..Len(q) : q[i] = x
  <2>1. at[x] \in 1..Len(q) /\ x \in 1..n
    BY <1>8, <1>13
  <2>2. q[at[x]] \in K /\ at[q[at[x]]] = at[x] /\ q[at[x]] \in 1..n
    BY <1>11, <1>13, <2>1
  <2>3. ~(q[at[x]] < x) /\ ~(x < q[at[x]])
    <3>1. q[at[x]] < x => at[x] < at[x]
      BY <1>14, <2>2
    <3>2. x < q[at[x]] => at[x] < at[x]
      BY <1>14, <2>1, <2>2
    <3>3. ~(at[x] < at[x])
      BY <2>1, <1>12, <1>13
    <3> QED
      BY <3>1, <3>2, <3>3
  <2>4. q[at[x]] = x
    BY <2>1, <2>2, <2>3
  <2> QED
    BY <2>1, <2>4
<1>17. q \in Listings(n, K)
  BY <1>11, <1>13, <1>15, <1>16 DEF Listings
<1>18. \A i \in 1..Len(q) : flat[i] = v[q[i]]
  <2> SUFFICES ASSUME NEW i \in 1..Len(q) PROVE flat[i] = v[q[i]]
    OBVIOUS
  <2>1. q[i] \in K /\ at[q[i]] = i
    BY <1>11, <1>13
  <2> QED
    BY <1>8, <2>1
<1> QED
  BY <1>3, <1>13, <1>17, <1>18 DEF flat, Along

\* The places themselves, picked in order.
LEMMA ListedIs ==
  ASSUME NEW n \in Nat, NEW K \in SUBSET (1..n)
  PROVE  FlattenSeq([i \in 1..n |-> IF i \in K THEN <<i>> ELSE <<>>]) \in Listings(n, K)
<1> DEFINE R == 1..n
           flat == FlattenSeq([i \in 1..n |-> IF i \in K THEN <<i>> ELSE <<>>])
<1>1. PICK v \in [1..n -> R] : v = [i \in 1..n |-> i]
  <2>1. [i \in 1..n |-> i] \in [1..n -> R]
    OBVIOUS
  <2> QED
    BY <2>1
<1>2. \A i \in 1..n : v[i] = i
  BY <1>1
<1>3. flat = Picked(n, v, K)
  <2>1. [i \in 1..n |-> IF i \in K THEN <<i>> ELSE <<>>] = [i \in 1..n |-> IF i \in K THEN <<v[i]>> ELSE <<>>]
    BY <1>2
  <2> QED
    BY <2>1 DEF Picked
<1>4. Picked(n, v, K) \in Seq(R) /\ Along(n, v, K, Picked(n, v, K)) # {}
  <2> HIDE DEF R
  <2> QED
    BY PickedIs
<1> HIDE DEF flat
<1>5. PICK q \in Listings(n, K) : Len(q) = Len(flat) /\ \A i \in 1..Len(q) : flat[i] = v[q[i]]
  BY <1>3, <1>4 DEF Along
<1>6. q \in Seq(1..n) /\ flat \in Seq(1..n)
  BY <1>3, <1>4, <1>5 DEF Listings
<1>7. \A i \in 1..Len(flat) : flat[i] = q[i]
  <2>1. \A i \in 1..Len(q) : q[i] \in 1..n
    BY <1>5, LenProperties DEF Listings
  <2> QED
    BY <1>2, <1>5, <2>1
<1>8. flat = q
  BY <1>5, <1>6, <1>7, SeqEqual
<1> QED
  BY <1>5, <1>8 DEF flat

\* The listed place before the next one, or none.
PlaceBefore(q, i) == IF i = 0 THEN 0 ELSE q[i]

\* Nothing is between a listed place and the next, before the first, or behind the last.
LEMMA NothingBetween ==
  ASSUME NEW n \in Nat, NEW K \in SUBSET (1..n), NEW q \in Listings(n, K), NEW i \in 0..Len(q), NEW z \in K,
         PlaceBefore(q, i) < z, i < Len(q) => z < q[i + 1]
  PROVE  FALSE
<1>1. /\ Len(q) \in Nat /\ \A k \in 1..Len(q) : q[k] \in 1..n
      /\ \A j, k \in 1..Len(q) : j < k => q[j] < q[k]
      /\ \A x \in K : \E k \in 1..Len(q) : q[k] = x
  BY LenProperties DEF Listings
<1>2. PICK j \in 1..Len(q) : q[j] = z
  BY <1>1
<1>3. CASE j <= i
  <2>1. i \in 1..Len(q) /\ PlaceBefore(q, i) = q[i] /\ (j = i \/ j < i)
    BY <1>1, <1>3 DEF PlaceBefore
  <2>2. q[j] <= q[i] /\ q[i] \in 1..n /\ q[j] \in 1..n
    BY <1>1, <2>1
  <2> QED
    BY <1>2, <2>1, <2>2
<1>4. CASE j > i
  <2>1. i < Len(q) /\ i + 1 \in 1..Len(q) /\ (i + 1 = j \/ i + 1 < j)
    BY <1>1, <1>4
  <2>2. q[i + 1] <= q[j] /\ q[i + 1] \in 1..n /\ q[j] \in 1..n
    BY <1>1, <2>1
  <2> QED
    BY <1>2, <2>1, <2>2
<1> QED
  BY <1>1, <1>3, <1>4

\* A listing of places in a listing lists what is there.
LEMMA ListingThrough ==
  ASSUME NEW n \in Nat, NEW K \in SUBSET (1..n), NEW q \in Listings(n, K),
         NEW J \in SUBSET (1..Len(q)), NEW r \in Listings(Len(q), J)
  PROVE  /\ [k \in 1..Len(r) |-> q[r[k]]] \in Listings(n, {q[j] : j \in J})
         /\ {q[j] : j \in J} \in SUBSET (1..n)
         /\ Len([k \in 1..Len(r) |-> q[r[k]]]) = Len(r)
<1> DEFINE L == {q[j] : j \in J}
           through == [k \in 1..Len(r) |-> q[r[k]]]
<1>1. /\ Len(q) \in Nat /\ \A k \in 1..Len(q) : q[k] \in 1..n
      /\ \A j, k \in 1..Len(q) : j < k => q[j] < q[k]
  BY LenProperties DEF Listings
<1>2. /\ Len(r) \in Nat /\ \A k \in 1..Len(r) : r[k] \in 1..Len(q) /\ r[k] \in J
      /\ \A j, k \in 1..Len(r) : j < k => r[j] < r[k]
      /\ \A x \in J : \E k \in 1..Len(r) : r[k] = x
  BY LenProperties DEF Listings
<1>3. \A k \in 1..Len(r) : through[k] = q[r[k]] /\ through[k] \in 1..n /\ through[k] \in L
  BY <1>1, <1>2
<1>4. through \in Seq(1..n) /\ Len(through) = Len(r)
  <2>1. through \in [1..Len(r) -> 1..n]
    BY <1>3
  <2> HIDE DEF through
  <2> QED
    BY <1>2, <2>1
<1>5. L \in SUBSET (1..n)
  BY <1>1
<1> HIDE DEF through
<1>6. ASSUME NEW j \in 1..Len(through), NEW k \in 1..Len(through), j < k PROVE through[j] < through[k]
  <2>1. j \in 1..Len(r) /\ k \in 1..Len(r)
    BY <1>4
  <2>2. r[j] < r[k] /\ r[j] \in 1..Len(q) /\ r[k] \in 1..Len(q)
    BY <1>2, <1>6, <2>1
  <2> QED
    BY <1>1, <1>3, <2>1, <2>2
<1>7. ASSUME NEW x \in L PROVE \E k \in 1..Len(through) : through[k] = x
  <2>1. PICK j \in J : x = q[j]
    OBVIOUS
  <2>2. PICK k \in 1..Len(r) : r[k] = j
    BY <1>2
  <2>3. k \in 1..Len(through) /\ through[k] = x
    BY <1>3, <1>4, <2>1, <2>2
  <2> QED
    BY <2>3
<1>8. through \in Listings(n, L)
  <2> HIDE DEF L
  <2> QED
    BY <1>3, <1>4, <1>6, <1>7 DEF Listings
<1> QED
  BY <1>4, <1>5, <1>8 DEF through

-----------------------------------------------------------------------------
(* Counting.                                                               *)

\* How many elements of a list are in S.
Counted(list, S) == Cardinality({i \in DOMAIN list : list[i] \in S})

LEMMA CountedIsNat ==
  ASSUME NEW X, NEW list \in Seq(X), NEW S
  PROVE  /\ IsFiniteSet({i \in DOMAIN list : list[i] \in S}) /\ Counted(list, S) \in Nat
         /\ \A i \in DOMAIN list : list[i] \in S => Counted(list, S) # 0
<1> DEFINE places == {i \in DOMAIN list : list[i] \in S}
<1>1. IsFiniteSet(DOMAIN list)
  <2>1. Len(list) \in Nat /\ DOMAIN list = 1..Len(list)
    BY LenProperties
  <2> QED
    BY <2>1, FS_Interval
<1>2. IsFiniteSet(places)
  BY <1>1, FS_Subset
<1>3. Cardinality(places) \in Nat
  BY <1>2, FS_CardinalityType
<1>4. ASSUME NEW i \in DOMAIN list, list[i] \in S PROVE Cardinality(places) # 0
  BY <1>2, <1>4, FS_EmptySet
<1> QED
  BY <1>2, <1>3, <1>4 DEF Counted

LEMMA CountedNone ==
  ASSUME NEW S
  PROVE  Counted(<<>>, S) = 0
<1>1. {i \in DOMAIN <<>> : <<>>[i] \in S} = {}
  OBVIOUS
<1> QED
  BY <1>1, FS_EmptySet DEF Counted

\* A list that grows behind.
LEMMA CountedAppend ==
  ASSUME NEW X, NEW list \in Seq(X), NEW e \in X, NEW S
  PROVE  Counted(Append(list, e), S) = Counted(list, S) + (IF e \in S THEN 1 ELSE 0)
<1> DEFINE n == Len(list) + 1
           longer == Append(list, e)
           places == {i \in DOMAIN list : list[i] \in S}
           all == {i \in DOMAIN longer : longer[i] \in S}
<1>1. /\ DOMAIN longer = 1..n /\ DOMAIN list = 1..Len(list) /\ Len(list) \in Nat
      /\ \A i \in DOMAIN list : i \in DOMAIN longer /\ longer[i] = list[i]
      /\ n \in DOMAIN longer /\ longer[n] = e
  BY AppendedAt
<1>2. \A i \in DOMAIN longer : i = n \/ i \in DOMAIN list
  BY <1>1
<1>3. n \notin places /\ n \notin DOMAIN list
  BY <1>1
<1>4. all = IF e \in S THEN places \cup {n} ELSE places
  <2> HIDE DEF n, longer
  <2> QED
    BY <1>1, <1>2, <1>3
<1>5. IsFiniteSet(places) /\ Cardinality(places) \in Nat
  BY CountedIsNat DEF Counted
<1>6. Cardinality(places \cup {n}) = Cardinality(places) + 1
  <2> HIDE DEF n, places
  <2> QED
    BY <1>3, <1>5, FS_AddElement
<1>7. Counted(longer, S) = Cardinality(all) /\ Counted(list, S) = Cardinality(places)
  BY DEF Counted
<1> HIDE DEF n, longer, places, all
<1>8. CASE e \in S
  BY <1>4, <1>5, <1>6, <1>7, <1>8 DEF longer
<1>9. CASE e \notin S
  BY <1>4, <1>5, <1>6, <1>7, <1>9 DEF longer
<1> QED
  BY <1>8, <1>9

\* A list that loses its head.
LEMMA CountedTail ==
  ASSUME NEW X, NEW list \in Seq(X), list # <<>>, NEW S
  PROVE  Counted(list, S) = Counted(Tail(list), S) + (IF Head(list) \in S THEN 1 ELSE 0)
<1> DEFINE rest == Tail(list)
           places == {i \in DOMAIN list : list[i] \in S}
           others == {i \in DOMAIN rest : rest[i] \in S}
           next == [i \in others |-> i + 1]
<1>1. /\ rest \in Seq(X) /\ Len(rest) \in Nat /\ Len(list) = Len(rest) + 1
      /\ DOMAIN list = 1..Len(list) /\ DOMAIN rest = 1..Len(rest)
      /\ \A i \in DOMAIN rest : rest[i] = list[i + 1]
      /\ Head(list) = list[1]
  <2>1. Len(list) \in Nat /\ DOMAIN list = 1..Len(list) /\ Len(list) # 0
    BY LenProperties, EmptySeq
  <2>2. rest \in Seq(X) /\ Len(rest) = Len(list) - 1 /\ \A i \in 1..Len(rest) : rest[i] = list[i + 1] /\ Head(list) = list[1]
    BY HeadTailProperties
  <2>3. DOMAIN rest = 1..Len(rest)
    BY <2>2, LenProperties
  <2> QED
    BY <2>1, <2>2, <2>3, HeadTailProperties
<1>2. IsFiniteSet(others) /\ Cardinality(others) \in Nat /\ IsFiniteSet(places) /\ Cardinality(places) \in Nat
  BY <1>1, CountedIsNat DEF Counted
<1>3. next \in Bijection(others, places \ {1})
  <2> HIDE DEF rest
  <2>1. \A i \in others : i \in Nat /\ i + 1 \in places \ {1}
    BY <1>1
  <2>2. \A i, j \in others : next[i] = next[j] => i = j
    BY <2>1
  <2>3. \A k \in places \ {1} : k - 1 \in others /\ next[k - 1] = k
    <3>1. TAKE k \in places \ {1}
    <3>2. k \in 1..Len(list) /\ k # 1 /\ list[k] \in S
      BY <1>1, <3>1
    <3>3. k - 1 \in DOMAIN rest /\ (k - 1) + 1 = k
      BY <1>1, <3>2
    <3>4. k - 1 \in others
      BY <1>1, <3>2, <3>3
    <3> QED
      BY <3>3, <3>4
  <2>4. next \in [others -> places \ {1}]
    BY <2>1
  <2> HIDE DEF next, others, places
  <2> QED
    BY <2>2, <2>3, <2>4, Fun_IsBij
<1>4. Cardinality(places \ {1}) = Cardinality(others)
  <2> HIDE DEF others, places, next
  <2>1. ExistsBijection(others, places \ {1})
    BY <1>3 DEF ExistsBijection
  <2>2. IsFiniteSet(others)
    BY <1>2
  <2> QED
    BY <2>1, <2>2, FS_Bijection
<1>5. 1 \in places <=> Head(list) \in S
  BY <1>1
<1>6. Cardinality(places \ {1}) = IF 1 \in places THEN Cardinality(places) - 1 ELSE Cardinality(places)
  <2> HIDE DEF places
  <2> QED
    BY <1>2, FS_RemoveElement
<1>7. Counted(list, S) = Cardinality(places) /\ Counted(Tail(list), S) = Cardinality(others)
  BY DEF Counted
<1> HIDE DEF places, others, rest
<1>8. CASE Head(list) \in S
  BY <1>2, <1>4, <1>5, <1>6, <1>7, <1>8
<1>9. CASE Head(list) \notin S
  BY <1>2, <1>4, <1>5, <1>6, <1>7, <1>9
<1> QED
  BY <1>8, <1>9

\* A list that loses its last.
LEMMA CountedFront ==
  ASSUME NEW X, NEW list \in Seq(X), list # <<>>, NEW S
  PROVE  /\ Front(list) \in Seq(X) /\ Last(list) \in X
         /\ Counted(list, S) = Counted(Front(list), S) + (IF Last(list) \in S THEN 1 ELSE 0)
<1>1. Front(list) \in Seq(X) /\ Len(Front(list)) = Len(list) - 1 /\ \A i \in 1..(Len(list) - 1) : Front(list)[i] = list[i]
  BY FrontIsSeq
<1>2. Len(list) \in Nat /\ Len(list) # 0 /\ \A i \in 1..Len(list) : list[i] \in X
  BY LenProperties, EmptySeq
<1>3. Last(list) = list[Len(list)] /\ Last(list) \in X
  BY <1>2 DEF Last
<1> DEFINE again == Append(Front(list), Last(list))
<1>4. /\ again \in Seq(X) /\ Len(again) = Len(list)
      /\ \A i \in 1..(Len(list) - 1) : again[i] = list[i]
      /\ again[Len(list)] = list[Len(list)]
  BY <1>1, <1>2, <1>3, AppendProperties
<1>5. again = list
  <2> HIDE DEF again
  <2>1. \A i \in 1..Len(list) : again[i] = list[i]
    BY <1>2, <1>4
  <2> QED
    BY <1>2, <1>4, <2>1, SeqEqual
<1>6. Counted(again, S) = Counted(Front(list), S) + (IF Last(list) \in S THEN 1 ELSE 0)
  BY <1>1, <1>3, CountedAppend
<1> QED
  BY <1>1, <1>3, <1>5, <1>6
====
