-------------------------- MODULE DissectionProofs --------------------------
(***************************************************************************)
(* Proofs about Stage 2 of the engine, for every set of captures and        *)
(* command lines, every size of a piece and threshold of a scan and any     *)
(* number of tool faults: no packet and no write is lost or counted twice   *)
(* between the capture and the conversations, a scan leaves no other        *)
(* conversation of its pair, and conversations merged from chunks say what  *)
(* one pass over the capture says.  EngineProofs draws the theorems from it.*)
(*                                                                          *)
(* The argument keeps books (Accounting): what has been read so far is in   *)
(* the table, in reports of chunks or in the conversations, or was skipped; *)
(* and (OnePass): each entry tallies the packets of its key and no others.  *)
(* Tables, lists and reports are built by folds, so the lemmas before it    *)
(* say what one entry more, or one entry replaced, does to their sums.      *)
(* FoldLeft is defined by a recursive function on sets of indices: such a   *)
(* function exists when every step is a function on one set of results      *)
(* (FoldExists), and what it computes follows from an induction over the    *)
(* prefixes of the sequence, stated with a set of indices (UpTo).           *)
(***************************************************************************)
EXTENDS Dissection, FiniteSetTheorems, WellFoundedInduction, TLAPS

-----------------------------------------------------------------------------
(* Induction over indices, and the functions behind folds.                  *)

\* What holds of 0, and of k + 1 when it holds of k, holds of all up to n.
LEMMA UpTo ==
  ASSUME NEW n \in Nat, NEW G, 0 \in G, \A k \in 0 .. n - 1 : k \in G => k + 1 \in G
  PROVE  \A k \in 0 .. n : k \in G
<1> DEFINE T == {k \in 0 .. n : k \notin G}
<1> SUFFICES ASSUME T # {}
             PROVE  FALSE
  OBVIOUS
<1>1. T \subseteq Nat
  OBVIOUS
<1>2. PICK m \in T : \A k \in T : ~(<<k, m>> \in OpToRel(<, Nat))
  <2> HIDE DEF T
  <2> QED BY <1>1, WFMin, NatLessThanWellFounded
<1>3. m # 0 /\ m \in 0 .. n /\ m \notin G
  BY <1>2
<1>4. m - 1 \in 0 .. n - 1 /\ m - 1 < m /\ (m - 1) + 1 = m
  BY <1>3
<1>5. m - 1 \notin T
  <2> SUFFICES ASSUME m - 1 \in T
               PROVE  FALSE
    OBVIOUS
  <2>1. <<m - 1, m>> \in OpToRel(<, Nat)
    BY <1>3, <1>4 DEF OpToRel
  <2> QED BY <1>2, <2>1
<1>6. m - 1 \in G
  BY <1>3, <1>4, <1>5
<1> QED BY <1>3, <1>4, <1>6

\* A set of numbers that is bounded and not empty has a largest element.
LEMMA MaxIsIn ==
  ASSUME NEW n \in Nat, NEW s \in SUBSET (1 .. n), s # {}
  PROVE  Max(s) \in s /\ \A x \in s : x <= Max(s)
<1> DEFINE Has(t) == \E m \in t : \A x \in t : x <= m
           G == {k \in Nat : \A t \in SUBSET (1 .. k) : t # {} => Has(t)}
<1>1. 0 \in G
  <2>1. 1 .. 0 = {}
    OBVIOUS
  <2> QED BY <2>1
<1>2. ASSUME NEW k \in 0 .. n - 1, k \in G
      PROVE  k + 1 \in G
  <2> SUFFICES ASSUME NEW t \in SUBSET (1 .. (k + 1)), t # {}
               PROVE  Has(t)
    OBVIOUS
  <2>1. CASE k + 1 \in t
    <3>1. \A x \in t : x <= k + 1
      OBVIOUS
    <3> QED BY <2>1, <3>1
  <2>2. CASE k + 1 \notin t
    <3>1. t \in SUBSET (1 .. k)
      BY <2>2
    <3> QED BY <1>2, <3>1
  <2> QED BY <2>1, <2>2
<1>3. n \in G
  <2> HIDE DEF G
  <2> QED BY <1>1, <1>2, UpTo
<1>4. Has(s)
  BY <1>3
<1>5. \E m \in s : \A x \in s : m >= x
  BY <1>4
<1>6. Max(s) \in s /\ \A x \in s : Max(s) >= x
  BY <1>5 DEF Max
<1> QED BY <1>6

\* The largest of 1, ..., k.
LEMMA MaxOfPrefix ==
  ASSUME NEW k \in Nat \ {0}
  PROVE  Max(1 .. k) = k /\ (1 .. k) \ {k} = 1 .. k - 1
<1>1. Max(1 .. k) \in 1 .. k /\ \A x \in 1 .. k : x <= Max(1 .. k)
  <2>1. 1 .. k # {} /\ 1 .. k \in SUBSET (1 .. k) /\ k \in Nat
    OBVIOUS
  <2> QED BY <2>1, MaxIsIn
<1> QED BY <1>1

\* The prefixes of 1, ..., n that a fold goes through.
IsSegment(k, n) ==
  /\ 1 .. k \in SUBSET (1 .. n) /\ 1 .. k # {} /\ 1 .. k - 1 \in SUBSET (1 .. n)
  /\ Max(1 .. k) = k /\ (1 .. k) \ {Max(1 .. k)} = 1 .. k - 1

\* So every index ends one.
LEMMA Segments ==
  ASSUME NEW n \in Nat, NEW k \in 1 .. n
  PROVE  IsSegment(k, n)
<1>1. k \in Nat \ {0}
  OBVIOUS
<1>2. 1 .. k \in SUBSET (1 .. n) /\ 1 .. k # {} /\ 1 .. k - 1 \in SUBSET (1 .. n)
  OBVIOUS
<1>3. Max(1 .. k) = k /\ (1 .. k) \ {k} = 1 .. k - 1
  BY <1>1, MaxOfPrefix
<1> QED BY <1>2, <1>3 DEF IsSegment

\* The recursive function of a fold whose k-th step is g[k].
StepsBy(h, n, base, g) ==
  h = [s \in SUBSET (1 .. n) |->
         IF s = {} THEN base ELSE g[Max(s)][h[s \ {Max(s)}]]]

\* It exists when every step is a function on one set of results.
LEMMA FoldExists ==
  ASSUME NEW n \in Nat, NEW A, NEW base \in A, NEW g \in [1 .. n -> [A -> A]]
  PROVE  \E h \in [SUBSET (1 .. n) -> A] : StepsBy(h, n, base, g)
<1> DEFINE Ok(k, h) == /\ h \in [SUBSET (1 .. k) -> A]
                       /\ h[{}] = base
                       /\ \A s \in SUBSET (1 .. k) : s # {} => h[s] = g[Max(s)][h[s \ {Max(s)}]]
           G == {k \in Nat : \E h : Ok(k, h)}
<1>1. 0 \in G
  <2>1. Ok(0, [s \in SUBSET (1 .. 0) |-> base])
    <3>1. SUBSET (1 .. 0) = {{}}
      OBVIOUS
    <3> QED BY <3>1
  <2> HIDE DEF Ok
  <2> QED BY <2>1
<1>2. ASSUME NEW k \in 0 .. n - 1, k \in G
      PROVE  k + 1 \in G
  <2>1. PICK h : Ok(k, h)
    BY <1>2
  <2> DEFINE top == k + 1
             new == [s \in SUBSET (1 .. top) |->
                       IF top \in s THEN g[top][h[s \ {top}]] ELSE h[s]]
  <2>2. /\ top \in 1 .. n /\ top \in Nat /\ top \notin 1 .. k
        /\ \A s \in SUBSET (1 .. top) : s \ {top} \in SUBSET (1 .. k)
        /\ \A s \in SUBSET (1 .. top) : top \notin s => s \in SUBSET (1 .. k)
    OBVIOUS
  <2>3. new \in [SUBSET (1 .. top) -> A]
    BY <2>1, <2>2
  <2>4. new[{}] = base
    BY <2>1, <2>2
  <2>5. ASSUME NEW s \in SUBSET (1 .. top), s # {}
        PROVE  new[s] = g[Max(s)][new[s \ {Max(s)}]]
    <3>1. Max(s) \in s /\ \A x \in s : x <= Max(s)
      BY <2>2, <2>5, MaxIsIn
    <3>2. CASE top \in s
      <4>1. Max(s) = top
        <5>1. Max(s) \in 1 .. top /\ top <= Max(s)
          BY <3>1, <3>2
        <5> QED BY <2>2, <5>1
      <4>2. new[s \ {top}] = h[s \ {top}]
        BY <2>2
      <4> QED BY <3>2, <4>1, <4>2
    <3>3. CASE top \notin s
      <4>1. s \in SUBSET (1 .. k) /\ s \ {Max(s)} \in SUBSET (1 .. top)
        BY <2>2, <3>3
      <4>2. new[s] = h[s] /\ new[s \ {Max(s)}] = h[s \ {Max(s)}]
        BY <3>3, <4>1
      <4> QED BY <2>1, <2>5, <4>1, <4>2
    <3> QED BY <3>2, <3>3
  <2>6. Ok(top, new)
    <3> HIDE DEF new
    <3> QED BY <2>3, <2>4, <2>5
  <2> HIDE DEF Ok, new
  <2> QED BY <2>2, <2>6
<1>3. n \in G
  <2> HIDE DEF Ok, G
  <2>1. \A k \in 0 .. n : k \in G
    BY <1>1, <1>2, UpTo
  <2> QED BY <2>1
<1>4. PICK h : Ok(n, h)
  BY <1>3
<1>5. h = [s \in SUBSET (1 .. n) |-> IF s = {} THEN base ELSE g[Max(s)][h[s \ {Max(s)}]]]
  <2>1. \A s \in SUBSET (1 .. n) :
          h[s] = IF s = {} THEN base ELSE g[Max(s)][h[s \ {Max(s)}]]
    BY <1>4
  <2> QED BY <1>4, <2>1
<1> QED BY <1>4, <1>5 DEF StepsBy

-----------------------------------------------------------------------------
(* Sums over sequences.                                                     *)

IsSum(f, w, n) ==
  /\ f \in [0 .. n -> Nat] /\ f[0] = 0
  /\ \A k \in 1 .. n : f[k] = f[k - 1] + w[k]

\* w[1] + ... + w[n]
SumOf(w, n) == (CHOOSE f : IsSum(f, w, n))[n]

Weights(w, n) == \A k \in 1 .. n : w[k] \in Nat

\* The sums of all prefixes exist ...
LEMMA SumExists ==
  ASSUME NEW n \in Nat, NEW w, Weights(w, n)
  PROVE  \E f : IsSum(f, w, n)
<1> DEFINE G == {m \in Nat : \E f : IsSum(f, w, m)}
<1>1. 0 \in G
  <2>1. IsSum([k \in 0 .. 0 |-> 0], w, 0)
    BY DEF IsSum
  <2> QED BY <2>1
<1>2. ASSUME NEW m \in 0 .. n - 1, m \in G
      PROVE  m + 1 \in G
  <2>1. PICK f : IsSum(f, w, m)
    BY <1>2
  <2> DEFINE new == [k \in 0 .. m + 1 |-> IF k = m + 1 THEN f[m] + w[m + 1] ELSE f[k]]
  <2>2. /\ f \in [0 .. m -> Nat] /\ f[0] = 0 /\ w[m + 1] \in Nat /\ m \in 0 .. m
        /\ \A k \in 1 .. m : f[k] = f[k - 1] + w[k]
    BY <2>1 DEF IsSum, Weights
  <2>3. new \in [0 .. m + 1 -> Nat] /\ new[0] = 0
    BY <2>2
  <2>4. ASSUME NEW k \in 1 .. m + 1
        PROVE  new[k] = new[k - 1] + w[k]
    <3>1. CASE k = m + 1
      BY <2>2, <3>1
    <3>2. CASE k # m + 1
      <4>1. k \in 1 .. m /\ k - 1 \in 0 .. m + 1 /\ k - 1 # m + 1 /\ k \in 0 .. m + 1
        BY <3>2
      <4>2. new[k] = f[k] /\ new[k - 1] = f[k - 1]
        BY <3>2, <4>1
      <4> QED BY <2>2, <4>1, <4>2
    <3> QED BY <3>1, <3>2
  <2>5. IsSum(new, w, m + 1)
    <3> HIDE DEF new
    <3> QED BY <2>3, <2>4 DEF IsSum
  <2> QED BY <2>5
<1>3. n \in G
  <2> HIDE DEF G
  <2>1. \A k \in 0 .. n : k \in G
    BY <1>1, <1>2, UpTo
  <2> QED BY <2>1
<1> QED BY <1>3

\* ... and there is one way to sum them up.
LEMMA SumIsUnique ==
  ASSUME NEW n \in Nat, NEW w, NEW f, NEW g, IsSum(f, w, n),
         g[0] = 0, \A k \in 1 .. n : g[k] = g[k - 1] + w[k]
  PROVE  \A k \in 0 .. n : f[k] = g[k]
<1> DEFINE G == {k \in 0 .. n : f[k] = g[k]}
<1>1. 0 \in G
  BY DEF IsSum
<1>2. ASSUME NEW k \in 0 .. n - 1, k \in G
      PROVE  k + 1 \in G
  <2>1. k + 1 \in 1 .. n /\ (k + 1) - 1 = k
    OBVIOUS
  <2> QED BY <1>2, <2>1 DEF IsSum
<1> HIDE DEF G
<1>3. \A k \in 0 .. n : k \in G
  BY <1>1, <1>2, UpTo
<1> QED BY <1>3 DEF G

\* A sum, one weight at a time.
LEMMA SumSteps ==
  ASSUME NEW n \in Nat, NEW w, Weights(w, n)
  PROVE  /\ SumOf(w, n) \in Nat
         /\ n = 0 => SumOf(w, n) = 0
         /\ n # 0 => SumOf(w, n) = SumOf(w, n - 1) + w[n]
<1> DEFINE f == CHOOSE h : IsSum(h, w, n)
           e == CHOOSE h : IsSum(h, w, n - 1)
<1>1. IsSum(f, w, n)
  BY SumExists
<1>2. CASE n = 0
  BY <1>1, <1>2 DEF SumOf, IsSum
<1>3. CASE n # 0
  <2>1. n - 1 \in Nat /\ Weights(w, n - 1)
    BY <1>3 DEF Weights
  <2>2. IsSum(e, w, n - 1)
    BY <2>1, SumExists
  <2> HIDE DEF e, f
  <2>3. f[0] = 0 /\ \A k \in 1 .. n - 1 : f[k] = f[k - 1] + w[k]
    BY <1>1 DEF IsSum
  <2>4. e[n - 1] = f[n - 1]
    <3>1. n - 1 \in 0 .. n - 1
      BY <2>1
    <3> QED BY <2>1, <2>2, <2>3, <3>1, SumIsUnique
  <2>5. f[n] = f[n - 1] + w[n] /\ f[n] \in Nat
    BY <1>1, <1>3 DEF IsSum
  <2> QED BY <1>3, <2>4, <2>5 DEF SumOf, e, f
<1> QED BY <1>2, <1>3

\* Equal weights, equal sums.
LEMMA SumSame ==
  ASSUME NEW n \in Nat, NEW v, NEW w, Weights(v, n), \A k \in 1 .. n : v[k] = w[k]
  PROVE  SumOf(v, n) = SumOf(w, n)
<1> DEFINE f == CHOOSE h : IsSum(h, v, n)
           g == CHOOSE h : IsSum(h, w, n)
<1>1. Weights(w, n)
  BY DEF Weights
<1>2. IsSum(f, v, n) /\ IsSum(g, w, n)
  BY <1>1, SumExists
<1> HIDE DEF f, g
<1>3. g[0] = 0 /\ \A k \in 1 .. n : g[k] = g[k - 1] + v[k]
  BY <1>2 DEF IsSum
<1>4. f[n] = g[n]
  <2>1. n \in 0 .. n
    OBVIOUS
  <2> QED BY <1>2, <1>3, <2>1, SumIsUnique
<1> QED BY <1>4 DEF SumOf, f, g

\* One weight changes.
LEMMA SumReplace ==
  ASSUME NEW n \in Nat, NEW v, NEW w, Weights(v, n), Weights(w, n), NEW i \in 1 .. n,
         \A k \in 1 .. n : k # i => v[k] = w[k]
  PROVE  SumOf(v, n) + w[i] = SumOf(w, n) + v[i]
<1> DEFINE G == {m \in 0 .. n : IF m < i THEN SumOf(v, m) = SumOf(w, m)
                                ELSE SumOf(v, m) + w[i] = SumOf(w, m) + v[i]}
<1>0. \A m \in 0 .. n : m \in Nat /\ Weights(v, m) /\ Weights(w, m)
  BY DEF Weights
<1>1. 0 \in G
  <2>1. SumOf(v, 0) = 0 /\ SumOf(w, 0) = 0
    BY <1>0, SumSteps
  <2> QED BY <2>1
<1>2. ASSUME NEW m \in 0 .. n - 1, m \in G
      PROVE  m + 1 \in G
  <2>1. m + 1 \in 1 .. n /\ m + 1 \in 0 .. n /\ (m + 1) - 1 = m /\ m + 1 # 0 /\ m \in 0 .. n
    OBVIOUS
  <2>2. SumOf(v, m + 1) = SumOf(v, m) + v[m + 1] /\ SumOf(w, m + 1) = SumOf(w, m) + w[m + 1]
    BY <1>0, <2>1, SumSteps
  <2>3. /\ SumOf(v, m) \in Nat /\ SumOf(w, m) \in Nat /\ v[m + 1] \in Nat /\ w[m + 1] \in Nat
        /\ v[i] \in Nat /\ w[i] \in Nat
    BY <1>0, <2>1, SumSteps DEF Weights
  <2>4. m + 1 # i => v[m + 1] = w[m + 1]
    BY <2>1
  <2> HIDE DEF Weights
  <2>5. IF m + 1 < i THEN SumOf(v, m + 1) = SumOf(w, m + 1)
        ELSE SumOf(v, m + 1) + w[i] = SumOf(w, m + 1) + v[i]
    <3>1. CASE m + 1 < i
      BY <1>2, <2>2, <2>4, <3>1
    <3>2. CASE m + 1 = i
      BY <1>2, <2>2, <2>3, <3>2
    <3>3. CASE m + 1 > i
      BY <1>2, <2>2, <2>3, <2>4, <3>3
    <3> QED BY <3>1, <3>2, <3>3
  <2> QED BY <2>1, <2>5
<1> HIDE DEF G
<1>3. \A m \in 0 .. n : m \in G
  BY <1>1, <1>2, UpTo
<1> QED
  <2>1. n \in 0 .. n /\ ~(n < i)
    OBVIOUS
  <2> QED BY <1>3, <2>1 DEF G

\* The first weight is taken off.
LEMMA SumTail ==
  ASSUME NEW n \in Nat, NEW v, NEW w, Weights(w, n + 1), \A k \in 1 .. n : v[k] = w[k + 1]
  PROVE  SumOf(w, n + 1) = w[1] + SumOf(v, n)
<1> DEFINE G == {m \in 0 .. n : SumOf(w, m + 1) = w[1] + SumOf(v, m)}
<1>0. \A m \in 0 .. n : m \in Nat /\ Weights(v, m) /\ Weights(w, m) /\ Weights(w, m + 1)
  BY DEF Weights
<1>1. 0 \in G
  <2>1. SumOf(v, 0) = 0 /\ SumOf(w, 0) = 0 /\ w[1] \in Nat
    BY <1>0, SumSteps DEF Weights
  <2>2. SumOf(w, 1) = SumOf(w, 0) + w[1]
    <3>1. 0 + 1 = 1 /\ 1 - 1 = 0 /\ 0 \in 0 .. n
      OBVIOUS
    <3>2. Weights(w, 1)
      BY <1>0, <3>1
    <3> QED BY <3>1, <3>2, SumSteps
  <2> QED BY <2>1, <2>2
<1>2. ASSUME NEW m \in 0 .. n - 1, m \in G
      PROVE  m + 1 \in G
  <2>1. m + 1 \in 1 .. n /\ m + 1 \in 0 .. n /\ (m + 1) - 1 = m /\ m + 1 # 0 /\ m \in 0 .. n
        /\ (m + 1) + 1 \in Nat /\ (m + 1) + 1 # 0 /\ ((m + 1) + 1) - 1 = m + 1
    OBVIOUS
  <2>2. SumOf(v, m + 1) = SumOf(v, m) + v[m + 1]
    BY <1>0, <2>1, SumSteps
  <2>3. SumOf(w, (m + 1) + 1) = SumOf(w, m + 1) + w[(m + 1) + 1]
    BY <1>0, <2>1, SumSteps
  <2>4. /\ SumOf(v, m) \in Nat /\ v[m + 1] = w[(m + 1) + 1]
        /\ v[m + 1] \in Nat /\ w[1] \in Nat
    BY <1>0, <2>1, SumSteps DEF Weights
  <2> QED BY <1>2, <2>1, <2>2, <2>3, <2>4
<1> HIDE DEF G
<1>3. \A m \in 0 .. n : m \in G
  BY <1>1, <1>2, UpTo
<1> QED
  <2>1. n \in 0 .. n
    OBVIOUS
  <2> QED BY <1>3, <2>1 DEF G

\* The recursive function of a fold that adds weights ...
LEMMA SumFoldExists ==
  ASSUME NEW n \in Nat, NEW w, Weights(w, n)
  PROVE  \E h : h = [s \in SUBSET (1 .. n) |->
                       IF s = {} THEN 0 ELSE h[s \ {Max(s)}] + w[Max(s)]]
<1> DEFINE g == [k \in 1 .. n |-> [a \in Nat |-> a + w[k]]]
<1>1. g \in [1 .. n -> [Nat -> Nat]]
  BY DEF Weights
<1>2. PICK h \in [SUBSET (1 .. n) -> Nat] : StepsBy(h, n, 0, g)
  <2> HIDE DEF g
  <2> QED BY <1>1, FoldExists
<1>3. \A s \in SUBSET (1 .. n) :
        h[s] = IF s = {} THEN 0 ELSE h[s \ {Max(s)}] + w[Max(s)]
  <2> SUFFICES ASSUME NEW s \in SUBSET (1 .. n)
               PROVE  h[s] = IF s = {} THEN 0 ELSE h[s \ {Max(s)}] + w[Max(s)]
    OBVIOUS
  <2>1. s # {} => Max(s) \in 1 .. n
    BY MaxIsIn
  <2>2. h[s] = IF s = {} THEN 0 ELSE g[Max(s)][h[s \ {Max(s)}]]
    BY <1>2 DEF StepsBy
  <2>3. h[s \ {Max(s)}] \in Nat
    BY <1>2
  <2> QED BY <2>1, <2>2, <2>3
<1> QED BY <1>2, <1>3

\* ... and what it computes.
LEMMA FoldIsSum ==
  ASSUME NEW n \in Nat, NEW w, Weights(w, n), NEW h,
         h = [s \in SUBSET (1 .. n) |-> IF s = {} THEN 0 ELSE h[s \ {Max(s)}] + w[Max(s)]]
  PROVE  h[1 .. n] = SumOf(w, n)
<1> DEFINE f == CHOOSE e : IsSum(e, w, n)
           g == [k \in 0 .. n |-> h[1 .. k]]
<1>1. IsSum(f, w, n)
  BY SumExists
<1>2. g[0] = 0
  <2>1. 1 .. 0 = {} /\ 0 \in 0 .. n
    OBVIOUS
  <2> QED BY <2>1
<1>3. ASSUME NEW k \in 1 .. n
      PROVE  g[k] = g[k - 1] + w[k]
  <2>1. 1 .. k \in SUBSET (1 .. n) /\ 1 .. k # {} /\ k \in 0 .. n /\ k - 1 \in 0 .. n
        /\ k \in Nat \ {0}
    OBVIOUS
  <2>2. h[1 .. k] = h[(1 .. k) \ {Max(1 .. k)}] + w[Max(1 .. k)]
    BY <2>1
  <2> QED BY <2>1, <2>2, MaxOfPrefix
<1>4. f[n] = g[n] /\ n \in 0 .. n
  <2> HIDE DEF f, g
  <2>1. n \in 0 .. n
    OBVIOUS
  <2> QED BY <1>1, <1>2, <1>3, <2>1, SumIsUnique
<1> QED BY <1>4 DEF SumOf

\* A weight is appended.
LEMMA SumAppend ==
  ASSUME NEW n \in Nat, NEW v, NEW w, Weights(v, n + 1), \A k \in 1 .. n : v[k] = w[k]
  PROVE  SumOf(v, n + 1) = SumOf(w, n) + v[n + 1]
<1>1. Weights(v, n) /\ n + 1 \in Nat /\ n + 1 # 0 /\ (n + 1) - 1 = n
  BY DEF Weights
<1>2. SumOf(v, n + 1) = SumOf(v, n) + v[n + 1]
  BY <1>1, SumSteps
<1>3. SumOf(v, n) = SumOf(w, n)
  BY <1>1, SumSame
<1> QED BY <1>2, <1>3

\* One weight grows, the others stay.
LEMMA SumGrows ==
  ASSUME NEW n \in Nat, NEW v, NEW w, Weights(w, n), NEW i \in 1 .. n, NEW d \in Nat,
         v[i] = w[i] + d, \A k \in 1 .. n : k # i => v[k] = w[k]
  PROVE  SumOf(v, n) = SumOf(w, n) + d
<1>1. Weights(v, n)
  BY DEF Weights
<1>2. SumOf(v, n) + w[i] = SumOf(w, n) + v[i]
  BY <1>1, SumReplace
<1>3. SumOf(v, n) \in Nat /\ SumOf(w, n) \in Nat /\ w[i] \in Nat
  BY <1>1, SumSteps DEF Weights
<1> DEFINE a == SumOf(v, n)
           b == SumOf(w, n)
           x == w[i]
<1>4. a + x = b + (x + d) /\ a \in Nat /\ b \in Nat /\ x \in Nat
  BY <1>2, <1>3
<1> HIDE DEF a, b, x
<1>5. a = b + d
  BY <1>4
<1> QED BY <1>5 DEF a, b

-----------------------------------------------------------------------------
(* Small facts.                                                             *)

\* The smaller of two numbers.
LEMMA MinOfTwo ==
  ASSUME NEW a \in Int, NEW b \in Int
  PROVE  Min({a, b}) = IF a <= b THEN a ELSE b
BY DEF Min

\* Of two numbers.
LEMMA MaxOfTwo ==
  ASSUME NEW a \in Int, NEW b \in Int
  PROVE  Max({a, b}) = IF a >= b THEN a ELSE b
BY DEF Max

\* A set of numbers that is bounded and not empty has a smallest element.
LEMMA MinIsIn ==
  ASSUME NEW s \in SUBSET Nat, s # {}
  PROVE  Min(s) \in s /\ \A x \in s : Min(s) <= x
<1>1. PICK m \in s : \A k \in s : ~(<<k, m>> \in OpToRel(<, Nat))
  BY WFMin, NatLessThanWellFounded
<1>2. \A k \in s : m <= k
  <2> SUFFICES ASSUME NEW k \in s, k < m
               PROVE  FALSE
    OBVIOUS
  <2>1. <<k, m>> \in OpToRel(<, Nat)
    BY DEF OpToRel
  <2> QED BY <1>1, <2>1
<1> QED BY <1>2 DEF Min

\* A set written with four elements is finite.
LEMMA FourIsFinite ==
  ASSUME NEW a, NEW b, NEW c, NEW d
  PROVE  IsFiniteSet({a, b, c, d})
<1>1. IsFiniteSet({} \cup {a})
  BY FS_EmptySet, FS_AddElement
<1>2. IsFiniteSet(({} \cup {a}) \cup {b})
  BY <1>1, FS_AddElement
<1>3. IsFiniteSet((({} \cup {a}) \cup {b}) \cup {c})
  BY <1>2, FS_AddElement
<1>4. IsFiniteSet(((({} \cup {a}) \cup {b}) \cup {c}) \cup {d})
  BY <1>3, FS_AddElement
<1>5. ((({} \cup {a}) \cup {b}) \cup {c}) \cup {d} = {a, b, c, d}
  OBVIOUS
<1> QED BY <1>4, <1>5

\* tshark's key.
LEMMA FourTuple ==
  ASSUME NEW U, NEW a \in U, NEW b \in U, NEW c \in U, NEW d \in U
  PROVE  <<a, b, c, d>> \in Seq(U)
OBVIOUS

-----------------------------------------------------------------------------
(* The data of Stage 2: packets, events and the accumulators of a table.    *)

\* STRING holds every literal, but the provers do not know it.
Words == STRING \cup {"none", "Port Scan", "l2"}

Told ==
  [source : Words, caps : SUBSET Words, mgmt : IPs \cup {None}, desc : Words]

Keys == Seq(Words \cup Nat \cup IPs \cup MACs \cup {None})

Accumulators ==
  [key : Keys, sips : SUBSET IPs, dips : SUBSET IPs,
   smac : MACs \cup {None}, dmac : MACs \cup {None}, proto : Words, port : Nat,
   transport : Words, packets : Nat, bytes : Nat, first : Nat, last : Nat,
   writes : Nat, program : BOOLEAN, discovery : Told]

\* Discovery merges into discovery.
LEMMA LearnTyped ==
  ASSUME NEW old \in Told, NEW new \in Told
  PROVE  Learn(old, new) \in Told
BY DEF Learn, Told, Refresh

\* So it does when there is none.
LEMMA NoDiscoveryTyped == NoDiscovery \in Told
BY DEF NoDiscovery, Told, Words

\* What the assumption on the captures says of a packet.
LEMMA PacketTyped ==
  ASSUME NEW p \in Packets
  PROVE  /\ p.sip \in IPs \cup {None} /\ p.dip \in IPs \cup {None}
         /\ p.smac \in MACs \cup {None} /\ p.dmac \in MACs \cup {None}
         /\ p.proto \in Words /\ p.transport \in Words /\ p.discovery \in Told
         /\ p.sport \in Nat /\ p.dport \in Nat /\ p.len \in Nat
         /\ p.write \in BOOLEAN /\ p.program \in BOOLEAN
<1>1. p.discovery \in Told
  <2>1. p.discovery \in Discovery
    BY DEF Packets
  <2> QED BY <2>1 DEF Discovery, Told, Words
<1> QED BY <1>1 DEF Packets, Words

\* A packet is counted once, and changes nothing of the identity.
LEMMA Absorbed ==
  ASSUME NEW a \in Accumulators, NEW p \in Packets, NEW stamp \in Nat
  PROVE  LET b == Absorb(a, p, stamp)
         IN /\ b \in Accumulators /\ b.key = a.key
            /\ b.smac = a.smac /\ b.dmac = a.dmac /\ b.port = a.port /\ b.proto = a.proto
            /\ b.transport = IF a.transport = "none" THEN p.transport ELSE a.transport
            /\ b.packets = a.packets + 1
            /\ b.writes = a.writes + (IF p.write THEN 1 ELSE 0)
<1>1. Learn(a.discovery, p.discovery) \in Told
  BY LearnTyped, PacketTyped DEF Accumulators
<1>2. /\ a.sips \cup Named(p.sip) \in SUBSET IPs
      /\ a.dips \cup Named(p.dip) \in SUBSET IPs
  BY PacketTyped DEF Accumulators, Named, Present
<1>3. /\ Earlier(a.first, stamp) \in Nat /\ Later(a.last, stamp) \in Nat
      /\ a.packets + 1 \in Nat /\ a.bytes + p.len \in Nat
      /\ a.writes + (IF p.write THEN 1 ELSE 0) \in Nat
  BY PacketTyped DEF Accumulators, Earlier, Later
<1>4. /\ (a.program \/ p.program) \in BOOLEAN
      /\ (IF a.transport = "none" THEN p.transport ELSE a.transport) \in Words
  BY PacketTyped DEF Accumulators
<1> QED BY <1>1, <1>2, <1>3, <1>4 DEF Absorb, Accumulators

\* A new accumulator has counted nothing yet.
LEMMA AccumulatorTyped ==
  ASSUME NEW key \in Keys, key[3] \in Words, key[4] \in Nat, NEW p \in Packets
  PROVE  Accumulator(key, p) \in Accumulators
<1>1. {} \in SUBSET IPs /\ "none" \in Words /\ 0 \in Nat /\ FALSE \in BOOLEAN
  BY DEF Words
<1>2. p.smac \in MACs \cup {None} /\ p.dmac \in MACs \cup {None}
  BY PacketTyped
<1> QED BY <1>1, <1>2, NoDiscoveryTyped DEF Accumulator, Accumulators

\* Upsert: the first accumulator with the key, or a new one at the end.
LEMMA UpsertCases ==
  ASSUME NEW tab \in Seq(Accumulators), NEW key, NEW p, NEW stamp
  PROVE  \/ /\ \A n \in DOMAIN tab : tab[n].key # key
            /\ Upsert(tab, key, p, stamp) = Append(tab, Absorb(Accumulator(key, p), p, stamp))
         \/ \E i \in DOMAIN tab :
              /\ tab[i].key = key
              /\ Upsert(tab, key, p, stamp) = [tab EXCEPT ![i] = Absorb(@, p, stamp)]
<1> DEFINE I == {i \in 1 .. Len(tab) : tab[i].key = key}
<1>1. CASE I = {}
  <2>1. \A n \in DOMAIN tab : tab[n].key # key
    BY <1>1
  <2>2. Upsert(tab, key, p, stamp) = Append(tab, Absorb(Accumulator(key, p), p, stamp))
    BY <1>1 DEF Upsert, SelectInSeq
  <2> QED BY <2>1, <2>2
<1>2. CASE I # {}
  <2>1. I \in SUBSET Nat /\ I \subseteq DOMAIN tab
    OBVIOUS
  <2>2. Min(I) \in I
    <3> HIDE DEF I
    <3> QED BY <1>2, <2>1, MinIsIn
  <2>3. Upsert(tab, key, p, stamp) = [tab EXCEPT ![Min(I)] = Absorb(@, p, stamp)]
    <3>1. Min(I) # 0
      BY <2>2
    <3> QED BY <1>2, <3>1 DEF Upsert, SelectInSeq
  <2> QED BY <2>1, <2>2, <2>3
<1> QED BY <1>1, <1>2

-----------------------------------------------------------------------------
(* What a table or a list of conversations has counted.                     *)

PacketsOf(s) == SumOf([k \in 1 .. Len(s) |-> s[k].packets], Len(s))
WritesOf(s) == SumOf([k \in 1 .. Len(s) |-> s[k].writes], Len(s))

Bit(b) == IF b THEN 1 ELSE 0

\* The counts of a table or a list of conversations.
IsCounted(s) ==
  \A k \in 1 .. Len(s) : s[k].packets \in Nat /\ s[k].writes \in Nat

\* Sums over such a list are numbers, and zero when it is empty.
LEMMA SumsTyped ==
  ASSUME NEW A, NEW s \in Seq(A), IsCounted(s)
  PROVE  /\ PacketsOf(s) \in Nat /\ WritesOf(s) \in Nat
         /\ s = <<>> => PacketsOf(s) = 0 /\ WritesOf(s) = 0
<1>1. Len(s) \in Nat /\ (s = <<>> => Len(s) = 0)
  OBVIOUS
<1>2. /\ Weights([k \in 1 .. Len(s) |-> s[k].packets], Len(s))
      /\ Weights([k \in 1 .. Len(s) |-> s[k].writes], Len(s))
  BY DEF Weights, IsCounted
<1> QED BY <1>1, <1>2, SumSteps DEF PacketsOf, WritesOf

\* An entry at the end adds its counts.
LEMMA SumsOfAppend ==
  ASSUME NEW A, NEW s \in Seq(A), NEW c \in A, IsCounted(s), c.packets \in Nat, c.writes \in Nat
  PROVE  /\ IsCounted(Append(s, c))
         /\ PacketsOf(Append(s, c)) = PacketsOf(s) + c.packets
         /\ WritesOf(Append(s, c)) = WritesOf(s) + c.writes
<1> DEFINE t == Append(s, c)
           n == Len(s)
<1>1. n \in Nat /\ Len(t) = n + 1 /\ t[n + 1] = c /\ \A k \in 1 .. n : t[k] = s[k]
  OBVIOUS
<1> HIDE DEF t
<1>2. IsCounted(t)
  <2> SUFFICES ASSUME NEW k \in 1 .. n + 1
               PROVE  t[k].packets \in Nat /\ t[k].writes \in Nat
    BY <1>1 DEF IsCounted
  <2>1. k \in 1 .. n \/ k = n + 1
    BY <1>1
  <2> QED BY <1>1, <2>1 DEF IsCounted
<1>3. PacketsOf(t) = PacketsOf(s) + c.packets
  <2> DEFINE v == [k \in 1 .. Len(t) |-> t[k].packets]
             w == [k \in 1 .. Len(s) |-> s[k].packets]
  <2>1. Weights(v, n + 1) /\ (\A k \in 1 .. n : v[k] = w[k]) /\ v[n + 1] = c.packets
    BY <1>1, <1>2 DEF Weights, IsCounted
  <2> HIDE DEF v, w
  <2>2. SumOf(v, n + 1) = SumOf(w, n) + v[n + 1]
    BY <1>1, <2>1, SumAppend
  <2> QED BY <1>1, <2>1, <2>2 DEF PacketsOf, v, w
<1>4. WritesOf(t) = WritesOf(s) + c.writes
  <2> DEFINE v == [k \in 1 .. Len(t) |-> t[k].writes]
             w == [k \in 1 .. Len(s) |-> s[k].writes]
  <2>1. Weights(v, n + 1) /\ (\A k \in 1 .. n : v[k] = w[k]) /\ v[n + 1] = c.writes
    BY <1>1, <1>2 DEF Weights, IsCounted
  <2> HIDE DEF v, w
  <2>2. SumOf(v, n + 1) = SumOf(w, n) + v[n + 1]
    BY <1>1, <2>1, SumAppend
  <2> QED BY <1>1, <2>1, <2>2 DEF WritesOf, v, w
<1> QED BY <1>2, <1>3, <1>4 DEF t

\* A new entry in the place of an old one changes them by the difference.
LEMMA SumsOfReplace ==
  ASSUME NEW A, NEW s \in Seq(A), NEW c \in A, NEW i \in DOMAIN s,
         IsCounted(s), c.packets \in Nat, c.writes \in Nat
  PROVE  LET t == [s EXCEPT ![i] = c]
         IN /\ IsCounted(t)
            /\ PacketsOf(t) + s[i].packets = PacketsOf(s) + c.packets
            /\ WritesOf(t) + s[i].writes = WritesOf(s) + c.writes
<1> DEFINE t == [s EXCEPT ![i] = c]
           n == Len(s)
<1>1. /\ n \in Nat /\ Len(t) = n /\ i \in 1 .. n /\ t[i] = c /\ t \in Seq(A)
      /\ \A k \in 1 .. n : k # i => t[k] = s[k]
  OBVIOUS
<1> HIDE DEF t
<1>2. IsCounted(t)
  BY <1>1 DEF IsCounted
<1>3. /\ s[i].packets \in Nat /\ s[i].writes \in Nat
      /\ PacketsOf(s) \in Nat /\ WritesOf(s) \in Nat
      /\ PacketsOf(t) \in Nat /\ WritesOf(t) \in Nat
  BY <1>1, <1>2, SumsTyped DEF IsCounted
<1>4. PacketsOf(t) + s[i].packets = PacketsOf(s) + c.packets
  <2> DEFINE v == [k \in 1 .. Len(t) |-> t[k].packets]
             w == [k \in 1 .. Len(s) |-> s[k].packets]
  <2>1. /\ Weights(v, n) /\ Weights(w, n) /\ (\A k \in 1 .. n : k # i => v[k] = w[k])
        /\ v[i] = c.packets /\ w[i] = s[i].packets
    BY <1>1, <1>2 DEF Weights, IsCounted
  <2> HIDE DEF v, w
  <2>2. SumOf(v, n) + w[i] = SumOf(w, n) + v[i]
    <3>1. n \in Nat /\ i \in 1 .. n
      BY <1>1
    <3> HIDE DEF n
    <3> QED BY <2>1, <3>1, SumReplace
  <2> QED BY <1>1, <2>1, <2>2 DEF PacketsOf, v, w
<1>5. WritesOf(t) + s[i].writes = WritesOf(s) + c.writes
  <2> DEFINE v == [k \in 1 .. Len(t) |-> t[k].writes]
             w == [k \in 1 .. Len(s) |-> s[k].writes]
  <2>1. /\ Weights(v, n) /\ Weights(w, n) /\ (\A k \in 1 .. n : k # i => v[k] = w[k])
        /\ v[i] = c.writes /\ w[i] = s[i].writes
    BY <1>1, <1>2 DEF Weights, IsCounted
  <2> HIDE DEF v, w
  <2>2. SumOf(v, n) + w[i] = SumOf(w, n) + v[i]
    <3>1. n \in Nat /\ i \in 1 .. n
      BY <1>1
    <3> HIDE DEF n
    <3> QED BY <2>1, <3>1, SumReplace
  <2> QED BY <1>1, <2>1, <2>2 DEF WritesOf, v, w
<1> QED BY <1>2, <1>4, <1>5 DEF t

\* Tables count ...
LEMMA TablesCount ==
  ASSUME NEW tab \in Seq(Accumulators)
  PROVE  IsCounted(tab)
<1>1. \A k \in 1 .. Len(tab) : tab[k] \in Accumulators
  OBVIOUS
<1> QED BY <1>1 DEF IsCounted, Accumulators

\* A packet that goes into the table is counted once.
LEMMA UpsertAdds ==
  ASSUME NEW tab \in Seq(Accumulators), NEW key \in Keys, key[3] \in Words, key[4] \in Nat,
         NEW p \in Packets, NEW stamp \in Nat
  PROVE  LET new == Upsert(tab, key, p, stamp)
         IN /\ new \in Seq(Accumulators)
            /\ PacketsOf(new) = PacketsOf(tab) + 1
            /\ WritesOf(new) = WritesOf(tab) + Bit(p.write)
<1> DEFINE new == Upsert(tab, key, p, stamp)
<1>0. IsCounted(tab)
  BY TablesCount
<1>1. CASE new = Append(tab, Absorb(Accumulator(key, p), p, stamp))
  <2> DEFINE a == Accumulator(key, p)
             b == Absorb(a, p, stamp)
  <2>1. a \in Accumulators /\ a.packets = 0 /\ a.writes = 0
    BY AccumulatorTyped DEF Accumulator
  <2> HIDE DEF a
  <2>2. b \in Accumulators /\ b.packets = 1 /\ b.writes = Bit(p.write)
    <3>1. /\ b \in Accumulators /\ b.packets = a.packets + 1
          /\ b.writes = a.writes + Bit(p.write)
      BY <2>1, Absorbed DEF Bit
    <3>2. Bit(p.write) \in Nat
      BY DEF Bit
    <3> QED BY <2>1, <3>1, <3>2
  <2>3. b.packets \in Nat /\ b.writes \in Nat
    BY <2>2 DEF Accumulators
  <2> HIDE DEF b, new
  <2>4. new = Append(tab, b)
    BY <1>1 DEF a, b
  <2>5. new \in Seq(Accumulators)
    BY <2>2, <2>4
  <2> QED BY <1>0, <2>2, <2>3, <2>4, <2>5, SumsOfAppend DEF new
<1>2. ASSUME NEW i \in DOMAIN tab, new = [tab EXCEPT ![i] = Absorb(@, p, stamp)]
      PROVE  /\ new \in Seq(Accumulators)
             /\ PacketsOf(new) = PacketsOf(tab) + 1
             /\ WritesOf(new) = WritesOf(tab) + Bit(p.write)
  <2> DEFINE a == tab[i]
             b == Absorb(a, p, stamp)
  <2>1. a \in Accumulators
    OBVIOUS
  <2> HIDE DEF a
  <2>2. b \in Accumulators /\ b.packets = a.packets + 1 /\ b.writes = a.writes + Bit(p.write)
    BY <2>1, Absorbed DEF Bit
  <2>3. /\ b.packets \in Nat /\ b.writes \in Nat /\ a.packets \in Nat /\ a.writes \in Nat
        /\ Bit(p.write) \in Nat
    BY <2>1, <2>2 DEF Accumulators, Bit
  <2> HIDE DEF b, new
  <2>4. new = [tab EXCEPT ![i] = b]
    BY <1>2 DEF a, b
  <2>5. new \in Seq(Accumulators)
    BY <2>2, <2>4
  <2>6. /\ PacketsOf(new) + a.packets = PacketsOf(tab) + b.packets
        /\ WritesOf(new) + a.writes = WritesOf(tab) + b.writes
    BY <1>0, <2>2, <2>3, <2>4, SumsOfReplace DEF a
  <2>7. /\ PacketsOf(tab) \in Nat /\ WritesOf(tab) \in Nat
        /\ PacketsOf(new) \in Nat /\ WritesOf(new) \in Nat
    BY <1>0, <2>5, SumsTyped, TablesCount
  <2>8. PacketsOf(new) = PacketsOf(tab) + 1
    <3>1. b.packets = a.packets + 1
      BY <2>2
    <3>2. PacketsOf(new) + a.packets = PacketsOf(tab) + b.packets
      BY <2>6
    <3>3. b.packets \in Nat /\ a.packets \in Nat
      BY <2>3
    <3> QED BY <3>1, <3>2, <3>3, <2>7
  <2>9. WritesOf(new) = WritesOf(tab) + Bit(p.write)
    <3>1. b.writes = a.writes + Bit(p.write)
      BY <2>2
    <3>2. WritesOf(new) + a.writes = WritesOf(tab) + b.writes
      BY <2>6
    <3>3. b.writes \in Nat /\ a.writes \in Nat
      BY <2>3
    <3>4. \E d \in Nat : d = Bit(p.write)
      BY <2>3
    <3>5. WritesOf(tab) \in Nat /\ WritesOf(new) \in Nat
      BY <2>7
    <3> QED BY <3>1, <3>2, <3>3, <3>4, <3>5
  <2> QED BY <2>5, <2>8, <2>9
<1> QED BY <1>1, <1>2, UpsertCases

-----------------------------------------------------------------------------
(* From the table to conversations, and the merge of chunk reports.         *)

\* Conversations, as the provers know them.
Talks ==
  [sip : IPs \cup {None}, dip : IPs \cup {None},
   smac : MACs \cup {None}, dmac : MACs \cup {None},
   proto : Words, port : Nat, transport : Words, packets : Nat, bytes : Nat,
   first : Nat, last : Nat, writes : Nat, program : BOOLEAN, discovery : Told]

\* ... and so do conversations.
LEMMA TalksCount ==
  ASSUME NEW s \in Seq(Talks)
  PROVE  IsCounted(s)
<1>1. \A k \in 1 .. Len(s) : s[k] \in Talks
  OBVIOUS
<1> QED BY <1>1 DEF IsCounted, Talks

\* A conversation is its accumulator, with one of the IPs.
LEMMA ConversationsOf ==
  ASSUME NEW a \in Accumulators
  PROVE  \A c \in Conversations(a) :
           c \in Talks /\ c.packets = a.packets /\ c.writes = a.writes
<1>1. \A s \in Representatives(a.sips), d \in Representatives(a.dips) :
        s \in IPs \cup {None} /\ d \in IPs \cup {None}
  BY DEF Accumulators, Representatives
<1>2. /\ a.smac \in MACs \cup {None} /\ a.dmac \in MACs \cup {None}
      /\ a.proto \in Words /\ a.port \in Nat /\ a.transport \in Words /\ a.packets \in Nat
      /\ a.bytes \in Nat /\ a.first \in Nat /\ a.last \in Nat /\ a.writes \in Nat
      /\ a.program \in BOOLEAN /\ a.discovery \in Told
  BY DEF Accumulators
<1> QED BY <1>1, <1>2 DEF Conversations, Talks

\* ConversationLists picks one conversation for every accumulator.
LEMMA ListsOf ==
  ASSUME NEW tab \in Seq(Accumulators)
  PROVE  \A list \in ConversationLists(tab) :
           /\ list \in Seq(Talks) /\ Len(list) = Len(tab)
           /\ \A k \in 1 .. Len(tab) : list[k] \in Conversations(tab[k])
<1> DEFINE n == Len(tab)
           A == SUBSET Seq(Talks)
           g == [k \in 1 .. n |-> [lists \in A |-> Extended(lists, tab[k])]]
<1>0. n \in Nat /\ DOMAIN tab = 1 .. n /\ \A k \in 1 .. n : tab[k] \in Accumulators
  OBVIOUS
<1>1. \A k \in 1 .. n : \A lists \in A : Extended(lists, tab[k]) \in A
  BY <1>0, ConversationsOf DEF Extended
<1>2. {<<>>} \in A
  OBVIOUS
<1> HIDE DEF A
<1>3. PICK h \in [SUBSET (1 .. n) -> A] : StepsBy(h, n, {<<>>}, g)
  <2>1. g \in [1 .. n -> [A -> A]]
    BY <1>1
  <2> HIDE DEF g, n
  <2> QED BY <1>0, <1>2, <2>1, FoldExists
<1>4. h = [s \in SUBSET (1 .. n) |->
             IF s = {} THEN {<<>>} ELSE Extended(h[s \ {Max(s)}], tab[Max(s)])]
  <2>1. ASSUME NEW s \in SUBSET (1 .. n), s # {}
        PROVE  g[Max(s)][h[s \ {Max(s)}]] = Extended(h[s \ {Max(s)}], tab[Max(s)])
    <3>1. Max(s) \in 1 .. n
      BY <1>0, <2>1, MaxIsIn
    <3> QED BY <1>3, <3>1
  <2>2. \A s \in SUBSET (1 .. n) :
          h[s] = IF s = {} THEN {<<>>} ELSE g[Max(s)][h[s \ {Max(s)}]]
    BY <1>3 DEF StepsBy
  <2> HIDE DEF g, n
  <2> QED BY <1>3, <2>1, <2>2
<1>5. PICK it : /\ it = [s \in SUBSET (1 .. n) |->
                           IF s = {} THEN {<<>>} ELSE Extended(it[s \ {Max(s)}], tab[Max(s)])]
                /\ ConversationLists(tab) = it[1 .. n]
  <2> HIDE DEF n
  <2>1. h = [s \in SUBSET DOMAIN tab |->
               IF s = {} THEN {<<>>} ELSE Extended(h[s \ {Max(s)}], tab[Max(s)])]
    BY <1>0, <1>4
  <2>2. \E it : /\ it = [s \in SUBSET DOMAIN tab |->
                           IF s = {} THEN {<<>>} ELSE Extended(it[s \ {Max(s)}], tab[Max(s)])]
                /\ ConversationLists(tab) = it[DOMAIN tab]
    BY <2>1 DEF ConversationLists, FoldLeft, MapThenFoldSet
  <2> QED BY <1>0, <2>2
<1> DEFINE Fits(k, list) ==
             /\ list \in Seq(Talks) /\ Len(list) = k
             /\ \A j \in 1 .. k : list[j] \in Conversations(tab[j])
           G == {k \in 0 .. n : \A list \in it[1 .. k] : Fits(k, list)}
<1>6. 0 \in G
  <2>1. it[1 .. 0] = {<<>>}
    <3>1. 1 .. 0 = {} /\ {} \in SUBSET (1 .. n)
      OBVIOUS
    <3> QED BY <1>5, <3>1
  <2>2. Fits(0, <<>>)
    OBVIOUS
  <2> HIDE DEF Fits
  <2> QED BY <1>0, <2>1, <2>2
<1>7. ASSUME NEW k \in 0 .. n - 1, k \in G
      PROVE  k + 1 \in G
  <2>1. k + 1 \in 1 .. n /\ (k + 1) - 1 = k /\ k + 1 \in 0 .. n
    BY <1>0
  <2>2. it[1 .. k + 1] = Extended(it[1 .. k], tab[k + 1])
    <3>1. IsSegment(k + 1, n)
      <4> HIDE DEF n, G
      <4>1. n \in Nat /\ k + 1 \in 1 .. n
        BY <1>0, <2>1
      <4> QED BY <4>1, Segments
    <3>2. it[1 .. k + 1] = Extended(it[(1 .. k + 1) \ {Max(1 .. k + 1)}], tab[Max(1 .. k + 1)])
      BY <1>5, <3>1 DEF IsSegment
    <3> QED BY <2>1, <3>1, <3>2 DEF IsSegment
  <2>3. ASSUME NEW l \in it[1 .. k], NEW c \in Conversations(tab[k + 1])
        PROVE  Fits(k + 1, Append(l, c))
    <3>1. Fits(k, l)
      BY <1>7, <2>3
    <3>2. c \in Talks
      BY <1>0, <2>1, ConversationsOf
    <3>3. Append(l, c) \in Seq(Talks) /\ Len(Append(l, c)) = k + 1
      BY <3>1, <3>2
    <3>4. ASSUME NEW j \in 1 .. k + 1
          PROVE  Append(l, c)[j] \in Conversations(tab[j])
      <4>1. CASE j \in 1 .. k
        BY <3>1, <4>1
      <4>2. CASE j = k + 1
        <5>1. Append(l, c)[k + 1] = c
          BY <3>1
        <5> QED BY <4>2, <5>1
      <4>3. j \in 1 .. k \/ j = k + 1
        BY <2>1
      <4> QED BY <4>1, <4>2, <4>3
    <3> QED BY <3>3, <3>4
  <2>4. \A list \in it[1 .. k + 1] : Fits(k + 1, list)
    <3> SUFFICES ASSUME NEW list \in it[1 .. k + 1]
                 PROVE  Fits(k + 1, list)
      OBVIOUS
    <3>1. PICK l \in it[1 .. k], c \in Conversations(tab[k + 1]) : list = Append(l, c)
      BY <2>2 DEF Extended
    <3> HIDE DEF Fits
    <3> QED BY <2>3, <3>1
  <2> HIDE DEF Fits
  <2> QED BY <2>1, <2>4
<1>8. n \in G
  <2> HIDE DEF G
  <2>1. \A k \in 0 .. n : k \in G
    BY <1>0, <1>6, <1>7, UpTo
  <2> QED BY <1>0, <2>1
<1> QED BY <1>5, <1>8

\* So nothing is added or lost between the table and the conversations.
LEMMA ListsKeepTraffic ==
  ASSUME NEW tab \in Seq(Accumulators), NEW list \in ConversationLists(tab)
  PROVE  /\ list \in Seq(Talks) /\ PacketsOf(list) = PacketsOf(tab)
         /\ WritesOf(list) = WritesOf(tab)
<1>1. /\ list \in Seq(Talks) /\ Len(list) = Len(tab) /\ Len(tab) \in Nat
      /\ \A k \in 1 .. Len(tab) : list[k].packets = tab[k].packets
                                  /\ list[k].writes = tab[k].writes
  <2>1. \A k \in 1 .. Len(tab) : tab[k] \in Accumulators
    OBVIOUS
  <2> QED BY <2>1, ListsOf, ConversationsOf
<1>2. /\ [k \in 1 .. Len(list) |-> list[k].packets] = [k \in 1 .. Len(tab) |-> tab[k].packets]
      /\ [k \in 1 .. Len(list) |-> list[k].writes] = [k \in 1 .. Len(tab) |-> tab[k].writes]
  BY <1>1
<1> QED BY <1>1, <1>2 DEF PacketsOf, WritesOf

\* A merged conversation carries the traffic of both.
LEMMA MergedConversation ==
  ASSUME NEW old \in Talks, NEW new \in Talks
  PROVE  LET c == MergeConversation(old, new)
         IN /\ c \in Talks /\ c.packets = old.packets + new.packets
            /\ c.writes = old.writes + new.writes
<1>1. MergeNested(old.discovery, new.discovery) \in Told
  BY DEF MergeNested, FillIn, Told, Talks
<1>2. Min({old.first, new.first}) \in Nat /\ Max({old.last, new.last}) \in Nat
  BY MinOfTwo, MaxOfTwo DEF Talks
<1>3. /\ FillIn(old.sip, new.sip) \in IPs \cup {None}
      /\ FillIn(old.dip, new.dip) \in IPs \cup {None}
      /\ (IF old.transport = "none" THEN new.transport ELSE old.transport) \in Words
      /\ (old.program \/ new.program) \in BOOLEAN
  BY DEF FillIn, Talks
<1>4. /\ old.packets + new.packets \in Nat /\ old.bytes + new.bytes \in Nat
      /\ old.writes + new.writes \in Nat
  BY DEF Talks
<1> DEFINE c == MergeConversation(old, new)
<1>5. c \in Talks
  <2> DEFINE pk == old.packets + new.packets
             by == old.bytes + new.bytes
             wr == old.writes + new.writes
             fst == Min({old.first, new.first})
             lst == Max({old.last, new.last})
             sip == FillIn(old.sip, new.sip)
             dip == FillIn(old.dip, new.dip)
             tr == IF old.transport = "none" THEN new.transport ELSE old.transport
             pr == old.program \/ new.program
             di == MergeNested(old.discovery, new.discovery)
  <2>1. c = [old EXCEPT !.packets = pk, !.bytes = by, !.writes = wr, !.first = fst,
                        !.last = lst, !.sip = sip, !.dip = dip, !.transport = tr,
                        !.program = pr, !.discovery = di]
    BY DEF MergeConversation
  <2>2. /\ pk \in Nat /\ by \in Nat /\ wr \in Nat /\ fst \in Nat /\ lst \in Nat
        /\ sip \in IPs \cup {None} /\ dip \in IPs \cup {None} /\ tr \in Words
        /\ pr \in BOOLEAN /\ di \in Told
    BY <1>1, <1>2, <1>3, <1>4
  <2> HIDE DEF c, pk, by, wr, fst, lst, sip, dip, tr, pr, di
  <2> QED BY <2>1, <2>2 DEF Talks
<1>6. c.packets = old.packets + new.packets /\ c.writes = old.writes + new.writes
  BY DEF MergeConversation, Talks
<1> QED BY <1>5, <1>6

\* AddConversation: it merges into the first with its identity, or is the last.
LEMMA AddCases ==
  ASSUME NEW list \in Seq(Talks), NEW c
  PROVE  \/ /\ \A n \in DOMAIN list : MergeKey(list[n]) # MergeKey(c)
            /\ AddConversation(list, c) = Append(list, c)
         \/ \E i \in DOMAIN list :
              /\ MergeKey(list[i]) = MergeKey(c)
              /\ AddConversation(list, c) = [list EXCEPT ![i] = MergeConversation(@, c)]
<1> DEFINE I == {i \in 1 .. Len(list) : MergeKey(list[i]) = MergeKey(c)}
<1>1. CASE I = {}
  <2>1. \A n \in DOMAIN list : MergeKey(list[n]) # MergeKey(c)
    BY <1>1
  <2> QED BY <1>1, <2>1 DEF AddConversation, SelectInSeq
<1>2. CASE I # {}
  <2>1. I \in SUBSET Nat /\ I \subseteq DOMAIN list
    OBVIOUS
  <2>2. Min(I) \in I
    <3> HIDE DEF I
    <3> QED BY <1>2, <2>1, MinIsIn
  <2>3. AddConversation(list, c) = [list EXCEPT ![Min(I)] = MergeConversation(@, c)]
    <3>1. Min(I) # 0
      BY <2>2
    <3> QED BY <1>2, <3>1 DEF AddConversation, SelectInSeq
  <2> QED BY <2>1, <2>2, <2>3
<1> QED BY <1>1, <1>2

\* Either way its counts are added.
LEMMA AddConversationAdds ==
  ASSUME NEW list \in Seq(Talks), NEW c \in Talks
  PROVE  LET new == AddConversation(list, c)
         IN /\ new \in Seq(Talks)
            /\ PacketsOf(new) = PacketsOf(list) + c.packets
            /\ WritesOf(new) = WritesOf(list) + c.writes
<1> DEFINE new == AddConversation(list, c)
<1>0. IsCounted(list) /\ c.packets \in Nat /\ c.writes \in Nat
  BY TalksCount DEF Talks
<1>1. CASE new = Append(list, c)
  <2>1. Append(list, c) \in Seq(Talks)
    OBVIOUS
  <2> QED BY <1>0, <1>1, <2>1, SumsOfAppend
<1>2. ASSUME NEW i \in DOMAIN list, new = [list EXCEPT ![i] = MergeConversation(@, c)]
      PROVE  /\ new \in Seq(Talks)
             /\ PacketsOf(new) = PacketsOf(list) + c.packets
             /\ WritesOf(new) = WritesOf(list) + c.writes
  <2> DEFINE a == list[i]
             b == MergeConversation(a, c)
  <2>1. a \in Talks
    OBVIOUS
  <2> HIDE DEF a
  <2>2. b \in Talks /\ b.packets = a.packets + c.packets /\ b.writes = a.writes + c.writes
    BY <2>1, MergedConversation
  <2>3. b.packets \in Nat /\ b.writes \in Nat /\ a.packets \in Nat /\ a.writes \in Nat
    BY <2>1, <2>2 DEF Talks
  <2> HIDE DEF b, new
  <2>4. new = [list EXCEPT ![i] = b]
    BY <1>2 DEF a, b
  <2>5. new \in Seq(Talks)
    BY <2>2, <2>4
  <2>6. /\ PacketsOf(new) + a.packets = PacketsOf(list) + b.packets
        /\ WritesOf(new) + a.writes = WritesOf(list) + b.writes
    BY <1>0, <2>2, <2>3, <2>4, SumsOfReplace DEF a
  <2>7. /\ PacketsOf(list) \in Nat /\ WritesOf(list) \in Nat
        /\ PacketsOf(new) \in Nat /\ WritesOf(new) \in Nat
    BY <1>0, <2>5, SumsTyped, TalksCount
  <2>8. PacketsOf(new) = PacketsOf(list) + c.packets
    <3>1. b.packets = a.packets + c.packets
      BY <2>2
    <3>2. PacketsOf(new) + a.packets = PacketsOf(list) + b.packets
      BY <2>6
    <3>3. b.packets \in Nat /\ a.packets \in Nat /\ c.packets \in Nat
      BY <1>0, <2>3
    <3>4. PacketsOf(list) \in Nat /\ PacketsOf(new) \in Nat
      BY <2>7
    <3> DEFINE x == PacketsOf(new)
               y == PacketsOf(list)
               d == a.packets
               e == b.packets
               z == c.packets
    <3>5. x \in Nat /\ y \in Nat /\ d \in Nat /\ e \in Nat /\ z \in Nat
      BY <3>3, <3>4
    <3>6. x + d = y + e /\ e = d + z
      BY <3>1, <3>2
    <3>7. x = y + z
      <4> HIDE DEF x, y, d, e, z
      <4> QED BY <3>5, <3>6
    <3> QED BY <3>7
  <2>9. WritesOf(new) = WritesOf(list) + c.writes
    <3>1. b.writes = a.writes + c.writes
      BY <2>2
    <3>2. WritesOf(new) + a.writes = WritesOf(list) + b.writes
      BY <2>6
    <3>3. b.writes \in Nat /\ a.writes \in Nat /\ c.writes \in Nat
      BY <1>0, <2>3
    <3>4. WritesOf(list) \in Nat /\ WritesOf(new) \in Nat
      BY <2>7
    <3> DEFINE x == WritesOf(new)
               y == WritesOf(list)
               d == a.writes
               e == b.writes
               z == c.writes
    <3>5. x \in Nat /\ y \in Nat /\ d \in Nat /\ e \in Nat /\ z \in Nat
      BY <3>3, <3>4
    <3>6. x + d = y + e /\ e = d + z
      BY <3>1, <3>2
    <3>7. x = y + z
      <4> HIDE DEF x, y, d, e, z
      <4> QED BY <3>5, <3>6
    <3> QED BY <3>7
  <2> QED BY <2>5, <2>8, <2>9
<1> QED BY <1>1, <1>2, AddCases

\* Prefixes of the merge of a report.
LEMMA MergeFolds ==
  ASSUME NEW list \in Seq(Talks), NEW report \in Seq(Talks)
  PROVE  \E f : /\ f[0] = list /\ f[Len(report)] = FoldLeft(AddConversation, list, report)
                /\ \A k \in 0 .. Len(report) - 1 :
                     f[k + 1] = AddConversation(f[k], report[k + 1])
<1> DEFINE n == Len(report)
           A == Seq(Talks)
           g == [k \in 1 .. n |-> [l \in A |-> AddConversation(l, report[k])]]
<1>0. n \in Nat /\ DOMAIN report = 1 .. n /\ \A k \in 1 .. n : report[k] \in Talks
  OBVIOUS
<1>1. g \in [1 .. n -> [A -> A]]
  <2>1. \A k \in 1 .. n : \A l \in A : AddConversation(l, report[k]) \in A
    BY <1>0, AddConversationAdds
  <2> QED BY <2>1
<1>2. PICK h \in [SUBSET (1 .. n) -> A] : StepsBy(h, n, list, g)
  <2> HIDE DEF A, g, n
  <2>1. list \in A
    BY DEF A
  <2> QED BY <1>0, <1>1, <2>1, FoldExists
<1>3. h = [s \in SUBSET (1 .. n) |->
             IF s = {} THEN list ELSE AddConversation(h[s \ {Max(s)}], report[Max(s)])]
  <2>1. ASSUME NEW s \in SUBSET (1 .. n), s # {}
        PROVE  g[Max(s)][h[s \ {Max(s)}]] = AddConversation(h[s \ {Max(s)}], report[Max(s)])
    <3>1. Max(s) \in 1 .. n
      BY <1>0, <2>1, MaxIsIn
    <3> QED BY <1>2, <3>1
  <2>2. \A s \in SUBSET (1 .. n) :
          h[s] = IF s = {} THEN list ELSE g[Max(s)][h[s \ {Max(s)}]]
    BY <1>2 DEF StepsBy
  <2> HIDE DEF g, n
  <2> QED BY <1>2, <2>1, <2>2
<1>4. PICK it : /\ it = [s \in SUBSET (1 .. n) |->
                           IF s = {} THEN list
                           ELSE AddConversation(it[s \ {Max(s)}], report[Max(s)])]
                /\ FoldLeft(AddConversation, list, report) = it[1 .. n]
  <2> HIDE DEF n
  <2>1. h = [s \in SUBSET DOMAIN report |->
               IF s = {} THEN list ELSE AddConversation(h[s \ {Max(s)}], report[Max(s)])]
    BY <1>0, <1>3
  <2>2. \E it : /\ it = [s \in SUBSET DOMAIN report |->
                           IF s = {} THEN list
                           ELSE AddConversation(it[s \ {Max(s)}], report[Max(s)])]
                /\ FoldLeft(AddConversation, list, report) = it[DOMAIN report]
    BY <2>1 DEF FoldLeft, MapThenFoldSet
  <2> QED BY <1>0, <2>2
<1> DEFINE f == [k \in 0 .. n |-> it[1 .. k]]
<1>5. f[0] = list
  <2>1. 1 .. 0 = {} /\ {} \in SUBSET (1 .. n) /\ 0 \in 0 .. n
    BY <1>0
  <2> QED BY <1>4, <2>1
<1>6. ASSUME NEW k \in 0 .. n - 1
      PROVE  f[k + 1] = AddConversation(f[k], report[k + 1])
  <2>1. k + 1 \in 1 .. n /\ (k + 1) - 1 = k /\ k + 1 \in 0 .. n /\ k \in 0 .. n
    BY <1>0
  <2>2. IsSegment(k + 1, n)
    <3> HIDE DEF n
    <3> QED BY <1>0, <2>1, Segments
  <2>3. it[1 .. k + 1]
          = AddConversation(it[(1 .. k + 1) \ {Max(1 .. k + 1)}], report[Max(1 .. k + 1)])
    BY <1>4, <2>2 DEF IsSegment
  <2>4. it[1 .. k + 1] = AddConversation(it[1 .. k], report[k + 1])
    BY <2>1, <2>2, <2>3 DEF IsSegment
  <2> QED BY <2>1, <2>4
<1>7. f[n] = FoldLeft(AddConversation, list, report)
  <2>1. n \in 0 .. n
    BY <1>0
  <2>2. f[n] = it[1 .. n]
    <3> HIDE DEF n
    <3> QED BY <2>1
  <2> HIDE DEF f
  <2> QED BY <1>4, <2>2
<1> HIDE DEF f
<1> QED BY <1>5, <1>6, <1>7

\* The merge of a report adds its traffic.
LEMMA MergeAdds ==
  ASSUME NEW list \in Seq(Talks), NEW report \in Seq(Talks)
  PROVE  LET new == FoldLeft(AddConversation, list, report)
         IN /\ new \in Seq(Talks)
            /\ PacketsOf(new) = PacketsOf(list) + PacketsOf(report)
            /\ WritesOf(new) = WritesOf(list) + WritesOf(report)
<1> DEFINE n == Len(report)
           A == Seq(Talks)
           p == [k \in 1 .. n |-> report[k].packets]
           w == [k \in 1 .. n |-> report[k].writes]
<1>0. n \in Nat /\ \A k \in 1 .. n : report[k] \in Talks
  OBVIOUS
<1>1. PICK f : /\ f[0] = list /\ f[n] = FoldLeft(AddConversation, list, report)
               /\ \A k \in 0 .. n - 1 : f[k + 1] = AddConversation(f[k], report[k + 1])
  BY MergeFolds
<1> DEFINE Sums(k, l) == /\ l \in A /\ PacketsOf(l) = PacketsOf(list) + SumOf(p, k)
                         /\ WritesOf(l) = WritesOf(list) + SumOf(w, k)
           G == {k \in 0 .. n : Sums(k, f[k])}
<1>5. \A k \in 0 .. n : Weights(p, k) /\ Weights(w, k) /\ k \in Nat
  <2>1. \A k \in 1 .. n : p[k] \in Nat /\ w[k] \in Nat
    BY <1>0 DEF Talks
  <2> HIDE DEF p, w
  <2> QED BY <1>0, <2>1 DEF Weights
<1>6. PacketsOf(list) \in Nat /\ WritesOf(list) \in Nat
  BY SumsTyped, TalksCount
<1>7. 0 \in G
  <2>1. f[0] = list
    BY <1>1
  <2>2. SumOf(p, 0) = 0 /\ SumOf(w, 0) = 0 /\ 0 \in 0 .. n
    <3>1. 0 \in 0 .. n
      BY <1>0
    <3> HIDE DEF p, w, n
    <3> QED BY <1>5, <3>1, SumSteps
  <2>3. Sums(0, list)
    <3> HIDE DEF p, w
    <3> QED BY <1>6, <2>2
  <2> HIDE DEF Sums
  <2> QED BY <2>1, <2>2, <2>3
<1>8. ASSUME NEW k \in 0 .. n - 1, k \in G
      PROVE  k + 1 \in G
  <2>1. k + 1 \in 1 .. n /\ (k + 1) - 1 = k /\ k + 1 \in 0 .. n /\ k + 1 # 0 /\ k \in 0 .. n
    BY <1>0
  <2>2. f[k + 1] = AddConversation(f[k], report[k + 1])
    BY <1>1
  <2> DEFINE l == f[k]
             c == report[k + 1]
             m == AddConversation(l, c)
  <2>3. l \in Seq(Talks) /\ Sums(k, l)
    BY <1>8
  <2>4. c \in Talks /\ p[k + 1] = c.packets /\ w[k + 1] = c.writes
    BY <1>0, <2>1
  <2> HIDE DEF l, c, m, p, w
  <2>5. /\ m \in Seq(Talks) /\ PacketsOf(m) = PacketsOf(l) + c.packets
        /\ WritesOf(m) = WritesOf(l) + c.writes
    BY <2>3, <2>4, AddConversationAdds DEF m
  <2>6. PacketsOf(m) = PacketsOf(list) + SumOf(p, k + 1)
    <3>1. SumOf(p, k + 1) = SumOf(p, k) + p[k + 1]
      <4>1. k + 1 \in Nat /\ Weights(p, k + 1)
        BY <1>5, <2>1
      <4> QED BY <2>1, <4>1, SumSteps
    <3>2. SumOf(p, k) \in Nat /\ c.packets \in Nat /\ PacketsOf(list) \in Nat
      BY <1>5, <1>6, <2>1, <2>4, SumSteps DEF Talks
    <3>3. PacketsOf(m) = PacketsOf(l) + c.packets
      BY <2>5
    <3>4. PacketsOf(l) = PacketsOf(list) + SumOf(p, k) /\ p[k + 1] = c.packets
      BY <2>3, <2>4
    <3> QED BY <3>1, <3>2, <3>3, <3>4
  <2>7. WritesOf(m) = WritesOf(list) + SumOf(w, k + 1)
    <3>1. SumOf(w, k + 1) = SumOf(w, k) + w[k + 1]
      <4>1. k + 1 \in Nat /\ Weights(w, k + 1)
        BY <1>5, <2>1
      <4> QED BY <2>1, <4>1, SumSteps
    <3>2. SumOf(w, k) \in Nat /\ c.writes \in Nat /\ WritesOf(list) \in Nat
      BY <1>5, <1>6, <2>1, <2>4, SumSteps DEF Talks
    <3>3. WritesOf(m) = WritesOf(l) + c.writes
      BY <2>5
    <3>4. WritesOf(l) = WritesOf(list) + SumOf(w, k) /\ w[k + 1] = c.writes
      BY <2>3, <2>4
    <3> QED BY <3>1, <3>2, <3>3, <3>4
  <2>8. Sums(k + 1, f[k + 1])
    BY <2>2, <2>5, <2>6, <2>7 DEF m, l, c
  <2> HIDE DEF Sums
  <2> QED BY <2>1, <2>8
<1>9. n \in G
  <2> HIDE DEF G, n
  <2>1. \A k \in 0 .. n : k \in G
    BY <1>0, <1>7, <1>8, UpTo
  <2> QED BY <1>0, <2>1
<1> QED
  <2>1. SumOf(p, n) = PacketsOf(report) /\ SumOf(w, n) = WritesOf(report)
    BY DEF PacketsOf, WritesOf
  <2>2. Sums(n, f[n])
    BY <1>9
  <2> HIDE DEF p, w, n
  <2> QED BY <1>1, <2>1, <2>2

-----------------------------------------------------------------------------
(* Events, the packets that carry a write, and the Bronze adapter.          *)

\* The port of a service is a number.
LEMMA ServicePortTyped ==
  ASSUME NEW p \in Packets
  PROVE  ServicePort(p) \in Nat
<1>1. p.dport \in Nat /\ p.sport \in Nat
  BY PacketTyped
<1> QED BY <1>1 DEF ServicePort

\* The key of an event, and its packet with the initiator first.
LEMMA EventTyped ==
  ASSUME NEW p \in Packets
  PROVE  LET e == BronzeEvent(p)
         IN /\ e.key \in Keys /\ e.key[3] \in Words /\ e.key[4] \in Nat
            /\ e.packet \in Packets /\ e.packet.write = p.write
<1> DEFINE U == Words \cup Nat \cup IPs \cup MACs \cup {None}
<1>0. /\ p.smac \in U /\ p.dmac \in U /\ p.proto \in U /\ "l2" \in U /\ 0 \in U
      /\ p.transport \in U /\ ServicePort(p) \in U /\ p.proto \in Words
      /\ ServicePort(p) \in Nat
  BY PacketTyped, ServicePortTyped DEF Words
<1>1. CASE p.discovery # NoDiscovery
  <2> DEFINE q == [p EXCEPT !.sip = None, !.dip = None, !.discovery.mgmt = None]
  <2>1. q \in Packets /\ q.write = p.write
    BY DEF Packets, Discovery
  <2> HIDE DEF q, U
  <2>2. BronzeEvent(p) = [key |-> <<p.smac, p.dmac, p.proto, 0, "l2">>, packet |-> q]
    BY <1>1 DEF BronzeEvent, q
  <2>3. <<p.smac, p.dmac, p.proto, 0, "l2">> \in Seq(U)
    BY <1>0
  <2> QED BY <1>0, <2>1, <2>2, <2>3 DEF Keys, U
<1>2. CASE p.discovery = NoDiscovery
  <2> DEFINE q == Normalized(p)
  <2>1. q \in Packets /\ q.write = p.write
    BY DEF Normalized, Packets
  <2> HIDE DEF q, U
  <2>2. BronzeEvent(p) =
          [key |-> <<q.smac, q.dmac, p.proto, ServicePort(p), q.sip, q.dip, p.transport>>,
           packet |-> q]
    BY <1>2 DEF BronzeEvent, q
  <2>3. q.smac \in U /\ q.dmac \in U /\ q.sip \in U /\ q.dip \in U
    BY <2>1, PacketTyped DEF U
  <2>4. <<q.smac, q.dmac, p.proto, ServicePort(p), q.sip, q.dip, p.transport>> \in Seq(U)
    BY <1>0, <2>3
  <2> QED BY <1>0, <2>1, <2>2, <2>4 DEF Keys, U
<1> QED BY <1>1, <1>2

\* What the assumption on the captures says of the one that is read.
LEMMA CaptureTyped ==
  ASSUME capture \in Captures
  PROVE  /\ Len(capture) \in Nat /\ DOMAIN capture = 1 .. Len(capture)
         /\ \A i \in 1 .. Len(capture) : capture[i] \in Packets /\ Stamp(i) \in Nat
<1>1. capture \in Seq(Packets) /\ \A i \in DOMAIN capture : TextRank[i] \in Nat
  BY CapturesAreTraffic
<1> QED BY <1>1 DEF Stamp

\* The packets with a write that a run delivers, up to the n-th.
Delivers(i) == capture[i].write /\ (cli.request = "python" => ~Skippable(capture[i]))
Written(n) == {i \in 1 .. n : Delivers(i)}

\* Their number grows by one or stays, as the next packet tells.
LEMMA WrittenGrows ==
  ASSUME NEW n \in Nat
  PROVE  /\ IsFiniteSet(Written(n)) /\ Cardinality(Written(n)) \in Nat
         /\ Cardinality(Written(0)) = 0
         /\ Cardinality(Written(n + 1))
              = Cardinality(Written(n)) + Bit(Delivers(n + 1))
<1>1. IsFiniteSet(Written(n)) /\ Cardinality(Written(n)) \in Nat
  <2>1. Written(n) \subseteq 1 .. n
    BY DEF Written
  <2>2. IsFiniteSet(1 .. n)
    BY FS_Interval
  <2> QED BY <2>1, <2>2, FS_Subset, FS_CardinalityType
<1>2. Cardinality(Written(0)) = 0
  <2>1. Written(0) = {}
    BY DEF Written
  <2> QED BY <2>1, FS_EmptySet
<1>3. CASE Delivers(n + 1)
  <2>1. Written(n + 1) = Written(n) \cup {n + 1} /\ n + 1 \notin Written(n)
    BY <1>3 DEF Written
  <2> QED BY <1>1, <1>2, <1>3, <2>1, FS_AddElement DEF Bit
<1>4. CASE ~Delivers(n + 1)
  <2>1. Written(n + 1) = Written(n)
    BY <1>4 DEF Written
  <2> QED BY <1>1, <1>2, <1>4, <2>1 DEF Bit
<1> QED BY <1>3, <1>4

\* The adapter takes every packet of the piece.
LEMMA BronzeAdds ==
  ASSUME capture \in Captures, NEW first \in Nat \ {0}, NEW last \in Nat,
         first <= last, last <= Len(capture)
  PROVE  LET new == BronzeTable(first, last)
         IN /\ new \in Seq(Accumulators)
            /\ PacketsOf(new) = last - first + 1
            /\ cli.request # "python" =>
                 WritesOf(new) + Cardinality(Written(first - 1)) = Cardinality(Written(last))
<1> DEFINE n == last - first + 1
           s == [k \in 1 .. n |-> first + k - 1]
           A == Seq(Accumulators)
           g == [k \in 1 .. n |-> [l \in A |-> AddEvent(l, s[k])]]
<1>0. n \in Nat /\ DOMAIN s = 1 .. n /\ \A k \in 1 .. n : s[k] = first + k - 1
  OBVIOUS
<1>1. ASSUME NEW k \in 1 .. n, NEW l \in A
      PROVE  /\ AddEvent(l, s[k]) \in A
             /\ PacketsOf(AddEvent(l, s[k])) = PacketsOf(l) + 1
             /\ WritesOf(AddEvent(l, s[k])) = WritesOf(l) + Bit(capture[s[k]].write)
  <2>1. s[k] \in 1 .. Len(capture)
    BY <1>0
  <2> HIDE DEF s
  <2>2. capture[s[k]] \in Packets /\ Stamp(s[k]) \in Nat
    BY <2>1, CaptureTyped
  <2> DEFINE e == BronzeEvent(capture[s[k]])
  <2>3. /\ e.key \in Keys /\ e.key[3] \in Words /\ e.key[4] \in Nat
        /\ e.packet \in Packets /\ e.packet.write = capture[s[k]].write
    BY <2>2, EventTyped
  <2>4. AddEvent(l, s[k]) = Upsert(l, e.key, e.packet, Stamp(s[k]))
    BY DEF AddEvent
  <2> DEFINE key == e.key
             pkt == e.packet
             st == Stamp(s[k])
             new == Upsert(l, key, pkt, st)
  <2>5. /\ key \in Keys /\ key[3] \in Words /\ key[4] \in Nat /\ pkt \in Packets
        /\ st \in Nat /\ l \in Seq(Accumulators)
    BY <2>2, <2>3
  <2>6. /\ new \in Seq(Accumulators) /\ PacketsOf(new) = PacketsOf(l) + 1
        /\ WritesOf(new) = WritesOf(l) + Bit(pkt.write)
    <3> HIDE DEF key, pkt, st, e, A
    <3> QED BY <2>5, UpsertAdds
  <2>7. AddEvent(l, s[k]) = new /\ pkt.write = capture[s[k]].write
    BY <2>3, <2>4
  <2> HIDE DEF new, pkt, e
  <2> QED BY <2>6, <2>7
<1>2. g \in [1 .. n -> [A -> A]]
  BY <1>1
<1>3. PICK h \in [SUBSET (1 .. n) -> A] : StepsBy(h, n, <<>>, g)
  <2>1. <<>> \in A
    OBVIOUS
  <2> HIDE DEF A, g, n
  <2> QED BY <1>0, <1>2, <2>1, FoldExists
<1>4. h = [x \in SUBSET (1 .. n) |->
             IF x = {} THEN <<>> ELSE AddEvent(h[x \ {Max(x)}], s[Max(x)])]
  <2>1. ASSUME NEW x \in SUBSET (1 .. n), x # {}
        PROVE  g[Max(x)][h[x \ {Max(x)}]] = AddEvent(h[x \ {Max(x)}], s[Max(x)])
    <3>1. Max(x) \in 1 .. n
      BY <1>0, <2>1, MaxIsIn
    <3> HIDE DEF s
    <3> QED BY <1>3, <3>1
  <2>2. \A x \in SUBSET (1 .. n) :
          h[x] = IF x = {} THEN <<>> ELSE g[Max(x)][h[x \ {Max(x)}]]
    BY <1>3 DEF StepsBy
  <2> HIDE DEF g, n, s
  <2> QED BY <1>3, <2>1, <2>2
<1>5. PICK it : /\ it = [x \in SUBSET (1 .. n) |->
                           IF x = {} THEN <<>> ELSE AddEvent(it[x \ {Max(x)}], s[Max(x)])]
                /\ BronzeTable(first, last) = it[1 .. n]
  <2>1. BronzeTable(first, last) = FoldLeft(AddEvent, <<>>, s)
    BY DEF BronzeTable
  <2> HIDE DEF n, s
  <2>2. h = [x \in SUBSET DOMAIN s |->
               IF x = {} THEN <<>> ELSE AddEvent(h[x \ {Max(x)}], s[Max(x)])]
    BY <1>0, <1>4
  <2>3. \E it : /\ it = [x \in SUBSET DOMAIN s |->
                           IF x = {} THEN <<>> ELSE AddEvent(it[x \ {Max(x)}], s[Max(x)])]
                /\ FoldLeft(AddEvent, <<>>, s) = it[DOMAIN s]
    BY <2>2 DEF FoldLeft, MapThenFoldSet
  <2> QED BY <1>0, <2>1, <2>3
<1> DEFINE Sums(k, l) ==
             /\ l \in A /\ PacketsOf(l) = k
             /\ cli.request # "python" =>
                  WritesOf(l) + Cardinality(Written(first - 1))
                    = Cardinality(Written(first - 1 + k))
           G == {k \in 0 .. n : Sums(k, it[1 .. k])}
<1>6. 0 \in G
  <2>1. it[1 .. 0] = <<>>
    <3>1. 1 .. 0 = {} /\ {} \in SUBSET (1 .. n)
      OBVIOUS
    <3> HIDE DEF s
    <3> QED BY <1>5, <3>1
  <2>2. <<>> \in A
    OBVIOUS
  <2>3. PacketsOf(<<>>) = 0 /\ WritesOf(<<>>) = 0
    BY <2>2, SumsTyped, TablesCount
  <2>4. first - 1 + 0 = first - 1 /\ first - 1 \in Nat
    OBVIOUS
  <2>5. Cardinality(Written(first - 1)) \in Nat
    BY <2>4, WrittenGrows
  <2>6. 0 + Cardinality(Written(first - 1)) = Cardinality(Written(first - 1))
    BY <2>5
  <2>7. Sums(0, <<>>)
    BY <2>2, <2>3, <2>4, <2>6
  <2> HIDE DEF Sums
  <2> QED BY <1>0, <2>1, <2>7
<1>7. ASSUME NEW k \in 0 .. n - 1, k \in G
      PROVE  k + 1 \in G
  <2>1. /\ k + 1 \in 1 .. n /\ (k + 1) - 1 = k /\ k + 1 \in 0 .. n /\ k \in Nat
        /\ s[k + 1] = (first - 1 + k) + 1 /\ first - 1 + k \in Nat
        /\ first - 1 + (k + 1) = (first - 1 + k) + 1
    BY <1>0
  <2>2. it[1 .. k + 1] = AddEvent(it[1 .. k], s[k + 1])
    <3>1. IsSegment(k + 1, n)
      <4> HIDE DEF n, G
      <4>1. n \in Nat /\ k + 1 \in 1 .. n
        BY <1>0, <2>1
      <4> QED BY <4>1, Segments
    <3> HIDE DEF s
    <3>2. it[1 .. k + 1]
            = AddEvent(it[(1 .. k + 1) \ {Max(1 .. k + 1)}], s[Max(1 .. k + 1)])
      BY <1>5, <3>1 DEF IsSegment
    <3> QED BY <2>1, <3>1, <3>2 DEF IsSegment
  <2> DEFINE l == it[1 .. k]
             m == AddEvent(l, s[k + 1])
             j == first - 1 + k
  <2>3. l \in A /\ Sums(k, l)
    BY <1>7
  <2> HIDE DEF l, s
  <2>4. /\ m \in A /\ PacketsOf(m) = PacketsOf(l) + 1
        /\ WritesOf(m) = WritesOf(l) + Bit(capture[s[k + 1]].write)
    BY <1>1, <2>1, <2>3
  <2> HIDE DEF m
  <2>5. PacketsOf(m) = k + 1
    BY <2>3, <2>4
  <2>6. ASSUME cli.request # "python"
        PROVE  WritesOf(m) + Cardinality(Written(first - 1))
                 = Cardinality(Written(first - 1 + (k + 1)))
    <3> DEFINE base == Cardinality(Written(first - 1))
               old == Cardinality(Written(j))
               bit == Bit(Delivers(j + 1))
               wm == WritesOf(m)
               wl == WritesOf(l)
    <3>1. Cardinality(Written(j + 1)) = old + bit
      BY <2>1, WrittenGrows
    <3>2. base \in Nat /\ old \in Nat
      <4>1. first - 1 \in Nat
        OBVIOUS
      <4> QED BY <2>1, <4>1, WrittenGrows
    <3>3. bit \in Nat /\ wl \in Nat
      BY <2>3, SumsTyped, TablesCount DEF Bit
    <3>4. wl + base = old
      BY <2>3, <2>6
    <3>5. wm = wl + bit
      <4>1. Delivers(j + 1) <=> capture[s[k + 1]].write
        BY <2>1, <2>6 DEF Delivers
      <4> QED BY <2>4, <4>1 DEF Bit
    <3>6. wm + base = old + bit
      <4> HIDE DEF base, old, bit, wm, wl
      <4> QED BY <3>2, <3>3, <3>4, <3>5
    <3> HIDE DEF base, old, bit, wm, wl
    <3> QED BY <2>1, <3>1, <3>6 DEF base, wm
  <2>7. Sums(k + 1, it[1 .. k + 1])
    BY <2>2, <2>4, <2>5, <2>6 DEF m, l
  <2> HIDE DEF Sums
  <2> QED BY <2>1, <2>7
<1>8. n \in G
  <2> HIDE DEF G, n
  <2>1. \A k \in 0 .. n : k \in G
    BY <1>0, <1>6, <1>7, UpTo
  <2> QED BY <1>0, <2>1
<1>9. first - 1 + n = last
  OBVIOUS
<1>10. Sums(n, it[1 .. n])
  BY <1>8
<1> QED BY <1>5, <1>9, <1>10

-----------------------------------------------------------------------------
(* The inductive invariant.                                                 *)

DissectionTypes ==
  /\ capture \in Captures /\ cli \in CommandLines
  /\ dpi \in {"none", "python", "bronze"} /\ faults \in Nat
  /\ start \in Nat /\ pos \in 0 .. Len(capture) /\ skipped \in Nat
  /\ table \in Seq(Accumulators) /\ convs \in Seq(Talks) /\ reports \in Seq(Seq(Talks))

\* What each piece and each phase starts with.
Progress ==
  /\ dpi = "none" => table = <<>> /\ DOMAIN pairPorts = {}
  /\ dpi = "bronze" /\ pos < PieceEnd => table = <<>>
  /\ dpi # "none" => dpi \in used
  /\ phase = "read" => convs = <<>>
  /\ phase \in {"merge", "dissected"} => pos = Len(capture) /\ used # {}
  /\ phase = "merge" => cli.mode = "files"
  /\ phase = "dissected" \/ cli.mode # "files" => reports = <<>>

\* Where the traffic read so far is.
PacketsIn(rs) == SumOf([k \in 1 .. Len(rs) |-> PacketsOf(rs[k])], Len(rs))
WritesIn(rs) == SumOf([k \in 1 .. Len(rs) |-> WritesOf(rs[k])], Len(rs))
ReportedPackets == PacketsIn(reports)
ReportedWrites == WritesIn(reports)
PacketsHeld == IF phase = "read" THEN PacketsOf(table) ELSE PacketsOf(convs)
WritesHeld == IF phase = "read" THEN WritesOf(table) ELSE WritesOf(convs)

Reader == IF cli.request = "python" THEN "python" ELSE "bronze"

Accounting ==
  faults = 0 =>
    /\ used \subseteq {Reader}
    /\ PacketsHeld + ReportedPackets + skipped = pos
    /\ WritesHeld + ReportedWrites = Cardinality(Written(pos))

PairOf(a) == <<a.smac, a.dmac, a.transport>>
TablePorts(pair) ==
  {table[n].port : n \in {k \in DOMAIN table : PairOf(table[k]) = pair /\ table[k].port > 0}}

\* A port with a conversation of its own has been counted.
PortsAreCounted ==
  dpi = "python" =>
    /\ \A n \in DOMAIN table : /\ table[n].smac = table[n].key[1]
                               /\ table[n].dmac = table[n].key[2]
                               /\ table[n].port = table[n].key[4]
    /\ cli.threshold > 0 =>
         /\ \A pair \in DOMAIN pairPorts : pair[3] # "none" /\ IsFiniteSet(pairPorts[pair])
         /\ \A n \in DOMAIN table :
              table[n].port > 0 /\ table[n].transport # "none" =>
                /\ PairOf(table[n]) \in DOMAIN pairPorts
                /\ table[n].port \in pairPorts[PairOf(table[n])]

IInv == DissectionTypes /\ Progress /\ Accounting /\ PortsAreCounted /\ ScansCollapse

-----------------------------------------------------------------------------
(* The steps of Stage 2.                                                    *)

\* What the assumption on the command lines says of this one.
LEMMA CliTyped ==
  ASSUME cli \in CommandLines
  PROVE  /\ cli.size \in Nat \ {0} /\ cli.threshold \in Nat
         /\ cli.mode \in {"whole", "ranges", "files"}
BY CommandLinesAreWellFormed DEF IsCommandLine

\* Pieces end within the capture, and only a file ends before it does.
LEMMA PieceEndIs ==
  ASSUME DissectionTypes
  PROVE  /\ PieceEnd \in Nat /\ PieceEnd <= Len(capture)
         /\ cli.mode # "files" => PieceEnd = Len(capture)
<1>1. Len(capture) \in Nat /\ start \in Nat /\ cli.size \in Nat
  BY CaptureTyped, CliTyped DEF DissectionTypes
<1>2. Min({Len(capture), start + cli.size}) =
        IF Len(capture) <= start + cli.size THEN Len(capture) ELSE start + cli.size
  BY <1>1, MinOfTwo
<1> QED BY <1>1, <1>2 DEF PieceEnd

\* A range of packets ends within its piece.
LEMMA RangeEndIs ==
  ASSUME DissectionTypes
  PROVE  RangeEnd \in Nat /\ RangeEnd <= PieceEnd
<1>1. pos \in Nat /\ cli.size \in Nat \ {0} /\ PieceEnd \in Nat
  BY PieceEndIs, CaptureTyped, CliTyped DEF DissectionTypes
<1> DEFINE q == pos \div cli.size
           e == (q + 1) * cli.size
<1>2. q \in Nat
  BY <1>1
<1>3. e \in Nat
  <2> HIDE DEF q
  <2> QED BY <1>1, <1>2
<1>4. RangeEnd = Min({PieceEnd, e})
  BY DEF RangeEnd
<1> HIDE DEF e
<1> QED BY <1>1, <1>3, <1>4, MinOfTwo

\* The next packet.
LEMMA NextPacket ==
  ASSUME DissectionTypes, pos < PieceEnd
  PROVE  /\ pos \in Nat /\ pos + 1 \in 1 .. Len(capture)
         /\ capture[pos + 1] \in Packets /\ Stamp(pos + 1) \in Nat
<1>1. pos \in Nat /\ Len(capture) \in Nat /\ PieceEnd \in Nat /\ PieceEnd <= Len(capture)
  BY PieceEndIs, CaptureTyped DEF DissectionTypes
<1> QED BY <1>1, CaptureTyped DEF DissectionTypes

\* The key that tshark gives a packet names its addresses.
LEMMA TsharkKeyTyped ==
  ASSUME NEW p \in Packets, NEW ports
  PROVE  LET key == TsharkKey(ports, p)
         IN /\ key \in Keys /\ key[3] \in Words /\ key[4] \in Nat
            /\ key[1] = p.smac /\ key[2] = p.dmac
<1> DEFINE U == Words \cup Nat \cup IPs \cup MACs \cup {None}
<1>1. /\ p.smac \in U /\ p.dmac \in U /\ p.proto \in U /\ p.dport \in U /\ "Port Scan" \in U
      /\ 0 \in U /\ p.proto \in Words /\ p.dport \in Nat /\ "Port Scan" \in Words
  BY PacketTyped DEF Words
<1> HIDE DEF U
<1>2. <<p.smac, p.dmac, "Port Scan", 0>> \in Seq(U)
  BY <1>1, FourTuple
<1>3. <<p.smac, p.dmac, p.proto, p.dport>> \in Seq(U)
  BY <1>1, FourTuple
<1> QED BY <1>1, <1>2, <1>3 DEF TsharkKey, Keys, U

\* A packet that tshark delivers is counted once.
LEMMA TsharkUpserts ==
  ASSUME DissectionTypes, pos < PieceEnd
  PROVE  LET p == capture[pos + 1]
             new == Upsert(table, TsharkKey(pairPorts, p), p, Stamp(pos + 1))
         IN /\ new \in Seq(Accumulators)
            /\ PacketsOf(new) = PacketsOf(table) + 1
            /\ WritesOf(new) = WritesOf(table) + Bit(p.write)
<1> DEFINE p == capture[pos + 1]
           key == TsharkKey(pairPorts, p)
           st == Stamp(pos + 1)
<1>1. p \in Packets /\ st \in Nat /\ table \in Seq(Accumulators)
  BY NextPacket DEF DissectionTypes
<1> HIDE DEF p, st
<1>2. key \in Keys /\ key[3] \in Words /\ key[4] \in Nat
  BY <1>1, TsharkKeyTyped
<1> HIDE DEF key
<1>3. LET new == Upsert(table, key, p, st)
      IN /\ new \in Seq(Accumulators)
         /\ PacketsOf(new) = PacketsOf(table) + 1
         /\ WritesOf(new) = WritesOf(table) + Bit(p.write)
  BY <1>1, <1>2, UpsertAdds
<1> QED BY <1>3 DEF p, key, st

\* What ReadBronze writes.
LEMMA BronzeReads ==
  ASSUME DissectionTypes, pos < PieceEnd
  PROVE  LET new == BronzeTable(pos + 1, PieceEnd)
         IN /\ new \in Seq(Accumulators)
            /\ PacketsOf(new) + pos = PieceEnd
            /\ cli.request # "python" =>
                 WritesOf(new) + Cardinality(Written(pos)) = Cardinality(Written(PieceEnd))
<1>1. /\ pos \in Nat /\ PieceEnd \in Nat /\ PieceEnd <= Len(capture) /\ Len(capture) \in Nat
      /\ capture \in Captures
  BY PieceEndIs, CaptureTyped DEF DissectionTypes
<1> DEFINE first == pos + 1
           last == PieceEnd
           new == BronzeTable(first, last)
<1>2. /\ first \in Nat \ {0} /\ last \in Nat /\ first <= last /\ last <= Len(capture)
      /\ first - 1 = pos
  BY <1>1
<1> HIDE DEF first, last
<1>3. /\ new \in Seq(Accumulators)
      /\ PacketsOf(new) = last - first + 1
      /\ cli.request # "python" =>
           WritesOf(new) + Cardinality(Written(first - 1)) = Cardinality(Written(last))
  BY <1>1, <1>2, BronzeAdds
<1>4. PacketsOf(new) + pos = last
  <2>1. last - first + 1 + pos = last
    BY <1>1, <1>2
  <2>2. PacketsOf(new) = last - first + 1
    BY <1>3
  <2> HIDE DEF new
  <2> QED BY <2>1, <2>2
<1>5. cli.request # "python" =>
        WritesOf(new) + Cardinality(Written(pos)) = Cardinality(Written(last))
  BY <1>2, <1>3
<1> QED BY <1>3, <1>4, <1>5 DEF first, last

\* What the next stage, or a report, gets of the table.
LEMMA Lists ==
  ASSUME DissectionTypes, NEW list \in ConversationLists(table)
  PROVE  /\ list \in Seq(Talks) /\ PacketsOf(list) = PacketsOf(table)
         /\ WritesOf(list) = WritesOf(table)
BY ListsKeepTraffic DEF DissectionTypes

\* What the merge makes of the next report.
LEMMA Merges ==
  ASSUME DissectionTypes, reports # <<>>
  PROVE  LET new == FoldLeft(AddConversation, convs, Head(reports))
         IN /\ Head(reports) \in Seq(Talks) /\ Tail(reports) \in Seq(Seq(Talks))
            /\ new \in Seq(Talks)
            /\ PacketsOf(new) = PacketsOf(convs) + PacketsOf(Head(reports))
            /\ WritesOf(new) = WritesOf(convs) + WritesOf(Head(reports))
<1>1. Head(reports) \in Seq(Talks) /\ Tail(reports) \in Seq(Seq(Talks)) /\ convs \in Seq(Talks)
  BY DEF DissectionTypes
<1> QED BY <1>1, MergeAdds

\* Every step of Stage 2 keeps the types ...
LEMMA TypesStep ==
  ASSUME IInv, DissectionNext
  PROVE  DissectionTypes'
<1> USE DEF IInv
<1>0. Len(capture) \in Nat /\ PieceEnd \in 0 .. Len(capture) /\ DissectionTypes
  BY PieceEndIs, CaptureTyped DEF DissectionTypes
<1>1. ASSUME NEW engine \in {"python", "bronze"}, Choose(engine),
             faults' = faults \/ faults' = faults + 1
      PROVE  DissectionTypes'
  BY <1>1 DEF Choose, given, layer2, DissectionTypes
<1>2. CASE DpiFails
  BY <1>2 DEF DpiFails, given, layer2, DissectionTypes
<1>3. CASE TsharkPacket
  <2>1. table' \in Seq(Accumulators) /\ skipped' \in Nat
    <3>1. CASE Skippable(capture[pos + 1])
      BY <1>3, <3>1 DEF TsharkPacket, DissectionTypes
    <3>2. CASE ~Skippable(capture[pos + 1])
      BY <1>3, <3>2, TsharkUpserts DEF TsharkPacket, DissectionTypes
    <3> QED BY <3>1, <3>2
  <2>2. pos' \in 0 .. Len(capture)
    BY <1>0, <1>3, NextPacket DEF TsharkPacket
  <2>3. UNCHANGED <<given, dpi, faults, start, reports, convs>>
    BY <1>3 DEF TsharkPacket
  <2> QED BY <2>1, <2>2, <2>3 DEF given, DissectionTypes
<1>4. CASE TsharkDies
  <2>1. RangeEnd \in 0 .. Len(capture)
    BY <1>0, RangeEndIs
  <2> QED BY <1>0, <1>4, <2>1 DEF TsharkDies, given, layer2, DissectionTypes
<1>5. CASE ReadBronze
  <2>1. table' \in Seq(Accumulators) /\ pos' \in 0 .. Len(capture)
    BY <1>0, <1>5, BronzeReads DEF ReadBronze
  <2> QED BY <1>5, <2>1 DEF ReadBronze, given, layer2, DissectionTypes
<1>6. CASE FinishFile
  <2>1. convs' \in Seq(Talks)
    BY <1>6, Lists DEF FinishFile
  <2> QED BY <1>6, <2>1 DEF FinishFile, given, layer2, DissectionTypes
<1>7. CASE FinishChunk
  <2>1. PICK list \in ConversationLists(table) : reports' = Append(reports, list)
    BY <1>7 DEF FinishChunk
  <2>2. reports' \in Seq(Seq(Talks))
    BY <2>1, Lists DEF DissectionTypes
  <2>3. table' \in Seq(Accumulators) /\ start' \in Nat
    BY <1>0, <1>7 DEF FinishChunk, DissectionTypes
  <2> QED BY <1>7, <2>2, <2>3 DEF FinishChunk, given, DissectionTypes
<1>8. CASE MergeReport
  <2>1. convs' \in Seq(Talks) /\ reports' \in Seq(Seq(Talks))
    BY <1>8, Merges DEF MergeReport, DissectionTypes
  <2> QED BY <1>8, <2>1 DEF MergeReport, given, layer2, DissectionTypes
<1>9. UsePython \/ UseBronze \/ FallBack =>
        /\ \E engine \in {"python", "bronze"} : Choose(engine)
        /\ faults' = faults \/ faults' = faults + 1
  BY DEF UsePython, UseBronze, FallBack
<1> QED BY <1>1, <1>2, <1>3, <1>4, <1>5, <1>6, <1>7, <1>8, <1>9 DEF DissectionNext

\* ... and what pieces and phases start with.
LEMMA ProgressStep ==
  ASSUME IInv, DissectionNext
  PROVE  Progress'
<1> USE DEF IInv
<1>0. /\ Len(capture) \in Nat /\ PieceEnd \in Nat /\ PieceEnd <= Len(capture)
      /\ cli.mode # "files" => PieceEnd = Len(capture)
      /\ pos \in Nat /\ pos <= Len(capture)
  BY PieceEndIs, CaptureTyped DEF DissectionTypes
<1>1. ASSUME NEW engine \in {"python", "bronze"}, Choose(engine)
      PROVE  Progress'
  BY <1>1 DEF Choose, given, layer2, Progress, PieceEnd
<1>2. CASE DpiFails
  BY <1>2 DEF DpiFails, given, layer2, Progress, PieceEnd
<1>3. CASE TsharkPacket
  <2>1. UNCHANGED <<cli, capture, dpi, used, start, reports, phase, convs>> /\ phase = "read"
        /\ dpi = "python"
    BY <1>3 DEF TsharkPacket, given
  <2> QED BY <2>1 DEF Progress
<1>4. CASE TsharkDies
  <2>1. UNCHANGED <<cli, capture, dpi, used, start, reports, phase, convs, table, pairPorts>>
        /\ phase = "read" /\ dpi = "python"
    BY <1>4 DEF TsharkDies, given
  <2> QED BY <2>1 DEF Progress
<1>5. CASE ReadBronze
  <2>1. UNCHANGED <<cli, capture, dpi, used, start, reports, phase, convs>> /\ phase = "read"
        /\ dpi = "bronze" /\ pos' = PieceEnd
    BY <1>5 DEF ReadBronze, given
  <2>2. PieceEnd' = PieceEnd
    BY <2>1 DEF PieceEnd
  <2> QED BY <1>0, <2>1, <2>2 DEF Progress
<1>6. CASE FinishFile
  <2>1. UNCHANGED <<cli, capture, dpi, used, start, pos, reports, table, pairPorts>>
        /\ phase' = "dissected" /\ dpi # "none" /\ pos = PieceEnd /\ cli.mode # "files"
    BY <1>6 DEF FinishFile, given
  <2>2. PieceEnd' = PieceEnd
    BY <2>1 DEF PieceEnd
  <2> QED BY <1>0, <2>1, <2>2 DEF Progress
<1>7. CASE FinishChunk
  <2>1. UNCHANGED <<cli, capture, used, pos, convs>> /\ dpi' = "none" /\ table' = <<>>
        /\ DOMAIN pairPorts' = {} /\ dpi # "none" /\ cli.mode = "files" /\ phase = "read"
        /\ phase' = IF pos = Len(capture) THEN "merge" ELSE "read"
    BY <1>7 DEF FinishChunk, given
  <2> QED BY <2>1 DEF Progress
<1>8. CASE MergeReport
  <2>1. UNCHANGED <<cli, capture, dpi, used, start, pos, table, pairPorts>>
        /\ phase = "merge" /\ phase' \in {"merge", "dissected"}
        /\ (phase' = "dissected" => reports' = <<>>)
    BY <1>8 DEF MergeReport, given
  <2>2. PieceEnd' = PieceEnd
    BY <2>1 DEF PieceEnd
  <2> QED BY <2>1, <2>2 DEF Progress
<1>9. UsePython \/ UseBronze \/ FallBack => \E engine \in {"python", "bronze"} : Choose(engine)
  BY DEF UsePython, UseBronze, FallBack
<1> QED BY <1>1, <1>2, <1>3, <1>4, <1>5, <1>6, <1>7, <1>8, <1>9 DEF DissectionNext

\* What reports hold is a number, and nothing when there is none.
LEMMA ReportsTyped ==
  ASSUME NEW rs \in Seq(Seq(Talks))
  PROVE  /\ PacketsIn(rs) \in Nat /\ WritesIn(rs) \in Nat
         /\ rs = <<>> => PacketsIn(rs) = 0 /\ WritesIn(rs) = 0
<1> DEFINE n == Len(rs)
           v == [k \in 1 .. n |-> PacketsOf(rs[k])]
           w == [k \in 1 .. n |-> WritesOf(rs[k])]
<1>1. n \in Nat /\ (rs = <<>> => n = 0)
  OBVIOUS
<1>2. \A k \in 1 .. n : PacketsOf(rs[k]) \in Nat /\ WritesOf(rs[k]) \in Nat
  <2>1. \A k \in 1 .. n : rs[k] \in Seq(Talks)
    OBVIOUS
  <2> QED BY <2>1, SumsTyped, TalksCount
<1>3. Weights(v, n) /\ Weights(w, n)
  BY <1>2 DEF Weights
<1>4. PacketsIn(rs) = SumOf(v, n) /\ WritesIn(rs) = SumOf(w, n)
  BY DEF PacketsIn, WritesIn
<1> HIDE DEF v, w, n
<1> QED BY <1>1, <1>3, <1>4, SumSteps

\* All the sums of Accounting are numbers.
LEMMA HeldTyped ==
  ASSUME DissectionTypes
  PROVE  /\ PacketsOf(table) \in Nat /\ WritesOf(table) \in Nat
         /\ PacketsOf(convs) \in Nat /\ WritesOf(convs) \in Nat
         /\ ReportedPackets \in Nat /\ ReportedWrites \in Nat
         /\ table = <<>> => PacketsOf(table) = 0 /\ WritesOf(table) = 0
         /\ convs = <<>> => PacketsOf(convs) = 0 /\ WritesOf(convs) = 0
         /\ reports = <<>> => ReportedPackets = 0 /\ ReportedWrites = 0
<1>1. /\ PacketsOf(table) \in Nat /\ WritesOf(table) \in Nat
      /\ table = <<>> => PacketsOf(table) = 0 /\ WritesOf(table) = 0
  BY SumsTyped, TablesCount DEF DissectionTypes
<1>2. /\ PacketsOf(convs) \in Nat /\ WritesOf(convs) \in Nat
      /\ convs = <<>> => PacketsOf(convs) = 0 /\ WritesOf(convs) = 0
  BY SumsTyped, TalksCount DEF DissectionTypes
<1>3. /\ ReportedPackets \in Nat /\ ReportedWrites \in Nat
      /\ reports = <<>> => ReportedPackets = 0 /\ ReportedWrites = 0
  BY ReportsTyped DEF DissectionTypes, ReportedPackets, ReportedWrites
<1> QED BY <1>1, <1>2, <1>3

\* A chunk report is added to the list ...
LEMMA ReportAppended ==
  ASSUME DissectionTypes, NEW list \in Seq(Talks), reports' = Append(reports, list)
  PROVE  /\ ReportedPackets' = ReportedPackets + PacketsOf(list)
         /\ ReportedWrites' = ReportedWrites + WritesOf(list)
<1> DEFINE n == Len(reports)
           new == Append(reports, list)
           v == [k \in 1 .. n |-> PacketsOf(reports[k])]
           w == [k \in 1 .. n |-> WritesOf(reports[k])]
           v1 == [k \in 1 .. n + 1 |-> PacketsOf(new[k])]
           w1 == [k \in 1 .. n + 1 |-> WritesOf(new[k])]
<1>1. n \in Nat /\ Len(new) = n + 1 /\ new[n + 1] = list /\ \A k \in 1 .. n : new[k] = reports[k]
  BY DEF DissectionTypes
<1>2. \A k \in 1 .. n + 1 : new[k] \in Seq(Talks)
  BY DEF DissectionTypes
<1> HIDE DEF new
<1>3. \A k \in 1 .. n + 1 : PacketsOf(new[k]) \in Nat /\ WritesOf(new[k]) \in Nat
  BY <1>2, SumsTyped, TalksCount
<1>4. Weights(v1, n + 1) /\ Weights(w1, n + 1)
  BY <1>3 DEF Weights
<1>5. /\ \A k \in 1 .. n : v1[k] = v[k] /\ w1[k] = w[k]
      /\ v1[n + 1] = PacketsOf(list) /\ w1[n + 1] = WritesOf(list)
  BY <1>1
<1>6. /\ ReportedPackets = SumOf(v, n) /\ ReportedWrites = SumOf(w, n)
      /\ ReportedPackets' = SumOf(v1, n + 1) /\ ReportedWrites' = SumOf(w1, n + 1)
  BY <1>1 DEF ReportedPackets, ReportedWrites, PacketsIn, WritesIn, new
<1> HIDE DEF v, w, v1, w1, n
<1>7. SumOf(v1, n + 1) = SumOf(v, n) + v1[n + 1]
  BY <1>1, <1>4, <1>5, SumAppend
<1>8. SumOf(w1, n + 1) = SumOf(w, n) + w1[n + 1]
  BY <1>1, <1>4, <1>5, SumAppend
<1> QED BY <1>5, <1>6, <1>7, <1>8

\* ... and taken off by the merge.
LEMMA ReportTaken ==
  ASSUME DissectionTypes, reports # <<>>, reports' = Tail(reports)
  PROVE  /\ ReportedPackets = PacketsOf(Head(reports)) + ReportedPackets'
         /\ ReportedWrites = WritesOf(Head(reports)) + ReportedWrites'
<1> DEFINE n == Len(Tail(reports))
           new == Tail(reports)
           v == [k \in 1 .. n |-> PacketsOf(new[k])]
           w == [k \in 1 .. n |-> WritesOf(new[k])]
           v1 == [k \in 1 .. n + 1 |-> PacketsOf(reports[k])]
           w1 == [k \in 1 .. n + 1 |-> WritesOf(reports[k])]
<1>1. /\ n \in Nat /\ Len(reports) = n + 1 /\ reports[1] = Head(reports)
      /\ \A k \in 1 .. n : new[k] = reports[k + 1]
  BY DEF DissectionTypes
<1>2. \A k \in 1 .. n + 1 : reports[k] \in Seq(Talks)
  BY <1>1 DEF DissectionTypes
<1> HIDE DEF new
<1>3. \A k \in 1 .. n + 1 : PacketsOf(reports[k]) \in Nat /\ WritesOf(reports[k]) \in Nat
  BY <1>2, SumsTyped, TalksCount
<1>4. Weights(v1, n + 1) /\ Weights(w1, n + 1)
  BY <1>3 DEF Weights
<1>5. /\ \A k \in 1 .. n : v[k] = v1[k + 1] /\ w[k] = w1[k + 1]
      /\ v1[1] = PacketsOf(Head(reports)) /\ w1[1] = WritesOf(Head(reports))
  BY <1>1
<1>6. /\ ReportedPackets' = SumOf(v, n) /\ ReportedWrites' = SumOf(w, n)
      /\ ReportedPackets = SumOf(v1, n + 1) /\ ReportedWrites = SumOf(w1, n + 1)
  BY <1>1 DEF ReportedPackets, ReportedWrites, PacketsIn, WritesIn, new
<1> HIDE DEF v, w, v1, w1, n
<1>7. SumOf(v1, n + 1) = v1[1] + SumOf(v, n)
  BY <1>1, <1>4, <1>5, SumTail
<1>8. SumOf(w1, n + 1) = w1[1] + SumOf(w, n)
  BY <1>1, <1>4, <1>5, SumTail
<1> QED BY <1>5, <1>6, <1>7, <1>8

\* Every step of Stage 2 moves the traffic without losing any of it.
LEMMA AccountingStep ==
  ASSUME IInv, DissectionNext
  PROVE  Accounting'
<1> SUFFICES ASSUME faults' = 0
             PROVE  Accounting'
  BY DEF Accounting
<1> USE DEF IInv
<1>0. /\ PacketsOf(table) \in Nat /\ WritesOf(table) \in Nat
      /\ PacketsOf(convs) \in Nat /\ WritesOf(convs) \in Nat
      /\ ReportedPackets \in Nat /\ ReportedWrites \in Nat
      /\ pos \in Nat /\ skipped \in Nat /\ faults \in Nat /\ Cardinality(Written(pos)) \in Nat
  BY HeldTyped, WrittenGrows, CaptureTyped DEF DissectionTypes
<1>1. CASE UsePython \/ UseBronze
  <2>1. UNCHANGED <<cli, capture, faults, pos, skipped, table, reports, phase, convs>>
        /\ used' = used \cup {Reader}
    BY <1>1 DEF UsePython, UseBronze, Choose, given, layer2, Reader
  <2>2. UNCHANGED <<PacketsHeld, WritesHeld, ReportedPackets, ReportedWrites, Written(pos), Reader>>
    BY <2>1 DEF PacketsHeld, WritesHeld, ReportedPackets, ReportedWrites, Written, Delivers, Reader
  <2> QED BY <2>1, <2>2 DEF Accounting
<1>2. CASE FallBack \/ DpiFails \/ TsharkDies
  BY <1>0, <1>2 DEF FallBack, DpiFails, TsharkDies
<1>3. CASE TsharkPacket
  <2> DEFINE p == capture[pos + 1]
  <2>1. /\ UNCHANGED <<cli, capture, dpi, used, faults, reports, phase, convs>>
        /\ phase = "read" /\ dpi = "python" /\ pos' = pos + 1 /\ pos < PieceEnd
    BY <1>3 DEF TsharkPacket, given
  <2>2. UNCHANGED <<ReportedPackets, ReportedWrites, Reader>>
    BY <2>1 DEF ReportedPackets, ReportedWrites, Reader
  <2>3. Written(pos)' = Written(pos + 1)
    BY <2>1 DEF Written, Delivers
  <2>4. cli.request = "python"
    BY <2>1 DEF Accounting, Progress, Reader
  <2>5. Cardinality(Written(pos + 1)) = Cardinality(Written(pos)) + Bit(Delivers(pos + 1))
    BY <1>0, WrittenGrows
  <2>6. CASE Skippable(p)
    <3>1. skipped' = skipped + 1 /\ table' = table
      BY <1>3, <2>6 DEF TsharkPacket
    <3>2. Bit(Delivers(pos + 1)) = 0
      BY <2>4, <2>6 DEF Delivers, Bit
    <3>3. PacketsHeld' = PacketsHeld /\ WritesHeld' = WritesHeld
      BY <2>1, <3>1 DEF PacketsHeld, WritesHeld
    <3>4. PacketsHeld + ReportedPackets + skipped = pos /\ PacketsHeld \in Nat
      BY <1>0, <2>1 DEF Accounting, PacketsHeld
    <3>5. WritesHeld + ReportedWrites = Cardinality(Written(pos))
      BY <2>1 DEF Accounting
    <3>6. PacketsHeld + ReportedPackets + (skipped + 1) = pos + 1
      BY <1>0, <3>4
    <3>7. Cardinality(Written(pos + 1)) = Cardinality(Written(pos))
      BY <1>0, <2>5, <3>2
    <3>8. used' \subseteq {Reader'}
      BY <2>1, <2>2 DEF Accounting
    <3> HIDE DEF p
    <3> QED BY <2>1, <2>2, <2>3, <3>1, <3>3, <3>5, <3>6, <3>7, <3>8 DEF Accounting
  <2>7. CASE ~Skippable(p)
    <3> DEFINE new == Upsert(table, TsharkKey(pairPorts, p), p, Stamp(pos + 1))
               b == Bit(p.write)
    <3>1. skipped' = skipped /\ table' = new
      BY <1>3, <2>7 DEF TsharkPacket
    <3>2. PacketsOf(new) = PacketsOf(table) + 1 /\ WritesOf(new) = WritesOf(table) + b
      BY <2>1, TsharkUpserts
    <3>3. Bit(Delivers(pos + 1)) = b /\ b \in Nat
      BY <2>4, <2>7 DEF Delivers, Bit
    <3>4. /\ PacketsHeld' = PacketsOf(table) + 1 /\ WritesHeld' = WritesOf(table) + b
          /\ PacketsHeld = PacketsOf(table) /\ WritesHeld = WritesOf(table)
      BY <2>1, <3>1, <3>2 DEF PacketsHeld, WritesHeld
    <3>5. PacketsOf(table) + ReportedPackets + skipped = pos
      BY <2>1, <3>4 DEF Accounting
    <3>6. WritesOf(table) + ReportedWrites = Cardinality(Written(pos))
      BY <2>1, <3>4 DEF Accounting
    <3>7. used' \subseteq {Reader'}
      BY <2>1, <2>2 DEF Accounting
    <3> HIDE DEF p, new, b
    <3>8. (PacketsOf(table) + 1) + ReportedPackets + skipped = pos + 1
      BY <1>0, <3>5
    <3>9. (WritesOf(table) + b) + ReportedWrites = Cardinality(Written(pos)) + b
      <4> DEFINE x == WritesOf(table)
                 y == ReportedWrites
                 z == Cardinality(Written(pos))
      <4>1. x \in Nat /\ y \in Nat /\ z \in Nat /\ x + y = z
        BY <1>0, <3>6
      <4> HIDE DEF x, y, z
      <4>2. (x + b) + y = z + b
        BY <3>3, <4>1
      <4> QED BY <4>2 DEF x, y, z
    <3> QED BY <2>1, <2>2, <2>3, <2>5, <3>1, <3>3, <3>4, <3>7, <3>8, <3>9 DEF Accounting
  <2> QED BY <2>6, <2>7
<1>4. CASE ReadBronze
  <2>1. /\ UNCHANGED <<cli, capture, dpi, used, faults, reports, phase, convs, skipped>>
        /\ phase = "read" /\ dpi = "bronze" /\ pos' = PieceEnd /\ pos < PieceEnd
        /\ table' = BronzeTable(pos + 1, PieceEnd)
    BY <1>4 DEF ReadBronze, given
  <2>2. UNCHANGED <<ReportedPackets, ReportedWrites, Reader>>
    BY <2>1 DEF ReportedPackets, ReportedWrites, Reader
  <2>3. Written(pos)' = Written(PieceEnd)
    BY <2>1 DEF Written, Delivers
  <2>4. cli.request # "python"
    BY <2>1 DEF Accounting, Progress, Reader
  <2>5. PacketsOf(table) = 0 /\ WritesOf(table) = 0
    BY <2>1, HeldTyped DEF Progress
  <2> DEFINE new == BronzeTable(pos + 1, PieceEnd)
             x == PacketsOf(new)
             y == WritesOf(new)
             w == Cardinality(Written(pos))
  <2>6. /\ x + pos = PieceEnd /\ y + w = Cardinality(Written(PieceEnd))
        /\ x \in Nat /\ y \in Nat
    <3>1. new \in Seq(Accumulators)
      BY <2>1, BronzeReads
    <3>2. x \in Nat /\ y \in Nat
      <4> HIDE DEF new
      <4> QED BY <3>1, SumsTyped, TablesCount
    <3> QED BY <2>1, <2>4, <3>2, BronzeReads
  <2>7. /\ PacketsHeld' = x /\ WritesHeld' = y
        /\ PacketsHeld = 0 /\ WritesHeld = 0
    BY <2>1, <2>5 DEF PacketsHeld, WritesHeld
  <2>8. /\ 0 + ReportedPackets + skipped = pos /\ 0 + ReportedWrites = w
        /\ used' \subseteq {Reader'}
    BY <2>1, <2>2, <2>7 DEF Accounting
  <2> HIDE DEF new, x, y, w
  <2>9. x + ReportedPackets + skipped = PieceEnd
    BY <1>0, <2>6, <2>8
  <2>10. y + ReportedWrites = Cardinality(Written(PieceEnd))
    BY <1>0, <2>6, <2>8
  <2> QED BY <2>1, <2>2, <2>3, <2>7, <2>8, <2>9, <2>10 DEF Accounting
<1>5. CASE FinishFile
  <2>1. /\ UNCHANGED <<cli, capture, used, faults, pos, skipped, reports>>
        /\ phase = "read" /\ phase' = "dissected"
        /\ \E list \in ConversationLists(table) : convs' = list
    BY <1>5 DEF FinishFile, given
  <2>2. UNCHANGED <<ReportedPackets, ReportedWrites, Reader, Written(pos)>>
    BY <2>1 DEF ReportedPackets, ReportedWrites, Reader, Written, Delivers
  <2>3. PacketsOf(convs)' = PacketsOf(table) /\ WritesOf(convs)' = WritesOf(table)
    BY <2>1, Lists
  <2>4. PacketsHeld' = PacketsHeld /\ WritesHeld' = WritesHeld
    BY <2>1, <2>3 DEF PacketsHeld, WritesHeld
  <2> QED BY <2>1, <2>2, <2>4 DEF Accounting
<1>6. CASE FinishChunk
  <2>1. /\ UNCHANGED <<cli, capture, used, faults, pos, skipped, convs>>
        /\ phase = "read" /\ phase' \in {"read", "merge"} /\ table' = <<>>
        /\ \E list \in ConversationLists(table) : reports' = Append(reports, list)
    BY <1>6 DEF FinishChunk, given
  <2>2. UNCHANGED <<Reader, Written(pos)>>
    BY <2>1 DEF Reader, Written, Delivers
  <2>3. /\ ReportedPackets' = ReportedPackets + PacketsOf(table)
        /\ ReportedWrites' = ReportedWrites + WritesOf(table)
    BY <2>1, Lists, ReportAppended
  <2>4. PacketsHeld' = 0 /\ WritesHeld' = 0
    <3>1. convs = <<>>
      BY <2>1 DEF Progress
    <3>2. PacketsOf(<<>>) = 0 /\ WritesOf(<<>>) = 0
      BY <3>1, HeldTyped
    <3>3. convs' = <<>> /\ table' = <<>>
      BY <2>1, <3>1
    <3> QED BY <3>2, <3>3 DEF PacketsHeld, WritesHeld
  <2>5. PacketsHeld = PacketsOf(table) /\ WritesHeld = WritesOf(table)
    BY <2>1 DEF PacketsHeld, WritesHeld
  <2>6. 0 + (ReportedPackets + PacketsOf(table)) + skipped = pos
    BY <1>0, <2>1, <2>5 DEF Accounting
  <2>7. 0 + (ReportedWrites + WritesOf(table)) = Cardinality(Written(pos))
    BY <1>0, <2>1, <2>5 DEF Accounting
  <2>8. used' \subseteq {Reader'}
    BY <2>1, <2>2 DEF Accounting
  <2> QED BY <2>1, <2>2, <2>3, <2>4, <2>6, <2>7, <2>8 DEF Accounting
<1>7. CASE MergeReport
  <2>1. UNCHANGED <<cli, capture, used, faults, pos, skipped>> /\ phase = "merge"
        /\ phase' \in {"merge", "dissected"}
    BY <1>7 DEF MergeReport, given
  <2>2. UNCHANGED <<Reader, Written(pos)>>
    BY <2>1 DEF Reader, Written, Delivers
  <2>3. CASE reports = <<>>
    <3>1. UNCHANGED <<reports, convs>>
      BY <1>7, <2>3 DEF MergeReport
    <3>2. UNCHANGED <<PacketsHeld, WritesHeld, ReportedPackets, ReportedWrites>>
      BY <2>1, <3>1 DEF PacketsHeld, WritesHeld, ReportedPackets, ReportedWrites
    <3> QED BY <2>1, <2>2, <3>2 DEF Accounting
  <2>4. CASE reports # <<>>
    <3> DEFINE new == FoldLeft(AddConversation, convs, Head(reports))
               p == PacketsOf(Head(reports))
               w == WritesOf(Head(reports))
    <3>1. convs' = new /\ reports' = Tail(reports)
      BY <1>7, <2>4 DEF MergeReport
    <3>2. /\ PacketsOf(new) = PacketsOf(convs) + p /\ WritesOf(new) = WritesOf(convs) + w
          /\ Head(reports) \in Seq(Talks) /\ Tail(reports) \in Seq(Seq(Talks))
      BY <2>4, Merges
    <3>3. ReportedPackets = p + ReportedPackets' /\ ReportedWrites = w + ReportedWrites'
      BY <2>4, <3>1, ReportTaken
    <3>4. p \in Nat /\ w \in Nat
      BY <3>2, SumsTyped, TalksCount
    <3>5. ReportedPackets' \in Nat /\ ReportedWrites' \in Nat
      BY <3>1, <3>2, ReportsTyped DEF ReportedPackets, ReportedWrites
    <3>6. /\ PacketsHeld' = PacketsOf(convs) + p /\ WritesHeld' = WritesOf(convs) + w
          /\ PacketsHeld = PacketsOf(convs) /\ WritesHeld = WritesOf(convs)
      BY <2>1, <3>1, <3>2 DEF PacketsHeld, WritesHeld
    <3>7. /\ PacketsOf(convs) + ReportedPackets + skipped = pos
          /\ WritesOf(convs) + ReportedWrites = Cardinality(Written(pos))
          /\ used' \subseteq {Reader'}
      BY <2>1, <2>2, <3>6 DEF Accounting
    <3> HIDE DEF new, p, w
    <3>8. (PacketsOf(convs) + p) + ReportedPackets' + skipped = pos
      BY <1>0, <3>3, <3>4, <3>5, <3>7
    <3>9. (WritesOf(convs) + w) + ReportedWrites' = Cardinality(Written(pos))
      BY <1>0, <3>3, <3>4, <3>5, <3>7
    <3> QED BY <2>1, <2>2, <3>6, <3>7, <3>8, <3>9 DEF Accounting
  <2> QED BY <2>3, <2>4
<1> QED BY <1>1, <1>2, <1>3, <1>4, <1>5, <1>6, <1>7 DEF DissectionNext

-----------------------------------------------------------------------------
(* Scans: the ports that a pair of hosts has in the table.                  *)

\* Each entry of the new table is an old one with its pair and port, or
\* belongs to the packet.
LEMMA UpsertEntries ==
  ASSUME NEW tab \in Seq(Accumulators), NEW key \in Keys, NEW p \in Packets,
         NEW stamp \in Nat, key[1] = p.smac, key[2] = p.dmac, key[3] \in Words, key[4] \in Nat,
         \A n \in DOMAIN tab : /\ tab[n].smac = tab[n].key[1] /\ tab[n].dmac = tab[n].key[2]
                               /\ tab[n].port = tab[n].key[4]
  PROVE  LET new == Upsert(tab, key, p, stamp)
         IN \A n \in DOMAIN new :
              /\ new[n].smac = new[n].key[1] /\ new[n].dmac = new[n].key[2]
              /\ new[n].port = new[n].key[4]
              /\ \/ \E k \in DOMAIN tab : PairOf(new[n]) = PairOf(tab[k]) /\ new[n].port = tab[k].port
                 \/ PairOf(new[n]) = Pair(p) /\ new[n].port = key[4]
<1> DEFINE new == Upsert(tab, key, p, stamp)
           Good(b) == b.smac = b.key[1] /\ b.dmac = b.key[2] /\ b.port = b.key[4]
           Old(b) == \E k \in DOMAIN tab : PairOf(b) = PairOf(tab[k]) /\ b.port = tab[k].port
           Mine(b) == PairOf(b) = Pair(p) /\ b.port = key[4]
<1>1. ASSUME NEW a \in Accumulators, a.key = key, Good(a), a.transport = "none" \/ Old(a)
      PROVE  LET b == Absorb(a, p, stamp) IN Good(b) /\ (Old(b) \/ Mine(b))
  <2> DEFINE b == Absorb(a, p, stamp)
  <2>1. /\ b.key = a.key /\ b.smac = a.smac /\ b.dmac = a.dmac /\ b.port = a.port
        /\ b.transport = IF a.transport = "none" THEN p.transport ELSE a.transport
    BY Absorbed
  <2> HIDE DEF b
  <2>2. Good(b)
    BY <1>1, <2>1
  <2>3. CASE a.transport = "none"
    <3>1. Mine(b)
      BY <1>1, <2>1, <2>3 DEF PairOf, Pair
    <3> QED BY <2>2, <3>1 DEF b
  <2>4. CASE a.transport # "none"
    <3>1. PairOf(b) = PairOf(a) /\ b.port = a.port
      BY <2>1, <2>4 DEF PairOf
    <3>2. Old(b)
      BY <1>1, <2>4, <3>1
    <3> QED BY <2>2, <3>2 DEF b
  <2> QED BY <2>3, <2>4
<1>2. \A k \in DOMAIN tab : tab[k] \in Accumulators /\ Good(tab[k]) /\ Old(tab[k])
  OBVIOUS
<1>3. CASE new = Append(tab, Absorb(Accumulator(key, p), p, stamp))
  <2> DEFINE a == Accumulator(key, p)
  <2>1. a \in Accumulators /\ a.key = key /\ Good(a) /\ a.transport = "none"
    BY AccumulatorTyped DEF Accumulator
  <2> HIDE DEF a, Good, Old, Mine, new
  <2>2. Good(Absorb(a, p, stamp)) /\ (Old(Absorb(a, p, stamp)) \/ Mine(Absorb(a, p, stamp)))
    BY <1>1, <2>1
  <2>3. ASSUME NEW n \in DOMAIN new
        PROVE  new[n] = Absorb(a, p, stamp) \/ (n \in DOMAIN tab /\ new[n] = tab[n])
    <3>1. new = Append(tab, Absorb(a, p, stamp))
      BY <1>3 DEF a
    <3> QED BY <2>3, <3>1
  <2>4. \A n \in DOMAIN new : Good(new[n]) /\ (Old(new[n]) \/ Mine(new[n]))
    BY <1>2, <2>2, <2>3
  <2> QED BY <2>4 DEF Good, Old, Mine, new
<1>4. ASSUME NEW i \in DOMAIN tab, tab[i].key = key,
             new = [tab EXCEPT ![i] = Absorb(@, p, stamp)]
      PROVE  \A n \in DOMAIN new : Good(new[n]) /\ (Old(new[n]) \/ Mine(new[n]))
  <2> DEFINE a == tab[i]
  <2>1. a \in Accumulators /\ a.key = key /\ Good(a) /\ Old(a)
    BY <1>2, <1>4
  <2> HIDE DEF a, Good, Old, Mine, new
  <2>2. Good(Absorb(a, p, stamp)) /\ (Old(Absorb(a, p, stamp)) \/ Mine(Absorb(a, p, stamp)))
    BY <1>1, <2>1
  <2>3. ASSUME NEW n \in DOMAIN new
        PROVE  new[n] = Absorb(a, p, stamp) \/ (n \in DOMAIN tab /\ new[n] = tab[n])
    <3>1. new = [tab EXCEPT ![i] = Absorb(a, p, stamp)]
      BY <1>4 DEF a
    <3>2. DOMAIN new = DOMAIN tab
      BY <3>1
    <3> QED BY <2>3, <3>1, <3>2
  <2> QED BY <1>2, <2>2, <2>3
<1>5. \A n \in DOMAIN new : Good(new[n]) /\ (Old(new[n]) \/ Mine(new[n]))
  <2> HIDE DEF Good, Old, Mine
  <2>1. CASE new = Append(tab, Absorb(Accumulator(key, p), p, stamp))
    BY <1>3, <2>1 DEF Good, Old, Mine
  <2> QED BY <1>4, <2>1, UpsertCases
<1> QED BY <1>5

\* The step of one packet, with collapsing on.
LEMMA ScanPacket ==
  ASSUME IInv, TsharkPacket, cli.threshold > 0, ~Skippable(capture[pos + 1])
  PROVE  PortsAreCounted' /\ ScansCollapse'
<1> USE DEF IInv
<1> DEFINE p == capture[pos + 1]
           key == TsharkKey(pairPorts, p)
           max == cli.threshold
<1>0. /\ dpi = "python" /\ pos < PieceEnd /\ UNCHANGED <<cli, dpi>>
      /\ table' = Upsert(table, key, p, Stamp(pos + 1))
      /\ pairPorts' = IF Counted(p)
                      THEN [k \in DOMAIN pairPorts \cup {Pair(p)} |->
                              IF k = Pair(p) THEN PortsOf(pairPorts, p) ELSE pairPorts[k]]
                      ELSE pairPorts
  BY DEF TsharkPacket, given
<1>1. /\ p \in Packets /\ Stamp(pos + 1) \in Nat /\ p.dport \in Nat /\ max \in Nat
      /\ table \in Seq(Accumulators)
  BY <1>0, NextPacket, PacketTyped, CliTyped DEF DissectionTypes
<1>2. key \in Keys /\ key[1] = p.smac /\ key[2] = p.dmac /\ key[3] \in Words /\ key[4] \in Nat
  BY <1>1, TsharkKeyTyped
<1>3. /\ \A n \in DOMAIN table : /\ table[n].smac = table[n].key[1]
                                 /\ table[n].dmac = table[n].key[2]
                                 /\ table[n].port = table[n].key[4]
      /\ \A pair \in DOMAIN pairPorts : pair[3] # "none" /\ IsFiniteSet(pairPorts[pair])
      /\ \A n \in DOMAIN table :
           table[n].port > 0 /\ table[n].transport # "none" =>
             /\ PairOf(table[n]) \in DOMAIN pairPorts
             /\ table[n].port \in pairPorts[PairOf(table[n])]
  BY <1>0 DEF PortsAreCounted
<1>4. \A pair \in DOMAIN pairPorts : Cardinality(TablePorts(pair)) < max
  BY <1>0 DEF ScansCollapse, TablePorts, PairOf
<1>5. \A n \in DOMAIN table' :
        /\ table'[n].smac = table'[n].key[1] /\ table'[n].dmac = table'[n].key[2]
        /\ table'[n].port = table'[n].key[4]
        /\ \/ \E k \in DOMAIN table : PairOf(table'[n]) = PairOf(table[k])
                                      /\ table'[n].port = table[k].port
           \/ PairOf(table'[n]) = Pair(p) /\ table'[n].port = key[4]
  <2> HIDE DEF p, key
  <2> QED BY <1>0, <1>1, <1>2, <1>3, UpsertEntries
<1>6. IsFiniteSet(PortsOf(pairPorts, p))
  <2>1. CASE Pair(p) \in DOMAIN pairPorts
    BY <1>3, <2>1, FS_AddElement DEF PortsOf
  <2>2. CASE Pair(p) \notin DOMAIN pairPorts
    BY <2>2, FS_EmptySet, FS_AddElement DEF PortsOf
  <2> QED BY <2>1, <2>2
\* A key with a port belongs to a pair with few ports.
<1>7. key[4] > 0 => key[4] = p.dport /\ (p.transport # "none" =>
                      Counted(p) /\ Cardinality(PortsOf(pairPorts, p)) < max)
  <2>1. CASE Counted(p) /\ Cardinality(PortsOf(pairPorts, p)) >= max
    BY <2>1 DEF TsharkKey
  <2>2. CASE ~(Counted(p) /\ Cardinality(PortsOf(pairPorts, p)) >= max)
    <3>1. key[4] = p.dport
      BY <2>2 DEF TsharkKey
    <3>2. p.dport > 0 /\ p.transport # "none" => Counted(p)
      BY DEF Counted
    <3>3. Cardinality(PortsOf(pairPorts, p)) \in Nat
      BY <1>6, FS_CardinalityType
    <3> QED BY <1>1, <2>2, <3>1, <3>2, <3>3
  <2> QED BY <2>1, <2>2
<1>8. /\ DOMAIN pairPorts \subseteq DOMAIN pairPorts'
      /\ \A pair \in DOMAIN pairPorts : pairPorts[pair] \subseteq pairPorts'[pair]
      /\ \A pair \in DOMAIN pairPorts' : pair[3] # "none" /\ IsFiniteSet(pairPorts'[pair])
      /\ Counted(p) => Pair(p) \in DOMAIN pairPorts' /\ p.dport \in pairPorts'[Pair(p)]
      /\ \A pair \in DOMAIN pairPorts' : pair \in DOMAIN pairPorts \/ pair = Pair(p)
  <2>1. CASE Counted(p)
    <3>1. pairPorts' = [k \in DOMAIN pairPorts \cup {Pair(p)} |->
                          IF k = Pair(p) THEN PortsOf(pairPorts, p) ELSE pairPorts[k]]
      BY <1>0, <2>1
    <3>2. Pair(p)[3] # "none"
      BY <2>1 DEF Counted, Pair
    <3>3. p.dport \in PortsOf(pairPorts, p)
          /\ (Pair(p) \in DOMAIN pairPorts => pairPorts[Pair(p)] \subseteq PortsOf(pairPorts, p))
      BY DEF PortsOf
    <3> HIDE DEF p
    <3> QED BY <1>3, <1>6, <3>1, <3>2, <3>3
  <2>2. CASE ~Counted(p)
    BY <1>0, <1>3, <2>2
  <2> QED BY <2>1, <2>2
<1> HIDE DEF p, key, max
<1>9. ASSUME NEW n \in DOMAIN table', table'[n].port > 0, table'[n].transport # "none"
      PROVE  /\ PairOf(table'[n]) \in DOMAIN pairPorts'
             /\ table'[n].port \in pairPorts'[PairOf(table'[n])]
  <2> DEFINE b == table'[n]
  <2>1. CASE \E k \in DOMAIN table : PairOf(b) = PairOf(table[k]) /\ b.port = table[k].port
    <3>1. PICK k \in DOMAIN table : PairOf(b) = PairOf(table[k]) /\ b.port = table[k].port
      BY <2>1
    <3>2. table[k].port > 0 /\ table[k].transport # "none"
      BY <1>9, <3>1 DEF PairOf
    <3>3. PairOf(table[k]) \in DOMAIN pairPorts /\ table[k].port \in pairPorts[PairOf(table[k])]
      BY <1>3, <3>2
    <3> QED BY <1>8, <3>1, <3>3
  <2>2. CASE PairOf(b) = Pair(p) /\ b.port = key[4]
    <3>1. p.transport # "none" /\ key[4] > 0
      BY <1>9, <2>2 DEF PairOf, Pair
    <3>2. Counted(p) /\ key[4] = p.dport
      BY <1>7, <3>1
    <3> QED BY <1>8, <2>2, <3>2
  <2> QED BY <1>5, <2>1, <2>2
<1>10. ASSUME NEW pair \in DOMAIN pairPorts'
       PROVE  Cardinality(TablePorts(pair)') < max
  <2>1. TablePorts(pair)' \subseteq pairPorts'[pair]
    <3> SUFFICES ASSUME NEW n \in DOMAIN table', PairOf(table'[n]) = pair, table'[n].port > 0
                 PROVE  table'[n].port \in pairPorts'[pair]
      BY DEF TablePorts, PairOf
    <3>1. table'[n].transport # "none"
      BY <1>8 DEF PairOf
    <3> QED BY <1>9, <3>1
  <2>2. CASE pair = Pair(p) /\ key[4] > 0
    <3>1. Counted(p) /\ Cardinality(PortsOf(pairPorts, p)) < max
      <4>1. p.transport # "none"
        BY <1>8, <2>2 DEF Pair
      <4> QED BY <1>7, <2>2, <4>1
    <3>2. pairPorts'[pair] = PortsOf(pairPorts, p)
      BY <1>0, <2>2, <3>1 DEF p
    <3>3. Cardinality(TablePorts(pair)') <= Cardinality(PortsOf(pairPorts, p))
          /\ IsFiniteSet(TablePorts(pair)')
      BY <1>6, <2>1, <3>2, FS_Subset
    <3>4. Cardinality(TablePorts(pair)') \in Nat /\ Cardinality(PortsOf(pairPorts, p)) \in Nat
      BY <1>6, <3>3, FS_CardinalityType
    <3> QED BY <1>1, <3>1, <3>3, <3>4 DEF max
  <2>3. CASE ~(pair = Pair(p) /\ key[4] > 0)
    <3>1. TablePorts(pair)' \subseteq TablePorts(pair)
      <4> SUFFICES ASSUME NEW n \in DOMAIN table', PairOf(table'[n]) = pair, table'[n].port > 0
                   PROVE  table'[n].port \in TablePorts(pair)
        BY DEF TablePorts, PairOf
      <4>1. PICK k \in DOMAIN table : PairOf(table'[n]) = PairOf(table[k])
                                      /\ table'[n].port = table[k].port
        BY <1>5, <2>3
      <4> QED BY <4>1 DEF TablePorts
    <3>2. CASE pair \in DOMAIN pairPorts
      <4>1. TablePorts(pair) \subseteq pairPorts[pair]
        <5> SUFFICES ASSUME NEW n \in DOMAIN table, PairOf(table[n]) = pair, table[n].port > 0
                     PROVE  table[n].port \in pairPorts[pair]
          BY DEF TablePorts
        <5>1. table[n].transport # "none"
          BY <1>3, <3>2 DEF PairOf
        <5> QED BY <1>3, <5>1
      <4>2. IsFiniteSet(TablePorts(pair))
        BY <1>3, <3>2, <4>1, FS_Subset
      <4>3. Cardinality(TablePorts(pair)') <= Cardinality(TablePorts(pair))
            /\ IsFiniteSet(TablePorts(pair)')
        BY <3>1, <4>2, FS_Subset
      <4>4. Cardinality(TablePorts(pair)') \in Nat /\ Cardinality(TablePorts(pair)) \in Nat
        BY <4>2, <4>3, FS_CardinalityType
      <4>5. Cardinality(TablePorts(pair)) < max
        BY <1>4, <3>2
      <4> QED BY <1>1, <4>3, <4>4, <4>5 DEF max
    <3>3. CASE pair \notin DOMAIN pairPorts
      <4>1. TablePorts(pair) = {}
        <5> SUFFICES ASSUME NEW n \in DOMAIN table, PairOf(table[n]) = pair, table[n].port > 0
                     PROVE  FALSE
          BY DEF TablePorts
        <5>1. table[n].transport # "none"
          BY <1>8 DEF PairOf
        <5> QED BY <1>3, <3>3, <5>1
      <4>2. TablePorts(pair)' = {}
        BY <3>1, <4>1
      <4> QED BY <1>1, <4>2, FS_EmptySet DEF max
    <3> QED BY <3>2, <3>3
  <2> QED BY <2>2, <2>3
<1>11. PortsAreCounted'
  <2>1. \A n \in DOMAIN table' : /\ table'[n].smac = table'[n].key[1]
                                 /\ table'[n].dmac = table'[n].key[2]
                                 /\ table'[n].port = table'[n].key[4]
    BY <1>5
  <2>2. \A n \in DOMAIN table' :
          table'[n].port > 0 /\ table'[n].transport # "none" =>
            /\ PairOf(table'[n]) \in DOMAIN pairPorts'
            /\ table'[n].port \in pairPorts'[PairOf(table'[n])]
    BY <1>9
  <2>3. \A pair \in DOMAIN pairPorts' : pair[3] # "none" /\ IsFiniteSet(pairPorts'[pair])
    BY <1>8
  <2> QED BY <2>1, <2>2, <2>3 DEF PortsAreCounted, PairOf
<1>12. ScansCollapse'
  <2>1. \A pair \in DOMAIN pairPorts' : Cardinality(TablePorts(pair)') < cli.threshold'
    BY <1>0, <1>10 DEF max
  <2> QED BY <2>1 DEF ScansCollapse, TablePorts, PairOf
<1> QED BY <1>11, <1>12

\* Every step of Stage 2 keeps the ports counted and the scans collapsed.
LEMMA ScansStep ==
  ASSUME IInv, DissectionNext
  PROVE  PortsAreCounted' /\ ScansCollapse'
<1> USE DEF IInv
<1>1. ASSUME dpi' # "python"
      PROVE  PortsAreCounted' /\ ScansCollapse'
  BY <1>1 DEF PortsAreCounted, ScansCollapse
<1>2. CASE UsePython \/ UseBronze \/ FallBack
  <2>1. UNCHANGED <<cli, table, pairPorts>> /\ dpi = "none"
    BY <1>2 DEF UsePython, UseBronze, FallBack, Choose, given
  <2>2. table' = <<>> /\ DOMAIN pairPorts' = {}
    BY <2>1 DEF Progress
  <2> QED BY <2>2 DEF PortsAreCounted, ScansCollapse
<1>3. CASE TsharkPacket
  <2>1. CASE Skippable(capture[pos + 1])
    <3>1. UNCHANGED <<cli, dpi, table, pairPorts>>
      BY <1>3, <2>1 DEF TsharkPacket, given
    <3> QED BY <3>1 DEF PortsAreCounted, ScansCollapse, PairOf
  <2>2. CASE ~Skippable(capture[pos + 1]) /\ cli.threshold > 0
    BY <1>3, <2>2, ScanPacket
  <2>3. CASE ~Skippable(capture[pos + 1]) /\ ~(cli.threshold > 0)
    <3> DEFINE p == capture[pos + 1]
               key == TsharkKey(pairPorts, p)
    <3>1. /\ dpi = "python" /\ pos < PieceEnd /\ UNCHANGED <<cli, dpi>>
          /\ table' = Upsert(table, key, p, Stamp(pos + 1))
      BY <1>3, <2>3 DEF TsharkPacket, given
    <3>2. p \in Packets /\ Stamp(pos + 1) \in Nat /\ table \in Seq(Accumulators)
      BY <3>1, NextPacket DEF DissectionTypes
    <3>3. key \in Keys /\ key[1] = p.smac /\ key[2] = p.dmac /\ key[3] \in Words /\ key[4] \in Nat
      BY <3>2, TsharkKeyTyped
    <3>4. \A n \in DOMAIN table : /\ table[n].smac = table[n].key[1]
                                  /\ table[n].dmac = table[n].key[2]
                                  /\ table[n].port = table[n].key[4]
      BY <3>1 DEF PortsAreCounted
    <3>5. \A n \in DOMAIN table' : /\ table'[n].smac = table'[n].key[1]
                                   /\ table'[n].dmac = table'[n].key[2]
                                   /\ table'[n].port = table'[n].key[4]
      <4> HIDE DEF p, key
      <4> QED BY <3>1, <3>2, <3>3, <3>4, UpsertEntries
    <3> QED BY <2>3, <3>1, <3>5 DEF PortsAreCounted, ScansCollapse
  <2> QED BY <2>1, <2>2, <2>3
<1>4. CASE DpiFails \/ TsharkDies \/ FinishFile \/ MergeReport
  <2>1. UNCHANGED <<cli, dpi, table, pairPorts>>
    BY <1>4 DEF DpiFails, TsharkDies, FinishFile, MergeReport, given
  <2> QED BY <2>1 DEF PortsAreCounted, ScansCollapse, PairOf
<1>5. CASE ReadBronze
  BY <1>1, <1>5 DEF ReadBronze
<1>6. CASE FinishChunk
  BY <1>1, <1>6 DEF FinishChunk
<1> QED BY <1>2, <1>3, <1>4, <1>5, <1>6 DEF DissectionNext

-----------------------------------------------------------------------------
(* What the invariant says at the end of Stage 2.                           *)

\* What Total adds up.
LEMMA TotalIsSum ==
  ASSUME NEW s \in Seq(Talks)
  PROVE  /\ Total(s, LAMBDA c : c.packets) = PacketsOf(s)
         /\ Total(s, LAMBDA c : c.writes) = WritesOf(s)
<1> DEFINE n == Len(s)
           v == [k \in 1 .. n |-> s[k].packets]
           w == [k \in 1 .. n |-> s[k].writes]
<1>1. n \in Nat /\ DOMAIN s = 1 .. n
  OBVIOUS
<1>2. Weights(v, n) /\ Weights(w, n)
  BY TalksCount DEF Weights, IsCounted
<1>3. Total(s, LAMBDA c : c.packets) = PacketsOf(s)
  <2>1. PICK h : h = [x \in SUBSET (1 .. n) |-> IF x = {} THEN 0 ELSE h[x \ {Max(x)}] + v[Max(x)]]
    <3> HIDE DEF v, n
    <3> QED BY <1>1, <1>2, SumFoldExists
  <2>2. \A x \in SUBSET (1 .. n) : x # {} => v[Max(x)] = s[Max(x)].packets
    BY <1>1, MaxIsIn
  <2>3. h = [x \in SUBSET DOMAIN s |->
               IF x = {} THEN 0 ELSE h[x \ {Max(x)}] + s[Max(x)].packets]
    <3> HIDE DEF v, n
    <3> QED BY <1>1, <2>1, <2>2
  <2>4. PICK it : /\ it = [x \in SUBSET DOMAIN s |->
                             IF x = {} THEN 0 ELSE it[x \ {Max(x)}] + s[Max(x)].packets]
                  /\ Total(s, LAMBDA c : c.packets) = it[DOMAIN s]
    BY <2>3 DEF Total, FoldLeft, MapThenFoldSet
  <2>5. it = [x \in SUBSET (1 .. n) |-> IF x = {} THEN 0 ELSE it[x \ {Max(x)}] + v[Max(x)]]
    <3> HIDE DEF v, n
    <3> QED BY <1>1, <2>2, <2>4
  <2>6. it[1 .. n] = SumOf(v, n)
    <3> HIDE DEF v, n
    <3> QED BY <1>1, <1>2, <2>5, FoldIsSum
  <2> QED BY <1>1, <2>4, <2>6 DEF PacketsOf
<1>4. Total(s, LAMBDA c : c.writes) = WritesOf(s)
  <2>1. PICK h : h = [x \in SUBSET (1 .. n) |-> IF x = {} THEN 0 ELSE h[x \ {Max(x)}] + w[Max(x)]]
    <3> HIDE DEF w, n
    <3> QED BY <1>1, <1>2, SumFoldExists
  <2>2. \A x \in SUBSET (1 .. n) : x # {} => w[Max(x)] = s[Max(x)].writes
    BY <1>1, MaxIsIn
  <2>3. h = [x \in SUBSET DOMAIN s |->
               IF x = {} THEN 0 ELSE h[x \ {Max(x)}] + s[Max(x)].writes]
    <3> HIDE DEF w, n
    <3> QED BY <1>1, <2>1, <2>2
  <2>4. PICK it : /\ it = [x \in SUBSET DOMAIN s |->
                             IF x = {} THEN 0 ELSE it[x \ {Max(x)}] + s[Max(x)].writes]
                  /\ Total(s, LAMBDA c : c.writes) = it[DOMAIN s]
    BY <2>3 DEF Total, FoldLeft, MapThenFoldSet
  <2>5. it = [x \in SUBSET (1 .. n) |-> IF x = {} THEN 0 ELSE it[x \ {Max(x)}] + w[Max(x)]]
    <3> HIDE DEF w, n
    <3> QED BY <1>1, <2>2, <2>4
  <2>6. it[1 .. n] = SumOf(w, n)
    <3> HIDE DEF w, n
    <3> QED BY <1>1, <1>2, <2>5, FoldIsSum
  <2> QED BY <1>1, <2>4, <2>6 DEF WritesOf
<1> QED BY <1>3, <1>4

\* The books say what the property says.
LEMMA ConservedFromInv ==
  ASSUME IInv
  PROVE  TrafficIsConserved
<1> USE DEF IInv
<1> SUFFICES ASSUME Dissected, faults = 0
             PROVE  TrafficIsConserved
  BY DEF TrafficIsConserved
<1> DEFINE kept == {i \in 1 .. Len(capture) : ~Skippable(capture[i]) \/ "python" \notin used}
           writes == {i \in kept : capture[i].write}
<1>1. /\ phase = "dissected" /\ pos = Len(capture) /\ reports = <<>> /\ used # {}
      /\ used \subseteq {Reader} /\ Len(capture) \in Nat /\ skipped \in Nat /\ pos \in Nat
  BY CaptureTyped DEF Dissected, Progress, Accounting, DissectionTypes
<1>2. "python" \in used <=> cli.request = "python"
  BY <1>1 DEF Reader
<1>3. writes = Written(pos)
  BY <1>1, <1>2 DEF Written, Delivers
<1>4. /\ PacketsOf(convs) + 0 + skipped = pos
      /\ WritesOf(convs) + 0 = Cardinality(Written(pos))
  BY <1>1, HeldTyped DEF Accounting, PacketsHeld, WritesHeld
<1>5. PacketsOf(convs) \in Nat /\ WritesOf(convs) \in Nat
  BY HeldTyped
<1>6. PacketsOf(convs) = Len(capture) - skipped
  BY <1>1, <1>4, <1>5
<1>7. WritesOf(convs) = Cardinality(writes)
  <2>1. WritesOf(convs) = Cardinality(Written(pos))
    <3> DEFINE m == WritesOf(convs)
               k == Cardinality(Written(pos))
    <3>1. m \in Nat /\ m + 0 = k
      BY <1>4, <1>5
    <3> HIDE DEF m, k
    <3>2. m = k
      BY <3>1
    <3> QED BY <3>2 DEF m, k
  <2> QED BY <1>3, <2>1
<1>8. /\ Total(convs, LAMBDA c : c.packets) = PacketsOf(convs)
      /\ Total(convs, LAMBDA c : c.writes) = WritesOf(convs)
  BY TotalIsSum DEF DissectionTypes
<1> QED BY <1>6, <1>7, <1>8 DEF TrafficIsConserved

-----------------------------------------------------------------------------
(* One pass: what each conversation says of the packets that are its own.   *)

PacketKey(cap, i) == <<cap[i].smac, cap[i].dmac, cap[i].proto, cap[i].dport>>
Own(cap, key, X) == {i \in X : PacketKey(cap, i) = key}
Shares(cap, X) == [i \in 1 .. Len(cap) |-> IF i \in X THEN cap[i].len ELSE 0]
Octets(cap, X) == SumOf(Shares(cap, X), Len(cap))
Printed(i) == 100 + TextRank[i]

\* An entry that stands for the packets of X.
Tallies(cap, c, X) ==
  /\ c.packets = Cardinality(X) /\ c.bytes = Octets(cap, X)
  /\ \E i \in X : c.first = Printed(i)
  /\ \E i \in X : c.last = Printed(i)
  /\ \A i \in X : c.first <= Printed(i) /\ Printed(i) <= c.last

\* The books of a table or of a list of conversations over the packets of X.
Books(cap, list, X) ==
  /\ \A m, n \in DOMAIN list : MergeKey(list[m]) = MergeKey(list[n]) => m = n
  /\ \A n \in DOMAIN list : Tallies(cap, list[n], Own(cap, MergeKey(list[n]), X))
  /\ \A i \in X : \E n \in DOMAIN list : MergeKey(list[n]) = PacketKey(cap, i)

Indices == 1 .. Len(capture)

\* A sum of sums.
LEMMA SumPlus ==
  ASSUME NEW n \in Nat, NEW u, NEW v, NEW w, Weights(v, n), Weights(w, n),
         \A k \in 1 .. n : u[k] = v[k] + w[k]
  PROVE  SumOf(u, n) = SumOf(v, n) + SumOf(w, n)
<1> DEFINE G == {m \in 0 .. n : SumOf(u, m) = SumOf(v, m) + SumOf(w, m)}
<1>0. \A m \in 0 .. n : m \in Nat /\ Weights(u, m) /\ Weights(v, m) /\ Weights(w, m)
  BY DEF Weights
<1>1. 0 \in G
  <2>1. 0 \in 0 .. n
    OBVIOUS
  <2>2. SumOf(u, 0) = 0 /\ SumOf(v, 0) = 0 /\ SumOf(w, 0) = 0
    BY <1>0, <2>1, SumSteps
  <2> QED BY <2>1, <2>2
<1>2. ASSUME NEW m \in 0 .. n - 1, m \in G
      PROVE  m + 1 \in G
  <2>1. m + 1 \in 1 .. n /\ m + 1 \in 0 .. n /\ (m + 1) - 1 = m /\ m + 1 # 0 /\ m \in 0 .. n
    OBVIOUS
  <2>2. SumOf(u, m + 1) = SumOf(u, m) + u[m + 1]
    BY <1>0, <2>1, SumSteps
  <2>3. SumOf(v, m + 1) = SumOf(v, m) + v[m + 1]
    BY <1>0, <2>1, SumSteps
  <2>4. SumOf(w, m + 1) = SumOf(w, m) + w[m + 1]
    BY <1>0, <2>1, SumSteps
  <2>5. /\ SumOf(v, m) \in Nat /\ SumOf(w, m) \in Nat /\ v[m + 1] \in Nat /\ w[m + 1] \in Nat
    BY <1>0, <2>1, SumSteps DEF Weights
  <2>6. u[m + 1] = v[m + 1] + w[m + 1] /\ SumOf(u, m) = SumOf(v, m) + SumOf(w, m)
    BY <1>2, <2>1
  <2> DEFINE a == SumOf(v, m)
             b == SumOf(w, m)
             x == v[m + 1]
             y == w[m + 1]
  <2>7. SumOf(u, m + 1) = (a + b) + (x + y)
    BY <2>2, <2>6
  <2>8. (a + b) + (x + y) = (a + x) + (b + y)
    <3> HIDE DEF a, b, x, y
    <3>1. a \in Nat /\ b \in Nat /\ x \in Nat /\ y \in Nat
      BY <2>5 DEF a, b, x, y
    <3> QED BY <3>1
  <2> QED BY <2>1, <2>3, <2>4, <2>7, <2>8
<1> HIDE DEF G
<1>3. \A m \in 0 .. n : m \in G
  BY <1>1, <1>2, UpTo
<1> QED
  <2>1. n \in 0 .. n
    OBVIOUS
  <2> QED BY <1>3, <2>1 DEF G

\* The bytes of no packet, of one, and of two sets of packets.
LEMMA OctetsAdd ==
  ASSUME capture \in Captures
  PROVE  /\ Octets(capture, {}) = 0
         /\ \A i \in Indices : Octets(capture, {i}) = capture[i].len
         /\ \A X \in SUBSET Indices : Octets(capture, X) \in Nat
         /\ \A X, Y \in SUBSET Indices :
              X \cap Y = {} => Octets(capture, X \cup Y) = Octets(capture, X) + Octets(capture, Y)
<1> DEFINE n == Len(capture)
<1>0. n \in Nat /\ \A i \in 1 .. n : capture[i].len \in Nat
  BY CaptureTyped, PacketTyped
<1>1. \A X : Weights(Shares(capture, X), n)
  BY <1>0 DEF Weights, Shares, Indices
<1>2. \A X : Octets(capture, X) \in Nat
  BY <1>0, <1>1, SumSteps DEF Octets
<1>3. \A X, Y \in SUBSET Indices :
        X \cap Y = {} => Octets(capture, X \cup Y) = Octets(capture, X) + Octets(capture, Y)
  <2> SUFFICES ASSUME NEW X \in SUBSET Indices, NEW Y \in SUBSET Indices, X \cap Y = {}
               PROVE  Octets(capture, X \cup Y) = Octets(capture, X) + Octets(capture, Y)
    OBVIOUS
  <2>1. \A k \in 1 .. n :
          Shares(capture, X \cup Y)[k] = Shares(capture, X)[k] + Shares(capture, Y)[k]
    <3> SUFFICES ASSUME NEW k \in 1 .. n
                 PROVE  Shares(capture, X \cup Y)[k] = Shares(capture, X)[k] + Shares(capture, Y)[k]
      OBVIOUS
    <3>1. capture[k].len \in Nat /\ ~(k \in X /\ k \in Y)
      BY <1>0
    <3>2. \A Z : Shares(capture, Z)[k] = IF k \in Z THEN capture[k].len ELSE 0
      BY DEF Shares, Indices
    <3>3. k \in X \cup Y <=> k \in X \/ k \in Y
      OBVIOUS
    <3> QED BY <3>1, <3>2, <3>3
  <2> DEFINE u == Shares(capture, X \cup Y)
             v == Shares(capture, X)
             w == Shares(capture, Y)
  <2>2. Weights(v, n) /\ Weights(w, n)
    BY <1>1
  <2>3. SumOf(u, n) = SumOf(v, n) + SumOf(w, n)
    <3>1. n \in Nat
      BY <1>0
    <3>2. \A k \in 1 .. n : u[k] = v[k] + w[k]
      BY <2>1
    <3> HIDE DEF u, v, w, n
    <3> QED BY <2>2, <3>1, <3>2, SumPlus
  <2> QED BY <2>3 DEF Octets
<1>4. Octets(capture, {}) = 0
  <2>1. Octets(capture, {} \cup {}) = Octets(capture, {}) + Octets(capture, {})
    BY <1>3
  <2>2. {} \cup {} = {}
    OBVIOUS
  <2> DEFINE d == Octets(capture, {})
  <2>3. d \in Nat
    BY <1>2
  <2>4. d = d + d
    BY <2>1, <2>2
  <2>5. d = 0
    <3> HIDE DEF d
    <3> QED BY <2>3, <2>4
  <2> QED BY <2>5
<1>5. ASSUME NEW i \in Indices
      PROVE  Octets(capture, {i}) = capture[i].len
  <2>1. i \in 1 .. n /\ capture[i].len \in Nat
    BY <1>0, <1>5 DEF Indices
  <2>2. /\ Shares(capture, {i})[i] = Shares(capture, {})[i] + capture[i].len
        /\ \A k \in 1 .. n : k # i => Shares(capture, {i})[k] = Shares(capture, {})[k]
    BY <2>1 DEF Shares, Indices
  <2>3. SumOf(Shares(capture, {i}), n) = SumOf(Shares(capture, {}), n) + capture[i].len
    <3> DEFINE d == capture[i].len
               v == Shares(capture, {i})
               w == Shares(capture, {})
    <3>1. /\ d \in Nat /\ v[i] = w[i] + d /\ Weights(w, n) /\ i \in 1 .. n
          /\ \A k \in 1 .. n : k # i => v[k] = w[k]
      BY <1>1, <2>1, <2>2
    <3>2. SumOf(v, n) = SumOf(w, n) + d
      <4> HIDE DEF d, n, v, w
      <4> QED BY <1>0, <3>1, SumGrows
    <3> QED BY <3>2
  <2>4. SumOf(Shares(capture, {i}), n) = 0 + capture[i].len
    BY <1>4, <2>3 DEF Octets
  <2> QED BY <2>1, <2>4 DEF Octets
<1> QED BY <1>2, <1>3, <1>4, <1>5

\* What the property adds up, in whatever order, are these bytes.
LEMMA OctetsOfFold ==
  ASSUME capture \in Captures, NEW X \in SUBSET Indices
  PROVE  FoldSet(LAMBDA i, sum : sum + capture[i].len, 0, X) = Octets(capture, X)
<1> DEFINE pick(s) == CHOOSE x \in s : TRUE
           f == [s \in SUBSET X |-> Octets(capture, s)]
<1>1. \A s \in SUBSET X : s # {} => pick(s) \in s
  OBVIOUS
<1>2. ASSUME NEW s \in SUBSET X, s # {}
      PROVE  Octets(capture, s) = Octets(capture, s \ {pick(s)}) + capture[pick(s)].len
  <2> DEFINE x == pick(s)
  <2>1. x \in s /\ x \in Indices
    BY <1>1, <1>2
  <2> HIDE DEF x
  <2>2. (s \ {x}) \cup {x} = s /\ (s \ {x}) \cap {x} = {}
        /\ s \ {x} \in SUBSET Indices /\ {x} \in SUBSET Indices
    BY <2>1
  <2>3. Octets(capture, s) = Octets(capture, s \ {x}) + Octets(capture, {x})
    BY <2>2, OctetsAdd
  <2>4. Octets(capture, {x}) = capture[x].len
    BY <2>1, OctetsAdd
  <2> QED BY <2>3, <2>4 DEF x
<1>3. f = [s \in SUBSET X |->
             IF s = {} THEN 0 ELSE f[s \ {pick(s)}] + capture[pick(s)].len]
  <2>1. \A s \in SUBSET X :
          f[s] = IF s = {} THEN 0 ELSE f[s \ {pick(s)}] + capture[pick(s)].len
    BY <1>2, OctetsAdd
  <2> QED BY <2>1
<1>4. PICK it : /\ it = [s \in SUBSET X |->
                           IF s = {} THEN 0 ELSE it[s \ {pick(s)}] + capture[pick(s)].len]
                /\ FoldSet(LAMBDA i, sum : sum + capture[i].len, 0, X) = it[X]
  <2> HIDE DEF f
  <2>1. \E it : /\ it = [s \in SUBSET X |->
                           IF s = {} THEN 0 ELSE it[s \ {pick(s)}] + capture[pick(s)].len]
                /\ FoldSet(LAMBDA i, sum : sum + capture[i].len, 0, X) = it[X]
    BY <1>3 DEF FoldSet, MapThenFoldSet
  <2> QED BY <2>1
<1>5. IsFiniteSet(X) /\ \A s \in SUBSET X : IsFiniteSet(s)
  <2>1. Len(capture) \in Nat
    BY CaptureTyped
  <2>2. IsFiniteSet(Indices)
    BY <2>1, FS_Interval DEF Indices
  <2> QED BY <2>2, FS_Subset
<1> DEFINE G == {k \in Nat : \A s \in SUBSET X : Cardinality(s) = k => it[s] = Octets(capture, s)}
           c == Cardinality(X)
<1>6. c \in Nat
  BY <1>5, FS_CardinalityType
<1>7. 0 \in G
  <2> SUFFICES ASSUME NEW s \in SUBSET X, Cardinality(s) = 0
               PROVE  it[s] = Octets(capture, s)
    OBVIOUS
  <2>1. s = {}
    BY <1>5, FS_EmptySet
  <2>2. it[s] = 0
    BY <1>4, <2>1
  <2> QED BY <2>1, <2>2, OctetsAdd
<1>8. ASSUME NEW k \in 0 .. c - 1, k \in G
      PROVE  k + 1 \in G
  <2>0. k + 1 \in Nat /\ k + 1 # 0 /\ (k + 1) - 1 = k
    BY <1>6
  <2> SUFFICES ASSUME NEW s \in SUBSET X, Cardinality(s) = k + 1
               PROVE  it[s] = Octets(capture, s)
    BY <2>0
  <2>1. s # {}
    BY <2>0, FS_EmptySet
  <2> DEFINE x == pick(s)
  <2>2. x \in s
    BY <1>1, <2>1
  <2>3. it[s] = it[s \ {x}] + capture[x].len
    BY <1>4, <2>1
  <2>4. Octets(capture, s) = Octets(capture, s \ {x}) + capture[x].len
    BY <1>2, <2>1
  <2> HIDE DEF x
  <2>5. Cardinality(s \ {x}) = Cardinality(s) - 1
    BY <1>5, <2>2, FS_RemoveElement
  <2>6. it[s \ {x}] = Octets(capture, s \ {x})
    <3>1. s \ {x} \in SUBSET X /\ Cardinality(s \ {x}) = k
      BY <2>0, <2>5
    <3> QED BY <1>8, <3>1
  <2> QED BY <2>3, <2>4, <2>6
<1>9. c \in G
  <2> HIDE DEF G, c
  <2>1. \A k \in 0 .. c : k \in G
    BY <1>6, <1>7, <1>8, UpTo
  <2> QED BY <1>6, <2>1
<1>10. it[X] = Octets(capture, X)
  BY <1>9
<1> QED BY <1>4, <1>10

\* Sets of packets are finite.
LEMMA FiniteIndices ==
  ASSUME capture \in Captures
  PROVE  /\ \A X \in SUBSET Indices : IsFiniteSet(X) /\ Cardinality(X) \in Nat
         /\ \A i \in Indices : /\ Cardinality({i}) = 1
                               /\ Printed(i) \in Nat /\ Printed(i) # 0
         /\ \A X, Y \in SUBSET Indices :
              X \cap Y = {} => Cardinality(X \cup Y) = Cardinality(X) + Cardinality(Y)
<1>1. IsFiniteSet(Indices)
  BY CaptureTyped, FS_Interval DEF Indices
<1>2. \A X \in SUBSET Indices : IsFiniteSet(X) /\ Cardinality(X) \in Nat
  BY <1>1, FS_Subset, FS_CardinalityType
<1>3. ASSUME NEW i \in Indices
      PROVE  Cardinality({i}) = 1 /\ Printed(i) \in Nat /\ Printed(i) # 0
  <2>1. TextRank[i] \in Nat
    BY <1>3, CapturesAreTraffic, CaptureTyped DEF Indices
  <2>2. Printed(i) \in Nat /\ Printed(i) # 0
    BY <2>1 DEF Printed
  <2> QED BY <2>2, FS_Singleton
<1>4. ASSUME NEW X \in SUBSET Indices, NEW Y \in SUBSET Indices, X \cap Y = {}
      PROVE  Cardinality(X \cup Y) = Cardinality(X) + Cardinality(Y)
  <2>1. Cardinality(X \cup Y) = Cardinality(X) + Cardinality(Y) - Cardinality(X \cap Y)
    BY <1>2, FS_Union
  <2>2. Cardinality(X \cap Y) = 0
    BY <1>4, FS_EmptySet
  <2>3. Cardinality(X) \in Nat /\ Cardinality(Y) \in Nat
    BY <1>2
  <2> QED BY <2>1, <2>2, <2>3
<1> QED BY <1>2, <1>3, <1>4

\* Two entries that are merged stand for the packets of both.
LEMMA TalliesAdd ==
  ASSUME capture \in Captures, NEW X \in SUBSET Indices, NEW Y \in SUBSET Indices,
         X \cap Y = {}, NEW a, NEW c, NEW b, Tallies(capture, a, X), Tallies(capture, c, Y),
         b.packets = a.packets + c.packets, b.bytes = a.bytes + c.bytes,
         b.first = IF a.first <= c.first THEN a.first ELSE c.first,
         b.last = IF a.last >= c.last THEN a.last ELSE c.last
  PROVE  Tallies(capture, b, X \cup Y)
<1> DEFINE Z == X \cup Y
<1>1. b.packets = Cardinality(Z) /\ b.bytes = Octets(capture, Z)
  BY FiniteIndices, OctetsAdd DEF Tallies
<1>2. \A i \in Z : Printed(i) \in Nat
  BY FiniteIndices
<1>3. PICK i \in X, j \in Y : a.first = Printed(i) /\ c.first = Printed(j)
  BY DEF Tallies
<1>4. PICK k \in X, l \in Y : a.last = Printed(k) /\ c.last = Printed(l)
  BY DEF Tallies
<1>5. a.first \in Nat /\ c.first \in Nat /\ a.last \in Nat /\ c.last \in Nat
  BY <1>2, <1>3, <1>4
<1>6. \E m \in Z : b.first = Printed(m)
  BY <1>3
<1>7. \E m \in Z : b.last = Printed(m)
  BY <1>4
<1>8. ASSUME NEW m \in Z
      PROVE  b.first <= Printed(m) /\ Printed(m) <= b.last
  <2>1. Printed(m) \in Nat
    BY <1>2
  <2>2. \/ a.first <= Printed(m) /\ Printed(m) <= a.last
        \/ c.first <= Printed(m) /\ Printed(m) <= c.last
    BY <1>8 DEF Tallies
  <2> QED BY <1>5, <2>1, <2>2
<1> QED BY <1>1, <1>6, <1>7, <1>8 DEF Tallies

\* One packet.
LEMMA TalliesOne ==
  ASSUME capture \in Captures, NEW i \in Indices, NEW c,
         c.packets = 1, c.bytes = capture[i].len, c.first = Printed(i), c.last = Printed(i)
  PROVE  Tallies(capture, c, {i})
<1>1. Cardinality({i}) = 1 /\ Octets(capture, {i}) = capture[i].len /\ Printed(i) \in Nat
  BY FiniteIndices, OctetsAdd
<1> QED BY <1>1 DEF Tallies

\* An entry for the packets of Y, all of one key, goes into the books of X: it
\* is the first of its key, or it is merged into the one there is.
LEMMA BooksGrow ==
  ASSUME NEW A, NEW list \in Seq(A), NEW X, NEW Y, NEW key, NEW new, NEW b \in A,
         Books(capture, list, X),
         \A i \in Y : PacketKey(capture, i) = key, MergeKey(b) = key,
         Tallies(capture, b, Own(capture, key, X) \cup Y),
         \/ /\ \A n \in DOMAIN list : MergeKey(list[n]) # key
            /\ new = Append(list, b)
         \/ \E n \in DOMAIN list : MergeKey(list[n]) = key /\ new = [list EXCEPT ![n] = b]
  PROVE  Books(capture, new, X \cup Y)
<1> DEFINE Z == X \cup Y
<1>1. Own(capture, key, Z) = Own(capture, key, X) \cup Y
  BY DEF Own
<1>2. \A k : k # key => Own(capture, k, Z) = Own(capture, k, X)
  BY DEF Own
<1>3. /\ \A m, n \in DOMAIN list : MergeKey(list[m]) = MergeKey(list[n]) => m = n
      /\ \A n \in DOMAIN list : Tallies(capture, list[n], Own(capture, MergeKey(list[n]), X))
      /\ \A i \in X : \E n \in DOMAIN list : MergeKey(list[n]) = PacketKey(capture, i)
  BY DEF Books
<1>4. \E p : /\ p \in DOMAIN new /\ new[p] = b
             /\ DOMAIN list \subseteq DOMAIN new /\ DOMAIN new \subseteq DOMAIN list \cup {p}
             /\ \A n \in DOMAIN list : n # p => new[n] = list[n] /\ MergeKey(list[n]) # key
             /\ p \in DOMAIN list => MergeKey(list[p]) = key
  <2>1. CASE /\ \A n \in DOMAIN list : MergeKey(list[n]) # key
             /\ new = Append(list, b)
    <3>1. /\ Len(list) + 1 \in DOMAIN new /\ new[Len(list) + 1] = b
          /\ DOMAIN list \subseteq DOMAIN new
          /\ DOMAIN new \subseteq DOMAIN list \cup {Len(list) + 1}
          /\ \A n \in DOMAIN list : new[n] = list[n] /\ n # Len(list) + 1
      BY <2>1
    <3> QED BY <2>1, <3>1
  <2>2. ASSUME NEW p \in DOMAIN list, MergeKey(list[p]) = key, new = [list EXCEPT ![p] = b]
        PROVE  /\ p \in DOMAIN new /\ new[p] = b
               /\ DOMAIN list \subseteq DOMAIN new /\ DOMAIN new \subseteq DOMAIN list \cup {p}
               /\ \A n \in DOMAIN list : n # p => new[n] = list[n] /\ MergeKey(list[n]) # key
               /\ p \in DOMAIN list => MergeKey(list[p]) = key
    <3>1. DOMAIN new = DOMAIN list /\ new[p] = b /\ \A n \in DOMAIN list : n # p => new[n] = list[n]
      BY <2>2
    <3> QED BY <1>3, <2>2, <3>1
  <2> QED BY <2>1, <2>2
<1>5. PICK p : /\ p \in DOMAIN new /\ new[p] = b
               /\ DOMAIN list \subseteq DOMAIN new /\ DOMAIN new \subseteq DOMAIN list \cup {p}
               /\ \A n \in DOMAIN list : n # p => new[n] = list[n] /\ MergeKey(list[n]) # key
               /\ p \in DOMAIN list => MergeKey(list[p]) = key
  BY <1>4
<1>6. ASSUME NEW m \in DOMAIN new, NEW n \in DOMAIN new, MergeKey(new[m]) = MergeKey(new[n])
      PROVE  m = n
  BY <1>3, <1>5, <1>6
<1>7. ASSUME NEW n \in DOMAIN new
      PROVE  Tallies(capture, new[n], Own(capture, MergeKey(new[n]), Z))
  <2>1. CASE n = p
    BY <1>1, <1>5, <2>1
  <2>2. CASE n # p
    <3>1. n \in DOMAIN list /\ new[n] = list[n] /\ MergeKey(list[n]) # key
      BY <1>5, <2>2
    <3> QED BY <1>2, <1>3, <3>1
  <2> QED BY <2>1, <2>2
<1>8. ASSUME NEW i \in Z
      PROVE  \E n \in DOMAIN new : MergeKey(new[n]) = PacketKey(capture, i)
  <2>1. CASE i \in Y
    BY <1>5, <2>1
  <2>2. CASE i \in X
    <3>1. PICK n \in DOMAIN list : MergeKey(list[n]) = PacketKey(capture, i)
      BY <1>3, <2>2
    <3>2. n \in DOMAIN new /\ MergeKey(new[n]) = PacketKey(capture, i)
      BY <1>5, <3>1
    <3> QED BY <3>2
  <2> QED BY <2>1, <2>2
<1> QED BY <1>6, <1>7, <1>8 DEF Books

\* No entry, no packet.
LEMMA NoBooks ==
  /\ Books(capture, <<>>, {})
  /\ \A X : Books(capture, <<>>, X) => X = {}
<1>1. DOMAIN <<>> = {}
  OBVIOUS
<1> QED BY <1>1 DEF Books

\* The key of a packet, as a sequence of the provers.
LEMMA PacketKeyTyped ==
  ASSUME capture \in Captures, NEW i \in Indices
  PROVE  /\ capture[i] \in Packets /\ PacketKey(capture, i) \in Keys
         /\ PacketKey(capture, i)[1] = capture[i].smac /\ PacketKey(capture, i)[2] = capture[i].dmac
         /\ PacketKey(capture, i)[3] = capture[i].proto
         /\ PacketKey(capture, i)[4] = capture[i].dport
         /\ PacketKey(capture, i)[3] \in Words /\ PacketKey(capture, i)[4] \in Nat
<1> DEFINE U == Words \cup Nat \cup IPs \cup MACs \cup {None}
           p == capture[i]
<1>1. p \in Packets
  BY CaptureTyped DEF Indices
<1>2. /\ p.smac \in U /\ p.dmac \in U /\ p.proto \in U /\ p.dport \in U
      /\ p.proto \in Words /\ p.dport \in Nat
  BY <1>1, PacketTyped
<1> HIDE DEF U, p
<1>3. <<p.smac, p.dmac, p.proto, p.dport>> \in Seq(U)
  BY <1>2, FourTuple
<1> QED BY <1>1, <1>2, <1>3 DEF PacketKey, Keys, U, p

\* Times and bytes of a packet that is absorbed.
LEMMA AbsorbedTimes ==
  ASSUME NEW a \in Accumulators, NEW p \in Packets, NEW stamp \in Nat
  PROVE  LET b == Absorb(a, p, stamp)
         IN /\ b.bytes = a.bytes + p.len /\ b.first = Earlier(a.first, stamp)
            /\ b.last = Later(a.last, stamp) /\ MergeKey(b) = MergeKey(a)
<1> DEFINE b == Absorb(a, p, stamp)
<1>1. b.bytes = a.bytes + p.len /\ b.first = Earlier(a.first, stamp)
      /\ b.last = Later(a.last, stamp)
  BY DEF Absorb, Accumulators
<1>2. b.smac = a.smac /\ b.dmac = a.dmac /\ b.port = a.port /\ b.proto = a.proto
  BY Absorbed
<1> HIDE DEF b
<1> QED BY <1>1, <1>2 DEF MergeKey, b

\* A packet that tshark delivers goes into the books.
LEMMA UpsertBooks ==
  ASSUME capture \in Captures, NEW tab \in Seq(Accumulators), NEW X \in SUBSET Indices,
         NEW i \in Indices, i \notin X, Books(capture, tab, X),
         \A n \in DOMAIN tab : tab[n].key = MergeKey(tab[n])
  PROVE  LET new == Upsert(tab, PacketKey(capture, i), capture[i], Printed(i))
         IN /\ Books(capture, new, X \cup {i})
            /\ \A n \in DOMAIN new : new[n].key = MergeKey(new[n])
<1> DEFINE key == PacketKey(capture, i)
           p == capture[i]
           st == Printed(i)
           new == Upsert(tab, key, p, st)
           mine == Own(capture, key, X)
<1>0. /\ p \in Packets /\ key \in Keys /\ key[3] \in Words /\ key[4] \in Nat
      /\ key = <<p.smac, p.dmac, p.proto, p.dport>> /\ key[3] = p.proto /\ key[4] = p.dport
      /\ st \in Nat /\ st # 0 /\ p.len \in Nat
  <2>1. key = <<p.smac, p.dmac, p.proto, p.dport>>
    BY DEF PacketKey
  <2> QED BY <2>1, PacketKeyTyped, PacketTyped, FiniteIndices
<1>1. mine \in SUBSET Indices /\ {i} \in SUBSET Indices /\ mine \cap {i} = {}
  BY DEF Own
<1>2. \A k \in {i} : PacketKey(capture, k) = key
  OBVIOUS
<1>3. ASSUME \A n \in DOMAIN tab : tab[n].key # key,
             new = Append(tab, Absorb(Accumulator(key, p), p, st))
      PROVE  Books(capture, new, X \cup {i}) /\ \A m \in DOMAIN new : new[m].key = MergeKey(new[m])
  <2> DEFINE a == Accumulator(key, p)
             b == Absorb(a, p, st)
  <2>1. /\ a \in Accumulators /\ a.packets = 0 /\ a.bytes = 0 /\ a.first = 0 /\ a.last = 0
        /\ a.key = key /\ MergeKey(a) = <<p.smac, p.dmac, key[3], key[4]>>
    BY <1>0, AccumulatorTyped DEF Accumulator, MergeKey
  <2> HIDE DEF a, key, p, st, new, mine
  <2>2. /\ b \in Accumulators /\ b.key = key /\ b.packets = 0 + 1 /\ b.bytes = 0 + p.len
        /\ b.first = Earlier(0, st) /\ b.last = Later(0, st) /\ MergeKey(b) = key
    <3>1. MergeKey(a) = key
      BY <1>0, <2>1
    <3>2. b \in Accumulators /\ b.key = a.key /\ b.packets = a.packets + 1
      BY <1>0, <2>1, Absorbed
    <3>3. /\ b.bytes = a.bytes + p.len /\ MergeKey(b) = MergeKey(a)
          /\ b.first = Earlier(a.first, st) /\ b.last = Later(a.last, st)
      BY <1>0, <2>1, AbsorbedTimes
    <3> QED BY <2>1, <3>1, <3>2, <3>3
  <2>3. b.packets = 1 /\ b.bytes = p.len /\ b.first = st /\ b.last = st
    BY <1>0, <2>2 DEF Earlier, Later
  <2> HIDE DEF b
  <2>4. Tallies(capture, b, {i})
    BY <2>3, TalliesOne DEF p, st
  <2>5. mine \cup {i} = {i}
    <3> SUFFICES ASSUME NEW k \in mine
                 PROVE  FALSE
      OBVIOUS
    <3>1. PICK n \in DOMAIN tab : MergeKey(tab[n]) = PacketKey(capture, k)
      BY DEF Books, mine, Own
    <3>2. PacketKey(capture, k) = key
      BY DEF mine, Own
    <3> QED BY <1>3, <3>1, <3>2
  <2>6. new = Append(tab, b) /\ \A n \in DOMAIN tab : MergeKey(tab[n]) # key
    BY <1>3 DEF a, b
  <2>7. Books(capture, new, X \cup {i})
    <3>1. Tallies(capture, b, mine \cup {i})
      BY <2>4, <2>5
    <3> QED BY <1>2, <2>2, <2>6, <3>1, BooksGrow DEF mine
  <2>8. \A m \in DOMAIN new : new[m].key = MergeKey(new[m])
    <3>1. \A n \in DOMAIN new : new[n] = b \/ (n \in DOMAIN tab /\ new[n] = tab[n])
      BY <2>6
    <3> QED BY <2>2, <3>1
  <2> QED BY <2>7, <2>8
<1>4. ASSUME NEW n \in DOMAIN tab, tab[n].key = key,
             new = [tab EXCEPT ![n] = Absorb(@, p, st)]
      PROVE  Books(capture, new, X \cup {i}) /\ \A m \in DOMAIN new : new[m].key = MergeKey(new[m])
  <2> DEFINE a == tab[n]
             b == Absorb(a, p, st)
             c == [packets |-> 1, bytes |-> p.len, first |-> st, last |-> st]
  <2>1. a \in Accumulators /\ a.key = key /\ MergeKey(a) = key /\ Tallies(capture, a, mine)
    BY <1>4 DEF Books
  <2> HIDE DEF a, key, p, st, new, mine
  <2>2. /\ b \in Accumulators /\ b.key = key /\ b.packets = a.packets + 1
        /\ b.bytes = a.bytes + p.len /\ MergeKey(b) = key
        /\ b.first = Earlier(a.first, st) /\ b.last = Later(a.last, st)
    BY <1>0, <2>1, Absorbed, AbsorbedTimes
  <2> HIDE DEF b
  <2>3. Tallies(capture, c, {i})
    BY TalliesOne DEF p, st
  <2>4. a.first \in Nat /\ a.first # 0 /\ a.last \in Nat /\ a.last # 0
    <3>1. \A k \in mine : Printed(k) \in Nat /\ Printed(k) # 0
      BY <1>1, FiniteIndices
    <3> QED BY <2>1, <3>1 DEF Tallies
  <2>5. /\ b.first = IF a.first <= c.first THEN a.first ELSE c.first
        /\ b.last = IF a.last >= c.last THEN a.last ELSE c.last
    BY <1>0, <2>2, <2>4 DEF Earlier, Later
  <2>6. b.packets = a.packets + c.packets /\ b.bytes = a.bytes + c.bytes
    BY <2>2
  <2> HIDE DEF c
  <2>7. Tallies(capture, b, mine \cup {i})
    BY <1>1, <2>1, <2>3, <2>5, <2>6, TalliesAdd
  <2>8. new = [tab EXCEPT ![n] = b]
    BY <1>4 DEF a, b
  <2>9. Books(capture, new, X \cup {i})
    <3>1. n \in DOMAIN tab /\ MergeKey(tab[n]) = key
      BY <2>1 DEF a
    <3> QED BY <1>2, <2>2, <2>7, <2>8, <3>1, BooksGrow DEF mine
  <2>10. \A m \in DOMAIN new : new[m].key = MergeKey(new[m])
    <3>1. \A m \in DOMAIN new : new[m] = b \/ (m \in DOMAIN tab /\ new[m] = tab[m])
      BY <2>8
    <3> QED BY <2>2, <3>1
  <2> QED BY <2>9, <2>10
<1>5. \/ /\ \A n \in DOMAIN tab : tab[n].key # key
         /\ new = Append(tab, Absorb(Accumulator(key, p), p, st))
      \/ \E n \in DOMAIN tab :
           tab[n].key = key /\ new = [tab EXCEPT ![n] = Absorb(@, p, st)]
  <2> HIDE DEF key, p, st
  <2> QED BY UpsertCases
<1>6. Books(capture, new, X \cup {i}) /\ \A m \in DOMAIN new : new[m].key = MergeKey(new[m])
  <2> HIDE DEF key, p, st, new
  <2> QED BY <1>3, <1>4, <1>5
<1> QED BY <1>6

\* Conversations keep the books of the table.
LEMMA ListBooks ==
  ASSUME NEW tab \in Seq(Accumulators), NEW list \in ConversationLists(tab), NEW X,
         Books(capture, tab, X)
  PROVE  Books(capture, list, X)
<1>1. /\ Len(list) = Len(tab) /\ list \in Seq(Talks)
      /\ \A k \in 1 .. Len(tab) : list[k] \in Conversations(tab[k])
  BY ListsOf
<1>2. DOMAIN list = DOMAIN tab
  BY <1>1
<1>3. ASSUME NEW n \in DOMAIN tab
      PROVE  /\ MergeKey(list[n]) = MergeKey(tab[n])
             /\ list[n].packets = tab[n].packets /\ list[n].bytes = tab[n].bytes
             /\ list[n].first = tab[n].first /\ list[n].last = tab[n].last
  <2>1. list[n] \in Conversations(tab[n])
    BY <1>1
  <2> QED BY <2>1 DEF Conversations, MergeKey
<1>4. \A n \in DOMAIN tab : \A Y : Tallies(capture, tab[n], Y) => Tallies(capture, list[n], Y)
  BY <1>3 DEF Tallies
<1> QED BY <1>2, <1>3, <1>4 DEF Books

\* Times and bytes of a merged conversation.
LEMMA MergedTimes ==
  ASSUME NEW old \in Talks, NEW new \in Talks
  PROVE  LET c == MergeConversation(old, new)
         IN /\ c.bytes = old.bytes + new.bytes /\ MergeKey(c) = MergeKey(old)
            /\ c.first = IF old.first <= new.first THEN old.first ELSE new.first
            /\ c.last = IF old.last >= new.last THEN old.last ELSE new.last
<1> DEFINE c == MergeConversation(old, new)
<1>1. /\ old.first \in Int /\ new.first \in Int /\ old.last \in Int /\ new.last \in Int
  BY DEF Talks
<1>2. /\ c.bytes = old.bytes + new.bytes
      /\ c.first = Min({old.first, new.first}) /\ c.last = Max({old.last, new.last})
  BY DEF MergeConversation, Talks
<1>3. c.smac = old.smac /\ c.dmac = old.dmac /\ c.proto = old.proto /\ c.port = old.port
  BY DEF MergeConversation, Talks
<1>4. /\ Min({old.first, new.first}) = IF old.first <= new.first THEN old.first ELSE new.first
      /\ Max({old.last, new.last}) = IF old.last >= new.last THEN old.last ELSE new.last
  BY <1>1, MinOfTwo, MaxOfTwo
<1> HIDE DEF c
<1> QED BY <1>2, <1>3, <1>4 DEF MergeKey, c

\* A conversation of a chunk report goes into the books of the merged list.
LEMMA AddBooks ==
  ASSUME capture \in Captures, NEW list \in Seq(Talks), NEW c \in Talks,
         NEW X \in SUBSET Indices, NEW Y \in SUBSET Indices, X \cap Y = {},
         Books(capture, list, X), Tallies(capture, c, Y),
         \A i \in Y : PacketKey(capture, i) = MergeKey(c)
  PROVE  Books(capture, AddConversation(list, c), X \cup Y)
<1> DEFINE key == MergeKey(c)
           new == AddConversation(list, c)
           mine == Own(capture, key, X)
<1>1. mine \in SUBSET Indices /\ mine \cap Y = {}
  BY DEF Own
<1>2. ASSUME \A n \in DOMAIN list : MergeKey(list[n]) # key, new = Append(list, c)
      PROVE  Books(capture, new, X \cup Y)
  <2>1. mine = {}
    BY <1>2 DEF Books, Own
  <2>2. Tallies(capture, c, mine \cup Y)
    BY <2>1
  <2> HIDE DEF new, key
  <2> QED BY <1>2, <2>2, BooksGrow DEF key
<1>3. ASSUME NEW n \in DOMAIN list, MergeKey(list[n]) = key,
             new = [list EXCEPT ![n] = MergeConversation(@, c)]
      PROVE  Books(capture, new, X \cup Y)
  <2> DEFINE a == list[n]
             b == MergeConversation(a, c)
  <2>1. a \in Talks /\ MergeKey(a) = key /\ Tallies(capture, a, mine)
    BY <1>3 DEF Books
  <2> HIDE DEF a, key, new, mine
  <2>2. b \in Talks /\ b.packets = a.packets + c.packets
    BY <2>1, MergedConversation
  <2>3. /\ b.bytes = a.bytes + c.bytes /\ MergeKey(b) = key
        /\ b.first = IF a.first <= c.first THEN a.first ELSE c.first
        /\ b.last = IF a.last >= c.last THEN a.last ELSE c.last
    BY <2>1, MergedTimes
  <2>4. new = [list EXCEPT ![n] = b] /\ MergeKey(list[n]) = key
    BY <1>3, <2>1 DEF a, b
  <2> HIDE DEF b
  <2>5. Tallies(capture, b, mine \cup Y)
    BY <1>1, <2>1, <2>2, <2>3, TalliesAdd
  <2> QED BY <2>2, <2>3, <2>4, <2>5, BooksGrow DEF mine, key
<1>4. \/ /\ \A n \in DOMAIN list : MergeKey(list[n]) # key
         /\ new = Append(list, c)
      \/ \E n \in DOMAIN list :
           MergeKey(list[n]) = key /\ new = [list EXCEPT ![n] = MergeConversation(@, c)]
  BY AddCases
<1>5. Books(capture, new, X \cup Y)
  <2> HIDE DEF new, key
  <2> QED BY <1>2, <1>3, <1>4
<1> QED BY <1>5

\* Merging the report of one part of the packets into that of others.
LEMMA MergeBooks ==
  ASSUME capture \in Captures, NEW list \in Seq(Talks), NEW report \in Seq(Talks),
         NEW X \in SUBSET Indices, NEW Y \in SUBSET Indices, X \cap Y = {},
         Books(capture, list, X), Books(capture, report, Y)
  PROVE  Books(capture, FoldLeft(AddConversation, list, report), X \cup Y)
<1> DEFINE n == Len(report)
           From(k) == {i \in Y : \E j \in 1 .. k : PacketKey(capture, i) = MergeKey(report[j])}
<1>0. n \in Nat /\ DOMAIN report = 1 .. n /\ \A k \in 1 .. n : report[k] \in Talks
  OBVIOUS
<1>1. PICK f : /\ f[0] = list /\ f[n] = FoldLeft(AddConversation, list, report)
               /\ \A k \in 0 .. n - 1 : f[k + 1] = AddConversation(f[k], report[k + 1])
  BY MergeFolds
<1>2. From(0) = {} /\ From(n) = Y
  BY <1>0 DEF Books
<1>3. ASSUME NEW k \in 0 .. n - 1
      PROVE  LET mine == Own(capture, MergeKey(report[k + 1]), Y)
             IN From(k + 1) = From(k) \cup mine /\ From(k) \cap mine = {}
  <2>1. /\ k + 1 \in 1 .. n /\ k + 1 \notin 1 .. k
        /\ 1 .. k + 1 = (1 .. k) \cup {k + 1} /\ 1 .. k \subseteq 1 .. n
    BY <1>0
  <2>2. From(k + 1) = From(k) \cup Own(capture, MergeKey(report[k + 1]), Y)
    BY <2>1 DEF Own
  <2>3. ASSUME NEW i \in From(k), i \in Own(capture, MergeKey(report[k + 1]), Y)
        PROVE  FALSE
    <3>1. PICK j \in 1 .. k : PacketKey(capture, i) = MergeKey(report[j])
      OBVIOUS
    <3>2. MergeKey(report[j]) = MergeKey(report[k + 1])
      BY <2>3, <3>1 DEF Own
    <3>3. j = k + 1
      BY <1>0, <2>1, <3>1, <3>2 DEF Books
    <3> QED BY <2>1, <3>1, <3>3
  <2> QED BY <2>2, <2>3
<1> DEFINE Fine(k) == f[k] \in Seq(Talks) /\ Books(capture, f[k], X \cup From(k))
           G == {k \in 0 .. n : Fine(k)}
<1>4. 0 \in G
  <2>1. 0 \in 0 .. n
    BY <1>0
  <2>2. X \cup From(0) = X
    BY <1>2
  <2>3. Fine(0)
    <3> HIDE DEF From
    <3> QED BY <1>1, <2>2
  <2> HIDE DEF Fine
  <2> QED BY <2>1, <2>3
<1>5. ASSUME NEW k \in 0 .. n - 1, k \in G
      PROVE  k + 1 \in G
  <2> DEFINE c == report[k + 1]
             mine == Own(capture, MergeKey(c), Y)
             Z == X \cup From(k)
             l == f[k]
  <2>1. k + 1 \in 1 .. n /\ k + 1 \in 0 .. n /\ c \in Talks
    BY <1>0
  <2>2. l \in Seq(Talks) /\ Books(capture, l, Z)
    BY <1>5
  <2>3. f[k + 1] = AddConversation(l, c)
    BY <1>1
  <2>4. /\ From(k + 1) = From(k) \cup mine /\ From(k) \cap mine = {}
        /\ mine \subseteq Y /\ From(k) \subseteq Y
    BY <1>3 DEF Own
  <2>5. Tallies(capture, c, mine) /\ \A i \in mine : PacketKey(capture, i) = MergeKey(c)
    BY <1>0, <2>1 DEF Books, Own
  <2> HIDE DEF From, c, mine, l
  <2>6. Z \in SUBSET Indices /\ mine \in SUBSET Indices /\ Z \cap mine = {}
        /\ X \cup From(k + 1) = Z \cup mine
    BY <2>4
  <2> HIDE DEF Z
  <2>7. Books(capture, AddConversation(l, c), Z \cup mine)
    BY <2>1, <2>2, <2>5, <2>6, AddBooks
  <2>8. AddConversation(l, c) \in Seq(Talks)
    BY <2>1, <2>2, AddConversationAdds
  <2>9. Fine(k + 1)
    BY <2>3, <2>6, <2>7, <2>8
  <2> QED BY <2>1, <2>9
<1>6. Fine(n)
  <2> HIDE DEF Fine
  <2>1. \A k \in 0 .. n : k \in G
    <3> HIDE DEF G, n
    <3> QED BY <1>0, <1>4, <1>5, UpTo
  <2> QED BY <1>0, <2>1
<1> QED BY <1>1, <1>2, <1>6

-----------------------------------------------------------------------------
(* The reports of the chunks, each with the books of its part.              *)

Parts(cap, rs, X) ==
  \E part \in [DOMAIN rs -> SUBSET (1 .. Len(cap))] :
    /\ X = UNION {part[k] : k \in DOMAIN rs}
    /\ \A j, k \in DOMAIN rs : j # k => part[j] \cap part[k] = {}
    /\ \A k \in DOMAIN rs : Books(cap, rs[k], part[k])

\* No report, no packet.
LEMMA NoParts ==
  /\ Parts(capture, <<>>, {})
  /\ \A X : Parts(capture, <<>>, X) => X = {}
<1>1. DOMAIN <<>> = {}
  OBVIOUS
<1>2. \E part : part \in [{} -> SUBSET Indices]
  <2>1. [k \in {} |-> {}] \in [{} -> SUBSET Indices]
    OBVIOUS
  <2> QED BY <2>1
<1> QED BY <1>1, <1>2 DEF Parts, Indices

\* One more report.
LEMMA PartsAppend ==
  ASSUME NEW rs \in Seq(Seq(Talks)), NEW X, NEW list \in Seq(Talks), NEW Y \in SUBSET Indices,
         Parts(capture, rs, X), Books(capture, list, Y), X \cap Y = {}
  PROVE  Parts(capture, Append(rs, list), X \cup Y)
<1> DEFINE n == Len(rs)
           new == Append(rs, list)
<1>1. /\ n \in Nat /\ DOMAIN rs = 1 .. n /\ DOMAIN new = 1 .. n + 1 /\ new[n + 1] = list
      /\ \A k \in 1 .. n : new[k] = rs[k]
  OBVIOUS
<1> HIDE DEF new
<1>2. PICK part \in [1 .. n -> SUBSET Indices] :
        /\ X = UNION {part[k] : k \in 1 .. n}
        /\ \A j, k \in 1 .. n : j # k => part[j] \cap part[k] = {}
        /\ \A k \in 1 .. n : Books(capture, rs[k], part[k])
  BY <1>1 DEF Parts, Indices
<1> DEFINE more == [k \in 1 .. n + 1 |-> IF k = n + 1 THEN Y ELSE part[k]]
<1>3. /\ \A k \in 1 .. n + 1 : k = n + 1 \/ k \in 1 .. n
      /\ \A k \in 1 .. n : k # n + 1 /\ k \in 1 .. n + 1
      /\ n + 1 \in 1 .. n + 1
  BY <1>1
<1>4. more \in [1 .. n + 1 -> SUBSET Indices] /\ more[n + 1] = Y
      /\ \A k \in 1 .. n : more[k] = part[k]
  BY <1>2, <1>3
<1> HIDE DEF more
<1>5. X \cup Y = UNION {more[k] : k \in 1 .. n + 1}
  BY <1>2, <1>3, <1>4
<1>6. \A j, k \in 1 .. n + 1 : j # k => more[j] \cap more[k] = {}
  <2>1. \A k \in 1 .. n : part[k] \subseteq X
    BY <1>2
  <2> QED BY <1>2, <1>3, <1>4, <2>1
<1>7. \A k \in 1 .. n + 1 : Books(capture, new[k], more[k])
  BY <1>1, <1>2, <1>3, <1>4
<1>8. Parts(capture, new, X \cup Y)
  BY <1>1, <1>4, <1>5, <1>6, <1>7 DEF Parts, Indices
<1> QED BY <1>8 DEF new

\* The first report is taken.
LEMMA PartsTaken ==
  ASSUME NEW rs \in Seq(Seq(Talks)), rs # <<>>, NEW X, Parts(capture, rs, X)
  PROVE  \E Y, Z \in SUBSET Indices :
           /\ Y \cap Z = {} /\ Y \cup Z = X
           /\ Books(capture, Head(rs), Y) /\ Parts(capture, Tail(rs), Z)
<1> DEFINE n == Len(Tail(rs))
           new == Tail(rs)
<1>1. /\ n \in Nat /\ DOMAIN rs = 1 .. n + 1 /\ DOMAIN new = 1 .. n /\ Head(rs) = rs[1]
      /\ \A k \in 1 .. n : new[k] = rs[k + 1]
  OBVIOUS
<1> HIDE DEF new, n
<1>2. PICK part \in [1 .. n + 1 -> SUBSET Indices] :
        /\ X = UNION {part[k] : k \in 1 .. n + 1}
        /\ \A j, k \in 1 .. n + 1 : j # k => part[j] \cap part[k] = {}
        /\ \A k \in 1 .. n + 1 : Books(capture, rs[k], part[k])
  BY <1>1 DEF Parts, Indices
<1> DEFINE rest == [k \in 1 .. n |-> part[k + 1]]
           Y == part[1]
           Z == UNION {rest[k] : k \in 1 .. n}
<1>3. /\ \A k \in 1 .. n : k + 1 \in 1 .. n + 1 /\ k + 1 # 1
      /\ \A k \in 1 .. n + 1 : k = 1 \/ (k - 1 \in 1 .. n /\ (k - 1) + 1 = k)
      /\ 1 \in 1 .. n + 1
  BY <1>1
<1>4. /\ rest \in [1 .. n -> SUBSET Indices] /\ Y \in SUBSET Indices
      /\ \A k \in 1 .. n : rest[k] = part[k + 1]
  BY <1>2, <1>3
<1> HIDE DEF rest
<1>5. Z \in SUBSET Indices
  BY <1>4
<1>6. Y \cap Z = {}
  BY <1>2, <1>3, <1>4
<1>7. Y \cup Z = X
  <2>1. ASSUME NEW x \in X
        PROVE  x \in Y \cup Z
    <3>1. PICK k \in 1 .. n + 1 : x \in part[k]
      BY <1>2
    <3>2. CASE k = 1
      BY <3>1, <3>2
    <3>3. CASE k - 1 \in 1 .. n /\ (k - 1) + 1 = k
      <4>1. x \in rest[k - 1]
        BY <1>4, <3>1, <3>3
      <4> QED BY <3>3, <4>1
    <3> QED BY <1>3, <3>2, <3>3
  <2>2. Y \subseteq X
    BY <1>2, <1>3
  <2>3. Z \subseteq X
    <3> SUFFICES ASSUME NEW k \in 1 .. n, NEW x \in rest[k]
                 PROVE  x \in X
      OBVIOUS
    <3>1. x \in part[k + 1] /\ k + 1 \in 1 .. n + 1
      BY <1>3, <1>4
    <3> QED BY <1>2, <3>1
  <2> QED BY <2>1, <2>2, <2>3
<1>8. Books(capture, Head(rs), Y)
  BY <1>1, <1>2, <1>3
<1>9. Parts(capture, new, Z)
  <2>1. \A j, k \in 1 .. n : j # k => rest[j] \cap rest[k] = {}
    <3> SUFFICES ASSUME NEW j \in 1 .. n, NEW k \in 1 .. n, j # k
                 PROVE  rest[j] \cap rest[k] = {}
      OBVIOUS
    <3>1. j + 1 # k + 1 /\ j + 1 \in 1 .. n + 1 /\ k + 1 \in 1 .. n + 1
      BY <1>3
    <3> QED BY <1>2, <1>4, <3>1
  <2>2. \A k \in 1 .. n : Books(capture, new[k], rest[k])
    BY <1>1, <1>2, <1>3, <1>4
  <2> QED BY <1>1, <1>4, <2>1, <2>2 DEF Parts, Indices
<1>10. Parts(capture, Tail(rs), Z)
  BY <1>9 DEF new
<1> HIDE DEF Y, Z
<1> QED BY <1>4, <1>5, <1>6, <1>7, <1>8, <1>10

-----------------------------------------------------------------------------
(* Every stage of the way has the books of what was read.                   *)

Delivered(cap, from, to) == {i \in from + 1 .. to : ~Skippable(cap[i])}

OnePass ==
  faults = 0 /\ used \subseteq {"python"} /\ cli.threshold = 0 =>
    /\ phase = "read" =>
         /\ start <= pos
         /\ \A n \in DOMAIN table : table[n].key = MergeKey(table[n])
         /\ Books(capture, table, Delivered(capture, start, pos))
         /\ Parts(capture, reports, Delivered(capture, 0, start))
    /\ phase = "merge" =>
         \E X, Y \in SUBSET (1 .. Len(capture)) :
           /\ X \cap Y = {} /\ X \cup Y = Delivered(capture, 0, Len(capture))
           /\ Books(capture, convs, X) /\ Parts(capture, reports, Y)
    /\ phase = "dissected" => Books(capture, convs, Delivered(capture, 0, Len(capture)))

\* One packet more, one piece more.
LEMMA Deliveries ==
  ASSUME capture \in Captures, NEW m \in Nat, NEW n \in Nat, m <= n, n <= Len(capture)
  PROVE  /\ Delivered(capture, m, n) \in SUBSET Indices
         /\ Delivered(capture, n, n) = {}
         /\ Delivered(capture, 0, m) \cap Delivered(capture, m, n) = {}
         /\ Delivered(capture, 0, m) \cup Delivered(capture, m, n) = Delivered(capture, 0, n)
         /\ n + 1 \notin Delivered(capture, m, n)
         /\ Delivered(capture, m, n + 1)
              = Delivered(capture, m, n)
                  \cup (IF Skippable(capture[n + 1]) THEN {} ELSE {n + 1})
<1>1. Len(capture) \in Nat
  BY CaptureTyped
<1>2. Delivered(capture, m, n) \in SUBSET Indices
  BY <1>1 DEF Delivered, Indices
<1>3. Delivered(capture, n, n) = {}
  BY DEF Delivered
<1>4. /\ Delivered(capture, 0, m) \cap Delivered(capture, m, n) = {}
      /\ Delivered(capture, 0, m) \cup Delivered(capture, m, n) = Delivered(capture, 0, n)
  BY DEF Delivered
<1>5. n + 1 \notin Delivered(capture, m, n)
  BY DEF Delivered
<1>6. m + 1 .. n + 1 = (m + 1 .. n) \cup {n + 1}
  OBVIOUS
<1>7. CASE Skippable(capture[n + 1])
  BY <1>2, <1>3, <1>4, <1>5, <1>6, <1>7 DEF Delivered
<1>8. CASE ~Skippable(capture[n + 1])
  BY <1>2, <1>3, <1>4, <1>5, <1>6, <1>8 DEF Delivered
<1> QED BY <1>7, <1>8

\* Without collapsing, tshark's key is the packet's.
LEMMA PlainKey ==
  ASSUME cli.threshold = 0, NEW ports, NEW i
  PROVE  TsharkKey(ports, capture[i]) = PacketKey(capture, i)
<1>1. ~Counted(capture[i])
  BY DEF Counted
<1> QED BY <1>1 DEF TsharkKey, PacketKey

\* The packet that tshark reads next.
LEMMA PacketIntoBooks ==
  ASSUME DissectionTypes, TsharkPacket, cli.threshold = 0, start <= pos,
         \A n \in DOMAIN table : table[n].key = MergeKey(table[n]),
         Books(capture, table, Delivered(capture, start, pos))
  PROVE  /\ \A n \in DOMAIN table' : table'[n].key = MergeKey(table'[n])
         /\ Books(capture, table', Delivered(capture, start, pos + 1))
<1> DEFINE X == Delivered(capture, start, pos)
           i == pos + 1
<1>1. /\ pos < PieceEnd /\ dpi = "python" /\ pos \in Nat /\ start \in Nat /\ capture \in Captures
      /\ i \in Indices /\ pos <= Len(capture) /\ table \in Seq(Accumulators)
  BY NextPacket, CaptureTyped DEF TsharkPacket, DissectionTypes, Indices
<1>2. /\ X \in SUBSET Indices /\ i \notin X
      /\ Delivered(capture, start, i) = X \cup (IF Skippable(capture[i]) THEN {} ELSE {i})
  BY <1>1, Deliveries
<1>3. CASE Skippable(capture[i])
  <2>1. table' = table /\ Delivered(capture, start, i) = X
    BY <1>2, <1>3 DEF TsharkPacket
  <2> QED BY <2>1
<1>4. CASE ~Skippable(capture[i])
  <2>1. Delivered(capture, start, i) = X \cup {i}
    BY <1>2, <1>4
  <2>2. Stamp(i) = Printed(i)
    BY <1>1 DEF Stamp, Printed
  <2>3. table' = Upsert(table, PacketKey(capture, i), capture[i], Printed(i))
    BY <1>4, <2>2, PlainKey DEF TsharkPacket
  <2> HIDE DEF X, i
  <2>4. /\ Books(capture, table', X \cup {i})
        /\ \A n \in DOMAIN table' : table'[n].key = MergeKey(table'[n])
    BY <1>1, <1>2, <2>3, UpsertBooks DEF X
  <2> QED BY <2>1, <2>4 DEF X, i
<1> QED BY <1>3, <1>4

\* Every step of Stage 2 keeps the books.
LEMMA OnePassStep ==
  ASSUME IInv, OnePass, DissectionNext
  PROVE  OnePass'
<1> SUFFICES ASSUME faults' = 0, used' \subseteq {"python"}, cli'.threshold = 0
             PROVE  OnePass'
  BY DEF OnePass
<1> USE DEF IInv
<1>0. /\ capture \in Captures /\ Len(capture) \in Nat /\ faults \in Nat /\ start \in Nat
      /\ pos \in Nat /\ pos <= Len(capture) /\ table \in Seq(Accumulators)
      /\ convs \in Seq(Talks) /\ reports \in Seq(Seq(Talks))
  BY CaptureTyped DEF DissectionTypes
<1>1. /\ capture' = capture /\ cli' = cli /\ used \subseteq used'
      /\ faults' = faults \/ faults' = faults + 1
  BY DEF DissectionNext, UsePython, UseBronze, FallBack, Choose, DpiFails, TsharkPacket,
         TsharkDies, ReadBronze, FinishFile, FinishChunk, MergeReport, given
<1>2. faults = 0 /\ faults' = faults /\ used \subseteq {"python"} /\ cli.threshold = 0
  BY <1>0, <1>1
<1>3. dpi # "bronze"
  BY <1>2 DEF Progress
<1>4. phase = "read" =>
        /\ start <= pos
        /\ \A n \in DOMAIN table : table[n].key = MergeKey(table[n])
        /\ Books(capture, table, Delivered(capture, start, pos))
        /\ Parts(capture, reports, Delivered(capture, 0, start))
  BY <1>2 DEF OnePass
<1>5. CASE UsePython
  <2>1. UNCHANGED <<capture, start, pos, table, reports, phase>> /\ phase = "read"
    BY <1>5 DEF UsePython, Choose, given
  <2> QED BY <1>4, <2>1 DEF OnePass
<1>6. CASE UseBronze
  <2>1. "bronze" \in used'
    BY <1>6 DEF UseBronze, Choose
  <2> QED BY <2>1
<1>7. CASE FallBack \/ DpiFails \/ TsharkDies
  BY <1>0, <1>2, <1>7 DEF FallBack, DpiFails, TsharkDies
<1>8. CASE TsharkPacket
  <2>1. /\ UNCHANGED <<capture, start, reports, phase>> /\ phase = "read" /\ pos' = pos + 1
    BY <1>8 DEF TsharkPacket, given
  <2>2. /\ \A n \in DOMAIN table' : table'[n].key = MergeKey(table'[n])
        /\ Books(capture, table', Delivered(capture, start, pos + 1))
    BY <1>2, <1>4, <1>8, <2>1, PacketIntoBooks
  <2>3. start' <= pos'
    BY <1>0, <1>4, <2>1
  <2> QED BY <1>4, <2>1, <2>2, <2>3 DEF OnePass
<1>9. CASE ReadBronze
  BY <1>3, <1>9 DEF ReadBronze
<1>10. CASE FinishFile
  <2>1. /\ phase = "read" /\ phase' = "dissected" /\ cli.mode # "files" /\ pos = PieceEnd
    BY <1>10 DEF FinishFile
  <2>2. reports = <<>> /\ pos = Len(capture)
    BY <2>1, PieceEndIs DEF Progress
  <2>3. Delivered(capture, 0, start) = {}
    BY <1>4, <2>1, <2>2, NoParts
  <2>4. Delivered(capture, 0, start) \cup Delivered(capture, start, pos)
          = Delivered(capture, 0, pos)
    BY <1>0, <1>4, <2>1, Deliveries
  <2>5. Books(capture, convs', Delivered(capture, start, pos))
    BY <1>0, <1>4, <1>10, <2>1, ListBooks DEF FinishFile
  <2>6. Books(capture, convs', Delivered(capture, 0, Len(capture)))
    BY <2>2, <2>3, <2>4, <2>5
  <2> QED BY <1>1, <2>1, <2>6 DEF OnePass
<1>11. CASE FinishChunk
  <2> DEFINE X == Delivered(capture, 0, start)
             Y == Delivered(capture, start, pos)
  <2>1. /\ phase = "read" /\ phase' = IF pos = Len(capture) THEN "merge" ELSE "read"
        /\ start' = pos /\ table' = <<>> /\ pos' = pos /\ convs' = convs /\ convs = <<>>
    BY <1>11 DEF FinishChunk, Progress
  <2>2. PICK list \in ConversationLists(table) : reports' = Append(reports, list)
    BY <1>11 DEF FinishChunk
  <2>3. list \in Seq(Talks) /\ Books(capture, list, Y)
    BY <1>0, <1>4, <2>1, ListBooks, ListsOf
  <2>4. X \cap Y = {} /\ X \cup Y = Delivered(capture, 0, pos) /\ Y \in SUBSET Indices
    BY <1>0, <1>4, <2>1, Deliveries
  <2>5. Parts(capture, reports', Delivered(capture, 0, pos))
    <3>1. Parts(capture, reports, X)
      BY <1>4, <2>1
    <3> HIDE DEF X, Y
    <3>2. Parts(capture, Append(reports, list), X \cup Y)
      BY <1>0, <2>3, <2>4, <3>1, PartsAppend
    <3> QED BY <2>2, <2>4, <3>2
  <2>6. Delivered(capture, pos, pos) = {} /\ Delivered(capture, 0, pos) \in SUBSET Indices
    BY <1>0, Deliveries
  <2>7. CASE phase' = "read"
    <3>1. start' <= pos' /\ DOMAIN table' = {}
      BY <1>0, <2>1
    <3>2. Books(capture, table', Delivered(capture, start', pos'))
      BY <2>1, <2>6, NoBooks
    <3> QED BY <1>1, <2>1, <2>5, <2>7, <3>1, <3>2 DEF OnePass
  <2>8. CASE phase' = "merge"
    <3>1. pos = Len(capture)
      BY <2>1, <2>8
    <3>2. Books(capture, convs', {})
      BY <2>1, NoBooks
    <3>3. \E U, V \in SUBSET (1 .. Len(capture)) :
            /\ U \cap V = {} /\ U \cup V = Delivered(capture, 0, Len(capture))
            /\ Books(capture, convs', U) /\ Parts(capture, reports', V)
      <4>1. /\ {} \in SUBSET (1 .. Len(capture))
            /\ Delivered(capture, 0, pos) \in SUBSET (1 .. Len(capture))
        BY <2>6 DEF Indices
      <4> QED BY <2>5, <3>1, <3>2, <4>1
    <3> QED BY <1>1, <2>8, <3>3 DEF OnePass
  <2> QED BY <2>1, <2>7, <2>8
<1>12. CASE MergeReport
  <2>1. phase = "merge"
    BY <1>12 DEF MergeReport
  <2>2. PICK X \in SUBSET Indices, Y \in SUBSET Indices :
          /\ X \cap Y = {} /\ X \cup Y = Delivered(capture, 0, Len(capture))
          /\ Books(capture, convs, X) /\ Parts(capture, reports, Y)
    BY <1>2, <2>1 DEF OnePass, Indices
  <2>3. CASE reports = <<>>
    <3>1. phase' = "dissected" /\ convs' = convs
      BY <1>12, <2>3 DEF MergeReport
    <3>2. Y = {}
      BY <2>2, <2>3, NoParts
    <3>3. Books(capture, convs, Delivered(capture, 0, Len(capture)))
      BY <2>2, <3>2
    <3> QED BY <1>1, <3>1, <3>3 DEF OnePass
  <2>4. CASE reports # <<>>
    <3>1. /\ phase' = "merge" /\ reports' = Tail(reports)
          /\ convs' = FoldLeft(AddConversation, convs, Head(reports))
      BY <1>12, <2>1, <2>4 DEF MergeReport
    <3>2. PICK U \in SUBSET Indices, V \in SUBSET Indices :
            /\ U \cap V = {} /\ U \cup V = Y
            /\ Books(capture, Head(reports), U) /\ Parts(capture, Tail(reports), V)
      BY <1>0, <2>2, <2>4, PartsTaken
    <3>3. /\ X \cap U = {} /\ (X \cup U) \cap V = {} /\ X \cup U \in SUBSET Indices
          /\ (X \cup U) \cup V = Delivered(capture, 0, Len(capture))
      BY <2>2, <3>2
    <3>4. Head(reports) \in Seq(Talks)
      BY <1>0, <2>4
    <3>5. Books(capture, convs', X \cup U)
      BY <1>0, <2>2, <3>1, <3>2, <3>3, <3>4, MergeBooks
    <3>6. \E P, Q \in SUBSET (1 .. Len(capture)) :
            /\ P \cap Q = {} /\ P \cup Q = Delivered(capture, 0, Len(capture))
            /\ Books(capture, convs', P) /\ Parts(capture, reports', Q)
      <4>1. X \cup U \in SUBSET (1 .. Len(capture)) /\ V \in SUBSET (1 .. Len(capture))
        BY <3>3 DEF Indices
      <4>2. Parts(capture, reports', V)
        BY <3>1, <3>2
      <4> HIDE DEF Indices
      <4> QED BY <3>3, <3>5, <4>1, <4>2
    <3> QED BY <1>1, <3>1, <3>6 DEF OnePass
  <2> QED BY <2>3, <2>4
<1> QED BY <1>5, <1>6, <1>7, <1>8, <1>9, <1>10, <1>11, <1>12 DEF DissectionNext

\* The books say what the property says.
LEMMA OnePassFromInv ==
  ASSUME DissectionTypes, OnePass
  PROVE  ChunksMatchOnePass
<1> SUFFICES ASSUME Dissected, faults = 0, used = {"python"}, cli.threshold = 0,
                    NEW n \in DOMAIN convs
             PROVE  LET c == convs[n]
                        own == {i \in 1 .. Len(capture) :
                                  <<capture[i].smac, capture[i].dmac, capture[i].proto,
                                    capture[i].dport>> = MergeKey(c)}
                        stamps == {100 + TextRank[i] : i \in own}
                    IN /\ c.packets = Cardinality(own)
                       /\ c.bytes = FoldSet(LAMBDA i, sum : sum + capture[i].len, 0, own)
                       /\ c.first = Min(stamps) /\ c.last = Max(stamps)
  BY DEF ChunksMatchOnePass
<1> DEFINE c == convs[n]
           key == MergeKey(c)
           own == {i \in 1 .. Len(capture) :
                     <<capture[i].smac, capture[i].dmac, capture[i].proto,
                       capture[i].dport>> = key}
           stamps == {100 + TextRank[i] : i \in own}
           X == Delivered(capture, 0, Len(capture))
<1>1. Tallies(capture, c, Own(capture, key, X)) /\ capture \in Captures
  BY DEF OnePass, Dissected, Books, DissectionTypes
<1>2. own = Own(capture, key, X)
  <2>1. PICK i \in Own(capture, key, X) : TRUE
    BY <1>1 DEF Tallies
  <2>2. /\ ~Skippable(capture[i]) /\ PacketKey(capture, i) = key
    BY <2>1 DEF Own, Delivered
  <2>3. \A k \in 1 .. Len(capture) : PacketKey(capture, k) = key => ~Skippable(capture[k])
    <3> SUFFICES ASSUME NEW k \in 1 .. Len(capture), PacketKey(capture, k) = key
                 PROVE  ~Skippable(capture[k])
      OBVIOUS
    <3>1. PacketKey(capture, k) = PacketKey(capture, i)
      BY <2>2
    <3>2. /\ capture[k].smac = capture[i].smac /\ capture[k].dmac = capture[i].dmac
          /\ capture[k].proto = capture[i].proto
      BY <3>1 DEF PacketKey
    <3> QED BY <2>2, <3>2 DEF Skippable
  <2>4. X = {k \in 1 .. Len(capture) : ~Skippable(capture[k])}
    BY DEF Delivered
  <2> HIDE DEF X, key
  <2> QED BY <2>3, <2>4 DEF Own, PacketKey
<1> HIDE DEF c, key, own, X
<1>3. own \in SUBSET Indices
  BY DEF own, Indices
<1>4. Tallies(capture, c, own)
  BY <1>1, <1>2
<1>5. c.packets = Cardinality(own)
  BY <1>4 DEF Tallies
<1>6. c.bytes = FoldSet(LAMBDA i, sum : sum + capture[i].len, 0, own)
  BY <1>1, <1>3, <1>4, OctetsOfFold DEF Tallies
<1>7. /\ c.first \in stamps /\ c.last \in stamps
      /\ \A s \in stamps : s \in Nat /\ c.first <= s /\ s <= c.last
  <2>1. \A i \in own : Printed(i) \in Nat
    BY <1>1, <1>3, FiniteIndices
  <2> QED BY <1>4, <2>1 DEF Tallies, Printed
<1>8. c.first = Min(stamps) /\ c.last = Max(stamps)
  <2> HIDE DEF stamps
  <2>1. c.first \in Nat /\ c.last \in Nat
    BY <1>7
  <2>2. \E x \in stamps : \A s \in stamps : x <= s
    BY <1>7
  <2>3. \E x \in stamps : \A s \in stamps : x >= s
    BY <1>7, <2>1
  <2>4. Min(stamps) \in stamps /\ \A s \in stamps : Min(stamps) <= s
    BY <2>2 DEF Min
  <2>5. Max(stamps) \in stamps /\ \A s \in stamps : Max(stamps) >= s
    BY <2>3 DEF Max
  <2>6. Min(stamps) <= c.first /\ c.first <= Min(stamps) /\ Min(stamps) \in Nat
    BY <1>7, <2>4
  <2>7. Max(stamps) >= c.last /\ Max(stamps) <= c.last /\ Max(stamps) \in Nat
    BY <1>7, <2>5
  <2> QED BY <2>1, <2>6, <2>7
<1> QED BY <1>5, <1>6, <1>8 DEF c, own, key
=============================================================================
