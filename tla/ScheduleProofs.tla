---------------------------- MODULE ScheduleProofs ----------------------------
(***************************************************************************)
(* Sort and Schedule of internal/vcontext, for every graph an extraction   *)
(* may return, every number of streams and every budget: what Sort takes   *)
(* level by level and what it refuses, that a task starts behind its       *)
(* prerequisites and with their outputs, that a blocked one names a cause, *)
(* that nothing is left out, and that Schedule implements TaskOrder.       *)
(***************************************************************************)
EXTENDS Schedule, Induction

\* The types of a graph: finitely many ids, not more than the order lists.
LEMMA GraphFacts ==
  ASSUME NEW gr \in Graphs
  PROVE  /\ Len(gr.order) \in Nat
         /\ IdsOf(gr) = {gr.order[i] : i \in 1 .. Len(gr.order)}
         /\ IdsOf(gr) \subseteq Names \cup {NoName}
         /\ IsFiniteSet(IdsOf(gr)) /\ Cardinality(IdsOf(gr)) \in Nat
         /\ Cardinality(IdsOf(gr)) <= Len(gr.order)
<1>1. gr.order \in Seq(Names \cup {NoName})
  BY ScheduleAssumption
<1>2. DOMAIN gr.order = 1 .. Len(gr.order) /\ Len(gr.order) \in Nat
  BY <1>1
<1>3. IdsOf(gr) = {gr.order[i] : i \in 1 .. Len(gr.order)}
  BY <1>2 DEF IdsOf, ToSet
<1>4. IdsOf(gr) \subseteq Names \cup {NoName}
  BY <1>1, <1>2, <1>3
<1>5. /\ IsFiniteSet(IdsOf(gr)) /\ Cardinality(IdsOf(gr)) \in Nat
      /\ Cardinality(IdsOf(gr)) <= Len(gr.order)
  <2> DEFINE f == [i \in 1 .. Len(gr.order) |-> gr.order[i]]
  <2>1. f \in Surjection(1 .. Len(gr.order), IdsOf(gr))
    BY <1>3, Zenon DEF Surjection
  <2> HIDE DEF f
  <2>2. IsFiniteSet(1 .. Len(gr.order)) /\ Cardinality(1 .. Len(gr.order)) = Len(gr.order)
    <3>1. 1 \in Int /\ Len(gr.order) \in Int
      BY <1>2
    <3>2. /\ IsFiniteSet(1 .. Len(gr.order))
          /\ Cardinality(1 .. Len(gr.order)) =
               IF 1 > Len(gr.order) THEN 0 ELSE Len(gr.order) - 1 + 1
      BY <3>1, FS_Interval
    <3> QED
      BY <1>2, <3>2
  <2> QED
    BY <2>1, <2>2, FS_Surjection, FS_CardinalityType
<1> QED
  BY <1>2, <1>3, <1>4, <1>5

\* The prerequisites of a task are names, finitely many listings.
LEMMA DepsOfFacts ==
  ASSUME NEW gr \in Graphs, NEW t \in Names
  PROVE  /\ gr.deps[t] \in Seq(Names)
         /\ DepsOf(gr, t) = {gr.deps[t][i] : i \in DOMAIN gr.deps[t]}
         /\ DepsOf(gr, t) \subseteq Names
         /\ DOMAIN gr.deps[t] = 1 .. Len(gr.deps[t])
         /\ Len(gr.deps[t]) \in Nat
         /\ IsFiniteSet(DOMAIN gr.deps[t])
         /\ Cardinality(DOMAIN gr.deps[t]) = Len(gr.deps[t])
<1>1. gr.deps[t] \in Seq(Names)
  BY ScheduleAssumption
<1>2. DOMAIN gr.deps[t] = 1 .. Len(gr.deps[t]) /\ Len(gr.deps[t]) \in Nat
  BY <1>1
<1>3. DepsOf(gr, t) = {gr.deps[t][i] : i \in DOMAIN gr.deps[t]}
  BY DEF DepsOf, ToSet
<1>4. DepsOf(gr, t) \subseteq Names
  BY <1>1, <1>2, <1>3
<1>5. IsFiniteSet(1 .. Len(gr.deps[t])) /\ Cardinality(1 .. Len(gr.deps[t])) = Len(gr.deps[t])
  BY <1>2, FS_Interval
<1> QED
  BY <1>1, <1>2, <1>3, <1>4, <1>5

\* The count of Sort reaches zero exactly when everything the task lists is taken.
LEMMA InDegreeFacts ==
  ASSUME NEW gr \in Graphs, NEW t \in Names, NEW seen
  PROVE  InDegree(gr, seen, t) = 0 <=> DepsOf(gr, t) \subseteq seen
<1> DEFINE open == {i \in DOMAIN gr.deps[t] : gr.deps[t][i] \notin seen}
<1>1. IsFiniteSet(open)
  <2>1. IsFiniteSet(DOMAIN gr.deps[t]) /\ open \in SUBSET DOMAIN gr.deps[t]
    BY DepsOfFacts
  <2> HIDE DEF open
  <2> QED
    BY <2>1, FS_Subset
<1>2. Cardinality(open) = 0 <=> open = {}
  <2> HIDE DEF open
  <2> QED
    BY <1>1, FS_EmptySet
<1>3. open = {} <=> DepsOf(gr, t) \subseteq seen
  BY DepsOfFacts
<1> QED
  BY <1>2, <1>3 DEF InDegree

---------------------------------------------------------------------------
(* The levels.                                                               *)

\* The loop of Sort: what is taken before a level is what was taken before the
\* level above it and what that made ready.
LEMMA TakenFacts ==
  ASSUME NEW gr \in Graphs
  PROVE  LET T == TakenBefore(gr) IN
         /\ T \in [0 .. Len(gr.order) -> SUBSET IdsOf(gr)]
         /\ T[0] = {}
         /\ \A k \in 1 .. Len(gr.order) : T[k] = T[k-1] \cup ReadyAfter(gr, T[k-1])
<1> DEFINE n == Len(gr.order)
           V == SUBSET IdsOf(gr)
           level == [X \in V |-> X \cup ReadyAfter(gr, X)]
           step == [k \in Nat |-> level]
           T == TakenBefore(gr)
<1>1. n \in Nat
  BY GraphFacts
<1>2. \A X \in V : X \cup ReadyAfter(gr, X) \in V
  BY DEF ReadyAfter
<1>3. {} \in V /\ step \in [Nat -> [V -> V]]
  BY <1>2
<1>4. PICK f \in [0 .. n -> V] :
        f[0] = {} /\ \A k \in 1 .. n : f[k] = step[k][f[k-1]]
  <2>1. step \in Steps(V)
    BY <1>3 DEF Steps
  <2> HIDE DEF step, V, n
  <2>2. \E f : Recurs(f, n, V, {}, step)
    BY <1>1, <1>3, <2>1, Recursion
  <2> QED
    BY <2>2 DEF Recurs
<1>5. \A k \in 1 .. n : k-1 \in 0 .. n /\ k \in Nat
  BY <1>1
<1>6. \A k \in 1 .. n : step[k][f[k-1]] = f[k-1] \cup ReadyAfter(gr, f[k-1])
  <2> SUFFICES ASSUME NEW k \in 1 .. n
               PROVE  step[k][f[k-1]] = f[k-1] \cup ReadyAfter(gr, f[k-1])
    OBVIOUS
  <2>1. f[k-1] \in V /\ k \in Nat
    BY <1>4, <1>5
  <2>2. step[k] = level
    BY <2>1
  <2>3. level[f[k-1]] = f[k-1] \cup ReadyAfter(gr, f[k-1])
    BY <2>1
  <2> QED
    BY <2>2, <2>3
<1> DEFINE body(h) == [k \in 0 .. n |-> IF k = 0 THEN {} ELSE h[k-1] \cup ReadyAfter(gr, h[k-1])]
<1>7. f = body(f)
  <2> HIDE DEF V, step, level
  <2>1. ASSUME NEW k \in 0 .. n
        PROVE  f[k] = IF k = 0 THEN {} ELSE f[k-1] \cup ReadyAfter(gr, f[k-1])
    <3>1. CASE k = 0
      BY <1>4, <3>1
    <3>2. CASE k # 0
      <4>1. k \in 1 .. n
        BY <1>1, <3>2
      <4> QED
        BY <1>4, <1>6, <3>2, <4>1
    <3> QED
      BY <3>1, <3>2
  <2> QED
    BY <1>4, <2>1
<1>8. T = body(T)
  <2>1. T = CHOOSE h : h = body(h)
    BY DEF TakenBefore
  <2> HIDE DEF T, body
  <2> QED
    BY <1>7, <2>1
<1>9. T[0] = {} /\ \A k \in 1 .. n : T[k] = T[k-1] \cup ReadyAfter(gr, T[k-1])
  <2> HIDE DEF T
  <2>1. \A k \in 0 .. n : T[k] = IF k = 0 THEN {} ELSE T[k-1] \cup ReadyAfter(gr, T[k-1])
    BY <1>8
  <2>2. 0 \in 0 .. n /\ \A k \in 1 .. n : k \in 0 .. n /\ k # 0
    BY <1>1
  <2> QED
    BY <2>1, <2>2
<1>10. T \in [0 .. n -> V]
  <2> DEFINE S == {k \in Nat : k <= n => T[k] \in V}
  <2>1. 0 \in S
    BY <1>9
  <2>2. ASSUME NEW k \in Nat, k \in S PROVE k+1 \in S
    <3>1. CASE k+1 <= n
      <4>1. k+1 \in 1 .. n /\ k <= n /\ (k+1)-1 = k
        BY <1>1, <3>1
      <4>2. T[k+1] = T[k] \cup ReadyAfter(gr, T[k]) /\ T[k] \in V
        BY <1>9, <2>2, <4>1
      <4> QED
        BY <1>2, <4>2
    <3> QED
      BY <1>1, <3>1
  <2>3. Nat \subseteq S
    <3> HIDE DEF S
    <3> QED
      BY <2>1, <2>2, Induct
  <2>4. \A k \in 0 .. n : T[k] \in V
    BY <1>1, <2>3
  <2> HIDE DEF T, V
  <2> QED
    BY <1>8, <2>4
<1> QED
  BY <1>9, <1>10

\* What is taken is closed: a task is taken behind everything it lists.
LEMMA TakenClosed ==
  ASSUME NEW gr \in Graphs, IdsOf(gr) \subseteq Names, NEW k \in 0 .. Len(gr.order)
  PROVE  \A t \in TakenBefore(gr)[k] : DepsOf(gr, t) \subseteq TakenBefore(gr)[k]
<1> DEFINE n == Len(gr.order)
           T == TakenBefore(gr)
           S == {m \in Nat : m <= n => \A t \in T[m] : DepsOf(gr, t) \subseteq T[m]}
<1>1. n \in Nat /\ T[0] = {}
  BY GraphFacts, TakenFacts
<1>2. ASSUME NEW m \in Nat, m \in S, m + 1 <= n
      PROVE  \A t \in T[m+1] : DepsOf(gr, t) \subseteq T[m+1]
  <2>1. m + 1 \in 1 .. n /\ (m + 1) - 1 = m /\ m <= n
    BY <1>1, <1>2
  <2>2. T[m+1] = T[m] \cup ReadyAfter(gr, T[m])
    BY <2>1, TakenFacts
  <2>3. \A t \in ReadyAfter(gr, T[m]) : DepsOf(gr, t) \subseteq T[m]
    BY InDegreeFacts DEF ReadyAfter
  <2>4. \A t \in T[m] : DepsOf(gr, t) \subseteq T[m]
    BY <1>2, <2>1
  <2> QED
    BY <2>2, <2>3, <2>4
<1>3. 0 \in S /\ \A m \in Nat : m \in S => m + 1 \in S
  BY <1>1, <1>2
<1>4. Nat \subseteq S
  <2> HIDE DEF S
  <2> QED
    BY <1>3, Induct
<1> QED
  BY <1>1, <1>4

\* Nothing of a knot is ever ready.
LEMMA KnotsStay ==
  ASSUME NEW gr \in Graphs, IdsOf(gr) \subseteq Names, NEW K \in SUBSET IdsOf(gr), Knot(gr, K),
         NEW k \in 0 .. Len(gr.order)
  PROVE  TakenBefore(gr)[k] \cap K = {}
<1> DEFINE n == Len(gr.order)
           T == TakenBefore(gr)
           S == {m \in Nat : m <= n => T[m] \cap K = {}}
<1>1. n \in Nat /\ T[0] = {}
  BY GraphFacts, TakenFacts
<1>2. ASSUME NEW m \in Nat, m \in S, m + 1 <= n
      PROVE  T[m+1] \cap K = {}
  <2>1. m + 1 \in 1 .. n /\ (m + 1) - 1 = m /\ m <= n
    BY <1>1, <1>2
  <2>2. T[m+1] = T[m] \cup ReadyAfter(gr, T[m])
    BY <2>1, TakenFacts
  <2>3. \A t \in ReadyAfter(gr, T[m]) : DepsOf(gr, t) \subseteq T[m]
    BY InDegreeFacts DEF ReadyAfter
  <2>4. T[m] \cap K = {}
    BY <1>2, <2>1
  <2>5. \A t \in K : DepsOf(gr, t) \cap K # {}
    BY DEF Knot
  <2> QED
    BY <2>2, <2>3, <2>4, <2>5
<1>3. 0 \in S /\ \A m \in Nat : m \in S => m + 1 \in S
  BY <1>1, <1>2
<1>4. Nat \subseteq S
  <2> HIDE DEF S
  <2> QED
    BY <1>3, Induct
<1> QED
  BY <1>1, <1>4

\* As many levels as there are tasks are enough: after them nothing is ready.
LEMMA Saturated ==
  ASSUME NEW gr \in Graphs
  PROVE  ReadyAfter(gr, Scheduled(gr)) = {}
<1> DEFINE n == Len(gr.order)
           T == TakenBefore(gr)
           R(m) == ReadyAfter(gr, T[m])
           S == {m \in Nat : m <= n => R(m) = {} \/ Cardinality(T[m]) >= m}
<1>1. n \in Nat /\ T[0] = {} /\ IsFiniteSet(IdsOf(gr))
  BY GraphFacts, TakenFacts
<1>2. ASSUME NEW m \in 0 .. n
      PROVE  /\ T[m] \subseteq IdsOf(gr) /\ R(m) \subseteq IdsOf(gr) \ T[m]
             /\ IsFiniteSet(T[m]) /\ Cardinality(T[m]) \in Nat
  <2>1. T[m] \in SUBSET IdsOf(gr)
    BY TakenFacts
  <2> QED
    BY <1>1, <2>1, FS_Subset, FS_CardinalityType DEF ReadyAfter
<1>3. ASSUME NEW X, NEW Y, IsFiniteSet(Y), X \subseteq Y, X # Y
      PROVE  Cardinality(X) + 1 <= Cardinality(Y)
  <2>1. /\ Cardinality(X) <= Cardinality(Y) /\ Cardinality(X) # Cardinality(Y)
        /\ IsFiniteSet(X)
    BY <1>3, FS_Subset
  <2>2. Cardinality(X) \in Nat /\ Cardinality(Y) \in Nat
    BY <1>3, <2>1, FS_CardinalityType
  <2> QED
    BY <2>1, <2>2
<1>4. ASSUME NEW m \in Nat, m \in S, m + 1 <= n
      PROVE  R(m+1) = {} \/ Cardinality(T[m+1]) >= m + 1
  <2>1. m + 1 \in 1 .. n /\ (m + 1) - 1 = m /\ m \in 0 .. n /\ m + 1 \in 0 .. n
    BY <1>1, <1>4
  <2>2. T[m+1] = T[m] \cup R(m)
    BY <2>1, TakenFacts
  <2>3. CASE R(m) = {}
    BY <2>2, <2>3
  <2>4. CASE R(m) # {}
    <3>1. Cardinality(T[m]) >= m
      BY <1>4, <2>1, <2>4
    <3>2. T[m] \subseteq T[m+1] /\ T[m] # T[m+1]
      BY <1>2, <2>1, <2>2, <2>4
    <3>3. Cardinality(T[m]) + 1 <= Cardinality(T[m+1])
      BY <1>2, <1>3, <2>1, <3>2
    <3>4. Cardinality(T[m]) \in Nat /\ Cardinality(T[m+1]) \in Nat
      BY <1>2, <2>1
    <3> HIDE DEF T
    <3> QED
      BY <3>1, <3>3, <3>4
  <2> QED
    BY <2>3, <2>4
<1>5. 0 \in S
  BY <1>1, FS_EmptySet
<1>6. \A m \in Nat : m \in S => m + 1 \in S
  <2> HIDE DEF R, T, n
  <2> QED
    BY <1>4
<1>7. n \in S
  <2> HIDE DEF S
  <2> QED
    BY <1>1, <1>5, <1>6, Induct
<1>8. ASSUME R(n) # {} PROVE FALSE
  <2>1. n \in 0 .. n
    BY <1>1
  <2>2. Cardinality(T[n]) >= n /\ Cardinality(T[n]) \in Nat
    BY <1>2, <1>7, <1>8, <2>1
  <2>3. T[n] \subseteq IdsOf(gr) /\ T[n] # IdsOf(gr)
    BY <1>2, <1>8, <2>1
  <2>4. Cardinality(T[n]) + 1 <= Cardinality(IdsOf(gr))
    BY <1>1, <1>3, <2>3
  <2>5. Cardinality(IdsOf(gr)) <= n /\ Cardinality(IdsOf(gr)) \in Nat
    BY GraphFacts
  <2> HIDE DEF T, n
  <2> QED
    BY <1>1, <2>2, <2>4, <2>5
<1> QED
  BY <1>8 DEF Scheduled

\* What a graph that Sort accepts is like.
LEMMA Accepted ==
  ASSUME NEW gr \in Graphs, SortError(gr) = "none"
  PROVE  /\ NoName \notin IdsOf(gr) /\ IdsOf(gr) \subseteq Names /\ IsInjective(gr.order)
         /\ \A t \in IdsOf(gr) : DepsOf(gr, t) \subseteq IdsOf(gr)
         /\ Scheduled(gr) = IdsOf(gr)
         /\ \A K \in SUBSET IdsOf(gr) : ~Knot(gr, K)
<1>1. WellNamed(gr) /\ MissingDeps(gr) = {} /\ Involved(gr) = {}
  BY DEF SortError
<1>2. NoName \notin IdsOf(gr) /\ IdsOf(gr) \subseteq Names
  BY <1>1, GraphFacts DEF WellNamed
<1>3. Len(gr.order) \in 0 .. Len(gr.order)
  BY GraphFacts
<1>4. Scheduled(gr) = IdsOf(gr)
  BY <1>1, <1>3, TakenFacts DEF Involved, Scheduled
<1>5. ASSUME NEW K \in SUBSET IdsOf(gr), Knot(gr, K) PROVE FALSE
  <2>1. TakenBefore(gr)[Len(gr.order)] \cap K = {}
    BY <1>2, <1>3, <1>5, KnotsStay
  <2> QED
    BY <1>4, <1>5, <2>1 DEF Scheduled, Knot
<1> QED
  BY <1>1, <1>2, <1>4, <1>5 DEF WellNamed, MissingDeps

\* What a CycleError names: the knots and what is behind them.
LEMMA InvolvedFacts ==
  ASSUME NEW gr \in Graphs, WellNamed(gr), MissingDeps(gr) = {}
  PROVE  Involved(gr) = Behind(gr, UNION {S \in SUBSET IdsOf(gr) : Knot(gr, S)})
<1> DEFINE ids == IdsOf(gr)
           done == Scheduled(gr)
           left == Involved(gr)
           knots == UNION {S \in SUBSET ids : Knot(gr, S)}
           Closed(U) == \A u \in ids : DepsOf(gr, u) \cap U # {} => u \in U
<1>1. ids \subseteq Names /\ \A t \in ids : DepsOf(gr, t) \subseteq ids
  BY GraphFacts DEF WellNamed, MissingDeps
<1>2. Len(gr.order) \in 0 .. Len(gr.order)
  BY GraphFacts
<1>3. done \subseteq ids /\ \A t \in done : DepsOf(gr, t) \subseteq done
  BY <1>1, <1>2, TakenFacts, TakenClosed DEF Scheduled
<1>4. left = ids \ done
  BY DEF Involved
<1>5. \A t \in left : DepsOf(gr, t) \cap left # {}
  <2> SUFFICES ASSUME NEW t \in left, DepsOf(gr, t) \cap left = {} PROVE FALSE
    OBVIOUS
  <2>1. DepsOf(gr, t) \subseteq done /\ t \in Names /\ t \in ids \ done
    BY <1>1, <1>4
  <2>2. InDegree(gr, done, t) = 0
    BY <2>1, InDegreeFacts
  <2>3. t \in ReadyAfter(gr, done)
    BY <2>1, <2>2 DEF ReadyAfter
  <2> QED
    BY <2>3, Saturated
<1>6. left \subseteq knots
  <2>1. ASSUME left # {} PROVE Knot(gr, left)
    BY <1>5, <2>1 DEF Knot
  <2> QED
    BY <1>4, <2>1
<1>7. knots \cap done = {}
  <2> SUFFICES ASSUME NEW S \in SUBSET ids, Knot(gr, S) PROVE S \cap done = {}
    OBVIOUS
  <2> QED
    BY <1>1, <1>2, KnotsStay DEF Scheduled
<1>8. knots \subseteq left /\ Closed(left)
  BY <1>1, <1>3, <1>4, <1>7
<1>9. Behind(gr, knots) = {t \in ids : \A U \in SUBSET ids : knots \subseteq U /\ Closed(U) => t \in U}
  BY DEF Behind
<1>10. Behind(gr, knots) \subseteq left
  <2>1. left \in SUBSET ids
    BY <1>4
  <2> HIDE DEF left, knots, Closed, ids
  <2> QED
    BY <1>8, <1>9, <2>1
<1>11. left \subseteq Behind(gr, knots)
  <2> HIDE DEF left, knots, Closed
  <2> QED
    BY <1>4, <1>6, <1>9
<1> QED
  BY <1>10, <1>11

\* What is behind a set is behind every larger one.
LEMMA BehindGrows ==
  ASSUME NEW gr, NEW S, NEW R, S \subseteq R
  PROVE  Behind(gr, S) \subseteq Behind(gr, R)
  BY DEF Behind

\* A set that has the dependents of its members has all that is behind them.
LEMMA BehindInside ==
  ASSUME NEW gr, NEW S, NEW U \in SUBSET IdsOf(gr), S \subseteq U,
         \A u \in IdsOf(gr) : DepsOf(gr, u) \cap U # {} => u \in U
  PROVE  Behind(gr, S) \subseteq U
<1> SUFFICES ASSUME NEW t \in Behind(gr, S) PROVE t \in U
  OBVIOUS
<1>1. \A W \in SUBSET IdsOf(gr) :
        S \subseteq W /\ (\A u \in IdsOf(gr) : DepsOf(gr, u) \cap W # {} => u \in W) => t \in W
  BY DEF Behind
<1> QED
  BY <1>1

---------------------------------------------------------------------------
(* The tiers, and the folds and recursions over them.                        *)

\* The longest of the chains of a list is found by a loop over it.
Chains(w, l, A) == \A i \in 1 .. Len(l) : w[l[i]] \in Seq(A)
LongestLoop(r, w, l, A) ==
  /\ r \in [0 .. Len(l) -> Seq(A)] /\ r[0] = <<>> /\ Longest(w, l) = r[Len(l)]
  /\ \A k \in 1 .. Len(l) : r[k] = Longer(r[k-1], w[l[k]])

LEMMA LongestFold ==
  ASSUME NEW D, NEW A, NEW l \in Seq(D), NEW w, Chains(w, l, A)
  PROVE  \E r : LongestLoop(r, w, l, A)
<1> USE DEF Chains, LongestLoop
<1> DEFINE n == Len(l)
           V == Seq(A)
           step == [k \in 1 .. n |-> [q \in V |-> Longer(q, w[l[k]])]]
           body(f) == [s \in SUBSET (1 .. n) |->
                         IF s = {} THEN <<>> ELSE Longer(f[s \ {Max(s)}], w[l[Max(s)]])]
           h == CHOOSE f : f = body(f)
<1>1. n \in Nat /\ DOMAIN l = 1 .. n /\ <<>> \in V
  OBVIOUS
<1>2. step \in [1 .. n -> [V -> V]]
  BY DEF Longer
<1>3. \A s \in SUBSET (1 .. n) : s # {} => Max(s) \in 1 .. n /\ s \ {Max(s)} \in SUBSET (1 .. n)
  BY <1>1, MaxFacts
<1>4. \A k \in 1 .. n, q \in V : step[k][q] = Longer(q, w[l[k]])
  OBVIOUS
<1>5. PICK f : Folded(f, n, V, <<>>, step)
  <2>1. step \in Loops(n, V)
    BY <1>2 DEF Loops
  <2> HIDE DEF n, V, step
  <2> QED
    BY <1>1, <2>1, FoldExists
<1>6. f = body(f)
  <2>1. \A s \in SUBSET (1 .. n) :
          f[s] = IF s = {} THEN <<>> ELSE Longer(f[s \ {Max(s)}], w[l[Max(s)]])
    <3> HIDE DEF n, V, step
    <3> QED
      BY <1>3, <1>4, <1>5 DEF Folded
  <2> QED
    BY <1>5, <2>1 DEF Folded
<1>7. h = body(h)
  <2> HIDE DEF body
  <2> QED
    BY <1>6
<1>8. Longest(w, l) = h[1 .. n]
  BY <1>1 DEF Longest, FoldLeft, MapThenFoldSet
<1>9. Folds(h, n, V, <<>>, step)
  <2> HIDE DEF h
  <2>1. \A s \in SUBSET (1 .. n) :
          h[s] = IF s = {} THEN <<>> ELSE Longer(h[s \ {Max(s)}], w[l[Max(s)]])
    BY <1>7
  <2>2. {} \in SUBSET (1 .. n)
    OBVIOUS
  <2> HIDE DEF n, V, step
  <2> QED
    BY <1>3, <1>4, <2>1, <2>2 DEF Folds
<1>10. /\ Before(h, n) \in [0 .. n -> V] /\ Before(h, n)[0] = <<>>
       /\ \A k \in 1 .. n : Before(h, n)[k] = step[k][Before(h, n)[k-1]]
       /\ h[1 .. n] = Before(h, n)[n]
  <2>1. step \in Loops(n, V)
    BY <1>2 DEF Loops
  <2> HIDE DEF h, n, V, step
  <2>2. Looped(Before(h, n), n, V, <<>>, step) /\ h[1 .. n] = Before(h, n)[n]
    BY <1>1, <1>9, <2>1, FoldLoop
  <2> QED
    BY <2>2 DEF Looped
<1>11. \A k \in 1 .. n : k-1 \in 0 .. n
  BY <1>1
<1>12. PICK r : r = Before(h, n)
  OBVIOUS
<1>13. /\ r \in [0 .. n -> V] /\ r[0] = <<>> /\ Longest(w, l) = r[n]
       /\ \A k \in 1 .. n : r[k] = Longer(r[k-1], w[l[k]])
  <2> HIDE DEF h, n, V, step
  <2>1. \A k \in 1 .. n : r[k-1] \in V
    BY <1>10, <1>11, <1>12
  <2> QED
    BY <1>4, <1>8, <1>10, <1>12, <2>1
<1> HIDE DEF h, step
<1> QED
  BY <1>13

\* It is as long as any of them, and one of them.
LEMMA LongestFacts ==
  ASSUME NEW D, NEW A, NEW l \in Seq(D), NEW w, Chains(w, l, A)
  PROVE  /\ Longest(w, l) \in Seq(A)
         /\ \A i \in 1 .. Len(l) : Len(w[l[i]]) <= Len(Longest(w, l))
         /\ Longest(w, l) = <<>> \/ \E i \in 1 .. Len(l) : Longest(w, l) = w[l[i]]
<1>0. PICK r : LongestLoop(r, w, l, A)
  BY LongestFold
<1>1. /\ r \in [0 .. Len(l) -> Seq(A)] /\ r[0] = <<>> /\ Longest(w, l) = r[Len(l)]
      /\ \A k \in 1 .. Len(l) : r[k] = Longer(r[k-1], w[l[k]])
  BY <1>0 DEF LongestLoop
<1>2. PICK n \in Nat : n = Len(l)
  OBVIOUS
<1> DEFINE Good(k) == /\ \A i \in 1 .. k : Len(w[l[i]]) <= Len(r[k])
                      /\ r[k] = <<>> \/ \E i \in 1 .. k : r[k] = w[l[i]]
           S == {k \in Nat : k <= n => Good(k)}
<1>3. 0 \in S
  BY <1>1
<1>4. ASSUME NEW k \in Nat, k \in S PROVE k+1 \in S
  <2> SUFFICES ASSUME k+1 <= n PROVE Good(k+1)
    OBVIOUS
  <2>1. k+1 \in 1 .. n /\ (k+1)-1 = k /\ k \in 0 .. n /\ Good(k)
    <3>1. k+1 \in 1 .. n /\ (k+1)-1 = k /\ k \in 0 .. n
      OBVIOUS
    <3> QED
      BY <1>4, <3>1
  <2>2. r[k+1] = Longer(r[k], w[l[k+1]]) /\ r[k] \in Seq(A) /\ w[l[k+1]] \in Seq(A)
    BY <1>1, <1>2, <2>1 DEF Chains
  <2>3. PICK a \in Nat : a = Len(r[k])
    BY <2>2
  <2>4. PICK b \in Nat : b = Len(w[l[k+1]])
    BY <2>2
  <2>5. \A i \in 1 .. k+1 : i \in 1 .. k \/ i = k+1
    OBVIOUS
  <2>6. \A i \in 1 .. k : Len(w[l[i]]) \in Nat /\ Len(w[l[i]]) <= a
    BY <1>2, <2>1, <2>3 DEF Chains
  <2>7. CASE b > a
    <3>1. r[k+1] = w[l[k+1]] /\ Len(r[k+1]) = b
      BY <2>2, <2>3, <2>4, <2>7 DEF Longer
    <3>2. \A i \in 1 .. k+1 : Len(w[l[i]]) <= b
      BY <2>4, <2>5, <2>6, <2>7
    <3> QED
      BY <2>1, <3>1, <3>2
  <2>8. CASE ~(b > a)
    <3>1. r[k+1] = r[k] /\ Len(r[k+1]) = a
      BY <2>2, <2>3, <2>4, <2>8 DEF Longer
    <3>2. \A i \in 1 .. k+1 : Len(w[l[i]]) <= a
      BY <2>4, <2>5, <2>6, <2>8
    <3> QED
      BY <2>1, <3>1, <3>2
  <2> QED
    BY <2>7, <2>8
<1>5. Good(n)
  <2>1. Nat \subseteq S
    <3> HIDE DEF S
    <3> QED
      BY <1>3, <1>4, Induct
  <2> QED
    BY <2>1
<1> QED
  BY <1>1, <1>2, <1>5

\* It depends on the chains of the tasks in the list only.
SameChains(w, v, l) == \A i \in 1 .. Len(l) : v[l[i]] = w[l[i]]

LEMMA LongestSame ==
  ASSUME NEW D, NEW A, NEW l \in Seq(D), NEW w, NEW v,
         Chains(w, l, A), SameChains(w, v, l)
  PROVE  Longest(w, l) = Longest(v, l)
<1>0. PICK r : LongestLoop(r, w, l, A)
  BY LongestFold
<1>1. /\ r \in [0 .. Len(l) -> Seq(A)] /\ r[0] = <<>> /\ Longest(w, l) = r[Len(l)]
      /\ \A k \in 1 .. Len(l) : r[k] = Longer(r[k-1], w[l[k]])
  BY <1>0 DEF LongestLoop
<1>a. Chains(v, l, A)
  BY DEF Chains, SameChains
<1>b. PICK q : LongestLoop(q, v, l, A)
  BY <1>a, LongestFold
<1>2. /\ q \in [0 .. Len(l) -> Seq(A)] /\ q[0] = <<>> /\ Longest(v, l) = q[Len(l)]
      /\ \A k \in 1 .. Len(l) : q[k] = Longer(q[k-1], v[l[k]])
  BY <1>b DEF LongestLoop
<1>3. PICK n \in Nat : n = Len(l)
  OBVIOUS
<1> DEFINE S == {k \in Nat : k <= n => r[k] = q[k]}
<1>4. 0 \in S
  BY <1>1, <1>2
<1>5. ASSUME NEW k \in Nat, k \in S PROVE k+1 \in S
  <2> SUFFICES ASSUME k+1 <= n PROVE r[k+1] = q[k+1]
    OBVIOUS
  <2>1. k+1 \in 1 .. Len(l) /\ (k+1)-1 = k /\ r[k] = q[k]
    BY <1>3, <1>5
  <2>2. r[k+1] = Longer(r[k], w[l[k+1]]) /\ q[k+1] = Longer(q[k], v[l[k+1]])
    BY <1>1, <1>2, <2>1
  <2>3. v[l[k+1]] = w[l[k+1]]
    BY <2>1 DEF SameChains
  <2> QED
    BY <2>1, <2>2, <2>3
<1>6. r[n] = q[n]
  <2>1. Nat \subseteq S
    <3> HIDE DEF S
    <3> QED
      BY <1>4, <1>5, Induct
  <2> QED
    BY <2>1
<1> QED
  BY <1>1, <1>2, <1>3, <1>6

\* A task is taken behind a level only if everything it lists was taken before.
LEMMA TakenBehind ==
  ASSUME NEW gr \in Graphs, IdsOf(gr) \subseteq Names, NEW k \in 1 .. Len(gr.order),
         NEW t \in TakenBefore(gr)[k]
  PROVE  t \in IdsOf(gr) /\ DepsOf(gr, t) \subseteq TakenBefore(gr)[k-1]
<1> DEFINE T == TakenBefore(gr)
<1>1. /\ Len(gr.order) \in Nat /\ k-1 \in 0 .. Len(gr.order)
      /\ T[k-1] \subseteq IdsOf(gr) /\ T[k] = T[k-1] \cup ReadyAfter(gr, T[k-1])
  <2>1. Len(gr.order) \in Nat /\ k-1 \in 0 .. Len(gr.order)
    BY GraphFacts
  <2> QED
    BY <2>1, TakenFacts
<1>2. CASE t \in T[k-1]
  BY <1>1, <1>2, TakenClosed
<1>3. CASE t \in ReadyAfter(gr, T[k-1])
  <2>1. t \in IdsOf(gr) /\ InDegree(gr, T[k-1], t) = 0
    BY <1>3 DEF ReadyAfter
  <2> QED
    BY <2>1, InDegreeFacts
<1> QED
  BY <1>1, <1>2, <1>3

\* The recursion of CriticalPath ends on an accepted graph.
Walk(gr) == CHOOSE w : w = [t \in IdsOf(gr) |-> Append(Longest(w, gr.deps[t]), t)]

LEMMA WalkFacts ==
  ASSUME NEW gr \in Graphs, SortError(gr) = "none"
  PROVE  /\ CriticalPath(gr) = Longest(Walk(gr), gr.order)
         /\ Walk(gr) = [t \in IdsOf(gr) |-> Append(Longest(Walk(gr), gr.deps[t]), t)]
<1> DEFINE ids == IdsOf(gr)
           V == Seq(ids)
           F == [ids -> V]
           n == Len(gr.order)
           T == TakenBefore(gr)
           body == [f \in F |-> [t \in ids |-> Append(Longest(f, gr.deps[t]), t)]]
<1>1. /\ ids \subseteq Names /\ n \in Nat /\ T \in [0 .. n -> SUBSET ids] /\ T[0] = {} /\ T[n] = ids
      /\ \A t \in ids : DepsOf(gr, t) \subseteq ids
  BY Accepted, GraphFacts, TakenFacts DEF Scheduled
<1>2. \A t \in ids : /\ gr.deps[t] \in Seq(Names)
                     /\ \A i \in 1 .. Len(gr.deps[t]) : gr.deps[t][i] \in DepsOf(gr, t)
  BY <1>1, DepsOfFacts
<1>3. ASSUME NEW f \in F, NEW t \in ids
      PROVE  Chains(f, gr.deps[t], ids)
  BY <1>1, <1>2 DEF Chains
<1>4. \A f \in F, t \in ids : Append(Longest(f, gr.deps[t]), t) \in V
  <2> SUFFICES ASSUME NEW f \in F, NEW t \in ids
               PROVE  Append(Longest(f, gr.deps[t]), t) \in V
    OBVIOUS
  <2>1. Longest(f, gr.deps[t]) \in V
    <3> HIDE DEF F, ids
    <3> QED
      BY <1>2, <1>3, LongestFacts
  <2> QED
    BY <2>1
<1>5. body \in [F -> F]
  BY <1>4
<1>6. ASSUME NEW k \in 1 .. n, NEW f \in F, NEW h \in F, \A x \in T[k-1] : f[x] = h[x],
             NEW t \in T[k]
      PROVE  body[f][t] = body[h][t]
  <2>1. t \in ids /\ DepsOf(gr, t) \subseteq T[k-1]
    BY <1>1, TakenBehind
  <2>2. Chains(f, gr.deps[t], ids) /\ SameChains(f, h, gr.deps[t])
    BY <1>2, <1>3, <1>6, <2>1 DEF SameChains
  <2>3. Longest(f, gr.deps[t]) = Longest(h, gr.deps[t])
    <3> HIDE DEF F, ids, T
    <3> QED
      BY <1>2, <2>1, <2>2, LongestSame
  <2> QED
    BY <2>1, <2>3
<1>7. F # {}
  <2>1. [t \in ids |-> <<>>] \in F
    OBVIOUS
  <2> QED
    BY <2>1
<1>8. Leveled(ids, V, F, n, body, T)
  <2>1. \A k \in 1 .. n : \A f, h \in F :
          (\A x \in T[k-1] : f[x] = h[x]) => \A x \in T[k] : body[f][x] = body[h][x]
    <3> HIDE DEF F, T, body, n, ids
    <3> QED
      BY <1>6
  <2>2. F = [ids -> V]
    OBVIOUS
  <2> HIDE DEF F, T, body, n, ids, V
  <2> QED
    BY <1>1, <1>5, <1>7, <2>1, <2>2 DEF Leveled
<1>9. PICK f \in F : f = body[f]
  <2> HIDE DEF F, T, body, n, ids, V
  <2> QED
    BY <1>8, Fixpoint DEF Fixed
<1> DEFINE solves(w) == w = [t \in ids |-> Append(Longest(w, gr.deps[t]), t)]
<1>10. solves(f)
  <2>1. body[f] = [t \in ids |-> Append(Longest(f, gr.deps[t]), t)]
    OBVIOUS
  <2> HIDE DEF body
  <2> QED
    BY <1>9, <2>1
<1>11. Walk(gr) = CHOOSE w : solves(w)
  BY DEF Walk
<1>12. solves(Walk(gr))
  <2> HIDE DEF solves
  <2> QED
    BY <1>10, <1>11
<1>13. CriticalPath(gr) = Longest(Walk(gr), gr.order)
  BY DEF CriticalPath, Walk
<1> QED
  BY <1>12, <1>13

\* The tier of a task is the number of levels before the one that takes it.
LEMMA TierFacts ==
  ASSUME NEW gr \in Graphs, SortError(gr) = "none", NEW t \in IdsOf(gr)
  PROVE  /\ Len(gr.order) \in Nat /\ TierOf(gr, t) \in Nat /\ TierOf(gr, t) < Len(gr.order)
         /\ \A j \in 0 .. Len(gr.order) : t \in TakenBefore(gr)[j] <=> j > TierOf(gr, t)
<1>1. PICK n \in Nat : n = Len(gr.order)
  BY GraphFacts
<1> DEFINE T == TakenBefore(gr)
<1>2. /\ T[0] = {} /\ T[n] = IdsOf(gr)
      /\ \A k \in 1 .. n : T[k-1] \subseteq T[k]
  BY <1>1, Accepted, TakenFacts DEF Scheduled
<1> DEFINE S == {k \in Nat : k <= n /\ t \in T[k]}
<1>3. PICK k \in S : \A j \in S : k <= j
  <2>1. n \in S
    BY <1>2
  <2>2. S \in SUBSET Nat /\ S # {}
    BY <2>1
  <2> HIDE DEF S
  <2> QED
    BY <2>2, SmallestNumber
<1>4. k \in 1 .. n /\ t \in T[k] /\ t \notin T[k-1] /\ \A j \in 0 .. n : t \in T[j] => k <= j
  <2>1. k \in 1 .. n /\ t \in T[k]
    BY <1>2, <1>3
  <2>2. \A j \in 0 .. n : t \in T[j] => k <= j
    BY <1>3
  <2>3. k-1 \in 0 .. n /\ ~(k <= k-1)
    BY <2>1
  <2> QED
    BY <2>1, <2>2, <2>3
<1> HIDE DEF S
<1>5. \A j \in 0 .. n : j >= k => t \in T[j]
  <2> DEFINE U == {j \in Nat : k <= j /\ j <= n => t \in T[j]}
  <2>1. 0 \in U
    BY <1>4
  <2>2. ASSUME NEW j \in Nat, j \in U PROVE j+1 \in U
    <3> SUFFICES ASSUME k <= j+1, j+1 <= n PROVE t \in T[j+1]
      OBVIOUS
    <3>1. j+1 \in 1 .. n /\ (j+1)-1 = j
      OBVIOUS
    <3>2. CASE k = j+1
      BY <1>4, <3>2
    <3>3. CASE k # j+1
      <4>1. k <= j /\ j <= n
        BY <1>4, <3>3
      <4> HIDE DEF T
      <4> QED
        BY <1>2, <2>2, <3>1, <4>1
    <3> QED
      BY <3>2, <3>3
  <2>3. Nat \subseteq U
    <3> HIDE DEF U
    <3> QED
      BY <2>1, <2>2, Induct
  <2> QED
    BY <2>3
<1> DEFINE first(j) == t \in T[j] \ T[j-1]
<1>6. \A j \in 1 .. n : first(j) => j = k
  <2> SUFFICES ASSUME NEW j \in 1 .. n, first(j), j # k PROVE FALSE
    OBVIOUS
  <2>1. j-1 \in 0 .. n /\ j \in 0 .. n
    OBVIOUS
  <2>2. k <= j
    BY <1>4, <2>1
  <2>3. j-1 >= k
    BY <1>4, <2>2
  <2> QED
    BY <1>5, <2>1, <2>3
<1>7. first(k)
  BY <1>4
<1>8. (CHOOSE j \in 1 .. n : first(j)) = k
  <2> HIDE DEF first
  <2> QED
    BY <1>4, <1>6, <1>7
<1>9. TierOf(gr, t) = k - 1
  BY <1>1, <1>8 DEF TierOf
<1>10. \A j \in 0 .. n : t \in T[j] <=> j > k - 1
  BY <1>4, <1>5
<1> QED
  BY <1>1, <1>4, <1>9, <1>10

\* A task is one tier after the last of its prerequisites.
LEMMA TierDeps ==
  ASSUME NEW gr \in Graphs, SortError(gr) = "none", NEW t \in IdsOf(gr)
  PROVE  /\ \A d \in DepsOf(gr, t) : d \in IdsOf(gr) /\ TierOf(gr, d) < TierOf(gr, t)
         /\ TierOf(gr, t) > 0 => \E d \in DepsOf(gr, t) : TierOf(gr, d) = TierOf(gr, t) - 1
<1> DEFINE T == TakenBefore(gr)
<1>1. PICK n \in Nat : n = Len(gr.order)
  BY GraphFacts
<1>2. PICK k \in 0 .. n-1 : k = TierOf(gr, t)
  BY <1>1, TierFacts
<1>3. t \in T[k+1] /\ t \notin T[k] /\ k+1 \in 1 .. n /\ (k+1)-1 = k
  BY <1>1, <1>2, TierFacts
<1>4. IdsOf(gr) \subseteq Names /\ DepsOf(gr, t) \subseteq IdsOf(gr)
  BY Accepted
<1>5. DepsOf(gr, t) \subseteq T[k]
  BY <1>1, <1>3, <1>4, TakenBehind
<1>6. ASSUME NEW d \in DepsOf(gr, t) PROVE d \in IdsOf(gr) /\ TierOf(gr, d) < k
  <2>1. d \in IdsOf(gr) /\ d \in T[k] /\ k \in 0 .. n
    BY <1>4, <1>5
  <2>2. k > TierOf(gr, d) /\ TierOf(gr, d) \in Nat
    BY <1>1, <2>1, TierFacts
  <2> QED
    BY <2>1, <2>2
<1>7. ASSUME k > 0 PROVE \E d \in DepsOf(gr, t) : TierOf(gr, d) = k - 1
  <2>1. k \in 1 .. n /\ k-1 \in 0 .. n
    BY <1>7
  <2>2. t \notin ReadyAfter(gr, T[k-1]) /\ t \notin T[k-1]
    BY <1>1, <1>3, <2>1, TakenFacts
  <2>3. ~(DepsOf(gr, t) \subseteq T[k-1])
    <3>1. InDegree(gr, T[k-1], t) # 0
      BY <2>2 DEF ReadyAfter
    <3>2. t \in Names
      BY <1>4
    <3> QED
      BY <3>1, <3>2, InDegreeFacts
  <2>4. PICK d \in DepsOf(gr, t) : d \notin T[k-1]
    BY <2>3
  <2>5. ~(k-1 > TierOf(gr, d)) /\ TierOf(gr, d) \in Nat
    BY <1>1, <1>4, <2>1, <2>4, TierFacts
  <2>6. TierOf(gr, d) < k
    BY <1>6
  <2>7. TierOf(gr, d) = k - 1
    BY <2>5, <2>6
  <2> QED
    BY <2>7
<1> QED
  BY <1>2, <1>6, <1>7

\* A chain that ends in t: one task of every tier up to its own, each a
\* prerequisite of the next.
Chained(gr, p, t) ==
  /\ p \in Seq(IdsOf(gr)) /\ Len(p) = TierOf(gr, t) + 1 /\ p[Len(p)] = t
  /\ \A i \in 1 .. Len(p) : TierOf(gr, p[i]) = i - 1
  /\ \A i \in 2 .. Len(p) : p[i-1] \in DepsOf(gr, p[i])

LEMMA ChainStep ==
  ASSUME NEW gr \in Graphs, SortError(gr) = "none", NEW t \in IdsOf(gr), NEW w,
         \A d \in DepsOf(gr, t) : Chained(gr, w[d], d)
  PROVE  Chained(gr, Append(Longest(w, gr.deps[t]), t), t)
<1> DEFINE l == gr.deps[t]
           ids == IdsOf(gr)
<1>1. /\ t \in Names /\ l \in Seq(Names) /\ DepsOf(gr, t) = {l[i] : i \in 1 .. Len(l)}
      /\ DepsOf(gr, t) \subseteq ids
  <2>1. t \in Names /\ DepsOf(gr, t) \subseteq ids
    BY Accepted
  <2> QED
    BY <2>1, DepsOfFacts
<1>2. Chains(w, l, ids)
  BY <1>1 DEF Chains, Chained
<1>3. PICK r : r = Longest(w, l)
  OBVIOUS
<1>4. /\ r \in Seq(ids) /\ \A i \in 1 .. Len(l) : Len(w[l[i]]) <= Len(r)
      /\ r = <<>> \/ \E i \in 1 .. Len(l) : r = w[l[i]]
  <2> HIDE DEF l, ids
  <2> QED
    BY <1>1, <1>2, <1>3, LongestFacts
<1>5. PICK k \in Nat : k = TierOf(gr, t)
  BY TierFacts
<1>6. \A d \in DepsOf(gr, t) : d \in ids /\ TierOf(gr, d) \in Nat /\ TierOf(gr, d) < k
  BY <1>1, <1>5, TierDeps, TierFacts
<1>7. \A d \in DepsOf(gr, t) : Len(w[d]) = TierOf(gr, d) + 1 /\ Len(w[d]) <= Len(r)
  BY <1>1, <1>4 DEF Chained
<1>8. Len(r) \in Nat
  BY <1>4
<1> HIDE DEF l, ids
<1>9. CASE r = <<>>
  <2>1. DepsOf(gr, t) = {}
    <3> SUFFICES ASSUME NEW d \in DepsOf(gr, t) PROVE FALSE
      OBVIOUS
    <3>1. Len(r) = 0
      BY <1>9
    <3> QED
      BY <1>6, <1>7, <3>1
  <2>2. k = 0
    BY <1>5, <2>1, TierDeps
  <2>3. Append(r, t) = <<t>>
    BY <1>9
  <2>4. <<t>> \in Seq(ids) /\ Len(<<t>>) = 1 /\ <<t>>[1] = t
    BY DEF ids
  <2>5. (\A i \in 1 .. 1 : i = 1) /\ (\A i \in 2 .. 1 : FALSE) /\ 0 + 1 = 1 /\ 1 - 1 = 0
    OBVIOUS
  <2> QED
    BY <1>3, <1>5, <2>2, <2>3, <2>4, <2>5 DEF Chained, l, ids
<1>10. CASE r # <<>>
  <2>1. PICK d \in DepsOf(gr, t) : r = w[d]
    BY <1>1, <1>4, <1>10
  <2>2. Chained(gr, r, d)
    BY <2>1
  <2>3. PICK m \in Nat : m = Len(r)
    BY <1>8
  <2>4. m = TierOf(gr, d) + 1
    BY <2>2, <2>3 DEF Chained
  <2>5. k > 0 /\ m <= k
    BY <1>6, <2>4
  <2>6. PICK e \in DepsOf(gr, t) : TierOf(gr, e) = k - 1
    BY <1>5, <2>5, TierDeps
  <2>7. m = k
    BY <1>7, <2>3, <2>5, <2>6
  <2>8. PICK p : p = Append(r, t)
    OBVIOUS
  <2>9. /\ p \in Seq(ids) /\ Len(p) = m + 1 /\ p[m + 1] = t
        /\ \A i \in 1 .. m : p[i] = r[i]
    BY <1>4, <2>3, <2>8 DEF ids
  <2>10. /\ r[m] = d /\ \A i \in 1 .. m : TierOf(gr, r[i]) = i - 1
         /\ \A i \in 2 .. m : r[i-1] \in DepsOf(gr, r[i])
    BY <2>2, <2>3 DEF Chained
  <2>11. \A i \in 1 .. m+1 : TierOf(gr, p[i]) = i - 1
    <3> SUFFICES ASSUME NEW i \in 1 .. m+1 PROVE TierOf(gr, p[i]) = i - 1
      OBVIOUS
    <3>1. CASE i = m+1
      BY <1>5, <2>7, <2>9, <3>1
    <3>2. CASE i # m+1
      <4>1. i \in 1 .. m
        BY <3>2
      <4> QED
        BY <2>9, <2>10, <4>1
    <3> QED
      BY <3>1, <3>2
  <2>12. \A i \in 2 .. m+1 : p[i-1] \in DepsOf(gr, p[i])
    <3> SUFFICES ASSUME NEW i \in 2 .. m+1 PROVE p[i-1] \in DepsOf(gr, p[i])
      OBVIOUS
    <3>1. CASE i = m+1
      <4>1. i-1 = m /\ m \in 1 .. m
        BY <3>1
      <4> QED
        BY <2>9, <2>10, <3>1, <4>1
    <3>2. CASE i # m+1
      <4>1. i \in 2 .. m /\ i \in 1 .. m /\ i-1 \in 1 .. m
        BY <3>2
      <4> QED
        BY <2>9, <2>10, <4>1
    <3> QED
      BY <3>1, <3>2
  <2> QED
    BY <1>3, <1>5, <2>7, <2>8, <2>9, <2>11, <2>12 DEF Chained, l, ids
<1> QED
  BY <1>9, <1>10

\* On an accepted graph every chain of CriticalPath is one.
LEMMA WalkChains ==
  ASSUME NEW gr \in Graphs, SortError(gr) = "none"
  PROVE  \A t \in IdsOf(gr) : Chained(gr, Walk(gr)[t], t)
<1> DEFINE w == Walk(gr)
           S == {k \in Nat : \A t \in IdsOf(gr) : TierOf(gr, t) < k => Chained(gr, w[t], t)}
<1>0. \A t \in IdsOf(gr) : TierOf(gr, t) \in Nat /\ Len(gr.order) \in Nat
                           /\ TierOf(gr, t) < Len(gr.order)
  BY TierFacts
<1>1. 0 \in S
  BY <1>0
<1>2. ASSUME NEW k \in Nat, k \in S PROVE k+1 \in S
  <2> SUFFICES ASSUME NEW t \in IdsOf(gr), TierOf(gr, t) < k+1 PROVE Chained(gr, w[t], t)
    OBVIOUS
  <2>1. \A d \in DepsOf(gr, t) : Chained(gr, w[d], d)
    <3> SUFFICES ASSUME NEW d \in DepsOf(gr, t) PROVE Chained(gr, w[d], d)
      OBVIOUS
    <3>1. d \in IdsOf(gr) /\ TierOf(gr, d) < TierOf(gr, t)
      BY TierDeps
    <3>2. TierOf(gr, d) < k
      BY <1>0, <3>1
    <3> QED
      BY <1>2, <3>1, <3>2
  <2>2. w[t] = Append(Longest(w, gr.deps[t]), t)
    BY WalkFacts
  <2> HIDE DEF w, S
  <2> QED
    BY <2>1, <2>2, ChainStep
<1>3. Nat \subseteq S
  <2> HIDE DEF S
  <2> QED
    BY <1>1, <1>2, Induct
<1> SUFFICES ASSUME NEW t \in IdsOf(gr) PROVE Chained(gr, w[t], t)
  OBVIOUS
<1>4. Len(gr.order) \in S
  BY <1>0, <1>3
<1> QED
  BY <1>0, <1>4

\* CriticalPath is a chain of dependencies with one task of every tier.
LEMMA PathSpansTiers ==
  ASSUME NEW gr \in Graphs, SortError(gr) = "none"
  PROVE  LET path == CriticalPath(gr) IN
         /\ \A i \in 2 .. Len(path) : path[i-1] \in DepsOf(gr, path[i])
         /\ {TierOf(gr, path[i]) : i \in DOMAIN path} = {TierOf(gr, t) : t \in IdsOf(gr)}
<1> DEFINE w == Walk(gr)
           ids == IdsOf(gr)
<1>1. PICK l : l = gr.order
  OBVIOUS
<1>2. PICK n \in Nat : n = Len(l)
  BY <1>1, GraphFacts
<1>3. l \in Seq(ids) /\ ids = {l[i] : i \in 1 .. n}
  <2>1. l \in Seq(Names \cup {NoName})
    BY <1>1, ScheduleAssumption
  <2>2. ids = {l[i] : i \in 1 .. n}
    BY <1>1, <1>2, <2>1 DEF IdsOf, ToSet
  <2> QED
    BY <1>2, <2>1, <2>2
<1>4. \A t \in ids : Chained(gr, w[t], t)
  BY WalkChains
<1>5. Chains(w, l, ids)
  BY <1>2, <1>3, <1>4 DEF Chains, Chained
<1>6. PICK p : p = CriticalPath(gr)
  OBVIOUS
<1>7. p = Longest(w, l)
  BY <1>1, <1>6, WalkFacts
<1>8. /\ p \in Seq(ids) /\ \A i \in 1 .. n : Len(w[l[i]]) <= Len(p)
      /\ p = <<>> \/ \E i \in 1 .. n : p = w[l[i]]
  <2> HIDE DEF w, ids
  <2> QED
    BY <1>2, <1>3, <1>5, <1>7, LongestFacts
<1>9. PICK m \in Nat : m = Len(p) /\ DOMAIN p = 1 .. m
  BY <1>8
<1>10. \A t \in ids : TierOf(gr, t) \in Nat /\ TierOf(gr, t) + 1 <= m
  <2> SUFFICES ASSUME NEW t \in ids PROVE TierOf(gr, t) \in Nat /\ TierOf(gr, t) + 1 <= m
    OBVIOUS
  <2>1. PICK i \in 1 .. n : t = l[i]
    BY <1>3
  <2>2. Len(w[t]) <= m /\ Len(w[t]) = TierOf(gr, t) + 1
    BY <1>4, <1>8, <1>9, <2>1 DEF Chained
  <2> QED
    BY <2>2, TierFacts
<1> HIDE DEF w, ids
<1>11. CASE p = <<>>
  <2>1. m = 0
    BY <1>9, <1>11
  <2>2. ids = {}
    BY <1>10, <2>1
  <2>3. (\A i \in 2 .. m : FALSE) /\ {TierOf(gr, p[i]) : i \in 1 .. m} = {}
    BY <2>1
  <2> QED
    BY <1>6, <1>9, <2>2, <2>3 DEF ids
<1>12. CASE p # <<>>
  <2>1. PICK t \in ids : Chained(gr, p, t)
    BY <1>3, <1>4, <1>8, <1>12
  <2>2. /\ m = TierOf(gr, t) + 1
        /\ \A i \in 1 .. m : TierOf(gr, p[i]) = i - 1
        /\ \A i \in 2 .. m : p[i-1] \in DepsOf(gr, p[i])
    BY <1>9, <2>1 DEF Chained
  <2>3. \A i \in 1 .. m : p[i] \in ids
    BY <1>8, <1>9
  <2>4. ASSUME NEW u \in ids PROVE \E i \in 1 .. m : TierOf(gr, p[i]) = TierOf(gr, u)
    <3>1. PICK k \in Nat : k = TierOf(gr, u)
      BY <1>10
    <3>2. k+1 \in 1 .. m /\ (k+1) - 1 = k
      BY <1>10, <3>1
    <3> QED
      BY <2>2, <3>1, <3>2
  <2>5. {TierOf(gr, p[i]) : i \in 1 .. m} = {TierOf(gr, u) : u \in ids}
    BY <2>3, <2>4
  <2> QED
    BY <1>6, <1>9, <2>2, <2>5 DEF ids
<1> QED
  BY <1>11, <1>12


\* Independent returns what starts at once and nothing waits for.
LEMMA IndependentFacts ==
  ASSUME NEW gr \in Graphs, SortError(gr) = "none"
  PROVE  Independent(gr) = {t \in IdsOf(gr) : TierOf(gr, t) = 0 /\ Behind(gr, {t}) = {t}}
<1>1. \A t \in IdsOf(gr) : t \in Names /\ DepsOf(gr, t) \subseteq IdsOf(gr)
  BY Accepted
<1>2. ASSUME NEW t \in IdsOf(gr) PROVE gr.deps[t] = <<>> <=> TierOf(gr, t) = 0
  <2>1. PICK l : l = gr.deps[t]
    OBVIOUS
  <2>2. PICK n \in Nat : n = Len(l)
    BY <1>1, <2>1, DepsOfFacts
  <2>3. l \in Seq(Names) /\ DepsOf(gr, t) = {l[i] : i \in 1 .. n}
    BY <1>1, <2>1, <2>2, DepsOfFacts
  <2>4. l = <<>> <=> n = 0
    BY <2>2, <2>3
  <2>5. n = 0 <=> DepsOf(gr, t) = {}
    <3>1. n # 0 => 1 \in 1 .. n
      OBVIOUS
    <3>2. n = 0 => 1 .. n = {}
      OBVIOUS
    <3> QED
      BY <2>3, <3>1, <3>2
  <2>6. TierOf(gr, t) = 0 => DepsOf(gr, t) = {}
    <3> SUFFICES ASSUME TierOf(gr, t) = 0, NEW d \in DepsOf(gr, t) PROVE FALSE
      OBVIOUS
    <3>1. TierOf(gr, d) < 0 /\ TierOf(gr, d) \in Nat
      BY <1>1, TierDeps, TierFacts
    <3> QED
      BY <3>1
  <2>7. DepsOf(gr, t) = {} => TierOf(gr, t) = 0
    BY TierDeps, TierFacts
  <2> QED
    BY <2>1, <2>4, <2>5, <2>6, <2>7
<1>3. ASSUME NEW t \in IdsOf(gr)
      PROVE  (\A u \in IdsOf(gr) : t \notin DepsOf(gr, u)) <=> Behind(gr, {t}) = {t}
  <2>1. t \in Behind(gr, {t})
    BY DEF Behind
  <2>2. ASSUME \A u \in IdsOf(gr) : t \notin DepsOf(gr, u) PROVE Behind(gr, {t}) \subseteq {t}
    BY <2>2, BehindInside
  <2>3. ASSUME Behind(gr, {t}) = {t}, NEW u \in IdsOf(gr), t \in DepsOf(gr, u) PROVE FALSE
    <3>1. u \in Behind(gr, {t})
      BY <2>3 DEF Behind
    <3>2. u = t
      BY <2>3, <3>1
    <3>3. TierOf(gr, t) < TierOf(gr, t) /\ TierOf(gr, t) \in Nat
      BY <2>3, <3>2, TierDeps, TierFacts
    <3> QED
      BY <3>3
  <2> QED
    BY <2>1, <2>2, <2>3
<1> QED
  BY <1>2, <1>3 DEF Independent

---------------------------------------------------------------------------
(* The order of the results.                                                 *)

\* What Only keeps of a list is found by a loop over it.
OnlyLoop(r, l, S, D) ==
  /\ r \in [0 .. Len(l) -> Seq(D)] /\ r[0] = <<>> /\ Only(l, S) = r[Len(l)]
  /\ \A k \in 1 .. Len(l) : r[k] = IF l[k] \in S THEN Append(r[k-1], l[k]) ELSE r[k-1]

LEMMA OnlyFold ==
  ASSUME NEW D, NEW l \in Seq(D), NEW S
  PROVE  \E r : OnlyLoop(r, l, S, D)
<1> USE DEF OnlyLoop
<1> DEFINE n == Len(l)
           V == Seq(D)
           add(q, t) == IF t \in S THEN Append(q, t) ELSE q
           step == [k \in 1 .. n |-> [q \in V |-> add(q, l[k])]]
           body(f) == [s \in SUBSET (1 .. n) |->
                         IF s = {} THEN <<>> ELSE add(f[s \ {Max(s)}], l[Max(s)])]
           h == CHOOSE f : f = body(f)
<1>1. n \in Nat /\ DOMAIN l = 1 .. n /\ <<>> \in V /\ \A k \in 1 .. n : l[k] \in D
  OBVIOUS
<1>2. step \in [1 .. n -> [V -> V]]
  <2>1. \A q \in V, k \in 1 .. n : add(q, l[k]) \in V
    BY <1>1
  <2> HIDE DEF add
  <2> QED
    BY <2>1
<1>3. \A s \in SUBSET (1 .. n) : s # {} => Max(s) \in 1 .. n /\ s \ {Max(s)} \in SUBSET (1 .. n)
  BY <1>1, MaxFacts
<1>4. \A k \in 1 .. n, q \in V : step[k][q] = add(q, l[k])
  OBVIOUS
<1>5. PICK f : Folded(f, n, V, <<>>, step)
  <2>1. step \in Loops(n, V)
    BY <1>2 DEF Loops
  <2> HIDE DEF n, V, step
  <2> QED
    BY <1>1, <2>1, FoldExists
<1>6. f = body(f)
  <2>1. \A s \in SUBSET (1 .. n) :
          f[s] = IF s = {} THEN <<>> ELSE add(f[s \ {Max(s)}], l[Max(s)])
    <3> HIDE DEF n, V, step, add
    <3> QED
      BY <1>3, <1>4, <1>5 DEF Folded
  <2> HIDE DEF add
  <2> QED
    BY <1>5, <2>1 DEF Folded
<1>7. h = body(h)
  <2> HIDE DEF body
  <2> QED
    BY <1>6
<1>8. Only(l, S) = h[1 .. n]
  BY <1>1 DEF Only, FoldLeft, MapThenFoldSet
<1>9. Folds(h, n, V, <<>>, step)
  <2> HIDE DEF h
  <2>1. \A s \in SUBSET (1 .. n) :
          h[s] = IF s = {} THEN <<>> ELSE add(h[s \ {Max(s)}], l[Max(s)])
    <3> HIDE DEF add
    <3> QED
      BY <1>7
  <2>2. {} \in SUBSET (1 .. n)
    OBVIOUS
  <2> HIDE DEF n, V, step, add
  <2> QED
    BY <1>3, <1>4, <2>1, <2>2 DEF Folds
<1>10. /\ Before(h, n) \in [0 .. n -> V] /\ Before(h, n)[0] = <<>>
       /\ \A k \in 1 .. n : Before(h, n)[k] = step[k][Before(h, n)[k-1]]
       /\ h[1 .. n] = Before(h, n)[n]
  <2>1. step \in Loops(n, V)
    BY <1>2 DEF Loops
  <2> HIDE DEF h, n, V, step
  <2>2. Looped(Before(h, n), n, V, <<>>, step) /\ h[1 .. n] = Before(h, n)[n]
    BY <1>1, <1>9, <2>1, FoldLoop
  <2> QED
    BY <2>2 DEF Looped
<1>11. \A k \in 1 .. n : k-1 \in 0 .. n
  BY <1>1
<1>12. PICK r : r = Before(h, n)
  OBVIOUS
<1>13. /\ r \in [0 .. n -> V] /\ r[0] = <<>> /\ Only(l, S) = r[n]
       /\ \A k \in 1 .. n : r[k] = add(r[k-1], l[k])
  <2> HIDE DEF h, n, V, step, add
  <2>1. \A k \in 1 .. n : r[k-1] \in V
    BY <1>10, <1>11, <1>12
  <2> QED
    BY <1>4, <1>8, <1>10, <1>12, <2>1
<1> HIDE DEF h, step
<1> QED
  BY <1>13

\* A list in which nothing is twice and no rank comes after a greater one.
Lined(l, rank) ==
  \A i, j \in 1 .. Len(l) : i < j => l[i] # l[j] /\ rank[l[i]] <= rank[l[j]]

Elements(l) == {l[i] : i \in 1 .. Len(l)}

\* What Only keeps is as lined up as the list.
LEMMA OnlyFacts ==
  ASSUME NEW D, NEW l \in Seq(D), NEW S, NEW rank, Lined(l, rank)
  PROVE  /\ Only(l, S) \in Seq(D) /\ Elements(Only(l, S)) = Elements(l) \cap S
         /\ Lined(Only(l, S), rank)
<1>0. PICK r : OnlyLoop(r, l, S, D)
  BY OnlyFold
<1>1. /\ r \in [0 .. Len(l) -> Seq(D)] /\ r[0] = <<>> /\ Only(l, S) = r[Len(l)]
      /\ \A k \in 1 .. Len(l) : r[k] = IF l[k] \in S THEN Append(r[k-1], l[k]) ELSE r[k-1]
  BY <1>0 DEF OnlyLoop
<1>2. PICK n \in Nat : n = Len(l)
  OBVIOUS
<1> DEFINE Good(k) == /\ Elements(r[k]) = {l[i] : i \in 1 .. k} \cap S
                      /\ Lined(r[k], rank)
           T == {k \in Nat : k <= n => Good(k)}
<1>3. 0 \in T
  <2>1. Len(r[0]) = 0 /\ 1 .. 0 = {}
    BY <1>1
  <2> QED
    BY <2>1 DEF Elements, Lined
<1>4. ASSUME NEW k \in Nat, k \in T PROVE k+1 \in T
  <2> SUFFICES ASSUME k+1 <= n PROVE Good(k+1)
    OBVIOUS
  <2>1. k+1 \in 1 .. n /\ (k+1)-1 = k /\ k \in 0 .. n /\ Good(k)
    <3>1. k+1 \in 1 .. n /\ (k+1)-1 = k /\ k \in 0 .. n
      OBVIOUS
    <3> QED
      BY <1>4, <3>1
  <2>2. PICK t \in D : t = l[k+1]
    BY <1>2, <2>1
  <2>3. PICK p \in Seq(D) : p = r[k]
    BY <1>1, <1>2, <2>1
  <2>4. r[k+1] = IF t \in S THEN Append(p, t) ELSE p
    BY <1>1, <1>2, <2>1, <2>2, <2>3
  <2>5. {l[i] : i \in 1 .. k+1} = {l[i] : i \in 1 .. k} \cup {t}
    <3>1. 1 .. k+1 = (1 .. k) \cup {k+1}
      OBVIOUS
    <3> QED
      BY <2>2, <3>1
  <2>6. Elements(p) = {l[i] : i \in 1 .. k} \cap S /\ Lined(p, rank)
    BY <2>1, <2>3
  <2>7. CASE t \notin S
    <3>1. r[k+1] = p
      BY <2>4, <2>7
    <3>2. {l[i] : i \in 1 .. k+1} \cap S = {l[i] : i \in 1 .. k} \cap S
      BY <2>5, <2>7
    <3> QED
      BY <2>6, <3>1, <3>2
  <2>8. CASE t \in S
    <3>1. PICK q : q = Append(p, t)
      OBVIOUS
    <3>2. PICK m \in Nat : m = Len(p)
      BY <2>3
    <3>3. Len(q) = m+1 /\ q[m+1] = t /\ \A i \in 1 .. m : q[i] = p[i]
      BY <2>3, <3>1, <3>2
    <3>4. 1 .. m+1 = (1 .. m) \cup {m+1}
      OBVIOUS
    <3>5. Elements(q) = Elements(p) \cup {t}
      BY <3>2, <3>3, <3>4 DEF Elements
    <3>6. \A i \in 1 .. m : q[i] # t /\ rank[q[i]] <= rank[t]
      <4> SUFFICES ASSUME NEW i \in 1 .. m PROVE q[i] # t /\ rank[q[i]] <= rank[t]
        OBVIOUS
      <4>1. q[i] \in Elements(p)
        BY <3>2, <3>3 DEF Elements
      <4>2. PICK j \in 1 .. k : q[i] = l[j]
        BY <2>6, <4>1
      <4>3. j \in 1 .. n /\ j < k+1
        OBVIOUS
      <4> QED
        BY <1>2, <2>1, <2>2, <4>2, <4>3 DEF Lined
    <3>7. Lined(q, rank)
      <4> SUFFICES ASSUME NEW i \in 1 .. m+1, NEW j \in 1 .. m+1, i < j
                   PROVE  q[i] # q[j] /\ rank[q[i]] <= rank[q[j]]
        BY <3>3 DEF Lined
      <4>1. i \in 1 .. m
        OBVIOUS
      <4>2. CASE j = m+1
        BY <3>3, <3>6, <4>1, <4>2
      <4>3. CASE j # m+1
        <5>1. j \in 1 .. m
          BY <4>3
        <5> QED
          BY <2>6, <3>2, <3>3, <4>1, <5>1 DEF Lined
      <4> QED
        BY <4>2, <4>3
    <3>8. r[k+1] = q
      BY <2>4, <2>8, <3>1
    <3>9. {l[i] : i \in 1 .. k+1} \cap S = ({l[i] : i \in 1 .. k} \cap S) \cup {t}
      BY <2>5, <2>8
    <3> QED
      BY <2>6, <3>5, <3>7, <3>8, <3>9
  <2> QED
    BY <2>7, <2>8
<1>5. Good(n)
  <2>1. Nat \subseteq T
    <3> HIDE DEF T
    <3> QED
      BY <1>3, <1>4, Induct
  <2> HIDE DEF Good
  <2> QED
    BY ONLY <1>2, <2>1
<1>6. Elements(l) = {l[i] : i \in 1 .. n}
  BY <1>2 DEF Elements
<1>7. Only(l, S) = r[n] /\ r[n] \in Seq(D)
  BY <1>1, <1>2
<1> QED
  BY <1>5, <1>6, <1>7


\* The lists of a list are joined by a loop over them.
FlatLoop(r, seqs, n, D) ==
  /\ r \in [0 .. n -> Seq(D)] /\ r[0] = <<>> /\ FlattenSeq(seqs) = r[n]
  /\ \A k \in 1 .. n : r[k] = r[k-1] \o seqs[k]

LEMMA FlatFold ==
  ASSUME NEW D, NEW n \in Nat, NEW seqs \in [1 .. n -> Seq(D)]
  PROVE  \E r : FlatLoop(r, seqs, n, D)
<1> DEFINE V == Seq(D)
           step == [k \in Nat |-> [q \in V |-> IF k \in 1 .. n THEN q \o seqs[k] ELSE q]]
           body(f) == [i \in 1 .. n |-> IF i = 1 THEN seqs[i] ELSE f[i-1] \o seqs[i]]
           h == CHOOSE f : f = body(f)
<1>1. <<>> \in V /\ seqs \in Seq(V) /\ Len(seqs) = n
  OBVIOUS
<1>2. step \in Steps(V)
  <2>1. \A k \in Nat, q \in V : (IF k \in 1 .. n THEN q \o seqs[k] ELSE q) \in V
    OBVIOUS
  <2> HIDE DEF V
  <2> QED
    BY <2>1 DEF Steps
<1>3. PICK r : Recurs(r, n, V, <<>>, step)
  <2> HIDE DEF step, V
  <2> QED
    BY <1>1, <1>2, Recursion
<1>4. /\ r \in [0 .. n -> V] /\ r[0] = <<>>
      /\ \A k \in 1 .. n : r[k] = step[k][r[k-1]]
  BY <1>3 DEF Recurs
<1>5. \A k \in 1 .. n : k \in Nat /\ k-1 \in 0 .. n /\ r[k-1] \in V
  BY <1>4
<1>6. \A k \in 1 .. n : r[k] = r[k-1] \o seqs[k]
  BY <1>4, <1>5
<1>a. ASSUME n # 0 PROVE r[1] = <<>> \o seqs[1] /\ seqs[1] \in Seq(D)
  <2>1. 1 \in 1 .. n /\ 1 - 1 = 0
    BY <1>a
  <2>2. seqs[1] \in Seq(D)
    BY <2>1
  <2>3. r[1] = r[1-1] \o seqs[1]
    BY ONLY <1>6, <2>1, Zenon
  <2> QED
    BY ONLY <1>4, <2>1, <2>2, <2>3, Zenon
<1>7. CASE n = 0
  <2>1. FlattenSeq(seqs) = seqs /\ seqs = <<>>
    BY <1>1, <1>7 DEF FlattenSeq
  <2>2. FlatLoop(r, seqs, n, D)
    BY <1>4, <1>6, <1>7, <2>1 DEF FlatLoop
  <2> QED
    BY <2>2
<1>8. CASE n # 0
  <2> DEFINE f == [i \in 1 .. n |-> r[i]]
  <2>1. f = body(f)
    <3>1. \A i \in 1 .. n : f[i] = IF i = 1 THEN seqs[i] ELSE f[i-1] \o seqs[i]
      <4> SUFFICES ASSUME NEW i \in 1 .. n
                   PROVE  r[i] = IF i = 1 THEN seqs[i] ELSE f[i-1] \o seqs[i]
        OBVIOUS
      <4>1. CASE i = 1
        <5>0. 1 \in 1 .. n /\ 1 - 1 = 0
          BY <4>1
        <5>1. r[1] = <<>> \o seqs[1] /\ seqs[1] \in Seq(D)
          BY ONLY <1>8, <1>a, Zenon
        <5> QED
          BY <4>1, <5>1
      <4>2. CASE i # 1
        <5>1. i-1 \in 1 .. n
          BY <4>2
        <5> QED
          BY <1>6, <4>2, <5>1
      <4> QED
        BY <4>1, <4>2
    <3> QED
      BY <3>1
  <2>2. h = body(h)
    <3> HIDE DEF body, f
    <3> QED
      BY <2>1
  <2>3. \A i \in 1 .. n : h[i] = IF i = 1 THEN seqs[i] ELSE h[i-1] \o seqs[i]
    <3> HIDE DEF h
    <3> QED
      BY <2>2
  <2>4. FlattenSeq(seqs) = h[n]
    BY <1>1, <1>8 DEF FlattenSeq
  <2> DEFINE T == {k \in Nat : k+1 <= n => h[k+1] = r[k+1]}
  <2>5. 0 \in T
    <3>0. 1 \in 1 .. n /\ 1 - 1 = 0
      BY <1>8
    <3>1. r[1] = <<>> \o seqs[1] /\ seqs[1] \in Seq(D)
      BY ONLY <1>8, <1>a, Zenon
    <3> HIDE DEF h
    <3> QED
      BY <2>3, <3>0, <3>1
  <2>6. ASSUME NEW k \in Nat, k \in T PROVE k+1 \in T
    <3> HIDE DEF h
    <3> SUFFICES ASSUME (k+1)+1 <= n PROVE h[(k+1)+1] = r[(k+1)+1]
      OBVIOUS
    <3>1. PICK j \in 1 .. n : j = (k+1)+1 /\ j-1 = k+1 /\ j # 1
      OBVIOUS
    <3>2. h[j-1] = r[j-1]
      <4>1. h[k+1] = r[k+1]
        BY <2>6
      <4> QED
        BY <3>1, <4>1
    <3>3. h[j] = h[j-1] \o seqs[j] /\ r[j] = r[j-1] \o seqs[j]
      BY <1>6, <2>3, <3>1
    <3> QED
      BY <3>1, <3>2, <3>3
  <2>7. n-1 \in T
    <3>1. n-1 \in Nat
      BY <1>8
    <3> HIDE DEF T
    <3> QED
      BY <2>5, <2>6, <3>1, Induct
  <2>8. h[n] = r[n]
    <3>1. (n-1)+1 = n
      BY <1>8
    <3> HIDE DEF h
    <3> QED
      BY <2>7, <3>1
  <2>9. FlatLoop(r, seqs, n, D)
    <3> HIDE DEF h
    <3> QED
      BY <1>4, <1>6, <2>4, <2>8 DEF FlatLoop
  <2> QED
    BY <2>9
<1> QED
  BY <1>7, <1>8

\* Two lined up lists, the second behind the first, make one.
LEMMA Join ==
  ASSUME NEW D, NEW p \in Seq(D), NEW q \in Seq(D), NEW rank,
         Lined(p, rank), Lined(q, rank),
         \A t \in Elements(p), u \in Elements(q) : t # u /\ rank[t] <= rank[u]
  PROVE  Lined(p \o q, rank) /\ Elements(p \o q) = Elements(p) \cup Elements(q)
<1>1. PICK m \in Nat : m = Len(p)
  OBVIOUS
<1>2. PICK n \in Nat : n = Len(q)
  OBVIOUS
<1>3. PICK r : r = p \o q
  OBVIOUS
<1>4. /\ Len(r) = m + n /\ \A i \in 1 .. m : r[i] = p[i]
      /\ \A i \in m+1 .. m+n : r[i] = q[i - m]
  BY <1>1, <1>2, <1>3
<1>5. \A i \in m+1 .. m+n : i - m \in 1 .. n
  OBVIOUS
<1>6. \A i \in 1 .. n : i + m \in m+1 .. m+n /\ (i + m) - m = i
  OBVIOUS
<1>7. \A i \in 1 .. m+n : i \in 1 .. m \/ i \in m+1 .. m+n
  OBVIOUS
<1>8. (\A i \in 1 .. m : p[i] \in Elements(p)) /\ (\A i \in 1 .. n : q[i] \in Elements(q))
  BY <1>1, <1>2 DEF Elements
<1>9. Lined(r, rank)
  <2> SUFFICES ASSUME NEW i \in 1 .. m+n, NEW j \in 1 .. m+n, i < j
               PROVE  r[i] # r[j] /\ rank[r[i]] <= rank[r[j]]
    BY <1>4 DEF Lined
  <2>1. CASE i \in 1 .. m /\ j \in 1 .. m
    BY <1>1, <1>4, <2>1 DEF Lined
  <2>2. CASE i \in 1 .. m /\ j \in m+1 .. m+n
    BY <1>4, <1>5, <1>8, <2>2
  <2>3. CASE i \in m+1 .. m+n
    <3>1. j \in m+1 .. m+n
      BY <2>3
    <3>2. PICK a \in 1 .. n : a = i - m
      BY <1>5, <2>3
    <3>3. PICK b \in 1 .. n : b = j - m
      BY <1>5, <3>1
    <3>4. a < b
      BY <3>2, <3>3
    <3>5. r[i] = q[a]
      BY <1>4, <2>3, <3>2
    <3>6. r[j] = q[b]
      BY <1>4, <3>1, <3>3
    <3> QED
      BY <1>2, <3>4, <3>5, <3>6 DEF Lined
  <2> QED
    BY <1>7, <2>1, <2>2, <2>3
<1>10. Elements(r) = {r[i] : i \in 1 .. m+n}
  BY <1>4 DEF Elements
<1>11. Elements(r) \subseteq Elements(p) \cup Elements(q)
  <2> SUFFICES ASSUME NEW i \in 1 .. m+n PROVE r[i] \in Elements(p) \cup Elements(q)
    BY <1>10
  <2>1. CASE i \in 1 .. m
    BY <1>4, <1>8, <2>1
  <2>2. CASE i \in m+1 .. m+n
    <3>1. PICK j \in 1 .. n : r[i] = q[j]
      BY <1>4, <1>5, <2>2
    <3> QED
      BY <1>8, <3>1
  <2> QED
    BY <1>7, <2>1, <2>2
<1>12. \A i \in 1 .. m : i \in 1 .. m+n
  OBVIOUS
<1>13. \A i \in 1 .. n : i + m \in 1 .. m+n
  OBVIOUS
<1>14. Elements(p) \subseteq Elements(r)
  <2>1. Elements(p) = {p[i] : i \in 1 .. m}
    BY <1>1 DEF Elements
  <2> QED
    BY <1>4, <1>10, <1>12, <2>1
<1>15. Elements(q) \subseteq Elements(r)
  <2>1. Elements(q) = {q[i] : i \in 1 .. n}
    BY <1>2 DEF Elements
  <2> SUFFICES ASSUME NEW i \in 1 .. n PROVE q[i] \in Elements(r)
    BY <2>1
  <2>2. r[i + m] = q[i]
    BY <1>4, <1>6
  <2> QED
    BY <1>10, <1>13, <2>2
<1> QED
  BY <1>3, <1>9, <1>11, <1>14, <1>15


Tiers(gr) == [t \in IdsOf(gr) |-> TierOf(gr, t)]

\* A tier lists each of its tasks once.
LEMMA InTierFacts ==
  ASSUME NEW gr \in Graphs, SortError(gr) = "none", NEW k \in Nat
  PROVE  /\ InTier(gr, k) \in Seq(IdsOf(gr)) /\ Lined(InTier(gr, k), Tiers(gr))
         /\ Elements(InTier(gr, k)) = {t \in IdsOf(gr) : TierOf(gr, t) = k}
<1> DEFINE ids == IdsOf(gr)
           S == {t \in ids : TierOf(gr, t) = k}
           flat == [t \in ids |-> 0]
<1>1. PICK l : l = gr.order
  OBVIOUS
<1>2. PICK n \in Nat : n = Len(l)
  BY <1>1, GraphFacts
<1>3. l \in Seq(Names \cup {NoName}) /\ DOMAIN l = 1 .. n
  BY <1>1, <1>2, ScheduleAssumption
<1>4. ids = {l[i] : i \in 1 .. n}
  BY <1>1, <1>2, GraphFacts
<1>5. l \in Seq(ids)
  BY <1>2, <1>3, <1>4
<1>6. Lined(l, flat)
  <2>1. \A i, j \in 1 .. n : l[i] = l[j] => i = j
    BY <1>1, <1>3, Accepted DEF IsInjective
  <2>2. \A i \in 1 .. n : flat[l[i]] = 0
    BY <1>4
  <2> HIDE DEF flat, ids
  <2> QED
    BY <1>2, <2>1, <2>2 DEF Lined
<1>7. PICK q : q = InTier(gr, k)
  OBVIOUS
<1>8. q = Only(l, S)
  BY <1>1, <1>7 DEF InTier
<1>9. q \in Seq(ids) /\ Elements(q) = Elements(l) \cap S /\ Lined(q, flat)
  <2> HIDE DEF S, flat, ids
  <2> QED
    BY <1>5, <1>6, <1>8, OnlyFacts
<1>10. Elements(l) = ids
  BY <1>2, <1>4 DEF Elements
<1>11. Elements(q) = S
  BY <1>9, <1>10
<1>12. Lined(q, Tiers(gr))
  <2>1. PICK m \in Nat : m = Len(q)
    BY <1>9
  <2>2. \A i \in 1 .. m : q[i] \in S
    BY <1>11, <2>1 DEF Elements
  <2>3. \A i \in 1 .. m : Tiers(gr)[q[i]] = k
    BY <2>2 DEF Tiers
  <2>4. \A i, j \in 1 .. m : i < j => q[i] # q[j]
    BY <1>9, <2>1 DEF Lined
  <2> QED
    BY <2>1, <2>3, <2>4 DEF Lined
<1> QED
  BY <1>7, <1>9, <1>11, <1>12

---------------------------------------------------------------------------
(* Schedule.                                                               *)

Phases == {"none", "queued", "running", "leaving", "gone"}
Verdicts == {"none", "ok", "failed", "stopped", "blocked"}

Shape ==
  /\ g \in Graphs
  /\ pc \in {"sort", "wait", "returned"}
  /\ err \in {"none", "name", "missing", "cycle"}
  /\ ctxDone \in BOOLEAN
  /\ phase \in [Names -> Phases]
  /\ verdict \in [Names -> Verdicts]
  /\ given \in [Names -> [Names -> Names \cup {NoName}]]
  /\ cause \in [Names -> Names \cup {NoName}]
  /\ outputs \in [Names -> Names \cup {NoName}]

\* Before the first launch, and after a refused graph, nothing has happened.
Idle ==
  /\ pc = "sort" => err = "none"
  /\ pc = "sort" \/ err # "none" =>
       \A t \in Names : phase[t] = "none" /\ verdict[t] = "none"

\* A name that is no task has no goroutine and no result.
Strangers == \A t \in Names \ Tasks : phase[t] = "none" /\ verdict[t] = "none"

\* The entries of depends_on that have not succeeded yet.
Unmet(t) == {i \in DOMAIN g.deps[t] : verdict[g.deps[t][i]] # "ok"}

\* pending counts them, once the loops before the first launch have run.
Counted == pc # "sort" /\ err = "none" =>
             \A t \in Tasks : pending[t] = Cardinality(Unmet(t))

\* A task has its result exactly when its goroutine is past Exec or it never
\* gets one, and an output is there for each that succeeded.
Agree == \A t \in Names :
  /\ phase[t] = "none" => verdict[t] \in {"none", "blocked"}
  /\ phase[t] \in {"queued", "running"} => verdict[t] = "none"
  /\ phase[t] \in {"leaving", "gone"} => verdict[t] \in {"ok", "failed", "stopped"}
  /\ verdict[t] = "ok" => outputs[t] = t

\* A goroutine exists behind its prerequisites only, and has their outputs.
Delivered == \A t \in Tasks : phase[t] # "none" =>
  \A d \in DepsOf(g, t) : verdict[d] = "ok" /\ given[t][d] = d

Inv == Shape /\ Idle /\ Strangers /\ Counted /\ Agree /\ Delivered

---------------------------------------------------------------------------
(* Graphs.                                                                   *)

\* The same of the graph at hand.
LEMMA DepsFacts ==
  ASSUME g \in Graphs, NEW t \in Names
  PROVE  /\ g.deps[t] \in Seq(Names)
         /\ DepsOf(g, t) = {g.deps[t][i] : i \in DOMAIN g.deps[t]}
         /\ DepsOf(g, t) \subseteq Names
         /\ DOMAIN g.deps[t] = 1 .. Len(g.deps[t])
         /\ Len(g.deps[t]) \in Nat
         /\ IsFiniteSet(DOMAIN g.deps[t])
         /\ Cardinality(DOMAIN g.deps[t]) = Len(g.deps[t])
  BY DepsOfFacts

\* A task with no unmet prerequisite has all of them.
LEMMA UnmetFacts ==
  ASSUME g \in Graphs, NEW t \in Names
  PROVE  /\ IsFiniteSet(Unmet(t)) /\ Cardinality(Unmet(t)) \in Nat
         /\ Cardinality(Unmet(t)) = 0 => \A d \in DepsOf(g, t) : verdict[d] = "ok"
<1>1. IsFiniteSet(Unmet(t))
  BY DepsFacts, FS_Subset DEF Unmet
<1>2. Cardinality(Unmet(t)) \in Nat
  BY <1>1, FS_CardinalityType
<1>3. Cardinality(Unmet(t)) = 0 => Unmet(t) = {}
  BY <1>1, FS_EmptySet
<1> QED
  BY <1>1, <1>2, <1>3, DepsFacts DEF Unmet

\* blockAll marks tasks without a result, each behind t or another it marks.
LEMMA BehindFacts ==
  ASSUME NEW t, NEW u \in BlockedBehind(t)
  PROVE  /\ u \in Tasks \ {t} /\ verdict[u] = "none"
         /\ \E d \in DepsOf(g, u) : d \in BlockedBehind(t) \cup {t}
<1> DEFINE open == {w \in Tasks \ {t} : verdict[w] = "none"}
           behind == BlockedBehind(t)
           Closed(U) == \A w \in open : DepsOf(g, w) \cap (U \cup {t}) # {} => w \in U
           linked == {w \in behind : DepsOf(g, w) \cap (behind \cup {t}) # {}}
<1>1. behind = {w \in open : \A U \in SUBSET open : Closed(U) => w \in U}
  BY DEF BlockedBehind
<1>2. linked \in SUBSET open
  BY <1>1
<1>3. Closed(linked)
  <2> SUFFICES ASSUME NEW w \in open, DepsOf(g, w) \cap (linked \cup {t}) # {}
               PROVE  w \in linked
    OBVIOUS
  <2>1. DepsOf(g, w) \cap (behind \cup {t}) # {}
    OBVIOUS
  <2>2. ASSUME NEW U \in SUBSET open, Closed(U)
        PROVE  w \in U
    <3>1. linked \subseteq U
      BY <1>1, <2>2
    <3> QED
      BY <2>2, <3>1
  <2>3. w \in behind
    BY <1>1, <2>2
  <2> QED
    BY <2>1, <2>3
<1>4. u \in linked
  <2> HIDE DEF linked, Closed, open
  <2> QED
    BY <1>1, <1>2, <1>3
<1>5. u \in open
  BY <1>1
<1> QED
  BY <1>4, <1>5

---------------------------------------------------------------------------
(* The steps.                                                                *)

\* What launch does to the tasks that are ready, and to no other.
LEMMA LaunchFacts ==
  ASSUME Shape, NEW ready, ready \subseteq Tasks,
         NEW ph \in [Names -> Phases], NEW out \in [Names -> Names \cup {NoName}], NEW n,
         Launch(ready, ph, out, n)
  PROVE  /\ phase' \in [Names -> Phases]
         /\ given' \in [Names -> [Names -> Names \cup {NoName}]]
         /\ \A t \in Names : IF t \in ready /\ verdict[t] = "none"
                             THEN /\ phase'[t] = "queued"
                                  /\ \A d \in DepsOf(g, t) : given'[t][d] = out[d]
                             ELSE phase'[t] = ph[t] /\ given'[t] = given[t]
<1> DEFINE new == {t \in ready : verdict[t] = "none"}
<1>1. new \subseteq Names
  BY DEF Tasks
<1>2. /\ phase' = [t \in Names |-> IF t \in new THEN "queued" ELSE ph[t]]
      /\ given' = [t \in Names |->
           IF t \in new THEN [d \in Names |-> IF d \in DepsOf(g, t) THEN out[d] ELSE NoName]
           ELSE given[t]]
  BY DEF Launch
<1>3. \A t \in new : \A d \in DepsOf(g, t) : d \in Names
  BY <1>1, DepsFacts DEF Shape
<1> HIDE DEF new
<1>4. phase' \in [Names -> Phases]
  BY <1>2 DEF Phases
<1>5. given' \in [Names -> [Names -> Names \cup {NoName}]]
  BY <1>2 DEF Shape
<1>6. \A t \in new : \A d \in DepsOf(g, t) : given'[t][d] = out[d]
  BY <1>1, <1>2, <1>3
<1>7. \A t \in Names : phase'[t] = IF t \in new THEN "queued" ELSE ph[t]
  BY <1>2
<1>8. \A t \in Names \ new : given'[t] = given[t]
  BY <1>2
<1> QED
  BY <1>4, <1>5, <1>6, <1>7, <1>8 DEF new

\* What a task that fails does to those behind it.
LEMMA ConcludeFacts ==
  ASSUME Shape, NEW t \in Tasks, NEW outcome \in {"failed", "stopped"}, Conclude(t, outcome)
  PROVE  /\ verdict' \in [Names -> Verdicts] /\ cause' \in [Names -> Names \cup {NoName}]
         /\ \A u \in Names : verdict'[u] = IF u = t THEN outcome
                                           ELSE IF u \in BlockedBehind(t) THEN "blocked"
                                           ELSE verdict[u]
         /\ UNCHANGED <<pending, given, outputs>>
  BY DEF Conclude, Shape, Verdicts, Tasks

\* A task without a goroutine does not wait for one that has no result: the
\* dependents of a task that is still open have not started.
LEMMA DependentsWait ==
  ASSUME Inv, NEW t \in Tasks, NEW d \in DepsOf(g, t), verdict[d] # "ok"
  PROVE  phase[t] = "none"
  BY DEF Inv, Delivered

\* Who is blocked behind a task has not started.
LEMMA BlockedWait ==
  ASSUME Inv, NEW t \in Tasks, verdict[t] = "none", NEW u \in BlockedBehind(t)
  PROVE  u \in Tasks \ {t} /\ verdict[u] = "none" /\ phase[u] = "none"
<1>1. u \in Tasks \ {t} /\ verdict[u] = "none"
  BY BehindFacts
<1>2. PICK d \in DepsOf(g, u) : d \in BlockedBehind(t) \cup {t}
  BY BehindFacts
<1>3. verdict[d] = "none"
  BY <1>2, BehindFacts
<1> QED
  BY <1>1, <1>2, <1>3, DependentsWait

\* The invariant holds at first.
LEMMA InvInit == Init => Inv
<1> SUFFICES ASSUME Init PROVE Inv
  OBVIOUS
<1> USE DEF Init, Nothing
<1>1. Shape
  BY DEF Shape, Phases, Verdicts
<1>2. Idle /\ Strangers /\ Counted /\ Agree /\ Delivered
  BY DEF Idle, Strangers, Counted, Agree, Delivered, Tasks
<1> QED
  BY <1>1, <1>2 DEF Inv

\* Sort refuses, or the first tasks are launched.
LEMMA StepBegin ==
  ASSUME Inv, Begin
  PROVE  Inv'
<1> USE DEF Inv
<1>1. UNCHANGED <<g, ctxDone, verdict, cause, outputs>> /\ pc = "sort"
  BY DEF Begin
<1>2. \A t \in Names : phase[t] = "none" /\ verdict[t] = "none"
  BY <1>1 DEF Idle
<1>3. CASE SortError(g) # "none"
  <2>1. pc' = "returned" /\ err' = SortError(g) /\ UNCHANGED <<pending, phase, given>>
    BY <1>3 DEF Begin
  <2>2. err' \in {"name", "missing", "cycle"}
    BY <1>3, <2>1 DEF SortError
  <2>3. Shape'
    BY <1>1, <2>1, <2>2 DEF Shape
  <2> QED
    BY <1>1, <1>2, <2>1, <2>2, <2>3
    DEF Idle, Strangers, Counted, Agree, Delivered, Tasks
<1>4. CASE SortError(g) = "none"
  <2> DEFINE ready == {t \in Tasks : pending'[t] = 0}
  <2>1. /\ pc' = "wait" /\ err' = err
        /\ pending' = [t \in Names |-> IF t \in Tasks THEN Len(g.deps[t]) ELSE 0]
        /\ Launch(ready, phase, outputs, inflight)
    BY <1>4 DEF Begin
  <2>2. /\ phase' \in [Names -> Phases]
        /\ given' \in [Names -> [Names -> Names \cup {NoName}]]
        /\ \A t \in Names : phase'[t] = IF t \in ready THEN "queued" ELSE "none"
    <3>1. ready \subseteq Tasks /\ \A t \in ready : verdict[t] = "none"
      BY <1>2 DEF Tasks
    <3>2. phase \in [Names -> Phases] /\ outputs \in [Names -> Names \cup {NoName}] /\ Shape
      BY DEF Shape
    <3> HIDE DEF ready
    <3>3. /\ phase' \in [Names -> Phases]
          /\ given' \in [Names -> [Names -> Names \cup {NoName}]]
          /\ \A t \in Names : phase'[t] = IF t \in ready THEN "queued" ELSE phase[t]
      <4>1. \A R : R \subseteq Tasks /\ Launch(R, phase, outputs, inflight) =>
              /\ phase' \in [Names -> Phases]
              /\ given' \in [Names -> [Names -> Names \cup {NoName}]]
              /\ \A t \in Names : phase'[t] = IF t \in R /\ verdict[t] = "none"
                                               THEN "queued" ELSE phase[t]
        BY <3>2, LaunchFacts
      <4> QED
        BY <4>1, <2>1, <3>1
    <3> QED
      BY <1>2, <3>3
  <2>3. Shape'
    BY <1>1, <2>1, <2>2 DEF Shape
  <2>4. \A t \in Tasks : Cardinality(Unmet(t)) = Len(g.deps[t])
    <3> SUFFICES ASSUME NEW t \in Tasks PROVE Cardinality(Unmet(t)) = Len(g.deps[t])
      OBVIOUS
    <3>1. t \in Names /\ g \in Graphs
      BY DEF Tasks, Shape
    <3>2. \A i \in DOMAIN g.deps[t] : g.deps[t][i] \in Names
      BY <3>1, DepsFacts
    <3>3. Unmet(t) = DOMAIN g.deps[t]
      BY <1>2, <3>2 DEF Unmet
    <3> QED
      BY <3>1, <3>3, DepsFacts
  <2>5. Counted'
    BY <1>1, <2>1, <2>4 DEF Counted, Unmet, Tasks
  <2>6. Idle' /\ Strangers' /\ Agree'
    <3>1. err = "none"
      BY <1>1 DEF Idle
    <3> QED
      BY <1>1, <1>2, <2>1, <2>2 DEF Idle, Strangers, Agree, Tasks, Shape
  <2>7. \A t \in ready : DepsOf(g, t) = {}
    BY <2>1, DepsFacts DEF Tasks, Shape
  <2>8. Delivered'
    BY <1>1, <2>2, <2>7 DEF Delivered, Tasks
  <2> QED
    BY <2>3, <2>5, <2>6, <2>8
<1> QED
  BY <1>3, <1>4

\* What a step leaves alone it keeps: the steps that only move a goroutine on.
LEMMA StepMove ==
  ASSUME Inv, NEW t \in Tasks, NEW to \in Phases,
         phase' = [phase EXCEPT ![t] = to],
         \/ phase[t] = "queued" /\ to = "running"
         \/ phase[t] = "leaving" /\ to = "gone",
         UNCHANGED <<g, pc, err, ctxDone, pending, given, verdict, cause, outputs>>
  PROVE  Inv'
<1> USE DEF Inv
<1>1. t \in Names /\ phase'[t] = to /\ \A u \in Names \ {t} : phase'[u] = phase[u]
  BY DEF Tasks, Shape
<1>2. Shape'
  BY DEF Shape
<1>3. Idle' /\ Strangers' /\ Agree' /\ Delivered'
  BY <1>1 DEF Idle, Strangers, Agree, Delivered, Tasks
<1>4. Counted'
  BY DEF Counted, Unmet, Tasks
<1> QED
  BY <1>2, <1>3, <1>4

\* A task ends without an output.
LEMMA StepConclude ==
  ASSUME Inv, NEW t \in Tasks, NEW outcome \in {"failed", "stopped"}, NEW to \in {"leaving", "gone"},
         phase[t] \in {"queued", "running"},
         phase' = [phase EXCEPT ![t] = to],
         Conclude(t, outcome),
         UNCHANGED <<g, pc, err, ctxDone>>
  PROVE  Inv'
<1> USE DEF Inv
<1>1. t \in Names /\ phase'[t] = to /\ \A u \in Names \ {t} : phase'[u] = phase[u]
  BY DEF Tasks, Shape
<1>2. verdict[t] = "none"
  BY <1>1 DEF Agree
<1>3. /\ verdict' \in [Names -> Verdicts] /\ cause' \in [Names -> Names \cup {NoName}]
      /\ \A u \in Names : verdict'[u] = IF u = t THEN outcome
                                        ELSE IF u \in BlockedBehind(t) THEN "blocked"
                                        ELSE verdict[u]
      /\ UNCHANGED <<pending, given, outputs>>
  BY ConcludeFacts
<1>4. \A u \in BlockedBehind(t) : u \in Tasks \ {t} /\ verdict[u] = "none" /\ phase[u] = "none"
  BY <1>2, BlockedWait
<1>5. \A u \in Names : verdict'[u] = "ok" <=> verdict[u] = "ok"
  BY <1>2, <1>3, <1>4
<1>6. Shape'
  BY <1>3 DEF Shape, Phases
<1>7. pc # "sort" /\ err = "none"
  BY <1>1, <1>2 DEF Idle
<1>8. Idle' /\ Strangers'
  BY <1>1, <1>3, <1>4, <1>7 DEF Idle, Strangers, Tasks
<1>9. Counted'
  <2> SUFFICES ASSUME NEW u \in Tasks
               PROVE  pending'[u] = Cardinality(Unmet(u)')
    BY DEF Counted, Tasks
  <2>1. u \in Names /\ g \in Graphs
    BY DEF Tasks, Shape
  <2>2. \A i \in DOMAIN g.deps[u] : g.deps[u][i] \in Names
    BY <2>1, DepsFacts
  <2>3. Unmet(u)' = Unmet(u)
    BY <1>5, <2>2 DEF Unmet
  <2> QED
    BY <1>3, <1>7, <2>3 DEF Counted
<1>10. Agree'
  BY <1>1, <1>3, <1>4, <1>5 DEF Agree
<1>11. Delivered'
  <2> SUFFICES ASSUME NEW u \in Tasks, phase'[u] # "none", NEW d \in DepsOf(g, u)
               PROVE  verdict'[d] = "ok" /\ given'[u][d] = d
    BY DEF Delivered, Tasks
  <2>1. phase[u] # "none" /\ u \in Names /\ d \in Names
    BY <1>1, DepsFacts DEF Tasks, Shape
  <2> QED
    BY <1>3, <1>5, <2>1 DEF Delivered
<1> QED
  BY <1>6, <1>8, <1>9, <1>10, <1>11

\* The count of a dependent goes down by the mentions of t in its list.
LEMMA CountDown ==
  ASSUME Inv, NEW t \in Tasks, pc # "sort", err = "none", verdict[t] = "none",
         verdict' = [verdict EXCEPT ![t] = "ok"], UNCHANGED g, NEW u \in Tasks
  PROVE  LET mentions == {i \in DOMAIN g.deps[u] : g.deps[u][i] = t} IN
         /\ Cardinality(Unmet(u)') = pending[u] - Cardinality(mentions)
         /\ Cardinality(Unmet(u)') = 0 => \A d \in DepsOf(g, u) : verdict'[d] = "ok"
<1> DEFINE mentions == {i \in DOMAIN g.deps[u] : g.deps[u][i] = t}
           left == Unmet(u) \ mentions
<1>1. u \in Names /\ t \in Names /\ g \in Graphs /\ verdict \in [Names -> Verdicts]
  BY DEF Inv, Shape, Tasks
<1>2. \A i \in DOMAIN g.deps[u] : g.deps[u][i] \in Names
  BY <1>1, DepsFacts
<1>3. Unmet(u)' = left
  BY <1>1, <1>2 DEF Unmet
<1>4. mentions \subseteq Unmet(u)
  BY DEF Unmet
<1>5. IsFiniteSet(Unmet(u)) /\ Cardinality(Unmet(u)) = pending[u]
  BY <1>1, UnmetFacts DEF Inv, Counted
<1> HIDE DEF mentions
<1>6. IsFiniteSet(mentions) /\ Cardinality(left) = pending[u] - Cardinality(mentions)
  <2>1. Unmet(u) \cap mentions = mentions
    BY <1>4
  <2>2. IsFiniteSet(mentions)
    BY <1>4, <1>5, FS_Subset
  <2>3. Cardinality(left) = Cardinality(Unmet(u)) - Cardinality(Unmet(u) \cap mentions)
    BY <1>5, FS_Difference
  <2> QED
    BY <2>1, <2>2, <2>3, <1>5
<1>7. Cardinality(left) = 0 => left = {}
  <2>1. IsFiniteSet(left)
    BY <1>5, FS_Subset
  <2> HIDE DEF left
  <2> QED
    BY <2>1, FS_EmptySet
<1>8. left = {} => \A d \in DepsOf(g, u) : verdict'[d] = "ok"
  <2> SUFFICES ASSUME Unmet(u)' = {}, NEW d \in DepsOf(g, u)
               PROVE  verdict'[d] = "ok"
    BY <1>3
  <2>1. PICK i \in DOMAIN g.deps[u] : d = g.deps[u][i]
    BY <1>1, DepsFacts
  <2>2. i \notin Unmet(u)'
    OBVIOUS
  <2> QED
    BY <2>1, <2>2 DEF Unmet
<1> QED
  BY <1>3, <1>6, <1>7, <1>8 DEF mentions

\* A task succeeds and launches what waited for it.
LEMMA StepExecReturns ==
  ASSUME Inv, NEW t \in Tasks, ExecReturns(t)
  PROVE  /\ Inv'
         /\ \A u \in Names : u # t /\ phase'[u] # phase[u] =>
              /\ u \in Tasks /\ phase[u] = "none" /\ verdict[u] = "none"
              /\ phase'[u] = "queued"
              /\ \A d \in DepsOf(g, u) : d = t \/ verdict[d] = "ok"
<1> USE DEF Inv
<1>1. /\ t \in Names /\ phase[t] = "running" /\ verdict[t] = "none"
      /\ pc # "sort" /\ err = "none"
  BY DEF ExecReturns, Tasks, Agree, Idle
<1>2. /\ verdict' = [verdict EXCEPT ![t] = "ok"]
      /\ outputs' = [outputs EXCEPT ![t] = t]
      /\ UNCHANGED <<g, pc, err, ctxDone, cause>>
  BY DEF ExecReturns
<1>3. /\ verdict'[t] = "ok" /\ \A u \in Names \ {t} : verdict'[u] = verdict[u]
      /\ outputs'[t] = t /\ \A u \in Names \ {t} : outputs'[u] = outputs[u]
      /\ verdict' \in [Names -> Verdicts] /\ outputs' \in [Names -> Names \cup {NoName}]
  BY <1>1, <1>2 DEF Shape, Verdicts
<1>4. \A u \in Tasks : t \in DepsOf(g, u) => phase[u] = "none" /\ u # t
  BY <1>1, DependentsWait
<1> DEFINE ready == {u \in Tasks : t \in DepsOf(g, u) /\ pending'[u] = 0}
           ph == [phase EXCEPT ![t] = "leaving"]
<1>5. ph \in [Names -> Phases] /\ ph[t] = "leaving" /\ \A u \in Names \ {t} : ph[u] = phase[u]
  BY <1>1 DEF Shape, Phases
<1>6. Launch(ready, ph, outputs', inflight - 1)
  BY DEF ExecReturns
<1>7. ready \subseteq Tasks
  OBVIOUS
<1>8. \A u \in Tasks : /\ pending'[u] = Cardinality(Unmet(u)')
                       /\ u \in ready => \A d \in DepsOf(g, u) : verdict'[d] = "ok"
  <2> SUFFICES ASSUME NEW u \in Tasks
               PROVE  /\ pending'[u] = Cardinality(Unmet(u)')
                      /\ pending'[u] = 0 => \A d \in DepsOf(g, u) : verdict'[d] = "ok"
    OBVIOUS
  <2>1. pending'[u] = pending[u] - Cardinality({i \in DOMAIN g.deps[u] : g.deps[u][i] = t})
    BY DEF ExecReturns, Tasks
  <2> QED
    BY <1>1, <1>2, <2>1, CountDown
<1>9. \A u \in ready : u \in Names /\ phase[u] = "none" /\ u # t
  BY <1>4 DEF Tasks
<1> HIDE DEF ready, ph
<1>10. /\ phase' \in [Names -> Phases]
       /\ given' \in [Names -> [Names -> Names \cup {NoName}]]
       /\ \A u \in Names : IF u \in ready /\ verdict[u] = "none"
                           THEN /\ phase'[u] = "queued"
                                /\ \A d \in DepsOf(g, u) : given'[u][d] = outputs'[d]
                           ELSE phase'[u] = ph[u] /\ given'[u] = given[u]
  <2>1. PICK o, n : o = outputs' /\ n = inflight - 1
    OBVIOUS
  <2>2. o \in [Names -> Names \cup {NoName}] /\ Launch(ready, ph, o, n)
    BY ONLY <1>3, <1>6, <2>1, Zenon
  <2>3. Shape
    OBVIOUS
  <2>4. /\ phase' \in [Names -> Phases]
        /\ given' \in [Names -> [Names -> Names \cup {NoName}]]
        /\ \A u \in Names : IF u \in ready /\ verdict[u] = "none"
                            THEN /\ phase'[u] = "queued"
                                 /\ \A d \in DepsOf(g, u) : given'[u][d] = o[d]
                            ELSE phase'[u] = ph[u] /\ given'[u] = given[u]
    BY ONLY <1>5, <1>7, <2>2, <2>3, LaunchFacts, Zenon
  <2> QED
    BY ONLY <2>1, <2>4, Zenon
<1>11. Shape'
  BY <1>2, <1>3, <1>10 DEF Shape
<1>12. phase'[t] = "leaving"
  BY <1>1, <1>5, <1>9, <1>10
<1>13. Idle' /\ Strangers'
  BY <1>1, <1>2, <1>3, <1>5, <1>7, <1>10, <1>12 DEF Idle, Strangers, Tasks
<1>14. Counted'
  BY <1>2, <1>8 DEF Counted, Tasks
<1>15. Agree'
  <2> SUFFICES ASSUME NEW u \in Names
               PROVE  /\ phase'[u] = "none" => verdict'[u] \in {"none", "blocked"}
                      /\ phase'[u] \in {"queued", "running"} => verdict'[u] = "none"
                      /\ phase'[u] \in {"leaving", "gone"} => verdict'[u] \in {"ok", "failed", "stopped"}
                      /\ verdict'[u] = "ok" => outputs'[u] = u
    BY DEF Agree
  <2>1. CASE u = t
    BY <1>3, <1>12, <2>1
  <2>2. CASE u # t
    BY <1>3, <1>5, <1>10, <2>2 DEF Agree
  <2> QED
    BY <2>1, <2>2
<1>16. Delivered'
  <2> SUFFICES ASSUME NEW u \in Tasks, phase'[u] # "none", NEW d \in DepsOf(g, u)
               PROVE  verdict'[d] = "ok" /\ given'[u][d] = d
    BY <1>2 DEF Delivered, Tasks
  <2>1. u \in Names /\ d \in Names
    BY DepsFacts DEF Tasks, Shape
  <2>2. CASE u \in ready /\ verdict[u] = "none"
    <3>1. verdict'[d] = "ok"
      BY <1>8, <2>2
    <3>2. outputs'[d] = d
      BY <1>15, <2>1, <3>1 DEF Agree
    <3> QED
      BY <1>10, <2>1, <2>2, <3>1, <3>2
  <2>3. CASE ~(u \in ready /\ verdict[u] = "none")
    <3>1. phase[u] # "none" /\ given'[u] = given[u]
      BY <1>1, <1>5, <1>10, <2>1, <2>3
    <3> QED
      BY <1>3, <2>1, <3>1 DEF Delivered
  <2> QED
    BY <2>2, <2>3
<1>17. ASSUME NEW u \in Names, u # t, phase'[u] # phase[u]
       PROVE  /\ u \in Tasks /\ phase[u] = "none" /\ verdict[u] = "none"
              /\ phase'[u] = "queued"
              /\ \A d \in DepsOf(g, u) : d = t \/ verdict[d] = "ok"
  <2>1. u \in ready /\ verdict[u] = "none"
    BY <1>5, <1>10, <1>17
  <2>2. \A d \in DepsOf(g, u) : d \in Names
    BY <1>17, DepsFacts DEF Shape
  <2> QED
    BY <1>3, <1>7, <1>8, <1>9, <1>10, <2>1, <2>2
<1> QED
  BY <1>11, <1>13, <1>14, <1>15, <1>16, <1>17

\* Every step keeps it.
LEMMA InvNext == Inv /\ [Next]_vars => Inv'
<1> SUFFICES ASSUME Inv, [Next]_vars PROVE Inv'
  OBVIOUS
<1> DEFINE Frame == UNCHANGED <<g, err, pending, phase, given, verdict, cause, outputs>>
<1>1. ASSUME Frame, UNCHANGED <<pc, ctxDone>> PROVE Inv'
  BY <1>1 DEF Inv, Shape, Idle, Strangers, Counted, Unmet, Agree, Delivered, Tasks
<1>2. CASE Begin
  BY <1>2, StepBegin
<1>3. CASE Return
  <2>1. Frame /\ pc = "wait" /\ pc' = "returned" /\ UNCHANGED ctxDone
    BY <1>3 DEF Return
  <2> QED
    BY <2>1 DEF Inv, Shape, Idle, Strangers, Counted, Unmet, Agree, Delivered, Tasks
<1>4. CASE Cancel
  <2>1. Frame /\ UNCHANGED pc /\ ctxDone' = TRUE
    BY <1>4 DEF Cancel
  <2> QED
    BY <2>1 DEF Inv, Shape, Idle, Strangers, Counted, Unmet, Agree, Delivered, Tasks
<1>5. ASSUME NEW t \in Tasks, Worker(t) PROVE Inv'
  <2>1. CASE Acquire(t)
    BY <1>5, <2>1, StepMove DEF Acquire, Phases
  <2>2. CASE Leave(t)
    BY <1>5, <2>2, StepMove DEF Leave, Phases
  <2>3. CASE GiveUp(t)
    BY <1>5, <2>3, StepConclude DEF GiveUp
  <2>4. CASE ExecFails(t)
    BY <1>5, <2>4, StepConclude DEF ExecFails
  <2>5. CASE ExecReturns(t)
    BY <1>5, <2>5, StepExecReturns
  <2> QED
    BY <1>5, <2>1, <2>2, <2>3, <2>4, <2>5 DEF Worker
<1>6. CASE UNCHANGED vars
  BY <1>1, <1>6 DEF vars
<1> QED
  BY <1>2, <1>3, <1>4, <1>5, <1>6 DEF Next, Terminated

\* The invariant of Schedule (dag.go): phases, results and outputs agree, a
\* task that was launched had its prerequisites, and a blocked one a cause.
THEOREM Invariant == Spec => []Inv
  BY InvInit, InvNext, PTL DEF Spec

---------------------------------------------------------------------------
(* The theorems.                                                             *)

\* schedule.go:184-188 and taskexec.go:95-100: whatever the order in which
\* tasks end, no goroutine starts before its prerequisites have all succeeded,
\* and what it sends has the output of each of them.
THEOREM Prerequisites == Spec => []PrerequisitesDelivered
<1>1. Inv => PrerequisitesDelivered
  <2> SUFFICES ASSUME Inv, NEW t \in Tasks, phase[t] # "none"
               PROVE  /\ \A d \in DepsOf(g, t) : verdict[d] = "ok" /\ given[t][d] = d
                      /\ {g.deps[t][i] : i \in Prompt(t)} = DepsOf(g, t)
    BY DEF PrerequisitesDelivered
  <2>1. \A d \in DepsOf(g, t) : verdict[d] = "ok" /\ given[t][d] = d
    BY DEF Inv, Delivered
  <2>2. /\ t \in Names /\ g \in Graphs
        /\ DepsOf(g, t) = {g.deps[t][i] : i \in DOMAIN g.deps[t]}
        /\ DepsOf(g, t) \subseteq Names
    BY DepsFacts DEF Inv, Shape, Tasks
  <2>3. \A i \in DOMAIN g.deps[t] : given[t][g.deps[t][i]] # NoName
    BY <2>1, <2>2, ScheduleAssumption
  <2>4. Prompt(t) = DOMAIN g.deps[t]
    BY <2>3 DEF Prompt
  <2> QED
    BY <2>1, <2>2, <2>4
<1> QED
  BY <1>1, Invariant, PTL

\* dag.go:64-129, 133-186: what Sort refuses and names, the tiers of what it
\* accepts, Independent and CriticalPath, for every graph an extraction returns.
THEOREM SortIsSound == Spec => []SortSound
<1>1. Inv => SortSound
  <2> SUFFICES ASSUME Inv, WellNamed(g), MissingDeps(g) = {}
               PROVE  LET knots == UNION {S \in SUBSET Tasks : Knot(g, S)} IN
                      /\ Involved(g) = Behind(g, knots)
                      /\ SortError(g) = "none" =>
                           /\ LET path == CriticalPath(g) IN
                              /\ \A i \in 2 .. Len(path) : path[i-1] \in DepsOf(g, path[i])
                              /\ {TierOf(g, path[i]) : i \in DOMAIN path}
                                   = {TierOf(g, t) : t \in Tasks}
                           /\ Independent(g)
                                = {t \in Tasks : TierOf(g, t) = 0 /\ Behind(g, {t}) = {t}}
                           /\ \A t \in Tasks :
                                /\ \A d \in DepsOf(g, t) : TierOf(g, d) < TierOf(g, t)
                                /\ TierOf(g, t) > 0 =>
                                     \E d \in DepsOf(g, t) : TierOf(g, d) = TierOf(g, t) - 1
    BY DEF SortSound
  <2>1. g \in Graphs
    BY DEF Inv, Shape
  <2>2. Tasks = IdsOf(g)
    BY <2>1, GraphFacts DEF Tasks, WellNamed
  <2>3. Involved(g) = Behind(g, UNION {S \in SUBSET Tasks : Knot(g, S)})
    BY <2>1, <2>2, InvolvedFacts
  <2>4. ASSUME SortError(g) = "none", NEW t \in Tasks
        PROVE  /\ \A d \in DepsOf(g, t) : TierOf(g, d) < TierOf(g, t)
               /\ TierOf(g, t) > 0 => \E d \in DepsOf(g, t) : TierOf(g, d) = TierOf(g, t) - 1
    BY <2>1, <2>2, <2>4, TierDeps
  <2> QED
    BY <2>1, <2>2, <2>3, <2>4, PathSpansTiers, IndependentFacts
<1> QED
  BY <1>1, Invariant, PTL

needsBar == [t \in Names |-> IF t \in Tasks THEN DepsOf(g, t) ELSE {}]
stateBar == [t \in Names |-> OrderOf(t)]

\* Schedule begins where TaskOrder does.
LEMMA OrderInit == Init => Order!Init
<1> SUFFICES ASSUME Init PROVE Order!Init
  OBVIOUS
<1>1. \A t \in Names : DepsOf(g, t) \subseteq Names
  BY DepsFacts DEF Init
<1>2. needsBar \in [Names -> SUBSET Names]
  BY <1>1 DEF needsBar
<1>3. stateBar = [t \in Names |-> "waiting"]
  BY DEF stateBar, OrderOf, Init
<1> QED
  BY <1>2, <1>3 DEF Order!Init, needsBar, stateBar

\* A task that waits for Schedule waits for TaskOrder.
LEMMA Waits ==
  ASSUME NEW t \in Names, phase[t] = "none", verdict[t] = "none"
  PROVE  stateBar[t] = "waiting"
  BY DEF stateBar, OrderOf

\* What changes neither results nor starts is a stutter.
LEMMA OrderStutter ==
  ASSUME UNCHANGED <<g, verdict>>,
         \A t \in Names : phase[t] # "none" <=> phase'[t] # "none"
  PROVE  UNCHANGED Order!vars
<1>1. needsBar' = needsBar
  BY DEF needsBar, Tasks
<1>2. \A t \in Names : OrderOf(t)' = OrderOf(t)
  BY DEF OrderOf
<1>3. stateBar' = stateBar
  BY <1>2 DEF stateBar
<1> QED
  BY <1>1, <1>3 DEF Order!vars, needsBar, stateBar

\* The first launch starts tasks in any order.
LEMMA OrderBegin ==
  ASSUME Inv, Inv', Begin
  PROVE  [Order!Next]_Order!vars
<1>1. UNCHANGED <<g, verdict, outputs>> /\ pc = "sort"
  BY DEF Begin
<1>2. \A t \in Names : phase[t] = "none" /\ verdict[t] = "none"
  BY <1>1 DEF Inv, Idle
<1> DEFINE S == {t \in Names : phase'[t] # "none"}
<1>3. \A t \in S : t \in Tasks /\ DepsOf(g, t) = {}
  <2> SUFFICES ASSUME NEW t \in S PROVE t \in Tasks /\ DepsOf(g, t) = {}
    OBVIOUS
  <2>1. t \in Tasks
    BY <1>1 DEF Inv, Strangers, Tasks
  <2>2. \A d \in DepsOf(g, t) : verdict[d] = "ok" /\ d \in Names
    BY <1>1, <2>1, DepsFacts DEF Inv, Shape, Delivered, Tasks
  <2> QED
    BY <1>2, <2>1, <2>2
<1>4. needsBar' = needsBar /\ \A t \in S : needsBar[t] = {}
  BY <1>1, <1>3 DEF needsBar, Tasks
<1>5. \A t \in Names : stateBar[t] = "waiting"
  BY <1>2, Waits
<1>6. stateBar' = [t \in Names |-> IF t \in S THEN "started" ELSE stateBar[t]]
  <2>1. \A t \in Names : OrderOf(t)' = IF t \in S THEN "started" ELSE "waiting"
    BY <1>1, <1>2 DEF OrderOf
  <2> QED
    BY <1>5, <2>1 DEF stateBar
<1>7. Order!Begin(S)
  BY <1>4, <1>5, <1>6 DEF Order!Begin, Order!MayStart, needsBar, stateBar
<1> QED
  BY <1>7 DEF Order!Next

\* A failure fails one task and blocks those behind it.
LEMMA OrderConclude ==
  ASSUME Inv, NEW t \in Tasks, NEW outcome \in {"failed", "stopped"},
         phase[t] \in {"queued", "running"},
         \A u \in Names : phase[u] # "none" <=> phase'[u] # "none",
         Conclude(t, outcome), UNCHANGED g
  PROVE  Order!Next
<1> DEFINE S == BlockedBehind(t)
<1>1. t \in Names /\ verdict[t] = "none"
  BY DEF Inv, Agree, Tasks
<1>2. \A u \in S : u \in Tasks \ {t} /\ verdict[u] = "none" /\ phase[u] = "none"
  BY <1>1, BlockedWait
<1>3. \A u \in Names : verdict'[u] = IF u = t THEN outcome
                                    ELSE IF u \in S THEN "blocked" ELSE verdict[u]
  BY ConcludeFacts DEF Inv
<1>4. \A u \in S : \E d \in DepsOf(g, u) : d \in S \cup {t}
  BY BehindFacts
<1>5. S \subseteq Names
  BY <1>2 DEF Tasks
<1> HIDE DEF S
<1>6. needsBar' = needsBar /\ \A u \in S : needsBar[u] = DepsOf(g, u)
  BY <1>2, <1>5 DEF needsBar, Tasks
<1>7. stateBar[t] = "started" /\ \A u \in S : stateBar[u] = "waiting"
  BY <1>1, <1>2, <1>5, Waits DEF stateBar, OrderOf
<1>8. stateBar' = [u \in Names |-> IF u = t THEN "failed"
                                  ELSE IF u \in S THEN "blocked" ELSE stateBar[u]]
  <2>1. \A u \in Names : OrderOf(u)' = IF u = t THEN "failed"
                                      ELSE IF u \in S THEN "blocked" ELSE OrderOf(u)
    BY <1>1, <1>3 DEF OrderOf
  <2> QED
    BY <2>1 DEF stateBar
<1>9. Order!MayBlock(S, {t})
  BY <1>4, <1>6, <1>7 DEF Order!MayBlock, needsBar, stateBar
<1>10. Order!Fail(t, S)
  BY <1>6, <1>7, <1>8, <1>9 DEF Order!Fail, needsBar, stateBar
<1> QED
  BY <1>1, <1>5, <1>10 DEF Order!Next

\* A success ends one task and starts others.
LEMMA OrderSucceed ==
  ASSUME Inv, NEW t \in Tasks, ExecReturns(t)
  PROVE  Order!Next
<1> DEFINE S == {u \in Names : u # t /\ phase'[u] # phase[u]}
<1>1. t \in Names /\ phase[t] = "running" /\ verdict[t] = "none"
  BY DEF Inv, Agree, Tasks, ExecReturns
<1>2. /\ UNCHANGED g /\ verdict'[t] = "ok"
      /\ \A u \in Names \ {t} : verdict'[u] = verdict[u]
  BY <1>1 DEF ExecReturns, Inv, Shape
<1>3. \A u \in S : /\ u \in Tasks /\ phase[u] = "none" /\ verdict[u] = "none"
                   /\ phase'[u] = "queued"
                   /\ \A d \in DepsOf(g, u) : d = t \/ verdict[d] = "ok"
  BY StepExecReturns
<1>4. \A u \in Names \ {t} : u \notin S => phase'[u] = phase[u]
  OBVIOUS
<1>5. S \subseteq Names /\ t \notin S
  OBVIOUS
<1> HIDE DEF S
<1>6. needsBar' = needsBar /\ \A u \in S : needsBar[u] = DepsOf(g, u) /\ DepsOf(g, u) \subseteq Names
  BY <1>2, <1>3, <1>5, DepsFacts DEF needsBar, Tasks, Inv, Shape
<1>7. stateBar[t] = "started" /\ \A u \in S : stateBar[u] = "waiting"
  BY <1>1, <1>3, <1>5, Waits DEF stateBar, OrderOf
<1>8. stateBar' = [u \in Names |-> IF u = t THEN "succeeded"
                                  ELSE IF u \in S THEN "started" ELSE stateBar[u]]
  <2>1. \A u \in Names : OrderOf(u)' = IF u = t THEN "succeeded"
                                      ELSE IF u \in S THEN "started" ELSE OrderOf(u)
    BY <1>1, <1>2, <1>3, <1>4 DEF OrderOf
  <2> QED
    BY <2>1 DEF stateBar
<1>9. Order!MayStart(S, {t})
  <2>1. \A d \in Names : verdict[d] = "ok" => stateBar[d] = "succeeded"
    BY DEF stateBar, OrderOf
  <2> QED
    BY <1>3, <1>6, <1>7, <2>1 DEF Order!MayStart, needsBar, stateBar
<1>10. Order!Succeed(t, S)
  BY <1>6, <1>7, <1>8, <1>9 DEF Order!Succeed, needsBar, stateBar
<1> QED
  BY <1>1, <1>5, <1>10 DEF Order!Next

\* Every step is one of TaskOrder or a stutter.
LEMMA OrderNext == Inv /\ Inv' /\ [Next]_vars => [Order!Next]_Order!vars
<1> SUFFICES ASSUME Inv, Inv', [Next]_vars PROVE [Order!Next]_Order!vars
  OBVIOUS
<1>1. CASE Begin
  BY <1>1, OrderBegin
<1>2. CASE Return \/ Cancel \/ UNCHANGED vars
  BY <1>2, OrderStutter DEF Return, Cancel, vars
<1>3. ASSUME NEW t \in Tasks, Worker(t) PROVE [Order!Next]_Order!vars
  <2>1. t \in Names /\ phase \in [Names -> Phases]
    BY <1>3 DEF Tasks, Inv, Shape
  <2>2. CASE Acquire(t) \/ Leave(t)
    BY <2>1, <2>2, OrderStutter DEF Acquire, Leave
  <2>3. CASE GiveUp(t)
    BY <1>3, <2>1, <2>3, OrderConclude DEF GiveUp
  <2>4. CASE ExecFails(t)
    BY <1>3, <2>1, <2>4, OrderConclude DEF ExecFails
  <2>5. CASE ExecReturns(t)
    BY <1>3, <2>5, OrderSucceed
  <2> QED
    BY <1>3, <2>2, <2>3, <2>4, <2>5 DEF Worker
<1> QED
  BY <1>1, <1>2, <1>3 DEF Next, Terminated

\* schedule.go:103-256: with any number of streams, failures and a caller that
\* gives up, a task starts behind what it needs, runs once, and is given up only
\* behind a task that failed.
THEOREM Implementation == Spec => ImplementsTaskOrder
<1>1. Order!Init /\ [][Order!Next]_Order!vars => ImplementsTaskOrder
  BY DEF ImplementsTaskOrder, Order!Spec
<1> QED
  BY <1>1, Invariant, OrderInit, OrderNext, PTL DEF Spec

---------------------------------------------------------------------------
(* What a run leaves behind.                                                 *)

Numbers == pending \in [Names -> Nat] /\ inflight \in Nat /\ peak \in Nat

\* A blocked task is behind the failure it names.
Caused == \A t \in Tasks : verdict[t] = "blocked" =>
            cause[t] \in FailedTasks /\ t \in Behind(g, {cause[t]})

\* blockAll leaves no dependent of a task without an output open.
Spread == \A t \in Tasks : \A d \in DepsOf(g, t) :
            verdict[d] \in {"failed", "stopped", "blocked"} => verdict[t] = "blocked"

\* Sort accepted the graph, and a task that waits waits for another.
Launched == pc # "sort" /\ err = "none" =>
  /\ SortError(g) = "none"
  /\ \A t \in Tasks : phase[t] = "none" /\ verdict[t] = "none" =>
       \E d \in DepsOf(g, t) : verdict[d] # "ok"

Ended == pc = "returned" => \A t \in Tasks : phase[t] \in {"none", "gone"}

\* What the counters behind Span count (schedule.go:189-192, 216): goroutines
\* from their launch to their result, those without a place included.
InflightCounted ==
  /\ inflight = Cardinality({t \in Tasks : phase[t] \in {"queued", "running"}})
  /\ peak >= inflight

Left == Numbers /\ Caused /\ Spread /\ Launched /\ Ended /\ InflightCounted

Open == {t \in Tasks : phase[t] \in {"queued", "running"}}

\* Tasks are finitely many.
LEMMA FiniteTasks ==
  ASSUME g \in Graphs
  PROVE  /\ IsFiniteSet(Tasks)
         /\ \A S \in SUBSET Tasks : IsFiniteSet(S) /\ Cardinality(S) \in Nat
<1>1. IsFiniteSet(Tasks)
  <2>1. IsFiniteSet(IdsOf(g)) /\ Tasks \in SUBSET IdsOf(g)
    BY GraphFacts DEF Tasks
  <2> QED
    BY <2>1, FS_Subset
<1> QED
  BY <1>1, FS_Subset, FS_CardinalityType

\* blockAll marks the dependents of what it marks, and only what is behind t.
LEMMA BlockedFacts ==
  ASSUME NEW t \in Tasks, Tasks = IdsOf(g)
  PROVE  /\ \A u \in Tasks \ {t} :
              verdict[u] = "none" /\ DepsOf(g, u) \cap (BlockedBehind(t) \cup {t}) # {}
              => u \in BlockedBehind(t)
         /\ BlockedBehind(t) \subseteq Behind(g, {t})
<1> DEFINE open == {w \in Tasks \ {t} : verdict[w] = "none"}
           behind == BlockedBehind(t)
           Closed(U) == \A w \in open : DepsOf(g, w) \cap (U \cup {t}) # {} => w \in U
<1>1. behind = {w \in open : \A U \in SUBSET open : Closed(U) => w \in U}
  BY DEF BlockedBehind
<1>2. ASSUME NEW u \in open, DepsOf(g, u) \cap (behind \cup {t}) # {}
      PROVE  u \in behind
  <2> SUFFICES ASSUME NEW U \in SUBSET open, Closed(U) PROVE u \in U
    BY <1>1
  <2>1. behind \subseteq U
    <3> HIDE DEF behind, open, Closed
    <3> QED
      BY <1>1
  <2> QED
    BY <1>2, <2>1
<1>3. ASSUME NEW u \in behind PROVE u \in Behind(g, {t})
  <2> SUFFICES ASSUME NEW U \in SUBSET IdsOf(g), t \in U,
                      \A w \in IdsOf(g) : DepsOf(g, w) \cap U # {} => w \in U
               PROVE  u \in U
    <3>1. u \in IdsOf(g)
      BY <1>1, <1>3
    <3> QED
      BY <3>1 DEF Behind
  <2>1. U \cap open \in SUBSET open /\ Closed(U \cap open)
    OBVIOUS
  <2>2. u \in U \cap open
    <3> HIDE DEF behind, open, Closed
    <3> QED
      BY <1>1, <1>3, <2>1
  <2> QED
    BY <2>2
<1> QED
  BY <1>2, <1>3

\* In an accepted graph every id is a task.
LEMMA AcceptedTasks ==
  ASSUME Inv, Launched, pc # "sort", err = "none"
  PROVE  Tasks = IdsOf(g)
  BY Accepted DEF Inv, Shape, Launched, Tasks

\* Nothing is left out at first.
LEMMA LeftInit == Init => Left
<1> SUFFICES ASSUME Init PROVE Left
  OBVIOUS
<1>1. Open = {}
  BY DEF Open, Init, Tasks
<1>2. InflightCounted
  BY <1>1, FS_EmptySet DEF InflightCounted, Open, Init
<1>3. \A t \in Tasks : DepsOf(g, t) \subseteq Names
  BY DepsFacts DEF Init, Tasks
<1>4. pc = "sort" /\ \A t \in Names : verdict[t] = "none"
  BY DEF Init
<1>5. Caused /\ Spread /\ Launched /\ Ended
  BY <1>3, <1>4 DEF Caused, Spread, Launched, Ended, Tasks
<1>6. Numbers
  BY DEF Init, Numbers
<1> QED
  BY <1>2, <1>5, <1>6 DEF Left

\* A step that changes the place of one goroutine, or none.
LEMMA LeftMove ==
  ASSUME Inv, Left, Inv',
         UNCHANGED <<g, err, pending, verdict, cause, inflight, peak>>,
         Open' = Open,
         \A t \in Names : phase'[t] = "none" <=> phase[t] = "none",
         pc' # pc => pc = "wait" /\ pc' = "returned" /\ Ended',
         pc' = pc /\ pc' = "returned" => \A t \in Names : phase'[t] = phase[t]
  PROVE  Left'
<1>1. Tasks' = Tasks /\ Tasks \subseteq Names
  BY DEF Tasks
<1>2. Numbers' /\ InflightCounted'
  BY DEF Left, Numbers, InflightCounted, Open
<1>3. Caused' /\ Spread' /\ Launched'
  BY <1>1 DEF Left, Caused, Spread, Launched, FailedTasks
<1>4. Ended'
  BY <1>1 DEF Left, Ended
<1> QED
  BY <1>2, <1>3, <1>4 DEF Left

\* Nor when a task ends without an output,
LEMMA LeftConclude ==
  ASSUME Inv, Left, NEW t \in Tasks, NEW outcome \in {"failed", "stopped"},
         NEW to \in {"leaving", "gone"},
         phase[t] \in {"queued", "running"}, phase' = [phase EXCEPT ![t] = to],
         Conclude(t, outcome), UNCHANGED <<g, pc, err, ctxDone>>
  PROVE  Left'
<1> USE DEF Inv, Left
<1> DEFINE behind == BlockedBehind(t)
<1>1. t \in Names /\ phase'[t] = to /\ \A u \in Names \ {t} : phase'[u] = phase[u]
  BY DEF Tasks, Shape
<1>2. verdict[t] = "none" /\ pc = "wait" /\ err = "none"
  <2>1. verdict[t] = "none" /\ pc # "sort" /\ err = "none"
    BY <1>1 DEF Agree, Idle
  <2>2. pc # "returned"
    BY DEF Ended
  <2> QED
    BY <2>1, <2>2 DEF Shape
<1>3. Tasks = IdsOf(g)
  BY <1>2, AcceptedTasks
<1>4. /\ \A u \in Names : verdict'[u] = IF u = t THEN outcome
                                        ELSE IF u \in behind THEN "blocked" ELSE verdict[u]
      /\ \A u \in Names : cause'[u] = IF u \in behind THEN t ELSE cause[u]
      /\ inflight' = inflight - 1 /\ UNCHANGED <<pending, peak>>
  BY ConcludeFacts DEF Conclude, Shape
<1>5. \A u \in behind : u \in Tasks \ {t} /\ verdict[u] = "none" /\ phase[u] = "none"
  BY <1>2, BlockedWait
<1>6. /\ \A u \in Tasks \ {t} :
           verdict[u] = "none" /\ DepsOf(g, u) \cap (behind \cup {t}) # {} => u \in behind
      /\ behind \subseteq Behind(g, {t})
  BY <1>3, BlockedFacts
<1> HIDE DEF behind
<1>7. Tasks' = Tasks /\ Tasks \subseteq Names
  BY DEF Tasks
<1>8. Caused'
  <2> SUFFICES ASSUME NEW u \in Tasks, verdict'[u] = "blocked"
               PROVE  /\ cause'[u] \in Tasks /\ verdict'[cause'[u]] \in {"failed", "stopped"}
                      /\ u \in Behind(g, {cause'[u]})
    BY <1>7 DEF Caused, FailedTasks
  <2>1. CASE u \in behind
    BY <1>1, <1>4, <1>5, <1>6, <1>7, <2>1
  <2>2. CASE u \notin behind
    <3>1. verdict[u] = "blocked" /\ cause'[u] = cause[u]
      BY <1>4, <1>7, <2>2
    <3>2. cause[u] \in Tasks /\ verdict[cause[u]] \in {"failed", "stopped"} /\ u \in Behind(g, {cause[u]})
      BY <3>1 DEF Caused, FailedTasks
    <3>3. verdict'[cause[u]] = verdict[cause[u]]
      BY <1>2, <1>4, <1>5, <1>7, <3>2
    <3> QED
      BY <3>1, <3>2, <3>3
  <2> QED
    BY <2>1, <2>2
<1>9. Spread'
  <2> SUFFICES ASSUME NEW u \in Tasks, NEW d \in DepsOf(g, u),
                      verdict'[d] \in {"failed", "stopped", "blocked"}
               PROVE  verdict'[u] = "blocked"
    BY <1>7 DEF Spread
  <2>1. u \in Names /\ d \in Names
    BY <1>7, DepsFacts DEF Shape
  <2>2. CASE d \notin behind \cup {t}
    <3>1. verdict[d] \in {"failed", "stopped", "blocked"}
      BY <1>4, <2>1, <2>2
    <3>2. verdict[u] = "blocked"
      BY <3>1 DEF Spread
    <3> QED
      BY <1>2, <1>4, <1>5, <2>1, <3>2
  <2>3. CASE d \in behind \cup {t}
    <3>1. verdict[d] = "none"
      BY <1>2, <1>5, <2>3
    <3>2. phase[u] = "none"
      BY <3>1, DependentsWait
    <3>3. u # t /\ verdict[u] \in {"none", "blocked"}
      BY <2>1, <3>2 DEF Agree
    <3>4. verdict[u] = "none" => u \in behind
      BY <1>6, <2>3, <3>3
    <3> QED
      BY <1>4, <1>5, <2>1, <3>3, <3>4
  <2> QED
    BY <2>2, <2>3
<1>10. Launched'
  <2> SUFFICES ASSUME NEW u \in Tasks, phase'[u] = "none", verdict'[u] = "none"
               PROVE  \E d \in DepsOf(g, u) : verdict'[d] # "ok"
    BY <1>2, <1>7 DEF Launched
  <2>1. phase[u] = "none" /\ verdict[u] = "none"
    BY <1>1, <1>4, <1>7
  <2>2. PICK d \in DepsOf(g, u) : verdict[d] # "ok"
    BY <1>2, <2>1 DEF Launched
  <2>3. d \in Names
    BY <1>7, DepsFacts DEF Shape
  <2> QED
    BY <1>4, <2>2, <2>3
<1>11. Open' = Open \ {t} /\ t \in Open
  BY <1>1, <1>7 DEF Open
<1>12. Numbers' /\ InflightCounted'
  <2>1. IsFiniteSet(Open) /\ Cardinality(Open) \in Nat
    BY FiniteTasks DEF Open, Shape
  <2>2. Cardinality(Open') = Cardinality(Open) - 1 /\ Cardinality(Open') \in Nat
    BY <1>11, <2>1, FS_RemoveElement, FS_CardinalityType
  <2>3. inflight = Cardinality(Open) /\ peak >= inflight /\ peak \in Nat
    BY DEF InflightCounted, Open, Numbers
  <2>4. inflight' = Cardinality(Open') /\ peak' >= inflight'
    <3> HIDE DEF Open
    <3> QED
      BY <1>4, <2>1, <2>2, <2>3
  <2> QED
    BY <1>4, <2>2, <2>3, <2>4 DEF InflightCounted, Open, Numbers
<1>13. Ended'
  BY <1>2 DEF Ended
<1> QED
  BY <1>8, <1>9, <1>10, <1>12, <1>13

\* The counters after a launch.
LEMMA LaunchCounts ==
  ASSUME g \in Graphs, NEW ready, ready \subseteq Tasks,
         NEW ph, NEW out, NEW n \in Nat, peak \in Nat,
         Launch(ready, ph, out, n), Tasks' = Tasks,
         NEW before, before = {t \in Tasks : ph[t] \in {"queued", "running"}},
         n = Cardinality(before),
         \A t \in ready : verdict[t] = "none" => ph[t] = "none"
  PROVE  /\ InflightCounted' /\ inflight' \in Nat /\ peak' \in Nat
<1> DEFINE new == {t \in ready : verdict[t] = "none"}
<1>1. \A t \in Tasks : phase'[t] = IF t \in new THEN "queued" ELSE ph[t]
  BY DEF Launch, Tasks
<1>2. Open' = before \cup new /\ before \cap new = {}
  BY <1>1 DEF Open
<1>3. /\ IsFiniteSet(before) /\ IsFiniteSet(new)
      /\ Cardinality(before) \in Nat /\ Cardinality(new) \in Nat
  BY FiniteTasks
<1>4. /\ inflight' = n + Cardinality(new)
      /\ peak' = IF inflight' > peak THEN inflight' ELSE peak
  BY DEF Launch
<1> HIDE DEF new
<1>5. Cardinality(before \cup new) = Cardinality(before) + Cardinality(new)
  <2>1. Cardinality(before \cup new) =
          Cardinality(before) + Cardinality(new) - Cardinality(before \cap new)
    BY <1>3, FS_Union
  <2>2. Cardinality(before \cap new) = 0
    BY <1>2, FS_EmptySet
  <2> QED
    BY <1>3, <2>1, <2>2
<1>6. inflight' = Cardinality(Open') /\ inflight' \in Nat
  BY <1>2, <1>3, <1>4, <1>5
<1>7. peak' \in Nat /\ peak' >= inflight'
  BY <1>4, <1>6
<1> QED
  BY <1>6, <1>7 DEF InflightCounted, Open

\* nor when one succeeds,
LEMMA LeftReturns ==
  ASSUME Inv, Left, Inv', NEW t \in Tasks, ExecReturns(t)
  PROVE  Left'
<1> USE DEF Inv, Left
<1>1. /\ t \in Names /\ phase[t] = "running" /\ verdict[t] = "none"
      /\ pc = "wait" /\ err = "none"
  <2>1. t \in Names /\ phase[t] = "running" /\ verdict[t] = "none" /\ pc # "sort" /\ err = "none"
    BY DEF ExecReturns, Tasks, Agree, Idle
  <2>2. pc # "returned"
    BY <2>1 DEF Ended
  <2> QED
    BY <2>1, <2>2 DEF Shape
<1>2. /\ verdict' = [verdict EXCEPT ![t] = "ok"]
      /\ UNCHANGED <<g, pc, err, ctxDone, cause>>
      /\ pending' = [u \in Names |->
           IF u \in Tasks
           THEN pending[u] - Cardinality({i \in DOMAIN g.deps[u] : g.deps[u][i] = t})
           ELSE pending[u]]
  BY DEF ExecReturns
<1>3. Tasks' = Tasks /\ Tasks \subseteq Names /\ \A u \in Tasks : DepsOf(g, u) \subseteq Names
  BY <1>2, DepsFacts DEF Tasks, Shape
<1>4. verdict'[t] = "ok" /\ \A u \in Names \ {t} : verdict'[u] = verdict[u]
  BY <1>1, <1>2 DEF Shape
<1>5. \A u \in Tasks : pending'[u] = Cardinality(Unmet(u)') /\ pending'[u] \in Nat
  <2> SUFFICES ASSUME NEW u \in Tasks
               PROVE  pending'[u] = Cardinality(Unmet(u)') /\ pending'[u] \in Nat
    OBVIOUS
  <2>1. pending'[u] = Cardinality(Unmet(u)')
    BY <1>1, <1>2, <1>3 DEF Counted
  <2>2. IsFiniteSet(Unmet(u)')
    <3>1. Unmet(u)' \in SUBSET DOMAIN g.deps[u] /\ IsFiniteSet(DOMAIN g.deps[u])
      BY <1>2, <1>3, DepsFacts DEF Unmet, Shape
    <3> QED
      BY <3>1, FS_Subset
  <2> QED
    BY <2>1, <2>2, FS_CardinalityType
<1>6. pending' \in [Names -> Nat]
  <2>1. \A u \in Names : pending'[u] \in Nat
    BY <1>2, <1>5 DEF Numbers
  <2> QED
    BY <1>2, <2>1
<1>7. Caused'
  <2> SUFFICES ASSUME NEW u \in Tasks, verdict'[u] = "blocked"
               PROVE  /\ cause[u] \in Tasks /\ verdict'[cause[u]] \in {"failed", "stopped"}
                      /\ u \in Behind(g, {cause[u]})
    BY <1>2, <1>3 DEF Caused, FailedTasks
  <2>1. verdict[u] = "blocked"
    BY <1>3, <1>4
  <2>2. cause[u] \in Tasks /\ verdict[cause[u]] \in {"failed", "stopped"} /\ u \in Behind(g, {cause[u]})
    BY <2>1 DEF Caused, FailedTasks
  <2> QED
    BY <1>1, <1>3, <1>4, <2>2
<1>8. Spread'
  <2> SUFFICES ASSUME NEW u \in Tasks, NEW d \in DepsOf(g, u),
                      verdict'[d] \in {"failed", "stopped", "blocked"}
               PROVE  verdict'[u] = "blocked"
    BY <1>2, <1>3 DEF Spread
  <2>1. d \in Names /\ u \in Names /\ d # t
    BY <1>3, <1>4
  <2>2. verdict[u] = "blocked"
    BY <1>4, <2>1 DEF Spread
  <2> QED
    BY <1>1, <1>4, <2>1, <2>2
<1> DEFINE ready == {u \in Tasks : t \in DepsOf(g, u) /\ pending'[u] = 0}
           ph == [phase EXCEPT ![t] = "leaving"]
<1>9. Launch(ready, ph, outputs', inflight - 1)
  BY DEF ExecReturns
<1>10. ph[t] = "leaving" /\ \A u \in Names \ {t} : ph[u] = phase[u]
  BY <1>1 DEF Shape
<1>11. \A u \in Tasks : phase'[u] = IF u \in ready /\ verdict[u] = "none" THEN "queued" ELSE ph[u]
  BY <1>3, <1>9 DEF Launch
<1>12. Launched'
  <2> SUFFICES ASSUME NEW u \in Tasks, phase'[u] = "none", verdict'[u] = "none",
                      \A d \in DepsOf(g, u) : verdict'[d] = "ok"
               PROVE  FALSE
    BY <1>1, <1>2, <1>3 DEF Launched
  <2>1. u # t /\ verdict[u] = "none"
    BY <1>3, <1>4
  <2>2. u \notin ready /\ phase[u] = "none"
    BY <1>3, <1>10, <1>11, <2>1
  <2>3. PICK d \in DepsOf(g, u) : verdict[d] # "ok"
    BY <1>1, <2>1, <2>2 DEF Launched
  <2>4. d = t
    BY <1>3, <1>4, <2>3
  <2>5. Unmet(u)' = {}
    BY <1>2, <1>3, DepsFacts DEF Unmet, Shape
  <2>6. pending'[u] = 0
    BY <1>5, <2>5, FS_EmptySet
  <2> QED
    BY <2>2, <2>3, <2>4, <2>6
<1>13. InflightCounted' /\ inflight' \in Nat /\ peak' \in Nat
  <2> DEFINE before == Open \ {t}
  <2>1. t \in Open
    BY <1>1 DEF Open
  <2>2. IsFiniteSet(Open) /\ Cardinality(Open) \in Nat /\ inflight = Cardinality(Open)
    BY FiniteTasks DEF Open, Shape, InflightCounted
  <2>3. Cardinality(before) = inflight - 1 /\ Cardinality(before) \in Nat
    BY <2>1, <2>2, FS_RemoveElement, FS_CardinalityType
  <2>4. before = {u \in Tasks : ph[u] \in {"queued", "running"}}
    BY <1>3, <1>10 DEF Open
  <2>5. \A u \in ready : verdict[u] = "none" => ph[u] = "none"
    BY <1>1, <1>3, <1>10, DependentsWait
  <2>6. ready \subseteq Tasks /\ g \in Graphs /\ peak \in Nat
    BY DEF Shape, Numbers
  <2> HIDE DEF ready, ph, before
  <2> QED
    BY <1>3, <1>9, <2>3, <2>4, <2>5, <2>6, LaunchCounts
<1>14. Ended'
  BY <1>1, <1>2 DEF Ended
<1> QED
  BY <1>6, <1>7, <1>8, <1>12, <1>13, <1>14 DEF Numbers

\* nor when the first are launched,
LEMMA LeftBegin ==
  ASSUME Inv, Left, Inv', Begin
  PROVE  Left'
<1> USE DEF Inv, Left
<1>1. UNCHANGED <<g, ctxDone, verdict, cause, outputs>> /\ pc = "sort" /\ err = "none"
  BY DEF Begin, Idle
<1>2. \A t \in Names : phase[t] = "none" /\ verdict[t] = "none"
  BY <1>1 DEF Idle
<1>3. Tasks' = Tasks /\ Tasks \subseteq Names /\ \A t \in Tasks : DepsOf(g, t) \subseteq Names
  BY <1>1, DepsFacts DEF Tasks, Shape
<1>4. Caused' /\ Spread'
  BY <1>1, <1>2, <1>3 DEF Caused, Spread
<1>5. Open = {} /\ inflight = 0 /\ peak \in Nat
  <2>1. Open = {}
    BY <1>2, <1>3 DEF Open
  <2> QED
    BY <2>1, FS_EmptySet DEF InflightCounted, Open, Numbers
<1>6. CASE SortError(g) # "none"
  <2>1. pc' = "returned" /\ err' # "none" /\ UNCHANGED <<pending, phase, given, inflight, peak>>
    BY <1>6 DEF Begin
  <2>2. Numbers' /\ InflightCounted'
    BY <1>3, <2>1 DEF Numbers, InflightCounted, Tasks
  <2>3. Launched' /\ Ended'
    BY <1>2, <1>3, <2>1 DEF Launched, Ended
  <2> QED
    BY <1>4, <2>2, <2>3
<1>7. CASE SortError(g) = "none"
  <2> DEFINE ready == {t \in Tasks : pending'[t] = 0}
  <2>1. /\ pc' = "wait" /\ err' = err
        /\ pending' = [t \in Names |-> IF t \in Tasks THEN Len(g.deps[t]) ELSE 0]
        /\ Launch(ready, phase, outputs, inflight)
    BY <1>7 DEF Begin
  <2>2. pending' \in [Names -> Nat]
    <3>1. \A t \in Names : Len(g.deps[t]) \in Nat
      BY DepsFacts DEF Shape
    <3> QED
      BY <2>1, <3>1
  <2>3. InflightCounted' /\ inflight' \in Nat /\ peak' \in Nat
    <3>1. Open = {t \in Tasks : phase[t] \in {"queued", "running"}} /\ inflight = Cardinality(Open)
      BY <1>5, FS_EmptySet DEF Open
    <3>2. ready \subseteq Tasks /\ g \in Graphs /\ \A t \in ready : phase[t] = "none"
      BY <1>2, <1>3 DEF Shape
    <3>3. inflight \in Nat
      BY <1>5
    <3> HIDE DEF ready
    <3> QED
      BY <1>3, <1>5, <2>1, <3>1, <3>2, <3>3, LaunchCounts
  <2>4. Launched'
    <3> SUFFICES ASSUME NEW t \in Tasks, phase'[t] = "none"
                 PROVE  \E d \in DepsOf(g, t) : verdict'[d] # "ok"
      BY <1>1, <1>3, <1>7 DEF Launched
    <3>1. phase'[t] = IF t \in ready /\ verdict[t] = "none" THEN "queued" ELSE phase[t]
      BY <1>3, <2>1 DEF Launch
    <3>2. Len(g.deps[t]) # 0
      BY <1>2, <1>3, <2>1, <3>1
    <3>3. g.deps[t] \in Seq(Names) /\ g.deps[t][1] \in DepsOf(g, t)
      BY <1>3, <3>2, DepsFacts DEF Shape
    <3> QED
      BY <1>1, <1>2, <1>3, <3>3
  <2>5. Ended'
    BY <2>1 DEF Ended
  <2> QED
    BY <1>4, <2>2, <2>3, <2>4, <2>5 DEF Numbers
<1> QED
  BY <1>6, <1>7

\* so never by a step.
LEMMA LeftNext == Inv /\ Left /\ Inv' /\ [Next]_vars => Left'
<1> SUFFICES ASSUME Inv, Left, Inv', [Next]_vars PROVE Left'
  OBVIOUS
<1>1. CASE Begin
  BY <1>1, LeftBegin
<1>2. CASE Return
  <2>1. /\ pc = "wait" /\ pc' = "returned"
        /\ UNCHANGED <<g, err, ctxDone, pending, phase, given, verdict, cause, outputs, inflight, peak>>
        /\ \A t \in Tasks : phase[t] \in {"none", "gone"}
    BY <1>2 DEF Return
  <2>2. Ended' /\ Open' = Open
    BY <2>1 DEF Ended, Open, Tasks
  <2> QED
    BY <2>1, <2>2, LeftMove
<1>3. CASE Cancel
  <2>1. UNCHANGED <<g, pc, err, pending, phase, given, verdict, cause, outputs, inflight, peak>>
    BY <1>3 DEF Cancel
  <2>2. Open' = Open
    BY <2>1 DEF Open, Tasks
  <2> QED
    BY <2>1, <2>2, LeftMove
<1>4. ASSUME NEW t \in Tasks, Worker(t) PROVE Left'
  <2>1. ASSUME NEW to, phase' = [phase EXCEPT ![t] = to],
               \/ phase[t] = "queued" /\ to = "running"
               \/ phase[t] = "leaving" /\ to = "gone",
               UNCHANGED <<g, pc, err, ctxDone, pending, given, verdict, cause, outputs, inflight, peak>>
        PROVE  Left'
    <3>1. t \in Names /\ phase'[t] = to /\ \A u \in Names \ {t} : phase'[u] = phase[u]
      BY <2>1 DEF Tasks, Inv, Shape
    <3>2. Open' = Open /\ \A u \in Names : phase'[u] = "none" <=> phase[u] = "none"
      BY <2>1, <3>1 DEF Open, Tasks
    <3>3. pc # "returned"
      BY <2>1 DEF Left, Ended
    <3> QED
      BY <2>1, <3>2, <3>3, LeftMove
  <2>2. CASE Acquire(t)
    BY <2>1, <2>2 DEF Acquire
  <2>3. CASE Leave(t)
    BY <2>1, <2>3 DEF Leave
  <2>4. CASE GiveUp(t)
    BY <1>4, <2>4, LeftConclude DEF GiveUp
  <2>5. CASE ExecFails(t)
    BY <1>4, <2>5, LeftConclude DEF ExecFails
  <2>6. CASE ExecReturns(t)
    BY <1>4, <2>6, LeftReturns
  <2> QED
    BY <1>4, <2>2, <2>3, <2>4, <2>5, <2>6 DEF Worker
<1>5. CASE UNCHANGED vars
  BY <1>5, LeftMove DEF vars, Open, Tasks
<1> QED
  BY <1>1, <1>2, <1>3, <1>4, <1>5 DEF Next, Terminated

\* Nothing is left out in any schedule.
LEMMA LeftAlways == Spec => []Left
  BY Invariant, LeftInit, LeftNext, PTL DEF Spec

\* The state of a schedule has its type, whatever the graph.
THEOREM Types == Spec => []TypeOK
<1>1. Inv /\ Left => TypeOK
  BY DEF Inv, Left, Shape, Numbers, TypeOK, Phases, Verdicts
<1> QED
  BY <1>1, Invariant, LeftAlways, PTL

\* schedule.go:159-173: BlockedBy names a task that ran and failed and that the
\* blocked one is behind, for every graph and every race of failures.
THEOREM NamedCause == Spec => []BlockedNamesCause
<1>1. Inv /\ Left => BlockedNamesCause
  <2> SUFFICES ASSUME Inv, Left, NEW t \in Tasks, verdict[t] = "blocked"
               PROVE  phase[t] = "none" /\ cause[t] \in FailedTasks /\ t \in Behind(g, {cause[t]})
    BY DEF BlockedNamesCause
  <2>1. t \in Names /\ phase[t] \in Phases
    BY DEF Tasks, Inv, Shape
  <2>2. phase[t] = "none"
    BY <2>1 DEF Inv, Agree, Phases
  <2> QED
    BY <2>2 DEF Left, Caused
<1> QED
  BY <1>1, Invariant, LeftAlways, PTL

\* schedule.go:238-254: when Schedule returns, every task has a result, and the
\* blocked ones are exactly those behind a failure.  A task that waits would wait
\* for another that waits, and Sort has refused such a knot.
THEOREM NoHole == Spec => []NothingLeftOut
<1>1. Inv /\ Left => NothingLeftOut
  <2> SUFFICES ASSUME Inv, Left, pc = "returned", err = "none"
               PROVE  /\ \A t \in Tasks : verdict[t] # "none"
                      /\ {t \in Tasks : verdict[t] = "blocked"} = Behind(g, FailedTasks) \ FailedTasks
    BY DEF NothingLeftOut
  <2>1. /\ SortError(g) = "none" /\ g \in Graphs /\ Tasks = IdsOf(g) /\ Tasks \subseteq Names
        /\ \A t \in Tasks : phase[t] \in {"none", "gone"}
    BY AcceptedTasks DEF Inv, Left, Shape, Launched, Ended, Tasks
  <2>2. /\ \A t \in Tasks : DepsOf(g, t) \subseteq Tasks
        /\ \A K \in SUBSET Tasks : ~Knot(g, K)
    BY <2>1, Accepted
  <2>3. \A t \in Tasks : verdict[t] # "none"
    <3> DEFINE K == {t \in Tasks : verdict[t] = "none"}
    <3>1. \A t \in K : phase[t] = "none"
      BY <2>1 DEF Inv, Agree
    <3>2. ASSUME NEW t \in K PROVE DepsOf(g, t) \cap K # {}
      <4>1. PICK d \in DepsOf(g, t) : verdict[d] # "ok"
        BY <3>1 DEF Left, Launched
      <4>2. d \in Tasks /\ verdict[d] \in Verdicts
        BY <2>1, <2>2 DEF Inv, Shape
      <4>3. verdict[d] \notin {"failed", "stopped", "blocked"}
        BY DEF Left, Spread
      <4> QED
        BY <4>1, <4>2, <4>3 DEF Verdicts
    <3>3. K = {}
      BY <2>2, <3>2 DEF Knot
    <3> QED
      BY <3>3
  <2>4. ASSUME NEW t \in Tasks, verdict[t] = "blocked"
        PROVE  t \in Behind(g, FailedTasks) \ FailedTasks
    <3>1. cause[t] \in FailedTasks /\ t \in Behind(g, {cause[t]})
      BY <2>4 DEF Left, Caused
    <3>2. t \in Behind(g, FailedTasks)
      BY <3>1, BehindGrows
    <3> QED
      BY <2>4, <3>2 DEF FailedTasks
  <2>5. ASSUME NEW t \in Behind(g, FailedTasks) \ FailedTasks
        PROVE  t \in Tasks /\ verdict[t] = "blocked"
    <3> DEFINE U == {u \in Tasks : verdict[u] \in {"failed", "stopped", "blocked"}}
    <3>1. U \in SUBSET IdsOf(g) /\ FailedTasks \subseteq U
      BY <2>1 DEF FailedTasks
    <3>2. \A u \in IdsOf(g) : DepsOf(g, u) \cap U # {} => u \in U
      BY <2>1 DEF Left, Spread
    <3>3. t \in U
      <4> HIDE DEF U
      <4> QED
        BY <3>1, <3>2, BehindInside
    <3> QED
      BY <3>3 DEF FailedTasks
  <2>6. {t \in Tasks : verdict[t] = "blocked"} = Behind(g, FailedTasks) \ FailedTasks
    BY <2>4, <2>5
  <2> QED
    BY <2>3, <2>6
<1> QED
  BY <1>1, Invariant, LeftAlways, PTL

\* The results are the tasks, tier by tier.
LEMMA ResultsFacts ==
  ASSUME g \in Graphs, SortError(g) = "none"
  PROVE  /\ Results \in Seq(IdsOf(g)) /\ Elements(Results) = IdsOf(g)
         /\ Lined(Results, Tiers(g))
<1> DEFINE ids == IdsOf(g)
<1>1. PICK n \in Nat : n = Len(g.order)
  BY GraphFacts
<1>2. PICK seqs : seqs = [k \in 1 .. n |-> InTier(g, k - 1)]
  OBVIOUS
<1>3. ASSUME NEW k \in 1 .. n
      PROVE  /\ seqs[k] \in Seq(ids) /\ Lined(seqs[k], Tiers(g))
             /\ Elements(seqs[k]) = {t \in ids : TierOf(g, t) = k - 1}
  <2>1. k - 1 \in Nat /\ seqs[k] = InTier(g, k - 1)
    BY <1>2
  <2> QED
    BY <2>1, InTierFacts
<1>4. seqs \in [1 .. n -> Seq(ids)]
  BY <1>2, <1>3
<1>5. PICK r : FlatLoop(r, seqs, n, ids)
  <2> HIDE DEF ids
  <2> QED
    BY <1>4, FlatFold
<1>6. /\ r \in [0 .. n -> Seq(ids)] /\ r[0] = <<>> /\ FlattenSeq(seqs) = r[n]
      /\ \A k \in 1 .. n : r[k] = r[k-1] \o seqs[k]
  BY <1>5 DEF FlatLoop
<1>7. \A t \in ids : TierOf(g, t) \in Nat /\ TierOf(g, t) < n /\ Tiers(g)[t] = TierOf(g, t)
  BY <1>1, TierFacts DEF Tiers
<1> DEFINE Below(k) == {t \in ids : TierOf(g, t) < k}
           Good(k) == Elements(r[k]) = Below(k) /\ Lined(r[k], Tiers(g))
           T == {k \in Nat : k <= n => Good(k)}
<1>8. 0 \in T
  <2>1. Len(r[0]) = 0 /\ 1 .. 0 = {}
    BY <1>6
  <2>2. Below(0) = {}
    BY <1>7
  <2> HIDE DEF Below
  <2> QED
    BY <2>1, <2>2 DEF Elements, Lined
<1>9. ASSUME NEW k \in Nat, k \in T PROVE k+1 \in T
  <2> SUFFICES ASSUME k+1 <= n PROVE Good(k+1)
    OBVIOUS
  <2>1. k+1 \in 1 .. n /\ (k+1)-1 = k /\ k \in 0 .. n
    OBVIOUS
  <2>2. Good(k)
    BY <1>9
  <2>3. PICK p \in Seq(ids) : p = r[k]
    BY <1>6, <2>1
  <2>4. PICK q \in Seq(ids) : q = seqs[k+1]
    BY <1>3, <2>1
  <2>5. r[k+1] = p \o q
    BY <1>6, <2>1, <2>3, <2>4
  <2>6. Elements(p) = Below(k) /\ Lined(p, Tiers(g))
    BY <2>2, <2>3
  <2>7. Elements(q) = {t \in ids : TierOf(g, t) = k} /\ Lined(q, Tiers(g))
    BY <1>3, <2>1, <2>4
  <2>8. \A t \in Elements(p), u \in Elements(q) : t # u /\ Tiers(g)[t] <= Tiers(g)[u]
    BY <1>7, <2>6, <2>7
  <2>9. Lined(p \o q, Tiers(g)) /\ Elements(p \o q) = Elements(p) \cup Elements(q)
    <3> HIDE DEF ids, Below
    <3> QED
      BY <2>3, <2>4, <2>6, <2>7, <2>8, Join
  <2>10. Below(k) \cup {t \in ids : TierOf(g, t) = k} = Below(k+1)
    BY <1>7
  <2> HIDE DEF Below, T, ids
  <2> QED
    BY <2>5, <2>6, <2>7, <2>9, <2>10
<1>10. n \in T
  <2> HIDE DEF T
  <2> QED
    BY <1>8, <1>9, Induct
<1>11. Good(n) /\ Below(n) = ids
  BY <1>7, <1>10
<1>12. n \in 0 .. n
  OBVIOUS
<1>13. r[n] \in Seq(ids)
  BY <1>6, <1>12
<1>14. Results = r[n]
  BY <1>1, <1>2, <1>6 DEF Results
<1> HIDE DEF Below, T
<1> QED
  BY <1>11, <1>13, <1>14

\* extract.go:82-95: in what Assemble writes every result comes after the results
\* it was derived from, and all that succeeded are there once.
THEOREM ReadingInOrder == Spec => []ReadingOrder
<1>1. Inv /\ Left => ReadingOrder
  <2> SUFFICES ASSUME Inv, Left, pc = "returned", err = "none"
               PROVE  /\ ToSet(Sections) = {t \in Tasks : verdict[t] = "ok"}
                      /\ IsInjective(Sections)
                      /\ \A i, j \in DOMAIN Sections :
                           Sections[i] \in DepsOf(g, Sections[j]) => i < j
    BY DEF ReadingOrder
  <2>1. g \in Graphs /\ SortError(g) = "none" /\ Tasks = IdsOf(g)
    BY AcceptedTasks DEF Inv, Left, Shape, Launched
  <2> DEFINE S == {t \in Tasks : verdict[t] = "ok"}
  <2>2. PICK s : s = Sections
    OBVIOUS
  <2>3. s = Only(Results, S)
    BY <2>2 DEF Sections
  <2>4. s \in Seq(Tasks) /\ Elements(s) = Elements(Results) \cap S /\ Lined(s, Tiers(g))
    <3> HIDE DEF S
    <3> QED
      BY <2>1, <2>3, ResultsFacts, OnlyFacts
  <2>5. Elements(s) = S
    BY <2>1, <2>4, ResultsFacts
  <2>6. PICK n \in Nat : n = Len(s) /\ DOMAIN s = 1 .. n
    BY <2>4
  <2>7. ToSet(s) = S
    BY <2>5, <2>6 DEF ToSet, Elements
  <2>8. ASSUME NEW i \in 1 .. n, NEW j \in 1 .. n, s[i] = s[j] PROVE i = j
    <3>1. ~(i < j) /\ ~(j < i)
      BY <2>4, <2>6, <2>8 DEF Lined
    <3> QED
      BY <3>1
  <2>9. IsInjective(s)
    BY <2>6, <2>8 DEF IsInjective
  <2>10. ASSUME NEW i \in 1 .. n, NEW j \in 1 .. n, s[i] \in DepsOf(g, s[j]) PROVE i < j
    <3>1. s[i] \in IdsOf(g) /\ s[j] \in IdsOf(g)
      BY <2>1, <2>4, <2>6
    <3>2. PICK a \in Nat : a = TierOf(g, s[i])
      BY <2>1, <3>1, TierFacts
    <3>3. PICK b \in Nat : b = TierOf(g, s[j])
      BY <2>1, <3>1, TierFacts
    <3>4. a < b /\ Tiers(g)[s[i]] = a /\ Tiers(g)[s[j]] = b
      BY <2>1, <2>10, <3>1, <3>2, <3>3, TierDeps DEF Tiers
    <3>5. CASE i = j
      BY <3>2, <3>3, <3>4, <3>5
    <3>6. CASE j < i
      <4>1. b <= a
        BY <2>4, <2>6, <3>4, <3>6 DEF Lined
      <4> QED
        BY <3>4, <4>1
    <3> QED
      BY <3>5, <3>6
  <2> QED
    BY <2>2, <2>6, <2>7, <2>9, <2>10
<1> QED
  BY <1>1, Invariant, LeftAlways, PTL

===============================================================================
