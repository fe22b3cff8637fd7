------------------------------ MODULE Induction -------------------------------
(***************************************************************************)
(* Induction over the data of the models.  A nonempty family of finite     *)
(* sets has a smallest member, and a nonempty set of numbers a least one;  *)
(* so what holds at 0 and is kept by every step holds of every number, and *)
(* a function given by its first value and a step exists, as does one that *)
(* a definition by recursion or a fold chooses.  Also what the minimum and *)
(* the maximum of numbers, a division and the pieces of a sequence are.    *)
(***************************************************************************)
EXTENDS
  Integers, FiniteSetsExt, SequencesExt, FiniteSetTheorems, SequenceTheorems,
  WellFoundedInduction, TLAPS

\* A nonempty family of finite sets has a member that contains no other.
LEMMA SmallestSet ==
  ASSUME NEW U, NEW C, C # {}, \A X \in C : X \subseteq U /\ IsFiniteSet(X)
  PROVE  \E X \in C : \A Y \in C : Y \subseteq X => Y = X
<1>1. IsWellFoundedOn(StrictSubsetOrdering(U), FiniteSubsetsOf(U))
  BY FS_StrictSubsetOrderingWellFounded
<1>2. C \subseteq FiniteSubsetsOf(U)
  BY DEF FiniteSubsetsOf
<1>3. PICK X \in C : \A Y \in C : ~(<<Y, X>> \in StrictSubsetOrdering(U))
  BY <1>1, <1>2, WFMin
<1> QED
  BY <1>3 DEF StrictSubsetOrdering

\* A nonempty set of numbers has a least one.
LEMMA SmallestNumber ==
  ASSUME NEW S \in SUBSET Nat, S # {}
  PROVE  \E n \in S : \A m \in S : n <= m
<1> DEFINE C == {0 .. n : n \in S}
<1>1. \A X \in C : X \subseteq Nat /\ IsFiniteSet(X)
  <2>1. \A n \in S : 0 \in Int /\ n \in Int
    OBVIOUS
  <2>2. \A n \in S : IsFiniteSet(0 .. n)
    BY <2>1, FS_Interval
  <2>3. \A n \in S : 0 .. n \subseteq Nat
    OBVIOUS
  <2> QED
    BY <2>2, <2>3
<1>2. PICK X \in C : \A Y \in C : Y \subseteq X => Y = X
  <2>1. C # {}
    OBVIOUS
  <2> HIDE DEF C
  <2> QED
    BY <1>1, <2>1, SmallestSet
<1>3. PICK n \in S : X = 0 .. n
  OBVIOUS
<1>4. ASSUME NEW m \in S, m < n PROVE FALSE
  <2>1. 0 .. m \subseteq 0 .. n /\ n \in 0 .. n /\ n \notin 0 .. m
    BY <1>4
  <2> QED
    BY <1>2, <1>3, <2>1
<1> QED
  BY <1>4

\* The lesser of two numbers.
LEMMA MinOfTwo ==
  ASSUME NEW a \in Int, NEW b \in Int
  PROVE  /\ Min({a, b}) = IF b <= a THEN b ELSE a
         /\ Min({a, b}) \in {a, b} /\ Min({a, b}) <= a /\ Min({a, b}) <= b
<1>1. \E x \in {a, b} : \A y \in {a, b} : x <= y
  <2>1. CASE a <= b
    BY <2>1
  <2>2. CASE ~(a <= b)
    BY <2>2
  <2> QED
    BY <2>1, <2>2
<1>2. Min({a, b}) \in {a, b} /\ \A y \in {a, b} : Min({a, b}) <= y
  BY <1>1 DEF Min
<1> QED
  BY <1>2

\* The greater of two numbers.
LEMMA MaxOfTwo ==
  ASSUME NEW a \in Int, NEW b \in Int
  PROVE  Max({a, b}) \in {a, b} /\ Max({a, b}) >= a /\ Max({a, b}) >= b
<1>1. \E x \in {a, b} : \A y \in {a, b} : x >= y
  <2>1. CASE a >= b
    BY <2>1
  <2>2. CASE ~(a >= b)
    BY <2>2
  <2> QED
    BY <2>1, <2>2
<1>2. Max({a, b}) \in {a, b} /\ \A y \in {a, b} : Max({a, b}) >= y
  BY <1>1 DEF Max
<1> QED
  BY <1>2

\* The least of a set of numbers is in it.
LEMMA MinOfSome ==
  ASSUME NEW A \in SUBSET Nat, A # {}
  PROVE  Min(A) \in A /\ \A y \in A : Min(A) <= y
<1>1. \E x \in A : \A y \in A : x <= y
  BY SmallestNumber
<1> QED
  BY <1>1 DEF Min

\* Max of some of the first numbers.
LEMMA MaxOfSome ==
  ASSUME NEW n \in Nat, NEW S \in SUBSET (0 .. n), S # {}
  PROVE  Max(S) \in S /\ \A x \in S : x <= Max(S)
<1> DEFINE T == {n - x : x \in S}
<1>0. \A x \in S : x \in Nat /\ n - x \in Nat
  OBVIOUS
<1>1. PICK t \in T : \A u \in T : t <= u
  <2>1. T \in SUBSET Nat /\ T # {}
    BY <1>0
  <2> HIDE DEF T
  <2> QED
    BY <2>1, SmallestNumber
<1>2. PICK y \in S : t = n - y
  OBVIOUS
<1>3. ASSUME NEW x \in S PROVE y >= x
  <2>1. n - x \in T
    OBVIOUS
  <2>2. n - y <= n - x
    BY <1>1, <1>2, <2>1
  <2> QED
    BY <1>0, <2>2
<1>4. Max(S) \in S /\ \A x \in S : Max(S) >= x
  BY <1>3 DEF Max
<1> QED
  BY <1>4

\* What holds of 0 and of the successor of every number it holds of.
LEMMA Induct ==
  ASSUME NEW S, 0 \in S, \A n \in Nat : n \in S => n + 1 \in S
  PROVE  Nat \subseteq S
<1> SUFFICES ASSUME Nat \ S # {} PROVE FALSE
  OBVIOUS
<1>1. PICK n \in Nat \ S : \A m \in Nat \ S : n <= m
  BY SmallestNumber
<1> QED
  BY <1>1

\* A function on 0 .. n given by its first value and a step for each number.
Steps(V) == [Nat -> [V -> V]]
Recurs(f, n, V, first, step) ==
  f \in [0 .. n -> V] /\ f[0] = first /\ \A k \in 1 .. n : f[k] = step[k][f[k-1]]

\* There is one for every first value and all steps.
LEMMA Recursion ==
  ASSUME NEW n \in Nat, NEW V, NEW first \in V, NEW step \in Steps(V)
  PROVE  \E f : Recurs(f, n, V, first, step)
<1> USE DEF Steps, Recurs
<1> DEFINE Ex(m, f) == /\ f \in [0 .. m -> V] /\ f[0] = first
                       /\ \A k \in 1 .. m : f[k] = step[k][f[k-1]]
           S == {m \in Nat : \E f : Ex(m, f)}
<1>1. 0 \in S
  <2>1. Ex(0, [k \in 0 .. 0 |-> first])
    OBVIOUS
  <2> QED
    BY <2>1
<1>2. ASSUME NEW m \in Nat, m \in S PROVE m + 1 \in S
  <2>1. PICK f : Ex(m, f)
    BY <1>2
  <2> DEFINE h == [k \in 0 .. m+1 |-> IF k <= m THEN f[k] ELSE step[m+1][f[m]]]
  <2>2. step[m+1][f[m]] \in V
    BY <2>1
  <2>3. h \in [0 .. m+1 -> V] /\ h[0] = first
    BY <2>1, <2>2
  <2>4. \A k \in 1 .. m+1 : h[k] = step[k][h[k-1]]
    <3> SUFFICES ASSUME NEW k \in 1 .. m+1 PROVE h[k] = step[k][h[k-1]]
      OBVIOUS
    <3>1. CASE k <= m
      BY <2>1, <3>1
    <3>2. CASE k = m+1
      BY <2>1, <3>2
    <3> QED
      BY <3>1, <3>2
  <2> HIDE DEF h
  <2>5. Ex(m+1, h)
    BY <2>3, <2>4
  <2> QED
    BY <2>5
<1>3. n \in S
  <2> HIDE DEF S
  <2> QED BY <1>1, <1>2, Induct
<1> QED
  BY <1>3

\* A recursive definition over X has a solution when every value needs values of
\* an earlier level only, and the levels end.
Leveled(X, V, F, n, body, L) ==
  /\ F = [X -> V] /\ F # {} /\ n \in Nat
  /\ body \in [F -> F]
  /\ L \in [0 .. n -> SUBSET X] /\ L[0] = {} /\ L[n] = X
  /\ \A k \in 1 .. n : \A f, h \in F :
       (\A x \in L[k-1] : f[x] = h[x]) => \A x \in L[k] : body[f][x] = body[h][x]

Fixed(F, body) == \E f \in F : f = body[f]

LEMMA Fixpoint ==
  ASSUME NEW X, NEW V, NEW F, NEW n, NEW body, NEW L, Leveled(X, V, F, n, body, L)
  PROVE  Fixed(F, body)
<1> USE DEF Leveled, Fixed
<1>0. PICK first : first \in F
  OBVIOUS
<1> DEFINE step == [k \in Nat |-> body]
<1>1. step \in Steps(F) /\ first \in F
  BY <1>0 DEF Steps
<1>2. PICK r : Recurs(r, n, F, first, step)
  <2> HIDE DEF step
  <2> QED
    BY <1>1, Recursion
<1>3. /\ r \in [0 .. n -> F]
      /\ \A k \in 1 .. n : k-1 \in 0 .. n /\ r[k-1] \in F /\ r[k] \in F /\ r[k] = body[r[k-1]]
    BY <1>2 DEF Recurs
<1> DEFINE Same(k) == \A x \in L[k] : body[r[k]][x] = r[k][x]
           S == {k \in Nat : k <= n => Same(k)}
<1>4. 0 \in S
  OBVIOUS
<1>5. ASSUME NEW k \in Nat, k \in S PROVE k+1 \in S
  <2> SUFFICES ASSUME k+1 <= n PROVE Same(k+1)
    OBVIOUS
  <2>1. k+1 \in 1 .. n /\ (k+1)-1 = k /\ Same(k)
    BY <1>5
  <2>2. r[k] \in F /\ r[k+1] \in F /\ r[k+1] = body[r[k]]
    BY <1>3, <2>1
  <2> HIDE DEF S
  <2>3. \A x \in L[k] : r[k+1][x] = r[k][x]
    BY <2>1, <2>2
  <2>4. \A x \in L[k+1] : body[r[k+1]][x] = body[r[k]][x]
    BY <2>1, <2>2, <2>3, SMTT(60)
  <2> QED
    BY <2>2, <2>4
<1>6. n \in S
  <2> HIDE DEF S
  <2> QED
    BY <1>4, <1>5, Induct
<1>7. r[n] \in F /\ Same(n)
  BY <1>3, <1>6
<1>8. body[r[n]] \in F
  BY <1>7
<1>9. \A x \in X : body[r[n]][x] = r[n][x]
  BY <1>7
<1>10. r[n] = body[r[n]]
  <2> HIDE DEF S, Same, step
  <2> QED
  BY <1>7, <1>8, <1>9
<1> QED
  BY <1>7, <1>10

---------------------------------------------------------------------------
(* A list is folded from its end.                                           *)

\* The greatest of some of the numbers up to n.
LEMMA MaxFacts ==
  ASSUME NEW n \in Nat, NEW s \in SUBSET (1 .. n), s # {}
  PROVE  Max(s) \in s /\ \A y \in s : y <= Max(s)
<1> DEFINE U == {m \in Nat : \A y \in s : y <= m}
<1>1. n \in U
  OBVIOUS
<1>2. PICK m \in U : \A k \in U : m <= k
  <2>1. U \in SUBSET Nat /\ U # {}
    BY <1>1
  <2> HIDE DEF U
  <2> QED
    BY <2>1, SmallestNumber
<1>3. m \in s
  <2> SUFFICES ASSUME m \notin s PROVE FALSE
    OBVIOUS
  <2>1. \A y \in s : y \in 1 .. n /\ y <= m - 1 /\ m >= 1
    BY <1>2
  <2>2. m \in Nat /\ m - 1 \in Nat
    <3>1. PICK y \in s : TRUE
      OBVIOUS
    <3> QED
      BY <1>2, <2>1, <3>1
  <2>3. m - 1 \in U
    BY <2>1, <2>2
  <2> QED
    BY <1>2, <2>2, <2>3
<1>4. \A y \in s : m >= y
  BY <1>2
<1>5. Max(s) = CHOOSE x \in s : \A y \in s : x >= y
  BY DEF Max
<1>6. Max(s) \in s /\ \A y \in s : Max(s) >= y
  BY <1>3, <1>4, <1>5
<1> QED
  BY <1>6

\* A list is folded from its end: what its definition asks for exists.
Loops(n, V) == [1 .. n -> [V -> V]]
Folded(f, n, V, base, step) ==
  /\ f \in [SUBSET (1 .. n) -> V]
  /\ \A s \in SUBSET (1 .. n) :
       f[s] = IF s = {} THEN base ELSE step[Max(s)][f[s \ {Max(s)}]]

LEMMA FoldExists ==
  ASSUME NEW n \in Nat, NEW V, NEW base \in V, NEW step \in Loops(n, V)
  PROVE  \E f : Folded(f, n, V, base, step)
<1> USE DEF Folded, Loops
<1> DEFINE X == SUBSET (1 .. n)
           F == [X -> V]
           body == [f \in F |-> [s \in X |-> IF s = {} THEN base
                                             ELSE step[Max(s)][f[s \ {Max(s)}]]]]
           L == [k \in 0 .. n+1 |-> IF k = 0 THEN {} ELSE SUBSET (1 .. k-1)]
<1>1. \A s \in X : s # {} => Max(s) \in 1 .. n /\ s \ {Max(s)} \in X
  <2> SUFFICES ASSUME NEW s \in X, s # {} PROVE Max(s) \in 1 .. n /\ s \ {Max(s)} \in X
    OBVIOUS
  <2>1. Max(s) \in s
    BY MaxFacts
  <2> QED
    BY <2>1
<1>2. \A f \in F : \A s \in X :
        (IF s = {} THEN base ELSE step[Max(s)][f[s \ {Max(s)}]]) \in V
  BY <1>1
<1>3. body \in [F -> F]
  BY <1>2
<1>4. L \in [0 .. n+1 -> SUBSET X] /\ L[0] = {} /\ L[n+1] = X
  OBVIOUS
<1>5. ASSUME NEW k \in 1 .. n+1, NEW f \in F, NEW h \in F, \A x \in L[k-1] : f[x] = h[x],
             NEW s \in L[k]
      PROVE  body[f][s] = body[h][s]
  <2>1. s \in X /\ s \in SUBSET (1 .. k-1)
    BY <1>4, <1>5
  <2>2. CASE s = {}
    BY <2>1, <2>2
  <2>3. CASE s # {}
    <3>1. Max(s) \in s /\ \A y \in s : y <= Max(s)
      BY <2>1, <2>3, MaxFacts
    <3>2. Max(s) \in 1 .. k-1 /\ \A y \in s \ {Max(s)} : y \in 1 .. k-2
      <4>1. PICK m \in s : m = Max(s)
        BY <3>1
      <4>2. m \in 1 .. k-1 /\ \A y \in s \ {m} : y \in 1 .. k-1 /\ y <= m /\ y # m
        BY <2>1, <3>1, <4>1
      <4>3. \A y \in s \ {m} : y \in 1 .. k-2
        BY <4>2
      <4> HIDE DEF X, F, body, L
      <4> QED
        BY <4>1, <4>2, <4>3
    <3>3. k-1 \in 0 .. n+1 /\ k-1 # 0 /\ s \ {Max(s)} \in SUBSET (1 .. (k-1)-1)
      BY <3>2
    <3>4. s \ {Max(s)} \in L[k-1]
      BY <3>3
    <3>5. f[s \ {Max(s)}] = h[s \ {Max(s)}]
      BY <1>5, <3>4
    <3> QED
      BY <2>1, <2>3, <3>5
  <2> QED
    BY <2>2, <2>3
<1>6. [s \in X |-> base] \in F /\ n+1 \in Nat
  OBVIOUS
<1>7. PICK f \in F : f = body[f]
  <2>1. \A k \in 1 .. n+1 : \A f, h \in F :
          (\A x \in L[k-1] : f[x] = h[x]) => \A x \in L[k] : body[f][x] = body[h][x]
    <3> HIDE DEF X, F, body, L
    <3> QED
      BY <1>5
  <2>2. F = [X -> V] /\ F # {}
    BY <1>6
  <2> HIDE DEF X, F, body, L
  <2>3. Leveled(X, V, F, n+1, body, L)
    BY <1>3, <1>4, <1>6, <2>1, <2>2 DEF Leveled
  <2>4. Fixed(F, body)
    BY <2>3, Fixpoint
  <2> QED
    BY <2>4 DEF Fixed
<1>8. \A s \in X : f[s] = IF s = {} THEN base ELSE step[Max(s)][f[s \ {Max(s)}]]
  <2> SUFFICES ASSUME NEW s \in X
               PROVE  f[s] = IF s = {} THEN base ELSE step[Max(s)][f[s \ {Max(s)}]]
    OBVIOUS
  <2>1. body[f][s] = IF s = {} THEN base ELSE step[Max(s)][f[s \ {Max(s)}]]
    OBVIOUS
  <2> HIDE DEF body
  <2> QED
    BY <1>7, <2>1
<1> QED
  BY <1>8

\* What has been folded before a place of the list, by the places before it.
Before(h, n) == [k \in 0 .. n |-> h[1 .. k]]

Folds(h, n, V, base, step) ==
  /\ h[{}] = base
  /\ \A s \in SUBSET (1 .. n) :
       s # {} /\ h[s \ {Max(s)}] \in V => h[s] = step[Max(s)][h[s \ {Max(s)}]]

Looped(b, n, V, base, step) ==
  b \in [0 .. n -> V] /\ b[0] = base /\ \A k \in 1 .. n : b[k] = step[k][b[k-1]]

\* The values of a fold are those of a loop over the list.
LEMMA FoldLoop ==
  ASSUME NEW n \in Nat, NEW V, NEW base \in V, NEW step \in Loops(n, V), NEW h,
         Folds(h, n, V, base, step)
  PROVE  Looped(Before(h, n), n, V, base, step) /\ h[1 .. n] = Before(h, n)[n]
<1> USE DEF Loops
<1> DEFINE r == Before(h, n)
<1>1. \A k \in 0 .. n : r[k] = h[1 .. k]
  BY DEF Before
<1>2. r[0] = base
  <2>1. 1 .. 0 = {}
    OBVIOUS
  <2> QED
    BY <1>1, <2>1 DEF Folds
<1>3. ASSUME NEW k \in 1 .. n, r[k-1] \in V PROVE r[k] = step[k][r[k-1]]
  <2>1. 1 .. k \in SUBSET (1 .. n) /\ 1 .. k # {}
    OBVIOUS
  <2>2. Max(1 .. k) = k
    <3>1. Max(1 .. k) \in 1 .. k /\ \A y \in 1 .. k : y <= Max(1 .. k)
      BY <2>1, MaxFacts
    <3>2. k \in 1 .. k
      OBVIOUS
    <3> QED
      BY <3>1, <3>2
  <2>3. (1 .. k) \ {k} = 1 .. k-1 /\ k-1 \in 0 .. n
    OBVIOUS
  <2>4. h[1 .. k-1] \in V
    BY <1>1, <1>3, <2>3
  <2>5. h[1 .. k] = step[k][h[1 .. k-1]]
    BY <2>1, <2>2, <2>3, <2>4 DEF Folds
  <2> QED
    BY <1>1, <2>3, <2>5
<1> DEFINE S == {k \in Nat : k <= n => r[k] \in V}
<1>4. 0 \in S
  BY <1>2
<1>5. ASSUME NEW k \in Nat, k \in S PROVE k+1 \in S
  <2> SUFFICES ASSUME k+1 <= n PROVE r[k+1] \in V
    OBVIOUS
  <2>1. k+1 \in 1 .. n /\ (k+1)-1 = k /\ r[k] \in V
    BY <1>5
  <2> HIDE DEF r, S
  <2>2. r[k+1] = step[k+1][r[k]]
    BY <1>3, <2>1
  <2> QED
    BY <2>1, <2>2
<1>6. \A k \in 0 .. n : r[k] \in V
  <2>1. Nat \subseteq S
    <3> HIDE DEF S
    <3> QED
      BY <1>4, <1>5, Induct
  <2> QED
    BY <2>1
<1>7. \A k \in 1 .. n : k-1 \in 0 .. n
  OBVIOUS
<1>8. r \in [0 .. n -> V]
  BY <1>6 DEF Before
<1> HIDE DEF r
<1>9. n \in 0 .. n
  OBVIOUS
<1> QED
  BY <1>1, <1>2, <1>3, <1>6, <1>7, <1>8, <1>9 DEF r, Looped

---------------------------------------------------------------------------
(* Parts of a division and of a list.                                        *)

LEMMA TimesMonotone ==
  ASSUME NEW s \in Nat, NEW a \in Int, NEW b \in Int, a <= b
  PROVE  s * a \in Int /\ s * b \in Int /\ s * a <= s * b
<1>1. s * (b - a) >= 0 /\ s * (b - a) = s * b - s * a
  <2>1. s \in Int /\ s >= 0 /\ b - a \in Int /\ b - a >= 0
    OBVIOUS
  <2> QED
    BY <2>1
<1> QED
  BY <1>1

\* The floor of a division.
LEMMA Floor ==
  ASSUME NEW a \in Int, NEW s \in Nat \ {0}
  PROVE  a \div s \in Int /\ s * (a \div s) <= a /\ a < s * (a \div s) + s
  OBVIOUS

LEMMA FloorBound ==
  ASSUME NEW a \in Int, NEW s \in Nat \ {0}, NEW t \in Int
  PROVE  t <= a \div s <=> s * t <= a
<1>1. /\ a \div s \in Int /\ s * (a \div s) \in Int
      /\ s * (a \div s) <= a /\ a < s * (a \div s) + s
  BY Floor
<1>2. ASSUME t <= a \div s PROVE s * t <= a
  <2>1. s * t <= s * (a \div s) /\ s * t \in Int
    BY <1>1, <1>2, TimesMonotone
  <2> QED
    BY <1>1, <2>1
<1>3. ASSUME ~(t <= a \div s) PROVE ~(s * t <= a)
  <2>1. (a \div s) + 1 \in Int /\ (a \div s) + 1 <= t
    BY <1>1, <1>3
  <2>2. s * ((a \div s) + 1) <= s * t /\ s * t \in Int
    BY <2>1, TimesMonotone
  <2>3. s * ((a \div s) + 1) = s * (a \div s) + s
    BY <1>1
  <2> QED
    BY <1>1, <2>2, <2>3
<1> QED
  BY <1>2, <1>3

\* The later part of a list.
LEMMA LaterPart ==
  ASSUME NEW V, NEW s \in Seq(V), NEW x \in Nat \ {0}, x <= Len(s) + 1
  PROVE  /\ SubSeq(s, x, Len(s)) \in Seq(V) /\ Len(SubSeq(s, x, Len(s))) = Len(s) - x + 1
         /\ \A i \in 1 .. Len(s) - x + 1 : SubSeq(s, x, Len(s))[i] = s[x + i - 1]
<1>1. PICK n : n = Len(s)
  OBVIOUS
<1>2. n \in Nat /\ x <= n + 1
  BY <1>1
<1>3. \A i \in x .. n : s[i] \in V
  BY <1>1, <1>2
<1>4. x \in Int /\ n \in Int
  BY <1>2
<1>5. /\ SubSeq(s, x, n) \in Seq(V) /\ Len(SubSeq(s, x, n)) = IF x <= n THEN n - x + 1 ELSE 0
      /\ \A i \in 1 .. n - x + 1 : SubSeq(s, x, n)[i] = s[x + i - 1]
  BY ONLY <1>3, <1>4, SubSeqProperties
<1>6. Len(SubSeq(s, x, n)) = n - x + 1
  <2>1. CASE x <= n
    BY <1>5, <2>1
  <2>2. CASE ~(x <= n)
    BY <1>2, <1>5, <2>2
  <2> QED
    BY <2>1, <2>2
<1> QED
  BY <1>1, <1>5, <1>6

\* The elements of one list behind another.
LEMMA Joined ==
  ASSUME NEW T, NEW a \in Seq(T), NEW b \in Seq(T)
  PROVE  /\ a \o b \in Seq(T) /\ Len(a \o b) = Len(a) + Len(b) /\ Len(a) \in Nat /\ Len(b) \in Nat
         /\ \A i \in 1 .. Len(a) : (a \o b)[i] = a[i]
         /\ \A i \in 1 .. Len(b) : (a \o b)[Len(a) + i] = b[i]
<1>1. PICK m, n : m = Len(a) /\ n = Len(b)
  OBVIOUS
<1>2. m \in Nat /\ n \in Nat
  BY <1>1
<1>3. /\ a \o b \in Seq(T) /\ Len(a \o b) = m + n
      /\ \A i \in 1 .. m + n : (a \o b)[i] = IF i <= m THEN a[i] ELSE b[i - m]
  BY <1>1, ConcatProperties
<1>4. \A i \in 1 .. m : (a \o b)[i] = a[i]
  BY <1>2, <1>3
<1>5. ASSUME NEW i \in 1 .. n PROVE (a \o b)[m + i] = b[i]
  <2>1. m + i \in 1 .. m + n /\ ~(m + i <= m) /\ (m + i) - m = i
    BY <1>2
  <2> QED
    BY <1>3, <2>1
<1> QED
  BY <1>1, <1>2, <1>3, <1>4, <1>5

LEMMA JoinedTwice ==
  ASSUME NEW T, NEW a \in Seq(T), NEW b \in Seq(T), NEW c \in Seq(T)
  PROVE  (a \o b) \o c = a \o (b \o c)
  BY ConcatAssociative

LEMMA AppendFacts ==
  ASSUME NEW T, NEW a \in Seq(T), NEW x \in T
  PROVE  /\ Append(a, x) \in Seq(T) /\ Append(a, x) # <<>> /\ Append(a, x) = a \o <<x>>
         /\ Front(Append(a, x)) = a
<1>1. PICK b, n : b = Append(a, x) /\ n = Len(a)
  OBVIOUS
<1>2. n \in Nat /\ b \in Seq(T) /\ Len(b) = n + 1 /\ b # <<>> /\ \A i \in 1 .. n : b[i] = a[i]
  BY <1>1
<1>3. b = a \o <<x>>
  BY <1>1, AppendIsConcat
<1>4. SubSeq(b, 1, n) = a
  BY <1>1, <1>2
<1>5. Front(b) = a
  BY <1>2, <1>4 DEF Front
<1> QED
  BY <1>1, <1>2, <1>3, <1>5

LEMMA BeginningFacts ==
  ASSUME NEW T, NEW s \in Seq(T), NEW n \in 0 .. Len(s)
  PROVE  /\ SubSeq(s, 1, n) \in Seq(T) /\ Len(SubSeq(s, 1, n)) = n
         /\ \A i \in 1 .. n : SubSeq(s, 1, n)[i] = s[i]
<1>1. PICK m : m = Len(s)
  OBVIOUS
<1>2. m \in Nat /\ n \in Nat /\ n <= m
  BY <1>1
<1> QED
  BY <1>1, <1>2
===============================================================================
