---------------------------- MODULE CommandProofs ----------------------------
(***************************************************************************)
(* What the commands of the binary print, for every value of the           *)
(* constants: the split of a document into chunks and what their digests   *)
(* become, and the table of a sweep.                                       *)
(***************************************************************************)
EXTENDS Libraries, Induction, FiniteSetTheorems, SequenceTheorems, TLAPS

---------------------------------------------------------------------------
(* Sorting.                                                                  *)

\* The places whose values come in front of the i-th.
AheadOf(key, i) == {j \in DOMAIN key : key[j] < key[i] \/ (key[j] = key[i] /\ j < i)}

\* A list of numbers.
Keyed(key, n) == n \in Nat /\ key \in [1 .. n -> Int]

\* How many are in front of a place tells it from every other.
LEMMA AheadFacts ==
  ASSUME NEW key, NEW n, Keyed(key, n)
  PROVE  /\ \A i \in 1 .. n : Cardinality(AheadOf(key, i)) + 1 \in 1 .. n
         /\ \A i, k \in 1 .. n :
              Cardinality(AheadOf(key, i)) < Cardinality(AheadOf(key, k)) <=> i \in AheadOf(key, k)
         /\ \A i, k \in 1 .. n : Cardinality(AheadOf(key, i)) = Cardinality(AheadOf(key, k)) => i = k
<1>0. n \in Nat /\ DOMAIN key = 1 .. n /\ \A i \in 1 .. n : key[i] \in Int /\ i \in Int
  BY DEF Keyed
<1>1. IsFiniteSet(1 .. n) /\ Cardinality(1 .. n) = n
  <2>1. 1 \in Int /\ n \in Int
    BY <1>0
  <2>2. IsFiniteSet(1 .. n) /\ Cardinality(1 .. n) = IF 1 > n THEN 0 ELSE n - 1 + 1
    BY ONLY <2>1, FS_Interval
  <2> QED
    BY <1>0, <2>2
<1>2. \A i \in 1 .. n : AheadOf(key, i) \subseteq 1 .. n /\ i \notin AheadOf(key, i)
  BY <1>0 DEF AheadOf
<1>3. ASSUME NEW i \in 1 .. n
      PROVE  /\ IsFiniteSet(AheadOf(key, i)) /\ Cardinality(AheadOf(key, i)) \in Nat
             /\ Cardinality(AheadOf(key, i)) < n
  <2>1. PICK A, S : A = AheadOf(key, i) /\ S = 1 .. n
    OBVIOUS
  <2>2. A \subseteq S /\ A # S /\ IsFiniteSet(S) /\ Cardinality(S) = n
    BY <1>1, <1>2, <2>1
  <2>3. IsFiniteSet(A) /\ Cardinality(A) <= Cardinality(S) /\ (Cardinality(A) = Cardinality(S) => A = S)
    BY ONLY <2>2, FS_Subset
  <2>4. Cardinality(A) \in Nat
    BY <2>3, FS_CardinalityType
  <2> QED
    BY <1>0, <2>1, <2>2, <2>3, <2>4
<1>4. ASSUME NEW i \in 1 .. n, NEW k \in 1 .. n, i \in AheadOf(key, k)
      PROVE  Cardinality(AheadOf(key, i)) < Cardinality(AheadOf(key, k))
  <2>1. PICK A, B : A = AheadOf(key, i) /\ B = AheadOf(key, k)
    OBVIOUS
  <2>2. A \subseteq B
    BY <1>0, <1>4, <2>1 DEF AheadOf
  <2>3. A # B /\ IsFiniteSet(B)
    BY <1>2, <1>3, <1>4, <2>1
  <2>4. Cardinality(A) <= Cardinality(B) /\ (Cardinality(A) = Cardinality(B) => A = B)
    BY ONLY <2>2, <2>3, FS_Subset
  <2>5. Cardinality(A) \in Nat /\ Cardinality(B) \in Nat
    BY <1>3, <2>1
  <2> QED
    BY <2>1, <2>3, <2>4, <2>5
<1>5. \A i, k \in 1 .. n : i = k \/ i \in AheadOf(key, k) \/ k \in AheadOf(key, i)
  BY <1>0 DEF AheadOf
<1>6. \A i \in 1 .. n : Cardinality(AheadOf(key, i)) \in Nat /\ Cardinality(AheadOf(key, i)) < n
  BY <1>3
<1>7. \A i \in 1 .. n : Cardinality(AheadOf(key, i)) + 1 \in 1 .. n
  BY <1>0, <1>6
<1>8. ASSUME NEW i \in 1 .. n, NEW k \in 1 .. n, Cardinality(AheadOf(key, i)) = Cardinality(AheadOf(key, k))
      PROVE  i = k
  <2>1. ~(i \in AheadOf(key, k)) /\ ~(k \in AheadOf(key, i))
    BY <1>4, <1>6, <1>8
  <2> QED
    BY <1>5, <2>1
<1>9. ASSUME NEW i \in 1 .. n, NEW k \in 1 .. n, Cardinality(AheadOf(key, i)) < Cardinality(AheadOf(key, k))
      PROVE  i \in AheadOf(key, k)
  <2>1. ~(k \in AheadOf(key, i)) /\ i # k
    BY <1>4, <1>6, <1>9
  <2> QED
    BY <1>5, <2>1
<1> QED
  BY <1>4, <1>7, <1>8, <1>9

\* InOrder takes every place once, and no later one for a lesser value.
LEMMA InOrderFacts ==
  ASSUME NEW key, NEW n, Keyed(key, n)
  PROVE  /\ InOrder(key) \in [1 .. n -> 1 .. n]
         /\ \A i \in 1 .. n : \E r \in 1 .. n : InOrder(key)[r] = i
         /\ \A r, t \in 1 .. n : InOrder(key)[r] = InOrder(key)[t] => r = t
         /\ \A r, t \in 1 .. n : r < t => key[InOrder(key)[r]] <= key[InOrder(key)[t]]
<1> DEFINE rank == [i \in 1 .. n |-> Cardinality(AheadOf(key, i)) + 1]
           P == [r \in 1 .. n |-> CHOOSE i \in 1 .. n : Cardinality(AheadOf(key, i)) = r - 1]
<1>0. n \in Nat /\ DOMAIN key = 1 .. n /\ \A i \in 1 .. n : key[i] \in Int
  BY DEF Keyed
<1>1. InOrder(key) = P
  BY <1>0 DEF InOrder, AheadOf
<1>2. \A i \in 1 .. n : Cardinality(AheadOf(key, i)) + 1 \in 1 .. n
  BY AheadFacts
<1>3. \A i, k \in 1 .. n : Cardinality(AheadOf(key, i)) = Cardinality(AheadOf(key, k)) => i = k
  BY AheadFacts
<1>4. \A i \in 1 .. n : Cardinality(AheadOf(key, i)) \in Int
  <2>1. ASSUME NEW i \in 1 .. n PROVE Cardinality(AheadOf(key, i)) \in Nat
    <3>1. IsFiniteSet(1 .. n)
      BY <1>0, FS_Interval
    <3>2. AheadOf(key, i) \subseteq 1 .. n
      BY <1>0 DEF AheadOf
    <3> QED
      BY <3>1, <3>2, FS_Subset, FS_CardinalityType
  <2> QED
    BY <2>1
<1>5. rank \in Injection(1 .. n, 1 .. n)
  <2>1. rank \in [1 .. n -> 1 .. n]
    BY <1>2
  <2>2. \A i, k \in 1 .. n : rank[i] = rank[k] => i = k
    BY <1>3, <1>4
  <2> HIDE DEF rank
  <2> QED
    BY <2>1, <2>2 DEF Injection, IsInjective
<1>6. rank \in Surjection(1 .. n, 1 .. n)
  <2>1. PICK S, f : S = 1 .. n /\ f = rank
    OBVIOUS
  <2>2. IsFiniteSet(S) /\ f \in Injection(S, S)
    BY <1>0, <1>5, <2>1, FS_Interval
  <2>3. Cardinality(S) = Cardinality(S) <=> f \in Surjection(S, S)
    BY ONLY <2>2, FS_Injection
  <2> QED
    BY <2>1, <2>3
<1>7. ASSUME NEW r \in 1 .. n PROVE P[r] \in 1 .. n /\ Cardinality(AheadOf(key, P[r])) = r - 1
  <2>1. PICK i \in 1 .. n : rank[i] = r
    <3> HIDE DEF rank
    <3> QED
      BY <1>6 DEF Surjection
  <2>2. Cardinality(AheadOf(key, i)) = r - 1
    BY <1>4, <2>1
  <2>3. P[r] = CHOOSE j \in 1 .. n : Cardinality(AheadOf(key, j)) = r - 1
    OBVIOUS
  <2> HIDE DEF P
  <2> QED
    BY <2>2, <2>3
<1>8. P \in [1 .. n -> 1 .. n]
  <2>1. P = [r \in 1 .. n |-> P[r]]
    OBVIOUS
  <2> HIDE DEF P
  <2> QED
    BY <1>7, <2>1
<1> HIDE DEF P
<1>9. ASSUME NEW i \in 1 .. n PROVE \E r \in 1 .. n : P[r] = i
  <2>1. PICK r : r = Cardinality(AheadOf(key, i)) + 1
    OBVIOUS
  <2>2. r \in 1 .. n /\ r - 1 = Cardinality(AheadOf(key, i))
    BY <1>2, <1>4, <2>1
  <2>3. P[r] = i
    BY <1>3, <1>7, <2>2
  <2> QED
    BY <2>2, <2>3
<1>10. ASSUME NEW r \in 1 .. n, NEW t \in 1 .. n, P[r] = P[t] PROVE r = t
  <2>1. r - 1 = t - 1
    BY <1>7, <1>10
  <2> QED
    BY <2>1
<1>11. ASSUME NEW r \in 1 .. n, NEW t \in 1 .. n, r < t PROVE key[P[r]] <= key[P[t]]
  <2>1. PICK i, k : i = P[r] /\ k = P[t]
    OBVIOUS
  <2>2. i \in 1 .. n /\ k \in 1 .. n /\ Cardinality(AheadOf(key, i)) < Cardinality(AheadOf(key, k))
    BY <1>7, <1>11, <2>1
  <2>3. i \in AheadOf(key, k)
    BY <2>2, AheadFacts
  <2>4. key[i] \in Int /\ key[k] \in Int
    BY <1>0, <2>2
  <2> QED
    BY <2>1, <2>3, <2>4 DEF AheadOf
<1> QED
  BY <1>1, <1>8, <1>9, <1>10, <1>11

\* A sorted list is one of the same length.
LEMMA AscendingFacts ==
  ASSUME NEW list \in Seq(Nat)
  PROVE  Ascending(list) \in Seq(Nat) /\ Len(Ascending(list)) = Len(list)
<1>1. PICK n : n = Len(list)
  OBVIOUS
<1>2. n \in Nat /\ DOMAIN list = 1 .. n /\ \A i \in 1 .. n : list[i] \in Nat
  BY <1>1
<1>3. list \in [1 .. n -> Int]
  BY <1>2
<1>4. InOrder(list) \in [1 .. n -> 1 .. n]
  BY <1>2, <1>3, InOrderFacts DEF Keyed
<1>5. PICK a : a = Ascending(list)
  OBVIOUS
<1>6. a = [r \in 1 .. n |-> list[InOrder(list)[r]]]
  BY <1>2, <1>5 DEF Ascending
<1>7. a \in [1 .. n -> Nat]
  BY <1>2, <1>4, <1>6
<1>8. a \in Seq(Nat) /\ Len(a) = n
  BY <1>2, <1>7
<1> QED
  BY <1>1, <1>5, <1>8

---------------------------------------------------------------------------
(* What is gathered of a field.                                              *)

\* The elements of a set up to x.
Upto(w, x) == {e \in w : e.chunk <= x.chunk}

\* Digests told apart by their chunk.
Apart(w) == /\ IsFiniteSet(w) /\ \A x \in w : x.chunk \in Int
            /\ \A x, y \in w : x.chunk = y.chunk => x = y

\* Of digests told apart by their chunk no two have the same place among the rest.
LEMMA Placed ==
  ASSUME NEW w, Apart(w), NEW x \in w
  PROVE  /\ Cardinality(Upto(w, x)) \in 1 .. Cardinality(w)
         /\ \A y \in w : Cardinality(Upto(w, y)) = Cardinality(Upto(w, x)) => y = x
<1>1. IsFiniteSet(w)
  BY DEF Apart
<1>2. ASSUME NEW y \in w
      PROVE  /\ Upto(w, y) \subseteq w /\ y \in Upto(w, y) /\ IsFiniteSet(Upto(w, y))
             /\ Cardinality(Upto(w, y)) \in Nat /\ Cardinality(Upto(w, y)) <= Cardinality(w)
             /\ Cardinality(Upto(w, y)) # 0
  <2>1. Upto(w, y) \subseteq w /\ y \in Upto(w, y)
    BY DEF Upto, Apart
  <2>2. IsFiniteSet(Upto(w, y)) /\ Cardinality(Upto(w, y)) <= Cardinality(w)
    BY <1>1, <2>1, FS_Subset
  <2>3. Cardinality(Upto(w, y)) \in Nat /\ Cardinality(Upto(w, y)) # 0
    BY <2>1, <2>2, FS_CardinalityType, FS_EmptySet
  <2> QED
    BY <2>1, <2>2, <2>3
<1>3. Cardinality(w) \in Nat
  BY <1>1, FS_CardinalityType
<1>4. Cardinality(Upto(w, x)) \in 1 .. Cardinality(w)
  <2>1. PICK c, n : c = Cardinality(Upto(w, x)) /\ n = Cardinality(w)
    OBVIOUS
  <2>2. c \in Nat /\ n \in Nat /\ c <= n /\ c # 0
    BY <1>2, <1>3, <2>1
  <2> QED
    BY <2>1, <2>2
<1>5. ASSUME NEW a \in w, NEW b \in w, Cardinality(Upto(w, a)) = Cardinality(Upto(w, b)), a.chunk <= b.chunk
      PROVE  a = b
  <2>1. Upto(w, a) \subseteq Upto(w, b)
    BY <1>5 DEF Upto, Apart
  <2>2. Upto(w, a) = Upto(w, b)
    BY <1>2, <1>5, <2>1, FS_Subset
  <2>3. b.chunk <= a.chunk
    BY <1>2, <2>2 DEF Upto
  <2> QED
    BY <1>5, <2>3 DEF Apart
<1>6. ASSUME NEW y \in w, Cardinality(Upto(w, y)) = Cardinality(Upto(w, x)) PROVE y = x
  <2>1. y.chunk <= x.chunk \/ x.chunk <= y.chunk
    BY DEF Apart
  <2> QED
    BY <1>5, <1>6, <2>1
<1> QED
  BY <1>4, <1>6

Having(ds, k) == {d \in ds : k \in DOMAIN d.data}

\* Every digest that has the field is among what is gathered of it.
LEMMA GatheredAll ==
  ASSUME NEW ds, NEW k, Apart(Having(ds, k))
  PROVE  /\ Cardinality(Having(ds, k)) \in Nat
         /\ DOMAIN Gathered(ds, k) = 1 .. Cardinality(Having(ds, k))
         /\ \A d \in Having(ds, k) : \E i \in DOMAIN Gathered(ds, k) : Gathered(ds, k)[i].v = d.data[k]
<1> DEFINE w == Having(ds, k)
           n == Cardinality(w)
           G == [i \in 1 .. n |-> LET d == CHOOSE e \in w : Cardinality(Upto(w, e)) = i
                                  IN [chunk |-> d.chunk, v |-> d.data[k]]]
<1>1. Gathered(ds, k) = G
  BY DEF Gathered, Having, Upto
<1>2. IsFiniteSet(w) /\ n \in Nat
  <2>1. IsFiniteSet(w)
    BY DEF Apart
  <2> QED
    BY <2>1, FS_CardinalityType
<1>0. Apart(w)
  OBVIOUS
<1>3. ASSUME NEW d \in w PROVE \E i \in 1 .. n : G[i].v = d.data[k]
  <2>1. PICK i : i = Cardinality(Upto(w, d))
    OBVIOUS
  <2>2. i \in 1 .. n /\ \A y \in w : Cardinality(Upto(w, y)) = i => y = d
    <3> HIDE DEF w
    <3>1. Cardinality(Upto(w, d)) \in 1 .. Cardinality(w) /\ \A y \in w : Cardinality(Upto(w, y)) = Cardinality(Upto(w, d)) => y = d
      BY ONLY <1>0, d \in w, Placed
    <3> QED
      BY <2>1, <3>1
  <2>3. (CHOOSE e \in w : Cardinality(Upto(w, e)) = i) = d
    <3> HIDE DEF w
    <3> QED
      BY <2>1, <2>2
  <2>4. G[i].v = d.data[k]
    <3> HIDE DEF w, n
    <3> QED
      BY <2>2, <2>3
  <2> QED
    BY <2>2, <2>4
<1> QED
  <2> HIDE DEF w, n, G
  <2>1. DOMAIN G = 1 .. n
    BY DEF G
  <2>2. \A d \in w : \E i \in DOMAIN G : G[i].v = d.data[k]
    BY <1>3, <2>1
  <2> QED
    BY <1>1, <1>2, <2>1, <2>2 DEF w, n


\* Where a value prints as none before it does.
Firsts(print, n) == {j \in 1 .. n : \A m \in 1 .. j - 1 : print[m] # print[j]}

\* What prints as the i-th value does first.
LEMMA FirstOf ==
  ASSUME NEW print, NEW n \in Nat, NEW i \in 1 .. n
  PROVE  \E j \in Firsts(print, n) : print[j] = print[i]
<1> DEFINE alike == {m \in 1 .. n : print[m] = print[i]}
<1>1. alike \in SUBSET Nat /\ alike # {}
  OBVIOUS
<1>2. PICK j \in alike : \A m \in alike : j <= m
  <2> HIDE DEF alike
  <2> QED
    BY <1>1, SmallestNumber
<1>3. j \in 1 .. n /\ print[j] = print[i] /\ \A m \in 1 .. j - 1 : m \in 1 .. n /\ m < j
  OBVIOUS
<1>4. \A m \in 1 .. j - 1 : print[m] # print[j]
  BY <1>2, <1>3
<1> QED
  BY <1>3, <1>4 DEF Firsts

\* Values of which two print differently are told apart as more than one.
LEMMA ToldApart ==
  ASSUME NEW print, NEW vals, NEW n \in Nat, DOMAIN vals = 1 .. n,
         NEW a \in 1 .. n, NEW b \in 1 .. n, print[a] # print[b]
  PROVE  Len(DistinctBy(print, vals)) > 1
<1> DEFINE S == Firsts(print, n)
           first(i) == \A j \in 1 .. i - 1 : print[j] # print[i]
           D == [i \in 1 .. Cardinality(S) |->
                   vals[CHOOSE j \in DOMAIN vals : first(j) /\ Cardinality({k \in 1 .. j : first(k)}) = i]]
<1>1. DistinctBy(print, vals) = D
  BY DEF DistinctBy, Firsts
<1>2. PICK x \in S, y \in S : print[x] = print[a] /\ print[y] = print[b]
  BY FirstOf
<1>3. IsFiniteSet(S)
  <2>1. S \subseteq 1 .. n /\ 1 \in Int /\ n \in Int
    BY DEF Firsts
  <2>2. IsFiniteSet(1 .. n)
    BY ONLY <2>1, FS_Interval
  <2> HIDE DEF S
  <2> QED
    BY <2>1, <2>2, FS_Subset
<1>4. Cardinality(S) \in Nat /\ Cardinality(S) > 1
  <2> HIDE DEF S
  <2>1. Cardinality(S) \in Nat
    BY <1>3, FS_CardinalityType
  <2>2. {x, y} \in SUBSET S /\ x # y
    BY <1>2
  <2>3. Cardinality({x, y}) <= Cardinality(S)
    BY <1>3, <2>2, FS_Subset
  <2>4. Cardinality({x, y}) = 2
    <3>1. IsFiniteSet({x}) /\ Cardinality({x}) = 1
      BY FS_Singleton
    <3>2. Cardinality({x} \cup {y}) = IF y \in {x} THEN Cardinality({x}) ELSE Cardinality({x}) + 1
      BY <3>1, FS_AddElement
    <3>3. {x} \cup {y} = {x, y}
      OBVIOUS
    <3> QED
      BY <2>2, <3>1, <3>2, <3>3
  <2> QED
    BY <2>1, <2>3, <2>4
<1>5. Len(D) = Cardinality(S)
  <2> HIDE DEF S, first
  <2>1. DOMAIN D = 1 .. Cardinality(S)
    OBVIOUS
  <2> HIDE DEF D
  <2> QED
    BY <1>4, <2>1, LenProperties
<1> QED
  <2> HIDE DEF D
  <2> QED
    BY <1>1, <1>4, <1>5

---------------------------------------------------------------------------
(* What is merged.                                                           *)

\* The digests of a command: told apart by their chunk.
Answered(ds, n) == /\ n \in Nat /\ DOMAIN result = 1 .. n
                   /\ ds = {Digest(i) : i \in 1 .. n}

\* There is one for each, and those with a field are told apart.
LEMMA AnsweredFacts ==
  ASSUME NEW ds, NEW n, Answered(ds, n)
  PROVE  Cardinality(ds) = n /\ \A k : Apart(Having(ds, k))
<1>1. n \in Nat /\ ds = {Digest(i) : i \in 1 .. n}
  BY DEF Answered
<1>2. \A i \in 1 .. n : Digest(i).chunk = i - 1
  BY DEF Digest
<1> DEFINE g == [i \in 1 .. n |-> Digest(i)]
<1>3. g \in Bijection(1 .. n, ds)
  <2>1. g \in [1 .. n -> ds] /\ \A d \in ds : \E i \in 1 .. n : g[i] = d
    BY <1>1
  <2>2. \A i, j \in 1 .. n : g[i] = g[j] => i = j
    <3> SUFFICES ASSUME NEW i \in 1 .. n, NEW j \in 1 .. n, g[i] = g[j] PROVE i = j
      OBVIOUS
    <3>1. Digest(i) = Digest(j)
      OBVIOUS
    <3>2. i - 1 = j - 1
      BY <1>2, <3>1
    <3> QED
      BY <3>2
  <2> HIDE DEF g
  <2> QED
    BY <2>1, <2>2 DEF Bijection, Injection, Surjection, IsInjective
<1>4. IsFiniteSet(ds) /\ Cardinality(ds) = n
  <2>1. IsFiniteSet(1 .. n) /\ Cardinality(1 .. n) = n
    <3>1. 1 \in Int /\ n \in Int
      BY <1>1
    <3>2. IsFiniteSet(1 .. n) /\ Cardinality(1 .. n) = IF 1 > n THEN 0 ELSE n - 1 + 1
      BY ONLY <3>1, FS_Interval
    <3> QED
      BY <1>1, <3>2
  <2>2. ExistsBijection(1 .. n, ds)
    BY <1>3 DEF ExistsBijection
  <2> QED
    BY <2>1, <2>2, FS_Bijection
<1>5. ASSUME NEW k PROVE Apart(Having(ds, k))
  <2>1. Having(ds, k) \subseteq ds
    BY DEF Having
  <2>2. IsFiniteSet(Having(ds, k))
    BY <1>4, <2>1, FS_Subset
  <2>3. \A x \in ds : x.chunk \in Int
    BY <1>1, <1>2
  <2>4. ASSUME NEW x \in ds, NEW y \in ds, x.chunk = y.chunk PROVE x = y
    <3>1. PICK i \in 1 .. n : x = Digest(i)
      BY <1>1
    <3>2. PICK j \in 1 .. n : y = Digest(j)
      BY <1>1
    <3>3. i - 1 = j - 1
      BY <1>2, <2>4, <3>1, <3>2
    <3> QED
      BY <3>1, <3>2, <3>3
  <2> QED
    BY <2>1, <2>2, <2>3, <2>4 DEF Apart
<1> QED
  BY <1>4, <1>5

\* What Merge says of them: every value has its chunk for a source, and two values of
\* a field without a rule that print differently are a conflict.
LEMMA MergeFacts ==
  ASSUME NEW ds, NEW n, Answered(ds, n), NEW rl
  PROVE  /\ Merge(ds, rl).chunks = n
         /\ \A i \in 1 .. n : \A k \in DOMAIN Digest(i).data :
              /\ i - 1 \in Merge(ds, rl).sources[k]
              /\ \A j \in 1 .. n :
                   /\ k \in DOMAIN Digest(j).data /\ k \notin DOMAIN rl
                   /\ Printed(Digest(i).data[k]) # Printed(Digest(j).data[k])
                   => k \in DOMAIN Merge(ds, rl).conflicts
<1> DEFINE keys == UNION {DOMAIN d.data : d \in ds}
           src == [k \in keys |-> {d.chunk : d \in {e \in ds : k \in DOMAIN e.data}}]
           rule(k) == IF k \in DOMAIN rl THEN rl[k] ELSE "collect"
           differ(k) == rule(k) = "collect" /\ Len(distinctValues(Gathered(ds, k))) > 1
           conf == [k \in {j \in keys : differ(j)} |-> distinctValues(Gathered(ds, k))]
<1>1. Merge(ds, rl).chunks = Cardinality(ds) /\ Merge(ds, rl).sources = src /\ Merge(ds, rl).conflicts = conf
  BY DEF Merge
<1>2. n \in Nat /\ ds = {Digest(i) : i \in 1 .. n}
  BY DEF Answered
<1>3. \A i \in 1 .. n : Digest(i) \in ds /\ Digest(i).chunk = i - 1
  BY <1>2 DEF Digest
<1>4. ASSUME NEW i \in 1 .. n, NEW k \in DOMAIN Digest(i).data
      PROVE  i - 1 \in src[k]
  <2>1. PICK d : d = Digest(i)
    OBVIOUS
  <2>2. d \in ds /\ d.chunk = i - 1 /\ k \in DOMAIN d.data
    BY <1>3, <2>1
  <2>3. k \in keys
    BY <2>2
  <2> QED
    BY <2>2, <2>3
<1>5. ASSUME NEW i \in 1 .. n, NEW j \in 1 .. n, NEW k \in DOMAIN Digest(i).data,
             k \in DOMAIN Digest(j).data, k \notin DOMAIN rl,
             Printed(Digest(i).data[k]) # Printed(Digest(j).data[k])
      PROVE  k \in DOMAIN conf
  <2>1. PICK d, e : d = Digest(i) /\ e = Digest(j)
    OBVIOUS
  <2>2. d \in Having(ds, k) /\ e \in Having(ds, k) /\ Printed(d.data[k]) # Printed(e.data[k])
    BY <1>3, <1>5, <2>1 DEF Having
  <2>3. Apart(Having(ds, k))
    BY AnsweredFacts
  <2>4. PICK vals : vals = Gathered(ds, k)
    OBVIOUS
  <2>5. PICK c \in Nat : DOMAIN vals = 1 .. c
    BY <2>3, <2>4, GatheredAll
  <2>6. PICK a \in 1 .. c, b \in 1 .. c : vals[a].v = d.data[k] /\ vals[b].v = e.data[k]
    BY <2>2, <2>3, <2>4, <2>5, GatheredAll
  <2>7. PICK print : print = [x \in DOMAIN vals |-> Printed(vals[x].v)]
    OBVIOUS
  <2>8. print[a] # print[b]
    BY <2>2, <2>5, <2>6, <2>7
  <2>9. Len(DistinctBy(print, vals)) > 1
    BY ONLY <2>5, <2>6, <2>8, ToldApart
  <2>10. Len(distinctValues(Gathered(ds, k))) > 1
    BY <2>4, <2>7, <2>9 DEF distinctValues
  <2>11. k \in keys
    BY <2>2 DEF Having
  <2>12. rule(k) = "collect"
    BY <1>5
  <2>13. differ(k)
    BY <2>10, <2>12
  <2> HIDE DEF keys, differ
  <2> QED
    BY <2>11, <2>13
<1> HIDE DEF src, conf
<1> QED
  BY <1>1, <1>4, <1>5, AnsweredFacts

---------------------------------------------------------------------------
(* Tokens and cuts.                                                          *)

\* A division that rounds up.
LEMMA Ceiling ==
  ASSUME NEW a \in Int, NEW s \in Nat \ {0}, NEW t \in Int
  PROVE  /\ (a + s - 1) \div s \in Int
         /\ (a + s - 1) \div s <= t <=> a <= s * t
<1>1. PICK q : q = (a + s - 1) \div s
  OBVIOUS
<1>2. q \in Int
  BY <1>1
<1>3. t + 1 <= q <=> s * (t + 1) <= a + s - 1
  <2>1. a + s - 1 \in Int /\ t + 1 \in Int
    OBVIOUS
  <2> QED
    BY ONLY <1>1, <2>1, s \in Nat \ {0}, FloorBound
<1>4. s * (t + 1) = s * t + s /\ s * t \in Int
  OBVIOUS
<1>5. s * (t + 1) <= a + s - 1 <=> s * t < a
  BY <1>4
<1> QED
  BY <1>1, <1>2, <1>3, <1>4, <1>5

\* A text is of at most t tokens when it is of at most so many characters.
LEMMA TokensBound ==
  ASSUME NEW n \in Int, NEW t \in Int
  PROVE  Tokens(n) \in Int /\ (Tokens(n) <= t <=> n <= CharsPerToken * t) /\ CharsPerToken * t \in Int
<1>1. CharsPerToken \in Nat \ {0}
  BY VcontextAssumption
<1> QED
  BY <1>1, Ceiling DEF Tokens

LEMMA TokensFacts ==
  ASSUME NEW n \in Nat
  PROVE  Tokens(n) \in Nat /\ Tokens(0) = 0 /\ \A m \in 0 .. n : Tokens(m) \in Nat /\ Tokens(m) <= Tokens(n)
<1>0. PICK c : c = CharsPerToken
  OBVIOUS
<1>1. c \in Nat \ {0}
  BY <1>0, VcontextAssumption
<1>2. \A m \in Int, t \in Int : Tokens(m) \in Int /\ (Tokens(m) <= t <=> m <= c * t) /\ c * t \in Int
  BY <1>0, TokensBound
<1>3. c * 0 = 0 /\ c * (-1) = -c
  BY <1>1
<1>4. \A m \in Nat : Tokens(m) \in Nat
  <2> SUFFICES ASSUME NEW m \in Nat PROVE Tokens(m) \in Nat
    OBVIOUS
  <2>1. ~(Tokens(m) <= -1)
    BY <1>1, <1>2, <1>3
  <2> QED
    BY <1>2, <2>1
<1>5. Tokens(0) <= 0
  BY <1>2, <1>3
<1>6. ASSUME NEW m \in 0 .. n PROVE Tokens(m) <= Tokens(n)
  <2>1. PICK t : t = Tokens(n)
    OBVIOUS
  <2>2. t \in Int /\ m \in Int /\ n \in Int /\ m <= n
    BY <1>2, <2>1
  <2>3. n <= c * t /\ c * t \in Int
    BY <1>2, <2>1, <2>2
  <2>4. m <= c * t
    BY <2>2, <2>3
  <2> QED
    BY <1>2, <2>1, <2>2, <2>4
<1>7. Tokens(0) = 0 /\ \A m \in 0 .. n : Tokens(m) \in Nat
  BY <1>4, <1>5
<1> QED
  BY <1>4, <1>6, <1>7

\* Where blanks end.
LEMMA SkipAllFacts ==
  ASSUME NEW V, NEW s \in Seq(V), NEW i \in 0 .. Len(s), NEW set
  PROVE  /\ SkipAll(s, i, set) \in i .. Len(s)
         /\ \A j \in i .. SkipAll(s, i, set) - 1 : s[j + 1] \in set
<1> DEFINE S == {j \in i .. Len(s) : j = Len(s) \/ s[j + 1] \notin set}
<1>1. S \in SUBSET Nat /\ S # {}
  <2>1. Len(s) \in S
    OBVIOUS
  <2> QED
    BY <2>1
<1>2. PICK m : m = Min(S)
  OBVIOUS
<1>3. m \in S /\ \A y \in S : m <= y
  <2> HIDE DEF S
  <2> QED
    BY <1>1, <1>2, MinOfSome
<1>4. m \in i .. Len(s)
  BY <1>3
<1>5. ASSUME NEW j \in i .. m - 1 PROVE s[j + 1] \in set
  <2>1. j \in i .. Len(s) /\ j # Len(s) /\ ~(m <= j)
    BY <1>4
  <2>2. j \notin S
    BY <1>3, <2>1
  <2> QED
    BY <2>1, <2>2
<1> QED
  BY <1>2, <1>4, <1>5 DEF SkipAll

\* How much of a text of this length is within the target.
WithinTarget(n, most) == {i \in 0 .. n : Tokens(i) <= most}

LEMMA WithinFacts ==
  ASSUME NEW n \in Nat, NEW most \in Nat, ~(Tokens(n) <= most)
  PROVE  /\ Max(WithinTarget(n, most)) \in 0 .. n - 1
         /\ Tokens(Max(WithinTarget(n, most))) <= most
         /\ Tokens(Max(WithinTarget(n, most)) + 1) > most
<1>1. WithinTarget(n, most) \in SUBSET (0 .. n) /\ WithinTarget(n, most) # {}
  <2>1. 0 \in WithinTarget(n, most)
    BY TokensFacts DEF WithinTarget
  <2> QED
    BY <2>1 DEF WithinTarget
<1>2. PICK m : m = Max(WithinTarget(n, most))
  OBVIOUS
<1>3. m \in WithinTarget(n, most) /\ \A x \in WithinTarget(n, most) : x <= m
  BY <1>1, <1>2, MaxOfSome
<1>4. m \in 0 .. n /\ Tokens(m) <= most
  BY <1>3 DEF WithinTarget
<1>5. m # n
  BY <1>4
<1>6. m + 1 \in 0 .. n /\ ~(m + 1 <= m)
  BY <1>4, <1>5
<1>7. ~(Tokens(m + 1) <= most)
  BY <1>3, <1>6 DEF WithinTarget
<1>8. Tokens(m + 1) \in Nat
  BY <1>6, TokensFacts
<1> QED
  BY <1>2, <1>4, <1>5, <1>7, <1>8

\* What cutAt may return: something is cut off, and only blanks are between it and
\* the rest.
GoodCut(s, c) ==
  /\ c.at \in 1 .. Len(s) /\ c.next \in c.at .. Len(s)
  /\ \A j \in c.at .. c.next - 1 : s[j + 1] \in Blank
  /\ c.q \in ToSet(Cuts)

\* It is as long as the target says, or ends in the last fifth of what is within the
\* target, when that is more than a few characters.
CutDepth(s, c, most) ==
  LET lo == Max(WithinTarget(Len(s), most)) IN
  IF Tokens(Len(s)) <= most THEN c.at = Len(s)
  ELSE lo = 0 \/ (c.at <= lo /\ (lo \div 5 = 0 \/ c.at >= lo - lo \div 5))

LEMMA CutNames ==
  "end" \in ToSet(Cuts) /\ "hard" \in ToSet(Cuts) /\ \A i \in DOMAIN Ladder : Ladder[i] \in ToSet(Cuts)
<1>1. \A i \in 1 .. 6 : Cuts[i] \in ToSet(Cuts)
  BY DEF Cuts, ToSet
<1>2. Cuts[1] = "end" /\ Cuts[6] = "hard"
  BY DEF Cuts
<1>3. \A i \in DOMAIN Ladder : i + 1 \in 1 .. 6 /\ Ladder[i] = Cuts[i + 1]
  BY DEF Ladder, Cuts
<1> QED
  BY <1>1, <1>2, <1>3

LEMMA CutFacts ==
  ASSUME NEW V, NEW s \in Seq(V), s # <<>>, NEW most \in Nat, NEW bounds \in SUBSET Int
  PROVE  GoodCut(s, CutAt(s, most, bounds)) /\ CutDepth(s, CutAt(s, most, bounds), most)
<1> DEFINE n == Len(s)
           lo == Max({i \in 0 .. Len(s) : Tokens(i) <= most})
           fifth == lo \div 5
           from == IF fifth = 0 THEN 0 ELSE lo - fifth
           near(q) == IF q = "declaration" THEN {b \in bounds : b > 0 /\ b <= lo /\ b >= lo - fifth}
                      ELSE Marks(s, from, lo, q)
           found == {i \in DOMAIN Ladder : near(Ladder[i]) # {}}
           preferred == Ladder[Min(found)]
           trim == IF preferred \in {"declaration", "paragraph"} THEN {LineBreak} ELSE {Space}
           at == Max(near(preferred))
<1>0. PICK C : C = CutAt(s, most, bounds)
  OBVIOUS
<1> SUFFICES GoodCut(s, C) /\ CutDepth(s, C, most)
  BY <1>0
<1>1. C = IF Tokens(Len(s)) <= most THEN [at |-> Len(s), next |-> Len(s), q |-> "end"]
          ELSE IF lo = 0 THEN [at |-> 1, next |-> 1, q |-> "hard"]
          ELSE IF found = {} THEN [at |-> lo, next |-> lo, q |-> "hard"]
          ELSE [at |-> at, next |-> SkipAll(s, at, trim), q |-> preferred]
  BY <1>0 DEF CutAt
<1>2. n \in Nat /\ n > 0
  OBVIOUS
<1>3. CASE Tokens(n) <= most
  <2> HIDE DEF lo, found, at, trim, preferred
  <2>1. C.at = n /\ C.next = n /\ C.q = "end"
    BY <1>1, <1>3
  <2> QED
    BY <1>2, <1>3, <2>1, CutNames DEF GoodCut, CutDepth
<1>4. CASE ~(Tokens(n) <= most)
  <2>1. lo \in 0 .. n - 1
    BY <1>2, <1>4, WithinFacts DEF WithinTarget
  <2>5. lo = Max(WithinTarget(Len(s), most))
    BY DEF WithinTarget
  <2>6. lo >= lo - lo \div 5
    <3> HIDE DEF lo
    <3> QED
      BY <2>1
  <2>2. CASE lo = 0
    <3> HIDE DEF lo, found, at, trim, preferred
    <3>1. C.at = 1 /\ C.next = 1 /\ C.q = "hard"
      BY <1>1, <1>4, <2>2
    <3> QED
      BY <1>2, <1>4, <2>2, <2>5, <3>1, CutNames DEF GoodCut, CutDepth
  <2>3. CASE lo # 0 /\ found = {}
    <3> HIDE DEF lo, found, at, trim, preferred
    <3>1. C.at = lo /\ C.next = lo /\ C.q = "hard"
      BY <1>1, <1>4, <2>3
    <3> QED
      BY <1>2, <1>4, <2>1, <2>3, <2>5, <2>6, <3>1, CutNames DEF GoodCut, CutDepth
  <2>4. CASE lo # 0 /\ found # {}
    <3>1. at \in 1 .. lo /\ (fifth = 0 \/ at >= lo - fifth)
      <4>1. fifth \in Nat /\ from \in Nat
        <5> HIDE DEF lo
        <5> QED
          BY <2>1
      <4>2. near(preferred) # {}
        <5>1. found \in SUBSET Nat
          BY DEF Ladder
        <5>2. Min(found) \in found
          <6> HIDE DEF found
          <6> QED
            BY <2>4, <5>1, MinOfSome
        <5> QED
          BY <5>2
      <4>3. /\ near(preferred) \in SUBSET (1 .. lo)
            /\ \A e \in near(preferred) : fifth = 0 \/ e >= lo - fifth
        <5>1. preferred \in {"declaration", "paragraph", "sentence", "word"}
          <6>1. found \in SUBSET (1 .. 4)
            BY DEF Ladder
          <6>2. Min(found) \in 1 .. 4
            <7> HIDE DEF found
            <7>1. Min(found) \in found
              BY <2>4, <6>1, MinOfSome
            <7> QED
              BY <6>1, <7>1
          <6> HIDE DEF found
          <6> QED
            BY <6>2 DEF Ladder
        <5>2. from = IF fifth = 0 THEN 0 ELSE lo - fifth
          OBVIOUS
        <5> HIDE DEF lo, fifth, from, found, preferred
        <5>3. near(preferred) \in SUBSET (1 .. lo)
          BY <2>1, <4>1, <5>1 DEF Marks
        <5>4. ASSUME NEW e \in near(preferred), fifth # 0 PROVE e >= lo - fifth
          <6>1. CASE preferred = "declaration"
            BY <6>1
          <6>2. CASE preferred # "declaration"
            <7>1. e >= from
              BY <2>1, <4>1, <5>1, <6>2 DEF Marks
            <7> QED
              BY <5>2, <5>4, <7>1
          <6> QED
            BY <6>1, <6>2
        <5> QED
          BY <5>3, <5>4
      <4> HIDE DEF near, lo, fifth
      <4>4. lo \in Nat
        BY <2>1
      <4> HIDE DEF preferred
      <4>5. near(preferred) \in SUBSET (0 .. lo)
        BY <4>3, <4>4
      <4>6. at \in near(preferred)
        BY <4>2, <4>4, <4>5, MaxOfSome
      <4> QED
        BY <4>3, <4>6
    <3>2. trim \subseteq Blank
      BY DEF Blank
    <3>6. preferred \in ToSet(Cuts)
      <4>1. found \in SUBSET Nat /\ found \subseteq DOMAIN Ladder
        BY DEF Ladder
      <4>2. Min(found) \in DOMAIN Ladder
        <5> HIDE DEF found
        <5> QED
          BY <2>4, <4>1, MinOfSome
      <4> QED
        BY <4>2, CutNames
    <3>3. C.at = at /\ C.next = SkipAll(s, at, trim) /\ C.q = preferred
      <4> HIDE DEF lo, found, at, trim, preferred
      <4> QED
        BY <1>1, <1>4, <2>4
    <3>7. fifth = lo \div 5
      OBVIOUS
    <3> HIDE DEF lo, found, at, trim, preferred, fifth
    <3>4. at \in 0 .. Len(s) /\ at \in 1 .. Len(s)
      BY <2>1, <3>1
    <3>5. /\ SkipAll(s, at, trim) \in at .. Len(s)
          /\ \A j \in at .. SkipAll(s, at, trim) - 1 : s[j + 1] \in trim
      <4>1. PICK a, t : a = at /\ t = trim
        OBVIOUS
      <4>2. a \in 0 .. Len(s)
        BY <3>4, <4>1
      <4> QED
        BY <4>1, <4>2, SkipAllFacts
    <3> QED
      BY <1>4, <2>1, <2>5, <3>1, <3>2, <3>3, <3>4, <3>5, <3>6, <3>7, SMTT(60) DEF GoodCut, CutDepth
  <2> QED
    BY <2>2, <2>3, <2>4
<1> QED
  BY <1>2, <1>3, <1>4

---------------------------------------------------------------------------
(* The loop of SplitAt.                                                      *)

Ranges == [start : Nat, end : Nat, cut : ToSet(Cuts)]

\* From a to b there are only blanks.
Gap(s, a, b) == \A j \in a .. b - 1 : s[j + 1] \in Blank

LEMMA BlankSlice ==
  ASSUME NEW V, NEW s \in Seq(V), NEW a \in 0 .. Len(s), NEW b \in 0 .. Len(s)
  PROVE  IsBlank(Slice(s, a, b)) <=> Gap(s, a, b)
<1>1. PICK t : t = Slice(s, a, b)
  OBVIOUS
<1>2. /\ a + 1 \in Int /\ b \in Int /\ \A i \in a + 1 .. b : s[i] \in V
  OBVIOUS
<1>3. /\ t \in Seq(V) /\ Len(t) = IF a + 1 <= b THEN b - (a + 1) + 1 ELSE 0
      /\ \A i \in 1 .. b - (a + 1) + 1 : t[i] = s[(a + 1) + i - 1]
  BY ONLY <1>1, <1>2, SubSeqProperties DEF Slice
<1>4. ToSet(t) = {t[i] : i \in DOMAIN t} /\ DOMAIN t = 1 .. Len(t)
  BY <1>3 DEF ToSet
<1>5. DOMAIN t = 1 .. b - a
  <2>1. CASE a + 1 <= b
    BY <1>3, <1>4, <2>1
  <2>2. CASE ~(a + 1 <= b)
    BY <1>3, <1>4, <2>2
  <2> QED
    BY <2>1, <2>2
<1>6. ASSUME IsBlank(t) PROVE Gap(s, a, b)
  <2> SUFFICES ASSUME NEW j \in a .. b - 1 PROVE s[j + 1] \in Blank
    BY DEF Gap
  <2>1. j - a + 1 \in 1 .. b - a /\ (a + 1) + (j - a + 1) - 1 = j + 1 /\ j - a + 1 \in 1 .. b - (a + 1) + 1
    OBVIOUS
  <2>2. t[j - a + 1] = s[j + 1]
    BY <1>3, <2>1
  <2>3. t[j - a + 1] \in ToSet(t)
    BY <1>4, <1>5, <2>1
  <2> QED
    BY <1>6, <2>2, <2>3 DEF IsBlank
<1>7. ASSUME Gap(s, a, b) PROVE IsBlank(t)
  <2> SUFFICES ASSUME NEW i \in 1 .. b - a PROVE t[i] \in Blank
    BY <1>4, <1>5 DEF IsBlank
  <2>1. a + i - 1 \in a .. b - 1 /\ (a + 1) + i - 1 = (a + i - 1) + 1 /\ i \in 1 .. b - (a + 1) + 1
    OBVIOUS
  <2> QED
    BY <1>3, <1>7, <2>1 DEF Gap
<1> QED
  BY <1>1, <1>6, <1>7

\* Chunks from an offset on: only blanks are between them, in front of none and behind
\* the last.
Cover(s, p, start) ==
  /\ p \in Seq(Ranges)
  /\ p = <<>> => Gap(s, start, Len(s))
  /\ \A i \in 1 .. Len(p) : p[i].start < p[i].end /\ p[i].end <= Len(s)
  /\ p # <<>> => p[1].start = start /\ Gap(s, p[Len(p)].end, Len(s))
  /\ \A i \in 1 .. Len(p) - 1 : p[i].end <= p[i + 1].start /\ Gap(s, p[i].end, p[i + 1].start)

\* A chunk and what the loop makes of what is behind it.
LEMMA CoverMore ==
  ASSUME NEW V, NEW s \in Seq(V), NEW start \in Nat, NEW end \in Nat, NEW rest \in Nat, NEW q \in ToSet(Cuts),
         start < end, end <= rest, rest <= Len(s), Gap(s, end, rest), NEW p, Cover(s, p, rest)
  PROVE  Cover(s, <<Chunk(start, end, q)>> \o p, start)
<1>1. PICK c, l, n : c = Chunk(start, end, q) /\ l = <<c>> /\ n = Len(p)
  OBVIOUS
<1>2. c \in Ranges /\ c.start = start /\ c.end = end
  BY <1>1 DEF Chunk, Ranges
<1>3. l \in Seq(Ranges) /\ Len(l) = 1 /\ l[1] = c
  BY <1>1, <1>2
<1>4. p \in Seq(Ranges) /\ n \in Nat /\ Len(s) \in Nat
  BY <1>1 DEF Cover
<1>5. PICK r : r = l \o p
  OBVIOUS
<1>6. /\ r \in Seq(Ranges) /\ Len(r) = Len(l) + Len(p)
      /\ \A i \in 1 .. Len(l) : r[i] = l[i]
      /\ \A i \in 1 .. Len(p) : r[Len(l) + i] = p[i]
  BY ONLY <1>3, <1>4, <1>5, Joined, SMTT(60)
<1>7. Len(r) = n + 1 /\ r[1] = c /\ \A i \in 1 .. n : r[i + 1] = p[i]
  BY <1>1, <1>3, <1>4, <1>6
<1>8. r # <<>>
  BY <1>4, <1>6, <1>7
<1>9. \A i \in 1 .. n : p[i].start < p[i].end /\ p[i].end <= Len(s)
  BY <1>1 DEF Cover
<1>10. ASSUME NEW i \in 1 .. n + 1 PROVE r[i].start < r[i].end /\ r[i].end <= Len(s)
  <2>1. CASE i = 1
    BY <1>2, <1>4, <1>7, <2>1
  <2>2. CASE i # 1
    <3>1. i - 1 \in 1 .. n /\ (i - 1) + 1 = i
      BY <1>4, <2>2
    <3> QED
      BY <1>7, <1>9, <3>1
  <2> QED
    BY <2>1, <2>2
<1>11. r[1].start = start /\ Gap(s, r[Len(r)].end, Len(s))
  <2>1. CASE n = 0
    <3>1. p = <<>>
      BY ONLY <1>1, <1>4, <2>1, EmptySeq
    <3>2. Gap(s, rest, Len(s))
      BY <3>1 DEF Cover
    <3>3. r[Len(r)].end = end
      BY <1>2, <1>7, <2>1
    <3>4. Gap(s, end, Len(s))
      <4> SUFFICES ASSUME NEW j \in end .. Len(s) - 1 PROVE s[j + 1] \in Blank
        BY DEF Gap
      <4>1. j \in end .. rest - 1 \/ j \in rest .. Len(s) - 1
        BY <1>4
      <4> QED
        BY <3>2, <4>1 DEF Gap
    <3> QED
      BY <1>2, <1>7, <3>3, <3>4
  <2>2. CASE n # 0
    <3>1. n \in 1 .. n /\ p # <<>>
      BY <1>1, <1>4, <2>2
    <3>2. r[Len(r)] = p[n] /\ Gap(s, p[n].end, Len(s))
      BY <1>1, <1>7, <3>1 DEF Cover
    <3> QED
      BY <1>2, <1>7, <3>2
  <2> QED
    BY <2>1, <2>2
<1>12. ASSUME NEW i \in 1 .. n PROVE r[i].end <= r[i + 1].start /\ Gap(s, r[i].end, r[i + 1].start)
  <2>1. r[i + 1] = p[i] /\ p # <<>>
    BY <1>1, <1>4, <1>7
  <2>2. CASE i = 1
    <3>1. p[1].start = rest
      BY <2>1 DEF Cover
    <3> QED
      BY <1>2, <1>7, <2>1, <2>2, <3>1
  <2>3. CASE i # 1
    <3>1. i - 1 \in 1 .. n - 1 /\ (i - 1) + 1 = i /\ i - 1 \in 1 .. n
      BY <1>4, <2>3
    <3>2. r[i] = p[i - 1] /\ p[i - 1].end <= p[i].start /\ Gap(s, p[i - 1].end, p[i].start)
      BY <1>1, <1>7, <3>1 DEF Cover
    <3> QED
      BY <2>1, <3>2
  <2> QED
    BY <2>2, <2>3
<1>13. \A i \in 1 .. Len(r) - 1 : i \in 1 .. n
  BY <1>4, <1>7
<1> QED
  BY <1>1, <1>5, <1>6, <1>7, <1>8, <1>10, <1>11, <1>12, <1>13 DEF Cover

\* A part of a text.
LEMMA SliceFacts ==
  ASSUME NEW V, NEW s \in Seq(V), NEW a \in 0 .. Len(s), NEW b \in a .. Len(s)
  PROVE  /\ Slice(s, a, b) \in Seq(V) /\ Len(Slice(s, a, b)) = b - a
         /\ \A j \in 0 .. b - a - 1 : Slice(s, a, b)[j + 1] = s[a + j + 1]
<1>1. PICK t : t = Slice(s, a, b)
  OBVIOUS
<1>2. a + 1 \in Int /\ b \in Int /\ \A i \in a + 1 .. b : s[i] \in V
  OBVIOUS
<1>3. /\ t \in Seq(V) /\ Len(t) = IF a + 1 <= b THEN b - (a + 1) + 1 ELSE 0
      /\ \A i \in 1 .. b - (a + 1) + 1 : t[i] = s[(a + 1) + i - 1]
  BY ONLY <1>1, <1>2, SubSeqProperties DEF Slice
<1>4. ASSUME NEW j \in 0 .. b - a - 1 PROVE t[j + 1] = s[a + j + 1]
  <2>1. j + 1 \in 1 .. b - (a + 1) + 1 /\ (a + 1) + (j + 1) - 1 = a + j + 1
    OBVIOUS
  <2> QED
    BY <1>3, <2>1
<1>5. Len(t) = b - a
  <2>1. CASE a + 1 <= b
    BY <1>3, <2>1
  <2>2. CASE ~(a + 1 <= b)
    BY <1>3, <2>2
  <2> QED
    BY <2>1, <2>2
<1> QED
  BY <1>1, <1>3, <1>4, <1>5

\* Where what is left of a text from x on is cut.
CutFrom(s, x, y, most, bounds) ==
  CutAt(Slice(s, x, y), most, LocalBounds(bounds, x, Len(Slice(s, x, y))))

\* Of a text with something in it the cut leaves out only blanks.
CutsOff(s, x, y, c) ==
  /\ c.at \in Nat /\ c.next \in Nat /\ c.q \in ToSet(Cuts)
  /\ x < x + c.at /\ x + c.at <= x + c.next /\ x + c.next <= y
  /\ Gap(s, x + c.at, x + c.next)

LEMMA CutFromFacts ==
  ASSUME NEW V, NEW s \in Seq(V), NEW x \in 0 .. Len(s), NEW y \in x .. Len(s), x < y,
         NEW most \in Nat, NEW bounds
  PROVE  CutsOff(s, x, y, CutFrom(s, x, y, most, bounds))
<1>1. PICK t : t = Slice(s, x, y)
  OBVIOUS
<1>2. /\ t \in Seq(V) /\ Len(t) = y - x
      /\ \A j \in 0 .. y - x - 1 : t[j + 1] = s[x + j + 1]
  BY ONLY <1>1, SliceFacts, s \in Seq(V), x \in 0 .. Len(s), y \in x .. Len(s)
<1>3. t # <<>>
  <2>1. Len(t) # 0
    BY <1>2
  <2> QED
    BY <1>2, <2>1
<1>4. PICK b : b = LocalBounds(bounds, x, Len(t))
  OBVIOUS
<1>5. b \in SUBSET Int
  BY <1>2, <1>4 DEF LocalBounds
<1>6. PICK c : c = CutAt(t, most, b)
  OBVIOUS
<1>7. GoodCut(t, c)
  BY ONLY <1>2, <1>3, <1>5, <1>6, CutFacts, most \in Nat
<1>8. /\ c.at \in 1 .. y - x /\ c.next \in c.at .. y - x
      /\ \A j \in c.at .. c.next - 1 : t[j + 1] \in Blank
      /\ c.q \in ToSet(Cuts)
  BY <1>2, <1>7 DEF GoodCut
<1>9. Gap(s, x + c.at, x + c.next)
  <2>1. PICK lo, hi, ca, cn : ca = c.at /\ cn = c.next /\ lo = x + ca /\ hi = x + cn
    OBVIOUS
  <2>4. ca \in 1 .. y - x /\ cn \in ca .. y - x /\ \A i \in ca .. cn - 1 : t[i + 1] \in Blank
    BY <1>8, <2>1
  <2>2. ASSUME NEW j \in lo .. hi - 1 PROVE s[j + 1] \in Blank
    <3>1. PICK d : d = j - x
      OBVIOUS
    <3>2. d \in ca .. cn - 1 /\ d \in 0 .. y - x - 1 /\ x + d + 1 = j + 1
      BY <2>1, <2>4, <3>1, SMTT(60)
    <3> QED
      BY <1>2, <2>4, <3>2
  <2>3. Gap(s, lo, hi)
    BY <2>2 DEF Gap
  <2> QED
    BY <2>1, <2>3
<1>10. c.at \in Nat /\ c.next \in Nat /\ x < x + c.at /\ x + c.at <= x + c.next /\ x + c.next <= y
  BY <1>8
<1> QED
  BY <1>1, <1>4, <1>6, <1>8, <1>9, <1>10 DEF CutsOff, CutFrom

\* What the loop makes of the text from x on, given what it makes of the rest.
Piece(s, most, bounds, f, x) ==
  LET c == CutFrom(s, x, Len(s), most, bounds)
  IN IF IsBlank(Slice(s, x, Len(s))) THEN <<>>
     ELSE <<Chunk(x, x + c.at, c.q)>> \o f[x + c.next]

\* Where something is left, the loop goes on further behind.
LEMMA PieceMore ==
  ASSUME NEW V, NEW s \in Seq(V), NEW x \in 0 .. Len(s), NEW most \in Nat, NEW bounds,
         ~IsBlank(Slice(s, x, Len(s)))
  PROVE  /\ CutsOff(s, x, Len(s), CutFrom(s, x, Len(s), most, bounds))
         /\ x + CutFrom(s, x, Len(s), most, bounds).next \in x + 1 .. Len(s)
<1>1. PICK n : n = Len(s)
  OBVIOUS
<1>2. n \in Nat /\ n \in 0 .. Len(s) /\ x \in 0 .. n
  BY <1>1
<1>3. ~Gap(s, x, n)
  BY ONLY <1>1, <1>2, s \in Seq(V), x \in 0 .. Len(s), ~IsBlank(Slice(s, x, Len(s))), BlankSlice
<1>4. x < n
  BY <1>2, <1>3 DEF Gap
<1>5. n \in x .. Len(s)
  BY <1>1, <1>2, <1>4
<1>6. PICK c : c = CutFrom(s, x, n, most, bounds)
  OBVIOUS
<1>7. CutsOff(s, x, n, c)
  BY ONLY <1>4, <1>5, <1>6, CutFromFacts, s \in Seq(V), x \in 0 .. Len(s), most \in Nat
<1>8. x + c.next \in x + 1 .. n
  BY <1>2, <1>7 DEF CutsOff
<1> QED
  BY <1>1, <1>6, <1>7, <1>8

LEMMA PieceCovers ==
  ASSUME NEW V, NEW s \in Seq(V), NEW x \in 0 .. Len(s), NEW most \in Nat, NEW bounds, NEW f,
         \A y \in x + 1 .. Len(s) : Cover(s, f[y], y)
  PROVE  Cover(s, Piece(s, most, bounds, f, x), x)
<1>1. PICK c : c = CutFrom(s, x, Len(s), most, bounds)
  OBVIOUS
<1>2. CASE IsBlank(Slice(s, x, Len(s)))
  <2>1. Piece(s, most, bounds, f, x) = <<>>
    BY <1>2 DEF Piece
  <2>2. Len(s) \in 0 .. Len(s)
    OBVIOUS
  <2>3. Gap(s, x, Len(s))
    BY ONLY <1>2, <2>2, s \in Seq(V), x \in 0 .. Len(s), BlankSlice
  <2>4. PICK p : p = <<>>
    OBVIOUS
  <2>5. p \in Seq(Ranges) /\ Len(p) = 0
    BY <2>4
  <2>6. Cover(s, p, x)
    BY <2>3, <2>4, <2>5 DEF Cover
  <2> QED
    BY <2>1, <2>4, <2>6
<1>3. CASE ~IsBlank(Slice(s, x, Len(s)))
  <2>1. CutsOff(s, x, Len(s), c) /\ x + c.next \in x + 1 .. Len(s)
    BY ONLY <1>1, <1>3, s \in Seq(V), x \in 0 .. Len(s), most \in Nat, PieceMore
  <2>2. PICK a, r, q, p : a = x + c.at /\ r = x + c.next /\ q = c.q /\ p = f[r]
    OBVIOUS
  <2>3. /\ x \in Nat /\ a \in Nat /\ r \in Nat /\ q \in ToSet(Cuts) /\ x < a /\ a <= r /\ r <= Len(s)
        /\ Gap(s, a, r) /\ Cover(s, p, r)
    BY <2>1, <2>2, SMTT(60) DEF CutsOff
  <2>4. Cover(s, <<Chunk(x, a, q)>> \o p, x)
    BY ONLY <2>3, CoverMore, s \in Seq(V)
  <2>5. Piece(s, most, bounds, f, x) = <<Chunk(x, a, q)>> \o p
    BY <1>1, <1>3, <2>2 DEF Piece
  <2> QED
    BY <2>4, <2>5
<1> QED
  BY <1>2, <1>3

\* What is left of a text after the loop has gone on n times at most.
Behind(n) == [k \in 0 .. n + 1 |-> {x \in 0 .. n : x > n - k}]

\* The loop of SplitAt.
LoopOf(s, most, bounds) == CHOOSE w : w = [x \in 0 .. Len(s) |-> Piece(s, most, bounds, w, x)]

LEMMA LoopFacts ==
  ASSUME NEW V, NEW s \in Seq(V), NEW most \in Nat, NEW bounds
  PROVE  LoopOf(s, most, bounds) =
           [x \in 0 .. Len(s) |-> Piece(s, most, bounds, LoopOf(s, most, bounds), x)]
<1>0. PICK n : n = Len(s)
  OBVIOUS
<1> DEFINE X == 0 .. n
           W == Seq(Ranges)
           F == [X -> W]
           T == Behind(n)
           body == [f \in F |-> [x \in X |-> Piece(s, most, bounds, f, x)]]
<1>1. n \in Nat /\ n + 1 \in Nat
  BY <1>0
<1>2. T \in [0 .. n + 1 -> SUBSET X] /\ T[0] = {} /\ T[n + 1] = X
  BY <1>1 DEF Behind
<1>3. ASSUME NEW f \in F, NEW x \in X PROVE Piece(s, most, bounds, f, x) \in W
  <2>1. PICK c : c = CutFrom(s, x, Len(s), most, bounds)
    OBVIOUS
  <2>2. CASE IsBlank(Slice(s, x, Len(s)))
    BY <2>2 DEF Piece
  <2>3. CASE ~IsBlank(Slice(s, x, Len(s)))
    <3>1. CutsOff(s, x, Len(s), c) /\ x + c.next \in x + 1 .. Len(s) /\ x \in 0 .. Len(s)
      <4>1. x \in 0 .. Len(s)
        BY <1>0
      <4> QED
        BY ONLY <2>1, <2>3, <4>1, s \in Seq(V), most \in Nat, PieceMore
    <3>2. x + c.next \in X /\ x + c.at \in Nat /\ x \in Nat /\ c.q \in ToSet(Cuts)
      BY <1>0, <1>1, <3>1 DEF CutsOff
    <3>3. PICK l, d : d = Chunk(x, x + c.at, c.q) /\ l = <<d>>
      OBVIOUS
    <3>6. d \in Ranges
      BY <3>2, <3>3 DEF Chunk, Ranges
    <3>4. l \in W /\ f[x + c.next] \in W
      BY <3>2, <3>3, <3>6
    <3>5. l \o f[x + c.next] \in W
      BY ONLY <3>4, Joined
    <3> QED
      BY <2>1, <2>3, <3>3, <3>5 DEF Piece
  <2> QED
    BY <2>2, <2>3
<1>4. body \in [F -> F]
  BY <1>3
<1>5. ASSUME NEW k \in 1 .. n + 1, NEW f \in F, NEW h \in F, \A x \in T[k-1] : f[x] = h[x],
             NEW x \in T[k]
      PROVE  body[f][x] = body[h][x]
  <2>1. x \in X /\ \A y \in x + 1 .. n : y \in T[k-1]
    BY <1>1 DEF Behind
  <2>2. PICK c : c = CutFrom(s, x, Len(s), most, bounds)
    OBVIOUS
  <2>3. ASSUME ~IsBlank(Slice(s, x, Len(s))) PROVE f[x + c.next] = h[x + c.next]
    <3>1. x \in 0 .. Len(s)
      BY <1>0, <2>1
    <3>2. x + c.next \in x + 1 .. Len(s)
      BY ONLY <2>2, <2>3, <3>1, s \in Seq(V), most \in Nat, PieceMore
    <3> QED
      BY <1>0, <1>5, <2>1, <3>2
  <2>4. Piece(s, most, bounds, f, x) = Piece(s, most, bounds, h, x)
    BY <2>2, <2>3 DEF Piece
  <2> QED
    BY <2>1, <2>4
<1>6. F # {}
  <2>1. [x \in X |-> <<>>] \in F
    OBVIOUS
  <2> QED
    BY <2>1
<1>7. Leveled(X, W, F, n + 1, body, T)
  <2>1. \A k \in 1 .. n + 1 : \A f, h \in F :
          (\A x \in T[k-1] : f[x] = h[x]) => \A x \in T[k] : body[f][x] = body[h][x]
    <3> HIDE DEF F, T, body, X
    <3> QED
      BY <1>5
  <2>2. F = [X -> W]
    OBVIOUS
  <2> HIDE DEF F, T, body, X, W
  <2> QED
    BY <1>1, <1>2, <1>4, <1>6, <2>1, <2>2 DEF Leveled
<1>8. PICK f \in F : f = body[f]
  <2> HIDE DEF F, T, body, X, W
  <2> QED
    BY <1>7, Fixpoint DEF Fixed
<1> DEFINE solves(w) == w = [x \in 0 .. Len(s) |-> Piece(s, most, bounds, w, x)]
<1>9. solves(f)
  <2>1. body[f] = [x \in X |-> Piece(s, most, bounds, f, x)]
    OBVIOUS
  <2> HIDE DEF body
  <2> QED
    BY <1>0, <1>8, <2>1
<1>10. LoopOf(s, most, bounds) = CHOOSE w : solves(w)
  BY DEF LoopOf
<1>11. solves(LoopOf(s, most, bounds))
  <2> HIDE DEF solves
  <2> QED
    BY <1>9, <1>10
<1> QED
  BY <1>11

\* The pieces SplitAt takes a text apart into leave out only blanks.
LEMMA PiecesFacts ==
  ASSUME NEW V, NEW s \in Seq(V), NEW plan, plan.target \in Nat, NEW bounds
  PROVE  Cover(s, Pieces(s, plan, bounds), 0)
<1>0. PICK most, n : most = plan.target /\ n = Len(s)
  OBVIOUS
<1>1. most \in Nat /\ n \in Nat
  BY <1>0
<1>2. PICK w : w = LoopOf(s, most, bounds)
  OBVIOUS
<1>3. w = [x \in 0 .. Len(s) |-> Piece(s, most, bounds, w, x)]
  BY ONLY <1>1, <1>2, s \in Seq(V), LoopFacts
<1>4. Pieces(s, plan, bounds) = w[0]
  BY <1>0, <1>2 DEF Pieces, LoopOf, Piece, CutFrom
<1> DEFINE S == {k \in Nat : \A x \in 0 .. n : x >= n - k => Cover(s, w[x], x)}
<1>5. ASSUME NEW x \in 0 .. n, \A y \in x + 1 .. n : Cover(s, w[y], y)
      PROVE  Cover(s, w[x], x)
  <2>1. x \in 0 .. Len(s) /\ \A y \in x + 1 .. Len(s) : Cover(s, w[y], y)
    BY <1>0, <1>5
  <2>2. Cover(s, Piece(s, most, bounds, w, x), x)
    BY ONLY <1>1, <2>1, s \in Seq(V), PieceCovers
  <2>3. w[x] = Piece(s, most, bounds, w, x)
    BY <1>3, <2>1
  <2> QED
    BY <2>2, <2>3
<1>6. 0 \in S
  <2> SUFFICES ASSUME NEW x \in 0 .. n, x >= n - 0 PROVE Cover(s, w[x], x)
    OBVIOUS
  <2>1. \A y \in x + 1 .. n : FALSE
    BY <1>1
  <2> QED
    BY <1>5, <2>1
<1>7. ASSUME NEW k \in Nat, k \in S PROVE k + 1 \in S
  <2> SUFFICES ASSUME NEW x \in 0 .. n, x >= n - (k + 1) PROVE Cover(s, w[x], x)
    OBVIOUS
  <2>1. \A y \in x + 1 .. n : y \in 0 .. n /\ y >= n - k
    BY <1>1
  <2> QED
    BY <1>5, <1>7, <2>1
<1>8. n \in S
  <2> HIDE DEF S
  <2> QED
    BY <1>1, <1>6, <1>7, Induct
<1> QED
  BY <1>1, <1>4, <1>8

---------------------------------------------------------------------------
(* A last chunk that is too small.                                           *)

\* Chunks from a to b with only blanks between them.
Run(s, p, a, b) ==
  /\ p \in Seq(Ranges) /\ Len(p) > 0 /\ p[1].start = a /\ p[Len(p)].end = b /\ b <= Len(s)
  /\ \A i \in 1 .. Len(p) : p[i].start < p[i].end /\ p[i].end <= Len(s)
  /\ \A i \in 1 .. Len(p) - 1 : p[i].end <= p[i + 1].start /\ Gap(s, p[i].end, p[i + 1].start)

LEMMA CoverRun ==
  ASSUME NEW V, NEW s \in Seq(V), NEW a, NEW p, p # <<>>
  PROVE  Cover(s, p, a) <=> \E b \in Nat : Run(s, p, a, b) /\ Gap(s, b, Len(s))
<1>1. ASSUME p \in Seq(Ranges) PROVE Len(p) \in Nat /\ Len(p) > 0 /\ Len(p) \in 1 .. Len(p) /\ p[Len(p)].end \in Nat
  <2>1. PICK n : n = Len(p)
    OBVIOUS
  <2>2. n \in Nat /\ n # 0
    BY <1>1, <2>1
  <2>3. n \in 1 .. n /\ n > 0
    BY <2>2
  <2>4. p[n] \in Ranges
    BY <1>1, <2>1, <2>3
  <2> QED
    BY <2>1, <2>2, <2>3, <2>4 DEF Ranges
<1> QED
  BY <1>1 DEF Cover, Run

\* One run behind another.
LEMMA RunJoin ==
  ASSUME NEW V, NEW s \in Seq(V), NEW a, NEW b \in Nat, NEW c \in Nat, NEW d, NEW p, NEW q,
         Run(s, p, a, b), b <= c, Gap(s, b, c), Run(s, q, c, d)
  PROVE  Run(s, p \o q, a, d)
<1>1. PICK m, n, r : m = Len(p) /\ n = Len(q) /\ r = p \o q
  OBVIOUS
<1>2. p \in Seq(Ranges) /\ q \in Seq(Ranges) /\ m \in Nat \ {0} /\ n \in Nat \ {0}
  BY <1>1 DEF Run
<1>3. /\ r \in Seq(Ranges) /\ Len(r) = m + n
      /\ \A i \in 1 .. m : r[i] = p[i]
      /\ \A i \in 1 .. n : r[m + i] = q[i]
  BY ONLY <1>1, <1>2, Joined
<1>4. r[1].start = a /\ r[Len(r)].end = d /\ d <= Len(s) /\ Len(r) > 0
  <2>1. 1 \in 1 .. m /\ n \in 1 .. n
    BY <1>2
  <2> QED
    BY <1>1, <1>2, <1>3, <2>1 DEF Run
<1>5. ASSUME NEW i \in 1 .. Len(r) PROVE r[i].start < r[i].end /\ r[i].end <= Len(s)
  <2>1. CASE i <= m
    <3>1. i \in 1 .. m
      BY <1>2, <1>3, <2>1
    <3> QED
      BY <1>1, <1>3, <3>1 DEF Run
  <2>2. CASE ~(i <= m)
    <3>1. i - m \in 1 .. n /\ m + (i - m) = i
      BY <1>2, <1>3, <2>2
    <3>2. r[i] = q[i - m]
      BY <1>3, <3>1
    <3> QED
      BY <1>1, <3>1, <3>2 DEF Run
  <2> QED
    BY <2>1, <2>2
<1>6. ASSUME NEW i \in 1 .. Len(r) - 1 PROVE r[i].end <= r[i + 1].start /\ Gap(s, r[i].end, r[i + 1].start)
  <2>1. CASE i < m
    <3>1. i \in 1 .. m /\ i + 1 \in 1 .. m /\ i \in 1 .. m - 1
      BY <1>2, <1>3, <2>1
    <3>2. r[i] = p[i] /\ r[i + 1] = p[i + 1]
      BY <1>3, <3>1
    <3> QED
      BY <1>1, <3>1, <3>2 DEF Run
  <2>2. CASE i = m
    <3>1. m \in 1 .. m /\ 1 \in 1 .. n
      BY <1>2
    <3>2. r[m] = p[m] /\ r[m + 1] = q[1]
      BY <1>3, <3>1
    <3>3. p[m].end = b /\ q[1].start = c
      BY <1>1 DEF Run
    <3> QED
      BY <2>2, <3>2, <3>3
  <2>3. CASE i > m
    <3>1. i - m \in 1 .. n - 1 /\ m + (i - m) = i /\ (i - m) + 1 \in 1 .. n /\ m + ((i - m) + 1) = i + 1
          /\ i - m \in 1 .. n
      BY <1>2, <1>3, <2>3
    <3>2. r[i] = q[i - m] /\ r[i + 1] = q[(i - m) + 1]
      BY <1>3, <3>1
    <3> QED
      BY <1>1, <3>1, <3>2 DEF Run
  <2>4. i < m \/ i = m \/ i > m
    BY <1>2, <1>3
  <2> QED
    BY <2>1, <2>2, <2>3, <2>4
<1> QED
  BY <1>1, <1>2, <1>3, <1>4, <1>5, <1>6 DEF Run

\* One chunk is a run.
LEMMA RunOne ==
  ASSUME NEW V, NEW s \in Seq(V), NEW a \in Nat, NEW b \in Nat, NEW q \in ToSet(Cuts), a < b, b <= Len(s)
  PROVE  Run(s, <<Chunk(a, b, q)>>, a, b)
<1>1. PICK c, l : c = Chunk(a, b, q) /\ l = <<c>>
  OBVIOUS
<1>2. c \in Ranges /\ c.start = a /\ c.end = b
  BY <1>1 DEF Chunk, Ranges
<1>3. l \in Seq(Ranges) /\ Len(l) = 1 /\ l[1] = c
  BY <1>1, <1>2
<1>4. \A i \in 1 .. Len(l) : i = 1
  BY <1>3
<1>5. \A i \in 1 .. Len(l) - 1 : FALSE
  BY <1>3
<1> QED
  BY <1>1, <1>2, <1>3, <1>4, <1>5 DEF Run

\* The beginning of a run is one.
LEMMA RunFront ==
  ASSUME NEW V, NEW s \in Seq(V), NEW a, NEW b, NEW p, Run(s, p, a, b), NEW k \in 1 .. Len(p)
  PROVE  Run(s, SubSeq(p, 1, k), a, p[k].end)
<1>1. PICK n, r : n = Len(p) /\ r = SubSeq(p, 1, k)
  OBVIOUS
<1>2. p \in Seq(Ranges) /\ n \in Nat /\ k \in 0 .. n /\ k \in Nat /\ k >= 1
  BY <1>1 DEF Run
<1>3. r \in Seq(Ranges) /\ Len(r) = k /\ \A i \in 1 .. k : r[i] = p[i]
  BY ONLY <1>1, <1>2, BeginningFacts
<1>4. 1 \in 1 .. k /\ k \in 1 .. k
  BY <1>2
<1>5. \A i \in 1 .. k : i \in 1 .. n
  BY <1>2
<1>6. \A i \in 1 .. k - 1 : i \in 1 .. n - 1 /\ i \in 1 .. k /\ i + 1 \in 1 .. k
  BY <1>2
<1> QED
  BY <1>1, <1>2, <1>3, <1>4, <1>5, <1>6 DEF Run

\* No chunk is above the limit.
Within(p, limit) == \A i \in 1 .. Len(p) : Size(p[i]) <= limit

\* Others in place of the last two of a run.
LEMMA RunReplace ==
  ASSUME NEW V, NEW s \in Seq(V), NEW a, NEW b, NEW p, Run(s, p, a, b), Len(p) >= 2,
         NEW q, Run(s, q, p[Len(p) - 1].start, b), NEW limit, Within(p, limit), Within(q, limit)
  PROVE  /\ Run(s, SubSeq(p, 1, Len(p) - 2) \o q, a, b)
         /\ Within(SubSeq(p, 1, Len(p) - 2) \o q, limit)
<1>1. PICK n, r : n = Len(p) /\ r = SubSeq(p, 1, n - 2)
  OBVIOUS
<1>2. p \in Seq(Ranges) /\ q \in Seq(Ranges) /\ n \in Nat /\ n >= 2 /\ n - 2 \in 0 .. n
  BY <1>1 DEF Run
<1>3. r \in Seq(Ranges) /\ Len(r) = n - 2 /\ \A i \in 1 .. n - 2 : r[i] = p[i]
  BY ONLY <1>1, <1>2, BeginningFacts
<1>4. PICK t : t = r \o q
  OBVIOUS
<1>5. /\ t \in Seq(Ranges) /\ Len(t) = Len(r) + Len(q) /\ Len(r) \in Nat /\ Len(q) \in Nat
      /\ \A i \in 1 .. Len(r) : t[i] = r[i]
      /\ \A i \in 1 .. Len(q) : t[Len(r) + i] = q[i]
  BY ONLY <1>2, <1>3, <1>4, Joined, SMTT(60)
<1>6. Within(t, limit)
  <2> SUFFICES ASSUME NEW i \in 1 .. Len(t) PROVE Size(t[i]) <= limit
    BY DEF Within
  <2>1. CASE i <= n - 2
    <3>1. i \in 1 .. n - 2 /\ i \in 1 .. n
      BY <1>2, <2>1
    <3>2. t[i] = p[i]
      BY <1>3, <1>5, <3>1
    <3> QED
      BY <1>1, <3>1, <3>2 DEF Within
  <2>2. CASE ~(i <= n - 2)
    <3>1. i - (n - 2) \in 1 .. Len(q) /\ (n - 2) + (i - (n - 2)) = i
      BY <1>2, <1>3, <1>5, <2>2
    <3>2. t[i] = q[i - (n - 2)]
      <4>1. Len(r) + (i - (n - 2)) = i
        BY ONLY <1>3, <3>1
      <4> QED
        BY ONLY <1>5, <3>1, <4>1, Zenon
    <3> QED
      BY <3>1, <3>2 DEF Within
  <2> QED
    BY <2>1, <2>2
<1>7. Run(s, t, a, b)
  <2>1. CASE n = 2
    <3>1. r = <<>>
      <4>1. Len(r) = 0
        BY <1>3, <2>1
      <4> QED
        BY ONLY <1>3, <4>1, EmptySeq
    <3>2. t = q
      BY <1>2, <1>4, <3>1
    <3>3. p[1].start = a /\ n - 1 = 1
      BY <1>1, <2>1 DEF Run
    <3> QED
      BY <1>1, <3>2, <3>3
  <2>2. CASE n # 2
    <3>0. PICK k, h : k = n - 2 /\ h = n - 1
      OBVIOUS
    <3>1. k \in 1 .. n /\ k \in 1 .. n - 1 /\ h \in 1 .. n /\ k + 1 = h
      BY <1>2, <2>2, <3>0
    <3>2. Run(s, r, a, p[k].end)
      <4>1. k \in 1 .. Len(p) /\ r = SubSeq(p, 1, k)
        BY <1>1, <3>0, <3>1
      <4> QED
        BY ONLY <4>1, s \in Seq(V), Run(s, p, a, b), RunFront
    <3>3. p[k].end <= p[h].start /\ Gap(s, p[k].end, p[h].start)
      BY <1>1, <3>1 DEF Run
    <3>4. p[k].end \in Nat /\ p[h].start \in Nat
      <4>1. p[k] \in Ranges /\ p[h] \in Ranges
        BY <1>1, <1>2, <3>1
      <4> QED
        BY <4>1 DEF Ranges
    <3>5. Run(s, q, p[h].start, b)
      BY <1>1, <3>0
    <3>6. PICK u, v : u = p[k].end /\ v = p[h].start
      OBVIOUS
    <3> QED
      BY ONLY <1>4, <3>2, <3>3, <3>4, <3>5, <3>6, s \in Seq(V), RunJoin
  <2> QED
    BY <2>1, <2>2
<1> QED
  BY <1>1, <1>4, <1>6, <1>7

\* The tokens of the text from a to b.
LEMMA SizeOf ==
  ASSUME NEW a \in Nat, NEW b \in Nat, NEW q, a <= b
  PROVE  Size(Chunk(a, b, q)) = Tokens(b - a) /\ b - a \in Nat
  BY DEF Size, Chunk

LEMMA FoldFacts ==
  ASSUME NEW V, NEW s \in Seq(V), NEW a, NEW b, NEW p, Run(s, p, a, b), NEW plan, NEW bounds,
         Within(p, plan.limit)
  PROVE  Run(s, FoldRunt(s, p, plan, bounds), a, b) /\ Within(FoldRunt(s, p, plan, bounds), plan.limit)
<1> DEFINE n == Len(p)
           first == p[n - 1].start
           ending == p[n].end
           pair == Slice(s, first, ending)
           half == CutAt(pair, Tokens(Len(pair)) \div 2, LocalBounds(bounds, first, Len(pair)))
           halves == Halves(first, ending, half, p[n].cut)
           fits(c) == Size(c) <= plan.limit
           one == Chunk(first, ending, p[n].cut)
           front == SubSeq(p, 1, n - 2)
<1>1. PICK r : r = FoldRunt(s, p, plan, bounds)
  OBVIOUS
<1>2. r = IF n < 2 \/ Size(p[n]) >= plan.target \div 4 THEN p
          ELSE IF Tokens(Len(pair)) <= plan.limit THEN Append(front, one)
          ELSE IF ~IsBlank(Slice(s, halves[2].start, ending)) /\ fits(halves[1]) /\ fits(halves[2])
               THEN front \o halves
          ELSE p
  BY ONLY <1>1, Zenon DEF FoldRunt
<1> SUFFICES Run(s, r, a, b) /\ Within(r, plan.limit)
  BY <1>1
<1>3. CASE r = p
  BY <1>3
<1>4. CASE r # p
  <2>1. n >= 2 /\ n \in Nat /\ p \in Seq(Ranges)
    <3>1. n \in Nat /\ p \in Seq(Ranges)
      BY DEF Run
    <3> HIDE DEF pair, halves, one, front, ending
    <3> QED
      BY <1>2, <1>4, <3>1
  <2>2. PICK x, y, z, q : x = first /\ y = ending /\ z = p[n - 1].end /\ q = p[n].cut
    OBVIOUS
  <2>3. /\ x \in Nat /\ y \in Nat /\ q \in ToSet(Cuts) /\ x < y /\ y <= Len(s) /\ y = b
    <3>0. PICK k : k = n - 1
      OBVIOUS
    <3>1. k \in 1 .. n /\ n \in 1 .. n /\ k \in 1 .. n - 1 /\ k + 1 = n
      BY <2>1, <3>0
    <3>2. p[k] \in Ranges /\ p[n] \in Ranges
      BY <2>1, <3>1
    <3>3. PICK c, d : c = p[k] /\ d = p[n]
      OBVIOUS
    <3>4. /\ c.start \in Nat /\ c.end \in Nat /\ d.start \in Nat /\ d.end \in Nat /\ d.cut \in ToSet(Cuts)
      BY <3>2, <3>3 DEF Ranges
    <3>5. /\ c.start < c.end /\ c.end <= d.start /\ d.start < d.end /\ d.end <= Len(s) /\ d.end = b
      BY <3>1, <3>3 DEF Run
    <3>6. x = c.start /\ y = d.end /\ q = d.cut
      BY <2>2, <3>0, <3>3
    <3> QED
      BY <3>4, <3>5, <3>6
  <2>4. x \in 0 .. Len(s) /\ y \in x .. Len(s) /\ y - x \in Nat
    BY <2>3
  <2>5. PICK t : t = Slice(s, x, y)
    OBVIOUS
  <2>6. Len(t) = y - x
    BY ONLY <2>4, <2>5, s \in Seq(V), SliceFacts
  <2>7. CASE r = Append(front, one) /\ Tokens(Len(pair)) <= plan.limit
    <3>1. PICK l, d : d = Chunk(x, y, q) /\ l = <<d>>
      OBVIOUS
    <3>2. Run(s, l, x, y)
      BY ONLY <2>3, <3>1, s \in Seq(V), RunOne
    <3>3. Size(d) = Tokens(y - x)
      BY ONLY <2>3, <3>1, SizeOf
    <3>4. Tokens(y - x) <= plan.limit
      BY <2>2, <2>5, <2>6, <2>7
    <3>5. Within(l, plan.limit)
      <4>1. \A i \in 1 .. Len(l) : l[i] = d
        BY <3>1
      <4> QED
        BY <3>3, <3>4, <4>1 DEF Within
    <3>6. front \o l = Append(front, one)
      <4>1. one = d /\ d \in Ranges
        BY <2>2, <2>3, <3>1 DEF Chunk, Ranges
      <4>2. front \in Seq(Ranges)
        <5>1. n - 2 \in 0 .. n
          BY <2>1
        <5>2. PICK k : k = n - 2
          OBVIOUS
        <5> QED
          BY ONLY <2>1, <5>1, <5>2, BeginningFacts
      <4>3. PICK w : w = front
        OBVIOUS
      <4>4. Append(w, d) = w \o <<d>>
        BY ONLY <4>1, <4>2, <4>3, AppendFacts
      <4> QED
        BY <3>1, <4>1, <4>3, <4>4
    <3>7. Run(s, l, p[Len(p) - 1].start, b) /\ Len(p) >= 2
      BY <2>1, <2>2, <2>3, <3>2
    <3>8. Run(s, SubSeq(p, 1, Len(p) - 2) \o l, a, b) /\ Within(SubSeq(p, 1, Len(p) - 2) \o l, plan.limit)
      BY ONLY <3>5, <3>7, s \in Seq(V), Run(s, p, a, b), Within(p, plan.limit), RunReplace
    <3> QED
      BY <2>7, <3>6, <3>8
  <2>8. CASE /\ r = front \o halves
             /\ ~IsBlank(Slice(s, halves[2].start, ending)) /\ fits(halves[1]) /\ fits(halves[2])
    <3>1. PICK m : m = Tokens(Len(t)) \div 2
      OBVIOUS
    <3>2. m \in Nat
      <4>1. PICK k : k = Tokens(y - x)
        OBVIOUS
      <4>2. k \in Nat
        BY <2>4, <4>1, TokensFacts
      <4> QED
        BY <2>6, <3>1, <4>1, <4>2
    <3>3. PICK c : c = CutFrom(s, x, y, m, bounds)
      OBVIOUS
    <3>4. half = c
      BY <2>2, <2>5, <3>1, <3>3 DEF CutFrom
    <3>5. CutsOff(s, x, y, c)
      BY ONLY <2>3, <2>4, <3>2, <3>3, s \in Seq(V), CutFromFacts
    <3>6. PICK e, g, o : e = x + c.at /\ g = x + c.next /\ o = c.q
      OBVIOUS
    <3>7. e \in Nat /\ g \in Nat /\ o \in ToSet(Cuts) /\ x < e /\ e <= g /\ g <= y /\ Gap(s, e, g)
      BY <2>3, <3>5, <3>6 DEF CutsOff
    <3>8. PICK c1, c2 : c1 = Chunk(x, e, o) /\ c2 = Chunk(g, y, q)
      OBVIOUS
    <3>9. halves = <<c1, c2>> /\ halves[1] = c1 /\ halves[2] = c2 /\ c2.start = g
      BY <2>2, <3>4, <3>6, <3>8 DEF Halves, Chunk
    <3>10. g < y
      <4>1. ~IsBlank(Slice(s, g, y))
        BY <2>2, <2>8, <3>9
      <4>2. g \in 0 .. Len(s) /\ y \in 0 .. Len(s)
        BY <2>3, <3>7
      <4>3. ~Gap(s, g, y)
        BY ONLY <4>1, <4>2, s \in Seq(V), BlankSlice
      <4> QED
        BY <2>3, <3>7, <4>3 DEF Gap
    <3>11. e <= Len(s)
      BY <2>3, <3>7
    <3>12. Run(s, <<c1>>, x, e) /\ Run(s, <<c2>>, g, y)
      BY ONLY <2>3, <3>7, <3>8, <3>10, <3>11, s \in Seq(V), RunOne
    <3>13. PICK l1, l2, l : l1 = <<c1>> /\ l2 = <<c2>> /\ l = l1 \o l2
      OBVIOUS
    <3>14. Run(s, l, x, y)
      BY ONLY <3>7, <3>12, <3>13, s \in Seq(V), RunJoin
    <3>15. l = halves
      <4>1. PICK w : w = <<c1, c2>>
        OBVIOUS
      <4>2. w = <<c1>> \o <<c2>>
        <5>1. PICK T, k : T = {c1, c2} /\ k = <<c1>>
          OBVIOUS
        <5>2. k \in Seq(T) /\ c2 \in T
          BY ONLY <5>1
        <5>3. Append(k, c2) = k \o <<c2>>
          BY ONLY <5>2, AppendFacts
        <5>4. Append(k, c2) = w
          <6>1. PICK v : v = Append(k, c2)
            OBVIOUS
          <6>2. v \in Seq(T) /\ Len(v) = 2 /\ v[1] = c1 /\ v[2] = c2
            BY ONLY <5>1, <5>2, <6>1
          <6>3. w \in Seq(T) /\ Len(w) = 2 /\ w[1] = c1 /\ w[2] = c2
            BY ONLY <4>1, <5>1
          <6>4. \A i \in 1 .. Len(v) : v[i] = w[i]
            BY ONLY <6>2, <6>3
          <6> QED
            BY ONLY <6>1, <6>2, <6>3, <6>4, SeqEqual
        <5> QED
          BY ONLY <5>1, <5>3, <5>4
      <4> HIDE DEF halves
      <4> QED
        BY <3>9, <3>13, <4>1, <4>2, Zenon
    <3>16. Within(halves, plan.limit)
      <4>1. \A i \in 1 .. Len(halves) : i = 1 \/ i = 2
        <5> HIDE DEF halves
        <5> QED
          BY ONLY <3>9
      <4>2. Size(c1) <= plan.limit /\ Size(c2) <= plan.limit
        BY <2>8, <3>9
      <4> HIDE DEF halves
      <4> QED
        BY <3>9, <4>1, <4>2 DEF Within
    <3>17. PICK w : w = halves
      OBVIOUS
    <3>18. Run(s, w, p[Len(p) - 1].start, b) /\ Len(p) >= 2 /\ Within(w, plan.limit)
      BY <2>1, <2>2, <2>3, <3>14, <3>15, <3>16, <3>17
    <3>19. Run(s, SubSeq(p, 1, Len(p) - 2) \o w, a, b) /\ Within(SubSeq(p, 1, Len(p) - 2) \o w, plan.limit)
      BY ONLY <3>18, s \in Seq(V), Run(s, p, a, b), Within(p, plan.limit), RunReplace
    <3> HIDE DEF front, halves
    <3>20. r = front \o w
      BY <2>8, <3>17
    <3>21. front = SubSeq(p, 1, Len(p) - 2)
      BY DEF front
    <3> QED
      BY ONLY <3>19, <3>20, <3>21
  <2> HIDE DEF pair, halves, one, front, ending
  <2> QED
    BY <1>2, <1>4, <2>7, <2>8
<1> QED
  BY <1>3, <1>4

---------------------------------------------------------------------------
(* The plan and the split of the command.                                    *)

\* A plan that is not refused.
Usual(pol_) == ValidPolicy(pol_) /\ pol_.context \in Int /\ pol_.reserve \in Int /\ pol_.streams \in Int

LEMMA PlanFacts ==
  ASSUME NEW n \in Nat, NEW p, Usual(p), ~PlanOf(n, p).refused
  PROVE  /\ PlanOf(n, p).target \in Nat /\ PlanOf(n, p).limit = Usable(p)
         /\ PlanOf(n, p).chunks <= 1 => n <= Usable(p)
         /\ PlanOf(n, p).chunks \in Int
         /\ PlanOf(n, p).chunks > 1 => PlanOf(n, p).target \in 1 .. Usable(p)
<1> DEFINE fewest == CeilDiv(n, Usable(p))
           many == IF p.heavy THEN Min({2 * fewest, p.streams}) ELSE fewest
<1>1. PICK u, s : u = Usable(p) /\ s = p.streams
  OBVIOUS
<1>2. u \in Nat \ {0} /\ s \in Int
  <2>1. PICK c, r : c = p.context /\ r = p.reserve
    OBVIOUS
  <2>2. c \in Int /\ r \in Int
    BY <2>1 DEF Usual
  <2>3. u = IF c - r < 1 THEN 0 ELSE c - r
    BY <1>1, <2>1 DEF Usable
  <2> QED
    BY <1>1, <2>2, <2>3 DEF Usual, ValidPolicy
<1>3. PICK P : P = PlanOf(n, p)
  OBVIOUS
<1>4. P = IF n <= u THEN [refused |-> FALSE, chunks |-> 1, target |-> n, limit |-> u]
          ELSE IF fewest > s THEN [refused |-> TRUE, chunks |-> 0, target |-> 0, limit |-> 0]
          ELSE [refused |-> FALSE, chunks |-> many, target |-> CeilDiv(n, many), limit |-> u]
  BY <1>1, <1>3 DEF PlanOf
<1>5. ~P.refused
  BY <1>3
<1>6. CASE n <= u
  <2>1. P.target = n /\ P.limit = u /\ P.chunks = 1
    BY <1>4, <1>6
  <2> QED
    BY <1>1, <1>3, <1>6, <2>1
<1>7. CASE ~(n <= u)
  <2>1. PICK f, m : f = fewest /\ m = many
    OBVIOUS
  <2>2. f \in Int /\ f >= 2
    <3>1. f = (n + u - 1) \div u
      BY <1>1, <1>2, <2>1 DEF CeilDiv
    <3>2. (n + u - 1) \div u \in Int /\ ((n + u - 1) \div u <= 1 <=> n <= u * 1)
      <4>1. n \in Int /\ 1 \in Int
        OBVIOUS
      <4>2. PICK one : one = 1
        OBVIOUS
      <4>3. (n + u - 1) \div u \in Int /\ ((n + u - 1) \div u <= one <=> n <= u * one)
        <5>1. one \in Int
          BY <4>2
        <5> QED
          BY ONLY <1>2, <4>1, <5>1, Ceiling
      <4> QED
        BY <4>2, <4>3
    <3> QED
      BY <1>2, <1>7, <3>1, <3>2
  <2>3. ~(f > s)
    <3> HIDE DEF fewest, many
    <3> QED
      BY <1>4, <1>5, <1>7, <2>1
  <2>4. m \in Int /\ m >= 2 /\ m >= f
    <3>1. m = IF p.heavy THEN Min({2 * f, s}) ELSE f
      BY <1>1, <2>1
    <3>2. Min({2 * f, s}) \in Int /\ Min({2 * f, s}) >= 2 /\ Min({2 * f, s}) >= f
      <4>1. PICK d : d = 2 * f
        OBVIOUS
      <4>2. d \in Int /\ d >= 2 /\ d >= f /\ s \in Int /\ s >= 2 /\ s >= f
        BY <1>2, <2>2, <2>3, <4>1
      <4>3. Min({d, s}) \in {d, s}
        BY ONLY <4>2, MinOfTwo
      <4> QED
        BY <4>1, <4>2, <4>3
    <3> QED
      BY <2>2, <3>1, <3>2
  <2>5. CeilDiv(n, m) \in Nat
    <3>1. CeilDiv(n, m) = (n + m - 1) \div m
      BY <2>4 DEF CeilDiv
    <3>2. n + m - 1 \in Nat /\ m \in Nat \ {0}
      BY <2>4
    <3>3. PICK a : a = n + m - 1
      OBVIOUS
    <3>4. a \div m \in Nat
      BY <3>2, <3>3
    <3> QED
      BY <3>1, <3>3, <3>4
  <2>6. P.target = CeilDiv(n, m) /\ P.limit = u /\ P.chunks = m
    <3> HIDE DEF fewest, many
    <3> QED
      BY <1>4, <1>7, <2>1, <2>3
  <2>7. CeilDiv(n, m) \in 1 .. u
    <3>1. CeilDiv(n, m) = (n + m - 1) \div m /\ f = (n + u - 1) \div u
      BY <1>1, <1>2, <2>1, <2>4 DEF CeilDiv
    <3>2. PICK a, t, zero : a = m /\ t = CeilDiv(n, m) /\ zero = 0
      OBVIOUS
    <3>3. n \in Int /\ a \in Nat \ {0} /\ zero \in Int /\ u \in Int /\ f \in Int
      BY <1>2, <2>2, <2>4, <3>2
    <3>4. (n + a - 1) \div a <= u <=> n <= a * u
      BY ONLY <3>3, Ceiling
    <3>5. (n + a - 1) \div a <= zero <=> n <= a * zero
      BY ONLY <3>3, Ceiling
    <3>6. (n + u - 1) \div u <= f <=> n <= u * f
      BY ONLY <1>2, <3>3, Ceiling
    <3>7. n <= u * f
      BY <2>2, <3>1, <3>6
    <3>8. u * f <= a * u
      BY <1>2, <2>2, <2>4, <3>2
    <3>9. n <= a * u
      <4>1. PICK v, w : v = u * f /\ w = a * u
        OBVIOUS
      <4>2. v \in Int /\ w \in Int
        BY <3>3, <4>1
      <4> QED
        BY <3>7, <3>8, <4>1, <4>2
    <3>10. n > 0 /\ a * zero = 0
      BY <1>2, <1>7, <3>2, <3>3
    <3> QED
      BY <1>2, <2>5, <3>1, <3>2, <3>4, <3>5, <3>9, <3>10
  <2> QED
    BY <1>1, <1>3, <2>4, <2>5, <2>6, <2>7
<1> QED
  BY <1>6, <1>7

\* A text of chunks with only blanks around them and none above the limit.
Whole(s, p, limit) ==
  /\ p \in Seq(Ranges)
  /\ p # <<>> => /\ p[1].start = 0 /\ Gap(s, p[Len(p)].end, Len(s))
  /\ \A i \in 1 .. Len(p) : p[i].start <= p[i].end /\ p[i].end <= Len(s)
  /\ \A i \in 1 .. Len(p) - 1 : p[i].end <= p[i + 1].start /\ Gap(s, p[i].end, p[i + 1].start)
  /\ Within(p, limit)

LEMMA RunWhole ==
  ASSUME NEW s, NEW p, NEW b, NEW limit, Run(s, p, 0, b), Gap(s, b, Len(s)), Within(p, limit)
  PROVE  Whole(s, p, limit)
<1>1. p \in Seq(Ranges) /\ p[1].start = 0 /\ p[Len(p)].end = b
  BY DEF Run
<1>2. ASSUME NEW i \in 1 .. Len(p) PROVE p[i].start <= p[i].end /\ p[i].end <= Len(s)
  <2>1. p[i] \in Ranges
    BY <1>1
  <2>2. p[i].start \in Nat /\ p[i].end \in Nat
    BY <2>1 DEF Ranges
  <2> QED
    BY <2>2 DEF Run
<1>3. \A i \in 1 .. Len(p) - 1 : p[i].end <= p[i + 1].start /\ Gap(s, p[i].end, p[i + 1].start)
  BY DEF Run
<1> QED
  BY <1>1, <1>2, <1>3 DEF Whole

\* The split of a text by its plan.
LEMMA SplitFacts ==
  ASSUME NEW V, NEW s \in Seq(V), NEW p, Usual(p), ~PlanOf(Tokens(Len(s)), p).refused, NEW bounds
  PROVE  Whole(s, SplitAt(s, PlanOf(Tokens(Len(s)), p), bounds), Usable(p))
<1>1. PICK P, n, m : P = PlanOf(Tokens(Len(s)), p) /\ n = Tokens(Len(s)) /\ m = Len(s)
  OBVIOUS
<1>2. m \in Nat /\ n \in Nat /\ n = Tokens(m)
  <2>1. m \in Nat
    BY <1>1
  <2>2. Tokens(m) \in Nat
    BY <2>1, TokensFacts
  <2> QED
    BY <1>1, <2>1, <2>2
<1>3. P.target \in Nat /\ P.limit = Usable(p) /\ (P.chunks <= 1 => n <= Usable(p))
  <2>1. P = PlanOf(n, p) /\ ~PlanOf(n, p).refused
    BY <1>1
  <2> QED
    BY ONLY <1>2, <2>1, Usual(p), PlanFacts
<1>4. PICK c, r : c = Pieces(s, P, bounds) /\ r = SplitAt(s, P, bounds)
  OBVIOUS
<1>5. r = IF P.chunks <= 1 THEN <<Chunk(0, m, "end")>>
          ELSE IF \E i \in DOMAIN c : Size(c[i]) > P.limit THEN <<>>
          ELSE FoldRunt(s, c, P, bounds)
  BY <1>1, <1>4 DEF SplitAt
<1> SUFFICES Whole(s, r, Usable(p))
  BY <1>1, <1>4
<1>6. \A e : e = <<>> => Whole(s, e, Usable(p))
  <2> SUFFICES ASSUME NEW e, e = <<>> PROVE Whole(s, e, Usable(p))
    OBVIOUS
  <2>1. e \in Seq(Ranges) /\ Len(e) = 0
    OBVIOUS
  <2> QED
    BY <2>1 DEF Whole, Within
<1>7. CASE P.chunks <= 1
  <2>1. PICK d : d = Chunk(0, m, "end")
    OBVIOUS
  <2>2. d \in Ranges /\ d.start = 0 /\ d.end = m
    BY <1>2, <2>1, CutNames DEF Chunk, Ranges
  <2>3. r = <<d>>
    BY <1>5, <1>7, <2>1
  <2>4. r \in Seq(Ranges) /\ Len(r) = 1 /\ r[1] = d
    BY <2>2, <2>3
  <2>5. Size(d) <= Usable(p)
    <3>1. Size(d) = Tokens(m - 0)
      <4>1. PICK z, q : z = 0 /\ q = "end"
        OBVIOUS
      <4>2. z \in Nat /\ z <= m /\ d = Chunk(z, m, q)
        BY <1>2, <2>1, <4>1
      <4>3. Size(Chunk(z, m, q)) = Tokens(m - z)
        BY ONLY <1>2, <4>2, SizeOf
      <4> QED
        BY <4>1, <4>2, <4>3
    <3>2. m - 0 = m
      BY <1>2
    <3> QED
      BY <1>2, <1>3, <1>7, <3>1, <3>2
  <2>6. Gap(s, m, m)
    BY <1>2 DEF Gap
  <2>7. \A i \in 1 .. Len(r) : i = 1
    BY <2>4
  <2>8. \A i \in 1 .. Len(r) - 1 : FALSE
    BY <2>4
  <2> QED
    BY <1>1, <1>2, <2>2, <2>4, <2>5, <2>6, <2>7, <2>8 DEF Whole, Within
<1>8. CASE ~(P.chunks <= 1) /\ \E i \in DOMAIN c : Size(c[i]) > P.limit
  <2>1. r = <<>>
    BY <1>5, <1>8
  <2> QED
    BY <1>6, <2>1
<1>9. CASE ~(P.chunks <= 1) /\ ~\E i \in DOMAIN c : Size(c[i]) > P.limit
  <2>1. Cover(s, c, 0)
    BY ONLY <1>3, <1>4, s \in Seq(V), PiecesFacts
  <2>2. c \in Seq(Ranges)
    BY <2>1 DEF Cover
  <2>3. r = FoldRunt(s, c, P, bounds)
    BY <1>5, <1>9
  <2>4. CASE c = <<>>
    <3>1. r = c
      BY <2>3, <2>4 DEF FoldRunt
    <3> QED
      BY <1>6, <2>4, <3>1
  <2>5. CASE c # <<>>
    <3>1. PICK b \in Nat : Run(s, c, 0, b) /\ Gap(s, b, Len(s))
      <4>1. PICK z : z = 0
        OBVIOUS
      <4>2. Cover(s, c, z)
        BY <2>1, <4>1
      <4>3. \E b \in Nat : Run(s, c, z, b) /\ Gap(s, b, Len(s))
        BY ONLY <2>5, <4>2, s \in Seq(V), CoverRun
      <4> QED
        BY <4>1, <4>3
    <3>2. Within(c, P.limit)
      <4> SUFFICES ASSUME NEW i \in 1 .. Len(c) PROVE Size(c[i]) <= P.limit
        BY DEF Within
      <4>1. i \in DOMAIN c /\ c[i] \in Ranges
        BY <2>2
      <4>2. ~(Size(c[i]) > P.limit)
        BY <1>9, <4>1
      <4>3. Size(c[i]) \in Int
        <5>1. c[i].start \in Nat /\ c[i].end \in Nat
          BY <4>1 DEF Ranges
        <5>2. PICK k, t : k = c[i].end - c[i].start /\ t = 0
          OBVIOUS
        <5>3. k \in Int /\ t \in Int
          BY <5>1, <5>2
        <5>4. Tokens(k) \in Int
          BY ONLY <5>3, TokensBound
        <5> QED
          BY <5>2, <5>4 DEF Size
      <4>4. P.limit \in Int
        <5>1. PICK x, y : x = p.context /\ y = p.reserve
          OBVIOUS
        <5>2. x \in Int /\ y \in Int
          BY <5>1 DEF Usual
        <5> QED
          BY <1>3, <5>1, <5>2 DEF Usable
      <4> QED
        BY <4>2, <4>3, <4>4
    <3>3. PICK z : z = 0
      OBVIOUS
    <3>4. Run(s, c, z, b)
      BY <3>1, <3>3
    <3>5. Run(s, r, z, b) /\ Within(r, P.limit)
      BY ONLY <2>3, <3>2, <3>4, s \in Seq(V), FoldFacts
    <3>6. Whole(s, r, P.limit)
      BY <3>1, <3>3, <3>5, RunWhole
    <3> QED
      BY <1>3, <3>6
  <2> QED
    BY <2>4, <2>5
<1> QED
  BY <1>7, <1>8, <1>9

---------------------------------------------------------------------------
(* The command.                                                              *)

\* A policy of the command, with the numbers it is made of.
LEMMA PolicyFacts ==
  ASSUME NEW p \in Policies, ValidPolicy(p)
  PROVE  Usual(p)
  BY VcontextAssumption DEF Usual

\* The chunks are the split of the document by its plan.
ChunksInv ==
  /\ text \in Texts /\ pol \in Policies
  /\ chunks \in Seq(Ranges)
  /\ chunks # <<>> => /\ Usual(pol) /\ ~Plan.refused /\ chunks = SplitAt(text, Plan, {})

LEMMA ChunksInvInit ==
  ASSUME VcontextInit
  PROVE  ChunksInv
<1>1. PICK c : c = chunks
  OBVIOUS
<1>2. c = <<>>
  BY <1>1 DEF VcontextInit
<1>3. c \in Seq(Ranges)
  BY ONLY <1>2, EmptySeq
<1> QED
  BY <1>1, <1>2, <1>3 DEF VcontextInit, ChunksInv

\* Split brings them, no other action changes them.
LEMMA ChunksInvNext ==
  ASSUME ChunksInv, VcontextNext \/ UNCHANGED vcontextVars
  PROVE  ChunksInv'
<1>1. text' = text /\ pol' = pol
  BY DEF VcontextNext, Step, Refuse, Split, Timeout, AcquirePermit, Answers, Conclude, Skeleton, RunFails,
         Retrieve, Answer, Stopped, vcontextVars, input
<1>2. Split \/ chunks' = chunks
  BY DEF VcontextNext, Step, Refuse, Timeout, AcquirePermit, Answers, Conclude, Skeleton, RunFails,
         Retrieve, Answer, Stopped, vcontextVars, input
<1>3. Plan' = Plan
  BY <1>1 DEF Plan
<1>4. CASE Split
  <2>1. ValidPolicy(pol) /\ ~Plan.refused /\ chunks' = SplitAt(text, Plan, {})
    BY <1>4 DEF Split
  <2>2. text \in Texts /\ pol \in Policies
    BY DEF ChunksInv
  <2>3. Usual(pol)
    BY ONLY <2>1, <2>2, PolicyFacts
  <2>4. PICK s, p, V, e, P : s = text /\ p = pol /\ V = ToSet(text) /\ e = {} /\ P = Plan
    OBVIOUS
  <2>5. s \in Seq(V) /\ Usual(p) /\ ~PlanOf(Tokens(Len(s)), p).refused /\ P = PlanOf(Tokens(Len(s)), p)
    BY <2>1, <2>2, <2>3, <2>4, VcontextAssumption DEF Plan
  <2>6. Whole(s, SplitAt(s, PlanOf(Tokens(Len(s)), p), e), Usable(p))
    BY ONLY <2>5, SplitFacts
  <2>7. SplitAt(s, P, e) \in Seq(Ranges)
    BY <2>5, <2>6 DEF Whole
  <2>8. chunks' \in Seq(Ranges)
    BY ONLY <2>1, <2>4, <2>7
  <2> QED
    BY <1>1, <1>3, <2>1, <2>2, <2>3, <2>8 DEF ChunksInv
<1>5. CASE chunks' = chunks
  BY <1>1, <1>3, <1>5 DEF ChunksInv
<1> QED
  BY <1>2, <1>4, <1>5

LEMMA ChunksInvSound ==
  ASSUME ChunksInv
  PROVE  NothingDropped
<1>1. CASE Len(chunks) > 0
  <2>1. PICK s, p, c, V, e, P, n :
          s = text /\ p = pol /\ c = chunks /\ V = ToSet(text) /\ e = {} /\ P = Plan /\ n = Len(c)
    OBVIOUS
  <2>2. c \in Seq(Ranges) /\ n > 0 /\ n \in Nat
    BY <1>1, <2>1 DEF ChunksInv
  <2>3. c # <<>>
    BY <2>1, <2>2
  <2>4. /\ s \in Seq(V) /\ Usual(p) /\ ~PlanOf(Tokens(Len(s)), p).refused
        /\ P = PlanOf(Tokens(Len(s)), p) /\ c = SplitAt(s, P, e)
    BY <2>1, <2>3, VcontextAssumption DEF ChunksInv, Plan
  <2>5. Whole(s, SplitAt(s, PlanOf(Tokens(Len(s)), p), e), Usable(p))
    BY ONLY <2>4, SplitFacts
  <2>6. Whole(s, c, Usable(p))
    BY <2>4, <2>5
  <2>7. c[1].start = 0 /\ Gap(s, c[n].end, Len(s))
    BY <2>1, <2>3, <2>6 DEF Whole
  <2>8. \A i \in 1 .. n : c[i].start \in Nat /\ c[i].end \in 0 .. Len(s) /\ c[i].start <= c[i].end
    <3> SUFFICES ASSUME NEW i \in 1 .. n
                 PROVE  c[i].start \in Nat /\ c[i].end \in 0 .. Len(s) /\ c[i].start <= c[i].end
      OBVIOUS
    <3>1. c[i] \in Ranges
      BY <2>1, <2>2
    <3>2. c[i].start \in Nat /\ c[i].end \in Nat
      BY <3>1 DEF Ranges
    <3>3. c[i].start <= c[i].end /\ c[i].end <= Len(s)
      BY <2>1, <2>6 DEF Whole
    <3> QED
      BY <2>4, <3>2, <3>3
  <2>9. ASSUME NEW i \in 1 .. n - 1
        PROVE  c[i].end <= c[i + 1].start /\ IsBlank(Slice(s, c[i].end, c[i + 1].start))
    <3>1. i \in 1 .. n /\ i + 1 \in 1 .. n
      BY <2>2
    <3>2. c[i].end <= c[i + 1].start /\ Gap(s, c[i].end, c[i + 1].start)
      BY <2>1, <2>6 DEF Whole
    <3>3. PICK a, b : a = c[i].end /\ b = c[i + 1].start
      OBVIOUS
    <3>4. a \in 0 .. Len(s) /\ b \in 0 .. Len(s)
      <4>1. PICK d : d = c[i + 1].end
        OBVIOUS
      <4>2. d \in 0 .. Len(s) /\ b \in Nat /\ b <= d
        BY <2>8, <3>1, <3>3, <4>1
      <4>3. a \in 0 .. Len(s)
        BY <2>8, <3>1, <3>3
      <4> QED
        BY <4>2, <4>3
    <3>5. IsBlank(Slice(s, a, b)) <=> Gap(s, a, b)
      BY ONLY <2>4, <3>4, BlankSlice
    <3> QED
      BY <3>2, <3>3, <3>5
  <2>10. IsBlank(Slice(s, c[n].end, Len(s)))
    <3>1. PICK a, m : a = c[n].end /\ m = Len(s)
      OBVIOUS
    <3>2. n \in 1 .. n
      BY <2>2
    <3>3. a \in 0 .. Len(s) /\ m \in 0 .. Len(s)
      BY <2>4, <2>8, <3>1, <3>2
    <3>4. IsBlank(Slice(s, a, m)) <=> Gap(s, a, m)
      BY ONLY <2>4, <3>3, BlankSlice
    <3> QED
      BY <2>7, <3>1, <3>4
  <2>11. \A i \in 1 .. n : Size(c[i]) <= Usable(p)
    BY <2>1, <2>6 DEF Whole, Within
  <2> QED
    BY <2>1, <2>7, <2>9, <2>10, <2>11 DEF NothingDropped, Bare
<1> QED
  BY <1>1 DEF NothingDropped

---------------------------------------------------------------------------
(* What Dispatch records and what is merged.                                 *)

\* What Dispatch records is told from what it found to be wrong.
AnswerInv ==
  /\ DOMAIN result = 1 .. Len(chunks)
  /\ \A i \in DOMAIN result : Parses(result[i]) => result[i] \in Replies
  /\ phase = "merged" =>
       /\ \A i \in DOMAIN result : Parses(result[i])
       /\ merged = Merge({Digest(i) : i \in DOMAIN result}, rules)

LEMMA AnswerInvInit ==
  ASSUME VcontextInit
  PROVE  AnswerInv
<1>1. PICK c, r : c = chunks /\ r = result
  OBVIOUS
<1>2. c = <<>> /\ r = <<>>
  BY <1>1 DEF VcontextInit
<1>3. DOMAIN r = 1 .. Len(c) /\ \A i \in DOMAIN r : FALSE
  BY <1>2
<1>4. phase # "merged"
  BY DEF VcontextInit
<1> QED
  BY <1>1, <1>3, <1>4 DEF AnswerInv

LEMMA AnswerInvNext ==
  ASSUME ChunksInv, ChunksInv', AnswerInv, VcontextNext \/ UNCHANGED vcontextVars
  PROVE  AnswerInv'
<1>1. ~Parses(Error) /\ ~Parses(Garbage) /\ ~Parses([is |-> "none"])
  BY DEF Parses, Error, Garbage
<1>2. CASE Split
  <2>1. result' = [i \in DOMAIN chunks' |-> [is |-> "none"]]
    BY <1>2 DEF Split
  <2>2. DOMAIN chunks' = 1 .. Len(chunks')
    BY DEF ChunksInv
  <2>3. DOMAIN result' = 1 .. Len(chunks') /\ \A i \in DOMAIN result' : ~Parses(result'[i])
    BY <1>1, <2>1, <2>2
  <2>4. phase' # "merged"
    BY <1>2 DEF Split
  <2> QED
    BY <2>3, <2>4 DEF AnswerInv, Parses
<1>3. ASSUME NEW i, AcquirePermit(i) \/ Answers(i)
      PROVE  AnswerInv'
  <2>1. PICK r : result' = [result EXCEPT ![i] = r] /\ (r \in Replies \/ ~Parses(r) \/ r = result[i])
    BY <1>1, <1>3 DEF AcquirePermit, Answers
  <2>2. phase' # "merged" /\ chunks' = chunks
    BY <1>3 DEF AcquirePermit, Answers
  <2>3. DOMAIN result' = DOMAIN result
    BY <2>1
  <2>4. \A j \in DOMAIN result' : result'[j] = r \/ result'[j] = result[j]
    BY <2>1
  <2>5. \A j \in DOMAIN result' : result'[j] = result[j] \/ (j = i /\ result'[j] = r)
    BY <2>1
  <2>6. \A j \in DOMAIN result' : Parses(result'[j]) => result'[j] \in Replies
    BY <2>1, <2>3, <2>5 DEF AnswerInv
  <2> QED
    BY <2>2, <2>3, <2>6 DEF AnswerInv, Parses
<1>4. CASE Conclude
  <2>1. result' = result /\ chunks' = chunks /\ rules' = rules
    BY <1>4 DEF Conclude, input
  <2>2. ASSUME phase' = "merged"
        PROVE  /\ \A i \in DOMAIN result : Parses(result[i])
               /\ merged' = Merge({Digest(i) : i \in DOMAIN result}, rules)
    <3>1. Digestible # {} /\ merged' = Merge({Digest(i) : i \in Digestible}, rules)
      BY <1>4, <2>2 DEF Conclude
    <3>2. Digestible = DOMAIN result /\ \A i \in DOMAIN result : Parses(result[i])
      BY <3>1 DEF Digestible
    <3> QED
      BY <3>1, <3>2
  <2>3. \A i : Digest(i)' = Digest(i)
    BY <2>1 DEF Digest
  <2>4. {Digest(i) : i \in DOMAIN result}' = {Digest(i) : i \in DOMAIN result}
    BY <2>1, <2>3
  <2> QED
    BY <2>1, <2>2, <2>4 DEF AnswerInv, Parses
<1>5. CASE result' = result /\ chunks' = chunks /\ rules' = rules /\ merged' = merged
           /\ (phase' = "merged" => phase = "merged")
  <2>1. \A i : Digest(i)' = Digest(i)
    BY <1>5 DEF Digest
  <2>2. {Digest(i) : i \in DOMAIN result}' = {Digest(i) : i \in DOMAIN result}
    BY <1>5, <2>1
  <2> QED
    BY <1>5, <2>2 DEF AnswerInv, Parses
<1>6. Split \/ Conclude \/ (\E i : AcquirePermit(i) \/ Answers(i))
      \/ (result' = result /\ chunks' = chunks /\ rules' = rules /\ merged' = merged
          /\ (phase' = "merged" => phase = "merged"))
  BY DEF VcontextNext, Step, Refuse, Timeout, Skeleton, RunFails, Retrieve, Answer, Stopped, vcontextVars,
         input
<1> QED
  BY <1>2, <1>3, <1>4, <1>5, <1>6

\* What a merged answer says of every chunk.
LEMMA AnswerInvSound ==
  ASSUME ChunksInv, AnswerInv
  PROVE  AnswerIsWhole
<1> SUFFICES ASSUME phase = "merged" PROVE AnswerIsWhole
  BY DEF AnswerIsWhole
<1>1. PICK n, ds, rl, m : /\ n = Len(chunks) /\ ds = {Digest(i) : i \in DOMAIN result}
                          /\ rl = rules /\ m = merged
  OBVIOUS
<1>2. n \in Nat /\ DOMAIN chunks = 1 .. n /\ DOMAIN result = 1 .. n
  BY <1>1 DEF ChunksInv, AnswerInv
<1>3. m = Merge(ds, rl)
  BY <1>1 DEF AnswerInv
<1>4. Answered(ds, n)
  BY <1>1, <1>2 DEF Answered
<1>5. /\ Merge(ds, rl).chunks = n
      /\ \A i \in 1 .. n : \A k \in DOMAIN Digest(i).data :
           /\ i - 1 \in Merge(ds, rl).sources[k]
           /\ \A j \in 1 .. n :
                /\ k \in DOMAIN Digest(j).data /\ k \notin DOMAIN rl
                /\ Printed(Digest(i).data[k]) # Printed(Digest(j).data[k])
                => k \in DOMAIN Merge(ds, rl).conflicts
  BY ONLY <1>4, MergeFacts
<1>6. \A i \in 1 .. n : result[i] \in Replies
  BY <1>2 DEF AnswerInv
<1> QED
  BY <1>1, <1>2, <1>3, <1>5, <1>6 DEF AnswerIsWhole

---------------------------------------------------------------------------
(* What repairs a bad cut.                                                   *)

\* Where the end of a text begins that costs at most n: within it, and it does.
LEMMA LastFacts ==
  ASSUME NEW V, NEW s \in Seq(V), NEW n \in Nat
  PROVE  LastTokens(s, n) \in 0 .. Len(s) /\ Tokens(Len(s) - LastTokens(s, n)) <= n
<1> DEFINE fit == {i \in 0 .. Len(s) : Tokens(Len(s) - i) <= n}
           bl == Blanks(s, Min(fit), Len(s))
<1>1. PICK m, lo, from : m = Len(s) /\ lo = Min(fit) /\ from = LastTokens(s, n)
  OBVIOUS
<1>2. m \in Nat
  BY <1>1
<1>3. fit \in SUBSET Nat /\ m \in fit
  <2>1. m - m = 0 /\ m \in 0 .. m
    BY <1>2
  <2>2. Tokens(0) = 0
    BY <1>2, TokensFacts
  <2> QED
    BY <1>1, <2>1, <2>2
<1>4. lo \in fit
  <2> HIDE DEF fit
  <2> QED
    BY <1>1, <1>3, MinOfSome
<1>5. lo \in 0 .. m /\ Tokens(m - lo) <= n
  BY <1>1, <1>4
<1>6. from = IF lo = 0 \/ bl = {} THEN lo ELSE IF Min(bl) = m - 1 THEN lo ELSE Min(bl) + 1
  BY <1>1 DEF LastTokens
<1>7. from \in lo .. m
  <2>1. CASE from = lo
    BY <1>2, <1>5, <2>1
  <2>2. CASE from # lo
    <3>1. bl # {} /\ from = Min(bl) + 1
      <4> HIDE DEF bl
      <4> QED
        BY <1>6, <2>2
    <3>2. bl \in SUBSET (lo .. m - 1)
      BY <1>1 DEF Blanks
    <3>3. bl \in SUBSET Nat
      BY <1>2, <1>5, <3>2
    <3>4. Min(bl) \in bl
      <4> HIDE DEF bl
      <4> QED
        BY <3>1, <3>3, MinOfSome
    <3>5. PICK k : k = Min(bl)
      OBVIOUS
    <3>6. k \in lo .. m - 1
      <4> HIDE DEF bl
      <4> QED
        BY <3>2, <3>4, <3>5
    <3> QED
      BY <1>2, <1>5, <3>1, <3>5, <3>6
  <2> QED
    BY <2>1, <2>2
<1>8. Tokens(m - from) <= n
  <2>1. PICK k, d : k = m - lo /\ d = m - from
    OBVIOUS
  <2>2. k \in Nat /\ d \in 0 .. k
    BY <1>2, <1>5, <1>7, <2>1
  <2>3. Tokens(d) \in Nat /\ Tokens(d) <= Tokens(k) /\ k \in 0 .. k
    BY <2>2, TokensFacts
  <2>4. Tokens(k) \in Nat
    BY <2>2, <2>3, TokensFacts
  <2> QED
    BY <1>5, <2>1, <2>3, <2>4
<1>9. from \in 0 .. m
  BY <1>2, <1>5, <1>7
<1> QED
  BY <1>1, <1>8, <1>9

\* A chunk of a text.
ChunkOf(s, c) == c.start \in 0 .. Len(s) /\ c.end \in c.start .. Len(s)

\* What a chunk borrows is the end of the one before it.
LEMMA BorrowedFacts ==
  ASSUME NEW V, NEW s \in Seq(V), NEW p, NEW n \in Nat, NEW i \in Nat, ChunkOf(s, p[i - 1]),
         Borrowed(s, p, n, i) # <<>>
  PROVE  /\ p[i - 1].start <= Borrowed(s, p, n, i)[1]
         /\ Borrowed(s, p, n, i)[2] = p[i - 1].end
         /\ Tokens(Borrowed(s, p, n, i)[2] - Borrowed(s, p, n, i)[1]) <= n
         /\ ~IsBlank(Slice(s, Borrowed(s, p, n, i)[1], Borrowed(s, p, n, i)[2]))
<1>1. PICK a, b, t, f, B : /\ a = p[i - 1].start /\ b = p[i - 1].end /\ t = Slice(s, a, b)
                           /\ f = LastTokens(t, n) /\ B = Borrowed(s, p, n, i)
  OBVIOUS
<1>2. a \in 0 .. Len(s) /\ b \in a .. Len(s) /\ Len(s) \in Nat
  BY <1>1 DEF ChunkOf
<1>10. t = Slice(s, a, b)
  BY <1>1
<1>3. /\ t \in Seq(V) /\ Len(t) = b - a
      /\ \A j \in 0 .. b - a - 1 : t[j + 1] = s[a + j + 1]
  BY ONLY <1>2, <1>10, s \in Seq(V), SliceFacts
<1>4. f \in 0 .. Len(t) /\ Tokens(Len(t) - f) <= n
  BY ONLY <1>1, <1>3, n \in Nat, LastFacts
<1>5. B = <<a + f, b>> /\ ~IsBlank(Slice(t, f, Len(t)))
  BY <1>1 DEF Borrowed
<1>6. PICK x : x = a + f
  OBVIOUS
<1>7. B[1] = x /\ B[2] = b
  BY <1>5, <1>6
<1>8. x \in a .. b /\ b - x = Len(t) - f
  BY <1>2, <1>3, <1>4, <1>6
<1>9. ~IsBlank(Slice(s, x, b))
  <2>1. PICK m : m = Len(t)
    OBVIOUS
  <2>2. f \in 0 .. Len(t) /\ m \in 0 .. Len(t) /\ m = b - a
    BY <1>2, <1>3, <1>4, <2>1
  <2>3. ~Gap(t, f, m)
    BY ONLY <1>3, <1>5, <2>1, <2>2, BlankSlice
  <2>4. PICK j \in f .. m - 1 : t[j + 1] \notin Blank
    BY <2>3 DEF Gap
  <2>5. PICK k : k = a + j
    OBVIOUS
  <2>6. k \in x .. b - 1 /\ j \in 0 .. b - a - 1 /\ a + j + 1 = k + 1
    BY <1>2, <1>6, <1>8, <2>2, <2>5
  <2>7. s[k + 1] \notin Blank
    BY <1>3, <2>4, <2>6
  <2>8. ~Gap(s, x, b)
    BY <2>6, <2>7 DEF Gap
  <2>9. x \in 0 .. Len(s) /\ b \in 0 .. Len(s)
    BY <1>2, <1>8
  <2> QED
    BY ONLY <2>8, <2>9, s \in Seq(V), BlankSlice
<1> QED
  BY <1>1, <1>2, <1>4, <1>7, <1>8, <1>9

\* A bridge reaches from one side of a cut to the other.
LEMMA BridgeFacts ==
  ASSUME NEW p, NEW w \in Nat, NEW i \in Nat, NEW s, ChunkOf(s, p[i]), ChunkOf(s, p[i + 1])
  PROVE  /\ BridgeRange(p, w, i).start <= p[i].end
         /\ p[i + 1].start <= BridgeRange(p, w, i).end
<1>1. PICK a, b, c, d, x, y : /\ a = p[i].start /\ b = p[i].end /\ c = p[i + 1].start /\ d = p[i + 1].end
                              /\ x = b - w /\ y = c + w
  OBVIOUS
<1>2. a \in Int /\ b \in Int /\ c \in Int /\ d \in Int /\ a <= b /\ c <= d
  BY <1>1, SMTT(60) DEF ChunkOf
<1>3. x \in Int /\ x <= b /\ y \in Int /\ c <= y
  BY <1>1, <1>2
<1>4. Max({x, a}) \in {x, a} /\ Min({y, d}) \in {y, d}
  BY ONLY <1>2, <1>3, MaxOfTwo, MinOfTwo
<1>5. BridgeRange(p, w, i) = [start |-> Max({x, a}), end |-> Min({y, d})]
  BY <1>1 DEF BridgeRange
<1> QED
  BY <1>1, <1>2, <1>3, <1>4, <1>5

\* What Downsample keeps of a section are two ends of it.
LEMMA EndsFacts ==
  ASSUME NEW V, NEW s \in Seq(V), Len(Ends(s, 2)) = 2
  PROVE  Ends(s, 2)[1].end <= Ends(s, 2)[2].start
<1> DEFINE n == 2
           from == Len(s) - n
           lastOf == MaxOr0(Blanks(s, 0, n))
           bl == Blanks(s, from, Len(s))
           first == IF lastOf > n \div 2 THEN lastOf ELSE n
           after == IF bl # {} /\ Min(bl) - from < n \div 2 THEN Min(bl) + 1 ELSE from
<1>1. Ends(s, 2) = IF Len(s) <= 2 * n THEN <<Span(0, Len(s))>> ELSE <<Span(0, first), Span(after, Len(s))>>
  BY DEF Ends
<1>2. PICK m, a, b, E : m = Len(s) /\ a = first /\ b = after /\ E = Ends(s, 2)
  OBVIOUS
<1>3. m \in Nat
  BY <1>2
<1>4. CASE ~(m <= 4)
  <2>1. E = <<Span(0, a), Span(b, m)>>
    <3> HIDE DEF first, after
    <3> QED
      BY <1>1, <1>2, <1>4
  <2>2. a \in Int /\ a <= 2
    <3>1. Blanks(s, 0, 2) \in SUBSET (0 .. 1)
      BY DEF Blanks
    <3>2. lastOf \in 0 .. 1
      <4>1. PICK B : B = Blanks(s, 0, 2)
        OBVIOUS
      <4>2. PICK one : one = 1
        OBVIOUS
      <4>3. B = {} => MaxOr0(B) = 0
        BY DEF MaxOr0
      <4>4. B # {} => MaxOr0(B) \in 0 .. one
        <5> SUFFICES ASSUME B # {} PROVE MaxOr0(B) \in 0 .. one
          OBVIOUS
        <5>1. B \in SUBSET (0 .. one) /\ one \in Nat
          BY <3>1, <4>1, <4>2
        <5>2. Max(B) \in B
          BY <5>1, MaxOfSome
        <5> QED
          BY <5>1, <5>2 DEF MaxOr0
      <4> QED
        BY <4>1, <4>2, <4>3, <4>4
    <3> HIDE DEF lastOf
    <3> QED
      BY <1>2, <3>2
  <2>3. b \in Int /\ b >= 2
    <3>1. from \in Nat /\ from >= 3
      BY <1>2, <1>3, <1>4
    <3>2. bl # {} => Min(bl) \in from .. m - 1
      <4>1. bl \in SUBSET (from .. m - 1)
        BY <1>2 DEF Blanks
      <4>2. bl \in SUBSET Nat
        BY <1>3, <3>1, <4>1
      <4> HIDE DEF bl, from
      <4> QED
        BY <4>1, <4>2, MinOfSome
    <3>3. PICK k, f : k = Min(bl) /\ f = from
      OBVIOUS
    <3> HIDE DEF bl, from
    <3>4. b = f \/ (bl # {} /\ b = k + 1)
      BY <1>2, <3>3
    <3> QED
      BY <1>3, <3>1, <3>2, <3>3, <3>4
  <2>4. E[1].end = a /\ E[2].start = b
    BY <2>1 DEF Span
  <2> QED
    BY <1>2, <2>2, <2>3, <2>4
<1>5. CASE m <= 4
  <2> HIDE DEF first, after
  <2>1. E = <<Span(0, m)>>
    BY <1>1, <1>2, <1>5
  <2>2. Len(E) = 1
    BY <2>1
  <2> QED
    BY <1>2, <2>2
<1> QED
  BY <1>3, <1>4, <1>5

---------------------------------------------------------------------------
(* Bridges.                                                                  *)

\* Every cut has its place on the ladder.
LEMMA SeverityFacts ==
  ASSUME NEW q \in ToSet(Cuts)
  PROVE  Severity(q) \in Int
<1>1. \E i \in DOMAIN Cuts : Cuts[i] = q
  BY DEF ToSet
<1>2. Severity(q) \in DOMAIN Cuts
  BY <1>1 DEF Severity
<1>3. DOMAIN Cuts = 1 .. 6
  BY DEF Cuts
<1> QED
  BY <1>2, <1>3

\* How severe the cuts behind all chunks but the last are.
CutKeys(p) == [i \in 1 .. Len(p) - 1 |-> -Severity(p[i].cut)]

LEMMA BridgesFacts ==
  ASSUME NEW p \in Seq(Ranges), p # <<>>, NEW spare \in Nat
  PROVE  /\ \A i \in ToSet(Bridges(p, spare)), j \in (1 .. Len(p) - 1) \ ToSet(Bridges(p, spare)) :
              Severity(p[i].cut) >= Severity(p[j].cut)
         /\ UnbridgedCuts(p, Bridges(p, spare)) # {} => Len(Bridges(p, spare)) = spare
<1>1. PICK n, key, P, k, b :
        /\ n = Len(p) - 1 /\ key = CutKeys(p) /\ P = InOrder(key)
        /\ k = Min({spare, Len(P)}) /\ b = Bridges(p, spare)
  OBVIOUS
<1>2. Len(p) \in Nat /\ Len(p) # 0
  OBVIOUS
<1>3. n \in Nat
  BY <1>1, <1>2
<1>4. \A i \in 1 .. n : Severity(p[i].cut) \in Int /\ key[i] = -Severity(p[i].cut)
  <2> SUFFICES ASSUME NEW i \in 1 .. n
               PROVE  Severity(p[i].cut) \in Int /\ key[i] = -Severity(p[i].cut)
    OBVIOUS
  <2>1. p[i] \in Ranges
    BY <1>1, <1>2
  <2>2. p[i].cut \in ToSet(Cuts)
    BY <2>1 DEF Ranges
  <2> QED
    BY <1>1, <2>2, SeverityFacts DEF CutKeys
<1>5. Keyed(key, n)
  <2>1. key = [i \in 1 .. n |-> -Severity(p[i].cut)]
    BY <1>1 DEF CutKeys
  <2>2. key = [i \in 1 .. n |-> key[i]] /\ \A i \in 1 .. n : key[i] \in Int
    BY <1>4, <2>1
  <2> QED
    BY <1>3, <2>2 DEF Keyed
<1>6. /\ P \in [1 .. n -> 1 .. n]
      /\ \A i \in 1 .. n : \E r \in 1 .. n : P[r] = i
      /\ \A r, t \in 1 .. n : P[r] = P[t] => r = t
      /\ \A r, t \in 1 .. n : r < t => key[P[r]] <= key[P[t]]
  <2>1. P = InOrder(key)
    BY <1>1
  <2> QED
    BY ONLY <1>5, <2>1, InOrderFacts
<1>7. P \in Seq(1 .. n) /\ Len(P) = n
  BY <1>3, <1>6
<1>8. k \in 0 .. n /\ (k = n \/ k = spare)
  <2>1. Min({spare, n}) \in {spare, n} /\ Min({spare, n}) <= spare /\ Min({spare, n}) <= n
    <3>1. spare \in Int /\ n \in Int
      BY <1>3
    <3> QED
      BY ONLY <3>1, MinOfTwo
  <2> QED
    BY <1>1, <1>3, <1>7, <2>1
<1>9. b = SubSeq(P, 1, k)
  BY <1>1 DEF Bridges, CutKeys
<1>10. b \in Seq(1 .. n) /\ Len(b) = k /\ \A r \in 1 .. k : b[r] = P[r]
  <2>1. k \in 0 .. Len(P)
    BY <1>7, <1>8
  <2> QED
    BY ONLY <1>7, <1>9, <2>1, BeginningFacts
<1>11. ToSet(b) = {P[r] : r \in 1 .. k}
  BY <1>8, <1>10, SMTT(60) DEF ToSet
<1>12. ASSUME NEW i \in ToSet(b), NEW j \in (1 .. n) \ ToSet(b)
       PROVE  Severity(p[i].cut) >= Severity(p[j].cut)
  <2>1. PICK r \in 1 .. k : P[r] = i
    BY <1>11
  <2>2. PICK t \in 1 .. n : P[t] = j
    BY <1>6
  <2>3. t \notin 1 .. k
    BY <1>11, <2>2
  <2>4. r \in 1 .. n /\ r < t
    BY <1>3, <1>8, <2>3
  <2>5. key[i] <= key[j] /\ i \in 1 .. n /\ j \in 1 .. n
    BY <1>6, <2>1, <2>2, <2>4
  <2> QED
    BY <1>4, <2>5
<1>13. ASSUME UnbridgedCuts(p, b) # {} PROVE Len(b) = spare
  <2>1. PICK i \in 1 .. n : i \notin ToSet(b)
    BY <1>1, <1>13 DEF UnbridgedCuts
  <2>2. PICK r \in 1 .. n : P[r] = i
    BY <1>6
  <2>3. r \notin 1 .. k
    BY <1>11, <2>1, <2>2
  <2> QED
    BY <1>3, <1>8, <1>10, <2>3
<1> QED
  BY <1>1, <1>12, <1>13

\* Every chunk of a document is a part of it.
LEMMA ChunksWithin ==
  ASSUME ChunksInv
  PROVE  /\ text \in Seq(ToSet(text))
         /\ \A i \in 1 .. Len(chunks) : ChunkOf(text, chunks[i])
<1>1. text \in Seq(ToSet(text))
  BY VcontextAssumption DEF ChunksInv
<1>2. ASSUME NEW i \in 1 .. Len(chunks) PROVE ChunkOf(text, chunks[i])
  <2>1. PICK s, p, c, V, e, P : s = text /\ p = pol /\ c = chunks /\ V = ToSet(text) /\ e = {} /\ P = Plan
    OBVIOUS
  <2>2. c \in Seq(Ranges) /\ c # <<>> /\ i \in 1 .. Len(c)
    <3>1. c \in Seq(Ranges) /\ i \in 1 .. Len(c)
      BY <1>2, <2>1 DEF ChunksInv
    <3> QED
      BY <3>1
  <2>3. /\ s \in Seq(V) /\ Usual(p) /\ ~PlanOf(Tokens(Len(s)), p).refused
        /\ P = PlanOf(Tokens(Len(s)), p) /\ c = SplitAt(s, P, e)
    BY <1>1, <2>1, <2>2 DEF ChunksInv, Plan
  <2>4. Whole(s, SplitAt(s, PlanOf(Tokens(Len(s)), p), e), Usable(p))
    BY ONLY <2>3, SplitFacts
  <2>5. PICK d : d = c[i]
    OBVIOUS
  <2>6. d.start <= d.end /\ d.end <= Len(s)
    BY <2>2, <2>3, <2>4, <2>5 DEF Whole
  <2>7. d \in Ranges /\ Len(s) \in Nat
    BY <2>2, <2>3, <2>5
  <2>8. ChunkOf(s, d)
    BY <2>6, <2>7 DEF Ranges, ChunkOf
  <2> QED
    BY <2>1, <2>5, <2>8
<1> QED
  BY <1>1, <1>2

LEMMA RepairsSound ==
  ASSUME ChunksInv
  PROVE  RepairsWithin
<1>1. PICK s, V, c, n, w : s = text /\ V = ToSet(text) /\ c = chunks /\ n = Len(chunks) /\ w = SpanTokens
  OBVIOUS
<1>2. s \in Seq(V) /\ n \in Nat /\ w \in Nat /\ \A i \in 1 .. n : ChunkOf(s, c[i])
  <2>1. n \in Nat
    BY <1>1 DEF ChunksInv
  <2> QED
    BY <1>1, <2>1, ChunksWithin, VcontextAssumption
<1>3. ASSUME NEW i \in 2 .. n, Borrowed(s, c, w, i) # <<>>
      PROVE  /\ c[i - 1].start <= Borrowed(s, c, w, i)[1]
             /\ Borrowed(s, c, w, i)[2] = c[i - 1].end
             /\ Tokens(Borrowed(s, c, w, i)[2] - Borrowed(s, c, w, i)[1]) <= w
             /\ ~IsBlank(Slice(s, Borrowed(s, c, w, i)[1], Borrowed(s, c, w, i)[2]))
  <2>1. i \in Nat /\ i - 1 \in 1 .. n
    BY <1>2
  <2>2. s \in Seq(V) /\ w \in Nat /\ i \in Nat /\ ChunkOf(s, c[i - 1])
    BY <1>2, <2>1
  <2> QED
    BY ONLY <1>3, <2>2, BorrowedFacts
<1>4. ASSUME NEW i \in 1 .. n - 1
      PROVE  /\ BridgeRange(c, w, i).start <= c[i].end
             /\ c[i + 1].start <= BridgeRange(c, w, i).end
  <2>1. i \in 1 .. n /\ i + 1 \in 1 .. n
    BY <1>2
  <2>2. i \in Nat /\ ChunkOf(s, c[i]) /\ ChunkOf(s, c[i + 1]) /\ w \in Nat
    BY <1>2, <2>1
  <2> QED
    BY ONLY <2>2, BridgeFacts
<1>5. ASSUME NEW i \in 1 .. n, Len(Ends(Slice(s, c[i].start, c[i].end), 2)) = 2
      PROVE  Ends(Slice(s, c[i].start, c[i].end), 2)[1].end <= Ends(Slice(s, c[i].start, c[i].end), 2)[2].start
  <2>1. PICK a, b, t : a = c[i].start /\ b = c[i].end /\ t = Slice(s, a, b)
    OBVIOUS
  <2>2. a \in 0 .. Len(s) /\ b \in a .. Len(s)
    BY <1>2, <2>1 DEF ChunkOf
  <2>3. t = Slice(s, a, b)
    BY <2>1
  <2>4. t \in Seq(V)
    BY ONLY <1>2, <2>2, <2>3, SliceFacts
  <2>5. Len(Ends(t, 2)) = 2
    BY <1>5, <2>1
  <2>6. Ends(t, 2)[1].end <= Ends(t, 2)[2].start
    BY ONLY <2>4, <2>5, EndsFacts
  <2> QED
    BY <2>1, <2>6
<1> QED
  BY <1>1, <1>3, <1>4, <1>5 DEF RepairsWithin, Bare

---------------------------------------------------------------------------
\* The cuts that spare streams repair.
BridgesInv == chunks # <<>> => bridges = Bridges(chunks, Max({0, pol.streams - Len(chunks)}))

LEMMA BridgesInvInit ==
  ASSUME VcontextInit
  PROVE  BridgesInv
BY DEF VcontextInit, BridgesInv

LEMMA BridgesInvNext ==
  ASSUME BridgesInv, VcontextNext \/ UNCHANGED vcontextVars
  PROVE  BridgesInv'
<1>1. pol' = pol
  BY DEF VcontextNext, Step, Refuse, Split, Timeout, AcquirePermit, Answers, Conclude, Skeleton, RunFails,
         Retrieve, Answer, Stopped, vcontextVars, input
<1>2. Split \/ (chunks' = chunks /\ bridges' = bridges)
  BY DEF VcontextNext, Step, Refuse, Timeout, AcquirePermit, Answers, Conclude, Skeleton, RunFails,
         Retrieve, Answer, Stopped, vcontextVars, input
<1>3. CASE Split
  BY <1>1, <1>3 DEF Split, BridgesInv
<1>4. CASE chunks' = chunks /\ bridges' = bridges
  BY <1>1, <1>4 DEF BridgesInv
<1> QED
  BY <1>2, <1>3, <1>4

LEMMA BridgesInvSound ==
  ASSUME ChunksInv, BridgesInv
  PROVE  WorstBridged
<1>0. ASSUME chunks = <<>> PROVE WorstBridged
  <2>1. \A i \in 1 .. Len(chunks) - 1 : FALSE
    BY <1>0
  <2> QED
    BY <2>1 DEF WorstBridged, UnbridgedCuts
<1> SUFFICES ASSUME chunks # <<>> PROVE WorstBridged
  BY <1>0
<1>1. PICK p, m, spare, b : p = chunks /\ m = pol.streams - Len(chunks) /\ spare = Max({0, m}) /\ b = bridges
  OBVIOUS
<1>2. p \in Seq(Ranges) /\ p # <<>> /\ b = Bridges(p, spare)
  BY <1>1 DEF ChunksInv, BridgesInv
<1>3. m \in Int /\ 0 \in Int
  <2>1. pol.streams \in Int /\ Len(chunks) \in Nat
    BY DEF ChunksInv, Usual
  <2> QED
    BY <1>1, <2>1
<1>4. Max({0, m}) \in {0, m} /\ Max({0, m}) >= 0
  BY ONLY <1>3, MaxOfTwo
<1>5. spare \in Nat
  BY <1>1, <1>3, <1>4
<1>6. /\ \A i \in ToSet(Bridges(p, spare)), j \in (1 .. Len(p) - 1) \ ToSet(Bridges(p, spare)) :
              Severity(p[i].cut) >= Severity(p[j].cut)
      /\ UnbridgedCuts(p, Bridges(p, spare)) # {} => Len(Bridges(p, spare)) = spare
  BY ONLY <1>2, <1>5, BridgesFacts
<1> QED
  BY <1>1, <1>2, <1>6 DEF WorstBridged

---------------------------------------------------------------------------
(* A last chunk that is not a runt.                                          *)

\* More than the target in tokens leaves a quarter of it behind any cut at half.
LEMMA HalfLeaves ==
  ASSUME NEW l \in Nat, NEW t \in Nat \ {0}, ~(Tokens(l) <= t), NEW at \in Nat,
         at <= CharsPerToken * (Tokens(l) \div 2)
  PROVE  ~(Tokens(l - at) <= t \div 4 - 1)
<1>1. PICK c, h, r, k, d, q : /\ c = CharsPerToken /\ k = Tokens(l) /\ h = k \div 2
                             /\ r = t \div 4 - 1 /\ d = l - at /\ q = h + r
  OBVIOUS
<1>2. c \in Nat \ {0}
  BY <1>1, VcontextAssumption
<1>3. k \in Nat
  BY <1>1, TokensFacts
<1>4. h \in Nat /\ r \in Int /\ d \in Int /\ q \in Int
  BY <1>1, <1>3
<1>5. c * q = c * h + c * r /\ c * h \in Int /\ c * r \in Int
  BY <1>1, <1>2, <1>4
<1>6. Tokens(d) <= r <=> d <= c * r
  BY ONLY <1>1, <1>4, TokensBound
<1>7. l \in Int
  OBVIOUS
<1>8. Tokens(l) <= q <=> l <= c * q
  BY ONLY <1>1, <1>4, <1>7, TokensBound
<1>9. ~(k <= q)
  BY <1>1, <1>3
<1> QED
  BY <1>1, <1>4, <1>5, <1>6, <1>8, <1>9

\* Two chunks that fit, the second a runt, and not the two together: cut at half, the
\* cut is in the first of them and both halves fit.
LEMMA HalvesFit ==
  ASSUME NEW l1 \in Nat \ {0}, NEW l2 \in Nat \ {0}, NEW t \in Nat \ {0}, NEW at \in Nat \ {0},
         Tokens(l1) <= t, Tokens(l2) <= t \div 4 - 1, ~(Tokens(l1 + l2) <= t),
         NEW k, k = CharsPerToken * (Tokens(l1 + l2) \div 2),
         at <= k, k < 5 \/ at >= k - k \div 5
  PROVE  /\ at <= l1 /\ Tokens(at) <= t
         /\ \A d \in 0 .. l1 + l2 - at : Tokens(d) <= t
<1>1. PICK c, h, r, l, T, q : /\ c = CharsPerToken /\ l = l1 + l2 /\ T = Tokens(l) /\ h = T \div 2
                             /\ r = t \div 4 - 1 /\ q = t + r
  OBVIOUS
<1>2. c \in Nat \ {0} /\ l \in Nat
  BY <1>1, VcontextAssumption
<1>3. T \in Nat
  BY <1>1, <1>2, TokensFacts
<1>4. h \in Nat /\ r \in Int /\ q \in Int /\ l1 \in Int /\ l2 \in Int /\ l \in Int /\ t \in Int /\ at \in Int
  BY <1>1, <1>2, <1>3
<1>5. l1 <= c * t
  BY ONLY <1>1, <1>4, Tokens(l1) <= t, TokensBound
<1>6. l2 <= c * r
  <2>1. Tokens(l2) <= r
    BY <1>1
  <2> QED
    BY ONLY <1>1, <1>4, <2>1, TokensBound
<1>7. l <= c * q <=> T <= q
  BY ONLY <1>1, <1>4, TokensBound
<1>8. l <= c * T
  <2>1. Tokens(l) <= T /\ T \in Int
    BY <1>1, <1>3
  <2> QED
    BY ONLY <1>1, <1>4, <2>1, TokensBound
<1>9. r >= 1
  <2>1. Tokens(l2) \in Nat /\ ~(Tokens(l2) <= 0)
    <3>1. PICK z : z = 0
      OBVIOUS
    <3>2. z \in Int
      BY <3>1
    <3>3. Tokens(l2) <= z <=> l2 <= c * z
      BY ONLY <1>1, <1>4, <3>2, TokensBound
    <3>4. c * z = 0
      BY <1>2, <3>1
    <3> QED
      BY <3>1, <3>3, <3>4, TokensFacts
  <2> QED
    BY <1>1, <1>4, <2>1
<1>10. PICK ct, cr, cT : ct = c * t /\ cr = c * r /\ cT = c * T
  OBVIOUS
<1>11. ct \in Int /\ cr \in Int /\ cT \in Int /\ k \in Int
  BY <1>1, <1>2, <1>3, <1>4, <1>10
<1>12. c * q = ct + cr
  BY <1>1, <1>2, <1>4, <1>10
<1>13. T <= q
  BY <1>1, <1>4, <1>5, <1>6, <1>7, <1>10, <1>11, <1>12
<1>14. cT <= ct + cr
  <2>1. c * T <= c * q
    BY <1>2, <1>3, <1>4, <1>13
  <2> QED
    BY <1>10, <1>12, <2>1
<1>15. 4 * (cr + c) <= ct
  <2>1. 4 * (r + 1) <= t
    BY <1>1
  <2>2. c * (4 * (r + 1)) <= c * t
    BY <1>2, <1>4, <2>1
  <2>3. c * (4 * (r + 1)) = 4 * (cr + c)
    BY <1>2, <1>4, <1>10
  <2> QED
    BY <1>10, <2>2, <2>3
<1>16. 2 * k >= cT - c /\ 2 * k <= cT
  <2>1. T - 1 <= 2 * h /\ 2 * h <= T
    BY <1>1, <1>3
  <2>2. c * (T - 1) <= c * (2 * h) /\ c * (2 * h) <= c * T
    BY <1>2, <1>3, <1>4, <2>1
  <2>3. c * (T - 1) = cT - c /\ c * (2 * h) = 2 * k
    BY <1>1, <1>2, <1>3, <1>4, <1>10
  <2> QED
    BY <1>10, <2>2, <2>3
<1>17. at <= l1
  <2> SUFFICES ASSUME l1 < at PROVE FALSE
    BY <1>4
  <2>1. l <= k + cr
    BY <1>1, <1>4, <1>6, <1>10, <1>11
  <2>2. PICK m : m = h + r
    OBVIOUS
  <2>3. m \in Int /\ c * m = k + cr
    BY <1>1, <1>2, <1>4, <1>10, <2>2
  <2>4. T <= m <=> l <= c * m
    BY ONLY <1>1, <1>4, <2>3, TokensBound
  <2>5. T <= m
    BY <2>1, <2>3, <2>4
  <2>6. T > t
    BY <1>1, <1>3
  <2> QED
    BY <1>1, <1>3, <2>2, <2>5, <2>6
<1>18. Tokens(at) <= t
  <2>1. at <= c * t
    BY <1>4, <1>5, <1>10, <1>11, <1>17
  <2> QED
    BY ONLY <1>1, <1>4, <2>1, TokensBound
<1>19. l - at <= ct
  <2>1. CASE k < 5
    <3>1. T > t /\ h >= 4 /\ t >= 8
      BY <1>1, <1>3, <1>9
    <3>2. c * 4 <= c * h /\ c * h = k
      BY <1>1, <1>2, <1>4, <3>1
    <3>3. c = 1
      BY <1>2, <2>1, <3>2
    <3>4. k = h /\ ct = t /\ cT = T
      BY <1>3, <1>4, <1>10, <3>2, <3>3
    <3>5. l <= T /\ h = 4 /\ T <= 9 /\ t = 8
      BY <1>1, <1>3, <1>4, <1>8, <1>10, <2>1, <3>1, <3>4
    <3> QED
      BY <1>3, <1>4, <3>1, <3>4, <3>5
  <2>2. CASE ~(k < 5)
    <3>1. PICK w : w = k \div 5
      OBVIOUS
    <3>2. w \in Int /\ 5 * w <= k
      BY <1>11, <3>1
    <3>3. at >= k - w
      BY <2>2, <3>1
    <3>4. 5 * at >= 4 * k
      BY <1>4, <1>11, <3>2, <3>3
    <3>5. 5 * (l - at) <= 5 * cT - 4 * k
      BY <1>4, <1>8, <1>10, <1>11, <3>4
    <3>6. 5 * (l - at) <= 3 * cT + 2 * c
      BY <1>2, <1>4, <1>11, <1>16, <3>5
    <3>7. cr >= 0
      BY <1>2, <1>4, <1>9, <1>10
    <3> QED
      BY <1>2, <1>4, <1>11, <1>14, <1>15, <3>6, <3>7
  <2> QED
    BY <2>1, <2>2
<1>20. ASSUME NEW d \in 0 .. l1 + l2 - at PROVE Tokens(d) <= t
  <2>1. d <= c * t /\ d \in Int
    BY <1>1, <1>4, <1>10, <1>11, <1>19
  <2> QED
    BY ONLY <1>1, <1>4, <2>1, TokensBound
<1> QED
  BY <1>17, <1>18, <1>20

\* A cut that must be made is within the target, and in its last fifth when that is more
\* than a few characters.
LEMMA CutReach ==
  ASSUME NEW V, NEW s \in Seq(V), NEW x \in 0 .. Len(s), NEW y \in x .. Len(s), x < y,
         NEW h \in Nat \ {0}, NEW bounds, NEW k, k = CharsPerToken * h
  PROVE  IF Tokens(y - x) <= h THEN CutFrom(s, x, y, h, bounds).at = y - x
         ELSE /\ CutFrom(s, x, y, h, bounds).at <= k
              /\ k < 5 \/ CutFrom(s, x, y, h, bounds).at >= k - k \div 5
<1>1. PICK t, l, b, c, at, C : /\ t = Slice(s, x, y) /\ l = y - x /\ b = LocalBounds(bounds, x, Len(t))
                            /\ c = CutAt(t, h, b) /\ at = c.at /\ C = CharsPerToken
  OBVIOUS
<1>2. l \in Nat /\ l > 0 /\ C \in Nat \ {0} /\ h \in Nat
  BY <1>1, VcontextAssumption
<1>3. t \in Seq(V) /\ Len(t) = l
  <2>1. t = Slice(s, x, y)
    BY <1>1
  <2>2. t \in Seq(V) /\ Len(t) = y - x
    BY ONLY <2>1, s \in Seq(V), x \in 0 .. Len(s), y \in x .. Len(s), SliceFacts
  <2> QED
    BY <1>1, <2>2
<1>4. t # <<>> /\ b \in SUBSET Int
  BY <1>1, <1>2, <1>3 DEF LocalBounds
<1>5. GoodCut(t, c) /\ CutDepth(t, c, h)
  BY ONLY <1>1, <1>2, <1>3, <1>4, CutFacts
<1>6. CutFrom(s, x, y, h, bounds) = c
  BY <1>1 DEF CutFrom
<1>7. at \in Int
  BY <1>1, <1>3, <1>5 DEF GoodCut
<1>8. CASE Tokens(l) <= h
  BY <1>1, <1>3, <1>5, <1>6, <1>8 DEF CutDepth
<1>9. CASE ~(Tokens(l) <= h)
  <2>1. PICK lo, up : lo = Max(WithinTarget(l, h)) /\ up = lo + 1
    OBVIOUS
  <2>2. lo \in 0 .. l - 1 /\ Tokens(lo) <= h /\ Tokens(up) > h
    <3>1. /\ Max(WithinTarget(l, h)) \in 0 .. l - 1
          /\ Tokens(Max(WithinTarget(l, h))) <= h
          /\ Tokens(Max(WithinTarget(l, h)) + 1) > h
      BY ONLY <1>2, <1>9, WithinFacts
    <3> QED
      BY <2>1, <3>1
  <2>3. lo \in Int /\ up \in Int /\ h \in Int
    BY <1>2, <2>1, <2>2
  <2>4. lo <= C * h
    BY ONLY <1>1, <2>2, <2>3, TokensBound
  <2>5. Tokens(up) \in Int /\ (Tokens(up) <= h <=> up <= C * h)
    BY ONLY <1>1, <2>3, TokensBound
  <2>6. k \in Int /\ k > 0
    BY <1>1, <1>2
  <2>7. lo = k
    BY <1>1, <2>1, <2>2, <2>3, <2>4, <2>5, <2>6, SMTT(60)
  <2>8. lo = 0 \/ (at <= lo /\ (lo \div 5 = 0 \/ at >= lo - lo \div 5))
    BY <1>1, <1>3, <1>5, <1>9, <2>1 DEF CutDepth
  <2>9. at <= k /\ (k \div 5 = 0 \/ at >= k - k \div 5)
    BY <2>6, <2>7, <2>8
  <2>10. k \div 5 = 0 => k < 5
    BY <2>6
  <2> QED
    BY <1>1, <1>6, <1>9, <2>9, <2>10
<1> QED
  BY <1>1, <1>8, <1>9

\* Chunks within the target, all but the last at least a quarter of it, and something is
\* in each or behind it.
Stout(s, p, t) ==
  \A i \in 1 .. Len(p) :
    /\ Size(p[i]) <= t /\ ~Gap(s, p[i].start, Len(s))
    /\ i < Len(p) => Size(p[i]) >= t \div 4

LEMMA StoutMore ==
  ASSUME NEW s, NEW c \in Ranges, NEW p \in Seq(Ranges), NEW t, Stout(s, p, t),
         Size(c) <= t, ~Gap(s, c.start, Len(s)), p # <<>> => Size(c) >= t \div 4
  PROVE  Stout(s, <<c>> \o p, t)
<1>1. PICK l, r, n : l = <<c>> /\ r = l \o p /\ n = Len(p)
  OBVIOUS
<1>2. n \in Nat /\ l \in Seq(Ranges) /\ Len(l) = 1 /\ l[1] = c /\ (n > 0 => p # <<>>)
  BY <1>1
<1>3. Len(r) = n + 1 /\ r[1] = c /\ \A i \in 2 .. n + 1 : r[i] = p[i - 1]
  BY <1>1, <1>2
<1>4. ASSUME NEW i \in 1 .. n + 1
      PROVE  /\ Size(r[i]) <= t /\ ~Gap(s, r[i].start, Len(s))
             /\ i < n + 1 => Size(r[i]) >= t \div 4
  <2>1. CASE i = 1
    BY <1>2, <1>3, <2>1
  <2>2. CASE i # 1
    <3>1. PICK j : j = i - 1
      OBVIOUS
    <3>2. j \in 1 .. n /\ r[i] = p[j] /\ (i < n + 1 => j < n)
      BY <1>2, <1>3, <2>2, <3>1
    <3> QED
      BY <1>1, <3>2 DEF Stout
  <2> QED
    BY <2>1, <2>2
<1> QED
  BY <1>1, <1>3, <1>4 DEF Stout

LEMMA PieceSize ==
  ASSUME NEW V, NEW s \in Seq(V), NEW x \in 0 .. Len(s), NEW t \in Nat \ {0}, NEW bounds,
         ~IsBlank(Slice(s, x, Len(s))), NEW c, c = CutFrom(s, x, Len(s), t, bounds)
  PROVE  Tokens(c.at) <= t /\ (x + c.next < Len(s) => Tokens(c.at) >= t \div 4)
<1>1. PICK n, k, at, C, r : /\ n = Len(s) /\ k = CharsPerToken * t /\ at = c.at /\ C = CharsPerToken
                             /\ r = t \div 4 - 1
  OBVIOUS
<1>2. C \in Nat \ {0} /\ n \in Nat /\ t \in Int /\ r \in Int /\ t \in Nat
  BY <1>1, VcontextAssumption
<1>3. CutsOff(s, x, Len(s), c)
  BY ONLY <1>2, s \in Seq(V), x \in 0 .. Len(s), ~IsBlank(Slice(s, x, Len(s))),
          c = CutFrom(s, x, Len(s), t, bounds), PieceMore
<1>4. at \in Int /\ at >= 1 /\ x < n /\ c.next \in Nat /\ x + at <= x + c.next
  BY <1>1, <1>2, <1>3 DEF CutsOff
<1>5. n \in x .. Len(s)
  BY <1>1, <1>2, <1>4
<1>6. IF Tokens(n - x) <= t THEN CutFrom(s, x, n, t, bounds).at = n - x
      ELSE /\ CutFrom(s, x, n, t, bounds).at <= k
           /\ k < 5 \/ CutFrom(s, x, n, t, bounds).at >= k - k \div 5
  BY ONLY <1>1, <1>4, <1>5, s \in Seq(V), x \in 0 .. Len(s), t \in Nat \ {0}, CutReach
<1>7. CASE Tokens(n - x) <= t
  <2>1. at = n - x
    BY <1>1, <1>6, <1>7
  <2>2. ~(x + c.next < n)
    BY <1>2, <1>4, <2>1
  <2> QED
    BY <1>1, <1>7, <2>1, <2>2
<1>8. CASE ~(Tokens(n - x) <= t)
  <2>1. at <= k /\ (k < 5 \/ at >= k - k \div 5)
    BY <1>1, <1>6, <1>8
  <2>2. Tokens(at) <= t
    <3>1. at <= C * t
      BY <1>1, <2>1
    <3> QED
      BY ONLY <1>1, <1>2, <1>4, <3>1, TokensBound
  <2>3. ~(Tokens(at) <= r)
    <3> SUFFICES ASSUME Tokens(at) <= r PROVE FALSE
      OBVIOUS
    <3>1. at <= C * r
      BY ONLY <1>1, <1>2, <1>4, Tokens(at) <= r, TokensBound
    <3>2. PICK m : m = C * r
      OBVIOUS
    <3>3. m \in Int /\ m >= 1
      BY <1>2, <1>4, <3>1, <3>2
    <3>4. 4 * (m + C) <= k
      <4>1. 4 * (r + 1) <= t
        BY <1>1, <1>2
      <4>2. C * (4 * (r + 1)) <= C * t
        BY <1>2, <4>1
      <4>3. C * (4 * (r + 1)) = 4 * (m + C)
        BY <1>2, <3>2
      <4> QED
        BY <1>1, <4>2, <4>3
    <3>5. k \in Int /\ k >= 8
      BY <1>1, <1>2, <3>3, <3>4
    <3>6. PICK w : w = k \div 5
      OBVIOUS
    <3>7. w \in Int /\ 5 * w <= k
      BY <3>5, <3>6
    <3>8. at >= k - w
      BY <2>1, <3>5, <3>6
    <3> QED
      BY <1>2, <1>4, <3>1, <3>2, <3>3, <3>4, <3>5, <3>7, <3>8
  <2>4. Tokens(at) \in Int
    BY <1>2, <1>4, TokensBound
  <2> QED
    BY <1>1, <1>2, <2>2, <2>3, <2>4
<1> QED
  BY <1>7, <1>8

LEMMA PieceStout ==
  ASSUME NEW V, NEW s \in Seq(V), NEW x \in 0 .. Len(s), NEW t \in Nat \ {0}, NEW bounds, NEW f,
         \A y \in x + 1 .. Len(s) : Stout(s, f[y], t) /\ f[y] \in Seq(Ranges),
         \A y \in x + 1 .. Len(s) : f[y] # <<>> => y < Len(s)
  PROVE  Stout(s, Piece(s, t, bounds, f, x), t)
<1>1. PICK c, n : c = CutFrom(s, x, Len(s), t, bounds) /\ n = Len(s)
  OBVIOUS
<1>2. CASE IsBlank(Slice(s, x, Len(s)))
  <2>1. PICK p : p = Piece(s, t, bounds, f, x)
    OBVIOUS
  <2>2. p = <<>>
    BY <1>2, <2>1 DEF Piece
  <2>3. \A i \in 1 .. Len(p) : FALSE
    BY <2>2
  <2> QED
    BY <2>1, <2>3 DEF Stout
<1>3. CASE ~IsBlank(Slice(s, x, Len(s)))
  <2>0. t \in Nat /\ n \in 0 .. Len(s)
    BY <1>1
  <2>1. CutsOff(s, x, Len(s), c) /\ x + c.next \in x + 1 .. Len(s)
    BY ONLY <1>1, <1>3, <2>0, s \in Seq(V), x \in 0 .. Len(s), PieceMore
  <2>2. Tokens(c.at) <= t /\ (x + c.next < Len(s) => Tokens(c.at) >= t \div 4)
    BY ONLY <1>1, <1>3, s \in Seq(V), x \in 0 .. Len(s), t \in Nat \ {0}, PieceSize
  <2>3. PICK a, r, q, p, d, e : /\ a = x + c.at /\ r = x + c.next /\ q = c.q /\ p = f[r]
                                /\ d = Chunk(x, a, q) /\ e = c.at
    OBVIOUS
  <2>4. a \in Nat /\ x \in Nat /\ q \in ToSet(Cuts) /\ x < a /\ r \in x + 1 .. Len(s) /\ e \in Nat
    BY <2>1, <2>3 DEF CutsOff
  <2>5. d \in Ranges /\ d.start = x
    BY <2>3, <2>4 DEF Chunk, Ranges
  <2>6. Size(d) = Tokens(e)
    <3>1. x <= a
      BY <2>4
    <3>2. Size(d) = Tokens(a - x)
      BY ONLY <2>3, <2>4, <3>1, SizeOf
    <3>3. a - x = e
      BY <2>3, <2>4
    <3> QED
      BY <3>2, <3>3
  <2>7. ~Gap(s, x, n)
    BY ONLY <1>1, <1>3, <2>0, s \in Seq(V), x \in 0 .. Len(s), BlankSlice
  <2>8. p # <<>> => Size(d) >= t \div 4
    BY <2>2, <2>3, <2>4, <2>6
  <2>9. Stout(s, p, t) /\ p \in Seq(Ranges)
    BY <2>3, <2>4
  <2>10. Size(d) <= t /\ ~Gap(s, d.start, Len(s))
    BY <1>1, <2>2, <2>3, <2>5, <2>6, <2>7
  <2>11. Stout(s, <<d>> \o p, t)
    BY ONLY <2>5, <2>8, <2>9, <2>10, StoutMore
  <2>12. Piece(s, t, bounds, f, x) = <<d>> \o p
    BY <1>1, <1>3, <2>3 DEF Piece
  <2> QED
    BY <2>11, <2>12
<1> QED
  BY <1>2, <1>3

\* So are the pieces a text is taken apart into.
LEMMA PiecesStout ==
  ASSUME NEW V, NEW s \in Seq(V), NEW plan, plan.target \in Nat \ {0}, NEW bounds
  PROVE  Stout(s, Pieces(s, plan, bounds), plan.target)
<1>0. PICK t, n, w : t = plan.target /\ n = Len(s) /\ w = LoopOf(s, t, bounds)
  OBVIOUS
<1>1. t \in Nat \ {0} /\ t \in Nat /\ n \in Nat
  BY <1>0
<1>2. w = [x \in 0 .. Len(s) |-> Piece(s, t, bounds, w, x)]
  BY ONLY <1>0, <1>1, s \in Seq(V), LoopFacts
<1>3. Pieces(s, plan, bounds) = w[0]
  BY <1>0 DEF Pieces, LoopOf, Piece, CutFrom
<1> DEFINE good(y) == w[y] \in Seq(Ranges) /\ Stout(s, w[y], t) /\ (w[y] # <<>> => y < n)
           S == {k \in Nat : \A x \in 0 .. n : x >= n - k => good(x)}
<1>4. ASSUME NEW x \in 0 .. n, \A y \in x + 1 .. n : good(y)
      PROVE  good(x)
  <2>1. w[x] = Piece(s, t, bounds, w, x) /\ x \in 0 .. Len(s)
    BY <1>0, <1>2, <1>4
  <2>2. /\ \A y \in x + 1 .. Len(s) : Stout(s, w[y], t) /\ w[y] \in Seq(Ranges)
        /\ \A y \in x + 1 .. Len(s) : w[y] # <<>> => y < Len(s)
    BY <1>0, <1>4
  <2>3. Stout(s, Piece(s, t, bounds, w, x), t)
    BY ONLY <1>1, <2>1, <2>2, s \in Seq(V), PieceStout
  <2>4. PICK c : c = CutFrom(s, x, Len(s), t, bounds)
    OBVIOUS
  <2>5. CASE IsBlank(Slice(s, x, Len(s)))
    <3>1. w[x] = <<>>
      BY <2>1, <2>5 DEF Piece
    <3>2. PICK p : p = w[x]
      OBVIOUS
    <3>3. p \in Seq(Ranges)
      BY <3>1, <3>2
    <3> QED
      BY <2>1, <2>3, <3>1, <3>2, <3>3
  <2>6. CASE ~IsBlank(Slice(s, x, Len(s)))
    <3>1. CutsOff(s, x, Len(s), c) /\ x + c.next \in x + 1 .. Len(s)
      BY ONLY <1>1, <2>1, <2>4, <2>6, s \in Seq(V), PieceMore
    <3>2. PICK a, r, q, p, d : /\ a = x + c.at /\ r = x + c.next /\ q = c.q /\ p = w[r]
                               /\ d = Chunk(x, a, q)
      OBVIOUS
    <3>3. a \in Nat /\ x \in Nat /\ q \in ToSet(Cuts) /\ r \in x + 1 .. Len(s) /\ x < n
      BY <1>0, <1>1, <3>1, <3>2, SMTT(60) DEF CutsOff
    <3>4. d \in Ranges /\ p \in Seq(Ranges)
      BY <2>2, <3>2, <3>3 DEF Chunk, Ranges
    <3>5. w[x] = <<d>> \o p
      BY <2>1, <2>4, <2>6, <3>2 DEF Piece
    <3>6. PICK l : l = <<d>>
      OBVIOUS
    <3>7. l \in Seq(Ranges)
      BY <3>4, <3>6
    <3>8. l \o p \in Seq(Ranges)
      BY ONLY <3>4, <3>7, Joined
    <3> QED
      BY <2>1, <2>3, <3>3, <3>5, <3>6, <3>8
  <2> QED
    BY <2>5, <2>6
<1>6. 0 \in S
  <2> SUFFICES ASSUME NEW x \in 0 .. n, x >= n - 0 PROVE good(x)
    OBVIOUS
  <2>1. \A y \in x + 1 .. n : FALSE
    BY <1>1
  <2> HIDE DEF good
  <2> QED
    BY <1>4, <2>1
<1>7. ASSUME NEW k \in Nat, k \in S PROVE k + 1 \in S
  <2> SUFFICES ASSUME NEW x \in 0 .. n, x >= n - (k + 1) PROVE good(x)
    OBVIOUS
  <2>1. \A y \in x + 1 .. n : y \in 0 .. n /\ y >= n - k
    BY <1>1
  <2> HIDE DEF good
  <2> QED
    BY <1>4, <1>7, <2>1
<1>8. n \in S
  <2> HIDE DEF S
  <2> QED
    BY <1>1, <1>6, <1>7, Induct
<1>9. good(0)
  <2> HIDE DEF good
  <2> QED
    BY <1>1, <1>8
<1> QED
  BY <1>0, <1>3, <1>9

\* The last is no runt, or blanks are in front of it.
NoRunt(p, t) ==
  LET n == Len(p) IN n > 1 => Size(p[n]) >= t \div 4 \/ p[n - 1].end < p[n].start

LEMMA FoldFolded ==
  ASSUME NEW V, NEW s \in Seq(V), NEW a, NEW b, NEW p, Run(s, p, a, b), Gap(s, b, Len(s)), NEW plan, NEW bounds,
         plan.target \in Nat \ {0}, plan.limit \in Int, plan.target <= plan.limit, Stout(s, p, plan.target)
  PROVE  NoRunt(FoldRunt(s, p, plan, bounds), plan.target)
<1> DEFINE n == Len(p)
           first == p[n - 1].start
           ending == p[n].end
           pair == Slice(s, first, ending)
           half == CutAt(pair, Tokens(Len(pair)) \div 2, LocalBounds(bounds, first, Len(pair)))
           halves == Halves(first, ending, half, p[n].cut)
           fits(c) == Size(c) <= plan.limit
           one == Chunk(first, ending, p[n].cut)
           front == SubSeq(p, 1, n - 2)
<1>1. PICK r, t, u : r = FoldRunt(s, p, plan, bounds) /\ t = plan.target /\ u = plan.limit
  OBVIOUS
<1>2. r = IF n < 2 \/ Size(p[n]) >= t \div 4 THEN p
          ELSE IF Tokens(Len(pair)) <= u THEN Append(front, one)
          ELSE IF ~IsBlank(Slice(s, halves[2].start, ending)) /\ fits(halves[1]) /\ fits(halves[2])
               THEN front \o halves
          ELSE p
  BY ONLY <1>1, Zenon DEF FoldRunt
<1>3. t \in Nat \ {0} /\ u \in Int /\ t <= u
  BY <1>1
<1> SUFFICES NoRunt(r, t)
  BY <1>1
<1>4. n \in Nat /\ n > 0 /\ p \in Seq(Ranges)
  BY DEF Run
<1>5. CASE n < 2
  <2>1. r = p
    <3> HIDE DEF pair, halves, one, front, ending
    <3> QED
      BY <1>2, <1>5
  <2> QED
    BY <1>4, <1>5, <2>1 DEF NoRunt
<1>6. CASE ~(n < 2) /\ Size(p[n]) >= t \div 4
  <2>1. r = p
    <3> HIDE DEF pair, halves, one, front, ending
    <3> QED
      BY <1>2, <1>6
  <2> QED
    BY <1>6, <2>1 DEF NoRunt
<1>7. CASE ~(n < 2) /\ ~(Size(p[n]) >= t \div 4)
  <2>1. PICK k, x, y, z, v, q, o : /\ k = n - 1 /\ x = first /\ y = ending /\ z = p[k].end /\ v = p[n].start
                                  /\ q = p[n].cut /\ o = p[k].cut
    OBVIOUS
  <2>2. k \in 1 .. n /\ n \in 1 .. n /\ k \in 1 .. n - 1 /\ k + 1 = n /\ k < n
    BY <1>4, <1>7, <2>1
  <2>3. /\ x \in Nat /\ y \in Nat /\ z \in Nat /\ v \in Nat /\ q \in ToSet(Cuts) /\ y = b
        /\ x < z /\ z <= v /\ v < y /\ y <= Len(s)
    <3>1. p[k] \in Ranges /\ p[n] \in Ranges
      BY <1>4, <2>2
    <3>2. PICK c, d : c = p[k] /\ d = p[n]
      OBVIOUS
    <3>3. c.start \in Nat /\ c.end \in Nat /\ d.start \in Nat /\ d.end \in Nat /\ d.cut \in ToSet(Cuts)
      BY <3>1, <3>2 DEF Ranges
    <3>4. c.start < c.end /\ c.end <= d.start /\ d.start < d.end /\ d.end <= Len(s) /\ d.end = b
      BY <2>2, <3>2 DEF Run
    <3>5. x = c.start /\ y = d.end /\ z = c.end /\ v = d.start /\ q = d.cut
      BY <2>1, <3>2
    <3> QED
      BY <3>3, <3>4, <3>5
  <2>4. PICK l1, l2, l : l1 = z - x /\ l2 = y - v /\ l = y - x
    OBVIOUS
  <2>5. l1 \in Nat \ {0} /\ l2 \in Nat \ {0} /\ l \in Nat /\ l1 <= l
    BY <2>3, <2>4
  <2>6. Size(p[k]) = Tokens(l1) /\ Size(p[n]) = Tokens(l2)
    BY <2>1, <2>4 DEF Size
  <2>7. /\ Tokens(l1) \in Nat /\ Tokens(l2) \in Nat /\ Tokens(l) \in Nat /\ Tokens(l1) <= Tokens(l)
    <3>1. l1 \in 0 .. l
      BY <2>5
    <3>2. Tokens(l) \in Nat /\ Tokens(l1) \in Nat /\ Tokens(l1) <= Tokens(l)
      BY <2>5, <3>1, TokensFacts
    <3> QED
      BY <2>5, <3>2, TokensFacts
  <2>8. Tokens(l1) <= t /\ Tokens(l1) >= t \div 4 /\ Tokens(l2) <= t \div 4 - 1 /\ ~Gap(s, v, Len(s))
    <3>1. Size(p[k]) <= t /\ Size(p[k]) >= t \div 4 /\ ~Gap(s, v, Len(s))
      BY <1>1, <2>1, <2>2 DEF Stout
    <3> QED
      BY <1>3, <1>7, <2>6, <2>7, <3>1
  <2>9. x \in 0 .. Len(s) /\ y \in x .. Len(s) /\ x < y
    BY <2>3
  <2>10. PICK w, f : w = Slice(s, x, y) /\ f = front
    OBVIOUS
  <2>11. Len(w) = l
    <3>1. w = Slice(s, x, y)
      BY <2>10
    <3>2. Len(w) = y - x
      BY ONLY <2>9, <3>1, s \in Seq(V), SliceFacts
    <3> QED
      BY <2>4, <3>2
  <2>12. pair = w
    BY <2>1, <2>10
  <2>13. f \in Seq(Ranges) /\ Len(f) = n - 2
    <3>1. PICK j : j = n - 2
      OBVIOUS
    <3>2. j \in 0 .. n /\ f = SubSeq(p, 1, j)
      BY <1>4, <1>7, <2>10, <3>1
    <3>3. f \in Seq(Ranges) /\ Len(f) = j
      BY ONLY <1>4, <3>2, BeginningFacts
    <3> QED
      BY <3>1, <3>3
  <2>14. CASE Tokens(l) <= u
    <3>1. r = Append(f, Chunk(x, y, q))
      <4>1. one = Chunk(x, y, q)
        BY <2>1
      <4>2. Tokens(Len(pair)) <= u
        BY <2>11, <2>12, <2>14
      <4> HIDE DEF pair, halves, one, front, ending
      <4> QED
        BY <1>2, <1>7, <2>10, <4>1, <4>2
    <3>2. PICK d, m : d = Chunk(x, y, q) /\ m = Len(r)
      OBVIOUS
    <3>3. d \in Ranges
      BY <2>3, <3>2 DEF Chunk, Ranges
    <3>4. m = n - 1 /\ r[m] = d
      BY <1>4, <1>7, <2>13, <3>1, <3>2, <3>3
    <3>5. Size(d) = Tokens(l)
      <4>1. x <= y
        BY <2>3
      <4>2. Size(d) = Tokens(y - x)
        BY ONLY <2>3, <3>2, <4>1, SizeOf
      <4> QED
        BY <2>4, <4>2
    <3>6. Size(r[m]) >= t \div 4
      BY <1>3, <2>7, <2>8, <3>4, <3>5
    <3> QED
      BY <3>2, <3>6 DEF NoRunt
  <2>15. CASE ~(Tokens(l) <= u)
    <3>1. PICK h, kk, T : T = Tokens(l) /\ h = T \div 2 /\ kk = CharsPerToken * h
      OBVIOUS
    <3>2. T \in Nat /\ T > t /\ h \in Nat \ {0} /\ h < T
      BY <1>3, <2>7, <2>15, <3>1, SMTT(60)
    <3>3. PICK c, at, nx : c = CutFrom(s, x, y, h, bounds) /\ at = c.at /\ nx = c.next
      OBVIOUS
    <3>4. half = c
      BY <2>1, <2>10, <2>11, <3>1, <3>3 DEF CutFrom
    <3>5. h \in Nat
      BY <3>2
    <3>6. CutsOff(s, x, y, c)
      BY ONLY <2>9, <3>3, <3>5, s \in Seq(V), CutFromFacts
    <3>7. IF Tokens(y - x) <= h THEN CutFrom(s, x, y, h, bounds).at = y - x
          ELSE /\ CutFrom(s, x, y, h, bounds).at <= kk
               /\ kk < 5 \/ CutFrom(s, x, y, h, bounds).at >= kk - kk \div 5
      BY ONLY <2>9, <3>1, <3>2, s \in Seq(V), CutReach
    <3>8. at <= kk /\ (kk < 5 \/ at >= kk - kk \div 5)
      <4>1. ~(Tokens(y - x) <= h)
        BY <2>4, <3>1, <3>2
      <4> QED
        BY <3>3, <3>7, <4>1
    <3>9. PICK e, g, j : e = x + at /\ g = x + nx /\ j = c.q
      OBVIOUS
    <3>10. /\ at \in Nat \ {0} /\ nx \in Nat /\ e \in Nat /\ g \in Nat /\ j \in ToSet(Cuts)
           /\ x < e /\ e <= g /\ g <= y /\ Gap(s, e, g)
      BY <2>3, <3>3, <3>6, <3>9 DEF CutsOff
    <3>11. PICK c1, c2 : c1 = Chunk(x, e, j) /\ c2 = Chunk(g, y, q)
      OBVIOUS
    <3>12. halves = <<c1, c2>>
      <4>1. halves = Halves(x, y, c, q)
        BY ONLY <2>1, <3>4, Zenon
      <4>2. x + c.at = e /\ x + c.next = g /\ c.q = j
        BY ONLY <3>3, <3>9, Zenon
      <4>3. Halves(x, y, c, q) = <<Chunk(x, x + c.at, c.q), Chunk(x + c.next, y, q)>>
        BY ONLY Zenon DEF Halves
      <4> QED
        BY ONLY <3>11, <4>1, <4>2, <4>3, Zenon
    <3>13. halves[1] = c1 /\ halves[2] = c2 /\ c2.start = g /\ c1.end = e
      BY <3>11, <3>12 DEF Chunk
    <3>14. c1 \in Ranges /\ c2 \in Ranges
      BY <2>3, <3>10, <3>11 DEF Chunk, Ranges
    <3>15. Size(c1) = Tokens(at) /\ Size(c2) = Tokens(y - g)
      <4>1. x <= e /\ g <= y
        BY <2>3, <3>10
      <4>2. Size(c1) = Tokens(e - x)
        BY ONLY <2>3, <3>10, <3>11, <4>1, SizeOf
      <4>3. Size(c2) = Tokens(y - g)
        BY ONLY <2>3, <3>10, <3>11, <4>1, SizeOf
      <4>4. e - x = at
        BY <2>3, <3>9, <3>10
      <4> QED
        BY <4>2, <4>3, <4>4
    <3>16. CASE r = front \o halves
      <4>1. PICK hs, m : hs = halves /\ m = Len(r)
        OBVIOUS
      <4>2. hs \in Seq(Ranges) /\ Len(hs) = 2 /\ hs[1] = c1 /\ hs[2] = c2
        <5> HIDE DEF halves
        <5> QED
          BY <3>12, <3>14, <4>1
      <4>3. r = f \o hs
        <5> HIDE DEF halves, front
        <5> QED
          BY <2>10, <3>16, <4>1
      <4>4. m = n /\ r[n - 1] = c1 /\ r[n] = c2
        <5>1. PICK lf, i1, i2 : lf = Len(f) /\ i1 = n - 1 /\ i2 = n
          OBVIOUS
        <5>2. lf = n - 2 /\ lf \in Nat /\ i1 = lf + 1 /\ i2 = lf + 2
          <6> HIDE DEF n
          <6> QED
            BY <1>4, <1>7, <2>13, <5>1
        <5>3. Len(r) = lf + 2 /\ r[lf + 1] = c1 /\ r[lf + 2] = c2
          <6>1. f \in Seq(Ranges) /\ hs \in Seq(Ranges)
            BY <2>13, <4>2
          <6>2. /\ Len(f \o hs) = Len(f) + Len(hs)
                /\ \A i \in 1 .. Len(hs) : (f \o hs)[Len(f) + i] = hs[i]
            BY ONLY <6>1, Joined
          <6>3. Len(hs) = 2 /\ hs[1] = c1 /\ hs[2] = c2
            BY <4>2
          <6>4. Len(f) = lf
            BY <5>1
          <6>5. 1 \in 1 .. Len(hs) /\ 2 \in 1 .. Len(hs)
            BY ONLY <6>3
          <6> QED
            BY ONLY <4>3, <6>2, <6>3, <6>4, <6>5
        <5> HIDE DEF n
        <5> QED
          BY ONLY <1>4, <4>1, <5>1, <5>2, <5>3
      <4>5. CASE e < g
        BY <1>7, <3>13, <4>1, <4>4, <4>5 DEF NoRunt
      <4>6. CASE ~(e < g)
        <5>1. y - g = l - at
          BY <2>3, <2>4, <3>9, <3>10, <4>6
        <5>2. ~(Tokens(l) <= t) /\ at \in Nat /\ at <= CharsPerToken * (Tokens(l) \div 2)
          BY <1>3, <2>15, <3>1, <3>2, <3>8, <3>10
        <5>3. ~(Tokens(l - at) <= t \div 4 - 1)
          BY ONLY <1>3, <2>5, <5>2, HalfLeaves
        <5>4. Tokens(l - at) \in Int
          <6>1. PICK d, zero : d = l - at /\ zero = 0
            OBVIOUS
          <6>2. d \in Int /\ zero \in Int
            BY <2>5, <3>10, <6>1
          <6>3. Tokens(d) \in Int
            BY ONLY <6>2, TokensBound
          <6> QED
            BY <6>1, <6>3
        <5>5. Size(r[m]) >= t \div 4
          BY <1>3, <3>15, <4>1, <4>4, <5>1, <5>3, <5>4
        <5> QED
          BY <4>1, <5>5 DEF NoRunt
      <4> QED
        BY <4>5, <4>6
    <3>17. CASE r # front \o halves
      <4>1. Tokens(Len(pair)) = Tokens(l)
        BY <2>11, <2>12
      <4>2. r = p /\ ~(~IsBlank(Slice(s, halves[2].start, ending)) /\ fits(halves[1]) /\ fits(halves[2]))
        <5> HIDE DEF pair, halves, one, front, ending
        <5> QED
          BY <1>2, <1>7, <2>15, <3>17, <4>1
      <4>3. CASE z < v
        BY <1>7, <2>1, <4>2, <4>3 DEF NoRunt
      <4>4. CASE ~(z < v)
        <5>1. z = v /\ l = l1 + l2
          BY <2>3, <2>4, <4>4
        <5>2. /\ Tokens(l1) <= t /\ Tokens(l2) <= t \div 4 - 1 /\ ~(Tokens(l1 + l2) <= t)
              /\ kk = CharsPerToken * (Tokens(l1 + l2) \div 2)
              /\ at <= kk /\ (kk < 5 \/ at >= kk - kk \div 5) /\ at \in Nat \ {0}
          BY <1>3, <2>8, <2>15, <3>1, <3>2, <3>8, <3>10, <5>1, SMTT(60)
        <5>3. /\ at <= l1 /\ Tokens(at) <= t
              /\ \A d \in 0 .. l1 + l2 - at : Tokens(d) <= t
          BY ONLY <1>3, <2>5, <5>2, HalvesFit
        <5>4. y - g \in 0 .. l1 + l2 - at
          BY <2>3, <2>4, <3>9, <3>10, <5>1
        <5>5. Tokens(y - g) <= t
          BY <5>3, <5>4
        <5>6. Tokens(at) \in Nat /\ Tokens(y - g) \in Nat
          <6>1. at \in Nat /\ y - g \in Nat
            BY <2>3, <3>10
          <6> QED
            BY <6>1, TokensFacts
        <5>7. Size(c1) <= u /\ Size(c2) <= u
          BY <1>3, <3>15, <5>3, <5>5, <5>6
        <5>8. ~Gap(s, g, y)
          <6> SUFFICES ASSUME Gap(s, g, y) PROVE FALSE
            OBVIOUS
          <6>1. e <= v
            BY <2>3, <2>4, <3>9, <3>10, <5>1, <5>3
          <6>2. ASSUME NEW i \in v .. Len(s) - 1 PROVE s[i + 1] \in Blank
            <7>1. i \in Int /\ i >= e
              BY <2>3, <3>10, <6>1
            <7>2. CASE i < g
              <8>1. i \in e .. g - 1
                BY <3>10, <7>1, <7>2
              <8> QED
                BY <3>10, <8>1 DEF Gap
            <7>3. CASE ~(i < g) /\ i < y
              <8>1. i \in g .. y - 1
                BY <2>3, <3>10, <7>1, <7>3
              <8> QED
                BY <8>1 DEF Gap
            <7>4. CASE ~(i < y)
              <8>1. i \in b .. Len(s) - 1
                BY <2>3, <7>1, <7>4, <6>2
              <8> QED
                BY <8>1 DEF Gap
            <7> QED
              BY <7>2, <7>3, <7>4
          <6>3. Gap(s, v, Len(s))
            BY <6>2 DEF Gap
          <6> QED
            BY <2>8, <6>3
        <5>9. ~IsBlank(Slice(s, g, y))
          <6>1. g \in 0 .. Len(s) /\ y \in 0 .. Len(s)
            BY <2>3, <3>10
          <6> QED
            BY ONLY <5>8, <6>1, s \in Seq(V), BlankSlice
        <5>10. ~IsBlank(Slice(s, halves[2].start, ending)) /\ fits(halves[1]) /\ fits(halves[2])
          <6>1. halves[2].start = g /\ ending = y
            BY <2>1, <3>13
          <6>2. fits(halves[1]) /\ fits(halves[2])
            BY <1>1, <3>13, <5>7
          <6> HIDE DEF halves, ending
          <6> QED
            BY <5>9, <6>1, <6>2
        <5> QED
          BY <4>2, <5>10
      <4> QED
        BY <4>3, <4>4
    <3> QED
      BY <3>16, <3>17
  <2> QED
    BY <2>14, <2>15
<1> QED
  BY <1>5, <1>6, <1>7

LEMMA SplitFolded ==
  ASSUME NEW V, NEW s \in Seq(V), NEW p, Usual(p), ~PlanOf(Tokens(Len(s)), p).refused, NEW bounds
  PROVE  NoRunt(SplitAt(s, PlanOf(Tokens(Len(s)), p), bounds), PlanOf(Tokens(Len(s)), p).target)
<1>1. PICK P, n, m : P = PlanOf(Tokens(Len(s)), p) /\ n = Tokens(Len(s)) /\ m = Len(s)
  OBVIOUS
<1>2. m \in Nat /\ n \in Nat /\ n = Tokens(m)
  <2>1. m \in Nat
    BY <1>1
  <2>2. Tokens(m) \in Nat
    BY <2>1, TokensFacts
  <2> QED
    BY <1>1, <2>1, <2>2
<1>3. /\ P.target \in Nat /\ P.limit = Usable(p) /\ (P.chunks <= 1 => n <= Usable(p))
      /\ P.chunks \in Int /\ (P.chunks > 1 => P.target \in 1 .. Usable(p))
  <2>1. P = PlanOf(n, p) /\ ~PlanOf(n, p).refused
    BY <1>1
  <2>2. /\ PlanOf(n, p).target \in Nat /\ PlanOf(n, p).limit = Usable(p)
        /\ PlanOf(n, p).chunks <= 1 => n <= Usable(p)
        /\ PlanOf(n, p).chunks \in Int
        /\ PlanOf(n, p).chunks > 1 => PlanOf(n, p).target \in 1 .. Usable(p)
    BY ONLY <1>2, <2>1, Usual(p), PlanFacts
  <2> QED
    BY <2>1, <2>2
<1>4. PICK c, r : c = Pieces(s, P, bounds) /\ r = SplitAt(s, P, bounds)
  OBVIOUS
<1>5. r = IF P.chunks <= 1 THEN <<Chunk(0, m, "end")>>
          ELSE IF \E i \in DOMAIN c : Size(c[i]) > P.limit THEN <<>>
          ELSE FoldRunt(s, c, P, bounds)
  BY <1>1, <1>4 DEF SplitAt
<1> SUFFICES NoRunt(r, P.target)
  BY <1>1, <1>4
<1>6. CASE Len(r) \in {0, 1}
  BY <1>6 DEF NoRunt
<1>7. CASE P.chunks <= 1
  <2>1. Len(r) = 1
    BY <1>5, <1>7
  <2> QED
    BY <1>6, <2>1
<1>8. CASE ~(P.chunks <= 1) /\ \E i \in DOMAIN c : Size(c[i]) > P.limit
  <2>1. r = <<>>
    BY <1>5, <1>8
  <2> QED
    BY <1>6, <2>1
<1>9. CASE ~(P.chunks <= 1) /\ ~\E i \in DOMAIN c : Size(c[i]) > P.limit
  <2>0. r = FoldRunt(s, c, P, bounds)
    BY <1>5, <1>9
  <2>1. Cover(s, c, 0)
    BY ONLY <1>3, <1>4, s \in Seq(V), PiecesFacts
  <2>3. P.target \in 1 .. Usable(p)
    BY <1>3, <1>9
  <2>4. Usable(p) \in Int
    <3>1. PICK x, y : x = p.context /\ y = p.reserve
      OBVIOUS
    <3>2. x \in Int /\ y \in Int
      BY <3>1 DEF Usual
    <3> QED
      BY <3>1, <3>2 DEF Usable
  <2>5. P.target \in Nat \ {0} /\ P.limit \in Int /\ P.target <= P.limit
    BY <1>3, <2>3, <2>4
  <2>6. Stout(s, c, P.target)
    BY ONLY <1>4, <2>5, s \in Seq(V), PiecesStout
  <2>7. CASE c = <<>>
    <3>1. r = c
      BY <2>0, <2>7 DEF FoldRunt
    <3> QED
      BY <1>6, <2>7, <3>1
  <2>8. CASE c # <<>>
    <3>1. PICK z : z = 0
      OBVIOUS
    <3>2. Cover(s, c, z)
      BY <2>1, <3>1
    <3>3. \E b \in Nat : Run(s, c, z, b) /\ Gap(s, b, Len(s))
      BY ONLY <2>8, <3>2, s \in Seq(V), CoverRun
    <3>4. PICK b \in Nat : Run(s, c, z, b) /\ Gap(s, b, Len(s))
      BY <3>3
    <3> QED
      BY ONLY <2>0, <2>5, <2>6, <3>4, s \in Seq(V), FoldFolded
  <2> QED
    BY <2>7, <2>8
<1> QED
  BY <1>7, <1>8, <1>9

LEMMA RuntsSound ==
  ASSUME ChunksInv
  PROVE  RuntFolded
<1>1. CASE Len(chunks) > 1
  <2>1. PICK s, p, c, V, e, P :
          s = text /\ p = pol /\ c = chunks /\ V = ToSet(text) /\ e = {} /\ P = Plan
    OBVIOUS
  <2>2. c # <<>>
    BY <1>1, <2>1
  <2>4. /\ s \in Seq(V) /\ Usual(p) /\ ~PlanOf(Tokens(Len(s)), p).refused
        /\ P = PlanOf(Tokens(Len(s)), p) /\ c = SplitAt(s, P, e)
    BY <2>1, <2>2, VcontextAssumption DEF ChunksInv, Plan
  <2>5. NoRunt(SplitAt(s, PlanOf(Tokens(Len(s)), p), e), PlanOf(Tokens(Len(s)), p).target)
    BY ONLY <2>4, SplitFolded
  <2>6. NoRunt(c, P.target)
    BY <2>4, <2>5
  <2> QED
    BY <2>1, <2>6 DEF NoRunt, RuntFolded
<1> QED
  BY <1>1 DEF RuntFolded

\* What Split makes of the document is sound in every part of the claim.
LEMMA SplitInvSound ==
  ASSUME ChunksInv, BridgesInv
  PROVE  SplitSound
BY ChunksInvSound, RuntsSound, RepairsSound, BridgesInvSound DEF SplitSound

---------------------------------------------------------------------------
(* Spans in the order of the text.                                           *)

Spans == [start : Nat, end : Nat]

\* The spans of a set that come before one.
AheadIn(S, x) == {y \in S : Sooner(y, x)}

SomeSpans(S) == IsFiniteSet(S) /\ S \subseteq Spans

\* A function on the first numbers is a sequence.
LEMMA LenDomain ==
  ASSUME NEW n \in Nat, NEW V, NEW P \in [1 .. n -> V]
  PROVE  P \in Seq(V) /\ Len(P) = n
<1>1. P \in Seq(V) /\ DOMAIN P = 1 .. n
  OBVIOUS
<1> QED
  BY <1>1

\* Of two spans one is before the other.
LEMMA SoonerFacts ==
  ASSUME NEW x \in Spans, NEW y \in Spans
  PROVE  /\ ~Sooner(x, x) /\ (x = y \/ Sooner(x, y) \/ Sooner(y, x)) /\ ~(Sooner(x, y) /\ Sooner(y, x))
         /\ \A z \in Spans : Sooner(x, y) /\ Sooner(y, z) => Sooner(x, z)
BY DEF Sooner, Spans

\* How many come before a span tells it from every other.
LEMMA AheadRanks ==
  ASSUME NEW S, SomeSpans(S)
  PROVE  /\ Cardinality(S) \in Nat
         /\ \A x \in S : Cardinality(AheadIn(S, x)) + 1 \in 1 .. Cardinality(S)
         /\ \A x, y \in S : Cardinality(AheadIn(S, x)) < Cardinality(AheadIn(S, y)) <=> Sooner(x, y)
         /\ \A x, y \in S : Cardinality(AheadIn(S, x)) = Cardinality(AheadIn(S, y)) => x = y
<1>1. IsFiniteSet(S) /\ Cardinality(S) \in Nat /\ \A x \in S : x \in Spans
  BY FS_CardinalityType DEF SomeSpans
<1>2. ASSUME NEW x \in S
      PROVE  /\ AheadIn(S, x) \subseteq S /\ x \notin AheadIn(S, x) /\ IsFiniteSet(AheadIn(S, x))
             /\ Cardinality(AheadIn(S, x)) \in Nat /\ Cardinality(AheadIn(S, x)) < Cardinality(S)
  <2>1. PICK A : A = AheadIn(S, x)
    OBVIOUS
  <2>2. A \subseteq S /\ x \notin A /\ A # S
    BY <1>1, <2>1, SoonerFacts DEF AheadIn
  <2>3. IsFiniteSet(A) /\ Cardinality(A) <= Cardinality(S) /\ (Cardinality(A) = Cardinality(S) => A = S)
    BY ONLY <1>1, <2>2, FS_Subset
  <2>4. Cardinality(A) \in Nat
    BY <2>3, FS_CardinalityType
  <2>5. Cardinality(A) < Cardinality(S)
    BY <1>1, <2>2, <2>3, <2>4
  <2> QED
    BY <2>1, <2>2, <2>3, <2>4, <2>5
<1>3. ASSUME NEW x \in S, NEW y \in S, Sooner(x, y)
      PROVE  Cardinality(AheadIn(S, x)) < Cardinality(AheadIn(S, y))
  <2>1. PICK A, B : A = AheadIn(S, x) /\ B = AheadIn(S, y)
    OBVIOUS
  <2>2. A \subseteq B
    BY <1>1, <1>3, <2>1, SoonerFacts DEF AheadIn
  <2>3. A # B /\ IsFiniteSet(B)
    BY <1>2, <1>3, <2>1 DEF AheadIn
  <2>4. Cardinality(A) <= Cardinality(B) /\ (Cardinality(A) = Cardinality(B) => A = B)
    BY ONLY <2>2, <2>3, FS_Subset
  <2>5. Cardinality(A) \in Nat /\ Cardinality(B) \in Nat
    BY <1>2, <2>1
  <2> QED
    BY <2>1, <2>3, <2>4, <2>5
<1>4. \A x, y \in S : x = y \/ Sooner(x, y) \/ Sooner(y, x)
  BY <1>1, SoonerFacts
<1>5. \A x \in S : Cardinality(AheadIn(S, x)) \in Nat /\ Cardinality(AheadIn(S, x)) < Cardinality(S)
  BY <1>2
<1>6. \A x \in S : Cardinality(AheadIn(S, x)) + 1 \in 1 .. Cardinality(S)
  BY <1>1, <1>5
<1>7. ASSUME NEW x \in S, NEW y \in S, Cardinality(AheadIn(S, x)) = Cardinality(AheadIn(S, y)) PROVE x = y
  <2>1. ~Sooner(x, y) /\ ~Sooner(y, x)
    BY <1>3, <1>5, <1>7
  <2> QED
    BY <1>4, <2>1
<1>8. ASSUME NEW x \in S, NEW y \in S, Cardinality(AheadIn(S, x)) < Cardinality(AheadIn(S, y))
      PROVE  Sooner(x, y)
  <2>1. ~Sooner(y, x) /\ x # y
    BY <1>3, <1>5, <1>8
  <2> QED
    BY <1>4, <2>1
<1> QED
  BY <1>1, <1>3, <1>6, <1>7, <1>8

\* InPlace has every span once, each behind those that come before it.
LEMMA InPlaceFacts ==
  ASSUME NEW S, SomeSpans(S), NEW n, n = Cardinality(S), NEW P, P = InPlace(S)
  PROVE  /\ n \in Nat /\ P \in [1 .. n -> S] /\ ToSet(P) = S
         /\ \A r \in 1 .. n : Cardinality(AheadIn(S, P[r])) = r - 1
         /\ \A r, t \in 1 .. n : P[r] = P[t] => r = t
         /\ \A r, t \in 1 .. n : r < t => Sooner(P[r], P[t])
<1> DEFINE rank == [x \in S |-> Cardinality(AheadIn(S, x)) + 1]
<1>1. P = [r \in 1 .. n |-> CHOOSE x \in S : Cardinality(AheadIn(S, x)) = r - 1]
  BY DEF InPlace, AheadIn
<1>2. /\ n \in Nat
      /\ \A x \in S : Cardinality(AheadIn(S, x)) + 1 \in 1 .. n
  BY AheadRanks
<1>3. /\ \A x, y \in S : Cardinality(AheadIn(S, x)) < Cardinality(AheadIn(S, y)) <=> Sooner(x, y)
      /\ \A x, y \in S : Cardinality(AheadIn(S, x)) = Cardinality(AheadIn(S, y)) => x = y
  BY AheadRanks
<1>4. \A x \in S : Cardinality(AheadIn(S, x)) \in Int
  <2>1. ASSUME NEW x \in S PROVE Cardinality(AheadIn(S, x)) \in Nat
    <3>1. IsFiniteSet(S) /\ AheadIn(S, x) \subseteq S
      BY DEF AheadIn, SomeSpans
    <3> QED
      BY <3>1, FS_Subset, FS_CardinalityType
  <2> QED
    BY <2>1
<1>5. rank \in Injection(S, 1 .. n)
  <2>1. rank \in [S -> 1 .. n]
    BY <1>2
  <2>2. \A x, y \in S : rank[x] = rank[y] => x = y
    BY <1>3, <1>4
  <2> HIDE DEF rank
  <2> QED
    BY <2>1, <2>2 DEF Injection, IsInjective
<1>6. rank \in Surjection(S, 1 .. n)
  <2>1. PICK D, f : D = 1 .. n /\ f = rank
    OBVIOUS
  <2>2. 1 \in Int /\ n \in Int
    BY <1>2
  <2>3. IsFiniteSet(D) /\ Cardinality(D) = n
    <3>1. IsFiniteSet(1 .. n) /\ Cardinality(1 .. n) = IF 1 > n THEN 0 ELSE n - 1 + 1
      BY ONLY <2>2, FS_Interval
    <3> QED
      BY <1>2, <2>1, <3>1
  <2>4. IsFiniteSet(S) /\ f \in Injection(S, D)
    BY <1>5, <2>1 DEF SomeSpans
  <2>5. Cardinality(S) = Cardinality(D) <=> f \in Surjection(S, D)
    BY ONLY <2>3, <2>4, FS_Injection
  <2> QED
    BY <2>1, <2>3, <2>5
<1>7. ASSUME NEW r \in 1 .. n PROVE P[r] \in S /\ Cardinality(AheadIn(S, P[r])) = r - 1
  <2>1. PICK x \in S : rank[x] = r
    <3> HIDE DEF rank
    <3> QED
      BY <1>6 DEF Surjection
  <2>2. Cardinality(AheadIn(S, x)) = r - 1
    BY <1>4, <2>1
  <2>3. P[r] = CHOOSE y \in S : Cardinality(AheadIn(S, y)) = r - 1
    BY <1>1
  <2> QED
    BY <2>2, <2>3
<1>8. P \in [1 .. n -> S]
  BY <1>1, <1>7
<1>9. ASSUME NEW x \in S PROVE \E r \in 1 .. n : P[r] = x
  <2>1. PICK r : r = Cardinality(AheadIn(S, x)) + 1
    OBVIOUS
  <2>2. r \in 1 .. n /\ r - 1 = Cardinality(AheadIn(S, x))
    BY <1>2, <1>4, <2>1
  <2>3. P[r] = x
    BY <1>3, <1>7, <2>2
  <2> QED
    BY <2>2, <2>3
<1>10. ToSet(P) = S
  BY <1>8, <1>9 DEF ToSet
<1>11. ASSUME NEW r \in 1 .. n, NEW t \in 1 .. n, P[r] = P[t] PROVE r = t
  <2>1. r - 1 = t - 1
    BY <1>7, <1>11
  <2> QED
    BY <2>1
<1>12. ASSUME NEW r \in 1 .. n, NEW t \in 1 .. n, r < t PROVE Sooner(P[r], P[t])
  <2>1. PICK x, y : x = P[r] /\ y = P[t]
    OBVIOUS
  <2>2. x \in S /\ y \in S /\ Cardinality(AheadIn(S, x)) < Cardinality(AheadIn(S, y))
    BY <1>7, <1>12, <2>1
  <2> QED
    BY <1>3, <2>1, <2>2
<1> QED
  BY <1>2, <1>7, <1>8, <1>10, <1>11, <1>12

\* The list Q is P with one more element.
OneMore(P, Q, n, x) ==
  \E k \in 1 .. n + 1 : /\ Q[k] = x /\ \A i \in 1 .. k - 1 : Q[i] = P[i]
                        /\ \A i \in k + 1 .. n + 1 : Q[i] = P[i - 1]

\* One more span moves those behind it by one place.
LEMMA InPlaceMore ==
  ASSUME NEW S, SomeSpans(S), NEW x \in Spans, x \notin S, NEW n, n = Cardinality(S),
         NEW P, P = InPlace(S), NEW Q, Q = InPlace(S \cup {x})
  PROVE  Cardinality(S \cup {x}) = n + 1 /\ SomeSpans(S \cup {x}) /\ OneMore(P, Q, n, x)
<1>1. PICK T : T = S \cup {x}
  OBVIOUS
<1>2. SomeSpans(T) /\ Cardinality(T) = n + 1 /\ n \in Nat
  BY <1>1, FS_AddElement, FS_CardinalityType DEF SomeSpans
<1>3. /\ P \in [1 .. n -> S]
      /\ \A r \in 1 .. n : Cardinality(AheadIn(S, P[r])) = r - 1
  BY InPlaceFacts
<1>4. PICK m : m = n + 1
  OBVIOUS
<1>5. /\ m = Cardinality(T) /\ Q = InPlace(T)
  BY <1>1, <1>2, <1>4
<1>6. /\ Q \in [1 .. m -> T] /\ ToSet(Q) = T
      /\ \A r \in 1 .. m : Cardinality(AheadIn(T, Q[r])) = r - 1
  BY ONLY <1>2, <1>5, InPlaceFacts
<1>7. \A y, z \in T : Cardinality(AheadIn(T, y)) = Cardinality(AheadIn(T, z)) => y = z
  BY <1>2, AheadRanks
<1>8. PICK k \in 1 .. m : Q[k] = x
  <2>1. x \in ToSet(Q)
    BY <1>1, <1>6
  <2> QED
    BY <1>6, <2>1 DEF ToSet
<1>9. Cardinality(AheadIn(T, x)) = k - 1
  BY <1>6, <1>8
<1>10. \A y \in T : Cardinality(AheadIn(T, y)) < Cardinality(AheadIn(T, x)) <=> Sooner(y, x)
  BY <1>1, <1>2, AheadRanks
<1>11. \A y \in T : Cardinality(AheadIn(T, x)) < Cardinality(AheadIn(T, y)) <=> Sooner(x, y)
  BY <1>1, <1>2, AheadRanks
<1>12. ASSUME NEW y \in S
       PROVE  /\ Sooner(y, x) => AheadIn(T, y) = AheadIn(S, y)
              /\ Sooner(x, y) => Cardinality(AheadIn(T, y)) = Cardinality(AheadIn(S, y)) + 1
  <2>1. y \in Spans
    BY DEF SomeSpans
  <2>2. ASSUME Sooner(y, x) PROVE AheadIn(T, y) = AheadIn(S, y)
    <3>1. ~Sooner(x, y)
      BY <2>1, <2>2, SoonerFacts
    <3> QED
      BY <1>1, <3>1 DEF AheadIn
  <2>3. ASSUME Sooner(x, y) PROVE Cardinality(AheadIn(T, y)) = Cardinality(AheadIn(S, y)) + 1
    <3>1. PICK A : A = AheadIn(S, y)
      OBVIOUS
    <3>2. AheadIn(T, y) = A \cup {x} /\ x \notin A /\ A \subseteq S /\ IsFiniteSet(S)
      BY <1>1, <2>3, <3>1 DEF AheadIn, SomeSpans
    <3>3. IsFiniteSet(A)
      BY <3>2, FS_Subset
    <3>4. Cardinality(A \cup {x}) = Cardinality(A) + 1
      BY ONLY <3>2, <3>3, FS_AddElement
    <3> QED
      BY <3>1, <3>2, <3>4
  <2> QED
    BY <2>2, <2>3
<1>13. ASSUME NEW i \in 1 .. k - 1 PROVE Q[i] = P[i]
  <2>1. PICK z : z = Q[i]
    OBVIOUS
  <2>2. i \in 1 .. m /\ i \in Int /\ k \in Int /\ i < k
    BY <1>2, <1>4
  <2>3. z \in T /\ Cardinality(AheadIn(T, z)) = i - 1
    BY <1>6, <2>1, <2>2
  <2>4. Sooner(z, x)
    BY <1>9, <1>10, <2>2, <2>3
  <2>5. z \in S /\ Cardinality(AheadIn(S, z)) = i - 1
    <3>1. z # x
      BY <2>4, SoonerFacts
    <3>2. z \in S
      BY <1>1, <2>3, <3>1
    <3> QED
      BY <1>12, <2>3, <2>4, <3>2
  <2>6. i \in 1 .. n
    BY <1>2, <1>4, <2>2
  <2>7. P[i] \in S /\ Cardinality(AheadIn(S, P[i])) = i - 1
    BY <1>3, <2>6
  <2>8. \A y, w \in S : Cardinality(AheadIn(S, y)) = Cardinality(AheadIn(S, w)) => y = w
    BY AheadRanks
  <2> QED
    BY <2>1, <2>5, <2>7, <2>8
<1>14. ASSUME NEW i \in k + 1 .. m PROVE Q[i] = P[i - 1]
  <2>1. PICK z : z = Q[i]
    OBVIOUS
  <2>2. i \in 1 .. m /\ i \in Int /\ k \in Int /\ k < i
    BY <1>2, <1>4
  <2>3. z \in T /\ Cardinality(AheadIn(T, z)) = i - 1
    BY <1>6, <2>1, <2>2
  <2>4. Sooner(x, z)
    BY <1>9, <1>11, <2>2, <2>3
  <2>5. z \in S /\ Cardinality(AheadIn(S, z)) = i - 2
    <3>1. z # x
      BY <2>4, SoonerFacts
    <3>2. z \in S
      BY <1>1, <2>3, <3>1
    <3>3. Cardinality(AheadIn(S, z)) \in Nat
      <4>1. IsFiniteSet(S) /\ AheadIn(S, z) \subseteq S
        BY DEF AheadIn, SomeSpans
      <4> QED
        BY <4>1, FS_Subset, FS_CardinalityType
    <3>4. i - 1 = Cardinality(AheadIn(S, z)) + 1
      BY <1>12, <2>3, <2>4, <3>2
    <3> QED
      BY <2>2, <3>2, <3>3, <3>4
  <2>6. i - 1 \in 1 .. n /\ (i - 1) - 1 = i - 2
    BY <1>2, <1>4, <2>2
  <2>7. P[i - 1] \in S /\ Cardinality(AheadIn(S, P[i - 1])) = i - 2
    BY <1>3, <2>6
  <2>8. \A y, w \in S : Cardinality(AheadIn(S, y)) = Cardinality(AheadIn(S, w)) => y = w
    BY AheadRanks
  <2> QED
    BY <2>1, <2>5, <2>7, <2>8
<1> QED
  BY <1>1, <1>2, <1>4, <1>8, <1>13, <1>14 DEF OneMore

---------------------------------------------------------------------------
(* The loops over the spans.                                                 *)

\* What the spans of a list cost together.
SpentOn(list) == FoldLeft(LAMBDA n, sp : n + Cost(sp), 0, list)

\* A span taken with what the ranked spans before it left of the budget.
TakeOne(acc, x, budget) ==
  IF acc.spent + Cost(x) > budget THEN [acc EXCEPT !.truncated = TRUE]
  ELSE [acc EXCEPT !.spans = @ \cup {x}, !.spent = @ + Cost(x)]

NoneTaken == [spans |-> {}, spent |-> 0, truncated |-> FALSE]

\* A span of the index behind those merged before it.
MergeOne(acc, x) ==
  IF acc # <<>> /\ x.start <= Last(acc).end
  THEN [acc EXCEPT ![Len(acc)].end = Max({@, x.end})]
  ELSE Append(acc, x)

LEMMA CostFacts ==
  ASSUME NEW x \in Spans
  PROVE  Cost(x) \in Int
<1>1. PICK n : n = x.end - x.start
  OBVIOUS
<1>2. n \in Int /\ 0 \in Int
  BY <1>1 DEF Spans
<1>3. Tokens(n) \in Int
  BY ONLY <1>2, TokensBound
<1> QED
  BY <1>1, <1>3 DEF Cost

\* The sums of what the first spans of a list cost.
Sums(r, P, n) ==
  r \in [0 .. n -> Int] /\ r[0] = 0 /\ \A k \in 1 .. n : r[k] = r[k - 1] + Cost(P[k])

Takings == [spans : SUBSET Spans, spent : Int, truncated : BOOLEAN]

Takes(r, p, n, budget) ==
  /\ r \in [0 .. n -> Takings] /\ r[0] = NoneTaken
  /\ \A k \in 1 .. n : r[k] = TakeOne(r[k - 1], p[k], budget)

LEMMA TakeOneType ==
  ASSUME NEW acc \in Takings, NEW x \in Spans, NEW budget \in Int
  PROVE  TakeOne(acc, x, budget) \in Takings
<1>1. PICK c : c = Cost(x) /\ c \in Int
  BY CostFacts
<1>2. acc.spans \cup {x} \in SUBSET Spans /\ acc.spent + c \in Int
  BY <1>1 DEF Takings
<1> QED
  BY <1>1, <1>2 DEF TakeOne, Takings

Merges(r, p, n) ==
  /\ r \in [0 .. n -> Seq(Spans)] /\ r[0] = <<>>
  /\ \A k \in 1 .. n : r[k] = MergeOne(r[k - 1], p[k])

LEMMA MergeOneType ==
  ASSUME NEW acc \in Seq(Spans), NEW x \in Spans
  PROVE  MergeOne(acc, x) \in Seq(Spans)
<1>1. PICK l, a, b : l = Len(acc) /\ a = acc[l].end /\ b = x.end
  OBVIOUS
<1>2. Last(acc) = acc[l] /\ l \in Nat
  BY <1>1 DEF Last
<1>3. CASE acc # <<>> /\ x.start <= acc[l].end
  <2>1. l \in 1 .. l /\ acc[l] \in Spans
    BY <1>1, <1>2, <1>3, EmptySeq
  <2>2. a \in Int /\ b \in Int
    BY <1>1, <2>1 DEF Spans
  <2>3. Max({a, b}) \in {a, b}
    BY ONLY <2>2, MaxOfTwo
  <2>4. PICK y : y = [acc[l] EXCEPT !.end = Max({a, b})]
    OBVIOUS
  <2>5. y \in Spans
    BY <1>1, <2>1, <2>3, <2>4 DEF Spans
  <2>6. MergeOne(acc, x) = [acc EXCEPT ![l] = y]
    BY <1>1, <1>2, <1>3, <2>4 DEF MergeOne
  <2> QED
    BY <1>1, <2>1, <2>5, <2>6
<1>4. CASE ~(acc # <<>> /\ x.start <= acc[l].end)
  BY <1>1, <1>2, <1>4 DEF MergeOne
<1> QED
  BY <1>3, <1>4

\* What a list costs is the last of a loop's sums.
LEMMA SpentLoop ==
  ASSUME NEW n \in Nat, NEW p \in [1 .. n -> Spans]
  PROVE  \E r : Sums(r, p, n) /\ SpentOn(p) = r[n]
<1>1. PICK V, base : V = Int /\ base = 0
  OBVIOUS
<1>2. DOMAIN p = 1 .. n /\ base \in V
  BY <1>1
<1>3. ASSUME NEW k \in 1 .. n, NEW q \in V PROVE q + Cost(p[k]) \in V
  <2>1. p[k] \in Spans
    OBVIOUS
  <2> QED
    BY <1>1, <2>1, CostFacts
<1> DEFINE up == [k \in 1 .. n |-> [q \in V |-> q + Cost(p[k])]]
           body(f) == [s \in SUBSET (1 .. n) |->
                         IF s = {} THEN 0 ELSE f[s \ {Max(s)}] + Cost(p[Max(s)])]
           h == CHOOSE f : f = body(f)
<1>4. up \in Loops(n, V)
  BY <1>3 DEF Loops
<1>5. \A s \in SUBSET (1 .. n) : s # {} => Max(s) \in 1 .. n /\ s \ {Max(s)} \in SUBSET (1 .. n)
  BY MaxFacts
<1>6. \A k \in 1 .. n, q \in V : up[k][q] = q + Cost(p[k])
  OBVIOUS
<1>7. PICK f : Folded(f, n, V, base, up)
  <2> HIDE DEF up
  <2> QED
    BY <1>4, <1>2, FoldExists
<1>8. f = body(f)
  <2>1. \A s \in SUBSET (1 .. n) :
          f[s] = IF s = {} THEN 0 ELSE f[s \ {Max(s)}] + Cost(p[Max(s)])
    <3>1. \A s \in SUBSET (1 .. n) : f[s] \in V
      BY <1>7 DEF Folded
    <3> HIDE DEF up
    <3> QED
      BY <1>5, <1>6, <1>7, <1>1, <3>1 DEF Folded
  <2> QED
    BY <1>7, <2>1 DEF Folded
<1>9. h = body(h)
  <2> HIDE DEF body
  <2> QED
    BY <1>8
<1>10. SpentOn(p) = h[1 .. n]
  BY DEF SpentOn, FoldLeft, MapThenFoldSet
<1>11. Folds(h, n, V, base, up)
  <2> HIDE DEF h
  <2>1. \A s \in SUBSET (1 .. n) :
          h[s] = IF s = {} THEN 0 ELSE h[s \ {Max(s)}] + Cost(p[Max(s)])
    BY <1>9
  <2>2. {} \in SUBSET (1 .. n)
    OBVIOUS
  <2> HIDE DEF up
  <2> QED
    BY <1>5, <1>6, <1>1, <2>1, <2>2 DEF Folds
<1>12. Looped(Before(h, n), n, V, base, up) /\ h[1 .. n] = Before(h, n)[n]
  <2> HIDE DEF h, up
  <2> QED
    BY <1>4, <1>11, <1>2, FoldLoop
<1>13. PICK r : r = Before(h, n)
  OBVIOUS
<1>14. r \in [0 .. n -> V] /\ r[0] = base /\ \A k \in 1 .. n : r[k] = up[k][r[k - 1]]
  BY <1>12, <1>13 DEF Looped
<1>15. \A k \in 1 .. n : r[k] = r[k - 1] + Cost(p[k])
  <2>1. \A k \in 1 .. n : k - 1 \in 0 .. n
    OBVIOUS
  <2> HIDE DEF up, h
  <2> QED
    BY <1>6, <1>14, <2>1
<1> HIDE DEF h
<1> QED
  BY <1>10, <1>12, <1>13, <1>14, <1>15, <1>1 DEF Sums

\* What is taken is what a loop over the ranked spans takes.
LEMMA TakenLoop ==
  ASSUME NEW n \in Nat, NEW p \in [1 .. n -> Spans], NEW budget \in Int
  PROVE  \E r : Takes(r, p, n, budget) /\ Taken(p, budget) = r[n]
<1>1. PICK V, base : V = Takings /\ base = NoneTaken
  OBVIOUS
<1>2. DOMAIN p = 1 .. n /\ base \in V
  BY <1>1 DEF Takings, NoneTaken
<1>3. ASSUME NEW k \in 1 .. n, NEW q \in V PROVE TakeOne(q, p[k], budget) \in V
  <2>1. p[k] \in Spans
    OBVIOUS
  <2> QED
    BY <1>1, <2>1, TakeOneType
<1> DEFINE up == [k \in 1 .. n |-> [q \in V |-> TakeOne(q, p[k], budget)]]
           body(f) == [s \in SUBSET (1 .. n) |->
                         IF s = {} THEN NoneTaken ELSE TakeOne(f[s \ {Max(s)}], p[Max(s)], budget)]
           h == CHOOSE f : f = body(f)
<1>4. up \in Loops(n, V)
  BY <1>3 DEF Loops
<1>5. \A s \in SUBSET (1 .. n) : s # {} => Max(s) \in 1 .. n /\ s \ {Max(s)} \in SUBSET (1 .. n)
  BY MaxFacts
<1>6. \A k \in 1 .. n, q \in V : up[k][q] = TakeOne(q, p[k], budget)
  OBVIOUS
<1>7. PICK f : Folded(f, n, V, base, up)
  <2> HIDE DEF up
  <2> QED
    BY <1>4, <1>2, FoldExists
<1>8. f = body(f)
  <2>1. \A s \in SUBSET (1 .. n) :
          f[s] = IF s = {} THEN NoneTaken ELSE TakeOne(f[s \ {Max(s)}], p[Max(s)], budget)
    <3>1. \A s \in SUBSET (1 .. n) : f[s] \in V
      BY <1>7 DEF Folded
    <3> HIDE DEF up
    <3> QED
      BY <1>5, <1>6, <1>7, <1>1, <3>1 DEF Folded
  <2> QED
    BY <1>7, <2>1 DEF Folded
<1>9. h = body(h)
  <2> HIDE DEF body
  <2> QED
    BY <1>8
<1>10. Taken(p, budget) = h[1 .. n]
  BY DEF Taken, TakeOne, NoneTaken, FoldLeft, MapThenFoldSet
<1>11. Folds(h, n, V, base, up)
  <2> HIDE DEF h
  <2>1. \A s \in SUBSET (1 .. n) :
          h[s] = IF s = {} THEN NoneTaken ELSE TakeOne(h[s \ {Max(s)}], p[Max(s)], budget)
    BY <1>9
  <2>2. {} \in SUBSET (1 .. n)
    OBVIOUS
  <2> HIDE DEF up
  <2> QED
    BY <1>5, <1>6, <1>1, <2>1, <2>2 DEF Folds
<1>12. Looped(Before(h, n), n, V, base, up) /\ h[1 .. n] = Before(h, n)[n]
  <2> HIDE DEF h, up
  <2> QED
    BY <1>4, <1>11, <1>2, FoldLoop
<1>13. PICK r : r = Before(h, n)
  OBVIOUS
<1>14. r \in [0 .. n -> V] /\ r[0] = base /\ \A k \in 1 .. n : r[k] = up[k][r[k - 1]]
  BY <1>12, <1>13 DEF Looped
<1>15. \A k \in 1 .. n : r[k] = TakeOne(r[k - 1], p[k], budget)
  <2>1. \A k \in 1 .. n : k - 1 \in 0 .. n
    OBVIOUS
  <2> HIDE DEF up, h
  <2> QED
    BY <1>6, <1>14, <2>1
<1> HIDE DEF h
<1> QED
  BY <1>10, <1>12, <1>13, <1>14, <1>15, <1>1 DEF Takes

\* The index is what a loop over the spans in their order merges.
LEMMA MergeLoop ==
  ASSUME NEW n \in Nat, NEW p \in [1 .. n -> Spans], NEW S, p = InPlace(S)
  PROVE  \E r : Merges(r, p, n) /\ IndexOf(S) = r[n]
<1>1. PICK V, base : V = Seq(Spans) /\ base = <<>>
  OBVIOUS
<1>2. DOMAIN p = 1 .. n /\ base \in V
  BY <1>1
<1>3. ASSUME NEW k \in 1 .. n, NEW q \in V PROVE MergeOne(q, p[k]) \in V
  <2>1. p[k] \in Spans
    OBVIOUS
  <2> QED
    BY <1>1, <2>1, MergeOneType
<1> DEFINE up == [k \in 1 .. n |-> [q \in V |-> MergeOne(q, p[k])]]
           body(f) == [s \in SUBSET (1 .. n) |->
                         IF s = {} THEN <<>> ELSE MergeOne(f[s \ {Max(s)}], p[Max(s)])]
           h == CHOOSE f : f = body(f)
<1>4. up \in Loops(n, V)
  BY <1>3 DEF Loops
<1>5. \A s \in SUBSET (1 .. n) : s # {} => Max(s) \in 1 .. n /\ s \ {Max(s)} \in SUBSET (1 .. n)
  BY MaxFacts
<1>6. \A k \in 1 .. n, q \in V : up[k][q] = MergeOne(q, p[k])
  OBVIOUS
<1>7. PICK f : Folded(f, n, V, base, up)
  <2> HIDE DEF up
  <2> QED
    BY <1>4, <1>2, FoldExists
<1>8. f = body(f)
  <2>1. \A s \in SUBSET (1 .. n) :
          f[s] = IF s = {} THEN <<>> ELSE MergeOne(f[s \ {Max(s)}], p[Max(s)])
    <3>1. \A s \in SUBSET (1 .. n) : f[s] \in V
      BY <1>7 DEF Folded
    <3> HIDE DEF up
    <3> QED
      BY <1>5, <1>6, <1>7, <1>1, <3>1 DEF Folded
  <2> QED
    BY <1>7, <2>1 DEF Folded
<1>9. h = body(h)
  <2> HIDE DEF body
  <2> QED
    BY <1>8
<1>10. IndexOf(S) = h[1 .. n]
  BY DEF IndexOf, MergeOne, FoldLeft, MapThenFoldSet
<1>11. Folds(h, n, V, base, up)
  <2> HIDE DEF h
  <2>1. \A s \in SUBSET (1 .. n) :
          h[s] = IF s = {} THEN <<>> ELSE MergeOne(h[s \ {Max(s)}], p[Max(s)])
    BY <1>9
  <2>2. {} \in SUBSET (1 .. n)
    OBVIOUS
  <2> HIDE DEF up
  <2> QED
    BY <1>5, <1>6, <1>1, <2>1, <2>2 DEF Folds
<1>12. Looped(Before(h, n), n, V, base, up) /\ h[1 .. n] = Before(h, n)[n]
  <2> HIDE DEF h, up
  <2> QED
    BY <1>4, <1>11, <1>2, FoldLoop
<1>13. PICK r : r = Before(h, n)
  OBVIOUS
<1>14. r \in [0 .. n -> V] /\ r[0] = base /\ \A k \in 1 .. n : r[k] = up[k][r[k - 1]]
  BY <1>12, <1>13 DEF Looped
<1>15. \A k \in 1 .. n : r[k] = MergeOne(r[k - 1], p[k])
  <2>1. \A k \in 1 .. n : k - 1 \in 0 .. n
    OBVIOUS
  <2> HIDE DEF up, h
  <2> QED
    BY <1>6, <1>14, <2>1
<1> HIDE DEF h
<1> QED
  BY <1>10, <1>12, <1>13, <1>14, <1>15, <1>1 DEF Merges

---------------------------------------------------------------------------
(* What the spans of a set cost, in their order.                             *)

\* Nothing costs nothing.
LEMMA SpentNone == SpentOn(InPlace({})) = 0 /\ SomeSpans({})
<1>1. PICK S, z : S = {} /\ z = 0
  OBVIOUS
<1>2. SomeSpans(S)
  BY <1>1, FS_EmptySet DEF SomeSpans
<1>3. PICK n, P : n = Cardinality(S) /\ P = InPlace(S)
  OBVIOUS
<1>4. n = 0 /\ n \in Nat
  BY <1>1, <1>3, FS_EmptySet
<1>5. P \in [1 .. n -> S]
  BY ONLY <1>2, <1>3, InPlaceFacts
<1>6. P \in [1 .. n -> Spans]
  BY <1>1, <1>4, <1>5
<1>7. PICK r : Sums(r, P, n) /\ SpentOn(P) = r[n]
  BY ONLY <1>4, <1>6, SpentLoop
<1> QED
  BY <1>1, <1>2, <1>3, <1>4, <1>7 DEF Sums

LEMMA SpentSums ==
  ASSUME NEW S, SomeSpans(S), NEW n, n = Cardinality(S), NEW P, P = InPlace(S)
  PROVE  n \in Nat /\ P \in [1 .. n -> Spans] /\ \E r : Sums(r, P, n) /\ SpentOn(P) = r[n]
<1>1. P \in [1 .. n -> S] /\ n \in Nat
  BY InPlaceFacts
<1>2. P \in [1 .. n -> Spans]
  BY <1>1 DEF SomeSpans
<1>3. \E r : Sums(r, P, n) /\ SpentOn(P) = r[n]
  BY ONLY <1>1, <1>2, SpentLoop
<1> QED
  BY <1>1, <1>2, <1>3

\* One more span costs what it costs, wherever its place is.
LEMMA SpentMore ==
  ASSUME NEW S, SomeSpans(S), NEW x \in Spans, x \notin S
  PROVE  /\ SomeSpans(S \cup {x})
         /\ SpentOn(InPlace(S \cup {x})) = SpentOn(InPlace(S)) + Cost(x)
<1>1. PICK n, P, T, m, Q : /\ n = Cardinality(S) /\ P = InPlace(S) /\ T = S \cup {x}
                           /\ m = Cardinality(T) /\ Q = InPlace(T)
  OBVIOUS
<1>2. n \in Nat /\ P \in [1 .. n -> Spans] /\ \E r : Sums(r, P, n) /\ SpentOn(P) = r[n]
  BY <1>1, SpentSums
<1>3. PICK r : Sums(r, P, n) /\ SpentOn(P) = r[n]
  BY <1>2
<1>4. m = n + 1 /\ SomeSpans(T) /\ OneMore(P, Q, n, x)
  <2>1. Cardinality(S \cup {x}) = n + 1 /\ SomeSpans(S \cup {x}) /\ OneMore(P, Q, n, x)
    BY ONLY <1>1, SomeSpans(S), x \in Spans, x \notin S, InPlaceMore
  <2> QED
    BY <1>1, <2>1
<1>5. PICK k \in 1 .. m : /\ Q[k] = x /\ \A i \in 1 .. k - 1 : Q[i] = P[i]
                          /\ \A i \in k + 1 .. m : Q[i] = P[i - 1]
  BY <1>4 DEF OneMore
<1>6. PICK t : Sums(t, Q, m) /\ SpentOn(Q) = t[m]
  <2>1. \E t : Sums(t, Q, m) /\ SpentOn(Q) = t[m]
    <3>1. m = Cardinality(T) /\ Q = InPlace(T) /\ SomeSpans(T)
      BY <1>1, <1>4
    <3> QED
      BY ONLY <3>1, SpentSums
  <2> QED
    BY <2>1
<1>7. PICK c : c = Cost(x) /\ c \in Int
  BY CostFacts
<1> DEFINE J == {i \in Nat : i <= m => t[i] = IF i < k THEN r[i] ELSE r[i - 1] + c}
<1>8. \A i \in 0 .. n : r[i] \in Int
  BY <1>3 DEF Sums
<1>9. 0 \in J
  BY <1>3, <1>5, <1>6, <1>4, <1>2 DEF Sums
<1>10. ASSUME NEW i \in Nat, i \in J PROVE i + 1 \in J
  <2> SUFFICES ASSUME i + 1 <= m PROVE t[i + 1] = IF i + 1 < k THEN r[i + 1] ELSE r[(i + 1) - 1] + c
    OBVIOUS
  <2>1. i <= m /\ i \in 0 .. n /\ i + 1 \in 1 .. m /\ (i + 1) - 1 = i /\ k \in Int
    BY <1>2, <1>4, <1>5
  <2>2. t[i + 1] = t[i] + Cost(Q[i + 1])
    BY <1>6, <2>1 DEF Sums
  <2>3. t[i] = IF i < k THEN r[i] ELSE r[i - 1] + c
    BY <1>10, <2>1
  <2>4. CASE i + 1 < k
    <3>1. i + 1 \in 1 .. k - 1 /\ i + 1 \in 1 .. n /\ i < k
      BY <1>2, <1>4, <2>1, <2>4
    <3>2. Q[i + 1] = P[i + 1] /\ r[i + 1] = r[i] + Cost(P[i + 1])
      BY <1>3, <1>5, <2>1, <3>1 DEF Sums
    <3> QED
      BY <2>2, <2>3, <2>4, <3>1, <3>2
  <2>5. CASE i + 1 = k
    <3>1. i < k /\ Q[i + 1] = x
      BY <1>5, <2>1, <2>5
    <3> QED
      BY <1>7, <2>1, <2>2, <2>3, <2>5, <3>1
  <2>6. CASE i + 1 > k
    <3>1. i + 1 \in k + 1 .. m /\ i \in 1 .. n /\ ~(i < k) /\ i - 1 \in 0 .. n
      BY <1>2, <1>4, <1>5, <2>1, <2>6
    <3>2. Q[i + 1] = P[i] /\ r[i] = r[i - 1] + Cost(P[i])
      BY <1>3, <1>5, <2>1, <3>1 DEF Sums
    <3>3. P[i] \in Spans
      BY <1>2, <3>1
    <3>4. PICK d : d = Cost(P[i]) /\ d \in Int
      BY <3>3, CostFacts
    <3>5. r[i - 1] \in Int /\ t[i] = r[i - 1] + c /\ t[i + 1] = t[i] + d /\ r[i] = r[i - 1] + d
      BY <1>8, <2>2, <2>3, <3>1, <3>2, <3>4
    <3>6. t[i + 1] = r[i] + c
      BY ONLY <1>7, <3>4, <3>5
    <3> QED
      BY <2>1, <2>6, <3>1, <3>6
  <2> QED
    BY <2>1, <2>4, <2>5, <2>6
<1>11. m \in J
  <2>1. m \in Nat
    BY <1>2, <1>4
  <2> HIDE DEF J
  <2> QED
    BY <1>9, <1>10, <2>1, Induct
<1>12. t[m] = r[n] + c
  <2>1. ~(m < k) /\ m - 1 = n /\ m \in Nat
    BY <1>2, <1>4, <1>5
  <2> QED
    BY <1>11, <2>1
<1> QED
  BY <1>1, <1>3, <1>4, <1>6, <1>7, <1>12

---------------------------------------------------------------------------
(* What is taken within the budget.                                          *)

\* Taken of the first k of the ranked spans.
FitsIn(acc, ranked_, k, budget) ==
  /\ acc \in Takings /\ SomeSpans(acc.spans) /\ acc.spans \subseteq {ranked_[i] : i \in 1 .. k}
  /\ acc.spent = SpentOn(InPlace(acc.spans)) /\ acc.spent <= budget
  /\ acc.truncated <=> acc.spans # {ranked_[i] : i \in 1 .. k}
  /\ k >= 1 /\ Cost(ranked_[1]) <= budget => ranked_[1] \in acc.spans

\* Each of the ranked spans stands there once.
Ranked(ranked_, n) ==
  ranked_ \in [1 .. n -> Spans] /\ \A i, j \in 1 .. n : i # j => ranked_[i] # ranked_[j]

LEMMA TakeOneFits ==
  ASSUME NEW n \in Nat, NEW p, Ranked(p, n), NEW budget \in Int, NEW k \in 1 .. n, NEW acc,
         FitsIn(acc, p, k - 1, budget)
  PROVE  FitsIn(TakeOne(acc, p[k], budget), p, k, budget)
<1>1. PICK x, c, old, new, then :
        /\ x = p[k] /\ c = Cost(x) /\ old = {p[i] : i \in 1 .. k - 1} /\ new = {p[i] : i \in 1 .. k}
        /\ then = TakeOne(acc, x, budget)
  OBVIOUS
<1>2. x \in Spans /\ c \in Int
  BY <1>1, CostFacts DEF Ranked
<1>3. /\ acc \in Takings /\ SomeSpans(acc.spans) /\ acc.spans \subseteq old
      /\ acc.spent = SpentOn(InPlace(acc.spans)) /\ acc.spent <= budget
      /\ acc.truncated <=> acc.spans # old
  BY <1>1 DEF FitsIn
<1>4. x \notin old /\ new = old \cup {x}
  <2>1. \A i \in 1 .. k - 1 : i \in 1 .. n /\ i # k
    OBVIOUS
  <2>2. \A i \in 1 .. k : i = k \/ i \in 1 .. k - 1
    OBVIOUS
  <2>3. k \in 1 .. k /\ \A i \in 1 .. k - 1 : i \in 1 .. k
    OBVIOUS
  <2>4. x \notin old
    BY <1>1, <2>1 DEF Ranked
  <2> QED
    BY <1>1, <2>2, <2>3, <2>4
<1>5. then \in Takings
  BY <1>1, <1>2, <1>3, TakeOneType
<1>6. k > 1 => (Cost(p[1]) <= budget => p[1] \in acc.spans)
  <2> SUFFICES ASSUME k > 1 PROVE Cost(p[1]) <= budget => p[1] \in acc.spans
    OBVIOUS
  <2>1. k - 1 >= 1
    OBVIOUS
  <2> QED
    BY <2>1 DEF FitsIn
<1>7. CASE acc.spent + c > budget
  <2>1. /\ then.spans = acc.spans /\ then.spent = acc.spent /\ then.truncated = TRUE
    BY <1>1, <1>3, <1>7 DEF TakeOne, Takings
  <2>2. then.spans \subseteq new /\ then.spans # new
    BY <1>3, <1>4, <2>1
  <2>3. k > 1 \/ ~(Cost(p[1]) <= budget)
    <3> SUFFICES ASSUME k = 1 PROVE ~(c <= budget) /\ c = Cost(p[1])
      BY <1>2
    <3>1. old = {}
      BY <1>1
    <3>2. acc.spent = 0
      BY <1>3, <3>1, SpentNone
    <3> QED
      BY <1>1, <1>2, <1>7, <3>2
  <2> QED
    BY <1>1, <1>3, <1>5, <1>6, <2>1, <2>2, <2>3 DEF FitsIn
<1>8. CASE ~(acc.spent + c > budget)
  <2>1. /\ then.spans = acc.spans \cup {x} /\ then.spent = acc.spent + c
        /\ then.truncated = acc.truncated
    BY <1>1, <1>3, <1>8 DEF TakeOne, Takings
  <2>2. x \notin acc.spans
    BY <1>3, <1>4
  <2>3. then.spans \subseteq new /\ (then.spans # new <=> acc.spans # old)
    BY <1>3, <1>4, <2>1, <2>2
  <2>4. /\ SomeSpans(then.spans) /\ then.spent = SpentOn(InPlace(then.spans))
    BY <1>1, <1>2, <1>3, <2>1, <2>2, SpentMore
  <2>5. then.spent <= budget
    BY <1>2, <1>3, <1>8, <2>1 DEF Takings
  <2>6. k > 1 \/ p[1] \in then.spans
    BY <1>1, <2>1
  <2>7. then.truncated <=> then.spans # new
    BY ONLY <1>3, <2>1, <2>3
  <2> QED
    BY <1>1, <1>5, <1>6, <2>1, <2>3, <2>4, <2>5, <2>6, <2>7 DEF FitsIn
<1> QED
  BY <1>7, <1>8

LEMMA TakenFits ==
  ASSUME NEW n \in Nat, NEW p, Ranked(p, n), NEW budget \in Nat
  PROVE  FitsIn(Taken(p, budget), p, n, budget)
<1>1. p \in [1 .. n -> Spans] /\ budget \in Int
  BY DEF Ranked
<1>2. PICK r : Takes(r, p, n, budget) /\ Taken(p, budget) = r[n]
  BY ONLY <1>1, n \in Nat, TakenLoop
<1>3. PICK base : base = NoneTaken
  OBVIOUS
<1>4. base \in Takings
  BY <1>3 DEF Takings, NoneTaken
<1>5. r[0] = base /\ \A k \in 1 .. n : r[k] = TakeOne(r[k - 1], p[k], budget)
  BY <1>2, <1>3 DEF Takes
<1> DEFINE J == {k \in Nat : k <= n => FitsIn(r[k], p, k, budget)}
<1>6. FitsIn(base, p, 0, budget)
  <2>1. base.spans = {} /\ base.spent = 0 /\ base.truncated = FALSE
    BY <1>3 DEF NoneTaken
  <2>2. {p[i] : i \in 1 .. 0} = {}
    OBVIOUS
  <2>3. SomeSpans(base.spans) /\ base.spent = SpentOn(InPlace(base.spans))
    BY <2>1, SpentNone
  <2> QED
    BY <1>4, <2>1, <2>2, <2>3 DEF FitsIn
<1>7. 0 \in J
  BY <1>5, <1>6
<1>8. ASSUME NEW k \in Nat, k \in J PROVE k + 1 \in J
  <2> SUFFICES ASSUME k + 1 <= n PROVE FitsIn(r[k + 1], p, k + 1, budget)
    OBVIOUS
  <2>1. PICK m : m = k + 1
    OBVIOUS
  <2>2. m \in 1 .. n /\ m - 1 = k /\ k <= n
    BY <2>1
  <2>3. FitsIn(r[k], p, m - 1, budget)
    BY <1>8, <2>2
  <2>4. r[m] = TakeOne(r[k], p[m], budget)
    BY <1>5, <2>2
  <2>5. FitsIn(TakeOne(r[k], p[m], budget), p, m, budget)
    BY <2>2, <2>3, TakeOneFits
  <2> QED
    BY <2>1, <2>4, <2>5
<1>9. n \in J
  <2> HIDE DEF J
  <2> QED
    BY <1>7, <1>8, Induct
<1> QED
  BY <1>2, <1>9

---------------------------------------------------------------------------
(* The index.                                                                *)

\* Spans that hold something.
Proper(x) == x.start < x.end

\* Nothing of the two is shared, nor do they touch.
Gapped(x, y) == x.end < y.start

Spaced(list) ==
  /\ list \in Seq(Spans)
  /\ \A i \in 1 .. Len(list) : Proper(list[i])
  /\ \A i, j \in 1 .. Len(list) : i < j => Gapped(list[i], list[j])

Holds(list, x) == \E i \in 1 .. Len(list) : list[i].start <= x.start /\ x.end <= list[i].end

\* The first k spans merged.
MergedTo(acc, p, k) ==
  /\ Spaced(acc)
  /\ k = 0 => acc = <<>>
  /\ k > 0 => acc # <<>> /\ acc[Len(acc)].start <= p[k].start
  /\ \A j \in 1 .. k : Holds(acc, p[j])

\* Proper spans in their order.
InOrderFrom(p, n) ==
  /\ p \in [1 .. n -> Spans] /\ \A i \in 1 .. n : Proper(p[i])
  /\ \A i, j \in 1 .. n : i < j => Sooner(p[i], p[j])

LEMMA MergeOneTo ==
  ASSUME NEW n \in Nat, NEW p, InOrderFrom(p, n), NEW k \in 1 .. n, NEW acc, MergedTo(acc, p, k - 1)
  PROVE  MergedTo(MergeOne(acc, p[k]), p, k)
<1>1. PICK x, l, then : x = p[k] /\ l = Len(acc) /\ then = MergeOne(acc, x)
  OBVIOUS
<1>2. x \in Spans /\ Proper(x) /\ acc \in Seq(Spans) /\ l \in Nat
  BY <1>1 DEF InOrderFrom, MergedTo, Spaced
<1>3. /\ \A i \in 1 .. l : Proper(acc[i]) /\ acc[i] \in Spans
      /\ \A i, j \in 1 .. l : i < j => Gapped(acc[i], acc[j])
  BY <1>1, <1>2 DEF MergedTo, Spaced
<1>4. \A j \in 1 .. k - 1 : Holds(acc, p[j])
  BY DEF MergedTo
<1>5. l > 0 => acc[l].start <= x.start
  <2> SUFFICES ASSUME l > 0 PROVE acc[l].start <= x.start
    OBVIOUS
  <2>1. CASE k = 1
    BY <1>1, <2>1 DEF MergedTo
  <2>2. CASE k > 1
    <3>1. k - 1 > 0 /\ k - 1 \in 1 .. n /\ k - 1 < k
      BY <2>2
    <3>2. acc[l].start <= p[k - 1].start
      BY <1>1, <3>1 DEF MergedTo
    <3>3. Sooner(p[k - 1], x) /\ p[k - 1] \in Spans /\ acc[l] \in Spans
      BY <1>1, <1>3, <3>1 DEF InOrderFrom
    <3> QED
      BY <1>2, <3>2, <3>3 DEF Sooner, Spans
  <2> QED
    BY <2>1, <2>2
<1>6. Last(acc) = acc[l]
  BY <1>1 DEF Last
<1>7. ASSUME acc # <<>>, x.start <= acc[l].end PROVE MergedTo(then, p, k)
  <2>1. PICK e : e = Max({acc[l].end, x.end})
    OBVIOUS
  <2>2. l \in 1 .. l /\ l > 0
    BY <1>1, <1>2, <1>7, EmptySeq
  <2>3. acc[l] \in Spans /\ Proper(acc[l])
    BY <1>3, <2>2
  <2>4. e \in {acc[l].end, x.end} /\ e >= acc[l].end /\ e >= x.end
    <3>1. PICK a, b : a = acc[l].end /\ b = x.end
      OBVIOUS
    <3>2. a \in Int /\ b \in Int
      BY <1>2, <2>3, <3>1 DEF Spans
    <3>3. e = Max({a, b})
      BY <2>1, <3>1
    <3>4. Max({a, b}) \in {a, b} /\ Max({a, b}) >= a /\ Max({a, b}) >= b
      BY ONLY <3>2, MaxOfTwo
    <3> QED
      BY <3>1, <3>3, <3>4
  <2>5. then = [acc EXCEPT ![l].end = e]
    BY <1>1, <1>6, <1>7, <2>1 DEF MergeOne
  <2>6. PICK y : y = [acc[l] EXCEPT !.end = e]
    OBVIOUS
  <2>7. y \in Spans /\ y.start = acc[l].start /\ y.end = e
    BY <1>2, <2>3, <2>4, <2>6 DEF Spans
  <2>8. then = [acc EXCEPT ![l] = y]
    BY <2>5, <2>6
  <2>9. then \in Seq(Spans) /\ Len(then) = l /\ then[l] = y /\ \A i \in 1 .. l : i # l => then[i] = acc[i]
    BY <1>1, <1>2, <2>2, <2>7, <2>8
  <2>10. Proper(y)
    BY <2>3, <2>4, <2>7 DEF Proper, Spans
  <2>11. \A i \in 1 .. l : Proper(then[i])
    BY <1>3, <2>9, <2>10
  <2>12. ASSUME NEW i \in 1 .. l, NEW j \in 1 .. l, i < j PROVE Gapped(then[i], then[j])
    <3>1. i # l /\ Gapped(acc[i], acc[j])
      BY <1>2, <1>3, <2>12
    <3>2. then[j].start = acc[j].start
      BY <2>7, <2>9
    <3> QED
      BY <2>9, <3>1, <3>2 DEF Gapped
  <2>13. ASSUME NEW z \in Spans, Holds(acc, z) PROVE Holds(then, z)
    <3>1. PICK i \in 1 .. l : acc[i].start <= z.start /\ z.end <= acc[i].end
      BY <1>1, <2>13 DEF Holds
    <3>2. then[i].start <= z.start
      BY <2>7, <2>9, <3>1
    <3>3. z.end <= then[i].end
      <4>1. CASE i # l
        BY <2>9, <3>1, <4>1
      <4>2. CASE i = l
        <5>1. z.end <= acc[l].end /\ then[i].end = e
          BY <2>7, <2>9, <3>1, <4>2
        <5>2. PICK a, b, c : a = acc[l].end /\ b = x.end /\ c = z.end
          OBVIOUS
        <5>3. a \in Nat /\ b \in Nat /\ c \in Nat
          BY <1>2, <2>3, <5>2 DEF Spans
        <5>4. e \in {a, b} /\ e >= a /\ c <= a
          BY ONLY <2>4, <5>1, <5>2
        <5> QED
          BY ONLY <5>1, <5>2, <5>3, <5>4
      <4> QED
        BY <4>1, <4>2
    <3> QED
      BY <2>9, <3>1, <3>2, <3>3 DEF Holds
  <2>14. Holds(then, x)
    <3>1. then[l].start <= x.start /\ x.end <= then[l].end
      BY <1>2, <1>5, <2>2, <2>3, <2>4, <2>7, <2>9 DEF Spans
    <3> QED
      BY <2>2, <2>9, <3>1 DEF Holds
  <2>15. \A j \in 1 .. k : Holds(then, p[j])
    <3>1. \A j \in 1 .. k : j = k \/ (j \in 1 .. k - 1 /\ j \in 1 .. n)
      OBVIOUS
    <3>2. \A j \in 1 .. n : p[j] \in Spans
      BY DEF InOrderFrom
    <3> QED
      BY <1>1, <1>4, <2>13, <2>14, <3>1, <3>2
  <2>16. then # <<>> /\ then[Len(then)].start <= x.start
    BY <1>5, <2>2, <2>7, <2>9
  <2> QED
    BY <1>1, <2>9, <2>11, <2>12, <2>15, <2>16 DEF MergedTo, Spaced
<1>8. ASSUME acc = <<>> \/ ~(x.start <= acc[l].end) PROVE MergedTo(then, p, k)
  <2>1. then = Append(acc, x)
    BY <1>1, <1>6, <1>8 DEF MergeOne
  <2>2. PICK m : m = l + 1
    OBVIOUS
  <2>3. /\ then \in Seq(Spans) /\ Len(then) = m /\ then[m] = x /\ \A i \in 1 .. l : then[i] = acc[i]
    BY <1>1, <1>2, <2>1, <2>2
  <2>4. m \in Nat \ {0} /\ m \in 1 .. m /\ l = m - 1 /\ \A i \in 1 .. m : i = m \/ i \in 1 .. l
    BY <1>2, <2>2
  <2>5. \A i \in 1 .. m : Proper(then[i])
    BY <1>2, <1>3, <2>3, <2>4
  <2>6. ASSUME NEW i \in 1 .. l PROVE Gapped(acc[i], x)
    <3>1. l > 0 /\ acc # <<>> /\ l \in 1 .. l
      BY <1>1, <1>2, EmptySeq
    <3>2. acc[l].end < x.start
      BY <1>2, <1>3, <1>8, <3>1 DEF Spans
    <3>3. CASE i = l
      BY <3>2, <3>3 DEF Gapped
    <3>4. CASE i < l
      <4>1. Gapped(acc[i], acc[l]) /\ Proper(acc[l]) /\ acc[i] \in Spans /\ acc[l] \in Spans
        BY <1>3, <3>1, <3>4
      <4>2. PICK a, b, c, d : a = acc[i].end /\ b = acc[l].start /\ c = acc[l].end /\ d = x.start
        OBVIOUS
      <4>3. a \in Nat /\ b \in Nat /\ c \in Nat /\ d \in Nat
        BY <1>2, <4>1, <4>2 DEF Spans
      <4>4. a < b /\ b < c /\ c < d
        BY ONLY <3>2, <4>1, <4>2 DEF Gapped, Proper
      <4>5. a < d
        BY ONLY <4>3, <4>4
      <4> QED
        BY ONLY <4>2, <4>5 DEF Gapped
    <3> QED
      BY <1>2, <3>3, <3>4
  <2>7. ASSUME NEW i \in 1 .. m, NEW j \in 1 .. m, i < j PROVE Gapped(then[i], then[j])
    <3>1. i \in 1 .. l
      BY <2>4, <2>7
    <3>2. CASE j = m
      BY <2>3, <2>6, <3>1, <3>2
    <3>3. CASE j \in 1 .. l
      BY <1>3, <2>3, <2>7, <3>1, <3>3
    <3> QED
      BY <2>4, <3>2, <3>3
  <2>8. \A i \in 1 .. l : i \in 1 .. m
    BY <2>4
  <2>9. ASSUME NEW z \in Spans, Holds(acc, z) PROVE Holds(then, z)
    <3>1. PICK i \in 1 .. l : acc[i].start <= z.start /\ z.end <= acc[i].end
      BY <1>1, <2>9 DEF Holds
    <3> QED
      BY <2>3, <2>8, <3>1 DEF Holds
  <2>10. Holds(then, x)
    <3>1. then[m].start <= x.start /\ x.end <= then[m].end
      BY <1>2, <2>3 DEF Spans
    <3> QED
      BY <2>3, <2>4, <3>1 DEF Holds
  <2>11. \A j \in 1 .. k : Holds(then, p[j])
    <3>1. \A j \in 1 .. k : j = k \/ (j \in 1 .. k - 1 /\ j \in 1 .. n)
      OBVIOUS
    <3>2. \A j \in 1 .. n : p[j] \in Spans
      BY DEF InOrderFrom
    <3> QED
      BY <1>1, <1>4, <2>9, <2>10, <3>1, <3>2
  <2>12. then # <<>> /\ then[Len(then)].start <= x.start
    BY <1>2, <2>3, <2>4 DEF Spans
  <2> QED
    BY <1>1, <2>3, <2>5, <2>7, <2>11, <2>12 DEF MergedTo, Spaced
<1> QED
  BY <1>1, <1>7, <1>8

\* Spans that touch are merged, and what a span holds one of the index does.
LEMMA IndexFacts ==
  ASSUME NEW S, SomeSpans(S), \A x \in S : Proper(x)
  PROVE  Spaced(IndexOf(S)) /\ \A x \in S : Holds(IndexOf(S), x)
<1>1. PICK n, p : n = Cardinality(S) /\ p = InPlace(S)
  OBVIOUS
<1>2. /\ n \in Nat /\ p \in [1 .. n -> S] /\ ToSet(p) = S
      /\ \A i, j \in 1 .. n : i < j => Sooner(p[i], p[j])
  BY <1>1, InPlaceFacts
<1>3. InOrderFrom(p, n) /\ DOMAIN p = 1 .. n
  BY <1>2 DEF InOrderFrom, SomeSpans
<1>4. p \in [1 .. n -> Spans]
  BY <1>3 DEF InOrderFrom
<1>5. PICK r : Merges(r, p, n) /\ IndexOf(S) = r[n]
  BY ONLY <1>1, <1>2, <1>4, MergeLoop
<1>6. PICK base : base = <<>>
  OBVIOUS
<1>7. base \in Seq(Spans)
  BY <1>6
<1>8. r[0] = base /\ \A k \in 1 .. n : r[k] = MergeOne(r[k - 1], p[k])
  BY <1>5, <1>6 DEF Merges
<1> DEFINE J == {k \in Nat : k <= n => MergedTo(r[k], p, k)}
<1>9. MergedTo(base, p, 0)
  <2>1. Len(base) = 0
    BY <1>6
  <2> QED
    BY <1>6, <1>7, <2>1 DEF MergedTo, Spaced
<1>10. 0 \in J
  BY <1>8, <1>9
<1>11. ASSUME NEW k \in Nat, k \in J PROVE k + 1 \in J
  <2> SUFFICES ASSUME k + 1 <= n PROVE MergedTo(r[k + 1], p, k + 1)
    OBVIOUS
  <2>1. PICK m : m = k + 1
    OBVIOUS
  <2>2. m \in 1 .. n /\ m - 1 = k /\ k <= n
    BY <1>2, <2>1
  <2>3. MergedTo(r[k], p, m - 1)
    BY <1>11, <2>2
  <2>4. r[m] = MergeOne(r[k], p[m])
    BY <1>8, <2>2
  <2>5. MergedTo(MergeOne(r[k], p[m]), p, m)
    BY <1>2, <1>3, <2>2, <2>3, MergeOneTo
  <2> QED
    BY <2>1, <2>4, <2>5
<1>12. n \in J
  <2> HIDE DEF J
  <2> QED
    BY <1>2, <1>10, <1>11, Induct
<1>13. MergedTo(IndexOf(S), p, n)
  BY <1>2, <1>5, <1>12
<1>14. ASSUME NEW x \in S PROVE Holds(IndexOf(S), x)
  <2>1. PICK j \in 1 .. n : p[j] = x
    <3>1. x \in ToSet(p)
      BY <1>2
    <3> QED
      BY <1>3, <3>1 DEF ToSet
  <2> QED
    BY <1>13, <2>1 DEF MergedTo
<1> QED
  BY <1>13, <1>14 DEF MergedTo

---------------------------------------------------------------------------
(* Paragraphs and sentences.                                                 *)

\* A span of a text that holds something.
Part(s, x) == x \in Spans /\ Proper(x) /\ x.end <= Len(s)

At(x, o) == x.start <= o /\ o < x.end

\* What is not blank from a on is in one of the spans.
Reached(s, S, a) == \A o \in a .. Len(s) - 1 : s[o + 1] \notin Blank => \E x \in S : At(x, o)

\* Spans of a text that leave out only blanks from a on.
Parted(s, S, a) == (\A x \in S : Part(s, x)) /\ Reached(s, S, a)

Breaks(s, a) == {i \in a .. Len(s) - 2 : s[i + 1] = LineBreak /\ s[i + 2] = LineBreak}

BreakAt(s, a) == Min(Breaks(s, a) \cup {Len(s)})

ParagraphFrom(s, f, a) ==
  IF a >= Len(s) THEN {}
  ELSE (IF BreakAt(s, a) > a THEN {Span(a, BreakAt(s, a))} ELSE {})
       \cup (IF Breaks(s, a) = {} THEN {} ELSE f[BreakAt(s, a) + 2])

LEMMA BreakFacts ==
  ASSUME NEW V, NEW s \in Seq(V), NEW a \in 0 .. Len(s)
  PROVE  /\ BreakAt(s, a) \in a .. Len(s) /\ (Breaks(s, a) = {} => BreakAt(s, a) = Len(s))
         /\ Breaks(s, a) # {} => /\ BreakAt(s, a) + 2 \in a + 1 .. Len(s)
                                 /\ s[BreakAt(s, a) + 1] \in Blank /\ s[BreakAt(s, a) + 2] \in Blank
<1>1. PICK n, B, C, b : n = Len(s) /\ B = Breaks(s, a) /\ C = B \cup {n} /\ b = BreakAt(s, a)
  OBVIOUS
<1>2. n \in Nat /\ a \in Nat /\ a <= n
  BY <1>1
<1>3. \A i \in B : /\ i \in Nat /\ a <= i /\ i <= n - 2
                   /\ s[i + 1] = LineBreak /\ s[i + 2] = LineBreak
  BY <1>1, <1>2 DEF Breaks
<1>4. C \in SUBSET Nat /\ C # {}
  BY <1>1, <1>2, <1>3
<1>5. b = Min(C)
  BY <1>1 DEF BreakAt
<1>6. b \in C /\ \A y \in C : b <= y
  BY <1>4, <1>5, MinOfSome
<1>7. b \in a .. n
  BY <1>1, <1>2, <1>3, <1>6
<1>8. B = {} => b = n
  BY <1>1, <1>6
<1>9. ASSUME B # {} PROVE b \in B
  <2>1. PICK i \in B : TRUE
    BY <1>9
  <2>2. b <= i /\ i < n
    BY <1>1, <1>2, <1>3, <1>6, <2>1
  <2> QED
    BY <1>1, <1>2, <1>6, <1>7, <2>2, <1>3, <2>1
<1>10. LineBreak \in Blank
  BY DEF Blank
<1>11. ASSUME B # {} PROVE b + 2 \in a + 1 .. n /\ s[b + 1] \in Blank /\ s[b + 2] \in Blank
  <2>1. b \in Nat /\ a <= b /\ b <= n - 2 /\ s[b + 1] = LineBreak /\ s[b + 2] = LineBreak
    BY <1>3, <1>9, <1>11
  <2> QED
    BY <1>2, <1>10, <2>1
<1> QED
  BY <1>1, <1>7, <1>8, <1>11

LEMMA ParagraphStep ==
  ASSUME NEW V, NEW s \in Seq(V), NEW f, NEW a \in 0 .. Len(s),
         \A b \in a + 1 .. Len(s) : Parted(s, f[b], b)
  PROVE  Parted(s, ParagraphFrom(s, f, a), a)
<1>1. PICK n, b, S : n = Len(s) /\ b = BreakAt(s, a) /\ S = ParagraphFrom(s, f, a)
  OBVIOUS
<1>2. n \in Nat /\ a \in Nat /\ a <= n
  BY <1>1
<1>3. CASE a >= n
  <2>1. S = {} /\ \A o \in a .. n - 1 : FALSE
    BY <1>1, <1>2, <1>3 DEF ParagraphFrom
  <2> QED
    BY <1>1, <2>1 DEF Parted, Reached
<1>4. CASE a < n
  <2>1. /\ b \in a .. n /\ (Breaks(s, a) = {} => b = n)
        /\ Breaks(s, a) # {} => b + 2 \in a + 1 .. n /\ s[b + 1] \in Blank /\ s[b + 2] \in Blank
    BY <1>1, BreakFacts
  <2>2. S = (IF b > a THEN {Span(a, b)} ELSE {}) \cup (IF Breaks(s, a) = {} THEN {} ELSE f[b + 2])
    BY <1>1, <1>2, <1>4 DEF ParagraphFrom
  <2>3. Breaks(s, a) # {} => Parted(s, f[b + 2], b + 2)
    BY <1>1, <2>1
  <2>4. ASSUME b > a PROVE Part(s, Span(a, b))
    BY <1>1, <1>2, <2>1, <2>4 DEF Part, Proper, Span, Spans
  <2>5. \A x \in S : Part(s, x)
    BY <2>2, <2>3, <2>4 DEF Parted
  <2>6. ASSUME NEW o \in a .. n - 1, s[o + 1] \notin Blank PROVE \E x \in S : At(x, o)
    <3>1. o \in Nat /\ a <= o /\ o < n /\ b \in Nat
      BY <1>2, <2>1
    <3>2. CASE o < b
      <4>1. b > a /\ Span(a, b) \in S
        BY <2>2, <3>1, <3>2, <1>2
      <4>2. At(Span(a, b), o)
        BY <3>1, <3>2 DEF At, Span
      <4> QED
        BY <4>1, <4>2
    <3>3. CASE o >= b
      <4>1. Breaks(s, a) # {}
        BY <1>2, <2>1, <3>1, <3>3
      <4>2. o # b /\ o # b + 1
        <5>1. o = b + 1 => o + 1 = b + 2
          BY <3>1
        <5> QED
          BY <2>1, <2>6, <4>1, <5>1
      <4>3. o \in b + 2 .. Len(s) - 1
        BY <1>1, <3>1, <3>3, <4>2
      <4>4. PICK x \in f[b + 2] : At(x, o)
        BY <2>3, <2>6, <4>1, <4>3 DEF Parted, Reached
      <4> QED
        BY <2>2, <4>1, <4>4
    <3> QED
      BY <3>1, <3>2, <3>3
  <2> QED
    BY <1>1, <2>5, <2>6 DEF Parted, Reached
<1> QED
  BY <1>2, <1>3, <1>4

ParagraphsOf(s) == CHOOSE w : w = [a \in 0 .. Len(s) |-> ParagraphFrom(s, w, a)]

LEMMA ParagraphsLoop ==
  ASSUME NEW V, NEW s \in Seq(V)
  PROVE  ParagraphsOf(s) = [a \in 0 .. Len(s) |-> ParagraphFrom(s, ParagraphsOf(s), a)]
<1>0. PICK n : n = Len(s)
  OBVIOUS
<1> DEFINE X == 0 .. n
           W == SUBSET Spans
           F == [X -> W]
           T == Behind(n)
           body == [f \in F |-> [a \in X |-> ParagraphFrom(s, f, a)]]
<1>1. n \in Nat /\ n + 1 \in Nat
  BY <1>0
<1>2. T \in [0 .. n + 1 -> SUBSET X] /\ T[0] = {} /\ T[n + 1] = X
  BY <1>1 DEF Behind
<1>3. ASSUME NEW f \in F, NEW a \in X PROVE ParagraphFrom(s, f, a) \in W
  <2>1. PICK b : b = BreakAt(s, a)
    OBVIOUS
  <2>2. a \in 0 .. Len(s)
    BY <1>0
  <2>3. b \in a .. Len(s) /\ (Breaks(s, a) # {} => b + 2 \in a + 1 .. Len(s))
    BY <2>1, <2>2, BreakFacts
  <2>4. Span(a, b) \in Spans
    BY <1>0, <1>1, <2>2, <2>3 DEF Span, Spans
  <2>5. Breaks(s, a) # {} => b + 2 \in X
    BY <1>0, <1>1, <2>2, <2>3
  <2>6. Breaks(s, a) # {} => f[b + 2] \in W
    BY <2>5
  <2> QED
    BY <2>1, <2>4, <2>6 DEF ParagraphFrom
<1>4. body \in [F -> F]
  BY <1>3
<1>5. ASSUME NEW k \in 1 .. n + 1, NEW f \in F, NEW h \in F, \A x \in T[k-1] : f[x] = h[x],
             NEW x \in T[k]
      PROVE  body[f][x] = body[h][x]
  <2>1. x \in X /\ \A y \in x + 1 .. n : y \in T[k-1]
    BY <1>1 DEF Behind
  <2>2. x \in 0 .. Len(s)
    BY <1>0, <2>1
  <2>3. Breaks(s, x) # {} => BreakAt(s, x) + 2 \in x + 1 .. n
    BY <1>0, <2>2, BreakFacts
  <2>4. Breaks(s, x) # {} => f[BreakAt(s, x) + 2] = h[BreakAt(s, x) + 2]
    BY <1>5, <2>1, <2>3
  <2>5. ParagraphFrom(s, f, x) = ParagraphFrom(s, h, x)
    BY <2>4 DEF ParagraphFrom
  <2> QED
    BY <2>1, <2>5
<1>6. F # {}
  <2>1. [x \in X |-> {}] \in F
    OBVIOUS
  <2> QED
    BY <2>1
<1>7. Leveled(X, W, F, n + 1, body, T)
  <2>1. \A k \in 1 .. n + 1 : \A f, h \in F :
          (\A x \in T[k-1] : f[x] = h[x]) => \A x \in T[k] : body[f][x] = body[h][x]
    <3> HIDE DEF F, T, body, X
    <3> QED
      BY <1>5
  <2>2. F = [X -> W]
    OBVIOUS
  <2> HIDE DEF F, T, body, X, W
  <2> QED
    BY <1>1, <1>2, <1>4, <1>6, <2>1, <2>2 DEF Leveled
<1>8. PICK f \in F : f = body[f]
  <2> HIDE DEF F, T, body, X, W
  <2> QED
    BY <1>7, Fixpoint DEF Fixed
<1> DEFINE solves(w) == w = [a \in 0 .. Len(s) |-> ParagraphFrom(s, w, a)]
<1>9. solves(f)
  <2>1. body[f] = [a \in X |-> ParagraphFrom(s, f, a)]
    OBVIOUS
  <2> HIDE DEF body
  <2> QED
    BY <1>0, <1>8, <2>1
<1>10. ParagraphsOf(s) = CHOOSE w : solves(w)
  BY DEF ParagraphsOf
<1>11. solves(ParagraphsOf(s))
  <2> HIDE DEF solves
  <2> QED
    BY <1>9, <1>10
<1> QED
  BY <1>11

\* The paragraphs leave out only blanks.
LEMMA ParagraphsFacts ==
  ASSUME NEW V, NEW s \in Seq(V)
  PROVE  Parted(s, Paragraphs(s), 0)
<1>1. PICK w, n : w = ParagraphsOf(s) /\ n = Len(s)
  OBVIOUS
<1>2. n \in Nat
  BY <1>1
<1>3. w = [a \in 0 .. n |-> ParagraphFrom(s, w, a)]
  BY <1>1, ParagraphsLoop
<1>4. Paragraphs(s) = w[0]
  BY <1>1 DEF Paragraphs, ParagraphsOf, ParagraphFrom, Breaks, BreakAt
<1> DEFINE S == {k \in Nat : \A x \in 0 .. n : x >= n - k => Parted(s, w[x], x)}
<1>5. ASSUME NEW x \in 0 .. n, \A y \in x + 1 .. n : Parted(s, w[y], y)
      PROVE  Parted(s, w[x], x)
  <2>1. x \in 0 .. Len(s) /\ \A y \in x + 1 .. Len(s) : Parted(s, w[y], y)
    BY <1>1, <1>5
  <2>2. Parted(s, ParagraphFrom(s, w, x), x)
    BY <2>1, ParagraphStep
  <2>3. w[x] = ParagraphFrom(s, w, x)
    BY <1>3
  <2> QED
    BY <2>2, <2>3
<1>6. 0 \in S
  <2> SUFFICES ASSUME NEW x \in 0 .. n, x >= n - 0 PROVE Parted(s, w[x], x)
    OBVIOUS
  <2>1. \A y \in x + 1 .. n : FALSE
    BY <1>2
  <2> QED
    BY <1>5, <2>1
<1>7. ASSUME NEW k \in Nat, k \in S PROVE k + 1 \in S
  <2> SUFFICES ASSUME NEW x \in 0 .. n, x >= n - (k + 1) PROVE Parted(s, w[x], x)
    OBVIOUS
  <2>1. \A y \in x + 1 .. n : y \in 0 .. n /\ y >= n - k
    BY <1>2
  <2> QED
    BY <1>5, <1>7, <2>1
<1>8. n \in S
  <2> HIDE DEF S
  <2> QED
    BY <1>2, <1>6, <1>7, Induct
<1> QED
  BY <1>2, <1>4, <1>8

Stops(s) == {i \in 1 .. Len(s) : s[i] = FullStop /\ (i = Len(s) \/ s[i + 1] \in Blank)}

Starts(s) == ({0} \cup {SkipAll(s, i, Blank) : i \in Stops(s)}) \ {Len(s)}

EndOf(s, a) == Min({i \in Stops(s) : i > a} \cup {Len(s)})

LEMMA EndOfFacts ==
  ASSUME NEW V, NEW s \in Seq(V), NEW a \in 0 .. Len(s) - 1
  PROVE  /\ EndOf(s, a) \in a + 1 .. Len(s) /\ (EndOf(s, a) \in Stops(s) \/ EndOf(s, a) = Len(s))
<1>1. PICK n, A, e : n = Len(s) /\ A = {i \in Stops(s) : i > a} \cup {n} /\ e = EndOf(s, a)
  OBVIOUS
<1>2. n \in Nat /\ a \in Nat /\ a < n
  BY <1>1
<1>3. \A i \in A : i \in Nat /\ i > a /\ i <= n /\ (i \in Stops(s) \/ i = n)
  BY <1>1, <1>2 DEF Stops
<1>4. A \in SUBSET Nat /\ A # {}
  BY <1>1, <1>3
<1>5. e = Min(A)
  BY <1>1 DEF EndOf
<1>6. e \in A
  BY <1>4, <1>5, MinOfSome
<1> QED
  BY <1>1, <1>2, <1>3, <1>6

LEMMA StartsFacts ==
  ASSUME NEW V, NEW s \in Seq(V)
  PROVE  \A a \in Starts(s) : a \in 0 .. Len(s) - 1
<1>1. PICK n : n = Len(s) /\ n \in Nat
  OBVIOUS
<1> TAKE a \in Starts(s)
<1>2. a # n /\ (a = 0 \/ \E i \in Stops(s) : a = SkipAll(s, i, Blank))
  BY <1>1 DEF Starts
<1>3. CASE a = 0
  BY <1>1, <1>2, <1>3
<1>4. ASSUME NEW i \in Stops(s), a = SkipAll(s, i, Blank) PROVE a \in 0 .. n - 1
  <2>1. i \in 0 .. Len(s)
    BY <1>1 DEF Stops
  <2>2. a \in i .. Len(s)
    BY <1>4, <2>1, SkipAllFacts
  <2> QED
    BY <1>1, <1>2, <2>1, <2>2
<1> QED
  BY <1>1, <1>2, <1>3, <1>4

\* The sentences leave out only blanks.
LEMMA SentencesFacts ==
  ASSUME NEW V, NEW s \in Seq(V)
  PROVE  Parted(s, Sentences(s), 0)
<1>1. PICK n : n = Len(s) /\ n \in Nat
  OBVIOUS
<1>2. Sentences(s) = {Span(a, EndOf(s, a)) : a \in Starts(s)}
  BY DEF Sentences, Stops, Starts, EndOf
<1>3. \A a \in Starts(s) : a \in 0 .. n - 1
  BY <1>1, StartsFacts
<1>4. ASSUME NEW a \in Starts(s) PROVE Part(s, Span(a, EndOf(s, a)))
  <2>1. PICK e : e = EndOf(s, a)
    OBVIOUS
  <2>2. a \in 0 .. n - 1 /\ e \in a + 1 .. n
    BY <1>1, <1>3, <2>1, EndOfFacts
  <2>3. Part(s, Span(a, e))
    BY <1>1, <2>2 DEF Part, Proper, Span, Spans
  <2> QED
    BY <2>1, <2>3
<1>5. ASSUME NEW o \in 0 .. n - 1, s[o + 1] \notin Blank
      PROVE  \E a \in Starts(s) : At(Span(a, EndOf(s, a)), o)
  <2>1. PICK A : A = {a \in Starts(s) : a <= o}
    OBVIOUS
  <2>2. n > 0 /\ 0 \in Starts(s) /\ 0 \in A
    BY <1>1, <2>1 DEF Starts
  <2>3. A \in SUBSET (0 .. n) /\ A # {}
    BY <1>1, <1>3, <2>1, <2>2
  <2>4. PICK a : a = Max(A)
    OBVIOUS
  <2>5. a \in A /\ \A y \in A : y <= a
    BY ONLY <1>1, <2>3, <2>4, MaxOfSome
  <2>6. PICK e : e = EndOf(s, a)
    OBVIOUS
  <2>7. a \in Starts(s) /\ a <= o /\ a \in 0 .. n - 1
    BY <1>3, <2>1, <2>5
  <2>8. e \in a + 1 .. n /\ (e \in Stops(s) \/ e = n)
    BY <1>1, <2>6, <2>7, EndOfFacts
  <2>9. o < e
    <3> SUFFICES ASSUME e <= o PROVE FALSE
      BY <1>1, <2>7, <2>8
    <3>1. e \in Stops(s) /\ e \in 0 .. Len(s)
      BY <1>1, <2>7, <2>8
    <3>2. PICK b : b = SkipAll(s, e, Blank)
      OBVIOUS
    <3>3. b \in e .. n /\ \A j \in e .. b - 1 : s[j + 1] \in Blank
      BY <1>1, <3>1, <3>2, SkipAllFacts
    <3>4. b <= o
      <4> SUFFICES ASSUME b > o PROVE FALSE
        BY <1>1, <2>7, <2>8, <3>3
      <4>1. o \in e .. b - 1
        BY <1>1, <2>7, <2>8, <3>3
      <4> QED
        BY <1>5, <3>3, <4>1
    <3>5. b # n
      BY <1>1, <2>7, <2>8, <3>3, <3>4
    <3>6. b \in Starts(s)
      BY <1>1, <3>1, <3>2, <3>5 DEF Starts
    <3>7. b \in A
      BY <2>1, <3>4, <3>6
    <3> QED
      BY <1>1, <2>5, <2>7, <2>8, <3>3, <3>7
  <2>10. At(Span(a, e), o)
    BY <2>7, <2>9 DEF At, Span
  <2> QED
    BY <2>6, <2>7, <2>10
<1>6. \A x \in Sentences(s) : Part(s, x)
  BY <1>2, <1>4
<1>7. \A o \in 0 .. n - 1 : s[o + 1] \notin Blank => \E x \in Sentences(s) : At(x, o)
  BY <1>2, <1>5
<1> QED
  BY <1>1, <1>6, <1>7 DEF Parted, Reached

---------------------------------------------------------------------------
(* The spans of a document.                                                  *)

\* A span of a chunk of a document.
InChunk(c, x) == x \in Spans /\ Proper(x) /\ c.start <= x.start /\ x.end <= c.end

PartsOf(body, p, max) ==
  IF Tokens(p.end - p.start) <= max THEN {p}
  ELSE {Shift(x, p.start) : x \in Sentences(Slice(body, p.start, p.end))}

\* A paragraph is taken apart into spans that leave out only blanks of it.
LEMMA PartsFacts ==
  ASSUME NEW V, NEW body \in Seq(V), NEW p, Part(body, p), NEW max
  PROVE  /\ \A x \in PartsOf(body, p, max) : Part(body, x)
         /\ \A o \in Nat : At(p, o) /\ body[o + 1] \notin Blank =>
                             \E x \in PartsOf(body, p, max) : At(x, o)
<1>1. PICK a, b, c, m, n : /\ a = p.start /\ b = p.end /\ c = Slice(body, a, b) /\ m = b - a
                           /\ n = Len(body)
  OBVIOUS
<1>2. /\ a \in Nat /\ b \in Nat /\ n \in Nat /\ m \in Nat
      /\ a < b /\ b <= n
  BY <1>1 DEF Part, Proper, Spans
<1>3. a \in 0 .. Len(body) /\ b \in a .. Len(body)
  BY <1>1, <1>2
<1>4. c \in Seq(V) /\ Len(c) = m /\ \A j \in 0 .. m - 1 : c[j + 1] = body[a + j + 1]
  <2>1. /\ Slice(body, a, b) \in Seq(V) /\ Len(Slice(body, a, b)) = b - a
        /\ \A j \in 0 .. b - a - 1 : Slice(body, a, b)[j + 1] = body[a + j + 1]
    BY ONLY <1>3, body \in Seq(V), SliceFacts
  <2> QED
    BY <1>1, <2>1
<1>5. Parted(c, Sentences(c), 0)
  BY <1>4, SentencesFacts
<1>6. CASE Tokens(b - a) <= max
  <2>1. PartsOf(body, p, max) = {p}
    BY <1>1, <1>6 DEF PartsOf
  <2> QED
    BY <2>1
<1>7. CASE ~(Tokens(b - a) <= max)
  <2>1. PartsOf(body, p, max) = {Shift(x, a) : x \in Sentences(c)}
    BY <1>1, <1>7 DEF PartsOf
  <2>2. ASSUME NEW x \in Sentences(c) PROVE Part(body, Shift(x, a))
    <3>1. x \in Spans /\ x.start < x.end /\ x.end <= m
      BY <1>4, <1>5 DEF Parted, Part, Proper
    <3> QED
      BY <1>1, <1>2, <3>1 DEF Part, Proper, Shift, Span, Spans
  <2>3. ASSUME NEW o \in Nat, At(p, o), body[o + 1] \notin Blank
        PROVE  \E x \in Sentences(c) : At(Shift(x, a), o)
    <3>1. PICK j : j = o - a
      OBVIOUS
    <3>2. j \in 0 .. m - 1 /\ a + j + 1 = o + 1 /\ o = a + j /\ j \in Nat
      BY <1>1, <1>2, <2>3, <3>1 DEF At
    <3>3. c[j + 1] \notin Blank
      BY <1>4, <2>3, <3>2
    <3>4. PICK x \in Sentences(c) : At(x, j)
      BY <1>4, <1>5, <3>2, <3>3 DEF Parted, Reached
    <3>5. x \in Spans
      BY <1>5 DEF Parted, Part
    <3> QED
      BY <1>2, <3>2, <3>4, <3>5 DEF At, Shift, Span, Spans
  <2> QED
    BY <2>1, <2>2, <2>3
<1> QED
  BY <1>1, <1>6, <1>7

\* So is a chunk.
LEMMA SegmentFacts ==
  ASSUME NEW V, NEW s \in Seq(V), NEW chunk, ChunkOf(s, chunk), NEW max
  PROVE  /\ \A x \in Segment(s, chunk, max) : InChunk(chunk, x)
         /\ \A o \in Nat : At(chunk, o) /\ s[o + 1] \notin Blank =>
                             \E x \in Segment(s, chunk, max) : At(x, o)
<1>1. PICK a, b, body, m : /\ a = chunk.start /\ b = chunk.end /\ body = Slice(s, a, b) /\ m = b - a
  OBVIOUS
<1>2. a \in 0 .. Len(s) /\ b \in a .. Len(s)
  BY <1>1 DEF ChunkOf
<1>3. a \in Nat /\ b \in Nat /\ a <= b /\ m \in Nat
  BY <1>1, <1>2
<1>4. body \in Seq(V) /\ Len(body) = m /\ \A j \in 0 .. m - 1 : body[j + 1] = s[a + j + 1]
  <2>1. /\ Slice(s, a, b) \in Seq(V) /\ Len(Slice(s, a, b)) = b - a
        /\ \A j \in 0 .. b - a - 1 : Slice(s, a, b)[j + 1] = s[a + j + 1]
    BY ONLY <1>2, s \in Seq(V), SliceFacts
  <2> QED
    BY <1>1, <2>1
<1>5. Parted(body, Paragraphs(body), 0)
  BY <1>4, ParagraphsFacts
<1>6. PICK all : all = UNION {PartsOf(body, p, max) : p \in Paragraphs(body)}
  OBVIOUS
<1>7. Segment(s, chunk, max) =
        {Shift(p, a) : p \in {q \in all : ~IsBlank(Slice(body, q.start, q.end))}}
  BY <1>1, <1>6 DEF Segment, PartsOf
<1>8. ASSUME NEW x \in all PROVE Part(body, x)
  <2>1. PICK p \in Paragraphs(body) : x \in PartsOf(body, p, max)
    BY <1>6
  <2>2. Part(body, p)
    BY <1>5 DEF Parted
  <2> QED
    BY <1>4, <2>1, <2>2, PartsFacts
<1>9. ASSUME NEW x \in all PROVE InChunk(chunk, Shift(x, a))
  <2>1. x \in Spans /\ x.start < x.end /\ x.end <= m
    BY <1>4, <1>8 DEF Part, Proper
  <2> QED
    BY <1>1, <1>3, <2>1 DEF InChunk, Proper, Shift, Span, Spans
<1>10. ASSUME NEW o \in Nat, At(chunk, o), s[o + 1] \notin Blank
       PROVE  \E x \in Segment(s, chunk, max) : At(x, o)
  <2>1. PICK j : j = o - a
    OBVIOUS
  <2>2. j \in 0 .. m - 1 /\ a + j + 1 = o + 1 /\ o = a + j /\ j \in Nat
    BY <1>1, <1>3, <1>10, <2>1 DEF At
  <2>3. body[j + 1] \notin Blank
    BY <1>4, <1>10, <2>2
  <2>4. PICK p \in Paragraphs(body) : At(p, j)
    BY <1>4, <1>5, <2>2, <2>3 DEF Parted, Reached
  <2>5. Part(body, p)
    BY <1>5 DEF Parted
  <2>6. PICK x \in PartsOf(body, p, max) : At(x, j)
    BY <1>4, <2>2, <2>3, <2>4, <2>5, PartsFacts
  <2>7. x \in all /\ Part(body, x)
    BY <1>6, <1>8
  <2>8. ~IsBlank(Slice(body, x.start, x.end))
    <3>1. PICK c, d : c = x.start /\ d = x.end
      OBVIOUS
    <3>2. c \in 0 .. Len(body) /\ d \in 0 .. Len(body) /\ j \in c .. d - 1
      BY <1>4, <2>2, <2>6, <2>7, <3>1 DEF Part, Proper, Spans, At
    <3>3. ~Gap(body, c, d)
      BY <2>3, <3>2 DEF Gap
    <3> QED
      BY ONLY <1>4, <3>1, <3>2, <3>3, BlankSlice
  <2>9. Shift(x, a) \in Segment(s, chunk, max)
    BY <1>7, <2>7, <2>8
  <2>10. At(Shift(x, a), o)
    <3>1. x \in Spans
      BY <2>7 DEF Part
    <3> QED
      BY <1>3, <2>2, <2>6, <3>1 DEF At, Shift, Span, Spans
  <2> QED
    BY <2>9, <2>10
<1>11. \A x \in Segment(s, chunk, max) : InChunk(chunk, x)
  BY <1>7, <1>9
<1> QED
  BY <1>10, <1>11

\* There are finitely many spans of a text.
LEMMA FewSpans ==
  ASSUME NEW n \in Nat, NEW S \in SUBSET Spans, \A x \in S : x.start <= n /\ x.end <= n
  PROVE  SomeSpans(S)
<1> DEFINE D == 0 .. n
           f == [q \in D \X D |-> Span(q[1], q[2])]
<1>1. IsFiniteSet(D)
  <2>1. 0 \in Int /\ n \in Int
    OBVIOUS
  <2> QED
    BY <2>1, FS_Interval
<1>2. IsFiniteSet(D \X D)
  <2> HIDE DEF D
  <2> QED
    BY <1>1, FS_Product
<1>3. PICK R : R = {f[q] : q \in D \X D}
  OBVIOUS
<1>4. f \in Surjection(D \X D, R)
  <2>1. f \in [D \X D -> R]
    BY <1>3
  <2> HIDE DEF f
  <2> QED
    BY <1>3, <2>1 DEF Surjection
<1>5. IsFiniteSet(R)
  <2> HIDE DEF f, D
  <2> QED
    BY <1>2, <1>4, FS_Surjection
<1>6. ASSUME NEW x \in S PROVE x \in R
  <2>1. PICK a, b : a = x.start /\ b = x.end
    OBVIOUS
  <2>2. a \in D /\ b \in D /\ x = Span(a, b)
    BY <2>1 DEF Spans, Span
  <2>3. <<a, b>> \in D \X D /\ f[<<a, b>>] = Span(a, b)
    BY <2>2
  <2> HIDE DEF f, D
  <2> QED
    BY <1>3, <2>2, <2>3
<1>7. S \subseteq R
  BY <1>6
<1>8. IsFiniteSet(S)
  BY ONLY <1>5, <1>7, FS_Subset
<1> QED
  BY <1>8 DEF SomeSpans

\* What the index holds of a document.
Indexed(s, list) ==
  /\ Spaced(list)
  /\ \A o \in 0 .. Len(s) - 1 : s[o + 1] \notin Blank => \E i \in DOMAIN list : At(list[i], o)

\* Whatever is not blank is in a chunk.
LEMMA ChunksReach ==
  ASSUME ChunksInv, chunks # <<>>
  PROVE  \A o \in 0 .. Len(text) - 1 :
           text[o + 1] \notin Blank => \E i \in 1 .. Len(chunks) : At(chunks[i], o)
<1>1. PICK V : V = ToSet(text)
  OBVIOUS
<1>2. PICK s, p, n, l : s = text /\ p = chunks /\ n = Len(p) /\ l = Len(s)
  OBVIOUS
<1>3. s \in Seq(V) /\ \A i \in 1 .. n : ChunkOf(s, p[i])
  BY <1>1, <1>2, ChunksWithin
<1>4. p \in Seq(Ranges) /\ p # <<>> /\ l \in Nat
  BY <1>2, <1>3 DEF ChunksInv
<1>5. n \in Nat /\ n > 0
  BY <1>2, <1>4, EmptySeq
<1>6. \A i \in 1 .. n : /\ p[i].start \in Nat /\ p[i].end \in Nat
                        /\ p[i].start \in 0 .. Len(s) /\ p[i].end \in 0 .. Len(s)
  BY <1>2, <1>3, <1>4 DEF ChunkOf
<1>7. /\ p[1].start = 0 /\ IsBlank(Slice(s, p[n].end, l))
      /\ \A i \in 1 .. n - 1 : IsBlank(Slice(s, p[i].end, p[i + 1].start))
  BY <1>2, <1>5, ChunksInvSound DEF NothingDropped, Bare
<1>8. Gap(s, p[n].end, l)
  <2>1. n \in 1 .. n /\ l \in 0 .. Len(s)
    BY <1>2, <1>4, <1>5
  <2>2. p[n].end \in 0 .. Len(s)
    BY <1>6, <2>1
  <2>3. PICK e : e = p[n].end
    OBVIOUS
  <2>4. e \in 0 .. Len(s) /\ l \in 0 .. Len(s) /\ IsBlank(Slice(s, e, l))
    BY <1>7, <2>1, <2>2, <2>3
  <2>5. Gap(s, e, l)
    BY ONLY <1>3, <2>4, BlankSlice
  <2> QED
    BY <2>3, <2>5
<1>9. ASSUME NEW i \in 1 .. n - 1 PROVE Gap(s, p[i].end, p[i + 1].start)
  <2>1. PICK e, a : e = p[i].end /\ a = p[i + 1].start
    OBVIOUS
  <2>2. i \in 1 .. n /\ i + 1 \in 1 .. n
    BY <1>5
  <2>3. e \in 0 .. Len(s) /\ a \in 0 .. Len(s) /\ IsBlank(Slice(s, e, a))
    BY <1>6, <1>7, <2>1, <2>2
  <2>4. Gap(s, e, a)
    BY ONLY <1>3, <2>3, BlankSlice
  <2> QED
    BY <2>1, <2>4
<1>10. ASSUME NEW o \in 0 .. l - 1, s[o + 1] \notin Blank PROVE \E i \in 1 .. n : At(p[i], o)
  <2>1. PICK A : A = {i \in 1 .. n : p[i].start <= o}
    OBVIOUS
  <2>2. 1 \in A /\ A \in SUBSET (0 .. n) /\ o \in Nat
    BY <1>4, <1>5, <1>7, <2>1
  <2>3. PICK i : i = Max(A)
    OBVIOUS
  <2>4. A # {}
    BY <2>2
  <2>5. i \in A /\ \A j \in A : j <= i
    BY ONLY <1>5, <2>2, <2>3, <2>4, MaxOfSome
  <2>6. i \in 1 .. n /\ p[i].start <= o /\ p[i].end \in Nat
    BY <1>6, <2>1, <2>5
  <2>7. o < p[i].end
    <3> SUFFICES ASSUME p[i].end <= o PROVE FALSE
      BY <2>2, <2>6
    <3>1. CASE i = n
      <4>1. o \in p[n].end .. l - 1
        BY <1>4, <2>2, <2>6, <3>1
      <4> QED
        BY <1>8, <1>10, <4>1 DEF Gap
    <3>2. CASE i # n
      <4>1. i \in 1 .. n - 1 /\ i + 1 \in 1 .. n
        BY <1>5, <2>6, <3>2
      <4>2. i + 1 \notin A
        BY <2>5, <2>6
      <4>3. o < p[i + 1].start
        BY <1>6, <2>1, <2>2, <4>1, <4>2
      <4>4. o \in p[i].end .. p[i + 1].start - 1
        BY <1>6, <2>2, <2>6, <4>1, <4>3
      <4> QED
        BY <1>9, <1>10, <4>1, <4>4 DEF Gap
    <3> QED
      BY <3>1, <3>2
  <2> QED
    BY <2>6, <2>7 DEF At
<1> QED
  BY <1>2, <1>10

\* The index leaves out only blanks of the document.
LEMMA SegmentAllFacts ==
  ASSUME ChunksInv, chunks # <<>>, NEW max
  PROVE  Indexed(text, SegmentAll(text, chunks, max))
<1>1. PICK V, s, p, n, S : /\ V = ToSet(text) /\ s = text /\ p = chunks /\ n = Len(p)
                           /\ S = UNION {Segment(s, p[i], max) : i \in DOMAIN p}
  OBVIOUS
<1>2. s \in Seq(V) /\ \A i \in 1 .. n : ChunkOf(s, p[i])
  BY <1>1, ChunksWithin
<1>3. p \in Seq(Ranges)
  BY <1>1 DEF ChunksInv
<1>4. n \in Nat /\ DOMAIN p = 1 .. n
  BY <1>1, <1>3
<1>5. PICK l : l = Len(s) /\ l \in Nat
  BY <1>2
<1>6. ASSUME NEW x \in S PROVE x \in Spans /\ Proper(x) /\ x.start <= l /\ x.end <= l
  <2>1. PICK i \in 1 .. n : x \in Segment(s, p[i], max)
    BY <1>1, <1>4
  <2>2. PICK c : c = p[i]
    OBVIOUS
  <2>3. ChunkOf(s, c) /\ x \in Segment(s, c, max)
    BY <1>2, <2>1, <2>2
  <2>4. InChunk(c, x)
    BY ONLY <1>2, <2>3, SegmentFacts
  <2> QED
    BY <1>5, <2>3, <2>4 DEF InChunk, ChunkOf, Proper, Spans
<1>7. SomeSpans(S)
  <2>1. S \in SUBSET Spans /\ \A x \in S : x.start <= l /\ x.end <= l
    BY <1>6
  <2> QED
    BY ONLY <1>5, <2>1, FewSpans
<1>8. PICK index_ : index_ = IndexOf(S) /\ index_ = SegmentAll(text, chunks, max)
  BY <1>1 DEF SegmentAll
<1>9. Spaced(index_) /\ \A x \in S : Holds(index_, x)
  BY <1>6, <1>7, <1>8, IndexFacts
<1>10. ASSUME NEW o \in 0 .. l - 1, s[o + 1] \notin Blank PROVE \E i \in DOMAIN index_ : At(index_[i], o)
  <2>1. PICK i \in 1 .. n : At(p[i], o)
    BY <1>1, <1>5, <1>10, ChunksReach
  <2>2. PICK c : c = p[i]
    OBVIOUS
  <2>3. ChunkOf(s, c) /\ At(c, o) /\ o \in Nat
    BY <1>2, <1>5, <2>1, <2>2
  <2>4. PICK x \in Segment(s, c, max) : At(x, o)
    BY ONLY <1>2, <1>10, <2>3, SegmentFacts
  <2>5. x \in S
    BY <1>1, <1>4, <2>2, <2>4
  <2>6. PICK j \in 1 .. Len(index_) : index_[j].start <= x.start /\ x.end <= index_[j].end
    BY <1>9, <2>5 DEF Holds
  <2>7. index_ \in Seq(Spans) /\ j \in DOMAIN index_ /\ index_[j] \in Spans
    BY <1>9, <2>6 DEF Spaced
  <2>8. x \in Spans
    BY <1>6, <2>5
  <2>9. At(index_[j], o)
    BY <2>3, <2>4, <2>6, <2>7, <2>8 DEF At, Spans
  <2> QED
    BY <2>7, <2>9
<1> QED
  BY <1>1, <1>5, <1>8, <1>9, <1>10 DEF Indexed

---------------------------------------------------------------------------
(* The skeleton.                                                             *)

LessOf(f, max, n) == IF n > 0 /\ Tokens(n) > max THEN f[(n * 3) \div 4] ELSE n

Less(l, max) == CHOOSE w : w = [n \in 0 .. l |-> LessOf(w, max, n)]

\* Three quarters of a length are less than it.
LEMMA ThreeQuarters ==
  ASSUME NEW n \in Nat, n > 0
  PROVE  (n * 3) \div 4 \in 0 .. n - 1
  OBVIOUS

LEMMA LessFacts ==
  ASSUME NEW l \in Nat, NEW max
  PROVE  Less(l, max) \in [0 .. l -> 0 .. l]
<1> DEFINE X == 0 .. l
           F == [X -> X]
           T == [k \in 0 .. l + 1 |-> {x \in 0 .. l : x < k}]
           body == [f \in F |-> [n \in X |-> LessOf(f, max, n)]]
<1>1. l + 1 \in Nat
  OBVIOUS
<1>2. T \in [0 .. l + 1 -> SUBSET X] /\ T[0] = {} /\ T[l + 1] = X
  <2>1. T \in [0 .. l + 1 -> SUBSET X]
    OBVIOUS
  <2>2. T[0] = {}
    OBVIOUS
  <2>3. T[l + 1] = X
    <3>1. PICK m : m = l + 1
      OBVIOUS
    <3>2. m \in 0 .. l + 1 /\ \A x \in 0 .. l : x < m
      BY <3>1
    <3>3. T[m] = {x \in 0 .. l : x < m}
      BY <3>2
    <3> QED
      BY <3>1, <3>2, <3>3
  <2> QED
    BY <2>1, <2>2, <2>3
<1>3. ASSUME NEW f \in F, NEW n \in X PROVE LessOf(f, max, n) \in X
  <2>1. n > 0 => (n * 3) \div 4 \in X
    BY ThreeQuarters
  <2>2. n > 0 => f[(n * 3) \div 4] \in X
    <3> HIDE DEF X
    <3> QED
      BY <2>1
  <2> HIDE DEF X, F
  <2> QED
    BY <2>2 DEF LessOf
<1>4. body \in [F -> F]
  <2> HIDE DEF X
  <2> QED
    BY <1>3
<1>5. ASSUME NEW k \in 1 .. l + 1, NEW f \in F, NEW h \in F, \A x \in T[k-1] : f[x] = h[x],
             NEW x \in T[k]
      PROVE  body[f][x] = body[h][x]
  <2>1. x \in X /\ \A y \in 0 .. x - 1 : y \in T[k-1]
    OBVIOUS
  <2>2. x > 0 => (x * 3) \div 4 \in 0 .. x - 1
    <3>1. x \in Nat
      BY <2>1
    <3> QED
      BY ONLY <3>1, ThreeQuarters
  <2>3. x > 0 => f[(x * 3) \div 4] = h[(x * 3) \div 4]
    BY <1>5, <2>1, <2>2
  <2>4. LessOf(f, max, x) = LessOf(h, max, x)
    BY <2>3 DEF LessOf
  <2> HIDE DEF X, F, T
  <2> QED
    BY <2>1, <2>4
<1>6. F # {}
  <2>1. [x \in X |-> x] \in F
    OBVIOUS
  <2> QED
    BY <2>1
<1>7. Leveled(X, X, F, l + 1, body, T)
  <2>1. \A k \in 1 .. l + 1 : \A f, h \in F :
          (\A x \in T[k-1] : f[x] = h[x]) => \A x \in T[k] : body[f][x] = body[h][x]
    <3> HIDE DEF F, T, body, X
    <3> QED
      BY <1>5
  <2>2. F = [X -> X]
    OBVIOUS
  <2> HIDE DEF F, T, body, X
  <2> QED
    BY <1>1, <1>2, <1>4, <1>6, <2>1, <2>2 DEF Leveled
<1>8. PICK f \in F : f = body[f]
  <2> HIDE DEF F, T, body, X
  <2> QED
    BY <1>7, Fixpoint DEF Fixed
<1> DEFINE solves(w) == w = [n \in 0 .. l |-> LessOf(w, max, n)]
<1>9. solves(f)
  <2>1. body[f] = [n \in X |-> LessOf(f, max, n)]
    OBVIOUS
  <2> HIDE DEF body
  <2> QED
    BY <1>8, <2>1
<1>10. Less(l, max) = CHOOSE w : solves(w)
  BY DEF Less
<1>11. solves(Less(l, max))
  <2> HIDE DEF solves
  <2> QED
    BY <1>9, <1>10
<1>12. PICK w : w = Less(l, max)
  OBVIOUS
<1>13. w = [n \in 0 .. l |-> LessOf(w, max, n)]
  BY <1>11, <1>12
<1>14. \A n \in 0 .. l : w[n] = LessOf(w, max, n)
  BY <1>13
<1> DEFINE J == {k \in Nat : \A n \in 0 .. l : n < k => w[n] \in 0 .. l}
<1>15. 0 \in J
  OBVIOUS
<1>16. ASSUME NEW k \in Nat, k \in J PROVE k + 1 \in J
  <2> SUFFICES ASSUME NEW n \in 0 .. l, n < k + 1 PROVE w[n] \in 0 .. l
    OBVIOUS
  <2>1. n > 0 => (n * 3) \div 4 \in 0 .. n - 1
    BY ThreeQuarters
  <2>2. \A y \in 0 .. n - 1 : y \in 0 .. l /\ y < k
    OBVIOUS
  <2>3. n > 0 => w[(n * 3) \div 4] \in 0 .. l
    BY <1>16, <2>1, <2>2
  <2> QED
    BY <1>14, <2>3 DEF LessOf
<1>17. l + 1 \in J
  <2> HIDE DEF J
  <2> QED
    BY <1>1, <1>15, <1>16, Induct
<1>18. \A n \in 0 .. l : w[n] \in 0 .. l
  BY <1>17
<1>19. w \in [0 .. l -> 0 .. l]
  BY ONLY <1>13, <1>18
<1> QED
  BY <1>12, <1>19

LEMMA TrimmedFacts ==
  ASSUME NEW s, NEW k \in Nat
  PROVE  Trimmed(s, k) \in 0 .. k
<1>1. PICK A : A = {i \in 0 .. k : i = 0 \/ s[i] \notin Blank}
  OBVIOUS
<1>2. A \in SUBSET (0 .. k) /\ 0 \in A
  BY <1>1
<1>3. A # {}
  BY <1>2
<1>4. Max(A) \in A
  BY ONLY <1>2, <1>3, k \in Nat, MaxOfSome
<1> QED
  BY <1>1, <1>2, <1>4 DEF Trimmed

LEMMA ShrunkFacts ==
  ASSUME NEW V, NEW s \in Seq(V), NEW max
  PROVE  Shrunk(s, max) \in 0 .. Len(s)
<1>1. PICK l, cut, B : l = Len(s) /\ cut = Less(l, max)[l] /\ B = Blanks(s, 1, cut)
  OBVIOUS
<1>2. l \in Nat
  BY <1>1
<1>3. cut \in 0 .. l
  BY <1>1, <1>2, LessFacts
<1>4. Shrunk(s, max) = IF B # {} THEN Max(B) ELSE cut
  BY <1>1 DEF Shrunk, Less, LessOf
<1>5. B \in SUBSET (0 .. l)
  BY <1>1, <1>2, <1>3 DEF Blanks
<1>6. B # {} => Max(B) \in B
  BY ONLY <1>2, <1>5, MaxOfSome
<1> QED
  BY <1>1, <1>3, <1>4, <1>5, <1>6

\* What is kept of the skeleton is a beginning of it.
LEMMA TruncatedFacts ==
  ASSUME NEW V, NEW s \in Seq(V), NEW max
  PROVE  Truncated(s, max) \in 0 .. Len(s)
<1>1. PICK l, A, k : /\ l = Len(s) /\ A = {x.end : x \in {y \in Sentences(s) : Tokens(y.end) <= max}}
                     /\ k = IF A # {} THEN Max(A) ELSE Shrunk(s, max)
  OBVIOUS
<1>2. l \in Nat
  BY <1>1
<1>3. Truncated(s, max) = IF Tokens(l) <= max THEN l ELSE Trimmed(s, k)
  BY <1>1 DEF Truncated
<1>4. A \in SUBSET (0 .. l)
  <2>1. \A x \in Sentences(s) : x.end \in 0 .. l
    BY <1>1, SentencesFacts DEF Parted, Part, Spans
  <2> QED
    BY <1>1, <2>1
<1>5. A # {} => Max(A) \in A
  BY ONLY <1>2, <1>4, MaxOfSome
<1>6. Shrunk(s, max) \in 0 .. l
  BY <1>1, ShrunkFacts
<1>7. k \in 0 .. l
  BY <1>1, <1>4, <1>5, <1>6
<1>8. k \in Nat
  BY <1>2, <1>7
<1>9. Trimmed(s, k) \in 0 .. k
  BY ONLY <1>8, TrimmedFacts
<1> QED
  BY <1>1, <1>2, <1>3, <1>7, <1>9

LEMMA SkeletonLength ==
  ASSUME NEW s \in Skeletons
  PROVE  Len(Slice(s, 0, Truncated(s, SkeletonMax))) \in Nat
<1>1. PICK V, t : V = ToSet(s) /\ t = Truncated(s, SkeletonMax)
  OBVIOUS
<1>2. s \in Seq(V)
  BY <1>1, VcontextAssumption
<1>3. t \in 0 .. Len(s)
  BY <1>1, <1>2, TruncatedFacts
<1>4. 0 \in 0 .. Len(s) /\ t \in 0 .. Len(s) /\ t - 0 \in Nat
  BY <1>2, <1>3
<1>5. Len(Slice(s, 0, t)) = t - 0
  BY ONLY <1>2, <1>4, SliceFacts
<1> QED
  BY <1>1, <1>4, <1>5

---------------------------------------------------------------------------
(* What a question is answered from.                                         *)

\* Spans of the index in the order of the text stand apart.
LEMMA ApartInPlace ==
  ASSUME NEW list, Spaced(list), NEW S, SomeSpans(S), \A x \in S : \E i \in 1 .. Len(list) : x = list[i],
         NEW P, P = InPlace(S), NEW i \in 2 .. Len(P)
  PROVE  P[i - 1].end < P[i].start
<1>1. PICK n, h : n = Cardinality(S) /\ h = i - 1
  OBVIOUS
<1>2. /\ n \in Nat /\ P \in [1 .. n -> S]
      /\ \A r, t \in 1 .. n : r < t => Sooner(P[r], P[t])
  BY <1>1, InPlaceFacts
<1>3. Len(P) = n
  BY <1>2, LenDomain
<1>4. h \in 1 .. n /\ i \in 1 .. n /\ h < i
  BY <1>1, <1>2, <1>3
<1>5. PICK x, y : x = P[h] /\ y = P[i]
  OBVIOUS
<1>6. x \in S /\ y \in S /\ Sooner(x, y)
  BY <1>2, <1>4, <1>5
<1>7. PICK a \in 1 .. Len(list), b \in 1 .. Len(list) : x = list[a] /\ y = list[b]
  BY <1>6
<1>8. x \in Spans /\ y \in Spans /\ Proper(x) /\ Proper(y) /\ list \in Seq(Spans)
  BY <1>7 DEF Spaced
<1>9. a \in Int /\ b \in Int
  BY <1>8
<1>10. CASE a = b
  <2>1. x = y
    BY <1>7, <1>10
  <2> QED
    BY <1>6, <1>8, <2>1, SoonerFacts
<1>11. CASE a < b
  <2>1. Gapped(x, y)
    BY <1>7, <1>11 DEF Spaced
  <2> QED
    BY <1>1, <1>5, <2>1 DEF Gapped
<1>12. CASE b < a
  <2>1. Gapped(y, x)
    BY <1>7, <1>12 DEF Spaced
  <2>2. y.start < x.start /\ x.start \in Nat /\ y.start \in Nat
    BY <1>8, <2>1 DEF Gapped, Proper, Spans
  <2>3. x.start <= y.start
    BY <1>6, <2>2 DEF Sooner
  <2> QED
    BY <2>2, <2>3
<1> QED
  BY <1>9, <1>10, <1>11, <1>12

\* An order of the spans of the index.
LEMMA OrderFacts ==
  ASSUME NEW list, Spaced(list), NEW order \in SetToSeqs(ToSet(list))
  PROVE  \E n \in Nat : /\ Ranked(order, n) /\ Len(order) = n
                        /\ \A i \in 1 .. n : \E j \in 1 .. Len(list) : order[i] = list[j]
<1>1. list \in Seq(Spans)
  BY DEF Spaced
<1>2. PICK T, n : T = ToSet(list) /\ n = Cardinality(T)
  OBVIOUS
<1>3. IsFiniteSet(T)
  <2>1. PICK l, D : l = Len(list) /\ D = 1 .. l
    OBVIOUS
  <2>2. list \in [D -> Spans] /\ l \in Nat
    BY <1>1, <2>1
  <2>3. 1 \in Int /\ l \in Int
    BY <2>2
  <2>4. IsFiniteSet(D)
    BY ONLY <2>1, <2>3, FS_Interval
  <2>5. list \in Surjection(D, T)
    <3>1. DOMAIN list = D
      BY <2>2
    <3>2. T = {list[i] : i \in D}
      BY <1>2, <3>1 DEF ToSet
    <3>3. list \in [D -> T]
      BY <2>2, <3>2
    <3> QED
      BY <3>2, <3>3 DEF Surjection
  <2> QED
    BY ONLY <2>4, <2>5, FS_Surjection
<1>4. n \in Nat
  BY <1>2, <1>3, FS_CardinalityType
<1>5. order \in [1 .. n -> T] /\ \A i, j \in 1 .. n : i # j => order[i] # order[j]
  BY <1>2 DEF SetToSeqs
<1>6. \A x \in T : x \in Spans /\ \E j \in 1 .. Len(list) : x = list[j]
  BY <1>1, <1>2 DEF ToSet
<1>7. order \in [1 .. n -> Spans]
  BY <1>5, <1>6
<1>8. Len(order) = n
  BY <1>4, <1>5, LenDomain
<1> QED
  BY <1>4, <1>5, <1>6, <1>7, <1>8 DEF Ranked

\* What every state has: nothing is selected before there is an index of the whole document.
SelectInv ==
  /\ phase \in {"start", "dispatch", "skeleton", "select"} => selection = Nothing
  /\ phase \in {"dispatch", "skeleton", "select"} => chunks # <<>>
  /\ phase = "select" => Len(skeleton) \in Nat /\ Indexed(text, index)
  /\ SelectionHonest

LEMMA SelectInvInit ==
  ASSUME VcontextInit
  PROVE  SelectInv
BY DEF VcontextInit, SelectInv, SelectionHonest, Nothing

\* A selection of some spans of the index within the budget is honest.
Honest(chosen, order, list, s, skel, p) ==
  /\ chosen.tokens = SpentOn(chosen.spans)
  /\ chosen.tokens + Tokens(Len(skel)) + Wording <= Usable(p)
  /\ order # <<>> => order[1] \in ToSet(chosen.spans)
  /\ chosen.truncated <=> ToSet(order) # ToSet(chosen.spans)
  /\ \A i \in 2 .. Len(chosen.spans) :
       /\ chosen.spans[i - 1].end < chosen.spans[i].start
       /\ Assemble(chosen.spans)[i].marked
  /\ \A o \in 0 .. Len(s) - 1 : s[o + 1] \notin Blank => \E i \in DOMAIN list : At(list[i], o)

\* A selection that is served is honest.
SelectionTold == selection.ok => Honest(selection, ranked, index, text, skeleton, pol)

LEMMA HonestSays == SelectionHonest <=> SelectionTold
BY DEF SelectionHonest, SelectionTold, Honest, SpentOn, At

LEMMA HonestThen == SelectionHonest' <=> SelectionTold'
BY HonestSays, PTL

\* What can be spent is less than what a stream takes.
LEMMA BudgetFacts ==
  ASSUME pol \in Policies, Len(skeleton) \in Nat, SourceBudget > 0
  PROVE  /\ SourceBudget \in Nat
         /\ \A t \in Int : t <= SourceBudget => t + Tokens(Len(skeleton)) + Wording <= Usable(pol)
<1>1. PICK c, r, w, k : c = pol.context /\ r = pol.reserve /\ w = Wording /\ k = Tokens(Len(skeleton))
  OBVIOUS
<1>2. c \in Int /\ r \in Int /\ w \in Nat
  BY <1>1, VcontextAssumption
<1>3. k \in Nat
  BY <1>1, TokensFacts
<1>4. SourceBudget = c - r - k - w
  BY <1>1 DEF SourceBudget
<1>5. Usable(pol) = IF c - r < 1 THEN 0 ELSE c - r
  BY <1>1 DEF Usable
<1> QED
  BY <1>1, <1>2, <1>3, <1>4, <1>5

LEMMA SelectHonest ==
  ASSUME pol \in Policies, Len(skeleton) \in Nat, NEW list, NEW s, Indexed(s, list),
         NEW order \in SetToSeqs(ToSet(list)), NEW chosen, chosen = Select(order, SourceBudget), chosen.ok
  PROVE  Honest(chosen, order, list, s, skeleton, pol)
<1>1. PICK b, n, taken, S, P :
        /\ b = SourceBudget /\ n \in Nat /\ taken = Taken(order, b) /\ S = taken.spans /\ P = InPlace(S)
        /\ Ranked(order, n) /\ Len(order) = n
        /\ \A i \in 1 .. n : \E j \in 1 .. Len(list) : order[i] = list[j]
  <2>1. Spaced(list)
    BY DEF Indexed
  <2>2. PICK n \in Nat : /\ Ranked(order, n) /\ Len(order) = n
                         /\ \A i \in 1 .. n : \E j \in 1 .. Len(list) : order[i] = list[j]
    BY ONLY <2>1, order \in SetToSeqs(ToSet(list)), OrderFacts
  <2> QED
    BY ONLY <2>2, Zenon
<1>a. \A i \in 1 .. n : \E j \in 1 .. Len(list) : order[i] = list[j]
  BY <1>1
<1>2. /\ b > 0 /\ (order # <<>> => Cost(order[1]) <= b)
      /\ chosen.spans = P /\ chosen.tokens = taken.spent /\ chosen.truncated = taken.truncated
  BY <1>1 DEF Select
<1>3. b \in Nat /\ \A t \in Int : t <= b => t + Tokens(Len(skeleton)) + Wording <= Usable(pol)
  BY <1>1, <1>2, BudgetFacts
<1>4. FitsIn(taken, order, n, b)
  BY <1>1, <1>3, TakenFits
<1>5. PICK all : all = {order[i] : i \in 1 .. n}
  OBVIOUS
<1>6. /\ SomeSpans(S) /\ S \subseteq all /\ taken.spent \in Int
      /\ taken.spent = SpentOn(P) /\ taken.spent <= b
      /\ taken.truncated <=> S # all
      /\ n >= 1 /\ Cost(order[1]) <= b => order[1] \in S
  BY <1>1, <1>4, <1>5 DEF FitsIn, Takings
<1>7. ToSet(P) = S
  BY <1>1, <1>6, InPlaceFacts
<1>8. ToSet(order) = all
  BY <1>1, <1>5 DEF ToSet, Ranked
<1>9. order # <<>> => n >= 1
  <2>1. order \in Seq(Spans)
    BY <1>1, LenDomain, SMTT(60) DEF Ranked
  <2> QED
    BY <1>1, <2>1, EmptySeq
<1>10. ASSUME NEW i \in 2 .. Len(P) PROVE P[i - 1].end < P[i].start /\ Assemble(P)[i].marked
  <2>1. ASSUME NEW x \in S PROVE \E j \in 1 .. Len(list) : x = list[j]
    <3>1. PICK k \in 1 .. n : x = order[k]
      BY ONLY <1>5, <1>6, Zenon
    <3>2. PICK j \in 1 .. Len(list) : order[k] = list[j]
      BY ONLY <1>a, Zenon
    <3> QED
      BY ONLY <3>1, <3>2, Zenon
  <2>2. Spaced(list)
    BY DEF Indexed
  <2>3. P[i - 1].end < P[i].start
    BY ONLY <1>1, <1>6, <1>10, <2>1, <2>2, ApartInPlace
  <2>4. P \in [1 .. Cardinality(S) -> S] /\ Cardinality(S) \in Nat
    BY <1>1, <1>6, InPlaceFacts
  <2>5. i \in DOMAIN P /\ i > 1
    BY <2>4, LenDomain
  <2>6. P[i - 1] \in Spans /\ P[i] \in Spans
    BY <1>6, <2>4, LenDomain DEF SomeSpans
  <2>7. P[i].start > P[i - 1].end
    BY <2>3, <2>6 DEF Spans
  <2> QED
    BY <2>3, <2>5, <2>7 DEF Assemble
<1>11. \A o \in 0 .. Len(s) - 1 : s[o + 1] \notin Blank => \E i \in DOMAIN list : At(list[i], o)
  BY DEF Indexed
<1>12. /\ chosen.tokens = SpentOn(chosen.spans)
       /\ chosen.tokens + Tokens(Len(skeleton)) + Wording <= Usable(pol)
  BY <1>2, <1>3, <1>6
<1>13. order # <<>> => order[1] \in ToSet(chosen.spans)
  BY <1>2, <1>6, <1>7, <1>9
<1>14. chosen.truncated <=> ToSet(order) # ToSet(chosen.spans)
  BY <1>2, <1>6, <1>7, <1>8
<1>15. \A i \in 2 .. Len(chosen.spans) :
         /\ chosen.spans[i - 1].end < chosen.spans[i].start
         /\ Assemble(chosen.spans)[i].marked
  BY <1>2, <1>10
<1> QED
  BY ONLY <1>11, <1>12, <1>13, <1>14, <1>15 DEF Honest

LEMMA SelectInvNext ==
  ASSUME ChunksInv, SelectInv, VcontextNext \/ UNCHANGED vcontextVars
  PROVE  SelectInv'
<1> USE DEF Nothing
<1>1. ASSUME UNCHANGED <<index, skeleton, ranked, selection, text, pol>> PROVE SelectionHonest'
  <2>1. SelectionTold
    BY HonestSays DEF SelectInv
  <2>2. SelectionTold'
    BY <1>1, <2>1 DEF SelectionTold
  <2> QED
    BY <2>2, HonestThen
<1>2. ASSUME selection' = Nothing PROVE SelectionHonest'
  BY <1>2 DEF SelectionHonest
<1>3. CASE UNCHANGED vcontextVars \/ Stopped
  BY <1>1, <1>3 DEF SelectInv, Stopped, vcontextVars
<1>4. CASE Timeout
  BY <1>1, <1>4 DEF SelectInv, Timeout, input, retrieval
<1>5. CASE Refuse \/ Conclude \/ RunFails \/ Answer
  <2>1. /\ phase' \in {"failed", "merged", "answered"} /\ UNCHANGED <<index, skeleton, ranked, selection, text, pol>>
    BY <1>5 DEF Refuse, Conclude, RunFails, Answer, input, retrieval
  <2> QED
    BY <1>1, <2>1 DEF SelectInv
<1>6. CASE Split
  <2>1. /\ phase = "start" /\ phase' \in {"skeleton", "dispatch"} /\ chunks' # <<>>
        /\ UNCHANGED <<index, skeleton, ranked, selection, text, pol>>
    BY <1>6 DEF Split, input, retrieval
  <2> QED
    BY <1>1, <2>1 DEF SelectInv
<1>7. CASE \E i \in DOMAIN worker : AcquirePermit(i) \/ Answers(i)
  <2>1. /\ phase = "dispatch" /\ phase' = phase /\ chunks' = chunks
        /\ UNCHANGED <<index, skeleton, ranked, selection, text, pol>>
    BY <1>7 DEF AcquirePermit, Answers, input, retrieval
  <2> QED
    BY <1>1, <2>1 DEF SelectInv
<1>8. CASE Skeleton
  <2>1. /\ phase = "skeleton" /\ phase' = "select" /\ chunks' = chunks /\ selection' = selection
        /\ text' = text /\ index' = SegmentAll(text, chunks, SpanTokens)
        /\ \E s \in Skeletons : skeleton' = Slice(s, 0, Truncated(s, SkeletonMax))
    BY <1>8 DEF Skeleton, input
  <2>2. chunks # <<>> /\ selection = Nothing
    BY <2>1 DEF SelectInv
  <2>3. Indexed(text, SegmentAll(text, chunks, SpanTokens))
    BY <2>2, SegmentAllFacts
  <2>4. Len(skeleton') \in Nat
    BY <2>1, SkeletonLength
  <2>5. Indexed(text', index')
    BY <2>1, <2>3
  <2> QED
    BY <1>2, <2>1, <2>2, <2>4, <2>5 DEF SelectInv
<1>9. CASE Retrieve
  <2>1. /\ phase = "select" /\ phase' \in {"answer", "failed"}
        /\ UNCHANGED <<text, pol, skeleton, index>>
    BY <1>9 DEF Retrieve, input
  <2>2. PICK order \in SetToSeqs(ToSet(index)) : ranked' = order /\ selection' = Select(order, SourceBudget)
    BY <1>9 DEF Retrieve
  <2>3. pol \in Policies /\ Len(skeleton) \in Nat /\ Indexed(text, index)
    BY <2>1 DEF SelectInv, ChunksInv
  <2>4. PICK chosen : chosen = Select(order, SourceBudget)
    OBVIOUS
  <2>5. chosen.ok => Honest(chosen, order, index, text, skeleton, pol)
    BY <2>2, <2>3, <2>4, SelectHonest
  <2>6. SelectionHonest'
    <3>1. selection'.ok => Honest(selection', ranked', index', text', skeleton', pol')
      BY <2>1, <2>2, <2>4, <2>5
    <3> QED
      BY <3>1, HonestThen DEF SelectionTold
  <2> QED
    BY <2>1, <2>6 DEF SelectInv
<1> QED
  BY <1>3, <1>4, <1>5, <1>6, <1>7, <1>8, <1>9 DEF VcontextNext, Step

---------------------------------------------------------------------------
(* The sweep.                                                                *)

\* A configuration, a repetition and a row of the table.
SpecNames == {Base.spec} \cup UNION {ToSet(f.specs) : f \in Flags}

Configs == [streams : Nat, context : Nat, admit : Nat, spec : SpecNames]

Notes == {NoNote, Exceeds, "error", NotAmortising, NothingMeasured}

Repetitions == [rate : 0 .. MaxRate, note : Notes, generated : Nat]

TableRows ==
  [m : Configs, depth : Nat, rate : 0 .. MaxRate, reps : Nat, low : Nat, high : Nat, note : Notes]

LEMMA NotesApart ==
  Exceeds # NoNote /\ "error" # NoNote /\ NothingMeasured # NoNote
BY Zenon DEF NoNote, Exceeds, NothingMeasured

LEMMA QuotientNat ==
  ASSUME NEW a \in Nat, NEW b \in Nat, b > 0
  PROVE  a \div b \in Nat
<1>1. PICK q, z : q = a \div b /\ z = 0
  OBVIOUS
<1>2. q \in Int /\ z \in Int /\ a \in Int /\ b \in Nat \ {0} /\ b * z = 0
  BY <1>1
<1>3. z <= q <=> b * z <= a
  BY ONLY <1>1, <1>2, FloorBound
<1> QED
  BY <1>1, <1>2, <1>3

\* One more axis.
LEMMA ExpandFacts ==
  ASSUME NEW axis, NEW V, NEW vals \in Seq(V), NEW configs \in Seq(Configs),
         \A c \in Configs, v \in V : Vary(axis, c, v) \in Configs
  PROVE  Expand(axis, configs, vals) \in Seq(Configs)
<1>1. PICK n, l, g : n = Len(configs) /\ l = Len(vals) /\ g = Expand(axis, configs, vals)
  OBVIOUS
<1>2. n \in Nat /\ l \in Nat
  BY <1>1
<1>3. CASE vals = <<>>
  BY <1>3 DEF Expand
<1>4. CASE vals # <<>>
  <2>1. g = [i \in 1 .. l * n |-> Vary(axis, configs[((i - 1) % n) + 1], vals[((i - 1) \div n) + 1])]
    BY <1>1, <1>4 DEF Expand
  <2>2. l * n \in Nat
    BY <1>2
  <2>3. ASSUME NEW i \in 1 .. l * n
        PROVE  Vary(axis, configs[((i - 1) % n) + 1], vals[((i - 1) \div n) + 1]) \in Configs
    <3>1. n # 0
      <4>1. n = 0 => l * n = 0
        BY <1>2
      <4> QED
        BY <2>2, <4>1
    <3>2. PICK a, q, r, z : a = i - 1 /\ q = a \div n /\ r = a % n /\ z = 0
      OBVIOUS
    <3>3. a \in Int /\ q \in Int /\ z \in Int /\ n \in Nat \ {0} /\ l \in Int /\ a >= 0 /\ a < l * n
      BY <1>2, <2>2, <3>1, <3>2
    <3>4. z <= q <=> n * z <= a
      BY ONLY <3>2, <3>3, FloorBound
    <3>5. l <= q <=> n * l <= a
      BY ONLY <3>2, <3>3, FloorBound
    <3>6. n * z = 0 /\ n * l = l * n
      BY <3>2, <3>3
    <3>7. q + 1 \in 1 .. l
      BY <3>2, <3>3, <3>4, <3>5, <3>6
    <3>8. r \in 0 .. n - 1
      BY <3>2, <3>3
    <3>9. r + 1 \in 1 .. n
      BY <1>2, <3>8
    <3>10. configs[r + 1] \in Configs /\ vals[q + 1] \in V
      BY <1>1, <3>7, <3>9
    <3> QED
      BY <3>2, <3>10
  <2>4. g \in [1 .. l * n -> Configs]
    BY <2>1, <2>3
  <2> QED
    BY <1>1, <2>2, <2>4, SMTT(60)
<1> QED
  BY <1>3, <1>4

LEMMA VaryFacts ==
  ASSUME NEW c \in Configs
  PROVE  /\ \A v \in Nat : Vary("streams", c, v) \in Configs
         /\ \A v \in Nat : Vary("context", c, v) \in Configs
         /\ \A v \in SpecNames : Vary("spec", c, v) \in Configs
<1>1. ASSUME NEW v \in Nat PROVE ShareStreams(c, v) \in Configs
  <2>1. c.context \in Nat /\ c.admit \in Nat
    BY DEF Configs
  <2>2. v > 0 => c.context \div v \in Nat
    BY <2>1, QuotientNat
  <2> QED
    BY <2>1, <2>2 DEF ShareStreams, Configs
<1>2. ASSUME NEW v \in Nat PROVE ShareContext(c, v) \in Configs
  <2>1. c.streams \in Nat /\ c.admit \in Nat
    BY DEF Configs
  <2>2. c.streams > 0 => v \div c.streams \in Nat
    BY <2>1, QuotientNat
  <2> QED
    BY <2>1, <2>2 DEF ShareContext, Configs
<1>3. ASSUME NEW v \in SpecNames PROVE Speculate(c, v) \in Configs
  BY DEF Speculate, Configs
<1> QED
  BY <1>1, <1>2, <1>3 DEF Vary

LEMMA GridFacts ==
  ASSUME NEW f \in Flags
  PROVE  BuildGrid(f) \in Seq(Configs)
<1>1. PICK b, s, c, st : b = <<Base>> /\ st = Ascending(f.streams) /\ s = Expand("streams", b, st) /\ c = Expand("context", s, f.contexts)
  OBVIOUS
<1>2. f.streams \in Seq(Nat) /\ f.contexts \in Seq(Nat) /\ f.specs \in Seq(ToSet(f.specs))
  BY SweepAssumption
<1>3. st \in Seq(Nat)
  BY <1>1, <1>2, AscendingFacts
<1>4. Base \in Configs
  BY SweepAssumption DEF Configs, SpecNames
<1>5. b \in Seq(Configs)
  BY <1>1, <1>4
<1>6. PICK A : A = "streams"
  OBVIOUS
<1>7. PICK B : B = "context"
  OBVIOUS
<1>8. PICK C : C = "spec"
  OBVIOUS
<1>9. /\ \A d \in Configs, v \in Nat : Vary(A, d, v) \in Configs
      /\ \A d \in Configs, v \in Nat : Vary(B, d, v) \in Configs
      /\ \A d \in Configs, v \in SpecNames : Vary(C, d, v) \in Configs
  BY <1>6, <1>7, <1>8, VaryFacts
<1>10. Expand(A, b, st) \in Seq(Configs)
  BY ONLY <1>3, <1>5, <1>9, ExpandFacts
<1>11. s \in Seq(Configs)
  BY <1>1, <1>6, <1>10
<1>12. PICK vs, ns : vs = f.contexts /\ ns = f.specs
  OBVIOUS
<1>13. vs \in Seq(Nat) /\ ns \in Seq(SpecNames)
  <2>1. ToSet(ns) \subseteq SpecNames
    BY <1>12 DEF SpecNames
  <2>2. ns \in Seq(ToSet(ns))
    BY <1>2, <1>12
  <2>3. \A S, T : S \subseteq T => Seq(S) \subseteq Seq(T)
    OBVIOUS
  <2> QED
    BY <1>2, <1>12, <2>1, <2>2, <2>3
<1>14. Expand(B, s, vs) \in Seq(Configs)
  BY ONLY <1>9, <1>11, <1>13, ExpandFacts
<1>15. c \in Seq(Configs)
  BY <1>1, <1>7, <1>12, <1>14
<1>16. Expand(C, c, ns) \in Seq(Configs)
  BY ONLY <1>9, <1>13, <1>15, ExpandFacts
<1> QED
  BY <1>1, <1>8, <1>12, <1>16 DEF BuildGrid

LEMMA DepthsFacts ==
  ASSUME flags \in Flags, NEW c \in Configs
  PROVE  ConfigDepths(c) \in Seq(Nat)
<1>1. PICK a, t, n, D : a = Ascending(flags.depths) /\ t = Ascending(flags.residents) /\ n = c.streams /\ D = ConfigDepths(c)
  OBVIOUS
<1>2. a \in Seq(Nat) /\ t \in Seq(Nat)
  BY <1>1, SweepAssumption, AscendingFacts
<1>3. n \in Nat
  BY <1>1 DEF Configs
<1>4. D = IF a \o t = <<>> THEN <<0>> ELSE IF n > 0 THEN a \o [i \in DOMAIN t |-> t[i] \div n] ELSE a
  BY <1>1 DEF ConfigDepths
<1>5. CASE a \o t = <<>>
  <2>1. <<0>> \in Seq(Nat)
    OBVIOUS
  <2> QED
    BY <1>1, <1>4, <1>5, <2>1
<1>6. CASE a \o t # <<>> /\ n > 0
  <2>1. PICK h : h = [i \in DOMAIN t |-> t[i] \div n]
    OBVIOUS
  <2>5. PICK m : m = Len(t)
    OBVIOUS
  <2>6. m \in Nat /\ DOMAIN t = 1 .. m /\ \A i \in 1 .. m : t[i] \in Nat
    BY <1>2, <2>5
  <2>2. ASSUME NEW i \in 1 .. m PROVE t[i] \div n \in Nat
    <3>1. PICK k : k = t[i]
      OBVIOUS
    <3>2. k \in Nat
      BY <2>6, <3>1
    <3>3. k \div n \in Nat
      BY ONLY <1>3, <1>6, <3>2, QuotientNat
    <3> QED
      BY <3>1, <3>3
  <2>7. h \in [1 .. m -> Nat]
    BY <2>1, <2>2, <2>6
  <2>3. h \in Seq(Nat)
    BY <2>6, <2>7
  <2>4. a \o h \in Seq(Nat)
    BY ONLY <1>2, <2>3, Joined
  <2> QED
    BY <1>1, <1>4, <1>6, <2>1, <2>4
<1> QED
  BY <1>1, <1>2, <1>4, <1>5, <1>6

---------------------------------------------------------------------------
(* A row.                                                                    *)

\* The rate of a row is one of its repetitions', with some on either side.
LEMMA MeasuredFacts ==
  ASSUME runs \in Seq(Repetitions), row.m \in Configs, row.depth \in Nat, row.note \in Notes
  PROVE  /\ Measured \in TableRows /\ Measured.m = row.m /\ Measured.depth = row.depth
         /\ Measured.reps = Len(runs)
         /\ Measured.rate = 0 => Measured.note # NoNote
         /\ runs = <<>> => Measured.rate = 0
         /\ Measured.low <= Measured.rate /\ Measured.rate <= Measured.high
<1>1. PICK n, key, P, S, M : /\ n = Len(runs) /\ key = [i \in DOMAIN runs |-> runs[i].rate]
                             /\ P = InOrder(key) /\ S = Sorted /\ M = Measured
  OBVIOUS
<1>2. n \in Nat /\ DOMAIN runs = 1 .. n /\ \A i \in 1 .. n : runs[i] \in Repetitions
  BY <1>1
<1>3. MaxRate \in Nat
  BY SweepAssumption
<1>4. \A i \in 1 .. n : runs[i].rate \in 0 .. MaxRate /\ runs[i].note \in Notes /\ key[i] = runs[i].rate
  BY <1>1, <1>2 DEF Repetitions
<1>5. Keyed(key, n)
  <2>1. key \in [1 .. n -> Int]
    BY <1>1, <1>2, <1>3, <1>4
  <2> QED
    BY <1>2, <2>1 DEF Keyed
<1>6. /\ P \in [1 .. n -> 1 .. n]
      /\ \A r, t \in 1 .. n : r < t => key[P[r]] <= key[P[t]]
  <2>1. P = InOrder(key)
    BY <1>1
  <2>2. /\ InOrder(key) \in [1 .. n -> 1 .. n]
        /\ \A r, t \in 1 .. n : r < t => key[InOrder(key)[r]] <= key[InOrder(key)[t]]
    BY ONLY <1>5, InOrderFacts
  <2> QED
    BY <2>1, <2>2
<1>7. S = [r \in 1 .. n |-> runs[P[r]]]
  BY <1>1, <1>2 DEF Sorted
<1>8. \A r \in 1 .. n : S[r] \in Repetitions /\ S[r].rate = key[P[r]] /\ S[r].note \in Notes /\ S[r].rate \in 0 .. MaxRate
  BY <1>2, <1>4, <1>6, <1>7
<1>9. Measured = LET some == runs # <<>>
                     rate == IF some THEN S[n \div 2 + 1].rate ELSE 0
                     noted == IF some /\ S[n \div 2 + 1].note # NoNote THEN S[n \div 2 + 1].note ELSE row.note
                 IN [m |-> row.m, depth |-> row.depth, rate |-> rate, reps |-> n,
                     low  |-> IF some THEN S[1].rate ELSE 0,
                     high |-> IF some THEN Last(S).rate ELSE 0,
                     note |-> IF noted = NoNote /\ rate = 0 THEN NothingMeasured ELSE noted]
  BY <1>1 DEF Measured, Median
<1>10. NothingMeasured \in Notes /\ NothingMeasured # NoNote
  BY NotesApart DEF Notes
<1>11. PICK none : none = NothingMeasured
  OBVIOUS
<1>12. CASE runs = <<>>
  <2>1. n = 0
    BY <1>1, <1>12
  <2>2. M = [m |-> row.m, depth |-> row.depth, rate |-> 0, reps |-> 0, low |-> 0, high |-> 0,
             note |-> IF row.note = NoNote THEN none ELSE row.note]
    BY <1>1, <1>9, <1>11, <1>12, <2>1
  <2>3. M \in TableRows
    BY <1>3, <1>10, <1>11, <2>2 DEF TableRows
  <2> QED
    BY <1>1, <1>10, <1>11, <1>12, <2>1, <2>2, <2>3
<1>13. CASE runs # <<>>
  <2>1. n > 0
    BY <1>1, <1>2, <1>13
  <2>2. PICK k, a, b, c, o : /\ k = n \div 2 + 1 /\ a = S[1].rate /\ b = S[k].rate /\ c = S[n].rate
                             /\ o = IF S[k].note # NoNote THEN S[k].note ELSE row.note
    OBVIOUS
  <2>3. k \in 1 .. n /\ 1 \in 1 .. n /\ n \in 1 .. n
    BY <1>2, <2>1, <2>2
  <2>4. a \in 0 .. MaxRate /\ b \in 0 .. MaxRate /\ c \in 0 .. MaxRate /\ o \in Notes
    BY <1>8, <2>2, <2>3
  <2>5. a <= b
    <3>1. CASE k = 1
      BY <1>3, <2>2, <2>4, <3>1
    <3>2. CASE k # 1
      <4>1. 1 < k
        BY <2>3, <3>2
      <4> QED
        BY <1>6, <1>8, <2>2, <2>3, <4>1
    <3> QED
      BY <3>1, <3>2
  <2>6. b <= c
    <3>1. CASE k = n
      BY <1>3, <2>2, <2>4, <3>1
    <3>2. CASE k # n
      <4>1. k < n
        BY <1>2, <2>3, <3>2
      <4> QED
        BY <1>6, <1>8, <2>2, <2>3, <4>1
    <3> QED
      BY <3>1, <3>2
  <2>7. Last(S).rate = c
    <3>1. S \in [1 .. n -> Repetitions]
      BY <1>7, <1>8
    <3>2. Len(S) = n
      BY <1>2, <3>1
    <3> QED
      BY <2>2, <3>2 DEF Last
  <2>8. M = [m |-> row.m, depth |-> row.depth, rate |-> b, reps |-> n, low |-> a, high |-> c,
             note |-> IF o = NoNote /\ b = 0 THEN none ELSE o]
    BY <1>1, <1>9, <1>11, <1>13, <2>2, <2>7
  <2>9. M \in TableRows
    BY <1>2, <1>3, <1>10, <1>11, <2>4, <2>8 DEF TableRows
  <2> QED
    BY <1>1, <1>10, <1>11, <1>13, <2>5, <2>6, <2>8, <2>9
<1> QED
  BY <1>12, <1>13

SweepTypes ==
  /\ flags \in Flags
  /\ grid \in Seq(Configs) /\ depths \in Seq(Nat)
  /\ row \in [m : Configs, depth : Nat, note : Notes]
  /\ runs \in Seq(Repetitions) /\ Len(runs) <= flags.reps
  /\ rows \in Seq(TableRows) /\ failedAt \in Nat
  /\ pc \in {"row", "measure", "write", "written"} => grid # <<>>

\* A row is measured only where it fits.
MeasureInv ==
  pc = "measure" =>
    /\ grid # <<>> /\ row.m = grid[1]
    /\ row.note = NoNote \/ runs # <<>> => ~Geometry(row.m, row.depth)

\* What is skipped is behind a row without a rate.
SkipInv ==
  /\ failedAt > 0 => \E j \in DOMAIN rows : rows[j].rate = 0 /\ rows[j].m.streams = failedAt
  /\ \A m \in told : \E j \in DOMAIN rows : rows[j].rate = 0 /\ rows[j].m.streams <= m.streams

HasRow(c, d) == \E j \in DOMAIN rows : rows[j].m = c /\ rows[j].depth = d

\* A configuration that the sweep is through with.
Finished(c) == c \in told \/ \A d \in ToSet(ConfigDepths(c)) : HasRow(c, d)

\* What is left of the grid is its end, and the sweep is through with all in front of it
\* and has a row for every depth of the first but those that are left.
GridInv ==
  LET all == BuildGrid(flags) IN
  /\ Len(grid) <= Len(all)
  /\ \A i \in 1 .. Len(grid) : grid[i] = all[Len(all) - Len(grid) + i]
  /\ \A i \in 1 .. Len(all) - Len(grid) : Finished(all[i])
  /\ pc \in {"row", "measure", "write", "written"} =>
       /\ grid # <<>>
       /\ \A d \in ToSet(ConfigDepths(grid[1])) :
            HasRow(grid[1], d) \/ d \in ToSet(depths) \/ (pc = "measure" /\ d = row.depth)
  /\ pc \in {"last", "writtenLast", "done"} => grid = <<>>
  /\ pc \in {"config", "row", "measure", "write", "written", "last", "writtenLast", "done", "crashed"}

BestInv ==
  pc \in {"last", "writtenLast", "done"} =>
    IF best = 0 THEN \A j \in DOMAIN rows : rows[j].rate = 0
    ELSE \A j \in DOMAIN rows : rows[j].rate <= rows[best].rate

FileInv ==
  /\ pc \in {"written", "writtenLast"} => tmp = Torn \/ tmp = rows
  /\ file \in Seq(TableRows) /\ Len(file) <= Len(rows)
  /\ \A i \in 1 .. Len(file) : file[i] = rows[i]

---------------------------------------------------------------------------

LEMMA SweepTypesInit ==
  ASSUME SweepInit
  PROVE  SweepTypes
<1>1. flags \in Flags /\ grid = BuildGrid(flags) /\ row = NoRow /\ failedAt = 0 /\ pc = "config"
  BY DEF SweepInit
<1>2. grid \in Seq(Configs)
  BY <1>1, GridFacts
<1>3. PICK d, n, r : d = depths /\ n = runs /\ r = rows
  OBVIOUS
<1>4. d = <<>> /\ n = <<>> /\ r = <<>>
  BY <1>3 DEF SweepInit
<1>5. d \in Seq(Nat) /\ n \in Seq(Repetitions) /\ Len(n) = 0 /\ r \in Seq(TableRows)
  BY <1>4
<1>6. flags.reps \in Nat
  BY <1>1, SweepAssumption
<1>7. Base \in Configs /\ NoNote \in Notes
  BY SweepAssumption DEF Configs, SpecNames, Notes
<1>8. row \in [m : Configs, depth : Nat, note : Notes]
  BY <1>1, <1>7 DEF NoRow
<1> QED
  BY <1>1, <1>2, <1>3, <1>5, <1>6, <1>8 DEF SweepTypes

LEMMA ShorterGrid ==
  ASSUME NEW g \in Seq(Configs), g # <<>>
  PROVE  /\ Tail(g) \in Seq(Configs) /\ Len(Tail(g)) = Len(g) - 1 /\ g[1] \in Configs
         /\ \A i \in 1 .. Len(g) - 1 : Tail(g)[i] = g[i + 1]
  OBVIOUS

LEMMA GeneratedNat ==
  ASSUME SweepTypes
  PROVE  Generated \in Nat
<1>1. PICK q : q = row.depth \div DepthScale
  OBVIOUS
<1>2. q \in Nat
  BY <1>1, SweepAssumption, QuotientNat DEF SweepTypes
<1>3. PICK t : t = flags.tokens
  OBVIOUS
<1>4. t \in Nat
  BY <1>3, SweepAssumption DEF SweepTypes
<1> QED
  BY <1>1, <1>2, <1>3, <1>4, SweepAssumption DEF Generated, DepthTokens

LEMMA SweepTypesNext ==
  ASSUME SweepTypes, SweepNext \/ UNCHANGED sweepVars
  PROVE  SweepTypes'
<1>0. flags' = flags
  BY DEF SweepNext, sweepVars, SkipConfig, Configure, StartRow, Measure, MeasureFails, Record, NextConfig,
         WriteTmp, Written, Rename, WriteFails, PrintBest, Crash
<1>1. CASE SkipConfig \/ NextConfig
  <2>1. grid # <<>> /\ grid' = Tail(grid) /\ pc' = "config"
    BY <1>1 DEF SkipConfig, NextConfig, SweepTypes
  <2>2. grid' \in Seq(Configs)
    BY <2>1, ShorterGrid DEF SweepTypes
  <2> QED
    BY <1>0, <1>1, <2>1, <2>2 DEF SkipConfig, NextConfig, SweepTypes
<1>2. CASE Configure
  <2>1. grid # <<>> /\ depths' = ConfigDepths(grid[1])
    BY <1>2 DEF Configure
  <2>2. grid[1] \in Configs /\ flags \in Flags
    BY <2>1, ShorterGrid DEF SweepTypes
  <2>3. depths' \in Seq(Nat)
    BY <2>1, <2>2, DepthsFacts
  <2> QED
    BY <1>0, <1>2, <2>3 DEF Configure, SweepTypes
<1>3. CASE StartRow
  <2>1. grid # <<>> /\ depths # <<>>
    BY <1>3 DEF StartRow, SweepTypes
  <2>2. grid[1] \in Configs /\ depths[1] \in Nat /\ Tail(depths) \in Seq(Nat)
    BY <2>1 DEF SweepTypes
  <2>3. Exceeds \in Notes /\ NoNote \in Notes
    BY DEF Notes
  <2>4. row' \in [m : Configs, depth : Nat, note : Notes]
    BY <1>3, <2>2, <2>3 DEF StartRow
  <2>5. PICK n : n = runs'
    OBVIOUS
  <2>6. n = <<>>
    BY <1>3, <2>5 DEF StartRow
  <2>7. n \in Seq(Repetitions) /\ Len(n) = 0 /\ flags.reps \in Nat
    BY <2>6, SweepAssumption DEF SweepTypes
  <2> QED
    BY <1>0, <1>3, <2>1, <2>2, <2>4, <2>5, <2>7 DEF StartRow, SweepTypes
<1>4. CASE Measure
  <2>1. PICK rate \in 0 .. MaxRate, note \in {NoNote, NotAmortising} :
          runs' = Append(runs, [rate |-> rate, note |-> note, generated |-> Generated])
    BY <1>4 DEF Measure
  <2>2. [rate |-> rate, note |-> note, generated |-> Generated] \in Repetitions
    BY GeneratedNat DEF Repetitions, Notes
  <2>3. Len(runs) < flags.reps /\ flags.reps \in Nat
    BY <1>4, SweepAssumption DEF Measure, SweepTypes
  <2>4. runs' \in Seq(Repetitions) /\ Len(runs') <= flags.reps
    BY <2>1, <2>2, <2>3 DEF SweepTypes
  <2> QED
    BY <1>0, <1>4, <2>4 DEF Measure, SweepTypes
<1>5. CASE MeasureFails
  <2>1. "error" \in Notes
    BY DEF Notes
  <2>2. row' \in [m : Configs, depth : Nat, note : Notes]
    BY <1>5, <2>1 DEF MeasureFails, SweepTypes
  <2> QED
    BY <1>0, <1>5, <2>2 DEF MeasureFails, SweepTypes
<1>6. CASE Record
  <2>1. row.m \in Configs /\ row.depth \in Nat /\ row.note \in Notes /\ row.m.streams \in Nat
    BY DEF SweepTypes, Configs
  <2>2. Measured \in TableRows
    BY <2>1, MeasuredFacts DEF SweepTypes
  <2>3. rows' \in Seq(TableRows)
    BY <1>6, <2>2 DEF Record, SweepTypes
  <2>4. failedAt' \in Nat
    BY <1>6, <2>1 DEF Record, SweepTypes
  <2> QED
    BY <1>0, <1>6, <2>3, <2>4 DEF Record, SweepTypes
<1>7. CASE WriteTmp \/ Written \/ PrintBest \/ Crash \/ UNCHANGED sweepVars
  BY <1>0, <1>7 DEF WriteTmp, Written, PrintBest, Crash, sweepVars, SweepTypes
<1>8. CASE Rename \/ WriteFails
  <2>1. grid' = grid /\ depths' = depths /\ row' = row /\ runs' = runs /\ rows' = rows /\ failedAt' = failedAt
    BY <1>8 DEF Rename, WriteFails
  <2>2. pc' \in {"row", "measure", "write", "written"} => grid # <<>>
    BY <1>8 DEF Rename, WriteFails, Resume, SweepTypes
  <2> QED
    BY <1>0, <2>1, <2>2 DEF SweepTypes
<1> QED
  BY <1>1, <1>2, <1>3, <1>4, <1>5, <1>6, <1>7, <1>8 DEF SweepNext

---------------------------------------------------------------------------

LEMMA RowsHonestNext ==
  ASSUME SweepTypes, RowsHonest, SweepNext \/ UNCHANGED sweepVars
  PROVE  RowsHonest'
<1>0. flags' = flags
  BY DEF SweepNext, sweepVars, SkipConfig, Configure, StartRow, Measure, MeasureFails, Record, NextConfig,
         WriteTmp, Written, Rename, WriteFails, PrintBest, Crash
<1>1. Record \/ rows' = rows
  BY DEF SweepNext, sweepVars, SkipConfig, Configure, StartRow, Measure, MeasureFails, NextConfig,
         WriteTmp, Written, Rename, WriteFails, PrintBest, Crash
<1>2. CASE Record
  <2>1. PICK M, n : M = Measured /\ n = Len(rows)
    OBVIOUS
  <2>2. row.m \in Configs /\ row.depth \in Nat /\ row.note \in Notes /\ flags \in Flags
    BY DEF SweepTypes
  <2>3. /\ M \in TableRows /\ M.m = row.m /\ M.depth = row.depth
        /\ M.reps = Len(runs)
        /\ M.rate = 0 => M.note # NoNote
        /\ runs = <<>> => M.rate = 0
        /\ M.low <= M.rate /\ M.rate <= M.high
    BY <2>1, <2>2, MeasuredFacts DEF SweepTypes
  <2>4. n \in Nat /\ rows' = Append(rows, M) /\ pc = "measure" /\ rows \in Seq(TableRows)
    BY <1>2, <2>1 DEF Record, SweepTypes
  <2>5. DOMAIN rows' = 1 .. n + 1 /\ rows'[n + 1] = M /\ DOMAIN rows = 1 .. n /\ \A i \in 1 .. n : rows'[i] = rows[i]
    BY <2>1, <2>3, <2>4
  <2>6. M.reps = 0 => M.rate = 0
    <3>1. Len(runs) = 0 => runs = <<>>
      BY DEF SweepTypes
    <3> QED
      BY <2>3, <3>1
  <2>7. RowHonest(M)
    BY <2>3, <2>6 DEF RowHonest, SweepTypes
  <2>9. RowsHonest'
    <3> SUFFICES ASSUME NEW i \in DOMAIN rows' PROVE RowHonest(rows'[i])
      BY <1>0 DEF RowsHonest, RowHonest
    <3>1. i = n + 1 \/ (i \in DOMAIN rows /\ rows'[i] = rows[i])
      BY <2>4, <2>5
    <3> QED
      BY <2>5, <2>7, <3>1 DEF RowsHonest
  <2> QED
    BY <2>9
<1>3. CASE rows' = rows
  BY <1>0, <1>3 DEF RowsHonest, RowHonest
<1> QED
  BY <1>1, <1>2, <1>3

LEMMA MeasureInvNext ==
  ASSUME SweepTypes, MeasureInv, SweepNext \/ UNCHANGED sweepVars
  PROVE  MeasureInv'
<1>0. flags' = flags
  BY DEF SweepNext, sweepVars, SkipConfig, Configure, StartRow, Measure, MeasureFails, Record, NextConfig,
         WriteTmp, Written, Rename, WriteFails, PrintBest, Crash
<1>1. \A m, d : Geometry(m, d)' = Geometry(m, d)
  BY <1>0 DEF Geometry, PerStream
<1>2. CASE StartRow
  <2>1. PICK m, d : m = grid[1] /\ d = depths[1]
    OBVIOUS
  <2>2. /\ grid # <<>> /\ grid' = grid /\ row'.m = m /\ row'.depth = d
        /\ row'.note = IF Geometry(m, d) THEN Exceeds ELSE NoNote
        /\ runs' = <<>>
    BY <1>2, <2>1 DEF StartRow, SweepTypes
  <2>3. row'.note = NoNote \/ runs' # <<>> => ~Geometry(m, d)
    BY <2>2, NotesApart
  <2> QED
    BY <1>1, <2>1, <2>2, <2>3 DEF MeasureInv
<1>3. CASE Measure
  <2>1. row' = row /\ grid' = grid /\ row.note = NoNote /\ pc = "measure"
    BY <1>3 DEF Measure
  <2> QED
    BY <1>1, <2>1 DEF MeasureInv
<1>4. CASE MeasureFails
  <2>1. row'.m = row.m /\ row'.depth = row.depth /\ grid' = grid /\ row.note = NoNote /\ pc = "measure"
    BY <1>4 DEF MeasureFails, SweepTypes
  <2> QED
    BY <1>1, <2>1 DEF MeasureInv
<1>5. CASE UNCHANGED sweepVars
  BY <1>1, <1>5 DEF sweepVars, MeasureInv
<1>6. CASE ~(StartRow \/ Measure \/ MeasureFails \/ UNCHANGED sweepVars)
  <2>1. pc' # "measure"
    BY <1>6 DEF SweepNext, SkipConfig, Configure, Record, NextConfig, WriteTmp, Written, Rename, WriteFails,
                PrintBest, Crash, Resume
  <2> QED
    BY <2>1 DEF MeasureInv
<1> QED
  BY <1>2, <1>3, <1>4, <1>5, <1>6

\* What is measured is of a row that the check let through.
LEMMA RatesFitNext ==
  ASSUME SweepTypes, RatesFit, MeasureInv, SweepNext \/ UNCHANGED sweepVars
  PROVE  RatesFit'
<1>0. flags' = flags
  BY DEF SweepNext, sweepVars, SkipConfig, Configure, StartRow, Measure, MeasureFails, Record, NextConfig,
         WriteTmp, Written, Rename, WriteFails, PrintBest, Crash
<1>1. CASE Measure
  <2>1. PICK rate, note, g, n, p, d, t :
          /\ runs' = Append(runs, [rate |-> rate, note |-> note, generated |-> g])
          /\ g = Generated /\ n = Len(runs) /\ p = PerStream(row.m) /\ d = row.depth /\ t = flags.tokens
    BY <1>1 DEF Measure
  <2>2. row' = row /\ ~Geometry(row.m, row.depth)
    BY <1>1 DEF Measure, MeasureInv
  <2>3. g \in Nat /\ n \in Nat /\ d \in Nat /\ t \in Nat /\ p \in Int
    <3>1. PICK a, b : a = row.m.context /\ b = row.m.streams
      OBVIOUS
    <3>2. a \in Nat /\ b \in Nat
      BY <3>1 DEF SweepTypes, Configs
    <3>3. b > 0 => a \div b \in Int
      BY <3>2
    <3>4. p \in Int
      BY <2>1, <3>1, <3>2, <3>3 DEF PerStream
    <3>5. t \in Nat
      BY <2>1, SweepAssumption DEF SweepTypes
    <3>6. g \in Nat
      BY <2>1, GeneratedNat
    <3> QED
      BY <2>1, <3>4, <3>5, <3>6 DEF SweepTypes
  <2>4. d > 0 /\ p > 0 => ~(d + t >= p)
    BY <2>1, <2>2 DEF Geometry
  <2>5. (d > 0 /\ p > 0 => d + g < p) \/ g > t
    BY <2>3, <2>4
  <2>6. DOMAIN runs' = 1 .. n + 1 /\ runs'[n + 1].generated = g
        /\ DOMAIN runs = 1 .. n /\ \A i \in 1 .. n : runs'[i] = runs[i]
    BY <2>1, <2>3 DEF SweepTypes
  <2>7. PerStream(row.m)' = p
    BY <2>1, <2>2 DEF PerStream
  <2> SUFFICES ASSUME NEW i \in DOMAIN runs'
               PROVE  FitsShare(runs[i])' \/ runs'[i].generated > flags'.tokens
    BY DEF RatesFit
  <2>8. CASE i = n + 1
    BY <1>0, <2>1, <2>2, <2>5, <2>6, <2>7, <2>8 DEF FitsShare
  <2>9. CASE i \in 1 .. n
    <3>1. FitsShare(runs[i]) \/ runs[i].generated > flags.tokens
      BY <2>6, <2>9 DEF RatesFit
    <3>2. runs'[i] = runs[i]
      BY <2>6, <2>9
    <3> QED
      BY <1>0, <2>1, <2>2, <2>7, <3>1, <3>2 DEF FitsShare
  <2> QED
    BY <2>3, <2>6, <2>8, <2>9
<1>2. CASE runs' = runs /\ row'.m = row.m /\ row'.depth = row.depth
  BY <1>0, <1>2 DEF RatesFit, FitsShare, PerStream
<1>3. CASE StartRow
  <2>1. PICK n : n = runs'
    OBVIOUS
  <2>2. n = <<>> /\ DOMAIN n = {}
    BY <1>3, <2>1 DEF StartRow
  <2> QED
    BY <2>1, <2>2 DEF RatesFit
<1>4. Measure \/ StartRow \/ (runs' = runs /\ row'.m = row.m /\ row'.depth = row.depth)
  BY DEF SweepNext, sweepVars, SkipConfig, Configure, MeasureFails, Record, NextConfig,
         WriteTmp, Written, Rename, WriteFails, PrintBest, Crash, SweepTypes
<1> QED
  BY <1>1, <1>2, <1>3, <1>4

LEMMA SkipInvNext ==
  ASSUME SweepTypes, SkipInv, SweepNext \/ UNCHANGED sweepVars
  PROVE  SkipInv'
<1>1. CASE SkipConfig
  <2>1. PICK m : m = grid[1]
    OBVIOUS
  <2>2. /\ rows' = rows /\ failedAt' = failedAt /\ told' = told \cup {m}
        /\ failedAt > 0 /\ m.streams >= failedAt
    BY <1>1, <2>1 DEF SkipConfig, Skipped
  <2>3. PICK j \in DOMAIN rows : rows[j].rate = 0 /\ rows[j].m.streams = failedAt
    BY <2>2 DEF SkipInv
  <2>4. rows[j].m.streams <= m.streams
    <3>1. m.streams \in Int /\ failedAt \in Int
      <4>1. m \in Configs
        BY <1>1, <2>1, ShorterGrid DEF SkipConfig, SweepTypes
      <4> QED
        BY <4>1 DEF Configs, SweepTypes
    <3> QED
      BY <2>2, <2>3, <3>1
  <2> QED
    BY <2>2, <2>3, <2>4 DEF SkipInv
<1>2. CASE Record
  <2>1. PICK M, n : M = Measured /\ n = Len(rows)
    OBVIOUS
  <2>2. row.m \in Configs /\ row.depth \in Nat /\ row.note \in Notes
    BY DEF SweepTypes
  <2>3. M \in TableRows /\ M.m = row.m
    BY <2>1, <2>2, MeasuredFacts DEF SweepTypes
  <2>4. n \in Nat /\ rows' = Append(rows, M) /\ rows \in Seq(TableRows) /\ told' = told
    BY <1>2, <2>1 DEF Record, SweepTypes
  <2>5. DOMAIN rows' = 1 .. n + 1 /\ rows'[n + 1] = M /\ DOMAIN rows = 1 .. n /\ \A i \in 1 .. n : rows'[i] = rows[i]
    BY <2>1, <2>3, <2>4
  <2>6. ASSUME failedAt' > 0
        PROVE  \E j \in DOMAIN rows' : rows'[j].rate = 0 /\ rows'[j].m.streams = failedAt'
    <3>1. CASE M.rate = 0 /\ failedAt = 0
      <4>1. failedAt' = row.m.streams
        BY <1>2, <2>1, <3>1 DEF Record
      <4>2. n + 1 \in DOMAIN rows'
        BY <2>4, <2>5
      <4> QED
        BY <2>3, <2>5, <3>1, <4>1, <4>2
    <3>2. CASE ~(M.rate = 0 /\ failedAt = 0)
      <4>1. failedAt' = failedAt
        BY <1>2, <2>1, <3>2 DEF Record
      <4>2. PICK j \in DOMAIN rows : rows[j].rate = 0 /\ rows[j].m.streams = failedAt
        BY <2>6, <4>1 DEF SkipInv
      <4>3. j \in DOMAIN rows' /\ rows'[j] = rows[j]
        BY <2>4, <2>5
      <4> QED
        BY <4>1, <4>2, <4>3
    <3> QED
      BY <3>1, <3>2
  <2>7. ASSUME NEW m \in told'
        PROVE  \E j \in DOMAIN rows' : rows'[j].rate = 0 /\ rows'[j].m.streams <= m.streams
    <3>1. PICK j \in DOMAIN rows : rows[j].rate = 0 /\ rows[j].m.streams <= m.streams
      BY <2>4, <2>7 DEF SkipInv
    <3>2. j \in DOMAIN rows' /\ rows'[j] = rows[j]
      BY <2>4, <2>5
    <3> QED
      BY <3>1, <3>2
  <2> QED
    BY <2>6, <2>7 DEF SkipInv
<1>3. CASE rows' = rows /\ failedAt' = failedAt /\ told' = told
  BY <1>3 DEF SkipInv
<1>4. SkipConfig \/ Record \/ (rows' = rows /\ failedAt' = failedAt /\ told' = told)
  BY DEF SweepNext, sweepVars, Configure, StartRow, Measure, MeasureFails, NextConfig,
         WriteTmp, Written, Rename, WriteFails, PrintBest, Crash
<1> QED
  BY <1>1, <1>2, <1>3, <1>4

LEMMA BestInvNext ==
  ASSUME SweepTypes, BestInv, SweepNext \/ UNCHANGED sweepVars
  PROVE  BestInv'
<1>1. CASE PrintBest
  <2>1. PICK n, top, b : /\ n = Len(rows) /\ b = Min(top)
                      /\ top = {i \in DOMAIN rows : \A j \in DOMAIN rows : rows[j].rate <= rows[i].rate}
    OBVIOUS
  <2>2. rows' = rows /\ best' = IF top # {} /\ rows[b].rate > 0 THEN b ELSE 0
    BY <1>1, <2>1 DEF PrintBest
  <2>3. n \in Nat /\ DOMAIN rows = 1 .. n /\ \A i \in 1 .. n : rows[i] \in TableRows
    BY <2>1 DEF SweepTypes
  <2>4. MaxRate \in Nat
    BY SweepAssumption
  <2>5. \A i \in 1 .. n : rows[i].rate \in 0 .. MaxRate
    BY <2>3 DEF TableRows
  <2>6. ASSUME n # 0 PROVE top # {}
    <3>1. PICK S, x : S = {rows[i].rate : i \in 1 .. n} /\ x = Max(S)
      OBVIOUS
    <3>2. 1 \in 1 .. n
      BY <2>3, <2>6
    <3>3. S \in SUBSET (0 .. MaxRate) /\ S # {}
      BY <2>5, <3>1, <3>2
    <3>4. Max(S) \in S /\ \A y \in S : y <= Max(S)
      BY ONLY <2>4, <3>3, MaxOfSome
    <3>5. PICK i \in 1 .. n : rows[i].rate = x
      BY <3>1, <3>4
    <3>6. \A j \in 1 .. n : rows[j].rate <= rows[i].rate
      BY <3>1, <3>4, <3>5
    <3> QED
      BY <2>1, <2>3, <3>6
  <2>7. ASSUME top # {} PROVE b \in 1 .. n /\ \A j \in 1 .. n : rows[j].rate <= rows[b].rate
    <3>1. top \in SUBSET Nat
      BY <2>1, <2>3
    <3>2. b \in top
      BY ONLY <2>1, <2>7, <3>1, MinOfSome
    <3> QED
      BY <2>1, <2>3, <3>2
  <2>8. CASE top # {} /\ rows[b].rate > 0
    <3>1. best' = b /\ b # 0
      BY <2>2, <2>3, <2>7, <2>8
    <3> QED
      BY <2>2, <2>3, <2>7, <2>8, <3>1 DEF BestInv
  <2>9. CASE top # {} /\ ~(rows[b].rate > 0)
    <3>1. \A j \in 1 .. n : rows[j].rate = 0
      BY <2>4, <2>5, <2>7, <2>9
    <3> QED
      BY <2>2, <2>3, <2>9, <3>1 DEF BestInv
  <2>10. CASE top = {}
    <3>1. best' = 0 /\ n = 0
      BY <2>2, <2>6, <2>10
    <3> QED
      BY <2>2, <2>3, <3>1 DEF BestInv
  <2> QED
    BY <2>8, <2>9, <2>10
<1>2. CASE WriteTmp \/ Written \/ Rename \/ WriteFails \/ Crash \/ UNCHANGED sweepVars
  <2>1. rows' = rows /\ best' = best
    BY <1>2 DEF WriteTmp, Written, Rename, WriteFails, Crash, sweepVars
  <2>2. pc' \in {"last", "writtenLast", "done"} => pc \in {"last", "writtenLast", "done"}
    BY <1>2 DEF WriteTmp, Written, Rename, WriteFails, Crash, sweepVars, Resume
  <2> QED
    BY <2>1, <2>2 DEF BestInv
<1>3. CASE pc' \notin {"last", "writtenLast", "done"}
  BY <1>3 DEF BestInv
<1> QED
  BY <1>1, <1>2, <1>3 DEF SweepNext, SkipConfig, Configure, StartRow, Measure, MeasureFails, Record, NextConfig

LEMMA FileInvNext ==
  ASSUME SweepTypes, FileInv, SweepNext \/ UNCHANGED sweepVars
  PROVE  FileInv'
<1>1. CASE Record
  <2>1. PICK M, n : M = Measured /\ n = Len(rows)
    OBVIOUS
  <2>2. row.m \in Configs /\ row.depth \in Nat /\ row.note \in Notes
    BY DEF SweepTypes
  <2>3. M \in TableRows
    BY <2>1, <2>2, MeasuredFacts DEF SweepTypes
  <2>4. n \in Nat /\ rows' = Append(rows, M) /\ rows \in Seq(TableRows) /\ file' = file
    BY <1>1, <2>1 DEF Record, SweepTypes
  <2>5. Len(rows') = n + 1 /\ \A i \in 1 .. n : rows'[i] = rows[i]
    BY <2>1, <2>3, <2>4
  <2>6. Len(file) \in Nat /\ Len(file) <= n
    BY <2>1 DEF FileInv
  <2>7. \A i \in 1 .. Len(file) : file[i] = rows'[i]
    BY <2>4, <2>5, <2>6 DEF FileInv
  <2>8. pc' \notin {"written", "writtenLast"}
    BY <1>1 DEF Record
  <2> QED
    BY <2>4, <2>5, <2>6, <2>7, <2>8 DEF FileInv
<1>2. CASE Rename
  <2>1. tmp = rows /\ file' = rows /\ rows' = rows /\ pc' \notin {"written", "writtenLast"}
    BY <1>2 DEF Rename, Resume, FileInv
  <2>2. rows \in Seq(TableRows) /\ Len(rows) \in Nat
    BY DEF SweepTypes
  <2> QED
    BY <2>1, <2>2 DEF FileInv
<1>3. CASE WriteTmp \/ Written
  BY <1>3 DEF WriteTmp, Written, FileInv
<1>4. CASE UNCHANGED sweepVars
  BY <1>4 DEF sweepVars, FileInv
<1>5. CASE rows' = rows /\ file' = file /\ pc' \notin {"written", "writtenLast"}
  BY <1>5 DEF FileInv
<1>6. Record \/ Rename \/ WriteTmp \/ Written \/ UNCHANGED sweepVars
      \/ (rows' = rows /\ file' = file /\ pc' \notin {"written", "writtenLast"})
  BY DEF SweepNext, SkipConfig, Configure, StartRow, Measure, MeasureFails, NextConfig, WriteFails, PrintBest,
         Crash, Resume
<1> QED
  BY <1>1, <1>2, <1>3, <1>4, <1>5, <1>6

---------------------------------------------------------------------------
(* The grid.                                                                 *)

\* A sweep that has not lost a row or a word of what it skipped is not through with less.
LEMMA StillThrough ==
  ASSUME flags' = flags, told \subseteq told', \A c, d : HasRow(c, d) => HasRow(c, d)'
  PROVE  \A c : Finished(c) => Finished(c)'
<1>1. \A c : ConfigDepths(c)' = ConfigDepths(c)
  BY DEF ConfigDepths
<1> QED
  BY <1>1 DEF Finished

\* Nothing is taken out of the table.
LEMMA StillThere ==
  ASSUME SweepTypes, SweepNext \/ UNCHANGED sweepVars
  PROVE  /\ flags' = flags /\ told \subseteq told'
         /\ \A c, d : HasRow(c, d) => HasRow(c, d)'
         /\ Record => HasRow(row.m, row.depth)'
<1>1. flags' = flags
  BY DEF SweepNext, sweepVars, SkipConfig, Configure, StartRow, Measure, MeasureFails, Record, NextConfig,
         WriteTmp, Written, Rename, WriteFails, PrintBest, Crash
<1>2. told \subseteq told'
  BY DEF SweepNext, sweepVars, SkipConfig, Configure, StartRow, Measure, MeasureFails, Record, NextConfig,
         WriteTmp, Written, Rename, WriteFails, PrintBest, Crash
<1>3. Record \/ rows' = rows
  BY DEF SweepNext, sweepVars, SkipConfig, Configure, StartRow, Measure, MeasureFails, NextConfig,
         WriteTmp, Written, Rename, WriteFails, PrintBest, Crash
<1>4. ASSUME Record
      PROVE  HasRow(row.m, row.depth)' /\ \A c, d : HasRow(c, d) => HasRow(c, d)'
  <2>1. PICK M, n : M = Measured /\ n = Len(rows)
    OBVIOUS
  <2>2. row.m \in Configs /\ row.depth \in Nat /\ row.note \in Notes
    BY DEF SweepTypes
  <2>3. M \in TableRows /\ M.m = row.m /\ M.depth = row.depth
    BY <2>1, <2>2, MeasuredFacts DEF SweepTypes
  <2>4. n \in Nat /\ rows' = Append(rows, M) /\ rows \in Seq(TableRows) /\ row' = row
    BY <1>4, <2>1 DEF Record, SweepTypes
  <2>5. DOMAIN rows' = 1 .. n + 1 /\ rows'[n + 1] = M /\ DOMAIN rows = 1 .. n /\ \A i \in 1 .. n : rows'[i] = rows[i]
    BY <2>1, <2>3, <2>4
  <2>6. ASSUME NEW c, NEW d, HasRow(c, d) PROVE HasRow(c, d)'
    <3>1. PICK j \in DOMAIN rows : rows[j].m = c /\ rows[j].depth = d
      BY <2>6 DEF HasRow
    <3>2. j \in DOMAIN rows' /\ rows'[j] = rows[j]
      BY <2>4, <2>5, <3>1
    <3> QED
      BY <3>1, <3>2 DEF HasRow
  <2>7. HasRow(row.m, row.depth)'
    <3>1. n + 1 \in DOMAIN rows'
      BY <2>4, <2>5
    <3> QED
      BY <2>3, <2>4, <2>5, <3>1 DEF HasRow
  <2> QED
    BY <2>6, <2>7
<1>5. ASSUME rows' = rows PROVE \A c, d : HasRow(c, d) => HasRow(c, d)'
  BY <1>5 DEF HasRow
<1> QED
  BY <1>1, <1>2, <1>3, <1>4, <1>5

LEMMA GridInvInit ==
  ASSUME SweepInit
  PROVE  GridInv
<1>1. PICK g, n : g = grid /\ n = Len(g)
  OBVIOUS
<1>2. g = BuildGrid(flags) /\ pc = "config" /\ g \in Seq(Configs)
  BY <1>1, GridFacts DEF SweepInit
<1>3. n \in Nat
  BY <1>1, <1>2
<1>4. n <= n /\ (\A i \in 1 .. n : n - n + i = i) /\ \A i \in 1 .. n - n : FALSE
  BY <1>3
<1> QED
  BY <1>1, <1>2, <1>4 DEF GridInv

\* The sweep goes on to the next configuration once it is through with the first.
LEMMA GridForward ==
  ASSUME SweepTypes, GridInv, grid # <<>>, grid' = Tail(grid), pc' = "config", flags' = flags,
         \A c : Finished(c) => Finished(c)', \A c : c = grid[1] => Finished(c)'
  PROVE  GridInv'
<1>1. PICK all, g, n, m : all = BuildGrid(flags) /\ g = grid /\ n = Len(g) /\ m = Len(all)
  OBVIOUS
<1>2. /\ all \in Seq(Configs) /\ g \in Seq(Configs) /\ n \in Nat /\ m \in Nat /\ n > 0 /\ g # <<>>
  <2>1. all \in Seq(Configs) /\ g \in Seq(Configs) /\ g # <<>>
    BY <1>1, GridFacts DEF SweepTypes
  <2> QED
    BY <1>1, <2>1
<1>3. /\ n <= m /\ \A i \in 1 .. n : g[i] = all[m - n + i]
      /\ \A i \in 1 .. m - n : Finished(all[i])
  BY <1>1 DEF GridInv
<1>4. BuildGrid(flags)' = all
  <2>1. BuildGrid(flags') = all
    BY <1>1
  <2> QED
    BY <2>1
<1>5. PICK h, k : h = Tail(g) /\ k = n - 1
  OBVIOUS
<1>6. Len(h) = k /\ k \in Nat /\ \A i \in 1 .. k : h[i] = g[i + 1]
  BY <1>1, <1>2, <1>5, ShorterGrid
<1>7. ASSUME NEW i \in 1 .. k PROVE h[i] = all[m - k + i]
  <2>1. i + 1 \in 1 .. n /\ m - n + (i + 1) = m - k + i
    BY <1>2, <1>5
  <2> QED
    BY <1>3, <1>6, <2>1
<1>8. ASSUME NEW i \in 1 .. m - k PROVE Finished(all[i])'
  <2>1. CASE i \in 1 .. m - n
    <3>1. PICK c : c = all[i]
      OBVIOUS
    <3>2. Finished(c)
      BY <1>3, <2>1, <3>1
    <3>3. Finished(c)'
      BY <3>2
    <3>4. Finished(c)' = Finished(all[i])'
      BY <3>1
    <3> QED
      BY <3>3, <3>4
  <2>2. CASE i \notin 1 .. m - n
    <3>1. i = m - n + 1 /\ 1 \in 1 .. n
      BY <1>2, <1>5, <2>2
    <3>2. all[i] = g[1]
      BY <1>3, <3>1
    <3>3. all[i] = grid[1] => Finished(all[i])'
      OBVIOUS
    <3> QED
      BY <1>1, <3>2, <3>3
  <2> QED
    BY <2>1, <2>2
<1>9. k <= m
  BY <1>2, <1>3, <1>5
<1>10. grid' = h /\ Len(grid') = k /\ BuildGrid(flags)' = all
  BY <1>1, <1>4, <1>5, <1>6
<1> QED
  BY <1>1, <1>4, <1>6, <1>7, <1>8, <1>9, <1>10 DEF GridInv

\* A step that leaves the grid alone leaves what is in front of it.
LEMMA GridStays ==
  ASSUME GridInv, grid' = grid, flags' = flags, \A c : Finished(c) => Finished(c)',
         pc' \in {"config", "row", "measure", "write", "written", "last", "writtenLast", "done", "crashed"},
         pc' \in {"last", "writtenLast", "done"} => grid = <<>>,
         pc' \in {"row", "measure", "write", "written"} =>
           /\ grid # <<>>
           /\ \A d \in ToSet(ConfigDepths(grid[1])) :
                HasRow(grid[1], d)' \/ d \in ToSet(depths') \/ (pc' = "measure" /\ d = row'.depth)
  PROVE  GridInv'
<1>1. PICK all, g : all = BuildGrid(flags) /\ g = grid
  OBVIOUS
<1>2. BuildGrid(flags)' = all
  <2>1. BuildGrid(flags') = all
    BY <1>1
  <2> QED
    BY <2>1
<1>3. \A c : ConfigDepths(c)' = ConfigDepths(c)
  BY DEF ConfigDepths
<1>4. /\ Len(g) <= Len(all)
      /\ \A i \in 1 .. Len(g) : g[i] = all[Len(all) - Len(g) + i]
      /\ \A i \in 1 .. Len(all) - Len(g) : Finished(all[i])
  BY <1>1 DEF GridInv
<1>5. \A i \in 1 .. Len(all) - Len(g) : Finished(all[i])'
  BY <1>4
<1>6. ASSUME pc' \in {"row", "measure", "write", "written"}
      PROVE  /\ grid' # <<>>
             /\ \A d \in ToSet(ConfigDepths(grid[1]))' :
                  HasRow(grid[1], d)' \/ d \in ToSet(depths') \/ (pc' = "measure" /\ d = row'.depth)
  <2>1. ToSet(ConfigDepths(grid[1]))' = ToSet(ConfigDepths(grid[1]))
    <3>1. ConfigDepths(grid[1])' = ConfigDepths(grid[1])
      BY DEF ConfigDepths
    <3> QED
      BY <3>1
  <2> QED
    BY <1>6, <2>1
<1>7. grid' = g
  BY <1>1
<1> QED
  BY <1>2, <1>4, <1>5, <1>6, <1>7 DEF GridInv

LEMMA GridInvNext ==
  ASSUME SweepTypes, MeasureInv, GridInv, SweepNext \/ UNCHANGED sweepVars
  PROVE  GridInv'
<1>1. flags' = flags /\ told \subseteq told' /\ \A c, d : HasRow(c, d) => HasRow(c, d)'
  BY StillThere
<1>2. \A c : Finished(c) => Finished(c)'
  BY <1>1, StillThrough
<1>3. \A c : ConfigDepths(c)' = ConfigDepths(c)
  BY <1>1 DEF ConfigDepths
<1>4. CASE SkipConfig
  <2>1. grid # <<>> /\ grid' = Tail(grid) /\ pc' = "config" /\ \A c : c = grid[1] => c \in told'
    BY <1>4 DEF SkipConfig
  <2>2. \A c : c = grid[1] => Finished(c)'
    BY <2>1 DEF Finished
  <2> QED
    BY <1>1, <1>2, <2>1, <2>2, GridForward
<1>5. CASE NextConfig
  <2>1. grid # <<>> /\ grid' = Tail(grid) /\ pc = "row" /\ pc' = "config" /\ depths = <<>>
    BY <1>5 DEF NextConfig, GridInv
  <2>2. ToSet(depths) = {}
    <3>1. PICK e : e = depths
      OBVIOUS
    <3>2. e = <<>>
      BY <2>1, <3>1
    <3> QED
      BY <3>1, <3>2 DEF ToSet
  <2>3. \A d \in ToSet(ConfigDepths(grid[1])) : HasRow(grid[1], d)
    BY <2>1, <2>2 DEF GridInv
  <2>4. \A c : c = grid[1] => Finished(c)'
    <3> SUFFICES ASSUME NEW c, c = grid[1] PROVE Finished(c)'
      OBVIOUS
    <3>1. Finished(c)
      BY <2>3 DEF Finished
    <3> QED
      BY <1>2, <3>1
  <2> QED
    BY <1>1, <1>2, <2>1, <2>4, GridForward
<1>6. CASE Configure
  <2>1. /\ grid # <<>> /\ grid' = grid /\ pc' = "row"
        /\ depths' = ConfigDepths(grid[1])
    BY <1>6 DEF Configure
  <2>2. \A d \in ToSet(ConfigDepths(grid[1])) : d \in ToSet(depths')
    BY <2>1
  <2> QED
    BY <1>1, <1>2, <2>1, <2>2, GridStays
<1>7. CASE StartRow
  <2>1. PICK e, h : e = depths /\ h = Tail(depths)
    OBVIOUS
  <2>2. /\ grid # <<>> /\ grid' = grid /\ pc = "row" /\ pc' = "measure" /\ e # <<>>
        /\ depths' = h /\ row'.depth = e[1] /\ e \in Seq(Nat)
    BY <1>7, <2>1 DEF StartRow, SweepTypes, GridInv
  <2>3. \A d \in ToSet(e) : d = e[1] \/ d \in ToSet(h)
    <3> SUFFICES ASSUME NEW d \in ToSet(e), d # e[1] PROVE d \in ToSet(h)
      OBVIOUS
    <3>1. PICK i \in 1 .. Len(e) : e[i] = d
      BY <2>2 DEF ToSet
    <3>2. Len(h) = Len(e) - 1 /\ h \in Seq(Nat) /\ i - 1 \in 1 .. Len(e) - 1 /\ h[i - 1] = e[i]
      BY <2>1, <2>2, <3>1
    <3> QED
      BY <3>1, <3>2 DEF ToSet
  <2>4. ASSUME NEW d \in ToSet(ConfigDepths(grid[1]))
        PROVE  HasRow(grid[1], d)' \/ d \in ToSet(depths') \/ (pc' = "measure" /\ d = row'.depth)
    <3>1. HasRow(grid[1], d) \/ d \in ToSet(depths)
      BY <2>2 DEF GridInv
    <3>2. PICK c : c = grid[1]
      OBVIOUS
    <3>3. HasRow(c, d) => HasRow(c, d)'
      BY <1>1
    <3>4. HasRow(c, d)' => HasRow(grid[1], d)'
      BY <2>2, <3>2
    <3> QED
      BY <2>1, <2>2, <2>3, <3>1, <3>2, <3>3, <3>4
  <2> QED
    BY <1>1, <1>2, <2>2, <2>4, GridStays
<1>8. CASE Record
  <2>1. /\ grid' = grid /\ pc = "measure" /\ pc' = "write" /\ depths' = depths
        /\ grid # <<>> /\ row.m = grid[1]
    BY <1>8 DEF Record, MeasureInv
  <2>2. ASSUME NEW d \in ToSet(ConfigDepths(grid[1]))
        PROVE  HasRow(grid[1], d)' \/ d \in ToSet(depths') \/ (pc' = "measure" /\ d = row'.depth)
    <3>1. HasRow(grid[1], d) \/ d \in ToSet(depths) \/ d = row.depth
      BY <2>1 DEF GridInv
    <3>2. PICK c : c = grid[1]
      OBVIOUS
    <3>3. HasRow(c, d) => HasRow(c, d)'
      BY <1>1
    <3>4. HasRow(c, d)' => HasRow(grid[1], d)'
      BY <2>1, <3>2
    <3>5. d = row.depth => HasRow(grid[1], d)'
      <4>1. PICK b, e : b = row.m /\ e = row.depth
        OBVIOUS
      <4>2. HasRow(row.m, row.depth)' /\ row' = row
        BY <1>8, StillThere DEF Record
      <4>3. HasRow(b, e)'
        BY <4>1, <4>2 DEF HasRow
      <4>4. d = row.depth => d = e /\ c = b
        BY <2>1, <3>2, <4>1
      <4> QED
        BY <3>4, <4>3, <4>4
    <3> QED
      BY <2>1, <3>1, <3>2, <3>3, <3>4, <3>5
  <2> QED
    BY <1>1, <1>2, <2>1, <2>2, GridStays
<1>9. CASE PrintBest \/ Crash
  <2>1. /\ grid' = grid /\ pc' \in {"last", "crashed"}
        /\ pc' = "last" => grid = <<>>
    BY <1>9 DEF PrintBest, Crash
  <2> QED
    BY <1>1, <1>2, <2>1, GridStays
<1>10. CASE Measure \/ MeasureFails \/ WriteTmp \/ Written \/ Rename \/ WriteFails \/ UNCHANGED sweepVars
  <2>1. /\ grid' = grid /\ depths' = depths /\ row'.depth = row.depth
        /\ (pc' = "measure") <=> (pc = "measure")
    BY <1>10 DEF Measure, MeasureFails, WriteTmp, Written, Rename, WriteFails, Resume, sweepVars, SweepTypes
  <2>2. /\ pc' \in {"row", "measure", "write", "written"} => pc \in {"row", "measure", "write", "written"}
        /\ pc' \in {"last", "writtenLast", "done"} => pc \in {"last", "writtenLast", "done"}
        /\ pc \in {"config", "row", "measure", "write", "written", "last", "writtenLast", "done", "crashed"} =>
             pc' \in {"config", "row", "measure", "write", "written", "last", "writtenLast", "done", "crashed"}
    BY <1>10 DEF Measure, MeasureFails, WriteTmp, Written, Rename, WriteFails, Resume, sweepVars
  <2>3. /\ pc' \in {"config", "row", "measure", "write", "written", "last", "writtenLast", "done", "crashed"}
        /\ pc' \in {"last", "writtenLast", "done"} => grid = <<>>
        /\ pc' \in {"row", "measure", "write", "written"} => grid # <<>>
    BY <2>2 DEF GridInv
  <2>4. ASSUME pc' \in {"row", "measure", "write", "written"}, NEW d \in ToSet(ConfigDepths(grid[1]))
        PROVE  HasRow(grid[1], d)' \/ d \in ToSet(depths') \/ (pc' = "measure" /\ d = row'.depth)
    <3>1. HasRow(grid[1], d) \/ d \in ToSet(depths) \/ (pc = "measure" /\ d = row.depth)
      BY <2>2, <2>4 DEF GridInv
    <3>2. PICK c : c = grid[1]
      OBVIOUS
    <3>3. HasRow(c, d) => HasRow(c, d)'
      BY <1>1
    <3>4. HasRow(c, d)' => HasRow(grid[1], d)'
      BY <2>1, <3>2
    <3> QED
      BY <2>1, <3>1, <3>2, <3>3, <3>4
  <2> QED
    BY <1>1, <1>2, <2>1, <2>3, <2>4, GridStays
<1> QED
  BY <1>4, <1>5, <1>6, <1>7, <1>8, <1>9, <1>10 DEF SweepNext

---------------------------------------------------------------------------

SweepInv == SweepTypes /\ RowsHonest /\ RatesFit /\ MeasureInv /\ SkipInv /\ GridInv /\ BestInv /\ FileInv

LEMMA SweepInvInit ==
  ASSUME SweepInit
  PROVE  SweepInv
<1>1. SweepTypes /\ GridInv
  BY SweepTypesInit, GridInvInit
<1>2. PICK r, f : r = rows /\ f = file
  OBVIOUS
<1>3. r = <<>> /\ f = <<>> /\ failedAt = 0 /\ told = {} /\ pc = "config"
  BY <1>2 DEF SweepInit
<1>4. DOMAIN r = {} /\ Len(r) = 0 /\ Len(f) = 0 /\ f \in Seq(TableRows) /\ 1 .. 0 = {}
  BY <1>3
<1>5. RowsHonest /\ RatesFit
  <2>1. PICK n : n = runs
    OBVIOUS
  <2>2. n = <<>> /\ DOMAIN n = {}
    BY <2>1 DEF SweepInit
  <2> QED
    BY <1>2, <1>4, <2>1, <2>2 DEF RowsHonest, RatesFit
<1>6. MeasureInv
  BY <1>3 DEF MeasureInv
<1>7. SkipInv
  BY <1>3 DEF SkipInv
<1>8. BestInv
  BY <1>3 DEF BestInv
<1>9. FileInv
  BY <1>2, <1>3, <1>4 DEF FileInv
<1> QED
  BY <1>1, <1>5, <1>6, <1>7, <1>8, <1>9 DEF SweepInv

LEMMA SweepInvNext ==
  ASSUME SweepInv, SweepNext \/ UNCHANGED sweepVars
  PROVE  SweepInv'
<1>1. SweepTypes /\ RowsHonest /\ RatesFit /\ MeasureInv /\ SkipInv /\ GridInv /\ BestInv /\ FileInv
  BY DEF SweepInv
<1>2. SweepTypes'
  BY <1>1, SweepTypesNext
<1>3. RowsHonest' /\ RatesFit' /\ MeasureInv'
  BY <1>1, RowsHonestNext, RatesFitNext, MeasureInvNext
<1>4. SkipInv' /\ GridInv'
  BY <1>1, SkipInvNext, GridInvNext
<1>5. BestInv' /\ FileInv'
  BY <1>1, BestInvNext, FileInvNext
<1> QED
  BY <1>2, <1>3, <1>4, <1>5 DEF SweepInv

LEMMA SweepInvSound ==
  ASSUME SweepInv
  PROVE  RowsHonest /\ TableWhole /\ RatesFit /\ FileIsPrefix
<1>1. SweepTypes /\ SkipInv /\ GridInv /\ BestInv /\ FileInv
  BY DEF SweepInv
<1>2. RowsHonest /\ RatesFit
  BY DEF SweepInv
<1>3. TableWhole
  <2> SUFFICES ASSUME pc = "done"
               PROVE  /\ \A i \in DOMAIN BuildGrid(flags) : Finished(BuildGrid(flags)[i])
                      /\ \A m \in told : \E j \in DOMAIN rows : rows[j].rate = 0 /\ rows[j].m.streams <= m.streams
                      /\ IF best = 0 THEN \A j \in DOMAIN rows : rows[j].rate = 0
                         ELSE \A j \in DOMAIN rows : rows[j].rate <= rows[best].rate
    BY DEF TableWhole, Finished, HasRow
  <2>1. PICK all, g, n : all = BuildGrid(flags) /\ g = grid /\ n = Len(all)
    OBVIOUS
  <2>2. g = <<>> /\ \A i \in 1 .. n - Len(g) : Finished(all[i])
    BY <1>1, <2>1 DEF GridInv
  <2>3. all \in Seq(Configs)
    BY <1>1, <2>1, GridFacts DEF SweepTypes
  <2>4. DOMAIN all = 1 .. n /\ n \in Nat /\ Len(g) = 0
    BY <2>1, <2>2, <2>3
  <2>5. \A i \in DOMAIN all : Finished(all[i])
    BY <2>2, <2>4
  <2>6. \A m \in told : \E j \in DOMAIN rows : rows[j].rate = 0 /\ rows[j].m.streams <= m.streams
    BY <1>1 DEF SkipInv
  <2>7. IF best = 0 THEN \A j \in DOMAIN rows : rows[j].rate = 0
        ELSE \A j \in DOMAIN rows : rows[j].rate <= rows[best].rate
    BY <1>1 DEF BestInv
  <2> QED
    BY <2>1, <2>5, <2>6, <2>7
<1>4. FileIsPrefix
  <2>1. PICK f, r, k, n : f = file /\ r = rows /\ k = Len(f) /\ n = Len(r)
    OBVIOUS
  <2>2. f \in Seq(TableRows) /\ r \in Seq(TableRows) /\ k <= n /\ \A i \in 1 .. k : f[i] = r[i]
    BY <1>1, <2>1 DEF FileInv, SweepTypes
  <2>3. k \in Nat /\ n \in Nat
    BY <2>1, <2>2
  <2>4. PICK a, b : a = SubSeq(f, 1, k) /\ b = SubSeq(r, 1, k)
    OBVIOUS
  <2>5. a \in Seq(TableRows) /\ Len(a) = k /\ \A i \in 1 .. k : a[i] = f[i]
    BY <2>1, <2>2, <2>3, <2>4
  <2>6. b \in Seq(TableRows) /\ Len(b) = k /\ \A i \in 1 .. k : b[i] = r[i]
    BY <2>1, <2>2, <2>3, <2>4
  <2>7. a = b
    BY <2>2, <2>5, <2>6, SeqEqual
  <2>8. IsPrefix(f, r)
    BY <2>1, <2>2, <2>4, <2>7 DEF IsPrefix
  <2> QED
    BY <2>1, <2>8 DEF FileIsPrefix
<1> QED
  BY <1>2, <1>3, <1>4

---------------------------------------------------------------------------
(* The theorems.                                                             *)

\* A behaviour of one part is one of its own next-state relation.
LEMMA CommandPart ==
  ASSUME [Next]_vars
  PROVE  /\ part' = part
         /\ part = "vcontext" => VcontextNext \/ UNCHANGED vcontextVars
         /\ part = "sweep" => SweepNext \/ UNCHANGED sweepVars
<1>1. CASE Next
  BY <1>1 DEF Next
<1>2. CASE UNCHANGED vars
  BY <1>2 DEF vars
<1> QED
  BY <1>1, <1>2

\* What every state of the vcontext command has.
DocumentInv == ChunksInv /\ AnswerInv /\ BridgesInv /\ SelectInv

LEMMA DocumentInvInit ==
  ASSUME VcontextInit
  PROVE  DocumentInv
BY ChunksInvInit, AnswerInvInit, BridgesInvInit, SelectInvInit DEF DocumentInv

LEMMA DocumentInvNext ==
  ASSUME DocumentInv, VcontextNext \/ UNCHANGED vcontextVars
  PROVE  DocumentInv'
<1>1. ChunksInv /\ AnswerInv /\ BridgesInv /\ SelectInv
  BY DEF DocumentInv
<1>2. ChunksInv' /\ BridgesInv' /\ SelectInv'
  BY <1>1, ChunksInvNext, BridgesInvNext, SelectInvNext
<1>3. AnswerInv'
  BY <1>1, <1>2, AnswerInvNext
<1> QED
  BY <1>2, <1>3 DEF DocumentInv

LEMMA DocumentInvAlways == Spec => [](part = "vcontext" => DocumentInv)
<1> DEFINE I == part = "vcontext" => DocumentInv
<1>1. Init => I
  BY DocumentInvInit DEF Init
<1>2. I /\ [Next]_vars => I'
  BY CommandPart, DocumentInvNext
<1> QED
  BY <1>1, <1>2, PTL DEF Spec

\* Merge and Dispatch (merge.go:99-158, dispatch.go:84-159): an answer that is printed is
\* one about the whole document, whatever the streams answer and in whichever order they
\* finish or fail.
THEOREM AnsweredWhole == Spec => []MergedIsWhole
<1>1. (part = "vcontext" => DocumentInv) => MergedIsWhole
  BY AnswerInvSound DEF DocumentInv, MergedIsWhole
<1> QED
  BY <1>1, DocumentInvAlways, PTL

\* SplitAt, AddOverlap, PlanBridges, SegmentAll and Select (split.go:98-208, overlap.go:41-63,
\* bridge.go:95-170, segment.go:18-123, select.go:57-160): whatever the document and the
\* policy, the chunks lose nothing but blanks, fit their streams and end in no runt unless
\* blanks were dropped in front of it, what repairs a cut is the text on its sides, and the
\* worst cuts are the ones repaired; and a question is answered from passages of the document
\* in their order and within the budget, the best of them among them, with every gap marked
\* and every omission told.
THEOREM DocumentsWhole == Spec => []DocumentsSound
<1>1. (part = "vcontext" => DocumentInv) => DocumentsSound
  BY SplitInvSound DEF DocumentInv, SelectInv, DocumentsSound
<1> QED
  BY <1>1, DocumentInvAlways, PTL

\* sweep (sweep.go:34-325): whatever the flags and whatever is measured, and wherever the
\* sweep is cut short, no row is a bare zero, nothing of the grid is left out silently,
\* a rate is of a prompt that fits beside the tokens asked for, unless its depth made it
\* generate more of them, and the file holds rows that were measured.
THEOREM SweptWhole == Spec => []SweepPromise
<1> DEFINE I == part = "sweep" => SweepInv
<1>1. Init => I
  BY SweepInvInit DEF Init
<1>2. I /\ [Next]_vars => I'
  BY CommandPart, SweepInvNext
<1>3. I => SweepPromise
  BY SweepInvSound DEF SweepPromise
<1> QED
  BY <1>1, <1>2, <1>3, PTL DEF Spec
===============================================================================
