----------------------- MODULE OpportunityAdviceProofs ----------------------
(***************************************************************************)
(* Proofs about StakePlanning and OpportunityAdvice for every market,      *)
(* price, policy and quote.                                                *)
(***************************************************************************)
EXTENDS OpportunityAdvice, FiniteSetTheorems, TLAPS

-----------------------------------------------------------------------------
(* Induction without a predicate: least elements of sets of naturals.      *)

\* A nonempty set of naturals has a least element.
LEMMA LeastNatural ==
  ASSUME NEW T \in SUBSET Nat, T # {}
  PROVE  \E n \in T : \A k \in T : n <= k
  <1> DEFINE initial == {0..n : n \in T}
  <1>1. initial \subseteq FiniteSubsetsOf(Nat)
    <2> SUFFICES ASSUME NEW n \in T PROVE 0..n \in FiniteSubsetsOf(Nat)
      OBVIOUS
    <2>1. n \in Int /\ 0 \in Int
      OBVIOUS
    <2>2. IsFiniteSet(0..n)
      BY <2>1, FS_Interval
    <2> QED
      BY <2>2 DEF FiniteSubsetsOf
  <1>2. initial # {}
    OBVIOUS
  <1>3. IsWellFoundedOn(StrictSubsetOrdering(Nat), FiniteSubsetsOf(Nat))
    BY FS_StrictSubsetOrderingWellFounded
  <1> HIDE DEF initial
  <1>4. PICK x \in initial : \A y \in initial : <<y, x>> \notin StrictSubsetOrdering(Nat)
    BY <1>1, <1>2, <1>3, WFMin
  <1>5. PICK n \in T : x = 0..n
    BY <1>4 DEF initial
  <1>6. ASSUME NEW k \in T, k < n PROVE FALSE
    <2>1. 0..k \in initial
      BY DEF initial
    <2>2. <<0..k, 0..n>> \in (SUBSET Nat) \X (SUBSET Nat)
      OBVIOUS
    <2>3. 0..k \subseteq 0..n /\ 0..k # 0..n
      BY <1>6
    <2>4. <<0..k, x>> \in StrictSubsetOrdering(Nat)
      BY <2>2, <2>3, <1>5 DEF StrictSubsetOrdering
    <2> QED
      BY <1>4, <2>1, <2>4
  <1> QED
    BY <1>5, <1>6

\* Min of a nonempty set of naturals is its least element.
LEMMA MinOfNaturals ==
  ASSUME NEW T \in SUBSET Nat, T # {}
  PROVE  Min(T) \in T /\ \A k \in T : Min(T) <= k
  BY LeastNatural DEF Min

\* Max of a nonempty bounded set of naturals is its greatest element.
LEMMA MaxOfNaturals ==
  ASSUME NEW T \in SUBSET Nat, T # {}, NEW b \in Nat, \A k \in T : k <= b
  PROVE  Max(T) \in T /\ \A k \in T : k <= Max(T)
  <1> DEFINE distance == {b - k : k \in T}
  <1>0. \A k \in T : k \in Nat /\ k <= b /\ b - k \in Nat
    OBVIOUS
  <1>1. distance \in SUBSET Nat
    BY <1>0
  <1>a. distance # {}
    OBVIOUS
  <1> HIDE DEF distance
  <1>2. PICK d \in distance : \A x \in distance : d <= x
    BY <1>1, <1>a, LeastNatural
  <1>3. PICK n \in T : d = b - n
    BY <1>2 DEF distance
  <1>4. ASSUME NEW k \in T PROVE k <= n
    <2>1. b - k \in distance
      BY DEF distance
    <2> QED
      BY <1>2, <1>3, <2>1
  <1> QED
    BY <1>4 DEF Max

Larger(a, b) == Max({a, b})

\* Max of two numbers is one of them and not below either.
LEMMA MaxOfTwo ==
  ASSUME NEW a \in Int, NEW b \in Int
  PROVE  /\ Larger(a, b) \in {a, b}
         /\ Larger(a, b) >= a /\ Larger(a, b) >= b
  <1>1. \E x \in {a, b} : \A y \in {a, b} : x >= y
    OBVIOUS
  <1> QED
    BY <1>1 DEF Larger, Max

\* A product with a larger factor is larger.
LEMMA TimesMonotone ==
  ASSUME NEW a \in Int, NEW b \in Int, NEW k \in Nat, a >= b
  PROVE  a * k >= b * k
  <1>1. (a - b) * k >= 0
    OBVIOUS
  <1>2. (a - b) * k = a * k - b * k
    OBVIOUS
  <1> QED
    BY <1>1, <1>2

-----------------------------------------------------------------------------
(* Sums and products over finite sets.                                     *)

Pick(s) == CHOOSE x \in s : TRUE

\* The sum and the product of the values of a over S.
SumOf(a, S) == MapThenSumSet(LAMBDA x : a[x], S)
ProductOf(a, S) ==
  MapThenFoldSet(LAMBDA x, y : x * y, 1, LAMBDA s : a[s], LAMBDA T : CHOOSE s \in T : TRUE, S)

\* Pick takes an element out of a set.
LEMMA PickIsElement ==
  ASSUME NEW S, NEW s \in SUBSET S, s # {}
  PROVE  Pick(s) \in s /\ Pick(s) \in S /\ s \ {Pick(s)} \in SUBSET S
  BY DEF Pick

\* A set of subsets of a finite set has a minimal element: the form in which
\* induction over finite sets is used here.
LEMMA MinimalSubset ==
  ASSUME NEW S, IsFiniteSet(S), NEW T \in SUBSET (SUBSET S), T # {}
  PROVE  \E s \in T : \A u \in T : ~(u \subseteq s /\ u # s)
  <1>1. IsWellFoundedOn(StrictSubsetOrdering(S), SUBSET S)
    BY FS_StrictSubsetOrderingWellFounded, FS_FiniteSubsetsOfFinite
  <1>2. PICK s \in T : \A u \in T : ~(<<u, s>> \in StrictSubsetOrdering(S))
    BY <1>1, WFMin
  <1>3. ASSUME NEW u \in T, u \subseteq s, u # s PROVE FALSE
    <2>1. <<u, s>> \in StrictSubsetOrdering(S)
      BY <1>3 DEF StrictSubsetOrdering
    <2> QED BY <1>2, <2>1
  <1> QED BY <1>3

\* The functions on the subsets of S that stop at some with a value, and combine
\* the value of others with that of a smaller subset.
Descents(S, V, stop, value, smaller, combine) ==
  {f \in [SUBSET S -> V] : \A s \in SUBSET S :
     f[s] = IF s \in stop THEN value[s] ELSE combine[<<s, f[smaller[s]]>>]}

\* A recursion that descends in the subsets of a finite set has a solution: one
\* on the subsets of n elements extends to those of n + 1. It stops at some
\* subsets with a value, and combines the value of others with that of a
\* smaller subset.
LEMMA DescentExists ==
  ASSUME NEW S, IsFiniteSet(S), NEW V, NEW stop \in SUBSET (SUBSET S),
         NEW value \in [SUBSET S -> V], NEW smaller \in [SUBSET S -> SUBSET S],
         NEW combine \in [(SUBSET S) \X V -> V],
         \A s \in SUBSET S : s \notin stop => smaller[s] \subseteq s /\ smaller[s] # s
  PROVE  Descents(S, V, stop, value, smaller, combine) # {}
  <1> DEFINE upto(n) == {s \in SUBSET S : Cardinality(s) <= n}
             obeys(n) == \E f \in [upto(n) -> V] : \A s \in upto(n) :
                           f[s] = IF s \in stop THEN value[s] ELSE combine[<<s, f[smaller[s]]>>]
             failing == {n \in Nat : ~obeys(n)}
  <1>1. \A s \in SUBSET S : IsFiniteSet(s) /\ Cardinality(s) \in Nat /\ Cardinality(s) <= Cardinality(S)
    BY FS_Subset, FS_CardinalityType
  <1>2. ASSUME NEW s \in SUBSET S, s \notin stop PROVE Cardinality(smaller[s]) < Cardinality(s)
    BY <1>1, <1>2, FS_Subset
  <1>3. \A s \in SUBSET S : Cardinality(s) = 0 => s = {}
    BY <1>1, FS_EmptySet
  <1>4. obeys(0)
    <2> DEFINE f == [s \in upto(0) |-> value[s]]
    <2>1. ASSUME NEW s \in upto(0) PROVE s \in stop
      <3>1. s = {}
        BY <1>1, <1>3
      <3>2. smaller[s] \in SUBSET S /\ ~(smaller[s] \subseteq {} /\ smaller[s] # {})
        OBVIOUS
      <3> QED BY <3>1, <3>2
    <2>2. f \in [upto(0) -> V]
      OBVIOUS
    <2> QED BY <2>1, <2>2
  <1>5. ASSUME NEW n \in Nat, obeys(n) PROVE obeys(n + 1)
    <2> PICK f \in [upto(n) -> V] : \A s \in upto(n) :
          f[s] = IF s \in stop THEN value[s] ELSE combine[<<s, f[smaller[s]]>>]
      BY <1>5
    <2> DEFINE g == [s \in upto(n + 1) |->
                       IF s \in stop THEN value[s] ELSE combine[<<s, f[smaller[s]]>>]]
    <2>1. \A s \in upto(n + 1) : s \notin stop => smaller[s] \in upto(n)
      BY <1>1, <1>2
    <2>2. g \in [upto(n + 1) -> V]
      BY <2>1
    <2>3. \A s \in upto(n) : s \in upto(n + 1) /\ g[s] = f[s]
      BY <1>1
    <2>4. \A s \in upto(n + 1) :
            g[s] = IF s \in stop THEN value[s] ELSE combine[<<s, g[smaller[s]]>>]
      BY <2>1, <2>3
    <2> HIDE DEF g
    <2> QED BY <2>2, <2>4
  <1>6. obeys(Cardinality(S))
    <2> SUFFICES ASSUME failing # {} PROVE FALSE
      BY <1>1
    <2> HIDE DEF obeys
    <2>1. PICK n \in failing : \A k \in failing : n <= k
      BY LeastNatural
    <2>2. n # 0 /\ n \in Nat
      BY <1>4
    <2>3. n - 1 \in Nat /\ n - 1 \notin failing
      BY <2>1, <2>2
    <2>4. obeys((n - 1) + 1)
      BY <1>5, <2>3
    <2>5. (n - 1) + 1 = n
      BY <2>2
    <2> QED BY <2>1, <2>4, <2>5
  <1>7. upto(Cardinality(S)) = SUBSET S
    BY <1>1
  <1> QED BY <1>6, <1>7 DEF Descents

\* The sum over each subset of S, by the recursion that defines it.
SumFunctions(a, S) ==
  {f \in [SUBSET S -> Int] : \A s \in SUBSET S :
     /\ f[s] = SumOf(a, s)
     /\ f[s] = IF s = {} THEN 0 ELSE a[Pick(s)] + f[s \ {Pick(s)}]}

\* The sum over a finite set obeys the recursion that defines it, on all subsets at once.
LEMMA SumUnfolds ==
  ASSUME NEW S, IsFiniteSet(S), NEW a, \A x \in S : a[x] \in Int
  PROVE  SumFunctions(a, S) # {}
  <1> DEFINE stop == {{}}
             value == [s \in SUBSET S |-> 0]
             smaller == [s \in SUBSET S |-> s \ {Pick(s)}]
             combine == [p \in (SUBSET S) \X Int |-> IF p[1] = {} THEN 0 ELSE a[Pick(p[1])] + p[2]]
             iter(T) == CHOOSE f : f = [s \in SUBSET T |->
                          IF s = {} THEN 0 ELSE a[Pick(s)] + f[s \ {Pick(s)}]]
  <1>1. \A s \in SUBSET S : s # {} => Pick(s) \in s /\ s \ {Pick(s)} \in SUBSET S /\ a[Pick(s)] \in Int
    BY PickIsElement
  <1>2. stop \in SUBSET (SUBSET S) /\ value \in [SUBSET S -> Int] /\ smaller \in [SUBSET S -> SUBSET S]
    OBVIOUS
  <1>3. combine \in [(SUBSET S) \X Int -> Int]
    <2>1. \A p \in (SUBSET S) \X Int : (IF p[1] = {} THEN 0 ELSE a[Pick(p[1])] + p[2]) \in Int
      BY <1>1
    <2> QED BY <2>1
  <1>4. \A s \in SUBSET S : s \notin stop => smaller[s] \subseteq s /\ smaller[s] # s
    BY <1>1
  <1>5. \A s \in SUBSET S, v \in Int : s # {} => combine[<<s, v>>] = a[Pick(s)] + v
    OBVIOUS
  <1>6. PICK f \in [SUBSET S -> Int] : \A s \in SUBSET S :
          f[s] = IF s \in stop THEN value[s] ELSE combine[<<s, f[smaller[s]]>>]
    <2> HIDE DEF stop, value, smaller, combine
    <2>1. Descents(S, Int, stop, value, smaller, combine) # {}
      BY <1>2, <1>3, <1>4, DescentExists
    <2> QED BY <2>1 DEF Descents
  <1>7. \A s \in SUBSET S : f[s] = IF s = {} THEN 0 ELSE a[Pick(s)] + f[s \ {Pick(s)}]
    <2> SUFFICES ASSUME NEW s \in SUBSET S
                 PROVE  f[s] = IF s = {} THEN 0 ELSE a[Pick(s)] + f[s \ {Pick(s)}]
      OBVIOUS
    <2>1. CASE s = {}
      BY <1>6, <2>1
    <2>2. CASE s # {}
      <3>1. smaller[s] = s \ {Pick(s)} /\ s \notin stop /\ f[smaller[s]] \in Int
        BY <1>1, <2>2
      <3>2. f[s] = combine[<<s, f[smaller[s]]>>]
        BY <1>6, <3>1
      <3> HIDE DEF combine, smaller
      <3> QED BY <1>5, <2>2, <3>1, <3>2
    <2> QED BY <2>1, <2>2
  <1>8. ASSUME NEW T \in SUBSET S PROVE SumOf(a, T) = f[T]
    <2>1. SumOf(a, T) = iter(T)[T]
      BY DEF SumOf, MapThenSumSet, MapThenFoldSet, Pick
    <2>2. \E g : g = [s \in SUBSET T |-> IF s = {} THEN 0 ELSE a[Pick(s)] + g[s \ {Pick(s)}]]
      <3> DEFINE g == [s \in SUBSET T |-> f[s]]
      <3>1. \A s \in SUBSET T : g[s] = IF s = {} THEN 0 ELSE a[Pick(s)] + g[s \ {Pick(s)}]
        BY <1>7
      <3>2. g = [s \in SUBSET T |-> g[s]]
        OBVIOUS
      <3> HIDE DEF g
      <3>3. g = [s \in SUBSET T |-> IF s = {} THEN 0 ELSE a[Pick(s)] + g[s \ {Pick(s)}]]
        BY <3>1, <3>2
      <3> QED BY <3>3
    <2>3. iter(T) = [s \in SUBSET T |->
                      IF s = {} THEN 0 ELSE a[Pick(s)] + iter(T)[s \ {Pick(s)}]]
      BY <2>2
    <2> DEFINE i == iter(T)
               bad == {s \in SUBSET T : i[s] # f[s]}
    <2>4. \A s \in SUBSET T : i[s] = IF s = {} THEN 0 ELSE a[Pick(s)] + i[s \ {Pick(s)}]
      BY <2>3
    <2> HIDE DEF i, iter
    <2>5. SUFFICES ASSUME bad # {} PROVE FALSE
      BY <2>1 DEF i
    <2>6. bad \in SUBSET (SUBSET T) /\ IsFiniteSet(T)
      BY FS_Subset
    <2>7. PICK s \in bad : \A u \in bad : ~(u \subseteq s /\ u # s)
      <3> HIDE DEF bad
      <3> QED BY <2>5, <2>6, MinimalSubset
    <2>8. s \in SUBSET T /\ s \in SUBSET S /\ i[s] # f[s]
      BY <2>7
    <2>9. s # {}
      BY <1>7, <2>4, <2>8
    <2>10. Pick(s) \in s /\ s \ {Pick(s)} \in SUBSET T /\ s \ {Pick(s)} # s
      BY <2>8, <2>9, <1>1
    <2>11. i[s \ {Pick(s)}] = f[s \ {Pick(s)}]
      BY <2>7, <2>10
    <2> QED BY <1>7, <2>4, <2>8, <2>9, <2>11
  <1> QED BY <1>7, <1>8 DEF SumFunctions

\* Any element may be taken out of a sum first.
LEMMA SumFacts ==
  ASSUME NEW S, IsFiniteSet(S), NEW a, \A x \in S : a[x] \in Int
  PROVE  /\ SumOf(a, {}) = 0
         /\ \A T \in SUBSET S : SumOf(a, T) \in Int
         /\ \A T \in SUBSET S : \A x \in T : SumOf(a, T) = a[x] + SumOf(a, T \ {x})
  <1>0. PICK f \in [SUBSET S -> Int] : \A s \in SUBSET S :
             /\ f[s] = SumOf(a, s)
             /\ f[s] = IF s = {} THEN 0 ELSE a[Pick(s)] + f[s \ {Pick(s)}]
    <2>1. SumFunctions(a, S) # {}
      BY SumUnfolds
    <2> QED BY <2>1 DEF SumFunctions
  <1> DEFINE free(T) == \A x \in T : f[T] = a[x] + f[T \ {x}]
             bad == {T \in SUBSET S : ~free(T)}
  <1>1. SUFFICES ASSUME bad # {} PROVE FALSE
    <2>1. \A T \in SUBSET S : \A x \in T : T \ {x} \in SUBSET S
      OBVIOUS
    <2>2. SumOf(a, {}) = 0
      BY <1>0
    <2>3. \A T \in SUBSET S : free(T)
      BY <1>1
    <2>4. \A T \in SUBSET S : \A x \in T : SumOf(a, T) = a[x] + SumOf(a, T \ {x})
      BY <1>0, <2>1, <2>3
    <2>5. \A T \in SUBSET S : SumOf(a, T) \in Int
      <3>1. \A T \in SUBSET S : f[T] \in Int
        OBVIOUS
      <3> QED BY <1>0, <3>1
    <2> QED BY ONLY <2>2, <2>4, <2>5
  <1> HIDE DEF free
  <1>2. PICK T \in bad : \A u \in bad : ~(u \subseteq T /\ u # T)
    <2>1. bad \in SUBSET (SUBSET S)
      OBVIOUS
    <2> HIDE DEF bad
    <2> QED BY <1>1, <2>1, MinimalSubset
  <1>3. PICK x \in T : f[T] # a[x] + f[T \ {x}]
    BY <1>2 DEF free
  <1> DEFINE y == Pick(T)
             R == (T \ {x}) \ {y}
  <1>4. T \in SUBSET S /\ y \in T /\ f[T] = a[y] + f[T \ {y}]
    BY <1>0, <1>2, <1>3, PickIsElement
  <1> HIDE DEF y
  <1>5. x # y
    BY <1>3, <1>4
  <1>6. /\ T \ {x} \in SUBSET S /\ T \ {y} \in SUBSET S /\ R \in SUBSET S
        /\ y \in T \ {x} /\ x \in T \ {y} /\ (T \ {y}) \ {x} = R
    BY <1>3, <1>4, <1>5
  <1>7. free(T \ {x}) /\ free(T \ {y})
    BY <1>2, <1>3, <1>4, <1>6
  <1>8. f[T \ {x}] = a[y] + f[R] /\ f[T \ {y}] = a[x] + f[R]
    BY <1>6, <1>7 DEF free
  <1>9. a[x] \in Int /\ a[y] \in Int /\ f[R] \in Int
    BY <1>3, <1>4, <1>6
  <1> HIDE DEF R
  <1> QED BY <1>3, <1>4, <1>8, <1>9

\* The product over each subset of S, by the recursion that defines it.
ProductFunctions(a, S) ==
  {f \in [SUBSET S -> Int] : \A s \in SUBSET S :
     /\ f[s] = ProductOf(a, s)
     /\ f[s] = IF s = {} THEN 1 ELSE a[Pick(s)] * f[s \ {Pick(s)}]}

\* The product over a finite set obeys the recursion that defines it, on all subsets at once.
LEMMA ProductUnfolds ==
  ASSUME NEW S, IsFiniteSet(S), NEW a, \A x \in S : a[x] \in Int
  PROVE  ProductFunctions(a, S) # {}
  <1> DEFINE stop == {{}}
             value == [s \in SUBSET S |-> 1]
             smaller == [s \in SUBSET S |-> s \ {Pick(s)}]
             combine == [p \in (SUBSET S) \X Int |-> IF p[1] = {} THEN 0 ELSE a[Pick(p[1])] * p[2]]
             iter(T) == CHOOSE f : f = [s \in SUBSET T |->
                          IF s = {} THEN 1 ELSE a[Pick(s)] * f[s \ {Pick(s)}]]
  <1>1. \A s \in SUBSET S : s # {} => Pick(s) \in s /\ s \ {Pick(s)} \in SUBSET S /\ a[Pick(s)] \in Int
    BY PickIsElement
  <1>2. stop \in SUBSET (SUBSET S) /\ value \in [SUBSET S -> Int] /\ smaller \in [SUBSET S -> SUBSET S]
    OBVIOUS
  <1>3. combine \in [(SUBSET S) \X Int -> Int]
    <2>1. \A p \in (SUBSET S) \X Int : (IF p[1] = {} THEN 0 ELSE a[Pick(p[1])] * p[2]) \in Int
      BY <1>1
    <2> QED BY <2>1
  <1>4. \A s \in SUBSET S : s \notin stop => smaller[s] \subseteq s /\ smaller[s] # s
    BY <1>1
  <1>5. \A s \in SUBSET S, v \in Int : s # {} => combine[<<s, v>>] = a[Pick(s)] * v
    OBVIOUS
  <1>6. PICK f \in [SUBSET S -> Int] : \A s \in SUBSET S :
          f[s] = IF s \in stop THEN value[s] ELSE combine[<<s, f[smaller[s]]>>]
    <2> HIDE DEF stop, value, smaller, combine
    <2>1. Descents(S, Int, stop, value, smaller, combine) # {}
      BY <1>2, <1>3, <1>4, DescentExists
    <2> QED BY <2>1 DEF Descents
  <1>7. \A s \in SUBSET S : f[s] = IF s = {} THEN 1 ELSE a[Pick(s)] * f[s \ {Pick(s)}]
    <2> SUFFICES ASSUME NEW s \in SUBSET S
                 PROVE  f[s] = IF s = {} THEN 1 ELSE a[Pick(s)] * f[s \ {Pick(s)}]
      OBVIOUS
    <2>1. CASE s = {}
      BY <1>6, <2>1
    <2>2. CASE s # {}
      <3>1. smaller[s] = s \ {Pick(s)} /\ s \notin stop /\ f[smaller[s]] \in Int
        BY <1>1, <2>2
      <3>2. f[s] = combine[<<s, f[smaller[s]]>>]
        BY <1>6, <3>1
      <3> HIDE DEF combine, smaller
      <3> QED BY <1>5, <2>2, <3>1, <3>2
    <2> QED BY <2>1, <2>2
  <1>8. ASSUME NEW T \in SUBSET S PROVE ProductOf(a, T) = f[T]
    <2>1. ProductOf(a, T) = iter(T)[T]
      BY DEF ProductOf, MapThenFoldSet, Pick
    <2>2. \E g : g = [s \in SUBSET T |-> IF s = {} THEN 1 ELSE a[Pick(s)] * g[s \ {Pick(s)}]]
      <3> DEFINE g == [s \in SUBSET T |-> f[s]]
      <3>1. \A s \in SUBSET T : g[s] = IF s = {} THEN 1 ELSE a[Pick(s)] * g[s \ {Pick(s)}]
        BY <1>7
      <3>2. g = [s \in SUBSET T |-> g[s]]
        OBVIOUS
      <3> HIDE DEF g
      <3>3. g = [s \in SUBSET T |-> IF s = {} THEN 1 ELSE a[Pick(s)] * g[s \ {Pick(s)}]]
        BY <3>1, <3>2
      <3> QED BY <3>3
    <2>3. iter(T) = [s \in SUBSET T |->
                      IF s = {} THEN 1 ELSE a[Pick(s)] * iter(T)[s \ {Pick(s)}]]
      BY <2>2
    <2> DEFINE i == iter(T)
               bad == {s \in SUBSET T : i[s] # f[s]}
    <2>4. \A s \in SUBSET T : i[s] = IF s = {} THEN 1 ELSE a[Pick(s)] * i[s \ {Pick(s)}]
      BY <2>3
    <2> HIDE DEF i, iter
    <2>5. SUFFICES ASSUME bad # {} PROVE FALSE
      BY <2>1 DEF i
    <2>6. bad \in SUBSET (SUBSET T) /\ IsFiniteSet(T)
      BY FS_Subset
    <2>7. PICK s \in bad : \A u \in bad : ~(u \subseteq s /\ u # s)
      <3> HIDE DEF bad
      <3> QED BY <2>5, <2>6, MinimalSubset
    <2>8. s \in SUBSET T /\ s \in SUBSET S /\ i[s] # f[s]
      BY <2>7
    <2>9. s # {}
      BY <1>7, <2>4, <2>8
    <2>10. Pick(s) \in s /\ s \ {Pick(s)} \in SUBSET T /\ s \ {Pick(s)} # s
      BY <2>8, <2>9, <1>1
    <2>11. i[s \ {Pick(s)}] = f[s \ {Pick(s)}]
      BY <2>7, <2>10
    <2> QED BY <1>7, <2>4, <2>8, <2>9, <2>11
  <1> QED BY <1>7, <1>8 DEF ProductFunctions

\* Any element may be taken out of a product first.
LEMMA ProductFacts ==
  ASSUME NEW S, IsFiniteSet(S), NEW a, \A x \in S : a[x] \in Int
  PROVE  /\ ProductOf(a, {}) = 1
         /\ \A T \in SUBSET S : ProductOf(a, T) \in Int
         /\ \A T \in SUBSET S : \A x \in T : ProductOf(a, T) = a[x] * ProductOf(a, T \ {x})
  <1>0. PICK f \in [SUBSET S -> Int] : \A s \in SUBSET S :
             /\ f[s] = ProductOf(a, s)
             /\ f[s] = IF s = {} THEN 1 ELSE a[Pick(s)] * f[s \ {Pick(s)}]
    <2>1. ProductFunctions(a, S) # {}
      BY ProductUnfolds
    <2> QED BY <2>1 DEF ProductFunctions
  <1> DEFINE free(T) == \A x \in T : f[T] = a[x] * f[T \ {x}]
             bad == {T \in SUBSET S : ~free(T)}
  <1>1. SUFFICES ASSUME bad # {} PROVE FALSE
    <2>1. \A T \in SUBSET S : \A x \in T : T \ {x} \in SUBSET S
      OBVIOUS
    <2>2. ProductOf(a, {}) = 1
      BY <1>0
    <2>3. \A T \in SUBSET S : free(T)
      BY <1>1
    <2>4. \A T \in SUBSET S : \A x \in T : ProductOf(a, T) = a[x] * ProductOf(a, T \ {x})
      BY <1>0, <2>1, <2>3
    <2>5. \A T \in SUBSET S : ProductOf(a, T) \in Int
      <3>1. \A T \in SUBSET S : f[T] \in Int
        OBVIOUS
      <3> QED BY <1>0, <3>1
    <2> QED BY ONLY <2>2, <2>4, <2>5
  <1> HIDE DEF free
  <1>2. PICK T \in bad : \A u \in bad : ~(u \subseteq T /\ u # T)
    <2>1. bad \in SUBSET (SUBSET S)
      OBVIOUS
    <2> HIDE DEF bad
    <2> QED BY <1>1, <2>1, MinimalSubset
  <1>3. PICK x \in T : f[T] # a[x] * f[T \ {x}]
    BY <1>2 DEF free
  <1> DEFINE y == Pick(T)
             R == (T \ {x}) \ {y}
  <1>4. T \in SUBSET S /\ y \in T /\ f[T] = a[y] * f[T \ {y}]
    BY <1>0, <1>2, <1>3, PickIsElement
  <1> HIDE DEF y
  <1>5. x # y
    BY <1>3, <1>4
  <1>6. /\ T \ {x} \in SUBSET S /\ T \ {y} \in SUBSET S /\ R \in SUBSET S
        /\ y \in T \ {x} /\ x \in T \ {y} /\ (T \ {y}) \ {x} = R
    BY <1>3, <1>4, <1>5
  <1>7. free(T \ {x}) /\ free(T \ {y})
    BY <1>2, <1>3, <1>4, <1>6
  <1>8. f[T \ {x}] = a[y] * f[R] /\ f[T \ {y}] = a[x] * f[R]
    BY <1>6, <1>7 DEF free
  <1>9. a[x] \in Int /\ a[y] \in Int /\ f[R] \in Int
    BY <1>3, <1>4, <1>6
  <1> HIDE DEF R
  <1> QED BY <1>3, <1>4, <1>8, <1>9


\* Sums are monotone.
LEMMA SumMonotone ==
  ASSUME NEW S, IsFiniteSet(S), NEW a, NEW b,
         \A x \in S : a[x] \in Int /\ b[x] \in Int /\ a[x] <= b[x]
  PROVE  SumOf(a, S) <= SumOf(b, S)
  <1>0. \A x \in S : a[x] \in Int /\ b[x] \in Int
    OBVIOUS
  <1> DEFINE bad == {T \in SUBSET S : ~(SumOf(a, T) <= SumOf(b, T))}
  <1>1. SUFFICES ASSUME bad # {} PROVE FALSE
    OBVIOUS
  <1>2. PICK T \in bad : \A u \in bad : ~(u \subseteq T /\ u # T)
    <2>1. bad \in SUBSET (SUBSET S)
      OBVIOUS
    <2> HIDE DEF bad
    <2> QED BY <1>1, <2>1, MinimalSubset
  <1>3. SumOf(a, {}) = 0 /\ SumOf(b, {}) = 0
    BY SumFacts
  <1>4. T # {}
    <2>1. {} \notin bad
      BY <1>3
    <2> HIDE DEF bad
    <2> QED BY <1>2, <2>1
  <1>5. PICK x : x \in T
    BY <1>4
  <1>6. T \in SUBSET S /\ x \in S /\ T \ {x} \in SUBSET S
    BY <1>2, <1>5
  <1>7. /\ SumOf(a, T) = a[x] + SumOf(a, T \ {x}) /\ SumOf(b, T) = b[x] + SumOf(b, T \ {x})
        /\ SumOf(a, T \ {x}) \in Int /\ SumOf(b, T \ {x}) \in Int
    <2>1. (\A y \in S : a[y] \in Int) /\ (\A y \in S : b[y] \in Int)
      BY <1>0
    <2>2. SumOf(a, T) = a[x] + SumOf(a, T \ {x}) /\ SumOf(a, T \ {x}) \in Int
      BY <1>5, <1>6, <2>1, SumFacts
    <2>3. SumOf(b, T) = b[x] + SumOf(b, T \ {x}) /\ SumOf(b, T \ {x}) \in Int
      BY <1>5, <1>6, <2>1, SumFacts
    <2> QED BY <2>2, <2>3
  <1>8. SumOf(a, T \ {x}) <= SumOf(b, T \ {x})
    BY <1>2, <1>5, <1>6
  <1>9. ~(SumOf(a, T) <= SumOf(b, T)) /\ a[x] \in Int /\ b[x] \in Int /\ a[x] <= b[x]
    BY <1>2, <1>6
  <1> HIDE DEF bad
  <1> QED BY <1>7, <1>8, <1>9

\* Sums are strictly monotone in each summand.
LEMMA SumStrictlyMonotone ==
  ASSUME NEW S, IsFiniteSet(S), NEW a, NEW b,
         \A x \in S : a[x] \in Int /\ b[x] \in Int /\ a[x] <= b[x],
         NEW y \in S, a[y] < b[y]
  PROVE  SumOf(a, S) < SumOf(b, S)
  <1>1. S \ {y} \in SUBSET S /\ S \in SUBSET S /\ IsFiniteSet(S \ {y})
    BY FS_Subset
  <1>2. SumOf(a, S \ {y}) <= SumOf(b, S \ {y})
    BY <1>1, SumMonotone
  <1>3. /\ SumOf(a, S) = a[y] + SumOf(a, S \ {y}) /\ SumOf(b, S) = b[y] + SumOf(b, S \ {y})
        /\ SumOf(a, S \ {y}) \in Int /\ SumOf(b, S \ {y}) \in Int
    BY <1>1, SumFacts
  <1> QED BY <1>2, <1>3

\* Equal summands have equal sums.
LEMMA SumCongruent ==
  ASSUME NEW S, IsFiniteSet(S), NEW a, NEW b,
         \A x \in S : a[x] \in Int /\ a[x] = b[x]
  PROVE  SumOf(a, S) = SumOf(b, S)
  <1>1. SumOf(a, S) <= SumOf(b, S) /\ SumOf(b, S) <= SumOf(a, S)
    BY SumMonotone
  <1>2. SumOf(a, S) \in Int /\ SumOf(b, S) \in Int
    BY SumFacts
  <1> QED BY <1>1, <1>2

\* A sum of naturals is a natural.
LEMMA SumNatural ==
  ASSUME NEW S, IsFiniteSet(S), NEW a, \A x \in S : a[x] \in Nat
  PROVE  SumOf(a, S) \in Nat /\ \A x \in S : a[x] <= SumOf(a, S)
  <1> DEFINE bad == {T \in SUBSET S : ~(SumOf(a, T) >= 0)}
  <1>0. \A x \in S : a[x] \in Int
    OBVIOUS
  <1>1. bad = {}
    <2>1. SUFFICES ASSUME bad # {} PROVE FALSE
      OBVIOUS
    <2>2. PICK T \in bad : \A u \in bad : ~(u \subseteq T /\ u # T)
      <3>1. bad \in SUBSET (SUBSET S)
        OBVIOUS
      <3> HIDE DEF bad
      <3> QED BY <2>1, <3>1, MinimalSubset
    <2>3. SumOf(a, {}) = 0
      BY <1>0, SumFacts
    <2>4. PICK x : x \in T
      <3>1. {} \notin bad
        BY <2>3
      <3> HIDE DEF bad
      <3> QED BY <2>2, <3>1
    <2>5. T \in SUBSET S /\ x \in S /\ T \ {x} \in SUBSET S
      BY <2>2, <2>4
    <2>6. SumOf(a, T) = a[x] + SumOf(a, T \ {x}) /\ SumOf(a, T \ {x}) \in Int
      BY <1>0, <2>4, <2>5, SumFacts
    <2>7. SumOf(a, T \ {x}) >= 0
      BY <2>2, <2>4, <2>5
    <2>8. ~(SumOf(a, T) >= 0) /\ a[x] \in Nat
      BY <2>2, <2>5
    <2> HIDE DEF bad
    <2> QED BY <2>6, <2>7, <2>8
  <1>2. \A T \in SUBSET S : SumOf(a, T) >= 0 /\ SumOf(a, T) \in Int
    BY <1>0, <1>1, SumFacts
  <1>3. SumOf(a, S) \in Nat
    BY <1>2
  <1>4. ASSUME NEW x \in S PROVE a[x] <= SumOf(a, S)
    <2>1. SumOf(a, S) = a[x] + SumOf(a, S \ {x})
      BY <1>0, SumFacts
    <2>2. S \ {x} \in SUBSET S
      OBVIOUS
    <2> QED BY <1>2, <2>1, <2>2
  <1> QED BY <1>3, <1>4

\* A factor can be taken out of a sum.
LEMMA SumScales ==
  ASSUME NEW S, IsFiniteSet(S), NEW a, NEW b, NEW c \in Int,
         \A x \in S : a[x] \in Int /\ b[x] = c * a[x]
  PROVE  SumOf(b, S) = c * SumOf(a, S)
  <1> DEFINE bad == {T \in SUBSET S : SumOf(b, T) # c * SumOf(a, T)}
  <1>0. \A x \in S : a[x] \in Int /\ b[x] \in Int
    OBVIOUS
  <1>1. SUFFICES ASSUME bad # {} PROVE FALSE
    OBVIOUS
  <1>2. PICK T \in bad : \A u \in bad : ~(u \subseteq T /\ u # T)
    <2>1. bad \in SUBSET (SUBSET S)
      OBVIOUS
    <2> HIDE DEF bad
    <2> QED BY <1>1, <2>1, MinimalSubset
  <1>3. SumOf(a, {}) = 0 /\ SumOf(b, {}) = 0
    BY <1>0, SumFacts
  <1>4. T # {}
    <2>1. {} \notin bad
      BY <1>3
    <2> HIDE DEF bad
    <2> QED BY <1>2, <2>1
  <1>5. PICK x : x \in T
    BY <1>4
  <1>6. T \in SUBSET S /\ x \in S /\ T \ {x} \in SUBSET S
    BY <1>2, <1>5
  <1>7. /\ SumOf(a, T) = a[x] + SumOf(a, T \ {x}) /\ SumOf(b, T) = b[x] + SumOf(b, T \ {x})
        /\ SumOf(a, T \ {x}) \in Int /\ SumOf(b, T \ {x}) \in Int
    <2>1. (\A y \in S : a[y] \in Int) /\ (\A y \in S : b[y] \in Int)
      BY <1>0
    <2>2. SumOf(a, T) = a[x] + SumOf(a, T \ {x}) /\ SumOf(a, T \ {x}) \in Int
      BY ONLY IsFiniteSet(S), <1>5, <1>6, <2>1, SumFacts
    <2>3. SumOf(b, T) = b[x] + SumOf(b, T \ {x}) /\ SumOf(b, T \ {x}) \in Int
      BY ONLY IsFiniteSet(S), <1>5, <1>6, <2>1, SumFacts
    <2> QED BY <2>2, <2>3
  <1>8. SumOf(b, T \ {x}) = c * SumOf(a, T \ {x})
    BY <1>2, <1>5, <1>6
  <1>9. SumOf(b, T) # c * SumOf(a, T) /\ a[x] \in Int /\ b[x] = c * a[x]
    BY <1>2, <1>6
  <1> HIDE DEF bad
  <1> DEFINE u == SumOf(a, T \ {x})
             v == a[x]
  <1>10. SumOf(b, T) = c * v + c * u /\ SumOf(a, T) = v + u /\ u \in Int /\ v \in Int
    BY <1>7, <1>8, <1>9
  <1> HIDE DEF u, v
  <1>11. c * (v + u) = c * v + c * u
    BY <1>10
  <1> QED BY <1>9, <1>10, <1>11

\* A sum is the sum over a part and the sum over the rest.
LEMMA SumSplits ==
  ASSUME NEW S, IsFiniteSet(S), NEW a, \A x \in S : a[x] \in Int, NEW R \in SUBSET S
  PROVE  SumOf(a, S) = SumOf(a, R) + SumOf(a, S \ R)
  <1> DEFINE bad == {T \in SUBSET R : SumOf(a, (S \ R) \cup T) # SumOf(a, T) + SumOf(a, S \ R)}
  <1>1. SUFFICES ASSUME bad # {} PROVE FALSE
    <2>1. R \notin bad /\ (S \ R) \cup R = S
      BY <1>1
    <2> QED BY <2>1
  <1>2. PICK T \in bad : \A u \in bad : ~(u \subseteq T /\ u # T)
    <2>1. bad \in SUBSET (SUBSET R) /\ IsFiniteSet(R)
      BY FS_Subset
    <2> HIDE DEF bad
    <2> QED BY <1>1, <2>1, MinimalSubset
  <1>3. SumOf(a, {}) = 0 /\ SumOf(a, S \ R) \in Int
    <2>1. S \ R \in SUBSET S
      OBVIOUS
    <2> QED BY <2>1, SumFacts
  <1>4. T # {}
    <2>1. (S \ R) \cup {} = S \ R
      OBVIOUS
    <2>2. {} \notin bad
      BY <1>3, <2>1
    <2> HIDE DEF bad
    <2> QED BY <1>2, <2>2
  <1>5. PICK x : x \in T
    BY <1>4
  <1> DEFINE W == (S \ R) \cup T
             X == (S \ R) \cup (T \ {x})
  <1>6. /\ T \in SUBSET S /\ x \in S /\ T \ {x} \in SUBSET S /\ T \ {x} \in SUBSET R
        /\ W \in SUBSET S /\ x \in W /\ W \ {x} = X /\ X \in SUBSET S
    BY <1>2, <1>5
  <1>7. SumOf(a, X) = SumOf(a, T \ {x}) + SumOf(a, S \ R)
    BY <1>2, <1>5, <1>6
  <1>8. SumOf(a, W) # SumOf(a, T) + SumOf(a, S \ R)
    BY <1>2
  <1> HIDE DEF W, X, bad
  <1>9. /\ SumOf(a, T) = a[x] + SumOf(a, T \ {x}) /\ SumOf(a, W) = a[x] + SumOf(a, X)
        /\ SumOf(a, T \ {x}) \in Int /\ SumOf(a, X) \in Int /\ a[x] \in Int
    BY <1>5, <1>6, SumFacts
  <1> QED BY <1>3, <1>7, <1>8, <1>9

\* The product of positive numbers is positive.
LEMMA ProductPositive ==
  ASSUME NEW S, IsFiniteSet(S), NEW a, \A x \in S : a[x] \in Nat \ {0}
  PROVE  /\ ProductOf(a, {}) = 1
         /\ \A T \in SUBSET S : ProductOf(a, T) \in Nat \ {0}
         /\ \A T \in SUBSET S : \A x \in T : ProductOf(a, T) = a[x] * ProductOf(a, T \ {x})
  <1> DEFINE bad == {T \in SUBSET S : ~(ProductOf(a, T) > 0)}
  <1>0. \A x \in S : a[x] \in Int
    OBVIOUS
  <1>a. /\ ProductOf(a, {}) = 1
        /\ \A T \in SUBSET S : ProductOf(a, T) \in Int
        /\ \A T \in SUBSET S : \A x \in T : ProductOf(a, T) = a[x] * ProductOf(a, T \ {x})
    BY <1>0, ProductFacts
  <1>1. bad = {}
    <2>1. SUFFICES ASSUME bad # {} PROVE FALSE
      OBVIOUS
    <2>2. PICK T \in bad : \A u \in bad : ~(u \subseteq T /\ u # T)
      <3>1. bad \in SUBSET (SUBSET S)
        OBVIOUS
      <3> HIDE DEF bad
      <3> QED BY <2>1, <3>1, MinimalSubset
    <2>4. PICK x : x \in T
      <3>1. {} \notin bad
        BY <1>a
      <3> HIDE DEF bad
      <3> QED BY <2>2, <3>1
    <2>5. T \in SUBSET S /\ x \in S /\ T \ {x} \in SUBSET S
      BY <2>2, <2>4
    <2>6. ProductOf(a, T) = a[x] * ProductOf(a, T \ {x}) /\ ProductOf(a, T \ {x}) \in Int
      BY <1>a, <2>4, <2>5
    <2>7. ProductOf(a, T \ {x}) > 0
      BY <2>2, <2>4, <2>5
    <2>8. ~(ProductOf(a, T) > 0) /\ a[x] \in Nat \ {0}
      BY <2>2, <2>5
    <2> HIDE DEF bad
    <2> DEFINE u == ProductOf(a, T \ {x})
               v == a[x]
    <2>9. u \in Int /\ u > 0 /\ v \in Nat \ {0} /\ ~(v * u > 0)
      BY <2>6, <2>7, <2>8
    <2> HIDE DEF u, v
    <2> QED BY ONLY <2>9, TimesMonotone
  <1>2. \A T \in SUBSET S : ProductOf(a, T) > 0
    BY <1>1
  <1> HIDE DEF bad
  <1>3. \A T \in SUBSET S : ProductOf(a, T) \in Nat \ {0}
    BY <1>a, <1>2
  <1> QED BY <1>a, <1>3

\* The stakes add up to a natural number, and none exceeds the sum.
LEMMA TotalBoundsStakes ==
  ASSUME NEW amount \in [Selections -> Nat]
  PROVE  StakeTotal(amount) \in Nat /\ \A s \in Selections : amount[s] <= StakeTotal(amount)
  <1>1. StakeTotal(amount) = SumOf(amount, Selections)
    BY DEF StakeTotal, SumOf
  <1>2. \A s \in Selections : amount[s] \in Nat
    OBVIOUS
  <1> QED BY <1>1, <1>2, SelectionsAssumption, SumNatural

-----------------------------------------------------------------------------
(* The stake grid.                                                         *)

\* A multiple of the step leaves no remainder.
LEMMA MultipleOnGrid ==
  ASSUME NEW q \in Int, NEW step \in Nat \ {0}
  PROVE  (q * step) % step = 0
  <1> DEFINE v == q * step
             d == v \div step
             r == v % step
  <1>1. v \in Int /\ d \in Int /\ r \in Int
    OBVIOUS
  <1>2. v = step * d + r /\ 0 <= r /\ r < step
    OBVIOUS
  <1>3. r = step * (q - d)
    BY <1>1, <1>2
  <1>4. CASE q - d >= 1
    <2>1. step * (q - d) >= step * 1
      BY <1>1, <1>4
    <2> QED
      BY <1>1, <1>2, <1>3, <2>1
  <1>5. CASE q - d <= -1
    <2>1. step * (q - d) <= step * (-1)
      BY <1>1, <1>5
    <2> QED
      BY <1>1, <1>2, <1>3, <2>1
  <1>6. CASE q - d = 0
    BY <1>1, <1>3, <1>6
  <1> QED
    BY <1>1, <1>4, <1>5, <1>6

\* Rounding up to the grid: a multiple of the step that is not below the value.
LEMMA CeilOnGrid ==
  ASSUME NEW v \in Nat, NEW step \in Nat \ {0}
  PROVE  /\ CeilToGrid(v, step) \in Nat /\ CeilToGrid(v, step) >= v
         /\ CeilToGrid(v, step) % step = 0
  <1> DEFINE w == v + step - 1
             q == w \div step
  <1>1. w \in Nat /\ q \in Nat
    OBVIOUS
  <1>2. w < step * q + step
    BY <1>1
  <1>3. CeilToGrid(v, step) = q * step /\ q * step \in Nat
    BY <1>1 DEF CeilToGrid
  <1>4. q * step = step * q
    BY <1>1
  <1> QED
    BY <1>1, <1>2, <1>3, <1>4, MultipleOnGrid

\* Rounding down to the grid never raises a value.
LEMMA FloorBelow ==
  ASSUME NEW v \in Nat, NEW step \in Nat \ {0}
  PROVE  FloorToGrid(v, step) \in Nat /\ FloorToGrid(v, step) <= v
  <1> DEFINE q == v \div step
  <1>1. q \in Nat /\ step * q <= v
    OBVIOUS
  <1>2. q * step = step * q /\ q * step \in Nat
    BY <1>1
  <1> QED
    BY <1>1, <1>2 DEF FloorToGrid

-----------------------------------------------------------------------------
(* The search for a safe plan.                                             *)

\* A plan that the search may return: one it tried, within the bankroll, that
\* wins enough.
Accepts(bankroll, threshold, plan) ==
  plan.total <= bankroll /\ plan.profit > 0 /\ plan.profit >= threshold
Tried(price, e, plan) == plan # NoPlan /\ \E t \in Nat : plan = TargetPlan(price, e, t)

\* The next target is a smaller natural number, so the search makes progress.
LEMMA SearchDescends ==
  ASSUME NEW price, NEW e, NEW plan, NEW target \in Nat,
         NextTargets(price, e, plan, target) \in SUBSET Int,
         NextTargets(price, e, plan, target) # {}
  PROVE  Max(NextTargets(price, e, plan, target)) \in 0..(target - 1)
  <1> DEFINE lower == NextTargets(price, e, plan, target)
  <1>1. \A p \in lower : 0 < p /\ p < target
    BY DEF NextTargets, LowerPayouts
  <1> HIDE DEF lower
  <1>2. lower \in SUBSET Nat /\ lower # {} /\ \A p \in lower : p <= target
    BY <1>1 DEF lower
  <1>3. Max(lower) \in lower
    BY <1>2, MaxOfNaturals
  <1>4. Max(lower) \in Nat /\ Max(lower) < target
    BY <1>1, <1>2, <1>3
  <1>5. Max(lower) \in 0..(target - 1)
    BY <1>4
  <1> QED
    BY <1>5 DEF lower

\* The recursion of the search is well defined.
LEMMA SearchEquation ==
  ASSUME NEW price, NEW e, NEW bankroll, NEW threshold, NEW start \in Nat \ {0},
         \A t \in Nat : TargetPlan(price, e, t) # NoPlan =>
           NextTargets(price, e, TargetPlan(price, e, t), t) \in SUBSET Int
  PROVE  LET search == Search(price, e, bankroll, start, threshold)
         IN  \A t \in 0..start :
               LET plan == TargetPlan(price, e, t)
                   lower == NextTargets(price, e, plan, t)
               IN  search[t] = IF t = 0 \/ plan = NoPlan THEN NoPlan
                               ELSE IF Accepts(bankroll, threshold, plan) THEN plan
                               ELSE IF lower = {} THEN NoPlan ELSE search[Max(lower)]
  <1> DEFINE P(t) == TargetPlan(price, e, t)
             lower(t) == NextTargets(price, e, P(t), t)
             accept(t) == Accepts(bankroll, threshold, P(t))
             stop(t) == t = 0 \/ P(t) = NoPlan \/ accept(t) \/ lower(t) = {}
             value(t) == IF t = 0 \/ P(t) = NoPlan THEN NoPlan ELSE IF accept(t) THEN P(t) ELSE NoPlan
             jump(t) == Max(lower(t))
             V == {NoPlan} \cup {P(t) : t \in Nat}
             search == Search(price, e, bankroll, start, threshold)
             obeys(n) == \E f \in [0..n -> V] :
                           \A t \in 0..n : f[t] = IF stop(t) THEN value(t) ELSE f[jump(t)]
             failing == {n \in Nat : ~obeys(n)}
  <1>1. \A t \in Nat : ~stop(t) => jump(t) \in 0..(t - 1)
    BY SearchDescends
  <1>2. \A t \in Nat : value(t) \in V
    OBVIOUS
  <1>3. stop(0)
    OBVIOUS
  <1>4. search = CHOOSE f : f = [t \in 0..start |-> IF stop(t) THEN value(t) ELSE f[jump(t)]]
    <2>1. search = CHOOSE f : f = [t \in 0..start |->
                     IF t = 0 \/ P(t) = NoPlan THEN NoPlan
                     ELSE IF P(t).total <= bankroll /\ P(t).profit > 0 /\ P(t).profit >= threshold
                     THEN P(t)
                     ELSE IF lower(t) = {} THEN NoPlan ELSE f[Max(lower(t))]]
      BY DEF Search
    <2>2. \A f : [t \in 0..start |->
                     IF t = 0 \/ P(t) = NoPlan THEN NoPlan
                     ELSE IF P(t).total <= bankroll /\ P(t).profit > 0 /\ P(t).profit >= threshold
                     THEN P(t)
                     ELSE IF lower(t) = {} THEN NoPlan ELSE f[Max(lower(t))]]
                 = [t \in 0..start |-> IF stop(t) THEN value(t) ELSE f[jump(t)]]
      BY DEF Accepts
    <2> QED
      BY <2>1, <2>2
  <1> HIDE DEF P, lower, accept, stop, value, jump, V, search
  <1>5. obeys(0)
    <2> DEFINE f == [t \in 0..0 |-> value(t)]
    <2>1. f \in [0..0 -> V]
      BY <1>2
    <2>2. \A t \in 0..0 : f[t] = IF stop(t) THEN value(t) ELSE f[jump(t)]
      BY <1>3
    <2> QED
      BY <2>1, <2>2
  <1>6. ASSUME NEW n \in Nat, obeys(n) PROVE obeys(n + 1)
    <2> PICK f \in [0..n -> V] : \A t \in 0..n : f[t] = IF stop(t) THEN value(t) ELSE f[jump(t)]
      BY <1>6
    <2> DEFINE g == [t \in 0..(n + 1) |-> IF stop(t) THEN value(t) ELSE f[jump(t)]]
    <2>1. \A t \in 0..(n + 1) : t \in Nat /\ (~stop(t) => jump(t) \in 0..n)
      BY <1>1
    <2>2. g \in [0..(n + 1) -> V]
      BY <1>2, <2>1
    <2>3. \A t \in 0..n : t \in 0..(n + 1) /\ g[t] = f[t]
      OBVIOUS
    <2>4. \A t \in 0..(n + 1) : g[t] = IF stop(t) THEN value(t) ELSE g[jump(t)]
      BY <2>1, <2>3
    <2> HIDE DEF g
    <2> QED
      BY <2>2, <2>4
  <1>7. obeys(start)
    <2> SUFFICES ASSUME failing # {} PROVE FALSE
      OBVIOUS
    <2> HIDE DEF obeys
    <2>1. PICK n \in failing : \A k \in failing : n <= k
      BY LeastNatural
    <2>2. n # 0 /\ n \in Nat
      BY <1>5
    <2>3. n - 1 \in Nat /\ n - 1 \notin failing
      BY <2>1, <2>2
    <2>4. obeys((n - 1) + 1)
      BY <1>6, <2>3
    <2>5. (n - 1) + 1 = n
      BY <2>2
    <2> QED
      BY <2>1, <2>4, <2>5
  <1>8. search = [t \in 0..start |-> IF stop(t) THEN value(t) ELSE search[jump(t)]]
    <2>1. PICK f \in [0..start -> V] :
            \A t \in 0..start : f[t] = IF stop(t) THEN value(t) ELSE f[jump(t)]
      BY <1>7
    <2>2. f = [t \in 0..start |-> IF stop(t) THEN value(t) ELSE f[jump(t)]]
      BY <2>1
    <2> QED
      BY <1>4, <2>2
  <1>9. \A t \in 0..start : search[t] = IF stop(t) THEN value(t) ELSE search[jump(t)]
    BY <1>8
  <1>10. \A t \in 0..start :
           search[t] = IF t = 0 \/ P(t) = NoPlan THEN NoPlan
                       ELSE IF accept(t) THEN P(t)
                       ELSE IF lower(t) = {} THEN NoPlan ELSE search[Max(lower(t))]
    BY <1>9 DEF stop, value, jump
  <1> QED BY <1>10 DEF search, accept, lower, P

\* What the search returns is None or an accepted plan that was tried.
LEMMA SearchIsSound ==
  ASSUME NEW price, NEW e, NEW bankroll, NEW threshold, NEW start \in Nat \ {0},
         \A t \in Nat : TargetPlan(price, e, t) # NoPlan =>
           NextTargets(price, e, TargetPlan(price, e, t), t) \in SUBSET Int
  PROVE  LET plan == SafeDiscretePlan(price, e, bankroll, start, threshold)
         IN  plan # NoPlan => Tried(price, e, plan) /\ Accepts(bankroll, threshold, plan)
  <1> DEFINE P(t) == TargetPlan(price, e, t)
             lower(t) == NextTargets(price, e, P(t), t)
             search == Search(price, e, bankroll, start, threshold)
             good(v) == v # NoPlan => Tried(price, e, v) /\ Accepts(bankroll, threshold, v)
             bad == {t \in 0..start : ~good(search[t])}
  <1>1. \A t \in 0..start :
          search[t] = IF t = 0 \/ P(t) = NoPlan THEN NoPlan
                      ELSE IF Accepts(bankroll, threshold, P(t)) THEN P(t)
                      ELSE IF lower(t) = {} THEN NoPlan ELSE search[Max(lower(t))]
    BY SearchEquation
  <1>2. \A t \in Nat : t # 0 /\ P(t) # NoPlan /\ lower(t) # {} => Max(lower(t)) \in 0..(t - 1)
    BY SearchDescends
  <1>3. \A t \in 0..start : Accepts(bankroll, threshold, P(t)) => good(P(t))
    BY DEF Tried
  <1>4. good(NoPlan)
    OBVIOUS
  <1> HIDE DEF P, lower, search, good
  <1>5. bad = {}
    <2> SUFFICES ASSUME bad # {} PROVE FALSE
      OBVIOUS
    <2>1. bad \in SUBSET Nat
      OBVIOUS
    <2>2. PICK t \in bad : \A k \in bad : t <= k
      BY <2>1, LeastNatural
    <2>3. t \in 0..start /\ t \in Nat /\ ~good(search[t])
      OBVIOUS
    <2>4. /\ t # 0 /\ P(t) # NoPlan /\ lower(t) # {} /\ search[t] = search[Max(lower(t))]
      BY <1>1, <1>3, <1>4, <2>3
    <2>5. Max(lower(t)) \in 0..(t - 1)
      BY <1>2, <2>3, <2>4
    <2>6. Max(lower(t)) \in 0..start /\ Max(lower(t)) < t
      BY <2>3, <2>5
    <2>7. Max(lower(t)) \in bad
      BY <2>3, <2>4, <2>6
    <2> QED BY <2>2, <2>3, <2>6, <2>7
  <1>6. SafeDiscretePlan(price, e, bankroll, start, threshold) = search[start]
    BY DEF SafeDiscretePlan, search
  <1>7. start \in 0..start
    OBVIOUS
  <1>8. good(search[start])
    BY <1>5, <1>7
  <1> QED
    BY <1>6, <1>8 DEF good

-----------------------------------------------------------------------------
(* What a plan of allocate_stakes is.                                      *)

\* The bounds moved to the grid are on the grid, positive, and no wider.
LEMMA EffectiveIsWithin ==
  ASSUME NEW c \in StakeConstraint
  PROVE  LET e == EffectiveConstraint(c)
         IN  /\ e.increment = c.increment
             /\ e.minimum \in Nat \ {0} /\ e.minimum >= c.minimum
             /\ e.minimum % c.increment = 0
             /\ c.maximum # NoLimit =>
                  e.maximum \in Nat /\ e.maximum # NoLimit /\ e.maximum <= c.maximum
  <1> DEFINE i == c.increment
             g == CeilToGrid(c.minimum, i)
             e == EffectiveConstraint(c)
  <1>1. i \in Nat \ {0} /\ c.minimum \in Nat /\ (c.maximum # NoLimit => c.maximum \in Nat)
    BY DEF StakeConstraint
  <1>2. g \in Nat /\ g >= c.minimum /\ g % i = 0
    BY <1>1, CeilOnGrid
  <1>3. i % i = 0
    <2>1. 1 * i = i /\ (1 * i) % i = 0
      BY <1>1, MultipleOnGrid
    <2> QED
      BY <2>1
  <1>4. e.minimum = Larger(i, g) /\ e.increment = i
    BY DEF EffectiveConstraint, Larger
  <1>5. c.maximum # NoLimit => e.maximum = FloorToGrid(c.maximum, i)
    BY DEF EffectiveConstraint
  <1> HIDE DEF g, i, e
  <1>6. /\ Larger(i, g) \in {i, g}
        /\ Larger(i, g) >= i /\ Larger(i, g) >= g
    BY <1>1, <1>2, MaxOfTwo
  <1>7. /\ e.minimum \in Nat \ {0} /\ e.minimum >= c.minimum
        /\ e.minimum % i = 0
    BY <1>1, <1>2, <1>3, <1>4, <1>6
  <1>8. c.maximum # NoLimit => e.maximum \in Nat /\ e.maximum # NoLimit /\ e.maximum <= c.maximum
    BY <1>1, <1>5, FloorBelow, NoLimitAssumption
  <1> QED
    BY <1>4, <1>7, <1>8 DEF e, i

\* The stake for a target is on the grid and not below the minimum.
LEMMA StakeOnGrid ==
  ASSUME NEW price \in Nat \ {0}, NEW e, NEW target \in Nat,
         e.increment \in Nat \ {0}, e.minimum \in Nat \ {0}, e.minimum % e.increment = 0
  PROVE  LET stake == MinimumStake(price, e, target)
         IN  stake \in Nat \ {0} /\ stake >= e.minimum /\ stake % e.increment = 0
  <1> DEFINE need == (target * PriceUnit + price - 1) \div price
             g == CeilToGrid(need, e.increment)
  <1>1. target * PriceUnit + price - 1 \in Nat
    BY DEF PriceUnit
  <1>2. need \in Nat
    BY <1>1
  <1>3. g \in Nat /\ g % e.increment = 0
    BY <1>2, CeilOnGrid
  <1>4. MinimumStake(price, e, target) = Larger(e.minimum, g)
    BY DEF MinimumStake, Larger
  <1> HIDE DEF g
  <1>5. /\ Larger(e.minimum, g) \in {e.minimum, g}
        /\ Larger(e.minimum, g) >= e.minimum
    BY <1>3, MaxOfTwo
  <1> QED
    BY <1>3, <1>4, <1>5

\* The constraints and prices of an allocation.
Allocatable(price, constraints) ==
  price \in [Selections -> Nat \ {0}] /\ constraints \in [Selections -> StakeConstraint]
Effective(constraints) == [s \in Selections |-> EffectiveConstraint(constraints[s])]

\* A payout is a natural number.
LEMMA PayoutIsNatural ==
  ASSUME NEW stake \in Nat, NEW price \in Nat
  PROVE  ConservativePayout(stake, price) \in Nat
  BY DEF ConservativePayout, PriceUnit

\* A plan that is tried keeps the grid and the bounds, and its payout is paid
\* whichever selection wins.
LEMMA TriedPlanFits ==
  ASSUME NEW price, NEW constraints, NEW plan, Allocatable(price, constraints),
         Tried(price, Effective(constraints), plan)
  PROVE  /\ plan.amounts \in [Selections -> Nat \ {0}]
         /\ plan.total = StakeTotal(plan.amounts) /\ plan.total \in Nat
         /\ plan.payout \in Nat /\ plan.profit = plan.payout - plan.total
         /\ \A s \in Selections :
              /\ plan.amounts[s] % constraints[s].increment = 0
              /\ plan.amounts[s] >= constraints[s].minimum
              /\ constraints[s].maximum = NoLimit \/ plan.amounts[s] <= constraints[s].maximum
              /\ ConservativePayout(plan.amounts[s], price[s]) >= plan.payout
  <1> DEFINE e == Effective(constraints)
  <1>1. PICK t \in Nat : plan = TargetPlan(price, e, t) /\ plan # NoPlan
    BY DEF Tried
  <1> DEFINE amount == [s \in Selections |-> MinimumStake(price[s], e[s], t)]
             payouts == {ConservativePayout(amount[s], price[s]) : s \in Selections}
  <1>2. /\ plan = [amounts |-> amount, total |-> StakeTotal(amount), payout |-> Min(payouts),
                   profit |-> Min(payouts) - StakeTotal(amount)]
        /\ \A s \in Selections : e[s].maximum # NoLimit => ~(amount[s] > e[s].maximum)
    BY <1>1 DEF TargetPlan
  <1>3. \A s \in Selections :
          /\ price[s] \in Nat \ {0} /\ constraints[s] \in StakeConstraint
          /\ e[s] = EffectiveConstraint(constraints[s])
          /\ constraints[s].increment \in Nat \ {0} /\ constraints[s].minimum \in Nat
    BY DEF Allocatable, Effective, StakeConstraint
  <1>4. \A s \in Selections :
          /\ e[s].increment = constraints[s].increment
          /\ e[s].minimum \in Nat \ {0} /\ e[s].minimum >= constraints[s].minimum
          /\ e[s].minimum % e[s].increment = 0
          /\ constraints[s].maximum # NoLimit =>
               e[s].maximum \in Nat /\ e[s].maximum # NoLimit /\ e[s].maximum <= constraints[s].maximum
    BY <1>3, EffectiveIsWithin
  <1> HIDE DEF e
  <1>5. \A s \in Selections :
          amount[s] \in Nat \ {0} /\ amount[s] >= e[s].minimum /\ amount[s] % e[s].increment = 0
    BY <1>3, <1>4, StakeOnGrid
  <1>6. amount \in [Selections -> Nat \ {0}] /\ amount \in [Selections -> Nat]
    BY <1>5
  <1> HIDE DEF amount
  <1>7. StakeTotal(amount) \in Nat
    BY <1>6, TotalBoundsStakes
  <1>8. payouts \in SUBSET Nat /\ payouts # {}
    BY <1>3, <1>6, SelectionsAssumption, PayoutIsNatural
  <1>9. Min(payouts) \in Nat /\ \A s \in Selections : ConservativePayout(amount[s], price[s]) >= Min(payouts)
    <2>1. Min(payouts) \in payouts /\ \A k \in payouts : Min(payouts) <= k
      <3> HIDE DEF payouts
      <3> QED
        BY <1>8, MinOfNaturals
    <2>2. \A s \in Selections : ConservativePayout(amount[s], price[s]) \in payouts
      OBVIOUS
    <2> HIDE DEF payouts
    <2> QED
      BY <1>8, <2>1, <2>2
  <1> HIDE DEF payouts
  <1>10. \A s \in Selections :
           constraints[s].maximum = NoLimit \/ amount[s] <= constraints[s].maximum
    <2> SUFFICES ASSUME NEW s \in Selections, constraints[s].maximum # NoLimit
                 PROVE  amount[s] <= constraints[s].maximum
      OBVIOUS
    <2>1. constraints[s].maximum \in Nat
      BY <1>3 DEF StakeConstraint
    <2>2. amount[s] \in Nat /\ e[s].maximum \in Nat /\ amount[s] <= e[s].maximum
      BY <1>2, <1>4, <1>6
    <2> QED
      BY <1>4, <2>1, <2>2
  <1>11. \A s \in Selections :
           amount[s] % constraints[s].increment = 0 /\ amount[s] >= constraints[s].minimum
    BY <1>3, <1>4, <1>5
  <1> QED
    BY <1>2, <1>6, <1>7, <1>9, <1>10, <1>11

\* The breakpoints below a plan are integers.
LEMMA BreakpointsAreIntegers ==
  ASSUME NEW price, NEW constraints, Allocatable(price, constraints), NEW t \in Nat,
         TargetPlan(price, Effective(constraints), t) # NoPlan
  PROVE  NextTargets(price, Effective(constraints), TargetPlan(price, Effective(constraints), t), t)
           \in SUBSET Int
  <1> DEFINE e == Effective(constraints)
             plan == TargetPlan(price, e, t)
  <1>1. Tried(price, e, plan)
    BY DEF Tried
  <1>2. plan.amounts \in [Selections -> Nat \ {0}]
    BY <1>1, TriedPlanFits
  <1>3. \A s \in Selections : price[s] \in Nat /\ e[s].increment \in Nat
    BY EffectiveIsWithin DEF Allocatable, Effective, StakeConstraint
  <1> HIDE DEF plan, e
  <1>4. \A s \in Selections :
          ConservativePayout(plan.amounts[s] - e[s].increment, price[s]) \in Int
    BY <1>2, <1>3 DEF ConservativePayout, PriceUnit
  <1>5. NextTargets(price, e, plan, t) \in SUBSET Int
    BY <1>4 DEF NextTargets, LowerPayouts
  <1> QED
    BY <1>5 DEF plan, e

\* Whatever allocate_stakes returns is a safe way to stake: on the grid, within
\* the bounds of every quote and the bankroll, with a payout that exceeds the
\* stakes and meets the threshold whichever selection wins. No property of the
\* continuous target at which the search starts is needed.
THEOREM AllocationIsSafe ==
  ASSUME NEW price, NEW constraints, Allocatable(price, constraints),
         NEW bankroll \in Nat, NEW threshold \in Int,
         NEW plan \in AllocateStakes(price, constraints, bankroll, threshold), plan # NoPlan
  PROVE  /\ plan.amounts \in SafeStakes(price, constraints, bankroll, threshold)
         /\ plan.total \in Nat /\ plan.profit \in Int
         /\ \A s \in Selections :
              /\ ConservativePayout(plan.amounts[s], price[s]) \in Nat
              /\ ConservativePayout(plan.amounts[s], price[s]) - plan.total >= plan.profit
  <1> DEFINE e == Effective(constraints)
  <1>1. PICK start : plan = SafeDiscretePlan(price, e, bankroll, start, threshold)
    BY DEF AllocateStakes, Effective
  <1>2. start \in Nat \ {0}
    BY <1>1 DEF SafeDiscretePlan
  <1>3. \A t \in Nat : TargetPlan(price, e, t) # NoPlan =>
          NextTargets(price, e, TargetPlan(price, e, t), t) \in SUBSET Int
    BY BreakpointsAreIntegers
  <1>4. Tried(price, e, plan) /\ Accepts(bankroll, threshold, plan)
    <2> HIDE DEF e
    <2> QED
      BY <1>1, <1>2, <1>3, SearchIsSound
  <1>5. /\ plan.amounts \in [Selections -> Nat \ {0}]
        /\ plan.total = StakeTotal(plan.amounts) /\ plan.total \in Nat
        /\ plan.payout \in Nat /\ plan.profit = plan.payout - plan.total
        /\ \A s \in Selections :
             /\ plan.amounts[s] % constraints[s].increment = 0
             /\ plan.amounts[s] >= constraints[s].minimum
             /\ constraints[s].maximum = NoLimit \/ plan.amounts[s] <= constraints[s].maximum
             /\ ConservativePayout(plan.amounts[s], price[s]) >= plan.payout
    BY <1>4, TriedPlanFits
  <1>6. plan.total <= bankroll /\ plan.profit > 0 /\ plan.profit >= threshold
    BY <1>4 DEF Accepts
  <1>7. \A s \in Selections : plan.amounts[s] \in Nat \ {0} /\ price[s] \in Nat
    BY <1>5 DEF Allocatable
  <1>8. \A s \in Selections :
          /\ ConservativePayout(plan.amounts[s], price[s]) \in Nat
          /\ ConservativePayout(plan.amounts[s], price[s]) - plan.total >= plan.profit
    <2> SUFFICES ASSUME NEW s \in Selections
                 PROVE  /\ ConservativePayout(plan.amounts[s], price[s]) \in Nat
                        /\ ConservativePayout(plan.amounts[s], price[s]) - plan.total >= plan.profit
      OBVIOUS
    <2>1. ConservativePayout(plan.amounts[s], price[s]) \in Nat
      BY <1>7, PayoutIsNatural
    <2>2. ConservativePayout(plan.amounts[s], price[s]) >= plan.payout
      BY <1>5
    <2> QED
      BY <1>5, <2>1, <2>2
  <1>9. plan.amounts \in [Selections -> 1..bankroll]
    <2>1. plan.amounts \in [Selections -> Nat]
      BY <1>5
    <2>2. \A s \in Selections : plan.amounts[s] <= plan.total
      BY <1>5, <2>1, TotalBoundsStakes
    <2>3. \A s \in Selections : plan.amounts[s] \in 1..bankroll
      BY <1>5, <1>6, <1>7, <2>2
    <2> QED
      BY <1>5, <2>3
  <1>10. \A s \in Selections :
           /\ ConservativePayout(plan.amounts[s], price[s]) - plan.total > 0
           /\ ConservativePayout(plan.amounts[s], price[s]) - plan.total >= threshold
    BY <1>5, <1>6, <1>8
  <1>11. plan.amounts \in SafeStakes(price, constraints, bankroll, threshold)
    BY <1>5, <1>6, <1>9, <1>10 DEF SafeStakes
  <1> QED
    BY <1>5, <1>8, <1>11

-----------------------------------------------------------------------------
(* The continuous target bounds the payout of every safe plan.             *)

\* The sums and the product of StakePlanning, as SumOf and ProductOf.
LEMMA MinimumTotalIsSum ==
  ASSUME NEW e, NEW T \in SUBSET Selections
  PROVE  MinimumTotal(e, T) = SumOf([s \in Selections |-> e[s].minimum], T)
  <1> DEFINE m == [s \in Selections |-> e[s].minimum]
             sum(f) == [s \in SUBSET T |-> IF s = {} THEN 0 ELSE e[Pick(s)].minimum + f[s \ {Pick(s)}]]
             other(f) == [s \in SUBSET T |-> IF s = {} THEN 0 ELSE m[Pick(s)] + f[s \ {Pick(s)}]]
  <1>1. MinimumTotal(e, T) = (CHOOSE f : f = sum(f))[T]
    BY DEF MinimumTotal, MapThenSumSet, MapThenFoldSet, Pick
  <1>2. SumOf(m, T) = (CHOOSE f : f = other(f))[T]
    BY DEF SumOf, MapThenSumSet, MapThenFoldSet, Pick
  <1>3. \A f : sum(f) = other(f)
    <2>1. \A s \in SUBSET T : s # {} => m[Pick(s)] = e[Pick(s)].minimum
      BY PickIsElement
    <2> HIDE DEF m
    <2> QED BY <2>1
  <1> HIDE DEF sum, other, m
  <1>4. (CHOOSE f : f = sum(f)) = (CHOOSE f : f = other(f))
    BY <1>3
  <1> QED BY <1>1, <1>2, <1>4 DEF m

LEMMA DenominatorIsSum ==
  ASSUME NEW price, NEW T \in SUBSET Selections
  PROVE  TargetDenominator(price, T)
           = PriceUnit * SumOf([s \in Selections |-> ProductOf(price, T \ {s})], T)
  <1> DEFINE m == [s \in Selections |-> ProductOf(price, T \ {s})]
             sum(f) == [s \in SUBSET T |->
                          IF s = {} THEN 0 ELSE ProductOf(price, T \ {Pick(s)}) + f[s \ {Pick(s)}]]
             other(f) == [s \in SUBSET T |-> IF s = {} THEN 0 ELSE m[Pick(s)] + f[s \ {Pick(s)}]]
  <1>1. TargetDenominator(price, T) = PriceUnit * (CHOOSE f : f = sum(f))[T]
    BY DEF TargetDenominator, Product, ProductOf, MapThenSumSet, MapThenFoldSet, Pick
  <1>2. SumOf(m, T) = (CHOOSE f : f = other(f))[T]
    BY DEF SumOf, MapThenSumSet, MapThenFoldSet, Pick
  <1>3. \A f : sum(f) = other(f)
    <2>1. \A s \in SUBSET T : s # {} => m[Pick(s)] = ProductOf(price, T \ {Pick(s)})
      BY PickIsElement
    <2> HIDE DEF m
    <2> QED BY <2>1
  <1> HIDE DEF sum, other, m
  <1>4. (CHOOSE f : f = sum(f)) = (CHOOSE f : f = other(f))
    BY <1>3
  <1> QED BY <1>1, <1>2, <1>4 DEF m

\* The payout that money gives when it is divided over T by the prices.
LEMMA FairShare ==
  ASSUME NEW price \in [Selections -> Nat \ {0}], NEW T \in SUBSET Selections, T # {}
  PROVE  LET q == SumOf([s \in Selections |-> ProductOf(price, T \ {s})], T)
         IN  /\ q \in Nat \ {0}
             /\ ProductOf(price, T) \in Nat \ {0}
             /\ TargetDenominator(price, T) = 10 * q
             /\ \A money : TargetNumerator(price, T, money) = money * ProductOf(price, T)
             /\ \A a \in [Selections -> Int] : \A k, j \in Int :
                  (\A s \in T : k <= a[s] * price[s] * j) => k * q <= SumOf(a, T) * ProductOf(price, T) * j
  <1> DEFINE w == [s \in Selections |-> ProductOf(price, T \ {s})]
             q == SumOf(w, T)
             p == ProductOf(price, T)
  <1>1. IsFiniteSet(Selections) /\ IsFiniteSet(T)
    BY SelectionsAssumption, FS_Subset
  <1>2. /\ p \in Nat \ {0}
        /\ \A s \in T : ProductOf(price, T \ {s}) \in Nat \ {0} /\ p = price[s] * ProductOf(price, T \ {s})
    <2>1. \A s \in Selections : price[s] \in Nat \ {0}
      OBVIOUS
    <2>2. \A s \in T : T \ {s} \in SUBSET Selections
      OBVIOUS
    <2> QED BY <1>1, <2>1, <2>2, ProductPositive
  <1>3. \A s \in T : w[s] \in Nat \ {0} /\ p = price[s] * w[s]
    BY <1>2
  <1>4. TargetDenominator(price, T) = 10 * q
    BY DenominatorIsSum DEF PriceUnit
  <1>5. \A money : TargetNumerator(price, T, money) = money * p
    BY DEF TargetNumerator, Product, ProductOf
  <1> HIDE DEF w, p
  <1>6. q \in Nat \ {0}
    <2>1. PICK s : s \in T
      OBVIOUS
    <2>2. \A x \in T : w[x] \in Nat
      BY <1>3
    <2>3. q \in Nat /\ w[s] <= q
      BY <1>1, <2>1, <2>2, SumNatural
    <2> QED BY <1>3, <2>1, <2>3
  <1>7. ASSUME NEW a \in [Selections -> Int], NEW k \in Int, NEW j \in Int,
               \A s \in T : k <= a[s] * price[s] * j
        PROVE  k * q <= SumOf(a, T) * p * j
    <2> DEFINE l == [s \in T |-> k * w[s]]
               r == [s \in T |-> (p * j) * a[s]]
    <2>1. ASSUME NEW s \in T PROVE k * w[s] <= (p * j) * a[s]
      <3> DEFINE x == a[s]
                 y == price[s]
                 z == w[s]
      <3>1. x \in Int /\ y \in Int /\ z \in Nat /\ p = y * z /\ k <= x * y * j
        BY <1>3, <1>7
      <3> HIDE DEF x, y, z
      <3>2. x * y * j \in Int
        BY <3>1
      <3>3. (x * y * j) * z >= k * z
        BY <3>1, <3>2, TimesMonotone
      <3>4. (x * y * j) * z = ((y * z) * j) * x
        BY ONLY <3>1, j \in Int
      <3> QED BY <3>1, <3>3, <3>4 DEF x, z
    <2>2. \A s \in T : /\ w[s] \in Int /\ a[s] \in Int /\ l[s] = k * w[s] /\ r[s] = (p * j) * a[s]
                       /\ l[s] \in Int /\ r[s] \in Int /\ l[s] <= r[s]
      BY <1>2, <1>3, <2>1
    <2> HIDE DEF l, r
    <2>3. SumOf(l, T) = k * SumOf(w, T)
      BY ONLY <1>1, <2>2, k \in Int, SumScales
    <2>4. SumOf(r, T) = (p * j) * SumOf(a, T)
      <3>1. p * j \in Int
        BY <1>2
      <3> DEFINE c == p * j
      <3>2. c \in Int /\ \A s \in T : a[s] \in Int /\ r[s] = c * a[s]
        BY <2>2, <3>1
      <3> HIDE DEF c
      <3>3. SumOf(r, T) = c * SumOf(a, T)
        BY ONLY <1>1, <3>2, SumScales
      <3> QED BY <3>3 DEF c
    <2>5. SumOf(l, T) <= SumOf(r, T)
      BY ONLY <1>1, <2>2, SumMonotone
    <2>6. SumOf(a, T) \in Int
      <3>1. \A s \in T : a[s] \in Int
        BY <2>2
      <3> QED BY ONLY <1>1, <3>1, SumFacts
    <2>7. (p * j) * SumOf(a, T) = SumOf(a, T) * p * j
      BY ONLY <2>6, <1>2, j \in Int
    <2> QED BY <2>3, <2>4, <2>5, <2>7
  <1> QED BY <1>2, <1>4, <1>5, <1>6, <1>7 DEF w, p

\* Bounds that are positive where the target is sought.
HasMinima(e) == \A s \in Selections : e[s].minimum \in Nat \ {0}

Remainder(e, bankroll, T) == bankroll - MinimumTotal(e, Selections \ T)
Division(price, e, bankroll, T) ==
  [num |-> TargetNumerator(price, T, Remainder(e, bankroll, T)), den |-> TargetDenominator(price, T)]
Violating(price, e, bankroll, T) ==
  {s \in T : Division(price, e, bankroll, T).num * PriceUnit
               < e[s].minimum * price[s] * Division(price, e, bankroll, T).den}

\* What minima leave for T suffices for the minima of T, and for stakes that
\* respect the minima it suffices for those of T.
LEMMA RemainderSuffices ==
  ASSUME NEW e, HasMinima(e), NEW bankroll \in Nat, NEW T \in SUBSET Selections,
         NEW a \in [Selections -> Int], \A s \in Selections : a[s] >= e[s].minimum,
         SumOf(a, Selections) <= bankroll
  PROVE  /\ Remainder(e, bankroll, T) \in Int /\ SumOf(a, T) \in Int
         /\ SumOf(a, T) <= Remainder(e, bankroll, T)
  <1> DEFINE m == [s \in Selections |-> e[s].minimum]
             U == Selections \ T
  <1>1. IsFiniteSet(Selections) /\ U \in SUBSET Selections /\ IsFiniteSet(U)
    BY SelectionsAssumption, FS_Subset
  <1>2. MinimumTotal(e, U) = SumOf(m, U)
    BY <1>1, MinimumTotalIsSum
  <1>3. \A s \in Selections : m[s] \in Int /\ a[s] \in Int /\ m[s] <= a[s]
    BY DEF HasMinima
  <1> HIDE DEF m
  <1>4. SumOf(a, Selections) = SumOf(a, T) + SumOf(a, U)
    BY <1>1, SumSplits
  <1> HIDE DEF U
  <1>5. SumOf(m, U) <= SumOf(a, U)
    BY <1>1, <1>3, SumMonotone
  <1>6. SumOf(m, U) \in Int /\ SumOf(a, U) \in Int /\ SumOf(a, T) \in Int
    <2>1. \A s \in Selections : m[s] \in Int
      BY <1>3
    <2>2. SumOf(m, U) \in Int
      BY <1>1, <2>1, SumFacts
    <2>3. SumOf(a, U) \in Int /\ SumOf(a, T) \in Int
      BY <1>1, SumFacts
    <2> QED BY <2>2, <2>3
  <1>7. Remainder(e, bankroll, T) = bankroll - SumOf(m, U)
    BY <1>2 DEF Remainder, U
  <1> QED BY <1>4, <1>5, <1>6, <1>7

\* A division over some selections is one of integers by a positive integer.
LEMMA DivisionType ==
  ASSUME NEW price \in [Selections -> Nat \ {0}], NEW e, HasMinima(e), NEW bankroll \in Nat,
         NEW T \in SUBSET Selections
  PROVE  /\ Division(price, e, bankroll, T) \in [num : Int, den : Int]
         /\ T # {} => Division(price, e, bankroll, T).den > 0
  <1> DEFINE m == [s \in Selections |-> e[s].minimum]
             U == Selections \ T
  <1>1. IsFiniteSet(Selections) /\ U \in SUBSET Selections /\ IsFiniteSet(U)
    BY SelectionsAssumption, FS_Subset
  <1>2. MinimumTotal(e, U) = SumOf(m, U)
    BY <1>1, MinimumTotalIsSum
  <1>3. \A s \in Selections : m[s] \in Int
    BY DEF HasMinima
  <1> HIDE DEF m
  <1>4. Remainder(e, bankroll, T) \in Int
    BY <1>1, <1>2, <1>3, SumFacts DEF Remainder
  <1>5. CASE T # {}
    <2> DEFINE q == SumOf([s \in Selections |-> ProductOf(price, T \ {s})], T)
               p == ProductOf(price, T)
    <2>1. /\ q \in Nat \ {0} /\ p \in Nat \ {0} /\ TargetDenominator(price, T) = 10 * q
          /\ TargetNumerator(price, T, Remainder(e, bankroll, T)) = Remainder(e, bankroll, T) * p
      BY <1>5, FairShare
    <2> HIDE DEF q, p
    <2>2. TargetDenominator(price, T) \in Int /\ TargetDenominator(price, T) > 0
      BY <2>1
    <2>3. Remainder(e, bankroll, T) * p \in Int
      BY <1>4, <2>1
    <2> QED BY <2>1, <2>2, <2>3 DEF Division
  <1>6. CASE T = {}
    <2>1. TargetDenominator(price, {}) = PriceUnit * 0
      <3>1. SumOf([s \in Selections |-> ProductOf(price, {} \ {s})], {}) = 0
        <4> DEFINE w == [s \in Selections |-> ProductOf(price, {} \ {s})]
        <4>1. IsFiniteSet({}) /\ \A x \in {} : w[x] \in Int
          BY FS_EmptySet
        <4> HIDE DEF w
        <4>2. SumOf(w, {}) = 0
          BY <4>1, SumFacts
        <4> QED BY <4>2 DEF w
      <3>2. {} \in SUBSET Selections
        OBVIOUS
      <3> QED BY <3>1, <3>2, DenominatorIsSum
    <2>2. Product(price, {}) = 1
      <3>1. Product(price, {}) = ProductOf(price, {})
        BY DEF Product, ProductOf
      <3> QED BY <1>1, <3>1, ProductPositive
    <2>3. TargetNumerator(price, T, Remainder(e, bankroll, T)) = Remainder(e, bankroll, T)
      BY <1>4, <1>6, <2>2 DEF TargetNumerator
    <2> QED BY <1>4, <1>6, <2>1, <2>3 DEF Division, PriceUnit
  <1> QED BY <1>5, <1>6

\* Not all selections are below their minimum: fixing some leaves others.
LEMMA SomeStayFree ==
  ASSUME NEW price \in [Selections -> Nat \ {0}], NEW e, HasMinima(e), NEW bankroll \in Nat,
         MinimumTotal(e, Selections) <= bankroll, NEW T \in SUBSET Selections, T # {}
  PROVE  T \ Violating(price, e, bankroll, T) # {}
  <1> SUFFICES ASSUME T \ Violating(price, e, bankroll, T) = {} PROVE FALSE
    OBVIOUS
  <1> DEFINE m == [s \in Selections |-> e[s].minimum]
             q == SumOf([s \in Selections |-> ProductOf(price, T \ {s})], T)
             p == ProductOf(price, T)
             R == Remainder(e, bankroll, T)
             n == Division(price, e, bankroll, T).num
             d == Division(price, e, bankroll, T).den
  <1>1. \A s \in T : n * PriceUnit < e[s].minimum * price[s] * d
    BY DEF Violating
  <1>2. m \in [Selections -> Int] /\ \A s \in Selections : m[s] = e[s].minimum /\ m[s] >= e[s].minimum
    BY DEF HasMinima
  <1>3. SumOf(m, Selections) <= bankroll
    BY MinimumTotalIsSum
  <1> HIDE DEF m
  <1>4. R \in Int /\ SumOf(m, T) \in Int /\ SumOf(m, T) <= R
    BY <1>2, <1>3, RemainderSuffices
  <1>5. /\ q \in Nat \ {0} /\ p \in Nat \ {0} /\ n = R * p /\ d = 10 * q
        /\ \A k, j \in Int : (\A s \in T : k <= m[s] * price[s] * j) => k * q <= SumOf(m, T) * p * j
    BY <1>2, FairShare DEF Division
  <1>6. n \in Int /\ d \in Int
    BY DivisionType
  <1> HIDE DEF q, p, R, n, d
  <1>7. \A s \in T : n * 10 + 1 <= m[s] * price[s] * d
    <2> SUFFICES ASSUME NEW s \in T PROVE n * 10 + 1 <= m[s] * price[s] * d
      OBVIOUS
    <2>1. n * 10 < m[s] * price[s] * d
      BY <1>1, <1>2 DEF PriceUnit
    <2>2. m[s] * price[s] * d \in Int
      BY <1>2, <1>6
    <2> QED BY <1>6, <2>1, <2>2
  <1>8. (n * 10 + 1) * q <= SumOf(m, T) * p * d
    BY <1>5, <1>6, <1>7
  <1> DEFINE x == SumOf(m, T)
  <1>9. x * p * d <= R * p * d
    <2>1. p * d \in Nat
      BY <1>5
    <2>2. R * (p * d) >= x * (p * d)
      BY <1>4, <2>1, TimesMonotone
    <2>3. R * (p * d) = R * p * d /\ x * (p * d) = x * p * d
      BY ONLY <1>4, <1>5, <1>6
    <2>4. x * p * d \in Int /\ R * p * d \in Int
      BY ONLY <1>4, <1>5, <1>6
    <2> QED BY <2>2, <2>3, <2>4
  <1> HIDE DEF x
  <1>10. R * p * d = n * 10 * q
    <2>1. R * p * d = n * d
      BY <1>5
    <2>2. n * d = n * 10 * q
      BY ONLY <1>5, <1>6
    <2> QED BY <2>1, <2>2
  <1>11. (n * 10 + 1) * q = n * 10 * q + q
    BY ONLY <1>5, <1>6
  <1>12. n * 10 * q \in Int /\ x * p * d \in Int
    BY ONLY <1>4, <1>5, <1>6 DEF x
  <1> QED BY <1>5, <1>8, <1>9, <1>10, <1>11, <1>12 DEF x

\* The recursion of the continuous target ends at a division over some
\* selections.
LEMMA TargetIsDivision ==
  ASSUME NEW price \in [Selections -> Nat \ {0}], NEW e, HasMinima(e), NEW bankroll \in Nat,
         MinimumTotal(e, Selections) <= bankroll
  PROVE  \E T \in SUBSET Selections :
           T # {} /\ ContinuousTarget(price, e, bankroll) = Division(price, e, bankroll, T)
  <1> DEFINE S == Selections
             V == [num : Int, den : Int]
             viol(T) == Violating(price, e, bankroll, T)
             share(T) == Division(price, e, bankroll, T)
             stop == {T \in SUBSET S : viol(T) = {}}
             value == [T \in SUBSET S |-> share(T)]
             smaller == [T \in SUBSET S |-> T \ viol(T)]
             combine == [c \in (SUBSET S) \X V |-> c[2]]
             body(f) == [T \in SUBSET S |-> IF viol(T) = {} THEN share(T) ELSE f[T \ viol(T)]]
             target == CHOOSE f : f = body(f)
  <1>1. ContinuousTarget(price, e, bankroll) = target[S]
    <2>1. MinimumTotal(e, Selections) \in Int
      <3>1. \A s \in Selections : [x \in Selections |-> e[x].minimum][s] \in Int
        BY DEF HasMinima
      <3> DEFINE m == [x \in Selections |-> e[x].minimum]
      <3>2. MinimumTotal(e, Selections) = SumOf(m, Selections)
        BY MinimumTotalIsSum
      <3> HIDE DEF m
      <3>3. SumOf(m, Selections) \in Int
        BY <3>1, SelectionsAssumption, SumFacts DEF m
      <3> QED BY <3>2, <3>3
    <2> QED BY <2>1 DEF ContinuousTarget, Violating, Division, Remainder
  <1>2. \A T \in SUBSET S : share(T) \in V /\ viol(T) \subseteq T
    BY DivisionType DEF Violating
  <1>3. \A T \in SUBSET S : T # {} => T \ viol(T) # {}
    BY SomeStayFree
  <1> HIDE DEF viol, share, V
  <1>4. target = body(target)
    <2>1. /\ stop \in SUBSET (SUBSET S) /\ value \in [SUBSET S -> V]
          /\ smaller \in [SUBSET S -> SUBSET S] /\ combine \in [(SUBSET S) \X V -> V]
      BY <1>2
    <2>2. \A T \in SUBSET S : T \notin stop => smaller[T] \subseteq T /\ smaller[T] # T
      BY <1>2
    <2>3. IsFiniteSet(S)
      BY SelectionsAssumption
    <2>4. PICK f \in [SUBSET S -> V] : \A T \in SUBSET S :
            f[T] = IF T \in stop THEN value[T] ELSE combine[<<T, f[smaller[T]]>>]
      <3> HIDE DEF stop, value, smaller, combine, S
      <3>1. Descents(S, V, stop, value, smaller, combine) # {}
        BY <2>1, <2>2, <2>3, DescentExists
      <3> QED BY <3>1 DEF Descents
    <2>5. \A T \in SUBSET S : f[T] = IF viol(T) = {} THEN share(T) ELSE f[T \ viol(T)]
      <3> SUFFICES ASSUME NEW T \in SUBSET S
                   PROVE  f[T] = IF viol(T) = {} THEN share(T) ELSE f[T \ viol(T)]
        OBVIOUS
      <3>1. smaller[T] = T \ viol(T) /\ f[smaller[T]] \in V
        OBVIOUS
      <3>2. combine[<<T, f[smaller[T]]>>] = f[smaller[T]]
        BY <3>1
      <3> QED BY <2>4, <3>1, <3>2
    <2>6. f = body(f)
      BY <2>5
    <2> HIDE DEF body
    <2> QED BY <2>6
  <1> HIDE DEF target
  <1> DEFINE ends(T) == \E R \in SUBSET S : R # {} /\ target[T] = share(R)
             bad == {T \in SUBSET S : T # {} /\ ~ends(T)}
  <1>5. bad = {}
    <2>1. SUFFICES ASSUME bad # {} PROVE FALSE
      OBVIOUS
    <2>2. PICK T \in bad : \A u \in bad : ~(u \subseteq T /\ u # T)
      <3>1. bad \in SUBSET (SUBSET S) /\ IsFiniteSet(S)
        BY SelectionsAssumption
      <3> HIDE DEF bad, S
      <3> QED BY <2>1, <3>1, MinimalSubset
    <2>3. target[T] = IF viol(T) = {} THEN share(T) ELSE target[T \ viol(T)]
      BY <1>4, <2>2
    <2>4. viol(T) # {}
      BY <2>2, <2>3
    <2>5. T \ viol(T) \in SUBSET S /\ T \ viol(T) # {} /\ T \ viol(T) # T
      BY <1>2, <1>3, <2>2, <2>4
    <2>6. T \ viol(T) \notin bad
      BY <2>2, <2>5
    <2>7. ends(T \ viol(T)) /\ target[T] = target[T \ viol(T)]
      BY <2>3, <2>4, <2>5, <2>6
    <2> QED BY <2>2, <2>7
  <1>6. S \in SUBSET S /\ S # {}
    BY SelectionsAssumption
  <1>7. PICK R \in SUBSET S : R # {} /\ target[S] = share(R)
    BY <1>5, <1>6
  <1> QED BY <1>1, <1>7 DEF share

\* Stakes within the bankroll and not below the minima never win more than the
\* continuous target on every selection.
LEMMA TargetBoundsPayout ==
  ASSUME NEW price \in [Selections -> Nat \ {0}], NEW e, HasMinima(e), NEW bankroll \in Nat,
         NEW a \in [Selections -> Int], \A s \in Selections : a[s] >= e[s].minimum,
         SumOf(a, Selections) <= bankroll,
         NEW c \in Int, \A s \in Selections : c * PriceUnit <= a[s] * price[s]
  PROVE  LET t == ContinuousTarget(price, e, bankroll)
         IN  t \in [num : Int, den : Int] /\ t.den > 0 /\ c * t.den <= t.num
  <1> DEFINE m == [s \in Selections |-> e[s].minimum]
  <1>1. MinimumTotal(e, Selections) <= bankroll
    <2>1. \A s \in Selections : m[s] \in Int /\ a[s] \in Int /\ m[s] <= a[s]
      BY DEF HasMinima
    <2>2. MinimumTotal(e, Selections) = SumOf(m, Selections)
      BY MinimumTotalIsSum
    <2> HIDE DEF m
    <2>3. SumOf(m, Selections) <= SumOf(a, Selections)
      BY <2>1, SelectionsAssumption, SumMonotone
    <2>4. SumOf(m, Selections) \in Int /\ SumOf(a, Selections) \in Int
      <3>1. \A s \in Selections : m[s] \in Int
        BY <2>1
      <3>2. SumOf(m, Selections) \in Int
        BY <3>1, SelectionsAssumption, SumFacts
      <3>3. SumOf(a, Selections) \in Int
        BY SelectionsAssumption, SumFacts
      <3> QED BY <3>2, <3>3
    <2> QED BY <2>2, <2>3, <2>4
  <1>2. PICK T \in SUBSET Selections :
          T # {} /\ ContinuousTarget(price, e, bankroll) = Division(price, e, bankroll, T)
    BY <1>1, TargetIsDivision
  <1> DEFINE q == SumOf([s \in Selections |-> ProductOf(price, T \ {s})], T)
             p == ProductOf(price, T)
             R == Remainder(e, bankroll, T)
             x == SumOf(a, T)
  <1>3. R \in Int /\ x \in Int /\ x <= R
    BY RemainderSuffices
  <1>4. /\ q \in Nat \ {0} /\ p \in Nat \ {0}
        /\ Division(price, e, bankroll, T).num = R * p /\ Division(price, e, bankroll, T).den = 10 * q
        /\ \A k, j \in Int : (\A s \in T : k <= a[s] * price[s] * j) => k * q <= x * p * j
    BY <1>2, FairShare DEF Division
  <1>5. Division(price, e, bankroll, T) \in [num : Int, den : Int] /\ Division(price, e, bankroll, T).den > 0
    BY <1>2, DivisionType
  <1> HIDE DEF q, p, R, x
  <1>6. \A s \in T : c * 10 <= a[s] * price[s] * 1
    <2> SUFFICES ASSUME NEW s \in T PROVE c * 10 <= a[s] * price[s] * 1
      OBVIOUS
    <2>1. a[s] * price[s] \in Int /\ c * 10 <= a[s] * price[s]
      BY DEF PriceUnit
    <2> QED BY <2>1
  <1>7. (c * 10) * q <= x * p * 1
    BY <1>4, <1>6
  <1>8. R * p >= x * p
    BY <1>3, <1>4, TimesMonotone
  <1>9. x * p \in Int /\ R * p \in Int /\ x * p * 1 = x * p /\ (c * 10) * q = c * (10 * q) /\ c * (10 * q) \in Int
    BY ONLY <1>3, <1>4, c \in Int
  <1>10. c * (10 * q) <= R * p
    BY <1>7, <1>8, <1>9
  <1> QED BY <1>2, <1>4, <1>5, <1>10

-----------------------------------------------------------------------------
(* The stakes of a target are the least that pay it.                       *)

\* A quotient reaches k just when the dividend reaches k times the divisor.
LEMMA QuotientReaches ==
  ASSUME NEW n \in Int, NEW d \in Nat \ {0}, NEW k \in Int
  PROVE  n \div d >= k <=> n >= k * d
  <1> DEFINE q == n \div d
             r == n % d
  <1>1. q \in Int /\ r \in Int /\ n = d * q + r /\ 0 <= r /\ r < d
    OBVIOUS
  <1> HIDE DEF q, r
  <1>2. ASSUME q >= k PROVE n >= k * d
    <2>1. q * d >= k * d
      BY <1>1, <1>2, TimesMonotone
    <2>2. q * d = d * q /\ q * d \in Int /\ k * d \in Int
      BY <1>1
    <2> QED BY <1>1, <2>1, <2>2
  <1>3. ASSUME ~(q >= k) PROVE ~(n >= k * d)
    <2>1. k \in Int /\ q + 1 \in Int /\ k >= q + 1
      BY <1>1, <1>3
    <2>2. k * d >= (q + 1) * d
      BY <2>1, TimesMonotone
    <2>3. (q + 1) * d = d * q + d /\ d * q \in Int /\ k * d \in Int
      BY <1>1
    <2> QED BY <1>1, <2>2, <2>3
  <1> QED BY <1>2, <1>3 DEF q

\* A stake on the grid reaches a value just when it reaches the value rounded up.
LEMMA CeilIsLeast ==
  ASSUME NEW v \in Nat, NEW step \in Nat \ {0}, NEW x \in Nat, x % step = 0
  PROVE  x >= v <=> x >= CeilToGrid(v, step)
  <1> DEFINE c == (v + step - 1) \div step
             q == x \div step
  <1>1. q \in Int /\ x = q * step
    <2>1. q \in Int /\ x = step * q + 0
      OBVIOUS
    <2> QED BY <2>1
  <1>2. CeilToGrid(v, step) = c * step /\ c \in Int /\ CeilToGrid(v, step) >= v /\ CeilToGrid(v, step) \in Nat
    BY CeilOnGrid DEF CeilToGrid
  <1>3. ASSUME x >= v PROVE x >= CeilToGrid(v, step)
    <2>1. CASE c >= q + 1
      <3>1. v + step - 1 >= (q + 1) * step
        <4>1. v + step - 1 \in Int /\ q + 1 \in Int
          BY <1>1
        <4> QED BY <2>1, <4>1, QuotientReaches
      <3>2. (q + 1) * step = q * step + step
        BY <1>1
      <3> QED BY <1>1, <1>3, <3>1, <3>2
    <2>2. CASE ~(c >= q + 1)
      <3>1. q >= c
        BY <1>1, <1>2, <2>2
      <3> HIDE DEF c, q
      <3>2. q * step >= c * step
        BY <1>1, <1>2, <3>1, TimesMonotone
      <3> QED BY <1>1, <1>2, <3>2
    <2> QED BY <2>1, <2>2
  <1>4. ASSUME x >= CeilToGrid(v, step) PROVE x >= v
    BY <1>2, <1>4
  <1> QED BY <1>3, <1>4

\* _minimum_stake_for_target: of the stakes on the grid that are not below the
\* minimum, just those that reach it pay the target.
LEMMA StakeIsLeast ==
  ASSUME NEW price \in Nat \ {0}, NEW e, NEW target \in Nat,
         e.increment \in Nat \ {0}, e.minimum \in Nat \ {0}, e.minimum % e.increment = 0,
         NEW x \in Nat, x % e.increment = 0, x >= e.minimum
  PROVE  ConservativePayout(x, price) >= target <=> x >= MinimumStake(price, e, target)
  <1> DEFINE need == (target * PriceUnit + price - 1) \div price
             g == CeilToGrid(need, e.increment)
  <1>1. target * PriceUnit + price - 1 \in Nat /\ target * PriceUnit \in Nat /\ x * price \in Nat
    BY DEF PriceUnit
  <1>2. need \in Nat
    BY <1>1
  <1>3. g \in Nat
    BY <1>2, CeilOnGrid
  <1>4. x >= need <=> x >= g
    BY <1>2, CeilIsLeast
  <1>5. x >= need <=> x * price >= target * PriceUnit
    <2>1. need >= x + 1 <=> target * PriceUnit + price - 1 >= (x + 1) * price
      BY <1>1, QuotientReaches
    <2>2. (x + 1) * price = x * price + price
      OBVIOUS
    <2> HIDE DEF need
    <2> QED BY <1>1, <1>2, <2>1, <2>2
  <1>6. ConservativePayout(x, price) >= target <=> x * price >= target * PriceUnit
    BY <1>1, QuotientReaches DEF ConservativePayout, PriceUnit
  <1>7. MinimumStake(price, e, target) = Larger(e.minimum, g)
    BY DEF MinimumStake, Larger
  <1> HIDE DEF g, need
  <1>8. /\ Larger(e.minimum, g) \in {e.minimum, g}
        /\ Larger(e.minimum, g) >= e.minimum /\ Larger(e.minimum, g) >= g
    BY <1>3, MaxOfTwo
  <1>9. x >= g <=> x >= Larger(e.minimum, g)
    BY <1>3, <1>8
  <1> QED BY <1>4, <1>5, <1>6, <1>7, <1>9

\* A constraint that _effective_constraints has moved to the grid.
OnGrid(e) ==
  /\ e.increment \in Nat \ {0} /\ e.minimum \in Nat \ {0} /\ e.minimum % e.increment = 0
  /\ e.maximum # NoLimit => e.maximum \in Nat /\ e.maximum % e.increment = 0

\* The bounds moved to the grid are on it, and bound the same stakes.
LEMMA EffectiveIsOnGrid ==
  ASSUME NEW c \in StakeConstraint
  PROVE  LET e == EffectiveConstraint(c)
         IN  /\ OnGrid(e) /\ e.increment = c.increment
             /\ \A x \in Nat \ {0} :
                  x % c.increment = 0 /\ x >= c.minimum
                  /\ (c.maximum = NoLimit \/ x <= c.maximum)
                    => /\ x >= e.minimum
                       /\ e.maximum # NoLimit => x <= e.maximum
  <1> DEFINE i == c.increment
             e == EffectiveConstraint(c)
  <1>1. i \in Nat \ {0} /\ c.minimum \in Nat /\ (c.maximum # NoLimit => c.maximum \in Nat)
    BY DEF StakeConstraint
  <1>2. /\ e.increment = i /\ e.minimum \in Nat \ {0} /\ e.minimum % i = 0
        /\ c.maximum # NoLimit => e.maximum \in Nat /\ e.maximum # NoLimit
    BY EffectiveIsWithin
  <1>3. /\ e.minimum = Larger(i, CeilToGrid(c.minimum, i))
        /\ c.maximum # NoLimit => e.maximum = FloorToGrid(c.maximum, i)
        /\ c.maximum = NoLimit => e.maximum = NoLimit
    BY DEF EffectiveConstraint, Larger
  <1>4. c.maximum # NoLimit => e.maximum % i = 0
    <2> SUFFICES ASSUME c.maximum # NoLimit PROVE e.maximum % i = 0
      OBVIOUS
    <2> DEFINE q == c.maximum \div i
    <2>1. q \in Int /\ e.maximum = q * i
      BY <1>1, <1>3 DEF FloorToGrid
    <2> HIDE DEF q, i
    <2> QED BY <1>1, <2>1, MultipleOnGrid
  <1>5. OnGrid(e)
    <2> HIDE DEF e
    <2>1. e.maximum # NoLimit => e.maximum \in Nat /\ e.maximum % i = 0
      BY <1>2, <1>3, <1>4
    <2> HIDE DEF i
    <2>2. e.increment \in Nat \ {0} /\ e.minimum \in Nat \ {0} /\ e.minimum % e.increment = 0
      BY <1>1, <1>2
    <2>3. e.maximum # NoLimit => e.maximum \in Nat /\ e.maximum % e.increment = 0
      BY <1>2, <2>1
    <2> QED BY <2>2, <2>3 DEF OnGrid
  <1>6. ASSUME NEW x \in Nat \ {0}, x % i = 0, x >= c.minimum,
               c.maximum = NoLimit \/ x <= c.maximum
        PROVE  x >= e.minimum /\ (e.maximum # NoLimit => x <= e.maximum)
    <2> DEFINE q == x \div i
    <2>1. q \in Int /\ x = q * i
      <3>1. q \in Int /\ x = i * q + 0
        BY <1>1, <1>6
      <3> QED BY <1>1, <3>1
    <2>2. x >= CeilToGrid(c.minimum, i) /\ CeilToGrid(c.minimum, i) \in Nat
      BY <1>1, <1>6, CeilIsLeast, CeilOnGrid
    <2>3. x >= i
      <3>1. q >= 1
        <4>1. CASE q <= 0
          <5> HIDE DEF q, i
          <5>1. 0 * i >= q * i
            BY <1>1, <2>1, <4>1, TimesMonotone
          <5> QED BY <1>1, <2>1, <5>1
        <4> HIDE DEF q
        <4> QED BY <2>1, <4>1
      <3> HIDE DEF q, i
      <3>2. q * i >= 1 * i
        BY <1>1, <2>1, <3>1, TimesMonotone
      <3> QED BY <1>1, <2>1, <3>2
    <2>4. x >= e.minimum
      <3> DEFINE g == CeilToGrid(c.minimum, i)
      <3>1. Larger(i, g) \in {i, g}
        BY <1>1, <2>2, MaxOfTwo
      <3> HIDE DEF g, i
      <3> QED BY <1>3, <2>2, <2>3, <3>1 DEF g
    <2>5. ASSUME c.maximum # NoLimit PROVE x <= e.maximum
      <3> DEFINE f == c.maximum \div i
      <3>1. e.maximum = f * i /\ f \in Int /\ c.maximum \in Int
        BY <1>1, <1>3, <2>5 DEF FloorToGrid
      <3>2. c.maximum >= q * i
        BY <1>1, <1>6, <2>1, <2>5, NoLimitAssumption
      <3>3. f >= q
        <4> HIDE DEF q, i
        <4> QED BY <1>1, <2>1, <3>1, <3>2, QuotientReaches
      <3> HIDE DEF f, q, i, e
      <3>4. f * i >= q * i
        BY <1>1, <2>1, <3>1, <3>3, TimesMonotone
      <3> QED BY <1>1, <2>1, <3>1, <3>4
    <2> QED BY <1>3, <2>4, <2>5
  <1> QED BY <1>2, <1>5, <1>6

-----------------------------------------------------------------------------
(* The search skips no plan.                                               *)

\* The stakes of a target.
Stakes(price, e, t) == [s \in Selections |-> MinimumStake(price[s], e[s], t)]

\* The plan with these stakes.
PlanWith(price, amount) ==
  LET payout == Min({ConservativePayout(amount[s], price[s]) : s \in Selections})
  IN  [amounts |-> amount, total |-> StakeTotal(amount), payout |-> payout,
       profit |-> payout - StakeTotal(amount)]

\* A stake on the grid is a multiple of the increment.
LEMMA GridIsMultiple ==
  ASSUME NEW x \in Nat, NEW step \in Nat \ {0}, x % step = 0
  PROVE  x \div step \in Int /\ x = (x \div step) * step
  <1>1. x \div step \in Int /\ x = step * (x \div step) + 0
    OBVIOUS
  <1> QED BY <1>1

\* A target that every maximum can pay, with bounds that leave a stake.
WithinCaps(price, e, t) ==
  \A s \in Selections : Feasible(e[s]) /\
    (e[s].maximum # NoLimit => ConservativePayout(e[s].maximum, price[s]) >= t)

\* The stakes of a target are on the grid, pay the target, and no smaller stakes
\* on the grid do.
LEMMA StakesOfTarget ==
  ASSUME NEW price \in [Selections -> Nat \ {0}], NEW e, \A s \in Selections : OnGrid(e[s]), NEW t \in Nat
  PROVE  /\ Stakes(price, e, t) \in [Selections -> Nat \ {0}]
         /\ \A s \in Selections :
              /\ Stakes(price, e, t)[s] % e[s].increment = 0
              /\ Stakes(price, e, t)[s] >= e[s].minimum
              /\ ConservativePayout(Stakes(price, e, t)[s], price[s]) >= t
              /\ \A x \in Nat : x % e[s].increment = 0 /\ x >= e[s].minimum =>
                   (ConservativePayout(x, price[s]) >= t <=> x >= Stakes(price, e, t)[s])
  <1> DEFINE m == Stakes(price, e, t)
  <1>1. ASSUME NEW s \in Selections
        PROVE  /\ m[s] \in Nat \ {0} /\ m[s] % e[s].increment = 0 /\ m[s] >= e[s].minimum
               /\ ConservativePayout(m[s], price[s]) >= t
               /\ \A x \in Nat : x % e[s].increment = 0 /\ x >= e[s].minimum =>
                    (ConservativePayout(x, price[s]) >= t <=> x >= m[s])
    <2>1. /\ price[s] \in Nat \ {0} /\ e[s].increment \in Nat \ {0} /\ e[s].minimum \in Nat \ {0}
          /\ e[s].minimum % e[s].increment = 0
      BY DEF OnGrid
    <2>2. m[s] = MinimumStake(price[s], e[s], t)
      BY DEF Stakes
    <2> HIDE DEF m
    <2>3. m[s] \in Nat \ {0} /\ m[s] % e[s].increment = 0 /\ m[s] >= e[s].minimum
      BY <2>1, <2>2, StakeOnGrid
    <2>4. \A x \in Nat : x % e[s].increment = 0 /\ x >= e[s].minimum =>
            (ConservativePayout(x, price[s]) >= t <=> x >= m[s])
      BY <2>1, <2>2, StakeIsLeast
    <2> QED BY <2>3, <2>4
  <1>2. m \in [Selections -> Nat \ {0}]
    BY <1>1 DEF Stakes
  <1> HIDE DEF m
  <1> QED BY <1>1, <1>2 DEF m

\* A larger target takes no smaller stakes.
LEMMA StakesMonotone ==
  ASSUME NEW price \in [Selections -> Nat \ {0}], NEW e, \A s \in Selections : OnGrid(e[s]),
         NEW t \in Nat, NEW u \in Nat, t <= u, NEW s \in Selections
  PROVE  Stakes(price, e, t)[s] <= Stakes(price, e, u)[s]
  <1> DEFINE x == Stakes(price, e, u)[s]
  <1>1. /\ x \in Nat /\ x % e[s].increment = 0 /\ x >= e[s].minimum
        /\ ConservativePayout(x, price[s]) >= u
    BY StakesOfTarget
  <1>2. price[s] \in Nat
    OBVIOUS
  <1>3. Stakes(price, e, t)[s] \in Nat
    BY StakesOfTarget
  <1> HIDE DEF x
  <1>4. ConservativePayout(x, price[s]) \in Nat
    BY <1>1, <1>2, PayoutIsNatural
  <1>5. ConservativePayout(x, price[s]) >= t
    BY <1>1, <1>4
  <1>6. x >= Stakes(price, e, t)[s]
    BY <1>1, <1>5, StakesOfTarget
  <1> QED BY <1>1, <1>3, <1>6 DEF x

\* Within the caps _evaluate_target_payout gives a plan with these stakes.
LEMMA PlanOfTarget ==
  ASSUME NEW price \in [Selections -> Nat \ {0}], NEW e, \A s \in Selections : OnGrid(e[s]),
         NEW t \in Nat, WithinCaps(price, e, t)
  PROVE  LET plan == TargetPlan(price, e, t)
             m == Stakes(price, e, t)
         IN  /\ plan # NoPlan /\ plan = PlanWith(price, m)
             /\ plan.amounts = m /\ plan.total = StakeTotal(m) /\ plan.total \in Nat
             /\ plan.payout \in Nat /\ plan.profit = plan.payout - plan.total
             /\ \E s \in Selections : plan.payout = ConservativePayout(m[s], price[s])
  <1> DEFINE m == Stakes(price, e, t)
             payouts == {ConservativePayout(m[s], price[s]) : s \in Selections}
             plan == [amounts |-> m, total |-> StakeTotal(m), payout |-> Min(payouts),
                      profit |-> Min(payouts) - StakeTotal(m)]
  <1>1. m \in [Selections -> Nat \ {0}] /\ m \in [Selections -> Nat]
    <2>1. m \in [Selections -> Nat \ {0}]
      BY StakesOfTarget
    <2> HIDE DEF m
    <2> QED BY <2>1
  <1>2. ASSUME NEW s \in Selections, e[s].maximum # NoLimit PROVE ~(m[s] > e[s].maximum)
    <2>1. /\ e[s].maximum \in Nat /\ e[s].maximum % e[s].increment = 0 /\ e[s].maximum >= e[s].minimum
          /\ ConservativePayout(e[s].maximum, price[s]) >= t
      BY <1>2 DEF OnGrid, WithinCaps, Feasible
    <2>2. e[s].maximum >= m[s]
      BY <2>1, StakesOfTarget
    <2> QED BY <1>1, <2>1, <2>2
  <1>3. TargetPlan(price, e, t) = plan /\ plan = PlanWith(price, m)
    BY <1>2 DEF TargetPlan, Stakes, PlanWith
  <1>4. payouts \in SUBSET Nat /\ payouts # {}
    <2>1. \A s \in Selections : price[s] \in Nat /\ m[s] \in Nat
      BY <1>1
    <2> HIDE DEF m
    <2>2. \A s \in Selections : ConservativePayout(m[s], price[s]) \in Nat
      BY <2>1, PayoutIsNatural
    <2> QED BY <2>2, SelectionsAssumption
  <1>5. Min(payouts) \in payouts
    <2> HIDE DEF payouts
    <2> QED BY <1>4, MinOfNaturals
  <1>6. Min(payouts) \in Nat /\ StakeTotal(m) \in Nat
    <2> HIDE DEF payouts, m
    <2> QED BY <1>1, <1>4, <1>5, TotalBoundsStakes
  <1>7. \E s \in Selections : Min(payouts) = ConservativePayout(m[s], price[s])
    BY <1>5
  <1> HIDE DEF payouts, m
  <1>8. plan \in [amounts : [Selections -> Nat], total : Nat, payout : Nat, profit : Int]
    BY <1>1, <1>6
  <1>9. plan # NoPlan
    BY <1>8, NoPlanAssumption
  <1>10. /\ plan.amounts = m /\ plan.total = StakeTotal(m) /\ plan.payout = Min(payouts)
         /\ plan.profit = plan.payout - plan.total
    OBVIOUS
  <1>11. \E s \in Selections : plan.payout = ConservativePayout(m[s], price[s])
    BY <1>7, <1>10
  <1>12. plan.total \in Nat /\ plan.payout \in Nat
    BY <1>6, <1>10
  <1> HIDE DEF plan
  <1> QED BY <1>3, <1>9, <1>10, <1>11, <1>12 DEF m

\* When some target below the start has an accepted plan, the search ends with
\* a plan: above it, either the stakes are the same, or those of some selection
\* can be lowered by an increment to a breakpoint that is still not below it.
LEMMA SearchCompletes ==
  ASSUME NEW price \in [Selections -> Nat \ {0}], NEW e, \A s \in Selections : OnGrid(e[s]),
         NEW bankroll \in Nat, NEW threshold \in Int, NEW start \in Nat, WithinCaps(price, e, start),
         NEW low \in Nat \ {0}, low <= start,
         Accepts(bankroll, threshold, TargetPlan(price, e, low)),
         \A t \in Nat : TargetPlan(price, e, t) # NoPlan =>
           NextTargets(price, e, TargetPlan(price, e, t), t) \in SUBSET Int
  PROVE  SafeDiscretePlan(price, e, bankroll, start, threshold) # NoPlan
  <1> DEFINE P(t) == TargetPlan(price, e, t)
             m(t) == Stakes(price, e, t)
             lower(t) == NextTargets(price, e, P(t), t)
             search == Search(price, e, bankroll, start, threshold)
             bad == {t \in low..start : search[t] = NoPlan}
  <1>1. start \in Nat \ {0}
    OBVIOUS
  <1>2. ASSUME NEW t \in low..start
        PROVE  WithinCaps(price, e, t) /\ t \in Nat \ {0} /\ t \in 0..start
    <2>1. t \in Nat \ {0} /\ t <= start /\ t \in 0..start
      OBVIOUS
    <2>2. ASSUME NEW s \in Selections, e[s].maximum # NoLimit
          PROVE  ConservativePayout(e[s].maximum, price[s]) >= t
      <3>1. e[s].maximum \in Nat /\ price[s] \in Nat
        BY <2>2 DEF OnGrid
      <3>2. ConservativePayout(e[s].maximum, price[s]) \in Nat
        BY <3>1, PayoutIsNatural
      <3>3. ConservativePayout(e[s].maximum, price[s]) >= start
        BY <2>2 DEF WithinCaps
      <3> QED BY <2>1, <3>2, <3>3
    <2> QED BY <2>1, <2>2 DEF WithinCaps
  <1>3. ASSUME NEW t \in low..start
        PROVE  P(t) # NoPlan /\ P(t).amounts = m(t) /\ (m(t) = m(low) => P(t) = P(low))
    <2>1. P(t) # NoPlan /\ P(t).amounts = m(t) /\ P(t) = PlanWith(price, m(t))
      BY <1>2, PlanOfTarget
    <2>2. low \in low..start
      OBVIOUS
    <2>3. P(low) = PlanWith(price, m(low))
      BY <1>2, <2>2, PlanOfTarget
    <2> HIDE DEF P, m
    <2> QED BY <2>1, <2>3
  <1>4. \A t \in low..start :
          search[t] = IF t = 0 \/ P(t) = NoPlan THEN NoPlan
                      ELSE IF Accepts(bankroll, threshold, P(t)) THEN P(t)
                      ELSE IF lower(t) = {} THEN NoPlan ELSE search[Max(lower(t))]
    BY <1>1, <1>2, SearchEquation
  <1>5. ASSUME NEW t \in low..start, ~Accepts(bankroll, threshold, P(t))
        PROVE  lower(t) # {} /\ Max(lower(t)) \in low..(t - 1)
    <2>1. m(t) # m(low)
      BY <1>3, <1>5
    <2>2. m(t) \in [Selections -> Nat \ {0}] /\ m(low) \in [Selections -> Nat \ {0}]
      BY <1>2, StakesOfTarget
    <2>3. PICK s \in Selections : m(t)[s] # m(low)[s]
      <3> HIDE DEF m
      <3> QED BY <2>1, <2>2
    <2>4. m(low)[s] <= m(t)[s]
      BY <1>2, StakesMonotone
    <2>5. /\ m(t)[s] % e[s].increment = 0
          /\ \A x \in Nat : x % e[s].increment = 0 /\ x >= e[s].minimum =>
               (ConservativePayout(x, price[s]) >= t <=> x >= m(t)[s])
      BY <1>2, StakesOfTarget
    <2>6. /\ m(low)[s] % e[s].increment = 0 /\ m(low)[s] >= e[s].minimum
          /\ \A x \in Nat : x % e[s].increment = 0 /\ x >= e[s].minimum =>
               (ConservativePayout(x, price[s]) >= low <=> x >= m(low)[s])
      BY StakesOfTarget
    <2> DEFINE i == e[s].increment
               x == m(t)[s] - i
               p == ConservativePayout(x, price[s])
    <2>7. i \in Nat \ {0} /\ e[s].minimum \in Nat /\ price[s] \in Nat
      BY DEF OnGrid
    <2>8. x >= m(low)[s] /\ x % i = 0
      <3> DEFINE a == m(t)[s] \div i
                 b == m(low)[s] \div i
      <3>1. /\ a \in Int /\ b \in Int /\ m(t)[s] \in Nat /\ m(low)[s] \in Nat
            /\ m(t)[s] = a * i /\ m(low)[s] = b * i
        <4> HIDE DEF m
        <4>1. m(t)[s] \in Nat /\ m(low)[s] \in Nat
          BY <2>2
        <4> QED BY <2>5, <2>6, <2>7, <4>1, GridIsMultiple
      <3>2. b < a
        <4>1. CASE b >= a
          <5> HIDE DEF a, b, i, m
          <5>1. b * i >= a * i
            BY <2>7, <3>1, <4>1, TimesMonotone
          <5> QED BY <2>3, <2>4, <3>1, <5>1
        <4> HIDE DEF a, b
        <4> QED BY <3>1, <4>1
      <3> HIDE DEF a, b, i, m
      <3>3. (a - 1) * i >= b * i
        <4>1. a - 1 \in Int /\ a - 1 >= b
          BY <3>1, <3>2
        <4> QED BY <2>7, <3>1, <4>1, TimesMonotone
      <3>4. (a - 1) * i = a * i - i
        BY ONLY <2>7, <3>1
      <3>5. ((a - 1) * i) % i = 0
        <4>1. a - 1 \in Int
          BY <3>1
        <4> QED BY <2>7, <4>1, MultipleOnGrid
      <3> QED BY <3>1, <3>3, <3>4, <3>5
    <2>9. x \in Nat /\ x < m(t)[s] /\ x >= e[s].minimum
      BY <2>2, <2>6, <2>7, <2>8
    <2> HIDE DEF x
    <2>10. p \in Nat /\ p >= low /\ ~(p >= t)
      <3>1. m(t)[s] \in Nat /\ m(low)[s] \in Nat
        <4> HIDE DEF m
        <4> QED BY <2>2
      <3>2. x % e[s].increment = 0
        BY <2>8
      <3>3. p >= low <=> x >= m(low)[s]
        BY <2>6, <2>9, <3>2
      <3>4. p >= t <=> x >= m(t)[s]
        BY <2>5, <2>9, <3>2
      <3>5. p \in Nat
        BY <2>7, <2>9, PayoutIsNatural
      <3> HIDE DEF m, p
      <3> QED BY <2>8, <2>9, <3>1, <3>3, <3>4, <3>5
    <2>11. p \in lower(t)
      <3>1. P(t).amounts[s] - e[s].increment = x /\ x >= e[s].minimum
        BY <1>3, <2>9 DEF x
      <3>2. 0 < p /\ p < t
        BY <1>2, <2>10
      <3> HIDE DEF P
      <3> QED BY <3>1, <3>2 DEF NextTargets, LowerPayouts
    <2>12. lower(t) \in SUBSET Int
      BY <1>2, <1>3
    <2>13. Max(lower(t)) \in 0..(t - 1)
      BY <1>2, <2>11, <2>12, SearchDescends
    <2>14. lower(t) \in SUBSET Nat /\ \A k \in lower(t) : k <= t
      BY <2>12 DEF NextTargets, LowerPayouts
    <2> HIDE DEF p, lower
    <2>15. \A k \in lower(t) : k <= Max(lower(t))
      BY <1>2, <2>11, <2>14, MaxOfNaturals
    <2>16. p <= Max(lower(t))
      BY <2>11, <2>15
    <2> QED BY <1>2, <2>10, <2>11, <2>13, <2>16
  <1> HIDE DEF P, m, lower, search
  <1>6. bad = {}
    <2> SUFFICES ASSUME bad # {} PROVE FALSE
      OBVIOUS
    <2>1. bad \in SUBSET Nat
      OBVIOUS
    <2>2. PICK t \in bad : \A k \in bad : t <= k
      BY <2>1, LeastNatural
    <2>3. t \in low..start /\ t # 0 /\ P(t) # NoPlan /\ search[t] = NoPlan
      BY <1>2, <1>3
    <2>4. ~Accepts(bankroll, threshold, P(t))
      BY <1>4, <2>3
    <2>5. lower(t) # {} /\ Max(lower(t)) \in low..(t - 1)
      BY <1>5, <2>3, <2>4
    <2>6. search[t] = search[Max(lower(t))]
      BY <1>4, <2>3, <2>4, <2>5
    <2>7. Max(lower(t)) \in bad /\ Max(lower(t)) < t
      BY <2>3, <2>5, <2>6
    <2> QED BY <2>2, <2>3, <2>7
  <1>7. start \in low..start
    OBVIOUS
  <1>8. search[start] # NoPlan
    BY <1>6, <1>7
  <1> QED BY <1>1, <1>8 DEF SafeDiscretePlan, search

\* A target at or just below the payout of safe stakes has an accepted plan:
\* its stakes are no larger, and when they cost less the cost drops at least as
\* much as the payout.
LEMMA SafePlanAccepted ==
  ASSUME NEW price \in [Selections -> Nat \ {0}], NEW e, \A s \in Selections : OnGrid(e[s]),
         NEW bankroll \in Nat, NEW threshold \in Int,
         NEW a \in [Selections -> Nat], StakeTotal(a) <= bankroll, NEW pays \in Nat,
         \A s \in Selections : /\ a[s] % e[s].increment = 0 /\ a[s] >= e[s].minimum
                               /\ ConservativePayout(a[s], price[s]) >= pays,
         pays - StakeTotal(a) > 0, pays - StakeTotal(a) >= threshold,
         NEW t \in Nat, WithinCaps(price, e, t), t <= pays, pays <= t + 1
  PROVE  Accepts(bankroll, threshold, TargetPlan(price, e, t))
  <1> DEFINE m == Stakes(price, e, t)
             h == Stakes(price, e, pays)
             plan == TargetPlan(price, e, t)
  <1>1. m \in [Selections -> Nat \ {0}] /\ h \in [Selections -> Nat \ {0}]
    BY StakesOfTarget
  <1>2. \A s \in Selections : m[s] <= h[s]
    BY StakesMonotone
  <1>3. \A s \in Selections : a[s] >= h[s]
    BY StakesOfTarget
  <1>4. PICK s \in Selections : plan.payout = ConservativePayout(m[s], price[s])
    BY PlanOfTarget
  <1>5. /\ plan.total = SumOf(m, Selections) /\ plan.total \in Nat /\ plan.payout \in Nat
        /\ plan.profit = plan.payout - plan.total
    <2>1. /\ plan.total = StakeTotal(m) /\ plan.total \in Nat /\ plan.payout \in Nat
          /\ plan.profit = plan.payout - plan.total
      BY PlanOfTarget
    <2>2. StakeTotal(m) = SumOf(m, Selections)
      BY DEF StakeTotal, SumOf
    <2> HIDE DEF plan, m
    <2> QED BY <2>1, <2>2
  <1>6. plan.payout >= t
    <2>1. ConservativePayout(m[s], price[s]) >= t
      BY StakesOfTarget
    <2> HIDE DEF m, plan
    <2> QED BY <1>4, <2>1
  <1>7. m = h => plan.payout >= pays
    <2>1. ConservativePayout(h[s], price[s]) >= pays
      BY StakesOfTarget
    <2> HIDE DEF m, h, plan
    <2> QED BY <1>4, <2>1
  <1>8. StakeTotal(a) = SumOf(a, Selections) /\ StakeTotal(a) \in Nat
    BY TotalBoundsStakes DEF StakeTotal, SumOf
  <1> HIDE DEF m, h, plan
  <1>9. \A x \in Selections : m[x] \in Int /\ a[x] \in Int /\ m[x] <= a[x]
    BY <1>1, <1>2, <1>3
  <1>10. SumOf(m, Selections) <= SumOf(a, Selections)
    BY <1>9, SelectionsAssumption, SumMonotone
  <1>11. CASE m = h
    BY <1>5, <1>7, <1>8, <1>10, <1>11 DEF Accepts, plan
  <1>12. CASE m # h
    <2>1. PICK y \in Selections : m[y] # h[y]
      BY <1>1, <1>12
    <2>2. m[y] < a[y]
      BY <1>1, <1>2, <1>3, <2>1
    <2>3. SumOf(m, Selections) < SumOf(a, Selections)
      BY <1>9, <2>2, SelectionsAssumption, SumStrictlyMonotone
    <2>4. plan.total + 1 <= StakeTotal(a)
      BY <1>5, <1>8, <2>3
    <2>5. plan.profit >= pays - StakeTotal(a) /\ plan.total <= bankroll
      BY <1>5, <1>6, <1>8, <2>4
    <2>6. plan.profit \in Int
      BY <1>5
    <2> QED BY <1>8, <2>5, <2>6 DEF Accepts, plan
  <1> QED BY <1>11, <1>12

\* The least payout of safe stakes.
LEMMA SafeStakesPay ==
  ASSUME NEW price, NEW constraints, Allocatable(price, constraints), NEW bankroll \in Nat,
         NEW threshold \in Int, NEW a \in SafeStakes(price, constraints, bankroll, threshold)
  PROVE  /\ a \in [Selections -> Nat \ {0}] /\ StakeTotal(a) \in Nat \ {0} /\ StakeTotal(a) <= bankroll
         /\ \E pays \in Nat :
              /\ \A s \in Selections : ConservativePayout(a[s], price[s]) >= pays
              /\ pays - StakeTotal(a) > 0 /\ pays - StakeTotal(a) >= threshold
  <1>1. /\ a \in [Selections -> 1..bankroll] /\ StakeTotal(a) <= bankroll
        /\ \A s \in Selections :
             /\ ConservativePayout(a[s], price[s]) - StakeTotal(a) > 0
             /\ ConservativePayout(a[s], price[s]) - StakeTotal(a) >= threshold
    BY DEF SafeStakes
  <1>2. a \in [Selections -> Nat \ {0}] /\ a \in [Selections -> Nat]
    BY <1>1
  <1>3. StakeTotal(a) \in Nat \ {0}
    <2>1. StakeTotal(a) \in Nat /\ \A s \in Selections : a[s] <= StakeTotal(a)
      BY <1>2, TotalBoundsStakes
    <2>2. PICK s : s \in Selections
      BY SelectionsAssumption
    <2>3. a[s] \in Nat \ {0} /\ a[s] <= StakeTotal(a)
      BY <1>2, <2>1, <2>2
    <2> QED BY <2>1, <2>3
  <1> DEFINE payouts == {ConservativePayout(a[s], price[s]) : s \in Selections}
  <1>4. \A s \in Selections : ConservativePayout(a[s], price[s]) \in Nat
    <2>1. \A s \in Selections : a[s] \in Nat /\ price[s] \in Nat
      BY <1>2 DEF Allocatable
    <2> QED BY <2>1, PayoutIsNatural
  <1>5. payouts \in SUBSET Nat /\ payouts # {}
    BY <1>4, SelectionsAssumption
  <1>6. Min(payouts) \in payouts /\ \A k \in payouts : Min(payouts) <= k
    <2> HIDE DEF payouts
    <2> QED BY <1>5, MinOfNaturals
  <1>7. PICK y \in Selections : Min(payouts) = ConservativePayout(a[y], price[y])
    BY <1>6
  <1>8. \A s \in Selections : ConservativePayout(a[s], price[s]) >= Min(payouts)
    <2>1. \A s \in Selections : ConservativePayout(a[s], price[s]) \in payouts
      OBVIOUS
    <2>2. Min(payouts) \in Nat
      BY <1>4, <1>7
    <2> HIDE DEF payouts
    <2> QED BY <1>4, <1>6, <2>1, <2>2
  <1> HIDE DEF payouts
  <1>9. Min(payouts) \in Nat /\ Min(payouts) - StakeTotal(a) > 0 /\ Min(payouts) - StakeTotal(a) >= threshold
    BY <1>1, <1>4, <1>7
  <1> QED BY <1>1, <1>2, <1>3, <1>8, <1>9

\* allocate_stakes is complete: when any stakes on the grid, within the bounds
\* of every quote and the bankroll, win more than they cost and the threshold
\* whichever selection wins, it returns a plan, also when the continuous target
\* comes out one quantum low.
THEOREM AllocationIsComplete ==
  ASSUME NEW price, NEW constraints, Allocatable(price, constraints),
         NEW bankroll \in Nat, NEW threshold \in Int,
         SafeStakes(price, constraints, bankroll, threshold) # {}
  PROVE  NoPlan \notin AllocateStakes(price, constraints, bankroll, threshold)
  <1> DEFINE e == Effective(constraints)
             t == ContinuousTarget(price, e, bankroll)
             floor == t.num \div t.den
  <1>1. PICK a : a \in SafeStakes(price, constraints, bankroll, threshold)
    OBVIOUS
  <1>2. /\ a \in [Selections -> Nat \ {0}] /\ StakeTotal(a) \in Nat \ {0} /\ StakeTotal(a) <= bankroll
        /\ \E pays \in Nat :
             /\ \A s \in Selections : ConservativePayout(a[s], price[s]) >= pays
             /\ pays - StakeTotal(a) > 0 /\ pays - StakeTotal(a) >= threshold
    BY <1>1, SafeStakesPay
  <1>3. PICK pays \in Nat :
          /\ \A s \in Selections : ConservativePayout(a[s], price[s]) >= pays
          /\ pays - StakeTotal(a) > 0 /\ pays - StakeTotal(a) >= threshold
    BY <1>2
  <1>4. price \in [Selections -> Nat \ {0}] /\ \A s \in Selections : constraints[s] \in StakeConstraint
    BY DEF Allocatable
  <1>5. \A s \in Selections : e[s] = EffectiveConstraint(constraints[s])
    BY DEF Effective
  <1>6. \A s \in Selections :
          /\ OnGrid(e[s]) /\ a[s] % e[s].increment = 0 /\ a[s] >= e[s].minimum
          /\ e[s].maximum # NoLimit => a[s] <= e[s].maximum
    <2> SUFFICES ASSUME NEW s \in Selections
                 PROVE  /\ OnGrid(e[s]) /\ a[s] % e[s].increment = 0 /\ a[s] >= e[s].minimum
                        /\ e[s].maximum # NoLimit => a[s] <= e[s].maximum
      OBVIOUS
    <2>1. /\ a[s] \in Nat \ {0} /\ a[s] % constraints[s].increment = 0 /\ a[s] >= constraints[s].minimum
          /\ constraints[s].maximum = NoLimit \/ a[s] <= constraints[s].maximum
      BY <1>1, <1>2 DEF SafeStakes
    <2> HIDE DEF e
    <2> QED BY <1>4, <1>5, <2>1, EffectiveIsOnGrid
  <1> HIDE DEF e
  <1>7. HasMinima(e) /\ \A s \in Selections : a[s] \in Nat /\ price[s] \in Nat \ {0}
    BY <1>2, <1>4, <1>6 DEF HasMinima, OnGrid
  <1>8. \A s \in Selections : Feasible(e[s])
    <2> SUFFICES ASSUME NEW s \in Selections, e[s].maximum # NoLimit PROVE e[s].maximum >= e[s].minimum
      BY DEF Feasible
    <2>1. a[s] \in Nat /\ e[s].maximum \in Nat /\ e[s].minimum \in Nat
      BY <1>6, <1>7 DEF OnGrid
    <2> QED BY <1>6, <2>1
  <1>9. \A s \in Selections : e[s].maximum # NoLimit =>
          /\ ConservativePayout(e[s].maximum, price[s]) \in Nat
          /\ ConservativePayout(e[s].maximum, price[s]) >= pays
    <2> SUFFICES ASSUME NEW s \in Selections, e[s].maximum # NoLimit
                 PROVE  /\ ConservativePayout(e[s].maximum, price[s]) \in Nat
                        /\ ConservativePayout(e[s].maximum, price[s]) >= pays
      OBVIOUS
    <2>1. /\ a[s] \in Nat /\ price[s] \in Nat /\ e[s].maximum \in Nat /\ a[s] <= e[s].maximum
      BY <1>6, <1>7 DEF OnGrid
    <2>2. e[s].maximum * price[s] >= a[s] * price[s]
      BY <2>1, TimesMonotone
    <2>3. a[s] * price[s] >= pays * PriceUnit
      <3>1. a[s] * price[s] \in Int
        BY <2>1
      <3> QED BY <1>3, <3>1, QuotientReaches DEF ConservativePayout, PriceUnit
    <2>4. e[s].maximum * price[s] \in Int /\ a[s] * price[s] \in Int /\ pays * PriceUnit \in Int
      BY <2>1 DEF PriceUnit
    <2>5. e[s].maximum * price[s] >= pays * PriceUnit
      BY <2>2, <2>3, <2>4
    <2>6. ConservativePayout(e[s].maximum, price[s]) >= pays
      BY <2>4, <2>5, QuotientReaches DEF ConservativePayout, PriceUnit
    <2> QED BY <2>1, <2>6, PayoutIsNatural
  <1>10. t \in [num : Int, den : Int] /\ t.den > 0 /\ pays * t.den <= t.num
    <2>1. \A s \in Selections : pays * PriceUnit <= a[s] * price[s]
      <3> SUFFICES ASSUME NEW s \in Selections PROVE pays * PriceUnit <= a[s] * price[s]
        OBVIOUS
      <3>1. a[s] * price[s] \in Int
        BY <1>7
      <3>2. a[s] * price[s] >= pays * PriceUnit
        BY <1>3, <3>1, QuotientReaches DEF ConservativePayout, PriceUnit
      <3> QED BY <3>1, <3>2 DEF PriceUnit
    <2>2. SumOf(a, Selections) <= bankroll /\ a \in [Selections -> Int]
      BY <1>2 DEF StakeTotal, SumOf
    <2> HIDE DEF t
    <2> QED BY <1>4, <1>6, <1>7, <2>1, <2>2, TargetBoundsPayout DEF t
  <1>11. t # NoPlan /\ floor \in Int /\ floor >= pays
    <2> HIDE DEF t
    <2>1. t.num \in Int /\ t.den \in Nat \ {0}
      BY <1>10
    <2>2. t.num >= pays * t.den
      <3>1. pays * t.den \in Int
        BY <2>1
      <3> QED BY <1>10, <2>1, <3>1
    <2>3. t # NoPlan
      BY <1>10, NoPlanAssumption
    <2> QED BY <2>1, <2>2, <2>3, QuotientReaches
  <1>12. StartTargets(price, e, bankroll) =
           {Min({f} \cup Caps(price, e)) : f \in IF t.num % t.den = 0 THEN {floor, floor - 1} ELSE {floor}}
    BY <1>11 DEF StartTargets
  <1> HIDE DEF floor, t
  <1>13. ASSUME NEW start \in StartTargets(price, e, bankroll)
         PROVE  SafeDiscretePlan(price, e, bankroll, start, threshold) # NoPlan
    <2>1. PICK f \in {floor, floor - 1} : start = Min({f} \cup Caps(price, e))
      BY <1>12, <1>13
    <2> DEFINE all == {f} \cup Caps(price, e)
    <2>2. \A c \in Caps(price, e) : c \in Nat /\ c >= pays
      BY <1>9 DEF Caps
    <2>3. pays >= 2
      BY <1>2, <1>3
    <2>4. f \in Nat /\ f >= pays - 1
      BY <1>11, <2>1, <2>3
    <2>5. all \in SUBSET Nat /\ all # {}
      BY <2>2, <2>4
    <2>6. start \in all /\ \A k \in all : start <= k
      <3> HIDE DEF all
      <3>1. Min(all) \in all /\ \A k \in all : Min(all) <= k
        BY <2>5, MinOfNaturals
      <3> QED BY <2>1, <3>1 DEF all
    <2>7. start \in Nat /\ start >= pays - 1
      BY <2>2, <2>4, <2>6
    <2>8. WithinCaps(price, e, start)
      <3>1. ASSUME NEW s \in Selections, e[s].maximum # NoLimit
            PROVE  ConservativePayout(e[s].maximum, price[s]) >= start
        <4>1. ConservativePayout(e[s].maximum, price[s]) \in Caps(price, e)
          BY <3>1 DEF Caps
        <4>2. ConservativePayout(e[s].maximum, price[s]) \in Nat
          BY <1>9, <3>1
        <4> QED BY <2>6, <2>7, <4>1, <4>2
      <3> QED BY <1>8, <3>1 DEF WithinCaps
    <2> DEFINE low == IF pays <= start THEN pays ELSE start
    <2>9. low \in Nat \ {0} /\ low <= start /\ low <= pays /\ pays <= low + 1
      BY <2>3, <2>7
    <2> HIDE DEF low, all
    <2>10. WithinCaps(price, e, low)
      <3>1. ASSUME NEW s \in Selections, e[s].maximum # NoLimit
            PROVE  ConservativePayout(e[s].maximum, price[s]) >= low
        BY <1>9, <2>9, <3>1
      <3> QED BY <1>8, <3>1 DEF WithinCaps
    <2>11. Accepts(bankroll, threshold, TargetPlan(price, e, low))
      <3>1. a \in [Selections -> Nat] /\ low \in Nat /\ \A s \in Selections : OnGrid(e[s])
        BY <1>2, <1>6, <2>9
      <3> QED BY <1>2, <1>3, <1>4, <1>6, <2>9, <2>10, <3>1, SafePlanAccepted
    <2>12. \A u \in Nat : TargetPlan(price, e, u) # NoPlan =>
             NextTargets(price, e, TargetPlan(price, e, u), u) \in SUBSET Int
      BY BreakpointsAreIntegers DEF e
    <2> QED BY <1>4, <1>6, <2>7, <2>8, <2>9, <2>11, <2>12, SearchCompletes
  <1>14. StartTargets(price, e, bankroll) # {}
    BY <1>12
  <1>15. AllocateStakes(price, constraints, bankroll, threshold) =
           {SafeDiscretePlan(price, e, bankroll, start, threshold) : start \in StartTargets(price, e, bankroll)}
    BY <1>8, <1>14 DEF AllocateStakes, e, Effective
  <1> QED BY <1>13, <1>15

-----------------------------------------------------------------------------
(* Equivalent portfolios.                                                  *)

\* The sums of ExchangePortfolio, as SumOf.
LegStakes(legs) == [j \in DOMAIN legs |-> legs[j].stake]
LegProfits(legs, w) == [j \in DOMAIN legs |-> LegProfit(legs[j], w)]
Charge(legs, a, w) ==
  LET gross == AccountGross(legs, a, w) IN IF gross > 0 THEN gross * RateOf(legs, a) ELSE 0
Charges(legs, w) == [a \in Accounts(legs) |-> Charge(legs, a, w)]

LEMMA StakeSumIsSum ==
  ASSUME NEW legs, NEW T \in SUBSET DOMAIN legs
  PROVE  MapThenSumSet(LAMBDA j : legs[j].stake, T) = SumOf(LegStakes(legs), T)
  <1> DEFINE m == LegStakes(legs)
             sum(f) == [s \in SUBSET T |-> IF s = {} THEN 0 ELSE legs[Pick(s)].stake + f[s \ {Pick(s)}]]
             other(f) == [s \in SUBSET T |-> IF s = {} THEN 0 ELSE m[Pick(s)] + f[s \ {Pick(s)}]]
  <1>1. MapThenSumSet(LAMBDA j : legs[j].stake, T) = (CHOOSE f : f = sum(f))[T]
    BY DEF MapThenSumSet, MapThenFoldSet, Pick
  <1>2. SumOf(m, T) = (CHOOSE f : f = other(f))[T]
    BY DEF SumOf, MapThenSumSet, MapThenFoldSet, Pick
  <1>3. \A f : sum(f) = other(f)
    <2>1. \A s \in SUBSET T : s # {} => m[Pick(s)] = legs[Pick(s)].stake
      BY PickIsElement DEF LegStakes
    <2> HIDE DEF m
    <2> QED BY <2>1
  <1> HIDE DEF sum, other, m
  <1>4. (CHOOSE f : f = sum(f)) = (CHOOSE f : f = other(f))
    BY <1>3
  <1> QED BY <1>1, <1>2, <1>4 DEF m

LEMMA ProfitSumIsSum ==
  ASSUME NEW legs, NEW w, NEW T \in SUBSET DOMAIN legs
  PROVE  MapThenSumSet(LAMBDA j : LegProfit(legs[j], w), T) = SumOf(LegProfits(legs, w), T)
  <1> DEFINE m == LegProfits(legs, w)
             p(x) == LegProfit(legs[x], w)
             sum(f) == [s \in SUBSET T |-> IF s = {} THEN 0 ELSE p(Pick(s)) + f[s \ {Pick(s)}]]
             other(f) == [s \in SUBSET T |-> IF s = {} THEN 0 ELSE m[Pick(s)] + f[s \ {Pick(s)}]]
  <1>1. MapThenSumSet(LAMBDA j : LegProfit(legs[j], w), T) = (CHOOSE f : f = sum(f))[T]
    BY DEF MapThenSumSet, MapThenFoldSet, Pick
  <1>2. SumOf(m, T) = (CHOOSE f : f = other(f))[T]
    BY DEF SumOf, MapThenSumSet, MapThenFoldSet, Pick
  <1>3. \A f : sum(f) = other(f)
    <2>1. \A s \in SUBSET T : s # {} => m[Pick(s)] = p(Pick(s))
      BY PickIsElement DEF LegProfits
    <2> HIDE DEF m, p
    <2> QED BY <2>1
  <1> HIDE DEF sum, other, m
  <1>4. (CHOOSE f : f = sum(f)) = (CHOOSE f : f = other(f))
    BY <1>3
  <1> QED BY <1>1, <1>2, <1>4 DEF m

LEMMA CommissionIsSum ==
  ASSUME NEW legs, NEW w
  PROVE  Commission(legs, w) = SumOf(Charges(legs, w), Accounts(legs))
  <1> DEFINE T == Accounts(legs)
             m == Charges(legs, w)
             sum(f) == [s \in SUBSET T |-> IF s = {} THEN 0 ELSE Charge(legs, Pick(s), w) + f[s \ {Pick(s)}]]
             other(f) == [s \in SUBSET T |-> IF s = {} THEN 0 ELSE m[Pick(s)] + f[s \ {Pick(s)}]]
  <1>1. Commission(legs, w) = (CHOOSE f : f = sum(f))[T]
    BY DEF Commission, Charge, MapThenSumSet, MapThenFoldSet, Pick
  <1>2. SumOf(m, T) = (CHOOSE f : f = other(f))[T]
    BY DEF SumOf, MapThenSumSet, MapThenFoldSet, Pick
  <1>3. \A f : sum(f) = other(f)
    <2>1. \A s \in SUBSET T : s # {} => m[Pick(s)] = Charge(legs, Pick(s), w)
      BY PickIsElement DEF Charges
    <2> HIDE DEF m, T
    <2> QED BY <2>1
  <1> HIDE DEF sum, other, m
  <1>4. (CHOOSE f : f = sum(f)) = (CHOOSE f : f = other(f))
    BY <1>3
  <1> QED BY <1>1, <1>2, <1>4 DEF m

\* Dividing a summand in two leaves the sum.
LEMMA SumOfParts ==
  ASSUME NEW D, IsFiniteSet(D), NEW f, NEW g, NEW L \in SUBSET D, NEW i \in L, NEW z, z \notin D,
         \A x \in D : f[x] \in Int, \A x \in D : x # i => g[x] = f[x],
         g[i] \in Int, g[z] \in Int, f[i] = g[i] + g[z]
  PROVE  SumOf(g, L \cup {z}) = SumOf(f, L)
  <1> DEFINE E == D \cup {z}
             M == L \cup {z}
             R == L \ {i}
  <1>1. IsFiniteSet(E) /\ IsFiniteSet(R)
    <2>1. IsFiniteSet(E)
      BY FS_AddElement
    <2>2. R \in SUBSET D
      OBVIOUS
    <2> QED BY <2>1, <2>2, FS_Subset
  <1>2. (\A x \in E : g[x] \in Int) /\ (\A x \in R : f[x] \in Int /\ f[x] = g[x])
    OBVIOUS
  <1>3. M \in SUBSET E /\ z \in M /\ L \in SUBSET E /\ M \ {z} = L /\ R \in SUBSET E /\ R \in SUBSET D
    OBVIOUS
  <1> HIDE DEF E, M, R
  <1>4. SumOf(g, M) = g[z] + SumOf(g, L)
    BY <1>1, <1>2, <1>3, SumFacts
  <1>5. SumOf(g, L) = g[i] + SumOf(g, R) /\ SumOf(g, R) \in Int
    BY <1>1, <1>2, <1>3, SumFacts DEF R
  <1>6. SumOf(f, L) = f[i] + SumOf(f, R)
    BY SumFacts DEF R
  <1>7. SumOf(f, R) = SumOf(g, R)
    BY <1>1, <1>2, SumCongruent
  <1> QED BY <1>4, <1>5, <1>6, <1>7 DEF M

\* Two legs that differ in their stake only.
SameLevel(one, other) ==
  /\ one.venue = other.venue /\ one.transport = other.transport /\ one.scope = other.scope
  /\ one.market = other.market
  /\ one.runner = other.runner /\ one.side = other.side /\ one.price = other.price
  /\ one.available = other.available /\ one.rate = other.rate
  /\ one.status = other.status /\ one.verified = other.verified

\* two has the legs of one, but leg i in two parts, i and z.
TakenInParts(one, two, i, z) ==
  /\ IsFiniteSet(DOMAIN one) /\ \A j \in DOMAIN one : IsLeg(one[j])
  /\ i \in DOMAIN one /\ z \notin DOMAIN one /\ DOMAIN two = DOMAIN one \cup {z}
  /\ \A j \in DOMAIN one : j # i => two[j] = one[j]
  /\ SameLevel(two[i], one[i]) /\ SameLevel(two[z], one[i])
  /\ one[i].stake > 1 /\ two[i].stake = 1 /\ two[z].stake = one[i].stake - 1

\* Split takes a leg in two parts.
LEMMA SplitTakesParts ==
  ASSUME NEW legs, IsPortfolio(legs), NEW i \in DOMAIN legs, legs[i].stake > 1
  PROVE  TakenInParts(legs, Split(legs, i), i, Len(legs) + 1)
  <1> DEFINE n == Len(legs)
             a == [legs[i] EXCEPT !.stake = 1]
             b == [legs[i] EXCEPT !.stake = @ - 1]
             S == {legs[j] : j \in DOMAIN legs} \cup {a, b}
             first == [legs EXCEPT ![i].stake = 1]
             two == Split(legs, i)
  <1>1. legs \in Seq({legs[j] : j \in DOMAIN legs}) /\ \A j \in DOMAIN legs : IsLeg(legs[j])
    BY DEF IsPortfolio
  <1>2. n \in Nat /\ DOMAIN legs = 1..n
    BY <1>1
  <1>3. first \in [1..n -> S] /\ first[i] = a /\ \A j \in 1..n : j # i => first[j] = legs[j]
    BY <1>1, <1>2
  <1>4. first \in Seq(S) /\ Len(first) = n
    BY <1>2, <1>3
  <1>5. two = Append(first, b)
    BY DEF Split
  <1>6. DOMAIN two = 1..(n + 1) /\ two[n + 1] = b /\ \A j \in 1..n : two[j] = first[j]
    BY <1>2, <1>4, <1>5
  <1>7. IsLeg(legs[i])
    BY <1>1
  <1>8. /\ SameLevel(a, legs[i]) /\ SameLevel(b, legs[i])
        /\ a.stake = 1 /\ b.stake = legs[i].stake - 1
    BY <1>7 DEF IsLeg, SameLevel
  <1> HIDE DEF a, b, first, two, n
  <1>9. IsFiniteSet(DOMAIN legs)
    BY <1>2, FS_Interval
  <1>10. n + 1 \notin DOMAIN legs /\ 1..(n + 1) = DOMAIN legs \cup {n + 1}
    BY <1>2
  <1>11. TakenInParts(legs, two, i, n + 1)
    BY <1>1, <1>2, <1>3, <1>6, <1>8, <1>9, <1>10 DEF TakenInParts
  <1> QED BY <1>11 DEF two, n

\* Legs that are the same but for the stake have the same account and level.
Spread(L, i, z) == L \cup (IF i \in L THEN {z} ELSE {})

LEMMA PartsGroupAlike ==
  ASSUME NEW one, NEW two, NEW i, NEW z, TakenInParts(one, two, i, z)
  PROVE  /\ Accounts(two) = Accounts(one)
         /\ \A a : LegsOf(two, a) = Spread(LegsOf(one, a), i, z)
         /\ \A j \in DOMAIN one : PriceLevel(two, j) = Spread(PriceLevel(one, j), i, z)
         /\ PriceLevel(two, z) = Spread(PriceLevel(one, i), i, z)
  <1>1. /\ i \in DOMAIN one /\ z \notin DOMAIN one /\ DOMAIN two = DOMAIN one \cup {z}
        /\ \A j \in DOMAIN one : SameLevel(two[j], one[j])
        /\ SameLevel(two[z], one[i])
    BY DEF TakenInParts, SameLevel
  <1>2. \A j \in DOMAIN one : /\ IsExchange(two[j]) <=> IsExchange(one[j])
                              /\ Account(two[j]) = Account(one[j])
    BY <1>1 DEF SameLevel, IsExchange, Account
  <1>3. (IsExchange(two[z]) <=> IsExchange(one[i])) /\ Account(two[z]) = Account(one[i])
    BY <1>1 DEF SameLevel, IsExchange, Account
  <1>4. \A a : LegsOf(two, a) = Spread(LegsOf(one, a), i, z)
    BY <1>1, <1>2, <1>3 DEF LegsOf, Spread
  <1>5. Accounts(two) = Accounts(one)
    BY <1>1, <1>2, <1>3 DEF Accounts
  <1> DEFINE level(l) == <<l.venue, l.transport, l.market, l.runner, l.side, l.price, l.scope>>
  <1>6. (\A j \in DOMAIN one : level(two[j]) = level(one[j])) /\ level(two[z]) = level(one[i])
    BY <1>1 DEF SameLevel
  <1>7. /\ \A j : PriceLevel(two, j) = {k \in DOMAIN two : IsExchange(two[k]) /\ level(two[k]) = level(two[j])}
        /\ \A j : PriceLevel(one, j) = {k \in DOMAIN one : IsExchange(one[k]) /\ level(one[k]) = level(one[j])}
    BY DEF PriceLevel
  <1> HIDE DEF level
  <1>8. ASSUME NEW j \in DOMAIN one PROVE PriceLevel(two, j) = Spread(PriceLevel(one, j), i, z)
    BY <1>1, <1>2, <1>3, <1>6, <1>7 DEF Spread
  <1>9. PriceLevel(two, z) = Spread(PriceLevel(one, i), i, z)
    BY <1>1, <1>2, <1>3, <1>6, <1>7 DEF Spread
  <1> QED BY <1>4, <1>5, <1>8, <1>9

\* What a leg yields is a number.
LEMMA ProfitIsWhole ==
  ASSUME NEW leg, IsLeg(leg), NEW w
  PROVE  LegProfit(leg, w) \in Int
  <1> DEFINE l == leg.stake * (leg.price - OddsUnit)
             n == OddsUnit * leg.stake
  <1>1. l \in Int /\ n \in Int
    BY UnitsAssumption DEF IsLeg
  <1>2. l \in Int /\ -l \in Int /\ n \in Int /\ -n \in Int
    <2> HIDE DEF l, n
    <2> QED BY <1>1
  <1> QED BY <1>2 DEF LegProfit, LayLiability

\* Sums over the legs of a group are those of the parts.
LEMMA PartsSumAlike ==
  ASSUME NEW one, NEW two, NEW i, NEW z, TakenInParts(one, two, i, z),
         NEW L \in SUBSET DOMAIN one
  PROVE  /\ SumOf(LegStakes(two), Spread(L, i, z)) = SumOf(LegStakes(one), L)
         /\ \A w : SumOf(LegProfits(two, w), Spread(L, i, z)) = SumOf(LegProfits(one, w), L)
         /\ Spread(L, i, z) \in SUBSET DOMAIN two
         /\ \A w : SumOf(LegProfits(one, w), L) \in Int
  <1> DEFINE D == DOMAIN one
  <1>1. /\ IsFiniteSet(D) /\ IsFiniteSet(L) /\ i \in D /\ z \notin D /\ DOMAIN two = D \cup {z}
        /\ \A j \in D : j # i => two[j] = one[j]
    BY FS_Subset DEF TakenInParts
  <1>2. \A j \in D : one[j].stake \in Nat \ {0} /\ one[j].price \in Nat
    BY DEF TakenInParts, IsLeg
  <1>3. Spread(L, i, z) \in SUBSET DOMAIN two
    BY <1>1 DEF Spread
  <1>4. ASSUME NEW f, NEW g, \A j \in D : f[j] \in Int, \A j \in D : j # i => g[j] = f[j],
               g[i] \in Int, g[z] \in Int, f[i] = g[i] + g[z]
        PROVE  SumOf(g, Spread(L, i, z)) = SumOf(f, L)
    <2>1. CASE i \in L
      <3>1. Spread(L, i, z) = L \cup {z}
        BY <2>1 DEF Spread
      <3>2. SumOf(g, L \cup {z}) = SumOf(f, L)
        <4> HIDE DEF D
        <4> QED BY <1>1, <1>4, <2>1, SumOfParts DEF D
      <3> QED BY <3>1, <3>2
    <2>2. CASE i \notin L
      <3>1. Spread(L, i, z) = L
        BY <2>2 DEF Spread
      <3>2. \A x \in L : g[x] \in Int /\ g[x] = f[x]
        BY <1>4, <2>2
      <3>3. SumOf(g, L) = SumOf(f, L)
        BY <1>1, <3>2, SumCongruent
      <3> QED BY <3>1, <3>3
    <2> QED BY <2>1, <2>2
  <1>5. SumOf(LegStakes(two), Spread(L, i, z)) = SumOf(LegStakes(one), L)
    <2> DEFINE f == LegStakes(one)
               g == LegStakes(two)
    <2>1. /\ \A j \in D : f[j] = one[j].stake /\ f[j] \in Int
          /\ \A j \in D : j # i => g[j] = f[j]
          /\ g[i] = two[i].stake /\ g[z] = two[z].stake
      BY <1>1, <1>2 DEF LegStakes
    <2>2. g[i] = 1 /\ g[z] = one[i].stake - 1
      BY <2>1 DEF TakenInParts
    <2>3. g[i] \in Int /\ g[z] \in Int /\ f[i] = g[i] + g[z]
      BY <1>1, <1>2, <2>1, <2>2
    <2> HIDE DEF f, g
    <2>4. SumOf(g, Spread(L, i, z)) = SumOf(f, L)
      BY <1>4, <2>1, <2>3
    <2> QED BY <2>4 DEF f, g
  <1>6. ASSUME NEW w PROVE /\ SumOf(LegProfits(two, w), Spread(L, i, z)) = SumOf(LegProfits(one, w), L)
                           /\ SumOf(LegProfits(one, w), L) \in Int
    <2> DEFINE f == LegProfits(one, w)
               g == LegProfits(two, w)
    <2>1. \A j \in D : f[j] = LegProfit(one[j], w) /\ f[j] \in Int
      <3>1. \A j \in D : f[j] = LegProfit(one[j], w)
        BY DEF LegProfits
      <3>2. \A j \in D : LegProfit(one[j], w) \in Int
        BY ProfitIsWhole DEF TakenInParts
      <3> QED BY <3>1, <3>2
    <2>2. /\ \A j \in D : j # i => g[j] = f[j]
          /\ g[i] = LegProfit(two[i], w) /\ g[z] = LegProfit(two[z], w)
      BY <1>1 DEF LegProfits
    <2>3. g[i] \in Int /\ g[z] \in Int /\ f[i] = g[i] + g[z]
      <3> DEFINE s == one[i].stake
                 p == one[i].price - OddsUnit
                 o == OddsUnit
      <3>1. s \in Int /\ p \in Int /\ o \in Int
        BY <1>1, <1>2, UnitsAssumption
      <3>2. /\ two[i].stake = 1 /\ two[z].stake = s - 1
            /\ two[i].price - o = p /\ two[z].price - o = p
            /\ two[i].side = one[i].side /\ two[z].side = one[i].side
            /\ two[i].runner = one[i].runner /\ two[z].runner = one[i].runner
        BY DEF TakenInParts, SameLevel
      <3> HIDE DEF s, p
      <3>3. /\ LegProfit(two[i], w) =
                 IF one[i].side = "lay" THEN IF one[i].runner = w THEN -(1 * p) ELSE o * 1
                 ELSE IF one[i].runner = w THEN 1 * p ELSE -(o * 1)
            /\ LegProfit(two[z], w) =
                 IF one[i].side = "lay" THEN IF one[i].runner = w THEN -((s - 1) * p) ELSE o * (s - 1)
                 ELSE IF one[i].runner = w THEN (s - 1) * p ELSE -(o * (s - 1))
            /\ LegProfit(one[i], w) =
                 IF one[i].side = "lay" THEN IF one[i].runner = w THEN -(s * p) ELSE o * s
                 ELSE IF one[i].runner = w THEN s * p ELSE -(o * s)
        BY <3>2 DEF LegProfit, LayLiability, s, p
      <3> HIDE DEF o
      <3>4. /\ (s - 1) * p \in Int /\ s * p \in Int /\ 1 * p = p /\ s * p = p + (s - 1) * p
            /\ o * (s - 1) \in Int /\ o * s \in Int /\ o * 1 = o /\ o * s = o + o * (s - 1)
        BY ONLY <3>1
      <3> HIDE DEF f, g
      <3>5. g[i] \in Int /\ g[z] \in Int
        BY <2>2, <3>1, <3>3, <3>4
      <3>6. f[i] = LegProfit(one[i], w)
        BY <1>1, <2>1
      <3>7. CASE one[i].side = "lay" /\ one[i].runner = w
        BY <2>2, <3>1, <3>3, <3>4, <3>6, <3>7
      <3>8. CASE one[i].side = "lay" /\ one[i].runner # w
        BY <2>2, <3>1, <3>3, <3>4, <3>6, <3>8
      <3>9. CASE one[i].side # "lay" /\ one[i].runner = w
        BY <2>2, <3>1, <3>3, <3>4, <3>6, <3>9
      <3>10. CASE one[i].side # "lay" /\ one[i].runner # w
        BY <2>2, <3>1, <3>3, <3>4, <3>6, <3>10
      <3> QED BY <3>5, <3>7, <3>8, <3>9, <3>10
    <2> HIDE DEF f, g
    <2>4. SumOf(g, Spread(L, i, z)) = SumOf(f, L)
      BY <1>4, <2>1, <2>2, <2>3
    <2>5. SumOf(f, L) \in Int
      <3>1. \A j \in L : f[j] \in Int
        BY <2>1
      <3> QED BY <1>1, <3>1, SumFacts
    <2> QED BY <2>4, <2>5 DEF f, g
  <1> QED BY <1>3, <1>5, <1>6

\* The liquidity test of a leg of the parts is that of the leg.
StakedAt(legs, j) == SumOf(LegStakes(legs), PriceLevel(legs, j))
AvailableAt(legs, j) == {legs[k].available : k \in PriceLevel(legs, j)}

LEMMA SharedLiquidity ==
  ASSUME NEW legs
  PROVE  SharedLiquidityHolds(legs) <=>
           \A j \in {x \in DOMAIN legs : IsExchange(legs[x])} :
             StakedAt(legs, j) <= Min(AvailableAt(legs, j))
  <1>1. \A j : PriceLevel(legs, j) \in SUBSET DOMAIN legs
    BY DEF PriceLevel
  <1>2. \A j : MapThenSumSet(LAMBDA k : legs[k].stake, PriceLevel(legs, j)) = StakedAt(legs, j)
    BY <1>1, StakeSumIsSum DEF StakedAt
  <1> QED BY <1>2 DEF SharedLiquidityHolds, AvailableAt

LEMMA PartsShareLiquidity ==
  ASSUME NEW one, NEW two, NEW i, NEW z, TakenInParts(one, two, i, z)
  PROVE  /\ \A j \in DOMAIN one : /\ StakedAt(two, j) = StakedAt(one, j)
                                  /\ AvailableAt(two, j) = AvailableAt(one, j)
         /\ StakedAt(two, z) = StakedAt(one, i) /\ AvailableAt(two, z) = AvailableAt(one, i)
         /\ SharedLiquidityHolds(two) <=> SharedLiquidityHolds(one)
  <1>1. /\ i \in DOMAIN one /\ z \notin DOMAIN one /\ DOMAIN two = DOMAIN one \cup {z}
        /\ (\A j \in DOMAIN one : two[j].available = one[j].available /\ (IsExchange(two[j]) <=> IsExchange(one[j])))
        /\ two[z].available = one[i].available /\ (IsExchange(two[z]) <=> IsExchange(one[i]))
    BY DEF TakenInParts, SameLevel, IsExchange
  <1>2. /\ \A j \in DOMAIN one : PriceLevel(two, j) = Spread(PriceLevel(one, j), i, z)
        /\ PriceLevel(two, z) = Spread(PriceLevel(one, i), i, z)
    BY PartsGroupAlike
  <1>3. \A j : PriceLevel(one, j) \in SUBSET DOMAIN one
    BY DEF PriceLevel
  <1>4. ASSUME NEW L \in SUBSET DOMAIN one
        PROVE  {two[k].available : k \in Spread(L, i, z)} = {one[k].available : k \in L}
    BY <1>1 DEF Spread
  <1>5. \A L \in SUBSET DOMAIN one : SumOf(LegStakes(two), Spread(L, i, z)) = SumOf(LegStakes(one), L)
    BY PartsSumAlike
  <1>6. \A j \in DOMAIN one : StakedAt(two, j) = StakedAt(one, j) /\ AvailableAt(two, j) = AvailableAt(one, j)
    BY <1>2, <1>3, <1>4, <1>5 DEF StakedAt, AvailableAt
  <1>7. StakedAt(two, z) = StakedAt(one, i) /\ AvailableAt(two, z) = AvailableAt(one, i)
    BY <1>2, <1>3, <1>4, <1>5 DEF StakedAt, AvailableAt
  <1>8. SharedLiquidityHolds(two) <=> SharedLiquidityHolds(one)
    BY <1>1, <1>6, <1>7, SharedLiquidity
  <1> QED BY <1>6, <1>7, <1>8

\* A stake that shares what is available with its level is itself available.
LEMMA StakeIsAvailable ==
  ASSUME NEW legs, IsFiniteSet(DOMAIN legs), \A j \in DOMAIN legs : IsLeg(legs[j]),
         \A j \in DOMAIN legs : IsExchange(legs[j]) => Eligible(legs[j]),
         SharedLiquidityHolds(legs), NEW i \in DOMAIN legs, IsExchange(legs[i])
  PROVE  legs[i].stake <= legs[i].available
  <1> DEFINE L == PriceLevel(legs, i)
             f == LegStakes(legs)
             avail == AvailableAt(legs, i)
  <1>1. L \in SUBSET DOMAIN legs /\ i \in L /\ \A j \in L : IsExchange(legs[j])
    BY DEF PriceLevel
  <1>2. IsFiniteSet(L)
    BY <1>1, FS_Subset
  <1>3. (\A j \in L : f[j] \in Nat) /\ f[i] = legs[i].stake
    BY <1>1 DEF LegStakes, IsLeg
  <1>4. StakedAt(legs, i) <= Min(avail) /\ StakedAt(legs, i) = SumOf(f, L)
    BY SharedLiquidity DEF StakedAt
  <1>5. avail \in SUBSET Nat /\ legs[i].available \in avail
    <2>1. \A j \in L : legs[j].available \in Nat
      BY <1>1 DEF Eligible, IsLeg
    <2> QED BY <1>1, <2>1 DEF AvailableAt
  <1> HIDE DEF L, f, avail
  <1>6. SumOf(f, L) \in Nat /\ f[i] <= SumOf(f, L)
    BY <1>1, <1>2, <1>3, SumNatural
  <1>7. Min(avail) <= legs[i].available /\ Min(avail) \in Nat
    BY <1>5, MinOfNaturals
  <1>8. legs[i].stake \in Nat /\ legs[i].available \in Nat
    BY <1>1, <1>3, <1>5
  <1> QED BY <1>3, <1>4, <1>6, <1>7, <1>8

\* A portfolio is accepted in parts just when it is accepted.
LEMMA PartsAcceptedAlike ==
  ASSUME NEW one, NEW two, NEW i, NEW z, TakenInParts(one, two, i, z)
  PROVE  Accepted(two) <=> Accepted(one)
  <1>1. /\ i \in DOMAIN one /\ z \notin DOMAIN one /\ DOMAIN two = DOMAIN one \cup {z}
        /\ IsFiniteSet(DOMAIN one) /\ (\A j \in DOMAIN one : IsLeg(one[j]))
        /\ \A j \in DOMAIN one : j # i => two[j] = one[j]
    BY DEF TakenInParts
  <1>2. /\ \A j \in DOMAIN one : /\ IsExchange(two[j]) <=> IsExchange(one[j])
                                 /\ Eligible(two[j]) <=> Eligible(one[j])
                                 /\ two[j].available = one[j].available /\ two[j].rate = one[j].rate
                                 /\ two[j].runner = one[j].runner /\ two[j].status = one[j].status
                                 /\ two[j].market = one[j].market
        /\ IsExchange(two[z]) <=> IsExchange(one[i])
        /\ Eligible(two[z]) <=> Eligible(one[i])
        /\ two[z].available = one[i].available /\ two[z].rate = one[i].rate
        /\ two[z].runner = one[i].runner /\ two[z].status = one[i].status
        /\ two[z].market = one[i].market
    BY DEF TakenInParts, SameLevel, IsExchange, Eligible
  <1>3. Accounts(two) = Accounts(one) /\ \A a : LegsOf(two, a) = Spread(LegsOf(one, a), i, z)
    BY PartsGroupAlike
  <1>4. OneRate(two) <=> OneRate(one)
    <2>1. \A a : LegsOf(one, a) \in SUBSET DOMAIN one
      BY DEF LegsOf
    <2> QED BY <1>1, <1>2, <1>3, <2>1 DEF OneRate, Spread
  <1>5. SharedLiquidityHolds(two) <=> SharedLiquidityHolds(one)
    BY PartsShareLiquidity
  <1>6. /\ one[i].stake \in Nat /\ one[i].stake > 1 /\ two[i].stake = 1 /\ two[z].stake = one[i].stake - 1
        /\ \A j \in DOMAIN one : one[j].available \in Nat \cup {Unknown}
    BY <1>1 DEF TakenInParts, IsLeg
  <1>9. (\A j, k \in DOMAIN two : two[j].market = two[k].market)
          <=> (\A j, k \in DOMAIN one : one[j].market = one[k].market)
    BY <1>1, <1>2
  <1>7. ASSUME Accepted(one) PROVE Accepted(two)
    <2>1. ASSUME NEW j \in DOMAIN two PROVE Constructible(two[j]) /\ two[j].runner \in Runners
      <3>1. CASE j \in DOMAIN one /\ j # i
        BY <1>1, <1>7, <3>1 DEF Accepted
      <3>2. CASE j \in {i, z}
        <4>1. /\ two[j].runner = one[i].runner /\ (IsExchange(two[j]) <=> IsExchange(one[i]))
              /\ (Eligible(two[j]) <=> Eligible(one[i])) /\ two[j].available = one[i].available
              /\ two[j].status = one[i].status
          BY <1>1, <1>2, <3>2
        <4>2. Constructible(one[i]) /\ one[i].runner \in Runners
          BY <1>1, <1>7 DEF Accepted
        <4>3. IsExchange(one[i]) => one[i].available \in Nat /\ one[i].stake <= one[i].available /\ Eligible(one[i])
          BY <1>1, <1>6, <4>2 DEF Constructible, Eligible
        <4>4. two[j].stake \in Nat /\ two[j].stake <= one[i].stake
          BY <1>6, <3>2
        <4> QED BY <1>6, <4>1, <4>2, <4>3, <4>4 DEF Constructible
      <3> QED BY <1>1, <2>1, <3>1, <3>2
    <2> QED BY <1>3, <1>4, <1>5, <1>7, <1>9, <2>1 DEF Accepted
  <1>8. ASSUME Accepted(two) PROVE Accepted(one)
    <2>1. \A j \in DOMAIN one : /\ IsExchange(one[j]) => Eligible(one[j])
                                /\ ~IsExchange(one[j]) => one[j].status = "active"
                                /\ one[j].runner \in Runners
      BY <1>1, <1>2, <1>8 DEF Accepted, Constructible
    <2>2. SharedLiquidityHolds(one)
      BY <1>5, <1>8 DEF Accepted
    <2>3. \A j \in DOMAIN one : IsExchange(one[j]) => one[j].stake <= one[j].available
      BY <1>1, <2>1, <2>2, StakeIsAvailable
    <2>4. \A j \in DOMAIN one : Constructible(one[j])
      BY <2>1, <2>3 DEF Constructible
    <2> QED BY <1>3, <1>4, <1>5, <1>8, <1>9, <2>1, <2>2, <2>4 DEF Accepted
  <1> QED BY <1>7, <1>8

\* An account of an accepted portfolio has legs, all at its rate.
LEMMA AccountHasRate ==
  ASSUME NEW legs, \A j \in DOMAIN legs : IsLeg(legs[j]), Accepted(legs), NEW a \in Accounts(legs)
  PROVE  /\ LegsOf(legs, a) # {} /\ RateOf(legs, a) \in Nat
         /\ \A j \in LegsOf(legs, a) : legs[j].rate = RateOf(legs, a)
  <1> DEFINE i == CHOOSE x \in LegsOf(legs, a) : TRUE
  <1>1. PICK j \in DOMAIN legs : IsExchange(legs[j]) /\ a = Account(legs[j])
    BY DEF Accounts
  <1>2. j \in LegsOf(legs, a)
    BY <1>1 DEF LegsOf
  <1>3. i \in LegsOf(legs, a) /\ RateOf(legs, a) = legs[i].rate
    BY <1>2 DEF RateOf
  <1> HIDE DEF i
  <1>4. \A k \in LegsOf(legs, a) : legs[k].rate = legs[i].rate
    BY <1>3 DEF Accepted, OneRate
  <1>5. i \in DOMAIN legs /\ IsExchange(legs[i])
    BY <1>3 DEF LegsOf
  <1>6. legs[i].rate \in Nat
    BY <1>5 DEF Accepted, Constructible, Eligible, IsLeg
  <1> QED BY <1>2, <1>3, <1>4, <1>6

\* The accounts of a finite portfolio are finitely many.
LEMMA AccountsFinite ==
  ASSUME NEW legs, IsFiniteSet(DOMAIN legs)
  PROVE  IsFiniteSet(Accounts(legs))
  <1> DEFINE E == {j \in DOMAIN legs : IsExchange(legs[j])}
             f == [j \in E |-> Account(legs[j])]
  <1>1. IsFiniteSet(E)
    BY FS_Subset
  <1>2. f \in Surjection(E, Accounts(legs))
    BY DEF Surjection, Accounts
  <1> HIDE DEF E, f
  <1> QED BY <1>1, <1>2, FS_Surjection

\* The gross result of an account, as SumOf.
LEMMA GrossIsSum ==
  ASSUME NEW legs, NEW a, NEW w
  PROVE  AccountGross(legs, a, w) = SumOf(LegProfits(legs, w), LegsOf(legs, a))
  <1>1. LegsOf(legs, a) \in SUBSET DOMAIN legs
    BY DEF LegsOf
  <1> QED BY <1>1, ProfitSumIsSum DEF AccountGross

\* Portfolios with the same gross results and rates per account, and the same
\* profit over all legs, yield the same.
LEMMA SameResultsSameProfit ==
  ASSUME NEW one, NEW two, NEW w, IsFiniteSet(DOMAIN one), Accounts(two) = Accounts(one),
         \A a \in Accounts(one) : /\ AccountGross(one, a, w) \in Int /\ RateOf(one, a) \in Nat
                                  /\ AccountGross(two, a, w) = AccountGross(one, a, w)
                                  /\ RateOf(two, a) = RateOf(one, a),
         SumOf(LegProfits(two, w), DOMAIN two) = SumOf(LegProfits(one, w), DOMAIN one)
  PROVE  NetProfit(two, w) = NetProfit(one, w)
  <1> DEFINE f == Charges(one, w)
             g == Charges(two, w)
             A == Accounts(one)
  <1>1. IsFiniteSet(A)
    BY AccountsFinite
  <1>2. \A a \in A : f[a] = Charge(one, a, w) /\ g[a] = Charge(two, a, w)
    BY DEF Charges
  <1>3. \A a \in A : f[a] \in Int /\ f[a] = g[a]
    <2> SUFFICES ASSUME NEW a \in A PROVE f[a] \in Int /\ f[a] = g[a]
      OBVIOUS
    <2> DEFINE gross == AccountGross(one, a, w)
               rate == RateOf(one, a)
    <2>1. gross \in Int /\ rate \in Nat
      OBVIOUS
    <2>2. Charge(one, a, w) = IF gross > 0 THEN gross * rate ELSE 0
      BY DEF Charge
    <2>3. Charge(two, a, w) = IF gross > 0 THEN gross * rate ELSE 0
      BY DEF Charge
    <2> HIDE DEF f, g, gross, rate
    <2>4. gross * rate \in Int
      BY <2>1
    <2> QED BY <1>2, <2>2, <2>3, <2>4
  <1> HIDE DEF f, g
  <1>4. SumOf(f, A) = SumOf(g, A)
    BY <1>1, <1>3, SumCongruent
  <1>5. Commission(two, w) = Commission(one, w)
    BY <1>4, CommissionIsSum DEF f, g
  <1>6. MapThenSumSet(LAMBDA j : LegProfit(one[j], w), DOMAIN one) = SumOf(LegProfits(one, w), DOMAIN one)
    BY ProfitSumIsSum
  <1>7. MapThenSumSet(LAMBDA j : LegProfit(two[j], w), DOMAIN two) = SumOf(LegProfits(two, w), DOMAIN two)
    BY ProfitSumIsSum
  <1> QED BY <1>5, <1>6, <1>7 DEF NetProfit

\* A portfolio yields in parts what it yields.
LEMMA PartsYieldAlike ==
  ASSUME NEW one, NEW two, NEW i, NEW z, TakenInParts(one, two, i, z), Accepted(one), NEW w
  PROVE  NetProfit(two, w) = NetProfit(one, w)
  <1>1. /\ IsFiniteSet(DOMAIN one) /\ (\A j \in DOMAIN one : IsLeg(one[j])) /\ i \in DOMAIN one
        /\ DOMAIN two = Spread(DOMAIN one, i, z)
        /\ (\A j \in DOMAIN one : two[j].rate = one[j].rate) /\ two[z].rate = one[i].rate
    BY DEF TakenInParts, SameLevel, Spread
  <1>2. Accounts(two) = Accounts(one) /\ \A a : LegsOf(two, a) = Spread(LegsOf(one, a), i, z)
    BY PartsGroupAlike
  <1>3. SumOf(LegProfits(two, w), DOMAIN two) = SumOf(LegProfits(one, w), DOMAIN one)
    BY <1>1, PartsSumAlike
  <1>4. ASSUME NEW a \in Accounts(one)
        PROVE  /\ AccountGross(one, a, w) \in Int /\ RateOf(one, a) \in Nat
               /\ AccountGross(two, a, w) = AccountGross(one, a, w)
               /\ RateOf(two, a) = RateOf(one, a)
    <2>1. LegsOf(one, a) \in SUBSET DOMAIN one
      BY DEF LegsOf
    <2>2. AccountGross(one, a, w) \in Int /\ AccountGross(two, a, w) = AccountGross(one, a, w)
      BY <1>2, <2>1, GrossIsSum, PartsSumAlike
    <2>3. /\ LegsOf(one, a) # {} /\ RateOf(one, a) \in Nat
          /\ \A j \in LegsOf(one, a) : one[j].rate = RateOf(one, a)
      BY <1>1, AccountHasRate
    <2>4. \A j \in LegsOf(two, a) : two[j].rate = RateOf(one, a)
      BY <1>1, <1>2, <2>1, <2>3 DEF Spread
    <2>5. LegsOf(two, a) # {}
      BY <1>2, <2>3 DEF Spread
    <2>6. RateOf(two, a) = RateOf(one, a)
      BY <2>4, <2>5 DEF RateOf
    <2> QED BY <2>2, <2>3, <2>6
  <1> QED BY <1>1, <1>2, <1>3, <1>4, SameResultsSameProfit

\* With two runners, a lay with a whole liability and complementary price yields
\* what the back of the other runner yields.
LEMMA BackYieldsAlike ==
  ASSUME NEW leg, IsLeg(leg), leg.side = "lay", WholeLay(leg), leg.runner \in Runners,
         Runners = {leg.runner, Other(leg.runner)}, NEW w \in Runners
  PROVE  /\ LegProfit(AsBack(leg), w) = LegProfit(leg, w)
         /\ AsBack(leg).venue = leg.venue /\ AsBack(leg).scope = leg.scope /\ AsBack(leg).rate = leg.rate
  <1> DEFINE s == leg.stake
             o == OddsUnit
             p == leg.price - o
             l == s * p
             u == l \div o
             q == o * o
             v == q \div p
             back == AsBack(leg)
  <1>1. s \in Nat /\ p \in Nat \ {0} /\ o \in Nat \ {0}
    <2>1. s \in Nat /\ leg.price \in Nat \ 0..o /\ o \in Nat \ {0}
      BY UnitsAssumption DEF IsLeg
    <2> HIDE DEF o
    <2> QED BY <2>1
  <1>2. l % o = 0 /\ q % p = 0
    BY DEF WholeLay, LayLiability
  <1>3. Other(leg.runner) \in Runners /\ Other(leg.runner) # leg.runner
    BY RunnersAssumption DEF Other
  <1>4. w # leg.runner => w = Other(leg.runner)
    BY <1>3
  <1>5. /\ back.side = "back" /\ back.runner = Other(leg.runner) /\ back.stake = u /\ back.price = o + v
        /\ back.venue = leg.venue /\ back.scope = leg.scope /\ back.rate = leg.rate
    BY DEF AsBack, IsLeg, LayLiability
  <1>6. l \in Nat /\ q \in Nat
    <2> HIDE DEF o, p
    <2> QED BY <1>1
  <1> HIDE DEF o, p
  <1>7. u \in Int /\ l = u * o
    <2> HIDE DEF l
    <2> QED BY <1>1, <1>2, <1>6, GridIsMultiple
  <1>8. v \in Int /\ q = v * p
    <2> HIDE DEF q
    <2> QED BY <1>1, <1>2, <1>6, GridIsMultiple
  <1> HIDE DEF back, u, v, Other
  <1>9. u * v = o * s
    <2>1. (u * o) * v = (s * p) * v
      BY <1>7
    <2>2. (s * p) * v = s * (v * p) /\ (u * o) * v = (u * v) * o /\ u * v \in Int
      BY ONLY <1>1, <1>7, <1>8
    <2>3. s * (o * o) = (o * s) * o /\ o * s \in Int
      BY ONLY <1>1
    <2>4. (u * v) * o = (o * s) * o
      BY <1>8, <2>1, <2>2, <2>3
    <2> QED BY ONLY <1>1, <2>2, <2>3, <2>4
  <1>10. LegProfit(leg, w) = IF leg.runner = w THEN -l ELSE o * s
    BY DEF LegProfit, LayLiability, o, p
  <1>11. LegProfit(back, w) = IF Other(leg.runner) = w THEN u * v ELSE -(o * u)
    <2>1. back.price - o = v
      BY <1>1, <1>5, <1>8
    <2>2. LegProfit(back, w) =
            IF Other(leg.runner) = w THEN u * (back.price - o) ELSE -(o * u)
      BY <1>5 DEF LegProfit, o
    <2> QED BY <2>1, <2>2
  <1>12. o * u = l
    BY ONLY <1>1, <1>7
  <1>13. LegProfit(back, w) = LegProfit(leg, w)
    <2> HIDE DEF l
    <2> QED BY <1>3, <1>4, <1>9, <1>10, <1>11, <1>12
  <1> QED BY <1>5, <1>13 DEF back

\* Backing the other runner instead of a lay changes nothing.
LEMMA LayIsBack ==
  ASSUME NEW legs, IsPortfolio(legs), Accepted(legs), NEW i \in DOMAIN legs, legs[i].side = "lay",
         WholeLay(legs[i]), Runners = {legs[i].runner, Other(legs[i].runner)}, NEW w \in Runners
  PROVE  NetProfit([legs EXCEPT ![i] = AsBack(@)], w) = NetProfit(legs, w)
  <1> DEFINE two == [legs EXCEPT ![i] = AsBack(@)]
             D == DOMAIN legs
  <1>1. /\ legs \in Seq({legs[j] : j \in D}) /\ (\A j \in D : IsLeg(legs[j]))
    BY DEF IsPortfolio
  <1>2. IsFiniteSet(D)
    <2>1. Len(legs) \in Nat /\ D = 1..Len(legs)
      BY <1>1
    <2> QED BY <2>1, FS_Interval
  <1>3. IsLeg(legs[i]) /\ WholeLay(legs[i]) /\ legs[i].runner \in Runners
    BY <1>1 DEF Accepted
  <1>4. DOMAIN two = D /\ two[i] = AsBack(legs[i]) /\ \A j \in D : j # i => two[j] = legs[j]
    BY <1>1
  <1> HIDE DEF two
  <1>5. \A j \in D : /\ LegProfit(two[j], w) = LegProfit(legs[j], w) /\ two[j].venue = legs[j].venue
                     /\ two[j].scope = legs[j].scope /\ two[j].rate = legs[j].rate
    BY <1>3, <1>4, BackYieldsAlike
  <1>6. \A j \in D : (IsExchange(two[j]) <=> IsExchange(legs[j])) /\ Account(two[j]) = Account(legs[j])
    BY <1>5 DEF IsExchange, Account
  <1>7. Accounts(two) = Accounts(legs) /\ \A a : LegsOf(two, a) = LegsOf(legs, a)
    BY <1>4, <1>6 DEF Accounts, LegsOf
  <1>8. LegProfits(two, w) = LegProfits(legs, w)
    BY <1>4, <1>5 DEF LegProfits
  <1>9. ASSUME NEW a \in Accounts(legs)
        PROVE  /\ AccountGross(legs, a, w) \in Int /\ RateOf(legs, a) \in Nat
               /\ AccountGross(two, a, w) = AccountGross(legs, a, w)
               /\ RateOf(two, a) = RateOf(legs, a)
    <2>1. /\ LegsOf(legs, a) # {} /\ RateOf(legs, a) \in Nat /\ LegsOf(legs, a) \in SUBSET D
      BY <1>1, AccountHasRate DEF LegsOf
    <2>2. AccountGross(two, a, w) = AccountGross(legs, a, w)
      BY <1>7, <1>8, GrossIsSum
    <2>3. RateOf(two, a) = RateOf(legs, a)
      BY <1>5, <1>7, <2>1 DEF RateOf
    <2>4. AccountGross(legs, a, w) \in Int
      <3>1. \A j \in D : LegProfits(legs, w)[j] \in Int
        BY <1>1, ProfitIsWhole DEF LegProfits
      <3> QED BY <1>2, <2>1, <3>1, GrossIsSum, SumFacts
    <2> QED BY <2>1, <2>2, <2>3, <2>4
  <1>10. NetProfit(two, w) = NetProfit(legs, w)
    BY <1>2, <1>4, <1>7, <1>8, <1>9, SameResultsSameProfit
  <1> QED BY <1>10 DEF two

\* What is backed and laid at one price in one account adds nothing.
LEMMA OpposedAddsNothing ==
  ASSUME NEW legs, IsPortfolio(legs), Accepted(legs), NEW i \in DOMAIN legs, IsExchange(legs[i]),
         NEW w \in Runners
  PROVE  NetProfit(Opposed(legs, i), w) = NetProfit(legs, w)
  <1> DEFINE D == DOMAIN legs
             n == Len(legs)
             y == n + 1
             z == n + 2
             b == [legs[i] EXCEPT !.side = "back"]
             l == [legs[i] EXCEPT !.side = "lay"]
             two == Opposed(legs, i)
             S == {legs[j] : j \in D} \cup {b, l}
             f == LegProfits(legs, w)
             g == LegProfits(two, w)
  <1>1. /\ legs \in Seq({legs[j] : j \in D}) /\ (\A j \in D : IsLeg(legs[j]))
        /\ n \in Nat /\ D = 1..n
    BY DEF IsPortfolio
  <1>2. two = legs \o <<b, l>>
    BY DEF Opposed
  <1>3. DOMAIN two = D \cup {y, z} /\ two[y] = b /\ two[z] = l /\ \A j \in D : two[j] = legs[j]
    <2>1. legs \in Seq(S) /\ <<b, l>> \in Seq(S) /\ Len(<<b, l>>) = 2
      BY <1>1
    <2> HIDE DEF b, l, S, two
    <2>2. Len(two) = n + 2 /\ DOMAIN two = 1..(n + 2)
      BY <1>1, <1>2, <2>1
    <2>3. two[n + 1] = b /\ two[n + 2] = l /\ \A j \in 1..n : two[j] = legs[j]
      BY <1>1, <1>2, <2>1
    <2>4. 1..(n + 2) = (1..n) \cup {n + 1, n + 2}
      BY <1>1
    <2> QED BY <1>1, <2>2, <2>3, <2>4
  <1>4. y \notin D /\ z \notin D /\ y # z /\ IsFiniteSet(D) /\ i \in D
    <2>1. IsFiniteSet(1..n)
      BY <1>1, FS_Interval
    <2> HIDE DEF n
    <2> QED BY <1>1, <2>1
  <1>5. /\ b.venue = legs[i].venue /\ b.scope = legs[i].scope /\ b.rate = legs[i].rate
        /\ l.venue = legs[i].venue /\ l.scope = legs[i].scope /\ l.rate = legs[i].rate
        /\ LegProfit(b, w) \in Int /\ LegProfit(l, w) = -LegProfit(b, w)
    <2>1. IsLeg(legs[i])
      BY <1>1
    <2>2. /\ b.side = "back" /\ b.runner = legs[i].runner /\ b.stake = legs[i].stake
          /\ b.price = legs[i].price /\ b.venue = legs[i].venue /\ b.scope = legs[i].scope
          /\ b.rate = legs[i].rate
      BY <2>1 DEF IsLeg
    <2>3. /\ l.side = "lay" /\ l.runner = legs[i].runner /\ l.stake = legs[i].stake
          /\ l.price = legs[i].price /\ l.venue = legs[i].venue /\ l.scope = legs[i].scope
          /\ l.rate = legs[i].rate
      BY <2>1 DEF IsLeg
    <2>4. /\ legs[i].stake * (legs[i].price - OddsUnit) \in Int /\ OddsUnit * legs[i].stake \in Int
      BY <2>1, UnitsAssumption DEF IsLeg
    <2> HIDE DEF b, l
    <2> DEFINE x == legs[i].stake * (legs[i].price - OddsUnit)
               t == OddsUnit * legs[i].stake
    <2>5. /\ LegProfit(b, w) = IF legs[i].runner = w THEN x ELSE -t
          /\ LegProfit(l, w) = IF legs[i].runner = w THEN -x ELSE t
      BY <2>2, <2>3 DEF LegProfit, LayLiability
    <2> HIDE DEF x, t
    <2>6. x \in Int /\ t \in Int
      BY <2>4 DEF x, t
    <2> QED BY <2>2, <2>3, <2>5, <2>6
  <1> HIDE DEF y, z, b, l, two, n
  <1>6. /\ \A j \in D : f[j] = g[j] /\ f[j] \in Int
        /\ g[y] \in Int /\ g[z] = -g[y]
    BY <1>1, <1>3, <1>5, ProfitIsWhole DEF LegProfits
  <1>7. /\ \A j \in D : two[j] = legs[j]
        /\ \A j \in {y, z} : (IsExchange(two[j]) <=> IsExchange(legs[i])) /\ Account(two[j]) = Account(legs[i])
                             /\ two[j].rate = legs[i].rate
    BY <1>3, <1>5 DEF IsExchange, Account
  <1>8. Accounts(two) = Accounts(legs)
    BY <1>3, <1>4, <1>7 DEF Accounts
  <1>9. \A a : LegsOf(two, a) = IF i \in LegsOf(legs, a) THEN LegsOf(legs, a) \cup {y, z} ELSE LegsOf(legs, a)
    BY <1>3, <1>4, <1>7 DEF LegsOf
  <1> HIDE DEF f, g
  <1>10. ASSUME NEW L \in SUBSET D
         PROVE  SumOf(g, L \cup {y, z}) = SumOf(f, L) /\ SumOf(g, L) = SumOf(f, L) /\ SumOf(f, L) \in Int
    <2> DEFINE M == L \cup {y}
               N == L \cup {y, z}
    <2>1. IsFiniteSet(L) /\ IsFiniteSet(M) /\ IsFiniteSet(N)
      <3>1. IsFiniteSet(L)
        BY <1>4, FS_Subset
      <3>2. IsFiniteSet(L \cup {y}) /\ IsFiniteSet((L \cup {y}) \cup {z})
        BY <3>1, FS_AddElement
      <3>3. (L \cup {y}) \cup {z} = L \cup {y, z}
        OBVIOUS
      <3> QED BY <3>1, <3>2, <3>3
    <2>2. \A j \in N : g[j] \in Int
      BY <1>6
    <2>3. y \in M /\ z \in N /\ M \ {y} = L /\ N \ {z} = M /\ M \in SUBSET N /\ L \in SUBSET N /\ N \in SUBSET N
      BY <1>4
    <2>4. SumOf(g, L) = SumOf(f, L)
      BY <1>6, <2>1, SumCongruent
    <2> HIDE DEF M, N
    <2>5. SumOf(g, N) = g[z] + SumOf(g, M)
      <3>1. SumOf(g, N) = g[z] + SumOf(g, N \ {z})
        BY <2>1, <2>2, <2>3, SumFacts
      <3> QED BY <2>3, <3>1
    <2>6. SumOf(g, M) = g[y] + SumOf(g, L) /\ SumOf(g, L) \in Int
      BY <2>1, <2>2, <2>3, SumFacts
    <2>7. SumOf(g, N) = SumOf(f, L)
      BY <1>6, <2>4, <2>5, <2>6
    <2> QED BY <2>4, <2>6, <2>7 DEF N
  <1>11. SumOf(g, DOMAIN two) = SumOf(f, D)
    BY <1>3, <1>10
  <1>12. ASSUME NEW a \in Accounts(legs)
         PROVE  /\ AccountGross(legs, a, w) \in Int /\ RateOf(legs, a) \in Nat
                /\ AccountGross(two, a, w) = AccountGross(legs, a, w)
                /\ RateOf(two, a) = RateOf(legs, a)
    <2>1. /\ LegsOf(legs, a) # {} /\ RateOf(legs, a) \in Nat /\ LegsOf(legs, a) \in SUBSET D
          /\ \A j \in LegsOf(legs, a) : legs[j].rate = RateOf(legs, a)
      BY <1>1, AccountHasRate DEF LegsOf
    <2>2. AccountGross(two, a, w) = AccountGross(legs, a, w) /\ AccountGross(legs, a, w) \in Int
      BY <1>9, <1>10, <2>1, GrossIsSum DEF f, g
    <2>3. \A j \in LegsOf(two, a) : two[j].rate = RateOf(legs, a)
      BY <1>7, <1>9, <2>1
    <2>4. LegsOf(two, a) # {}
      BY <1>9, <2>1
    <2>5. RateOf(two, a) = RateOf(legs, a)
      BY <2>3, <2>4 DEF RateOf
    <2> QED BY <2>1, <2>2, <2>5
  <1>13. NetProfit(two, w) = NetProfit(legs, w)
    BY <1>4, <1>8, <1>11, <1>12, SameResultsSameProfit DEF f, g
  <1> QED BY <1>13 DEF two

\* evaluate_exchange_portfolio treats equivalent portfolios alike, whatever their
\* legs, in a market of any number of runners and for decimals of any unit: a leg
\* may be taken in two parts, and what is backed and laid at one price in one
\* account adds nothing. In a market of two runners a lay may be replaced by the
\* back of the other runner, where the unit can write it.
THEOREM EquivalentPortfolios ==
  ASSUME NEW legs, IsPortfolio(legs), NEW i \in DOMAIN legs
  PROVE  /\ legs[i].stake > 1 => SameOutcome(legs, Split(legs, i))
         /\ Accepted(legs) /\ IsExchange(legs[i]) =>
              \A w \in Runners : NetProfit(Opposed(legs, i), w) = NetProfit(legs, w)
         /\ /\ Accepted(legs) /\ legs[i].side = "lay" /\ WholeLay(legs[i])
            /\ Runners = {legs[i].runner, Other(legs[i].runner)}
            => \A w \in Runners : NetProfit([legs EXCEPT ![i] = AsBack(@)], w) = NetProfit(legs, w)
  <1>1. ASSUME legs[i].stake > 1 PROVE SameOutcome(legs, Split(legs, i))
    <2> DEFINE two == Split(legs, i)
    <2>1. TakenInParts(legs, two, i, Len(legs) + 1)
      BY <1>1, SplitTakesParts
    <2> HIDE DEF two
    <2>2. Accepted(two) <=> Accepted(legs)
      BY <2>1, PartsAcceptedAlike
    <2>3. Accepted(legs) => \A w \in Runners : NetProfit(two, w) = NetProfit(legs, w)
      BY <2>1, PartsYieldAlike
    <2>4. Accepted(two) \in BOOLEAN /\ Accepted(legs) \in BOOLEAN
      BY DEF Accepted
    <2>5. Accepted(legs) = Accepted(two)
      BY <2>2, <2>4
    <2> QED BY <2>3, <2>5 DEF SameOutcome, two
  <1>2. ASSUME Accepted(legs), legs[i].side = "lay", WholeLay(legs[i]),
               Runners = {legs[i].runner, Other(legs[i].runner)}, NEW w \in Runners
        PROVE  NetProfit([legs EXCEPT ![i] = AsBack(@)], w) = NetProfit(legs, w)
    BY <1>2, LayIsBack
  <1>3. ASSUME Accepted(legs), IsExchange(legs[i]), NEW w \in Runners
        PROVE  NetProfit(Opposed(legs, i), w) = NetProfit(legs, w)
    BY <1>3, OpposedAddsNothing
  <1> QED BY <1>1, <1>2, <1>3

-----------------------------------------------------------------------------
(* The specification.                                                      *)

\* The invariant holds before anything is evaluated.
LEMMA InitEstablishes == Init => AdviceInv
  <1> SUFFICES ASSUME Init PROVE AdviceInv
    OBVIOUS
  <1>1. DOMAIN tracked = {} /\ DOMAIN believed = {}
    BY DEF Init
  <1>2. TrackerAgrees
    BY <1>1 DEF TrackerAgrees
  <1> QED
    BY <1>2 DEF Init, AdviceInv, ActionableIsSafe, NoSafePlanMissed

\* The alert that Track raises, and what it leaves in the tracker.
LEMMA TrackKeepsAgreement ==
  ASSUME NEW m, NEW item, TrackerAgrees, Track(m, item)
  PROVE  /\ TrackerAgrees'
         /\ m \in DOMAIN believed' /\ believed'[m] = item
         /\ alerts' # {} <=> ~(m \in DOMAIN believed /\ believed[m] = item)
  <1> DEFINE kind == AlertKind(m, item)
             entry == [state |-> item.state, fingerprint |-> item]
  <1>1. /\ tracked' = Put(tracked, m, entry)
        /\ alerts' = IF kind = "none" THEN {} ELSE {[market |-> m, kind |-> kind, item |-> item]}
        /\ believed' = IF kind = "none" THEN believed ELSE Put(believed, m, item)
    BY DEF Track, TrackerKey, Fingerprint
  <1>2. kind = "none" <=> m \in DOMAIN believed /\ believed[m] = item
    BY DEF AlertKind, TrackerKey, Fingerprint, TrackerAgrees
  <1> HIDE DEF kind
  <1>3. m \in DOMAIN believed' /\ believed'[m] = item
    BY <1>1, <1>2 DEF Put
  <1>4. DOMAIN believed' = DOMAIN believed \cup {m} /\ DOMAIN tracked' = DOMAIN tracked \cup {m}
    BY <1>1, <1>2 DEF Put
  <1>5. \A k \in DOMAIN believed : k # m => believed'[k] = believed[k] /\ tracked'[k] = tracked[k]
    BY <1>1 DEF Put, TrackerAgrees
  <1>6. tracked'[m] = entry
    BY <1>1 DEF Put
  <1>7. TrackerAgrees'
    BY <1>3, <1>4, <1>5, <1>6 DEF TrackerAgrees, Fingerprint
  <1>8. alerts' # {} <=> kind # "none"
    BY <1>1
  <1> QED
    BY <1>2, <1>3, <1>7, <1>8

\* The exposure is a natural number for a policy of the code.
LEMMA ExposureIsNatural ==
  ASSUME policy \in Policies
  PROVE  Exposure \in Nat
  <1>1. policy.bankroll \in Nat /\ policy.exposure \in Nat \cup {NoLimit}
    BY PoliciesAssumption DEF ActionabilityPolicy
  <1>2. CASE policy.exposure = NoLimit
    BY <1>1, <1>2 DEF Exposure
  <1>3. CASE policy.exposure # NoLimit
    <2> DEFINE T == {policy.bankroll, policy.exposure}
    <2>1. T \in SUBSET Nat /\ T # {}
      BY <1>1, <1>3
    <2>2. Exposure = Min(T)
      BY <1>3 DEF Exposure
    <2> HIDE DEF T
    <2> QED
      BY <2>1, <2>2, MinOfNaturals
  <1> QED
    BY <1>2, <1>3

\* The quotes of the moment and the policy fit allocate_stakes.
LEMMA QuotesAreAllocatable ==
  ASSUME policy \in Policies, NEW q \in Quotes
  PROVE  Allocatable([s \in Selections |-> q[s].price], policy.constraints)
  <1>1. policy.constraints \in [Selections -> StakeConstraint]
    BY PoliciesAssumption DEF ActionabilityPolicy
  <1>2. \A s \in Selections : q[s].price \in Nat \ {0}
    BY QuotesAssumption, PricesAssumption DEF CurrentQuote
  <1> QED
    BY <1>1, <1>2 DEF Allocatable

\* An actionable outcome of revalidate_opportunity is safe.
LEMMA RevalidationIsSafe ==
  ASSUME policy \in Policies, NEW m, NEW q \in Quotes, NEW outcome \in Revalidations(m, q),
         outcome.state = "actionable"
  PROVE  LET price == [s \in Selections |-> q[s].price]
             plan == outcome.plan
         IN  /\ \A s \in Selections : q[s].same /\ q[s].active /\ q[s].age = "recent"
             /\ plan.amounts \in SafeStakes(price, policy.constraints, Exposure, 0)
             /\ \A s \in Selections :
                  (ConservativePayout(plan.amounts[s], price[s]) - plan.total)
                    * (100 - policy.commission) * (100 - policy.tax) >= policy.minimumProfit * 10000
  <1> DEFINE price == [s \in Selections |-> q[s].price]
             plan == outcome.plan
             plans == AllocateStakes(price, policy.constraints, Exposure, 0)
             verdict(x) ==
               IF x = NoPlan THEN Outcome("validated", "stake_constraints", NoPlan)
               ELSE IF ~MeetsProfit(x) THEN Outcome("validated", "minimum_profit", x)
               ELSE IF ~MeetsRoi(x) THEN Outcome("validated", "minimum_roi", x)
               ELSE Outcome("actionable", "actionable", x)
  <1>1. /\ \A s \in Selections : q[s].same /\ q[s].active /\ q[s].age = "recent"
        /\ \E x \in plans : outcome = verdict(x)
    BY DEF Revalidations, Outcome, OutsideAge
  <1>2. PICK x \in plans : outcome = verdict(x)
    BY <1>1
  <1>3. x # NoPlan /\ MeetsProfit(x) /\ plan = x
    BY <1>2 DEF Outcome
  <1>4. Allocatable(price, policy.constraints)
    BY QuotesAreAllocatable
  <1>5. Exposure \in Nat
    BY ExposureIsNatural
  <1>6. /\ plan.amounts \in SafeStakes(price, policy.constraints, Exposure, 0)
        /\ plan.total \in Nat /\ plan.profit \in Int
        /\ \A s \in Selections :
             /\ ConservativePayout(plan.amounts[s], price[s]) \in Nat
             /\ ConservativePayout(plan.amounts[s], price[s]) - plan.total >= plan.profit
    <2> HIDE DEF price
    <2> QED
      BY <1>2, <1>3, <1>4, <1>5, AllocationIsSafe
  <1> DEFINE c == 100 - policy.commission
             d == 100 - policy.tax
  <1>7. c \in Nat /\ d \in Nat /\ policy.minimumProfit \in Nat
    BY PoliciesAssumption DEF ActionabilityPolicy
  <1>8. plan.profit * c * d >= policy.minimumProfit * 10000
    BY <1>3 DEF MeetsProfit, NetProfitOf
  <1>9. ASSUME NEW s \in Selections
        PROVE  (ConservativePayout(plan.amounts[s], price[s]) - plan.total) * c * d
                 >= policy.minimumProfit * 10000
    <2> DEFINE win == ConservativePayout(plan.amounts[s], price[s]) - plan.total
    <2>1. win \in Int /\ win >= plan.profit /\ plan.profit \in Int
      BY <1>6
    <2> HIDE DEF win, c, d
    <2>2. win * c >= plan.profit * c /\ win * c \in Int /\ plan.profit * c \in Int
      BY <1>7, <2>1, TimesMonotone
    <2>3. (win * c) * d >= (plan.profit * c) * d
      BY <1>7, <2>2, TimesMonotone
    <2>4. (win * c) * d \in Int /\ (plan.profit * c) * d \in Int /\ policy.minimumProfit * 10000 \in Int
      BY <1>7, <2>2
    <2>5. (win * c) * d >= policy.minimumProfit * 10000
      BY <1>8, <2>3, <2>4
    <2> QED
      BY <2>5 DEF win
  <1> QED
    BY <1>1, <1>6, <1>9

\* When revalidate_opportunity blames the stake constraints, no stakes are safe.
LEMMA RevalidationMissesNothing ==
  ASSUME policy \in Policies, NEW m, NEW q \in Quotes, NEW outcome \in Revalidations(m, q),
         outcome.reason = "stake_constraints"
  PROVE  SafeStakes([s \in Selections |-> q[s].price], policy.constraints, Exposure, 0) = {}
  <1> DEFINE price == [s \in Selections |-> q[s].price]
             plans == AllocateStakes(price, policy.constraints, Exposure, 0)
             verdict(x) ==
               IF x = NoPlan THEN Outcome("validated", "stake_constraints", NoPlan)
               ELSE IF ~MeetsProfit(x) THEN Outcome("validated", "minimum_profit", x)
               ELSE IF ~MeetsRoi(x) THEN Outcome("validated", "minimum_roi", x)
               ELSE Outcome("actionable", "actionable", x)
  <1>1. \E x \in plans : outcome = verdict(x)
    BY DEF Revalidations, Outcome
  <1>2. NoPlan \in plans
    BY <1>1 DEF Outcome
  <1>3. Allocatable(price, policy.constraints)
    BY QuotesAreAllocatable
  <1>4. Exposure \in Nat
    BY ExposureIsNatural
  <1> HIDE DEF price
  <1>5. SafeStakes(price, policy.constraints, Exposure, 0) = {}
    BY <1>2, <1>3, <1>4, AllocationIsComplete
  <1> QED BY <1>5 DEF price

\* Every step keeps the invariant, and its alerts are exact.
LEMMA StepKeeps ==
  ASSUME AdviceInv, [Next]_vars
  PROVE  /\ AdviceInv'
         /\ UNCHANGED vars \/ (evaluation' # NoItem =>
              LET item == Item(evaluation'.outcome, evaluation'.quotes)
                  m == evaluation'.market
              IN  /\ m \in DOMAIN believed' /\ believed'[m] = item
                  /\ alerts' # {} <=> ~(m \in DOMAIN believed /\ believed[m] = item))
  <1>1. policy' = policy /\ policy \in Policies
    BY DEF AdviceInv, Next, vars, EvaluatePortfolio, Report, Revalidate
  <1>a. portfolio' \in Portfolios \cup {<<>>}
    BY DEF AdviceInv, Next, vars, EvaluatePortfolio, Report, Revalidate
  <1>2. CASE UNCHANGED vars
    <2>1. TrackerAgrees' /\ (policy \in Policies)'
      BY <1>2 DEF AdviceInv, TrackerAgrees, vars
    <2>2. ActionableIsSafe'
      BY <1>2 DEF AdviceInv, ActionableIsSafe, vars, Exposure
    <2>3. NoSafePlanMissed'
      BY <1>2 DEF AdviceInv, NoSafePlanMissed, vars, Exposure
    <2> QED
      BY <1>2, <1>a, <2>1, <2>2, <2>3 DEF AdviceInv
  <1>3. CASE evaluation' = NoItem /\ tracked' = tracked /\ believed' = believed
    BY <1>1, <1>a, <1>3 DEF AdviceInv, TrackerAgrees, ActionableIsSafe, NoSafePlanMissed
  <1>4. CASE EvaluatePortfolio
    BY <1>3, <1>4 DEF EvaluatePortfolio
  <1>5. ASSUME NEW m \in Markets, Report(m) PROVE evaluation' = NoItem /\ tracked' = tracked /\ believed' = believed
    BY <1>5 DEF Report
  <1>6. ASSUME NEW m \in Markets, NEW q \in Quotes, NEW outcome \in Revalidations(m, q),
               evaluation' = [market |-> m, quotes |-> q, outcome |-> outcome],
               Track(m, Item(outcome, q))
        PROVE  /\ AdviceInv'
               /\ LET item == Item(evaluation'.outcome, evaluation'.quotes)
                      k == evaluation'.market
                  IN  /\ k \in DOMAIN believed' /\ believed'[k] = item
                      /\ alerts' # {} <=> ~(k \in DOMAIN believed /\ believed[k] = item)
    <2>1. /\ evaluation'.market = m /\ evaluation'.quotes = q /\ evaluation'.outcome = outcome
      BY <1>6
    <2>2. /\ TrackerAgrees'
          /\ m \in DOMAIN believed' /\ believed'[m] = Item(outcome, q)
          /\ alerts' # {} <=> ~(m \in DOMAIN believed /\ believed[m] = Item(outcome, q))
      BY <1>6, TrackKeepsAgreement DEF AdviceInv
    <2>3. ActionableIsSafe'
      <3>1. Exposure' = Exposure
        BY <1>1 DEF Exposure
      <3>2. CASE outcome.state = "actionable"
        BY <1>1, <1>6, <2>1, <3>1, <3>2, RevalidationIsSafe DEF ActionableIsSafe
      <3>3. CASE outcome.state # "actionable"
        BY <2>1, <3>3 DEF ActionableIsSafe
      <3> QED
        BY <3>2, <3>3
    <2>4. NoSafePlanMissed'
      <3>1. Exposure' = Exposure
        BY <1>1 DEF Exposure
      <3>2. CASE outcome.reason = "stake_constraints"
        BY <1>1, <1>6, <2>1, <3>1, <3>2, RevalidationMissesNothing DEF NoSafePlanMissed
      <3>3. CASE outcome.reason # "stake_constraints"
        BY <2>1, <3>3 DEF NoSafePlanMissed
      <3> QED
        BY <3>2, <3>3
    <2> QED
      BY <1>1, <1>a, <2>1, <2>2, <2>3, <2>4 DEF AdviceInv
  <1>7. ASSUME NEW m \in Markets, Revalidate(m)
        PROVE  \/ evaluation' = NoItem /\ tracked' = tracked /\ believed' = believed
               \/ \E q \in Quotes : \E outcome \in Revalidations(m, q) :
                    /\ evaluation' = [market |-> m, quotes |-> q, outcome |-> outcome]
                    /\ Track(m, Item(outcome, q))
    BY <1>7 DEF Revalidate
  <1> QED
    BY <1>2, <1>3, <1>4, <1>5, <1>6, <1>7 DEF Next

\* The inductive invariant holds in every reachable state.
THEOREM AdviceInvariance == Spec => []AdviceInv
  <1>1. AdviceInv /\ [Next]_vars => AdviceInv'
    BY StepKeeps
  <1> QED
    BY <1>1, InitEstablishes, PTL DEF Spec

\* What revalidate_opportunity calls actionable can be acted on without loss,
\* for every market, price, constraint, bankroll, exposure and rate: the search
\* over rounded stakes never returns a plan that some winner turns into a loss.
THEOREM ActionableNeverLoses == Spec => []ActionableIsSafe
  <1>1. AdviceInv => ActionableIsSafe
    BY DEF AdviceInv
  <1> QED
    BY <1>1, AdviceInvariance, PTL

\* An opportunity put aside because of its stake constraints has no safe stakes,
\* for every market, price, constraint, bankroll and exposure: neither the start
\* at the continuous target nor the descent from breakpoint to breakpoint skips
\* a plan that would win whichever selection wins.
THEOREM NoSafePlanIsMissed == Spec => []NoSafePlanMissed
  <1>1. AdviceInv => NoSafePlanMissed
    BY DEF AdviceInv
  <1> QED
    BY <1>1, AdviceInvariance, PTL

\* Whatever portfolio is evaluated, of any number of legs, runners and decimals,
\* taking a stake in two parts changes neither whether it is accepted nor what it
\* yields, what is backed and laid at one price in one account adds nothing, and
\* with two runners a lay yields what backing the other yields, commission
\* included.
THEOREM PortfoliosAlwaysEquivalent == Spec => []PortfoliosEquivalent
  <1>1. AdviceInv => PortfoliosEquivalent
    <2> SUFFICES ASSUME AdviceInv, portfolio # <<>> PROVE PortfoliosEquivalent
      BY DEF PortfoliosEquivalent
    <2>1. IsPortfolio(portfolio)
      BY PortfoliosAssumption DEF AdviceInv
    <2>2. \A i \in DOMAIN portfolio : portfolio[i].stake > 1 => SameOutcome(portfolio, Split(portfolio, i))
      BY <2>1, EquivalentPortfolios
    <2>3. ASSUME Accepted(portfolio), NEW i \in DOMAIN portfolio, IsExchange(portfolio[i]),
                 NEW w \in Runners
          PROVE  /\ NetProfit(Opposed(portfolio, i), w) = NetProfit(portfolio, w)
                 /\ /\ portfolio[i].side = "lay" /\ WholeLay(portfolio[i])
                    /\ Runners = {portfolio[i].runner, Other(portfolio[i].runner)}
                    => NetProfit([portfolio EXCEPT ![i] = AsBack(@)], w) = NetProfit(portfolio, w)
      BY <2>1, <2>3, EquivalentPortfolios
    <2> QED
      BY <2>2, <2>3 DEF PortfoliosEquivalent
  <1> QED
    BY <1>1, AdviceInvariance, PTL

\* The alerts of AlertTracker tell exactly what the dashboard shows.
THEOREM AlertsAreExact == Spec => AlertsExact
  <1>1. AdviceInv /\ [Next]_vars =>
          [evaluation' # NoItem =>
             LET item == Item(evaluation'.outcome, evaluation'.quotes)
                 m == evaluation'.market
             IN  /\ m \in DOMAIN believed' /\ believed'[m] = item
                 /\ alerts' # {} <=> ~(m \in DOMAIN believed /\ believed[m] = item)]_vars
    BY StepKeeps
  <1> QED
    BY <1>1, AdviceInvariance, PTL DEF Spec, AlertsExact
=============================================================================
