-------------------------- MODULE AlgorithmsProofs --------------------------
(***************************************************************************)
(* LoadBalancerEx with the rebalance of the leader, for any numbers of     *)
(* workers and topologies and any weights and affinities, TopologyCompiler *)
(* for any variables and configurations, and AccumulatorBolt for any       *)
(* messages: what functions defined step by step compute, and what follows *)
(* for the components.                                                     *)
(***************************************************************************)
EXTENDS LoadBalancer, TopologyCompiler, AccumulatorBolt, FiniteSetTheorems, SequenceTheorems,
        Recursion

---------------------------------------------------------------------------
(* Sums and products.                                                      *)

\* The value of f for k, or the value that leaves a sum as it is.
At(f, k) == IF k \in DOMAIN f THEN f[k] ELSE 0

IsNatural(f) == \A k \in DOMAIN f : f[k] \in Nat

\* A sum and its next term.
LEMMA SumToSteps ==
  ASSUME NEW f, IsNatural(f)
  PROVE  /\ SumTo(f, 0) = 0
         /\ \A n \in Nat : SumTo(f, n) \in Nat /\ SumTo(f, n + 1) = SumTo(f, n) + At(f, n + 1)
<1> DEFINE step == [p \in Nat \X Nat |-> p[2] + At(f, p[1] + 1)]
           Sums(s) == s = [k \in Nat |-> IF k = 0 THEN 0
                             ELSE s[k - 1] + (IF k \in DOMAIN f THEN f[k] ELSE 0)]
           sum == CHOOSE s : Sums(s)
<1>1. \A k : At(f, k) \in Nat
  BY DEF At, IsNatural
<1>2. step \in [Nat \X Nat -> Nat]
  BY <1>1
<1>3. PICK g \in [Nat -> Nat] : TakesSteps(g, 0, step)
  <2>1. 0 \in Nat
    OBVIOUS
  <2> HIDE DEF step
  <2> QED  BY <1>2, <2>1, RecursionExists
<1>4. \A n \in Nat : g[n + 1] = g[n] + At(f, n + 1)
  BY <1>3 DEF TakesSteps
<1>5. \A k \in Nat : g[k] = IF k = 0 THEN 0 ELSE g[k - 1] + At(f, k)
  <2> SUFFICES ASSUME NEW k \in Nat, k # 0 PROVE g[k] = g[k - 1] + At(f, k)
    BY <1>3 DEF TakesSteps
  <2>1. k - 1 \in Nat /\ (k - 1) + 1 = k
    OBVIOUS
  <2> QED
    BY <1>4, <2>1
<1>6. Sums(g)
  BY <1>3, <1>5 DEF At
<1>7. Sums(sum)
  BY <1>6
<1>8. \A n : SumTo(f, n) = sum[n]
  BY DEF SumTo
<1> HIDE DEF sum
<1>9. sum[0] = 0 /\ \A n \in Nat : sum[n + 1] = sum[n] + At(f, n + 1)
  BY <1>7 DEF At
<1> DEFINE N == {n \in Nat : sum[n] \in Nat}
<1>10. 0 \in N
  BY <1>9
<1>11. ASSUME NEW n \in Nat, n \in N PROVE n + 1 \in N
  BY <1>1, <1>9, <1>11
<1>12. Nat \subseteq N
  <2> HIDE DEF N
  <2> QED  BY <1>10, <1>11, InductionSet
<1> QED
  BY <1>8, <1>9, <1>12

\* The terms of a sum are what it depends on.
LEMMA SumToAgrees ==
  ASSUME NEW f, NEW g, IsNatural(f), IsNatural(g), NEW n \in Nat,
         \A k \in 1..n : At(f, k) = At(g, k)
  PROVE  SumTo(f, n) = SumTo(g, n)
<1> DEFINE N == {m \in Nat : m <= n => SumTo(f, m) = SumTo(g, m)}
<1>1. 0 \in N
  BY SumToSteps
<1>2. ASSUME NEW m \in Nat, m \in N PROVE m + 1 \in N
  <2> SUFFICES ASSUME m + 1 <= n PROVE SumTo(f, m + 1) = SumTo(g, m + 1)
    OBVIOUS
  <2>1. SumTo(f, m) = SumTo(g, m) /\ At(f, m + 1) = At(g, m + 1)
    BY <1>2
  <2> QED
    BY <2>1, SumToSteps
<1>3. Nat \subseteq N
  <2> HIDE DEF N
  <2> QED  BY <1>1, <1>2, InductionSet
<1> QED
  BY <1>3

\* Sums are added term by term.
LEMMA SumToAdds ==
  ASSUME NEW f, NEW g, NEW h, IsNatural(f), IsNatural(g), IsNatural(h), NEW n \in Nat,
         \A k \in 1..n : At(h, k) = At(f, k) + At(g, k)
  PROVE  SumTo(h, n) = SumTo(f, n) + SumTo(g, n)
<1> DEFINE N == {m \in Nat : m <= n => SumTo(h, m) = SumTo(f, m) + SumTo(g, m)}
<1>1. 0 \in N
  BY SumToSteps
<1>2. ASSUME NEW m \in Nat, m \in N PROVE m + 1 \in N
  <2> SUFFICES ASSUME m + 1 <= n PROVE SumTo(h, m + 1) = SumTo(f, m + 1) + SumTo(g, m + 1)
    OBVIOUS
  <2>1. SumTo(h, m) = SumTo(f, m) + SumTo(g, m)
    BY <1>2
  <2>2. At(h, m + 1) = At(f, m + 1) + At(g, m + 1)
    OBVIOUS
  <2>3. /\ SumTo(h, m) \in Nat /\ SumTo(h, m + 1) = SumTo(h, m) + At(h, m + 1)
        /\ SumTo(f, m) \in Nat /\ SumTo(f, m + 1) = SumTo(f, m) + At(f, m + 1)
        /\ SumTo(g, m) \in Nat /\ SumTo(g, m + 1) = SumTo(g, m) + At(g, m + 1)
    BY SumToSteps
  <2>4. At(f, m + 1) \in Nat /\ At(g, m + 1) \in Nat
    BY DEF At, IsNatural
  <2> QED
    BY <2>1, <2>2, <2>3, <2>4
<1>3. Nat \subseteq N
  <2> HIDE DEF N
  <2> QED  BY <1>1, <1>2, InductionSet
<1> QED
  BY <1>3

\* A sum with one term.
LEMMA SumToOfOne ==
  ASSUME NEW f, IsNatural(f), NEW n \in Nat, NEW j \in 1..n,
         \A k \in 1..n : k # j => At(f, k) = 0
  PROVE  SumTo(f, n) = At(f, j)
<1> DEFINE N == {m \in Nat : m <= n => SumTo(f, m) = IF m < j THEN 0 ELSE At(f, j)}
<1>0. At(f, j) \in Nat
  BY DEF At, IsNatural
<1>1. 0 \in N
  BY SumToSteps
<1>2. ASSUME NEW m \in Nat, m \in N PROVE m + 1 \in N
  <2> SUFFICES ASSUME m + 1 <= n
               PROVE  SumTo(f, m + 1) = IF m + 1 < j THEN 0 ELSE At(f, j)
    OBVIOUS
  <2>1. SumTo(f, m) = IF m < j THEN 0 ELSE At(f, j)
    BY <1>2
  <2>2. SumTo(f, m + 1) = SumTo(f, m) + At(f, m + 1)
    BY SumToSteps
  <2>3. CASE m + 1 = j
    BY <1>0, <2>1, <2>2, <2>3
  <2>4. CASE m + 1 # j
    <3>1. At(f, m + 1) = 0
      BY <2>4
    <3>2. SumTo(f, m + 1) = SumTo(f, m)
      BY <1>0, <2>1, <2>2, <3>1
    <3>3. m < j <=> m + 1 < j
      BY <2>4
    <3> QED
      BY <2>1, <3>2, <3>3
  <2> QED
    BY <2>3, <2>4
<1>3. Nat \subseteq N
  <2> HIDE DEF N
  <2> QED  BY <1>1, <1>2, InductionSet
<1> QED
  BY <1>3

\* A sum of zeros.
LEMMA SumToOfNone ==
  ASSUME NEW f, IsNatural(f), NEW n \in Nat, \A k \in 1..n : At(f, k) = 0
  PROVE  SumTo(f, n) = 0
<1>1. CASE n = 0
  BY <1>1, SumToSteps
<1>2. CASE n # 0
  BY <1>2, SumToOfOne, 1 \in 1..n
<1> QED
  BY <1>1, <1>2

\* A sum is not below one of its terms.
LEMMA SumToCovers ==
  ASSUME NEW f, IsNatural(f), NEW n \in Nat, NEW j \in 1..n
  PROVE  At(f, j) <= SumTo(f, n)
<1> DEFINE N == {m \in Nat : j <= m => At(f, j) <= SumTo(f, m)}
<1>0. \A k : At(f, k) \in Nat
  BY DEF At, IsNatural
<1>1. 0 \in N
  OBVIOUS
<1>2. ASSUME NEW m \in Nat, m \in N PROVE m + 1 \in N
  <2>1. SumTo(f, m) \in Nat /\ SumTo(f, m + 1) = SumTo(f, m) + At(f, m + 1)
    BY SumToSteps
  <2> QED
    BY <1>0, <1>2, <2>1
<1>3. Nat \subseteq N
  <2> HIDE DEF N
  <2> QED  BY <1>1, <1>2, InductionSet
<1> QED
  BY <1>3

\* A product of positive numbers is positive.
LEMMA ProductToIsPositive ==
  ASSUME NEW f, \A k \in DOMAIN f : f[k] \in Nat \ {0}, NEW n \in Nat
  PROVE  ProductTo(f, n) \in Nat \ {0}
<1> DEFINE P == Nat \ {0}
           Fac(k) == IF k \in DOMAIN f THEN f[k] ELSE 1
           step == [p \in Nat \X P |-> p[2] * Fac(p[1] + 1)]
           Products(s) == s = [k \in Nat |-> IF k = 0 THEN 1
                                 ELSE s[k - 1] * (IF k \in DOMAIN f THEN f[k] ELSE 1)]
           product == CHOOSE s : Products(s)
<1>1. \A k : Fac(k) \in P
  OBVIOUS
<1>2. step \in [Nat \X P -> P]
  <2> SUFFICES ASSUME NEW p \in Nat \X P PROVE p[2] * Fac(p[1] + 1) \in P
    OBVIOUS
  <2>1. p[2] \in P /\ Fac(p[1] + 1) \in P
    BY <1>1
  <2> HIDE DEF Fac
  <2>2. \A x, y \in Nat \ {0} : x * y \in Nat \ {0}
    OBVIOUS
  <2> QED
    BY <2>1, <2>2
<1>3. PICK g \in [Nat -> P] : TakesSteps(g, 1, step)
  <2> HIDE DEF step
  <2>1. 1 \in P
    OBVIOUS
  <2> HIDE DEF P
  <2> QED  BY <1>2, <2>1, RecursionExists
<1>4. \A m \in Nat : g[m + 1] = g[m] * Fac(m + 1)
  <2> HIDE DEF Fac
  <2> QED  BY <1>3 DEF TakesSteps
<1>5. \A k \in Nat : g[k] = IF k = 0 THEN 1 ELSE g[k - 1] * Fac(k)
  <2> SUFFICES ASSUME NEW k \in Nat, k # 0 PROVE g[k] = g[k - 1] * Fac(k)
    BY <1>3 DEF TakesSteps
  <2>1. k - 1 \in Nat /\ (k - 1) + 1 = k
    OBVIOUS
  <2> HIDE DEF Fac
  <2> QED
    BY <1>4, <2>1
<1>6. Products(g)
  BY <1>3, <1>5
<1>7. Products(product)
  BY <1>6
<1>8. ProductTo(f, n) = product[n]
  BY DEF ProductTo
<1> HIDE DEF product
<1>9. product[0] = 1 /\ \A m \in Nat : product[m + 1] = product[m] * Fac(m + 1)
  BY <1>7
<1> HIDE DEF Fac
<1> DEFINE N == {m \in Nat : product[m] \in P}
<1>10. 0 \in N
  BY <1>9
<1>11. ASSUME NEW m \in Nat, m \in N PROVE m + 1 \in N
  <2>1. product[m] \in P /\ Fac(m + 1) \in P
    BY <1>1, <1>11
  <2>2. \A x, y \in Nat \ {0} : x * y \in Nat \ {0}
    OBVIOUS
  <2> QED
    BY <1>9, <2>1, <2>2
<1>12. Nat \subseteq N
  <2> HIDE DEF N
  <2> QED  BY <1>10, <1>11, InductionSet
<1> QED
  BY <1>8, <1>12

---------------------------------------------------------------------------
(* The first element of a finite set in a total order.                     *)

Orders(R, S) ==
  /\ \A x, y \in S : x # y => <<x, y>> \in R \/ <<y, x>> \in R
  /\ \A x, y, z \in S : <<x, y>> \in R /\ <<y, z>> \in R => <<x, z>> \in R

HasFirstIn(R, S) == \E x \in S : \A y \in S \ {x} : <<x, y>> \in R

\* There is a first element.
LEMMA FirstExists ==
  ASSUME NEW S, IsFiniteSet(S), S # {}, NEW R, Orders(R, S)
  PROVE  HasFirstIn(R, S)
<1> USE DEF Orders, HasFirstIn
<1> DEFINE HasFirst(T) == \E x \in T : \A y \in T \ {x} : <<x, y>> \in R
           N == {n \in Nat : \A T \in SUBSET S : Cardinality(T) = n /\ T # {} => HasFirst(T)}
<1>1. 0 \in N
  <2> SUFFICES ASSUME NEW T \in SUBSET S, Cardinality(T) = 0, T # {} PROVE FALSE
    OBVIOUS
  <2>1. IsFiniteSet(T)
    BY FS_Subset
  <2> QED
    BY <2>1, FS_EmptySet
<1>2. ASSUME NEW n \in Nat, n \in N PROVE n + 1 \in N
  <2> SUFFICES ASSUME NEW T \in SUBSET S, Cardinality(T) = n + 1, T # {}
               PROVE  HasFirst(T)
    OBVIOUS
  <2>1. PICK z \in T : TRUE
    OBVIOUS
  <2> DEFINE U == T \ {z}
  <2>2. IsFiniteSet(T)
    BY FS_Subset
  <2>3. Cardinality(U) = n
    <3>1. Cardinality(T \ {z}) = Cardinality(T) - 1
      BY <2>1, <2>2, FS_RemoveElement, Zenon
    <3> QED
      BY <3>1
  <2>4. CASE U = {}
    BY <2>1, <2>4
  <2>5. CASE U # {}
    <3>1. PICK x \in U : \A y \in U \ {x} : <<x, y>> \in R
      BY <1>2, <2>3, <2>5
    <3>2. CASE <<x, z>> \in R
      BY <3>1, <3>2
    <3>3. CASE <<z, x>> \in R
      <4>1. \A y \in T \ {z} : <<z, y>> \in R
        BY <2>1, <3>1, <3>3
      <4> QED
        BY <2>1, <4>1
    <3> QED
      BY <2>1, <3>1, <3>2, <3>3
  <2> QED
    BY <2>4, <2>5
<1>3. Nat \subseteq N
  <2> HIDE DEF N
  <2> QED  BY <1>1, <1>2, InductionSet
<1>4. Cardinality(S) \in Nat
  BY FS_CardinalityType
<1> QED
  BY <1>3, <1>4

---------------------------------------------------------------------------
(* LoadBalancerEx.  While topologies are placed there are those that have  *)
(* been placed, the loads they make and those that are left.               *)

PlacedRec == [weight : Weights, affinity : Affinities, worker : 0..NumWorkers]

Placement(placed) ==
  DOMAIN placed \subseteq 1..NumTopologies /\ placed \in [DOMAIN placed -> PlacedRec]

Batch(D) == [placed : [D -> PlacedRec], loads : [alive -> Nat], left : SUBSET D]

SomeAlive == alive # {} /\ alive \subseteq 1..NumWorkers

\* A finite number of workers and topologies.
LEMMA SubsetsAreFinite ==
  ASSUME NEW n \in Nat, NEW S, S \subseteq 1..n
  PROVE  IsFiniteSet(S) /\ Cardinality(S) \in Nat
<1>1. IsFiniteSet(1..n)
  BY FS_Interval, 1 \in Int, n \in Int
<1> QED
  BY <1>1, FS_Subset, FS_CardinalityType, Zenon

\* The parts of a placement.
LEMMA PlacedRecFacts ==
  ASSUME NEW r \in PlacedRec
  PROVE  /\ r.weight \in Nat \ {0} /\ r.affinity \subseteq 1..NumWorkers
         /\ Cardinality(r.affinity) \in Nat /\ r.worker \in 0..NumWorkers
<1>1. r.weight \in Weights /\ r.affinity \in Affinities /\ r.worker \in 0..NumWorkers
  BY DEF PlacedRec
<1>2. r.weight \in Nat \ {0} /\ r.affinity \subseteq 1..NumWorkers
  BY <1>1, LoadBalancerAssumption
<1> QED
  BY <1>1, <1>2, SubsetsAreFinite, LoadBalancerAssumption

\* There is a next worker, and no other one has a lower load with the topology.
LEMMA NextWorkerIsAlive ==
  ASSUME SomeAlive, NEW loads \in [alive -> Nat], NEW r \in PlacedRec
  PROVE  /\ NextWorker(loads, r) \in alive
         /\ \A v \in alive : Pull(loads, r, NextWorker(loads, r)) <= Pull(loads, r, v)
<1> DEFINE L(w, v) == \/ Pull(loads, r, w) < Pull(loads, r, v)
                      \/ Pull(loads, r, w) = Pull(loads, r, v) /\ w < v
           R == {p \in alive \X alive : L(p[1], p[2])}
<1>1. \A w \in alive : w \in Nat /\ Pull(loads, r, w) \in Nat
  <2> SUFFICES ASSUME NEW w \in alive PROVE w \in Nat /\ Pull(loads, r, w) \in Nat
    OBVIOUS
  <2>1. w \in Nat
    BY DEF SomeAlive
  <2>2. loads[w] + r.weight \in Nat
    BY PlacedRecFacts
  <2>3. (IF w \in r.affinity THEN 1 ELSE AffinityFactor) \in Nat
    BY LoadBalancerAssumption
  <2>4. \A x, y \in Nat : x * y \in Nat
    OBVIOUS
  <2> QED
    BY <2>1, <2>2, <2>3, <2>4 DEF Pull
<1>2. \A w, v \in alive : <<w, v>> \in R <=> L(w, v)
  OBVIOUS
<1>3. \A w, v \in alive : w # v => L(w, v) \/ L(v, w)
  BY <1>1
<1>4. \A u, v, w \in alive : L(u, v) /\ L(v, w) => L(u, w)
  BY <1>1
<1>5. IsFiniteSet(alive) /\ alive # {}
  BY SubsetsAreFinite, LoadBalancerAssumption DEF SomeAlive
<1> HIDE DEF R, L
<1>6. \E w \in alive : \A v \in alive \ {w} : <<w, v>> \in R
  <2>1. Orders(R, alive)
    BY <1>2, <1>3, <1>4, Zenon DEF Orders
  <2>2. HasFirstIn(R, alive)
    BY <2>1, <1>5, FirstExists, Zenon
  <2> QED
    BY <2>2, Zenon DEF HasFirstIn
<1>7. \E w \in DOMAIN loads : \A v \in DOMAIN loads \ {w} : L(w, v)
  BY <1>2, <1>6
<1>8. NextWorker(loads, r) = CHOOSE w \in DOMAIN loads : \A v \in DOMAIN loads \ {w} : L(w, v)
  BY DEF NextWorker, L
<1> DEFINE n == NextWorker(loads, r)
<1>9. n \in alive /\ \A v \in alive \ {n} : L(n, v)
  BY <1>7, <1>8
<1>10. \A v \in alive \ {n} : Pull(loads, r, n) <= Pull(loads, r, v)
  BY <1>1, <1>9 DEF L
<1> HIDE DEF n
<1>11. \A v \in alive : Pull(loads, r, n) <= Pull(loads, r, v)
  BY <1>1, <1>9, <1>10
<1> QED
  BY <1>9, <1>11 DEF n

\* There is a first one of the topologies that are left.
LEMMA FirstOfIsLeft ==
  ASSUME NEW D, D \subseteq 1..NumTopologies, NEW placed \in [D -> PlacedRec],
         NEW set \in SUBSET D, set # {}, NEW sorted
  PROVE  FirstOf(set, placed, sorted) \in set
<1> DEFINE L(t, u) == IF sorted THEN Before(placed, t, u) ELSE t < u
           R == {p \in set \X set : L(p[1], p[2])}
           A(t) == Cardinality(placed[t].affinity)
<1>1. \A t \in set : t \in Nat /\ A(t) \in Nat /\ placed[t].weight \in Nat
  <2> SUFFICES ASSUME NEW t \in set
               PROVE  t \in Nat /\ A(t) \in Nat /\ placed[t].weight \in Nat
    OBVIOUS
  <2>1. placed[t] \in PlacedRec /\ t \in Nat
    BY LoadBalancerAssumption
  <2> QED
    BY <2>1, PlacedRecFacts
<1> DEFINE W(t) == placed[t].weight
<1>2. \A t, u : Before(placed, t, u) <=>
        IF A(t) > 0 /\ A(u) > 0 THEN A(t) < A(u) \/ (A(t) = A(u) /\ t < u)
        ELSE IF A(t) > 0 \/ A(u) > 0 THEN A(t) > 0
        ELSE W(t) > W(u) \/ (W(t) = W(u) /\ t < u)
  BY DEF Before
<1>3. \A t \in set : t \in Nat /\ A(t) \in Nat /\ W(t) \in Nat
  BY <1>1
<1> HIDE DEF A, W
<1>4. \A t, u \in set : t # u => Before(placed, t, u) \/ Before(placed, u, t)
  <2> SUFFICES ASSUME NEW t \in set, NEW u \in set, t # u
               PROVE  Before(placed, t, u) \/ Before(placed, u, t)
    BY Zenon
  <2>1. /\ t \in Nat /\ A(t) \in Nat /\ W(t) \in Nat
        /\ u \in Nat /\ A(u) \in Nat /\ W(u) \in Nat
    BY <1>3
  <2>2. CASE A(t) > 0 /\ A(u) > 0
    <3>1. /\ Before(placed, t, u) <=> A(t) < A(u) \/ (A(t) = A(u) /\ t < u)
          /\ Before(placed, u, t) <=> A(u) < A(t) \/ (A(u) = A(t) /\ u < t)
      BY <1>2, <2>2
    <3>2. A(t) < A(u) \/ A(u) < A(t) \/ (A(t) = A(u) /\ (t < u \/ u < t))
      BY <2>1
    <3> QED
      BY <3>1, <3>2
  <2>3. CASE ~(A(t) > 0) /\ ~(A(u) > 0)
    <3>1. /\ Before(placed, t, u) <=> W(t) > W(u) \/ (W(t) = W(u) /\ t < u)
          /\ Before(placed, u, t) <=> W(u) > W(t) \/ (W(u) = W(t) /\ u < t)
      BY <1>2, <2>3
    <3>2. W(t) > W(u) \/ W(u) > W(t) \/ (W(t) = W(u) /\ (t < u \/ u < t))
      BY <2>1
    <3> QED
      BY <3>1, <3>2
  <2>4. CASE A(t) > 0 /\ ~(A(u) > 0)
    BY <1>2, <2>1, <2>4
  <2>5. CASE ~(A(t) > 0) /\ A(u) > 0
    BY <1>2, <2>1, <2>5
  <2> QED
    BY <2>2, <2>3, <2>4, <2>5
<1>5. \A t, u, v \in set :
        Before(placed, t, u) /\ Before(placed, u, v) => Before(placed, t, v)
  <2> SUFFICES ASSUME NEW t \in set, NEW u \in set, NEW v \in set,
                      Before(placed, t, u), Before(placed, u, v)
               PROVE  Before(placed, t, v)
    BY Zenon
  <2>1. /\ t \in Nat /\ A(t) \in Nat /\ W(t) \in Nat
        /\ u \in Nat /\ A(u) \in Nat /\ W(u) \in Nat
        /\ v \in Nat /\ A(v) \in Nat /\ W(v) \in Nat
    BY <1>3
  <2>2. CASE A(t) > 0 /\ A(u) > 0 /\ A(v) > 0
    BY <1>2, <2>1, <2>2
  <2>3. CASE A(t) > 0 /\ ~(A(v) > 0)
    BY <1>2, <2>1, <2>3
  <2>4. CASE ~(A(t) > 0) \/ ~(A(u) > 0)
    BY <1>2, <2>1, <2>4
  <2> QED
    BY <2>2, <2>3, <2>4
<1>6. \A t, u \in set : t # u => L(t, u) \/ L(u, t)
  <2>1. CASE sorted
    BY <1>4, <2>1
  <2>2. CASE ~sorted
    BY <1>3, <2>2
  <2> QED
    BY <2>1, <2>2
<1>7. \A t, u, v \in set : L(t, u) /\ L(u, v) => L(t, v)
  <2>1. CASE sorted
    BY <1>5, <2>1
  <2>2. CASE ~sorted
    BY <1>3, <2>2
  <2> QED
    BY <2>1, <2>2
<1>8. IsFiniteSet(set)
  BY SubsetsAreFinite, LoadBalancerAssumption
<1>9. FirstOf(set, placed, sorted) = CHOOSE t \in set : \A u \in set \ {t} : L(t, u)
  BY DEF FirstOf
<1> HIDE DEF L
<1>10. \A t, u \in set : <<t, u>> \in R <=> L(t, u)
  OBVIOUS
<1> HIDE DEF R
<1>11. \E t \in set : \A u \in set \ {t} : <<t, u>> \in R
  <2>1. Orders(R, set)
    BY <1>6, <1>7, <1>10, Zenon DEF Orders
  <2>2. HasFirstIn(R, set)
    BY <2>1, <1>8, FirstExists, Zenon
  <2> QED
    BY <2>2, Zenon DEF HasFirstIn
<1>12. \E t \in set : \A u \in set \ {t} : L(t, u)
  BY <1>10, <1>11
<1> QED
  BY <1>9, <1>12

\* One topology of those that are left is placed.
LEMMA PlaceNextPlaces ==
  ASSUME SomeAlive, NEW D, D \subseteq 1..NumTopologies, NEW b \in Batch(D), NEW sorted,
         b.left # {}
  PROVE  \E t \in b.left, w \in alive :
           /\ t = FirstOf(b.left, b.placed, sorted) /\ w = NextWorker(b.loads, b.placed[t])
           /\ PlaceNext(b, sorted) =
                [placed |-> [b.placed EXCEPT ![t].worker = w],
                 loads |-> With(b.loads, w, b.placed[t].weight), left |-> b.left \ {t}]
<1> DEFINE t == FirstOf(b.left, b.placed, sorted)
           w == NextWorker(b.loads, b.placed[t])
<1>1. b.placed \in [D -> PlacedRec] /\ b.loads \in [alive -> Nat] /\ b.left \in SUBSET D
  BY DEF Batch
<1>2. t \in b.left
  BY <1>1, FirstOfIsLeft
<1> HIDE DEF t
<1>3. b.placed[t] \in PlacedRec
  BY <1>1, <1>2
<1>4. w \in alive
  BY <1>1, <1>3, NextWorkerIsAlive
<1>5. PlaceNext(b, sorted) =
        [placed |-> [b.placed EXCEPT ![t].worker = w],
         loads |-> With(b.loads, w, b.placed[t].weight), left |-> b.left \ {t}]
  BY DEF PlaceNext, t
<1> HIDE DEF w
<1> QED
  BY <1>2, <1>4, <1>5 DEF t, w

\* What is placed stays a placement.
LEMMA PlaceNextTypes ==
  ASSUME SomeAlive, NEW D, D \subseteq 1..NumTopologies, NEW b \in Batch(D), NEW sorted
  PROVE  PlaceNext(b, sorted) \in Batch(D)
<1>1. CASE b.left = {}
  BY <1>1 DEF PlaceNext
<1>2. CASE b.left # {}
  <2>1. PICK t \in b.left, w \in alive :
          PlaceNext(b, sorted) =
            [placed |-> [b.placed EXCEPT ![t].worker = w],
             loads |-> With(b.loads, w, b.placed[t].weight), left |-> b.left \ {t}]
    BY <1>2, PlaceNextPlaces
  <2>2. b.placed \in [D -> PlacedRec] /\ b.loads \in [alive -> Nat] /\ b.left \in SUBSET D
    BY DEF Batch
  <2>3. b.placed[t] \in PlacedRec /\ t \in D
    BY <2>2
  <2>4. w \in 0..NumWorkers
    BY LoadBalancerAssumption DEF SomeAlive
  <2>5. [b.placed EXCEPT ![t].worker = w] \in [D -> PlacedRec]
    BY <2>2, <2>3, <2>4 DEF PlacedRec
  <2>6. With(b.loads, w, b.placed[t].weight) \in [alive -> Nat]
    BY <2>2, <2>3, PlacedRecFacts DEF With
  <2>7. b.left \ {t} \in SUBSET D
    BY <2>2
  <2> QED
    BY <2>1, <2>5, <2>6, <2>7 DEF Batch
<1> QED
  BY <1>1, <1>2

\* What PlaceAll computes, step by step.
Places(after, placed, set, loads, sorted) ==
  /\ after[0] = [placed |-> placed, loads |-> loads, left |-> set]
  /\ \A n \in Nat : after[n + 1] = PlaceNext(after[n], sorted)

\* PlaceAll runs as its recursion says.
LEMMA PlaceAllSteps ==
  ASSUME SomeAlive, NEW D, D \subseteq 1..NumTopologies, NEW placed \in [D -> PlacedRec],
         NEW set \in SUBSET D, NEW loads \in [alive -> Nat], NEW sorted
  PROVE  \E after \in [Nat -> Batch(D)] :
           /\ Places(after, placed, set, loads, sorted)
           /\ PlaceAll(placed, set, loads, sorted) = after[Cardinality(set)]
           /\ after[Cardinality(set)].left = {}
<1> DEFINE first == [placed |-> placed, loads |-> loads, left |-> set]
           step == [p \in Nat \X Batch(D) |-> PlaceNext(p[2], sorted)]
           Runs(a) == a = [n \in Nat |-> IF n = 0 THEN first
                                         ELSE PlaceNext(a[n - 1], sorted)]
           after == CHOOSE a : Runs(a)
<1>1. first \in Batch(D)
  BY DEF Batch
<1>2. step \in [Nat \X Batch(D) -> Batch(D)]
  <2> SUFFICES ASSUME NEW p \in Nat \X Batch(D) PROVE PlaceNext(p[2], sorted) \in Batch(D)
    OBVIOUS
  <2>1. p[2] \in Batch(D)
    OBVIOUS
  <2> QED
    BY <2>1, PlaceNextTypes
<1>3. PICK g \in [Nat -> Batch(D)] : TakesSteps(g, first, step)
  <2> HIDE DEF first, step
  <2> QED  BY <1>1, <1>2, RecursionExists
<1> HIDE DEF first
<1>4. g[0] = first /\ \A n \in Nat : g[n + 1] = PlaceNext(g[n], sorted)
  BY <1>3 DEF TakesSteps
<1>5. \A n \in Nat : g[n] = IF n = 0 THEN first ELSE PlaceNext(g[n - 1], sorted)
  <2> SUFFICES ASSUME NEW n \in Nat, n # 0 PROVE g[n] = PlaceNext(g[n - 1], sorted)
    BY <1>4
  <2>1. n - 1 \in Nat /\ (n - 1) + 1 = n
    OBVIOUS
  <2> QED
    BY <1>4, <2>1
<1>6. Runs(g)
  BY <1>5
<1>7. Runs(after)
  BY <1>6
<1>8. PlaceAll(placed, set, loads, sorted) = after[Cardinality(set)]
  BY DEF PlaceAll, first
<1> HIDE DEF after
<1>9. after[0] = first /\ \A n \in Nat : after[n + 1] = PlaceNext(after[n], sorted)
  BY <1>7
<1> DEFINE N == {n \in Nat : after[n] \in Batch(D) /\ (n <= Cardinality(set) =>
                   Cardinality(after[n].left) = Cardinality(set) - n)}
<1>10. IsFiniteSet(set) /\ Cardinality(set) \in Nat
  BY SubsetsAreFinite, LoadBalancerAssumption
<1>11. 0 \in N
  BY <1>1, <1>9, <1>10 DEF first
<1>12. ASSUME NEW n \in Nat, n \in N PROVE n + 1 \in N
  <2>1. after[n] \in Batch(D) /\ after[n + 1] = PlaceNext(after[n], sorted)
    BY <1>9, <1>12
  <2>2. after[n + 1] \in Batch(D)
    BY <2>1, PlaceNextTypes
  <2> SUFFICES ASSUME n + 1 <= Cardinality(set)
               PROVE  Cardinality(after[n + 1].left) = Cardinality(set) - (n + 1)
    BY <2>2
  <2>3. Cardinality(after[n].left) = Cardinality(set) - n
    BY <1>10, <1>12
  <2>4. after[n].left \in SUBSET D
    BY <2>1 DEF Batch
  <2>5. IsFiniteSet(after[n].left)
    BY <2>4, SubsetsAreFinite, LoadBalancerAssumption
  <2>6. after[n].left # {}
    <3> SUFFICES ASSUME after[n].left = {} PROVE FALSE
      OBVIOUS
    <3>1. Cardinality(after[n].left) = 0
      BY FS_EmptySet
    <3> QED
      BY <1>10, <2>3, <3>1
  <2>7. PICK t \in after[n].left, w \in alive : after[n + 1].left = after[n].left \ {t}
    BY <2>1, <2>6, PlaceNextPlaces
  <2>8. Cardinality(after[n].left \ {t}) = Cardinality(after[n].left) - 1
    BY <2>5, <2>7, FS_RemoveElement, Zenon
  <2> QED
    BY <1>10, <2>3, <2>7, <2>8
<1>13. Nat \subseteq N
  <2> HIDE DEF N
  <2> QED  BY <1>11, <1>12, InductionSet
<1>14. after \in [Nat -> Batch(D)]
  BY <1>7, <1>13
<1>15. after[Cardinality(set)].left = {}
  <2>1. Cardinality(after[Cardinality(set)].left) = 0
    BY <1>10, <1>13
  <2>2. after[Cardinality(set)].left \in SUBSET D
    BY <1>10, <1>14 DEF Batch
  <2>3. IsFiniteSet(after[Cardinality(set)].left)
    BY <2>2, SubsetsAreFinite, LoadBalancerAssumption
  <2> QED
    BY <2>1, <2>3, FS_EmptySet
<1>16. Places(after, placed, set, loads, sorted)
  BY <1>9 DEF Places, first
<1> QED
  BY <1>8, <1>14, <1>15, <1>16

---------------------------------------------------------------------------
(* The loads while topologies are placed on empty workers.                 *)

\* The topologies that have been placed on a worker, with their weights.
PlacedOn(b, w) ==
  [t \in {u \in DOMAIN b.placed : u \notin b.left /\ b.placed[u].worker = w} |->
     b.placed[t].weight]

LoadsAreTrue(b) == \A w \in alive : b.loads[w] = SumTo(PlacedOn(b, w), NumTopologies)

\* The loads stay those of the topologies that are placed.
LEMMA PlaceNextLoads ==
  ASSUME SomeAlive, NEW D, D \subseteq 1..NumTopologies, NEW b \in Batch(D), NEW sorted,
         LoadsAreTrue(b)
  PROVE  LoadsAreTrue(PlaceNext(b, sorted))
<1>1. CASE b.left = {}
  BY <1>1 DEF PlaceNext
<1>2. CASE b.left # {}
  <2> DEFINE c == PlaceNext(b, sorted)
  <2>1. PICK t \in b.left, x \in alive :
          c = [placed |-> [b.placed EXCEPT ![t].worker = x],
               loads |-> With(b.loads, x, b.placed[t].weight), left |-> b.left \ {t}]
    BY <1>2, PlaceNextPlaces
  <2> HIDE DEF c
  <2>2. b.placed \in [D -> PlacedRec] /\ b.loads \in [alive -> Nat] /\ b.left \in SUBSET D
    BY DEF Batch
  <2>3. b.placed[t] \in PlacedRec /\ t \in D /\ t \in 1..NumTopologies
    BY <2>2
  <2>4. b.placed[t].weight \in Nat
    BY <2>3, PlacedRecFacts
  <2>5. /\ DOMAIN c.placed = D /\ DOMAIN b.placed = D
        /\ \A u \in D : u # t => c.placed[u] = b.placed[u]
        /\ c.placed[t].worker = x /\ c.placed[t].weight = b.placed[t].weight
        /\ c.left = b.left \ {t}
    BY <2>1, <2>2, <2>3 DEF PlacedRec
  <2>6. ASSUME NEW w \in alive
        PROVE  c.loads[w] = SumTo(PlacedOn(c, w), NumTopologies)
    <3> DEFINE f == PlacedOn(b, w)
               g == PlacedOn(c, w)
               one == [k \in (IF w = x THEN {t} ELSE {}) |-> b.placed[t].weight]
    <3>1. IsNatural(f)
      BY <2>2, PlacedRecFacts DEF IsNatural, PlacedOn
    <3>2. IsNatural(g)
      <4>1. c.placed \in [D -> PlacedRec]
        BY PlaceNextTypes DEF Batch, c
      <4> QED
        BY <4>1, PlacedRecFacts DEF IsNatural, PlacedOn
    <3>3. IsNatural(one)
      BY <2>4 DEF IsNatural
    <3>4. \A k : At(g, k) = IF k = t THEN At(one, k) ELSE At(f, k)
      BY <2>5, <2>3 DEF At, PlacedOn
    <3>5. At(f, t) = 0 /\ \A k : k # t => At(one, k) = 0
      BY DEF At, PlacedOn
    <3>6. At(one, t) = IF w = x THEN b.placed[t].weight ELSE 0
      BY DEF At
    <3> HIDE DEF f, g, one
    <3>7. \A k : At(f, k) \in Nat /\ At(one, k) \in Nat
      BY <3>1, <3>3 DEF At, IsNatural
    <3>8. \A k \in 1..NumTopologies : At(g, k) = At(f, k) + At(one, k)
      BY <3>4, <3>5, <3>7
    <3>9. SumTo(g, NumTopologies) = SumTo(f, NumTopologies) + SumTo(one, NumTopologies)
      BY <3>1, <3>2, <3>3, <3>8, SumToAdds, LoadBalancerAssumption
    <3>10. SumTo(one, NumTopologies) = At(one, t)
      BY <2>3, <3>3, <3>5, SumToOfOne, LoadBalancerAssumption
    <3>11. b.loads[w] = SumTo(f, NumTopologies)
      BY DEF LoadsAreTrue, f
    <3>12. c.loads[w] = b.loads[w] + At(one, t)
      BY <2>1, <2>2, <2>4, <3>6 DEF With
    <3> QED
      BY <3>9, <3>10, <3>11, <3>12 DEF g
  <2> QED
    BY <2>6 DEF LoadsAreTrue, c
<1> QED
  BY <1>1, <1>2

NoLoads == [w \in alive |-> 0]

\* In the end the loads are those of the placement.
LEMMA NearOptimalLoads ==
  ASSUME SomeAlive, NEW placed, Placement(placed)
  PROVE  LET best == NearOptimal(placed) IN
         /\ best.placed \in [DOMAIN placed -> PlacedRec]
         /\ LoadsOf(best.placed) = best.loads
<1> DEFINE D == DOMAIN placed
           best == NearOptimal(placed)
<1>1. D \subseteq 1..NumTopologies /\ placed \in [D -> PlacedRec] /\ NoLoads \in [alive -> Nat]
  BY DEF Placement, NoLoads
<1>2. PICK after \in [Nat -> Batch(D)] :
        /\ Places(after, placed, D, NoLoads, TRUE)
        /\ PlaceAll(placed, D, NoLoads, TRUE) = after[Cardinality(D)]
        /\ after[Cardinality(D)].left = {}
  <2> HIDE DEF D
  <2>1. D \in SUBSET D
    OBVIOUS
  <2> QED  BY <1>1, <2>1, PlaceAllSteps
<1>3. best = after[Cardinality(D)] /\ Cardinality(D) \in Nat
  BY <1>1, <1>2, SubsetsAreFinite, LoadBalancerAssumption DEF NearOptimal, NoLoads
<1> DEFINE N == {n \in Nat : LoadsAreTrue(after[n])}
<1>4. 0 \in N
  <2> SUFFICES ASSUME NEW w \in alive
               PROVE  after[0].loads[w] = SumTo(PlacedOn(after[0], w), NumTopologies)
    BY DEF LoadsAreTrue
  <2>1. after[0] = [placed |-> placed, loads |-> NoLoads, left |-> D]
    BY <1>2 DEF Places
  <2>2. after[0].loads[w] = 0
    BY <2>1 DEF NoLoads
  <2>3. DOMAIN PlacedOn(after[0], w) = {}
    BY <2>1 DEF PlacedOn
  <2>4. IsNatural(PlacedOn(after[0], w)) /\ \A k : At(PlacedOn(after[0], w), k) = 0
    BY <2>3 DEF IsNatural, At
  <2> QED
    BY <2>2, <2>4, SumToOfNone, LoadBalancerAssumption
<1>5. ASSUME NEW n \in Nat, n \in N PROVE n + 1 \in N
  <2>1. after[n + 1] = PlaceNext(after[n], TRUE) /\ after[n] \in Batch(D)
    BY <1>2 DEF Places
  <2>2. LoadsAreTrue(after[n])
    BY <1>5
  <2>3. LoadsAreTrue(after[n + 1])
    BY <1>1, <2>1, <2>2, PlaceNextLoads
  <2> QED
    BY <2>3
<1>6. Nat \subseteq N
  <2> HIDE DEF N
  <2> QED  BY <1>4, <1>5, InductionSet
<1>7. LoadsAreTrue(best) /\ best \in Batch(D) /\ best.left = {}
  BY <1>2, <1>3, <1>6
<1> HIDE DEF best
<1>8. best.placed \in [D -> PlacedRec] /\ best.loads \in [alive -> Nat]
  BY <1>7 DEF Batch
<1>9. ASSUME NEW w \in alive PROVE best.loads[w] = LoadOf(best.placed, w)
  <2>1. PlacedOn(best, w) =
          [t \in {u \in DOMAIN best.placed : best.placed[u].worker = w} |->
             best.placed[t].weight]
    BY <1>7 DEF PlacedOn
  <2> QED
    BY <1>7, <2>1 DEF LoadsAreTrue, LoadOf
<1>10. LoadsOf(best.placed) = best.loads
  BY <1>8, <1>9 DEF LoadsOf
<1> QED
  BY <1>8, <1>10 DEF best

---------------------------------------------------------------------------
(* rebalance.                                                              *)

\* Placements of the same topologies that differ in the workers only.
SameTopologies(placed, other) ==
  /\ DOMAIN placed = DOMAIN other
  /\ \A t \in DOMAIN placed : /\ placed[t].weight = other[t].weight
                              /\ placed[t].affinity = other[t].affinity

\* Two of them while they are placed: the topologies that are not left are on the
\* same workers.
SameBatch(b, c) ==
  /\ b.loads = c.loads /\ b.left = c.left /\ SameTopologies(b.placed, c.placed)
  /\ \A t \in DOMAIN b.placed \ b.left : b.placed[t] = c.placed[t]

\* Two placements that agree go on alike.
LEMMA PlaceNextAgrees ==
  ASSUME SomeAlive, NEW D, D \subseteq 1..NumTopologies, NEW b \in Batch(D), NEW c \in Batch(D),
         SameBatch(b, c)
  PROVE  SameBatch(PlaceNext(b, TRUE), PlaceNext(c, TRUE))
<1>0. /\ b.placed \in [D -> PlacedRec] /\ b.loads \in [alive -> Nat] /\ b.left \in SUBSET D
      /\ c.placed \in [D -> PlacedRec] /\ c.loads \in [alive -> Nat] /\ c.left \in SUBSET D
  BY DEF Batch
<1>1. CASE b.left = {}
  <2>1. c.left = {}
    BY <1>1 DEF SameBatch
  <2> QED
    BY <1>1, <2>1 DEF PlaceNext
<1>2. CASE b.left # {}
  <2>0. c.left # {}
    BY <1>2 DEF SameBatch
  <2>1. PICK t \in b.left, w \in alive :
          /\ t = FirstOf(b.left, b.placed, TRUE) /\ w = NextWorker(b.loads, b.placed[t])
          /\ PlaceNext(b, TRUE) =
               [placed |-> [b.placed EXCEPT ![t].worker = w],
                loads |-> With(b.loads, w, b.placed[t].weight), left |-> b.left \ {t}]
    BY <1>2, PlaceNextPlaces
  <2>2. PICK u \in c.left, x \in alive :
          /\ u = FirstOf(c.left, c.placed, TRUE) /\ x = NextWorker(c.loads, c.placed[u])
          /\ PlaceNext(c, TRUE) =
               [placed |-> [c.placed EXCEPT ![u].worker = x],
                loads |-> With(c.loads, x, c.placed[u].weight), left |-> c.left \ {u}]
    BY <2>0, PlaceNextPlaces
  <2>3. \A k \in D : /\ b.placed[k].weight = c.placed[k].weight
                     /\ b.placed[k].affinity = c.placed[k].affinity
    BY <1>0 DEF SameBatch, SameTopologies
  <2>4. b.left = c.left /\ b.loads = c.loads
    BY DEF SameBatch
  <2>5. u = t
    <3>1. \A k, l \in b.left : Before(b.placed, k, l) <=> Before(c.placed, k, l)
      BY <1>0, <2>3 DEF Before
    <3>2. \A k \in b.left : (\A l \in b.left \ {k} : Before(b.placed, k, l))
                               <=> (\A l \in b.left \ {k} : Before(c.placed, k, l))
      BY <3>1
    <3>3. FirstOf(b.left, b.placed, TRUE) = FirstOf(b.left, c.placed, TRUE)
      BY <3>2 DEF FirstOf
    <3> QED
      BY <2>1, <2>2, <2>4, <3>3
  <2>6. x = w
    <3> DEFINE r == b.placed[t]
               s == c.placed[t]
    <3>1. r.weight = s.weight /\ r.affinity = s.affinity
      BY <1>0, <2>1, <2>3
    <3> HIDE DEF r, s
    <3>2. \A v : Pull(b.loads, r, v) = Pull(b.loads, s, v)
      BY <3>1 DEF Pull
    <3>3. NextWorker(b.loads, r) = NextWorker(b.loads, s)
      BY <3>2 DEF NextWorker
    <3> QED
      BY <2>1, <2>2, <2>4, <2>5, <3>3 DEF r, s
  <2> DEFINE bb == PlaceNext(b, TRUE)
             cc == PlaceNext(c, TRUE)
  <2>7. /\ bb.placed = [b.placed EXCEPT ![t].worker = w]
        /\ bb.loads = With(b.loads, w, b.placed[t].weight) /\ bb.left = b.left \ {t}
        /\ cc.placed = [c.placed EXCEPT ![t].worker = w]
        /\ cc.loads = With(c.loads, w, c.placed[t].weight) /\ cc.left = c.left \ {t}
    <3>1. bb = [placed |-> [b.placed EXCEPT ![t].worker = w],
                loads |-> With(b.loads, w, b.placed[t].weight), left |-> b.left \ {t}]
      BY <2>1
    <3>2. cc = [placed |-> [c.placed EXCEPT ![t].worker = w],
                loads |-> With(c.loads, w, c.placed[t].weight), left |-> c.left \ {t}]
      BY <2>2, <2>5, <2>6
    <3> HIDE DEF bb, cc
    <3> QED
      BY <3>1, <3>2
  <2> HIDE DEF bb, cc
  <2>8. t \in D /\ b.placed[t] \in PlacedRec /\ c.placed[t] \in PlacedRec
    BY <1>0, <2>1
  <2>9. bb.loads = cc.loads /\ bb.left = cc.left
    BY <2>3, <2>4, <2>7, <2>8
  <2>10. SameTopologies(bb.placed, cc.placed)
    BY <1>0, <2>3, <2>7, <2>8 DEF SameTopologies, PlacedRec
  <2>11. ASSUME NEW k \in DOMAIN bb.placed \ bb.left PROVE bb.placed[k] = cc.placed[k]
    <3>1. k \in D
      BY <1>0, <2>7
    <3>2. CASE k = t
      <4>1. bb.placed[t] = [b.placed[t] EXCEPT !.worker = w]
            /\ cc.placed[t] = [c.placed[t] EXCEPT !.worker = w]
        BY <1>0, <2>7, <2>8
      <4>2. [b.placed[t] EXCEPT !.worker = w] = [c.placed[t] EXCEPT !.worker = w]
        BY <2>3, <2>8 DEF PlacedRec
      <4> QED
        BY <3>2, <4>1, <4>2
    <3>3. CASE k # t
      <4>1. k \notin b.left
        BY <2>7, <2>11, <3>3
      <4>2. b.placed[k] = c.placed[k]
        BY <1>0, <3>1, <4>1 DEF SameBatch
      <4> QED
        BY <1>0, <2>7, <3>1, <3>3, <4>2
    <3> QED
      BY <3>2, <3>3
  <2> QED
    BY <2>9, <2>10, <2>11 DEF SameBatch, bb, cc
<1> QED
  BY <1>1, <1>2

\* Where topologies are before does not matter for where they should be.
LEMMA NearOptimalForgets ==
  ASSUME SomeAlive, NEW placed, NEW other, Placement(placed), Placement(other),
         SameTopologies(placed, other)
  PROVE  /\ NearOptimal(placed) = NearOptimal(other)
         /\ SameTopologies(placed, NearOptimal(placed).placed)
<1> DEFINE D == DOMAIN placed
<1>1. /\ D \subseteq 1..NumTopologies /\ placed \in [D -> PlacedRec]
      /\ NoLoads \in [alive -> Nat] /\ other \in [D -> PlacedRec] /\ DOMAIN other = D
      /\ D \in SUBSET D /\ Cardinality(D) \in Nat
  BY SubsetsAreFinite, LoadBalancerAssumption DEF Placement, NoLoads, SameTopologies
<1> HIDE DEF D
<1>2. PICK after \in [Nat -> Batch(D)] :
        /\ Places(after, placed, D, NoLoads, TRUE)
        /\ PlaceAll(placed, D, NoLoads, TRUE) = after[Cardinality(D)]
        /\ after[Cardinality(D)].left = {}
  BY <1>1, PlaceAllSteps
<1>3. PICK below \in [Nat -> Batch(D)] :
        /\ Places(below, other, D, NoLoads, TRUE)
        /\ PlaceAll(other, D, NoLoads, TRUE) = below[Cardinality(D)]
        /\ below[Cardinality(D)].left = {}
  BY <1>1, PlaceAllSteps
<1> DEFINE Kept(n) == SameBatch(after[n], below[n]) /\ SameTopologies(placed, after[n].placed)
           N == {n \in Nat : Kept(n)}
<1>4. 0 \in N
  <2>1. /\ after[0] = [placed |-> placed, loads |-> NoLoads, left |-> D]
        /\ below[0] = [placed |-> other, loads |-> NoLoads, left |-> D]
    BY <1>2, <1>3 DEF Places
  <2>2. SameBatch(after[0], below[0])
    BY <1>1, <2>1 DEF SameBatch
  <2>3. SameTopologies(placed, after[0].placed)
    BY <2>1 DEF SameTopologies
  <2> QED
    BY <2>2, <2>3
<1>5. ASSUME NEW n \in Nat, n \in N PROVE n + 1 \in N
  <2>1. /\ after[n + 1] = PlaceNext(after[n], TRUE) /\ after[n] \in Batch(D)
        /\ below[n + 1] = PlaceNext(below[n], TRUE) /\ below[n] \in Batch(D)
    BY <1>2, <1>3 DEF Places
  <2>2. SameBatch(after[n], below[n]) /\ SameTopologies(placed, after[n].placed)
    BY <1>5
  <2>3. SameBatch(after[n + 1], below[n + 1])
    BY <1>1, <2>1, <2>2, PlaceNextAgrees
  <2>4. SameTopologies(placed, after[n + 1].placed)
    <3>1. CASE after[n].left = {}
      BY <2>1, <2>2, <3>1 DEF PlaceNext
    <3>2. CASE after[n].left # {}
      <4>1. PICK t \in after[n].left, w \in alive :
              PlaceNext(after[n], TRUE) =
                [placed |-> [after[n].placed EXCEPT ![t].worker = w],
                 loads |-> With(after[n].loads, w, after[n].placed[t].weight),
                 left |-> after[n].left \ {t}]
        BY <1>1, <2>1, <3>2, PlaceNextPlaces
      <4>3. after[n + 1].placed = [after[n].placed EXCEPT ![t].worker = w]
        <5>1. after[n + 1] =
                [placed |-> [after[n].placed EXCEPT ![t].worker = w],
                 loads |-> With(after[n].loads, w, after[n].placed[t].weight),
                 left |-> after[n].left \ {t}]
          BY <2>1, <4>1, Zenon
        <5> QED
          BY <5>1
      <4>2. after[n].placed \in [D -> PlacedRec] /\ t \in D
        BY <2>1 DEF Batch
      <4> QED
        BY <2>2, <4>2, <4>3 DEF SameTopologies, PlacedRec
    <3> QED
      BY <3>1, <3>2
  <2> QED
    BY <2>3, <2>4
<1>6. Nat \subseteq N
  <2> HIDE DEF N
  <2> QED  BY <1>4, <1>5, InductionSet
<1> DEFINE b == after[Cardinality(D)]
           c == below[Cardinality(D)]
<1>7. SameBatch(b, c) /\ SameTopologies(placed, b.placed)
  BY <1>1, <1>6
<1>8. b \in Batch(D) /\ c \in Batch(D) /\ b.left = {}
  BY <1>1, <1>2, <1>3
<1>9. NearOptimal(placed) = b /\ NearOptimal(other) = c
  BY <1>1, <1>2, <1>3 DEF NearOptimal, NoLoads, D
<1> HIDE DEF b, c
<1>10. b.placed = c.placed
  BY <1>7, <1>8 DEF SameBatch, SameTopologies, Batch
<1>11. b = c
  <2>1. /\ b = [placed |-> b.placed, loads |-> b.loads, left |-> b.left]
        /\ c = [placed |-> c.placed, loads |-> c.loads, left |-> c.left]
    BY <1>8 DEF Batch
  <2>2. b.loads = c.loads /\ b.left = c.left
    BY <1>7 DEF SameBatch
  <2> QED
    BY <1>10, <2>1, <2>2
<1> QED
  BY <1>7, <1>9, <1>11

\* Loads are not uneven in comparison to themselves.
LEMMA EqualLoadsAreEven ==
  ASSUME SomeAlive, NEW loads \in [alive -> Nat]
  PROVE  ~SeverelyUneven(loads, loads)
<1> DEFINE low == [w \in alive |-> IF loads[w] = 0 THEN 1 ELSE loads[w]]
           scale == ProductTo(low, NumWorkers)
           none == [w \in alive |-> 0]
<1>1. scale \in Nat \ {0}
  <2>1. \A w \in DOMAIN low : low[w] \in Nat \ {0}
    OBVIOUS
  <2> HIDE DEF low
  <2> QED
    BY <2>1, ProductToIsPositive, LoadBalancerAssumption
<1>2. SumTo(none, NumWorkers) = 0
  <2>1. IsNatural(none) /\ \A k : At(none, k) = 0
    BY DEF IsNatural, At
  <2> HIDE DEF none
  <2> QED
    BY <2>1, SumToOfNone, LoadBalancerAssumption
<1>3. Cardinality(alive) \in Nat \ {0}
  <2>1. IsFiniteSet(alive) /\ Cardinality(alive) \in Nat
    BY SubsetsAreFinite, LoadBalancerAssumption DEF SomeAlive
  <2>2. Cardinality(alive) # 0
    BY <2>1, FS_EmptySet DEF SomeAlive
  <2> QED
    BY <2>1, <2>2
<1>4. SeverelyUneven(loads, loads) <=>
        2 * SumTo(none, NumWorkers) >= 3 * Cardinality(alive) * scale
  BY DEF SeverelyUneven
<1> HIDE DEF scale, none
<1>5. \A x, y \in Nat \ {0} : ~(0 >= 3 * x * y)
  <2> SUFFICES ASSUME NEW x \in Nat \ {0}, NEW y \in Nat \ {0} PROVE 3 * x * y > 0
    OBVIOUS
  <2> QED
    OBVIOUS
<1> QED
  BY <1>1, <1>2, <1>3, <1>4, <1>5

\* Two rebalances in a row are one.
LEMMA RebalancedIsBalanced ==
  ASSUME SomeAlive, NEW placed, Placement(placed)
  PROVE  /\ Placement(RebalancedTo(placed))
         /\ RebalancedTo(RebalancedTo(placed)) = RebalancedTo(placed)
<1> DEFINE best == NearOptimal(placed)
           uneven(p) == SeverelyUneven(NearOptimal(p).loads, LoadsOf(p))
<1>1. RebalancedTo(placed) = IF uneven(placed) THEN best.placed ELSE placed
  BY DEF RebalancedTo
<1>2. CASE ~uneven(placed)
  <2>1. RebalancedTo(placed) = placed
    BY <1>1, <1>2
  <2> QED
    BY <2>1
<1>3. CASE uneven(placed)
  <2>1. RebalancedTo(placed) = best.placed
    BY <1>1, <1>3
  <2>2. best.placed \in [DOMAIN placed -> PlacedRec] /\ LoadsOf(best.placed) = best.loads
    BY NearOptimalLoads
  <2>3. SameTopologies(placed, best.placed)
    BY NearOptimalForgets DEF SameTopologies
  <2> HIDE DEF best
  <2>4. Placement(best.placed)
    BY <2>2 DEF Placement
  <2>5. NearOptimal(best.placed) = best
    BY <2>3, <2>4, NearOptimalForgets DEF best
  <2>6. best.loads \in [alive -> Nat]
    <3>1. \A w \in alive : LoadOf(best.placed, w) \in Nat
      <4> SUFFICES ASSUME NEW w \in alive PROVE LoadOf(best.placed, w) \in Nat
        OBVIOUS
      <4> DEFINE f == [t \in {u \in DOMAIN best.placed : best.placed[u].worker = w} |->
                         best.placed[t].weight]
      <4>1. IsNatural(f)
        BY <2>2, PlacedRecFacts DEF IsNatural
      <4> HIDE DEF f
      <4> QED
        BY <4>1, SumToSteps, LoadBalancerAssumption DEF LoadOf, f
    <3> QED
      BY <2>2, <3>1 DEF LoadsOf
  <2>7. ~uneven(best.placed)
    BY <2>2, <2>5, <2>6, EqualLoadsAreEven
  <2>8. RebalancedTo(best.placed) = best.placed
    BY <2>7 DEF RebalancedTo
  <2> QED
    BY <2>1, <2>4, <2>8
<1> QED
  BY <1>2, <1>3

\* The loads are numbers.
LEMMA LoadsAreNumbers ==
  ASSUME NEW placed, Placement(placed)
  PROVE  LoadsOf(placed) \in [alive -> Nat]
<1>1. ASSUME NEW w \in alive PROVE LoadOf(placed, w) \in Nat
  <2> DEFINE f == [t \in {u \in DOMAIN placed : placed[u].worker = w} |-> placed[t].weight]
  <2>1. IsNatural(f)
    BY PlacedRecFacts DEF IsNatural, Placement
  <2> HIDE DEF f
  <2> QED
    BY <2>1, SumToSteps, LoadBalancerAssumption DEF LoadOf, f
<1> QED
  BY <1>1 DEF LoadsOf

---------------------------------------------------------------------------
(* The spread of the loads.                                                *)

\* A placement on workers that are alive.
OnAlive(placed) == \A t \in DOMAIN placed : placed[t].worker \in alive

\* What the loads have in total are the weights of the topologies.
LEMMA LoadsAddUp ==
  ASSUME SomeAlive, NEW placed, Placement(placed), OnAlive(placed)
  PROVE  SumTo(LoadsOf(placed), NumWorkers)
           = SumTo([t \in DOMAIN placed |-> placed[t].weight], NumTopologies)
<1> DEFINE On(w) == [t \in {u \in DOMAIN placed : placed[u].worker = w} |-> placed[t].weight]
           weights == [t \in DOMAIN placed |-> placed[t].weight]
           Loads(n) == [w \in alive |-> SumTo(On(w), n)]
           N == {n \in Nat : SumTo(Loads(n), NumWorkers) = SumTo(weights, n)}
<1>1. IsNatural(weights) /\ \A w : IsNatural(On(w))
  BY PlacedRecFacts DEF IsNatural, Placement
<1>2. ASSUME NEW n \in Nat PROVE IsNatural(Loads(n))
  <2> HIDE DEF On
  <2> QED
    BY <1>1, SumToSteps DEF IsNatural
<1>3. 0 \in N
  <2>1. IsNatural(Loads(0)) /\ \A k : At(Loads(0), k) = 0
    <3> HIDE DEF On
    <3> QED
      BY <1>1, SumToSteps DEF IsNatural, At
  <2>2. SumTo(Loads(0), NumWorkers) = 0
    <3> HIDE DEF Loads
    <3> QED
      BY <2>1, SumToOfNone, LoadBalancerAssumption
  <2>3. SumTo(weights, 0) = 0
    <3> HIDE DEF weights
    <3> QED
      BY <1>1, SumToSteps
  <2> QED
    BY <2>2, <2>3
<1>4. ASSUME NEW n \in Nat, n \in N PROVE n + 1 \in N
  <2> DEFINE t == n + 1
             one == [w \in alive |-> At(On(w), t)]
  <2>1. IsNatural(one)
    BY <1>1 DEF IsNatural, At
  <2>2. \A k : At(Loads(n + 1), k) = At(Loads(n), k) + At(one, k)
    <3> SUFFICES ASSUME NEW k PROVE At(Loads(n + 1), k) = At(Loads(n), k) + At(one, k)
      OBVIOUS
    <3>1. CASE k \in alive
      <4>1. SumTo(On(k), n + 1) = SumTo(On(k), n) + At(On(k), t)
        <5> HIDE DEF On
        <5> QED
          BY <1>1, SumToSteps
      <4> HIDE DEF On
      <4> QED
        BY <3>1, <4>1 DEF At
    <3>2. CASE k \notin alive
      BY <3>2 DEF At
    <3> QED
      BY <3>1, <3>2
  <2>3. SumTo(Loads(n + 1), NumWorkers) = SumTo(Loads(n), NumWorkers) + SumTo(one, NumWorkers)
    <3>1. IsNatural(Loads(n)) /\ IsNatural(Loads(n + 1)) /\ n + 1 \in Nat
      <4> HIDE DEF Loads
      <4> QED
        BY <1>2
    <3> HIDE DEF Loads, one
    <3> QED
      BY <2>1, <2>2, <3>1, SumToAdds, LoadBalancerAssumption
  <2>4. SumTo(one, NumWorkers) = At(weights, t)
    <3>1. CASE t \in DOMAIN placed
      <4> DEFINE x == placed[t].worker
      <4>1. x \in alive /\ x \in 1..NumWorkers
        BY <3>1 DEF OnAlive, SomeAlive
      <4>2. \A k : k # x => At(one, k) = 0
        BY DEF At
      <4>3. At(one, x) = placed[t].weight /\ At(weights, t) = placed[t].weight
        BY <3>1, <4>1 DEF At
      <4> HIDE DEF one, x
      <4>4. SumTo(one, NumWorkers) = At(one, x)
        BY <2>1, <4>1, <4>2, SumToOfOne, LoadBalancerAssumption
      <4> QED
        BY <4>3, <4>4
    <3>2. CASE t \notin DOMAIN placed
      <4>1. At(weights, t) = 0 /\ \A k : At(one, k) = 0
        BY <3>2 DEF At
      <4> HIDE DEF one, weights
      <4> QED
        BY <2>1, <4>1, SumToOfNone, LoadBalancerAssumption
    <3> QED
      BY <3>1, <3>2
  <2>5. SumTo(weights, n + 1) = SumTo(weights, n) + At(weights, t)
    <3> HIDE DEF weights
    <3> QED
      BY <1>1, SumToSteps
  <2>6. SumTo(Loads(n), NumWorkers) = SumTo(weights, n)
    BY <1>4
  <2> QED
    BY <2>3, <2>4, <2>5, <2>6
<1>5. Nat \subseteq N
  <2> HIDE DEF N
  <2> QED  BY <1>3, <1>4, InductionSet
<1>6. SumTo(Loads(NumTopologies), NumWorkers) = SumTo(weights, NumTopologies)
  BY <1>5, LoadBalancerAssumption
<1>7. LoadsOf(placed) = Loads(NumTopologies)
  BY DEF LoadsOf, LoadOf
<1> QED
  BY <1>6, <1>7

\* Loads with the same total do not all grow.
LEMMA NotAllGrow ==
  ASSUME SomeAlive, NEW f \in [alive -> Nat], NEW g \in [alive -> Nat],
         SumTo(f, NumWorkers) = SumTo(g, NumWorkers)
  PROVE  \E w \in alive : g[w] <= f[w]
<1> SUFFICES ASSUME \A w \in alive : f[w] < g[w] PROVE FALSE
  OBVIOUS
<1> DEFINE h == [w \in alive |-> g[w] - f[w]]
<1>1. IsNatural(f) /\ IsNatural(g) /\ IsNatural(h)
  BY DEF IsNatural
<1>2. \A k : At(g, k) = At(f, k) + At(h, k)
  BY DEF At
<1>3. PICK w \in alive : TRUE
  BY DEF SomeAlive
<1>4. At(h, w) > 0 /\ w \in 1..NumWorkers
  BY <1>3 DEF At, SomeAlive
<1> HIDE DEF h
<1>5. SumTo(g, NumWorkers) = SumTo(f, NumWorkers) + SumTo(h, NumWorkers)
  BY <1>1, <1>2, SumToAdds, LoadBalancerAssumption
<1>6. At(h, w) <= SumTo(h, NumWorkers)
  BY <1>1, <1>4, SumToCovers, LoadBalancerAssumption
<1>7. SumTo(h, NumWorkers) \in Nat /\ SumTo(f, NumWorkers) \in Nat /\ At(h, w) \in Nat
  BY <1>1, SumToSteps, LoadBalancerAssumption DEF At, IsNatural
<1> QED
  BY <1>4, <1>5, <1>6, <1>7

\* No worker has more than another one by more than the weight of a topology.
Spread(loads, placed) ==
  \A v, w \in alive : \E t \in DOMAIN placed : loads[v] <= loads[w] + placed[t].weight

\* Topologies of the set that were placed are on workers that are alive, and the
\* others are where they were.
Moved(b, placed, set) ==
  \A t \in DOMAIN placed :
    \/ b.placed[t].worker \in alive
    \/ b.placed[t] = placed[t] /\ (t \in b.left \/ t \notin set)

\* Without affinity the loads stay close to each other.
LEMMA PlaceNextSpreads ==
  ASSUME SomeAlive, NEW D, D \subseteq 1..NumTopologies, NEW b \in Batch(D),
         \A t \in D : b.placed[t].affinity = {}, Spread(b.loads, b.placed)
  PROVE  LET c == PlaceNext(b, TRUE) IN
         Spread(c.loads, c.placed) /\ \A t \in D : c.placed[t].affinity = {}
<1> DEFINE c == PlaceNext(b, TRUE)
<1>0. b.placed \in [D -> PlacedRec] /\ b.loads \in [alive -> Nat] /\ b.left \in SUBSET D
  BY DEF Batch
<1>1. CASE b.left = {}
  BY <1>1 DEF PlaceNext
<1>2. CASE b.left # {}
  <2>1. PICK t \in b.left, x \in alive :
          /\ x = NextWorker(b.loads, b.placed[t])
          /\ c = [placed |-> [b.placed EXCEPT ![t].worker = x],
                  loads |-> With(b.loads, x, b.placed[t].weight), left |-> b.left \ {t}]
    BY <1>2, PlaceNextPlaces
  <2> HIDE DEF c
  <2>2. t \in D /\ b.placed[t] \in PlacedRec /\ b.placed[t].weight \in Nat
    BY <1>0, <2>1, PlacedRecFacts
  <2>3. /\ DOMAIN b.placed = D /\ DOMAIN c.placed = D
        /\ \A k \in D : /\ c.placed[k].weight = b.placed[k].weight
                        /\ c.placed[k].affinity = b.placed[k].affinity
    BY <1>0, <2>1, <2>2 DEF PlacedRec
  <2>4. \A v \in alive : b.loads[x] <= b.loads[v]
    <3> SUFFICES ASSUME NEW v \in alive PROVE b.loads[x] <= b.loads[v]
      OBVIOUS
    <3> DEFINE wt == b.placed[t].weight
    <3>1. Pull(b.loads, b.placed[t], x) <= Pull(b.loads, b.placed[t], v)
      BY <1>0, <2>1, <2>2, NextWorkerIsAlive
    <3>2. b.placed[t].affinity = {}
      BY <2>2
    <3>3. (b.loads[x] + wt) * AffinityFactor <= (b.loads[v] + wt) * AffinityFactor
      BY <3>1, <3>2 DEF Pull
    <3>4. b.loads[x] \in Nat /\ b.loads[v] \in Nat /\ wt \in Nat
      BY <1>0, <2>2
    <3>5. \A i, j \in Nat, k \in Nat \ {0} : i * k <= j * k => i <= j
      <4> SUFFICES ASSUME NEW i \in Nat, NEW j \in Nat, NEW k \in Nat \ {0}, j < i
                   PROVE  j * k < i * k
        OBVIOUS
      <4>1. PICK d \in Nat \ {0} : i = j + d
        <5>1. i - j \in Nat \ {0} /\ i = j + (i - j)
          OBVIOUS
        <5> QED
          BY <5>1
      <4>2. i * k = j * k + d * k /\ d * k > 0 /\ j * k \in Nat /\ d * k \in Nat
        BY <4>1
      <4> QED
        BY <4>2
    <3> HIDE DEF wt
    <3>6. b.loads[x] + wt <= b.loads[v] + wt
      BY <3>3, <3>4, <3>5, LoadBalancerAssumption
    <3> QED
      BY <3>4, <3>6
  <2>5. /\ c.loads[x] = b.loads[x] + b.placed[t].weight
        /\ \A v \in alive : v # x => c.loads[v] = b.loads[v]
        /\ \A v \in alive : b.loads[v] \in Nat
    BY <1>0, <2>1, <2>2 DEF With
  <2>6. ASSUME NEW v \in alive, NEW w \in alive
        PROVE  \E k \in D : c.loads[v] <= c.loads[w] + b.placed[k].weight
    <3>1. CASE v = x
      <4>1. CASE w = x
        BY <2>2, <2>5, <3>1, <4>1
      <4>2. CASE w # x
        <5>1. c.loads[v] <= c.loads[w] + b.placed[t].weight
          BY <2>2, <2>4, <2>5, <3>1, <4>2
        <5> QED
          BY <2>2, <5>1
      <4> QED
        BY <4>1, <4>2
    <3>2. CASE v # x
      <4>1. PICK k \in D : b.loads[v] <= b.loads[w] + b.placed[k].weight
        BY <2>3 DEF Spread
      <4>2. b.placed[k].weight \in Nat
        BY <1>0, PlacedRecFacts
      <4>3. c.loads[v] <= c.loads[w] + b.placed[k].weight
        BY <2>2, <2>5, <3>2, <4>1, <4>2
      <4> QED
        BY <4>3
    <3> QED
      BY <3>1, <3>2
  <2>7. Spread(c.loads, c.placed)
    BY <2>3, <2>6 DEF Spread
  <2>8. \A k \in D : c.placed[k].affinity = {}
    BY <2>3
  <2> QED
    BY <2>7, <2>8 DEF c
<1> QED
  BY <1>1, <1>2

\* What is placed goes to a worker that is alive.
LEMMA PlaceNextMoves ==
  ASSUME SomeAlive, NEW placed, NEW D, D = DOMAIN placed, D \subseteq 1..NumTopologies,
         NEW b \in Batch(D), NEW set, NEW sorted, Moved(b, placed, set)
  PROVE  Moved(PlaceNext(b, sorted), placed, set)
<1>1. CASE b.left = {}
  BY <1>1 DEF PlaceNext
<1>2. CASE b.left # {}
  <2> DEFINE c == PlaceNext(b, sorted)
  <2>1. PICK t \in b.left, x \in alive :
          c = [placed |-> [b.placed EXCEPT ![t].worker = x],
               loads |-> With(b.loads, x, b.placed[t].weight), left |-> b.left \ {t}]
    BY <1>2, PlaceNextPlaces
  <2> HIDE DEF c
  <2>2. b.placed \in [D -> PlacedRec] /\ b.left \in SUBSET D
    BY DEF Batch
  <2>3. /\ \A k \in D : k # t => c.placed[k] = b.placed[k]
        /\ c.placed[t].worker = x /\ c.left = b.left \ {t} /\ t \in D
    BY <2>1, <2>2 DEF PlacedRec
  <2>4. Moved(c, placed, set)
    BY <2>3 DEF Moved
  <2> QED
    BY <2>4 DEF c
<1> QED
  BY <1>1, <1>2

\* A set of topologies gets workers that are alive.
LEMMA PlaceAllMoves ==
  ASSUME SomeAlive, NEW placed, Placement(placed), NEW set \in SUBSET (DOMAIN placed),
         NEW loads \in [alive -> Nat], NEW sorted
  PROVE  LET r == PlaceAll(placed, set, loads, sorted).placed IN
         /\ r \in [DOMAIN placed -> PlacedRec]
         /\ \A t \in DOMAIN placed : r[t].worker \in alive \/ (r[t] = placed[t] /\ t \notin set)
<1> DEFINE D == DOMAIN placed
<1>1. D \subseteq 1..NumTopologies /\ placed \in [D -> PlacedRec] /\ set \in SUBSET D
  BY DEF Placement
<1>2. PICK after \in [Nat -> Batch(D)] :
        /\ Places(after, placed, set, loads, sorted)
        /\ PlaceAll(placed, set, loads, sorted) = after[Cardinality(set)]
        /\ after[Cardinality(set)].left = {}
  <2> HIDE DEF D
  <2> QED  BY <1>1, PlaceAllSteps
<1> DEFINE N == {n \in Nat : Moved(after[n], placed, set)}
<1>3. 0 \in N
  <2>1. after[0].placed = placed /\ after[0].left = set
    BY <1>2 DEF Places
  <2> QED
    BY <2>1 DEF Moved
<1>4. ASSUME NEW n \in Nat, n \in N PROVE n + 1 \in N
  <2>1. after[n + 1] = PlaceNext(after[n], sorted) /\ after[n] \in Batch(D)
    BY <1>2 DEF Places
  <2>2. Moved(after[n], placed, set)
    BY <1>4
  <2>3. Moved(after[n + 1], placed, set)
    BY <1>1, <2>1, <2>2, PlaceNextMoves
  <2> QED
    BY <2>3
<1>5. Nat \subseteq N
  <2> HIDE DEF N
  <2> QED  BY <1>3, <1>4, InductionSet
<1>6. Cardinality(set) \in Nat
  BY <1>1, SubsetsAreFinite, LoadBalancerAssumption
<1> DEFINE r == after[Cardinality(set)]
<1>7. Moved(r, placed, set) /\ r \in Batch(D) /\ r.left = {}
  BY <1>2, <1>5, <1>6
<1> HIDE DEF r
<1>8. r.placed \in [D -> PlacedRec]
  BY <1>7 DEF Batch
<1>9. \A t \in D : r.placed[t].worker \in alive \/ (r.placed[t] = placed[t] /\ t \notin set)
  BY <1>7 DEF Moved
<1>10. PlaceAll(placed, set, loads, sorted) = r
  BY <1>2 DEF r
<1> QED
  BY <1>8, <1>9, <1>10

\* Without affinities rebalance makes loads that differ by at most the weight of a
\* topology.
LEMMA NearOptimalSpreads ==
  ASSUME SomeAlive, NEW placed, Placement(placed), DOMAIN placed # {},
         \A t \in DOMAIN placed : placed[t].affinity = {}
  PROVE  Spread(NearOptimal(placed).loads, placed)
<1> DEFINE D == DOMAIN placed
<1>1. /\ D \subseteq 1..NumTopologies /\ placed \in [D -> PlacedRec] /\ D \in SUBSET D
      /\ NoLoads \in [alive -> Nat]
  BY DEF Placement, NoLoads
<1>2. PICK after \in [Nat -> Batch(D)] :
        /\ Places(after, placed, D, NoLoads, TRUE)
        /\ PlaceAll(placed, D, NoLoads, TRUE) = after[Cardinality(D)]
        /\ after[Cardinality(D)].left = {}
  <2> HIDE DEF D
  <2> QED  BY <1>1, PlaceAllSteps
<1> DEFINE Kept(b) == Spread(b.loads, b.placed) /\ \A t \in D : b.placed[t].affinity = {}
           N == {n \in Nat : Kept(after[n])}
<1>3. 0 \in N
  <2>1. after[0].placed = placed /\ after[0].loads = NoLoads
    BY <1>2 DEF Places
  <2>2. PICK t \in D : placed[t].weight \in Nat
    BY <1>1, PlacedRecFacts
  <2>3. Spread(after[0].loads, after[0].placed)
    BY <2>1, <2>2 DEF Spread, NoLoads
  <2> QED
    BY <2>1, <2>3
<1>4. ASSUME NEW n \in Nat, n \in N PROVE n + 1 \in N
  <2>1. after[n + 1] = PlaceNext(after[n], TRUE) /\ after[n] \in Batch(D)
    BY <1>2 DEF Places
  <2>2. Kept(after[n])
    BY <1>4
  <2>3. Kept(after[n + 1])
    BY <1>1, <2>1, <2>2, PlaceNextSpreads
  <2> QED
    BY <2>3
<1>5. Nat \subseteq N
  <2> HIDE DEF N
  <2> QED  BY <1>3, <1>4, InductionSet
<1>6. Cardinality(D) \in Nat
  BY <1>1, SubsetsAreFinite, LoadBalancerAssumption
<1> DEFINE best == NearOptimal(placed)
<1>7. Spread(best.loads, best.placed)
  BY <1>2, <1>5, <1>6 DEF NearOptimal, NoLoads
<1>8. SameTopologies(placed, best.placed)
  BY NearOptimalForgets DEF SameTopologies
<1> HIDE DEF best
<1> QED
  BY <1>7, <1>8 DEF Spread, SameTopologies, best

---------------------------------------------------------------------------
(* The leader.                                                             *)

AssignedToLiving == \A t \in DOMAIN topologies : topologies[t].worker \in alive \cup {NoWorkerYet}

BalanceIInv ==
  /\ alive \subseteq 1..NumWorkers /\ Placement(topologies) /\ AssignedToLiving
  /\ rebalanced => alive # {} /\ RebalancedTo(topologies) = topologies

\* The steps of the leader, one by one.
LEMMA EnableKeeps ==
  ASSUME BalanceIInv, NEW t \in 1..NumTopologies, NEW weight \in Weights,
         NEW affinity \in Affinities, Enable(t, weight, affinity)
  PROVE  BalanceIInv'
<1> USE DEF BalanceIInv, Enable
<1>1. [weight |-> weight, affinity |-> affinity, worker |-> NoWorkerYet] \in PlacedRec
  BY LoadBalancerAssumption DEF PlacedRec, NoWorkerYet
<1>2. Placement(topologies')
  BY <1>1 DEF Placement
<1>3. AssignedToLiving'
  BY DEF AssignedToLiving
<1> QED
  BY <1>2, <1>3 DEF Placement

LEMMA AssignWaitingKeeps == ASSUME BalanceIInv, AssignWaiting PROVE BalanceIInv'
<1> USE DEF BalanceIInv
<1>1. SomeAlive /\ Placement(topologies)
  BY DEF SomeAlive, AssignWaiting
<1> PICK running \in SUBSET (DOMAIN topologies \ Waiting) :
       topologies' = PlaceAll(topologies, Waiting,
                       LoadsOf([t \in running |-> topologies[t]]), FALSE).placed
  BY DEF AssignWaiting
<1> DEFINE loads == LoadsOf([t \in running |-> topologies[t]])
<1>2. Waiting \in SUBSET DOMAIN topologies /\ loads \in [alive -> Nat]
  <2>1. Placement([t \in running |-> topologies[t]])
    BY <1>1 DEF Placement
  <2>2. loads \in [alive -> Nat]
    BY <2>1, LoadsAreNumbers
  <2> QED
    BY <2>2 DEF Waiting
<1>3. topologies' = PlaceAll(topologies, Waiting, loads, FALSE).placed
  OBVIOUS
<1> HIDE DEF loads
<1>4. /\ topologies' \in [DOMAIN topologies -> PlacedRec]
      /\ \A t \in DOMAIN topologies : topologies'[t].worker \in alive
                                       \/ topologies'[t] = topologies[t]
  <2> DEFINE no == FALSE
             r == PlaceAll(topologies, Waiting, loads, no).placed
  <2>1. topologies' = r
    BY <1>3
  <2> HIDE DEF no
  <2>2. /\ r \in [DOMAIN topologies -> PlacedRec]
        /\ \A t \in DOMAIN topologies :
             r[t].worker \in alive \/ (r[t] = topologies[t] /\ t \notin Waiting)
    BY <1>1, <1>2, PlaceAllMoves
  <2> HIDE DEF r
  <2> QED
    BY <2>1, <2>2
<1>5. alive' = alive /\ rebalanced' = FALSE
  BY DEF AssignWaiting
<1>6. Placement(topologies')
  BY <1>4 DEF Placement
<1>7. AssignedToLiving'
  BY <1>4, <1>5 DEF AssignedToLiving
<1> QED
  BY <1>5, <1>6, <1>7 DEF Placement

\* What a rebalance changes.
LEMMA RebalanceMoves ==
  ASSUME BalanceIInv, PerformRebalance
  PROVE  /\ SomeAlive /\ Placement(topologies) /\ DOMAIN topologies # {}
         /\ OnAlive(topologies) /\ OnAlive(topologies')
         /\ \/ topologies' = topologies
            \/ /\ topologies' = NearOptimal(topologies).placed
               /\ LoadsOf(topologies') = NearOptimal(topologies).loads
               /\ SameTopologies(topologies, topologies')
<1> USE DEF BalanceIInv
<1>1. SomeAlive /\ Placement(topologies) /\ DOMAIN topologies # {}
  BY DEF SomeAlive, PerformRebalance
<1>2. OnAlive(topologies)
  BY DEF PerformRebalance, AssignedToLiving, Waiting, OnAlive
<1>3. topologies' = NearOptimal(topologies).placed \/ topologies' = topologies
  BY DEF PerformRebalance, RebalancedTo
<1>4. CASE topologies' = topologies
  BY <1>1, <1>2, <1>4
<1>5. CASE topologies' = NearOptimal(topologies).placed
  <2> DEFINE best == NearOptimal(topologies)
  <2>1. LoadsOf(best.placed) = best.loads
    BY <1>1, NearOptimalLoads
  <2>2. SameTopologies(topologies, best.placed)
    BY <1>1, NearOptimalForgets DEF SameTopologies
  <2>3. best = PlaceAll(topologies, DOMAIN topologies, NoLoads, TRUE)
    BY DEF NearOptimal, NoLoads
  <2>4. NoLoads \in [alive -> Nat]
    BY DEF NoLoads
  <2> HIDE DEF best
  <2>5. /\ best.placed \in [DOMAIN topologies -> PlacedRec]
        /\ \A t \in DOMAIN topologies : best.placed[t].worker \in alive
    BY <1>1, <2>3, <2>4, PlaceAllMoves
  <2>6. OnAlive(best.placed)
    BY <2>5 DEF OnAlive
  <2>7. topologies' = best.placed
    BY <1>5 DEF best
  <2> QED
    BY <1>1, <1>2, <2>1, <2>2, <2>6, <2>7 DEF best
<1> QED
  BY <1>3, <1>4, <1>5

LEMMA PerformRebalanceKeeps == ASSUME BalanceIInv, PerformRebalance PROVE BalanceIInv'
<1>1. SomeAlive /\ Placement(topologies) /\ OnAlive(topologies')
  BY RebalanceMoves
<1>2. topologies' = RebalancedTo(topologies) /\ alive' = alive
  BY DEF PerformRebalance
<1>3. Placement(topologies') /\ RebalancedTo(topologies') = topologies'
  BY <1>1, <1>2, RebalancedIsBalanced, SMTT(30)
<1>4. RebalancedTo(topologies)' = RebalancedTo(topologies')
  BY <1>2 DEF RebalancedTo, NearOptimal, SeverelyUneven, LoadsOf
<1>5. AssignedToLiving'
  BY <1>1, <1>2 DEF AssignedToLiving, OnAlive
<1>6. alive' \subseteq 1..NumWorkers /\ alive' # {}
  BY <1>1, <1>2 DEF SomeAlive
<1> QED
  BY <1>3, <1>4, <1>5, <1>6 DEF BalanceIInv, Placement

\* What every step of the leader and of the workers keeps.
LEMMA BalanceStepKeeps == ASSUME BalanceIInv, [BalanceNext]_balance_vars PROVE BalanceIInv'
<1>1. ASSUME NEW t \in 1..NumTopologies, t \in DOMAIN topologies, Disable(t) PROVE BalanceIInv'
  <2> USE <1>1 DEF BalanceIInv, Disable
  <2>1. Placement(topologies')
    BY DEF Placement
  <2>2. AssignedToLiving'
    BY DEF AssignedToLiving
  <2> QED
    BY <2>1, <2>2 DEF Placement
<1>2. ASSUME NEW w \in 1..NumWorkers, w \in alive, WorkerDies(w) PROVE BalanceIInv'
  <2> USE <1>2 DEF BalanceIInv, WorkerDies
  <2>1. Placement(topologies')
    BY LoadBalancerAssumption DEF Placement, PlacedRec, NoWorkerYet
  <2>2. AssignedToLiving'
    <3> SUFFICES ASSUME NEW t \in DOMAIN topologies
                 PROVE  topologies'[t].worker \in (alive \ {w}) \cup {NoWorkerYet}
      BY DEF AssignedToLiving
    <3>1. topologies[t] \in PlacedRec /\ topologies[t].worker \in alive \cup {NoWorkerYet}
      BY DEF Placement, AssignedToLiving
    <3> QED
      BY <3>1 DEF PlacedRec
  <2> QED
    BY <2>1, <2>2 DEF Placement
<1>3. ASSUME NEW w \in 1..NumWorkers, w \notin alive, WorkerJoins(w) PROVE BalanceIInv'
  <2> USE <1>3 DEF BalanceIInv, WorkerJoins
  <2>1. AssignedToLiving'
    BY DEF AssignedToLiving
  <2> QED
    BY <2>1 DEF Placement
<1>4. CASE UNCHANGED balance_vars
  <2>1. RebalancedTo(topologies)' = RebalancedTo(topologies)
    BY <1>4 DEF balance_vars, RebalancedTo, NearOptimal, SeverelyUneven, LoadsOf
  <2> QED
    BY <1>4, <2>1 DEF BalanceIInv, balance_vars, Placement, AssignedToLiving
<1> QED
  BY <1>1, <1>2, <1>3, <1>4, EnableKeeps, AssignWaitingKeeps, PerformRebalanceKeeps
     DEF BalanceNext

\* For any numbers of workers and topologies, weights and affinities: a rebalance
\* that comes right after another one asks for nothing.
THEOREM RebalancesSettle == BalanceSpec => []RebalanceSettles
<1>1. BalanceInit => BalanceIInv
  <2> SUFFICES ASSUME BalanceInit PROVE BalanceIInv
    OBVIOUS
  <2>1. Placement(topologies)
    BY DEF BalanceInit, Placement
  <2> QED
    BY <2>1 DEF BalanceInit, BalanceIInv, AssignedToLiving
<1>2. BalanceIInv /\ [BalanceNext]_balance_vars => BalanceIInv'
  BY BalanceStepKeeps
<1>3. BalanceIInv => RebalanceSettles
  BY DEF BalanceIInv, RebalanceSettles
<1> QED
  BY <1>1, <1>2, <1>3, PTL DEF BalanceSpec

\* Where no topology has an affinity, a rebalance that moves some leaves no worker
\* with more than another one by more than the weight of a topology, nor with more
\* than the most loaded one had by more than that.
THEOREM RebalancesEvenTheLoad == BalanceSpec => MovesEvenTheLoad
<1>1. BalanceInit => BalanceIInv
  <2> SUFFICES ASSUME BalanceInit PROVE BalanceIInv
    OBVIOUS
  <2>1. Placement(topologies)
    BY DEF BalanceInit, Placement
  <2> QED
    BY <2>1 DEF BalanceInit, BalanceIInv, AssignedToLiving
<1>2. BalanceIInv /\ [BalanceNext]_balance_vars => BalanceIInv'
  BY BalanceStepKeeps
<1> DEFINE Evens ==
      PerformRebalance /\ topologies' # topologies
        /\ (\A t \in DOMAIN topologies : topologies[t].affinity = {})
      => LET before == LoadsOf(topologies)
             after == LoadsOf(topologies')
         IN  \A v, w \in alive : \E t \in DOMAIN topologies :
               /\ after[v] <= after[w] + topologies[t].weight
               /\ \E u \in alive : after[v] <= before[u] + topologies[t].weight
<1>3. BalanceIInv => Evens
  <2> SUFFICES ASSUME BalanceIInv, PerformRebalance, topologies' # topologies,
                      \A t \in DOMAIN topologies : topologies[t].affinity = {},
                      NEW v \in alive, NEW w \in alive
               PROVE  \E t \in DOMAIN topologies :
                        /\ LoadsOf(topologies')[v] <= LoadsOf(topologies')[w] + topologies[t].weight
                        /\ \E u \in alive : LoadsOf(topologies')[v]
                                              <= LoadsOf(topologies)[u] + topologies[t].weight
    OBVIOUS
  <2> DEFINE before == LoadsOf(topologies)
             after == LoadsOf(topologies')
             wt(t) == topologies[t].weight
  <2>1. /\ SomeAlive /\ Placement(topologies) /\ DOMAIN topologies # {}
        /\ OnAlive(topologies) /\ OnAlive(topologies')
        /\ topologies' = NearOptimal(topologies).placed
        /\ after = NearOptimal(topologies).loads /\ SameTopologies(topologies, topologies')
    BY RebalanceMoves
  <2>2. Placement(topologies')
    BY <2>1, NearOptimalLoads DEF Placement
  <2>3. before \in [alive -> Nat] /\ after \in [alive -> Nat]
    BY <2>1, <2>2, LoadsAreNumbers
  <2>4. [t \in DOMAIN topologies |-> topologies[t].weight]
          = [t \in DOMAIN topologies' |-> topologies'[t].weight]
    BY <2>1 DEF SameTopologies
  <2>5. SumTo(before, NumWorkers) = SumTo(after, NumWorkers)
    <3>1. PICK p : p = topologies'
      OBVIOUS
    <3>2. /\ SumTo(LoadsOf(topologies), NumWorkers)
               = SumTo([t \in DOMAIN topologies |-> topologies[t].weight], NumTopologies)
          /\ SumTo(LoadsOf(p), NumWorkers)
               = SumTo([t \in DOMAIN p |-> p[t].weight], NumTopologies)
      BY <2>1, <2>2, <3>1, LoadsAddUp
    <3> QED
      BY <2>4, <3>1, <3>2
  <2>6. Spread(after, topologies)
    BY <2>1, NearOptimalSpreads
  <2> HIDE DEF before, after
  <2>7. PICK u \in alive : after[u] <= before[u]
    BY <2>1, <2>3, <2>5, NotAllGrow
  <2>8. PICK t \in DOMAIN topologies : after[v] <= after[w] + wt(t)
    BY <2>6 DEF Spread
  <2>9. PICK s \in DOMAIN topologies : after[v] <= after[u] + wt(s)
    BY <2>6 DEF Spread
  <2>10. wt(t) \in Nat /\ wt(s) \in Nat
    BY <2>1, PlacedRecFacts DEF Placement
  <2> HIDE DEF wt
  <2>11. after[v] \in Nat /\ after[w] \in Nat /\ after[u] \in Nat /\ before[u] \in Nat
    BY <2>3
  <2>12. \E k \in DOMAIN topologies : after[v] <= after[w] + wt(k) /\ after[v] <= before[u] + wt(k)
    <3>1. CASE wt(s) <= wt(t)
      BY <2>7, <2>8, <2>9, <2>10, <2>11, <3>1
    <3>2. CASE wt(t) <= wt(s)
      BY <2>7, <2>8, <2>9, <2>10, <2>11, <3>2
    <3> QED
      BY <2>10, <3>1, <3>2
  <2> QED
    BY <2>12 DEF before, after, wt
<1>4. BalanceIInv /\ [BalanceNext]_balance_vars => [Evens]_balance_vars
  BY <1>3
<1>5. MovesEvenTheLoad <=> [][Evens]_balance_vars
  BY DEF MovesEvenTheLoad
<1> HIDE DEF Evens
<1> QED
  BY <1>1, <1>2, <1>4, <1>5, PTL DEF BalanceSpec

---------------------------------------------------------------------------
(* Texts: induction and replacement.                                       *)

\* Recursion up to a number.
TakesStepsTo(N, g, a, step) ==
  \A n \in 0..N : g[n] = IF n = 0 THEN a ELSE step[<<n - 1, g[n - 1]>>]

LEMMA FiniteRecursion ==
  ASSUME NEW S, NEW a \in S, NEW N \in Nat, NEW step \in [Nat \X S -> S]
  PROVE  \E g \in [0..N -> S] : TakesStepsTo(N, g, a, step)
<1>1. PICK h \in [Nat -> S] : TakesSteps(h, a, step)
  BY RecursionExists
<1> DEFINE g == [n \in 0..N |-> h[n]]
<1>2. g \in [0..N -> S]
  BY <1>1
<1>3. ASSUME NEW n \in 0..N PROVE g[n] = IF n = 0 THEN a ELSE step[<<n - 1, g[n - 1]>>]
  <2>1. CASE n = 0
    BY <1>1, <2>1 DEF TakesSteps
  <2>2. CASE n # 0
    <3>1. n - 1 \in Nat /\ n - 1 \in 0..N /\ (n - 1) + 1 = n
      BY <2>2
    <3>2. h[(n - 1) + 1] = step[<<n - 1, h[n - 1]>>]
      BY <1>1, <3>1 DEF TakesSteps
    <3> QED
      BY <2>2, <3>1, <3>2
  <2> QED
    BY <2>1, <2>2
<1> HIDE DEF g
<1>4. TakesStepsTo(N, g, a, step)
  BY <1>3 DEF TakesStepsTo
<1> QED
  BY <1>2, <1>4

\* Induction over sequences: a set with the empty sequence and with every
\* sequence those that are longer by one.
LEMMA SequenceInduction ==
  ASSUME NEW T, NEW S, << >> \in S, \A s \in Seq(T), x \in T : s \in S => Append(s, x) \in S
  PROVE  Seq(T) \subseteq S
<1> DEFINE N == {n \in Nat : \A s \in Seq(T) : Len(s) = n => s \in S}
<1>1. 0 \in N
  BY EmptySeq
<1>2. ASSUME NEW n \in Nat, n \in N PROVE n + 1 \in N
  <2> SUFFICES ASSUME NEW s \in Seq(T), Len(s) = n + 1 PROVE s \in S
    OBVIOUS
  <2> DEFINE front == SubSeq(s, 1, n)
             x == s[n + 1]
  <2>1. front \in Seq(T) /\ Len(front) = n /\ x \in T
    OBVIOUS
  <2>2. s = Append(front, x)
    OBVIOUS
  <2>3. front \in S
    BY <1>2, <2>1
  <2> HIDE DEF front, x
  <2> QED
    BY <2>1, <2>2, <2>3
<1>3. Nat \subseteq N
  <2> HIDE DEF N
  <2> QED  BY <1>1, <1>2, InductionSet
<1> QED
  BY <1>3

\* The symbols of a text.
In(x, text) == \E i \in DOMAIN text : text[i] = x

\* The symbols of longer texts.
LEMMA InAppend ==
  ASSUME NEW T, NEW s \in Seq(T), NEW x \in T, NEW y
  PROVE  In(y, Append(s, x)) <=> In(y, s) \/ y = x
BY SMTT(30) DEF In

LEMMA InConcat ==
  ASSUME NEW T, NEW s \in Seq(T), NEW t \in Seq(T), NEW y
  PROVE  In(y, s \o t) <=> In(y, s) \/ In(y, t)
<1>1. ASSUME In(y, s \o t) PROVE In(y, s) \/ In(y, t)
  <2>1. PICK i \in DOMAIN (s \o t) : (s \o t)[i] = y
    BY <1>1 DEF In
  <2>2. CASE i <= Len(s)
    BY <2>1, <2>2 DEF In
  <2>3. CASE i > Len(s)
    <3>1. i - Len(s) \in DOMAIN t /\ t[i - Len(s)] = y
      BY <2>1, <2>3
    <3> QED
      BY <3>1 DEF In
  <2> QED
    BY <2>1, <2>2, <2>3
<1>2. ASSUME In(y, s) PROVE In(y, s \o t)
  <2>1. PICK i \in DOMAIN s : s[i] = y
    BY <1>2 DEF In
  <2>2. i \in DOMAIN (s \o t) /\ (s \o t)[i] = y
    BY <2>1
  <2> QED
    BY <2>2 DEF In
<1>3. ASSUME In(y, t) PROVE In(y, s \o t)
  <2>1. PICK i \in DOMAIN t : t[i] = y
    BY <1>3 DEF In
  <2>2. Len(s) + i \in DOMAIN (s \o t) /\ (s \o t)[Len(s) + i] = y
    BY <2>1
  <2> QED
    BY <2>2 DEF In
<1> QED
  BY <1>1, <1>2, <1>3

\* What stands for a symbol.
ValueOf(x, values) == IF x \in DOMAIN values THEN values[x] ELSE <<x>>

\* Values that are texts over some symbols.
Values(T, values) == \A x \in DOMAIN values : values[x] \in Seq(T)

\* It is a text.
LEMMA ValueOfType ==
  ASSUME NEW T, NEW values, Values(T, values), NEW x \in T
  PROVE  ValueOf(x, values) \in Seq(T)
BY DEF ValueOf, Values

\* Substituted symbol by symbol.
SubstitutesTo(upto, s, values) ==
  \A n \in 0..Len(s) : upto[n] = IF n = 0 THEN << >>
                                   ELSE upto[n - 1] \o ValueOf(s[n], values)

LEMMA SubstitutedSteps ==
  ASSUME NEW T, NEW values, Values(T, values), NEW s \in Seq(T)
  PROVE  \E upto \in [0..Len(s) -> Seq(T)] :
           SubstitutesTo(upto, s, values) /\ Substituted(s, values) = upto[Len(s)]
<1> DEFINE step == [p \in Nat \X Seq(T) |->
                      IF p[1] < Len(s) THEN p[2] \o ValueOf(s[p[1] + 1], values) ELSE p[2]]
           Runs(u) == u = [n \in 0..Len(s) |-> IF n = 0 THEN << >>
                             ELSE u[n - 1] \o ValueOf(s[n], values)]
           upto == CHOOSE u : Runs(u)
<1>1. step \in [Nat \X Seq(T) -> Seq(T)]
  <2> SUFFICES ASSUME NEW n \in Nat, NEW t \in Seq(T), n < Len(s)
               PROVE  t \o ValueOf(s[n + 1], values) \in Seq(T)
    OBVIOUS
  <2>1. s[n + 1] \in T
    OBVIOUS
  <2> QED
    BY <2>1, ValueOfType
<1>2. << >> \in Seq(T) /\ Len(s) \in Nat
  OBVIOUS
<1>3. PICK g \in [0..Len(s) -> Seq(T)] : TakesStepsTo(Len(s), g, << >>, step)
  <2> HIDE DEF step
  <2> QED  BY <1>1, <1>2, FiniteRecursion
<1>4. ASSUME NEW n \in 0..Len(s), n # 0
      PROVE  step[<<n - 1, g[n - 1]>>] = g[n - 1] \o ValueOf(s[n], values)
  <2>1. n - 1 \in Nat /\ n - 1 \in 0..Len(s) /\ n - 1 < Len(s) /\ (n - 1) + 1 = n
    BY <1>4
  <2>2. g[n - 1] \in Seq(T)
    BY <2>1
  <2> QED
    BY <2>1, <2>2
<1> HIDE DEF step
<1>5. Runs(g)
  BY <1>3, <1>4 DEF TakesStepsTo
<1>6. Runs(upto)
  BY <1>5
<1>7. Substituted(s, values) = upto[Len(s)]
  BY DEF Substituted, ValueOf
<1> HIDE DEF upto
<1>8. \A n \in 0..Len(s) : upto[n] = IF n = 0 THEN << >>
                                       ELSE upto[n - 1] \o ValueOf(s[n], values)
  BY <1>6
<1> DEFINE N == {n \in Nat : n <= Len(s) => upto[n] \in Seq(T)}
<1>9. 0 \in N
  <2>1. 0 \in 0..Len(s)
    BY <1>2
  <2>2. upto[0] = << >>
    BY <1>8, <2>1
  <2>3. upto[0] \in Seq(T)
    BY <1>2, <2>2
  <2> QED
    BY <2>3
<1>10. ASSUME NEW n \in Nat, n \in N PROVE n + 1 \in N
  <2> SUFFICES ASSUME n + 1 <= Len(s) PROVE upto[n + 1] \in Seq(T)
    OBVIOUS
  <2>1. upto[n] \in Seq(T) /\ n + 1 \in 0..Len(s) /\ (n + 1) - 1 = n /\ s[n + 1] \in T
    BY <1>10
  <2> DEFINE k == n + 1
  <2>2. k \in 0..Len(s) /\ k # 0 /\ k - 1 = n
    BY <2>1
  <2>3. upto[k] = upto[k - 1] \o ValueOf(s[k], values)
    BY <1>8, <2>2
  <2>4. ValueOf(s[k], values) \in Seq(T)
    BY <2>1, ValueOfType
  <2> HIDE DEF k
  <2>5. upto[k] \in Seq(T)
    BY <2>1, <2>2, <2>3, <2>4
  <2> QED
    BY <2>5 DEF k
<1>11. Nat \subseteq N
  <2> HIDE DEF N
  <2> QED  BY <1>9, <1>10, InductionSet
<1>12. upto \in [0..Len(s) -> Seq(T)]
  <2>1. \A n \in 0..Len(s) : n \in Nat /\ n <= Len(s)
    BY <1>2
  <2>2. \A n \in 0..Len(s) : upto[n] \in Seq(T)
    BY <1>11, <2>1
  <2>3. upto = [n \in 0..Len(s) |-> upto[n]]
    BY <1>6
  <2> HIDE DEF Runs
  <2> QED
    BY <2>2, <2>3
<1>13. SubstitutesTo(upto, s, values)
  BY <1>8 DEF SubstitutesTo
<1> QED
  BY <1>7, <1>12, <1>13

\* A text with values in place of symbols is a text.
LEMMA SubstitutedType ==
  ASSUME NEW T, NEW values, Values(T, values), NEW s \in Seq(T)
  PROVE  Substituted(s, values) \in Seq(T)
<1>1. PICK upto \in [0..Len(s) -> Seq(T)] :
        SubstitutesTo(upto, s, values) /\ Substituted(s, values) = upto[Len(s)]
  BY SubstitutedSteps
<1>2. Len(s) \in 0..Len(s)
  OBVIOUS
<1> QED
  BY <1>1, <1>2

LEMMA SubstitutedEmpty ==
  ASSUME NEW T, NEW values, Values(T, values)
  PROVE  Substituted(<< >>, values) = << >>
<1>1. ASSUME NEW s \in Seq(T), Len(s) = 0 PROVE Substituted(s, values) = << >>
  <2>1. PICK upto \in [0..Len(s) -> Seq(T)] :
          SubstitutesTo(upto, s, values) /\ Substituted(s, values) = upto[Len(s)]
    BY SubstitutedSteps
  <2>2. 0 \in 0..Len(s)
    BY <1>1
  <2>3. upto[0] = << >>
    BY <2>1, <2>2 DEF SubstitutesTo
  <2> QED
    BY <1>1, <2>1, <2>3
<1> QED
  BY <1>1, EmptySeq

LEMMA SubstitutedAppend ==
  ASSUME NEW T, NEW values, Values(T, values), NEW s \in Seq(T), NEW x \in T
  PROVE  Substituted(Append(s, x), values) = Substituted(s, values) \o ValueOf(x, values)
<1> DEFINE t == Append(s, x)
<1>1. t \in Seq(T) /\ Len(t) = Len(s) + 1 /\ t[Len(s) + 1] = x /\ \A n \in 1..Len(s) : t[n] = s[n]
  OBVIOUS
<1> HIDE DEF t
<1>2. PICK u \in [0..Len(s) -> Seq(T)] :
        SubstitutesTo(u, s, values) /\ Substituted(s, values) = u[Len(s)]
  BY SubstitutedSteps
<1>3. PICK v \in [0..Len(t) -> Seq(T)] :
        SubstitutesTo(v, t, values) /\ Substituted(t, values) = v[Len(t)]
  BY <1>1, SubstitutedSteps
<1> DEFINE N == {n \in Nat : n <= Len(s) => u[n] = v[n]}
<1>4. Len(s) \in Nat /\ Len(t) \in Nat
  BY <1>1
<1>5. 0 \in N
  <2>1. 0 \in 0..Len(s) /\ 0 \in 0..Len(t)
    BY <1>4
  <2>2. u[0] = << >> /\ v[0] = << >>
    BY <1>2, <1>3, <2>1 DEF SubstitutesTo
  <2> QED
    BY <2>2
<1>6. ASSUME NEW n \in Nat, n \in N PROVE n + 1 \in N
  <2> SUFFICES ASSUME n + 1 <= Len(s) PROVE u[n + 1] = v[n + 1]
    OBVIOUS
  <2> DEFINE k == n + 1
  <2>1. k \in 0..Len(s) /\ k \in 0..Len(t) /\ k \in 1..Len(s) /\ k # 0 /\ k - 1 = n
    BY <1>1, <1>4
  <2>2. u[n] = v[n]
    BY <1>4, <1>6
  <2> HIDE DEF k
  <2>3. u[k] = u[k - 1] \o ValueOf(s[k], values)
    BY <1>2, <2>1 DEF SubstitutesTo
  <2>4. v[k] = v[k - 1] \o ValueOf(t[k], values)
    BY <1>3, <2>1 DEF SubstitutesTo
  <2>5. u[k] = v[k]
    BY <1>1, <2>1, <2>2, <2>3, <2>4
  <2> QED
    BY <2>5 DEF k
<1>7. Nat \subseteq N
  <2> HIDE DEF N
  <2> QED  BY <1>5, <1>6, InductionSet
<1>8. u[Len(s)] = v[Len(s)]
  BY <1>4, <1>7
<1> DEFINE l == Len(t)
<1>9. l \in 0..Len(t) /\ l # 0 /\ l - 1 = Len(s)
  BY <1>1, <1>4
<1>10. t[l] = x
  BY <1>1
<1> HIDE DEF l
<1>11. v[l] = v[l - 1] \o ValueOf(t[l], values)
  BY <1>3, <1>9 DEF SubstitutesTo
<1>12. Substituted(t, values) = v[l]
  BY <1>3 DEF l
<1>13. Substituted(t, values) = u[Len(s)] \o ValueOf(x, values)
  BY <1>8, <1>9, <1>10, <1>11, <1>12
<1> QED
  BY <1>2, <1>13 DEF t

LEMMA SubstitutedSymbol ==
  ASSUME NEW T, NEW values, Values(T, values), NEW x \in T
  PROVE  Substituted(<<x>>, values) = ValueOf(x, values)
<1>1. << >> \in Seq(T) /\ Append(<< >>, x) = <<x>>
  OBVIOUS
<1>2. Substituted(Append(<< >>, x), values) = Substituted(<< >>, values) \o ValueOf(x, values)
  BY <1>1, SubstitutedAppend
<1>3. Substituted(<< >>, values) = << >>
  BY SubstitutedEmpty
<1>4. ValueOf(x, values) \in Seq(T)
  BY ValueOfType
<1>5. << >> \o ValueOf(x, values) = ValueOf(x, values)
  BY <1>4, ConcatEmptySeq
<1> QED
  BY <1>1, <1>2, <1>3, <1>5

LEMMA AppendAfterConcat ==
  ASSUME NEW T, NEW s \in Seq(T), NEW t \in Seq(T), NEW x \in T
  PROVE  s \o Append(t, x) = Append(s \o t, x)
OBVIOUS

\* Substitution goes piece by piece.
LEMMA SubstitutedConcat ==
  ASSUME NEW T, NEW values, Values(T, values), NEW s \in Seq(T), NEW t \in Seq(T)
  PROVE  Substituted(s \o t, values) = Substituted(s, values) \o Substituted(t, values)
<1> DEFINE Sub(u) == Substituted(u, values)
           S == {u \in Seq(T) : Sub(s \o u) = Sub(s) \o Sub(u)}
<1>1. ASSUME NEW u \in Seq(T) PROVE Sub(u) \in Seq(T)
  BY SubstitutedType
<1>2. << >> \in S
  <2>1. << >> \in Seq(T) /\ s \o << >> = s
    BY ConcatEmptySeq
  <2>2. Sub(<< >>) = << >>
    BY SubstitutedEmpty
  <2>3. Sub(s) \o << >> = Sub(s)
    BY <1>1, ConcatEmptySeq
  <2> HIDE DEF Sub
  <2> QED
    BY <2>1, <2>2, <2>3
<1>3. ASSUME NEW u \in Seq(T), NEW x \in T, u \in S PROVE Append(u, x) \in S
  <2>1. s \o Append(u, x) = Append(s \o u, x) /\ s \o u \in Seq(T) /\ Append(u, x) \in Seq(T)
    BY AppendAfterConcat
  <2>2. Sub(Append(s \o u, x)) = Sub(s \o u) \o ValueOf(x, values)
    BY <2>1, SubstitutedAppend
  <2>3. Sub(Append(u, x)) = Sub(u) \o ValueOf(x, values)
    BY SubstitutedAppend
  <2>4. Sub(s \o u) = Sub(s) \o Sub(u)
    BY <1>3
  <2>5. Sub(s) \in Seq(T) /\ Sub(u) \in Seq(T) /\ ValueOf(x, values) \in Seq(T)
    BY <1>1, ValueOfType
  <2> HIDE DEF Sub
  <2>6. (Sub(s) \o Sub(u)) \o ValueOf(x, values) = Sub(s) \o (Sub(u) \o ValueOf(x, values))
    <3> DEFINE p == Sub(s)
               q == Sub(u)
               r == ValueOf(x, values)
    <3>1. p \in Seq(T) /\ q \in Seq(T) /\ r \in Seq(T)
      BY <2>5
    <3> HIDE DEF p, q, r
    <3>2. (p \o q) \o r = p \o (q \o r)
      BY <3>1, ConcatAssociative, SMTT(30)
    <3> QED
      BY <3>2 DEF p, q, r
  <2>7. Sub(s \o Append(u, x)) = Sub(s) \o Sub(Append(u, x))
    BY <2>1, <2>2, <2>3, <2>4, <2>6
  <2> QED
    BY <2>1, <2>7
<1>4. Seq(T) \subseteq S
  <2> HIDE DEF S
  <2> QED  BY <1>2, <1>3, SequenceInduction
<1> QED
  BY <1>4

\* Where the symbols of the new text come from.
LEMMA SubstitutedSymbols ==
  ASSUME NEW T, NEW values, Values(T, values), NEW s \in Seq(T), NEW y
  PROVE  In(y, Substituted(s, values)) <=> \E x \in T : In(x, s) /\ In(y, ValueOf(x, values))
<1> DEFINE From(u) == \E x \in T : In(x, u) /\ In(y, ValueOf(x, values))
           S == {u \in Seq(T) : In(y, Substituted(u, values)) <=> From(u)}
<1>1. << >> \in S
  <2>1. << >> \in Seq(T) /\ Substituted(<< >>, values) = << >>
    BY SubstitutedEmpty
  <2>2. \A z : ~In(z, << >>)
    BY DEF In
  <2> QED
    BY <2>1, <2>2
<1>2. ASSUME NEW u \in Seq(T), NEW x \in T, u \in S PROVE Append(u, x) \in S
  <2>1. Substituted(Append(u, x), values) = Substituted(u, values) \o ValueOf(x, values)
    BY SubstitutedAppend
  <2>2. Substituted(u, values) \in Seq(T) /\ ValueOf(x, values) \in Seq(T)
    BY SubstitutedType, ValueOfType
  <2>3. In(y, Substituted(Append(u, x), values)) <=>
          In(y, Substituted(u, values)) \/ In(y, ValueOf(x, values))
    BY <2>1, <2>2, InConcat
  <2>4. From(Append(u, x)) <=> From(u) \/ In(y, ValueOf(x, values))
    <3>1. \A z : In(z, Append(u, x)) <=> In(z, u) \/ z = x
      BY InAppend
    <3> QED
      BY <3>1
  <2>5. Append(u, x) \in Seq(T)
    OBVIOUS
  <2> HIDE DEF From
  <2> QED
    BY <1>2, <2>3, <2>4, <2>5
<1>3. Seq(T) \subseteq S
  <2> HIDE DEF S
  <2> QED  BY <1>1, <1>2, SequenceInduction
<1> QED
  BY <1>3

\* Values matter only for the symbols there are.
LEMMA SubstitutedAgrees ==
  ASSUME NEW T, NEW a, NEW b, Values(T, a), Values(T, b), NEW s \in Seq(T),
         \A x \in T : In(x, s) => ValueOf(x, a) = ValueOf(x, b)
  PROVE  Substituted(s, a) = Substituted(s, b)
<1> DEFINE Agree(u) == \A x \in T : In(x, u) => ValueOf(x, a) = ValueOf(x, b)
           S == {u \in Seq(T) : Agree(u) => Substituted(u, a) = Substituted(u, b)}
<1>1. << >> \in S
  BY SubstitutedEmpty
<1>2. ASSUME NEW u \in Seq(T), NEW x \in T, u \in S PROVE Append(u, x) \in S
  <2>1. /\ Substituted(Append(u, x), a) = Substituted(u, a) \o ValueOf(x, a)
        /\ Substituted(Append(u, x), b) = Substituted(u, b) \o ValueOf(x, b)
    BY SubstitutedAppend
  <2>2. Agree(Append(u, x)) => Agree(u) /\ ValueOf(x, a) = ValueOf(x, b)
    <3>1. \A z : In(z, Append(u, x)) <=> In(z, u) \/ z = x
      BY InAppend
    <3> QED
      BY <3>1
  <2>3. Append(u, x) \in Seq(T)
    OBVIOUS
  <2> HIDE DEF Agree
  <2> QED
    BY <1>2, <2>1, <2>2, <2>3
<1>3. Seq(T) \subseteq S
  <2> HIDE DEF S
  <2> QED  BY <1>1, <1>2, SequenceInduction
<1> QED
  BY <1>3

\* A text without variables stays what it is.
LEMMA SubstitutedNothing ==
  ASSUME NEW T, NEW a, Values(T, a), NEW s \in Seq(T),
         \A x \in T : In(x, s) => x \notin DOMAIN a
  PROVE  Substituted(s, a) = s
<1> DEFINE Free(u) == \A x \in T : In(x, u) => x \notin DOMAIN a
           S == {u \in Seq(T) : Free(u) => Substituted(u, a) = u}
<1>1. << >> \in S
  BY SubstitutedEmpty
<1>2. ASSUME NEW u \in Seq(T), NEW x \in T, u \in S PROVE Append(u, x) \in S
  <2>1. Substituted(Append(u, x), a) = Substituted(u, a) \o ValueOf(x, a)
    BY SubstitutedAppend
  <2>2. Free(Append(u, x)) => Free(u) /\ ValueOf(x, a) = <<x>>
    <3>1. \A z : In(z, Append(u, x)) <=> In(z, u) \/ z = x
      BY InAppend
    <3> QED
      BY <3>1 DEF ValueOf
  <2>3. Append(u, x) \in Seq(T) /\ u \o <<x>> = Append(u, x)
    OBVIOUS
  <2> HIDE DEF Free
  <2> QED
    BY <1>2, <2>1, <2>2, <2>3
<1>3. Seq(T) \subseteq S
  <2> HIDE DEF S
  <2> QED  BY <1>1, <1>2, SequenceInduction
<1> QED
  BY <1>3

\* Values that have taken their own values: what was substituted before does
\* not matter.
LEMMA SubstitutedTwice ==
  ASSUME NEW T, NEW a, NEW b, Values(T, a), Values(T, b), NEW s \in Seq(T),
         \A x \in T : Substituted(ValueOf(x, a), b) = ValueOf(x, b)
  PROVE  Substituted(Substituted(s, a), b) = Substituted(s, b)
<1> DEFINE S == {u \in Seq(T) : Substituted(Substituted(u, a), b) = Substituted(u, b)}
<1>1. << >> \in S
  <2>1. Substituted(<< >>, a) = << >> /\ Substituted(<< >>, b) = << >>
    BY SubstitutedEmpty
  <2> QED
    BY <2>1
<1>2. ASSUME NEW u \in Seq(T), NEW x \in T, u \in S PROVE Append(u, x) \in S
  <2>1. /\ Substituted(Append(u, x), a) = Substituted(u, a) \o ValueOf(x, a)
        /\ Substituted(Append(u, x), b) = Substituted(u, b) \o ValueOf(x, b)
    BY SubstitutedAppend
  <2>2. Substituted(u, a) \in Seq(T) /\ ValueOf(x, a) \in Seq(T)
    BY SubstitutedType, ValueOfType
  <2>3. Substituted(Substituted(u, a) \o ValueOf(x, a), b) =
          Substituted(Substituted(u, a), b) \o Substituted(ValueOf(x, a), b)
    BY <2>2, SubstitutedConcat
  <2>4. Append(u, x) \in Seq(T)
    OBVIOUS
  <2> QED
    BY <1>2, <2>1, <2>3, <2>4
<1>3. Seq(T) \subseteq S
  <2> HIDE DEF S
  <2> QED  BY <1>1, <1>2, SequenceInduction
<1> QED
  BY <1>3

---------------------------------------------------------------------------
(* Injection is substitution.                                              *)

\* A text with a symbol between two texts.
Joins(text, s, v, t) == text = (s \o <<v>>) \o t

\* The first of the symbols, between the texts around it, is replaced.
LEMMA Replaced ==
  ASSUME NEW T, NEW s \in Seq(T), NEW t \in Seq(T), NEW v \in T, ~In(v, s), NEW value \in Seq(T),
         NEW text, Joins(text, s, v, t)
  PROVE  ReplaceFirst(text, v, value) = (s \o value) \o t
<1> DEFINE u == (s \o <<v>>) \o t
           first == CHOOSE i \in DOMAIN u : u[i] = v /\ \A j \in 1..(i - 1) : u[j] # v
           k == Len(s) + 1
<1>1. /\ u \in Seq(T) /\ Len(u) = k + Len(t) /\ u[k] = v /\ k \in DOMAIN u /\ k \in Nat
      /\ \A j \in 1..Len(s) : u[j] = s[j] /\ j \in DOMAIN s
      /\ \A j \in 1..Len(t) : u[k + j] = t[j]
  OBVIOUS
<1>2. \A j \in 1..(k - 1) : u[j] # v
  BY <1>1 DEF In
<1>3. ASSUME NEW i \in DOMAIN u, u[i] = v, \A j \in 1..(i - 1) : u[j] # v PROVE i = k
  <2>1. i \in Nat /\ 1 <= i
    BY <1>1
  <2> HIDE DEF u, k
  <2>2. ~(i < k)
    BY <1>1, <1>2, <1>3, <2>1
  <2>3. ~(k < i)
    BY <1>1, <1>3, <2>1
  <2> QED
    BY <1>1, <2>1, <2>2, <2>3
<1>4. first = k
  <2> HIDE DEF u, k
  <2> QED  BY <1>1, <1>2, <1>3
<1>5. ~ \A i \in DOMAIN u : u[i] # v
  BY <1>1
<1>6. ReplaceFirst(u, v, value) = SubSeq(u, 1, first - 1) \o value \o SubSeq(u, first + 1, Len(u))
  <2> HIDE DEF u
  <2> QED  BY <1>5 DEF ReplaceFirst
<1> HIDE DEF first
<1>7. SubSeq(u, 1, k - 1) = s
  <2>1. k - 1 = Len(s)
    BY <1>1
  <2> HIDE DEF u, k
  <2>2. SubSeq(u, 1, Len(s)) \in Seq(T) /\ Len(SubSeq(u, 1, Len(s))) = Len(s)
        /\ \A j \in 1..Len(s) : SubSeq(u, 1, Len(s))[j] = s[j]
    BY <1>1
  <2>3. SubSeq(u, 1, Len(s)) = s
    BY <2>2, SeqEqual
  <2> QED
    BY <2>1, <2>3
<1>8. SubSeq(u, k + 1, Len(u)) = t
  <2> HIDE DEF u, k
  <2> DEFINE r == SubSeq(u, k + 1, Len(u))
  <2>2. r \in Seq(T) /\ Len(r) = Len(t)
    <3>1. k + 1 \in Int /\ Len(u) \in Int /\ Len(u) - (k + 1) + 1 = Len(t) /\ Len(t) \in Nat
      BY <1>1
    <3>2. \A j \in (k + 1)..Len(u) : u[j] \in T
      BY <1>1
    <3>3. r \in Seq(T) /\ Len(r) = IF k + 1 <= Len(u) THEN Len(u) - (k + 1) + 1 ELSE 0
      BY <3>1, <3>2, SubSeqProperties
    <3> QED
      BY <3>1, <3>3
  <2>3. ASSUME NEW j \in 1..Len(t) PROVE r[j] = t[j]
    <3>1. r[j] = u[(k + 1) + j - 1]
      BY <1>1
    <3>2. (k + 1) + j - 1 = k + j
      BY <1>1
    <3> QED
      BY <1>1, <3>1, <3>2
  <2> HIDE DEF r
  <2>4. r = t
    BY <2>2, <2>3, SeqEqual
  <2> QED
    BY <2>4 DEF r
<1> QED
  BY <1>4, <1>6, <1>7, <1>8 DEF Joins

\* A text with a symbol has something before the first one.
LEMMA Parted ==
  ASSUME NEW T, NEW s \in Seq(T), NEW v \in T, In(v, s)
  PROVE  \E i \in DOMAIN s :
           /\ s[i] = v
           /\ SubSeq(s, 1, i - 1) \in Seq(T) /\ SubSeq(s, i + 1, Len(s)) \in Seq(T)
           /\ s = (SubSeq(s, 1, i - 1) \o <<v>>) \o SubSeq(s, i + 1, Len(s))
<1>1. PICK i \in DOMAIN s : s[i] = v
  BY DEF In
<1> DEFINE a == SubSeq(s, 1, i - 1)
           b == SubSeq(s, i + 1, Len(s))
<1>2. /\ a \in Seq(T) /\ b \in Seq(T) /\ Len(a) = i - 1 /\ Len(b) = Len(s) - i
      /\ \A j \in 1..(i - 1) : a[j] = s[j]
  OBVIOUS
<1>3. ASSUME NEW j \in 1..(Len(s) - i) PROVE b[j] = s[i + j]
  <2>1. b[j] = s[(i + 1) + j - 1] /\ (i + 1) + j - 1 = i + j
    OBVIOUS
  <2> QED
    BY <2>1
<1> HIDE DEF a, b
<1> DEFINE u == (a \o <<v>>) \o b
<1>4. u \in Seq(T) /\ Len(u) = Len(s) /\ i \in 1..Len(s) /\ Len(s) \in Nat
  BY <1>2
<1>7. u[i] = v
  <2>1. a \o <<v>> \in Seq(T) /\ Len(a \o <<v>>) = i /\ (a \o <<v>>)[i] = v
    BY <1>2, <1>4
  <2> QED
    BY <1>2, <1>4, <2>1
<1>5. ASSUME NEW j \in 1..Len(s) PROVE u[j] = s[j]
  <2>1. CASE j < i
    BY <1>2, <2>1
  <2>2. CASE j = i
    BY <1>1, <1>7, <2>2
  <2>3. CASE j > i
    <3>1. j - i \in 1..(Len(s) - i) /\ i + (j - i) = j
      BY <2>3
    <3>2. u[j] = b[j - i]
      BY <1>2, <2>3
    <3> QED
      BY <1>3, <3>1, <3>2
  <2>4. j < i \/ j = i \/ j > i
    BY <1>4
  <2> HIDE DEF u
  <2> QED
    BY <2>1, <2>2, <2>3, <2>4
<1>6. s = u
  <2> HIDE DEF u
  <2> QED  BY <1>4, <1>5, SeqEqual
<1> QED
  BY <1>1, <1>2, <1>6 DEF a, b

---------------------------------------------------------------------------
\* The variables, and the values of the first of them.
FirstNames(n) == {VariableNames[i] : i \in 1..n}

FirstValues(values, n) == [x \in FirstNames(n) |-> values[x]]

\* The variables are numbered.
LEMMA NamesFacts ==
  /\ Len(VariableNames) \in Nat /\ DOMAIN VariableNames = 1..Len(VariableNames)
  /\ \A n \in DOMAIN VariableNames : VariableNames[n] \in Names
  /\ \A m, n \in DOMAIN VariableNames : VariableNames[m] = VariableNames[n] => m = n
  /\ FirstNames(0) = {} /\ FirstNames(Len(VariableNames)) = Names
  /\ \A n \in 0..Len(VariableNames) : FirstNames(n) \subseteq Names
<1>1. /\ Len(VariableNames) \in Nat /\ DOMAIN VariableNames = 1..Len(VariableNames)
      /\ \A m, n \in DOMAIN VariableNames : VariableNames[m] = VariableNames[n] => m = n
  BY CompilerAssumption
<1>2. \A n \in DOMAIN VariableNames : VariableNames[n] \in Names
  BY DEF Names
<1>3. FirstNames(0) = {} /\ FirstNames(Len(VariableNames)) = Names
  BY <1>1 DEF FirstNames, Names
<1>4. \A n \in 0..Len(VariableNames) : FirstNames(n) \subseteq Names
  BY <1>1 DEF FirstNames, Names
<1> QED
  BY <1>1, <1>2, <1>3, <1>4

LEMMA NextName ==
  ASSUME NEW n \in Nat, n + 1 \in DOMAIN VariableNames
  PROVE  /\ VariableNames[n + 1] \notin FirstNames(n)
         /\ FirstNames(n + 1) = FirstNames(n) \cup {VariableNames[n + 1]}
<1>1. Len(VariableNames) \in Nat /\ n + 1 <= Len(VariableNames)
  BY NamesFacts
<1>2. VariableNames[n + 1] \notin FirstNames(n)
  BY <1>1, NamesFacts DEF FirstNames
<1>3. 1..(n + 1) = 1..n \cup {n + 1}
  OBVIOUS
<1>4. FirstNames(n + 1) = FirstNames(n) \cup {VariableNames[n + 1]}
  BY <1>3 DEF FirstNames
<1> QED
  BY <1>2, <1>4

\* No variable is left in a text.
Final(text) == \A x \in Names : ~In(x, text)

\* Each variable occurs at most once in a text.
Once(text) == \A i, j \in DOMAIN text : i # j /\ text[i] = text[j] => text[i] \notin Names

\* What the values are when the text and the values it takes are well-formed.
LEMMA FirstValuesFacts ==
  ASSUME NEW T, NEW values \in [Names -> Seq(T)], NEW n \in 0..Len(VariableNames)
  PROVE  /\ Values(T, FirstValues(values, n))
         /\ DOMAIN FirstValues(values, n) = FirstNames(n)
         /\ \A x : ValueOf(x, FirstValues(values, n)) =
                     IF x \in FirstNames(n) THEN values[x] ELSE <<x>>
<1>1. FirstNames(n) \subseteq Names
  BY NamesFacts
<1> QED
  BY <1>1 DEF FirstValues, Values, ValueOf

\* Injecting one more variable is substituting one more.
LEMMA InjectNext ==
  ASSUME NEW T, NEW text \in Seq(T), NEW values \in [Names -> Seq(T)], Once(text),
         \A x \in Names : In(x, text) => Final(values[x]),
         NEW n \in Nat, n + 1 \in 0..Len(VariableNames)
  PROVE  ReplaceFirst(Substituted(text, FirstValues(values, n)), VariableNames[n + 1],
                      values[VariableNames[n + 1]])
           = Substituted(text, FirstValues(values, n + 1))
<1> DEFINE v == VariableNames[n + 1]
           a == FirstValues(values, n)
           b == FirstValues(values, n + 1)
<1>1. n + 1 \in DOMAIN VariableNames /\ n \in 0..Len(VariableNames) /\ v \in Names
  BY NamesFacts
<1>2. v \notin FirstNames(n) /\ FirstNames(n + 1) = FirstNames(n) \cup {v}
        /\ FirstNames(n) \subseteq Names
  BY <1>1, NextName, NamesFacts
<1>3. /\ Values(T, a) /\ Values(T, b)
      /\ \A x : ValueOf(x, a) = IF x \in FirstNames(n) THEN values[x] ELSE <<x>>
      /\ \A x : ValueOf(x, b) = IF x \in FirstNames(n) \cup {v} THEN values[x] ELSE <<x>>
  BY <1>1, <1>2, FirstValuesFacts
<1> HIDE DEF v, a, b
<1>4. ASSUME NEW s \in Seq(T), ~In(v, s) PROVE Substituted(s, a) = Substituted(s, b)
  <2>1. \A x \in T : In(x, s) => ValueOf(x, a) = ValueOf(x, b)
    BY <1>3, <1>4
  <2> QED
    BY <1>3, <2>1, SubstitutedAgrees
<1>5. ASSUME NEW s \in Seq(T), ~In(v, s), \A x \in Names : In(x, s) => In(x, text)
      PROVE  ~In(v, Substituted(s, a))
  <2> SUFFICES ASSUME In(v, Substituted(s, a)) PROVE FALSE
    OBVIOUS
  <2>1. PICK x \in T : In(x, s) /\ In(v, ValueOf(x, a))
    BY <1>3, SubstitutedSymbols
  <2>2. CASE x \in FirstNames(n)
    <3>1. In(x, text) /\ x \in Names
      BY <1>2, <1>5, <2>1, <2>2
    <3>2. ~In(v, values[x])
      BY <1>1, <3>1 DEF Final
    <3> QED
      BY <1>3, <2>1, <2>2, <3>2
  <2>3. CASE x \notin FirstNames(n)
    <3>1. In(v, <<x>>)
      BY <1>3, <2>1, <2>3
    <3>2. v = x
      BY <3>1 DEF In
    <3> QED
      BY <1>5, <2>1, <3>2
  <2> QED
    BY <2>2, <2>3
<1>6. CASE ~In(v, text)
  <2>1. ~In(v, Substituted(text, a))
    BY <1>5, <1>6
  <2>2. ReplaceFirst(Substituted(text, a), v, values[v]) = Substituted(text, a)
    BY <2>1 DEF ReplaceFirst, In
  <2> QED
    BY <1>4, <1>6, <2>2 DEF v, a, b
<1>7. CASE In(v, text)
  <2>0. v \in T
    BY <1>7 DEF In
  <2>1. PICK i \in DOMAIN text :
          /\ text[i] = v
          /\ SubSeq(text, 1, i - 1) \in Seq(T) /\ SubSeq(text, i + 1, Len(text)) \in Seq(T)
          /\ text = (SubSeq(text, 1, i - 1) \o <<v>>) \o SubSeq(text, i + 1, Len(text))
    BY <1>7, <2>0, Parted
  <2> DEFINE p == SubSeq(text, 1, i - 1)
             q == SubSeq(text, i + 1, Len(text))
  <2>2. ~In(v, p) /\ ~In(v, q)
    <3>1. ASSUME NEW j \in DOMAIN p, p[j] = v PROVE FALSE
      <4>1. j \in DOMAIN text /\ j # i /\ text[j] = v
        BY <3>1
      <4> QED
        BY <1>1, <2>1, <4>1 DEF Once
    <3>2. ASSUME NEW j \in DOMAIN q, q[j] = v PROVE FALSE
      <4>0. Len(q) = Len(text) - i /\ i \in 1..Len(text) /\ DOMAIN q = 1..Len(q) /\ Len(text) \in Nat
        BY <2>1, LenProperties, SubSeqProperties
      <4>1. j \in 1..(Len(text) - i)
        BY <3>2, <4>0
      <4>3. q[j] = text[(i + 1) + j - 1]
        BY <4>1
      <4>5. j + i \in 1..Len(text) /\ j + i # i /\ (i + 1) + j - 1 = j + i
        <5>1. i \in Nat /\ j \in Nat /\ Len(text) \in Nat /\ 1 <= j /\ j <= Len(text) - i
          BY <4>0, <4>1
        <5> HIDE DEF p, q
        <5> QED
          BY <5>1
      <4>4. j + i \in DOMAIN text /\ j + i # i /\ q[j] = text[j + i]
        BY <4>3, <4>5
      <4>2. text[j + i] = v
        BY <3>2, <4>4
      <4> QED
        BY <1>1, <2>1, <4>4, <4>2 DEF Once
    <3> QED
      BY <3>1, <3>2 DEF In
  <2>14. text = (p \o <<v>>) \o q
    BY <2>1
  <2>15. p \in Seq(T) /\ q \in Seq(T)
    BY <2>1
  <2> HIDE DEF p, q
  <2> DEFINE pv == p \o <<v>>
  <2>3. <<v>> \in Seq(T) /\ pv \in Seq(T) /\ text = pv \o q
    BY <2>0, <2>14, <2>15
  <2>4. \A x : In(x, p) \/ In(x, q) => In(x, text)
    <3>1. \A x : In(x, pv) <=> In(x, p) \/ In(x, <<v>>)
      BY <2>3, <2>15, InConcat
    <3> HIDE DEF pv
    <3>2. \A x : In(x, text) <=> In(x, pv) \/ In(x, q)
      BY <2>3, <2>15, InConcat
    <3> QED
      BY <3>1, <3>2
  <2>5. ~In(v, Substituted(p, a)) /\ Substituted(p, a) \in Seq(T) /\ Substituted(q, a) \in Seq(T)
    BY <1>3, <1>5, <2>2, <2>15, <2>4, SubstitutedType
  <2>6. ASSUME NEW c, Values(T, c)
        PROVE  Substituted(text, c) = (Substituted(p, c) \o Substituted(<<v>>, c)) \o Substituted(q, c)
    <3>1. Substituted(pv, c) = Substituted(p, c) \o Substituted(<<v>>, c)
      BY <2>3, <2>15, <2>6, SubstitutedConcat
    <3> HIDE DEF pv
    <3>2. Substituted(pv \o q, c) = Substituted(pv, c) \o Substituted(q, c)
      BY <2>3, <2>15, <2>6, SubstitutedConcat
    <3> QED
      BY <2>3, <3>1, <3>2
  <2>7. Substituted(<<v>>, a) = <<v>>
    BY <1>2, <1>3, <2>0, SubstitutedSymbol
  <2>9. Substituted(<<v>>, b) = values[v]
    BY <1>2, <1>3, <2>0, SubstitutedSymbol
  <2>10. Substituted(p, a) = Substituted(p, b) /\ Substituted(q, a) = Substituted(q, b)
    BY <1>4, <2>2, <2>15
  <2>11. values[v] \in Seq(T)
    BY <1>1
  <2>12. ReplaceFirst((Substituted(p, a) \o <<v>>) \o Substituted(q, a), v, values[v])
           = (Substituted(p, a) \o values[v]) \o Substituted(q, a)
    <3> DEFINE A == Substituted(p, a)
               B == Substituted(q, a)
               value == values[v]
    <3>1. A \in Seq(T) /\ B \in Seq(T) /\ ~In(v, A) /\ value \in Seq(T)
      BY <2>5, <2>11
    <3> HIDE DEF A, B, value
    <3> DEFINE u == (A \o <<v>>) \o B
    <3>2. Joins(u, A, v, B)
      BY DEF Joins
    <3> HIDE DEF u
    <3>3. ReplaceFirst(u, v, value) = (A \o value) \o B
      BY <2>0, <3>1, <3>2, Replaced
    <3> QED
      BY <3>3 DEF A, B, value, u
  <2>13. ReplaceFirst(Substituted(text, a), v, values[v]) = Substituted(text, b)
    BY <1>3, <2>6, <2>7, <2>9, <2>10, <2>12
  <2> QED
    BY <2>13 DEF v, a, b
<1> QED
  BY <1>6, <1>7

\* Injection into a text that has each variable once, of values without
\* variables, is substitution.
LEMMA InjectIsSubstituted ==
  ASSUME NEW T, NEW text \in Seq(T), NEW values \in [Names -> Seq(T)], Once(text),
         \A x \in Names : In(x, text) => Final(values[x])
  PROVE  InjectVars(text, values) = Substituted(text, values)
<1> DEFINE L == Len(VariableNames)
           Runs(u) == u = [n \in 0..L |-> IF n = 0 THEN text
                             ELSE ReplaceFirst(u[n - 1], VariableNames[n], values[VariableNames[n]])]
           g == [n \in 0..L |-> Substituted(text, FirstValues(values, n))]
           after == CHOOSE u : Runs(u)
<1>1. L \in Nat
  BY NamesFacts
<1>2. g[0] = text
  <2>1. 0 \in 0..L
    BY <1>1
  <2>2. FirstNames(0) = {}
    BY NamesFacts
  <2>3. Values(T, FirstValues(values, 0)) /\ DOMAIN FirstValues(values, 0) = {}
    BY <2>1, <2>2, FirstValuesFacts
  <2>4. Substituted(text, FirstValues(values, 0)) = text
    BY <2>3, SubstitutedNothing
  <2> QED
    BY <2>1, <2>4
<1>3. ASSUME NEW n \in 0..L, n # 0
      PROVE  g[n] = ReplaceFirst(g[n - 1], VariableNames[n], values[VariableNames[n]])
  <2>1. PICK k \in Nat : k = n - 1
    BY <1>1, <1>3
  <2>2. k + 1 = n /\ k \in 0..L /\ k + 1 \in 0..L
    BY <1>1, <1>3, <2>1
  <2>3. ReplaceFirst(Substituted(text, FirstValues(values, k)), VariableNames[k + 1],
                     values[VariableNames[k + 1]])
          = Substituted(text, FirstValues(values, k + 1))
    BY <2>2, InjectNext
  <2> QED
    BY <2>1, <2>2, <2>3
<1>4. DOMAIN g = 0..L
  OBVIOUS
<1>5. g[L] = Substituted(text, values)
  <2>1. L \in 0..L
    BY <1>1
  <2>2. FirstValues(values, L) = values
    <3>1. FirstNames(L) = Names
      BY NamesFacts
    <3> QED
      BY <3>1 DEF FirstValues
  <2> QED
    BY <2>1, <2>2
<1>6. Runs(g)
  <2>1. g = [n \in 0..L |-> g[n]]
    OBVIOUS
  <2> HIDE DEF g, L
  <2> QED
    BY <1>2, <1>3, <2>1
<1> HIDE DEF g
<1>7. Runs(after)
  BY <1>6
<1>8. InjectVars(text, values) = after[L]
  BY DEF InjectVars
<1> HIDE DEF after, L
<1>9. \A n \in 0..L : after[n] = IF n = 0 THEN text
        ELSE ReplaceFirst(after[n - 1], VariableNames[n], values[VariableNames[n]])
  BY <1>7
<1> DEFINE N == {n \in Nat : n <= L => after[n] = g[n]}
<1>10. 0 \in N
  BY <1>1, <1>2, <1>9
<1>11. ASSUME NEW n \in Nat, n \in N PROVE n + 1 \in N
  <2> SUFFICES ASSUME n + 1 <= L PROVE after[n + 1] = g[n + 1]
    OBVIOUS
  <2> DEFINE k == n + 1
  <2>1. k \in 0..L /\ k # 0 /\ k - 1 = n /\ after[n] = g[n]
    BY <1>1, <1>11
  <2> HIDE DEF k
  <2>2. after[k] = ReplaceFirst(after[k - 1], VariableNames[k], values[VariableNames[k]])
    BY <1>9, <2>1
  <2>3. g[k] = ReplaceFirst(g[k - 1], VariableNames[k], values[VariableNames[k]])
    BY <1>3, <2>1
  <2>4. after[k] = g[k]
    BY <2>1, <2>2, <2>3
  <2> QED
    BY <2>4 DEF k
<1>12. Nat \subseteq N
  <2> HIDE DEF N
  <2> QED  BY <1>10, <1>11, InductionSet
<1>13. after[L] = g[L]
  BY <1>1, <1>12
<1> QED
  BY <1>5, <1>8, <1>13

---------------------------------------------------------------------------
(* The variables.                                                          *)

\* What CompilerResolves assumes of the variables.
InOrder(vars) ==
  /\ \A v \in Names : Once(vars[v])
  /\ \A m, n \in DOMAIN VariableNames :
       In(VariableNames[m], vars[VariableNames[n]]) => m < n

NextValues(f1, f, v) == f1 = [f EXCEPT ![v] = Substituted(@, f)]

NextInjected(f1, f, v) == f1 = [f EXCEPT ![v] = InjectVars(@, f)]

\* One variable after the other takes the values of those before it.
Resolves(g, vars) ==
  \A n \in 0..Len(VariableNames) :
    IF n = 0 THEN g[n] = vars ELSE NextValues(g[n], g[n - 1], VariableNames[n])

\* There are such values.
LEMMA ResolvesExists ==
  ASSUME NEW T, NEW vars \in [Names -> Seq(T)]
  PROVE  \E g \in [0..Len(VariableNames) -> [Names -> Seq(T)]] : Resolves(g, vars)
<1> DEFINE L == Len(VariableNames)
           S == [Names -> Seq(T)]
           step == [p \in Nat \X S |->
                      IF p[1] < L
                      THEN [p[2] EXCEPT ![VariableNames[p[1] + 1]] = Substituted(@, p[2])]
                      ELSE p[2]]
<1>1. L \in Nat /\ DOMAIN VariableNames = 1..L
  BY NamesFacts
<1>2. ASSUME NEW n \in 1..L, NEW f \in S
      PROVE  [f EXCEPT ![VariableNames[n]] = Substituted(@, f)] \in S
  <2>1. VariableNames[n] \in Names
    BY <1>1, NamesFacts
  <2>2. f[VariableNames[n]] \in Seq(T) /\ Values(T, f)
    BY <2>1 DEF Values
  <2>3. Substituted(f[VariableNames[n]], f) \in Seq(T)
    BY <2>2, SubstitutedType
  <2> QED
    BY <2>3
<1>3. step \in [Nat \X S -> S]
  <2>1. ASSUME NEW n \in Nat, NEW f \in S, n < L
        PROVE  [f EXCEPT ![VariableNames[n + 1]] = Substituted(@, f)] \in S
    <3>1. n + 1 \in 1..L
      BY <1>1, <2>1
    <3> HIDE DEF S, L
    <3> QED
      BY <1>2, <3>1
  <2> HIDE DEF S, L
  <2>2. ASSUME NEW p \in Nat \X S
        PROVE  IF p[1] < L
               THEN [p[2] EXCEPT ![VariableNames[p[1] + 1]] = Substituted(@, p[2])] \in S
               ELSE p[2] \in S
    BY <2>1
  <2> QED
    BY <2>2
<1>4. PICK g \in [0..L -> S] : TakesStepsTo(L, g, vars, step)
  <2> HIDE DEF step, S, L
  <2>1. vars \in S /\ L \in Nat
    BY <1>1 DEF S
  <2> QED
    BY <1>3, <2>1, FiniteRecursion
<1>5. ASSUME NEW n \in 0..L, n # 0
      PROVE  step[<<n - 1, g[n - 1]>>] = [g[n - 1] EXCEPT ![VariableNames[n]] = Substituted(@, g[n - 1])]
  <2>1. n - 1 \in Nat /\ n - 1 \in 0..L /\ n - 1 < L /\ (n - 1) + 1 = n
    BY <1>1, <1>5
  <2>2. g[n - 1] \in S
    BY <1>4, <2>1
  <2> HIDE DEF S, L
  <2> QED
    BY <2>1, <2>2
<1> HIDE DEF step
<1>6. Resolves(g, vars)
  BY <1>4, <1>5 DEF TakesStepsTo, Resolves, NextValues
<1> QED
  BY <1>4, <1>6

\* Those that have had their turn are resolved, and the others as they were.
ResolvedTo(f, vars, n) ==
  /\ \A k \in DOMAIN VariableNames : k <= n =>
       /\ Final(f[VariableNames[k]])
       /\ f[VariableNames[k]] = Substituted(vars[VariableNames[k]], f)
  /\ \A k \in DOMAIN VariableNames : k > n => f[VariableNames[k]] = vars[VariableNames[k]]

\* One more variable is resolved, and injection does it.
LEMMA NextResolved ==
  ASSUME NEW T, NEW vars \in [Names -> Seq(T)], InOrder(vars),
         NEW f \in [Names -> Seq(T)], NEW n \in Nat, NEW l \in DOMAIN VariableNames, l = n + 1,
         ResolvedTo(f, vars, n),
         NEW f1, NextValues(f1, f, VariableNames[l])
  PROVE  /\ NextInjected(f1, f, VariableNames[l])
         /\ f1 \in [Names -> Seq(T)]
         /\ ResolvedTo(f1, vars, l)
<1> DEFINE v == VariableNames[l]
<1>1. /\ DOMAIN VariableNames = 1..Len(VariableNames) /\ Len(VariableNames) \in Nat
      /\ \A k \in DOMAIN VariableNames : VariableNames[k] \in Names
      /\ \A m, k \in DOMAIN VariableNames : VariableNames[m] = VariableNames[k] => m = k
      /\ \A x \in Names : \E k \in DOMAIN VariableNames : VariableNames[k] = x
  BY NamesFacts DEF Names
<1>2. v \in Names /\ f[v] = vars[v] /\ f[v] \in Seq(T) /\ Values(T, f)
  <2>1. l > n /\ v \in Names
    BY <1>1
  <2>2. f[v] = vars[v]
    BY <2>1 DEF ResolvedTo
  <2> QED
    BY <2>1, <2>2 DEF Values
<1>3. ASSUME NEW k \in DOMAIN VariableNames, k <= l, NEW x \in Names, In(x, vars[VariableNames[k]])
      PROVE  Final(f[x]) /\ x # v /\ f1[x] = f[x]
  <2>1. PICK m \in DOMAIN VariableNames : VariableNames[m] = x
    BY <1>1
  <2>2. m < k
    BY <1>3, <2>1 DEF InOrder
  <2>3. m <= n /\ m # l
    BY <1>1, <1>3, <2>2
  <2> QED
    <3>1. Final(f[VariableNames[m]])
      BY <2>3 DEF ResolvedTo
    <3>2. x # v
      BY <1>1, <2>1, <2>3
    <3>3. f1[x] = f[x]
      BY <1>2, <3>2 DEF NextValues
    <3> QED
      BY <2>1, <3>1, <3>2, <3>3
<1>4. Once(f[v])
  BY <1>2 DEF InOrder
<1>5. \A x \in Names : In(x, f[v]) => Final(f[x])
  <2>1. l <= l /\ VariableNames[l] = v
    BY <1>1
  <2> QED
    BY <1>2, <1>3, <2>1
<1>6. InjectVars(f[v], f) = Substituted(f[v], f)
  BY <1>2, <1>4, <1>5, InjectIsSubstituted
<1>7. f1 = [f EXCEPT ![v] = InjectVars(@, f)]
  BY <1>6 DEF NextValues
<1>8. Substituted(f[v], f) \in Seq(T)
  BY <1>2, SubstitutedType
<1>9. /\ f1 \in [Names -> Seq(T)] /\ f1[v] = Substituted(vars[v], f)
      /\ \A x \in Names : x # v => f1[x] = f[x]
  BY <1>2, <1>8 DEF NextValues
<1>10. ASSUME NEW k \in DOMAIN VariableNames, k <= l
       PROVE  Substituted(vars[VariableNames[k]], f1) = Substituted(vars[VariableNames[k]], f)
  <2> DEFINE s == vars[VariableNames[k]]
  <2>1. s \in Seq(T) /\ Values(T, f) /\ Values(T, f1)
    BY <1>1, <1>9 DEF Values
  <2>2. \A x \in T : In(x, s) => ValueOf(x, f1) = ValueOf(x, f)
    <3> SUFFICES ASSUME NEW x \in T, In(x, s) PROVE ValueOf(x, f1) = ValueOf(x, f)
      OBVIOUS
    <3>1. x \in Names => f1[x] = f[x]
      BY <1>3, <1>10
    <3>2. DOMAIN f1 = Names /\ DOMAIN f = Names
      BY <1>9
    <3> QED
      BY <3>1, <3>2 DEF ValueOf
  <2> HIDE DEF s
  <2>3. Substituted(s, f1) = Substituted(s, f)
    BY <2>1, <2>2, SubstitutedAgrees
  <2> QED
    BY <2>3 DEF s
<1>11. Final(f1[v])
  <2> SUFFICES ASSUME NEW y \in Names, In(y, f1[v]) PROVE FALSE
    BY DEF Final
  <2>0. In(y, Substituted(vars[v], f))
    BY <1>9
  <2>3. vars[v] \in Seq(T)
    BY <1>2
  <2>1. PICK x \in T : In(x, vars[v]) /\ In(y, ValueOf(x, f))
    BY <1>2, <2>0, <2>3, SubstitutedSymbols
  <2>2. CASE x \in Names
    <3>1. Final(f[x])
      <4>1. l <= l /\ VariableNames[l] = v
        BY <1>1
      <4> QED
        BY <1>3, <2>1, <2>2, <4>1
    <3>2. ValueOf(x, f) = f[x]
      BY <2>2 DEF ValueOf
    <3> QED
      BY <2>1, <3>1, <3>2 DEF Final
  <2>4. CASE x \notin Names
    <3>1. ValueOf(x, f) = <<x>>
      BY <2>4 DEF ValueOf
    <3>2. In(y, <<x>>)
      BY <2>1, <3>1
    <3>3. y = x
      BY <3>2 DEF In
    <3> QED
      BY <2>4, <3>3
  <2> QED
    BY <2>2, <2>4
<1>12. ASSUME NEW k \in DOMAIN VariableNames, k <= l
       PROVE  /\ Final(f1[VariableNames[k]])
              /\ f1[VariableNames[k]] = Substituted(vars[VariableNames[k]], f1)
  <2>1. CASE k = l
    <3>1. VariableNames[k] = v
      BY <2>1
    <3>2. Substituted(vars[v], f1) = Substituted(vars[v], f)
      BY <1>10, <1>12, <3>1
    <3> HIDE DEF v
    <3> QED
      BY <1>9, <1>11, <3>1, <3>2
  <2>2. CASE k # l
    <3>1. k <= n
      BY <1>1, <1>12, <2>2
    <3>2. VariableNames[k] # v /\ VariableNames[k] \in Names
      BY <1>1, <2>2
    <3>3. f1[VariableNames[k]] = f[VariableNames[k]]
      BY <1>9, <3>2
    <3>4. Final(f[VariableNames[k]]) /\ f[VariableNames[k]] = Substituted(vars[VariableNames[k]], f)
      BY <3>1 DEF ResolvedTo
    <3> QED
      BY <1>10, <1>12, <3>3, <3>4
  <2> QED
    BY <2>1, <2>2
<1>13. ASSUME NEW k \in DOMAIN VariableNames, k > l
       PROVE  f1[VariableNames[k]] = vars[VariableNames[k]]
  <2>1. k > n /\ k # l
    BY <1>1, <1>13
  <2>2. VariableNames[k] # v /\ VariableNames[k] \in Names
    BY <1>1, <2>1
  <2> QED
    BY <1>9, <2>1, <2>2 DEF ResolvedTo
<1>14. ResolvedTo(f1, vars, l)
  BY <1>12, <1>13 DEF ResolvedTo
<1> QED
  BY <1>7, <1>9, <1>14 DEF NextInjected

\* What the variables become.
LEMMA ResolveAll ==
  ASSUME NEW T, NEW vars \in [Names -> Seq(T)], InOrder(vars)
  PROVE  LET res == ResolveAllVars(vars)
         IN  /\ res \in [Names -> Seq(T)]
             /\ \A v \in Names : Final(res[v]) /\ res[v] = Substituted(vars[v], res)
<1> DEFINE L == Len(VariableNames)
           Runs(u) == u = [n \in 0..L |->
             IF n = 0 THEN vars
             ELSE [u[n - 1] EXCEPT ![VariableNames[n]] = InjectVars(@, u[n - 1])]]
           after == CHOOSE u : Runs(u)
<1>1. L \in Nat /\ DOMAIN VariableNames = 1..L
  BY NamesFacts
<1>2. PICK g \in [0..L -> [Names -> Seq(T)]] : Resolves(g, vars)
  BY ResolvesExists
<1> DEFINE N == {n \in Nat : n <= L => ResolvedTo(g[n], vars, n)}
<1>3. g[0] = vars
  <2>1. 0 \in 0..L
    BY <1>1
  <2> QED
    BY <1>2, <2>1 DEF Resolves
<1>4. 0 \in N
  <2>1. ResolvedTo(vars, vars, 0)
    BY <1>1 DEF ResolvedTo
  <2> QED
    BY <1>3, <2>1
<1>5. ASSUME NEW k \in 0..L, k # 0, ResolvedTo(g[k - 1], vars, k - 1)
      PROVE  /\ g[k] = [g[k - 1] EXCEPT ![VariableNames[k]] = InjectVars(@, g[k - 1])]
             /\ ResolvedTo(g[k], vars, k)
  <2> DEFINE n == k - 1
             f == g[n]
             f1 == g[k]
  <2>1. n \in Nat /\ n \in 0..L /\ k = n + 1 /\ k \in DOMAIN VariableNames
    BY <1>1, <1>5
  <2>2. f \in [Names -> Seq(T)]
    BY <1>2, <2>1
  <2>3. NextValues(f1, f, VariableNames[k])
    BY <1>2, <1>5 DEF Resolves
  <2>4. ResolvedTo(f, vars, n)
    BY <1>5
  <2> HIDE DEF n, f, f1
  <2>5. NextInjected(f1, f, VariableNames[k]) /\ ResolvedTo(f1, vars, k)
    BY <2>1, <2>2, <2>3, <2>4, NextResolved
  <2> QED
    BY <2>5 DEF n, f, f1, NextInjected
<1>6. ASSUME NEW n \in Nat, n \in N PROVE n + 1 \in N
  <2> SUFFICES ASSUME n + 1 <= L PROVE ResolvedTo(g[n + 1], vars, n + 1)
    OBVIOUS
  <2> DEFINE k == n + 1
  <2>1. k \in 0..L /\ k # 0 /\ k - 1 = n
    BY <1>1
  <2>2. ResolvedTo(g[n], vars, n)
    BY <1>1, <1>6
  <2> HIDE DEF k
  <2>3. ResolvedTo(g[k], vars, k)
    BY <1>5, <2>1, <2>2
  <2> QED
    BY <2>3 DEF k
<1>7. Nat \subseteq N
  <2> HIDE DEF N
  <2> QED  BY <1>4, <1>6, InductionSet
<1>8. ASSUME NEW k \in 0..L, k # 0
      PROVE  g[k] = [g[k - 1] EXCEPT ![VariableNames[k]] = InjectVars(@, g[k - 1])]
  <2>1. k - 1 \in Nat /\ k - 1 <= L
    BY <1>1, <1>8
  <2>2. ResolvedTo(g[k - 1], vars, k - 1)
    BY <1>7, <2>1
  <2> QED
    BY <1>5, <1>8, <2>2
<1>9. Runs(g)
  <2>1. g = [n \in 0..L |-> g[n]]
    BY <1>2
  <2>2. g = [n \in 0..L |->
             IF n = 0 THEN vars
             ELSE [g[n - 1] EXCEPT ![VariableNames[n]] = InjectVars(@, g[n - 1])]]
    BY <1>3, <1>8, <2>1, SMTT(30)
  <2> QED
    BY <2>2
<1>10. Runs(after)
  BY <1>9
<1>11. ResolveAllVars(vars) = after[L]
  BY DEF ResolveAllVars
<1> HIDE DEF after, L
<1>12. \A n \in 0..L : after[n] = IF n = 0 THEN vars
         ELSE [after[n - 1] EXCEPT ![VariableNames[n]] = InjectVars(@, after[n - 1])]
  BY <1>10
<1> DEFINE M == {n \in Nat : n <= L => after[n] = g[n]}
<1>13. 0 \in M
  <2>1. 0 \in 0..L
    BY <1>1
  <2>2. after[0] = vars
    BY <1>12, <2>1
  <2> QED
    BY <1>3, <2>2
<1>14. ASSUME NEW n \in Nat, n \in M PROVE n + 1 \in M
  <2> SUFFICES ASSUME n + 1 <= L PROVE after[n + 1] = g[n + 1]
    OBVIOUS
  <2> DEFINE k == n + 1
  <2>1. k \in 0..L /\ k # 0 /\ k - 1 = n /\ after[n] = g[n]
    BY <1>1, <1>14
  <2> HIDE DEF k
  <2>2. after[k] = [after[k - 1] EXCEPT ![VariableNames[k]] = InjectVars(@, after[k - 1])]
    BY <1>12, <2>1
  <2>3. g[k] = [g[k - 1] EXCEPT ![VariableNames[k]] = InjectVars(@, g[k - 1])]
    BY <1>8, <2>1
  <2>4. after[k] = g[k]
    BY <2>1, <2>2, <2>3
  <2> QED
    BY <2>4 DEF k
<1>15. Nat \subseteq M
  <2> HIDE DEF M
  <2> QED  BY <1>13, <1>14, InductionSet
<1>16. after[L] = g[L] /\ g[L] \in [Names -> Seq(T)] /\ ResolvedTo(g[L], vars, L)
  <2>1. L \in 0..L /\ L <= L
    BY <1>1
  <2> QED
    BY <1>1, <1>2, <1>7, <1>15, <2>1
<1>17. \A v \in Names : \E k \in DOMAIN VariableNames : k <= L /\ VariableNames[k] = v
  BY <1>1 DEF Names
<1>18. \A v \in Names : Final(g[L][v]) /\ g[L][v] = Substituted(vars[v], g[L])
  BY <1>16, <1>17 DEF ResolvedTo
<1> QED
  BY <1>11, <1>16, <1>18

\* A text means what it is with what the variables become in their place.
LEMMA MeaningIsSubstituted ==
  ASSUME NEW T, NEW vars \in [Names -> Seq(T)], InOrder(vars), NEW text \in Seq(T),
         NEW res \in [Names -> Seq(T)],
         \A v \in Names : Final(res[v]) /\ res[v] = Substituted(vars[v], res)
  PROVE  Meaning(text, vars) = Substituted(text, res)
<1> DEFINE L == Len(VariableNames)
           Runs(u) == u = [n \in 0..L |-> IF n = 0 THEN text ELSE Substituted(u[n - 1], vars)]
           after == CHOOSE u : Runs(u)
           step == [p \in Nat \X Seq(T) |-> Substituted(p[2], vars)]
<1>1. /\ L \in Nat /\ DOMAIN VariableNames = 1..L
      /\ \A x \in Names : \E k \in DOMAIN VariableNames : VariableNames[k] = x
      /\ \A k \in DOMAIN VariableNames : VariableNames[k] \in Names
  BY NamesFacts DEF Names
<1>2. Values(T, vars) /\ Values(T, res) /\ DOMAIN vars = Names /\ DOMAIN res = Names
  BY DEF Values
<1>3. \A t \in Seq(T) : Substituted(t, vars) \in Seq(T)
  BY <1>2, SubstitutedType
<1>4. PICK g \in [0..L -> Seq(T)] : TakesStepsTo(L, g, text, step)
  <2>1. step \in [Nat \X Seq(T) -> Seq(T)]
    BY <1>3
  <2> HIDE DEF step, L
  <2> QED
    BY <1>1, <2>1, FiniteRecursion
<1>5. Runs(g)
  <2>1. ASSUME NEW n \in 0..L, n # 0 PROVE step[<<n - 1, g[n - 1]>>] = Substituted(g[n - 1], vars)
    <3>1. n - 1 \in Nat /\ n - 1 \in 0..L
      BY <1>1, <2>1
    <3>2. g[n - 1] \in Seq(T)
      BY <1>4, <3>1
    <3> QED
      BY <3>1, <3>2
  <2>2. g = [n \in 0..L |-> g[n]]
    BY <1>4
  <2> HIDE DEF step, L
  <2> QED
    BY <1>4, <2>1, <2>2 DEF TakesStepsTo
<1>6. Runs(after)
  BY <1>5
<1>7. Meaning(text, vars) = after[L]
  BY DEF Meaning
<1> HIDE DEF after, L, step
<1>8. \A n \in 0..L : after[n] = IF n = 0 THEN text ELSE Substituted(after[n - 1], vars)
  BY <1>6
<1> DEFINE Near(t, n) == /\ t \in Seq(T)
                         /\ Substituted(t, res) = Substituted(text, res)
                         /\ \A k \in DOMAIN VariableNames : In(VariableNames[k], t) => k <= L - n
           N == {n \in Nat : n <= L => Near(after[n], n)}
<1>9. 0 \in N
  <2>1. 0 \in 0..L
    BY <1>1
  <2>2. after[0] = text
    BY <1>8, <2>1
  <2> QED
    BY <1>1, <2>2
<1>10. \A x \in T : Substituted(ValueOf(x, vars), res) = ValueOf(x, res)
  <2> SUFFICES ASSUME NEW x \in T PROVE Substituted(ValueOf(x, vars), res) = ValueOf(x, res)
    OBVIOUS
  <2>1. CASE x \in Names
    BY <1>2, <2>1 DEF ValueOf
  <2>2. CASE x \notin Names
    <3>1. ValueOf(x, vars) = <<x>>
      BY <1>2, <2>2 DEF ValueOf
    <3> QED
      BY <1>2, <3>1, SubstitutedSymbol
  <2> QED
    BY <2>1, <2>2
<1>11. ASSUME NEW n \in Nat, n + 1 <= L, NEW t, Near(t, n) PROVE Near(Substituted(t, vars), n + 1)
  <2>1. t \in Seq(T) /\ Substituted(t, res) = Substituted(text, res)
    BY <1>11
  <2>2. Substituted(Substituted(t, vars), res) = Substituted(text, res)
    BY <1>2, <1>10, <2>1, SubstitutedTwice
  <2>3. ASSUME NEW k \in DOMAIN VariableNames, In(VariableNames[k], Substituted(t, vars))
        PROVE  k <= L - (n + 1)
    <3> DEFINE y == VariableNames[k]
    <3>1. In(y, Substituted(t, vars)) /\ y \in Names
      BY <1>1, <2>3
    <3> HIDE DEF y
    <3>2. PICK x \in T : In(x, t) /\ In(y, ValueOf(x, vars))
      BY <1>2, <2>1, <3>1, SubstitutedSymbols
    <3>3. x \in Names
      <4> SUFFICES ASSUME x \notin Names PROVE FALSE
        OBVIOUS
      <4>1. In(y, <<x>>)
        BY <1>2, <3>2 DEF ValueOf
      <4>2. y = x
        BY <4>1 DEF In
      <4> QED
        BY <3>1, <4>2
    <3>4. In(y, vars[x])
      BY <1>2, <3>2, <3>3 DEF ValueOf
    <3>5. PICK m \in DOMAIN VariableNames : VariableNames[m] = x
      BY <1>1, <3>3
    <3>6. k < m
      BY <3>4, <3>5 DEF InOrder, y
    <3>7. m <= L - n
      BY <1>11, <3>2, <3>5
    <3> QED
      BY <1>1, <3>6, <3>7
  <2> QED
    BY <1>3, <2>1, <2>2, <2>3
<1>12. ASSUME NEW n \in Nat, n \in N PROVE n + 1 \in N
  <2> SUFFICES ASSUME n + 1 <= L PROVE Near(after[n + 1], n + 1)
    OBVIOUS
  <2> DEFINE k == n + 1
  <2>1. k \in 0..L /\ k # 0 /\ k - 1 = n
    BY <1>1
  <2> HIDE DEF k
  <2>2. after[k] = Substituted(after[k - 1], vars)
    BY <1>8, <2>1
  <2> HIDE DEF Near
  <2>3. Near(after[n], n)
    BY <1>1, <1>12
  <2>4. Near(Substituted(after[n], vars), n + 1)
    BY <1>11, <2>3
  <2> QED
    BY <2>1, <2>2, <2>4 DEF k
<1>13. Nat \subseteq N
  <2> HIDE DEF N
  <2> QED  BY <1>9, <1>12, InductionSet
<1>14. Near(after[L], L)
  <2> HIDE DEF Near
  <2> QED  BY <1>1, <1>13
<1>15. \A x \in T : In(x, after[L]) => x \notin DOMAIN res
  <2> SUFFICES ASSUME NEW x \in Names, In(x, after[L]) PROVE FALSE
    BY <1>2
  <2>1. PICK k \in DOMAIN VariableNames : VariableNames[k] = x
    BY <1>1
  <2>2. k <= L - L
    BY <1>14, <2>1
  <2> QED
    BY <1>1, <2>2
<1>16. Substituted(after[L], res) = after[L]
  BY <1>2, <1>14, <1>15, SubstitutedNothing
<1> QED
  BY <1>7, <1>14, <1>16

---------------------------------------------------------------------------
(* Nodes.                                                                  *)

\* A function without repetitions has as many values as arguments.
AllDiffer(f, n) == \A i, j \in 1..n : f[i] = f[j] => i = j

ValuesUpTo(f, n) == {f[i] : i \in 1..n}

LEMMA DistinctNamesCount ==
  ASSUME NEW n \in Nat, NEW f, AllDiffer(f, n)
  PROVE  Cardinality(ValuesUpTo(f, n)) = n
<1> DEFINE S == {f[i] : i \in 1..n}
           g == [i \in 1..n |-> f[i]]
<1>1. g \in Bijection(1..n, S)
  BY DEF Bijection, Injection, Surjection, IsInjective, AllDiffer
<1>2. ExistsBijection(1..n, S)
  BY <1>1 DEF ExistsBijection
<1> HIDE DEF S
<1>3. Cardinality(S) = n
  BY <1>2, FS_CountingElements
<1> QED
  BY <1>3 DEF S, ValuesUpTo

InjectedOnes(S, vars) == {Injected(node, vars) : node \in S}

InjectedAll(nodes, vars) == [i \in DOMAIN nodes |-> Injected(nodes[i], vars)]

\* What injection does to a node.
InjectedInto(after, before, vars) ==
  /\ after.name = before.name /\ after.inputs = before.inputs
  /\ after.text = InjectVars(before.text, vars)
  /\ after.disabled = (InjectVars(before.disabled, vars) = <<"true">>)

\* Nodes keep their names and inputs.
LEMMA InjectedNode ==
  ASSUME NEW node, IsNode(node), NEW vars
  PROVE  InjectedInto(Injected(node, vars), node, vars)
BY DEF IsNode, Injected, InjectedInto

LEMMA InjectedAllFacts ==
  ASSUME NEW S, NEW nodes \in Seq(S), NEW vars
  PROVE  LET after == InjectedAll(nodes, vars)
         IN  /\ after \in Seq(InjectedOnes(S, vars)) /\ Len(after) = Len(nodes) /\ DOMAIN after = DOMAIN nodes
             /\ \A i \in DOMAIN nodes : after[i] = Injected(nodes[i], vars)
<1> DEFINE T == {Injected(node, vars) : node \in S}
           after == InjectedAll(nodes, vars)
<1>1. after = [i \in 1..Len(nodes) |-> Injected(nodes[i], vars)] /\ Len(nodes) \in Nat
        /\ DOMAIN nodes = 1..Len(nodes)
  BY DEF InjectedAll
<1>2. after \in [1..Len(nodes) -> T]
  <2>1. \A i \in 1..Len(nodes) : nodes[i] \in S
    OBVIOUS
  <2>2. \A i \in 1..Len(nodes) : Injected(nodes[i], vars) \in T
    BY <2>1
  <2> HIDE DEF after, T
  <2> QED
    BY <1>1, <2>2
<1> HIDE DEF T, after
<1>3. after \in Seq(T) /\ Len(after) = Len(nodes) /\ DOMAIN after = DOMAIN nodes
  BY <1>1, <1>2
<1> QED
  BY <1>1, <1>3 DEF after, T, InjectedOnes

LEMMA InjectedConcat ==
  ASSUME NEW S, NEW a \in Seq(S), NEW b \in Seq(S), NEW vars
  PROVE  InjectedAll(a \o b, vars) = InjectedAll(a, vars) \o InjectedAll(b, vars)
<1> DEFINE T == InjectedOnes(S, vars)
           c == a \o b
           ia == InjectedAll(a, vars)
           ib == InjectedAll(b, vars)
           ic == InjectedAll(c, vars)
<1>1. c \in Seq(S) /\ Len(c) = Len(a) + Len(b) /\ Len(a) \in Nat /\ Len(b) \in Nat
        /\ \A i \in 1..Len(a) + Len(b) : c[i] = IF i <= Len(a) THEN a[i] ELSE b[i - Len(a)]
  BY ConcatProperties
<1> HIDE DEF c
<1>2. /\ ia \in Seq(T) /\ Len(ia) = Len(a)
      /\ ib \in Seq(T) /\ Len(ib) = Len(b)
      /\ ic \in Seq(T) /\ Len(ic) = Len(c)
  BY <1>1, InjectedAllFacts
<1>3. /\ \A i \in 1..Len(a) : ia[i] = Injected(a[i], vars)
      /\ \A i \in 1..Len(b) : ib[i] = Injected(b[i], vars)
      /\ \A i \in 1..Len(c) : ic[i] = Injected(c[i], vars)
  BY <1>1, InjectedAllFacts
<1> HIDE DEF ia, ib, ic, T
<1> DEFINE d == ia \o ib
<1>4. d \in Seq(T) /\ Len(d) = Len(a) + Len(b)
        /\ \A i \in 1..Len(a) + Len(b) : d[i] = IF i <= Len(a) THEN ia[i] ELSE ib[i - Len(a)]
  <2>1. d \in Seq(T) /\ Len(d) = Len(ia) + Len(ib)
        /\ \A i \in 1..Len(ia) + Len(ib) : d[i] = IF i <= Len(ia) THEN ia[i] ELSE ib[i - Len(ia)]
    BY <1>2, ConcatProperties
  <2> HIDE DEF d
  <2> QED
    BY <1>2, <2>1
<1> HIDE DEF d
<1>5. ASSUME NEW i \in 1..Len(ic) PROVE ic[i] = d[i]
  <2>1. i \in 1..Len(a) + Len(b) /\ i \in 1..Len(c)
    BY <1>1, <1>2
  <2>2. CASE i <= Len(a)
    <3>1. i \in 1..Len(a)
      BY <1>1, <2>1, <2>2
    <3> QED
      BY <1>1, <1>3, <1>4, <2>1, <2>2, <3>1
  <2>3. CASE ~(i <= Len(a))
    <3> DEFINE j == i - Len(a)
    <3>1. j \in 1..Len(b)
      BY <1>1, <2>1, <2>3
    <3>2. c[i] = b[j] /\ d[i] = ib[j]
      BY <1>1, <1>4, <2>1, <2>3
    <3> HIDE DEF j
    <3> QED
      BY <1>3, <2>1, <3>1, <3>2
  <2> QED
    BY <2>2, <2>3
<1>6. ic = d
  BY <1>1, <1>2, <1>4, <1>5, SeqEqual
<1> QED
  BY <1>6 DEF ic, c, d, ia, ib

\* The nodes of a configuration, before and after.
LEMMA NodesInjected ==
  ASSUME NEW c, c \in Configs, NEW vars, NEW d,
         d.tasks = InjectedAll(c.tasks, vars), d.spouts = InjectedAll(c.spouts, vars),
         d.bolts = InjectedAll(c.bolts, vars)
  PROVE  /\ Len(NodesOf(c)) \in Nat /\ DOMAIN NodesOf(c) = 1..Len(NodesOf(c))
         /\ Len(NodesOf(d)) = Len(NodesOf(c)) /\ DOMAIN NodesOf(d) = DOMAIN NodesOf(c)
         /\ \A i \in DOMAIN NodesOf(c) : InjectedInto(NodesOf(d)[i], NodesOf(c)[i], vars)
         /\ DOMAIN d.bolts = DOMAIN c.bolts
         /\ \A i \in DOMAIN c.bolts : InjectedInto(d.bolts[i], c.bolts[i], vars)
         /\ LET before == c.tasks \o NodesOf(c)
                after == d.tasks \o NodesOf(d)
            IN  \A i \in DOMAIN before : /\ IsNode(before[i])
                                         /\ InjectedInto(after[i], before[i], vars)
<1> DEFINE a == c.tasks
           b == c.spouts
           e == c.bolts
           S == {a[i] : i \in DOMAIN a} \cup {b[i] : i \in DOMAIN b} \cup {e[i] : i \in DOMAIN e}
           n == b \o e
           all == a \o n
<1>0. IsNodes(a) /\ IsNodes(b) /\ IsNodes(e)
  BY CompilerAssumption
<1> HIDE DEF a, b, e
<1>1. a \in Seq(S) /\ b \in Seq(S) /\ e \in Seq(S)
  <2>1. /\ {a[i] : i \in DOMAIN a} \subseteq S
        /\ {b[i] : i \in DOMAIN b} \subseteq S
        /\ {e[i] : i \in DOMAIN e} \subseteq S
    OBVIOUS
  <2>2. /\ a \in Seq({a[i] : i \in DOMAIN a})
        /\ b \in Seq({b[i] : i \in DOMAIN b})
        /\ e \in Seq({e[i] : i \in DOMAIN e})
    BY <1>0 DEF IsNodes
  <2> HIDE DEF S
  <2> QED
    BY <2>1, <2>2, SeqMonotonic
<1>2. \A node \in S : IsNode(node)
  BY <1>0 DEF IsNodes
<1> HIDE DEF S
<1>3. n \in Seq(S)
  BY <1>1, ConcatProperties
<1>4. InjectedAll(n, vars) = InjectedAll(b, vars) \o InjectedAll(e, vars)
  BY <1>1, InjectedConcat
<1>5. NodesOf(c) = n /\ NodesOf(d) = InjectedAll(n, vars)
  BY <1>4 DEF NodesOf, b, e
<1> HIDE DEF n
<1>6. all \in Seq(S) /\ InjectedAll(all, vars) = InjectedAll(a, vars) \o InjectedAll(n, vars)
  BY <1>1, <1>3, InjectedConcat, ConcatProperties, SMTT(30)
<1>7. /\ c.tasks \o NodesOf(c) = all
      /\ d.tasks \o NodesOf(d) = InjectedAll(all, vars)
  BY <1>5, <1>6 DEF a
<1> HIDE DEF all
<1>8. ASSUME NEW s \in Seq(S)
      PROVE  /\ DOMAIN s = 1..Len(s) /\ Len(s) \in Nat
             /\ Len(InjectedAll(s, vars)) = Len(s) /\ DOMAIN InjectedAll(s, vars) = DOMAIN s
             /\ \A i \in DOMAIN s : IsNode(s[i]) /\ InjectedInto(InjectedAll(s, vars)[i], s[i], vars)
  <2>1. /\ Len(InjectedAll(s, vars)) = Len(s) /\ DOMAIN InjectedAll(s, vars) = DOMAIN s
        /\ \A i \in DOMAIN s : InjectedAll(s, vars)[i] = Injected(s[i], vars)
    BY InjectedAllFacts
  <2>2. DOMAIN s = 1..Len(s) /\ Len(s) \in Nat /\ \A i \in DOMAIN s : s[i] \in S
    OBVIOUS
  <2>3. ASSUME NEW i \in DOMAIN s
        PROVE  IsNode(s[i]) /\ InjectedInto(InjectedAll(s, vars)[i], s[i], vars)
    <3>1. IsNode(s[i])
      BY <1>2, <2>2
    <3>2. InjectedInto(Injected(s[i], vars), s[i], vars)
      BY <3>1, InjectedNode
    <3> QED
      BY <2>1, <3>1, <3>2
  <2> QED
    BY <2>1, <2>2, <2>3
<1>9. /\ Len(NodesOf(c)) \in Nat /\ DOMAIN NodesOf(c) = 1..Len(NodesOf(c))
      /\ Len(NodesOf(d)) = Len(NodesOf(c)) /\ DOMAIN NodesOf(d) = DOMAIN NodesOf(c)
      /\ \A i \in DOMAIN NodesOf(c) : InjectedInto(NodesOf(d)[i], NodesOf(c)[i], vars)
  BY <1>3, <1>5, <1>8
<1>10. /\ DOMAIN d.bolts = DOMAIN c.bolts
       /\ \A i \in DOMAIN c.bolts : InjectedInto(d.bolts[i], c.bolts[i], vars)
  BY <1>1, <1>8 DEF e
<1>11. LET before == c.tasks \o NodesOf(c)
           after == d.tasks \o NodesOf(d)
       IN  \A i \in DOMAIN before : IsNode(before[i]) /\ InjectedInto(after[i], before[i], vars)
  BY <1>6, <1>7, <1>8
<1> QED
  BY <1>9, <1>10, <1>11

---------------------------------------------------------------------------
(* CompilerResolves.                                                       *)

\* Nothing happens to the configuration before it is compiled.
CompilerIInv ==
  /\ given \in Configs
  /\ compile = "no" => config = given
  /\ CompilerResolves

\* Different names, and sources that are nodes.
NamesAreFine(c) ==
  /\ Cardinality({NodesOf(c)[i].name : i \in DOMAIN NodesOf(c)}) = Len(NodesOf(c))
  /\ \A i \in DOMAIN c.bolts :
       c.bolts[i].inputs \subseteq {NodesOf(c)[j].name : j \in DOMAIN NodesOf(c)}

\* The checks are made before injection and hold after it.
LEMMA NamesStayFine ==
  ASSUME NEW c, c \in Configs, NEW vars, NEW d,
         d.tasks = InjectedAll(c.tasks, vars), d.spouts = InjectedAll(c.spouts, vars),
         d.bolts = InjectedAll(c.bolts, vars), ~OccursTwice(c), ~UnknownSource(c)
  PROVE  NamesAreFine(d)
<1> DEFINE n == NodesOf(c)
           m == NodesOf(d)
<1>1. /\ Len(n) \in Nat /\ DOMAIN n = 1..Len(n) /\ Len(m) = Len(n) /\ DOMAIN m = DOMAIN n
      /\ \A i \in DOMAIN n : m[i].name = n[i].name
      /\ DOMAIN d.bolts = DOMAIN c.bolts
      /\ \A i \in DOMAIN c.bolts : d.bolts[i].inputs = c.bolts[i].inputs
  BY NodesInjected DEF InjectedInto
<1>2. \A i, j \in DOMAIN n : i < j => n[i].name # n[j].name
  BY DEF OccursTwice
<1>3. \A i \in DOMAIN c.bolts : \A source \in c.bolts[i].inputs :
        \E j \in DOMAIN n : n[j].name = source
  BY DEF UnknownSource
<1> HIDE DEF n, m
<1>4. Cardinality({m[i].name : i \in DOMAIN m}) = Len(m)
  <2> DEFINE f == [i \in 1..Len(n) |-> m[i].name]
  <2>1. AllDiffer(f, Len(n))
    <3> SUFFICES ASSUME NEW i \in 1..Len(n), NEW j \in 1..Len(n), f[i] = f[j] PROVE i = j
      BY DEF AllDiffer
    <3>1. n[i].name = n[j].name
      BY <1>1
    <3>2. ~(i < j) /\ ~(j < i)
      BY <1>1, <1>2, <3>1
    <3> QED
      BY <1>1, <3>2
  <2>2. ValuesUpTo(f, Len(n)) = {m[i].name : i \in DOMAIN m}
    BY <1>1 DEF ValuesUpTo
  <2> HIDE DEF f
  <2>3. Cardinality(ValuesUpTo(f, Len(n))) = Len(n)
    BY <1>1, <2>1, DistinctNamesCount
  <2> QED
    BY <1>1, <2>2, <2>3
<1>5. \A i \in DOMAIN d.bolts : d.bolts[i].inputs \subseteq {m[j].name : j \in DOMAIN m}
  BY <1>1, <1>3
<1> QED
  BY <1>4, <1>5 DEF NamesAreFine, m

\* The hypothesis of CompilerResolves.
LEMMA VariablesInOrder ==
  ASSUME NEW vars \in [Names -> Text],
         \A v \in DOMAIN vars :
           /\ OnceEach(vars[v], vars)
           /\ \A i \in DOMAIN vars[v] :
                vars[v][i] \in DOMAIN vars => PositionOf(vars[v][i]) < PositionOf(v)
  PROVE  InOrder(vars)
<1>1. /\ DOMAIN VariableNames = 1..Len(VariableNames)
      /\ \A k \in DOMAIN VariableNames : VariableNames[k] \in Names
      /\ \A k, l \in DOMAIN VariableNames : VariableNames[k] = VariableNames[l] => k = l
  BY NamesFacts
<1>2. ASSUME NEW k \in DOMAIN VariableNames PROVE PositionOf(VariableNames[k]) = k
  BY <1>1 DEF PositionOf
<1>3. \A v \in Names : Once(vars[v])
  BY DEF OnceEach, Once
<1>4. ASSUME NEW k \in DOMAIN VariableNames, NEW n \in DOMAIN VariableNames,
             In(VariableNames[k], vars[VariableNames[n]])
      PROVE  k < n
  <2> DEFINE x == VariableNames[k]
             v == VariableNames[n]
  <2>1. x \in Names /\ v \in Names
    BY <1>1
  <2>2. PICK i \in DOMAIN vars[v] : vars[v][i] = x
    BY <1>4 DEF In
  <2>3. PositionOf(x) < PositionOf(v)
    BY <2>1, <2>2
  <2> QED
    BY <1>2, <2>3
<1> QED
  BY <1>3, <1>4 DEF InOrder

\* What CompilerResolves says of the texts.
TextsMean(c, d) ==
  LET vars == c.variables
      before == c.tasks \o NodesOf(c)
      after == d.tasks \o NodesOf(d)
  IN  /\ \A v \in DOMAIN vars :
           /\ OnceEach(vars[v], vars)
           /\ \A i \in DOMAIN vars[v] :
                vars[v][i] \in DOMAIN vars => PositionOf(vars[v][i]) < PositionOf(v)
      => \A i \in DOMAIN before :
           OnceEach(before[i].text, vars) =>
             /\ after[i].text = Meaning(before[i].text, vars)
             /\ before[i].disabled = before[i].text =>
                  after[i].disabled = (Meaning(before[i].text, vars) = <<"true">>)

LEMMA ResolvesIs ==
  CompilerResolves <=> (compile = "done" => NamesAreFine(config) /\ TextsMean(given, config))
BY DEF CompilerResolves, NamesAreFine, TextsMean

\* Injection makes the texts what they mean.
LEMMA TextsKeepMeaning ==
  ASSUME NEW c, c \in Configs, NEW d,
         d.tasks = InjectedAll(c.tasks, ResolveAllVars(c.variables)),
         d.spouts = InjectedAll(c.spouts, ResolveAllVars(c.variables)),
         d.bolts = InjectedAll(c.bolts, ResolveAllVars(c.variables))
  PROVE  TextsMean(c, d)
<1> DEFINE vars == c.variables
           res == ResolveAllVars(vars)
           before == c.tasks \o NodesOf(c)
           after == d.tasks \o NodesOf(d)
<1>1. vars \in [Names -> Seq(Symbols)]
  BY CompilerAssumption DEF Text
<1>2. \A i \in DOMAIN before : IsNode(before[i]) /\ InjectedInto(after[i], before[i], res)
  BY NodesInjected
<1> HIDE DEF vars, res, before, after
<1> SUFFICES ASSUME \A v \in DOMAIN vars :
                      /\ OnceEach(vars[v], vars)
                      /\ \A i \in DOMAIN vars[v] :
                           vars[v][i] \in DOMAIN vars => PositionOf(vars[v][i]) < PositionOf(v),
                    NEW i \in DOMAIN before, OnceEach(before[i].text, vars)
             PROVE  /\ after[i].text = Meaning(before[i].text, vars)
                    /\ before[i].disabled = before[i].text =>
                         after[i].disabled = (Meaning(before[i].text, vars) = <<"true">>)
  BY DEF TextsMean, vars, before, after
<1>3. InOrder(vars)
  BY <1>1, VariablesInOrder DEF Text
<1>4. res \in [Names -> Seq(Symbols)] /\ \A v \in Names : Final(res[v]) /\ res[v] = Substituted(vars[v], res)
  BY <1>1, <1>3, ResolveAll DEF res
<1> DEFINE text == before[i].text
<1>5. text \in Seq(Symbols)
  BY <1>2 DEF IsNode, Text
<1>6. Once(text)
  BY <1>1 DEF OnceEach, Once
<1> HIDE DEF text
<1>7. InjectVars(text, res) = Substituted(text, res)
  BY <1>4, <1>5, <1>6, InjectIsSubstituted
<1>8. Meaning(text, vars) = Substituted(text, res)
  BY <1>1, <1>3, <1>4, <1>5, MeaningIsSubstituted
<1> QED
  BY <1>2, <1>7, <1>8 DEF InjectedInto, text

\* Every compiled topology has nodes with different names that take their data
\* from nodes, and where the variables refer to earlier ones and no text has a
\* variable twice, its texts are those that were meant, with no variable left.
THEOREM CompilerDoesResolve == CompilerSpec => []CompilerResolves
<1>1. CompilerInit => CompilerIInv
  BY DEF CompilerInit, CompilerIInv, CompilerResolves
<1>2. CompilerIInv /\ [CompilerNext]_compiler_vars => CompilerIInv'
  <2> SUFFICES ASSUME CompilerIInv, [CompilerNext]_compiler_vars PROVE CompilerIInv'
    OBVIOUS
  <2>1. CASE UNCHANGED compiler_vars
    <3>1. CompilerResolves' <=> CompilerResolves
      BY <2>1 DEF compiler_vars, CompilerResolves, NodesOf
    <3> QED
      BY <2>1, <3>1 DEF compiler_vars, CompilerIInv
  <2>2. CASE Compile
    <3>1. given' = given /\ given \in Configs /\ config = given /\ compile = "no"
      BY <2>2 DEF CompilerIInv, Compile
    <3>2. CASE OccursTwice(config)
      <4>1. compile' = "occurs several times"
        BY <2>2, <3>2 DEF Compile
      <4> QED
        BY <3>1, <4>1 DEF CompilerIInv, CompilerResolves
    <3>3. CASE ~OccursTwice(config)
      <4> DEFINE vars == ResolveAllVars(given.variables)
      <4>1. /\ config' = [given EXCEPT !.variables = vars, !.tasks = InjectedAll(@, vars),
                            !.spouts = InjectedAll(@, vars), !.bolts = InjectedAll(@, vars)]
            /\ compile' = IF UnknownSource(config) THEN "unknown input source" ELSE "done"
        BY <2>2, <3>1, <3>3 DEF Compile, InjectedAll
      <4>2. /\ config'.tasks = InjectedAll(given.tasks, vars)
            /\ config'.spouts = InjectedAll(given.spouts, vars)
            /\ config'.bolts = InjectedAll(given.bolts, vars)
        <5> HIDE DEF vars
        <5>1. given = [variables |-> given.variables, tasks |-> given.tasks,
                       spouts |-> given.spouts, bolts |-> given.bolts]
          BY <3>1, CompilerAssumption
        <5> QED
          BY <4>1, <5>1
      <4>3. PICK d : d = config'
        OBVIOUS
      <4>4. /\ d.tasks = InjectedAll(given.tasks, vars)
            /\ d.spouts = InjectedAll(given.spouts, vars)
            /\ d.bolts = InjectedAll(given.bolts, vars)
        BY <4>2, <4>3
      <4>5. TextsMean(given, d)
        BY <3>1, <4>4, TextsKeepMeaning
      <4>6. compile' = "done" => NamesAreFine(d)
        <5> SUFFICES ASSUME compile' = "done" PROVE NamesAreFine(d)
          OBVIOUS
        <5>1. ~UnknownSource(given) /\ ~OccursTwice(given)
          BY <3>1, <3>3, <4>1
        <5> HIDE DEF vars
        <5> QED
          BY <3>1, <4>4, <5>1, NamesStayFine
      <4>7. CompilerResolves'
        <5>1. CompilerResolves' <=> (compile' = "done" => NamesAreFine(config') /\ TextsMean(given', config'))
          BY DEF CompilerResolves, NamesAreFine, TextsMean, NodesOf
        <5> QED
          BY <3>1, <4>3, <4>5, <4>6, <5>1
      <4>8. compile' # "no"
        BY <4>1
      <4> QED
        BY <3>1, <4>7, <4>8 DEF CompilerIInv
    <3> QED
      BY <3>2, <3>3
  <2> QED
    BY <2>1, <2>2 DEF CompilerNext
<1>3. CompilerIInv => CompilerResolves
  BY DEF CompilerIInv
<1> QED
  BY <1>1, <1>2, <1>3, PTL DEF CompilerSpec

---------------------------------------------------------------------------
(* AccumulatorBolt.  The nodes add comes to are all sets of the tags.      *)

Later(tags, at) == {u \in tags : \A w \in at : w < u}

OneMore(tags, before) ==
  before \cup UNION {{at \cup {t} : t \in Later(tags, at)} : at \in before}

\* They come in rounds, in each of which a tag is added.
LEMMA VisitedSteps ==
  ASSUME NEW tags, IsFiniteSet(tags)
  PROVE  \E g : /\ g[0] = {{}} /\ \A n \in Nat : g[n + 1] = OneMore(tags, g[n])
                /\ Visited(tags) = g[Cardinality(tags)]
<1> DEFINE S == SUBSET SUBSET tags
           step == [p \in Nat \X S |-> OneMore(tags, p[2])]
           Vis(s) == s = [n \in Nat |-> IF n = 0 THEN {{}} ELSE OneMore(tags, s[n - 1])]
           vis == CHOOSE s : Vis(s)
<1>1. step \in [Nat \X S -> S]
  <2> SUFFICES ASSUME NEW n \in Nat, NEW b \in S PROVE OneMore(tags, b) \in S
    OBVIOUS
  <2> QED
    BY DEF OneMore, Later
<1>2. {{}} \in S
  OBVIOUS
<1>3. PICK g \in [Nat -> S] : TakesSteps(g, {{}}, step)
  <2> HIDE DEF S, step
  <2> QED  BY <1>1, <1>2, RecursionExists
<1>4. \A n \in Nat : g[n + 1] = OneMore(tags, g[n])
  BY <1>3 DEF TakesSteps
<1>5. \A n \in Nat : g[n] = IF n = 0 THEN {{}} ELSE OneMore(tags, g[n - 1])
  <2> SUFFICES ASSUME NEW n \in Nat, n # 0 PROVE g[n] = OneMore(tags, g[n - 1])
    BY <1>3 DEF TakesSteps
  <2>1. n - 1 \in Nat /\ (n - 1) + 1 = n
    OBVIOUS
  <2> QED
    BY <1>4, <2>1
<1>6. Vis(g)
  <2> HIDE DEF S
  <2> QED  BY <1>5
<1>7. Vis(vis)
  BY <1>6
<1>8. Visited(tags) = vis[Cardinality(tags)]
  BY DEF Visited, OneMore, Later
<1> HIDE DEF vis
<1>9. vis[0] = {{}}
  BY <1>7
<1>10. ASSUME NEW n \in Nat PROVE vis[n + 1] = OneMore(tags, vis[n])
  <2>1. n + 1 \in Nat /\ n + 1 # 0 /\ (n + 1) - 1 = n
    OBVIOUS
  <2> QED
    BY <1>7, <2>1
<1> QED
  BY <1>8, <1>9, <1>10

\* The greatest of some numbers.
LEMMA GreatestExists ==
  ASSUME NEW S, S \subseteq Int, IsFiniteSet(S), S # {}
  PROVE  \E m \in S : \A x \in S : x <= m
<1> DEFINE R == {p \in S \X S : p[1] > p[2]}
<1>1. Orders(R, S)
  BY DEF Orders
<1>0. \A x, y \in S : <<x, y>> \in R <=> x > y
  OBVIOUS
<1> HIDE DEF R
<1>2. HasFirstIn(R, S)
  BY <1>1, FirstExists, Zenon
<1>3. PICK m \in S : \A y \in S \ {m} : <<m, y>> \in R
  BY <1>2 DEF HasFirstIn
<1>4. \A x \in S \ {m} : m > x
  BY <1>0, <1>3
<1>5. \A x \in S : x \in Int /\ (x = m \/ m > x)
  BY <1>4
<1> QED
  BY <1>5

LEMMA VisitsAllSets ==
  ASSUME NEW tags, IsFiniteSet(tags), tags \subseteq Nat
  PROVE  Visited(tags) = SUBSET tags
<1>1. PICK g : /\ g[0] = {{}} /\ \A n \in Nat : g[n + 1] = OneMore(tags, g[n])
               /\ Visited(tags) = g[Cardinality(tags)]
  BY VisitedSteps
<1> DEFINE N == {n \in Nat : /\ g[n] \subseteq SUBSET tags
                             /\ \A p \in SUBSET tags : Cardinality(p) <= n => p \in g[n]}
<1>2. 0 \in N
  <2> SUFFICES ASSUME NEW p \in SUBSET tags, Cardinality(p) <= 0 PROVE p = {}
    BY <1>1
  <2>1. IsFiniteSet(p)
    BY FS_Subset
  <2> QED
    BY <2>1, FS_EmptySet, FS_CardinalityType
<1>3. ASSUME NEW n \in Nat, n \in N PROVE n + 1 \in N
  <2>1. g[n + 1] = OneMore(tags, g[n])
    BY <1>1
  <2>2. g[n + 1] \subseteq SUBSET tags
    BY <1>3, <2>1 DEF OneMore, Later
  <2>3. ASSUME NEW p \in SUBSET tags, Cardinality(p) <= n + 1 PROVE p \in g[n + 1]
    <3>1. IsFiniteSet(p)
      BY FS_Subset
    <3>2. CASE p = {}
      <4>1. Cardinality(p) <= n
        BY <3>2, FS_EmptySet
      <4> QED
        BY <1>3, <2>1, <4>1 DEF OneMore
    <3>3. CASE p # {}
      <4>1. p \subseteq Int
        OBVIOUS
      <4>2. PICK m \in p : \A x \in p : x <= m
        BY <3>1, <3>3, <4>1, GreatestExists
      <4> DEFINE at == p \ {m}
      <4>3. IsFiniteSet(at) /\ Cardinality(at) = Cardinality(p) - 1
        BY <3>1, FS_RemoveElement, Zenon
      <4>4. Cardinality(at) <= n
        BY <2>3, <3>1, <4>3, FS_CardinalityType
      <4>5. at \in g[n]
        BY <1>3, <4>4
      <4>6. m \in Later(tags, at)
        BY <4>2 DEF Later
      <4>7. at \cup {m} = p
        OBVIOUS
      <4> HIDE DEF at
      <4> QED
        BY <2>1, <4>5, <4>6, <4>7 DEF OneMore
    <3> QED
      BY <3>2, <3>3
  <2> QED
    BY <2>2, <2>3
<1>4. Nat \subseteq N
  <2> HIDE DEF N
  <2> QED  BY <1>2, <1>3, InductionSet
<1>5. Cardinality(tags) \in Nat
  BY FS_CardinalityType
<1>6. ASSUME NEW p \in SUBSET tags PROVE Cardinality(p) <= Cardinality(tags)
  BY FS_Subset
<1> QED
  BY <1>1, <1>4, <1>5, <1>6

\* Messages that can be counted for a metric: they have it, and different ids.
Countable(f, S) ==
  /\ \A c \in S : /\ c.in.id \in 0..(MaxMessages - 1) /\ c.in.msg \in Messages
                  /\ f \in DOMAIN c.in.msg.values
  /\ \A c, d \in S : c.in.id = d.in.id => c = d

MetricIn(f, c) == c.in.msg.values[f]

\* What the message with an id adds to the total.
Term(f, S, n) ==
  IF \E c \in S : c.in.id = n THEN MetricIn(f, CHOOSE c \in S : c.in.id = n) ELSE 0

LEMMA CountableFacts ==
  ASSUME NEW f, NEW S, Countable(f, S)
  PROVE  /\ \A c \in S : MetricIn(f, c) \in Int /\ MetricIn(f, c) <= MAX_VALUE
         /\ \A n : Term(f, S, n) \in Int
         /\ \A c \in S : Term(f, S, c.in.id) = MetricIn(f, c)
<1>1. \A c \in S : MetricIn(f, c) \in Int /\ MetricIn(f, c) <= MAX_VALUE
  BY AccumulatorAssumption DEF Countable, MetricIn
<1>2. ASSUME NEW n PROVE Term(f, S, n) \in Int
  <2>1. CASE \E c \in S : c.in.id = n
    <3>1. (CHOOSE c \in S : c.in.id = n) \in S
      BY <2>1
    <3> QED
      BY <1>1, <2>1, <3>1 DEF Term
  <2>2. CASE ~\E c \in S : c.in.id = n
    BY <2>2 DEF Term
  <2> QED
    BY <2>1, <2>2
<1>3. ASSUME NEW c \in S PROVE Term(f, S, c.in.id) = MetricIn(f, c)
  <2> DEFINE d == CHOOSE x \in S : x.in.id = c.in.id
  <2>1. d \in S /\ d.in.id = c.in.id
    OBVIOUS
  <2>2. d = c
    BY <2>1 DEF Countable
  <2> QED
    BY <2>2 DEF Term
<1> QED
  BY <1>1, <1>2, <1>3

LEMMA TotalSteps ==
  ASSUME NEW f, NEW S, Countable(f, S)
  PROVE  \E g : /\ g[0] = 0 /\ \A n \in Nat : g[n] \in Int /\ g[n + 1] = g[n] + Term(f, S, n)
                /\ Total(f, S) = g[MaxMessages]
<1> DEFINE step == [p \in Nat \X Int |-> p[2] + Term(f, S, p[1])]
           Tot(s) == s = [n \in Nat |-> IF n = 0 THEN 0 ELSE s[n - 1] + Term(f, S, n - 1)]
           tot == CHOOSE s : Tot(s)
<1>1. step \in [Nat \X Int -> Int]
  BY CountableFacts
<1>2. PICK g \in [Nat -> Int] : TakesSteps(g, 0, step)
  <2>1. 0 \in Int
    OBVIOUS
  <2> HIDE DEF step
  <2> QED  BY <1>1, <2>1, RecursionExists
<1>3. \A n \in Nat : g[n + 1] = g[n] + Term(f, S, n)
  BY <1>2 DEF TakesSteps
<1>4. \A n \in Nat : g[n] = IF n = 0 THEN 0 ELSE g[n - 1] + Term(f, S, n - 1)
  <2> SUFFICES ASSUME NEW n \in Nat, n # 0 PROVE g[n] = g[n - 1] + Term(f, S, n - 1)
    BY <1>2 DEF TakesSteps
  <2> DEFINE k == n - 1
  <2>1. k \in Nat /\ k + 1 = n
    OBVIOUS
  <2> HIDE DEF k
  <2>2. g[n] = g[k] + Term(f, S, k)
    BY <1>3, <2>1
  <2> QED
    BY <2>2 DEF k
<1>5. Tot(g)
  BY <1>4
<1>6. Tot(tot)
  BY <1>5
<1>7. Total(f, S) = tot[MaxMessages]
  BY DEF Total, Term, MetricIn
<1> HIDE DEF tot
<1>8. tot[0] = 0
  BY <1>6
<1>9. ASSUME NEW n \in Nat PROVE tot[n + 1] = tot[n] + Term(f, S, n)
  <2> DEFINE k == n + 1
  <2>1. k \in Nat /\ k # 0 /\ k - 1 = n
    OBVIOUS
  <2> HIDE DEF k
  <2>2. tot[k] = tot[k - 1] + Term(f, S, k - 1)
    BY <1>6, <2>1
  <2> QED
    BY <2>1, <2>2 DEF k
<1> DEFINE N == {n \in Nat : tot[n] \in Int}
<1>10. 0 \in N
  BY <1>8
<1>11. ASSUME NEW n \in Nat, n \in N PROVE n + 1 \in N
  BY <1>9, <1>11, CountableFacts
<1>12. Nat \subseteq N
  <2> HIDE DEF N
  <2> QED  BY <1>10, <1>11, InductionSet
<1> QED
  BY <1>7, <1>8, <1>9, <1>12

LEMMA TotalOfNone ==
  ASSUME NEW f
  PROVE  Countable(f, {}) /\ Total(f, {}) = 0
<1>1. Countable(f, {})
  BY DEF Countable
<1>2. PICK g : /\ g[0] = 0 /\ \A n \in Nat : g[n] \in Int /\ g[n + 1] = g[n] + Term(f, {}, n)
               /\ Total(f, {}) = g[MaxMessages]
  BY <1>1, TotalSteps
<1>3. \A n : Term(f, {}, n) = 0
  BY DEF Term
<1> DEFINE N == {n \in Nat : g[n] = 0}
<1>4. 0 \in N
  BY <1>2
<1>5. ASSUME NEW n \in Nat, n \in N PROVE n + 1 \in N
  BY <1>2, <1>3, <1>5
<1>6. Nat \subseteq N
  <2> HIDE DEF N
  <2> QED  BY <1>4, <1>5, InductionSet
<1> QED
  BY <1>1, <1>2, <1>6, AccumulatorAssumption

LEMMA TotalWithOne ==
  ASSUME NEW f, NEW S, NEW c, c \notin S, Countable(f, S \cup {c})
  PROVE  /\ Countable(f, S) /\ Total(f, S) \in Int
         /\ Total(f, S \cup {c}) = Total(f, S) + MetricIn(f, c)
<1> DEFINE U == S \cup {c}  i == c.in.id  v == MetricIn(f, c)
<1>1. Countable(f, S) /\ Countable(f, U)
  BY DEF Countable
<1>2. i \in 0..(MaxMessages - 1) /\ i \in Nat /\ i < MaxMessages /\ v \in Int
  <2>1. c \in U
    OBVIOUS
  <2>2. i \in 0..(MaxMessages - 1)
    BY <1>1, <2>1 DEF Countable
  <2>3. v \in Int
    BY <1>1, <2>1, CountableFacts
  <2> QED
    BY <2>2, <2>3, AccumulatorAssumption
<1>3. Term(f, U, i) = v /\ Term(f, S, i) = 0
  <2>1. Term(f, U, i) = v
    BY <1>1, CountableFacts
  <2>2. ~\E d \in S : d.in.id = i
    BY <1>1 DEF Countable
  <2> QED
    BY <2>1, <2>2 DEF Term
<1>4. ASSUME NEW n, n # i PROVE Term(f, U, n) = Term(f, S, n)
  <2>1. CASE \E d \in S : d.in.id = n
    <3>1. PICK d \in S : d.in.id = n
      BY <2>1
    <3>2. d \in U
      OBVIOUS
    <3>3. Term(f, U, d.in.id) = MetricIn(f, d) /\ Term(f, S, d.in.id) = MetricIn(f, d)
      BY <1>1, <3>2, CountableFacts
    <3> QED
      BY <3>1, <3>3
  <2>2. CASE ~\E d \in S : d.in.id = n
    <3>1. ~\E d \in U : d.in.id = n
      BY <1>4, <2>2
    <3> QED
      BY <2>2, <3>1 DEF Term
  <2> QED
    BY <2>1, <2>2
<1> HIDE DEF U
<1>5. PICK g : /\ g[0] = 0 /\ \A n \in Nat : g[n] \in Int /\ g[n + 1] = g[n] + Term(f, S, n)
               /\ Total(f, S) = g[MaxMessages]
  BY <1>1, TotalSteps
<1>6. PICK h : /\ h[0] = 0 /\ \A n \in Nat : h[n] \in Int /\ h[n + 1] = h[n] + Term(f, U, n)
               /\ Total(f, U) = h[MaxMessages]
  BY <1>1, TotalSteps
<1> HIDE DEF i, v
<1> DEFINE N == {n \in Nat : h[n] = g[n] + (IF i < n THEN v ELSE 0)}
<1>7. 0 \in N
  BY <1>2, <1>5, <1>6
<1>8. ASSUME NEW n \in Nat, n \in N PROVE n + 1 \in N
  <2>1. h[n] = g[n] + (IF i < n THEN v ELSE 0) /\ h[n] \in Int /\ g[n] \in Int
    BY <1>5, <1>6, <1>8
  <2>2. h[n + 1] = h[n] + Term(f, U, n) /\ g[n + 1] = g[n] + Term(f, S, n)
    BY <1>5, <1>6
  <2>3. Term(f, U, n) \in Int /\ Term(f, S, n) \in Int
    BY <1>1, CountableFacts
  <2>4. CASE n = i
    BY <1>2, <1>3, <2>1, <2>2, <2>4
  <2>5. CASE n # i
    <3>1. Term(f, U, n) = Term(f, S, n)
      BY <1>4, <2>5
    <3>2. i < n + 1 <=> i < n
      BY <1>2, <2>5
    <3>3. h[n + 1] = g[n + 1] + (IF i < n THEN v ELSE 0)
      BY <1>2, <2>1, <2>2, <2>3, <3>1
    <3> QED
      BY <3>2, <3>3
  <2> QED
    BY <2>4, <2>5
<1>9. Nat \subseteq N
  <2> HIDE DEF N
  <2> QED  BY <1>7, <1>8, InductionSet
<1>10. h[MaxMessages] = g[MaxMessages] + v
  BY <1>2, <1>9, AccumulatorAssumption
<1>11. g[MaxMessages] \in Int
  BY <1>5, AccumulatorAssumption
<1> QED
  BY <1>1, <1>5, <1>6, <1>10, <1>11 DEF U, v

Recs == [count : Nat, sum : Int, min : Int, max : Int]

\* A Rec to which the values of some messages were added.
IsRecOf(rec, f, S) ==
  /\ rec \in Recs /\ IsFiniteSet(S) /\ Countable(f, S)
  /\ rec.count = Cardinality(S) /\ rec.sum = Total(f, S)
  /\ \A c \in S : rec.min <= MetricIn(f, c) /\ MetricIn(f, c) <= rec.max
  /\ S # {} => \E c \in S : MetricIn(f, c) = rec.min
  /\ S = {} => rec = NewRec
  /\ rec.max >= MIN_VALUE /\ (rec.max = MIN_VALUE \/ \E c \in S : MetricIn(f, c) = rec.max)

LEMMA NewRecIsOfNone ==
  ASSUME NEW f
  PROVE  IsRecOf(NewRec, f, {})
<1>1. Countable(f, {}) /\ Total(f, {}) = 0
  BY TotalOfNone
<1>2. IsFiniteSet({}) /\ Cardinality({}) = 0
  BY FS_EmptySet
<1> QED
  BY <1>1, <1>2 DEF IsRecOf, NewRec, Recs, MIN_VALUE, MAX_VALUE

LEMMA RecAddAdds ==
  ASSUME NEW f, NEW S, NEW c, c \notin S, NEW rec, IsRecOf(rec, f, S),
         Countable(f, S \cup {c})
  PROVE  IsRecOf(RecAdd(rec, MetricIn(f, c)), f, S \cup {c})
<1> DEFINE U == S \cup {c}  v == MetricIn(f, c)  new == RecAdd(rec, v)
<1>1. /\ rec \in Recs /\ IsFiniteSet(S) /\ rec.count = Cardinality(S) /\ rec.sum = Total(f, S)
      /\ \A d \in S : rec.min <= MetricIn(f, d) /\ MetricIn(f, d) <= rec.max
      /\ S = {} => rec = NewRec
      /\ rec.max >= MIN_VALUE
  BY DEF IsRecOf
<1>2. Total(f, U) = Total(f, S) + v /\ Total(f, S) \in Int
  BY TotalWithOne
<1>3. v \in Int /\ v <= MAX_VALUE
  <2>1. c \in U
    OBVIOUS
  <2> QED
    BY <2>1, CountableFacts
<1>4. IsFiniteSet(U) /\ Cardinality(U) = Cardinality(S) + 1
  BY <1>1, FS_AddElement, Zenon
<1>5. \A d \in S : MetricIn(f, d) \in Int
  <2>1. S \subseteq U
    OBVIOUS
  <2> QED
    BY <2>1, CountableFacts
<1>6. /\ rec.count \in Nat /\ rec.sum \in Int /\ rec.min \in Int /\ rec.max \in Int
  BY <1>1 DEF Recs
<1>7. /\ new.count = rec.count + 1 /\ new.sum = rec.sum + v
      /\ new.min = (IF rec.min > v THEN v ELSE rec.min)
      /\ new.max = (IF rec.max < v THEN v ELSE rec.max)
      /\ new = [count |-> new.count, sum |-> new.sum, min |-> new.min, max |-> new.max]
  BY DEF RecAdd
<1>8. c \in U /\ MetricIn(f, c) = v /\ S \subseteq U /\ \A d \in U : d \in S \/ d = c
  OBVIOUS
<1> HIDE DEF U, v, new
<1>9. new.count \in Nat /\ new.sum \in Int /\ new.min \in Int /\ new.max \in Int
  BY <1>3, <1>6, <1>7
<1>10. new \in Recs
  BY <1>7, <1>9 DEF Recs
<1>11. \A d \in U : new.min <= MetricIn(f, d) /\ MetricIn(f, d) <= new.max
  <2>1. \A d \in S : new.min <= MetricIn(f, d) /\ MetricIn(f, d) <= new.max
    BY <1>1, <1>3, <1>5, <1>6, <1>7
  <2>2. new.min <= v /\ v <= new.max
    BY <1>3, <1>6, <1>7
  <2> QED
    BY <1>8, <2>1, <2>2
<1>12. \E d \in U : MetricIn(f, d) = new.min
  <2>1. CASE rec.min > v
    BY <1>7, <1>8, <2>1
  <2>2. CASE ~(rec.min > v) /\ S = {}
    <3>1. rec.min = MAX_VALUE
      BY <1>1, <2>2 DEF NewRec
    <3>2. v = rec.min
      BY <1>3, <1>6, <2>2, <3>1 DEF MAX_VALUE
    <3> QED
      BY <1>7, <1>8, <2>2, <3>2
  <2>3. CASE ~(rec.min > v) /\ S # {}
    <3>1. \E d \in S : MetricIn(f, d) = rec.min
      BY <2>3 DEF IsRecOf
    <3> QED
      BY <1>7, <1>8, <2>3, <3>1
  <2> QED
    BY <2>1, <2>2, <2>3
<1>13. new.max >= MIN_VALUE /\ (new.max = MIN_VALUE \/ \E d \in U : MetricIn(f, d) = new.max)
  <2>1. new.max >= MIN_VALUE
    BY <1>1, <1>3, <1>6, <1>7 DEF MIN_VALUE
  <2>2. CASE rec.max < v
    BY <1>7, <1>8, <2>1, <2>2
  <2>3. CASE ~(rec.max < v)
    <3>1. rec.max = MIN_VALUE \/ \E d \in S : MetricIn(f, d) = rec.max
      BY DEF IsRecOf
    <3> QED
      BY <1>7, <1>8, <2>1, <2>3, <3>1
  <2> QED
    BY <2>2, <2>3
<1>14. Countable(f, U) /\ U # {}
  BY <1>8 DEF U
<1>15. new.count = Cardinality(U) /\ new.sum = Total(f, U)
  BY <1>1, <1>2, <1>4, <1>7
<1>16. IsRecOf(new, f, U)
  BY <1>4, <1>10, <1>11, <1>12, <1>13, <1>14, <1>15, Zenon DEF IsRecOf
<1> QED
  BY <1>16 DEF new, U, v

\* What the property asks of the statistics of some messages.
StatsAre(stats, f, S) ==
  IF S = {} THEN stats = RecReport(NewRec)
  ELSE LET ref == Reference(f, S)
       IN  [stats EXCEPT !.max = ref.max] = ref /\ (ref.max > 0 => stats = ref)

LEMMA RecReportsStats ==
  ASSUME NEW f, NEW S, NEW rec, IsRecOf(rec, f, S)
  PROVE  StatsAre(RecReport(rec), f, S)
<1>1. CASE S = {}
  BY <1>1 DEF IsRecOf, StatsAre
<1>2. CASE S # {}
  <2> DEFINE vals == {c.in.msg.values[f] : c \in S}
             least == CHOOSE v \in vals : \A w \in vals : v <= w
             most == CHOOSE v \in vals : \A w \in vals : v >= w
             ref == Reference(f, S)
  <2>0. ref = [count |-> Cardinality(S), sum |-> Total(f, S), min |-> least, max |-> most]
    BY Zenon DEF Reference
  <2>1. /\ rec \in Recs /\ IsFiniteSet(S) /\ Countable(f, S)
        /\ rec.count = Cardinality(S) /\ rec.sum = Total(f, S)
        /\ \A c \in S : rec.min <= MetricIn(f, c) /\ MetricIn(f, c) <= rec.max
        /\ \E c \in S : MetricIn(f, c) = rec.min
        /\ rec.max >= MIN_VALUE /\ (rec.max = MIN_VALUE \/ \E c \in S : MetricIn(f, c) = rec.max)
    BY <1>2 DEF IsRecOf
  <2>2. vals \subseteq Int /\ vals # {}
    BY <1>2, <2>1, CountableFacts DEF MetricIn
  <2>3. IsFiniteSet(vals)
    <3> DEFINE value == [c \in S |-> c.in.msg.values[f]]
    <3>1. value \in Surjection(S, vals)
      BY DEF Surjection
    <3> QED
      BY <2>1, <3>1, FS_Surjection
  <2>4. /\ ref.count = Cardinality(S) /\ ref.sum = Total(f, S)
        /\ ref.min = CHOOSE v \in vals : \A w \in vals : v <= w
        /\ ref.max = CHOOSE v \in vals : \A w \in vals : v >= w
        /\ ref = [count |-> ref.count, sum |-> ref.sum, min |-> ref.min, max |-> ref.max]
    <3> HIDE DEF vals, least, most, ref
    <3>1. /\ ref.count = Cardinality(S) /\ ref.sum = Total(f, S)
          /\ ref.min = least /\ ref.max = most
          /\ ref = [count |-> ref.count, sum |-> ref.sum, min |-> ref.min, max |-> ref.max]
      BY <2>0
    <3> QED
      BY <3>1, Zenon DEF least, most
  <2>5. rec.min \in vals /\ \A w \in vals : rec.min <= w
    BY <2>1 DEF MetricIn
  <2>6. rec.max = MIN_VALUE \/ rec.max \in vals
    BY <2>1 DEF MetricIn
  <2>7. \A w \in vals : w <= rec.max
    BY <2>1 DEF MetricIn
  <2>8. /\ rec.count \in Nat /\ rec.sum \in Int /\ rec.min \in Int /\ rec.max \in Int
        /\ rec = [count |-> rec.count, sum |-> rec.sum, min |-> rec.min, max |-> rec.max]
    BY <2>1 DEF Recs
  <2> HIDE DEF vals, ref
  <2>9. ref.min = rec.min
    <3>1. ref.min \in vals /\ \A w \in vals : ref.min <= w
      BY <2>4, <2>5
    <3>2. ref.min <= rec.min /\ rec.min <= ref.min /\ ref.min \in Int
      BY <2>2, <2>5, <3>1
    <3> QED
      BY <2>8, <3>2
  <2>10. ref.max \in vals /\ \A w \in vals : w <= ref.max
    <3>1. PICK m \in vals : \A x \in vals : x <= m
      BY <2>2, <2>3, GreatestExists
    <3>2. \A w \in vals : m >= w
      BY <2>2, <3>1
    <3>3. ref.max \in vals /\ \A w \in vals : ref.max >= w
      BY <2>4, <3>2
    <3> QED
      BY <2>2, <3>3
  <2>11. ref.max \in Int
    BY <2>2, <2>10
  <2>12. ref.max > 0 => rec.max = ref.max
    <3> SUFFICES ASSUME ref.max > 0 PROVE rec.max = ref.max
      OBVIOUS
    <3>1. ref.max <= rec.max
      BY <2>7, <2>10
    <3>2. CASE rec.max \in vals
      BY <2>8, <2>10, <2>11, <3>1, <3>2
    <3>3. CASE rec.max = MIN_VALUE
      BY <2>11, <3>1, <3>3 DEF MIN_VALUE
    <3> QED
      BY <2>6, <3>2, <3>3
  <2>13. rec.count > 0
    <3>1. Cardinality(S) # 0
      BY <1>2, <2>1, FS_EmptySet
    <3> QED
      BY <2>1, <2>8, <3>1
  <2>14. RecReport(rec) = rec
    BY <2>13 DEF RecReport
  <2>15. rec.count = ref.count /\ rec.sum = ref.sum
    BY <2>1, <2>4
  <2>16. [rec EXCEPT !.max = ref.max] = ref
    BY <2>4, <2>8, <2>9, <2>15
  <2>17. ref.max > 0 => rec = ref
    BY <2>4, <2>8, <2>9, <2>12, <2>15
  <2> QED
    BY <1>2, <2>14, <2>16, <2>17 DEF StatsAre, ref
<1> QED
  BY <1>1, <1>2

\* Messages counted: they have different ids.
Takings(cs) ==
  /\ IsFiniteSet(cs)
  /\ \A c \in cs : c.in.id \in 0..(MaxMessages - 1) /\ c.in.msg \in Messages
  /\ \A c, d \in cs : c.in.id = d.in.id => c = d

\* Those of a period that have a metric, these partition tags and these tags
\* among others.
Concerns(c, period, f, q, p) ==
  /\ c.into = period /\ f \in DOMAIN c.in.msg.values
  /\ c.in.msg.ptags = q /\ p \subseteq c.in.msg.tags

CountedIn(cs, period, f, q, p) == {c \in cs : Concerns(c, period, f, q, p)}

HasNodes(accs, f, q, tags) ==
  f \in DOMAIN accs /\ q \in DOMAIN accs[f] /\ SUBSET tags \subseteq DOMAIN accs[f][q]

\* Every Rec has the values of the messages it is about, and every message of the
\* period has its Recs.
Counts(accs, cs, period) ==
  /\ \A f \in DOMAIN accs : \A q \in DOMAIN accs[f] : \A p \in DOMAIN accs[f][q] :
       IsRecOf(accs[f][q][p], f, CountedIn(cs, period, f, q, p))
  /\ \A c \in cs : c.into = period =>
       \A f \in DOMAIN c.in.msg.values : HasNodes(accs, f, c.in.msg.ptags, c.in.msg.tags)

NodeIn(accs, f, q) ==
  IF f \in DOMAIN accs /\ q \in DOMAIN accs[f] THEN accs[f][q] ELSE NewNode

DataIn(node, p) == IF p \in DOMAIN node THEN node[p] ELSE NewRec

\* The accumulators after Count.
AfterCount(accs, h) ==
  [f \in DOMAIN accs \cup DOMAIN h.msg.values |->
     IF f \in DOMAIN h.msg.values
     THEN PartitionAdd(IF f \in DOMAIN accs THEN accs[f] ELSE NewPartition,
                       h.msg.values[f], h.msg.ptags, h.msg.tags)
     ELSE IF f \in DOMAIN accs THEN accs[f] ELSE NewPartition]

LEMMA CountedInIsCountable ==
  ASSUME NEW cs, Takings(cs), NEW period, NEW f, NEW q, NEW p
  PROVE  Countable(f, CountedIn(cs, period, f, q, p))
BY DEF Takings, CountedIn, Concerns, Countable

\* Whether there is a Rec or will be a new one, it has the values of its messages.
LEMMA DataInCounts ==
  ASSUME NEW accs, NEW cs, NEW period, Counts(accs, cs, period), NEW f, NEW q, NEW p
  PROVE  IsRecOf(DataIn(NodeIn(accs, f, q), p), f, CountedIn(cs, period, f, q, p))
<1> DEFINE there == f \in DOMAIN accs /\ q \in DOMAIN accs[f] /\ p \in DOMAIN accs[f][q]
<1>1. CASE there
  <2>1. DataIn(NodeIn(accs, f, q), p) = accs[f][q][p]
    BY <1>1 DEF DataIn, NodeIn
  <2> QED
    BY <1>1, <2>1 DEF Counts
<1>2. CASE ~there
  <2>1. DataIn(NodeIn(accs, f, q), p) = NewRec
    <3>1. CASE f \in DOMAIN accs /\ q \in DOMAIN accs[f]
      BY <1>2, <3>1 DEF DataIn, NodeIn
    <3>2. CASE ~(f \in DOMAIN accs /\ q \in DOMAIN accs[f])
      <4>1. NodeIn(accs, f, q) = NewNode
        BY <3>2 DEF NodeIn
      <4> QED
        BY <4>1 DEF DataIn, NewNode
    <3> QED
      BY <3>1, <3>2
  <2>2. CountedIn(cs, period, f, q, p) = {}
    <3> SUFFICES ASSUME NEW c \in cs, Concerns(c, period, f, q, p) PROVE FALSE
      BY DEF CountedIn
    <3>1. HasNodes(accs, f, c.in.msg.ptags, c.in.msg.tags)
      BY DEF Concerns, Counts
    <3> QED
      BY <1>2, <3>1 DEF HasNodes, Concerns
  <2> QED
    BY <2>1, <2>2, NewRecIsOfNone
<1> QED
  BY <1>1, <1>2

\* Which Recs change, and how.
LEMMA AfterCountAdds ==
  ASSUME NEW accs, NEW h, h.msg \in Messages,
         NEW f \in DOMAIN AfterCount(accs, h), NEW q \in DOMAIN AfterCount(accs, h)[f],
         NEW p \in DOMAIN AfterCount(accs, h)[f][q]
  PROVE  AfterCount(accs, h)[f][q][p] =
           IF f \in DOMAIN h.msg.values /\ q = h.msg.ptags /\ p \subseteq h.msg.tags
           THEN RecAdd(DataIn(NodeIn(accs, f, q), p), h.msg.values[f])
           ELSE DataIn(NodeIn(accs, f, q), p)
<1> DEFINE values == h.msg.values  ptags == h.msg.ptags  tags == h.msg.tags
           of == IF f \in DOMAIN accs THEN accs[f] ELSE NewPartition
           after == AfterCount(accs, h)
<1>1. f \in DOMAIN accs \/ f \in DOMAIN values
  BY DEF AfterCount
<1>2. after[f] = IF f \in DOMAIN values THEN PartitionAdd(of, values[f], ptags, tags) ELSE of
  BY DEF AfterCount
<1>3. q \in DOMAIN after[f] /\ p \in DOMAIN after[f][q]
  OBVIOUS
<1>4. Visited(tags) = SUBSET tags
  <2>1. IsFiniteSet(tags) /\ tags \subseteq Nat
    BY AccumulatorAssumption
  <2> QED
    BY <2>1, VisitsAllSets
<1>5. \A r : r \in DOMAIN of => f \in DOMAIN accs /\ r \in DOMAIN accs[f] /\ of[r] = NodeIn(accs, f, r)
  BY DEF NewPartition, NodeIn
<1>6. \A r : r \notin DOMAIN of => NodeIn(accs, f, r) = NewNode
  BY DEF NodeIn
<1> HIDE DEF of, after
<1>7. CASE f \notin DOMAIN values
  <2>1. after[f] = of /\ of[q] = NodeIn(accs, f, q)
    BY <1>2, <1>3, <1>5, <1>7
  <2>2. after[f][q][p] = DataIn(NodeIn(accs, f, q), p)
    BY <1>3, <2>1 DEF DataIn
  <2> QED
    BY <1>7, <2>2 DEF after
<1>8. CASE f \in DOMAIN values
  <2>1. after[f] = PartitionAdd(of, values[f], ptags, tags)
    BY <1>2, <1>8
  <2>2. CASE q # ptags
    <3>1. q \in DOMAIN of /\ after[f][q] = of[q]
      BY <1>3, <2>1, <2>2 DEF PartitionAdd
    <3>2. after[f][q][p] = DataIn(NodeIn(accs, f, q), p)
      BY <1>3, <1>5, <3>1 DEF DataIn
    <3> QED
      BY <2>2, <3>2 DEF after
  <2>3. CASE q = ptags
    <3> DEFINE node == NodeIn(accs, f, q)
    <3>1. after[f][q] = NodeAdd(IF q \in DOMAIN of THEN of[q] ELSE NewNode, values[f], tags)
      BY <1>3, <2>1, <2>3 DEF PartitionAdd
    <3>2. after[f][q] = NodeAdd(node, values[f], tags)
      BY <1>5, <1>6, <3>1
    <3> HIDE DEF node
    <3>3. after[f][q][p] = IF p \subseteq tags THEN RecAdd(DataIn(node, p), values[f])
                           ELSE DataIn(node, p)
      BY <1>3, <1>4, <3>2 DEF NodeAdd, DataIn
    <3> QED
      BY <1>8, <2>3, <3>3 DEF after, node
  <2> QED
    BY <2>2, <2>3
<1> QED
  BY <1>7, <1>8

\* Count adds Recs and takes none away.
LEMMA AfterCountKeeps ==
  ASSUME NEW accs, NEW h, h.msg \in Messages
  PROVE  /\ \A f, q, tags : HasNodes(accs, f, q, tags) => HasNodes(AfterCount(accs, h), f, q, tags)
         /\ \A f \in DOMAIN h.msg.values : HasNodes(AfterCount(accs, h), f, h.msg.ptags, h.msg.tags)
         /\ \A f \in DOMAIN AfterCount(accs, h) : \A q \in DOMAIN AfterCount(accs, h)[f] :
              q = h.msg.ptags \/ (f \in DOMAIN accs /\ q \in DOMAIN accs[f])
<1> DEFINE values == h.msg.values  ptags == h.msg.ptags  tags == h.msg.tags
           of(f) == IF f \in DOMAIN accs THEN accs[f] ELSE NewPartition
           after == AfterCount(accs, h)
<1>1. Visited(tags) = SUBSET tags
  <2>1. IsFiniteSet(tags) /\ tags \subseteq Nat
    BY AccumulatorAssumption
  <2> QED
    BY <2>1, VisitsAllSets
<1>2. DOMAIN after = DOMAIN accs \cup DOMAIN values
  BY DEF AfterCount
<1>3. \A f \in DOMAIN values : after[f] = PartitionAdd(of(f), values[f], ptags, tags)
  BY DEF AfterCount
<1>4. \A f \in DOMAIN accs : f \notin DOMAIN values => after[f] = accs[f]
  BY DEF AfterCount
<1>5. \A f : \A q \in DOMAIN of(f) : f \in DOMAIN accs /\ q \in DOMAIN accs[f]
  BY DEF NewPartition
<1>6. \A f \in DOMAIN accs : of(f) = accs[f]
  OBVIOUS
<1> HIDE DEF after, of
<1> DEFINE node(f) == IF ptags \in DOMAIN of(f) THEN of(f)[ptags] ELSE NewNode
<1>7. ASSUME NEW f \in DOMAIN values
      PROVE  /\ DOMAIN after[f] = DOMAIN of(f) \cup {ptags}
             /\ \A q \in DOMAIN of(f) : q # ptags => after[f][q] = of(f)[q]
             /\ after[f][ptags] = NodeAdd(node(f), values[f], tags)
  <2>1. after[f] = [q \in DOMAIN of(f) \cup {ptags} |->
                      IF q = ptags
                      THEN NodeAdd(IF q \in DOMAIN of(f) THEN of(f)[q] ELSE NewNode, values[f], tags)
                      ELSE of(f)[q]]
    BY <1>3, Zenon DEF PartitionAdd
  <2> QED
    BY <2>1
<1>8. \A n, val : DOMAIN NodeAdd(n, val, tags) = DOMAIN n \cup SUBSET tags
  BY <1>1 DEF NodeAdd
<1>9. ASSUME NEW f \in DOMAIN values PROVE HasNodes(after, f, ptags, tags)
  <2>1. f \in DOMAIN after /\ ptags \in DOMAIN after[f]
    BY <1>2, <1>7
  <2>2. DOMAIN after[f][ptags] = DOMAIN node(f) \cup SUBSET tags
    <3> HIDE DEF node
    <3>1. after[f][ptags] = NodeAdd(node(f), values[f], tags)
      BY <1>7
    <3> QED
      BY <1>8, <3>1
  <2> QED
    BY <2>1, <2>2 DEF HasNodes
<1>10. ASSUME NEW f, NEW q, NEW t, HasNodes(accs, f, q, t)
       PROVE  HasNodes(after, f, q, t)
  <2>1. f \in DOMAIN accs /\ q \in DOMAIN accs[f] /\ SUBSET t \subseteq DOMAIN accs[f][q]
    BY <1>10 DEF HasNodes
  <2>2. CASE f \notin DOMAIN values
    BY <1>2, <1>4, <2>1, <2>2 DEF HasNodes
  <2>3. CASE f \in DOMAIN values /\ q # ptags
    BY <1>2, <1>6, <1>7, <2>1, <2>3 DEF HasNodes
  <2>4. CASE f \in DOMAIN values /\ q = ptags
    <3>1. after[f][q] = NodeAdd(accs[f][q], values[f], tags)
      BY <1>6, <1>7, <2>1, <2>4
    <3>2. DOMAIN after[f][q] = DOMAIN accs[f][q] \cup SUBSET tags
      BY <1>8, <3>1
    <3> QED
      BY <1>2, <1>7, <2>1, <2>4, <3>2 DEF HasNodes
  <2> QED
    BY <2>2, <2>3, <2>4
<1>11. ASSUME NEW f \in DOMAIN after, NEW q \in DOMAIN after[f]
       PROVE  q = ptags \/ (f \in DOMAIN accs /\ q \in DOMAIN accs[f])
  BY <1>2, <1>4, <1>5, <1>7
<1> QED
  BY <1>9, <1>10, <1>11 DEF after

\* Count keeps what the Recs are.
LEMMA CountCounts ==
  ASSUME NEW accs, NEW cs, NEW period, Counts(accs, cs, period), NEW h, h.msg \in Messages,
         NEW c0, c0 = [in |-> h, into |-> period], c0 \notin cs, Takings(cs \cup {c0})
  PROVE  Counts(AfterCount(accs, h), cs \cup {c0}, period)
<1> DEFINE after == AfterCount(accs, h)  with == cs \cup {c0}
           Added(f, q, p) == f \in DOMAIN h.msg.values /\ q = h.msg.ptags /\ p \subseteq h.msg.tags
<1>1. c0.in = h /\ c0.into = period
  OBVIOUS
<1>2. \A f, q, p : Concerns(c0, period, f, q, p) <=> Added(f, q, p)
  BY <1>1 DEF Concerns
<1>3. \A f, q, p : Added(f, q, p) =>
        CountedIn(with, period, f, q, p) = CountedIn(cs, period, f, q, p) \cup {c0}
  BY <1>2 DEF CountedIn
<1>4. \A f, q, p : ~Added(f, q, p) => CountedIn(with, period, f, q, p) = CountedIn(cs, period, f, q, p)
  BY <1>2 DEF CountedIn
<1>5. ASSUME NEW f \in DOMAIN after, NEW q \in DOMAIN after[f], NEW p \in DOMAIN after[f][q]
      PROVE  IsRecOf(after[f][q][p], f, CountedIn(with, period, f, q, p))
  <2> DEFINE data == DataIn(NodeIn(accs, f, q), p)  S == CountedIn(cs, period, f, q, p)
  <2>1. IsRecOf(data, f, S)
    BY DataInCounts
  <2>2. CASE Added(f, q, p)
    <3>1. after[f][q][p] = RecAdd(data, h.msg.values[f])
      BY <2>2, AfterCountAdds
    <3>2. CountedIn(with, period, f, q, p) = S \cup {c0}
      BY <1>3, <2>2
    <3>3. Countable(f, S \cup {c0})
      <4>1. Countable(f, CountedIn(with, period, f, q, p))
        BY CountedInIsCountable
      <4> QED
        BY <3>2, <4>1
    <3>4. c0 \notin S
      BY DEF CountedIn
    <3>5. MetricIn(f, c0) = h.msg.values[f]
      BY <1>1 DEF MetricIn
    <3> HIDE DEF data, S
    <3>6. IsRecOf(RecAdd(data, MetricIn(f, c0)), f, S \cup {c0})
      BY <2>1, <3>3, <3>4, RecAddAdds
    <3> QED
      BY <3>1, <3>2, <3>5, <3>6
  <2>3. CASE ~Added(f, q, p)
    <3>1. after[f][q][p] = data
      BY <2>3, AfterCountAdds
    <3>2. CountedIn(with, period, f, q, p) = S
      BY <1>4, <2>3
    <3> QED
      BY <2>1, <3>1, <3>2
  <2> QED
    BY <2>2, <2>3
<1>6. ASSUME NEW c \in with, c.into = period, NEW f \in DOMAIN c.in.msg.values
      PROVE  HasNodes(after, f, c.in.msg.ptags, c.in.msg.tags)
  <2>1. CASE c \in cs
    <3>1. HasNodes(accs, f, c.in.msg.ptags, c.in.msg.tags)
      BY <1>6, <2>1 DEF Counts
    <3> QED
      BY <3>1, AfterCountKeeps
  <2>2. CASE c = c0
    BY <1>1, <2>2, AfterCountKeeps
  <2> QED
    BY <2>1, <2>2
<1> QED
  BY <1>5, <1>6 DEF Counts

\* All that a message counts in is among some aggregates.
Covered(c, em) ==
  \A f \in DOMAIN c.in.msg.values, tags \in SUBSET c.in.msg.tags :
    \E e \in em : /\ e.metric = f /\ e.period = c.into
                  /\ e.at.ptags = c.in.msg.ptags /\ e.at.tags = tags

NothingHidden(accs) == \A f \in DOMAIN accs : \A q, r \in DOMAIN accs[f] : ~Below(q, r)

\* What is reported are Recs there are, and all of them where none is hidden.
LEMMA AggregatesAreRecs ==
  ASSUME NEW accs, NEW period
  PROVE  /\ \A e \in Aggregates(accs, period) :
              \E f \in DOMAIN accs : \E q \in DOMAIN accs[f] : \E p \in DOMAIN accs[f][q] :
                /\ e.metric = f /\ e.period = period /\ e.at.ptags = q /\ e.at.tags = p
                /\ e.at.stats = RecReport(accs[f][q][p])
         /\ NothingHidden(accs) =>
              \A f \in DOMAIN accs : \A q \in DOMAIN accs[f] : \A p \in DOMAIN accs[f][q] :
                \E e \in Aggregates(accs, period) :
                  e.metric = f /\ e.period = period /\ e.at.ptags = q /\ e.at.tags = p
<1> DEFINE At3(f, q, p) == [ptags |-> q, tags |-> p, stats |-> RecReport(accs[f][q][p])]
<1>1. ASSUME NEW e \in Aggregates(accs, period)
      PROVE  \E f \in DOMAIN accs : \E q \in DOMAIN accs[f] : \E p \in DOMAIN accs[f][q] :
                /\ e.metric = f /\ e.period = period /\ e.at.ptags = q /\ e.at.tags = p
                /\ e.at.stats = RecReport(accs[f][q][p])
  <2>1. PICK f \in DOMAIN accs : \E a \in PartitionReport(accs[f]) :
          e = [metric |-> f, period |-> period, at |-> a]
    BY DEF Aggregates
  <2>2. PICK a \in PartitionReport(accs[f]) : e = [metric |-> f, period |-> period, at |-> a]
    BY <2>1
  <2>3. PICK q \in DOMAIN accs[f] : a \in NodeReport(accs[f][q], q)
    BY <2>2 DEF PartitionReport
  <2>4. PICK p \in DOMAIN accs[f][q] : a = At3(f, q, p)
    BY <2>3 DEF NodeReport
  <2>5. a.ptags = q /\ a.tags = p /\ a.stats = RecReport(accs[f][q][p])
    BY <2>4
  <2>6. e.metric = f /\ e.period = period /\ e.at = a
    BY <2>2
  <2> QED
    BY <2>5, <2>6
<1>2. ASSUME NothingHidden(accs), NEW f \in DOMAIN accs, NEW q \in DOMAIN accs[f],
             NEW p \in DOMAIN accs[f][q]
      PROVE  \E e \in Aggregates(accs, period) :
                  e.metric = f /\ e.period = period /\ e.at.ptags = q /\ e.at.tags = p
  <2> DEFINE a == At3(f, q, p)  e == [metric |-> f, period |-> period, at |-> a]
  <2>1. a \in NodeReport(accs[f][q], q)
    BY DEF NodeReport
  <2>2. q \in {r \in DOMAIN accs[f] : \A over \in DOMAIN accs[f] : ~Below(over, r)}
    BY <1>2 DEF NothingHidden
  <2> HIDE DEF a
  <2>3. a \in PartitionReport(accs[f])
    BY <2>1, <2>2 DEF PartitionReport
  <2>4. e \in Aggregates(accs, period)
    BY <2>3 DEF Aggregates
  <2>5. e.metric = f /\ e.period = period /\ e.at = a
    OBVIOUS
  <2>6. a.ptags = q /\ a.tags = p
    BY DEF a
  <2> HIDE DEF e
  <2> QED
    BY <2>4, <2>5, <2>6
<1> QED
  BY <1>1, <1>2

\* The statistics that are reported are those of the messages.
LEMMA AggregatesAreStats ==
  ASSUME NEW accs, NEW cs, NEW period, Counts(accs, cs, period)
  PROVE  \A e \in Aggregates(accs, period) :
           /\ e.period = period
           /\ StatsAre(e.at.stats, e.metric,
                       CountedIn(cs, e.period, e.metric, e.at.ptags, e.at.tags))
<1> SUFFICES ASSUME NEW e \in Aggregates(accs, period)
             PROVE  /\ e.period = period
                    /\ StatsAre(e.at.stats, e.metric,
                                CountedIn(cs, e.period, e.metric, e.at.ptags, e.at.tags))
  OBVIOUS
<1>1. \E f \in DOMAIN accs : \E q \in DOMAIN accs[f] : \E p \in DOMAIN accs[f][q] :
                /\ e.metric = f /\ e.period = period /\ e.at.ptags = q /\ e.at.tags = p
                /\ e.at.stats = RecReport(accs[f][q][p])
  BY AggregatesAreRecs
<1>0. PICK f \in DOMAIN accs : \E q \in DOMAIN accs[f] : \E p \in DOMAIN accs[f][q] :
                /\ e.metric = f /\ e.period = period /\ e.at.ptags = q /\ e.at.tags = p
                /\ e.at.stats = RecReport(accs[f][q][p])
  BY <1>1
<1>4. PICK q \in DOMAIN accs[f] : \E p \in DOMAIN accs[f][q] :
                /\ e.metric = f /\ e.period = period /\ e.at.ptags = q /\ e.at.tags = p
                /\ e.at.stats = RecReport(accs[f][q][p])
  BY <1>0
<1>5. PICK p \in DOMAIN accs[f][q] :
                /\ e.metric = f /\ e.period = period /\ e.at.ptags = q /\ e.at.tags = p
                /\ e.at.stats = RecReport(accs[f][q][p])
  BY <1>4
<1>2. IsRecOf(accs[f][q][p], f, CountedIn(cs, period, f, q, p))
  BY DEF Counts
<1>3. StatsAre(RecReport(accs[f][q][p]), f, CountedIn(cs, period, f, q, p))
  BY <1>2, RecReportsStats
<1> QED
  BY <1>5, <1>3

\* Every message of the period is in what is reported, with all sets of its tags.
LEMMA AggregatesCoverAll ==
  ASSUME NEW accs, NEW cs, NEW period, Counts(accs, cs, period), NothingHidden(accs),
         NEW c \in cs, c.into = period
  PROVE  Covered(c, Aggregates(accs, period))
<1> SUFFICES ASSUME NEW f \in DOMAIN c.in.msg.values, NEW tags \in SUBSET c.in.msg.tags
             PROVE  \E e \in Aggregates(accs, period) :
                      /\ e.metric = f /\ e.period = period
                      /\ e.at.ptags = c.in.msg.ptags /\ e.at.tags = tags
  BY DEF Covered
<1>1. HasNodes(accs, f, c.in.msg.ptags, c.in.msg.tags)
  BY DEF Counts
<1>2. /\ f \in DOMAIN accs /\ c.in.msg.ptags \in DOMAIN accs[f]
      /\ tags \in DOMAIN accs[f][c.in.msg.ptags]
  BY <1>1 DEF HasNodes
<1> QED
  BY <1>2, AggregatesAreRecs

\* A reset leaves Recs of no messages.
LEMMA ResetCounts ==
  ASSUME NEW accs, NEW cs, NEW period, \A c \in cs : c.into # period
  PROVE  /\ Counts([f \in DOMAIN accs |-> PartitionReset(accs[f])], cs, period)
         /\ Counts(<< >>, cs, period)
<1>1. \A f, q, p : CountedIn(cs, period, f, q, p) = {}
  BY DEF CountedIn, Concerns
<1>2. \A f, q, p : IsRecOf(NewRec, f, CountedIn(cs, period, f, q, p))
  BY <1>1, NewRecIsOfNone
<1> DEFINE after == [f \in DOMAIN accs |-> PartitionReset(accs[f])]
<1>3. ASSUME NEW f \in DOMAIN after, NEW q \in DOMAIN after[f], NEW p \in DOMAIN after[f][q]
      PROVE  after[f][q][p] = NewRec
  <2>1. after[f] = [r \in DOMAIN accs[f] |-> NodeReset(accs[f][r])]
    BY DEF PartitionReset
  <2> HIDE DEF after
  <2>2. after[f][q] = [at \in DOMAIN accs[f][q] |-> NewRec]
    BY <2>1 DEF NodeReset
  <2> QED
    BY <2>2
<1> HIDE DEF after
<1>4. Counts(after, cs, period)
  BY <1>2, <1>3 DEF Counts
<1>5. DOMAIN << >> = {}
  OBVIOUS
<1>6. Counts(<< >>, cs, period)
  BY <1>5 DEF Counts
<1> QED
  BY <1>4, <1>6 DEF after

\* No partition lies below another one: with some partition tags, a message has all.
PartitionsApart == \A m, n \in Messages : m.ptags # << >> => ~Below(m.ptags, n.ptags)

Fits(msg, pt) == pt <=> msg.ptags # << >>

HandedOk(hs, pt) ==
  /\ IsFiniteSet(hs) /\ Cardinality(hs) <= MaxMessages
  /\ \A h \in hs : /\ h.id \in 0..(Cardinality(hs) - 1) /\ h.ts \in 0..MaxTs
                   /\ h.msg \in Messages /\ Fits(h.msg, pt)
  /\ \A g, h \in hs : g.id = h.id => g = h

\* A period is not counted before a message of it, or of a later one, has come.
Reached(hs, lt) == lt \in Nat /\ \E h \in hs : lt <= PeriodOfTs(h.ts)

InItsPeriod(hs, c) ==
  (\A h \in hs : h.id < c.in.id => h.ts <= c.in.ts) => c.into = PeriodOfTs(c.in.ts)

CountedOk(hs, lt, cs) ==
  /\ IsFiniteSet(cs)
  /\ \A c \in cs : c.in \in hs /\ c.into \in Nat /\ c.into <= lt /\ InItsPeriod(hs, c)
  /\ \A c, d \in cs : c.in.id = d.in.id => c = d

\* The last message, which is not counted yet.
IsLast(hs, h, cs) == h \in hs /\ h.id = Cardinality(hs) - 1 /\ \A c \in cs : c.in # h

Sending(hs, lt, accs, sn, cs) ==
  /\ \A s \in sn : /\ IsLast(hs, s.in, cs) /\ s.report = Aggregates(accs, lt)
                   /\ lt < PeriodOfTs(s.in.ts)
  /\ \A s, t \in sn : s = t

FromMessages(accs, pt) ==
  \A f \in DOMAIN accs : \A q \in DOMAIN accs[f] :
    \E msg \in Messages : msg.ptags = q /\ Fits(msg, pt)

EmittedOk(lt, em, cs) ==
  /\ \A e \in em : StatsAre(e.at.stats, e.metric,
                            CountedIn(cs, e.period, e.metric, e.at.ptags, e.at.tags))
  /\ \A c \in cs : c.into < lt => Covered(c, em)

Past(lt, em) == \A e \in em : e.period \in Nat /\ e.period < lt

\* What there is when a message is to be counted, or aggregates to be sent first.
Ready(hs, pt, lt, accs, em, cs) ==
  /\ HandedOk(hs, pt) /\ Reached(hs, lt) /\ CountedOk(hs, lt, cs) /\ FromMessages(accs, pt)
  /\ Counts(accs, cs, lt) /\ EmittedOk(lt, em, cs) /\ Past(lt, em)

\* The invariant: before the first message there is nothing; while the bolt works the
\* accumulators count the messages of its period and all earlier ones were emitted.
AccIInv ==
  \/ /\ last_ts = NoTs /\ counted = {} /\ sends = {} /\ emitted = {} /\ accumulators = << >>
     /\ HandedOk(handed, partitioned)
  \/ /\ Ready(handed, partitioned, last_ts, accumulators, emitted, counted)
     /\ Sending(handed, last_ts, accumulators, sends, counted)
  \/ failed /\ CountedOk(handed, last_ts, counted) /\ EmittedOk(last_ts, emitted, counted)

\* Periods come in the order of time.
LEMMA PeriodsAscend ==
  ASSUME NEW x \in Nat, NEW y \in Nat, x <= y
  PROVE  PeriodOfTs(x) \in Nat /\ PeriodOfTs(y) \in Nat /\ PeriodOfTs(x) <= PeriodOfTs(y)
<1> DEFINE g == Granularity  p == x \div g  q == y \div g
<1>1. g \in Nat /\ g > 0
  BY AccumulatorAssumption
<1> HIDE DEF g
<1>2. p \in Nat /\ q \in Nat /\ g * p <= x /\ y < g * (q + 1)
  BY <1>1
<1> HIDE DEF p, q
<1>3. ASSUME p > q PROVE FALSE
  <2>1. p >= q + 1
    BY <1>2, <1>3
  <2>2. \A a, b, c \in Nat : a <= b => c * a <= c * b
    OBVIOUS
  <2>3. g * (q + 1) <= g * p
    BY <1>1, <1>2, <2>1, <2>2
  <2> DEFINE u == g * (q + 1)  v == g * p
  <2>4. u \in Nat /\ v \in Nat
    BY <1>1, <1>2
  <2>5. v <= x /\ y < u /\ u <= v
    BY <1>2, <2>3
  <2> HIDE DEF u, v
  <2> QED
    BY <2>4, <2>5
<1>4. p <= q
  BY <1>2, <1>3
<1> QED
  BY <1>2, <1>4 DEF PeriodOfTs, p, q, g

\* With a later message in the period, the statistics of earlier ones are the same.
LEMMA StatsStay ==
  ASSUME NEW lt, NEW em, NEW cs, EmittedOk(lt, em, cs), Past(lt, em), NEW c0, c0.into = lt,
         lt \in Nat
  PROVE  EmittedOk(lt, em, cs \cup {c0})
<1>1. ASSUME NEW e \in em
      PROVE  CountedIn(cs \cup {c0}, e.period, e.metric, e.at.ptags, e.at.tags)
               = CountedIn(cs, e.period, e.metric, e.at.ptags, e.at.tags)
  <2>1. c0.into # e.period
    BY DEF Past
  <2> QED
    BY <2>1 DEF CountedIn, Concerns
<1>2. \A c \in cs \cup {c0} : c.into < lt => c \in cs
  OBVIOUS
<1> QED
  BY <1>1, <1>2 DEF EmittedOk

\* Counting the last message.
LEMMA CountIsReady ==
  ASSUME NEW hs, NEW pt, NEW lt, NEW accs, NEW em, NEW cs, Ready(hs, pt, lt, accs, em, cs),
         NEW h, IsLast(hs, h, cs), ~(PeriodOfTs(h.ts) > lt)
  PROVE  Ready(hs, pt, lt, AfterCount(accs, h), em, cs \cup {[in |-> h, into |-> lt]})
<1> DEFINE c0 == [in |-> h, into |-> lt]  with == cs \cup {c0}
<1>1. c0.in = h /\ c0.into = lt
  OBVIOUS
<1> HIDE DEF c0
<1>2. /\ HandedOk(hs, pt) /\ Reached(hs, lt) /\ CountedOk(hs, lt, cs) /\ FromMessages(accs, pt)
      /\ Counts(accs, cs, lt) /\ EmittedOk(lt, em, cs) /\ Past(lt, em)
  BY DEF Ready
<1>3. /\ h \in hs /\ h.msg \in Messages /\ Fits(h.msg, pt) /\ h.ts \in Nat
      /\ h.id = Cardinality(hs) - 1 /\ c0 \notin cs
  BY <1>1, <1>2, AccumulatorAssumption DEF IsLast, HandedOk
<1>4. lt \in Nat
  BY <1>2 DEF Reached
<1>5. c0.into = PeriodOfTs(h.ts) \/ ~(\A g \in hs : g.id < h.id => g.ts <= h.ts)
  <2> SUFFICES ASSUME \A g \in hs : g.id < h.id => g.ts <= h.ts PROVE lt = PeriodOfTs(h.ts)
    BY <1>1
  <2>1. PICK g \in hs : lt <= PeriodOfTs(g.ts)
    BY <1>2 DEF Reached
  <2>2. g.ts \in Nat /\ g.ts <= h.ts
    <3>1. /\ g.id \in 0..(Cardinality(hs) - 1) /\ g.ts \in 0..MaxTs
          /\ (g.id = h.id => g = h)
      BY <1>2, <1>3 DEF HandedOk
    <3>2. Cardinality(hs) \in Nat
      BY <1>2, FS_CardinalityType DEF HandedOk
    <3>3. g.ts \in Nat
      BY <3>1, AccumulatorAssumption
    <3>4. CASE g = h
      BY <1>3, <3>3, <3>4
    <3>5. CASE g # h
      <4>1. g.id < h.id
        BY <1>3, <3>1, <3>2, <3>5
      <4> QED
        BY <3>3, <4>1
    <3> QED
      BY <3>4, <3>5
  <2>3. /\ PeriodOfTs(g.ts) \in Nat /\ PeriodOfTs(h.ts) \in Nat
        /\ PeriodOfTs(g.ts) <= PeriodOfTs(h.ts)
    BY <1>3, <2>2, PeriodsAscend
  <2> QED
    BY <1>4, <2>1, <2>3
<1>6. CountedOk(hs, lt, with)
  <2>1. IsFiniteSet(with)
    BY <1>2, FS_AddElement DEF CountedOk
  <2>2. InItsPeriod(hs, c0)
    BY <1>1, <1>5 DEF InItsPeriod
  <2>3. \A c \in with : c.in \in hs /\ c.into \in Nat /\ c.into <= lt /\ InItsPeriod(hs, c)
    BY <1>1, <1>2, <1>3, <1>4, <2>2 DEF CountedOk
  <2>4. \A c, d \in with : c.in.id = d.in.id => c = d
    BY <1>1, <1>2, <1>3 DEF CountedOk, HandedOk, IsLast
  <2> QED
    BY <2>1, <2>3, <2>4 DEF CountedOk
<1>7. Takings(with)
  <2>1. \A c \in with : c.in.id \in 0..(MaxMessages - 1) /\ c.in.msg \in Messages
    <3> SUFFICES ASSUME NEW c \in with
                 PROVE  c.in.id \in 0..(MaxMessages - 1) /\ c.in.msg \in Messages
      OBVIOUS
    <3>1. c.in \in hs
      BY <1>6 DEF CountedOk
    <3>2. c.in.id \in 0..(Cardinality(hs) - 1) /\ c.in.msg \in Messages
      BY <1>2, <3>1 DEF HandedOk
    <3>3. Cardinality(hs) \in Nat /\ Cardinality(hs) <= MaxMessages
      BY <1>2, FS_CardinalityType DEF HandedOk
    <3> QED
      BY <3>2, <3>3, AccumulatorAssumption
  <2> QED
    BY <1>6, <2>1 DEF CountedOk, Takings
<1>8. Counts(AfterCount(accs, h), with, lt)
  <2>1. c0 = [in |-> h, into |-> lt]
    BY DEF c0
  <2> QED
    BY <1>2, <1>3, <1>7, <2>1, CountCounts
<1>9. FromMessages(AfterCount(accs, h), pt)
  <2> SUFFICES ASSUME NEW f \in DOMAIN AfterCount(accs, h), NEW q \in DOMAIN AfterCount(accs, h)[f]
               PROVE  \E msg \in Messages : msg.ptags = q /\ Fits(msg, pt)
    BY DEF FromMessages
  <2>1. q = h.msg.ptags \/ (f \in DOMAIN accs /\ q \in DOMAIN accs[f])
    BY <1>3, AfterCountKeeps
  <2> QED
    BY <1>2, <1>3, <2>1 DEF FromMessages
<1>10. EmittedOk(lt, em, with)
  BY <1>1, <1>2, <1>4, StatsStay
<1>11. Ready(hs, pt, lt, AfterCount(accs, h), em, with)
  BY <1>2, <1>6, <1>8, <1>9, <1>10 DEF Ready
<1> QED
  BY <1>11 DEF c0

LEMMA NoneHidden ==
  ASSUME PartitionsApart, NEW accs, NEW pt, FromMessages(accs, pt)
  PROVE  NothingHidden(accs)
<1> SUFFICES ASSUME NEW f \in DOMAIN accs, NEW q \in DOMAIN accs[f], NEW r \in DOMAIN accs[f],
                    Below(q, r)
             PROVE  FALSE
  BY DEF NothingHidden
<1>1. PICK m \in Messages : m.ptags = q /\ Fits(m, pt)
  BY DEF FromMessages
<1>2. PICK n \in Messages : n.ptags = r /\ Fits(n, pt)
  BY DEF FromMessages
<1>3. CASE q = << >>
  <2>1. r = << >>
    BY <1>1, <1>2, <1>3 DEF Fits
  <2>2. Len(q) = 0 /\ Len(r) = 0
    BY <1>3, <2>1
  <2> QED
    BY <2>2 DEF Below
<1>4. CASE q # << >>
  BY <1>1, <1>2, <1>4 DEF PartitionsApart
<1> QED
  BY <1>3, <1>4

\* What is sent for a period is right and complete.
LEMMA SendIsRight ==
  ASSUME PartitionsApart, NEW hs, NEW pt, NEW lt, NEW accs, NEW em, NEW cs,
         Ready(hs, pt, lt, accs, em, cs)
  PROVE  /\ \A next \in {lt, lt + 1} : EmittedOk(next, em \cup Aggregates(accs, lt), cs)
         /\ Past(lt + 1, em \cup Aggregates(accs, lt))
<1> DEFINE all == em \cup Aggregates(accs, lt)
<1>1. /\ Reached(hs, lt) /\ CountedOk(hs, lt, cs) /\ FromMessages(accs, pt)
      /\ Counts(accs, cs, lt) /\ EmittedOk(lt, em, cs) /\ Past(lt, em)
  BY DEF Ready
<1>2. lt \in Nat
  BY <1>1 DEF Reached
<1>3. \A e \in Aggregates(accs, lt) :
        /\ e.period = lt
        /\ StatsAre(e.at.stats, e.metric,
                    CountedIn(cs, e.period, e.metric, e.at.ptags, e.at.tags))
  BY <1>1, AggregatesAreStats
<1>4. \A e \in all : StatsAre(e.at.stats, e.metric,
                              CountedIn(cs, e.period, e.metric, e.at.ptags, e.at.tags))
  BY <1>1, <1>3 DEF EmittedOk
<1>5. ASSUME NEW c \in cs PROVE Covered(c, all)
  <2>1. c.into \in Nat /\ c.into <= lt
    BY <1>1 DEF CountedOk
  <2>2. CASE c.into < lt
    <3>1. Covered(c, em)
      BY <1>1, <2>2 DEF EmittedOk
    <3>2. em \subseteq all
      OBVIOUS
    <3> HIDE DEF all
    <3> QED
      BY <3>1, <3>2 DEF Covered
  <2>3. CASE c.into = lt
    <3>1. NothingHidden(accs)
      BY <1>1, NoneHidden
    <3>2. Covered(c, Aggregates(accs, lt))
      BY <1>1, <2>3, <3>1, AggregatesCoverAll
    <3>3. Aggregates(accs, lt) \subseteq all
      OBVIOUS
    <3> HIDE DEF all
    <3> QED
      BY <3>2, <3>3, SMTT(30) DEF Covered
  <2> QED
    BY <1>2, <2>1, <2>2, <2>3
<1>6. \A next : EmittedOk(next, all, cs)
  BY <1>4, <1>5 DEF EmittedOk
<1>7. Past(lt + 1, all)
  BY <1>1, <1>2, <1>3 DEF Past
<1> QED
  BY <1>6, <1>7

\* After it has been sent the next period begins with empty accumulators.
LEMMA NextPeriodIsReady ==
  ASSUME PartitionsApart, NEW hs, NEW pt, NEW lt, NEW accs, NEW em, NEW cs,
         Ready(hs, pt, lt, accs, em, cs), NEW h, IsLast(hs, h, cs), lt < PeriodOfTs(h.ts),
         NEW new, new = << >> \/ new = [f \in DOMAIN accs |-> PartitionReset(accs[f])]
  PROVE  Ready(hs, pt, lt + 1, new, em \cup Aggregates(accs, lt), cs)
<1>1. /\ HandedOk(hs, pt) /\ Reached(hs, lt) /\ CountedOk(hs, lt, cs) /\ FromMessages(accs, pt)
  BY DEF Ready
<1>2. lt \in Nat /\ lt + 1 \in Nat
  BY <1>1 DEF Reached
<1>3. h \in hs /\ h.ts \in Nat
  BY <1>1, AccumulatorAssumption DEF IsLast, HandedOk
<1>4. Reached(hs, lt + 1)
  <2>1. PeriodOfTs(h.ts) \in Nat
    BY <1>3, PeriodsAscend
  <2>2. lt + 1 <= PeriodOfTs(h.ts)
    BY <1>2, <2>1
  <2> QED
    BY <1>2, <1>3, <2>2 DEF Reached
<1>5. CountedOk(hs, lt + 1, cs)
  BY <1>1, <1>2 DEF CountedOk
<1>6. \A c \in cs : c.into # lt + 1
  BY <1>1, <1>2 DEF CountedOk
<1>7. Counts(new, cs, lt + 1)
  <2>1. /\ Counts([f \in DOMAIN accs |-> PartitionReset(accs[f])], cs, lt + 1)
        /\ Counts(<< >>, cs, lt + 1)
    BY <1>6, ResetCounts
  <2> QED
    BY <2>1
<1>8. FromMessages(new, pt)
  <2>1. CASE new = << >>
    <3>1. DOMAIN new = {}
      BY <2>1
    <3> QED
      BY <3>1 DEF FromMessages
  <2>2. CASE new = [f \in DOMAIN accs |-> PartitionReset(accs[f])]
    BY <1>1, <2>2 DEF FromMessages, PartitionReset
  <2> QED
    BY <2>1, <2>2
<1>9. EmittedOk(lt + 1, em \cup Aggregates(accs, lt), cs) /\ Past(lt + 1, em \cup Aggregates(accs, lt))
  BY SendIsRight
<1> QED
  BY <1>1, <1>4, <1>5, <1>7, <1>8, <1>9 DEF Ready

\* Either way on from catchUpTimestamp keeps the invariant.
LEMMA CatchUpKeeps ==
  ASSUME NEW accs, NEW lt, NEW h,
         last_ts' = lt, CatchUp(h, accs, lt, {}),
         Ready(handed', partitioned', lt, accs, emitted', counted), IsLast(handed', h, counted)
  PROVE  AccIInv'
<1>1. CASE PeriodOfTs(h.ts) > lt
  <2>1. /\ sends' = {[in |-> h, report |-> Aggregates(accs, lt)]} /\ accumulators' = accs
        /\ counted' = counted
    BY <1>1 DEF CatchUp
  <2>2. Ready(handed', partitioned', last_ts', accumulators', emitted', counted')
    BY <2>1
  <2>3. lt < PeriodOfTs(h.ts)
    <3>1. lt \in Nat /\ h.ts \in Nat
      BY AccumulatorAssumption DEF Ready, Reached, HandedOk, IsLast
    <3>2. PeriodOfTs(h.ts) \in Nat
      BY <3>1, PeriodsAscend
    <3> QED
      BY <1>1, <3>1, <3>2
  <2>4. Sending(handed', last_ts', accumulators', sends', counted')
    BY <2>1, <2>3 DEF Sending
  <2> QED
    BY <2>2, <2>4 DEF AccIInv
<1>2. CASE ~(PeriodOfTs(h.ts) > lt)
  <2>1. /\ sends' = {} /\ Count(h, accs, lt)
    BY <1>2 DEF CatchUp
  <2>2. /\ accumulators' = AfterCount(accs, h)
        /\ counted' = counted \cup {[in |-> h, into |-> lt]}
    BY <2>1, Zenon DEF Count, AfterCount
  <2>3. Ready(handed', partitioned', lt, AfterCount(accs, h), emitted',
              counted \cup {[in |-> h, into |-> lt]})
    BY <1>2, CountIsReady
  <2>4. Ready(handed', partitioned', last_ts', accumulators', emitted', counted')
    BY <2>2, <2>3
  <2>5. Sending(handed', last_ts', accumulators', sends', counted')
    BY <2>1 DEF Sending
  <2> QED
    BY <2>4, <2>5 DEF AccIInv
<1> QED
  BY <1>1, <1>2

LEMMA AccumulatorInits == AccumulatorInit => AccIInv
<1> SUFFICES ASSUME AccumulatorInit PROVE AccIInv
  OBVIOUS
<1>1. /\ handed = {} /\ last_ts = NoTs /\ counted = {} /\ sends = {} /\ emitted = {}
      /\ accumulators = << >>
  BY DEF AccumulatorInit
<1>2. HandedOk(handed, partitioned)
  BY <1>1, FS_EmptySet, AccumulatorAssumption DEF HandedOk
<1> QED
  BY <1>1, <1>2 DEF AccIInv

LEMMA MetricReceiveKeeps ==
  ASSUME AccIInv, NEW msg \in Messages, NEW ts \in 0..MaxTs, MetricReceive(msg, ts)
  PROVE  AccIInv'
<1> DEFINE h == [id |-> Cardinality(handed), ts |-> ts, msg |-> msg]
           first == IF last_ts = NoTs THEN PeriodOfTs(ts) ELSE last_ts
<1>1. /\ ~failed /\ sends = {} /\ Cardinality(handed) < MaxMessages
      /\ Fits(msg, partitioned) /\ handed' = handed \cup {h} /\ last_ts' = first
      /\ CatchUp(h, accumulators, first, {})
      /\ partitioned' = partitioned /\ emitted' = emitted
  BY DEF MetricReceive, AcceptsMessage, Fits
<1>2. h.id = Cardinality(handed) /\ h.ts = ts /\ h.msg = msg /\ ts \in Nat
  BY AccumulatorAssumption
<1>3. HandedOk(handed, partitioned)
  BY <1>1 DEF AccIInv, Ready
<1>4. IsFiniteSet(handed) /\ Cardinality(handed) \in Nat
  BY <1>3, FS_CardinalityType DEF HandedOk
<1> HIDE DEF h, first
<1>5. h \notin handed
  BY <1>2, <1>3, <1>4 DEF HandedOk
<1>6. IsFiniteSet(handed') /\ Cardinality(handed') = Cardinality(handed) + 1
  BY <1>1, <1>4, <1>5, FS_AddElement
<1>7. HandedOk(handed', partitioned')
  <2>1. Cardinality(handed') <= MaxMessages
    BY <1>1, <1>4, <1>6, AccumulatorAssumption
  <2>2. ASSUME NEW x \in handed'
        PROVE  /\ x.id \in 0..(Cardinality(handed') - 1) /\ x.ts \in 0..MaxTs
               /\ x.msg \in Messages /\ Fits(x.msg, partitioned')
    <3>1. CASE x \in handed
      <4>1. /\ x.id \in 0..(Cardinality(handed) - 1) /\ x.ts \in 0..MaxTs
            /\ x.msg \in Messages /\ Fits(x.msg, partitioned)
        BY <1>3, <3>1 DEF HandedOk
      <4>2. x.id \in 0..(Cardinality(handed') - 1)
        BY <1>4, <1>6, <4>1
      <4> QED
        BY <1>1, <4>1, <4>2
    <3>2. CASE x = h
      <4>1. x.id \in 0..(Cardinality(handed') - 1)
        BY <1>2, <1>4, <1>6, <3>2
      <4> QED
        BY <1>1, <1>2, <3>2, <4>1
    <3> QED
      BY <1>1, <3>1, <3>2
  <2>3. \A x, y \in handed' : x.id = y.id => x = y
    <3>1. \A x \in handed : x.id # h.id
      BY <1>2, <1>3, <1>4 DEF HandedOk
    <3>2. \A x, y \in handed : x.id = y.id => x = y
      BY <1>3 DEF HandedOk
    <3> QED
      BY <1>1, <3>1, <3>2
  <2> QED
    BY <1>6, <2>1, <2>2, <2>3 DEF HandedOk
<1>8. Ready(handed', partitioned', first, accumulators, emitted', counted)
        /\ IsLast(handed', h, counted)
  <2>1. h \in handed' /\ h.id = Cardinality(handed') - 1
    BY <1>1, <1>2, <1>4, <1>6
  <2>2. CASE last_ts = NoTs /\ counted = {} /\ emitted = {} /\ accumulators = << >>
    <3>1. first = PeriodOfTs(h.ts) /\ first \in Nat
      <4>1. PeriodOfTs(ts) \in Nat
        BY <1>2, PeriodsAscend
      <4> QED
        BY <1>2, <2>2, <4>1 DEF first
    <3>2. Reached(handed', first)
      BY <2>1, <3>1 DEF Reached
    <3>3. CountedOk(handed', first, counted)
      BY <2>2, FS_EmptySet DEF CountedOk
    <3>4. FromMessages(accumulators, partitioned')
      <4>1. DOMAIN accumulators = {}
        BY <2>2
      <4> QED
        BY <4>1 DEF FromMessages
    <3>5. Counts(accumulators, counted, first)
      <4>1. Counts(<< >>, counted, first)
        BY <2>2, ResetCounts
      <4> QED
        BY <2>2, <4>1
    <3>6. EmittedOk(first, emitted', counted) /\ Past(first, emitted')
      BY <1>1, <2>2 DEF EmittedOk, Past
    <3>7. IsLast(handed', h, counted)
      BY <2>1, <2>2 DEF IsLast
    <3> QED
      BY <1>7, <3>2, <3>3, <3>4, <3>5, <3>6, <3>7 DEF Ready
  <2>3. CASE Ready(handed, partitioned, last_ts, accumulators, emitted, counted)
    <3>1. /\ Reached(handed, last_ts) /\ CountedOk(handed, last_ts, counted)
          /\ FromMessages(accumulators, partitioned)
          /\ Counts(accumulators, counted, last_ts) /\ EmittedOk(last_ts, emitted, counted)
          /\ Past(last_ts, emitted)
      BY <2>3 DEF Ready
    <3>2. first = last_ts
      BY <3>1 DEF Reached, NoTs, first
    <3>3. Reached(handed', last_ts)
      BY <1>1, <3>1 DEF Reached
    <3>4. CountedOk(handed', last_ts, counted)
      <4>1. \A c \in counted : InItsPeriod(handed, c) => InItsPeriod(handed', c)
        BY <1>1 DEF InItsPeriod
      <4> QED
        BY <1>1, <3>1, <4>1 DEF CountedOk
    <3>5. IsLast(handed', h, counted)
      BY <1>5, <2>1, <3>1 DEF IsLast, CountedOk
    <3> QED
      BY <1>1, <1>7, <3>1, <3>2, <3>3, <3>4, <3>5 DEF Ready
  <2> QED
    BY <1>1, <2>2, <2>3 DEF AccIInv
<1> QED
  BY <1>1, <1>8, CatchUpKeeps

LEMMA SendEndsKeeps ==
  ASSUME PartitionsApart, AccIInv, NEW c \in sends, SendEnds(c)
  PROVE  AccIInv'
<1>1. /\ ~failed /\ emitted' = emitted \cup c.report /\ partitioned' = partitioned
      /\ handed' = handed
  BY DEF SendEnds
<1>2. /\ Ready(handed, partitioned, last_ts, accumulators, emitted, counted)
      /\ Sending(handed, last_ts, accumulators, sends, counted)
  BY <1>1 DEF AccIInv
<1>3. /\ IsLast(handed, c.in, counted) /\ c.report = Aggregates(accumulators, last_ts)
      /\ last_ts < PeriodOfTs(c.in.ts) /\ sends \ {c} = {}
  BY <1>2 DEF Sending
<1>4. CASE emit_zero_counts /\ \E f \in DOMAIN accumulators : ResetThrows(accumulators[f])
  <2>1. /\ failed' = TRUE /\ last_ts' = last_ts /\ counted' = counted
    BY <1>4 DEF SendEnds
  <2>2. EmittedOk(last_ts, emitted', counted)
    <3>1. \A next \in {last_ts, last_ts + 1} :
            EmittedOk(next, emitted \cup Aggregates(accumulators, last_ts), counted)
      BY <1>2, SendIsRight
    <3> QED
      BY <1>1, <1>3, <3>1
  <2>3. CountedOk(handed, last_ts, counted)
    BY <1>2 DEF Ready
  <2> QED
    BY <1>1, <2>1, <2>2, <2>3 DEF AccIInv
<1>5. CASE ~(emit_zero_counts /\ \E f \in DOMAIN accumulators : ResetThrows(accumulators[f]))
  <2> DEFINE new == IF emit_zero_counts
                    THEN [f \in DOMAIN accumulators |-> PartitionReset(accumulators[f])]
                    ELSE << >>
             next == last_ts + 1
  <2>1. last_ts' = next /\ CatchUp(c.in, new, next, sends \ {c})
    BY <1>5 DEF SendEnds
  <2>2. new = << >> \/ new = [f \in DOMAIN accumulators |-> PartitionReset(accumulators[f])]
    OBVIOUS
  <2> HIDE DEF new
  <2>3. Ready(handed, partitioned, last_ts + 1, new,
              emitted \cup Aggregates(accumulators, last_ts), counted)
    BY <1>2, <1>3, <2>2, NextPeriodIsReady
  <2>4. Ready(handed', partitioned', next, new, emitted', counted)
    BY <1>1, <1>3, <2>3
  <2>5. IsLast(handed', c.in, counted)
    BY <1>1, <1>3
  <2>6. CatchUp(c.in, new, next, {})
    BY <1>3, <2>1
  <2> HIDE DEF next
  <2> QED
    BY <2>1, <2>4, <2>5, <2>6, CatchUpKeeps
<1> QED
  BY <1>4, <1>5

LEMMA SendFailsKeeps ==
  ASSUME PartitionsApart, AccIInv, NEW c \in sends, SendFails(c)
  PROVE  AccIInv'
<1>1. PICK sent \in SUBSET c.report : emitted' = emitted \cup sent
  BY DEF SendFails
<1>2. ~failed /\ failed' = TRUE /\ UNCHANGED <<last_ts, handed, counted>>
  BY DEF SendFails
<1>3. /\ Ready(handed, partitioned, last_ts, accumulators, emitted, counted)
      /\ c.report = Aggregates(accumulators, last_ts)
  BY <1>2 DEF AccIInv, Sending
<1>4. CountedOk(handed, last_ts, counted) /\ EmittedOk(last_ts, emitted, counted)
  BY <1>3 DEF Ready
<1>5. EmittedOk(last_ts, emitted \cup Aggregates(accumulators, last_ts), counted)
  BY <1>3, SendIsRight
<1>6. emitted \subseteq emitted' /\ emitted' \subseteq emitted \cup Aggregates(accumulators, last_ts)
  BY <1>1, <1>3
<1>7. EmittedOk(last_ts, emitted', counted)
  <2> DEFINE all == emitted \cup Aggregates(accumulators, last_ts)
             Right(e) == StatsAre(e.at.stats, e.metric,
                           CountedIn(counted, e.period, e.metric, e.at.ptags, e.at.tags))
  <2>1. \A e \in all : Right(e)
    BY <1>5 DEF EmittedOk
  <2>2. \A k \in counted : k.into < last_ts => Covered(k, emitted)
    BY <1>4 DEF EmittedOk
  <2>3. \A k : Covered(k, emitted) => Covered(k, emitted')
    BY <1>6 DEF Covered
  <2> HIDE DEF Right
  <2>4. \A e \in emitted' : Right(e)
    BY <1>6, <2>1
  <2> QED
    BY <2>2, <2>3, <2>4 DEF EmittedOk, Right
<1> QED
  BY <1>2, <1>4, <1>7 DEF AccIInv

\* For any messages with numbers as values, any granularity and any order of calls and
\* answers: every aggregate has the statistics of the messages of its period that carry
\* its tags, each set of tags of each message of a past period was emitted, and a
\* message that is not late counts in the period of its timestamp.  Messages with
\* partition tags are taken to have all of them: a partition with fewer hides others.
THEOREM AggregatesDoComplete ==
  PartitionsApart => (AccumulatorSpec => []AggregatesAreComplete)
<1> SUFFICES ASSUME PartitionsApart PROVE AccumulatorSpec => []AggregatesAreComplete
  OBVIOUS
<1>1. AccIInv /\ [AccumulatorNext]_accumulator_vars => AccIInv'
  <2> SUFFICES ASSUME AccIInv, [AccumulatorNext]_accumulator_vars PROVE AccIInv'
    OBVIOUS
  <2>1. CASE UNCHANGED accumulator_vars
    BY <2>1 DEF AccIInv, accumulator_vars
  <2>2. ASSUME NEW msg \in Messages, NEW ts \in 0..MaxTs, MetricReceive(msg, ts) PROVE AccIInv'
    BY <2>2, MetricReceiveKeeps
  <2>3. ASSUME NEW c \in sends, SendEnds(c) PROVE AccIInv'
    BY <2>3, SendEndsKeeps
  <2>4. ASSUME NEW c \in sends, SendFails(c) PROVE AccIInv'
    BY <2>4, SendFailsKeeps
  <2> QED
    BY <2>1, <2>2, <2>3, <2>4 DEF AccumulatorNext
<1>2. AccIInv => AggregatesAreComplete
  <2> SUFFICES ASSUME AccIInv PROVE AggregatesAreComplete
    OBVIOUS
  <2>1. CountedOk(handed, last_ts, counted) /\ EmittedOk(last_ts, emitted, counted)
    BY FS_EmptySet DEF AccIInv, Ready, CountedOk, EmittedOk
  <2>2. ASSUME NEW e \in emitted
        PROVE  IF CountedAt(e) = {} THEN e.at.stats = RecReport(NewRec)
               ELSE LET ref == Reference(e.metric, CountedAt(e))
                    IN  [e.at.stats EXCEPT !.max = ref.max] = ref
                          /\ (ref.max > 0 => e.at.stats = ref)
    <3>1. CountedAt(e) = CountedIn(counted, e.period, e.metric, e.at.ptags, e.at.tags)
      BY DEF CountedAt, CountedIn, Concerns
    <3>2. StatsAre(e.at.stats, e.metric, CountedAt(e))
      BY <2>1, <3>1 DEF EmittedOk
    <3> QED
      BY <3>2, Zenon DEF StatsAre
  <2>3. ASSUME NEW c \in counted
        PROVE  /\ c.into < last_ts =>
                    \A f \in DOMAIN c.in.msg.values, tags \in SUBSET c.in.msg.tags :
                      \E e \in emitted : /\ e.metric = f /\ e.period = c.into
                                         /\ e.at.ptags = c.in.msg.ptags /\ e.at.tags = tags
               /\ (\A h \in handed : h.id < c.in.id => h.ts <= c.in.ts)
                    => c.into = PeriodOfTs(c.in.ts)
    BY <2>1 DEF EmittedOk, CountedOk, Covered, InItsPeriod
  <2> QED
    BY <2>2, <2>3, Zenon DEF AggregatesAreComplete
<1> QED
  BY <1>1, <1>2, AccumulatorInits, PTL DEF AccumulatorSpec
=============================================================================
