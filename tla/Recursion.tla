------------------------------ MODULE Recursion ------------------------------
(***************************************************************************)
(* Induction over the natural numbers and functions defined by recursion   *)
(* over them, for sets and functions in place of predicates and operators. *)
(***************************************************************************)
EXTENDS WellFoundedInduction, TLAPS

\* Induction: a set that holds 0 and with every number the next one.
LEMMA InductionSet ==
  ASSUME NEW S, 0 \in S, \A n \in Nat : n \in S => n + 1 \in S
  PROVE  Nat \subseteq S
<1> SUFFICES ASSUME Nat \ S # {} PROVE FALSE
  OBVIOUS
<1> DEFINE R == OpToRel(<, Nat)
<1>1. IsWellFoundedOn(R, Nat)
  BY NatLessThanWellFounded, Zenon
<1>2. \A x, y \in Nat : x < y => <<x, y>> \in R
  BY DEF OpToRel
<1> HIDE DEF R
<1>3. PICK x \in Nat \ S : \A y \in Nat \ S : <<y, x>> \notin R
  BY <1>1, WFMin
<1>4. x # 0 /\ x - 1 \in Nat /\ x - 1 < x
  BY <1>3, SMT
<1>5. x - 1 \in S
  BY <1>2, <1>3, <1>4
<1>6. (x - 1) + 1 \in S
  BY <1>4, <1>5
<1>7. (x - 1) + 1 = x
  BY <1>3, SMT
<1> QED
  BY <1>3, <1>6, <1>7

\* A function that starts with a value and takes the steps of another one.
TakesSteps(g, a, step) == g[0] = a /\ \A n \in Nat : g[n + 1] = step[<<n, g[n]>>]

\* There is such a function.
LEMMA RecursionExists ==
  ASSUME NEW S, NEW a \in S, NEW step \in [Nat \X S -> S]
  PROVE  \E g \in [Nat -> S] : TakesSteps(g, a, step)
<1> DEFINE Runs(n, g) == /\ g \in [0..n -> S] /\ g[0] = a
                         /\ \A k \in 0..(n - 1) : g[k + 1] = step[<<k, g[k]>>]
           E == {n \in Nat : \E g : Runs(n, g)}
<1>1. 0 \in E
  <2>1. Runs(0, [k \in 0..0 |-> a])
    OBVIOUS
  <2> QED
    BY <2>1
<1>2. ASSUME NEW n \in Nat, n \in E PROVE n + 1 \in E
  <2>1. PICK g : Runs(n, g)
    BY <1>2
  <2> DEFINE h == [k \in 0..(n + 1) |-> IF k = n + 1 THEN step[<<n, g[n]>>] ELSE g[k]]
  <2>2. g[n] \in S
    BY <2>1
  <2>3. <<n, g[n]>> \in Nat \X S
    BY <2>2
  <2>4. step[<<n, g[n]>>] \in S
    BY <2>3
  <2>5. h \in [0..(n + 1) -> S]
    BY <2>1, <2>4
  <2>6. h[0] = a
    BY <2>1
  <2>7. ASSUME NEW k \in 0..((n + 1) - 1) PROVE h[k + 1] = step[<<k, h[k]>>]
    <3>1. CASE k = n
      <4>1. h[k + 1] = step[<<n, g[n]>>]  BY <3>1
      <4>2. h[k] = g[n]  BY <3>1
      <4> QED  BY <3>1, <4>1, <4>2
    <3>2. CASE k # n
      <4>1. k \in 0..(n - 1)  BY <3>2
      <4>2. h[k + 1] = g[k + 1] /\ h[k] = g[k]  BY <4>1
      <4>3. g[k + 1] = step[<<k, g[k]>>]  BY <2>1, <4>1
      <4> QED  BY <4>2, <4>3
    <3> QED  BY <3>1, <3>2
  <2>8. Runs(n + 1, h)
    <3> HIDE DEF h
    <3> QED  BY <2>5, <2>6, <2>7
  <2>9. \E x : Runs(n + 1, x)
    <3> HIDE DEF h, Runs
    <3> QED  BY <2>8
  <2> QED
    BY <2>9
<1>3. Nat \subseteq E
  <2> HIDE DEF E
  <2> QED  BY <1>1, <1>2, InductionSet
<1> DEFINE G(n) == CHOOSE g : Runs(n, g)
<1>4. ASSUME NEW n \in Nat PROVE Runs(n, G(n))
  <2>1. \E g : Runs(n, g)
    BY <1>3
  <2> HIDE DEF Runs
  <2> QED  BY <2>1
<1>5. ASSUME NEW n \in Nat, NEW g, NEW h, Runs(n, g), Runs(n + 1, h) PROVE g[n] = h[n]
  <2> DEFINE F == {k \in Nat : k <= n => g[k] = h[k]}
  <2>1. 0 \in F
    BY <1>5
  <2>2. ASSUME NEW k \in Nat, k \in F PROVE k + 1 \in F
    <3> SUFFICES ASSUME k + 1 <= n PROVE g[k + 1] = h[k + 1]
      OBVIOUS
    <3>1. g[k] = h[k]  BY <2>2
    <3>2. k \in 0..(n - 1) /\ k \in 0..((n + 1) - 1)  OBVIOUS
    <3>3. g[k + 1] = step[<<k, g[k]>>]  BY <1>5, <3>2
    <3>4. h[k + 1] = step[<<k, h[k]>>]  BY <1>5, <3>2
    <3> QED  BY <3>1, <3>3, <3>4
  <2>3. Nat \subseteq F
    <3> HIDE DEF F
    <3> QED  BY <2>1, <2>2, InductionSet
  <2> QED  BY <2>3
<1> DEFINE f == [n \in Nat |-> G(n)[n]]
<1>6. f \in [Nat -> S]
  <2> SUFFICES ASSUME NEW n \in Nat PROVE G(n)[n] \in S
    OBVIOUS
  <2>1. Runs(n, G(n))
    BY <1>4
  <2> HIDE DEF G
  <2> QED  BY <2>1
<1>7. f[0] = a
  <2>1. Runs(0, G(0))
    <3> HIDE DEF G, Runs
    <3> QED  BY <1>4
  <2> HIDE DEF G
  <2> QED  BY <2>1
<1>8. ASSUME NEW n \in Nat PROVE f[n + 1] = step[<<n, f[n]>>]
  <2>1. Runs(n, G(n)) /\ Runs(n + 1, G(n + 1)) /\ n + 1 \in Nat
    <3> HIDE DEF G, Runs
    <3>1. n + 1 \in Nat  OBVIOUS
    <3> QED  BY <1>4, <3>1
  <2> HIDE DEF G
  <2>2. G(n)[n] = G(n + 1)[n]
    BY <1>5, <2>1
  <2>3. G(n + 1)[n + 1] = step[<<n, G(n + 1)[n]>>]
    BY <2>1
  <2> QED  BY <2>1, <2>2, <2>3
<1> HIDE DEF f
<1> QED
  BY <1>6, <1>7, <1>8 DEF TakesSteps
==============================================================================
