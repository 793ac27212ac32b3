---------------------------- MODULE LoadBalancer ----------------------------
(***************************************************************************)
(* LoadBalancerEx (util/load_balance.ts) and the two uses the leader makes *)
(* of it: next for topologies without a worker, and rebalance.  Workers    *)
(* and topologies are numbered in the order of their names; the storage    *)
(* lists topologies in that order.                                         *)
(***************************************************************************)
EXTENDS Naturals, FiniteSets

CONSTANTS
  NumWorkers, NumTopologies,
  Weights,          \* weights of topologies
  Affinities,       \* their worker_affinity: sets of workers
  AffinityFactor    \* AFFINITY_FACTOR

ASSUME LoadBalancerAssumption ==
  /\ NumWorkers \in Nat \ {0} /\ NumTopologies \in Nat
  /\ Weights \subseteq Nat \ {0} /\ Affinities \subseteq SUBSET (1..NumWorkers)
  /\ AffinityFactor \in Nat \ {0}

VARIABLES
  alive,       \* the workers that are alive
  topologies,  \* from the topologies that are enabled to their records
  rebalanced   \* the last step was a rebalance

balance_vars == <<alive, topologies, rebalanced>>

NoWorkerYet == 0

BalanceInit ==
  /\ alive \in SUBSET (1..NumWorkers) /\ topologies = << >> /\ rebalanced = FALSE

\* The sum and the product of the values that f has for numbers up to n.
SumTo(f, n) ==
  LET sum[k \in Nat] ==
        IF k = 0 THEN 0 ELSE sum[k - 1] + (IF k \in DOMAIN f THEN f[k] ELSE 0)
  IN  sum[n]

ProductTo(f, n) ==
  LET product[k \in Nat] ==
        IF k = 0 THEN 1 ELSE product[k - 1] * (IF k \in DOMAIN f THEN f[k] ELSE 1)
  IN  product[n]

\* The weights of the topologies of each worker.
LoadOf(placed, w) ==
  SumTo([t \in {u \in DOMAIN placed : placed[u].worker = w} |-> placed[t].weight],
        NumTopologies)

LoadsOf(placed) == [w \in alive |-> LoadOf(placed, w)]

---------------------------------------------------------------------------
(* next: the worker with the least load once the topology is on it, where  *)
(* the affinity makes a load count less; of several the first.             *)

Pull(loads, t, w) ==
  (loads[w] + t.weight) * (IF w \in t.affinity THEN 1 ELSE AffinityFactor)

NextWorker(loads, t) ==
  CHOOSE w \in DOMAIN loads : \A v \in DOMAIN loads \ {w} :
    \/ Pull(loads, t, w) < Pull(loads, t, v)
    \/ Pull(loads, t, w) = Pull(loads, t, v) /\ w < v

\* Fault: the worker's load stays what it was (breaks MovesEvenTheLoad).
WithoutWeight(loads, w, weight) == loads

With(loads, w, weight) == [loads EXCEPT ![w] = @ + weight]

\* sorter: by the number of workers in the affinity, those without affinity
\* last, heavier ones first.
Before(placed, t, u) ==
  LET a == Cardinality(placed[t].affinity)
      b == Cardinality(placed[u].affinity)
  IN  IF a > 0 /\ b > 0 THEN a < b \/ (a = b /\ t < u)
      ELSE IF a > 0 \/ b > 0 THEN a > 0
      ELSE placed[t].weight > placed[u].weight \/ (placed[t].weight = placed[u].weight /\ t < u)

FirstOf(set, placed, sorted) ==
  CHOOSE t \in set : \A u \in set \ {t} : IF sorted THEN Before(placed, t, u) ELSE t < u

PlaceNext(b, sorted) ==
  IF b.left = {} THEN b
  ELSE LET t == FirstOf(b.left, b.placed, sorted)
           w == NextWorker(b.loads, b.placed[t])
       IN  [placed |-> [b.placed EXCEPT ![t].worker = w],
            loads |-> With(b.loads, w, b.placed[t].weight), left |-> b.left \ {t}]

\* The topologies of a set get a worker each, one after the other, sorted or in
\* the order of the storage.
PlaceAll(placed, set, loads, sorted) ==
  LET after[n \in Nat] ==
        IF n = 0 THEN [placed |-> placed, loads |-> loads, left |-> set]
        ELSE PlaceNext(after[n - 1], sorted)
  IN  after[Cardinality(set)]

---------------------------------------------------------------------------
(* rebalance.                                                              *)

\* Fault: the inner load balancer starts with the current loads (breaks
\* RebalanceSettles).
NearOptimalLoaded(placed) ==
  PlaceAll(placed, DOMAIN placed, LoadsOf(placed), TRUE)

\* It places all topologies on empty workers.
NearOptimal(placed) ==
  PlaceAll(placed, DOMAIN placed, [w \in alive |-> 0], TRUE)

\* compareScore: the mean of the ratios of the loads, 100 if one of them is 0 and
\* 0 if they are equal.  It is below 1.5 if the loads are not severely uneven.
SeverelyUneven(ideal, current) ==
  LET Least(w) == IF ideal[w] < current[w] THEN ideal[w] ELSE current[w]
      Most(w) == IF ideal[w] < current[w] THEN current[w] ELSE ideal[w]
      low == [w \in alive |-> IF Least(w) = 0 THEN 1 ELSE Least(w)]
      scale == ProductTo(low, NumWorkers)
      scaled == [w \in alive |->
        IF Least(w) = Most(w) THEN 0
        ELSE IF Least(w) = 0 THEN 100 * scale ELSE Most(w) * (scale \div low[w])]
  IN  2 * SumTo(scaled, NumWorkers) >= 3 * Cardinality(alive) * scale

RebalancedTo(placed) ==
  LET ideal == NearOptimal(placed)
  IN  IF SeverelyUneven(ideal.loads, LoadsOf(placed)) THEN ideal.placed ELSE placed

---------------------------------------------------------------------------
(* The leader.                                                             *)

Enable(t, weight, affinity) ==
  /\ t \notin DOMAIN topologies
  /\ topologies' = [u \in DOMAIN topologies \cup {t} |->
       IF u = t THEN [weight |-> weight, affinity |-> affinity, worker |-> NoWorkerYet]
       ELSE topologies[u]]
  /\ rebalanced' = FALSE /\ UNCHANGED alive

Disable(t) ==
  /\ topologies' = [u \in DOMAIN topologies \ {t} |-> topologies[u]]
  /\ rebalanced' = FALSE /\ UNCHANGED alive

\* The topologies of a dead worker are unassigned.
WorkerDies(w) ==
  /\ alive' = alive \ {w}
  /\ topologies' = [t \in DOMAIN topologies |->
       IF topologies[t].worker = w THEN [topologies[t] EXCEPT !.worker = NoWorkerYet]
       ELSE topologies[t]]
  /\ rebalanced' = FALSE

WorkerJoins(w) ==
  /\ alive' = alive \cup {w}
  /\ rebalanced' = FALSE /\ UNCHANGED topologies

Waiting == {t \in DOMAIN topologies : topologies[t].worker = NoWorkerYet}

\* The loads count the topologies that run already, on alive workers.
AssignWaiting ==
  /\ alive # {} /\ Waiting # {}
  /\ \E running \in SUBSET (DOMAIN topologies \ Waiting) :
       LET loads == LoadsOf([t \in running |-> topologies[t]])
       IN  topologies' = PlaceAll(topologies, Waiting, loads, FALSE).placed
  /\ rebalanced' = FALSE /\ UNCHANGED alive

\* The changes are carried out at once.  In the code the topologies that move
\* are told to stop, and later passes assign them as those that wait.
PerformRebalance ==
  /\ alive # {} /\ DOMAIN topologies # {} /\ Waiting = {}
  /\ topologies' = RebalancedTo(topologies)
  /\ rebalanced' = TRUE /\ UNCHANGED alive

BalanceNext ==
  \/ \E t \in 1..NumTopologies :
       \/ \E weight \in Weights, affinity \in Affinities : Enable(t, weight, affinity)
       \/ t \in DOMAIN topologies /\ Disable(t)
  \/ \E w \in 1..NumWorkers :
       \/ w \in alive /\ WorkerDies(w)
       \/ w \notin alive /\ WorkerJoins(w)
  \/ AssignWaiting
  \/ PerformRebalance

BalanceSpec == BalanceInit /\ [][BalanceNext]_balance_vars

---------------------------------------------------------------------------
(* Properties.                                                             *)

\* A rebalance asks for nothing when it comes right after another one: the
\* leader does not move topologies back and forth.
RebalanceSettles == rebalanced => RebalancedTo(topologies) = topologies

\* Topologies without affinity are moved only to a spread of the loads that is at
\* most the weight of one of them, and no load is then higher than the highest
\* one was by more than that.
MovesEvenTheLoad ==
  [][PerformRebalance /\ topologies' # topologies
       /\ (\A t \in DOMAIN topologies : topologies[t].affinity = {})
     => LET before == LoadsOf(topologies)
            after == LoadsOf(topologies')
        IN  \A v, w \in alive : \E t \in DOMAIN topologies :
              /\ after[v] <= after[w] + topologies[t].weight
              /\ \E u \in alive : after[v] <= before[u] + topologies[t].weight]_balance_vars
=============================================================================
