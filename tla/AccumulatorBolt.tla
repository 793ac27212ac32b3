--------------------------- MODULE AccumulatorBolt ---------------------------
(***************************************************************************)
(* AccumulatorBolt (std_nodes/accumulator_bolt.ts): the values of each     *)
(* metric are counted in a tree with a node for every set of tags they     *)
(* carry.  The first message of a later period makes the bolt emit what it *)
(* has, period by period, and waits for it.                                *)
(* An average is kept as the sum; the tags of a message, which add sorts,  *)
(* are a set of numbers.  A tree is a function from the paths of its       *)
(* nodes, which are the names of the aggregates: from the root of a Node   *)
(* sets of tags, from that of a PartitionNode sequences of partition tags. *)
(***************************************************************************)
EXTENDS Integers, Sequences, FiniteSets

CONSTANTS
  Messages,      \* what the bolt is given: [ptags, tags, values]
  Granularity,
  MaxTs,         \* bound on the timestamps
  MaxMessages    \* bound

\* Rec compares values with the least positive number and the greatest one.
MIN_VALUE == 1
MAX_VALUE == 1000

ASSUME AccumulatorAssumption ==
  /\ Granularity \in Nat \ {0} /\ MaxTs \in Nat /\ MaxMessages \in Nat
  /\ \A msg \in Messages :
       /\ msg.tags \subseteq Nat /\ IsFiniteSet(msg.tags)
       /\ \A f \in DOMAIN msg.values : msg.values[f] \in Int /\ msg.values[f] <= MAX_VALUE

VARIABLES
  emit_zero_counts,
  partitioned,   \* either every message has partition tags or none has
  last_ts,       \* the period being counted, or NoTs
  accumulators,  \* from metrics to PartitionNodes
  sends,         \* calls of receive that wait for sendAggregates
  emitted,       \* the aggregates that were sent
  handed,        \* messages given to the bolt, as [id, ts, msg]
  counted,       \* messages counted: [in, into], the period they went into
  failed         \* reset threw an exception, or a call of receive was answered by an error

accumulator_vars == <<emit_zero_counts, partitioned, last_ts, accumulators, sends,
                      emitted, handed, counted, failed>>

NoTs == -1
PeriodOfTs(ts) == ts \div Granularity

---------------------------------------------------------------------------
(* Rec.                                                                    *)

NewRec == [count |-> 0, sum |-> 0, min |-> MAX_VALUE, max |-> MIN_VALUE]

RecAdd(rec, val) ==
  [count |-> rec.count + 1, sum |-> rec.sum + val,
   min |-> IF rec.min > val THEN val ELSE rec.min,
   max |-> IF rec.max < val THEN val ELSE rec.max]

\* Of a Rec without values the count is reported; the rest is null.
RecReport(rec) == IF rec.count > 0 THEN rec ELSE [count |-> 0]

(* Node.                                                                   *)

NewNode == [at \in {{}} |-> NewRec]

\* The nodes add comes to: from each it goes on with all tags that come later.
Visited(tags) ==
  LET visited[n \in Nat] ==
        IF n = 0 THEN {{}}
        ELSE LET before == visited[n - 1]
             IN  before \cup UNION {{at \cup {t} : t \in {u \in tags : \A w \in at : w < u}} :
                                   at \in before}
  IN  visited[Cardinality(tags)]

NodeAdd(node, val, tags) ==
  LET Data(at) == IF at \in DOMAIN node THEN node[at] ELSE NewRec
      visited == Visited(tags)
  IN  [at \in DOMAIN node \cup visited |->
         IF at \in visited THEN RecAdd(Data(at), val) ELSE Data(at)]

NodeReport(node, ptags) ==
  {[ptags |-> ptags, tags |-> at, stats |-> RecReport(node[at])] : at \in DOMAIN node}

NodeReset(node) == [at \in DOMAIN node |-> NewRec]

(* PartitionNode: the Nodes there are in its tree.                         *)

NewPartition == << >>

PartitionAdd(p, val, ptags, tags) ==
  [q \in DOMAIN p \cup {ptags} |->
     IF q = ptags THEN NodeAdd(IF q \in DOMAIN p THEN p[q] ELSE NewNode, val, tags) ELSE p[q]]

Below(q, r) == Len(q) < Len(r) /\ SubSeq(r, 1, Len(q)) = q

\* A partition with a Node reports that Node and does not look below.
PartitionReport(p) ==
  UNION {NodeReport(p[q], q) : q \in {r \in DOMAIN p : \A over \in DOMAIN p : ~Below(over, r)}}

\* The partitions below are looked up as properties of the Map, where they are not.
ResetThrows(p) == \E q \in DOMAIN p : q # << >>

\* Fault: the nodes below are not reset (breaks AggregatesAreComplete).
PartitionResetAtTop(p) == [q \in DOMAIN p |-> [p[q] EXCEPT ![{}] = NewRec]]

PartitionReset(p) == [q \in DOMAIN p |-> NodeReset(p[q])]

---------------------------------------------------------------------------
AccumulatorInit ==
  /\ emit_zero_counts \in BOOLEAN /\ partitioned \in BOOLEAN
  /\ last_ts = NoTs /\ accumulators = << >>
  /\ sends = {} /\ emitted = {} /\ handed = {} /\ counted = {} /\ failed = FALSE

\* The report of sendAggregates.
Aggregates(accs, period) ==
  UNION {{[metric |-> f, period |-> period, at |-> a] : a \in PartitionReport(accs[f])} :
         f \in DOMAIN accs}

\* The second step of receive: every metric is added to its accumulator.
Count(h, accs, period) ==
  LET values == h.msg.values
      Of(f) == IF f \in DOMAIN accs THEN accs[f] ELSE NewPartition
  IN  /\ accumulators' = [f \in DOMAIN accs \cup DOMAIN values |->
           IF f \in DOMAIN values
           THEN PartitionAdd(Of(f), values[f], h.msg.ptags, h.msg.tags) ELSE Of(f)]
      /\ counted' = counted \cup {[in |-> h, into |-> period]}

\* catchUpTimestamp: send once more, or go on.
CatchUp(h, accs, period, others) ==
  IF PeriodOfTs(h.ts) > period
  THEN /\ sends' = others \cup {[in |-> h, report |-> Aggregates(accs, period)]}
       /\ accumulators' = accs /\ UNCHANGED counted
  ELSE /\ sends' = others /\ Count(h, accs, period)

\* The bolt's wrapper, without allow_parallel: one call at a time, and none after
\* one that failed.
AcceptsMessage == ~failed /\ sends = {}

MetricReceive(msg, ts) ==
  /\ AcceptsMessage /\ Cardinality(handed) < MaxMessages
  /\ partitioned <=> msg.ptags # << >>
  /\ LET h == [id |-> Cardinality(handed), ts |-> ts, msg |-> msg]
         first == IF last_ts = NoTs THEN PeriodOfTs(ts) ELSE last_ts
     IN  /\ handed' = handed \cup {h}
         /\ last_ts' = first
         /\ CatchUp(h, accumulators, first, sends)
  /\ UNCHANGED <<emit_zero_counts, partitioned, emitted, failed>>

\* Every emit was answered: reset, and to the next period.
SendEnds(c) ==
  /\ ~failed
  /\ emitted' = emitted \cup c.report
  /\ IF emit_zero_counts /\ \E f \in DOMAIN accumulators : ResetThrows(accumulators[f])
     THEN failed' = TRUE /\ UNCHANGED <<last_ts, accumulators, sends, counted>>
     ELSE /\ last_ts' = last_ts + 1
          /\ CatchUp(c.in,
               IF emit_zero_counts
               THEN [f \in DOMAIN accumulators |-> PartitionReset(accumulators[f])]
               ELSE << >>,
               last_ts + 1, sends \ {c})
          /\ UNCHANGED failed
  /\ UNCHANGED <<emit_zero_counts, partitioned, handed>>

\* An emit was answered with an error, and so is receive; others may have been sent.
SendFails(c) ==
  /\ ~failed
  /\ \E sent \in SUBSET c.report : emitted' = emitted \cup sent
  /\ sends' = sends \ {c}
  /\ failed' = TRUE
  /\ UNCHANGED <<emit_zero_counts, partitioned, last_ts, accumulators, handed, counted>>

AccumulatorNext ==
  \/ \E msg \in Messages, ts \in 0..MaxTs : MetricReceive(msg, ts)
  \/ \E c \in sends : SendEnds(c) \/ SendFails(c)

AccumulatorSpec == AccumulatorInit /\ [][AccumulatorNext]_accumulator_vars

---------------------------------------------------------------------------
(* Properties.                                                             *)

\* The sum of the values of some counted messages for a metric.
Total(f, set) ==
  LET total[n \in Nat] ==
        IF n = 0 THEN 0
        ELSE total[n - 1] + (IF \E c \in set : c.in.id = n - 1
                             THEN (CHOOSE c \in set : c.in.id = n - 1).in.msg.values[f] ELSE 0)
  IN  total[MaxMessages]

\* Their statistics.
Reference(f, set) ==
  LET vals == {c.in.msg.values[f] : c \in set}
  IN  [count |-> Cardinality(set), sum |-> Total(f, set),
       min |-> CHOOSE v \in vals : \A w \in vals : v <= w,
       max |-> CHOOSE v \in vals : \A w \in vals : v >= w]

\* The messages of a period that have a metric, these partition tags and these
\* tags among others.
CountedAt(e) ==
  {c \in counted : /\ c.into = e.period /\ e.metric \in DOMAIN c.in.msg.values
                   /\ c.in.msg.ptags = e.at.ptags /\ e.at.tags \subseteq c.in.msg.tags}

\* What was emitted for a period and a set of tags are the statistics of the
\* messages of that period that carry them (the maximum where it is positive);
\* every set of tags of every message of a past period was emitted; and a message
\* that is not late counts in the period of its timestamp.
AggregatesAreComplete ==
  /\ \A e \in emitted :
       LET at == CountedAt(e) IN
       IF at = {} THEN e.at.stats = RecReport(NewRec)
       ELSE LET ref == Reference(e.metric, at)
            IN  [e.at.stats EXCEPT !.max = ref.max] = ref
                  /\ (ref.max > 0 => e.at.stats = ref)
  /\ \A c \in counted :
       /\ c.into < last_ts =>
            \A f \in DOMAIN c.in.msg.values, tags \in SUBSET c.in.msg.tags :
              \E e \in emitted : /\ e.metric = f /\ e.period = c.into
                                 /\ e.at.ptags = c.in.msg.ptags /\ e.at.tags = tags
       /\ (\A h \in handed : h.id < c.in.id => h.ts <= c.in.ts)
            => c.into = PeriodOfTs(c.in.ts)
=============================================================================
