-------------------------- MODULE MCMemoryStorage --------------------------
(* Values of the constants of MemoryStorage for its runs.                   *)
EXTENDS MemoryStorage

Nobody == 0
OneWorker == {1}
TwoWorkers == {1, 2}
ThreeWorkers == {1, 2, 3}

NoSends == {}

\* Bound of storage_records: a message is followed on its way only while the
\* workers are alive and none leads or applies for it; no method that handles
\* messages looks at either.
MessagesAlone ==
  (\E w \in Addressee : messages[w] # << >>) =>
     \A w \in DOMAIN workers : workers[w].status = "alive" /\ workers[w].lstatus = "normal"
StartMessage == {Message("start_topologies", Topology, MaxAge)}
=============================================================================
