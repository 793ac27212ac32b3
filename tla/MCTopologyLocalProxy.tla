------------------------ MODULE MCTopologyLocalProxy ------------------------
EXTENDS TopologyLocalProxy

EveryCall == [m \in Method |-> 1]

\* Shutdown twice, and no pause: the worker never calls it.
WorkersCalls ==
  [m \in Method |->
     IF m = "shutdown" THEN 2 ELSE IF m = "pause" THEN 0 ELSE 1]
=============================================================================
