-------------------------- MODULE MCTopologyLeader --------------------------
(* Values of the constants of TopologyLeader for its runs.                  *)
EXTENDS TopologyLeader

Nobody == 0
OneWorker == {1}
TwoWorkers == {1, 2}
NoSends == {}
=============================================================================
