-------------------------- MODULE MCTopologyWorker --------------------------
(* Values of the constants of TopologyWorker for its runs.                  *)
EXTENDS TopologyWorker

Nobody == 0
TwoWorkers == {1, 2}
NoSends == {}
Commands ==
  {Message(cmd, {}, MaxAge) : cmd \in {"set_disabled", "set_enabled", "shutdown"}}
=============================================================================
