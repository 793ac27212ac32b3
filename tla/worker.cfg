\* One worker, one topology that it may start twice, and its environment.
CONSTANTS
  Worker <- TwoWorkers
  NoWorker <- Nobody
  Topology = {t1}
  LeaderTimeout = 0
  WorkerTimeout = 1
  MaxAge = 2
  MaxMessages = 2
  Sends <- Commands
  Me = 1
  Proxy = {1, 2}
  CheckPeriod = 2
  WorkerFailures = {"leader", "child", "compile"}
  MaxFailures = 0
  Orders = {"assign", "other", "take", "stop", "kill", "dead", "delete", "dormant", "signal"}
  MaxOrders = 1
SPECIFICATION FairWorkerSpec
INVARIANTS WorkerTypeOK ChildrenAreListed MessagesHaveAddressee
PROPERTIES MessagesInOrder MismatchesAreResolved ShutdownEnds
CHECK_DEADLOCK FALSE
