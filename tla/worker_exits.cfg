\* One call of the storage fails.
CONSTANTS
  Worker <- TwoWorkers
  NoWorker <- Nobody
  Topology = {t1}
  LeaderTimeout = 0
  WorkerTimeout = 1
  MaxAge = 2
  MaxMessages = 1
  Sends <- Commands
  Me = 1
  Proxy = {1, 2}
  CheckPeriod = 2
  WorkerFailures = {"storage"}
  MaxFailures = 1
  Orders = {"assign", "other", "take", "stop", "kill", "dead", "delete", "dormant", "signal"}
  MaxOrders = 0
SPECIFICATION FairWorkerSpec
PROPERTY ShutdownEnds
CHECK_DEADLOCK FALSE
