\* Two workers and one topology; a worker crashes.
CONSTANTS
  Worker <- TwoWorkers
  NoWorker <- Nobody
  Topology = {t1}
  LeaderTimeout = 1
  WorkerTimeout = 2
  IdleInterval = 2
  MessageInterval = 3
  MaxAge = 3
  MaxMessages = 1
  Sends <- NoSends
  Rebalances = FALSE
  Clearable = {}
  Reported = {"running", "unassigned"}
  Disabling = FALSE
  Disruptions = {"crash"}
  MaxDisruptions = 1
SPECIFICATION LeaderSpec
PROPERTY StartsAreOwn
INVARIANT UnloadedIsEmpty
