\* One worker that leads itself, and one topology.
CONSTANTS
  Worker <- OneWorker
  NoWorker <- Nobody
  Topology = {t1}
  LeaderTimeout = 1
  WorkerTimeout = 2
  IdleInterval = 2
  MessageInterval = 3
  MaxAge = 3
  MaxMessages = 1
  Sends <- NoSends
  Rebalances = TRUE
  Clearable = {t1}
  Reported = {"running", "unassigned", "error"}
  Disabling = TRUE
  Disruptions = {"crash", "fail", "late"}
  MaxDisruptions = 1
SPECIFICATION FairLeaderSpec
PROPERTY UnassignedAreAssigned
