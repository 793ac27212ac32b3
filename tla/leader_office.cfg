\* Two workers and their leadership; no topologies.
CONSTANTS
  Worker <- TwoWorkers
  NoWorker <- Nobody
  Topology = {}
  LeaderTimeout = 1
  WorkerTimeout = 2
  IdleInterval = 2
  MessageInterval = 3
  MaxAge = 3
  MaxMessages = 1
  Sends <- NoSends
  Rebalances = FALSE
  Clearable = {}
  Reported = {"running"}
  Disabling = FALSE
  Disruptions = {"crash", "close", "disable", "fail", "late"}
  MaxDisruptions = 2
SPECIFICATION FairLeaderSpec
INVARIANTS LeaderTypeOK RecordedLeaderServes
PROPERTY LeadershipSettles
