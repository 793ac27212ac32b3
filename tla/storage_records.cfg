\* Two workers and one topology under every call.
CONSTANTS
  Worker <- TwoWorkers
  NoWorker <- Nobody
  Topology = {t1}
  LeaderTimeout = 0
  WorkerTimeout = 1
  MaxAge = 2
  MaxMessages = 1
  Sends <- NoSends
SPECIFICATION StorageSpec
CONSTRAINT MessagesAlone
INVARIANTS TypeOK HistoryIsCurrent ActiveHasWorker AtMostOneLeader
PROPERTY LiveLeaderKeepsOffice
