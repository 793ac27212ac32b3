\* Two workers with a message each.
CONSTANTS
  Worker <- TwoWorkers
  NoWorker <- Nobody
  Topology = {t1}
  LeaderTimeout = 0
  WorkerTimeout = 1
  MaxAge = 2
  MaxMessages = 1
  Sends <- StartMessage
SPECIFICATION StorageSpec
PROPERTY OnlyOwnMessagesAreRead
