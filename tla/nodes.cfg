SPECIFICATION NodesSpec
CONSTANTS
  SplitValues = {"x", "y"}
  MaxLines = 3
  MaxWrites = 2
  MaxHalves = 7
  FailingZips <- MCFailingZips
  BucketKeys = {"x", "y"}
  SplitPeriod = 2
  MaxTimestamp = 5
  MaxRecords = 3
  Messages <- MCMessages
  Granularity = 2
  MaxTs = 4
  MaxMessages = 3
  NumWorkers = 3
  NumTopologies = 3
  Weights = {1, 2, 3}
  Affinities <- MCAffinities
  AffinityFactor = 5
  StopScores = {0, 2}
  MaxStarts = 4
  HighWater = 3
  LowWater = 2
  ReadAhead = 2
  MaxQueueLen = 1
  MaxRequests = 2
  MaxTuples = 7
  RepeatAfter = 2
  MaxClock = 7
  MaxCommands = 2
  VariableNames <- MCVariableNames
  Symbols <- MCSymbols
  Configs <- MCConfigs
INVARIANTS
  NothingLost
  ShutdownSaves
  ArchivedInPeriod
  AggregatesAreComplete
  RebalanceSettles
  RestarterObeys
  EmittedInOrder
  QueueStaysBounded
  TasksAreSpaced
  CallsArrive
  CompilerResolves
PROPERTY
  MovesEvenTheLoad
CHECK_DEADLOCK FALSE
