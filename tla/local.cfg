SPECIFICATION FairSpec
CONSTANTS
  SpoutOrder <- SpoutOrderDef
  BoltOrder <- BoltOrderDef
  Modules <- ModulesDef
  Graphs <- GraphsDef
  Parallel = {"b1"}
  MaxPumps = 2
  Failures = {"context", "init", "next", "receive", "heartbeat", "shutdown"}
INVARIANTS
  LocalTypeOK
  OneAtATime
  AcksAreComplete
  QueuesMove
PROPERTIES
  BoltsFinishFirst
  ShutdownAnswers
  Drains
CHECK_DEADLOCK FALSE
