\* Nothing fails; the child is stopped by signals, the worker and kills.
CONSTANTS
  Signals = {"SIGINT", "SIGTERM"}
  Failures = {}
  MaxCalls <- WorkersCalls
  ExitOvertakes = FALSE
SPECIFICATION ProxySpec
INVARIANT QuietEnd
CHECK_DEADLOCK FALSE
