\* A message cannot be sent to the child.
CONSTANTS
  Signals = {}
  Failures = {"channel"}
  MaxCalls <- WorkersCalls
  ExitOvertakes = TRUE
SPECIFICATION ProxySpec
INVARIANT ErrorsKill
CHECK_DEADLOCK FALSE
