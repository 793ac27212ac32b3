\* Every call, and every failure.
CONSTANTS
  Signals = {}
  Failures = {"compile", "init", "internal", "shutdown", "crash", "silence", "channel", "parent"}
  MaxCalls <- EveryCall
  ExitOvertakes = TRUE
SPECIFICATION FairProxySpec
INVARIANTS ProxyTypeOK AnsweredOnce
PROPERTY ProxyContract
CHECK_DEADLOCK FALSE
