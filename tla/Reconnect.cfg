CONSTANTS
  reconnectTimeoutMs = 3
  fixedWaitMs = 0
  shortBackoffMs = 1
  longBackoffMs = 2
  Infinity = Infinity
  Overlaps = {TRUE, FALSE}
  MaxNow = 5
  MaxTimers = 2
SPECIFICATION ReconnectSpec
INVARIANTS ReconnectTypeOK NoStrayRetry
PROPERTIES ImplementsGate 
CHECK_DEADLOCK FALSE
