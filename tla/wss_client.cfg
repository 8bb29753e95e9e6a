SPECIFICATION FairSpec
CONSTANTS
  Scheme = "wss"
  HeartbeatPeriod = 3
  ReconnectDelay = 3
  WriteTimeout = 2
  MaxResolves = 2
  MaxSuspended = 2
  MaxAppWrites = 1
PROPERTIES
  TlsFailureReschedules
