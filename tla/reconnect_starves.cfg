SPECIFICATION FairSpec
CONSTANTS
  Scheme = "ws"
  HeartbeatPeriod = 2
  ReconnectDelay = 2
  WriteTimeout = 1
  MaxResolves = 2
  MaxSuspended = 1
  MaxAppWrites = 0
PROPERTIES
  ScheduledReconnectRuns
