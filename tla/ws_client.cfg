SPECIFICATION FairSpec
CONSTANTS
  Scheme = "ws"
  HeartbeatPeriod = 3
  ReconnectDelay = 3
  WriteTimeout = 1
  MaxResolves = 2
  MaxSuspended = 2
  MaxAppWrites = 0
INVARIANTS
  RecoveryPending
  PingsApartUntilClose
  IInv
PROPERTIES
  OneConnectPerLoss
  ImplementsReconnectLoop
  HandlersDrain
  NeverQuiet
  QuietReconnect
