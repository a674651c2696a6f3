\* Two clients of a gateway with a token, every timeout one second, one frame a turn.
CONSTANTS
  Conns = {c1, c2}
  c1 = c1
  c2 = c2
  MaxConnections = 2
  AuthOn = TRUE
  AuthTimeout = 1
  HeaderTimeout = 1
  SoftLimit = 1
  HardLimit = 2
  StaleAge = 1
  WatchPeriod = 1
  Pushes = {1}
  LongAgo = 1
  MaxAge = 5
  MaxLag = 1
  MaxBatch = 1
SPECIFICATION Spec
INVARIANTS TypeOK DataNeedsToken TokenInTime WatchdogInTime
