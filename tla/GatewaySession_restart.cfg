\* The daemon comes back on a new file while the gateway keeps the old one.
CONSTANTS
  Conns = {c1}
  c1 = c1
  MaxConnections = 1
  AuthOn = TRUE
  AuthTimeout = 1
  HeaderTimeout = 1
  SoftLimit = 1
  HardLimit = 2
  StaleAge = 1
  WatchPeriod = 1
  Pushes = {1}
  LongAgo = 1
  MaxAge = 5
  MaxLag = 1
  MaxBatch = 1
SPECIFICATION FairSpec
PROPERTIES StaleOnlyUntilRestart
