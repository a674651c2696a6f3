\* One client with either update interval; samples are fresh for two seconds,
\* so a daemon that writes every second is never stale.
CONSTANTS
  Conns = {c1}
  c1 = c1
  MaxConnections = 1
  AuthOn = TRUE
  AuthTimeout = 1
  HeaderTimeout = 1
  SoftLimit = 2
  HardLimit = 3
  StaleAge = 2
  WatchPeriod = 1
  Pushes = {1, 2}
  LongAgo = 2
  MaxAge = 6
  MaxLag = 1
  MaxBatch = 1
SPECIFICATION FairSpec
PROPERTIES RecoveryIsNoticed DrainingCloses StreamGoesOn
