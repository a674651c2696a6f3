CONSTANTS
  \* ring: the C11 orders alone, three slots, of which a read copies up to two
  Readers = {reader1}
  reader1 = reader1
  Words = 2
  Capacity = 3
  MaxCount = 2
  MaxWrites = 4
  StaleAge = 0
  BeginFence = FALSE
  CanCrash = TRUE
  \* client: two calls of connect, three sockets at a time, retries with and
  \* without a limit
  Sockets = {s1, s2, s3}
  s1 = s1
  s2 = s2
  s3 = s3
  Limits = {0, 1}
  MaxCalls = 2
  RetryCap = 2
  \* session: two charts on two levels, two connections
  Places = {c1, c2}
  c1 = c1
  c2 = c2
  Levels = {1, 2}
  L1 = 1
  MaxSessions = 2
  MaxQueue = 2
  MaxAnswers = 1
  \* charts
  MaxSamples = 3
  Batch = 3
  RingCap = 3
  Wanted = 4
  Windows = {1, 2}
  WheelStep = 1
  MaxTime = 5
  MaxPipe = 1
  MaxConnects = 2
  \* alerts
  Samples <- MCSamples
  BarMetrics = {"cpu"}
  BarInfo = {"hostname"}
  Ttl = 2
  \* instruments
  Readings = {1, 2, 3}
  GaugeOrder = {"cpu", "net"}
  ShownGauges = {"cpu", "net"}
  HistorySize = 2
  MaxLog = 2
  Intervals = {1, 2}
  \* scene
  Heights = {1, 2, 3}
  HistoryDepth = 2
  MaxSamplesOf = 2
  Disks <- MCDisks
  Cells = 10
  MaxLoops = 2
  \* theme
  Providers = {p1, p2}
  p1 = p1
  p2 = p2
  Presets = {"terminal", "dark"}
  Default <- MCDefault
  \* wire: levels with fewer entries than fill the buffer, or more
  Fills = {0, 26, 60}
  Wishes = {0, 60}
  \* collector
  Traffic = {1, 3}
  MaxBytes = 5
  FirstTime = 2
  LastTime = 4
  \* loop: rings that wrap, polls that come late or twice in an instant, and a
  \* wall clock that is stepped by several periods
  L1Cap = 3
  L2Cap = 2
  L3Cap = 1
  L2Every = 2
  L3Every = 3
  SyncEvery = 3
  MaxGap = 2
  MaxStep = 8
  MaxSteps = 1
  Epoch = 9
  MaxClock = 17
  MaxTaken = 6
  \* figures: values and boundaries of the units, the levels and the windows
  Amounts = {0, 1, 2, 5, 99, 200, 201, 2500, 10000}
  Durations = {0, 59, 60, 3599, 3600, 86399, 86400, 90061, 604800, 2592000}
  Heaps = {0, 1023, 1024, 1536, 1048063, 1048575, 1048576, 1073741823, 1073741824}
  Talls = {8, 12, 48, 220}
SPECIFICATION SystemSpec
INVARIANTS SystemTypeOK WholeOrBlank AttemptsWithinCalls NeverStuck StreamingShown LevelFollowsLastChart HistoryIsOfSession ChartInOrder WindowShowsData PopupExplainsLamps BadgeFollowsLastAlert OnePopup ViewsAgree GaugeRange BarsInRange SavedPresetSurvives FramesAreUnderstood NoByteTwice NextDateWithinPeriod TaskNotStarved
PROPERTIES PromiseSettles SessionFills SummariesUpToDate
CHECK_DEADLOCK FALSE
