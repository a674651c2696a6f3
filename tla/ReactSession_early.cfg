\* The first commands of a chart on a connection that wants a token.
CONSTANTS
  Places = {c1}
  c1 = c1
  Levels = {1, 2}
  L1 = 1
  MaxSessions = 1
  MaxQueue = 1
  MaxAnswers = 1
SPECIFICATION SessionSpec
PROPERTIES ChartsWaitForConfig
CHECK_DEADLOCK FALSE
