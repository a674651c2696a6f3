\* Recovery after a crash, as the documentation states it.
CONSTANTS
  L1Cap = 1
  L2Cap = 1
  L3Cap = 1
  EnableCrc = TRUE
  AutoRecover = TRUE
  MaxNow = 5
  MaxSamples = 3
SPECIFICATION Spec
PROPERTIES HistorySurvivesRestart
CHECK_DEADLOCK FALSE
