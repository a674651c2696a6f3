\* Entries of level 2, with a clock that is never stepped.
CONSTANTS
  L1Cap = 6
  L2Cap = 2
  L3Cap = 1
  L2Every = 2
  L3Every = 3
  SyncEvery = 3
  MaxGap = 2
  MaxStep = 4
  MaxSteps = 0
  Epoch = 5
  MaxClock = 13
  MaxTaken = 6
SPECIFICATION LoopSpec
INVARIANTS EntriesShareNoSample
CHECK_DEADLOCK FALSE
