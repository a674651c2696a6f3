\* The number of valid entries, as the comment in reader.c states it.
CONSTANTS
  Readers = {r1}
  r1 = r1
  Words = 1
  Capacity = 3
  MaxCount = 3
  MaxWrites = 5
  StaleAge = 0
  BeginFence = TRUE
  CanCrash = FALSE
SPECIFICATION Spec
INVARIANTS FilledCountsValidEntries
