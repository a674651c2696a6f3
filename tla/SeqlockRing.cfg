\* Three slots and five samples: the ring wraps and the first slots are
\* overwritten while the reader copies; histories of two entries of two words.
CONSTANTS
  Readers = {r1}
  r1 = r1
  Words = 2
  Capacity = 3
  MaxCount = 2
  MaxWrites = 5
  StaleAge = 0
  BeginFence = TRUE
  CanCrash = TRUE
SPECIFICATION FairSpec
INVARIANTS TypeOK NoTornRead LockInv
PROPERTIES ImplementsAtomicRing QuietReadsReturn
CHECK_DEADLOCK FALSE
