\* Checksums on, three levels that roll up; crashes and power losses anywhere.
CONSTANTS
  L1Cap = 2
  L2Cap = 2
  L3Cap = 1
  EnableCrc = TRUE
  AutoRecover = TRUE
  MaxNow = 3
  MaxSamples = 2
SPECIFICATION Spec
INVARIANTS TypeOK DirtyCovers VerifiedRingIsWhole SignaturesInv
PROPERTIES CleanRestartKeepsImage
CHECK_DEADLOCK FALSE
