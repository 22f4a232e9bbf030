SPECIFICATION Spec
CONSTANTS
  NTapes = 1
  TapeBlocks = 1
  MaxSgEntries = 4
  Requests <- OneBlock
  NSections = 2
  IoFaults = TRUE
  Threads = {t1}
  Signals = TRUE
  AllocFails = TRUE
  Spurious = TRUE
  MaxEjects = 1
INVARIANTS
  QueueMatchesDevice
  SnapshotStillTrue
CHECK_DEADLOCK FALSE
