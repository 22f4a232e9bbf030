SPECIFICATION Spec
CONSTANTS
  NTapes = 1
  TapeBlocks = 1
  MaxSgEntries = 4
  Requests <- OneBlock
  NSections = 1
  IoFaults = FALSE
  Threads = {t1, t2}
  Signals = FALSE
  AllocFails = FALSE
  Spurious = FALSE
  MaxEjects = 2
INVARIANT EjectsPaired
CHECK_DEADLOCK FALSE
