SPECIFICATION Spec
CONSTANTS
  NTapes = 2
  TapeBlocks = 2
  MaxSgEntries = 4
  Requests <- AllRequests
  NSections = 1
  IoFaults = FALSE
  Threads = {t1}
  Signals = FALSE
  AllocFails = FALSE
  Spurious = FALSE
  MaxEjects = 1
INVARIANT NotForgotten
CHECK_DEADLOCK FALSE
