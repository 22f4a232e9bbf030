SPECIFICATION FairSpec
CONSTANTS
  NTapes = 2
  TapeBlocks = 2
  MaxSgEntries = 4
  Requests <- GoodRequests
  NSections = 1
  IoFaults = FALSE
  Threads = {t1}
  Signals = FALSE
  AllocFails = FALSE
  Spurious = FALSE
  MaxEjects = 1
INVARIANTS
  EndedOnce
PROPERTIES
  DiskSpec
  EjectsReturn
