SPECIFICATION FairSpec
CONSTANTS
  NTapes = 1
  TapeBlocks = 1
  MaxSgEntries = 4
  Requests <- OneBlock
  NSections = 2
  IoFaults = FALSE
  Threads = {t1}
  Signals = FALSE
  AllocFails = FALSE
  Spurious = FALSE
  MaxEjects = 0
PROPERTY RequestsEnd
CHECK_DEADLOCK FALSE
