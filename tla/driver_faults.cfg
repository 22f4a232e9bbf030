SPECIFICATION Spec
CONSTANTS
  NTapes = 2
  TapeBlocks = 2
  MaxSgEntries = 4
  Requests <- AllRequests
  NSections = 1
  IoFaults = TRUE
  Threads = {t1, t2}
  Signals = TRUE
  AllocFails = TRUE
  Spurious = TRUE
  MaxEjects = 2
INVARIANTS
  TypeOK
  TapeTracked
  NoTapeOnlyForEject
  RequestContiguous
  OkMeansTransferred
  EjectsCovered
PROPERTY BusyQueueOnlyGrows
CHECK_DEADLOCK FALSE
