SPECIFICATION Spec
CONSTANTS
  NTapes = 3
  TapeBlocks = 3
  MaxSgEntries = 4
  Inputs <- AllInputs
INVARIANTS
  TypeOK
  PlacementExact
  Accounting
  TransfersFit
CHECK_DEADLOCK FALSE
