SPECIFICATION FairSpec
CONSTANTS
  Ctxs = {c1, c2}
  Threads = {t1, t2}
  Buffers = {b1, b2}
  NoBuf = NoBuf
  NoCtx = NoCtx
  MaxChunks = 2
INVARIANTS
  TypeOK
  PoolConserved
  HardwareFollows
  SumChain
  PendingExact
  NoDangling
PROPERTIES
  ReadComplete
  ReleaseReturns
  SuspendCompletes
