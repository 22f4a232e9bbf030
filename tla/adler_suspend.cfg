SPECIFICATION Spec
CONSTANTS
  Ctxs = {c1}
  Threads = {t1}
  Buffers = {b1, b2}
  NoBuf = NoBuf
  NoCtx = NoCtx
  MaxChunks = 2
INVARIANTS
  SuspendWaits
