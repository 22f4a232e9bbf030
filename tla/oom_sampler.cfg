SPECIFICATION FairSpec
CONSTANTS
  u1 = u1
  u2 = u2
  v1 = v1
  proc1 = proc1
  proc2 = proc2
  oomk = oomk
  Oomk = main
  Callers = {main, u1, u2, v1}
  Procs = {oomk, proc1, proc2}
  ProcOf <- MCProcOf
  NoCaller = NoCaller
  Stale = Stale
  MapMax = 2
  MaxMissed = 2
INVARIANTS
  PointersLive
PROPERTIES
  OwnStructDecides
  FlagFollowsRam
