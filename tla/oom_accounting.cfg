SPECIFICATION Spec
CONSTANTS
  Threads = {t1, t2}
  ProcOf <- MCProcOf
  Elems = {e1}
  NoKey = NoKey
  NoElem = NoElem
  Kinds = {"write", "spawn"}
  Sizes = {1, 2}
  Threshold = 2
  Width = 3
  MaxEvents = 3
SYMMETRY Interchangeable
INVARIANTS
  TypeOK
  AccountingExact
  NeverOvercharged
  DeadForgotten
PROPERTIES
  KillJustified
  KilledInTime
