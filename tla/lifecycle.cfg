SPECIFICATION FairSpec
CONSTANTS
  NSections = 3
INVARIANTS
  TypeOK
  DisksServed
  CrashCause
  FreedDisksGone
PROPERTIES
  ProbeWaitEnds
  
